---------------------------- MODULE MCEcmStages ----------------------------
(***************************************************************************)
(* Three small instances; a behaviour belongs to one of them, the others   *)
(* stay as they begin.  The first two have the same readers, a             *)
(* cache-exchange, a local and a fallback reader, and double_check.        *)
(*   stages   the EcmRequest its .cfg describes: a cacheex wait time and   *)
(*            local cards preferred, until the fallback timeout is over:   *)
(*            no other timer asks a reader                                 *)
(*   refused  every answer and refusal of the local reader, which may be   *)
(*            unconnected and is not preferred, and the fallback reader,   *)
(*            and clients that leave; nothing is waited for                *)
(*   timers   cw_process and two requests                                  *)
(***************************************************************************)
EXTENDS EcmRequest, EcmReaders, CwProcess

CONSTANTS
  er1, er2,        \* the requests cw_process has to do with
  Parts            \* the instances that run
VARIABLE part

AnyAnswer == INSTANCE EcmRequest WITH
  Selections <- LocalFallAny,
  Answers <- {"found", "notfound", "badcw", "badecm", "invalid", "foreign"},
  Refusals <- {"filter", "limit"},
  PreferLocal <- 0, WaitTime <- FALSE, Mode1Delay <- FALSE, Unreachable <- {local},
  Disconnects <- TRUE, MaxAge <- 4

\* The fallback timeout after half a second, the client timeout after one
HalfSeconds == ("fallback" :> 1) @@ ("ctimeout" :> 2)

StagesInit ==
  /\ part \in Parts
  /\ IF part = "refused" THEN AnyAnswer!Init ELSE Init
  /\ CwpInit /\ (part # "timers" => part2nd = 0)

StagesNext ==
  \/ part = "stages"  /\ Next           /\ UNCHANGED <<part, cwpVars>>
  \/ part = "refused" /\ AnyAnswer!Next /\ UNCHANGED <<part, cwpVars>>
  \/ part = "timers"  /\ CwpNext        /\ UNCHANGED <<part, vars>>

stagesVars == <<part, vars, cwpVars>>
StagesSpec == StagesInit /\ [][StagesNext]_stagesVars

AlikeErs == Permutations(Ers)

-----------------------------------------------------------------------------
\* Type invariant of the part that runs
StagesTypeOK ==
  CASE part = "stages"  -> TypeOK
    [] part = "refused" -> AnyAnswer!TypeOK
    [] part = "timers"  -> CwpTypeOK
=============================================================================
