------------------------------ MODULE MCParts ------------------------------
(***************************************************************************)
(* Small instances of parts that share no state and call each other only   *)
(* through the job queues: a proxy reader's requests (CascEcm), a local    *)
(* reader's card (CardReader), a shared list, the CW cache, the garbage    *)
(* collector, and a lock (RwLock).                                         *)
(*                                                                         *)
(* One of them runs in each behaviour, the others stay as they begin: what *)
(* is reached is the union of what each reaches alone.                     *)
(***************************************************************************)
EXTENDS RwLock, CascEcm, CardReader, Garbage, LinkedList, TLC

CONSTANTS
  q1, q2, q3, ecm1, ecm2,  \* requests and their ECMs
  extra,                       \* one more piece of memory
  Parts                        \* the parts that run

VARIABLES part, signed, cache, event

\* Which request asks for which ECM
TwoAndOne == (q1 :> ecm1) @@ (q2 :> ecm1) @@ (q3 :> ecm2)

\* The nodes are also the CWs, the walkers also the hashes of ECMs.
Cws  == INSTANCE CwCache WITH
          Hashes <- Walkers, Cws <- Nodes, MaxCws <- 2, MaxTime <- 1, CwCheck <- 2,
          Signed <- {TRUE}, MaxCounted <- 3

\* What becomes garbage
Memory == Nodes \cup {extra}

lockVars == vars
cwVars   == <<signed, cache, event>>

PartsInit ==
  /\ part \in Parts
  /\ Init
  /\ CascInit /\ (part # "casc" => proto = "newcamd" /\ ~open)
  /\ CardInit /\ (part # "card" => system = "other" /\ device = "plain" /\ card = "none")
  /\ LlInit
  /\ Cws!Init
  /\ GcInit

\* Only the variables of part p may change.
Only(p) ==
  /\ part = p /\ part' = p
  /\ p # "lock" => UNCHANGED lockVars
  /\ p # "casc" => UNCHANGED cascVars
  /\ p # "card" => UNCHANGED cardVars
  /\ p # "list" => UNCHANGED llVars
  /\ p # "cws"  => UNCHANGED cwVars
  /\ p # "gc"   => UNCHANGED gcVars

PartsNext ==
  \/ Only("lock") /\ Next
  \/ Only("casc") /\ CascNext
  \/ Only("card") /\ CardNext
  \/ Only("list") /\ LlNext
  \/ Only("cws")  /\ Cws!Next
  \/ Only("gc")   /\ GcNext

partsVars == <<part, lockVars, cascVars, cardVars, llVars, cwVars, gcVars>>

PartsSpec == PartsInit /\ [][PartsNext]_partsVars

\* Nodes are alike in the list, the cache and the garbage; Walkers, which are also the
\* requests q1 and q2 for the same ECM, in the list, the cache and CascEcm.
Symmetry == Permutations(Nodes) \cup Permutations(Walkers)

-----------------------------------------------------------------------------
\* Type invariant of the part that runs; the others are as they begin.
PartsTypeOK ==
  CASE part = "lock" -> TypeOK
    [] part = "casc" -> CascTypeOK
    [] part = "card" -> CardTypeOK
    [] part = "list" -> LlTypeOK
    [] part = "cws"  -> Cws!TypeOK
    [] part = "gc"   -> GcTypeOK

\* ncam-cache.c: answers are the CWs most often received, and what is old goes.
MostReceived == part = "cws" => Cws!MostReceived
CacheKept    == []MostReceived /\ Cws!CleanedUp
=============================================================================
