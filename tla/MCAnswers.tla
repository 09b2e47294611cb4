----------------------------- MODULE MCAnswers -----------------------------
(***************************************************************************)
(* Small instances of the parts around a reader and its answers: the       *)
(* reader of a CCcam server (CccamReader), the CW cycle check (CwCycle),   *)
(* the ECM rate limiter (RateLimit), and a demuxer of the DVB API          *)
(* (DvbapiDemux).  A behaviour belongs to one of them, the others stay as  *)
(* they begin.                                                             *)
(***************************************************************************)
EXTENDS CccamReader, CwCycle, RateLimit, DvbapiDemux, TLC

CONSTANTS
  e1, e2, c1, c2,   \* ECMs and cards
  a, b, c, d,       \* services
  Parts             \* the parts that run
VARIABLE part

TwoEcms == (1 :> e1) @@ (2 :> e2)
OneServesBoth == {<<c1, e1>>, <<c1, e2>>, <<c2, e1>>}

\* Limits of four services
FourLimits == (a :> 3) @@ (b :> 2) @@ (c :> 2) @@ (d :> 1)

AnswersInit ==
  /\ part \in Parts
  /\ CccamInit
  /\ CycleInit
  /\ RateInit /\ (part # "rate" => ~cooldown)
  /\ DemuxInit /\ (part # "demux" => mode = 0)

\* Only the variables of part p may change.
Only(p) ==
  /\ part = p /\ part' = p
  /\ p # "cccam" => UNCHANGED cccamVars
  /\ p # "cycle" => UNCHANGED cycleVars
  /\ p # "rate"  => UNCHANGED rateVars
  /\ p # "demux" => UNCHANGED demuxVars

AnswersNext ==
  \/ Only("cccam") /\ CccamNext
  \/ Only("cycle") /\ CycleNext
  \/ Only("rate")  /\ RateNext
  \/ Only("demux") /\ DemuxNext

answersVars == <<part, cccamVars, cycleVars, rateVars, demuxVars>>
AnswersSpec == AnswersInit /\ [][AnswersNext]_answersVars

\* Checkers are alike: the threads of the cycle check, and the pids of the demuxer.
Alike == Permutations(Checkers)

\* Bound: what comes after a CW has misled the cycle check is not explored: NotFooled and
\* RightOnesPass do not speak of it.
NotMisled == ~fooled

-----------------------------------------------------------------------------
\* Type invariant of the part that runs; the others are as they begin.
AnswersTypeOK ==
  CASE part = "cccam" -> CccamTypeOK
    [] part = "cycle" -> CycleTypeOK
    [] part = "rate"  -> RateTypeOK
    [] part = "demux" -> DemuxTypeOK
=============================================================================
