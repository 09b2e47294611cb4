---------------------------- MODULE DvbapiDemux ----------------------------
(***************************************************************************)
(* One demuxer of the DVB API (module-dvbapi.c): which of a program's ECM  *)
(* pids are filtered, and which one descrambles it.  The main thread reads *)
(* the CA PMTs of the host and the sections of the filters, and tries the  *)
(* ECM pids one after the other (request mode 0) or all at once (1); the   *)
(* work thread of the client brings the answers.  Only answers of request  *)
(* mode 1 take a lock, and only against each other.                        *)
(*                                                                         *)
(* An ECM pid is a system, a provider and a pid of the transport stream;   *)
(* that several of them share one of the latter, and that the provider is  *)
(* corrected from the ECM (chk_provid), is left out.  So are descrambling  *)
(* indices and streams, EMM filters, the channel cache, the index of       *)
(* Irdeto ECMs and forced or fake pids.  What the priorities and the       *)
(* readers make of a pid is a choice.                                      *)
(***************************************************************************)
EXTENDS Integers, Sequences, FiniteSets

CONSTANTS
  EcmPids,        \* the ECM pids programs may have
  Modes,          \* the values of dvbapi_requestmode, of {0, 1}
  MaxStatus,      \* bound on the weight of a pid, a natural number
  NoPid           \* stands for no pid

ASSUME DemuxAssumption ==
  /\ IsFiniteSet(EcmPids) /\ NoPid \notin EcmPids
  /\ Modes \subseteq {0, 1} /\ MaxStatus \in Nat

VARIABLES
  mode,           \* dvbapi_requestmode
  on,             \* program_number is not 0
  running,
  count,          \* ECMpidcount
  ECMpids,        \* with their status, checked and tries
  pidindex,       \* of the pid that descrambles, 0 for the code's -1
  curindex,       \* of the pid started last
  filters,        \* the ECM filters of demux_fd: the pid filtered and an index into ECMpids
  answer,         \* what the work thread is about to do with an answer
  stranded,       \* history: pidindex was left without a filter (see below)
  tried           \* history: the pids started since the last sorting, in mode 0

demuxVars == <<mode, on, running, count, ECMpids, pidindex, curindex, filters, answer, stranded,
             tried>>

MaxPids == Cardinality(EcmPids)
Blank   == [pid |-> NoPid, status |-> 0, checked |-> 0, tries |-> "used"]
Unused  == [n \in 1 .. MaxPids |-> Blank]
Idle    == [pid |-> NoPid, at |-> 0, rc |-> "found"]
Usable(e, k) == {n \in 1 .. k : e[n].status >= 0}

\* The ECMs of the pid listed at j come through a filter and are known to be its.
Filtered(j) == j <= count /\ \E f \in filters : f.at = j /\ f.pid = ECMpids[j].pid

\* A step that ends or misleads a filter without a look at pidindex
MayStrand == stranded' = (pidindex' # 0 /\ (stranded \/ ~Filtered(pidindex)'))
Keeps   == stranded' = (pidindex' # 0 /\ stranded)

-----------------------------------------------------------------------------
\* dvbapi_resort_ecmpids gives every pid a weight; pids without one wait for the run
\* without priorities.
Sorted(e, k) ==
  {[n \in 1 .. MaxPids |->
      IF n > k THEN e[n]
      ELSE [e[n] EXCEPT !.status = w[n], !.checked = IF w[n] = 0 THEN 2 ELSE 0,
                        !.tries = "fresh"]]
   : w \in [1 .. k -> -1 .. MaxStatus]}

\* The pids whose checked is c, those with the most weight first
Candidates(e, k, c) == {n \in Usable(e, k) : e[n].checked = c}
Precedes(e, m, n) == e[m].status > e[n].status \/ (e[m].status = e[n].status /\ m < n)

\* Of the candidates the pids in got have a matching reader; in request mode 0 the first of
\* these is the last one looked at.
Looked(e, candidates, got) ==
  IF mode = 0 THEN {n \in candidates : \A m \in got : m = n \/ Precedes(e, n, m)}
              ELSE candidates

\* dvbapi_start_descrambling for all that are looked at; filters are started for those in
\* open.  The index of the pid started last is taken for the one that was just started.
Started(e, k, c, cur, got, open) ==
  LET looked == Looked(e, Candidates(e, k, c), got)
      last   == {n \in got : \A m \in got : m = n \/ Precedes(e, m, n)}
      spared == {n \in looked : n = cur /\ \A m \in got : Precedes(e, n, m)}
  IN [ ECMpids  |-> [n \in 1 .. MaxPids |->
                       IF n \in got \cup spared THEN [e[n] EXCEPT !.checked = c + 1]
                       ELSE IF n \in looked
                            THEN [e[n] EXCEPT !.checked = 4, !.status = -1]
                       ELSE e[n]],
       filters  |-> {[pid |-> e[n].pid, at |-> n] : n \in open},
       curindex |-> IF got = {} THEN cur ELSE CHOOSE n \in last : TRUE,
       tried    |-> {e[n].pid : n \in {m \in looked : mode = 0}} ]

\* dvbapi_try_next_caid.  Filters may fail to start.
TryNext(e, k, c, cur) ==
  UNION {{Started(e, k, c, cur, got, open) : open \in SUBSET got}
         : got \in {g \in SUBSET Candidates(e, k, c) : mode = 0 => Cardinality(g) <= 1}}

Becomes(o) ==
  /\ ECMpids' = o.ECMpids /\ curindex' = o.curindex
  /\ filters' = filters \cup o.filters

\* The pids are sorted anew, and those with priority are tried.
Restarts(e, k) ==
  \E s \in Sorted(e, k) : \E o \in TryNext(s, k, 0, 0) :
    /\ Becomes(o)
    /\ pidindex' = 0
    /\ tried' = o.tried

\* What dvbapi_main_local does on every round with pids but no ECM filters: it tries the
\* pids with priority, then those left to the second run, then starts over.
Idles   == on /\ count > 0 /\ filters = {}
Left(c) == {n \in Usable(ECMpids, count) : ECMpids[n].checked = c}

Runs(e, c) ==
  /\ \E o \in TryNext(e, count, c, curindex) : Becomes(o) /\ tried' = tried \cup o.tried
  /\ UNCHANGED <<mode, on, running, count, pidindex, answer, stranded>>

FirstRun == Idles /\ Left(0) # {} /\ Runs(ECMpids, 0)

SecondRun ==
  /\ Idles /\ Left(0) = {}
  /\ \E n \in Left(2) :
       /\ \A m \in Left(2) : n <= m
       /\ Runs([ECMpids EXCEPT ![n].tries = "fresh"], 2)

StartOver ==
  /\ Idles /\ Left(0) = {} /\ Left(2) = {}
  /\ Restarts(ECMpids, count)
  /\ Keeps
  /\ UNCHANGED <<mode, on, running, count, answer>>

-----------------------------------------------------------------------------
\* dvbapi_stop_descrambling clears the demuxer.
Stops ==
  /\ on' = FALSE /\ running' = FALSE
  /\ count' = 0 /\ ECMpids' = Unused
  /\ pidindex' = 0 /\ curindex' = 0
  /\ filters' = {}
  /\ stranded' = FALSE /\ tried' = {}

\* The host ends the program, or its connection is closed.
StopDescrambling ==
  /\ on
  /\ Stops
  /\ UNCHANGED <<mode, answer>>

\* dvbapi_parse_pmt_info lists the pids anew; dvbapi_prepare_descrambling starts them
\* unless the program is running, and ends the filters of a program without pids.
ParseCapmt ==
  \E k \in 0 .. MaxPids : \E s \in [1 .. k -> EcmPids] :
    LET e == [n \in 1 .. MaxPids |->
                IF n <= k
                THEN [pid |-> s[n], status |-> 0, checked |-> 0, tries |-> "fresh"]
                ELSE IF n = answer.at THEN ECMpids[n] ELSE Blank]
    IN /\ \A m, n \in 1 .. k : s[m] = s[n] => m = n
       /\ on' = TRUE /\ count' = k
       /\ running' = (k # 0)
       /\ \/ /\ k = 0
             /\ ECMpids' = e /\ pidindex' = 0 /\ filters' = {}
             /\ Keeps
             /\ UNCHANGED <<curindex, tried>>
          \/ /\ k # 0 /\ running
             /\ ECMpids' = e
             /\ UNCHANGED <<pidindex, curindex, filters, tried>>
             /\ MayStrand
          \/ /\ k # 0 /\ ~running
             /\ Restarts(e, k)
             /\ Keeps
       /\ UNCHANGED <<mode, answer>>

NewProgram    == ~on /\ ParseCapmt
UpdateProgram == on  /\ ParseCapmt

-----------------------------------------------------------------------------
\* Mutant of Without: the pid that is given up still counts as the one that descrambles.
WithoutNot(j) == pidindex
\* pidindex when the pid listed at j is given up
Without(j) == IF pidindex = j THEN 0 ELSE pidindex

\* dvbapi_send_dcw with a refusal for pid p, which it found at index j.  A pid that has
\* not timed out yet is asked once more.
Refuses(p, j, rc) ==
  IF rc = "sleeping" THEN Stops
  ELSE IF rc = "timeout" /\ ECMpids[j].tries = "fresh"
       THEN /\ ECMpids' = [ECMpids EXCEPT ![j].tries = "used"]
            /\ UNCHANGED <<on, running, count, pidindex, curindex, filters, stranded, tried>>
  ELSE /\ ECMpids' = [ECMpids EXCEPT ![j] = [@ EXCEPT !.status = -1, !.checked = 4,
                                                      !.tries = "fresh"]]
       /\ pidindex' = Without(j)
       /\ filters' = {f \in filters : f.pid # p}
       /\ UNCHANGED <<on, running, count, curindex, tried>>
       /\ IF ECMpids[j].pid = p THEN Keeps ELSE MayStrand

Refusals == {"notfound", "timeout", "sleeping"}
Places(p) == {n \in 1 .. count : ECMpids[n].pid = p}

\* dvbapi_process_input: tries counts down from 0xFE, by 1 for a section of another table,
\* by 14 for one that is too long, and by 7 for the first timeout.  At 0xF0 the pid is given
\* up; after how many of them is a choice.
KillPid(f) ==
  /\ ECMpids[f.at].tries = "used"
  /\ ECMpids' = [ECMpids EXCEPT ![f.at] = [@ EXCEPT !.status = -1, !.checked = 4,
                                                    !.tries = "fresh"]]
  /\ pidindex' = Without(f.at)
  /\ filters' = filters \ {f}
  /\ Keeps
  /\ UNCHANGED <<mode, on, running, count, curindex, answer, tried>>

\* A section that is too long or of another table
BadSection(f) ==
  /\ ECMpids' = [ECMpids EXCEPT ![f.at].tries = "used"]
  /\ UNCHANGED <<mode, on, running, count, pidindex, curindex, filters, answer, stranded,
                 tried>>

\* An ECM of another CHID than the one of the priorities, the channel cache or the last
\* answer, or of one that is to be ignored, ends the filter; a pid of the first run is left
\* to the second, which takes any CHID.
Postponed(c) == IF c \in {1, 2} THEN 2 * c ELSE c
WrongChid(f) ==
  /\ ECMpids' = [ECMpids EXCEPT ![f.at].checked = Postponed(@)]
  /\ filters' = filters \ {f}
  /\ UNCHANGED <<mode, on, running, count, pidindex, curindex, answer, tried>>
  /\ MayStrand

\* An ECM is asked for, if there is a filter for the pid it is taken for, and get_cw
\* refuses it at once.  (If it does not, an answer will come: as one may have been asked
\* for whenever there is a filter, which are to come is no part of the state.)
RefusedAtOnce(f) ==
  /\ LET p == ECMpids[f.at].pid
     IN /\ \E g \in filters : g.pid = p
        /\ \E j \in Places(p), rc \in Refusals : Refuses(p, j, rc)
  /\ UNCHANGED <<mode, answer>>

\* The device reports an error, or takes no new section filter.
FilterFails(f) ==
  /\ filters' = filters \ {f}
  /\ UNCHANGED <<mode, on, running, count, ECMpids, pidindex, curindex, answer, tried>>
  /\ MayStrand

-----------------------------------------------------------------------------
\* The work thread: dvbapi_send_dcw finds the pid and its filter.
PidAnswered(p, rc) ==
  /\ answer = Idle
  /\ on /\ \E f \in filters : f.pid = p
  /\ \E j \in Places(p) : answer' = [pid |-> p, at |-> j, rc |-> rc]
  /\ UNCHANGED <<mode, on, running, count, ECMpids, pidindex, curindex, filters, stranded, tried>>

\* In request mode 0 the first pid with a CW descrambles.
TakeFirst(j) ==
  LET first == pidindex = 0
  IN /\ pidindex' = IF first THEN j ELSE pidindex
     /\ ECMpids' = [ECMpids EXCEPT ![j].tries = "fresh",
                                   ![j].checked = IF first THEN 4 ELSE @]
     /\ UNCHANGED filters

\* Mutant of Lesser: the comparison the other way round.
LesserNot(j) == {t \in 1 .. count : t # j /\ ECMpids[t].status > ECMpids[j].status}
\* In request mode 1 a pid that is not done with takes over, and ends the filters of the
\* pids with no more weight; when no other filter is left it is done with, too.
Lesser(j) == {t \in 1 .. count : t # j /\ ECMpids[j].status >= ECMpids[t].status}
TakeOver(j) ==
  LET takes == ECMpids[j].checked # 4
      left  == IF takes THEN {f \in filters : f.at \notin Lesser(j)} ELSE filters
      done  == IF takes THEN Lesser(j) \cup {n \in {j} : Cardinality(left) = 1} ELSE {}
  IN /\ pidindex' = IF takes THEN j ELSE pidindex
     /\ filters' = left
     /\ ECMpids' = [n \in 1 .. MaxPids |->
                      [ECMpids[n] EXCEPT !.checked = IF n \in done THEN 4 ELSE @,
                                         !.tries = IF n = j THEN "fresh" ELSE @]]

\* What the work thread then does: in between the main thread may have ended the filter,
\* sorted the pids, or listed others.
ActOnAnswer ==
  /\ answer # Idle
  /\ LET j == answer.at
         raced == ~Filtered(j)
     IN IF answer.rc = "found"
        THEN /\ IF mode = 0 THEN TakeFirst(j) ELSE TakeOver(j)
             /\ stranded' = IF pidindex' = pidindex THEN stranded ELSE raced
             /\ UNCHANGED <<on, running, count, curindex, tried>>
        ELSE Refuses(answer.pid, j, answer.rc)
  /\ answer' = Idle
  /\ UNCHANGED mode

-----------------------------------------------------------------------------
DemuxInit ==
  /\ mode \in Modes
  /\ on = FALSE /\ running = FALSE
  /\ count = 0 /\ ECMpids = Unused
  /\ pidindex = 0 /\ curindex = 0
  /\ filters = {} /\ answer = Idle
  /\ stranded = FALSE /\ tried = {}

Section(f) == KillPid(f) \/ BadSection(f) \/ WrongChid(f) \/ RefusedAtOnce(f) \/ FilterFails(f)

DemuxNext ==
  \/ NewProgram \/ UpdateProgram \/ StopDescrambling
  \/ FirstRun \/ SecondRun \/ StartOver
  \/ \E f \in filters : Section(f)
  \/ \E p \in EcmPids, rc \in Refusals \cup {"found"} : PidAnswered(p, rc)
  \/ ActOnAnswer

DemuxSpec == DemuxInit /\ [][DemuxNext]_demuxVars

-----------------------------------------------------------------------------
\* Type invariant of the demuxer.  In request mode 0 one ECM filter runs at a time.
DemuxTypeOK ==
  /\ mode \in Modes /\ on \in BOOLEAN /\ running \in BOOLEAN /\ (running => on)
  /\ count \in 0 .. MaxPids /\ pidindex \in 0 .. MaxPids /\ curindex \in 0 .. MaxPids
  /\ ECMpids \in [1 .. MaxPids ->
       [pid : EcmPids \cup {NoPid}, status : -1 .. MaxStatus, checked : 0 .. 4,
        tries : {"fresh", "used"}]]
  /\ filters \subseteq [pid : EcmPids, at : 1 .. MaxPids]
  /\ tried \subseteq EcmPids
  /\ answer \in [pid : EcmPids \cup {NoPid}, at : 0 .. MaxPids, rc : Refusals \cup {"found"}]
  /\ mode = 0 => Cardinality(filters) <= 1

\* The pid that descrambles goes on being filtered: a refusal, a pid given up and a pid that
\* takes over end filters, and have pidindex forget the one whose filter they end, so that
\* another pid may take its place.  (It is not so when the filter fails or brings another
\* CHID, when a CA PMT lists the pids anew, or when the work thread acts on an answer whose
\* filter the main thread has just ended; until another pid takes its place.)
StillFiltered ==
  on /\ pidindex # 0 /\ ~stranded => Filtered(pidindex)

\* What the two request modes promise.  In mode 1 a pid takes over from one with no more
\* weight only (dvbapi_send_dcw ends the filters of the others).  In mode 0 the pids are
\* sorted anew only when all that may be used were started since the last time, whatever
\* their answers and their filters did meanwhile.  Both only until a filter failed or
\* brought another CHID, a CA PMT listed the pids anew, or an answer was acted on after its
\* filter had ended, as for StillFiltered: then pidindex may name a pid without a filter.
BestPid ==
  [][~stranded =>
       /\ mode = 1 /\ on /\ on' /\ pidindex # 0 /\ pidindex' # 0 =>
            ECMpids[pidindex'].status >= ECMpids[pidindex].status
       /\ mode = 0 /\ StartOver =>
            \A n \in Usable(ECMpids, count) : ECMpids[n].pid \in tried]_demuxVars
=============================================================================
