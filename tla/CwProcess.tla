------------------------------ MODULE CwProcess ------------------------------
(***************************************************************************)
(* cw_process (ncam-ecm.c): the thread that posts the timeouts of the      *)
(* requests in the list ecmcwcache and takes old ones off it, and the      *)
(* clients' threads that put requests at its head and wake it.             *)
(*                                                                         *)
(* Time is counted in ticks, PerSecond to the second; none passes while    *)
(* cw_process is in a round.  Timers are the kinds of timeouts a request   *)
(* has, which are posted alike; only the client timeout is posted for      *)
(* answered requests too.  The clean-ups of other lists, which cw_process  *)
(* does as well, only let it wake up earlier.                              *)
(***************************************************************************)
EXTENDS Naturals, Sequences, FiniteSets

CONSTANTS
  Ers,         \* the requests; one that is off the list stands for a new one
  NoEr,        \* NULL
  Timers,      \* kinds of timeouts, "ctimeout" among them
  Timeout,     \* Timeout[t]: ticks from er->tps until t is due
  PerSecond,   \* ticks in a second
  MaxDelay     \* bound: ticks from get_ecmtask until get_cw lists the request

Ctimeout == Timeout["ctimeout"]

ASSUME CwProcessAssumption ==
  /\ "ctimeout" \in Timers
  /\ Timeout \in [Timers -> Nat]
  /\ PerSecond \in Nat \ {0} /\ MaxDelay \in Nat
  /\ NoEr \notin Ers

VARIABLES
  \* the requests and get_cw
  place,      \* place[q]: "new", "made", "listed", "counted" (its wakeup) or "waits"
  since,      \* since[q]: ticks since er->tps
  delay,      \* history: since[q] when q was put on the list
  timer,      \* timer[q][t]: "set", "posted", or "over" when it will not be posted again
  list,       \* ecmcwcache, newest first
  \* cw_process
  step,       \* where it is
  wakeups,    \* cw_process_wakeups # 0
  sleep,      \* ticks left of msec_wait
  cleanIn,    \* ticks until ecmc_time
  part2nd,    \* the part of the second that has passed, in ticks
  ecmt, prv,   \* the request to cut at, and the one before it
  missed      \* history: the requests whose wakeup came between test and sleep

cwpVars == <<place, since, delay, timer, list, step, wakeups, sleep, cleanIn, part2nd, ecmt, prv, missed>>

Listed(q)  == \E i \in DOMAIN list : list[i] = q
Pending(q) == {t \in Timers : timer[q][t] # "over"}
Goes(here, there) == step = here /\ step' = there

-----------------------------------------------------------------------------
\* get_cw in a client's thread

\* get_ecmtask
Make(q) ==
  /\ place[q] = "new"
  /\ place' = [place EXCEPT ![q] = "made"]
  /\ UNCHANGED <<since, delay, timer, list, step, wakeups, sleep, cleanIn, part2nd, ecmt, prv, missed>>

\* Under the write lock of ecmcache_lock
Insert(q) ==
  /\ place[q] = "made"
  /\ place' = [place EXCEPT ![q] = "listed"]
  /\ delay' = [delay EXCEPT ![q] = since[q]]
  /\ timer' = [timer EXCEPT ![q] = [t \in Timers |-> "set"]]
  /\ list' = <<q>> \o list
  /\ UNCHANGED <<since, step, wakeups, sleep, cleanIn, part2nd, ecmt, prv, missed>>

\* cw_process_thread_wakeup: the wakeup is counted, then signalled.
CountWakeup(q) ==
  /\ place[q] = "listed"
  /\ place' = [place EXCEPT ![q] = "counted"]
  /\ wakeups' = TRUE
  /\ UNCHANGED <<since, delay, timer, list, step, sleep, cleanIn, part2nd, ecmt, prv, missed>>
Signal(q) ==
  /\ place[q] = "counted"
  /\ place' = [place EXCEPT ![q] = IF Listed(q) THEN "waits" ELSE "new"]
  /\ step' = IF step = "asleep" THEN "reset" ELSE step
  /\ missed' = IF step = "tosleep" /\ Listed(q) THEN missed \cup {q} ELSE missed
  /\ UNCHANGED <<since, delay, timer, list, wakeups, sleep, cleanIn, part2nd, ecmt, prv>>

\* The request is answered; only the client timeout is still of interest.
Answered(q) ==
  /\ place[q] = "waits"
  /\ Pending(q) \ {"ctimeout"} # {}
  /\ timer' = [timer EXCEPT ![q] = [t \in Timers |-> IF t = "ctimeout" THEN @[t] ELSE "over"]]
  /\ UNCHANGED <<place, since, delay, list, step, wakeups, sleep, cleanIn, part2nd, ecmt, prv, missed>>

\* The client's thread handles a timeout.  The client timeout is the last one; it is the
\* same to cw_process when the client is killed instead (cleanup_ecmtasks).
Handle(q) ==
  /\ place[q] = "waits"
  /\ \E t \in Timers :
       /\ timer[q][t] = "posted"
       /\ timer' = [timer EXCEPT ![q][t] = "over"]
  /\ timer'[q]["ctimeout"] = timer[q]["ctimeout"]
  /\ UNCHANGED <<place, since, delay, list, step, wakeups, sleep, cleanIn, part2nd, ecmt, prv, missed>>
LastTimeout(q) ==
  /\ place[q] = "waits"
  /\ Pending(q) # {}
  /\ timer' = [timer EXCEPT ![q] = [t \in Timers |-> "over"]]
  /\ UNCHANGED <<place, since, delay, list, step, wakeups, sleep, cleanIn, part2nd, ecmt, prv, missed>>

-----------------------------------------------------------------------------
\* A round of cw_process

\* The test for wakeups is not made under the mutex of the condition.
Test ==
  /\ Goes("test", IF wakeups THEN "reset" ELSE "tosleep")
  /\ UNCHANGED <<place, since, delay, timer, list, wakeups, sleep, cleanIn, part2nd, ecmt, prv, missed>>

FallAsleep ==
  /\ Goes("tosleep", "asleep")
  /\ UNCHANGED <<place, since, delay, timer, list, wakeups, sleep, cleanIn, part2nd, ecmt, prv, missed>>

WakeUp ==
  /\ Goes("asleep", "reset")
  /\ sleep = 0
  /\ UNCHANGED <<place, since, delay, timer, list, wakeups, sleep, cleanIn, part2nd, ecmt, prv, missed>>

Reset ==
  /\ Goes("reset", "round")
  /\ wakeups' = FALSE
  /\ UNCHANGED <<place, since, delay, timer, list, sleep, cleanIn, part2nd, ecmt, prv, missed>>

\* The timeouts of listed requests that are not due, <<request, kind>>
Coming == {x \in Ers \X Timers :
             Listed(x[1]) /\ x[2] \in Pending(x[1]) /\ Timeout[x[2]] > since[x[1]]}

\* Mutant of MsecWait: with no timeout to come the default of three seconds is slept.
MsecWaitLong(clean) ==
  IF Coming = {} THEN {3 * PerSecond}
  ELSE {w \in 1..clean : \A x \in Coming : since[x[1]] + w <= Timeout[x[2]]}

\* msec_wait: not longer than until the next timeout, nor than until the next search for
\* old requests; shorter, if something else is to be done before.
MsecWait(clean) == {w \in 1..clean : \A x \in Coming : since[x[1]] + w <= Timeout[x[2]]}

\* One pass under the read lock; once a second old requests are searched for.
Round ==
  /\ Goes("round", IF cleanIn = 0 THEN "scan" ELSE "test")
  /\ timer' = [q \in Ers |-> [t \in Timers |->
        IF Listed(q) /\ timer[q][t] = "set" /\ Timeout[t] <= since[q] THEN "posted" ELSE timer[q][t]]]
  /\ cleanIn' = IF cleanIn = 0 THEN PerSecond ELSE cleanIn
  /\ sleep' \in MsecWait(cleanIn')
  /\ UNCHANGED <<place, since, delay, list, wakeups, part2nd, ecmt, prv, missed>>

\* The difference of the seconds in which q was made and which it is now
Seconds(q) == (since[q] + PerSecond - 1 - part2nd) \div PerSecond

\* er->tps is before ecm_maxcachetime; a mutant without the three seconds
TooOldSoon(q) == Seconds(q) > ((Ctimeout * 1000) \div PerSecond + 500) \div 1000
TooOld(q)     == Seconds(q) > ((Ctimeout * 1000) \div PerSecond + 500) \div 1000 + 3

\* Under the read lock the first request that is too old is found, and the one before it.
FindOld ==
  /\ step = "scan"
  /\ IF \E i \in DOMAIN list : TooOld(list[i])
     THEN \E i \in DOMAIN list :
            /\ TooOld(list[i]) /\ \A k \in 1..i - 1 : ~TooOld(list[k])
            /\ ecmt' = list[i]
            /\ prv' = IF i = 1 THEN NoEr ELSE list[i - 1]
            /\ step' = "cut"
     ELSE step' = "test" /\ UNCHANGED <<ecmt, prv>>
  /\ UNCHANGED <<place, since, delay, timer, list, wakeups, sleep, cleanIn, part2nd, missed>>

\* Under the write lock, which clients may have had in between: the list ends with prv, or
\* is empty.  What is off the list may be made anew.
Cut ==
  /\ Goes("cut", "test")
  /\ LET last == CHOOSE i \in 0..Len(list) : IF prv = NoEr THEN i = 0 ELSE i > 0 /\ list[i] = prv
         off  == {list[i] : i \in last + 1 .. Len(list)}
     IN /\ list' = SubSeq(list, 1, last)
        /\ place' = [q \in Ers |-> IF q \in off /\ place[q] = "waits" THEN "new" ELSE place[q]]
        /\ since' = [q \in Ers |-> IF q \in off THEN 0 ELSE since[q]]
        /\ delay' = [q \in Ers |-> IF q \in off THEN 0 ELSE delay[q]]
        /\ timer' = [q \in Ers |-> IF q \in off THEN [t \in Timers |-> "over"] ELSE timer[q]]
        /\ missed' = missed \ off
  /\ ecmt' = NoEr /\ prv' = NoEr
  /\ UNCHANGED <<wakeups, sleep, cleanIn, part2nd>>

-----------------------------------------------------------------------------
\* Time passes: not in a round of cw_process, nor while a request takes too long to be listed.
Pass ==
  /\ step = "asleep" /\ sleep > 0
  /\ \A q \in Ers : place[q] = "made" => since[q] < MaxDelay
  /\ since' = [q \in Ers |-> IF Listed(q) \/ place[q] = "made" THEN since[q] + 1 ELSE since[q]]
  /\ sleep' = sleep - 1
  /\ cleanIn' = IF cleanIn = 0 THEN 0 ELSE cleanIn - 1
  /\ part2nd' = (part2nd + 1) % PerSecond
  /\ UNCHANGED <<place, delay, timer, list, step, wakeups, ecmt, prv, missed>>

\* After a first round with an empty list
CwpInit ==
  /\ place = [q \in Ers |-> "new"]
  /\ since = [q \in Ers |-> 0]
  /\ delay = [q \in Ers |-> 0]
  /\ timer = [q \in Ers |-> [t \in Timers |-> "over"]]
  /\ list = <<>>
  /\ step = "test"
  /\ wakeups = FALSE
  /\ sleep = PerSecond
  /\ cleanIn = PerSecond
  /\ part2nd \in 0..PerSecond - 1
  /\ ecmt = NoEr /\ prv = NoEr
  /\ missed = {}

GetCwSteps(q) == Make(q) \/ Insert(q) \/ CountWakeup(q) \/ Signal(q)
ClientSteps(q) == Answered(q) \/ Handle(q) \/ LastTimeout(q)

CwpNext ==
  \/ \E q \in Ers : GetCwSteps(q) \/ ClientSteps(q)
  \/ Test \/ FallAsleep \/ WakeUp \/ Reset \/ Round \/ FindOld \/ Cut
  \/ Pass

CwpSpec == CwpInit /\ [][CwpNext]_cwpVars

-----------------------------------------------------------------------------
\* Type invariant
CwpTypeOK ==
  /\ place \in [Ers -> {"new", "made", "listed", "counted", "waits"}]
  /\ since \in [Ers -> Nat]
  /\ delay \in [Ers -> Nat]
  /\ timer \in [Ers -> [Timers -> {"set", "posted", "over"}]]
  /\ list \in Seq(Ers)
  /\ step \in {"test", "tosleep", "asleep", "reset", "round", "scan", "cut"}
  /\ wakeups \in BOOLEAN
  /\ sleep \in Nat /\ cleanIn \in Nat
  /\ part2nd \in 0..PerSecond - 1
  /\ ecmt \in Ers \cup {NoEr} /\ prv \in Ers \cup {NoEr}
  /\ missed \subseteq Ers

\* cw_process sleeps over no timeout: one that is due, or was when the request came, is
\* posted before cw_process sleeps on if it got the wakeup that get_cw sent, and at most a
\* second later if it missed it or get_cw has still to send it.
DueFor(q, t) == IF Timeout[t] > delay[q] THEN since[q] - Timeout[t] ELSE since[q] - delay[q]
OnTime ==
  \A q \in Ers, t \in Timers :
    Listed(q) /\ timer[q][t] = "set" /\ since[q] >= Timeout[t] =>
      /\ DueFor(q, t) <= PerSecond
      /\ place[q] = "waits" /\ q \notin missed /\ step = "asleep" => DueFor(q, t) = 0

\* "ecm stays in cache at least ctimeout+2seconds!" (ncam-ecm.c:348), also one that stands
\* behind an older one that was listed later.  Not one that was listed between the search
\* for old requests and the cut: it goes with them.
StaysListed ==
  [][\A q \in Ers : Listed(q) /\ ~Listed(q)' =>
       \/ since[q] >= Ctimeout + 2 * PerSecond
       \/ \E i, j \in DOMAIN list : list[i] = q /\ list[j] = ecmt /\ i < j]_cwpVars
=============================================================================
