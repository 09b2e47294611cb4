--------------------------- MODULE CwProcessProofs ---------------------------
(***************************************************************************)
(* CwProcess for any requests, kinds of timeouts and lengths of a second.  *)
(*                                                                         *)
(* cw_process either has taken a request into account when it computed     *)
(* its sleep (Seen), or the request has been listed during this sleep or   *)
(* the round that ends it (Fresh).  In the first case the sleep ends by    *)
(* the next timeout; in the second it ends within the second, and if the   *)
(* wakeup was heard, there is no sleep before the next round.              *)
(*                                                                         *)
(* That no request leaves the list too early is in the second part.        *)
(***************************************************************************)
EXTENDS CwProcess, SequenceTheorems, TLAPS

\* The sleep ends before any timeout of q is over due.
Seen(q) == \A t \in Timers : timer[q][t] = "set" => since[q] + sleep <= Timeout[t]

\* q was listed after the sleep was computed.  Its wakeup is counted until the next round
\* begins, and if it was signalled in time, cw_process does not fall asleep.
Fresh(q) ==
  /\ since[q] - delay[q] + sleep <= PerSecond
  /\ place[q] \in {"counted", "waits"} => wakeups \/ step = "round"
  /\ place[q] = "waits" /\ q \notin missed => step \notin {"tosleep", "asleep"}

Heard == \A q \in Ers : Listed(q) => Seen(q) \/ Fresh(q)

\* The sleep ends by the next search for old requests, which is due within the second.
Bounded == sleep <= cleanIn /\ cleanIn <= PerSecond

\* The list will be cut behind a request that is on it, or at its head.
CutInList == step = "cut" => prv = NoEr \/ (prv \in Ers /\ Listed(prv))

IInv == CwpTypeOK /\ CutInList /\ Bounded /\ (\A q \in Ers : delay[q] <= since[q]) /\ Heard

-----------------------------------------------------------------------------
\* Only Insert puts a request on the list.
LEMMA InsertLists ==
  ASSUME NEW q \in Ers, list \in Seq(Ers), list' = <<q>> \o list
  PROVE  /\ list' \in Seq(Ers)
         /\ \A p \in Ers : Listed(p)' <=> p = q \/ Listed(p)
<1>1. <<q>> \in Seq(Ers) /\ Len(<<q>>) = 1 /\ <<q>>[1] = q
  OBVIOUS
<1>2. /\ list' \in Seq(Ers) /\ Len(list') = Len(list) + 1
      /\ \A i \in 1..Len(list) + 1 : list'[i] = IF i <= 1 THEN q ELSE list[i - 1]
  BY <1>1, ConcatProperties
<1>3. \A i \in DOMAIN list : i + 1 \in DOMAIN list' /\ list'[i + 1] = list[i]
  BY <1>2
<1>4. 1 \in DOMAIN list' /\ list'[1] = q
  BY <1>2
<1>5. \A i \in DOMAIN list' : i = 1 \/ (i - 1 \in DOMAIN list /\ list'[i] = list[i - 1])
  BY <1>2
<1>6. ASSUME NEW p \in Ers, Listed(p)' PROVE p = q \/ Listed(p)
  <2>1. PICK i \in DOMAIN list' : list'[i] = p
    BY <1>6 DEF Listed
  <2> QED BY <2>1, <1>4, <1>5 DEF Listed
<1>7. ASSUME NEW p \in Ers, p = q \/ Listed(p) PROVE Listed(p)'
  <2>1. CASE p = q
    BY <2>1, <1>4 DEF Listed
  <2>2. CASE Listed(p)
    <3>1. PICK i \in DOMAIN list : list[i] = p
      BY <2>2 DEF Listed
    <3>2. list'[i + 1] = p /\ i + 1 \in DOMAIN list'
      BY <3>1, <1>3
    <3> QED BY <3>2 DEF Listed
  <2> QED BY <1>7, <2>1, <2>2
<1> QED BY <1>2, <1>6, <1>7

\* The cut lists nobody; a request it takes off has no timeout any more, the others stay
\* as they are.
LEMMA CutKeeps ==
  ASSUME CwpTypeOK, CutInList, Cut
  PROVE  /\ list' \in Seq(Ers)
         /\ \A q \in Ers : Listed(q)' => Listed(q)
         /\ \A q \in Ers :
              \/ \A t \in Timers : timer'[q][t] = "over"
              \/ /\ timer'[q] = timer[q] /\ since'[q] = since[q] /\ delay'[q] = delay[q]
                 /\ place'[q] = place[q] /\ (q \in missed' <=> q \in missed)
<1> DEFINE Last(i) == IF prv = NoEr THEN i = 0 ELSE i > 0 /\ list[i] = prv
           last    == CHOOSE i \in 0..Len(list) : Last(i)
           off     == {list[i] : i \in last + 1 .. Len(list)}
<1>1. \E i \in 0..Len(list) : Last(i)
  <2>1. CASE prv = NoEr
    BY <2>1 DEF CwpTypeOK
  <2>2. CASE prv # NoEr
    <3>1. PICK i \in DOMAIN list : list[i] = prv
      BY <2>2 DEF CutInList, Cut, Goes, Listed
    <3> QED BY <2>2, <3>1 DEF CwpTypeOK
  <2> QED BY <2>1, <2>2
<1>2. last \in 0..Len(list)
  BY <1>1
<1>3. /\ list' = SubSeq(list, 1, last)
      /\ place' = [q \in Ers |-> IF q \in off /\ place[q] = "waits" THEN "new" ELSE place[q]]
      /\ since' = [q \in Ers |-> IF q \in off THEN 0 ELSE since[q]]
      /\ delay' = [q \in Ers |-> IF q \in off THEN 0 ELSE delay[q]]
      /\ timer' = [q \in Ers |-> IF q \in off THEN [t \in Timers |-> "over"] ELSE timer[q]]
      /\ missed' = missed \ off
  BY DEF Cut
<1> HIDE DEF last, off
<1>4. /\ list' \in Seq(Ers) /\ Len(list') = last
      /\ \A i \in 1..last : list'[i] = list[i]
  <2>1. \A i \in 1..last : list[i] \in Ers
    BY <1>2 DEF CwpTypeOK
  <2> QED BY <1>2, <1>3, <2>1, SubSeqProperties
<1>5. ASSUME NEW q \in Ers, Listed(q)' PROVE Listed(q)
  <2>1. PICK i \in DOMAIN list' : list'[i] = q
    BY <1>5 DEF Listed
  <2>2. i \in 1..last
    BY <1>4, <2>1
  <2>3. i \in DOMAIN list
    BY <1>2, <2>2 DEF CwpTypeOK
  <2>4. list[i] = q
    BY <1>4, <2>1, <2>2
  <2> QED BY <2>3, <2>4 DEF Listed
<1>6. \A q \in Ers :
        \/ \A t \in Timers : timer'[q][t] = "over"
        \/ /\ timer'[q] = timer[q] /\ since'[q] = since[q] /\ delay'[q] = delay[q]
           /\ place'[q] = place[q] /\ (q \in missed' <=> q \in missed)
  BY <1>3
<1> QED BY <1>4, <1>5, <1>6

\* The sleep of a round ends by the timeouts to come and by the next search.
LEMMA SleepsNoLonger ==
  ASSUME CwpTypeOK, NEW clean \in Nat, NEW w \in MsecWait(clean)
  PROVE  /\ w \in Nat /\ w <= clean
         /\ \A q \in Ers, t \in Timers :
              Listed(q) /\ timer[q][t] = "set" /\ Timeout[t] > since[q] => since[q] + w <= Timeout[t]
<1>1. w \in 1..clean /\ \A x \in Coming : since[x[1]] + w <= Timeout[x[2]]
  BY DEF MsecWait
<1>2. ASSUME NEW q \in Ers, NEW t \in Timers,
             Listed(q), timer[q][t] = "set", Timeout[t] > since[q]
      PROVE  since[q] + w <= Timeout[t]
  <2>1. <<q, t>> \in Coming
    BY <1>2 DEF Coming, Pending
  <2> QED BY <1>1, <2>1
<1> QED BY <1>1, <1>2

-----------------------------------------------------------------------------
LEMMA InitInv == CwpInit => IInv
<1> SUFFICES ASSUME CwpInit PROVE IInv
  OBVIOUS
<1>1. list \in Seq(Ers) /\ PerSecond \in Nat
  BY CwProcessAssumption DEF CwpInit
<1>2. CwpTypeOK
  BY <1>1 DEF CwpInit, CwpTypeOK
<1>3. \A q \in Ers : ~Listed(q)
  BY DEF CwpInit, Listed
<1> QED BY <1>1, <1>2, <1>3 DEF CwpInit, CwpTypeOK, IInv, CutInList, Bounded, Heard

\* Each action keeps the types.
LEMMA TypeInv == CwpTypeOK /\ CutInList /\ [CwpNext]_cwpVars => CwpTypeOK'
<1> SUFFICES ASSUME CwpTypeOK, CutInList, [CwpNext]_cwpVars PROVE CwpTypeOK'
  OBVIOUS
<1> USE DEF CwpTypeOK
<1>1. ASSUME NEW q \in Ers, GetCwSteps(q) PROVE CwpTypeOK'
  <2>1. CASE Make(q)        BY <2>1 DEF Make
  <2>2. CASE Insert(q)      BY <2>2, InsertLists DEF Insert
  <2>3. CASE CountWakeup(q) BY <2>3 DEF CountWakeup
  <2>4. CASE Signal(q)      BY <2>4 DEF Signal
  <2> QED BY <1>1, <2>1, <2>2, <2>3, <2>4 DEF GetCwSteps
<1>2. ASSUME NEW q \in Ers, ClientSteps(q) PROVE CwpTypeOK'
  <2>1. CASE Answered(q)    BY <2>1 DEF Answered
  <2>2. CASE Handle(q)      BY <2>2 DEF Handle
  <2>3. CASE LastTimeout(q) BY <2>3 DEF LastTimeout
  <2> QED BY <1>2, <2>1, <2>2, <2>3 DEF ClientSteps
<1>3. CASE Test       BY <1>3 DEF Test, Goes
<1>4. CASE FallAsleep BY <1>4 DEF FallAsleep, Goes
<1>5. CASE WakeUp     BY <1>5 DEF WakeUp, Goes
<1>6. CASE Reset      BY <1>6 DEF Reset, Goes
<1>7. CASE Round
  <2>1. cleanIn' \in Nat
    BY <1>7, CwProcessAssumption DEF Round
  <2>2. sleep' \in Nat
    BY <1>7, <2>1, SleepsNoLonger DEF Round
  <2> QED BY <1>7, <2>1, <2>2 DEF Round, Goes
<1>8. CASE FindOld
  <2>1. CASE step' = "test"
    BY <1>8, <2>1 DEF FindOld
  <2>2. CASE step' # "test"
    <3>1. PICK i \in DOMAIN list : /\ ecmt' = list[i] /\ step' = "cut"
                                   /\ prv' = IF i = 1 THEN NoEr ELSE list[i - 1]
      BY <1>8, <2>2 DEF FindOld
    <3>2. list[i] \in Ers /\ (i # 1 => list[i - 1] \in Ers)
      BY <3>1
    <3> QED BY <1>8, <3>1, <3>2 DEF FindOld
  <2> QED BY <2>1, <2>2
<1>9. CASE Cut
  <2>1. /\ place' \in [Ers -> {"new", "made", "listed", "counted", "waits"}]
        /\ since' \in [Ers -> Nat] /\ delay' \in [Ers -> Nat]
        /\ timer' \in [Ers -> [Timers -> {"set", "posted", "over"}]]
        /\ missed' \subseteq Ers
    BY <1>9 DEF Cut
  <2> QED BY <1>9, <2>1, CutKeeps DEF Cut, Goes
<1>10. CASE Pass      BY <1>10, CwProcessAssumption DEF Pass
<1>11. CASE UNCHANGED cwpVars
  BY <1>11 DEF cwpVars
<1> QED BY <1>1, <1>2, <1>3, <1>4, <1>5, <1>6, <1>7, <1>8, <1>9, <1>10, <1>11 DEF CwpNext

\* A sleep is not computed to be longer than until the next search.
LEMMA BoundedInv == CwpTypeOK /\ Bounded /\ [CwpNext]_cwpVars => Bounded'
<1> SUFFICES ASSUME CwpTypeOK, Bounded, [CwpNext]_cwpVars PROVE Bounded'
  OBVIOUS
<1>1. CASE Round
  <2>1. cleanIn' \in Nat /\ cleanIn' <= PerSecond
    BY <1>1, CwProcessAssumption DEF Round, Bounded, CwpTypeOK
  <2>2. sleep' <= cleanIn'
    BY <1>1, <2>1, SleepsNoLonger DEF Round
  <2> QED BY <2>1, <2>2 DEF Bounded
<1>2. CASE Pass
  BY <1>2, CwProcessAssumption DEF Pass, Bounded, CwpTypeOK
<1>3. CASE sleep' = sleep /\ cleanIn' = cleanIn
  BY <1>3 DEF Bounded
<1> QED BY <1>1, <1>2, <1>3 DEF CwpNext, cwpVars, GetCwSteps, ClientSteps, Make, Insert,
           CountWakeup, Signal, Answered, Handle, LastTimeout, Test, FallAsleep, WakeUp,
           Reset, FindOld, Cut

\* A request is listed at its age.
LEMMA DelayInv ==
  CwpTypeOK /\ CutInList /\ (\A q \in Ers : delay[q] <= since[q]) /\ [CwpNext]_cwpVars
    => \A q \in Ers : delay'[q] <= since'[q]
<1> SUFFICES ASSUME CwpTypeOK, CutInList, \A q \in Ers : delay[q] <= since[q], [CwpNext]_cwpVars
             PROVE  \A q \in Ers : delay'[q] <= since'[q]
  OBVIOUS
<1>1. ASSUME NEW q \in Ers, Insert(q) PROVE \A p \in Ers : delay'[p] <= since'[p]
  BY <1>1 DEF Insert, CwpTypeOK
<1>2. CASE Pass
  BY <1>2 DEF Pass, CwpTypeOK
<1>3. CASE Cut
  BY <1>3 DEF Cut, CwpTypeOK
<1>4. CASE delay' = delay /\ since' = since
  BY <1>4
<1> QED BY <1>1, <1>2, <1>3, <1>4 DEF CwpNext, cwpVars, GetCwSteps, ClientSteps, Make,
           CountWakeup, Signal, Answered, Handle, LastTimeout, Test, FallAsleep, WakeUp,
           Reset, FindOld, Round

\* Requests may come in the gap between the search and the cut, but only the cut takes any
\* off the list.
LEMMA CutInv == CwpTypeOK /\ CutInList /\ [CwpNext]_cwpVars => CutInList'
<1> SUFFICES ASSUME CwpTypeOK, CutInList, [CwpNext]_cwpVars PROVE CutInList'
  OBVIOUS
<1>1. ASSUME NEW q \in Ers, Insert(q) PROVE CutInList'
  BY <1>1, InsertLists DEF Insert, CutInList, CwpTypeOK
<1>2. CASE FindOld
  <2>1. CASE step' = "test"
    BY <2>1 DEF CutInList
  <2>2. CASE step' # "test"
    <3>1. PICK i \in DOMAIN list : prv' = IF i = 1 THEN NoEr ELSE list[i - 1]
      BY <1>2, <2>2 DEF FindOld
    <3>2. CASE i = 1
      BY <3>1, <3>2 DEF CutInList
    <3>3. CASE i # 1
      <4>1. i - 1 \in DOMAIN list /\ list[i - 1] \in Ers
        BY <3>3 DEF CwpTypeOK
      <4>2. list' = list
        BY <1>2 DEF FindOld
      <4> QED BY <3>1, <3>3, <4>1, <4>2 DEF CutInList, Listed
    <3> QED BY <3>2, <3>3
  <2> QED BY <2>1, <2>2
<1>3. CASE step' # "cut"
  BY <1>3 DEF CutInList
<1>4. CASE (step' = "cut" => step = "cut") /\ prv' = prv /\ list' = list
  BY <1>4 DEF CutInList, Listed
<1> QED BY <1>1, <1>2, <1>3, <1>4 DEF CwpNext, cwpVars, GetCwSteps, ClientSteps, Make,
           CountWakeup, Signal, Answered, Handle, LastTimeout, Test, FallAsleep, WakeUp,
           Reset, Round, Pass, Cut, Goes

-----------------------------------------------------------------------------
\* What a client's thread does with its request leaves the others alone, and a request
\* whose sleep is computed stays so.
LEMMA HeardClient ==
  ASSUME CwpTypeOK, Bounded, Heard, NEW q \in Ers, GetCwSteps(q) \/ ClientSteps(q)
  PROVE  Heard'
<1> USE DEF CwpTypeOK, Heard
<1>1. CASE Make(q)
  BY <1>1 DEF Make, Listed, Seen, Fresh
<1>2. CASE Insert(q)
  <2>1. \A p \in Ers \ {q} : Listed(p)' => Seen(p)' \/ Fresh(p)'
    BY <1>2, InsertLists DEF Insert, Seen, Fresh
  <2>2. Fresh(q)'
    <3>1. place'[q] = "listed" /\ since'[q] = since[q] /\ delay'[q] = since[q] /\ sleep' = sleep
      BY <1>2 DEF Insert
    <3> QED BY <3>1, CwProcessAssumption DEF Fresh, Bounded
  <2> QED BY <2>1, <2>2
<1>3. CASE CountWakeup(q)
  BY <1>3 DEF CountWakeup, Listed, Seen, Fresh
<1>4. CASE Signal(q)
  BY <1>4 DEF Signal, Listed, Seen, Fresh
<1>5. CASE ClientSteps(q)
  <2>1. /\ place' = place /\ since' = since /\ delay' = delay /\ list' = list /\ step' = step
        /\ wakeups' = wakeups /\ sleep' = sleep /\ missed' = missed
    BY <1>5 DEF ClientSteps, Answered, Handle, LastTimeout
  <2>2. \A p \in Ers, t \in Timers : timer'[p][t] = "set" => timer[p][t] = "set"
    <3>1. CASE Answered(q)    BY <3>1 DEF Answered
    <3>2. CASE Handle(q)      BY <3>2 DEF Handle
    <3>3. CASE LastTimeout(q) BY <3>3 DEF LastTimeout
    <3> QED BY <1>5, <3>1, <3>2, <3>3 DEF ClientSteps
  <2> QED BY <2>1, <2>2 DEF Listed, Seen, Fresh
<1> QED BY <1>1, <1>2, <1>3, <1>4, <1>5 DEF GetCwSteps

\* After a round all listed requests are seen; before it wakeups keep cw_process awake.
LEMMA HeardCwProcess ==
  ASSUME CwpTypeOK, CutInList, Bounded, Heard,
         Test \/ FallAsleep \/ WakeUp \/ Reset \/ Round \/ FindOld \/ Cut \/ Pass
  PROVE  Heard'
<1> USE DEF CwpTypeOK, Heard
<1>1. CASE Test
  BY <1>1 DEF Test, Goes, Listed, Seen, Fresh
<1>2. CASE FallAsleep
  BY <1>2 DEF FallAsleep, Goes, Listed, Seen, Fresh
<1>3. CASE WakeUp
  BY <1>3 DEF WakeUp, Goes, Listed, Seen, Fresh
<1>4. CASE Reset
  BY <1>4 DEF Reset, Goes, Listed, Seen, Fresh
<1>5. CASE Round
  <2>1. cleanIn' \in Nat /\ sleep' \in MsecWait(cleanIn')
    BY <1>5, CwProcessAssumption DEF Round
  <2>2. ASSUME NEW q \in Ers, Listed(q)', NEW t \in Timers, timer'[q][t] = "set"
        PROVE  since'[q] + sleep' <= Timeout[t]
    <3>1. Listed(q) /\ since' = since
      BY <1>5, <2>2 DEF Round, Listed
    <3>2. timer[q][t] = "set" /\ ~(Timeout[t] <= since[q])
      BY <1>5, <2>2, <3>1 DEF Round
    <3>3. Timeout[t] > since[q]
      BY <3>2, CwProcessAssumption
    <3> QED BY <2>1, <3>1, <3>2, <3>3, SleepsNoLonger
  <2> QED BY <2>2 DEF Seen
<1>6. CASE FindOld
  BY <1>6 DEF FindOld, Listed, Seen, Fresh
<1>7. CASE Cut
  <2> SUFFICES ASSUME NEW q \in Ers, Listed(q)' PROVE Seen(q)' \/ Fresh(q)'
    OBVIOUS
  <2>1. Listed(q)
    BY <1>7, CutKeeps
  <2>2. CASE \A t \in Timers : timer'[q][t] = "over"
    BY <2>2 DEF Seen
  <2>3. CASE /\ timer'[q] = timer[q] /\ since'[q] = since[q] /\ delay'[q] = delay[q]
             /\ place'[q] = place[q] /\ (q \in missed' <=> q \in missed)
    BY <1>7, <2>1, <2>3 DEF Cut, Goes, Seen, Fresh
  <2> QED BY <1>7, <2>2, <2>3, CutKeeps
<1>8. CASE Pass
  <2> SUFFICES ASSUME NEW q \in Ers, Listed(q)' PROVE Seen(q)' \/ Fresh(q)'
    OBVIOUS
  <2>1. Listed(q) /\ since'[q] = since[q] + 1 /\ sleep' = sleep - 1
    BY <1>8 DEF Pass, Listed
  <2>2. ASSUME Seen(q) PROVE Seen(q)'
    BY <1>8, <2>1, <2>2, CwProcessAssumption DEF Pass, Seen
  <2>3. ASSUME Fresh(q) PROVE Fresh(q)'
    BY <1>8, <2>1, <2>3, CwProcessAssumption DEF Pass, Fresh
  <2> QED BY <2>1, <2>2, <2>3
<1> QED BY <1>1, <1>2, <1>3, <1>4, <1>5, <1>6, <1>7, <1>8

\* IInv is inductive.
LEMMA NextInv == IInv /\ [CwpNext]_cwpVars => IInv'
<1> SUFFICES ASSUME IInv, [CwpNext]_cwpVars PROVE IInv'
  OBVIOUS
<1>1. CwpTypeOK' /\ CutInList' /\ Bounded' /\ (\A q \in Ers : delay'[q] <= since'[q])
  BY TypeInv, CutInv, BoundedInv, DelayInv DEF IInv
<1>2. Heard'
  <2>1. CASE UNCHANGED cwpVars
    BY <2>1 DEF cwpVars, IInv, Heard, Listed, Seen, Fresh
  <2>2. CASE CwpNext
    BY <2>2, HeardClient, HeardCwProcess DEF CwpNext, IInv
  <2> QED BY <2>1, <2>2
<1> QED BY <1>1, <1>2 DEF IInv

\* A request that was seen is due when the sleep ends, not before; one that was not waits
\* for the rest of the second, or for nothing, if its wakeup was heard.
LEMMA InvOnTime == IInv => OnTime
<1> SUFFICES ASSUME IInv, NEW q \in Ers, NEW t \in Timers,
                    Listed(q), timer[q][t] = "set", since[q] >= Timeout[t]
             PROVE  /\ DueFor(q, t) <= PerSecond
                    /\ place[q] = "waits" /\ q \notin missed /\ step = "asleep" => DueFor(q, t) = 0
  BY DEF OnTime
<1>1. /\ since[q] \in Nat /\ delay[q] \in Nat /\ Timeout[t] \in Nat /\ sleep \in Nat /\ PerSecond \in Nat
      /\ delay[q] <= since[q]
  BY CwProcessAssumption DEF IInv, CwpTypeOK
<1>2. CASE Seen(q)
  <2>1. since[q] + sleep <= Timeout[t]
    BY <1>2 DEF Seen
  <2>2. DueFor(q, t) = 0
    BY <1>1, <2>1 DEF DueFor
  <2> QED BY <1>1, <2>2
<1>3. CASE Fresh(q)
  BY <1>1, <1>3 DEF Fresh, DueFor
<1> QED BY <1>2, <1>3 DEF IInv, Heard

\* Type invariant of the list and the clock of cw_process.
THEOREM CwpTypeOKAlways == CwpSpec => []CwpTypeOK
<1>1. IInv => CwpTypeOK
  BY DEF IInv
<1> QED BY InitInv, NextInv, <1>1, PTL DEF CwpSpec

\* No timeout is slept over: cw_process posts it on time, or a second late at most if it did
\* not hear that the request came (ncam-ecm.c:264-363).
THEOREM OnTimeAlways == CwpSpec => []OnTime
<1>1. CwpInit => IInv                     BY InitInv
<1>2. IInv /\ [CwpNext]_cwpVars => IInv'  BY NextInv
<1>3. IInv => OnTime                      BY InvOnTime
<1> QED BY <1>1, <1>2, <1>3, PTL DEF CwpSpec

-----------------------------------------------------------------------------
(***************************************************************************)
(* No request leaves the list too early.  The list is in the order in      *)
(* which the requests were listed (Aged), so what is cut off with a        *)
(* request that is too old was listed before it, and was made at most      *)
(* MaxDelay later.  The search for old requests counts whole seconds and   *)
(* leaves them half a second more than the comment says, so this holds as  *)
(* long as get_cw takes no longer than that to list a request.             *)
(***************************************************************************)

\* A request is on the list once,
Once == \A i, j \in DOMAIN list : list[i] = list[j] => i = j

\* from get_cw on; off the list it has no age but while get_cw works on it.
Homes ==
  \A q \in Ers :
    /\ Listed(q) => place[q] \in {"listed", "counted", "waits"}
    /\ place[q] = "made" => since[q] <= MaxDelay
    /\ ~Listed(q) /\ place[q] # "made" => since[q] = 0
    /\ delay[q] <= MaxDelay

\* The requests behind were listed earlier.
Aged ==
  \A i, j \in DOMAIN list :
    i < j => since[list[i]] - delay[list[i]] <= since[list[j]] - delay[list[j]]

\* The request to cut at stands behind prv; more may have come in front of them.
CutAt ==
  step = "cut" => \E j \in DOMAIN list :
    /\ list[j] = ecmt /\ TooOld(ecmt)
    /\ prv # NoEr => j > 1 /\ list[j - 1] = prv

LInv == IInv /\ Once /\ Homes /\ Aged /\ CutAt

\* A request that get_cw lists stands first.
LEMMA InsertShifts ==
  ASSUME NEW q \in Ers, list \in Seq(Ers), list' = <<q>> \o list
  PROVE  /\ list'[1] = q /\ 1 \in DOMAIN list'
         /\ \A i \in DOMAIN list : i + 1 \in DOMAIN list' /\ list'[i + 1] = list[i]
         /\ \A i \in DOMAIN list' : i = 1 \/ (i - 1 \in DOMAIN list /\ list'[i] = list[i - 1])
<1>1. <<q>> \in Seq(Ers) /\ Len(<<q>>) = 1 /\ <<q>>[1] = q
  OBVIOUS
<1>2. /\ list' \in Seq(Ers) /\ Len(list') = Len(list) + 1
      /\ \A i \in 1..Len(list) + 1 : list'[i] = IF i <= 1 THEN q ELSE list[i - 1]
  BY <1>1, ConcatProperties
<1> QED BY <1>2

LEMMA LInvInsert ==
  ASSUME LInv, NEW q \in Ers, Insert(q)
  PROVE  Once' /\ Homes' /\ Aged' /\ CutAt'
<1>1. list \in Seq(Ers) /\ list' = <<q>> \o list /\ place[q] = "made"
  BY DEF LInv, IInv, CwpTypeOK, Insert
<1>2. /\ list'[1] = q /\ 1 \in DOMAIN list'
      /\ \A i \in DOMAIN list : i + 1 \in DOMAIN list' /\ list'[i + 1] = list[i]
      /\ \A i \in DOMAIN list' : i = 1 \/ (i - 1 \in DOMAIN list /\ list'[i] = list[i - 1])
  BY <1>1, InsertShifts
<1>3. \A p \in Ers : Listed(p)' <=> p = q \/ Listed(p)
  BY <1>1, InsertLists
<1>4. ~Listed(q)
  BY <1>1 DEF LInv, Homes
<1>5. \A i \in DOMAIN list : i \in Nat /\ list[i] \in Ers /\ list[i] # q
  BY <1>1, <1>4 DEF Listed
<1>6. /\ place' = [place EXCEPT ![q] = "listed"] /\ delay' = [delay EXCEPT ![q] = since[q]]
      /\ UNCHANGED <<since, step, ecmt, prv, part2nd>>
  BY DEF Insert
<1>7. /\ place \in [Ers -> {"new", "made", "listed", "counted", "waits"}]
      /\ delay \in [Ers -> Nat] /\ since \in [Ers -> Nat]
      /\ \A p \in Ers : delay[p] <= since[p]
  BY DEF LInv, IInv, CwpTypeOK
<1>8. Once'
  <2> SUFFICES ASSUME NEW i \in DOMAIN list', NEW j \in DOMAIN list', list'[i] = list'[j]
               PROVE  i = j
    BY DEF Once
  <2>1. CASE i = 1 \/ j = 1
    BY <1>2, <1>5, <2>1
  <2>2. CASE i # 1 /\ j # 1
    <3>1. i - 1 = j - 1
      BY <1>2, <2>2 DEF LInv, Once
    <3>2. i \in Int /\ j \in Int
      BY <1>1, ConcatProperties
    <3> QED BY <3>1, <3>2
  <2> QED BY <2>1, <2>2
<1>9. Homes'
  BY <1>1, <1>3, <1>6, <1>7 DEF LInv, Homes
<1>10. Aged'
  <2> SUFFICES ASSUME NEW i \in DOMAIN list', NEW j \in DOMAIN list', i < j
               PROVE  since'[list'[i]] - delay'[list'[i]] <= since'[list'[j]] - delay'[list'[j]]
    BY DEF Aged
  <2>1. i \in Nat /\ j \in Nat /\ i >= 1
    <3>1. DOMAIN list' \subseteq Nat \ {0}
      <4>1. list' \in Seq(Ers)
        BY <1>1, InsertLists
      <4> QED BY <4>1
    <3> QED BY <3>1
  <2>2. j - 1 \in DOMAIN list /\ list'[j] = list[j - 1] /\ list[j - 1] \in Ers /\ list[j - 1] # q
    BY <1>2, <1>5, <2>1
  <2>3. CASE i = 1
    BY <1>2, <1>6, <1>7, <2>2, <2>3
  <2>4. CASE i # 1
    <3>1. i - 1 \in DOMAIN list /\ list'[i] = list[i - 1] /\ list[i - 1] \in Ers /\ list[i - 1] # q
      BY <1>2, <1>5, <2>4
    <3>2. i - 1 < j - 1
      BY <2>1
    <3> QED BY <1>6, <1>7, <2>2, <3>1, <3>2 DEF LInv, Aged
  <2> QED BY <2>3, <2>4
<1>11. CutAt'
  <2> SUFFICES ASSUME step = "cut" PROVE CutAt'
    BY <1>6 DEF CutAt
  <2>1. PICK j \in DOMAIN list : /\ list[j] = ecmt /\ TooOld(ecmt)
                                 /\ prv # NoEr => j > 1 /\ list[j - 1] = prv
    BY DEF LInv, CutAt
  <2>2. j + 1 \in DOMAIN list' /\ list'[j + 1] = ecmt
    BY <1>2, <2>1
  <2>3. TooOld(ecmt)'
    BY <1>6, <2>1 DEF TooOld, Seconds
  <2>4. prv # NoEr => j + 1 > 1 /\ list'[j] = prv
    <3> SUFFICES ASSUME prv # NoEr PROVE j + 1 > 1 /\ list'[j] = prv
      OBVIOUS
    <3>1. j - 1 \in DOMAIN list /\ list[j - 1] = prv /\ j \in Nat /\ j > 1
      BY <1>1, <2>1
    <3>2. list'[(j - 1) + 1] = list[j - 1]
      BY <1>2, <3>1
    <3>3. (j - 1) + 1 = j
      BY <3>1
    <3> QED BY <3>1, <3>2, <3>3
  <2>5. (j + 1) - 1 = j
    BY <1>5
  <2> QED BY <1>6, <2>2, <2>3, <2>4, <2>5 DEF CutAt
<1> QED BY <1>8, <1>9, <1>10, <1>11

\* What the cut leaves is what stood before the request that is too old, at most.
LEMMA CutTakes ==
  ASSUME LInv, Cut
  PROVE  \E j \in DOMAIN list, last \in 0..Len(list) :
           /\ list[j] = ecmt /\ TooOld(ecmt) /\ last < j
           /\ last # 0 => last = j - 1
           /\ list' = SubSeq(list, 1, last)
           /\ \A q \in Ers :
                IF \E i \in last + 1..Len(list) : list[i] = q
                THEN since'[q] = 0 /\ delay'[q] = 0
                     /\ place'[q] = IF place[q] = "waits" THEN "new" ELSE place[q]
                ELSE since'[q] = since[q] /\ delay'[q] = delay[q] /\ place'[q] = place[q]
<1> DEFINE Last(i) == IF prv = NoEr THEN i = 0 ELSE i > 0 /\ list[i] = prv
           last    == CHOOSE i \in 0..Len(list) : Last(i)
           off     == {list[i] : i \in last + 1 .. Len(list)}
<1>0. list \in Seq(Ers) /\ step = "cut"
  BY DEF LInv, IInv, CwpTypeOK, Cut, Goes
<1>1. PICK j \in DOMAIN list : /\ list[j] = ecmt /\ TooOld(ecmt)
                               /\ prv # NoEr => j > 1 /\ list[j - 1] = prv
  BY <1>0 DEF LInv, CutAt
<1>2. \E i \in 0..Len(list) : Last(i)
  <2>1. CASE prv = NoEr
    BY <1>0, <2>1
  <2>2. CASE prv # NoEr
    <3>1. j - 1 \in 0..Len(list) /\ j - 1 > 0
      BY <1>0, <1>1, <2>2
    <3> QED BY <1>1, <2>2, <3>1
  <2> QED BY <2>1, <2>2
<1>3. last \in 0..Len(list) /\ Last(last)
  BY <1>2
<1>4. /\ list' = SubSeq(list, 1, last)
      /\ place' = [q \in Ers |-> IF q \in off /\ place[q] = "waits" THEN "new" ELSE place[q]]
      /\ since' = [q \in Ers |-> IF q \in off THEN 0 ELSE since[q]]
      /\ delay' = [q \in Ers |-> IF q \in off THEN 0 ELSE delay[q]]
  BY DEF Cut
<1> HIDE DEF last
<1>5. last # 0 => last = j - 1
  <2> SUFFICES ASSUME last # 0 PROVE last = j - 1
    OBVIOUS
  <2>1. prv # NoEr /\ list[last] = prv /\ last \in DOMAIN list
    BY <1>0, <1>3
  <2>2. j - 1 \in DOMAIN list /\ list[j - 1] = prv
    BY <1>0, <1>1, <2>1
  <2> QED BY <2>1, <2>2 DEF LInv, Once
<1>6. last < j
  BY <1>0, <1>3, <1>5
<1>7. \A q \in Ers : q \in off <=> \E i \in last + 1..Len(list) : list[i] = q
  OBVIOUS
<1> HIDE DEF off
<1>8. \A q \in Ers :
        IF \E i \in last + 1..Len(list) : list[i] = q
        THEN since'[q] = 0 /\ delay'[q] = 0
             /\ place'[q] = IF place[q] = "waits" THEN "new" ELSE place[q]
        ELSE since'[q] = since[q] /\ delay'[q] = delay[q] /\ place'[q] = place[q]
  BY <1>4, <1>7
<1> QED BY <1>1, <1>3, <1>4, <1>5, <1>6, <1>8

LEMMA LInvCut ==
  ASSUME LInv, Cut
  PROVE  Once' /\ Homes' /\ Aged' /\ CutAt'
<1>1. PICK j \in DOMAIN list, last \in 0..Len(list) :
        /\ list' = SubSeq(list, 1, last)
        /\ \A q \in Ers :
             IF \E i \in last + 1..Len(list) : list[i] = q
             THEN since'[q] = 0 /\ delay'[q] = 0
                  /\ place'[q] = IF place[q] = "waits" THEN "new" ELSE place[q]
             ELSE since'[q] = since[q] /\ delay'[q] = delay[q] /\ place'[q] = place[q]
  BY CutTakes
<1>2. list \in Seq(Ers) /\ \A i \in DOMAIN list : list[i] \in Ers
  BY DEF LInv, IInv, CwpTypeOK
<1>3. /\ DOMAIN list' = 1..last
      /\ \A i \in 1..last : list'[i] = list[i] /\ i \in DOMAIN list
  <2>1. \A i \in 1..last : list[i] \in Ers /\ i \in DOMAIN list
    BY <1>1, <1>2
  <2>2. list' \in Seq(Ers) /\ Len(list') = last /\ \A i \in 1..last : list'[i] = list[i]
    BY <1>1, <2>1, SubSeqProperties
  <2> QED BY <2>1, <2>2
<1>4. ASSUME NEW i \in 1..last
      PROVE  /\ list[i] \in Ers
             /\ since'[list[i]] = since[list[i]] /\ delay'[list[i]] = delay[list[i]]
             /\ place'[list[i]] = place[list[i]]
  <2>1. \A k \in last + 1..Len(list) : k \in DOMAIN list /\ k # i
    BY <1>1, <1>2
  <2>2. ~ \E k \in last + 1..Len(list) : list[k] = list[i]
    BY <1>3, <2>1 DEF LInv, Once
  <2> QED BY <1>1, <1>2, <1>3, <2>2
<1>5. Once'
  BY <1>3 DEF LInv, Once
<1>6. Aged'
  BY <1>3, <1>4 DEF LInv, Aged
<1>7. Homes'
  <2> SUFFICES ASSUME NEW q \in Ers
               PROVE  /\ Listed(q)' => place'[q] \in {"listed", "counted", "waits"}
                      /\ place'[q] = "made" => since'[q] <= MaxDelay
                      /\ ~Listed(q)' /\ place'[q] # "made" => since'[q] = 0
                      /\ delay'[q] <= MaxDelay
    BY DEF Homes
  <2>1. CASE Listed(q)'
    <3>1. PICK i \in 1..last : list'[i] = q
      BY <1>3, <2>1 DEF Listed
    <3>2. Listed(q) /\ place'[q] = place[q] /\ delay'[q] = delay[q]
      BY <1>3, <1>4, <3>1 DEF Listed
    <3>3. place'[q] \in {"listed", "counted", "waits"}
      BY <3>2 DEF LInv, Homes
    <3> QED BY <2>1, <3>2, <3>3 DEF LInv, Homes
  <2>2. CASE ~Listed(q)'
    <3>1. \A i \in 1..last : list[i] # q
      BY <1>3, <2>2 DEF Listed
    <3>2. CASE \E i \in last + 1..Len(list) : list[i] = q
      BY <1>1, <2>2, <3>2, CwProcessAssumption
    <3>3. CASE ~ \E i \in last + 1..Len(list) : list[i] = q
      <4>1. \A i \in DOMAIN list : i \in 1..last \/ i \in last + 1..Len(list)
        BY <1>1, <1>2
      <4>2. ~Listed(q)
        BY <3>1, <3>3, <4>1 DEF Listed
      <4> QED BY <1>1, <2>2, <3>3, <4>2 DEF LInv, Homes
    <3> QED BY <3>2, <3>3
  <2> QED BY <2>1, <2>2
<1>8. CutAt'
  BY DEF Cut, Goes, CutAt
<1> QED BY <1>5, <1>6, <1>7, <1>8

\* Steps that leave the requests on the list where they are
LEMMA LInvSame ==
  ASSUME LInv, UNCHANGED <<list, since, delay>>, Homes',
         step' = "cut" => step = "cut" /\ UNCHANGED <<ecmt, prv, part2nd>>
  PROVE  Once' /\ Homes' /\ Aged' /\ CutAt'
<1>1. Once' /\ Aged'
  BY DEF LInv, Once, Aged
<1>2. CutAt'
  BY DEF LInv, CutAt, TooOld, Seconds
<1> QED BY <1>1, <1>2

LEMMA LInvFindOld ==
  ASSUME LInv, FindOld
  PROVE  Once' /\ Homes' /\ Aged' /\ CutAt'
<1>1. UNCHANGED <<list, since, delay, place, part2nd>>
  BY DEF FindOld
<1>2. Once' /\ Homes' /\ Aged'
  BY <1>1 DEF LInv, Once, Homes, Aged, Listed
<1>3. CutAt'
  <2> SUFFICES ASSUME step' = "cut" PROVE CutAt'
    BY DEF CutAt
  <2>1. PICK i \in DOMAIN list : /\ TooOld(list[i]) /\ ecmt' = list[i]
                                 /\ prv' = IF i = 1 THEN NoEr ELSE list[i - 1]
    BY DEF FindOld
  <2>2. i \in Nat \ {0}
    BY DEF LInv, IInv, CwpTypeOK
  <2>3. TooOld(ecmt)'
    BY <1>1, <2>1 DEF TooOld, Seconds
  <2>4. prv' # NoEr => i > 1 /\ list[i - 1] = prv'
    BY <2>1, <2>2
  <2> QED BY <1>1, <2>1, <2>3, <2>4 DEF CutAt
<1> QED BY <1>2, <1>3

LEMMA LInvPass ==
  ASSUME LInv, Pass
  PROVE  Once' /\ Homes' /\ Aged' /\ CutAt'
<1>1. /\ UNCHANGED <<list, delay, place, step>> /\ step = "asleep"
      /\ \A q \in Ers : place[q] = "made" => since[q] < MaxDelay
      /\ since' = [q \in Ers |-> IF Listed(q) \/ place[q] = "made" THEN since[q] + 1 ELSE since[q]]
  BY DEF Pass
<1>2. /\ since \in [Ers -> Nat] /\ delay \in [Ers -> Nat] /\ MaxDelay \in Nat
      /\ \A i \in DOMAIN list : list[i] \in Ers
  BY CwProcessAssumption DEF LInv, IInv, CwpTypeOK
<1>3. \A q \in Ers : Listed(q)' <=> Listed(q)
  BY <1>1 DEF Listed
<1>4. Homes'
  BY <1>1, <1>2, <1>3 DEF LInv, Homes
<1>5. \A i \in DOMAIN list : since'[list[i]] = since[list[i]] + 1
  BY <1>1, <1>2 DEF Listed
<1>6. Aged'
  BY <1>1, <1>2, <1>5 DEF LInv, Aged
<1>7. Once' /\ CutAt'
  BY <1>1 DEF LInv, Once, CutAt
<1> QED BY <1>4, <1>6, <1>7

LEMMA LInvInit == CwpInit => LInv
<1> SUFFICES ASSUME CwpInit PROVE LInv
  OBVIOUS
<1>1. DOMAIN list = {} /\ \A q \in Ers : ~Listed(q)
  BY DEF CwpInit, Listed
<1>2. Homes
  BY <1>1, CwProcessAssumption DEF CwpInit, Homes
<1> QED BY <1>1, <1>2, InitInv DEF LInv, Once, Aged, CutAt, CwpInit

LEMMA LInvStep == LInv /\ [CwpNext]_cwpVars => LInv'
<1> SUFFICES ASSUME LInv, [CwpNext]_cwpVars PROVE Once' /\ Homes' /\ Aged' /\ CutAt'
  BY NextInv DEF LInv
<1>0. place \in [Ers -> {"new", "made", "listed", "counted", "waits"}]
  BY DEF LInv, IInv, CwpTypeOK
<1>1. ASSUME NEW q \in Ers, GetCwSteps(q) PROVE Once' /\ Homes' /\ Aged' /\ CutAt'
  <2>1. CASE Make(q)
    <3>1. Homes'
      BY <1>0, <2>1, CwProcessAssumption DEF Make, LInv, Homes, Listed
    <3> QED BY <2>1, <3>1, LInvSame DEF Make
  <2>2. CASE Insert(q)
    BY <2>2, LInvInsert
  <2>3. CASE CountWakeup(q)
    <3>1. Homes'
      BY <1>0, <2>3 DEF CountWakeup, LInv, Homes, Listed
    <3> QED BY <2>3, <3>1, LInvSame DEF CountWakeup
  <2>4. CASE Signal(q)
    <3>1. Homes'
      BY <1>0, <2>4 DEF Signal, LInv, Homes, Listed
    <3>2. step' = "cut" => step = "cut"
      BY <2>4 DEF Signal
    <3> QED BY <2>4, <3>1, <3>2, LInvSame DEF Signal
  <2> QED BY <1>1, <2>1, <2>2, <2>3, <2>4 DEF GetCwSteps
<1>2. CASE UNCHANGED <<place, list, since, delay>>
           /\ (step' = "cut" => step = "cut" /\ UNCHANGED <<ecmt, prv, part2nd>>)
  <2>1. Homes'
    BY <1>2 DEF LInv, Homes, Listed
  <2> QED BY <1>2, <2>1, LInvSame
<1>3. ASSUME NEW q \in Ers, ClientSteps(q) PROVE Once' /\ Homes' /\ Aged' /\ CutAt'
  BY <1>2, <1>3 DEF ClientSteps, Answered, Handle, LastTimeout
<1>4. CASE Test \/ FallAsleep \/ WakeUp \/ Reset \/ Round
  BY <1>2, <1>4 DEF Test, FallAsleep, WakeUp, Reset, Round, Goes
<1>5. CASE FindOld \/ Cut \/ Pass
  BY <1>5, LInvFindOld, LInvCut, LInvPass
<1>6. CASE UNCHANGED cwpVars
  BY <1>2, <1>6 DEF cwpVars
<1> QED BY <1>1, <1>3, <1>4, <1>5, <1>6 DEF CwpNext

-----------------------------------------------------------------------------
\* Division of natural numbers
LEMMA Divides ==
  ASSUME NEW a \in Nat, NEW b \in Nat \ {0}
  PROVE  a \div b \in Nat /\ b * (a \div b) <= a /\ a < b * (a \div b) + b
OBVIOUS

LEMMA Scales ==
  ASSUME NEW a \in Int, NEW b \in Int, NEW c \in Nat, a <= b
  PROVE  c * a <= c * b
OBVIOUS

\* A request that is too old is past its time, and half a second more.
LEMMA OldEnough ==
  ASSUME LInv, 2 * MaxDelay <= PerSecond, NEW q \in Ers, TooOld(q)
  PROVE  since[q] >= Ctimeout + 2 * PerSecond + MaxDelay
<1> DEFINE s == since[q] + PerSecond - 1 - part2nd
           m == (Ctimeout * 1000) \div PerSecond
           r == (m + 500) \div 1000
           n == s \div PerSecond
<1>1. /\ PerSecond \in Nat \ {0} /\ Ctimeout \in Nat /\ MaxDelay \in Nat /\ since[q] \in Nat
      /\ part2nd \in 0..PerSecond - 1
  BY CwProcessAssumption DEF LInv, IInv, CwpTypeOK, Ctimeout
<1>2. s \in Nat /\ Ctimeout * 1000 \in Nat
  BY <1>1
<1>3. n > r + 3
  BY DEF TooOld, Seconds
<1> HIDE DEF s
<1>4. n \in Nat /\ PerSecond * n <= s
  BY <1>1, <1>2, Divides
<1>5. m \in Nat /\ Ctimeout * 1000 < PerSecond * m + PerSecond
  BY <1>1, <1>2, Divides
<1> HIDE DEF n, m
<1>6. r \in Nat /\ m + 500 < 1000 * r + 1000
  BY <1>5
<1> HIDE DEF r
<1>7. PerSecond * (r + 4) <= PerSecond * n
  BY <1>1, <1>3, <1>4, <1>6, Scales
<1>8. PerSecond * m <= PerSecond * (1000 * r + 499)
  BY <1>1, <1>5, <1>6, Scales
<1> DEFINE x == PerSecond * r
<1>9. PerSecond * (r + 4) = x + 4 * PerSecond /\ x \in Nat
  BY <1>1, <1>6
<1>10. PerSecond * (1000 * r + 499) = 1000 * x + 499 * PerSecond
  BY <1>1, <1>6
<1>11. x + 4 * PerSecond <= s
  <2>1. PerSecond * n \in Int
    BY <1>1, <1>4
  <2> QED BY <1>1, <1>2, <1>4, <1>7, <1>9, <2>1
<1>12. Ctimeout * 1000 < 1000 * x + 500 * PerSecond
  <2>1. PerSecond * m \in Int
    BY <1>1, <1>5
  <2> QED BY <1>1, <1>5, <1>8, <1>9, <1>10, <2>1
<1> HIDE DEF x
<1> QED BY <1>1, <1>9, <1>11, <1>12 DEF s

\* A request leaves the list when it is past its time, whatever came between the search for
\* old requests and the cut (cw_process, ncam-ecm.c:341-379), if get_cw lists it within half
\* a second; or it was listed in between.
THEOREM StaysListedAlways ==
  ASSUME 2 * MaxDelay <= PerSecond
  PROVE  CwpSpec => StaysListed
<1> DEFINE A == \A q \in Ers : Listed(q) /\ ~Listed(q)' =>
                  \/ since[q] >= Ctimeout + 2 * PerSecond
                  \/ \E i, j \in DOMAIN list : list[i] = q /\ list[j] = ecmt /\ i < j
<1>1. ASSUME LInv, [CwpNext]_cwpVars PROVE A
  <2> SUFFICES ASSUME NEW q \in Ers, Listed(q), ~Listed(q)',
                      \A i, j \in DOMAIN list : ~(list[i] = q /\ list[j] = ecmt /\ i < j)
               PROVE  since[q] >= Ctimeout + 2 * PerSecond
    OBVIOUS
  <2>0. /\ list \in Seq(Ers) /\ \A i \in DOMAIN list : list[i] \in Ers
        /\ since \in [Ers -> Nat] /\ delay \in [Ers -> Nat] /\ MaxDelay \in Nat
        /\ PerSecond \in Nat /\ Ctimeout \in Nat
    BY <1>1, CwProcessAssumption DEF LInv, IInv, CwpTypeOK, Ctimeout
  <2>1. CASE Cut
    <3>1. PICK j \in DOMAIN list, last \in 0..Len(list) :
            /\ list[j] = ecmt /\ TooOld(ecmt) /\ last < j
            /\ list' = SubSeq(list, 1, last)
      BY <1>1, <2>1, CutTakes
    <3>2. PICK i \in DOMAIN list : list[i] = q
      BY DEF Listed
    <3>3. ~(i < j)
      BY <3>1, <3>2
    <3>4. since[ecmt] >= Ctimeout + 2 * PerSecond + MaxDelay /\ ecmt \in Ers
      BY <1>1, <2>0, <3>1, OldEnough
    <3>5. since[ecmt] - delay[ecmt] <= since[q] - delay[q]
      <4>1. i \in Int /\ j \in Int
        BY <2>0
      <4>2. CASE i = j
        BY <2>0, <3>1, <3>2, <4>2
      <4>3. CASE j < i
        BY <1>1, <3>1, <3>2, <4>3 DEF LInv, Aged
      <4> QED BY <3>3, <4>1, <4>2, <4>3
    <3>6. delay[ecmt] <= MaxDelay
      BY <1>1, <3>4 DEF LInv, Homes
    <3> QED BY <2>0, <3>4, <3>5, <3>6
  <2>2. ASSUME NEW p \in Ers, Insert(p) PROVE FALSE
    BY <2>0, <2>2, InsertLists DEF Insert
  <2>3. CASE list' = list
    BY <2>3 DEF Listed
  <2> QED BY <1>1, <2>1, <2>2, <2>3 DEF CwpNext, cwpVars, GetCwSteps, ClientSteps, Make,
             CountWakeup, Signal, Answered, Handle, LastTimeout, Test, FallAsleep, WakeUp,
             Reset, Round, FindOld, Pass
<1>2. LInv /\ [CwpNext]_cwpVars => [A]_cwpVars
  BY <1>1
<1> QED BY <1>2, LInvInit, LInvStep, PTL DEF StaysListed, CwpSpec
=============================================================================
