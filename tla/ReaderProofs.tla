---------------------------- MODULE ReaderProofs ----------------------------
(***************************************************************************)
(* The two kinds of readers: the table of a proxy reader (CascEcm) and the *)
(* card of a local one (CardReader), for any sizes of table and queue; and *)
(* the rate limiter in front of them (RateLimit).                          *)
(***************************************************************************)
EXTENDS CascEcm, CardReader, RateLimit, FiniteSetTheorems, WellFoundedInduction, TLAPS

-----------------------------------------------------------------------------
(***************************************************************************)
(* An answer of the server reaches only requests for the ECM it is about,  *)
(* for any number of requests, slots and messages.                         *)
(*                                                                         *)
(* The reason is in the identifiers: as long as none has been ambiguous, a *)
(* message under way and the slots with its identifier are about one ECM,  *)
(* also slots that do not wait any more (Identified).                      *)
(*                                                                         *)
(* From the same fact: a slot that waits can still be answered.  What is   *)
(* inductive is more than that, that the message under way finds a slot    *)
(* that waits (Reached); otherwise its answer would be thrown away.        *)
(***************************************************************************)

Answers == {"found", "notfound", "invalid"}

Tables == [Slots -> [q : Requests \cup {NoRequest}, idx : Nat, waits : BOOLEAN]]

\* A slot that waits has a request.
Waited(tasks) == \A n \in Slots : tasks[n].waits => tasks[n].q \in Requests

\* A message and the slots its identifier may mean are about the same ECM.
Agree(tasks, m) == \A n \in Slots : tasks[n].idx = m.id => EcmOf(tasks[n]) = m.ecm
Identified == ~ambiguous => \A m \in wire : m.id # 0 /\ Agree(ecmtask, m)

Shaped ==
  /\ ecmtask \in Tables
  /\ Waited(ecmtask)
  /\ msgid \in Nat /\ nextIdx \in Nat
  /\ DOMAIN told = Requests

Inv == Shaped /\ Identified /\ RightAnswer

-----------------------------------------------------------------------------
\* A slot with a request is about that request's ECM.
LEMMA EcmOfTask ==
  ASSUME NEW t, t.q \in Requests
  PROVE  EcmOf(t) = Ecm[t.q]
<1>1. t.q # NoRequest
  BY CascAssumption
<1> QED BY <1>1 DEF EcmOf

LEMMA IdsType == MsgIds \subseteq Nat /\ Idxs \subseteq Nat /\ LoginMsgs \in Nat
<1>1. MsgIds \subseteq 1..MaxMsgId /\ Idxs \subseteq 0..MaxIdx /\ LoginMsgs \in Nat \ {0}
  BY IdAssumption
<1> QED BY <1>1

\* Dropping old requests changes neither what a slot is about nor its identifier.
LEMMA DropLateSlots ==
  ASSUME NEW tasks \in Tables
  PROVE  /\ DropLate(tasks) \in Tables
         /\ \A n \in Slots : /\ DropLate(tasks)[n].q = tasks[n].q
                             /\ DropLate(tasks)[n].idx = tasks[n].idx
                             /\ DropLate(tasks)[n].waits => tasks[n].waits
<1> DEFINE T == [q : Requests \cup {NoRequest}, idx : Nat, waits : BOOLEAN]
<1>1. \A n \in Slots : /\ DropLate(tasks)[n] \in T
                      /\ DropLate(tasks)[n].q = tasks[n].q
                      /\ DropLate(tasks)[n].idx = tasks[n].idx
                      /\ DropLate(tasks)[n].waits => tasks[n].waits
  BY DEF Tables, DropLate
<1> QED BY <1>1 DEF DropLate, Tables

\* The numbers stay numbers.
LEMMA Numbers ==
  ASSUME Shaped
  PROVE  NewIdx \in Nat /\ NextIdx \in Nat /\ Connected \in Nat /\ MsgId \in Nat
<1>1. NewIdx \in Nat
  BY DEF Shaped, NewIdx, MaxMsgId
<1>2. NextIdx \in Nat
  BY <1>1 DEF Shaped, NextIdx
<1>3. Connected \in Nat
  BY IdsType DEF Shaped, Connected
<1> QED BY <1>1, <1>2, <1>3 DEF MsgId, MaxMsgId

\* The table with a slot for q at n.
LEMMA WithNewSlots ==
  ASSUME Shaped, NEW q \in Requests, NEW n \in Slots
  PROVE  /\ WithNew(q, n) \in Tables
         /\ Waited(WithNew(q, n))
         /\ WithNew(q, n)[n].q = q /\ WithNew(q, n)[n].idx = NewIdx /\ WithNew(q, n)[n].waits
         /\ \A k \in Slots \ {n} : /\ WithNew(q, n)[k].q = ecmtask[k].q
                                   /\ WithNew(q, n)[k].idx = ecmtask[k].idx
<1> DEFINE new == [q |-> q, idx |-> NewIdx, waits |-> TRUE]
           D == DropLate(ecmtask)
<1>1. new \in [q : Requests \cup {NoRequest}, idx : Nat, waits : BOOLEAN]
  BY Numbers
<1>2. D \in Tables /\ \A k \in Slots : /\ D[k].q = ecmtask[k].q
                                       /\ D[k].idx = ecmtask[k].idx
                                       /\ D[k].waits => ecmtask[k].waits
  BY DropLateSlots DEF Shaped
<1>3. WithNew(q, n) = [D EXCEPT ![n] = new]
  BY DEF WithNew
<1>4. new.q = q /\ new.idx = NewIdx /\ new.waits
  OBVIOUS
<1> HIDE DEF new, D
<1>5. WithNew(q, n) \in Tables
  BY <1>1, <1>2, <1>3 DEF Tables
<1>6. WithNew(q, n)[n] = new /\ \A k \in Slots \ {n} : WithNew(q, n)[k] = D[k]
  BY <1>2, <1>3 DEF Tables
<1>7. Waited(WithNew(q, n))
  BY <1>2, <1>4, <1>6 DEF Waited, Shaped
<1> QED BY <1>2, <1>4, <1>5, <1>6, <1>7

\* A message keeps agreeing with the table if its number is not the new slot's.
LEMMA NewAgrees ==
  ASSUME Shaped, NEW q \in Requests, NEW n \in Slots, NEW m, Agree(ecmtask, m),
         m.id # NewIdx \/ m.ecm = Ecm[q]
  PROVE  Agree(WithNew(q, n), m)
<1> SUFFICES ASSUME NEW k \in Slots, WithNew(q, n)[k].idx = m.id
             PROVE  EcmOf(WithNew(q, n)[k]) = m.ecm
  BY DEF Agree
<1>1. CASE k = n
  <2>1. WithNew(q, n)[n].q = q /\ WithNew(q, n)[n].idx = NewIdx
    BY WithNewSlots
  <2> QED BY <1>1, <2>1, EcmOfTask
<1>2. CASE k # n
  <2>1. WithNew(q, n)[k].q = ecmtask[k].q /\ WithNew(q, n)[k].idx = ecmtask[k].idx
    BY <1>2, WithNewSlots
  <2> QED BY <2>1 DEF EcmOf, Agree
<1> QED BY <1>1, <1>2

\* One slot of the table after an answer.
LEMMA AnsweredSlot ==
  ASSUME NEW tasks \in Tables, NEW n \in Slots, NEW k \in Slots
  PROVE  /\ Answered(tasks, n)[k] \in [q : Requests \cup {NoRequest}, idx : Nat, waits : BOOLEAN]
         /\ Answered(tasks, n)[k].q = tasks[k].q
         /\ Answered(tasks, n)[k].idx \in {0, tasks[k].idx}
         /\ k \in SameEcm(tasks, n) => Answered(tasks, n)[k].idx = 0
         /\ Answered(tasks, n)[k].waits => tasks[k].waits
<1>1. tasks[k] \in [q : Requests \cup {NoRequest}, idx : Nat, waits : BOOLEAN]
  BY DEF Tables
<1>2. CASE k \in SameEcm(tasks, n)
  <2>1. Answered(tasks, n)[k] = [tasks[k] EXCEPT !.idx = 0, !.waits = FALSE]
    BY <1>2 DEF Answered
  <2>2. ASSUME NEW t \in [q : Requests \cup {NoRequest}, idx : Nat, waits : BOOLEAN]
        PROVE  LET u == [t EXCEPT !.idx = 0, !.waits = FALSE] IN
               /\ u \in [q : Requests \cup {NoRequest}, idx : Nat, waits : BOOLEAN]
               /\ u.q = t.q /\ u.idx = 0 /\ ~u.waits
    OBVIOUS
  <2> QED BY <1>1, <2>1, <2>2
<1>3. CASE k \notin SameEcm(tasks, n)
  <2>1. Answered(tasks, n)[k] = DropLate(tasks)[k]
    BY <1>3 DEF Answered
  <2>2. DropLate(tasks)[k] \in [q : Requests \cup {NoRequest}, idx : Nat, waits : BOOLEAN]
    BY DropLateSlots DEF Tables
  <2>3. /\ DropLate(tasks)[k].q = tasks[k].q
        /\ DropLate(tasks)[k].idx = tasks[k].idx
        /\ DropLate(tasks)[k].waits => tasks[k].waits
    BY DropLateSlots
  <2> QED BY <1>3, <2>1, <2>2, <2>3
<1> QED BY <1>2, <1>3

\* The table without the slots that were answered.
LEMMA AnsweredSlots ==
  ASSUME NEW tasks \in Tables, Waited(tasks), NEW n \in Slots
  PROVE  /\ Answered(tasks, n) \in Tables
         /\ Waited(Answered(tasks, n))
         /\ \A k \in Slots : /\ Answered(tasks, n)[k].q = tasks[k].q
                             /\ Answered(tasks, n)[k].idx \in {0, tasks[k].idx}
                             /\ k \in SameEcm(tasks, n) => Answered(tasks, n)[k].idx = 0
<1>1. Answered(tasks, n) = [k \in Slots |-> Answered(tasks, n)[k]]
  BY DEF Answered
<1>2. Answered(tasks, n) \in Tables
  BY <1>1, AnsweredSlot DEF Tables
<1>3. Waited(Answered(tasks, n))
  <2> SUFFICES ASSUME NEW k \in Slots, Answered(tasks, n)[k].waits
               PROVE  Answered(tasks, n)[k].q \in Requests
    BY DEF Waited
  <2>1. tasks[k].waits /\ Answered(tasks, n)[k].q = tasks[k].q
    BY AnsweredSlot
  <2> QED BY <2>1 DEF Waited
<1> QED BY <1>2, <1>3, AnsweredSlot

\* The requests that are told are requests for the ECM of the slot.
LEMMA ToldRight ==
  ASSUME NEW tasks \in Tables, NEW n \in Slots, NEW answer, NEW q \in Requests,
         Told(tasks, n, answer)[q] # told[q]
  PROVE  Told(tasks, n, answer)[q] = answer /\ Ecm[q] = EcmOf(tasks[n])
<1>1. \E i \in SameEcm(tasks, n) : tasks[i].q = q
  BY DEF Told
<1>2. PICK i \in Slots : tasks[i].q = q /\ EcmOf(tasks[i]) = EcmOf(tasks[n])
  BY <1>1 DEF SameEcm
<1>3. EcmOf(tasks[i]) = Ecm[q]
  BY <1>2, CascAssumption DEF EcmOf
<1> QED BY <1>2, <1>3 DEF Told

-----------------------------------------------------------------------------
\* Answering a slot gives the right answer if it is the answer to the ECM of the slot.
LEMMA AnswerKeeps ==
  ASSUME NEW tasks \in Tables, NEW n \in Slots, NEW answer,
         NEW told1 \in {told, Told(tasks, n, answer)},
         answer.ecm = EcmOf(tasks[n]), ~ambiguous, RightAnswer,
         NEW q \in Requests, told1[q].kind \in Answers
  PROVE  told1[q].ecm = Ecm[q]
<1>1. CASE told1[q] = told[q]
  BY <1>1 DEF RightAnswer, Answers
<1>2. CASE told1[q] # told[q]
  BY <1>2, ToldRight
<1> QED BY <1>1, <1>2

LEMMA InitInv == CascInit => Inv
<1> SUFFICES ASSUME CascInit PROVE Inv
  OBVIOUS
<1>1. Shaped
  <2>1. msgid \in Nat /\ nextIdx \in Nat /\ DOMAIN told = Requests
    <3>2. msgid \in {0} \cup MsgIds /\ nextIdx \in {0} \cup Idxs
      BY Zenon DEF CascInit
    <3> QED BY <3>2, IdsType DEF CascInit
  <2>2. FreeSlot \in [q : Requests \cup {NoRequest}, idx : Nat, waits : BOOLEAN] /\ ~FreeSlot.waits
    BY DEF FreeSlot
  <2>3. ecmtask = [n \in Slots |-> FreeSlot]
    BY DEF CascInit
  <2> QED BY <2>1, <2>2, <2>3 DEF Shaped, Tables, Waited
<1>2. Identified /\ RightAnswer
  BY DEF CascInit, Identified, RightAnswer, Unasked
<1> QED BY <1>1, <1>2 DEF Inv

\* A request is forwarded, or shares a slot's ECM.
LEMMA DoubleInv ==
  ASSUME Inv, NEW q \in Requests, NEW n \in Slots, Double(q, n)
  PROVE  Inv'
<1>1. Shaped'
  BY WithNewSlots, Numbers DEF Double, TakesSlot, Inv, Shaped
<1>2. ~ambiguous' => ~ambiguous /\ \A m \in wire : m.id # NewIdx \/ m.ecm = Ecm[q]
  BY Zenon DEF Double
<1>3. Identified'
  <2> SUFFICES ASSUME ~ambiguous', NEW m \in wire PROVE m.id # 0 /\ Agree(ecmtask', m)
    BY DEF Identified, Double, Agree
  <2>1. m.id # 0 /\ Agree(ecmtask, m)
    BY <1>2 DEF Inv, Identified
  <2>2. ecmtask' = WithNew(q, n)
    BY DEF Double
  <2>3. Agree(WithNew(q, n), m)
    BY <1>2, <2>1, NewAgrees DEF Inv
  <2> QED BY <2>1, <2>2, <2>3
<1>4. RightAnswer'
  BY <1>2 DEF Double, Inv, RightAnswer, Shaped, Nothing
<1> QED BY <1>1, <1>3, <1>4 DEF Inv

LEMMA SendInv ==
  ASSUME Inv, NEW q \in Requests, NEW n \in Slots, Send(q, n)
  PROVE  Inv'
<1>1. Shaped'
  BY WithNewSlots, Numbers DEF Send, TakesSlot, Inv, Shaped
<1>2. ~ambiguous' =>
        /\ ~ambiguous /\ MsgId # 0 /\ MsgId = NewIdx
        /\ \A k \in Slots \ {n} : ecmtask[k].idx # MsgId \/ EcmOf(ecmtask[k]) = Ecm[q]
        /\ \A m \in wire : m.id # MsgId \/ m.ecm = Ecm[q]
  BY Zenon DEF Send, Clashes
<1>3. Identified'
  <2> SUFFICES ASSUME ~ambiguous', NEW m \in wire' PROVE m.id # 0 /\ Agree(ecmtask', m)
    BY DEF Identified, Agree
  <2>1. ecmtask' = WithNew(q, n) /\ wire' = wire \cup {[id |-> MsgId, ecm |-> Ecm[q]]}
    BY DEF Send
  <2>2. CASE m \in wire
    <3>1. m.id # 0 /\ Agree(ecmtask, m)
      BY <1>2, <2>2 DEF Inv, Identified
    <3>2. Agree(WithNew(q, n), m)
      BY <1>2, <2>2, <3>1, NewAgrees DEF Inv
    <3> QED BY <2>1, <3>1, <3>2
  <2>3. CASE m = [id |-> MsgId, ecm |-> Ecm[q]]
    <3>1. m.id = MsgId /\ m.ecm = Ecm[q]
      BY <2>3
    <3>2. Agree(WithNew(q, n), m)
      <4>1. WithNew(q, n)[n].q = q
        BY WithNewSlots DEF Inv
      <4>2. EcmOf(WithNew(q, n)[n]) = Ecm[q]
        BY <4>1, CascAssumption DEF EcmOf
      <4>3. \A k \in Slots \ {n} : WithNew(q, n)[k].q = ecmtask[k].q /\ WithNew(q, n)[k].idx = ecmtask[k].idx
        BY WithNewSlots DEF Inv
      <4>4. \A k \in Slots \ {n} : EcmOf(WithNew(q, n)[k]) = EcmOf(ecmtask[k])
        BY <4>3 DEF EcmOf
      <4> QED BY <1>2, <3>1, <4>2, <4>3, <4>4 DEF Agree
    <3> QED BY <1>2, <2>1, <3>1, <3>2
  <2> QED BY <2>1, <2>2, <2>3
<1>4. RightAnswer'
  BY <1>2 DEF Send, Inv, RightAnswer, Shaped, Nothing
<1> QED BY <1>1, <1>3, <1>4 DEF Inv

LEMMA SendFailsInv ==
  ASSUME Inv, NEW q \in Requests, NEW n \in Slots, SendFails(q, n)
  PROVE  Inv'
<1> DEFINE W == WithNew(q, n)
<1>1. /\ W \in Tables /\ Waited(W)
      /\ W[n].q = q /\ W[n].idx = NewIdx /\ W[n].waits
      /\ \A k \in Slots \ {n} : W[k].q = ecmtask[k].q /\ W[k].idx = ecmtask[k].idx
  BY WithNewSlots DEF Inv
<1>2. /\ ecmtask' = Answered(W, n)
      /\ wire' = wire /\ ambiguous' = ambiguous
      /\ told' = [Told(W, n, Answer("notfound", Ecm[q])) EXCEPT ![q] = Answer("notfound", Ecm[q])]
  BY DEF SendFails
<1>3. EcmOf(W[n]) = Ecm[q] /\ n \in SameEcm(W, n)
  <2>1. W[n].q = q /\ W[n].waits
    BY <1>1
  <2> HIDE DEF W
  <2> QED BY <2>1, EcmOfTask DEF SameEcm
<1> HIDE DEF W
<1>4. /\ Answered(W, n) \in Tables /\ Waited(Answered(W, n))
      /\ \A k \in Slots : /\ Answered(W, n)[k].q = W[k].q
                          /\ Answered(W, n)[k].idx \in {0, W[k].idx}
      /\ Answered(W, n)[n].idx = 0
  BY <1>1, <1>3, AnsweredSlots
<1>5. Shaped'
  BY <1>2, <1>4, Numbers DEF SendFails, TakesSlot, Inv, Shaped, Told
<1>6. Identified'
  <2> SUFFICES ASSUME ~ambiguous, NEW m \in wire PROVE m.id # 0 /\ Agree(ecmtask', m)
    BY <1>2 DEF Identified, Agree
  <2>1. m.id # 0 /\ Agree(ecmtask, m)
    BY DEF Inv, Identified
  <2> QED BY <1>1, <1>2, <1>4, <2>1 DEF Agree, EcmOf
<1>7. RightAnswer'
  <2> SUFFICES ASSUME ~ambiguous, NEW p \in Requests, told'[p].kind \in Answers
               PROVE  told'[p].ecm = Ecm[p]
    BY <1>2 DEF RightAnswer, Answers
  <2>1. CASE p = q
    BY <1>2, <2>1 DEF Answer, Told
  <2>2. CASE p # q
    <3> DEFINE t == Told(W, n, Answer("notfound", Ecm[q]))
    <3>1. told'[p] = t[p]
      BY <1>2, <2>2
    <3>2. Answer("notfound", Ecm[q]).ecm = EcmOf(W[n])
      BY <1>3 DEF Answer
    <3> HIDE DEF t
    <3>3. t[p].kind \in Answers => t[p].ecm = Ecm[p]
      BY <1>1, <3>2, AnswerKeeps DEF t, Inv
    <3> QED BY <3>1, <3>3
  <2> QED BY <2>1, <2>2
<1> QED BY <1>5, <1>6, <1>7 DEF Inv

LEMMA ClosesInv ==
  ASSUME Inv, \/ Close
              \/ \E q \in Requests, n \in Slots : SendCloses(q, n)
  PROVE  Inv'
<1>1. ASSUME NEW tasks \in Tables PROVE AllFree(tasks) \in Tables /\ Waited(AllFree(tasks))
  BY DEF AllFree, Tables, Waited
<1>2. CASE Close
  <2>1. Shaped'
    BY <1>1, <1>2 DEF Close, Inv, Shaped
  <2> QED BY <1>2, <2>1 DEF Close, Inv, Identified, RightAnswer
<1>3. CASE \E q \in Requests, n \in Slots : SendCloses(q, n)
  <2>1. PICK q \in Requests, n \in Slots : SendCloses(q, n)
    BY <1>3
  <2>2. Shaped'
    BY <1>1, <2>1, WithNewSlots, Numbers DEF SendCloses, TakesSlot, Inv, Shaped
  <2>3. Identified' /\ RightAnswer'
    BY <2>1 DEF SendCloses, Inv, Identified, RightAnswer, Shaped, Nothing
  <2> QED BY <2>2, <2>3 DEF Inv
<1> QED BY <1>2, <1>3

\* An answer of the server.
LEMMA ReceiveInv ==
  ASSUME Inv, NEW m \in wire, NEW n \in Slots, Receive(m, n)
  PROVE  Inv'
<1>1. n \in Meant(m.id) /\ ambiguous' = ambiguous /\ wire' = wire \ {m}
  BY DEF Receive, First
<1>2. PICK kind \in Kinds : told' = Told(ecmtask, n, Answer(kind, m.ecm))
  BY DEF Receive
<1>3. /\ ecmtask' \in Tables /\ Waited(ecmtask')
      /\ \A k \in Slots : ecmtask'[k].q = ecmtask[k].q /\ ecmtask'[k].idx \in {0, ecmtask[k].idx}
  BY AnsweredSlots DEF Receive, Inv, Shaped
<1>4. Shaped'
  BY <1>2, <1>3 DEF Receive, conn, Inv, Shaped, Told
<1>5. Identified'
  BY <1>1, <1>3 DEF Inv, Identified, Agree, EcmOf
<1>6. RightAnswer'
  <2> SUFFICES ASSUME ~ambiguous, NEW q \in Requests, told'[q].kind \in Answers
               PROVE  told'[q].ecm = Ecm[q]
    BY <1>1 DEF RightAnswer, Answers
  <2>1. EcmOf(ecmtask[n]) = m.ecm
    BY <1>1 DEF Inv, Identified, Agree, Meant
  <2>2. Answer(kind, m.ecm).ecm = EcmOf(ecmtask[n])
    BY <2>1 DEF Answer
  <2> QED BY <1>2, <2>2, AnswerKeeps DEF Inv, Shaped
<1> QED BY <1>4, <1>5, <1>6 DEF Inv

LEMMA NextInv == Inv /\ [CascNext]_cascVars => Inv'
<1> SUFFICES ASSUME Inv, [CascNext]_cascVars PROVE Inv'
  OBVIOUS
<1>1. ASSUME NEW q \in Requests, Overflow(q) PROVE Inv'
  <2>1. Shaped'
    BY <1>1, DropLateSlots DEF Overflow, conn, Inv, Shaped, Waited
  <2>2. Identified'
    BY <1>1, DropLateSlots DEF Overflow, Inv, Shaped, Identified, Agree, EcmOf
  <2>3. RightAnswer'
    BY <1>1 DEF Overflow, Inv, Shaped, RightAnswer, Nothing
  <2> QED BY <2>1, <2>2, <2>3 DEF Inv
<1>2. ASSUME NEW q \in Requests, GetOlder(q) \/ ClientTimeout(q) PROVE Inv'
  <2>1. Shaped' /\ Identified'
    BY <1>2 DEF GetOlder, ClientTimeout, conn, Inv, Shaped, Identified, Agree
  <2>2. RightAnswer'
    BY <1>2 DEF GetOlder, ClientTimeout, Inv, Shaped, RightAnswer, TimedOut
  <2> QED BY <2>1, <2>2 DEF Inv
<1>3. ASSUME NEW m \in wire, ReceiveUnknown(m) PROVE Inv'
  BY <1>3 DEF ReceiveUnknown, conn, Inv, Shaped, Identified, Agree, RightAnswer
<1>4. CASE IdleConnect
  BY <1>4, Numbers DEF IdleConnect, Inv, Shaped, Identified, Agree, RightAnswer
<1>5. CASE UNCHANGED cascVars
  BY <1>5 DEF cascVars, conn, Inv, Shaped, Identified, Agree, RightAnswer
<1> QED
  BY <1>1, <1>2, <1>3, <1>4, <1>5, DoubleInv, SendInv, SendFailsInv, ClosesInv, ReceiveInv
  DEF CascNext

\* No request is given the answer to another ECM (casc_process_ecm's choice of slot and
\* number, casc_check_dcw, network_tcp_connection_close), whatever the number of requests
\* and slots, as long as each message number has stood for one ECM.
THEOREM RightAnswerAlways == CascSpec => []RightAnswer
<1>1. Inv => RightAnswer
  BY DEF Inv
<1> QED
  BY <1>1, InitInv, NextInv, PTL DEF CascSpec

-----------------------------------------------------------------------------
(* A slot that waits has an answer to wait for. *)

TooLate(e) == \E q \in Requests : Ecm[q] = e /\ Late(q)

\* The answer to e is under way, to a slot that waits for it.
Reachable(tasks, msgs, e) ==
  \E m \in msgs : m.ecm = e /\ \E k \in Slots : tasks[k].waits /\ tasks[k].idx = m.id

Reached == ~ambiguous => \A n \in Slots :
  ecmtask[n].waits => LET e == EcmOf(ecmtask[n]) IN Reachable(ecmtask, wire, e) \/ TooLate(e)

CarriedInv == Inv /\ Reached

\* A slot goes on waiting, with its identifier, or its request is too old.
Stays(tasks, new, k) ==
  tasks[k].waits => \/ new[k].waits /\ new[k].idx = tasks[k].idx
                    \/ Late(tasks[k].q)

LEMMA DropLateStays ==
  ASSUME NEW tasks \in Tables, NEW k \in Slots
  PROVE  Stays(tasks, DropLate(tasks), k)
  BY DEF Stays, DropLate, Tables

LEMMA WithNewStays ==
  ASSUME Shaped, NEW q \in Requests, NEW n \in FreeSlots, NEW k \in Slots
  PROVE  /\ Stays(ecmtask, WithNew(q, n), k)
         /\ k # n /\ WithNew(q, n)[k].waits => ecmtask[k].waits
<1> DEFINE D == DropLate(ecmtask)
<1>1. D \in Tables /\ Stays(ecmtask, D, k) /\ (D[k].waits => ecmtask[k].waits)
  BY DropLateSlots, DropLateStays DEF Shaped
<1>2. n \in Slots /\ ~D[n].waits
  BY DEF FreeSlots
<1>3. WithNew(q, n) = [D EXCEPT ![n] = [q |-> q, idx |-> NewIdx, waits |-> TRUE]]
  BY DEF WithNew
<1> HIDE DEF D
<1>4. CASE k = n
  BY <1>1, <1>2, <1>4 DEF Stays
<1>5. CASE k # n
  <2>1. WithNew(q, n)[k] = D[k]
    BY <1>1, <1>2, <1>3, <1>5 DEF Tables
  <2> QED BY <1>1, <2>1 DEF Stays
<1> QED BY <1>4, <1>5

LEMMA AnsweredStays ==
  ASSUME NEW tasks \in Tables, NEW n \in Slots, NEW k \in Slots
  PROVE  /\ EcmOf(tasks[k]) # EcmOf(tasks[n]) => Stays(tasks, Answered(tasks, n), k)
         /\ EcmOf(tasks[k]) = EcmOf(tasks[n]) => ~Answered(tasks, n)[k].waits
<1>1. CASE k \in SameEcm(tasks, n)
  <2>1. Answered(tasks, n)[k] = [tasks[k] EXCEPT !.idx = 0, !.waits = FALSE]
    BY <1>1 DEF Answered
  <2>2. tasks[k] \in [q : Requests \cup {NoRequest}, idx : Nat, waits : BOOLEAN]
    BY DEF Tables
  <2> QED BY <1>1, <2>1, <2>2 DEF SameEcm
<1>2. CASE k \notin SameEcm(tasks, n)
  <2>1. Answered(tasks, n)[k] = DropLate(tasks)[k]
    BY <1>2 DEF Answered
  <2>2. Stays(tasks, DropLate(tasks), k) /\ (DropLate(tasks)[k].waits => tasks[k].waits)
    BY DropLateSlots, DropLateStays
  <2> QED BY <1>2, <2>1, <2>2 DEF SameEcm, Stays
<1> QED BY <1>1, <1>2

\* An ECM stays reachable when its waiting slots stay and the messages they are found by do.
LEMMA StaysReachable ==
  ASSUME Shaped, NEW e, Reachable(ecmtask, wire, e) \/ TooLate(e),
         ~ambiguous, Identified, NEW new, NEW msgs,
         \A k \in Slots : EcmOf(ecmtask[k]) = e => Stays(ecmtask, new, k),
         \A m \in wire : m.ecm = e /\ (\E k \in Slots : ecmtask[k].idx = m.id) => m \in msgs
  PROVE  Reachable(new, msgs, e) \/ TooLate(e)
<1>1. CASE TooLate(e)
  BY <1>1
<1>2. CASE Reachable(ecmtask, wire, e)
  <2>1. PICK m \in wire, k \in Slots : m.ecm = e /\ ecmtask[k].waits /\ ecmtask[k].idx = m.id
    BY <1>2 DEF Reachable
  <2>2. EcmOf(ecmtask[k]) = e
    BY <2>1 DEF Identified, Agree
  <2>3. ecmtask[k].q \in Requests /\ Ecm[ecmtask[k].q] = e
    BY <2>1, <2>2, EcmOfTask DEF Shaped, Waited
  <2>4. m \in msgs
    BY <2>1
  <2>5. CASE new[k].waits /\ new[k].idx = ecmtask[k].idx
    BY <2>1, <2>4, <2>5 DEF Reachable
  <2>6. CASE Late(ecmtask[k].q)
    BY <2>3, <2>6 DEF TooLate
  <2> QED BY <2>1, <2>2, <2>5, <2>6 DEF Stays
<1> QED BY <1>1, <1>2

\* What is too late stays so.
LEMMA LateStays ==
  ASSUME NEW e, TooLate(e), UNCHANGED age
  PROVE  TooLate(e)'
  BY DEF TooLate, Late

LEMMA ReachedKept ==
  ASSUME CarriedInv, UNCHANGED age, ~ambiguous,
         \A n \in Slots : ecmtask'[n].waits =>
           LET e == EcmOf(ecmtask'[n]) IN Reachable(ecmtask', wire', e) \/ TooLate(e)
  PROVE  Reached'
  BY LateStays DEF Reached, Reachable, TooLate, Late, EcmOf

LEMMA InitReached == CascInit => Reached
  BY DEF CascInit, Reached, FreeSlot

\* A new slot: how the others fare.
LEMMA NewSlotReached ==
  ASSUME CarriedInv, ~ambiguous, NEW q \in Requests, NEW n \in FreeSlots, NEW msgs, wire \subseteq msgs,
         NEW k \in Slots \ {n}, WithNew(q, n)[k].waits
  PROVE  LET e == EcmOf(WithNew(q, n)[k])
         IN Reachable(WithNew(q, n), msgs, e) \/ TooLate(e)
<1> DEFINE W == WithNew(q, n)
<1>1. Inv /\ Shaped /\ Identified /\ n \in Slots
  BY DEF CarriedInv, Inv, FreeSlots
<1>2. W[k].q = ecmtask[k].q /\ ecmtask[k].waits
  BY <1>1, WithNewSlots, WithNewStays
<1>3. \A i \in Slots : Stays(ecmtask, W, i)
  BY <1>1, WithNewStays
<1>4. EcmOf(W[k]) = EcmOf(ecmtask[k])
  BY <1>2 DEF EcmOf
<1>5. Reachable(ecmtask, wire, EcmOf(ecmtask[k])) \/ TooLate(EcmOf(ecmtask[k]))
  BY <1>2 DEF CarriedInv, Reached
<1> HIDE DEF W
<1>6. Reachable(W, msgs, EcmOf(ecmtask[k])) \/ TooLate(EcmOf(ecmtask[k]))
  BY <1>1, <1>3, <1>5, StaysReachable
<1> QED BY <1>4, <1>6 DEF W

LEMMA DoubleReached ==
  ASSUME CarriedInv, NEW q \in Requests, NEW n \in Slots, Double(q, n)
  PROVE  Reached'
<1> DEFINE W == WithNew(q, n)
<1>1. /\ ecmtask' = W /\ wire' = wire /\ UNCHANGED age
      /\ (~ambiguous' => ~ambiguous)
      /\ n \in FreeSlots /\ Pending(q)
  BY Zenon DEF Double, TakesSlot, First
<1>2. Inv /\ Shaped /\ Identified
  BY DEF CarriedInv, Inv
<1>3. W[n].q = q
  BY <1>2, WithNewSlots
<1> HIDE DEF W
<1>4. EcmOf(W[n]) = Ecm[q]
  BY <1>3, EcmOfTask
<1>5. ASSUME ~ambiguous PROVE Reachable(W, wire, Ecm[q]) \/ TooLate(Ecm[q])
  <2>1. PICK k \in Slots : DropLate(ecmtask)[k].waits /\ EcmOf(DropLate(ecmtask)[k]) = Ecm[q]
    BY <1>1 DEF Pending
  <2>2. k # n
    BY <1>1, <2>1 DEF FreeSlots
  <2>3. ecmtask[k].waits /\ EcmOf(ecmtask[k]) = Ecm[q]
    BY <1>2, <2>1, DropLateSlots DEF Shaped, EcmOf
  <2>4. Reachable(ecmtask, wire, Ecm[q]) \/ TooLate(Ecm[q])
    BY <1>5, <2>3 DEF CarriedInv, Reached
  <2>5. \A i \in Slots : Stays(ecmtask, W, i)
    BY <1>1, <1>2, WithNewStays DEF W
  <2> QED BY <1>2, <1>5, <2>4, <2>5, StaysReachable
<1>6. ASSUME ~ambiguous, NEW k \in Slots, W[k].waits
      PROVE  LET e == EcmOf(W[k]) IN Reachable(W, wire, e) \/ TooLate(e)
  <2>1. CASE k = n
    BY <1>4, <1>5, <1>6, <2>1
  <2>2. CASE k # n
    BY <1>1, <1>6, <2>2, NewSlotReached DEF W
  <2> QED BY <2>1, <2>2
<1>7. CASE ambiguous
  BY <1>1, <1>7 DEF Reached
<1>8. CASE ~ambiguous
  BY <1>1, <1>6, <1>8, ReachedKept
<1> QED BY <1>7, <1>8

LEMMA SendReached ==
  ASSUME CarriedInv, NEW q \in Requests, NEW n \in Slots, Send(q, n)
  PROVE  Reached'
<1> DEFINE W == WithNew(q, n)
           m == [id |-> MsgId, ecm |-> Ecm[q]]
<1>1. /\ ecmtask' = W /\ wire' = wire \cup {m} /\ UNCHANGED age
      /\ (~ambiguous' => ~ambiguous /\ MsgId = NewIdx)
      /\ n \in FreeSlots
  BY Zenon DEF Send, TakesSlot, First, Clashes
<1>2. Inv /\ Shaped /\ Identified
  BY DEF CarriedInv, Inv
<1>3. W[n].q = q /\ W[n].idx = NewIdx /\ W[n].waits
  BY <1>2, WithNewSlots
<1>4. m.id = MsgId /\ m.ecm = Ecm[q]
  OBVIOUS
<1> HIDE DEF W, m
<1>5. EcmOf(W[n]) = Ecm[q]
  BY <1>3, EcmOfTask
<1>6. ASSUME ~ambiguous', NEW k \in Slots, W[k].waits
      PROVE  LET e == EcmOf(W[k]) IN Reachable(W, wire', e) \/ TooLate(e)
  <2>1. CASE k = n
    <3>1. Reachable(W, wire', Ecm[q])
      BY <1>1, <1>3, <1>4, <1>6 DEF Reachable
    <3> QED BY <1>5, <2>1, <3>1
  <2>2. CASE k # n
    <3>1. wire \subseteq wire'
      BY <1>1
    <3> QED BY <1>1, <1>6, <2>2, <3>1, NewSlotReached DEF W
  <2> QED BY <2>1, <2>2
<1>7. CASE ambiguous'
  BY <1>7 DEF Reached
<1>8. CASE ~ambiguous'
  BY <1>1, <1>6, <1>8, ReachedKept
<1> QED BY <1>7, <1>8

LEMMA SendFailsReached ==
  ASSUME CarriedInv, NEW q \in Requests, NEW n \in Slots, SendFails(q, n)
  PROVE  Reached'
<1> DEFINE W == WithNew(q, n)
<1>1. /\ ecmtask' = Answered(W, n) /\ wire' = wire /\ UNCHANGED age
      /\ ambiguous' = ambiguous
      /\ n \in FreeSlots
  BY Zenon DEF SendFails, TakesSlot, First
<1>2. Inv /\ Shaped /\ Identified
  BY DEF CarriedInv, Inv
<1>3. /\ W \in Tables /\ Waited(W) /\ W[n].q = q
      /\ \A k \in Slots \ {n} : W[k].q = ecmtask[k].q /\ W[k].idx = ecmtask[k].idx
  BY <1>2, WithNewSlots
<1>4. \A k \in Slots : /\ Stays(ecmtask, W, k)
                       /\ (k # n /\ W[k].waits => ecmtask[k].waits)
  BY <1>1, <1>2, WithNewStays
<1> HIDE DEF W
<1>5. \A k \in Slots : /\ Answered(W, n)[k].q = W[k].q
                       /\ (Answered(W, n)[k].waits => W[k].waits)
                       /\ (EcmOf(W[k]) # EcmOf(W[n]) => Stays(W, Answered(W, n), k))
                       /\ (EcmOf(W[k]) = EcmOf(W[n]) => ~Answered(W, n)[k].waits)
  BY <1>3, AnsweredSlot, AnsweredStays
<1>6. ASSUME ~ambiguous, NEW k \in Slots, Answered(W, n)[k].waits
      PROVE  LET e == EcmOf(Answered(W, n)[k]) IN Reachable(Answered(W, n), wire, e) \/ TooLate(e)
  <2> DEFINE e == EcmOf(ecmtask[k])
  <2>1. W[k].waits /\ EcmOf(W[k]) # EcmOf(W[n])
    BY <1>5, <1>6
  <2>2. k # n
    BY <2>1
  <2>3. ecmtask[k].waits /\ EcmOf(Answered(W, n)[k]) = e /\ EcmOf(W[k]) = e
    BY <1>3, <1>4, <1>5, <2>1, <2>2 DEF EcmOf
  <2>4. Reachable(ecmtask, wire, e) \/ TooLate(e)
    BY <1>6, <2>3 DEF CarriedInv, Reached
  <2> HIDE DEF e
  <2>5. ASSUME NEW i \in Slots, EcmOf(ecmtask[i]) = e PROVE Stays(ecmtask, Answered(W, n), i)
    <3>1. CASE i = n
      <4>1. ~ecmtask[n].waits \/ Late(ecmtask[n].q)
        BY <1>1 DEF FreeSlots, DropLate
      <4> QED BY <3>1, <4>1 DEF Stays
    <3>2. CASE i # n
      <4>1. EcmOf(W[i]) = e /\ W[i].q = ecmtask[i].q /\ W[i].idx = ecmtask[i].idx
        BY <1>3, <2>5, <3>2 DEF EcmOf
      <4>2. Stays(W, Answered(W, n), i) /\ Stays(ecmtask, W, i)
        BY <1>4, <1>5, <2>1, <2>3, <4>1
      <4> QED BY <4>1, <4>2 DEF Stays
    <3> QED BY <3>1, <3>2
  <2>6. Reachable(Answered(W, n), wire, e) \/ TooLate(e)
    BY <1>2, <1>6, <2>4, <2>5, StaysReachable
  <2> QED BY <2>3, <2>6
<1>7. CASE ambiguous
  BY <1>1, <1>7 DEF Reached
<1>8. CASE ~ambiguous
  BY <1>1, <1>6, <1>8, ReachedKept
<1> QED BY <1>7, <1>8

LEMMA ClosesReached ==
  ASSUME CarriedInv, \/ Close
                     \/ \E q \in Requests, n \in Slots : SendCloses(q, n)
  PROVE  Reached'
<1>1. ASSUME NEW tasks \in Tables, NEW n \in Slots PROVE ~AllFree(tasks)[n].waits
  BY DEF AllFree, Tables
<1>2. \E tasks \in Tables : ecmtask' = AllFree(tasks)
  <2>1. CASE Close
    BY <2>1 DEF Close, CarriedInv, Inv, Shaped
  <2>2. CASE \E q \in Requests, n \in Slots : SendCloses(q, n)
    <3>1. PICK q \in Requests, n \in Slots : SendCloses(q, n)
      BY <2>2
    <3>2. WithNew(q, n) \in Tables
      BY WithNewSlots DEF CarriedInv, Inv
    <3> QED BY <3>1, <3>2 DEF SendCloses
  <2> QED BY <2>1, <2>2
<1> QED BY <1>1, <1>2 DEF Reached

LEMMA ReceiveReached ==
  ASSUME CarriedInv, NEW m \in wire, NEW n \in Slots, Receive(m, n)
  PROVE  Reached'
<1> DEFINE A == Answered(ecmtask, n)
<1>1. /\ ecmtask' = A /\ wire' = wire \ {m} /\ UNCHANGED age
      /\ ambiguous' = ambiguous /\ n \in Meant(m.id)
  BY DEF Receive, First
<1>2. Inv /\ Shaped /\ Identified /\ ecmtask \in Tables
  BY DEF CarriedInv, Inv, Shaped
<1>3. \A k \in Slots : /\ A[k].q = ecmtask[k].q
                       /\ (A[k].waits => ecmtask[k].waits)
                       /\ (EcmOf(ecmtask[k]) # EcmOf(ecmtask[n]) => Stays(ecmtask, A, k))
                       /\ (EcmOf(ecmtask[k]) = EcmOf(ecmtask[n]) => ~A[k].waits)
  BY <1>2, AnsweredSlot, AnsweredStays
<1> HIDE DEF A
<1>4. ASSUME ~ambiguous, NEW k \in Slots, A[k].waits
      PROVE  LET e == EcmOf(A[k]) IN Reachable(A, wire', e) \/ TooLate(e)
  <2> DEFINE e == EcmOf(ecmtask[k])
  <2>1. EcmOf(A[k]) = e /\ ecmtask[k].waits /\ e # EcmOf(ecmtask[n])
    BY <1>3, <1>4 DEF EcmOf
  <2>2. EcmOf(ecmtask[n]) = m.ecm
    BY <1>1, <1>2, <1>4 DEF Identified, Agree, Meant
  <2>3. Reachable(ecmtask, wire, e) \/ TooLate(e)
    BY <1>4, <2>1 DEF CarriedInv, Reached
  <2> HIDE DEF e
  <2>4. \A i \in Slots : EcmOf(ecmtask[i]) = e => Stays(ecmtask, A, i)
    BY <1>3, <2>1
  <2>5. \A x \in wire : x.ecm = e => x \in wire'
    BY <1>1, <2>1, <2>2
  <2>6. Reachable(A, wire', e) \/ TooLate(e)
    BY <1>2, <1>4, <2>3, <2>4, <2>5, StaysReachable
  <2> QED BY <2>1, <2>6
<1>5. CASE ambiguous
  BY <1>1, <1>5 DEF Reached
<1>6. CASE ~ambiguous
  BY <1>1, <1>4, <1>6, ReachedKept
<1> QED BY <1>5, <1>6

LEMMA ReceiveUnknownReached ==
  ASSUME CarriedInv, NEW m \in wire, ReceiveUnknown(m)
  PROVE  Reached'
<1>1. /\ UNCHANGED <<ecmtask, age, ambiguous>> /\ wire' = wire \ {m} /\ Meant(m.id) = {}
  BY DEF ReceiveUnknown
<1>2. Inv /\ Shaped /\ Identified
  BY DEF CarriedInv, Inv
<1>3. ASSUME ~ambiguous, NEW n \in Slots, ecmtask[n].waits
      PROVE  LET e == EcmOf(ecmtask[n]) IN Reachable(ecmtask, wire', e) \/ TooLate(e)
  <2> DEFINE e == EcmOf(ecmtask[n])
  <2>1. m.id # 0
    BY <1>2, <1>3 DEF Identified
  <2>2. \A k \in Slots : ecmtask[k].idx # m.id
    BY <1>1, <2>1 DEF Meant
  <2>3. Reachable(ecmtask, wire, e) \/ TooLate(e)
    BY <1>3 DEF CarriedInv, Reached
  <2> HIDE DEF e
  <2>4. \A k \in Slots : Stays(ecmtask, ecmtask, k)
    BY DEF Stays
  <2>5. \A x \in wire : (\E k \in Slots : ecmtask[k].idx = x.id) => x \in wire'
    BY <1>1, <2>2
  <2>6. Reachable(ecmtask, wire', e) \/ TooLate(e)
    BY <1>2, <1>3, <2>3, <2>4, <2>5, StaysReachable
  <2> QED BY <2>6 DEF e
<1>4. CASE ambiguous
  BY <1>1, <1>4 DEF Reached
<1>5. CASE ~ambiguous
  BY <1>1, <1>3, <1>5, ReachedKept
<1> QED BY <1>4, <1>5

LEMMA OverflowReached ==
  ASSUME CarriedInv, NEW q \in Requests, Overflow(q)
  PROVE  Reached'
<1> DEFINE D == DropLate(ecmtask)
<1>1. ecmtask' = D /\ wire' = wire /\ UNCHANGED <<age, ambiguous>>
  BY DEF Overflow
<1>2. Inv /\ Shaped /\ Identified /\ ecmtask \in Tables
  BY DEF CarriedInv, Inv, Shaped
<1>3. \A k \in Slots : /\ Stays(ecmtask, D, k)
                       /\ D[k].q = ecmtask[k].q /\ (D[k].waits => ecmtask[k].waits)
  BY <1>2, DropLateSlots, DropLateStays
<1> HIDE DEF D
<1>4. ASSUME ~ambiguous, NEW n \in Slots, D[n].waits
      PROVE  LET e == EcmOf(D[n]) IN Reachable(D, wire, e) \/ TooLate(e)
  <2> DEFINE e == EcmOf(ecmtask[n])
  <2>1. EcmOf(D[n]) = e
    BY <1>3 DEF EcmOf
  <2>2. Reachable(ecmtask, wire, e) \/ TooLate(e)
    BY <1>3, <1>4 DEF CarriedInv, Reached
  <2> HIDE DEF e
  <2>3. Reachable(D, wire, e) \/ TooLate(e)
    BY <1>2, <1>3, <1>4, <2>2, StaysReachable
  <2> QED BY <2>1, <2>3
<1>5. CASE ambiguous
  BY <1>1, <1>5 DEF Reached
<1>6. CASE ~ambiguous
  BY <1>1, <1>4, <1>6, ReachedKept
<1> QED BY <1>5, <1>6

LEMMA NextReached == CarriedInv /\ [CascNext]_cascVars => CarriedInv'
<1> SUFFICES ASSUME CarriedInv, [CascNext]_cascVars PROVE Reached'
  BY NextInv DEF CarriedInv
<1>1. ASSUME NEW q \in Requests, GetOlder(q) PROVE Reached'
  <2>1. /\ UNCHANGED <<ecmtask, wire, ambiguous>> /\ ~Late(q)
        /\ \A p \in Requests \ {q} : age'[p] = age[p]
    BY <1>1 DEF GetOlder
  <2>2. ASSUME NEW e, TooLate(e) PROVE TooLate(e)'
    BY <2>1, <2>2 DEF TooLate, Late
  <2> QED BY <2>1, <2>2 DEF CarriedInv, Reached, Reachable, TooLate, Late, EcmOf
<1>2. ASSUME NEW q \in Requests, ClientTimeout(q) PROVE Reached'
  BY <1>2 DEF ClientTimeout, CarriedInv, Reached, Reachable, TooLate, Late, EcmOf
<1>3. CASE IdleConnect
  BY <1>3 DEF IdleConnect, CarriedInv, Reached, Reachable, TooLate, Late, EcmOf
<1>4. CASE UNCHANGED cascVars
  BY <1>4 DEF cascVars, conn, CarriedInv, Reached, Reachable, TooLate, Late, EcmOf
<1> QED
  BY <1>1, <1>2, <1>3, <1>4, DoubleReached, SendReached, SendFailsReached, ClosesReached,
     ReceiveReached, ReceiveUnknownReached, OverflowReached
  DEF CascNext

\* No slot waits for nothing (casc_process_ecm's sflag, casc_check_dcw,
\* network_tcp_connection_close), whatever the number of requests and slots: with the same
\* exception the answer to its ECM can still come, or a request for the ECM is too old.
THEOREM CarriedAlways == CascSpec => []Carried
<1>1. CascInit => CarriedInv
  BY InitInv, InitReached DEF CarriedInv
<1>2. CarriedInv => Carried
  <2> SUFFICES ASSUME CarriedInv, ~ambiguous, NEW n \in Slots, ecmtask[n].waits
               PROVE  \/ \E m \in wire : m.ecm = EcmOf(ecmtask[n])
                      \/ \E q \in Requests : Ecm[q] = EcmOf(ecmtask[n]) /\ Late(q)
    BY DEF Carried
  <2> QED BY DEF CarriedInv, Reached, Reachable, TooLate
<1> QED
  BY <1>1, <1>2, NextReached, PTL DEF CascSpec

-----------------------------------------------------------------------------
(* The types of the proxy reader.  The guess at a number, and the number, have 16 bits. *)

Places == [q : Requests \cup {NoRequest}, idx : 0..MaxMsgId, waits : BOOLEAN]
Replies == [kind : Answers, ecm : Ecms]
Records == {Unasked, Nothing, TimedOut} \cup Replies

\* All that matters of the two limits, and of 16 bits
LEMMA Limits ==
  /\ MaxMsgId \in Nat /\ MaxIdx \in Nat /\ MaxIdx > 1 /\ MaxMsgId > MaxIdx
  /\ \A k \in Nat : k % (MaxMsgId + 1) \in 0..MaxMsgId
<1>1. MaxMsgId \in Nat /\ MaxIdx \in Nat /\ MaxIdx > 1 /\ MaxMsgId > MaxIdx
  BY SMT DEF MaxMsgId, MaxIdx
<1>2. ASSUME NEW d \in Nat, d > 0, NEW k \in Nat PROVE k % d \in Nat /\ k % d < d
  BY <1>2
<1>3. \A k \in Nat : k % (MaxMsgId + 1) \in 0..MaxMsgId
  <2>1. MaxMsgId + 1 \in Nat /\ MaxMsgId + 1 > 0
    BY <1>1
  <2>2. \A k \in Nat : k % (MaxMsgId + 1) \in Nat /\ k % (MaxMsgId + 1) < MaxMsgId + 1
    BY <1>2, <2>1
  <2> QED BY <1>1, <2>2
<1> QED BY <1>1, <1>3

\* The type invariant, with names for the sets
Typed ==
  /\ proto \in Protocols /\ open \in BOOLEAN /\ ambiguous \in BOOLEAN
  /\ msgid \in 0..MaxMsgId /\ nextIdx \in 0..MaxIdx /\ lastIdx \in 0..MaxMsgId
  /\ ecmtask \in [Slots -> Places] /\ told \in [Requests -> Records]
  /\ wire \subseteq [id : 0..MaxMsgId, ecm : Ecms]
  /\ age \in [Requests -> 0..2]

LEMMA NumbersBounded ==
  ASSUME CascTypeOK
  PROVE  /\ NewIdx \in 0..MaxMsgId /\ NextIdx \in 0..MaxIdx
         /\ Connected \in 0..MaxMsgId /\ MsgId \in 0..MaxMsgId
<1>1. nextIdx \in 0..MaxIdx /\ msgid \in 0..MaxMsgId /\ LoginMsgs \in {1, 2}
  BY IdAssumption DEF CascTypeOK
<1>2. NewIdx \in 0..MaxMsgId /\ (proto # "newcamd" => NewIdx \in 0..MaxIdx)
  <2>1. CASE proto = "newcamd"
    <3>1. (IF msgid = 0 THEN 2 ELSE msgid + 1) \in Nat
      BY <1>1, Limits
    <3> QED BY <2>1, <3>1, Limits DEF NewIdx
  <2>2. CASE proto # "newcamd"
    BY <1>1, <2>2, Limits DEF NewIdx
  <2> QED BY <2>1, <2>2
<1>3. NextIdx \in 0..MaxIdx
  BY <1>1, <1>2, Limits DEF NextIdx
<1>4. Connected \in 0..MaxMsgId
  BY <1>1, Limits DEF Connected
<1>5. MsgId \in 0..MaxMsgId
  <2>1. (Connected + 1) % (MaxMsgId + 1) \in 0..MaxMsgId
    BY <1>4, Limits
  <2> QED BY <1>2, <2>1 DEF MsgId
<1> QED BY <1>2, <1>3, <1>4, <1>5

\* What a handler makes of one slot
LEMMA TableTyped ==
  ASSUME NEW tasks \in [Slots -> Places]
  PROVE  /\ DropLate(tasks) \in [Slots -> Places]
         /\ AllFree(tasks) \in [Slots -> Places]
         /\ \A n \in Slots : Answered(tasks, n) \in [Slots -> Places]
<1>1. 0 \in 0..MaxMsgId
  BY Limits
<1>2. ASSUME NEW n \in Slots PROVE DropLate(tasks)[n] \in Places
  BY DEF DropLate, Places
<1>3. DropLate(tasks) \in [Slots -> Places]
  BY <1>2 DEF DropLate
<1>4. ASSUME NEW n \in Slots PROVE AllFree(tasks)[n] \in Places
  BY <1>1 DEF AllFree, Places
<1>5. AllFree(tasks) \in [Slots -> Places]
  BY <1>4 DEF AllFree
<1>6. ASSUME NEW n \in Slots PROVE Answered(tasks, n) \in [Slots -> Places]
  <2>1. ASSUME NEW i \in Slots, i \in SameEcm(tasks, n)
        PROVE  [tasks[i] EXCEPT !.idx = 0, !.waits = FALSE] \in Places
    BY <1>1 DEF Places
  <2>2. \A i \in Slots : Answered(tasks, n)[i] \in Places
    BY <2>1, <1>2 DEF Answered
  <2> QED BY <2>2 DEF Answered
<1> QED BY <1>3, <1>5, <1>6

LEMMA NewSlotTyped ==
  ASSUME CascTypeOK, NEW q \in Requests, NEW n \in Slots
  PROVE  WithNew(q, n) \in [Slots -> Places]
<1>1. [q |-> q, idx |-> NewIdx, waits |-> TRUE] \in Places
  BY NumbersBounded DEF Places
<1>2. DropLate(ecmtask) \in [Slots -> Places]
  BY TableTyped DEF CascTypeOK, Places
<1> QED BY <1>1, <1>2 DEF WithNew

LEMMA ToldTyped ==
  ASSUME told \in [Requests -> Records], NEW tasks, NEW n, NEW a \in Records
  PROVE  Told(tasks, n, a) \in [Requests -> Records]
BY DEF Told

LEMMA AnswerTyped ==
  ASSUME NEW k \in Answers, NEW e \in Ecms
  PROVE  Answer(k, e) \in Records
BY DEF Answer, Records, Replies

LEMMA CascTypeInit == CascInit => CascTypeOK
<1> SUFFICES ASSUME CascInit PROVE CascTypeOK
  OBVIOUS
<1>1. /\ proto \in Protocols /\ open \in BOOLEAN
      /\ msgid \in 0..MaxMsgId /\ nextIdx \in 0..MaxIdx /\ lastIdx \in 0..MaxMsgId
  <2>1. MsgIds \subseteq 1..MaxMsgId /\ Idxs \subseteq 0..MaxIdx
    BY IdAssumption
  <2>2. msgid \in 0..MaxMsgId
    <3>1. msgid = 0 \/ msgid \in MsgIds
      BY SMT DEF CascInit
    <3>2. 0 \in 0..MaxMsgId /\ 1..MaxMsgId \subseteq 0..MaxMsgId
      BY Limits
    <3> QED BY <2>1, <3>1, <3>2, Zenon
  <2>3. nextIdx \in 0..MaxIdx
    BY <2>1, Limits DEF CascInit
  <2>4. proto \in Protocols /\ open \in BOOLEAN /\ lastIdx = 0
    BY Zenon DEF CascInit
  <2> QED BY <2>2, <2>3, <2>4, Limits
<1>2. FreeSlot \in Places
  BY Limits DEF FreeSlot, Places
<1>3. ecmtask \in [Slots -> Places]
  BY <1>2 DEF CascInit
<1>4. Unasked \in Records
  BY DEF Records
<1>5. told \in [Requests -> Records] /\ age \in [Requests -> 0..2]
  BY <1>4 DEF CascInit
<1> QED BY <1>1, <1>3, <1>5 DEF CascInit, CascTypeOK, Places, Records, Replies, Answers

LEMMA CascTypeNext == CascTypeOK /\ [CascNext]_cascVars => CascTypeOK'
<1> SUFFICES ASSUME CascTypeOK, [CascNext]_cascVars PROVE CascTypeOK'
  OBVIOUS
<1> USE DEF conn
<1>a. /\ ecmtask \in [Slots -> Places] /\ told \in [Requests -> Records]
      /\ wire \subseteq [id : 0..MaxMsgId, ecm : Ecms]
      /\ Ecm \in [Requests -> Ecms]
  BY CascAssumption DEF CascTypeOK, Places, Records, Replies, Answers
<1>b. Nothing \in Records /\ TimedOut \in Records
  BY DEF Records
<1>c. SUFFICES Typed'
  BY DEF CascTypeOK, Typed, Places, Records, Replies, Answers
<1>d. /\ NewIdx \in 0..MaxMsgId /\ NextIdx \in 0..MaxIdx
      /\ Connected \in 0..MaxMsgId /\ MsgId \in 0..MaxMsgId /\ 0 \in 0..MaxMsgId
  BY NumbersBounded, Limits
<1>e. /\ proto \in Protocols /\ open \in BOOLEAN /\ ambiguous \in BOOLEAN
      /\ msgid \in 0..MaxMsgId /\ nextIdx \in 0..MaxIdx /\ lastIdx \in 0..MaxMsgId
      /\ age \in [Requests -> 0..2]
  BY DEF CascTypeOK
<1>f. ASSUME NEW q \in Requests, NEW r \in Records PROVE [told EXCEPT ![q] = r] \in [Requests -> Records]
  BY <1>a
<1>1. ASSUME NEW q \in Requests, NEW n \in Slots, Double(q, n) PROVE Typed'
  <2>1. ecmtask' \in [Slots -> Places]
    BY <1>1, NewSlotTyped DEF Double
  <2>2. told' \in [Requests -> Records]
    BY <1>1, <1>b, <1>f DEF Double
  <2> QED BY <1>1, <1>a, <1>d, <1>e, <2>1, <2>2 DEF Double, TakesSlot, Typed
<1>2. ASSUME NEW q \in Requests, NEW n \in Slots, Send(q, n) PROVE Typed'
  <2>1. ecmtask' \in [Slots -> Places]
    BY <1>2, NewSlotTyped DEF Send
  <2>2. told' \in [Requests -> Records]
    BY <1>2, <1>b, <1>f DEF Send
  <2>3. wire' \subseteq [id : 0..MaxMsgId, ecm : Ecms]
    BY <1>2, <1>a, <1>d DEF Send
  <2> QED BY <1>2, <1>d, <1>e, <2>1, <2>2, <2>3 DEF Send, TakesSlot, Typed
<1>3. ASSUME NEW q \in Requests, NEW n \in Slots, SendFails(q, n) PROVE Typed'
  <2>0. Answer("notfound", Ecm[q]) \in Records
    BY <1>a, AnswerTyped DEF Answers
  <2>1. ecmtask' \in [Slots -> Places]
    BY <1>3, NewSlotTyped, TableTyped DEF SendFails
  <2>2. told' \in [Requests -> Records]
    <3>1. Told(WithNew(q, n), n, Answer("notfound", Ecm[q])) \in [Requests -> Records]
      BY <1>a, <2>0, ToldTyped
    <3> QED BY <1>3, <2>0, <3>1 DEF SendFails
  <2>3. open' \in BOOLEAN /\ msgid' \in 0..MaxMsgId
    BY <1>3, <1>d, <1>e DEF SendFails
  <2> QED BY <1>3, <1>a, <1>d, <1>e, <2>1, <2>2, <2>3 DEF SendFails, TakesSlot, Typed
<1>4. ASSUME NEW q \in Requests, NEW n \in Slots, SendCloses(q, n) PROVE Typed'
  <2>1. ecmtask' \in [Slots -> Places]
    BY <1>4, NewSlotTyped, TableTyped DEF SendCloses
  <2>2. told' \in [Requests -> Records]
    BY <1>4, <1>b, <1>f DEF SendCloses
  <2> QED BY <1>4, <1>d, <1>e, <2>1, <2>2 DEF SendCloses, TakesSlot, Typed
<1>5. ASSUME NEW q \in Requests, Overflow(q) PROVE Typed'
  <2>1. ecmtask' \in [Slots -> Places]
    BY <1>5, <1>a, TableTyped DEF Overflow
  <2>2. told' \in [Requests -> Records]
    BY <1>5, <1>b, <1>f DEF Overflow
  <2> QED BY <1>5, <1>a, <1>e, <2>1, <2>2 DEF Overflow, Typed
<1>6. ASSUME NEW q \in Requests, GetOlder(q) PROVE Typed'
  <2>1. age' \in [Requests -> 0..2]
    BY <1>6, <1>e DEF GetOlder, Late
  <2> QED BY <1>6, <1>a, <1>e, <2>1 DEF GetOlder, Typed
<1>7. ASSUME NEW q \in Requests, ClientTimeout(q) PROVE Typed'
  <2>1. told' \in [Requests -> Records]
    BY <1>7, <1>b, <1>f DEF ClientTimeout
  <2> QED BY <1>7, <1>a, <1>e, <2>1 DEF ClientTimeout, Typed
<1>8. ASSUME NEW m \in wire, ReceiveUnknown(m) PROVE Typed'
  BY <1>8, <1>a, <1>e DEF ReceiveUnknown, Typed
<1>9. ASSUME NEW m \in wire, NEW n \in Slots, Receive(m, n) PROVE Typed'
  <2>1. ecmtask' \in [Slots -> Places]
    BY <1>9, <1>a, TableTyped DEF Receive
  <2>2. PICK k \in Kinds : told' = Told(ecmtask, n, Answer(k, m.ecm))
    BY <1>9 DEF Receive
  <2>3. Answer(k, m.ecm) \in Records
    <3>1. k \in Answers /\ m.ecm \in Ecms
      BY <1>a DEF Kinds, Answers
    <3> QED BY <3>1, AnswerTyped
  <2>4. told' \in [Requests -> Records]
    BY <1>a, <2>2, <2>3, ToldTyped
  <2> QED BY <1>9, <1>a, <1>e, <2>1, <2>4 DEF Receive, Typed
<1>10. CASE Close
  <2>1. ecmtask' \in [Slots -> Places]
    BY <1>10, <1>a, TableTyped DEF Close
  <2> QED BY <1>10, <1>a, <1>d, <1>e, <2>1 DEF Close, Typed
<1>11. CASE IdleConnect
  BY <1>11, <1>a, <1>d, <1>e DEF IdleConnect, Typed
<1>12. CASE UNCHANGED cascVars
  BY <1>12, <1>a, <1>e DEF cascVars, Typed
<1> QED
  BY <1>1, <1>2, <1>3, <1>4, <1>5, <1>6, <1>7, <1>8, <1>9, <1>10, <1>11, <1>12 DEF CascNext

\* Type invariant of the proxy reader, whatever the number of requests, slots and messages.
THEOREM CascTypeOKAlways == CascSpec => []CascTypeOK
<1> QED BY CascTypeInit, CascTypeNext, PTL DEF CascSpec

-----------------------------------------------------------------------------
(***************************************************************************)
(* For every reader, length of its queue and reset cycle: one reset job    *)
(* waits for a card that needs one, and a card fails for a cause of its    *)
(* own, until resets get out of order in one of the three known ways.      *)
(***************************************************************************)

-----------------------------------------------------------------------------
(* Jobs in a queue *)

\* After add_job there is the new job, and what was there before.
LEMMA WaitsAppend ==
  ASSUME NEW q \in Seq(Jobs), NEW k \in Jobs, NEW job \in Jobs
  PROVE  Waits(Append(q, k), job) <=> Waits(q, job) \/ k = job
<1>1. DOMAIN Append(q, k) = 1..Len(q) + 1 /\ DOMAIN q = 1..Len(q) /\ Len(q) \in Nat
  OBVIOUS
<1>2. \A n \in 1..Len(q) : Append(q, k)[n] = q[n]
  OBVIOUS
<1>3. Append(q, k)[Len(q) + 1] = k
  OBVIOUS
<1>4. ASSUME Waits(Append(q, k), job) PROVE Waits(q, job) \/ k = job
  <2>1. PICK n \in 1..Len(q) + 1 : Append(q, k)[n] = job
    BY <1>1, <1>4 DEF Waits
  <2>2. n \in 1..Len(q) \/ n = Len(q) + 1
    BY <1>1, <2>1
  <2>3. QED
    BY <1>1, <1>2, <1>3, <2>1, <2>2 DEF Waits
<1>5. ASSUME Waits(q, job) PROVE Waits(Append(q, k), job)
  <2>1. PICK n \in 1..Len(q) : q[n] = job
    BY <1>1, <1>5 DEF Waits
  <2>2. n \in 1..Len(q) + 1 /\ Append(q, k)[n] = job
    BY <1>1, <1>2, <2>1
  <2>3. QED
    BY <1>1, <2>2 DEF Waits
<1>6. ASSUME k = job PROVE Waits(Append(q, k), job)
  <2>1. Len(q) + 1 \in 1..Len(q) + 1
    BY <1>1
  <2>2. QED
    BY <1>1, <1>3, <1>6, <2>1 DEF Waits
<1>7. QED
  BY <1>4, <1>5, <1>6

\* A job that did not wait waits once when it is added; others wait as often as before.
LEMMA OnceAppend ==
  ASSUME NEW q \in Seq(Jobs), NEW k \in Jobs, NEW job \in Jobs,
         IF k = job THEN ~Waits(q, job) ELSE Once(q, job)
  PROVE  Once(Append(q, k), job)
<1>1. DOMAIN Append(q, k) = 1..Len(q) + 1 /\ DOMAIN q = 1..Len(q) /\ Len(q) \in Nat
  OBVIOUS
<1>2. \A n \in 1..Len(q) : Append(q, k)[n] = q[n]
  OBVIOUS
<1>3. Append(q, k)[Len(q) + 1] = k
  OBVIOUS
<1>4. SUFFICES ASSUME NEW m \in 1..Len(q) + 1, NEW n \in 1..Len(q) + 1,
                      Append(q, k)[m] = job, Append(q, k)[n] = job
               PROVE  m = n
  BY <1>1 DEF Once
<1>5. CASE k = job
  <2>1. \A i \in 1..Len(q) : q[i] # job
    BY <1>1, <1>5 DEF Waits
  <2>2. m = Len(q) + 1 /\ n = Len(q) + 1
    BY <1>1, <1>2, <1>4, <2>1
  <2>3. QED
    BY <2>2
<1>6. CASE k # job
  <2>1. m \in 1..Len(q) /\ n \in 1..Len(q)
    BY <1>1, <1>3, <1>4, <1>6
  <2>2. QED
    BY <1>1, <1>2, <1>4, <1>6, <2>1 DEF Once
<1>7. QED
  BY <1>5, <1>6

\* What waits behind the first job
LEMMA WaitsTail ==
  ASSUME NEW q \in Seq(Jobs), q # <<>>, NEW job \in Jobs
  PROVE  /\ Tail(q) \in Seq(Jobs) /\ Head(q) \in Jobs
         /\ Waits(Tail(q), job) => Waits(q, job)
         /\ Head(q) # job => (Waits(Tail(q), job) <=> Waits(q, job))
         /\ Head(q) = job => Waits(q, job)
         /\ Once(q, job) => Once(Tail(q), job)
         /\ Head(q) = job /\ Once(q, job) => ~Waits(Tail(q), job)
<1>1. /\ DOMAIN q = 1..Len(q) /\ Len(q) \in Nat \ {0}
      /\ DOMAIN Tail(q) = 1..Len(q) - 1 /\ Head(q) = q[1]
      /\ Tail(q) \in Seq(Jobs) /\ Head(q) \in Jobs
  OBVIOUS
<1>2. \A n \in 1..Len(q) - 1 : Tail(q)[n] = q[n + 1]
  OBVIOUS
<1>3. Waits(Tail(q), job) => Waits(q, job)
  <2>1. SUFFICES ASSUME Waits(Tail(q), job) PROVE Waits(q, job)
    OBVIOUS
  <2>2. PICK n \in 1..Len(q) - 1 : Tail(q)[n] = job
    BY <1>1, <2>1 DEF Waits
  <2>3. n + 1 \in 1..Len(q) /\ q[n + 1] = job
    BY <1>1, <1>2, <2>2
  <2>4. QED
    BY <1>1, <2>3 DEF Waits
<1>4. Head(q) # job /\ Waits(q, job) => Waits(Tail(q), job)
  <2>1. SUFFICES ASSUME Head(q) # job, Waits(q, job) PROVE Waits(Tail(q), job)
    OBVIOUS
  <2>2. PICK n \in 1..Len(q) : q[n] = job
    BY <1>1, <2>1 DEF Waits
  <2>3. n # 1
    BY <1>1, <2>1, <2>2
  <2>4. n - 1 \in 1..Len(q) - 1 /\ Tail(q)[n - 1] = q[(n - 1) + 1]
    BY <1>1, <1>2, <2>3
  <2>5. Tail(q)[n - 1] = job
    BY <1>1, <2>2, <2>4
  <2>6. QED
    BY <1>1, <2>4, <2>5 DEF Waits
<1>5. Head(q) = job => Waits(q, job)
  <2>1. 1 \in 1..Len(q)
    BY <1>1
  <2>2. QED
    BY <1>1, <2>1 DEF Waits
<1>6. Once(q, job) => Once(Tail(q), job)
  <2>1. SUFFICES ASSUME Once(q, job), NEW m \in 1..Len(q) - 1, NEW n \in 1..Len(q) - 1,
                        Tail(q)[m] = job, Tail(q)[n] = job
                 PROVE  m = n
    BY <1>1 DEF Once
  <2>2. m + 1 \in 1..Len(q) /\ n + 1 \in 1..Len(q) /\ q[m + 1] = job /\ q[n + 1] = job
    BY <1>1, <1>2, <2>1
  <2>3. m + 1 = n + 1
    BY <1>1, <2>1, <2>2 DEF Once
  <2>4. QED
    BY <1>1, <2>3
<1>7. Head(q) = job /\ Once(q, job) => ~Waits(Tail(q), job)
  <2>1. SUFFICES ASSUME Head(q) = job, Once(q, job), Waits(Tail(q), job) PROVE FALSE
    OBVIOUS
  <2>2. PICK n \in 1..Len(q) - 1 : Tail(q)[n] = job
    BY <1>1, <2>1 DEF Waits
  <2>3. n + 1 \in 1..Len(q) /\ 1 \in 1..Len(q) /\ q[n + 1] = job /\ q[1] = job
    BY <1>1, <1>2, <2>1, <2>2
  <2>4. n + 1 = 1
    BY <1>1, <2>1, <2>3 DEF Once
  <2>5. QED
    BY <1>1, <2>4
<1>8. QED
  BY <1>1, <1>3, <1>4, <1>5, <1>6, <1>7

-----------------------------------------------------------------------------
(* The inductive invariant *)

\* Resets in order: what OneResetWaits and FailsForCause say, and that a fast reset waits
\* only for a videoguard card that is in use.
Ordered(s, q, f) ==
  /\ s = "need_init" <=> Waits(q, "reset")
  /\ Once(q, "reset")
  /\ Once(q, "fast")
  /\ Waits(q, "fast") => s = "inserted" /\ system = "videoguard"
  /\ s = "failure" => f

\* A new reader opens its device before anything else.
Fresh ==
  Waits(queue, "init") =>
    Head(queue) = "init" /\ status = "unknown" /\ ~ResetWaits(queue)

IInv ==
  /\ queue \in Seq(Jobs)
  /\ Once(queue, "init")
  /\ Fresh
  /\ spoiled = {} => Ordered(status, queue, failed)

\* spoiled is emptied only when resets are in order.
LEMMA SpoiledOrdered ==
  ASSUME NEW set, NEW s, NEW q, NEW f, Spoiled(set, s, q) = {}
  PROVE  set = {} \/ Ordered(s, q, f)
<1>1. CASE s \notin {"need_init", "failure"} /\ ~ResetWaits(q)
  BY <1>1 DEF ResetWaits, Ordered, Once, Waits
<1>2. CASE ~(s \notin {"need_init", "failure"} /\ ~ResetWaits(q))
  BY <1>2 DEF Spoiled
<1>3. QED
  BY <1>1, <1>2

\* A job of another kind behind an ordered queue leaves it ordered.
LEMMA OrderedAppend ==
  ASSUME NEW q \in Seq(Jobs), NEW s, NEW f, NEW k \in Jobs \ {"reset", "fast"},
         Ordered(s, q, f)
  PROVE  Ordered(s, Append(q, k), f)
<1>1. "reset" \in Jobs /\ "fast" \in Jobs
  BY DEF Jobs
<1>2. /\ Waits(Append(q, k), "reset") <=> Waits(q, "reset")
      /\ Waits(Append(q, k), "fast") <=> Waits(q, "fast")
  BY <1>1, WaitsAppend
<1>3. Once(Append(q, k), "reset") /\ Once(Append(q, k), "fast")
  BY <1>1, OnceAppend DEF Ordered
<1>4. QED
  BY <1>2, <1>3 DEF Ordered

\* So does taking one.
LEMMA OrderedTail ==
  ASSUME NEW q \in Seq(Jobs), q # <<>>, NEW s, NEW f, Head(q) \notin {"reset", "fast"},
         Ordered(s, q, f)
  PROVE  Ordered(s, Tail(q), f)
<1>1. "reset" \in Jobs /\ "fast" \in Jobs
  BY DEF Jobs
<1>2. QED
  BY <1>1, WaitsTail DEF Ordered

\* A health check keeps resets in order unless it finds that the card has gone.
LEMMA CheckedOrdered ==
  ASSUME NEW q \in Seq(Jobs), q # <<>>, Head(q) \notin {"reset", "fast"}, NEW f,
         Ordered(status, q, f), Bounced(q) = {}
  PROVE  Ordered(Checked(Tail(q)).status, Checked(Tail(q)).queue, f)
<1> DEFINE t == Tail(q)
<1> SUFFICES Ordered(Checked(t).status, Checked(t).queue, f)
  OBVIOUS
<1>1. t \in Seq(Jobs) /\ Ordered(status, t, f)
  BY OrderedTail, WaitsTail DEF Jobs
<1>2. "reset" \in Jobs /\ "fast" \in Jobs
  BY DEF Jobs
<1>3. CASE Sees /\ NewCard(status)
  <2>1. Checked(t).status = "need_init" /\ Checked(t).queue = Append(t, "reset")
    BY <1>3 DEF Checked, Add
  <2>2. ~Waits(t, "reset") /\ ~Waits(t, "fast") /\ status \in {"no_card", "unknown"}
    BY <1>1, <1>3 DEF NewCard, Ordered
  <2>3. Waits(Append(t, "reset"), "reset") /\ ~Waits(Append(t, "reset"), "fast")
    BY <1>1, <1>2, <2>2, WaitsAppend
  <2>4. Once(Append(t, "reset"), "reset")
    BY <1>1, <1>2, <2>2, OnceAppend
  <2>5. Once(Append(t, "reset"), "fast")
    BY <1>1, <1>2, <2>2, OnceAppend DEF Ordered
  <2>6. QED
    BY <2>1, <2>3, <2>4, <2>5 DEF Ordered
<1>4. CASE Sees /\ ~NewCard(status)
  <2>1. Checked(t).status = status /\ Checked(t).queue = t
    BY <1>4 DEF Checked
  <2>2. QED
    BY <1>1, <2>1
<1>5. CASE ~Sees
  <2>1. Checked(t).status = "no_card" /\ Checked(t).queue = t
    BY <1>5 DEF Checked
  <2>2. ~Waits(t, "reset") /\ ~Waits(t, "fast")
    <3>1. CASE status = "no_card"
      BY <1>1, <3>1 DEF Ordered
    <3>2. CASE status # "no_card"
      <4>1. ~ResetWaits(q)
        BY <1>5, <3>2 DEF Bounced
      <4>2. QED
        BY <1>2, <4>1, WaitsTail DEF ResetWaits
    <3>3. QED
      BY <3>1, <3>2
  <2>3. QED
    BY <1>1, <2>1, <2>2 DEF Ordered
<1>6. QED
  BY <1>3, <1>4, <1>5

\* The queue after a health check
LEMMA CheckedQueue ==
  ASSUME NEW q \in Seq(Jobs)
  PROVE  /\ Checked(q).queue \in Seq(Jobs)
         /\ ~Waits(q, "init") => ~Waits(Checked(q).queue, "init")
<1>1. "reset" \in Jobs /\ "init" \in Jobs
  BY DEF Jobs
<1>2. Append(q, "reset") \in Seq(Jobs)
  BY <1>1
<1>3. ~Waits(q, "init") => ~Waits(Append(q, "reset"), "init")
  BY <1>1, WaitsAppend
<1>4. Checked(q).queue \in {q, Append(q, "reset")}
  BY DEF Checked, Add
<1>5. QED
  BY <1>2, <1>3, <1>4

-----------------------------------------------------------------------------
(* The invariant is inductive. *)

\* A queue of one init job
LEMMA NewQueue ==
  LET q == <<"init">>
  IN  q \in Seq(Jobs) /\ Once(q, "init") /\ Head(q) = "init" /\ q # <<>>
      /\ ~Waits(q, "reset") /\ ~Waits(q, "fast")
<1> DEFINE q == <<"init">>
<1>1. q \in Seq(Jobs) /\ DOMAIN q = {1} /\ q[1] = "init" /\ Head(q) = "init" /\ q # <<>>
  BY DEF Jobs
<1>2. QED
  BY <1>1 DEF Once, Waits

\* A job of another kind that is added for a reader
LEMMA AddKeeps ==
  ASSUME IInv, NEW k \in Jobs \ {"init", "reset", "fast"},
         queue' = Append(queue, k), UNCHANGED <<system, status, failed, spoiled>>
  PROVE  IInv'
<1>1. queue \in Seq(Jobs) /\ "init" \in Jobs /\ "reset" \in Jobs /\ "fast" \in Jobs
  BY DEF IInv, Jobs
<1>2. queue' \in Seq(Jobs)
  BY <1>1
<1>3. Once(queue', "init")
  BY <1>1, OnceAppend DEF IInv
<1>4. Fresh'
  <2>1. SUFFICES ASSUME Waits(queue', "init")
                 PROVE  Head(queue') = "init" /\ status = "unknown" /\ ~ResetWaits(queue')
    BY DEF Fresh
  <2>2. Waits(queue, "init")
    BY <1>1, <2>1, WaitsAppend
  <2>3. Head(queue) = "init" /\ status = "unknown" /\ ~ResetWaits(queue)
    BY <2>2 DEF IInv, Fresh
  <2>4. ~ResetWaits(queue')
    BY <1>1, <2>3, WaitsAppend DEF ResetWaits
  <2>5. queue # <<>>
    BY <1>1, <2>2 DEF Waits
  <2>6. Head(queue') = Head(queue)
    BY <1>1, <2>5
  <2>7. QED
    BY <2>3, <2>4, <2>6
<1>5. ASSUME spoiled' = {} PROVE Ordered(status, queue, failed)'
  <2>1. Ordered(status, queue, failed)
    BY <1>5 DEF IInv
  <2>2. Ordered(status, queue', failed)
    BY <1>1, <2>1, OrderedAppend
  <2>3. QED
    BY <2>2 DEF Ordered
<1>6. QED
  BY <1>2, <1>3, <1>4, <1>5 DEF IInv

\* Facts about the first job when it is none of a new reader
LEMMA NotFresh ==
  ASSUME IInv, queue # <<>>, Head(queue) # "init"
  PROVE  /\ queue \in Seq(Jobs) /\ Tail(queue) \in Seq(Jobs)
         /\ ~Waits(queue, "init") /\ ~Waits(Tail(queue), "init")
<1>1. "init" \in Jobs /\ queue \in Seq(Jobs)
  BY DEF IInv, Jobs
<1>2. ~Waits(queue, "init")
  BY DEF IInv, Fresh
<1>3. QED
  BY <1>1, <1>2, WaitsTail

\* A queue without an init job is that of a reader that is not new.
LEMMA WithoutInit ==
  ASSUME queue' \in Seq(Jobs), ~Waits(queue', "init"), system' = system,
         spoiled' = {} => Ordered(status', queue', failed')
  PROVE  IInv'
<1>1. Once(queue', "init") /\ Fresh'
  BY DEF Once, Waits, Fresh
<1>2. spoiled' = {} => Ordered(status, queue, failed)'
  BY DEF Ordered
<1>3. QED
  BY <1>1, <1>2 DEF IInv

\* A health check as part of a job of any kind, except that spoiled may be more
LEMMA CheckKeeps ==
  ASSUME IInv, queue # <<>>, Head(queue) \notin {"init", "reset", "fast"},
         status' = Checked(Tail(queue)).status, queue' = Checked(Tail(queue)).queue,
         spoiled' = Spoiled(spoiled \cup Bounced(queue), status', queue'),
         UNCHANGED <<system, failed>>
  PROVE  IInv'
<1>1. /\ queue \in Seq(Jobs) /\ Tail(queue) \in Seq(Jobs)
      /\ ~Waits(queue, "init") /\ ~Waits(Tail(queue), "init")
  BY NotFresh
<1>2. queue' \in Seq(Jobs) /\ ~Waits(queue', "init")
  BY <1>1, CheckedQueue
<1>3. ASSUME spoiled' = {} PROVE Ordered(status', queue', failed')
  <2>1. CASE Ordered(status', queue', failed')
    BY <2>1
  <2>2. CASE spoiled \cup Bounced(queue) = {}
    <3>1. spoiled = {} /\ Bounced(queue) = {}
      BY <2>2
    <3>2. Ordered(status, queue, failed)
      BY <3>1 DEF IInv
    <3>3. QED
      BY <1>1, <3>1, <3>2, CheckedOrdered
  <2>3. QED
    BY <1>3, <2>1, <2>2, SpoiledOrdered
<1>4. QED
  BY <1>2, <1>3, WithoutInit

\* A reset that is due and does not give up, with no other behind it
LEMMA ResetOrdered ==
  ASSUME NEW q \in Seq(Jobs), Resets("need_init", q), GaveUp = {},
         ~Waits(q, "reset"), ~Waits(q, "fast")
  PROVE  Ordered(status', queue', failed')
<1>1. "reset" \in Jobs /\ "fast" \in Jobs
  BY DEF Jobs
<1>2. CASE status' = "failure" /\ queue' = q /\ failed' = (card # "good" \/ (Flaky /\ "need_init" = "need_init"))
           /\ (~Activates("need_init") \/ Flaky)
  <2>1. failed'
    BY <1>2 DEF Activates
  <2>2. QED
    BY <1>2, <2>1 DEF Ordered, Once, Waits
<1>3. CASE status' = "inserted" /\ queue' = q
  BY <1>3 DEF Ordered, Once, Waits
<1>4. CASE status' = "inserted" /\ queue' = Append(q, "fast") /\ system = "videoguard"
  <2>1. ~Waits(queue', "reset") /\ Once(queue', "fast")
    BY <1>1, <1>4, WaitsAppend, OnceAppend
  <2>2. Once(queue', "reset")
    BY <2>1 DEF Once, Waits
  <2>3. QED
    BY <1>4, <2>1, <2>2 DEF Ordered
<1>5. status' # "need_init"
  BY DEF GaveUp
<1>6. QED
  BY <1>2, <1>3, <1>4, <1>5 DEF Resets, Add

\* The queue after any reset
LEMMA ResetQueue ==
  ASSUME NEW s, NEW q \in Seq(Jobs), Resets(s, q), ~Waits(q, "init")
  PROVE  queue' \in Seq(Jobs) /\ ~Waits(queue', "init")
<1>1. "fast" \in Jobs /\ "init" \in Jobs
  BY DEF Jobs
<1>2. Append(q, "fast") \in Seq(Jobs) /\ ~Waits(Append(q, "fast"), "init")
  BY <1>1, WaitsAppend
<1>3. queue' \in {q, Append(q, "fast")}
  BY DEF Resets, Add
<1>4. QED
  BY <1>2, <1>3

\* A new reader
LEMMA InitIInv == CardInit => IInv
<1> SUFFICES ASSUME CardInit PROVE IInv
  OBVIOUS
<1>1. queue \in Seq(Jobs) /\ Once(queue, "init") /\ Head(queue) = "init"
      /\ ~Waits(queue, "reset") /\ ~Waits(queue, "fast")
  BY NewQueue DEF CardInit
<1>2. Fresh
  BY <1>1 DEF CardInit, Fresh, ResetWaits
<1>3. Ordered(status, queue, failed)
  BY <1>1 DEF CardInit, Ordered, Once, Waits
<1>4. QED
  BY <1>1, <1>2, <1>3 DEF IInv

\* Each step keeps the invariant.
LEMMA NextIInv == IInv /\ [CardNext]_cardVars => IInv'
<1> SUFFICES ASSUME IInv, [CardNext]_cardVars PROVE IInv'
  OBVIOUS
<1>jobs. {"init", "reset", "fast", "health", "ecm", "restart"} \subseteq Jobs
  BY DEF Jobs
<1>1. CASE RunInit
  <2>1. queue \in Seq(Jobs) /\ queue # <<>> /\ Head(queue) = "init"
    BY <1>1 DEF RunInit, Takes, IInv
  <2>2. queue' \in Seq(Jobs) /\ ~Waits(queue', "init")
    BY <1>1, <1>jobs, <2>1, WaitsTail DEF RunInit, IInv
  <2>3. Waits(queue, "init")
    BY <1>jobs, <2>1, WaitsTail
  <2>4. status = "unknown" /\ ~ResetWaits(queue)
    BY <2>3 DEF IInv, Fresh
  <2>5. ~Waits(queue', "reset") /\ ~Waits(queue', "fast")
    BY <1>1, <1>jobs, <2>1, <2>4, WaitsTail DEF RunInit, ResetWaits
  <2>6. Ordered(status', queue', failed')
    BY <1>1, <2>4, <2>5 DEF RunInit, Ordered, Once, Waits
  <2>7. QED
    BY <1>1, <2>2, <2>6, WithoutInit DEF RunInit
<1>2. CASE RunHealth
  <2>1. queue # <<>> /\ Head(queue) \notin {"init", "reset", "fast"}
    BY <1>2 DEF RunHealth, Takes
  <2>2. QED
    BY <1>2, <2>1, CheckKeeps DEF RunHealth
<1>3. CASE RunReset
  <2>1. queue # <<>> /\ Head(queue) = "reset" /\ Resets(status, Tail(queue))
        /\ spoiled' = Spoiled(spoiled \cup GaveUp, status', queue') /\ system' = system
    BY <1>3 DEF RunReset, Takes
  <2>2. /\ queue \in Seq(Jobs) /\ Tail(queue) \in Seq(Jobs) /\ ~Waits(Tail(queue), "init")
    BY <2>1, NotFresh
  <2>3. queue' \in Seq(Jobs) /\ ~Waits(queue', "init")
    BY <2>1, <2>2, ResetQueue
  <2>4. ASSUME spoiled \cup GaveUp = {} PROVE Ordered(status', queue', failed')
    <3>1. Ordered(status, queue, failed)
      BY <2>4 DEF IInv
    <3>2. Waits(queue, "reset") /\ ~Waits(Tail(queue), "reset")
      BY <1>jobs, <2>1, <2>2, <3>1, WaitsTail DEF Ordered
    <3>3. status = "need_init"
      BY <3>1, <3>2 DEF Ordered
    <3>4. ~Waits(Tail(queue), "fast")
      BY <1>jobs, <2>1, <2>2, <3>1, <3>3, WaitsTail DEF Ordered
    <3>5. QED
      BY <2>1, <2>2, <2>4, <3>2, <3>3, <3>4, ResetOrdered
  <2>5. spoiled' = {} => Ordered(status', queue', failed')
    BY <2>1, <2>4, SpoiledOrdered
  <2>6. QED
    BY <2>1, <2>3, <2>5, WithoutInit
<1>4. CASE RunFast
  <2>1. queue # <<>> /\ Head(queue) = "fast" /\ Resets("need_init", Tail(queue))
        /\ spoiled' = Spoiled(spoiled \cup GaveUp, status', queue') /\ system' = system
    BY <1>4 DEF RunFast, Takes, FastStatus
  <2>2. /\ queue \in Seq(Jobs) /\ Tail(queue) \in Seq(Jobs) /\ ~Waits(Tail(queue), "init")
    BY <2>1, NotFresh
  <2>3. queue' \in Seq(Jobs) /\ ~Waits(queue', "init")
    BY <2>1, <2>2, ResetQueue
  <2>4. ASSUME spoiled \cup GaveUp = {} PROVE Ordered(status', queue', failed')
    <3>1. Ordered(status, queue, failed)
      BY <2>4 DEF IInv
    <3>2. Waits(queue, "fast") /\ ~Waits(Tail(queue), "fast")
      BY <1>jobs, <2>1, <2>2, <3>1, WaitsTail DEF Ordered
    <3>3. status = "inserted"
      BY <3>1, <3>2 DEF Ordered
    <3>4. ~Waits(Tail(queue), "reset")
      BY <1>jobs, <2>1, <2>2, <3>1, <3>3, WaitsTail DEF Ordered
    <3>5. QED
      BY <2>1, <2>2, <2>4, <3>2, <3>4, ResetOrdered
  <2>5. spoiled' = {} => Ordered(status', queue', failed')
    BY <2>1, <2>4, SpoiledOrdered
  <2>6. QED
    BY <2>1, <2>3, <2>5, WithoutInit
<1>5. CASE EcmFails
  <2>1. queue # <<>> /\ Head(queue) \notin {"init", "reset", "fast"}
    BY <1>5 DEF EcmFails, Takes
  <2>2. QED
    BY <1>5, <2>1, CheckKeeps DEF EcmFails
<1>6. CASE EcmHangs
  <2>1. queue # <<>> /\ Head(queue) \notin {"init", "reset", "fast"} /\ system = "conax"
    BY <1>6 DEF EcmHangs, Takes
  <2>2. /\ queue \in Seq(Jobs) /\ queue' \in Seq(Jobs) /\ ~Waits(queue', "init")
    BY <1>6, <2>1, NotFresh DEF EcmHangs
  <2>3. status = "inserted"
    BY <1>6 DEF EcmHangs, Checked
  <2>4. ASSUME spoiled = {} PROVE Ordered("unknown", queue', failed)
    <3>1. Ordered(status, queue, failed)
      BY <2>4 DEF IInv
    <3>2. Ordered(status, queue', failed)
      BY <1>6, <2>1, <2>2, <3>1, OrderedTail DEF EcmHangs
    <3>3. QED
      BY <2>1, <2>3, <3>2 DEF Ordered
  <2>5. QED
    BY <1>6, <2>2, <2>4, WithoutInit DEF EcmHangs
<1>7. CASE EcmFound
  <2>1. queue # <<>> /\ Head(queue) \notin {"init", "reset", "fast"}
    BY <1>7 DEF EcmFound, Takes
  <2>2. /\ queue \in Seq(Jobs) /\ queue' \in Seq(Jobs) /\ ~Waits(queue', "init")
    BY <1>7, <2>1, NotFresh DEF EcmFound
  <2>3. ASSUME spoiled' = {} PROVE Ordered(status', queue', failed')
    <3>1. status' = status /\ spoiled = {}
      BY <1>7, <2>3 DEF EcmFound
    <3>2. Ordered(status, queue, failed)
      BY <3>1 DEF IInv
    <3>3. QED
      BY <1>7, <2>1, <2>2, <3>1, <3>2, OrderedTail DEF EcmFound
  <2>4. QED
    BY <1>7, <2>2, <2>3, WithoutInit DEF EcmFound
<1>8. CASE RunRestart
  <2>1. queue' = <<"init">> /\ status' = "unknown"
    BY <1>8 DEF RunRestart
  <2>2. /\ queue' \in Seq(Jobs) /\ Once(queue', "init") /\ Head(queue') = "init"
        /\ ~Waits(queue', "reset") /\ ~Waits(queue', "fast")
    BY <2>1, NewQueue
  <2>3. Fresh'
    BY <2>1, <2>2 DEF Fresh, ResetWaits
  <2>4. Ordered(status, queue, failed)'
    BY <2>1, <2>2 DEF Ordered, Once, Waits
  <2>5. QED
    BY <2>2, <2>3, <2>4 DEF IInv
<1>9. CASE DropLateJob
  <2>1. queue # <<>> /\ Head(queue) # "init"
    BY <1>9 DEF DropLateJob
  <2>2. /\ queue \in Seq(Jobs) /\ queue' \in Seq(Jobs) /\ ~Waits(queue', "init")
    BY <1>9, <2>1, NotFresh DEF DropLateJob
  <2>3. ASSUME spoiled = {}, Head(queue) # "reset" PROVE Ordered(status', queue', failed')
    <3>1. Ordered(status, queue, failed)
      BY <2>3 DEF IInv
    <3>2. Ordered(status, Tail(queue), failed)
      BY <1>jobs, <2>1, <2>2, <2>3, <3>1, WaitsTail DEF Ordered
    <3>3. QED
      BY <1>9, <3>2 DEF DropLateJob
  <2>4. spoiled' = {} => Ordered(status', queue', failed')
    <3>1. CASE Head(queue) = "reset"
      BY <1>9, <3>1, SpoiledOrdered DEF DropLateJob
    <3>2. CASE Head(queue) # "reset"
      BY <1>9, <2>3, <3>2, SpoiledOrdered DEF DropLateJob
    <3>3. QED
      BY <3>1, <3>2
  <2>5. QED
    BY <1>9, <2>2, <2>4, WithoutInit DEF DropLateJob
<1>10. CASE AskHealth
  BY <1>10, <1>jobs, AddKeeps DEF AskHealth, Add
<1>11. CASE AskEcm
  BY <1>11, <1>jobs, AddKeeps DEF AskEcm, Add
<1>12. CASE AskRestart
  BY <1>12, <1>jobs, AddKeeps DEF AskRestart, Add
<1>13. CASE UNCHANGED <<system, status, queue, failed, spoiled>>
  BY <1>13 DEF IInv, Fresh, Ordered, Once, Waits, ResetWaits
<1>14. PutIn \/ TakeOut \/ UNCHANGED cardVars => UNCHANGED <<system, status, queue, failed, spoiled>>
  BY DEF PutIn, TakeOut, cardVars
<1>15. QED
  BY <1>1, <1>2, <1>3, <1>4, <1>5, <1>6, <1>7, <1>8, <1>9, <1>10, <1>11, <1>12, <1>13, <1>14
  DEF CardNext

\* The invariant always holds.
LEMMA IInvAlways == CardSpec => []IInv
<1>1. IInv /\ [CardNext]_cardVars => IInv'
  BY NextIInv
<1>2. QED
  BY InitIInv, <1>1, PTL DEF CardSpec

\* cardreader_do_checkhealth and cardreader_do_reset: a card in CARD_NEED_INIT has one reset
\* job on its way, and no card has one that needs none, whatever the jobs, the device's
\* answers and the card do; not so after a reset that an azbox gave up and the other causes
\* OneResetWaits excepts.
THEOREM OneResetWaitsAlways == CardSpec => []OneResetWaits
<1>1. IInv => OneResetWaits
  BY DEF IInv, Ordered, OneResetWaits
<1>2. QED
  BY IInvAlways, <1>1, PTL

\* cardreader_do_reset: CARD_FAILURE is never due to a reset that the card did not need.
THEOREM FailsForCauseAlways == CardSpec => []FailsForCause
<1>1. IInv => FailsForCause
  BY DEF IInv, Ordered, FailsForCause
<1>2. QED
  BY IInvAlways, <1>1, PTL

-----------------------------------------------------------------------------
(* The types of the local reader *)

\* A job that is handled adds at most one.
Queues == {q \in Seq(Jobs) : Len(q) <= MaxJobs + 2}

LEMMA QueueAdds ==
  ASSUME NEW q \in Queues, Len(q) < MaxJobs + 2, NEW job \in Jobs
  PROVE  Add(q, job) \in Queues
BY CardAssumption DEF Queues, Add

\* A job that is taken leaves room for one.
LEMMA QueueTail ==
  ASSUME NEW q \in Queues, q # <<>>
  PROVE  Tail(q) \in Queues /\ Len(Tail(q)) < MaxJobs + 2
BY CardAssumption DEF Queues

\* A look, a check of the card, and a reset
LEMMA LookTyped ==
  ASSUME CardTypeOK, Look
  PROVE  statuscnt' \in 0..StatusEvery - 1 /\ modemstat' \in BOOLEAN
<1>1. statuscnt \in Nat /\ StatusEvery \in Nat \ {0} /\ modemstat \in BOOLEAN
  BY CardAssumption DEF CardTypeOK
<1>2. Counter \in 0..StatusEvery - 1
  BY <1>1 DEF Counter
<1>3. Sees \in BOOLEAN
  BY <1>1 DEF Sees
<1> QED BY <1>2, <1>3 DEF Look

LEMMA CheckedTyped ==
  ASSUME CardTypeOK, NEW q \in Queues, Len(q) < MaxJobs + 2
  PROVE  Checked(q).status \in Statuses /\ Checked(q).queue \in Queues
<1>1. Add(q, "reset") \in Queues
  BY QueueAdds DEF Jobs
<1> QED BY <1>1 DEF Checked, CardTypeOK, Statuses

LEMMA ResetsTyped ==
  ASSUME CardTypeOK, NEW s \in Statuses, NEW q \in Queues, Len(q) < MaxJobs + 2, Resets(s, q)
  PROVE  status' \in Statuses /\ queue' \in Queues /\ failed' \in BOOLEAN
<1>1. Add(q, "fast") \in Queues
  BY QueueAdds DEF Jobs
<1>2. status' \in Statuses
  BY DEF Resets, Statuses
<1>3. queue' \in Queues
  BY <1>1 DEF Resets
<1>4. failed' \in BOOLEAN
  BY Zenon DEF Resets, CardTypeOK
<1> QED BY <1>2, <1>3, <1>4

\* The type invariant, with a name for the queues
CardTyped ==
  /\ system \in Systems /\ device \in Devices /\ card \in {"none", "good", "bad"} /\ status \in Statuses
  /\ queue \in Queues
  /\ statuscnt \in 0..StatusEvery - 1 /\ modemstat \in BOOLEAN
  /\ resetcounter \in 0..ResetCycle
  /\ failed \in BOOLEAN /\ spoiled \subseteq {"bounced", "late", "cycle", "gaveup"}

LEMMA CardTypeInit == CardInit => CardTypeOK
<1> SUFFICES ASSUME CardInit PROVE CardTypeOK
  OBVIOUS
<1>1. <<"init">> \in Seq(Jobs) /\ Len(<<"init">>) <= MaxJobs + 2
  BY CardAssumption DEF Jobs
<1>2. 0 \in 0..StatusEvery - 1 /\ 0 \in 0..ResetCycle
  BY CardAssumption
<1>3. "unknown" \in Statuses
  BY DEF Statuses
<1> QED BY <1>1, <1>2, <1>3 DEF CardInit, CardTypeOK

LEMMA CardTypeNext == CardTypeOK /\ [CardNext]_cardVars => CardTypeOK'
<1> SUFFICES ASSUME CardTypeOK, [CardNext]_cardVars PROVE CardTyped'
  BY DEF CardTypeOK, CardTyped, Queues
<1> USE DEF look
<1>a. CardTyped
  BY DEF CardTypeOK, CardTyped, Queues
<1>b. ASSUME NEW job, Takes(job)
      PROVE  Tail(queue) \in Queues /\ Len(Tail(queue)) < MaxJobs + 2
  BY <1>a, <1>b, QueueTail DEF Takes, CardTyped
<1>c. ASSUME NEW set, NEW s, NEW q, set \subseteq {"bounced", "late", "cycle", "gaveup"}
      PROVE  Spoiled(set, s, q) \subseteq {"bounced", "late", "cycle", "gaveup"}
  BY <1>c DEF Spoiled
<1>d. /\ spoiled \cup Bounced(queue) \subseteq {"bounced", "late", "cycle", "gaveup"}
      /\ spoiled \cup GaveUp \subseteq {"bounced", "late", "cycle", "gaveup"}
  BY <1>a DEF CardTyped, Bounced, GaveUp
<1>1. CASE RunInit
  <2>1. queue' \in Queues
    BY <1>1, <1>b DEF RunInit
  <2>2. status' \in Statuses
    BY <1>1, <1>a DEF RunInit, CardTyped, Statuses
  <2> QED BY <1>1, <1>a, <2>1, <2>2 DEF RunInit, CardTyped
<1>2. CASE RunHealth
  <2>1. queue' \in Queues /\ status' \in Statuses
    BY <1>2, <1>b, CheckedTyped DEF RunHealth
  <2>2. spoiled' \subseteq {"bounced", "late", "cycle", "gaveup"}
    BY <1>2, <1>c, <1>d DEF RunHealth
  <2> QED BY <1>2, <1>a, <2>1, <2>2, LookTyped DEF RunHealth, CardTyped
<1>3. CASE RunReset
  <2>1. status' \in Statuses /\ queue' \in Queues /\ failed' \in BOOLEAN
    BY <1>3, <1>a, <1>b, ResetsTyped DEF RunReset, CardTyped
  <2>2. spoiled' \subseteq {"bounced", "late", "cycle", "gaveup"}
    BY <1>3, <1>c, <1>d DEF RunReset
  <2> QED BY <1>3, <1>a, <2>1, <2>2 DEF RunReset, CardTyped
<1>4. CASE RunFast
  <2>1. status' \in Statuses /\ queue' \in Queues /\ failed' \in BOOLEAN
    BY <1>4, <1>a, <1>b, ResetsTyped DEF RunFast, CardTyped, FastStatus, Statuses
  <2>2. spoiled' \subseteq {"bounced", "late", "cycle", "gaveup"}
    BY <1>4, <1>c, <1>d DEF RunFast
  <2> QED BY <1>4, <1>a, <2>1, <2>2 DEF RunFast, CardTyped
<1>5. CASE EcmFails
  <2>1. queue' \in Queues /\ status' \in Statuses
    BY <1>5, <1>b, CheckedTyped DEF EcmFails
  <2>2. spoiled' \subseteq {"bounced", "late", "cycle", "gaveup"}
    BY <1>5, <1>c, <1>d DEF EcmFails
  <2> QED BY <1>5, <1>a, <2>1, <2>2, LookTyped DEF EcmFails, CardTyped
<1>6. CASE EcmHangs
  <2>1. queue' \in Queues
    BY <1>6, <1>b DEF EcmHangs
  <2>2. status' \in Statuses
    BY <1>6 DEF EcmHangs, Statuses
  <2> QED BY <1>6, <1>a, <2>1, <2>2, LookTyped DEF EcmHangs, CardTyped
<1>7. CASE EcmFound
  <2>1. queue' \in Queues
    BY <1>7, <1>b DEF EcmFound
  <2>2. status' \in Statuses /\ spoiled' \subseteq {"bounced", "late", "cycle", "gaveup"}
    BY <1>7, <1>a DEF EcmFound, CardTyped, Statuses
  <2>3. resetcounter' \in 0..ResetCycle
    BY <1>7, <1>a, CardAssumption DEF EcmFound, CardTyped
  <2> QED BY <1>7, <1>a, <2>1, <2>2, <2>3, LookTyped DEF EcmFound, CardTyped
<1>8. CASE RunRestart
  <2>1. queue' \in Queues
    BY <1>8, CardAssumption DEF RunRestart, Queues, Jobs
  <2> QED BY <1>8, <1>a, <2>1 DEF RunRestart, CardTyped, Statuses
<1>9. CASE DropLateJob
  <2>1. queue' \in Queues
    BY <1>9, <1>a, QueueTail DEF DropLateJob, CardTyped
  <2>2. spoiled' \subseteq {"bounced", "late", "cycle", "gaveup"}
    <3>1. (IF Head(queue) = "reset" THEN spoiled \cup {"late"} ELSE spoiled)
            \subseteq {"bounced", "late", "cycle", "gaveup"}
      BY <1>a DEF CardTyped
    <3> QED BY <1>9, <1>c, <3>1 DEF DropLateJob
  <2> QED BY <1>9, <1>a, <2>1, <2>2 DEF DropLateJob, CardTyped
<1>10. CASE AskHealth \/ AskEcm \/ AskRestart
  <2>1. queue' \in Queues
    <3>1. Len(queue) < MaxJobs + 2
      BY <1>10, <1>a, CardAssumption DEF AskHealth, AskEcm, AskRestart, CardTyped, Queues
    <3>2. \E job \in Jobs : queue' = Add(queue, job)
      BY <1>10 DEF AskHealth, AskEcm, AskRestart, Jobs
    <3> QED BY <1>a, <3>1, <3>2, QueueAdds DEF CardTyped
  <2> QED BY <1>10, <1>a, <2>1 DEF AskHealth, AskEcm, AskRestart, CardTyped
<1>11. CASE PutIn \/ TakeOut
  BY <1>11, <1>a DEF PutIn, TakeOut, CardTyped
<1>12. CASE UNCHANGED cardVars
  BY <1>12, <1>a DEF cardVars, CardTyped
<1> QED
  BY <1>1, <1>2, <1>3, <1>4, <1>5, <1>6, <1>7, <1>8, <1>9, <1>10, <1>11, <1>12 DEF CardNext

\* Type invariant of the local reader, for any bound of jobs from others: what a job that
\* is handled adds itself takes the place it has left.
THEOREM CardTypeOKAlways == CardSpec => []CardTypeOK
<1> QED BY CardTypeInit, CardTypeNext, PTL DEF CardSpec

-----------------------------------------------------------------------------
(***************************************************************************)
(* The ECM rate limiter, for any number of slots and services and any      *)
(* limits.  What is inductive is about the table: that a slot is as old as *)
(* the last ECM of its service, that without cooldown every current        *)
(* service has a slot and no service of the table is over its limit        *)
(* (NoneOver), and that there is room for what a search has found          *)
(* (RoomLeft).  So an entry whose service is known is never released for   *)
(* the limit: the slots below it and its own would be too many already     *)
(* (FindKnownFacts).                                                       *)
(***************************************************************************)

\* A set of natural numbers has a least one.
LEMMA LeastOf ==
  ASSUME NEW S \in SUBSET Nat, S # {}
  PROVE  Min(S) \in S /\ \A y \in S : Min(S) <= y
<1> DEFINE T == {1 .. n : n \in S}
<1>1. T \subseteq FiniteSubsetsOf(Nat) /\ T # {}
  <2>1. ASSUME NEW n \in S PROVE 1 .. n \in SUBSET Nat /\ IsFiniteSet(1 .. n)
    <3>1. n \in Int /\ 1 \in Int
      OBVIOUS
    <3> QED BY <3>1, FS_Interval
  <2> QED BY <2>1, Zenon DEF FiniteSubsetsOf
<1>2. \E x \in T : \A y \in T : ~(<<y, x>> \in StrictSubsetOrdering(Nat))
  BY <1>1, FS_StrictSubsetOrderingWellFounded, WFMin, Zenon
<1>3. PICK n \in S : \A m \in S : ~(<<1 .. m, 1 .. n>> \in StrictSubsetOrdering(Nat))
  BY <1>2
<1>4. ASSUME NEW m \in S, m < n PROVE FALSE
  <2> DEFINE A == 1 .. m  B == 1 .. n
  <2>1. A \in SUBSET Nat /\ B \in SUBSET Nat /\ A \subseteq B /\ n \in B /\ n \notin A
    BY <1>4
  <2>2. ~(<<A, B>> \in StrictSubsetOrdering(Nat))
    BY <1>3
  <2> HIDE DEF A, B
  <2> QED BY <2>1, <2>2 DEF StrictSubsetOrdering
<1>5. \A m \in S : n <= m
  BY <1>4
<1> QED BY <1>5 DEF Min

RateTables == [RlSlots -> [srv : Services \cup {NoService}, age : 0..Hold]]
Distinct(t) == \A m, n \in Used(t) : t[m].srv = t[n].srv => m = n
NoneOver(t) == \A n \in Used(t) : Cardinality(Used(t)) <= LimitOf[t[n].srv]

\* Every entry of u is one of t, and the other way round.
Within(u, t) == \A n \in Used(u) : \E m \in Used(t) : u[n] = t[m]

LEMMA UsedFinite ==
  ASSUME NEW t
  PROVE  /\ IsFiniteSet(Used(t)) /\ Used(t) \subseteq RlSlots
         /\ Cardinality(Used(t)) \in 0 .. MaxSlots
<1>1. IsFiniteSet(RlSlots) /\ Cardinality(RlSlots) = MaxSlots
  BY RateAssumption, FS_Interval DEF RlSlots
<1>2. Used(t) \in SUBSET RlSlots
  BY DEF Used
<1>3. IsFiniteSet(Used(t)) /\ Cardinality(Used(t)) <= MaxSlots
  BY <1>1, <1>2, FS_Subset
<1>4. Cardinality(Used(t)) \in Nat
  BY <1>3, FS_CardinalityType
<1> QED BY <1>2, <1>3, <1>4, RateAssumption

LEMMA UsedServices ==
  ASSUME NEW t \in RateTables, NEW n \in Used(t)
  PROVE  n \in RlSlots /\ t[n].srv \in Services /\ t[n].age \in 0 .. Hold
BY DEF RateTables, Used

LEMMA DropOldFacts ==
  ASSUME NEW t \in RateTables
  PROVE  /\ DropOld(t) \in RateTables
         /\ \A n \in RlSlots : n \in Used(DropOld(t)) <=> n \in Used(t) /\ t[n].age < Hold
         /\ \A n \in Used(DropOld(t)) : DropOld(t)[n] = t[n]
<1>1. Hold \in Nat /\ MaxSlots \in Nat
  BY RateAssumption
<1>2. Free \in [srv : Services \cup {NoService}, age : 0..Hold] /\ Free.srv = NoService
  BY <1>1 DEF Free
<1>3. DropOld(t) \in RateTables
  BY <1>2 DEF DropOld, RateTables
<1>4. \A n \in RlSlots : DropOld(t)[n] = IF t[n].age >= Hold THEN Free ELSE t[n]
  BY DEF DropOld
<1>5. \A n \in RlSlots : t[n].age \in Nat /\ t[n].age \in 0 .. Hold
  BY <1>1 DEF RateTables
<1> QED BY <1>1, <1>2, <1>3, <1>4, <1>5 DEF Used

LEMMA MostCriticalFacts ==
  ASSUME NEW t \in RateTables
  PROVE  /\ MostCritical(t) \in 0 .. MaxSlots
         /\ \A n \in Used(t) : MostCritical(t) <= LimitOf[t[n].srv]
         /\ \/ MostCritical(t) = MaxSlots
            \/ \E n \in Used(t) : MostCritical(t) = LimitOf[t[n].srv]
<1> DEFINE S == {MaxSlots} \cup {LimitOf[t[n].srv] : n \in Used(t)}
<1>1. \A n \in Used(t) : LimitOf[t[n].srv] \in Nat
  BY UsedServices, RateAssumption
<1>2. S \in SUBSET Nat /\ S # {} /\ MaxSlots \in S /\ MaxSlots \in Nat
  BY <1>1, RateAssumption
<1>3. Min(S) \in S /\ \A y \in S : Min(S) <= y
  <2> HIDE DEF S
  <2> QED BY <1>2, LeastOf
<1>4. MostCritical(t) = Min(S)
  BY DEF MostCritical
<1>5. \A n \in Used(t) : LimitOf[t[n].srv] \in S
  OBVIOUS
<1>6. \A x \in S : x = MaxSlots \/ \E n \in Used(t) : x = LimitOf[t[n].srv]
  OBVIOUS
<1> HIDE DEF S
<1>7. MostCritical(t) \in 0 .. MaxSlots
  <2>1. MostCritical(t) \in Nat
    BY <1>2, <1>3, <1>4, Zenon
  <2>2. MostCritical(t) <= MaxSlots
    BY <1>2, <1>3, <1>4, Zenon
  <2> QED BY <2>1, <2>2, <1>2
<1>8. \A n \in Used(t) : MostCritical(t) <= LimitOf[t[n].srv]
  BY <1>3, <1>4, <1>5
<1>9. MostCritical(t) \in S
  BY <1>3, <1>4
<1> QED BY <1>6, <1>7, <1>8, <1>9, Zenon

LEMMA LimitNowFacts ==
  ASSUME NEW t \in RateTables, NEW state
  PROVE  LimitNow(t, state) \in 0 .. MaxSlots
BY MostCriticalFacts, RateAssumption DEF LimitNow

\* An entry is moved to a free slot, or stays.
LEMMA MovedFacts ==
  ASSUME NEW t \in RateTables, Distinct(t), NEW n \in Used(t), NEW to \in RlSlots,
         to = n \/ t[to].srv = NoService,
         NEW u, u = Moved(t, n, to)
  PROVE  /\ u \in RateTables /\ Distinct(u)
         /\ Used(u) = (Used(t) \ {n}) \cup {to}
         /\ u[to] = t[n] /\ \A k \in Used(t) \ {n} : u[k] = t[k]
         /\ Cardinality(Used(u)) = Cardinality(Used(t))
         /\ Within(u, t) /\ Within(t, u)
         /\ NoneOver(t) => NoneOver(u)
         /\ \A k \in Used(u) : u[k].srv = t[n].srv => k = to
<1>1. n \in RlSlots /\ t[n].srv \in Services /\ t[n].srv # NoService
  BY UsedServices, RateAssumption
<1>2. Free \in [srv : Services \cup {NoService}, age : 0..Hold] /\ Free.srv = NoService
  BY RateAssumption DEF Free
<1>3. u \in RateTables
  BY <1>1, <1>2 DEF Moved, RateTables
<1>4. \A k \in RlSlots : u[k] = IF k = to THEN t[n] ELSE IF k = n THEN Free ELSE t[k]
  BY <1>1 DEF Moved, RateTables
<1>5. Used(u) = (Used(t) \ {n}) \cup {to}
  BY <1>1, <1>2, <1>4 DEF Used
<1>6. u[to] = t[n] /\ \A k \in Used(t) \ {n} : u[k] = t[k]
  BY <1>4, <1>1 DEF Used
<1>7. to = n \/ to \notin Used(t)
  BY DEF Used
<1>8. Distinct(u)
  BY <1>5, <1>6, <1>7 DEF Distinct
<1>9. Cardinality(Used(u)) = Cardinality(Used(t))
  <2>1. /\ IsFiniteSet(Used(t) \ {n})
        /\ Cardinality(Used(t) \ {n}) = Cardinality(Used(t)) - 1
    BY UsedFinite, FS_RemoveElement
  <2>2. to \notin Used(t) \ {n}
    BY <1>7
  <2>3. Cardinality((Used(t) \ {n}) \cup {to}) = Cardinality(Used(t) \ {n}) + 1
    BY <2>1, <2>2, FS_AddElement
  <2> QED BY <1>5, <2>1, <2>3, UsedFinite, RateAssumption
<1>10. Within(u, t) /\ Within(t, u)
  BY <1>5, <1>6, <1>7 DEF Within
<1>11. NoneOver(t) => NoneOver(u)
  BY <1>9, <1>10 DEF NoneOver, Within
<1>12. \A k \in Used(u) : u[k].srv = t[n].srv => k = to
  BY <1>5, <1>6, <1>8 DEF Distinct
<1> QED BY <1>3, <1>5, <1>6, <1>8, <1>9, <1>10, <1>11, <1>12

\* An entry is released.
LEMMA ReleasedFacts ==
  ASSUME NEW t \in RateTables, Distinct(t), NEW n \in Used(t),
         NEW u, u = [t EXCEPT ![n] = Free]
  PROVE  /\ u \in RateTables /\ Distinct(u)
         /\ Used(u) = Used(t) \ {n}
         /\ Within(u, t)
<1>1. n \in RlSlots /\ Free \in [srv : Services \cup {NoService}, age : 0..Hold]
  BY UsedServices, RateAssumption DEF Free
<1>2. u \in RateTables /\ \A k \in RlSlots : u[k] = IF k = n THEN Free ELSE t[k]
  BY <1>1 DEF RateTables
<1>3. Used(u) = Used(t) \ {n}
  BY <1>1, <1>2 DEF Used, Free
<1>4. \A k \in Used(u) : u[k] = t[k]
  BY <1>2, <1>3 DEF Used
<1> QED BY <1>2, <1>3, <1>4 DEF Distinct, Within

\* The service is in the table already: its entry is kept if the slot it moves to is within
\* the limit; if not, there are more entries than that.
LEMMA FindKnownFacts ==
  ASSUME NEW t \in RateTables, Distinct(t), NEW n \in Used(t), NEW max \in 0 .. MaxSlots,
         NEW R, R = FindKnown(t, max, n)
  PROVE  /\ R.table \in RateTables /\ Distinct(R.table) /\ R.at \in 0 .. MaxSlots
         /\ Within(R.table, t)
         /\ \/ /\ R.at # 0
               /\ R.at \in Used(R.table) /\ R.table[R.at].srv = t[n].srv
               /\ \A k \in Used(R.table) : R.table[k].srv = t[n].srv => k = R.at
               /\ Within(t, R.table)
               /\ NoneOver(t) => NoneOver(R.table)
            \/ /\ R.at = 0
               /\ Cardinality(Used(t)) > max
<1> DEFINE lower == {k \in 1..n : k = n \/ t[k].srv = NoService}
           to    == Min(lower)
<1>1. n \in RlSlots /\ n \in Nat /\ n >= 1 /\ n <= MaxSlots /\ MaxSlots \in Nat
  BY UsedServices, RateAssumption DEF RlSlots
<1>2. to \in lower /\ \A k \in lower : to <= k
  <2>1. lower \in SUBSET Nat /\ n \in lower
    BY <1>1
  <2> HIDE DEF lower
  <2> QED BY <2>1, LeastOf
<1>3. to \in 1 .. n /\ (to = n \/ t[to].srv = NoService)
  BY <1>2
<1>4. to \in RlSlots /\ to \in Nat /\ to # 0
  BY <1>1, <1>3 DEF RlSlots
<1>5. R = IF to <= max THEN Searched(Moved(t, n, to), to) ELSE Searched([t EXCEPT ![n] = Free], 0)
  BY DEF FindKnown
<1>6. \A k \in 1 .. (to - 1) : k \in Used(t)
  <2>1. ASSUME NEW k \in 1 .. (to - 1) PROVE k \in Used(t)
    <3>1. k \in 1 .. n /\ ~(to <= k) /\ k \in RlSlots /\ k # n
      BY <1>1, <1>3, <1>4 DEF RlSlots
    <3>2. k \notin lower
      BY <3>1, <1>2
    <3> QED BY <3>1, <3>2 DEF Used
  <2> QED BY <2>1
<1> HIDE DEF to
<1>7. CASE to <= max
  <2>1. R.table = Moved(t, n, to) /\ R.at = to
    BY <1>5, <1>7 DEF Searched
  <2> QED BY <2>1, <1>3, <1>4, MovedFacts, UsedFinite, <1>1 DEF RlSlots
<1>8. CASE ~(to <= max)
  <2>1. R.table = [t EXCEPT ![n] = Free] /\ R.at = 0
    BY <1>5, <1>8 DEF Searched
  <2>2. Cardinality(Used(t)) > max
    <3>1. (1 .. (to - 1)) \cup {n} \in SUBSET Used(t)
      BY <1>6
    <3>2. /\ IsFiniteSet(1 .. (to - 1)) /\ Cardinality(1 .. (to - 1)) = to - 1
      <4> DEFINE k == to - 1
      <4>1. k \in Nat /\ 1 \in Int
        BY <1>4
      <4>2. IsFiniteSet(1 .. k) /\ Cardinality(1 .. k) = IF 1 > k THEN 0 ELSE k - 1 + 1
        <5> HIDE DEF k
        <5>1. k \in Int
          BY <4>1
        <5> QED BY <5>1, FS_Interval
      <4>3. Cardinality(1 .. k) = k
        <5> HIDE DEF k
        <5> QED BY <4>1, <4>2
      <4> QED BY <4>2, <4>3
    <3>3. n \notin 1 .. (to - 1)
      BY <1>1, <1>3
    <3>4. Cardinality((1 .. (to - 1)) \cup {n}) = to
      <4>1. Cardinality((1 .. (to - 1)) \cup {n}) = Cardinality(1 .. (to - 1)) + 1
        BY <3>2, <3>3, FS_AddElement
      <4> QED BY <4>1, <3>2, <1>4
    <3>5. to <= Cardinality(Used(t))
      BY <3>1, <3>4, UsedFinite, FS_Subset
    <3> QED BY <3>5, <1>4, <1>8, UsedFinite, RateAssumption
  <2> QED BY <2>1, <2>2, ReleasedFacts, <1>1
<1> QED BY <1>7, <1>8

\* The service is not in the table: there is no slot if so many are taken as the limit says.
LEMMA FindNewFacts ==
  ASSUME NEW t \in RateTables, NEW s \in Services, NEW max \in 0 .. MaxSlots, NEW state,
         NEW R, R = FindNew(t, max, s, state)
  PROVE  /\ R.table = t /\ R.at \in 0 .. MaxSlots
         /\ R.at # 0 =>
              /\ R.at \notin Used(t)
              /\ Limited(state) => /\ Cardinality(Used(t)) + 1 <= max
                                  /\ Cardinality(Used(t)) + 1 <= LimitOf[s]
         /\ R.at = 0 =>
              \/ Cardinality(Used(t)) >= max
              \/ Limited(state) /\ Cardinality(Used(t)) >= LimitOf[s]
<1> DEFINE free == {n \in 1..max : t[n].srv = NoService}
<1>1. max \in Nat /\ MaxSlots \in Nat /\ max <= MaxSlots /\ LimitOf[s] \in Nat
  BY RateAssumption
<1>2. Cardinality(Used(t)) \in Nat
  BY UsedFinite, RateAssumption
<1>3. R = IF free = {} \/ (Limited(state) /\ ~Fits(t, max, s)) THEN Searched(t, 0)
          ELSE Searched(t, Min(free))
  BY DEF FindNew
<1>4. Fits(t, max, s) <=> /\ Cardinality(Used(t)) + 1 <= max
                          /\ Cardinality(Used(t)) + 1 <= LimitOf[s]
  <2> DEFINE S == {max, LimitOf[s]}
  <2>1. S \in SUBSET Nat /\ S # {}
    BY <1>1
  <2>2. Min(S) \in S /\ \A y \in S : Min(S) <= y
    <3> HIDE DEF S
    <3> QED BY <2>1, LeastOf
  <2>3. Min(S) <= max /\ Min(S) <= LimitOf[s] /\ (Min(S) = max \/ Min(S) = LimitOf[s])
    BY <2>2
  <2>4. Fits(t, max, s) <=> Cardinality(Used(t)) + 1 <= Min(S)
    BY DEF Fits
  <2> DEFINE m == Min(S)
  <2>5. m <= max /\ m <= LimitOf[s] /\ (m = max \/ m = LimitOf[s])
    BY <2>3, Zenon
  <2>6. Fits(t, max, s) <=> Cardinality(Used(t)) + 1 <= m
    BY <2>4, Zenon
  <2> HIDE DEF m
  <2> QED BY <2>5, <2>6, <1>1, <1>2
<1>5. free = {} => Cardinality(Used(t)) >= max
  <2> SUFFICES ASSUME free = {} PROVE Cardinality(Used(t)) >= max
    OBVIOUS
  <2>1. 1 .. max \in SUBSET Used(t)
    BY <1>1 DEF Used, RlSlots
  <2>2. Cardinality(1 .. max) = max
    <3>1. 1 \in Int /\ max \in Int
      BY <1>1
    <3>2. Cardinality(1 .. max) = IF 1 > max THEN 0 ELSE max - 1 + 1
      BY <3>1, FS_Interval
    <3> QED BY <3>2, <1>1
  <2>3. Cardinality(1 .. max) <= Cardinality(Used(t))
    BY <2>1, UsedFinite, FS_Subset
  <2> QED BY <2>2, <2>3, <1>1, <1>2
<1>6. free # {} => Min(free) \in free
  <2>1. free \in SUBSET Nat
    OBVIOUS
  <2> HIDE DEF free
  <2> QED BY <2>1, LeastOf
<1>7. CASE free = {} \/ (Limited(state) /\ ~Fits(t, max, s))
  <2>1. R.table = t /\ R.at = 0
    BY <1>3, <1>7 DEF Searched
  <2> QED BY <2>1, <1>1, <1>2, <1>4, <1>5, <1>7
<1>8. CASE ~(free = {} \/ (Limited(state) /\ ~Fits(t, max, s)))
  <2>1. R.table = t /\ R.at = Min(free)
    BY <1>3, <1>8 DEF Searched
  <2>2. R.at \in 1 .. max /\ t[R.at].srv = NoService
    BY <2>1, <1>6, <1>8
  <2> QED BY <2>1, <2>2, <1>1, <1>4, <1>8 DEF Used
<1> QED BY <1>7, <1>8

\* With one more, no service of the table is over its limit.
Room(t, n) == \A k \in Used(t) : Cardinality(Used(t) \cup {n}) <= LimitOf[t[k].srv]

LEMMA FindSpaceFacts ==
  ASSUME NEW s \in Services, NEW table \in RateTables, Distinct(table), NEW state,
         NEW R, R = FindSpace(s, state, table), NEW D, D = DropOld(table)
  PROVE  /\ R.table \in RateTables /\ Distinct(R.table) /\ R.at \in 0 .. MaxSlots
         /\ Within(R.table, D)
         /\ R.at # 0 =>
              /\ R.at \in Used(R.table) => R.table[R.at].srv = s
              /\ \A k \in Used(R.table) : R.table[k].srv = s => k = R.at
         /\ Limited(state) /\ NoneOver(table) =>
              /\ Within(D, R.table) /\ NoneOver(R.table)
              /\ R.at # 0 => /\ Room(R.table, R.at)
                             /\ Cardinality(Used(R.table) \cup {R.at}) <= LimitOf[s]
              /\ R.at = 0 =>
                   /\ \A n \in Used(D) : D[n].srv # s
                   /\ \/ Cardinality(Used(D)) >= MaxSlots
                      \/ Cardinality(Used(D)) >= LimitOf[s]
                      \/ \E n \in Used(D) : Cardinality(Used(D)) >= LimitOf[D[n].srv]
         /\ R.at = 0 /\ ~Limited(state) => Cardinality(Used(D)) >= MaxSlots
<1> DEFINE max == LimitNow(D, state)
           known == {n \in Used(D) : D[n].srv = s}
<1>1. /\ D \in RateTables
      /\ \A n \in Used(D) : n \in Used(table) /\ D[n] = table[n]
  BY DropOldFacts DEF Used
<1>2. Distinct(D)
  BY <1>1 DEF Distinct
<1>3. NoneOver(table) => NoneOver(D)
  <2>1. Used(D) \in SUBSET Used(table)
    BY <1>1
  <2>2. Cardinality(Used(D)) <= Cardinality(Used(table))
    BY <2>1, UsedFinite, FS_Subset
  <2> QED BY <1>1, <2>2, UsedFinite, UsedServices, RateAssumption DEF NoneOver
<1>4. max \in 0 .. MaxSlots
  BY <1>1, LimitNowFacts
<1>5. Limited(state) =>
        /\ \A n \in Used(D) : max <= LimitOf[D[n].srv]
        /\ max = MaxSlots \/ \E n \in Used(D) : max = LimitOf[D[n].srv]
  BY <1>1, MostCriticalFacts DEF LimitNow
<1>6. ~Limited(state) => max = MaxSlots
  BY DEF LimitNow
<1>7. R = IF known # {} THEN FindKnown(D, max, Min(known)) ELSE FindNew(D, max, s, state)
  BY DEF FindSpace
<1>8. Cardinality(Used(D)) \in Nat /\ Cardinality(Used(D)) <= MaxSlots /\ MaxSlots \in Nat
      /\ LimitOf[s] \in Nat /\ \A n \in Used(D) : LimitOf[D[n].srv] \in Nat
  BY <1>1, UsedFinite, UsedServices, RateAssumption
<1> HIDE DEF max
<1>9. CASE known # {}
  <2>1. Min(known) \in known
    <3>1. known \in SUBSET Nat
      BY UsedFinite DEF RlSlots
    <3> HIDE DEF known
    <3> QED BY <3>1, <1>9, LeastOf
  <2> DEFINE n == Min(known)
  <2>2. n \in Used(D) /\ D[n].srv = s /\ R = FindKnown(D, max, n)
    BY <2>1, <1>7, <1>9
  <2> HIDE DEF n, known
  <2>3. /\ R.table \in RateTables /\ Distinct(R.table) /\ R.at \in 0 .. MaxSlots
        /\ Within(R.table, D)
        /\ \/ /\ R.at # 0
              /\ R.at \in Used(R.table) /\ R.table[R.at].srv = s
              /\ \A k \in Used(R.table) : R.table[k].srv = s => k = R.at
              /\ Within(D, R.table)
              /\ NoneOver(D) => NoneOver(R.table)
           \/ /\ R.at = 0
              /\ Cardinality(Used(D)) > max
    BY <2>2, <1>1, <1>2, <1>4, FindKnownFacts
  <2>4. Limited(state) /\ NoneOver(D) => R.at # 0
    BY <2>2, <2>3, <1>5, <1>8, <1>4 DEF NoneOver
  <2>5. ~Limited(state) => R.at # 0
    BY <2>3, <1>6, <1>8
  <2>6. R.at # 0 /\ NoneOver(D) =>
          Room(R.table, R.at) /\ Cardinality(Used(R.table) \cup {R.at}) <= LimitOf[s]
    <3> SUFFICES ASSUME R.at # 0, NoneOver(D)
                 PROVE Room(R.table, R.at) /\ Cardinality(Used(R.table) \cup {R.at}) <= LimitOf[s]
      OBVIOUS
    <3>1. Used(R.table) \cup {R.at} = Used(R.table)
      BY <2>3
    <3> QED BY <3>1, <2>3 DEF Room, NoneOver
  <2> QED BY <2>3, <2>4, <2>5, <2>6, <1>3
<1>10. CASE known = {}
  <2>1. \A n \in Used(D) : D[n].srv # s
    BY <1>10
  <2>2. R = FindNew(D, max, s, state)
    BY <1>7, <1>10
  <2> HIDE DEF known
  <2>3. /\ R.table = D /\ R.at \in 0 .. MaxSlots
        /\ R.at # 0 =>
             /\ R.at \notin Used(D)
             /\ Limited(state) => /\ Cardinality(Used(D)) + 1 <= max
                                 /\ Cardinality(Used(D)) + 1 <= LimitOf[s]
        /\ R.at = 0 =>
             \/ Cardinality(Used(D)) >= max
             \/ Limited(state) /\ Cardinality(Used(D)) >= LimitOf[s]
    BY <2>2, <1>1, <1>4, FindNewFacts
  <2>4. R.at \notin Used(D) => Cardinality(Used(D) \cup {R.at}) = Cardinality(Used(D)) + 1
    BY UsedFinite, FS_AddElement
  <2>5. Limited(state) /\ R.at # 0 =>
          Room(R.table, R.at) /\ Cardinality(Used(R.table) \cup {R.at}) <= LimitOf[s]
    BY <2>3, <2>4, <1>5, <1>8, <1>4 DEF Room
  <2>6. Within(D, R.table) /\ Within(R.table, D)
    BY <2>3 DEF Within
  <2>7. R.at = 0 /\ Limited(state) =>
          \/ Cardinality(Used(D)) >= MaxSlots
          \/ Cardinality(Used(D)) >= LimitOf[s]
          \/ \E n \in Used(D) : Cardinality(Used(D)) >= LimitOf[D[n].srv]
    BY <2>3, <1>5, <1>8
  <2> QED BY <2>1, <2>3, <2>5, <2>6, <2>7, <1>1, <1>2, <1>3, <1>6
<1> QED BY <1>9, <1>10

\* The strengthened invariant
RShape ==
  /\ cooldown \in BOOLEAN /\ raced \in BOOLEAN /\ over \in BOOLEAN
  /\ rlecmh \in RateTables
  /\ cooldownstate \in {0, 1, 2}
  /\ found \in [srv : Services \cup {NoService}, at : 0..MaxSlots]
  /\ found.srv = NoService => found = NoSearch
  /\ since \in [Services -> 0..Hold]

\* A slot is as old as the last ECM of its service.
Dated == \A n \in Used(rlecmh) : rlecmh[n].age = since[rlecmh[n].srv]

\* The slot found is free or the service's own, and the service has no other.
Entering == found # NoSearch /\ found.at # 0
Reserved ==
  Entering => /\ found.at \in Used(rlecmh) => rlecmh[found.at].srv = found.srv
              /\ \A k \in Used(rlecmh) : rlecmh[k].srv = found.srv => k = found.at

\* Without cooldown no current service is without a slot, and there is room for the one found.
Serves(t, C) == \A c \in C : \E n \in Used(t) : t[n].srv = c
Covered == Serves(rlecmh, Current)
RoomLeft ==
  Entering => /\ Room(rlecmh, found.at)
              /\ Cardinality(Used(rlecmh) \cup {found.at}) <= LimitOf[found.srv]

RInv ==
  /\ RShape
  /\ ~raced => Distinct(rlecmh) /\ Dated /\ Reserved
  /\ ~raced /\ ~cooldown => NoneOver(rlecmh) /\ Covered /\ RoomLeft

LEMMA KeptFacts ==
  ASSUME RShape
  PROVE  /\ Kept \in RateTables /\ Phase \in {0, 1, 2}
         /\ Distinct(rlecmh) => Distinct(Kept)
         /\ Within(Kept, rlecmh)
         /\ ~cooldown => Kept = rlecmh /\ Limited(Phase)
         /\ Limited(Phase) /\ cooldown => Phase = 1
<1>1. Free \in [srv : Services \cup {NoService}, age : 0..Hold] /\ Free.srv = NoService
  BY RateAssumption DEF Free
<1>2. Phase \in {0, 1, 2} /\ (~cooldown => Phase = 0)
  BY DEF Phase, RShape
<1>3. Kept \in RateTables
  BY <1>1 DEF Kept, RateTables, RShape
<1>4. \A n \in Used(Kept) : n \in Used(rlecmh) /\ Kept[n] = rlecmh[n]
  BY <1>1 DEF Kept, Used
<1> QED BY <1>2, <1>3, <1>4 DEF Distinct, Within, Kept, Limited

\* What a search leaves and what it finds
LEMMA SearchFacts ==
  ASSUME RInv, ~raced, NEW s \in Services,
         NEW R, R = Search(s)
  PROVE  /\ R.table \in RateTables /\ R.at \in 0 .. MaxSlots
         /\ Distinct(R.table)
         /\ \A n \in Used(R.table) : R.table[n].age = since[R.table[n].srv]
         /\ R.at # 0 =>
              /\ R.at \in Used(R.table) => R.table[R.at].srv = s
              /\ \A k \in Used(R.table) : R.table[k].srv = s => k = R.at
         /\ ~cooldown =>
              /\ NoneOver(R.table)
              /\ Serves(R.table, Current)
              /\ R.at # 0 => /\ Room(R.table, R.at)
                             /\ Cardinality(Used(R.table) \cup {R.at}) <= LimitOf[s]
         /\ R.at = 0 =>
              IF cooldown THEN Phase = 1 \/ Full
              ELSE /\ s \notin Current
                   /\ Full \/ \E c \in Current \cup {s} : Cardinality(Current) >= LimitOf[c]
<1> DEFINE D == DropOld(Kept)
<1>1. RShape /\ Distinct(rlecmh) /\ Dated
  BY DEF RInv
<1>2. /\ Kept \in RateTables /\ Distinct(Kept) /\ Within(Kept, rlecmh)
      /\ ~cooldown => Kept = rlecmh /\ Limited(Phase)
      /\ Limited(Phase) /\ cooldown => Phase = 1
  BY <1>1, KeptFacts
<1>3. R = FindSpace(s, Phase, Kept)
  BY DEF Search
<1>4. /\ R.table \in RateTables /\ Distinct(R.table) /\ R.at \in 0 .. MaxSlots
      /\ Within(R.table, D)
      /\ R.at # 0 =>
           /\ R.at \in Used(R.table) => R.table[R.at].srv = s
           /\ \A k \in Used(R.table) : R.table[k].srv = s => k = R.at
      /\ Limited(Phase) /\ NoneOver(Kept) =>
           /\ Within(D, R.table) /\ NoneOver(R.table)
           /\ R.at # 0 => /\ Room(R.table, R.at)
                          /\ Cardinality(Used(R.table) \cup {R.at}) <= LimitOf[s]
           /\ R.at = 0 =>
                /\ \A n \in Used(D) : D[n].srv # s
                /\ \/ Cardinality(Used(D)) >= MaxSlots
                   \/ Cardinality(Used(D)) >= LimitOf[s]
                   \/ \E n \in Used(D) : Cardinality(Used(D)) >= LimitOf[D[n].srv]
      /\ R.at = 0 /\ ~Limited(Phase) => Cardinality(Used(D)) >= MaxSlots
  BY <1>2, <1>3, FindSpaceFacts, Zenon
<1>5. /\ D \in RateTables
      /\ \A n \in RlSlots : n \in Used(D) <=> n \in Used(Kept) /\ Kept[n].age < Hold
      /\ \A n \in Used(D) : D[n] = Kept[n]
  BY <1>2, DropOldFacts
<1>6. \A n \in Used(D) : n \in RlSlots /\ n \in Used(Kept)
  BY <1>5 DEF Used
<1> HIDE DEF D
<1>7. Distinct(D)
  BY <1>2, <1>5, <1>6 DEF Distinct
<1>8. \A n \in Used(D) : D[n].srv \in Current /\ D[n].age = since[D[n].srv]
  <2> SUFFICES ASSUME NEW n \in Used(D)
               PROVE  D[n].srv \in Current /\ D[n].age = since[D[n].srv]
    OBVIOUS
  <2>1. PICK m \in Used(rlecmh) : D[n] = rlecmh[m]
    BY <1>2, <1>5, <1>6 DEF Within
  <2>2. D[n].age = since[D[n].srv] /\ D[n].age < Hold
    BY <1>1, <1>5, <1>6, <2>1 DEF Dated
  <2>3. D[n].srv \in Services
    BY <1>5, UsedServices
  <2> QED BY <2>2, <2>3 DEF Current
<1>9. \A n \in Used(R.table) : R.table[n].age = since[R.table[n].srv]
  BY <1>4, <1>8 DEF Within
<1>10. ~cooldown => NoneOver(Kept) /\ Limited(Phase)
  BY <1>2 DEF RInv
<1>11. ~cooldown => \A c \in Current : \E n \in Used(D) : D[n].srv = c
  <2> SUFFICES ASSUME ~cooldown, NEW c \in Current PROVE \E n \in Used(D) : D[n].srv = c
    OBVIOUS
  <2>1. PICK n \in Used(rlecmh) : rlecmh[n].srv = c
    BY DEF RInv, Covered, Serves
  <2>2. rlecmh[n].age < Hold /\ n \in RlSlots
    BY <1>1, <2>1, UsedFinite DEF Dated, Current
  <2> QED BY <1>2, <1>5, <2>1, <2>2
<1>12. ~cooldown => Serves(R.table, Current)
  BY <1>4, <1>10, <1>11 DEF Within, Serves
<1>13. Cardinality(Used(D)) <= Cardinality(Current) /\ Cardinality(Current) \in Nat
       /\ Cardinality(Used(D)) \in Nat
  <2>1. Current \in SUBSET Services
    BY DEF Current
  <2>2. IsFiniteSet(Current)
    BY <2>1, RateAssumption, FS_Subset
  <2> DEFINE f == [n \in Used(D) |-> D[n].srv]
  <2>3. f \in Injection(Used(D), Current)
    BY <1>7, <1>8 DEF Injection, IsInjective, Distinct
  <2>4. Cardinality(Used(D)) <= Cardinality(Current)
    <3> HIDE DEF f
    <3> QED BY <2>2, <2>3, FS_Injection
  <2> QED BY <2>2, <2>4, FS_CardinalityType, UsedFinite, RateAssumption
<1>14. R.at = 0 => IF cooldown THEN Phase = 1 \/ Full
                   ELSE /\ s \notin Current
                        /\ Full \/ \E c \in Current \cup {s} : Cardinality(Current) >= LimitOf[c]
  <2>1. MaxSlots \in Nat /\ \A c \in Services : LimitOf[c] \in Nat
    BY RateAssumption
  <2>2. CASE cooldown
    BY <2>2, <2>1, <1>2, <1>4, <1>13 DEF Full
  <2>3. CASE ~cooldown
    <3> SUFFICES ASSUME R.at = 0
                 PROVE  /\ s \notin Current
                        /\ Full \/ \E c \in Current \cup {s} : Cardinality(Current) >= LimitOf[c]
      BY <2>3
    <3>1. s \notin Current
      BY <1>4, <1>10, <1>11, <2>3
    <3>2. \A x \in Nat : Cardinality(Used(D)) >= x => Cardinality(Current) >= x
      BY <1>13
    <3>3. \A n \in Used(D) : D[n].srv \in Services
      BY <1>5, UsedServices
    <3>4. CASE Cardinality(Used(D)) >= MaxSlots
      BY <3>1, <3>2, <3>4, <2>1 DEF Full
    <3>5. CASE Cardinality(Used(D)) >= LimitOf[s]
      BY <3>1, <3>2, <3>5, <2>1
    <3>6. CASE \E n \in Used(D) : Cardinality(Used(D)) >= LimitOf[D[n].srv]
      BY <3>1, <3>2, <3>3, <3>6, <2>1, <1>8
    <3> QED BY <1>4, <1>10, <2>3, <3>4, <3>5, <3>6
  <2> QED BY <2>2, <2>3
<1> QED BY <1>4, <1>9, <1>10, <1>12, <1>14

\* The types hold after a race as well.
LEMMA SearchTyped ==
  ASSUME RShape, NEW s \in Services
  PROVE  Search(s).table \in RateTables /\ Search(s).at \in 0 .. MaxSlots
<1> DEFINE D     == DropOld(Kept)
           max   == LimitNow(D, Phase)
           known == {n \in Used(D) : D[n].srv = s}
           R     == Search(s)
<1>1. D \in RateTables
  BY KeptFacts, DropOldFacts
<1>2. max \in 0 .. MaxSlots
  BY <1>1, LimitNowFacts
<1>3. R = IF known # {} THEN FindKnown(D, max, Min(known)) ELSE FindNew(D, max, s, Phase)
  BY DEF Search, FindSpace
<1> HIDE DEF D, max, R
<1>4. CASE known # {}
  <2> DEFINE n == Min(known)
  <2>1. n \in known
    <3>1. known \in SUBSET Nat
      BY UsedFinite DEF RlSlots
    <3> HIDE DEF known
    <3> QED BY <3>1, <1>4, LeastOf
  <2>2. n \in Used(D) /\ R = FindKnown(D, max, n)
    BY <2>1, <1>3, <1>4
  <2> HIDE DEF n, known
  <2> DEFINE lower == {k \in 1..n : k = n \/ D[k].srv = NoService}
             to    == Min(lower)
  <2>3. n \in RlSlots /\ n \in 1 .. MaxSlots
    BY <1>1, <2>2, UsedServices DEF RlSlots
  <2>4. to \in lower
    <3>1. lower \in SUBSET Nat /\ n \in lower
      BY <2>3
    <3> HIDE DEF lower
    <3> QED BY <3>1, LeastOf
  <2>5. to \in RlSlots /\ to \in 0 .. MaxSlots
    BY <2>3, <2>4, RateAssumption DEF RlSlots
  <2>6. R = IF to <= max THEN Searched(Moved(D, n, to), to) ELSE Searched([D EXCEPT ![n] = Free], 0)
    BY <2>2 DEF FindKnown
  <2> HIDE DEF to
  <2>7. Free \in [srv : Services \cup {NoService}, age : 0..Hold] /\ 0 \in 0 .. MaxSlots
    BY RateAssumption DEF Free
  <2>8. Moved(D, n, to) \in RateTables /\ [D EXCEPT ![n] = Free] \in RateTables
    BY <1>1, <2>3, <2>5, <2>7 DEF Moved, RateTables
  <2> QED BY <2>5, <2>6, <2>7, <2>8 DEF Searched, R
<1>5. CASE known = {}
  <2>1. R = FindNew(D, max, s, Phase)
    BY <1>3, <1>5
  <2> QED BY <2>1, <1>1, <1>2, FindNewFacts DEF R
<1> QED BY <1>4, <1>5

LEMMA RInvInit == RateInit => RInv
<1> SUFFICES ASSUME RateInit PROVE RInv
  OBVIOUS
<1>1. RShape /\ Used(rlecmh) = {} /\ ~Entering /\ Current = {}
  <2>1. Free \in [srv : Services \cup {NoService}, age : 0..Hold] /\ Free.srv = NoService
    BY RateAssumption DEF Free
  <2>2. rlecmh \in RateTables /\ Used(rlecmh) = {}
    BY <2>1 DEF RateInit, RateTables, Used
  <2>3. since \in [Services -> 0..Hold] /\ Current = {}
    BY RateAssumption DEF RateInit, Current
  <2>4. found \in [srv : Services \cup {NoService}, at : 0..MaxSlots] /\ ~Entering
    BY RateAssumption DEF RateInit, NoSearch, Entering
  <2> QED BY <2>2, <2>3, <2>4, RateAssumption DEF RateInit, RShape
<1>2. Distinct(rlecmh) /\ Dated /\ Reserved /\ NoneOver(rlecmh) /\ Covered /\ RoomLeft
  BY <1>1 DEF Distinct, Dated, Reserved, NoneOver, Covered, Serves, RoomLeft
<1> QED BY <1>1, <1>2 DEF RInv

LEMMA LookUpKeeps ==
  ASSUME RInv, NEW s \in Services, LookUp(s)
  PROVE  RInv'
<1> DEFINE R == Search(s)
<1>1. RShape'
  <2>1. rlecmh' \in RateTables /\ cooldownstate' \in {0, 1, 2}
    BY SearchTyped, KeptFacts DEF LookUp, RInv
  <2> QED BY <2>1 DEF LookUp, RInv, RShape
<1>2. CASE rlecmh' = rlecmh
  <2>1. (~raced' => ~raced) /\ cooldown' = cooldown
    BY DEF LookUp
  <2>2. /\ Distinct(rlecmh)' = Distinct(rlecmh) /\ Dated' = Dated /\ Reserved' = Reserved
        /\ NoneOver(rlecmh)' = NoneOver(rlecmh) /\ Covered' = Covered /\ RoomLeft' = RoomLeft
    BY <1>2 DEF LookUp, Distinct, Dated, Reserved, NoneOver, Covered, RoomLeft, Room, Used, Current,
                Entering
  <2> QED BY <1>1, <2>1, <2>2 DEF RInv
<1>3. CASE rlecmh' # rlecmh /\ ~raced'
  <2>1. ~raced /\ found = NoSearch /\ found' = NoSearch /\ since' = since /\ cooldown' = cooldown
        /\ rlecmh' = R.table
    BY <1>3 DEF LookUp
  <2>2. Distinct(rlecmh') /\ Dated'
    BY <2>1, SearchFacts DEF Dated
  <2>3. Reserved' /\ RoomLeft'
    BY <2>1 DEF Reserved, RoomLeft, Entering
  <2>4. ~cooldown => NoneOver(rlecmh') /\ Covered'
    <3>1. Current' = Current
      BY <2>1 DEF Current
    <3>2. ~cooldown => NoneOver(R.table) /\ Serves(R.table, Current)
      BY <2>1, SearchFacts
    <3> QED BY <2>1, <3>1, <3>2 DEF Covered
  <2> QED BY <1>1, <2>1, <2>2, <2>3, <2>4 DEF RInv
<1>4. CASE raced'
  BY <1>1, <1>4 DEF RInv
<1> QED BY <1>2, <1>3, <1>4

LEMMA FindKeeps ==
  ASSUME RInv, NEW s \in Services, Find(s)
  PROVE  RInv'
<1> DEFINE R == Search(s)
<1>0. s # NoService
  BY RateAssumption
<1>1. RShape'
  <2>1. rlecmh' \in RateTables /\ cooldownstate' \in {0, 1, 2} /\ R.at \in 0 .. MaxSlots
    BY SearchTyped, KeptFacts DEF Find, RInv
  <2> QED BY <2>1, <1>0 DEF Find, RInv, RShape
<1>2. CASE ~raced
  <2>1. ~raced' /\ found' = [srv |-> s, at |-> R.at] /\ since' = since /\ cooldown' = cooldown
        /\ rlecmh' = R.table
    BY <1>2 DEF Find
  <2>2. Distinct(rlecmh') /\ Dated'
    BY <1>2, <2>1, SearchFacts DEF Dated
  <2>3. Reserved'
    BY <1>2, <2>1, SearchFacts DEF Reserved, Entering
  <2>4. ~cooldown => NoneOver(rlecmh') /\ Covered'
    <3>1. Current' = Current
      BY <2>1 DEF Current
    <3>2. ~cooldown => NoneOver(R.table) /\ Serves(R.table, Current)
      BY <1>2, SearchFacts
    <3> QED BY <2>1, <3>1, <3>2 DEF Covered
  <2>5. ~cooldown => RoomLeft'
    BY <1>2, <2>1, SearchFacts DEF RoomLeft, Entering
  <2> QED BY <1>1, <2>1, <2>2, <2>3, <2>4, <2>5 DEF RInv
<1>3. CASE raced
  BY <1>1, <1>3 DEF RInv, Find
<1> QED BY <1>2, <1>3

LEMMA EnterKeeps ==
  ASSUME RInv, Enter
  PROVE  RInv'
<1> DEFINE e == [srv |-> found.srv, age |-> 0]
<1>1. /\ RShape /\ Entering
      /\ found.at \in RlSlots /\ found.srv \in Services /\ found.srv # NoService
      /\ Hold \in Nat /\ e \in [srv : Services \cup {NoService}, age : 0..Hold]
      /\ rlecmh \in RateTables /\ since \in [Services -> 0 .. Hold]
  BY RateAssumption DEF Enter, RInv, RShape, Entering, RlSlots
<1>2. /\ rlecmh' \in RateTables
      /\ \A n \in RlSlots : rlecmh'[n] = IF n = found.at THEN e ELSE rlecmh[n]
      /\ since' \in [Services -> 0 .. Hold]
      /\ \A c \in Services : since'[c] = IF c = found.srv THEN 0 ELSE since[c]
  BY <1>1 DEF Enter, RateTables
<1>3. RShape'
  <2>1. found' = NoSearch /\ NoSearch \in [srv : Services \cup {NoService}, at : 0..MaxSlots]
    BY RateAssumption DEF Enter, NoSearch
  <2>2. cooldownstate' \in {0, 1, 2} /\ over' \in BOOLEAN /\ cooldown' = cooldown /\ raced' = raced
    BY <1>1 DEF Enter, RShape
  <2> QED BY <1>1, <1>2, <2>1, <2>2 DEF RShape
<1>4. CASE ~raced
  <2>1. Distinct(rlecmh) /\ Dated /\ Reserved
    BY <1>4 DEF RInv
  <2>2. Used(rlecmh') = Used(rlecmh) \cup {found.at}
    BY <1>1, <1>2 DEF Used
  <2>3. \A k \in Used(rlecmh) : k # found.at =>
          k \in RlSlots /\ rlecmh[k].srv # found.srv /\ rlecmh'[k] = rlecmh[k]
    BY <1>1, <1>2, <2>1, UsedServices DEF Reserved
  <2>4. rlecmh'[found.at] = e
    BY <1>1, <1>2
  <2>5. Distinct(rlecmh')
    BY <2>1, <2>2, <2>3, <2>4 DEF Distinct
  <2>6. Dated'
    BY <1>1, <1>2, <2>1, <2>2, <2>3, <2>4, UsedServices DEF Dated
  <2>7. Reserved' /\ RoomLeft'
    BY DEF Enter, Reserved, RoomLeft, Entering
  <2>8. ~cooldown => NoneOver(rlecmh') /\ Covered'
    <3> SUFFICES ASSUME ~cooldown PROVE NoneOver(rlecmh') /\ Covered'
      OBVIOUS
    <3>1. NoneOver(rlecmh) /\ Covered /\ RoomLeft
      BY <1>4 DEF RInv
    <3>2. NoneOver(rlecmh')
      <4>1. ASSUME NEW n \in Used(rlecmh')
            PROVE  Cardinality(Used(rlecmh) \cup {found.at}) <= LimitOf[rlecmh'[n].srv]
        <5>1. CASE n = found.at
          BY <1>1, <2>4, <3>1, <5>1 DEF RoomLeft
        <5>2. CASE n # found.at
          BY <1>1, <2>2, <2>3, <3>1, <5>2 DEF RoomLeft, Room
        <5> QED BY <5>1, <5>2
      <4> QED BY <2>2, <4>1 DEF NoneOver
    <3>3. ASSUME NEW c \in Current' PROVE \E n \in Used(rlecmh') : rlecmh'[n].srv = c
      <4>1. CASE c = found.srv
        BY <2>2, <2>4, <4>1
      <4>2. CASE c # found.srv
        <5>1. c \in Current
          BY <1>2, <4>2 DEF Current
        <5>2. PICK n \in Used(rlecmh) : rlecmh[n].srv = c
          BY <5>1, <3>1 DEF Covered, Serves
        <5>3. n # found.at
          BY <4>2, <5>2, <2>1, <1>1 DEF Reserved
        <5> QED BY <5>2, <5>3, <2>2, <2>3
      <4> QED BY <4>1, <4>2
    <3> QED BY <3>2, <3>3 DEF Covered, Serves
  <2> QED BY <1>3, <1>4, <2>5, <2>6, <2>7, <2>8 DEF RInv, Enter
<1>5. CASE raced
  BY <1>3, <1>5 DEF RInv, Enter
<1> QED BY <1>4, <1>5

LEMMA TimeKeeps ==
  ASSUME RInv, TimePasses
  PROVE  RInv'
<1> DEFINE plus(x) == Min({x + 1, Hold})
<1>1. /\ RShape /\ Hold \in Nat /\ rlecmh \in RateTables /\ since \in [Services -> 0 .. Hold]
      /\ found = NoSearch /\ found' = NoSearch
  BY RateAssumption DEF RInv, RShape, TimePasses
<1>2. ASSUME NEW x \in 0 .. Hold
      PROVE  plus(x) \in 0 .. Hold /\ (plus(x) < Hold => x < Hold)
  <2> DEFINE S == {x + 1, Hold}
             m == Min(S)
  <2>1. S \in SUBSET Nat /\ S # {}
    BY <1>1
  <2>2. m \in S /\ \A y \in S : m <= y
    <3> HIDE DEF S
    <3> QED BY <2>1, LeastOf
  <2>3. (m = x + 1 \/ m = Hold) /\ m <= x + 1 /\ m <= Hold
    <3> HIDE DEF m
    <3> QED BY <2>2
  <2>4. plus(x) = m
    OBVIOUS
  <2> HIDE DEF m, plus
  <2> QED BY <2>3, <2>4, <1>1
<1>3. \A n \in RlSlots : rlecmh[n].age \in 0 .. Hold
  BY <1>1 DEF RateTables
<1>4. /\ rlecmh' = [n \in RlSlots |-> IF rlecmh[n] = Free THEN Free
                                  ELSE [rlecmh[n] EXCEPT !.age = plus(rlecmh[n].age)]]
      /\ since' = [s \in Services |-> plus(since[s])]
  <2>1. \A n \in RlSlots : [rlecmh[n] EXCEPT !.age = Min({@ + 1, Hold})]
                           = [rlecmh[n] EXCEPT !.age = plus(rlecmh[n].age)]
    BY <1>1 DEF RateTables
  <2> QED BY <2>1 DEF TimePasses
<1> HIDE DEF plus
<1>5. Free \in [srv : Services \cup {NoService}, age : 0..Hold] /\ Free.srv = NoService
  BY RateAssumption DEF Free
<1>6. \A n \in RlSlots : /\ rlecmh'[n] \in [srv : Services \cup {NoService}, age : 0..Hold]
                         /\ rlecmh'[n].srv = rlecmh[n].srv
                         /\ rlecmh[n].srv # NoService => rlecmh'[n].age = plus(rlecmh[n].age)
  BY <1>1, <1>2, <1>3, <1>4, <1>5 DEF RateTables
<1>7. rlecmh' \in RateTables /\ Used(rlecmh') = Used(rlecmh)
  BY <1>4, <1>6 DEF RateTables, Used
<1>8. since' \in [Services -> 0 .. Hold] /\ Current' \subseteq Current
  BY <1>1, <1>2, <1>4 DEF Current
<1>9. RShape'
  <2>1. over' \in BOOLEAN /\ cooldown' = cooldown /\ raced' = raced /\ cooldownstate' = cooldownstate
    BY <1>1 DEF TimePasses, RShape
  <2> QED BY <1>1, <1>7, <1>8, <2>1 DEF RShape
<1>10. ~raced => Distinct(rlecmh') /\ Dated' /\ Reserved' /\ RoomLeft'
  <2> SUFFICES ASSUME ~raced PROVE Distinct(rlecmh') /\ Dated' /\ Reserved' /\ RoomLeft'
    OBVIOUS
  <2>1. Distinct(rlecmh) /\ Dated
    BY DEF RInv
  <2>2. Distinct(rlecmh')
    BY <2>1, <1>6, <1>7, UsedServices, <1>1 DEF Distinct
  <2>3. \A n \in Used(rlecmh) : n \in RlSlots /\ rlecmh[n].srv \in Services /\ rlecmh[n].srv # NoService
    BY <1>1, UsedServices DEF Used
  <2>4. Dated'
    <3>1. \A n \in Used(rlecmh) : since'[rlecmh[n].srv] = plus(since[rlecmh[n].srv])
      BY <2>3, <1>4
    <3> QED BY <2>1, <2>3, <3>1, <1>6, <1>7 DEF Dated
  <2> QED BY <2>2, <2>4, <1>1 DEF Reserved, RoomLeft, Entering
<1>11. ~raced /\ ~cooldown => NoneOver(rlecmh') /\ Covered'
  <2>1. \A n \in Used(rlecmh) : rlecmh'[n].srv = rlecmh[n].srv
    BY <1>6, UsedFinite
  <2> QED BY <2>1, <1>7, <1>8 DEF RInv, NoneOver, Covered, Serves
<1> QED BY <1>9, <1>10, <1>11 DEF RInv, TimePasses

LEMMA RInvStep == RInv /\ [RateNext]_rateVars => RInv'
<1> SUFFICES ASSUME RInv, [RateNext]_rateVars PROVE RInv'
  OBVIOUS
<1>1. CASE \E s \in Services : LookUp(s) \/ Find(s)
  BY <1>1, LookUpKeeps, FindKeeps
<1>2. CASE Refuse
  <2>1. RShape' /\ ~Entering'
    BY <1>2, RateAssumption DEF Refuse, RInv, RShape, Entering, NoSearch
  <2> QED BY <1>2, <2>1 DEF Refuse, RInv, Dated, Reserved, RoomLeft, Covered, Current
<1>3. CASE Enter
  BY <1>3, EnterKeeps
<1>4. CASE TimePasses
  BY <1>4, TimeKeeps
<1>5. CASE UNCHANGED rateVars
  BY <1>5 DEF rateVars, RInv, RShape, Dated, Reserved, RoomLeft, Covered, Current, Entering
<1> QED BY <1>1, <1>2, <1>3, <1>4, <1>5 DEF RateNext

LEMMA RInvWithin == RInv => WithinLimit
<1> SUFFICES ASSUME RInv, ~cooldown, ~raced, NEW s \in Current
             PROVE  Cardinality(Current) <= LimitOf[s]
  BY DEF WithinLimit
<1>1. NoneOver(rlecmh) /\ Covered
  BY DEF RInv
<1> DEFINE f == [c \in Current |-> CHOOSE n \in Used(rlecmh) : rlecmh[n].srv = c]
<1>2. \A c \in Current : f[c] \in Used(rlecmh) /\ rlecmh[f[c]].srv = c
  BY <1>1 DEF Covered, Serves
<1>3. f \in Injection(Current, Used(rlecmh))
  <2>1. f \in [Current -> Used(rlecmh)]
    BY <1>2
  <2>2. \A x, y \in Current : f[x] = f[y] => x = y
    BY <1>2
  <2> HIDE DEF f
  <2> QED BY <2>1, <2>2 DEF Injection, IsInjective
<1> HIDE DEF f
<1>4. /\ IsFiniteSet(Current)
      /\ Cardinality(Current) <= Cardinality(Used(rlecmh))
  BY <1>3, UsedFinite, FS_Injection
<1>5. Cardinality(Used(rlecmh)) <= LimitOf[s]
  BY <1>1, <1>2 DEF NoneOver
<1>6. s \in Services /\ LimitOf[s] \in Nat /\ Cardinality(Current) \in Nat
      /\ Cardinality(Used(rlecmh)) \in Nat
  BY <1>4, FS_CardinalityType, UsedFinite, RateAssumption DEF Current
<1> QED BY <1>4, <1>5, <1>6

LEMMA RInvRefuses ==
  ASSUME RInv, RateNext, ~raced, NEW s \in Services,
         found = NoSearch, found' = [srv |-> s, at |-> 0]
  PROVE  IF cooldown
         THEN cooldownstate' = 1 \/ Full
         ELSE /\ s \notin Current
              /\ Full \/ \E t \in Current \cup {s} : Cardinality(Current) >= LimitOf[t]
<1>1. found' # NoSearch
  BY RateAssumption DEF NoSearch
<1>2. PICK c \in Services : Find(c)
  BY <1>1 DEF RateNext, LookUp, Refuse, Enter, TimePasses
<1>3. c = s /\ Search(s).at = 0 /\ cooldownstate' = Phase
  BY <1>2 DEF Find
<1> QED BY <1>3, SearchFacts

LEMMA RateInvariant == RateSpec => []RInv
BY RInvInit, RInvStep, PTL DEF RateSpec

\* Type invariant of the rate limiter's table, and that a service has two slots only after
\* the search of a client's thread came between another search and its entry.
THEOREM RateTypeOKAlways == RateSpec => []RateTypeOK
<1>1. RInv => RateTypeOK
  BY DEF RInv, RShape, RateTypeOK, RateTables, Distinct
<1> QED BY <1>1, RateInvariant, PTL

\* Until that happens the rate limiter (ecm_ratelimit_findspace and ecm_ratelimit_check) keeps
\* the services it passes on within every limit, and refuses a request only for a limit or for
\* want of room.
THEOREM RateKeptAlways == RateSpec => RateKept
<1>1. RInv => WithinLimit
  BY RInvWithin
<1>2. RInv /\ [RateNext]_rateVars =>
        [~raced => \A s \in Services :
           found = NoSearch /\ found' = [srv |-> s, at |-> 0] =>
             IF cooldown
             THEN cooldownstate' = 1 \/ Full
             ELSE /\ s \notin Current
                  /\ Full \/ \E t \in Current \cup {s} : Cardinality(Current) >= LimitOf[t]]_rateVars
  BY RInvRefuses
<1> QED BY <1>1, <1>2, RateInvariant, PTL DEF RateSpec, RateKept, RefusedForCause
=============================================================================
