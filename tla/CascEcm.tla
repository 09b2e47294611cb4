------------------------------ MODULE CascEcm ------------------------------
(***************************************************************************)
(* A proxy reader and the server it forwards ECMs to: the table ecmtask of *)
(* the requests under way (ncam-reader.c), the identifiers that lead an     *)
(* answer back to its slot (ncam-work.c, module-newcamd.c,                  *)
(* module-camd35.c), and the TCP connection, whose end takes everything     *)
(* with it.                                                                *)
(*                                                                         *)
(* All handlers run in the reader's work thread, one after the other, so   *)
(* each is one step.  A message is its identifier and its ECM.  The server *)
(* answers in any order, or never.                                         *)
(***************************************************************************)
EXTENDS Integers

CONSTANTS
  Requests,    \* requests that get_cw may forward to this reader, each once
  Ecms,        \* the ECMs they are about
  Ecm,         \* Ecm[q]: the ECM of request q
  MaxPending,  \* cfg.max_pending, the size of ecmtask
  Protocols,   \* protocols the reader may speak: "newcamd", "camd35"
  LoginMsgs,   \* numbered messages of a newcamd login: 2 with ncd_disable_server_filt, else 1
  MsgIds,      \* ncd_msgid of a newcamd connection that is open at the beginning
  Idxs,        \* idx of a camd35 client at the beginning
  NoRequest    \* the content of a slot that was never used

ASSUME CascAssumption ==
  /\ Ecm \in [Requests -> Ecms]
  /\ NoRequest \notin Requests
  /\ MaxPending \in Nat \ {0}
  /\ Protocols \subseteq {"newcamd", "camd35"}

MaxMsgId == 65535  \* a message number has 16 bits
MaxIdx   == 8190   \* casc_process_ecm starts again after it
ASSUME IdAssumption ==
  /\ LoginMsgs \in {1, 2}
  /\ MsgIds \subseteq 1..MaxMsgId
  /\ Idxs \subseteq 0..MaxIdx

VARIABLES
  proto,        \* the protocol of the reader
  open,         \* tcp_connected and logged in
  msgid,        \* ncd_msgid: the last message number of this connection (newcamd)
  nextIdx,      \* cl->idx (camd35)
  lastIdx,      \* cl->last_idx
  ecmtask,      \* ecmtask[n]: request, idx, and whether rc says that it waits
  wire,         \* messages sent on this connection and not answered yet
  told,         \* told[q]: what write_ecm_answer recorded for q at this reader
  age,          \* 0, 1: too old for reader_get_ecm to join, 2: older than ctimeout + 1 s
  ambiguous     \* history: an identifier has stood for two ECMs, or not for its slot

conn == <<proto, open, msgid, nextIdx, lastIdx>>
cascVars == <<conn, ecmtask, wire, told, age, ambiguous>>

Slots == 1..MaxPending
First(n, set) == n \in set /\ \A k \in set : n <= k

\* What a reader may have been told: nothing yet, or an answer and the ECM it is for.
Unasked  == [kind |-> "unasked", ecm |-> NoRequest]
Nothing  == [kind |-> "nothing", ecm |-> NoRequest]
TimedOut == [kind |-> "timeout", ecm |-> NoRequest]
Answer(kind, e) == [kind |-> kind, ecm |-> e]

Asked(q) == told[q] # Unasked
Late(q)  == age[q] = 2

EcmOf(task) == IF task.q = NoRequest THEN NoRequest ELSE Ecm[task.q]

FreeSlot == [q |-> NoRequest, idx |-> 0, waits |-> FALSE]

\* Slots whose request is older than ctimeout + 1 s no longer wait; their idx stays.
DropLate(tasks) ==
  [n \in Slots |-> IF tasks[n].waits /\ Late(tasks[n].q)
                   THEN [tasks[n] EXCEPT !.waits = FALSE] ELSE tasks[n]]

-----------------------------------------------------------------------------
(* casc_check_dcw(n, answer): every waiting slot with the ECM of slot n is answered. *)

\* Mutant of SameEcm: all that wait.
SameEcmBlind(tasks, n) == {i \in Slots : tasks[i].waits}
SameEcm(tasks, n) == {i \in Slots : tasks[i].waits /\ EcmOf(tasks[i]) = EcmOf(tasks[n])}

Answered(tasks, n) ==
  [i \in Slots |-> IF i \in SameEcm(tasks, n) THEN [tasks[i] EXCEPT !.idx = 0, !.waits = FALSE]
                   ELSE DropLate(tasks)[i]]

\* write_ecm_answer for the requests of those slots, unless they are too old or have
\* been answered (also with a timeout) already
Told(tasks, n, answer) ==
  [q \in Requests |->
     IF told[q] = Nothing /\ ~Late(q) /\ \E i \in SameEcm(tasks, n) : tasks[i].q = q
     THEN answer ELSE told[q]]

-----------------------------------------------------------------------------
(* casc_process_ecm *)

\* reader_get_ecm finds another request with this ECM that the reader was sent: it does
\* not forward this one but has it wait for that answer (EcmRequest: FindSame, JoinSame).
FoundInCache(q) ==
  \E p \in Requests \ {q} : /\ Ecm[p] = Ecm[q]
                            /\ Asked(p) /\ told[p] # TimedOut
                            /\ age[p] = 0

FreeSlots == {n \in Slots : ~DropLate(ecmtask)[n].waits}

\* Mutant of Pending: slots that do not wait any more count as well.
PendingStale(q) == \E n \in Slots : EcmOf(DropLate(ecmtask)[n]) = Ecm[q]
\* sflag = 0: the ECM is under way in another slot
Pending(q) == \E n \in Slots : DropLate(ecmtask)[n].waits /\ EcmOf(DropLate(ecmtask)[n]) = Ecm[q]

\* The idx of a new slot, 16 bits wide: a guess at the number its message will get, or
\* the next of a counter.
NewIdx ==
  IF proto = "newcamd" THEN (IF msgid = 0 THEN 2 ELSE msgid + 1) % (MaxMsgId + 1)
  ELSE IF nextIdx = 0 THEN 1 ELSE nextIdx
NextIdx == IF proto = "newcamd" THEN nextIdx ELSE IF NewIdx + 1 > MaxIdx THEN 1 ELSE NewIdx + 1

WithNew(q, n) == [DropLate(ecmtask) EXCEPT ![n] = [q |-> q, idx |-> NewIdx, waits |-> TRUE]]

\* Common part of what follows: q is handed over and n is the first slot it may have.
TakesSlot(q, n) ==
  /\ ~Asked(q)
  /\ ~FoundInCache(q)
  /\ First(n, FreeSlots)
  /\ nextIdx' = NextIdx
  /\ UNCHANGED <<proto, age>>

\* The table is full: the request is dropped without an answer.
Overflow(q) ==
  /\ ~Asked(q) /\ ~FoundInCache(q) /\ FreeSlots = {}
  /\ ecmtask' = DropLate(ecmtask)
  /\ told' = [told EXCEPT ![q] = Nothing]
  /\ UNCHANGED <<conn, wire, age, ambiguous>>

\* The ECM is under way already: the slot waits for the answer to the other one.
Double(q, n) ==
  /\ TakesSlot(q, n)
  /\ Pending(q)
  /\ ecmtask' = WithNew(q, n)
  /\ told' = [told EXCEPT ![q] = Nothing]
  /\ ambiguous' = (ambiguous \/ \E m \in wire : m.id = NewIdx /\ m.ecm # Ecm[q])
  /\ UNCHANGED <<open, msgid, lastIdx, wire>>

\* ncd_msgid once the connection is open
Connected == IF proto = "newcamd" /\ ~open THEN LoginMsgs ELSE msgid
MsgId     == IF proto = "newcamd" THEN (Connected + 1) % (MaxMsgId + 1) ELSE NewIdx

Clashes(q, n) ==
  \/ MsgId = 0 \/ MsgId # NewIdx
  \/ \E k \in Slots \ {n} : ecmtask[k].idx = MsgId /\ EcmOf(ecmtask[k]) # Ecm[q]
  \/ \E m \in wire : m.id = MsgId /\ m.ecm # Ecm[q]

\* c_send_ecm connects if need be and sends the ECM.
Send(q, n) ==
  /\ TakesSlot(q, n)
  /\ ~Pending(q)
  /\ ecmtask' = WithNew(q, n)
  /\ told' = [told EXCEPT ![q] = Nothing]
  /\ open' = TRUE
  /\ msgid' = IF proto = "newcamd" THEN MsgId ELSE msgid
  /\ lastIdx' = NewIdx
  /\ wire' = wire \cup {[id |-> MsgId, ecm |-> Ecm[q]]}
  /\ ambiguous' = (ambiguous \/ Clashes(q, n))

\* c_send_ecm fails and the connection stays as it is: the server cannot be reached or
\* connecting is blocked, a filter rejects the ECM, the server has stopped the client
\* (camd35), or send() fails (newcamd).  "Not found" is simulated.
SendFails(q, n) ==
  /\ TakesSlot(q, n)
  /\ ~Pending(q)
  /\ \/ UNCHANGED <<open, msgid>>
     \/ proto = "newcamd" /\ open' = TRUE /\ msgid' \in {Connected, MsgId}
  /\ ecmtask' = Answered(WithNew(q, n), n)
  /\ told' = [Told(WithNew(q, n), n, Answer("notfound", Ecm[q]))
               EXCEPT ![q] = Answer("notfound", Ecm[q])]
  /\ UNCHANGED <<lastIdx, wire, ambiguous>>

\* network_tcp_connection_close frees all slots, without an answer for their requests.
AllFree(tasks) == [n \in Slots |-> [tasks[n] EXCEPT !.idx = 0, !.waits = FALSE]]

\* c_send_ecm fails and closes the connection: the newcamd login is refused, or with
\* camd35 send() fails or the server has been silent for too long.  The "not found" that
\* follows finds no waiting slot.
SendCloses(q, n) ==
  /\ TakesSlot(q, n)
  /\ ~Pending(q)
  /\ proto = "newcamd" => ~open
  /\ ecmtask' = AllFree(WithNew(q, n))
  /\ told' = [told EXCEPT ![q] = Nothing]
  /\ open' = FALSE
  /\ msgid' = 0
  /\ wire' = {}
  /\ UNCHANGED <<lastIdx, ambiguous>>

-----------------------------------------------------------------------------
(* work_thread: ACTION_READER_REMOTE, and the end of a connection *)

\* The slots an identifier may mean: identifier 0 stands for the last one sent.
Meant(id) == {n \in Slots : ecmtask[n].idx = IF id = 0 THEN lastIdx ELSE id}

Kinds == IF proto = "newcamd" THEN {"found", "notfound"} ELSE {"found", "notfound", "invalid"}

\* The server has answered message m: the answer goes to the first slot with its identifier.
Receive(m, n) ==
  /\ m \in wire
  /\ wire' = wire \ {m}
  /\ First(n, Meant(m.id))
  /\ ecmtask' = Answered(ecmtask, n)
  /\ \E kind \in Kinds : told' = Told(ecmtask, n, Answer(kind, m.ecm))
  /\ UNCHANGED <<conn, age, ambiguous>>

\* No slot has it any more.
ReceiveUnknown(m) ==
  /\ m \in wire
  /\ wire' = wire \ {m}
  /\ Meant(m.id) = {}
  /\ UNCHANGED <<conn, ecmtask, told, age, ambiguous>>

\* The server closes, reading fails, or the connection has been idle for too long.
Close ==
  /\ open
  /\ open' = FALSE
  /\ msgid' = 0
  /\ wire' = {}
  /\ ecmtask' = AllFree(ecmtask)
  /\ UNCHANGED <<proto, nextIdx, lastIdx, told, age, ambiguous>>

\* newcamd_idle and camd35_idle connect without an ECM.
IdleConnect ==
  /\ ~open
  /\ open' = TRUE
  /\ msgid' = Connected
  /\ UNCHANGED <<proto, nextIdx, lastIdx, ecmtask, wire, told, age, ambiguous>>

\* Time passes for q; requests of other clients may be younger or older.
GetOlder(q) ==
  /\ Asked(q) /\ ~Late(q)
  /\ age' = [age EXCEPT ![q] = @ + 1]
  /\ UNCHANGED <<conn, ecmtask, wire, told, ambiguous>>

\* ecm_timeout records the client timeout as the answer of this reader.
ClientTimeout(q) ==
  /\ told[q] = Nothing
  /\ told' = [told EXCEPT ![q] = TimedOut]
  /\ UNCHANGED <<conn, ecmtask, wire, age, ambiguous>>

\* The reader has just been initialised, or is connected and idle.
CascInit ==
  /\ proto \in Protocols
  /\ \/ open = FALSE /\ msgid = 0
     \/ open = TRUE /\ msgid \in IF proto = "newcamd" THEN MsgIds ELSE {0}
  /\ nextIdx \in IF proto = "camd35" THEN Idxs ELSE {0}
  /\ lastIdx = 0
  /\ ecmtask = [n \in Slots |-> FreeSlot]
  /\ wire = {}
  /\ told = [q \in Requests |-> Unasked]
  /\ age = [q \in Requests |-> 0]
  /\ ambiguous = FALSE

CascNext ==
  \/ \E q \in Requests, n \in Slots :
       Double(q, n) \/ Send(q, n) \/ SendFails(q, n) \/ SendCloses(q, n)
  \/ \E q \in Requests : Overflow(q) \/ GetOlder(q) \/ ClientTimeout(q)
  \/ \E m \in wire : ReceiveUnknown(m) \/ \E n \in Slots : Receive(m, n)
  \/ Close \/ IdleConnect

CascSpec == CascInit /\ [][CascNext]_cascVars

-----------------------------------------------------------------------------
\* Type invariant of the reader's connection, its table and the requests.
CascTypeOK ==
  /\ proto \in Protocols /\ open \in BOOLEAN
  /\ msgid \in 0..MaxMsgId /\ nextIdx \in 0..MaxIdx /\ lastIdx \in 0..MaxMsgId
  /\ ecmtask \in [Slots -> [q : Requests \cup {NoRequest}, idx : 0..MaxMsgId, waits : BOOLEAN]]
  /\ wire \subseteq [id : 0..MaxMsgId, ecm : Ecms]
  /\ told \in [Requests -> {Unasked, Nothing, TimedOut}
                          \cup [kind : {"found", "notfound", "invalid"}, ecm : Ecms]]
  /\ age \in [Requests -> 0..2]
  /\ ambiguous \in BOOLEAN

\* However slots are reused, shared, dropped and freed by lost connections, no request is
\* given the CW, or the refusal, of another ECM (casc_check_dcw), as long as each
\* identifier has stood for one ECM.
RightAnswer ==
  ~ambiguous => \A q \in Requests : told[q].kind \in {"found", "notfound", "invalid"}
                                      => told[q].ecm = Ecm[q]

\* With the same exception a slot does not wait for nothing: an answer to its ECM can still
\* come on this connection, or the request that shared it was dropped for its age
\* (casc_process_ecm's sflag, network_tcp_connection_close).
Carried ==
  ~ambiguous => \A n \in Slots :
    ecmtask[n].waits =>
      \/ \E m \in wire : m.ecm = EcmOf(ecmtask[n])
      \/ \E q \in Requests : Ecm[q] = EcmOf(ecmtask[n]) /\ Late(q)

\* A CW is given only to requests for the ECM it answers.  (It is not so: a slot that shares
\* another one's ECM is numbered like the newcamd message sent next.)
CwForItsEcm ==
  \A q \in Requests : told[q].kind = "found" => told[q].ecm = Ecm[q]
=============================================================================
