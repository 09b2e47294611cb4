---------------------------- MODULE CccamProofs ----------------------------
(***************************************************************************)
(* For every set of requests and cards and every matching of them: a CCcam *)
(* server without extended mode is sent one message at a time, and the     *)
(* lock that cares for it (ecm_busy) is given back.                        *)
(*                                                                         *)
(* In every mode: until a number is used again while the server still has  *)
(* the message with it, a CW reaches only requests for its ECM, and what   *)
(* was sent will be heard of (Right).                                      *)
(***************************************************************************)
EXTENDS CccamReader, FiniteSetTheorems, TLAPS

\* The server has something to answer.
Asked == wire # {} \/ emm = "sent"

\* On a connection without extended mode the lock is held while the server has something
\* to answer, when there is one thing; and while cc_send_ecm looks for something to send,
\* when the server has nothing and the connection is up.  A closed connection has nothing
\* under way, so the next one, which begins without extended mode, finds nothing left.
Ready   == conn = "down" => ~Asked
Sending == ~ext /\ at = "loop" => busy /\ conn # "down" /\ ~Asked
Held    == ~ext /\ Asked => busy
IInv == Ready /\ Sending /\ Held /\ OneAtATime /\ NotStuck

\* What IInv is about
iVars == <<conn, ext, busy, at, wire, emm>>

LEMMA InitIInv == CccamInit => IInv
  BY DEF CccamInit, IInv, Ready, Sending, Held, OneAtATime, NotStuck, Asked

\* Steps that leave all of it alone
LEMMA UnchangedIInv == IInv /\ UNCHANGED iVars => IInv'
  BY DEF IInv, iVars, Ready, Sending, Held, OneAtATime, NotStuck, Asked

\* A step after which the server has nothing to answer and the lock is free, outside of the
\* loop, however the connection is
LEMMA FreeIInv ==
  ASSUME wire' = {}, emm' # "sent", busy' = FALSE, at' # "loop"
  PROVE  IInv'
  BY DEF IInv, Ready, Sending, Held, OneAtATime, NotStuck, Asked

\* A message has been answered: at most one was under way, so the lock is free.
LEMMA AnswerIInv ==
  ASSUME IInv, ext' = ext, conn' = conn, conn # "down", at' # "loop", busy' = Unlocked,
         \/ wire # {} /\ emm' = emm /\ \E w \in wire : wire' = wire \ {w}
         \/ emm = "sent" /\ emm' = "none" /\ wire' = wire
  PROVE  IInv'
<1>1. CASE ext
  BY <1>1 DEF IInv, Ready, Sending, Held, OneAtATime, NotStuck
<1>2. CASE ~ext
  <2>1. wire' = {} /\ emm' # "sent"
    BY <1>2 DEF IInv, OneAtATime
  <2>2. busy' = FALSE
    BY <1>2 DEF Unlocked
  <2>3. QED
    BY <2>1, <2>2, FreeIInv
<1>3. QED
  BY <1>1, <1>2

\* Lost connections
LEMMA ConnectionIInv ==
  ASSUME IInv, IdleConnect \/ Break \/ SendConnects \/ SendCycles
  PROVE  IInv'
<1>1. CASE IdleConnect
  <2>1. wire' = {} /\ emm' # "sent" /\ at' # "loop" /\ busy' = FALSE
    BY <1>1 DEF IdleConnect, IInv, Ready, Asked, Connects, ConnectFails, Down, jobVars
  <2>2. QED
    BY <2>1, FreeIInv
<1>2. CASE Break
  <2>1. wire' = {} /\ emm' # "sent" /\ at' # "loop" /\ busy' = FALSE
    BY <1>2 DEF Break, Closed, Down, Cut, jobVars
  <2>2. QED
    BY <2>1, FreeIInv
<1>3. CASE SendConnects
  <2>1. wire' = {} /\ emm' # "sent" /\ at' # "loop" /\ busy' = FALSE
    BY <1>3 DEF SendConnects, IInv, Ready, Asked, Connects, ConnectFails, Down, jobVars, Return
  <2>2. QED
    BY <2>1, FreeIInv
<1>4. CASE SendCycles
  <2>1. wire' = {} /\ emm' # "sent"
    BY <1>4 DEF SendCycles, Cut
  <2>2. CASE ConnectFails /\ Return
    <3>1. at' # "loop" /\ busy' = FALSE
      BY <2>2 DEF ConnectFails, Down, Return
    <3>2. QED
      BY <2>1, <3>1, FreeIInv
  <2>3. CASE Connects(TRUE) /\ Starts
    BY <2>1, <2>3 DEF Connects, Starts, IInv, Ready, Sending, Held, OneAtATime, NotStuck, Asked
  <2>4. QED
    BY <1>4, <2>2, <2>3 DEF SendCycles
<1>5. QED
  BY <1>1, <1>2, <1>3, <1>4

\* The loop of cc_send_ecm
LEMMA LoopIInv ==
  ASSUME IInv, SendStarts \/ LoopEnds \/ LoopSendsEmm
               \/ \E q \in Requests, c \in Cards : LoopSends(q, c)
  PROVE  IInv'
<1>1. CASE SendStarts
  <2>1. conn' = conn /\ conn # "down" /\ ext' = ext /\ wire' = wire /\ emm' = emm /\ at' = "loop"
    BY <1>1 DEF SendStarts, sentVars, Starts
  <2>2. ~ext => busy' = TRUE /\ ~Asked
    BY <1>1 DEF SendStarts, IInv, Held
  <2>3. QED
    BY <2>1, <2>2 DEF IInv, Ready, Sending, Held, OneAtATime, NotStuck, Asked
<1>2. CASE LoopEnds
  <2>1. /\ conn' = conn /\ ext' = ext /\ wire' = wire /\ at' # "loop"
        /\ emm' = IF emm = "pending" THEN "none" ELSE emm
    BY <1>2 DEF LoopEnds, sentVars, Return
  <2>2. CASE ext
    BY <2>1, <2>2 DEF IInv, Ready, Sending, Held, OneAtATime, NotStuck, Asked
  <2>3. CASE ~ext
    <3>1. conn # "down" /\ ~Asked
      BY <1>2, <2>3 DEF LoopEnds, IInv, Sending
    <3>2. emm # "pending"
      BY <1>2, <3>1 DEF LoopEnds
    <3>3. wire' = {} /\ emm' # "sent" /\ busy' = FALSE
      BY <1>2, <2>1, <2>3, <3>1, <3>2 DEF LoopEnds, Asked
    <3>4. QED
      BY <2>1, <3>3, FreeIInv
  <2>4. QED
    BY <2>2, <2>3
<1>3. CASE LoopSendsEmm
  <2>1. CASE SendFails /\ emm' = "none"
    <3>1. wire' = {} /\ emm' # "sent" /\ busy' = FALSE /\ at' # "loop"
      BY <1>3, <2>1 DEF LoopSendsEmm, SendFails, Down, Return
    <3>2. QED
      BY <3>1, FreeIInv
  <2>2. CASE emm' = "sent" /\ busy' = (IF ext THEN busy ELSE TRUE) /\ UNCHANGED <<conn, ext, wire>>
    <3>1. conn # "down" /\ at' # "loop"
      BY <1>3 DEF LoopSendsEmm, Return
    <3>2. ~ext => wire = {}
      BY <1>3 DEF LoopSendsEmm, IInv, Sending, Asked
    <3>3. QED
      BY <2>2, <3>1, <3>2 DEF IInv, Ready, Sending, Held, OneAtATime, NotStuck, Asked
  <2>3. QED
    BY <1>3, <2>1, <2>2 DEF LoopSendsEmm
<1>4. ASSUME NEW q \in Requests, NEW c \in Cards, LoopSends(q, c)
      PROVE  IInv'
  <2>1. /\ conn # "down"
        /\ IF ext THEN at' = at ELSE at' # "loop"
    BY <1>4 DEF LoopSends, Return
  <2>2. CASE wire' = wire \cup {<<NextFlag, q>>} /\ UNCHANGED <<connVars, emm>>
    <3>1. ~ext => busy /\ ~Asked
      BY <1>4 DEF LoopSends, IInv, Sending
    <3>2. conn' = conn /\ ext' = ext /\ busy' = busy /\ emm' = emm
      BY <2>2 DEF connVars
    <3>3. QED
      BY <2>1, <2>2, <3>1, <3>2 DEF IInv, Ready, Sending, Held, OneAtATime, NotStuck, Asked
  <2>3. CASE SendFails /\ emm' = IF emm = "sent" THEN "none" ELSE emm
    <3>1. wire' = {} /\ emm' # "sent" /\ busy' = FALSE /\ ext' = ext
      BY <2>3 DEF SendFails, Down
    <3>2. QED
      BY <2>1, <3>1 DEF IInv, Ready, Sending, Held, OneAtATime, NotStuck, Asked
  <2>4. QED
    BY <1>4, <2>2, <2>3 DEF LoopSends
<1>5. QED
  BY <1>1, <1>2, <1>3, <1>4

\* casc_check_dcw, which may cycle the connection
LEMMA DeliverIInv == ASSUME IInv, Deliver PROVE IInv'
<1>1. at = "deliver" /\ at' = "idle"
  BY DEF Deliver
<1>2. CASE UNCHANGED <<connVars, cardVars, sentVars, emm, lost>>
  BY <1>1, <1>2 DEF connVars, sentVars, IInv, Ready, Sending, Held, OneAtATime, NotStuck, Asked
<1>3. CASE (Connects(FALSE) \/ ConnectFails) /\ Cut
  <2>1. wire' = {} /\ emm' # "sent" /\ busy' = FALSE
    BY <1>3 DEF Connects, ConnectFails, Down, Cut
  <2>2. QED
    BY <1>1, <2>1, FreeIInv
<1>4. QED
  BY <1>2, <1>3 DEF Deliver

\* Answers of the server
LEMMA ReceiveIInv ==
  ASSUME IInv,
         \/ \E w \in wire :
              \/ ReceiveCw(w[1], w[2]) \/ ReceiveUnknownCw(w[1], w[2]) \/ ReceiveNull(w[1], w[2])
              \/ ReceiveEarlyNok(w[1], w[2])
              \/ \E nok1 \in BOOLEAN : ReceiveNok(w[1], w[2], nok1)
         \/ ReceiveEmmAck
  PROVE  IInv'
<1>1. ASSUME NEW f, NEW q, Takes(f, q), busy' = Unlocked, SendNext, UNCHANGED <<conn, ext, emm>>
      PROVE  IInv'
  <2>1. <<f, q>> \in wire /\ wire' = wire \ {<<f, q>>} /\ at' # "loop"
    BY <1>1 DEF Takes, SendNext
  <2>2. conn # "down"
    BY <2>1 DEF IInv, Ready, Asked
  <2>3. QED
    BY <1>1, <2>1, <2>2, AnswerIInv
<1>2. ASSUME NEW f, NEW q, ReceiveCw(f, q) \/ ReceiveNull(f, q) PROVE IInv'
  BY <1>1, <1>2 DEF ReceiveCw, ReceiveNull
<1>3. ASSUME NEW f, NEW q, NEW nok1, ReceiveNok(f, q, nok1) PROVE IInv'
  BY <1>1, <1>3 DEF ReceiveNok
<1>4. ASSUME NEW f, NEW q, ReceiveUnknownCw(f, q) PROVE IInv'
  <2>1. wire' = {} /\ emm' # "sent" /\ busy' = FALSE /\ at' # "loop"
    BY <1>4 DEF ReceiveUnknownCw, Down, Cut, SendNext
  <2>2. QED
    BY <2>1, FreeIInv
<1>5. ASSUME NEW f, NEW q, ReceiveEarlyNok(f, q) PROVE IInv'
  <2>1. wire' = {} /\ emm' # "sent" /\ busy' = FALSE /\ at' # "loop"
    BY <1>5 DEF ReceiveEarlyNok, Down, Cut, jobVars
  <2>2. QED
    BY <2>1, FreeIInv
<1>6. CASE ReceiveEmmAck
  <2>1. /\ emm = "sent" /\ emm' = "none" /\ wire' = wire /\ at' # "loop"
        /\ busy' = Unlocked /\ UNCHANGED <<conn, ext>>
    BY <1>6 DEF ReceiveEmmAck, sentVars, SendNext
  <2>2. conn # "down"
    BY <2>1 DEF IInv, Ready, Asked
  <2>3. QED
    BY <2>1, <2>2, AnswerIInv
<1>7. QED
  BY <1>2, <1>3, <1>4, <1>5, <1>6

\* The other steps
LEMMA OtherIInv ==
  ASSUME IInv,
         \/ \E q \in Requests : Ask(q) \/ LoopNoCard(q) \/ Grow(q)
         \/ SendWaitsForCards \/ SendWaitsForAnswer
         \/ ReceivePartner \/ ReceiveOther
         \/ \E c \in Cards : NewCard(c) \/ CardRemoved(c)
         \/ AskEmm
         \/ \E b \in blocked : Reopen(b)
  PROVE  IInv'
<1>1. ASSUME NEW q \in Requests, Ask(q) PROVE IInv'
  <2>1. UNCHANGED <<conn, ext, busy, wire, emm>> /\ at # "loop" /\ at' # "loop"
    BY <1>1 DEF Ask, connVars, sentVars
  <2>2. QED
    BY <2>1 DEF IInv, Ready, Sending, Held, OneAtATime, NotStuck, Asked
<1>2. ASSUME NEW q \in Requests, LoopNoCard(q) \/ Grow(q) PROVE IInv'
  BY <1>2, UnchangedIInv DEF LoopNoCard, Grow, iVars, connVars, sentVars, jobVars
<1>3. CASE SendWaitsForCards \/ SendWaitsForAnswer
  <2>1. UNCHANGED <<conn, ext, busy, wire, emm>> /\ at # "loop" /\ at' # "loop"
    BY <1>3 DEF SendWaitsForCards, SendWaitsForAnswer, Return, connVars, sentVars
  <2>2. QED
    BY <2>1 DEF IInv, Ready, Sending, Held, OneAtATime, NotStuck, Asked
<1>4. CASE ReceivePartner
  <2>1. ext' = TRUE /\ UNCHANGED <<conn, wire, emm>>
    BY <1>4 DEF ReceivePartner, sentVars
  <2>2. QED
    BY <2>1 DEF IInv, Ready, Sending, Held, OneAtATime, NotStuck, Asked
<1>5. CASE ReceiveOther
  BY <1>5, UnchangedIInv DEF ReceiveOther, iVars, sentVars, jobVars
<1>6. ASSUME NEW c \in Cards, NewCard(c) PROVE IInv'
  <2>1. conn # "down" /\ conn' # "down" /\ UNCHANGED <<ext, busy, wire, emm, at>>
    BY <1>6 DEF NewCard, sentVars, jobVars
  <2>2. QED
    BY <2>1 DEF IInv, Ready, Sending, Held, OneAtATime, NotStuck, Asked
<1>7. ASSUME NEW c \in Cards, CardRemoved(c) PROVE IInv'
  BY <1>7, UnchangedIInv DEF CardRemoved, iVars, connVars, jobVars
<1>8. CASE AskEmm
  <2>1. conn # "down" /\ at = "idle" /\ at' = at /\ emm = "none" /\ UNCHANGED <<conn, ext, wire>>
    BY <1>8 DEF AskEmm, sentVars, jobVars
  <2>2. CASE emm' = "pending" /\ busy' = busy
    BY <2>1, <2>2 DEF IInv, Ready, Sending, Held, OneAtATime, NotStuck, Asked
  <2>3. CASE ~(~ext /\ busy) /\ emm' = "sent" /\ busy' = IF ext THEN busy ELSE TRUE
    <3>1. ~ext => wire = {}
      BY <2>3 DEF IInv, Held, Asked
    <3>2. QED
      BY <2>1, <2>3, <3>1 DEF IInv, Ready, Sending, Held, OneAtATime, NotStuck, Asked
  <2>4. QED
    BY <1>8, <2>2, <2>3 DEF AskEmm
<1>9. ASSUME NEW b \in blocked, Reopen(b) PROVE IInv'
  BY <1>9, UnchangedIInv DEF Reopen, iVars, connVars, sentVars, jobVars
<1>10. QED
  BY <1>1, <1>2, <1>3, <1>4, <1>5, <1>6, <1>7, <1>8, <1>9

LEMMA NextIInv == IInv /\ [CccamNext]_cccamVars => IInv'
<1>1. SUFFICES ASSUME IInv, [CccamNext]_cccamVars PROVE IInv'
  OBVIOUS
<1>2. CASE UNCHANGED cccamVars
  BY <1>1, <1>2, UnchangedIInv DEF cccamVars, iVars, connVars, sentVars, jobVars
<1>3. CASE CccamNext
  BY <1>1, <1>3, ConnectionIInv, LoopIInv, DeliverIInv, ReceiveIInv, OtherIInv DEF CccamNext
<1>4. QED
  BY <1>1, <1>2, <1>3

\* The invariant always holds.
LEMMA IInvAlways == CccamSpec => []IInv
  BY InitIInv, NextIInv, PTL DEF CccamSpec

\* cc_send_ecm, cc_send_emm and cc_cli_connect: without extended mode a CCcam server is
\* never sent an ECM or EMM while it has another one to answer, whatever connections,
\* cards and answers come and go.
THEOREM OneAtATimeAlways == CccamSpec => []OneAtATime
<1>1. IInv => OneAtATime
  BY DEF IInv
<1>2. QED
  BY IInvAlways, <1>1, PTL

\* cc_send_ecm and cc_parse_msg: outside of cc_send_ecm the lock is held only while the
\* server has something to answer, so no path leaves the reader locked.
THEOREM NotStuckAlways == CccamSpec => []NotStuck
<1>1. IInv => NotStuck
  BY DEF IInv
<1>2. QED
  BY IInvAlways, <1>1, PTL
-----------------------------------------------------------------------------
\* Types

\* A number stands for one entry.
OneEntry == \A x, y \in entries : x.flag = y.flag => x = y
Typed    == CccamTypeOK /\ OneEntry

Slots == {"none", "unsent", "sent", "waiting", "dropped", "done"}

\* What the parts of the type invariant are about
ConnOK == /\ conn \in {"down", "login", "cards"} /\ {ext, busy, fresh} \subseteq BOOLEAN
          /\ emm \in {"none", "pending", "sent"}
CardsOK == /\ cardMsg \in BOOLEAN /\ cards \subseteq Cards
           /\ blocked \subseteq Cards \X {Ecm[q] : q \in Requests}
SentOK == /\ flag \in 0 .. MaxFlag /\ reused \in BOOLEAN
          /\ entries \subseteq [flag : 1 .. MaxFlag, q : Requests, card : Cards]
          /\ wire \subseteq (1 .. MaxFlag) \X Requests
          /\ OneEntry
SlotsOK == /\ slot \in [Requests -> Slots]
           /\ age \in [Requests -> {"new", "due", "late"}]
           /\ lost \subseteq Requests /\ wrong \in BOOLEAN
CwOK  == /\ cw \subseteq [q : Requests, ecm : {Ecm[q] : q \in Requests}]
         /\ Cardinality(cw) <= 1
JobOK == /\ at \in {"idle", "send", "loop", "deliver"}
         /\ er \in Requests \cup {NoRequest} /\ card \in Cards \cup {NoCard}

LEMMA Parts == Typed <=> ConnOK /\ CardsOK /\ SentOK /\ SlotsOK /\ CwOK /\ JobOK
  BY DEF Typed, CccamTypeOK, ConnOK, CardsOK, SentOK, SlotsOK, CwOK, JobOK, Slots

LEMMA PartsPrimed ==
  ASSUME ConnOK', CardsOK', SentOK', SlotsOK', CwOK', JobOK'
  PROVE  Typed'
  BY DEF Typed, CccamTypeOK, ConnOK, CardsOK, SentOK, SlotsOK, CwOK, JobOK, Slots, OneEntry

LEMMA NextFlagType == ASSUME flag \in 0 .. MaxFlag PROVE NextFlag \in 1 .. MaxFlag
  BY CccamAssumption DEF NextFlag

LEMMA InitTyped == ASSUME CccamInit PROVE Typed
<1>1. ConnOK /\ CardsOK /\ SlotsOK /\ JobOK
  BY DEF CccamInit, ConnOK, CardsOK, SlotsOK, JobOK, Slots
<1>2. SentOK
  <2>1. flag = 0 /\ reused = FALSE /\ entries = {} /\ wire = {}
    BY DEF CccamInit
  <2>2. flag \in 0 .. MaxFlag
    BY <2>1, CccamAssumption
  <2>3. QED
    BY <2>1, <2>2 DEF SentOK, OneEntry
<1>3. CwOK
  BY FS_EmptySet DEF CccamInit, CwOK
<1>4. QED
  BY <1>1, <1>2, <1>3, Parts

LEMMA SlotType ==
  ASSUME SlotsOK
  PROVE  /\ \A Q : Answered(Q) \in [Requests -> Slots]
         /\ \A Q : ResetPending(Q) \in [Requests -> Slots]
         /\ DropLate \in [Requests -> Slots]
         /\ [q \in Requests |-> IF InUse(q) THEN "done" ELSE slot[q]] \in [Requests -> Slots]
  BY DEF SlotsOK, Slots, Answered, ResetPending, DropLate

\* Connections
LEMMA ConnectTypes ==
  ASSUME ConnOK, CardsOK, NEW b \in BOOLEAN, Connects(b) \/ ConnectFails
  PROVE  /\ conn' \in {"down", "login", "cards"} /\ {ext', busy', fresh'} \subseteq BOOLEAN
         /\ CardsOK' /\ entries' = {}
  BY DEF ConnOK, CardsOK, Connects, ConnectFails, Down

LEMMA ConnectionTyped ==
  ASSUME Typed, IdleConnect \/ Break \/ SendConnects \/ SendCycles
  PROVE  Typed'
<1> USE Parts
<1>1. CASE IdleConnect
  <2>1. Connects(FALSE) \/ ConnectFails
    BY <1>1 DEF IdleConnect
  <2>2. UNCHANGED <<flag, wire, reused, emm, slot, age, at, er, card, cw, lost, wrong>>
    BY <1>1 DEF IdleConnect, jobVars
  <2>3. ConnOK' /\ CardsOK' /\ entries' = {}
    BY <2>1, <2>2, ConnectTypes DEF ConnOK
  <2>4. SentOK' /\ SlotsOK' /\ CwOK' /\ JobOK'
    BY <2>2, <2>3 DEF SentOK, SlotsOK, CwOK, JobOK, OneEntry
  <2>5. QED
    BY <2>3, <2>4, PartsPrimed
<1>2. CASE Break
  <2>1. /\ conn' = "down" /\ busy' = FALSE /\ fresh' = FALSE /\ ext' = ext
        /\ wire' = {} /\ emm' = (IF emm = "sent" THEN "none" ELSE emm)
        /\ UNCHANGED <<flag, reused, cardMsg, cards, blocked, entries, lost, age, at, er, card, cw, wrong>>
        /\ slot' = [q \in Requests |-> IF InUse(q) THEN "done" ELSE slot[q]]
    BY <1>2 DEF Break, Closed, Down, Cut, cardVars, jobVars
  <2>2. SlotsOK'
    BY <2>1, SlotType DEF SlotsOK
  <2>3. ConnOK' /\ CardsOK' /\ SentOK' /\ CwOK' /\ JobOK'
    BY <2>1 DEF ConnOK, CardsOK, SentOK, CwOK, JobOK, OneEntry
  <2>4. QED
    BY <2>2, <2>3, PartsPrimed
<1>3. CASE SendConnects
  <2>1. Connects(FALSE) \/ ConnectFails
    BY <1>3 DEF SendConnects
  <2>2. /\ UNCHANGED <<flag, wire, reused, emm, age, cw, lost, wrong>>
        /\ slot' = slot \/ slot' = Answered({er})
        /\ JobOK'
    BY <1>3 DEF SendConnects, jobVars, Return, JobOK
  <2>3. ConnOK' /\ CardsOK' /\ entries' = {}
    BY <2>1, <2>2, ConnectTypes DEF ConnOK
  <2>4. SlotsOK'
    BY <2>2, SlotType DEF SlotsOK
  <2>5. SentOK' /\ CwOK'
    BY <2>2, <2>3 DEF SentOK, CwOK, OneEntry
  <2>6. QED
    BY <2>2, <2>3, <2>4, <2>5, PartsPrimed
<1>4. CASE SendCycles
  <2>1. Connects(TRUE) \/ ConnectFails
    BY <1>4 DEF SendCycles
  <2>2. /\ wire' = {} /\ emm' = (IF emm = "sent" THEN "none" ELSE emm)
        /\ lost' = lost \cup {q \in Requests : slot[q] = "sent"}
        /\ UNCHANGED <<flag, reused, slot, age, wrong, cw>>
        /\ JobOK'
    BY <1>4 DEF SendCycles, Cut, Strands, Return, Starts, JobOK
  <2>3. ConnOK' /\ CardsOK' /\ entries' = {}
    BY <2>1, <2>2, ConnectTypes DEF ConnOK
  <2>4. SentOK' /\ SlotsOK' /\ CwOK'
    BY <2>2, <2>3 DEF SentOK, SlotsOK, CwOK, OneEntry
  <2>5. QED
    BY <2>2, <2>3, <2>4, PartsPrimed
<1>5. QED
  BY <1>1, <1>2, <1>3, <1>4
\* cc_send_ecm
LEMMA LoopSendsTyped ==
  ASSUME Typed, NEW q \in Requests, NEW c \in Cards, LoopSends(q, c)
  PROVE  Typed'
<1> USE Parts
<1>1. /\ flag' = (IF ext THEN NextFlag ELSE flag)
      /\ entries' = {x \in entries : x.flag # NextFlag} \cup {[flag |-> NextFlag, q |-> q, card |-> c]}
      /\ reused' = (reused \/ \E w \in wire : w[1] = NextFlag)
      /\ wire' = wire \cup {<<NextFlag, q>>} \/ wire' = {}
  BY DEF LoopSends, SendFails
<1>2. NextFlag \in 1 .. MaxFlag
  BY NextFlagType DEF SentOK
<1>3. OneEntry'
  BY <1>1 DEF SentOK, OneEntry
<1>4. reused' \in BOOLEAN
  BY <1>1
<1>5. SentOK'
  BY <1>1, <1>2, <1>3, <1>4, CccamAssumption DEF SentOK
<1>6. ConnOK'
  BY DEF LoopSends, SendFails, Down, connVars, ConnOK
<1>7. SlotsOK'
  <2>1. slot' \in [Requests -> Slots]
    BY SlotType DEF LoopSends, SendFails, Slots
  <2>2. UNCHANGED <<age, lost, wrong>>
    BY DEF LoopSends
  <2>3. QED
    BY <2>1, <2>2 DEF SlotsOK
<1>8. CardsOK' /\ CwOK' /\ JobOK'
  BY DEF LoopSends, cardVars, Return, CardsOK, CwOK, JobOK
<1>9. QED
  BY <1>5, <1>6, <1>7, <1>8, PartsPrimed

LEMMA LoopTyped ==
  ASSUME Typed, LoopEnds \/ LoopSendsEmm \/ \E q \in Requests : LoopNoCard(q)
  PROVE  Typed'
<1> USE Parts
<1>1. CASE LoopEnds
  <2>1. SlotsOK'
    BY <1>1, SlotType DEF LoopEnds, SlotsOK
  <2>2. ConnOK'
    BY <1>1 DEF LoopEnds, ConnOK
  <2>3. CardsOK' /\ SentOK' /\ CwOK' /\ JobOK'
    BY <1>1 DEF LoopEnds, cardVars, sentVars, Return, CardsOK, SentOK, CwOK, JobOK, OneEntry
  <2>4. QED
    BY <2>1, <2>2, <2>3, PartsPrimed
<1>2. CASE LoopSendsEmm
  <2>1. SlotsOK'
    BY <1>2, SlotType DEF LoopSendsEmm, SendFails, SlotsOK
  <2>2. ConnOK'
    BY <1>2 DEF LoopSendsEmm, SendFails, Down, ConnOK
  <2>3. CardsOK' /\ SentOK' /\ CwOK' /\ JobOK'
    BY <1>2 DEF LoopSendsEmm, SendFails, cardVars, Return, CardsOK, SentOK, CwOK, JobOK, OneEntry
  <2>4. QED
    BY <2>1, <2>2, <2>3, PartsPrimed
<1>3. ASSUME NEW q \in Requests, LoopNoCard(q) PROVE Typed'
  <2>1. SlotsOK'
    BY <1>3, SlotType DEF LoopNoCard, SlotsOK, Slots
  <2>2. ConnOK' /\ CardsOK' /\ SentOK' /\ CwOK' /\ JobOK'
    BY <1>3 DEF LoopNoCard, connVars, cardVars, sentVars, jobVars, ConnOK, CardsOK, SentOK, CwOK,
                JobOK, OneEntry
  <2>3. QED
    BY <2>1, <2>2, PartsPrimed
<1>4. QED
  BY <1>1, <1>2, <1>3

LEMMA SendTyped ==
  ASSUME Typed, SendWaitsForCards \/ SendWaitsForAnswer \/ SendStarts
  PROVE  Typed'
<1> USE Parts
<1>1. /\ UNCHANGED <<conn, ext, emm, slot, age, cw, lost, wrong>> /\ UNCHANGED cardVars
      /\ UNCHANGED sentVars /\ fresh' \in {fresh, FALSE} /\ busy' \in {busy, TRUE} /\ JobOK'
  BY DEF SendWaitsForCards, SendWaitsForAnswer, SendStarts, connVars, Return, Starts, JobOK
<1>2. ConnOK' /\ CardsOK' /\ SentOK' /\ SlotsOK' /\ CwOK'
  BY <1>1 DEF cardVars, sentVars, ConnOK, CardsOK, SentOK, SlotsOK, CwOK, OneEntry
<1>3. QED
  BY <1>1, <1>2, PartsPrimed

\* casc_check_dcw
LEMMA DeliverTyped == ASSUME Typed, Deliver PROVE Typed'
<1> USE Parts
<1>1. /\ slot' \in [Requests -> Slots] /\ wrong' \in BOOLEAN
      /\ at' = "idle" /\ cw' = {} /\ UNCHANGED <<er, card, age>>
  BY SlotType DEF Deliver, SlotsOK, Slots
<1>2. CwOK' /\ JobOK'
  BY <1>1, FS_EmptySet DEF CwOK, JobOK
<1>3. CASE UNCHANGED <<connVars, cardVars, sentVars, emm, lost>>
  <2>1. ConnOK' /\ CardsOK' /\ SentOK' /\ SlotsOK'
    BY <1>1, <1>3 DEF connVars, cardVars, sentVars, ConnOK, CardsOK, SentOK, SlotsOK, OneEntry
  <2>2. QED
    BY <1>2, <2>1, PartsPrimed
<1>4. CASE (Connects(FALSE) \/ ConnectFails) /\ Cut /\ Strands
  <2>1. /\ wire' = {} /\ emm' = (IF emm = "sent" THEN "none" ELSE emm)
        /\ lost' = lost \cup {q \in Requests : slot[q] = "sent"} /\ UNCHANGED <<flag, reused>>
    BY <1>4 DEF Cut, Strands
  <2>2. ConnOK' /\ CardsOK' /\ entries' = {}
    BY <1>4, <2>1, ConnectTypes DEF ConnOK
  <2>3. SentOK' /\ SlotsOK'
    BY <1>1, <2>1, <2>2 DEF SentOK, SlotsOK, OneEntry
  <2>4. QED
    BY <1>2, <2>2, <2>3, PartsPrimed
<1>5. QED
  BY <1>3, <1>4 DEF Deliver

\* The entries found for a number are one at most.
LEMMA EntryOnce ==
  ASSUME OneEntry, NEW f
  PROVE  Entry(f) = {} \/ \E x \in entries : Entry(f) = {x}
  BY DEF OneEntry, Entry

LEMMA ReceivedCwType ==
  ASSUME SentOK, NEW f, NEW q \in Requests
  PROVE  LET got == {[q |-> x.q, ecm |-> Ecm[q]] : x \in Entry(f)}
         IN /\ got \subseteq [q : Requests, ecm : {Ecm[r] : r \in Requests}]
            /\ Cardinality(got) <= 1
<1>1. CASE Entry(f) = {}
  <2>1. {[q |-> x.q, ecm |-> Ecm[q]] : x \in Entry(f)} = {}
    BY <1>1
  <2>2. QED
    BY <2>1, FS_EmptySet
<1>2. ASSUME NEW y \in entries, Entry(f) = {y}
      PROVE  LET got == {[q |-> x.q, ecm |-> Ecm[q]] : x \in Entry(f)}
             IN /\ got \subseteq [q : Requests, ecm : {Ecm[r] : r \in Requests}]
                /\ Cardinality(got) <= 1
  <2>1. {[q |-> x.q, ecm |-> Ecm[q]] : x \in Entry(f)} = {[q |-> y.q, ecm |-> Ecm[q]]}
    BY <1>2
  <2>2. y.q \in Requests
    BY DEF SentOK
  <2>3. Cardinality({[q |-> y.q, ecm |-> Ecm[q]]}) = 1
    BY FS_Singleton
  <2>4. [q |-> y.q, ecm |-> Ecm[q]] \in [q : Requests, ecm : {Ecm[r] : r \in Requests}]
    BY <2>2
  <2>5. QED
    BY <2>1, <2>3, <2>4
<1>3. OneEntry
  BY DEF SentOK
<1>4. QED
  BY <1>1, <1>2, <1>3, EntryOnce

\* Messages of the server
LEMMA ReceiveTyped ==
  ASSUME Typed, NEW w \in wire,
         \/ ReceiveCw(w[1], w[2]) \/ ReceiveUnknownCw(w[1], w[2]) \/ ReceiveNull(w[1], w[2])
         \/ ReceiveEarlyNok(w[1], w[2])
         \/ \E nok1 \in BOOLEAN : ReceiveNok(w[1], w[2], nok1)
  PROVE  Typed'
<1> DEFINE f == w[1]
           q == w[2]
<1> USE Parts
<1>1. q \in Requests
  BY DEF SentOK
<1>2. \A x \in Entry(f) : x.q \in Requests /\ x.card \in Cards
  BY DEF SentOK, Entry
<1>3. Unlocked \in BOOLEAN
  BY DEF Unlocked, ConnOK
<1> HIDE DEF f, q
<1>4. ASSUME Takes(f, q), TakesEntry(f), SendNext
      PROVE  SentOK' /\ JobOK' /\ cardMsg' \in BOOLEAN
  BY <1>4 DEF Takes, TakesEntry, SendNext, SentOK, JobOK, OneEntry
<1>5. ASSUME blocked' = blocked \/ blocked' = blocked \cup {<<x.card, Ecm[x.q]>> : x \in Entry(f)},
             cards' = cards, cardMsg' \in BOOLEAN
      PROVE  CardsOK'
  BY <1>2, <1>5 DEF CardsOK
<1>6. ASSUME ReceiveCw(f, q) PROVE Typed'
  <2>1. ConnOK'
    BY <1>3, <1>6 DEF ReceiveCw, ConnOK
  <2>2. SentOK' /\ JobOK' /\ CardsOK'
    BY <1>4, <1>5, <1>6 DEF ReceiveCw
  <2>3. CwOK'
    BY <1>1, <1>6, ReceivedCwType DEF ReceiveCw, CwOK
  <2>4. SlotsOK'
    BY <1>6 DEF ReceiveCw, SlotsOK
  <2>5. QED
    BY <2>1, <2>2, <2>3, <2>4, PartsPrimed
<1>7. ASSUME ReceiveUnknownCw(f, q) PROVE Typed'
  <2>1. ConnOK' /\ CardsOK' /\ SentOK' /\ JobOK'
    BY <1>7 DEF ReceiveUnknownCw, Down, Cut, SendNext, ConnOK, CardsOK, SentOK, JobOK, OneEntry
  <2>2. SlotsOK' /\ CwOK'
    BY <1>7 DEF ReceiveUnknownCw, Strands, SlotsOK, CwOK
  <2>3. QED
    BY <2>1, <2>2, PartsPrimed
<1>8. ASSUME ReceiveNull(f, q) PROVE Typed'
  <2>1. ConnOK'
    BY <1>3, <1>8 DEF ReceiveNull, ConnOK
  <2>2. SentOK' /\ JobOK' /\ CardsOK'
    BY <1>4, <1>5, <1>8 DEF ReceiveNull
  <2>3. SlotsOK' /\ CwOK'
    BY <1>8, SlotType DEF ReceiveNull, SlotsOK, CwOK
  <2>4. QED
    BY <2>1, <2>2, <2>3, PartsPrimed
<1>9. ASSUME ReceiveEarlyNok(f, q) PROVE Typed'
  <2>1. ConnOK' /\ CardsOK' /\ SentOK'
    BY <1>9 DEF ReceiveEarlyNok, Down, Cut, ConnOK, CardsOK, SentOK, OneEntry
  <2>2. SlotsOK'
    BY <1>9, SlotType DEF ReceiveEarlyNok, SlotsOK
  <2>3. CwOK' /\ JobOK'
    BY <1>9 DEF ReceiveEarlyNok, jobVars, CwOK, JobOK
  <2>4. QED
    BY <2>1, <2>2, <2>3, PartsPrimed
<1>10. ASSUME NEW nok1 \in BOOLEAN, ReceiveNok(f, q, nok1) PROVE Typed'
  <2>1. ConnOK'
    BY <1>3, <1>10 DEF ReceiveNok, ConnOK
  <2>2. SentOK' /\ JobOK' /\ CardsOK'
    BY <1>4, <1>5, <1>10 DEF ReceiveNok
  <2>3. slot' \in [Requests -> Slots]
    BY <1>10, SlotType DEF ReceiveNok, SlotsOK, Slots
  <2>4. SlotsOK' /\ CwOK'
    BY <1>10, <2>3 DEF ReceiveNok, SlotsOK, CwOK
  <2>5. QED
    BY <2>1, <2>2, <2>4, PartsPrimed
<1>11. QED
  BY <1>6, <1>7, <1>8, <1>9, <1>10 DEF f, q

LEMMA OtherTyped ==
  ASSUME Typed,
         \/ \E q \in Requests : Ask(q) \/ Grow(q)
         \/ ReceiveEmmAck \/ ReceivePartner \/ ReceiveOther
         \/ \E c \in Cards : NewCard(c) \/ CardRemoved(c)
         \/ AskEmm
         \/ \E b \in blocked : Reopen(b)
  PROVE  Typed'
<1> USE Parts
<1>1. ASSUME NEW q \in Requests, Ask(q) PROVE Typed'
  <2>1. slot' \in [Requests -> Slots]
    BY <1>1, SlotType DEF Ask, Slots
  <2>2. SlotsOK' /\ JobOK'
    BY <1>1, <2>1 DEF Ask, SlotsOK, JobOK
  <2>3. ConnOK' /\ CardsOK' /\ SentOK' /\ CwOK'
    BY <1>1 DEF Ask, connVars, cardVars, sentVars, ConnOK, CardsOK, SentOK, CwOK, OneEntry
  <2>4. QED
    BY <2>2, <2>3, PartsPrimed
<1>2. ASSUME NEW q \in Requests, Grow(q) PROVE Typed'
  <2>1. SlotsOK'
    BY <1>2 DEF Grow, SlotsOK
  <2>2. ConnOK' /\ CardsOK' /\ SentOK' /\ CwOK' /\ JobOK'
    BY <1>2 DEF Grow, connVars, cardVars, sentVars, jobVars, ConnOK, CardsOK, SentOK, CwOK,
                JobOK, OneEntry
  <2>3. QED
    BY <2>1, <2>2, PartsPrimed
<1>3. CASE ReceiveEmmAck \/ ReceivePartner \/ ReceiveOther \/ AskEmm
  <2>1. ConnOK'
    BY <1>3 DEF ReceiveEmmAck, ReceivePartner, ReceiveOther, AskEmm, Unlocked, ConnOK
  <2>2. CardsOK' /\ SentOK'
    BY <1>3 DEF ReceiveEmmAck, ReceivePartner, ReceiveOther, AskEmm, cardVars, sentVars, CardsOK,
                SentOK, OneEntry
  <2>3. SlotsOK' /\ CwOK' /\ JobOK'
    BY <1>3 DEF ReceiveEmmAck, ReceivePartner, ReceiveOther, AskEmm, jobVars, SendNext, SlotsOK,
                CwOK, JobOK
  <2>4. QED
    BY <2>1, <2>2, <2>3, PartsPrimed
<1>4. ASSUME NEW c \in Cards, NewCard(c) PROVE Typed'
  <2>1. ConnOK' /\ CardsOK'
    BY <1>4 DEF NewCard, ConnOK, CardsOK
  <2>2. SentOK' /\ SlotsOK' /\ CwOK' /\ JobOK'
    BY <1>4 DEF NewCard, sentVars, jobVars, SentOK, SlotsOK, CwOK, JobOK, OneEntry
  <2>3. QED
    BY <2>1, <2>2, PartsPrimed
<1>5. ASSUME NEW c \in Cards, CardRemoved(c) PROVE Typed'
  <2>1. SlotsOK'
    BY <1>5, SlotType DEF CardRemoved, SlotsOK
  <2>2. ConnOK' /\ CardsOK'
    BY <1>5 DEF CardRemoved, connVars, ConnOK, CardsOK
  <2>3. SentOK' /\ CwOK' /\ JobOK'
    BY <1>5 DEF CardRemoved, jobVars, SentOK, CwOK, JobOK, OneEntry
  <2>4. QED
    BY <2>1, <2>2, <2>3, PartsPrimed
<1>6. ASSUME NEW b \in blocked, Reopen(b) PROVE Typed'
  <2>1. CardsOK'
    BY <1>6 DEF Reopen, CardsOK
  <2>2. ConnOK' /\ SentOK' /\ SlotsOK' /\ CwOK' /\ JobOK'
    BY <1>6 DEF Reopen, connVars, sentVars, jobVars, ConnOK, SentOK, SlotsOK, CwOK, JobOK, OneEntry
  <2>3. QED
    BY <2>1, <2>2, PartsPrimed
<1>7. QED
  BY <1>1, <1>2, <1>3, <1>4, <1>5, <1>6

LEMMA NextTyped == Typed /\ [CccamNext]_cccamVars => Typed'
<1>1. SUFFICES ASSUME Typed, [CccamNext]_cccamVars PROVE Typed'
  OBVIOUS
<1>2. CASE UNCHANGED cccamVars
  BY <1>1, <1>2 DEF cccamVars, connVars, cardVars, sentVars, jobVars, Typed, CccamTypeOK, OneEntry
<1>3. CASE CccamNext
  BY <1>1, <1>3, ConnectionTyped, LoopSendsTyped, LoopTyped, SendTyped, DeliverTyped, ReceiveTyped,
     OtherTyped DEF CccamNext
<1>4. QED
  BY <1>1, <1>2, <1>3

\* struct cc_data and ecmtask: the fields keep their types, so the flag byte stays in its
\* range, and a CW is taken for one request at most.
THEOREM CccamTypeOKAlways == CccamSpec => []CccamTypeOK
<1>1. Typed => CccamTypeOK
  BY DEF Typed
<1>2. CccamInit => Typed
  BY InitTyped
<1>3. QED
  BY <1>1, <1>2, NextTyped, PTL DEF CccamSpec
-----------------------------------------------------------------------------
\* Answers

\* Without extended mode all messages have the number 1, which is the one Entry looks for.
FlagOne  == ~ext => \A w \in wire : w[1] = 1
\* The entry with the number of a message is about the request of the message.
Numbered == ~reused => \A x \in entries, w \in wire : w[1] = x.flag => w[2] = x.q
\* The CW in hand is for the request it was found for; between two jobs there is none.
CwRight  == ~reused => \A x, y \in cw : x = y /\ Ecm[x.q] = x.ecm
IdleNoCw == at = "idle" => cw = {}
\* A request that is marked as sent will be heard of, or its CW is in hand.
Heard ==
  ~reused => \A q \in Requests :
    slot[q] = "sent" /\ q \notin lost /\ age[q] = "new" =>
      \/ \E x \in entries : x.q = q /\ <<x.flag, q>> \in wire
      \/ \E x \in cw : x.q = q
Right == FlagOne /\ Numbered /\ CwRight /\ IdleNoCw /\ CwForItsRequest /\ Heard

LEMMA InitRight == CccamInit => Right
  BY DEF CccamInit, Right, FlagOne, Numbered, CwRight, IdleNoCw, CwForItsRequest, Heard

\* Requests may be answered, dropped or grow old, and the rest stays.
LEMMA FewerSent ==
  ASSUME Right, UNCHANGED <<entries, wire, cw, lost, reused, wrong>>, ext' = ext \/ ext' = TRUE,
         at' = "idle" => at = "idle",
         \A q \in Requests : /\ slot'[q] = "sent" => slot[q] = "sent"
                             /\ age'[q] = "new" => age[q] = "new"
  PROVE  Right'
  BY DEF Right, FlagOne, Numbered, CwRight, IdleNoCw, CwForItsRequest, Heard

\* Nothing is on the wire, and nothing waits for it.
LEMMA NothingSent ==
  ASSUME Right, wire' = {}, cw' = cw \/ cw' = {}, reused' = reused, wrong' => reused \/ wrong,
         at' = "idle" => at = "idle" \/ cw' = {},
         \A q \in Requests : slot'[q] = "sent" => q \in lost'
  PROVE  Right'
  BY DEF Right, FlagOne, Numbered, CwRight, IdleNoCw, CwForItsRequest, Heard

\* What Answered, ResetPending and DropLate do leaves no request sent that was not.
LEMMA NotSent ==
  ASSUME NEW q \in Requests
  PROVE  /\ \A Q : Answered(Q)[q] = "sent" => slot[q] = "sent"
         /\ \A Q : ResetPending(Q)[q] = "sent" => slot[q] = "sent" /\ q \notin Q
         /\ DropLate[q] = "sent" => slot[q] = "sent"
  BY DEF Answered, ResetPending, DropLate

\* Lost connections
LEMMA ConnectionRight ==
  ASSUME Typed, IInv, Right, IdleConnect \/ Break \/ SendConnects \/ SendCycles
  PROVE  Right'
<1>1. CASE IdleConnect \/ SendConnects
  <2>1. conn = "down" /\ wire = {} /\ UNCHANGED <<wire, age, reused, lost, wrong, cw>>
    BY <1>1 DEF IdleConnect, SendConnects, jobVars, Return, IInv, Ready, Asked
  <2>2. entries' = {} /\ (at' = "idle" => at = "idle")
    BY <1>1 DEF IdleConnect, SendConnects, jobVars, Return, Connects, ConnectFails
  <2>3. \A q \in Requests : slot'[q] = "sent" => slot[q] = "sent"
    BY <1>1, NotSent DEF IdleConnect, SendConnects
  <2>4. QED
    BY <2>1, <2>2, <2>3
       DEF Right, FlagOne, Numbered, CwRight, IdleNoCw, CwForItsRequest, Heard
<1>2. CASE Break
  <2>1. /\ wire' = {} /\ UNCHANGED <<cw, at, reused, wrong>>
        /\ \A q \in Requests : slot'[q] # "sent"
    BY <1>2 DEF Break, Closed, Cut, jobVars, InUse
  <2>2. QED
    BY <2>1, NothingSent
<1>3. CASE SendCycles
  <2>1. /\ wire' = {} /\ UNCHANGED <<cw, reused, wrong>> /\ at' # "idle"
        /\ \A q \in Requests : slot'[q] = "sent" => q \in lost'
    BY <1>3 DEF SendCycles, Cut, Strands, Return, Starts
  <2>2. QED
    BY <2>1, NothingSent
<1>4. QED
  BY <1>1, <1>2, <1>3

\* cc_send_ecm finds a number that the server has no message with, or the flag is reused.
LEMMA LoopSendsRight ==
  ASSUME Typed, Right, NEW q \in Requests, NEW c \in Cards, LoopSends(q, c)
  PROVE  Right'
<1>1. cw' = cw /\ lost' = lost /\ wrong' = wrong /\ age' = age /\ at' # "idle"
  BY DEF LoopSends, Return
<1>2. /\ reused => reused'
      /\ ~reused' => \A w \in wire : w[1] # NextFlag
  BY DEF LoopSends
<1>3. entries' = {x \in entries : x.flag # NextFlag} \cup {[flag |-> NextFlag, q |-> q, card |-> c]}
  BY DEF LoopSends
<1>4. CASE SendFails
  <2>1. wire' = {} /\ \A p \in Requests : slot'[p] # "sent"
    BY <1>4 DEF SendFails, InUse
  <2>2. QED
    BY <1>1, <1>2, <2>1
       DEF Right, FlagOne, Numbered, CwRight, IdleNoCw, CwForItsRequest, Heard
<1>5. CASE /\ slot' = [Answered(Due) EXCEPT ![q] = "sent"]
           /\ wire' = wire \cup {<<NextFlag, q>>}
           /\ UNCHANGED <<connVars, emm>>
  <2>1. FlagOne'
    BY <1>5 DEF connVars, NextFlag, Right, FlagOne
  <2>2. Numbered'
    BY <1>2, <1>3, <1>5 DEF Right, Numbered
  <2>3. CwRight' /\ IdleNoCw' /\ CwForItsRequest'
    BY <1>1, <1>2 DEF Right, CwRight, IdleNoCw, CwForItsRequest
  <2>4. ASSUME ~reused', NEW p \in Requests, slot'[p] = "sent", p \notin lost', age'[p] = "new"
        PROVE  \/ \E x \in entries' : x.q = p /\ <<x.flag, p>> \in wire'
               \/ \E x \in cw' : x.q = p
    <3>1. CASE p = q
      <4> DEFINE x == [flag |-> NextFlag, q |-> q, card |-> c]
      <4>1. x \in entries' /\ x.q = p /\ x.flag = NextFlag
        BY <1>3, <3>1
      <4>2. <<NextFlag, p>> \in wire'
        BY <1>5, <3>1
      <4>3. QED
        BY <4>1, <4>2
    <3>2. CASE p # q
      <4>1. slot[p] = "sent"
        BY <1>5, <2>4, <3>2, NotSent DEF Answered
      <4>2. \/ \E x \in entries : x.q = p /\ <<x.flag, p>> \in wire
            \/ \E x \in cw : x.q = p
        BY <1>1, <1>2, <2>4, <4>1 DEF Right, Heard
      <4>3. ASSUME NEW x \in entries, x.q = p, <<x.flag, p>> \in wire
            PROVE  x \in entries' /\ <<x.flag, p>> \in wire'
        BY <1>2, <1>3, <1>5, <2>4, <4>3
      <4>4. QED
        BY <1>1, <4>2, <4>3
    <3>3. QED
      BY <3>1, <3>2
  <2>5. Heard'
    BY <2>4 DEF Heard
  <2>6. QED
    BY <2>1, <2>2, <2>3, <2>5 DEF Right
<1>6. QED
  BY <1>4, <1>5 DEF LoopSends

\* The rest of cc_send_ecm
LEMMA SendRight ==
  ASSUME Typed, Right,
         \/ SendWaitsForCards \/ SendWaitsForAnswer \/ SendStarts
         \/ LoopEnds \/ LoopSendsEmm \/ \E q \in Requests : LoopNoCard(q)
  PROVE  Right'
<1>1. CASE SendWaitsForCards \/ SendWaitsForAnswer \/ SendStarts
  <2>1. /\ UNCHANGED <<entries, wire, cw, lost, reused, wrong, ext, slot, age>> /\ at' # "idle"
    BY <1>1 DEF SendWaitsForCards, SendWaitsForAnswer, SendStarts, Return, Starts, connVars, sentVars
  <2>2. QED
    BY <2>1, FewerSent
<1>2. CASE LoopEnds
  <2>1. /\ UNCHANGED <<entries, wire, cw, lost, reused, wrong, ext, age>> /\ at' # "idle"
        /\ slot' = Answered(Due)
    BY <1>2 DEF LoopEnds, Return, sentVars
  <2>2. QED
    BY <2>1, NotSent, FewerSent
<1>3. CASE LoopSendsEmm
  <2>1. /\ UNCHANGED <<entries, cw, lost, reused, wrong, age>> /\ at' # "idle"
    BY <1>3 DEF LoopSendsEmm, Return
  <2>2. CASE slot' = Answered(Due) /\ UNCHANGED <<ext, wire>>
    BY <2>1, <2>2, NotSent, FewerSent
  <2>3. CASE SendFails
    <3>1. wire' = {} /\ \A p \in Requests : slot'[p] # "sent"
      BY <2>3 DEF SendFails, InUse
    <3>2. QED
      BY <2>1, <3>1, NothingSent
  <2>4. QED
    BY <1>3, <2>2, <2>3 DEF LoopSendsEmm
<1>4. ASSUME NEW q \in Requests, LoopNoCard(q) PROVE Right'
  <2>1. /\ UNCHANGED <<entries, wire, cw, lost, reused, wrong, ext, age, at>>
        /\ \E s \in {"waiting", "done"} : slot' = [Answered(Due) EXCEPT ![q] = s]
    BY <1>4 DEF LoopNoCard, connVars, sentVars, jobVars
  <2>2. \A p \in Requests : slot'[p] = "sent" => slot[p] = "sent"
    BY <2>1, NotSent DEF Answered
  <2>3. QED
    BY <2>1, <2>2, FewerSent
<1>5. QED
  BY <1>1, <1>2, <1>3, <1>4

\* casc_check_dcw: who gets the CW asks for the ECM it was found for.
LEMMA DeliverRight == ASSUME Typed, Right, Deliver PROVE Right'
<1> DEFINE found == {x \in cw : InUse(x.q) \/ slot[x.q] = "dropped"}
           given == {q \in Requests : InUse(q) /\ \E x \in found : Ecm[q] = Ecm[x.q]}
<1>1. /\ slot' = [q \in Requests |-> IF q \in given THEN "done"
                                     ELSE IF found # {} THEN DropLate[q] ELSE slot[q]]
      /\ wrong' = (wrong \/ \E q \in given, x \in cw : Ecm[q] # x.ecm)
      /\ cw' = {} /\ age' = age
  BY DEF Deliver
<1>2. wrong' => reused \/ wrong
  BY <1>1 DEF Right, CwRight
<1>3. ASSUME NEW q \in Requests, slot'[q] = "sent" PROVE slot[q] = "sent" /\ ~\E x \in cw : x.q = q
  <2>1. q \notin given /\ slot[q] = "sent"
    BY <1>1, <1>3, NotSent
  <2>2. InUse(q)
    BY <2>1 DEF InUse
  <2>3. QED
    BY <2>1, <2>2
<1> HIDE DEF found, given
<1>4. CASE UNCHANGED <<connVars, cardVars, sentVars, emm, lost>>
  <2>1. UNCHANGED <<ext, entries, wire, reused, lost>>
    BY <1>4 DEF connVars, sentVars
  <2>2. QED
    BY <1>1, <1>2, <1>3, <2>1
       DEF Right, FlagOne, Numbered, CwRight, IdleNoCw, CwForItsRequest, Heard
<1>5. CASE Cut /\ Strands
  <2>1. wire' = {} /\ reused' = reused /\ lost' = lost \cup {q \in Requests : slot[q] = "sent"}
    BY <1>5 DEF Cut, Strands
  <2>2. QED
    BY <1>1, <1>2, <1>3, <2>1, NothingSent
<1>6. QED
  BY <1>4, <1>5 DEF Deliver

\* An answer: who waits for another message waits on, as its entry has another number.
LEMMA TakesRight ==
  ASSUME Typed, Right, NEW f, NEW q, Takes(f, q), TakesEntry(f), ext' = ext,
         lost' = lost, wrong' = wrong, age' = age, at' # "idle",
         cw' = {} \/ cw' = {[q |-> x.q, ecm |-> Ecm[q]] : x \in Entry(f)},
         \A p \in Requests : slot'[p] = "sent" /\ age'[p] = "new" =>
            slot[p] = "sent" /\ \A x \in Entry(f) : x.q = p => \E y \in cw' : y.q = p
  PROVE  Right'
<1>1. at = "idle" /\ <<f, q>> \in wire /\ wire' = wire \ {<<f, q>>} /\ reused' = reused
  BY DEF Takes
<1>2. entries' = entries \ Entry(f)
  BY DEF TakesEntry
<1>3. cw = {}
  BY <1>1 DEF Right, IdleNoCw
<1>4. \A x \in entries, p \in Requests : <<x.flag, p>> \in wire => (x \in Entry(f) <=> x.flag = f)
  BY <1>1 DEF Right, FlagOne, Entry
<1>5. FlagOne' /\ Numbered' /\ IdleNoCw' /\ CwForItsRequest'
  BY <1>1, <1>2 DEF Right, FlagOne, Numbered, IdleNoCw, CwForItsRequest
<1>6. CwRight'
  <2>1. \A x \in Entry(f) : x \in entries /\ x.flag = f
    BY <1>1 DEF Right, FlagOne, Entry
  <2>2. ASSUME ~reused, NEW x \in Entry(f) PROVE x.q = q
    BY <1>1, <2>1, <2>2 DEF Right, Numbered
  <2>3. \A x, y \in Entry(f) : x = y
    BY <2>1 DEF Typed, OneEntry
  <2>4. QED
    BY <1>1, <2>2, <2>3 DEF CwRight
<1>7. ASSUME ~reused', NEW p \in Requests, slot'[p] = "sent", p \notin lost', age'[p] = "new"
      PROVE  \/ \E x \in entries' : x.q = p /\ <<x.flag, p>> \in wire'
             \/ \E x \in cw' : x.q = p
  <2>1. PICK x \in entries : x.q = p /\ <<x.flag, p>> \in wire
    BY <1>1, <1>3, <1>7 DEF Right, Heard
  <2>2. CASE x \in Entry(f)
    BY <1>7, <2>1, <2>2
  <2>3. CASE x \notin Entry(f)
    BY <1>1, <1>2, <1>4, <2>1, <2>3
  <2>4. QED
    BY <2>2, <2>3
<1>8. Heard'
  BY <1>7 DEF Heard
<1>9. QED
  BY <1>5, <1>6, <1>8 DEF Right

LEMMA ReceiveRight ==
  ASSUME Typed, Right, NEW w \in wire,
         \/ ReceiveCw(w[1], w[2]) \/ ReceiveUnknownCw(w[1], w[2]) \/ ReceiveNull(w[1], w[2])
         \/ ReceiveEarlyNok(w[1], w[2])
         \/ \E nok1 \in BOOLEAN : ReceiveNok(w[1], w[2], nok1)
  PROVE  Right'
<1> DEFINE f == w[1]
           q == w[2]
<1> HIDE DEF f, q
<1>1. ASSUME ReceiveCw(f, q) PROVE Right'
  <2>1. /\ Takes(f, q) /\ TakesEntry(f) /\ UNCHANGED <<ext, lost, wrong, age, slot>>
        /\ at' # "idle" /\ cw' = {[q |-> x.q, ecm |-> Ecm[q]] : x \in Entry(f)}
    BY <1>1 DEF ReceiveCw, SendNext
  <2>2. ASSUME NEW x \in Entry(f) PROVE \E y \in cw' : y.q = x.q
    <3> DEFINE y == [q |-> x.q, ecm |-> Ecm[q]]
    <3>1. y \in cw' /\ y.q = x.q
      BY <2>1
    <3>2. QED
      BY <3>1
  <2>3. cw' = {} \/ cw' = {[q |-> x.q, ecm |-> Ecm[q]] : x \in Entry(f)}
    BY <2>1
  <2>4. QED
    BY <2>1, <2>2, <2>3, TakesRight
<1>2. ASSUME ReceiveUnknownCw(f, q) PROVE Right'
  <2>1. /\ wire' = {} /\ UNCHANGED <<cw, reused, wrong, slot>> /\ at' # "idle"
        /\ lost' = lost \cup {p \in Requests : slot[p] = "sent"}
    BY <1>2 DEF ReceiveUnknownCw, Cut, Strands, SendNext
  <2>2. QED
    BY <2>1, NothingSent
<1>3. ASSUME ReceiveNull(f, q) PROVE Right'
  <2>1. /\ Takes(f, q) /\ TakesEntry(f) /\ UNCHANGED <<ext, lost, wrong, age, cw>> /\ at' # "idle"
        /\ slot' = ResetPending({x.q : x \in Entry(f)})
    BY <1>3 DEF ReceiveNull, SendNext
  <2>2. cw' = {}
    BY <2>1 DEF Takes, Right, IdleNoCw
  <2>3. QED
    BY <2>1, <2>2, NotSent, TakesRight
<1>4. ASSUME ReceiveEarlyNok(f, q) PROVE Right'
  <2>1. /\ wire' = {} /\ UNCHANGED <<cw, reused, wrong, at>> /\ \A p \in Requests : slot'[p] # "sent"
    BY <1>4 DEF ReceiveEarlyNok, Cut, jobVars, InUse
  <2>2. QED
    BY <2>1, NothingSent
<1>5. ASSUME NEW nok1 \in BOOLEAN, ReceiveNok(f, q, nok1) PROVE Right'
  <2> DEFINE known == {x.q : x \in Entry(f)}
             sent  == {p \in known : slot[p] = "sent"}
  <2>1. /\ Takes(f, q) /\ TakesEntry(f) /\ UNCHANGED <<ext, lost, wrong, age, cw>> /\ at' # "idle"
    BY <1>5 DEF ReceiveNok, SendNext
  <2>2. cw' = {}
    BY <2>1 DEF Takes, Right, IdleNoCw
  <2>3. slot' = IF nok1 \/ ext
                THEN [p \in Requests |->
                        IF p \in sent /\ age[p] # "late" THEN "done"
                        ELSE IF p \in sent /\ ~ext THEN "unsent" ELSE slot[p]]
                ELSE ResetPending(known)
    BY <1>5 DEF ReceiveNok
  <2>4. ASSUME NEW p \in Requests, slot'[p] = "sent", age'[p] = "new"
        PROVE  slot[p] = "sent" /\ \A x \in Entry(f) : x.q # p
    <3>1. CASE nok1 \/ ext
      BY <2>1, <2>3, <2>4, <3>1
    <3>2. CASE ~(nok1 \/ ext)
      BY <2>3, <2>4, <3>2, NotSent
    <3>3. QED
      BY <3>1, <3>2
  <2>5. QED
    BY <2>1, <2>2, <2>4, TakesRight
<1>6. QED
  BY <1>1, <1>2, <1>3, <1>4, <1>5 DEF f, q

\* The other steps
LEMMA OtherRight ==
  ASSUME Typed, Right,
         \/ \E q \in Requests : Ask(q) \/ Grow(q)
         \/ ReceiveEmmAck \/ ReceivePartner \/ ReceiveOther
         \/ \E c \in Cards : NewCard(c) \/ CardRemoved(c)
         \/ AskEmm
         \/ \E b \in blocked : Reopen(b)
  PROVE  Right'
<1>1. ASSUME NEW q \in Requests, Ask(q) PROVE Right'
  <2>1. UNCHANGED <<entries, wire, cw, lost, reused, wrong, ext, age>> /\ (at' = "idle" => at = "idle")
    BY <1>1 DEF Ask, connVars, sentVars
  <2>2. \A p \in Requests : slot'[p] = "sent" => slot[p] = "sent"
    BY <1>1, NotSent DEF Ask
  <2>3. QED
    BY <2>1, <2>2, FewerSent
<1>2. ASSUME NEW q \in Requests, Grow(q) PROVE Right'
  <2>1. UNCHANGED <<entries, wire, cw, lost, reused, wrong, ext, slot, at>>
    BY <1>2 DEF Grow, connVars, sentVars, jobVars
  <2>2. \A p \in Requests : age'[p] = "new" => age[p] = "new"
    BY <1>2 DEF Grow, Typed, CccamTypeOK
  <2>3. QED
    BY <2>1, <2>2, FewerSent
<1>3. CASE ReceiveEmmAck \/ ReceiveOther \/ AskEmm \/ ReceivePartner
  <2>1. /\ UNCHANGED <<entries, wire, cw, lost, reused, wrong, slot, age>> /\ ext' \in {ext, TRUE}
        /\ (at' = "idle" => at = "idle")
    BY <1>3 DEF ReceiveEmmAck, ReceivePartner, ReceiveOther, AskEmm, SendNext, sentVars, jobVars
  <2>2. QED
    BY <2>1, FewerSent
<1>4. ASSUME NEW c \in Cards, NewCard(c) PROVE Right'
  <2>1. UNCHANGED <<entries, wire, cw, lost, reused, wrong, slot, age, ext, at>>
    BY <1>4 DEF NewCard, sentVars, jobVars
  <2>2. QED
    BY <2>1, FewerSent
<1>5. ASSUME NEW b \in blocked, Reopen(b) PROVE Right'
  <2>1. UNCHANGED <<entries, wire, cw, lost, reused, wrong, slot, age, ext, at>>
    BY <1>5 DEF Reopen, connVars, sentVars, jobVars
  <2>2. QED
    BY <2>1, FewerSent
<1>6. ASSUME NEW c \in Cards, CardRemoved(c) PROVE Right'
  <2>1. UNCHANGED <<wire, cw, lost, reused, wrong, age, ext, at>>
    BY <1>6 DEF CardRemoved, connVars, jobVars
  <2>2. /\ entries' = {x \in entries : x.card # c}
        /\ slot' = ResetPending({x.q : x \in {y \in entries : y.card = c}})
    BY <1>6 DEF CardRemoved
  <2>3. \A q \in Requests : slot'[q] = "sent" =>
          slot[q] = "sent" /\ \A x \in entries : x.q = q => x \in entries'
    BY <2>2, NotSent
  <2>4. Heard'
    BY <2>1, <2>3 DEF Right, Heard
  <2>5. QED
    BY <2>1, <2>2, <2>4 DEF Right, FlagOne, Numbered, CwRight, IdleNoCw, CwForItsRequest
<1>7. QED
  BY <1>1, <1>2, <1>3, <1>4, <1>5, <1>6

LEMMA NextRight == IInv /\ Typed /\ Right /\ [CccamNext]_cccamVars => Right'
<1>1. SUFFICES ASSUME IInv, Typed, Right, [CccamNext]_cccamVars PROVE Right'
  OBVIOUS
<1>2. CASE UNCHANGED cccamVars
  <2>1. UNCHANGED <<entries, wire, cw, lost, reused, wrong, slot, age, ext, at>>
    BY <1>2 DEF cccamVars, connVars, sentVars, jobVars
  <2>2. QED
    BY <1>1, <2>1, FewerSent
<1>3. CASE CccamNext
  BY <1>1, <1>3, ConnectionRight, LoopSendsRight, SendRight, DeliverRight, ReceiveRight,
     OtherRight DEF CccamNext
<1>4. QED
  BY <1>1, <1>2, <1>3

LEMMA RightAlways == CccamSpec => []Right
<1>1. CccamInit => Typed
  BY InitTyped
<1>2. QED
  BY <1>1, InitIInv, InitRight, NextIInv, NextTyped, NextRight, PTL DEF CccamSpec

\* casc_check_dcw, cc_recv_chk and get_extended_ecm_idx: whatever messages come back in
\* whatever order, over lost connections and removed cards, only a number that was used
\* again can bring a request the CW of another ECM.
THEOREM CwForItsRequestAlways == CccamSpec => []CwForItsRequest
<1>1. Right => CwForItsRequest
  BY DEF Right
<1>2. QED
  BY RightAlways, <1>1, PTL

\* cc_send_ecm, cc_reset_pending and cc_cycle_connection: a request that is marked as sent
\* has a message under way and an entry its answer will find, unless the connection was
\* cycled under it.
THEOREM SentIsHeardOfAlways == CccamSpec => []SentIsHeardOf
<1>1. Right => SentIsHeardOf
  BY DEF Right, Heard, SentIsHeardOf
<1>2. QED
  BY RightAlways, <1>1, PTL
=============================================================================
