---------------------------- MODULE CccamReader ----------------------------
(***************************************************************************)
(* The reader of a CCcam server (module-cccam.c): requests wait in the     *)
(* table of ECMs under way and go out one at a time, in extended mode all  *)
(* at once, numbered by the flag byte of the message.                      *)
(*                                                                         *)
(* All of it runs in the work thread of the reader's client, one job after *)
(* the other; cc_send_ecm is at = "send" and its loop at = "loop", so that *)
(* time may pass between its rounds.  Requests are numbered by the second  *)
(* of their er->tps.  A card that is moved to the end of the list stays    *)
(* the card of the other entries that name it (move_card_to_end sets it to *)
(* NULL there), and the unknown command 0E, on which the connection is     *)
(* cycled, is left out.                                                    *)
(***************************************************************************)
EXTENDS Naturals, FiniteSets

CONSTANTS
  Requests,   \* the numbers of the requests
  Ecm,        \* Ecm[q]: the ECM (caid and md5) of q
  Cards,      \* the cards the server may share
  Serves,     \* the pairs of a card and an ECM it matches (get_matching_card)
  MaxFlag,    \* the last number of a message in extended mode: 255
  NoCard, NoRequest

ASSUME CccamAssumption ==
  /\ Requests \subseteq Nat
  /\ NoRequest \notin Requests
  /\ NoCard \notin Cards
  /\ MaxFlag \in Nat \ {0}

VARIABLES
  \* struct cc_data and s_reader
  conn,      \* tcp_connected: "down" (0), "login" (1), "cards" (2)
  ext,       \* extended_mode
  busy,      \* ecm_busy
  fresh,     \* just_logged_in
  cardMsg,   \* last_msg is about a card
  cards,     \* the shared cards
  blocked,   \* the badsids: pairs of a card and an ECM
  flag,      \* server_ecm_idx
  entries,   \* extended_ecm_idx: records of a flag, a request and a card
  emm,       \* an EMM: "none", "pending" or "sent"
  \* ecmtask
  slot,      \* slot[q]: "none", "unsent", "sent", "waiting", "dropped" or "done"
  age,       \* age[q]: "new", "due" (ctimeout + 500 ms), "late" (one second more)
  \* the work thread
  at,        \* "idle", "send" (cc_send_ecm), "loop", or "deliver" (casc_check_dcw)
  er,        \* the request casc_process_ecm sends
  card,      \* cc_send_ecm: card
  cw,        \* a received CW: the request it is taken for, and its ECM
  \* the server
  wire,      \* what it was sent on this connection and has not answered
  \* history
  lost,      \* requests that were sent on a connection that was cycled
  reused,    \* a flag was used again while the server held the last message with it
  wrong      \* the request of a slot was given the CW of another ECM

connVars == <<conn, ext, busy, fresh>>
cardVars == <<cardMsg, cards, blocked>>
sentVars == <<flag, entries, wire, reused>>
jobVars  == <<at, er, card, cw>>
cccamVars == <<connVars, cardVars, sentVars, emm, slot, age, jobVars, lost, wrong>>

InUse(q) == slot[q] \in {"unsent", "sent", "waiting"}

\* write_ecm_answer frees the slot of the requests in Q, unless they are too late for it.
Answered(Q) == [q \in Requests |-> IF q \in Q /\ InUse(q) /\ age[q] # "late" THEN "done" ELSE slot[q]]

\* cc_reset_pending: the requests in Q are to be sent again.
ResetPending(Q) == [q \in Requests |-> IF q \in Q /\ slot[q] = "sent" THEN "unsent" ELSE slot[q]]

\* casc_process_ecm and casc_check_dcw drop what is too old, but leave the idx in the slot.
DropLate == [q \in Requests |-> IF InUse(q) /\ age[q] = "late" THEN "dropped" ELSE slot[q]]

-----------------------------------------------------------------------------
\* Connections

\* What is on the wire, and an EMM among it, goes with the connection.
Cut == wire' = {} /\ emm' = (IF emm = "sent" THEN "none" ELSE emm) /\ UNCHANGED <<flag, reused>>

\* cc_cli_close without closing the slots: those that were sent stay so.
Down == conn' = "down" /\ busy' = FALSE /\ fresh' = FALSE /\ UNCHANGED ext
Strands == lost' = lost \cup {q \in Requests : slot[q] = "sent"}

\* cc_cli_close with conclose: network_tcp_connection_close frees all slots.
Closed ==
  /\ Down /\ Cut /\ UNCHANGED <<cardVars, entries, lost>>
  /\ slot' = [q \in Requests |-> IF InUse(q) THEN "done" ELSE slot[q]]

\* cc_cli_connect, which forgets cards and entries first.
Connects(isBusy) ==
  /\ conn' = "login" /\ ext' = FALSE /\ busy' = isBusy /\ fresh' = TRUE
  /\ cards' = {} /\ blocked' = {} /\ entries' = {} /\ UNCHANGED cardMsg
ConnectFails ==
  /\ Down
  /\ cards' = {} /\ blocked' = {} /\ entries' = {} /\ UNCHANGED cardMsg

\* cc_idle keeps the connection open.
IdleConnect ==
  /\ at = "idle" /\ conn = "down"
  /\ Connects(FALSE) \/ ConnectFails
  /\ UNCHANGED <<flag, wire, reused, emm, slot, age, jobVars, lost, wrong>>

\* The server closes, a message cannot be received, or nothing came for too long.
Break ==
  /\ at = "idle" /\ conn # "down"
  /\ Closed
  /\ UNCHANGED <<age, jobVars, wrong>>

-----------------------------------------------------------------------------
\* casc_process_ecm and cc_send_ecm

\* casc_process_ecm: a request whose ECM is under way already is not sent; it may take
\* the slot of one that was dropped.
Double(q) == \E p \in Requests : InUse(p) /\ age[p] # "late" /\ Ecm[p] = Ecm[q]
Ask(q) ==
  /\ at = "idle" /\ slot[q] = "none"
  /\ \A p \in Requests : p < q => slot[p] # "none"
  /\ \E p \in Requests \cup {NoRequest} :
       slot' = [r \in Requests |-> IF r = q THEN "unsent"
                                   ELSE IF r = p /\ DropLate[r] = "dropped" THEN "done" ELSE DropLate[r]]
  /\ IF Double(q) THEN UNCHANGED <<at, er>> ELSE at' = "send" /\ er' = q
  /\ UNCHANGED <<connVars, cardVars, sentVars, emm, age, card, cw, lost, wrong>>

\* cc_send_ecm is left.
Return == at' = "deliver" /\ er' = NoRequest /\ card' = NoCard /\ UNCHANGED cw
Starts == at' = "loop" /\ er' = NoRequest /\ card' = NoCard /\ UNCHANGED cw

SendConnects ==
  /\ at = "send" /\ conn = "down"
  /\ \/ Connects(FALSE) /\ UNCHANGED <<slot, jobVars>>
     \/ ConnectFails /\ slot' = Answered({er}) /\ Return
  /\ UNCHANGED <<flag, wire, reused, emm, age, lost, wrong>>

SendWaitsForCards ==
  /\ at = "send" /\ conn # "down" /\ (conn = "login" \/ cards = {})
  /\ Return
  /\ UNCHANGED <<connVars, cardVars, sentVars, emm, slot, age, lost, wrong>>

\* Another ECM is under way, for not too long.
SendWaitsForAnswer ==
  /\ at = "send" /\ conn = "cards" /\ cards # {} /\ ~ext /\ busy
  /\ fresh' = FALSE
  /\ Return
  /\ UNCHANGED <<conn, ext, busy, cardVars, sentVars, emm, slot, age, lost, wrong>>

\* It has been under way too long (cc_request_timeout): cc_cycle_connection.
SendCycles ==
  /\ at = "send" /\ conn = "cards" /\ cards # {} /\ ~ext /\ busy
  /\ \/ Connects(TRUE) /\ Starts
     \/ ConnectFails /\ Return
  /\ Cut /\ Strands
  /\ UNCHANGED <<slot, age, wrong>>

\* Mutant of SendStarts: ecm_busy is not tested.
SendStartsBlind ==
  /\ at = "send" /\ conn = "cards" /\ cards # {}
  /\ fresh' = FALSE /\ busy' = (IF ext THEN busy ELSE TRUE)
  /\ Starts
  /\ UNCHANGED <<conn, ext, cardVars, sentVars, emm, slot, age, lost, wrong>>
SendStarts ==
  /\ at = "send" /\ conn = "cards" /\ cards # {} /\ (ext \/ ~busy)
  /\ fresh' = FALSE /\ busy' = (IF ext THEN busy ELSE TRUE)
  /\ Starts
  /\ UNCHANGED <<conn, ext, cardVars, sentVars, emm, slot, age, lost, wrong>>

\* cc_get_nxt_ecm: what is due is answered with a timeout; of the others that are not
\* sent the one made last is next.  (In extended mode it looks for the same ECM in
\* another slot, but compares the addresses of the digests.)
Due == {q \in Requests : age[q] = "due"}
Unsent == {q \in Requests : slot[q] = "unsent" /\ age[q] = "new"}
IsNext(q) == q \in Unsent /\ \A p \in Unsent : p <= q

\* The cards that match; in a later round of the loop the last card is still there.
Matching(q) ==
  IF card # NoCard THEN {card} ELSE {c \in cards : <<c, Ecm[q]>> \in Serves \ blocked}

\* cc_cmd_send fails, and closes the connection.
SendFails ==
  /\ Down /\ wire' = {} /\ slot' = [q \in Requests |-> IF InUse(q) THEN "done" ELSE slot[q]]

\* Mutant of LoopEnds: ecm_busy is not reset.
LoopEndsLocked ==
  /\ at = "loop" /\ Unsent = {} /\ (emm = "pending" => conn = "down")
  /\ slot' = Answered(Due)
  /\ emm' = (IF emm = "pending" THEN "none" ELSE emm)
  /\ fresh' = (IF emm = "pending" THEN FALSE ELSE fresh)
  /\ Return
  /\ UNCHANGED <<conn, ext, busy, cardVars, sentVars, age, lost, wrong>>
\* Nothing to send any more: an EMM may go.
LoopEnds ==
  /\ at = "loop" /\ Unsent = {} /\ (emm = "pending" => conn = "down")
  /\ slot' = Answered(Due)
  /\ emm' = (IF emm = "pending" THEN "none" ELSE emm)
  /\ fresh' = (IF emm = "pending" THEN FALSE ELSE fresh)
  /\ busy' = (IF ext THEN busy ELSE emm = "pending")
  /\ Return
  /\ UNCHANGED <<conn, ext, cardVars, sentVars, age, lost, wrong>>

LoopSendsEmm ==
  /\ at = "loop" /\ Unsent = {} /\ emm = "pending" /\ conn # "down"
  /\ \/ /\ slot' = Answered(Due) /\ emm' = "sent" /\ fresh' = FALSE
        /\ busy' = (IF ext THEN busy ELSE TRUE)
        /\ UNCHANGED <<conn, ext, wire>>
     \/ SendFails /\ emm' = "none"
  /\ Return
  /\ UNCHANGED <<cardVars, flag, entries, reused, age, lost, wrong>>

\* Mutant of NextFlag: it does not begin again.
NextFlagWide == IF ext THEN flag + 1 ELSE 1
\* An ECM goes to a card; in extended mode the loop goes on.
NextFlag == IF ext THEN (flag % MaxFlag) + 1 ELSE 1
LoopSends(q, c) ==
  /\ at = "loop" /\ conn # "down" /\ IsNext(q) /\ c \in Matching(q)
  /\ flag' = (IF ext THEN NextFlag ELSE flag)
  /\ entries' = {x \in entries : x.flag # NextFlag} \cup {[flag |-> NextFlag, q |-> q, card |-> c]}
  /\ reused' = (reused \/ \E w \in wire : w[1] = NextFlag)
  /\ \/ /\ slot' = [Answered(Due) EXCEPT ![q] = "sent"]
        /\ wire' = wire \cup {<<NextFlag, q>>}
        /\ UNCHANGED <<connVars, emm>>
     \/ SendFails /\ emm' = (IF emm = "sent" THEN "none" ELSE emm)
  /\ IF ext THEN card' = c /\ UNCHANGED <<at, er, cw>> ELSE Return
  /\ UNCHANGED <<cardVars, age, lost, wrong>>

\* No card: not found, or, while cards are on their way, marked as waiting.
LoopNoCard(q) ==
  /\ at = "loop" /\ IsNext(q) /\ Matching(q) = {}
  /\ slot' = [Answered(Due) EXCEPT ![q] = IF cardMsg \/ fresh THEN "waiting" ELSE "done"]
  /\ UNCHANGED <<connVars, cardVars, sentVars, emm, age, jobVars, lost, wrong>>

\* casc_check_dcw, called for a CW when cc_recv_chk has found its slot: the requests for
\* the same ECM get it.  When the server allows max_ecms only, the connection was cycled.
Deliver ==
  /\ at = "deliver"
  /\ LET found == {x \in cw : InUse(x.q) \/ slot[x.q] = "dropped"}
         given == {q \in Requests : InUse(q) /\ \E x \in found : Ecm[q] = Ecm[x.q]} IN
       /\ slot' = [q \in Requests |-> IF q \in given THEN "done"
                                      ELSE IF found # {} THEN DropLate[q] ELSE slot[q]]
       /\ wrong' = (wrong \/ \E q \in given, x \in cw : Ecm[q] # x.ecm)
  /\ \/ UNCHANGED <<connVars, cardVars, sentVars, emm, lost>>
     \/ /\ cw # {} /\ (Connects(FALSE) \/ ConnectFails)
        /\ Cut /\ Strands
  /\ at' = "idle" /\ cw' = {} /\ UNCHANGED <<er, card, age>>

-----------------------------------------------------------------------------
\* Messages of the server (cc_parse_msg)

\* A message has come in: the answer to q's ECM, which was sent with flag f.
Takes(f, q) ==
  /\ at = "idle" /\ <<f, q>> \in wire
  /\ wire' = wire \ {<<f, q>>}
  /\ cardMsg' = FALSE
  /\ UNCHANGED <<flag, reused>>
\* Mutant of Entry: the flag is not looked at in extended mode.
EntryOne(f) == {x \in entries : x.flag = 1}
\* get_extended_ecm_idx, which takes the entry out.
Entry(f)    == {x \in entries : x.flag = IF ext THEN f ELSE 1}
TakesEntry(f) == entries' = entries \ Entry(f)

\* The answer unlocks the connection, and cc_send_ecm is called.
Unlocked == IF ext THEN busy ELSE FALSE
SendNext == at' = "send" /\ er' = NoRequest /\ UNCHANGED card

\* A CW.  Without an entry the connection is closed, unless the mode is extended.
ReceiveCw(f, q) ==
  /\ Takes(f, q) /\ TakesEntry(f)
  /\ cw' = {[q |-> x.q, ecm |-> Ecm[q]] : x \in Entry(f)}
  /\ busy' = Unlocked /\ UNCHANGED <<conn, ext, fresh>>
  /\ Entry(f) # {} \/ ext
  /\ SendNext
  /\ UNCHANGED <<cards, blocked, emm, slot, age, lost, wrong>>

ReceiveUnknownCw(f, q) ==
  /\ at = "idle" /\ <<f, q>> \in wire /\ ~ext /\ Entry(f) = {}
  /\ Down /\ Cut /\ Strands
  /\ cardMsg' = FALSE /\ SendNext
  /\ UNCHANGED <<cards, blocked, entries, slot, age, cw, wrong>>

\* A null CW: the card is blocked for the service, and the request sent again.
ReceiveNull(f, q) ==
  /\ Takes(f, q) /\ Entry(f) # {} /\ TakesEntry(f)
  /\ blocked' = blocked \cup {<<x.card, Ecm[x.q]>> : x \in Entry(f)}
  /\ slot' = ResetPending({x.q : x \in Entry(f)})
  /\ busy' = Unlocked /\ UNCHANGED <<conn, ext, fresh>>
  /\ SendNext
  /\ UNCHANGED <<cards, emm, age, cw, lost, wrong>>

\* MSG_CW_NOK1 answers the request; after MSG_CW_NOK2 it goes to another card, but not in
\* extended mode.
ReceiveNok(f, q, nok1) ==
  /\ ~fresh
  /\ Takes(f, q) /\ TakesEntry(f)
  /\ LET known == {x.q : x \in Entry(f)}
         sent  == {p \in known : slot[p] = "sent"} IN
       slot' = IF nok1 \/ ext
               THEN [p \in Requests |->
                       IF p \in sent /\ age[p] # "late" THEN "done"
                       ELSE IF p \in sent /\ ~ext THEN "unsent" ELSE slot[p]]
               ELSE ResetPending(known)
  /\ blocked' \in {blocked} \cup
        (IF nok1 THEN {} ELSE {blocked \cup {<<x.card, Ecm[x.q]>> : x \in Entry(f)}})
  /\ busy' = Unlocked /\ UNCHANGED <<conn, ext, fresh>>
  /\ SendNext
  /\ UNCHANGED <<cards, emm, age, cw, lost, wrong>>

\* A NOK right behind the log-in closes the connection.
ReceiveEarlyNok(f, q) ==
  /\ at = "idle" /\ <<f, q>> \in wire /\ fresh
  /\ Down /\ Cut /\ cardMsg' = FALSE
  /\ slot' = [p \in Requests |-> IF InUse(p) THEN "done" ELSE slot[p]]
  /\ UNCHANGED <<cards, blocked, entries, age, jobVars, lost, wrong>>

ReceiveEmmAck ==
  /\ at = "idle" /\ emm = "sent" /\ emm' = "none"
  /\ cardMsg' = FALSE
  /\ busy' = Unlocked /\ UNCHANGED <<conn, ext, fresh>>
  /\ SendNext
  /\ UNCHANGED <<cards, blocked, sentVars, slot, age, cw, lost, wrong>>

\* "PARTNER: ... [EXT]", before the server reports its cards.
ReceivePartner ==
  /\ at = "idle" /\ conn = "login" /\ ~cardMsg /\ wire = {} /\ emm # "sent"
  /\ ext' = TRUE /\ UNCHANGED <<conn, busy, fresh>>
  /\ UNCHANGED <<cardVars, sentVars, emm, slot, age, jobVars, lost, wrong>>

\* Any other message, a keepalive (which ends fresh) among them.
ReceiveOther ==
  /\ at = "idle" /\ conn # "down"
  /\ cardMsg' = FALSE /\ fresh' \in {fresh, FALSE} /\ UNCHANGED <<conn, ext, busy>>
  /\ UNCHANGED <<cards, blocked, sentVars, emm, slot, age, jobVars, lost, wrong>>

NewCard(c) ==
  /\ at = "idle" /\ conn # "down" /\ c \notin cards
  /\ conn' = "cards" /\ cards' = cards \cup {c} /\ cardMsg' = TRUE
  /\ UNCHANGED <<ext, busy, fresh, blocked, sentVars, emm, slot, age, jobVars, lost, wrong>>

\* Mutant of CardRemoved: cc_reset_pending is not called.
CardRemovedOnly(c) ==
  /\ at = "idle" /\ conn # "down" /\ c \in cards
  /\ cards' = cards \ {c} /\ cardMsg' = TRUE
  /\ blocked' = {b \in blocked : b[1] # c}
  /\ entries' = {x \in entries : x.card # c}
  /\ UNCHANGED <<connVars, flag, wire, reused, emm, slot, age, jobVars, lost, wrong>>
\* cc_card_removed: what was sent to the card is to be sent again.
CardRemoved(c) ==
  /\ at = "idle" /\ conn # "down" /\ c \in cards
  /\ cards' = cards \ {c} /\ cardMsg' = TRUE
  /\ blocked' = {b \in blocked : b[1] # c}
  /\ entries' = {x \in entries : x.card # c}
  /\ slot' = ResetPending({x.q : x \in {y \in entries : y.card = c}})
  /\ UNCHANGED <<connVars, flag, wire, reused, emm, age, jobVars, lost, wrong>>

-----------------------------------------------------------------------------
\* cc_send_emm, time

AskEmm ==
  /\ at = "idle" /\ emm = "none" /\ conn = "cards" /\ cards # {}
  /\ IF ~ext /\ busy
     THEN emm' = "pending" /\ UNCHANGED <<busy, fresh>>
     ELSE emm' = "sent" /\ fresh' = FALSE /\ busy' = (IF ext THEN busy ELSE TRUE)
  /\ UNCHANGED <<conn, ext, cardVars, sentVars, slot, age, jobVars, lost, wrong>>

\* reopen_sids, called before a card is chosen.
Reopen(b) ==
  /\ at = "loop" /\ blocked' = blocked \ {b}
  /\ UNCHANGED <<connVars, cardMsg, cards, sentVars, emm, slot, age, jobVars, lost, wrong>>

Grow(q) ==
  /\ InUse(q) /\ age[q] # "late"
  /\ age' = [age EXCEPT ![q] = IF age[q] = "new" THEN "due" ELSE "late"]
  /\ UNCHANGED <<connVars, cardVars, sentVars, emm, slot, jobVars, lost, wrong>>

-----------------------------------------------------------------------------
CccamInit ==
  /\ conn = "down" /\ ext = FALSE /\ busy = FALSE /\ fresh = FALSE
  /\ cardMsg = FALSE /\ cards = {} /\ blocked = {}
  /\ flag = 0 /\ entries = {} /\ wire = {} /\ reused = FALSE
  /\ emm = "none"
  /\ slot = [q \in Requests |-> "none"] /\ age = [q \in Requests |-> "new"]
  /\ at = "idle" /\ er = NoRequest /\ card = NoCard /\ cw = {}
  /\ lost = {} /\ wrong = FALSE

CccamNext ==
  \/ IdleConnect \/ Break \/ Deliver
  \/ \E q \in Requests : Ask(q) \/ LoopNoCard(q) \/ Grow(q)
  \/ SendConnects \/ SendWaitsForCards \/ SendWaitsForAnswer \/ SendCycles \/ SendStarts
  \/ LoopEnds \/ LoopSendsEmm
  \/ \E q \in Requests, c \in Cards : LoopSends(q, c)
  \/ \E w \in wire :
       \/ ReceiveCw(w[1], w[2]) \/ ReceiveUnknownCw(w[1], w[2]) \/ ReceiveNull(w[1], w[2])
       \/ ReceiveEarlyNok(w[1], w[2])
       \/ \E nok1 \in BOOLEAN : ReceiveNok(w[1], w[2], nok1)
  \/ ReceiveEmmAck \/ ReceivePartner \/ ReceiveOther
  \/ \E c \in Cards : NewCard(c) \/ CardRemoved(c)
  \/ AskEmm
  \/ \E b \in blocked : Reopen(b)

CccamSpec == CccamInit /\ [][CccamNext]_cccamVars

-----------------------------------------------------------------------------
\* Type invariant of the reader, its requests and what the server has.
CccamTypeOK ==
  /\ conn \in {"down", "login", "cards"} /\ {ext, busy, fresh, cardMsg, reused, wrong} \subseteq BOOLEAN
  /\ cards \subseteq Cards /\ blocked \subseteq Cards \X {Ecm[q] : q \in Requests}
  /\ flag \in 0 .. MaxFlag
  /\ entries \subseteq [flag : 1 .. MaxFlag, q : Requests, card : Cards]
  /\ wire \subseteq (1 .. MaxFlag) \X Requests
  /\ emm \in {"none", "pending", "sent"}
  /\ slot \in [Requests -> {"none", "unsent", "sent", "waiting", "dropped", "done"}]
  /\ age \in [Requests -> {"new", "due", "late"}]
  /\ at \in {"idle", "send", "loop", "deliver"}
  /\ er \in Requests \cup {NoRequest} /\ card \in Cards \cup {NoCard}
  /\ cw \subseteq [q : Requests, ecm : {Ecm[q] : q \in Requests}] /\ Cardinality(cw) <= 1
  /\ lost \subseteq Requests

\* cc_send_ecm: a server without extended mode is sent one ECM or EMM at a time, also
\* across lost connections, removed cards and answers that are not expected.
OneAtATime == ~ext => (emm = "sent" => wire = {}) /\ \A v, w \in wire : v = w

\* The lock is given back: unless cc_send_ecm is at work, ecm_busy is set only while
\* the server has something to answer.
NotStuck == ~ext /\ busy /\ at # "loop" => wire # {} \/ emm = "sent"

\* casc_check_dcw gives the CW of an ECM to the requests for it, until all flags are in
\* use and one is used again.
CwForItsRequest == wrong => reused

\* A request that is marked as sent will be heard of: the server has it, and its answer
\* will find the entry; but not if the connection was cycled under it, its time is over,
\* or its flag was used again.
SentIsHeardOf ==
  \A q \in Requests : slot[q] = "sent" /\ q \notin lost /\ age[q] = "new" /\ ~reused /\ cw = {} =>
    \E x \in entries : x.q = q /\ <<x.flag, q>> \in wire

\* cc_send_ecm, of a request without a card while cards arrive: "we wait for a new card
\* and process die ecm later".  When it has nothing to send there is no such request left
\* that a card matches.
WaitingProcessed ==
  [][LoopEnds => ~\E q \in Requests : slot[q] = "waiting" /\ age[q] = "new" /\
                     \E c \in cards : <<c, Ecm[q]>> \in Serves \ blocked]_cccamVars
=============================================================================
