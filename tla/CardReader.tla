----------------------------- MODULE CardReader -----------------------------
(***************************************************************************)
(* A local reader and its card (reader-common.c): card_status, the health  *)
(* checks that notice a card put in or taken out, and the reset jobs that  *)
(* initialise a card, which wait in the reader's job queue behind ECMs and *)
(* further health checks.                                                  *)
(*                                                                         *)
(* Jobs run in the reader's work thread one after the other (WorkQueue),   *)
(* so each is a step; the card comes and goes at any time.                 *)
(***************************************************************************)
EXTENDS Naturals, Sequences

CONSTANTS
  Systems,      \* card systems of the card: "videoguard", "conax", "other"
  Devices,      \* kinds of device: "azbox", and "plain" for all others
  StatusEvery,  \* the device is asked at each so many-th look: 6 for R_SMART with four
                \* ports (smartdev_found >= 4), else 1
  ResetCycle,   \* the reader's resetcycle
  JobsLate,     \* jobs may wait for longer than ctimeout + 1 s
  Flaky,        \* a card that works may fail to be activated
  MaxJobs       \* bound: jobs in the queue that others have added

ASSUME CardAssumption ==
  /\ StatusEvery \in Nat \ {0} /\ ResetCycle \in Nat /\ MaxJobs \in Nat

VARIABLES
  system,        \* the card system, always the same
  device,        \* the kind of device, always the same
  card,          \* what is in the slot: "none", "good", or "bad" if it cannot be initialised
  status,        \* card_status
  queue,         \* the reader's jobs
  statuscnt, modemstat,  \* looks since the device was asked, and what it said
  resetcounter,
  failed,        \* history: the last reset that came to an end found no card that could be initialised
  spoiled        \* history: why resets do not fit the card status any more

look  == <<statuscnt, modemstat>>
cardVars  == <<system, device, card, status, queue, look, resetcounter, failed, spoiled>>

Jobs     == {"init", "health", "ecm", "reset", "fast", "restart"}
Statuses == {"unknown", "need_init", "inserted", "failure", "no_card", "device_error"}

Waits(q, job) == \E n \in DOMAIN q : q[n] = job
Once(q, job)  == \A m, n \in DOMAIN q : q[m] = job /\ q[n] = job => m = n
ResetWaits(q) == Waits(q, "reset") \/ Waits(q, "fast")
\* add_job
Add(q, job) == Append(q, job)

\* Resets are in order again when none waits, none is due and none has failed.
Spoiled(set, s, q) ==
  IF s \notin {"need_init", "failure"} /\ ~ResetWaits(q) THEN {} ELSE set

-----------------------------------------------------------------------------
(* reader_card_inserted, ICC_Async_GetStatus *)

\* Mutant of Counter: it is not set back.
CounterOn == statuscnt + 1
Counter == (statuscnt + 1) % StatusEvery
Sees    == IF Counter = 0 THEN card # "none" ELSE modemstat
Look    == /\ statuscnt' = Counter
           /\ modemstat' = Sees

\* Mutant of NewCard: the card is detected again while it waits for its reset.
NewCardAgain(s) == s \in {"no_card", "unknown", "need_init"}
NewCard(s) == s \in {"no_card", "unknown"}

\* cardreader_do_checkhealth: the status, and the queue, that a look leaves behind
Checked(q) ==
  IF Sees THEN (IF NewCard(status) THEN [status |-> "need_init", queue |-> Add(q, "reset")]
                ELSE [status |-> status, queue |-> q])
  ELSE [status |-> "no_card", queue |-> q]

\* A card that was taken out while a reset waits for it
Bounced(q) == IF ~Sees /\ status # "no_card" /\ ResetWaits(q)
              THEN {"bounced"} ELSE {}

-----------------------------------------------------------------------------
(* cardreader_do_reset *)

\* reader_activate_card does nothing unless the card needs to be initialised.
Activates(s) == s = "need_init" /\ card = "good"

\* Mutant of FastStatus: RESET_FAST does not ask for it.
FastStatusKept == status
FastStatus == "need_init"

\* A reset in status s, with the jobs q behind it.  A videoguard card may ask for a fast one.
\* An azbox whose card is not activated gives up (-1) and leaves all as it is; only a card it
\* has activated can turn out to be of no known system.
Resets(s, q) ==
  \/ /\ Activates(s)
     /\ status' = "inserted" /\ failed' = FALSE
     /\ \E fast \in {FALSE, system = "videoguard"} : queue' = IF fast THEN Add(q, "fast") ELSE q
  \/ /\ ~Activates(s) \/ Flaky
     /\ device = "azbox" => s = "need_init" /\ card # "none"
     /\ status' = "failure"
     /\ failed' = (card # "good" \/ (Flaky /\ s = "need_init"))
     /\ queue' = q
  \/ /\ ~Activates(s) \/ Flaky
     /\ device = "azbox"
     /\ status' = s /\ queue' = q
     /\ UNCHANGED failed

\* A reset that leaves the card waiting for one
GaveUp == IF status' = "need_init" THEN {"gaveup"} ELSE {}

-----------------------------------------------------------------------------
(* The work thread *)

Takes(job) == queue # <<>> /\ Head(queue) = job

\* ACTION_READER_INIT: the device is opened; if it cannot be the reader is disabled.
RunInit ==
  /\ Takes("init")
  /\ queue' = Tail(queue)
  /\ status' \in {status, "device_error"}
  /\ UNCHANGED <<system, device, card, look, resetcounter, failed, spoiled>>

\* ACTION_READER_CHECK_HEALTH
RunHealth ==
  /\ Takes("health")
  /\ Look
  /\ status' = Checked(Tail(queue)).status
  /\ queue' = Checked(Tail(queue)).queue
  /\ spoiled' = Spoiled(spoiled \cup Bounced(queue), status', queue')
  /\ UNCHANGED <<system, device, card, resetcounter, failed>>

\* ACTION_READER_RESET
RunReset ==
  /\ Takes("reset")
  /\ Resets(status, Tail(queue))
  /\ spoiled' = Spoiled(spoiled \cup GaveUp, status', queue')
  /\ UNCHANGED <<system, device, card, look, resetcounter>>

\* ACTION_READER_RESET_FAST
RunFast ==
  /\ Takes("fast")
  /\ Resets(FastStatus, Tail(queue))
  /\ spoiled' = Spoiled(spoiled \cup GaveUp, status', queue')
  /\ UNCHANGED <<system, device, card, look, resetcounter>>

\* ACTION_READER_ECM_REQUEST, cardreader_process_ecm: a health check first; "not found"
\* if the card is not ready.
EcmFails ==
  /\ Takes("ecm")
  /\ Look
  /\ status' = Checked(Tail(queue)).status
  /\ queue' = Checked(Tail(queue)).queue
  /\ spoiled' = Spoiled(spoiled \cup Bounced(queue), status', queue')
  /\ UNCHANGED <<system, device, card, resetcounter, failed>>

\* A conax card says that it hangs.
EcmHangs ==
  /\ Takes("ecm") /\ system = "conax"
  /\ Checked(Tail(queue)).status = "inserted"
  /\ Look
  /\ status' = "unknown"
  /\ queue' = Tail(queue)
  /\ UNCHANGED <<system, device, card, resetcounter, failed, spoiled>>

\* The CW is found.  After resetcycle ECMs write_ecm_answer wants a reset, but has it added
\* to the queue of the client that asked for the ECM, where reader jobs are dropped.
EcmFound ==
  /\ Takes("ecm")
  /\ card = "good" /\ Checked(Tail(queue)).status = "inserted"
  /\ Look
  /\ queue' = Tail(queue)
  /\ IF ResetCycle > 0 /\ resetcounter + 1 > ResetCycle
     THEN resetcounter' = 0 /\ status' = "need_init" /\ spoiled' = spoiled \cup {"cycle"}
     ELSE /\ resetcounter' = IF ResetCycle > 0 THEN resetcounter + 1 ELSE resetcounter
          /\ UNCHANGED <<status, spoiled>>
  /\ UNCHANGED <<system, device, card, failed>>

\* ACTION_READER_RESTART: the client of the reader is freed with its jobs; a new one begins.
RunRestart ==
  /\ Takes("restart")
  /\ queue' = <<"init">>
  /\ status' = "unknown"
  /\ spoiled' = {}
  /\ UNCHANGED <<system, device, card, look, resetcounter, failed>>

\* work_thread drops a job that is too old, whatever it is.
DropLateJob ==
  /\ JobsLate
  /\ queue # <<>> /\ Head(queue) \notin {"init", "restart"}
  /\ queue' = Tail(queue)
  /\ spoiled' = Spoiled(IF Head(queue) = "reset" THEN spoiled \cup {"late"} ELSE spoiled, status, queue')
  /\ UNCHANGED <<system, device, card, status, look, resetcounter, failed>>

-----------------------------------------------------------------------------
(* Other threads, and whoever handles the card *)

\* cardreader_checkhealth from the checking thread, for an enabled reader
AskHealth ==
  /\ Len(queue) < MaxJobs /\ status # "device_error"
  /\ queue' = Add(queue, "health")
  /\ UNCHANGED <<system, device, card, status, look, resetcounter, failed, spoiled>>

\* get_cw chooses this reader only if its card is ready (matching_reader).
AskEcm ==
  /\ Len(queue) < MaxJobs /\ status = "inserted"
  /\ queue' = Add(queue, "ecm")
  /\ UNCHANGED <<system, device, card, status, look, resetcounter, failed, spoiled>>

\* The web interface, or too many ECMs not found
AskRestart ==
  /\ Len(queue) < MaxJobs
  /\ queue' = Add(queue, "restart")
  /\ UNCHANGED <<system, device, card, status, look, resetcounter, failed, spoiled>>

PutIn ==
  /\ card = "none"
  /\ card' \in {"good", "bad"}
  /\ UNCHANGED <<system, device, status, queue, look, resetcounter, failed, spoiled>>

TakeOut ==
  /\ card # "none"
  /\ card' = "none"
  /\ UNCHANGED <<system, device, status, queue, look, resetcounter, failed, spoiled>>

\* restart_cardreader has added the first job.
CardInit ==
  /\ system \in Systems /\ device \in Devices
  /\ card \in {"none", "good", "bad"}
  /\ status = "unknown" /\ queue = <<"init">>
  /\ statuscnt = 0 /\ modemstat = TRUE
  /\ resetcounter = 0
  /\ failed = FALSE /\ spoiled = {}

CardNext ==
  \/ RunInit \/ RunHealth \/ RunReset \/ RunFast \/ RunRestart
  \/ EcmFails \/ EcmHangs \/ EcmFound
  \/ DropLateJob
  \/ AskHealth \/ AskEcm \/ AskRestart
  \/ PutIn \/ TakeOut

CardSpec == CardInit /\ [][CardNext]_cardVars

-----------------------------------------------------------------------------
\* Type invariant of the reader, its queue and its card.
CardTypeOK ==
  /\ system \in Systems /\ device \in Devices
  /\ card \in {"none", "good", "bad"} /\ status \in Statuses
  /\ queue \in Seq(Jobs) /\ Len(queue) <= MaxJobs + 2
  /\ statuscnt \in 0..StatusEvery - 1 /\ modemstat \in BOOLEAN
  /\ resetcounter \in 0..ResetCycle
  /\ failed \in BOOLEAN /\ spoiled \subseteq {"bounced", "late", "cycle", "gaveup"}

\* A card that has been noticed has one reset job on its way, and no reset job is on its way
\* otherwise: a card in CARD_NEED_INIT without one is never initialised, and a reset of a card
\* that needs none makes it a CARD_FAILURE (cardreader_do_checkhealth, cardreader_do_reset).
\* Not so once a card was taken out while its reset waited, a reset was dropped for its age,
\* resetcycle wanted one, or an azbox gave up on its reset (cardreader_do_reset returns on -1
\* and adds none); until no reset is left or due, at the latest when the card was out for a while.
OneResetWaits ==
  spoiled = {} =>
    /\ status = "need_init" <=> Waits(queue, "reset")
    /\ Once(queue, "reset")

\* With the same exceptions CARD_FAILURE is the card's fault, never that of a reset it did
\* not need.
FailsForCause == spoiled = {} /\ status = "failure" => failed

\* A card that waits for its reset has one coming.  (It is not so: the reset after resetcycle
\* ECMs is added to the wrong queue, and the card is never used again.)
ResetPerformed == status = "need_init" => Waits(queue, "reset")
=============================================================================
