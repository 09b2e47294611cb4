----------------------------- MODULE EcmPromise -----------------------------
(***************************************************************************)
(* What ncam promises a client about an ECM request: it is closed once,    *)
(* with a CW only if a reader or a peer has supplied one for that ECM,     *)
(* and as long as the client stays it is closed at last.                   *)
(***************************************************************************)
CONSTANTS Requests, Ecm
VARIABLES outcome, supplied

Open   == {"new", "open"}
Closed == {"granted", "refused", "expired", "lost"}

Init == outcome = [q \in Requests |-> "new"] /\ supplied = {}

\* A CW for e becomes known.
Supply(e) == supplied' = supplied \cup {e} /\ UNCHANGED outcome

Ask(q) ==
  outcome[q] = "new" /\ outcome' = [outcome EXCEPT ![q] = "open"] /\ UNCHANGED supplied

\* The request is closed; one whose answer is at hand may be closed when it is made.
Close(q, how) ==
  /\ outcome[q] \in Open
  /\ how = "granted" => Ecm[q] \in supplied
  /\ how \in {"expired", "lost"} => outcome[q] = "open"
  /\ outcome' = [outcome EXCEPT ![q] = how]
  /\ UNCHANGED supplied

Next ==
  \/ \E e \in {Ecm[q] : q \in Requests} : Supply(e)
  \/ \E q \in Requests : Ask(q) \/ \E how \in Closed : Close(q, how)

vars == <<outcome, supplied>>

Spec == Init /\ [][Next]_vars /\ \A q \in Requests : WF_vars(outcome[q] = "open" /\ \E how \in Closed : Close(q, how))
=============================================================================
