------------------------------ MODULE Exclusion ------------------------------
(***************************************************************************)
(* What a readers-writer lock promises: a writer is inside alone, readers  *)
(* may be inside together.                                                 *)
(***************************************************************************)
CONSTANT Threads
VARIABLES writersIn, readersIn

Init == writersIn = {} /\ readersIn = {}

EnterWrite(t) ==
  /\ writersIn = {} /\ readersIn = {}
  /\ writersIn' = {t}
  /\ UNCHANGED readersIn

EnterRead(t) ==
  /\ writersIn = {}
  /\ readersIn' = readersIn \cup {t}
  /\ UNCHANGED writersIn

Leave(t) ==
  /\ t \in writersIn \cup readersIn
  /\ writersIn' = writersIn \ {t}
  /\ readersIn' = readersIn \ {t}

Next == \E t \in Threads : EnterWrite(t) \/ EnterRead(t) \/ Leave(t)

Spec == Init /\ [][Next]_<<writersIn, readersIn>>
=============================================================================
