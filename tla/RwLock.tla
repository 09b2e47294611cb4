------------------------------- MODULE RwLock -------------------------------
(***************************************************************************)
(* CS_MUTEX_LOCK (ncam-lock.c), the readers-writer lock around every shared *)
(* list of ncam: two counters under a pthread mutex, two condition         *)
(* variables, and one timed wait whose end is taken for the lock.          *)
(*                                                                         *)
(* Each call runs under the mutex, so it is one step; a thread that waits  *)
(* gives the mutex up and comes back in a step of its own.  Assumed of the *)
(* pthread library: a signal wakes one waiting thread, any of them, and    *)
(* nobody wakes without a signal or a timeout.                             *)
(***************************************************************************)
EXTENDS Naturals, FiniteSets

CONSTANTS
  Threads,    \* the threads that use the lock
  Writers,    \* those that take it as WRITELOCK
  Readers,    \* those that take it as READLOCK
  Timeouts    \* a wait may last longer than the lock's timeout

ASSUME ThreadsAssumption ==
  /\ IsFiniteSet(Threads)
  /\ Writers \subseteq Threads /\ Readers \subseteq Threads
  /\ Timeouts \in BOOLEAN

VARIABLES
  writelock, readlock,  \* the counters: threads that hold the lock or wait for it
  pc,                   \* pc[t]: "out", "waiting", "woken" (signalled, not yet back) or "in"
  mode,                 \* mode[t]: what t holds or wants the lock for
  late, met             \* history: a wait has timed out; two readers have been at the lock at once

vars == <<writelock, readlock, pc, mode, late, met>>

Waiting(m) == {t \in Threads : pc[t] = "waiting" /\ mode[t] = m}
Present(m) == {t \in Threads : pc[t] # "out" /\ mode[t] = m}
Inside(m)  == {t \in Threads : pc[t] = "in" /\ mode[t] = m}
Active     == {t \in Threads : pc[t] \in {"woken", "in"}}

May(t, m) == IF m = "write" THEN t \in Writers ELSE t \in Readers

\* Mutant of BusyFor: a writer does not look at the readers.
BusyForBlind(m) == writelock > 0
\* A new thread has to wait: a writer for everybody, a reader for writers, also waiting ones.
BusyFor(m) == writelock > 0 \/ (m = "write" /\ readlock > 0)

Count(t, m) ==
  /\ mode' = [mode EXCEPT ![t] = m]
  /\ writelock' = IF m = "write" THEN writelock + 1 ELSE writelock
  /\ readlock' = IF m = "write" THEN readlock ELSE readlock + 1
  /\ met' = (met \/ (m = "read" /\ Present("read") # {}))
  /\ UNCHANGED late

\* cs_rwlock_int
Lock(t, m) ==
  /\ pc[t] = "out"
  /\ May(t, m)
  /\ Count(t, m)
  /\ pc' = [pc EXCEPT ![t] = IF BusyFor(m) THEN "waiting" ELSE "in"]

\* cs_try_rwlock_int: it fails when the lock is busy.
TryLock(t, m) ==
  /\ pc[t] = "out"
  /\ May(t, m)
  /\ ~BusyFor(m)
  /\ Count(t, m)
  /\ pc' = [pc EXCEPT ![t] = "in"]

\* A signalled thread returns from the wait; it has the lock, nothing is checked again.
WaitReturns(t) ==
  /\ pc[t] = "woken"
  /\ pc' = [pc EXCEPT ![t] = "in"]
  /\ UNCHANGED <<writelock, readlock, mode, late, met>>

\* Mutant of Timeout: the counters of the two types are swapped.
TimeoutSwapped(t) ==
  /\ Timeouts
  /\ pc[t] = "waiting"
  /\ pc' = [pc EXCEPT ![t] = "in"]
  /\ writelock' = IF mode[t] = "write" THEN 0 ELSE 1
  /\ readlock' = IF mode[t] = "write" THEN 1 ELSE 0
  /\ late' = TRUE
  /\ UNCHANGED <<mode, met>>

\* The wait times out: the lock is enforced and everybody else's count forgotten.
Timeout(t) ==
  /\ Timeouts
  /\ pc[t] = "waiting"
  /\ pc' = [pc EXCEPT ![t] = "in"]
  /\ writelock' = IF mode[t] = "write" THEN 1 ELSE 0
  /\ readlock' = IF mode[t] = "write" THEN 0 ELSE 1
  /\ late' = TRUE
  /\ UNCHANGED <<mode, met>>

\* A counter that an enforced lock has reset already stays at 0.
Dec(n) == IF n > 0 THEN n - 1 ELSE 0

\* Mutant of Wakes: only a writer that leaves signals anybody.
WakesOnWrite(t, w, r) ==
  IF w > 0 /\ mode[t] = "write" /\ Waiting("write") # {} THEN {{s} : s \in Waiting("write")}
  ELSE IF w = 0 /\ r > 0 /\ mode[t] = "write" THEN {Waiting("read")}
  ELSE {{}}
\* Whom t wakes when it leaves the counters at w and r: one of the waiting writers
\* while there is any, all waiting readers when t was the last writer.
Wakes(t, w, r) ==
  IF w > 0 /\ Waiting("write") # {} THEN {{s} : s \in Waiting("write")}
  ELSE IF w = 0 /\ r > 0 /\ mode[t] = "write" THEN {Waiting("read")}
  ELSE {{}}

\* cs_rwunlock_int
Unlock(t) ==
  /\ pc[t] = "in"
  /\ writelock' = IF mode[t] = "write" THEN Dec(writelock) ELSE writelock
  /\ readlock' = IF mode[t] = "write" THEN readlock ELSE Dec(readlock)
  /\ \E woken \in Wakes(t, writelock', readlock') :
       pc' = [s \in Threads |-> IF s = t THEN "out" ELSE IF s \in woken THEN "woken" ELSE pc[s]]
  /\ UNCHANGED <<mode, late, met>>

Init ==
  /\ writelock = 0 /\ readlock = 0
  /\ pc = [t \in Threads |-> "out"]
  /\ mode = [t \in Threads |-> "read"]
  /\ late = FALSE /\ met = FALSE

Step(t) ==
  \/ \E m \in {"write", "read"} : Lock(t, m) \/ TryLock(t, m)
  \/ WaitReturns(t) \/ Timeout(t) \/ Unlock(t)

Next == \E t \in Threads : Step(t)

Spec == Init /\ [][Next]_vars

-----------------------------------------------------------------------------
\* Type invariant of the lock and the threads at it; the counters never go below 0.
TypeOK ==
  /\ writelock \in Nat /\ readlock \in Nat
  /\ pc \in [Threads -> {"out", "waiting", "woken", "in"}]
  /\ mode \in [Threads -> {"write", "read"}]
  /\ late \in BOOLEAN /\ met \in BOOLEAN

\* Timeouts reset the counters while others still hold the lock or wait, and those count
\* down later (cs_rwlock_int, cs_rwunlock_int).  Still nothing is left behind: when nobody
\* is at the lock, it is free.
Released == (\A t \in Threads : pc[t] = "out") => writelock = 0 /\ readlock = 0

\* Until a wait has timed out no wakeup is lost: as long as a thread waits, some thread has the lock,
\* or has been woken to have it, and will signal on leaving; and a waiting reader has a
\* writer before it, whose leaving will wake it.
NoLostWakeup ==
  ~late =>
    /\ Waiting("write") # {} => Active # {}
    /\ Waiting("read") # {} => Present("write") # {}

\* A writer is inside alone.  (With two readers inside it is not: the first one to leave
\* signals a waiting writer while the second is still inside.)
WriterAlone ==
  \A t \in Inside("write") : \A s \in Threads \ {t} : pc[s] # "in"

\* Until a wait has timed out or two readers have met, the lock implements Exclusion.
Lock_ == INSTANCE Exclusion WITH writersIn <- Inside("write"), readersIn <- Inside("read")
Excludes == Lock_!Init /\ [][late' \/ met' \/ Lock_!Next]_<<Inside("write"), Inside("read")>>
=============================================================================
