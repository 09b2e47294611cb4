----------------------------- MODULE RwLockProofs -----------------------------
(***************************************************************************)
(* RwLock for every finite set of threads.                                 *)
(*                                                                         *)
(* The counters are compared with the sets of threads they stand for.      *)
(* After a timeout they may be too small, never too large (Bounded), which *)
(* is why nothing is left behind.  Before the first one they are exact     *)
(* (Exact), and a thread that leaves sees from them whether there is       *)
(* anybody to wake, which is why no wakeup is lost.                        *)
(***************************************************************************)
EXTENDS RwLock, FiniteSetTheorems, TLAPS

Modes == {"write", "read"}
Counter(m) == IF m = "write" THEN writelock ELSE readlock

\* The counters never exceed the number of threads at the lock.
Bounded == TypeOK /\ \A m \in Modes : Counter(m) <= Cardinality(Present(m))

\* Before the first timeout they are that number.
Exact == TypeOK /\ \A m \in Modes : Counter(m) = Cardinality(Present(m))

-----------------------------------------------------------------------------
\* The threads at the lock are finitely many.
LEMMA PresentFinite ==
  ASSUME NEW m \in Modes
  PROVE  IsFiniteSet(Present(m)) /\ Cardinality(Present(m)) \in Nat
BY ThreadsAssumption, FS_Subset, FS_CardinalityType DEF Present

\* How the set of threads at the lock changes when t comes.
LEMMA Comes ==
  ASSUME TypeOK, NEW t \in Threads, NEW m \in Modes, pc[t] = "out",
         NEW p \in {"waiting", "in"},
         mode' = [mode EXCEPT ![t] = m], pc' = [pc EXCEPT ![t] = p]
  PROVE  /\ Cardinality(Present(m)') = Cardinality(Present(m)) + 1
         /\ \A o \in Modes \ {m} : Present(o)' = Present(o)
<1>1. Present(m)' = Present(m) \cup {t} /\ t \notin Present(m)
  BY DEF Present, TypeOK, Modes
<1>2. \A o \in Modes \ {m} : Present(o)' = Present(o)
  BY DEF Present, TypeOK, Modes
<1> QED BY <1>1, <1>2, PresentFinite, FS_AddElement

\* How it changes when t leaves, whomever it wakes.
LEMMA Leaves ==
  ASSUME TypeOK, NEW t \in Threads, pc[t] = "in", mode' = mode,
         NEW woken \in SUBSET {s \in Threads : pc[s] = "waiting"},
         pc' = [s \in Threads |-> IF s = t THEN "out" ELSE IF s \in woken THEN "woken" ELSE pc[s]]
  PROVE  /\ Present(mode[t])' = Present(mode[t]) \ {t}
         /\ Cardinality(Present(mode[t])') = Cardinality(Present(mode[t])) - 1
         /\ \A o \in Modes \ {mode[t]} : Present(o)' = Present(o)
<1>1. Present(mode[t])' = Present(mode[t]) \ {t} /\ t \in Present(mode[t])
  BY DEF Present, TypeOK, Modes
<1>2. \A o \in Modes \ {mode[t]} : Present(o)' = Present(o)
  BY DEF Present, TypeOK, Modes
<1>3. IsFiniteSet(Present(mode[t]))
  BY PresentFinite DEF TypeOK, Modes
<1>4. Cardinality(Present(mode[t]) \ {t}) = Cardinality(Present(mode[t])) - 1
  BY <1>1, <1>3, FS_RemoveElement
<1> QED BY <1>1, <1>2, <1>4

\* The threads a leaving one wakes were waiting.
LEMMA WokenWaited ==
  ASSUME NEW t, NEW w, NEW r, NEW woken \in Wakes(t, w, r)
  PROVE  woken \in SUBSET {s \in Threads : pc[s] = "waiting"}
BY DEF Wakes, Waiting

\* The type invariant holds in every reachable state.
Shaped ==
  /\ writelock \in Nat /\ readlock \in Nat
  /\ pc \in [Threads -> {"out", "waiting", "woken", "in"}]
  /\ mode \in [Threads -> {"write", "read"}]

LEMMA InitTypeOK == Init => TypeOK
<1>1. Init => Shaped
  BY DEF Init, Shaped
<1>2. Init => late \in BOOLEAN /\ met \in BOOLEAN
  BY Zenon DEF Init
<1> QED BY <1>1, <1>2 DEF Shaped, TypeOK

LEMMA NextTypeOK == TypeOK /\ [Next]_vars => TypeOK'
<1> SUFFICES ASSUME TypeOK, [Next]_vars PROVE TypeOK'
  OBVIOUS
<1>0. Shaped
  BY DEF TypeOK, Shaped
<1>1. ASSUME NEW t \in Threads, NEW m \in {"write", "read"}, Lock(t, m) \/ TryLock(t, m)
      PROVE  TypeOK'
  <2>1. Shaped'
    BY <1>0, <1>1 DEF Lock, TryLock, Count, Shaped
  <2>2. Count(t, m)
    BY <1>1 DEF Lock, TryLock
  <2>3. late' \in BOOLEAN /\ met' \in BOOLEAN
    BY <2>2, Zenon DEF Count, TypeOK
  <2> QED BY <2>1, <2>3 DEF Shaped, TypeOK
<1>2. ASSUME NEW t \in Threads, WaitReturns(t) PROVE TypeOK'
  BY <1>2 DEF WaitReturns, TypeOK
<1>3. ASSUME NEW t \in Threads, Timeout(t) PROVE TypeOK'
  <2>1. Shaped'
    BY <1>0, <1>3 DEF Timeout, Shaped
  <2>2. late' \in BOOLEAN /\ met' \in BOOLEAN
    BY <1>3, Zenon DEF Timeout, TypeOK
  <2> QED BY <2>1, <2>2 DEF Shaped, TypeOK
<1>4. ASSUME NEW t \in Threads, Unlock(t) PROVE TypeOK'
  <2>1. Shaped'
    BY <1>0, <1>4 DEF Unlock, Dec, Shaped
  <2>2. late' = late /\ met' = met
    BY <1>4 DEF Unlock
  <2> QED BY <2>1, <2>2 DEF Shaped, TypeOK
<1>5. CASE UNCHANGED vars
  BY <1>5 DEF vars, TypeOK
<1> QED BY <1>1, <1>2, <1>3, <1>4, <1>5 DEF Next, Step

-----------------------------------------------------------------------------
\* Init starts with nobody at the lock.
LEMMA InitExact == Init => Exact
<1> SUFFICES ASSUME Init PROVE Exact
  OBVIOUS
<1>1. \A m \in Modes : Present(m) = {}
  BY DEF Init, Present
<1>2. Cardinality({}) = 0
  BY FS_EmptySet
<1> QED BY <1>1, <1>2, InitTypeOK DEF Exact, Counter, Init

\* A step of a thread that is let in or waits: both counter and set grow by one.
LEMMA ComesCounted ==
  ASSUME TypeOK, NEW t \in Threads, NEW m \in Modes, Lock(t, m) \/ TryLock(t, m)
  PROVE  /\ Cardinality(Present(m)') = Cardinality(Present(m)) + 1
         /\ Counter(m)' = Counter(m) + 1
         /\ \A o \in Modes \ {m} : Present(o)' = Present(o) /\ Counter(o)' = Counter(o)
<1>1. PICK p \in {"waiting", "in"} : pc' = [pc EXCEPT ![t] = p]
  BY DEF Lock, TryLock
<1>2. pc[t] = "out" /\ mode' = [mode EXCEPT ![t] = m]
  BY DEF Lock, TryLock, Count
<1>3. Counter(m)' = Counter(m) + 1 /\ \A o \in Modes \ {m} : Counter(o)' = Counter(o)
  BY DEF Lock, TryLock, Count, Counter, Modes
<1> QED BY <1>1, <1>2, <1>3, Comes

\* A thread that leaves: the set loses it, the counter is decremented unless it is 0.
LEMMA LeavesCounted ==
  ASSUME TypeOK, NEW t \in Threads, Unlock(t)
  PROVE  /\ Cardinality(Present(mode[t])') = Cardinality(Present(mode[t])) - 1
         /\ Counter(mode[t])' = Dec(Counter(mode[t]))
         /\ \A o \in Modes \ {mode[t]} : Present(o)' = Present(o) /\ Counter(o)' = Counter(o)
         /\ mode[t] \in Modes
<1>1. PICK woken \in Wakes(t, writelock', readlock') :
        pc' = [s \in Threads |-> IF s = t THEN "out" ELSE IF s \in woken THEN "woken" ELSE pc[s]]
  BY DEF Unlock
<1>2. woken \in SUBSET {s \in Threads : pc[s] = "waiting"}
  BY <1>1, WokenWaited
<1>3. pc[t] = "in" /\ mode' = mode /\ mode[t] \in Modes
  BY DEF Unlock, TypeOK, Modes
<1>4. /\ Counter(mode[t])' = Dec(Counter(mode[t]))
      /\ \A o \in Modes \ {mode[t]} : Counter(o)' = Counter(o)
  BY <1>3 DEF Unlock, Counter, Modes
<1> QED BY <1>1, <1>2, <1>3, <1>4, Leaves

\* A thread that returns from its wait stays at the lock.
LEMMA StaysPresent ==
  ASSUME TypeOK, NEW t \in Threads, WaitReturns(t) \/ Timeout(t), NEW m \in Modes
  PROVE  Present(m)' = Present(m)
BY DEF WaitReturns, Timeout, Present, TypeOK

\* Counters never exceed the threads they count.
LEMMA NextBounded == Bounded /\ [Next]_vars => Bounded'
<1> SUFFICES ASSUME Bounded, [Next]_vars PROVE \A m \in Modes : (Counter(m) <= Cardinality(Present(m)))'
  BY NextTypeOK DEF Bounded
<1>0. TypeOK /\ \A m \in Modes : /\ Counter(m) \in Nat
                                /\ Cardinality(Present(m)) \in Nat
                                /\ Counter(m) <= Cardinality(Present(m))
  BY PresentFinite DEF Bounded, Counter, TypeOK
<1>1. ASSUME NEW t \in Threads, NEW n \in Modes, Lock(t, n) \/ TryLock(t, n)
      PROVE  \A m \in Modes : (Counter(m) <= Cardinality(Present(m)))'
  <2>1. \A m \in Modes \ {n} : Cardinality(Present(m)') = Cardinality(Present(m))
    BY <1>0, <1>1, ComesCounted
  <2> QED BY <1>0, <1>1, <2>1, ComesCounted
<1>2. ASSUME NEW t \in Threads, WaitReturns(t) PROVE \A m \in Modes : (Counter(m) <= Cardinality(Present(m)))'
  <2>1. \A m \in Modes : Counter(m)' = Counter(m) /\ Present(m)' = Present(m)
    BY <1>0, <1>2, StaysPresent DEF WaitReturns, Counter
  <2> QED BY <1>0, <2>1
<1>3. ASSUME NEW t \in Threads, Timeout(t) PROVE \A m \in Modes : (Counter(m) <= Cardinality(Present(m)))'
  <2>1. \A m \in Modes : Present(m)' = Present(m)
    BY <1>0, <1>3, StaysPresent
  <2>2. t \in Present(mode[t]) /\ mode[t] \in Modes
    BY <1>0, <1>3 DEF Timeout, Present, TypeOK, Modes
  <2>3. Cardinality(Present(mode[t])) >= 1
    <3>1. Cardinality(Present(mode[t])) # 0
      BY <2>2, PresentFinite, FS_EmptySet
    <3> QED BY <3>1, <2>2, <1>0
  <2>4. \A m \in Modes : Counter(m)' = IF m = mode[t] THEN 1 ELSE 0
    BY <1>0, <1>3 DEF Timeout, Counter, Modes, TypeOK
  <2> QED BY <1>0, <2>1, <2>2, <2>3, <2>4
<1>4. ASSUME NEW t \in Threads, Unlock(t) PROVE \A m \in Modes : (Counter(m) <= Cardinality(Present(m)))'
  <2>1. \A m \in Modes \ {mode[t]} : Cardinality(Present(m)') = Cardinality(Present(m))
    BY <1>0, <1>4, LeavesCounted
  <2>2. Cardinality(Present(mode[t])') \in Nat
    BY ThreadsAssumption, FS_Subset, FS_CardinalityType DEF Present
  <2>3. \A m \in Modes \ {mode[t]} : (Counter(m) <= Cardinality(Present(m)))'
    BY <1>0, <1>4, <2>1, LeavesCounted
  <2>4. (Counter(mode[t]) <= Cardinality(Present(mode[t])))'
    <3> DEFINE c == Counter(mode[t])
               n == Cardinality(Present(mode[t]))
               n1 == Cardinality(Present(mode[t])')
               c1 == Counter(mode[t])'
    <3>1. c \in Nat /\ n \in Nat /\ n1 \in Nat /\ c <= n /\ n1 = n - 1 /\ c1 = IF c > 0 THEN c - 1 ELSE 0
      BY <1>0, <1>4, <2>2, LeavesCounted DEF Dec
    <3>2. mode[t]' = mode[t] /\ c1 <= n1
      <4> HIDE DEF c, n, c1, n1
      <4> QED BY <3>1, <1>4 DEF Unlock
    <3> QED BY <3>2
  <2> QED BY <2>3, <2>4, <1>4 DEF Unlock
<1>5. CASE UNCHANGED vars
  <2>1. \A m \in Modes : Counter(m)' = Counter(m) /\ Present(m)' = Present(m)
    BY <1>5 DEF vars, Counter, Present
  <2> QED BY <1>0, <2>1
<1> QED BY <1>1, <1>2, <1>3, <1>4, <1>5 DEF Next, Step, Modes

\* Exact counters are bounded ones.
LEMMA ExactBounded == Exact => Bounded
<1> SUFFICES ASSUME Exact PROVE \A m \in Modes : Counter(m) <= Cardinality(Present(m))
  BY DEF Bounded, Exact
<1> QED BY PresentFinite DEF Exact

\* Type invariant of the lock: the counters are never negative.
THEOREM TypeOKAlways == Spec => []TypeOK
<1> QED BY InitTypeOK, NextTypeOK, PTL DEF Spec

\* However many waits time out and reset the counters, and in whatever order the threads
\* leave after that, the lock is free once nobody is at it (cs_rwlock_int's enforcement,
\* cs_rwunlock_int's clamps).
THEOREM ReleasedAlways == Spec => []Released
<1>2. Bounded => Released
  <2> SUFFICES ASSUME Bounded, \A t \in Threads : pc[t] = "out"
               PROVE  writelock = 0 /\ readlock = 0
    BY DEF Released
  <2>1. \A m \in Modes : Cardinality(Present(m)) = 0
    BY FS_EmptySet DEF Present
  <2>2. writelock <= 0 /\ readlock <= 0
    BY <2>1 DEF Bounded, Counter, Modes
  <2> QED BY <2>2 DEF Bounded, TypeOK
<1> QED
  BY ExactBounded, <1>2, InitExact, NextBounded, PTL DEF Spec

-----------------------------------------------------------------------------
\* Until a wait times out the counters are exact.
LEMMA NextExact == ~late' /\ Exact /\ [Next]_vars => Exact'
<1> SUFFICES ASSUME ~late', Exact, [Next]_vars
             PROVE  \A m \in Modes : (Counter(m) = Cardinality(Present(m)))'
  BY NextTypeOK DEF Exact
<1>0. TypeOK /\ \A m \in Modes : Cardinality(Present(m)) \in Nat /\ Counter(m) = Cardinality(Present(m))
  BY PresentFinite DEF Exact
<1>1. ASSUME NEW t \in Threads, NEW n \in Modes, Lock(t, n) \/ TryLock(t, n)
      PROVE  \A m \in Modes : (Counter(m) = Cardinality(Present(m)))'
  <2>1. \A m \in Modes \ {n} : Cardinality(Present(m)') = Cardinality(Present(m))
    BY <1>0, <1>1, ComesCounted
  <2> QED BY <1>0, <1>1, <2>1, ComesCounted
<1>2. ASSUME NEW t \in Threads, WaitReturns(t) PROVE \A m \in Modes : (Counter(m) = Cardinality(Present(m)))'
  <2>1. \A m \in Modes : Counter(m)' = Counter(m) /\ Present(m)' = Present(m)
    BY <1>0, <1>2, StaysPresent DEF WaitReturns, Counter
  <2> QED BY <1>0, <2>1
<1>3. ASSUME NEW t \in Threads, Unlock(t) PROVE \A m \in Modes : (Counter(m) = Cardinality(Present(m)))'
  <2>1. \A m \in Modes \ {mode[t]} : (Counter(m) = Cardinality(Present(m)))'
    <3>1. \A m \in Modes \ {mode[t]} : Cardinality(Present(m)') = Cardinality(Present(m))
      BY <1>0, <1>3, LeavesCounted
    <3> QED BY <1>0, <1>3, <3>1, LeavesCounted
  <2>2. Counter(mode[t])' = Cardinality(Present(mode[t])')
    <3>1. Counter(mode[t]) # 0
      <4>1. t \in Present(mode[t]) /\ mode[t] \in Modes
        BY <1>0, <1>3 DEF Unlock, Present, TypeOK, Modes
      <4>2. Cardinality(Present(mode[t])) # 0
        BY <4>1, PresentFinite, FS_EmptySet
      <4> QED BY <1>0, <4>1, <4>2
    <3> QED BY <1>0, <1>3, <3>1, LeavesCounted DEF Dec
  <2> QED BY <2>1, <2>2, <1>3 DEF Unlock
<1>4. CASE UNCHANGED vars
  <2>1. \A m \in Modes : Counter(m)' = Counter(m) /\ Present(m)' = Present(m)
    BY <1>4 DEF vars, Counter, Present
  <2> QED BY <1>0, <2>1
<1> QED BY <1>1, <1>2, <1>3, <1>4 DEF Next, Step, Modes, Timeout

\* An exact counter is 0 when, and only when, nobody of its type is at the lock.
CountersTell ==
  /\ writelock = 0 <=> Present("write") = {}
  /\ readlock = 0 <=> Present("read") = {}
LEMMA ExactZero == Exact => CountersTell
<1> SUFFICES ASSUME Exact PROVE CountersTell
  OBVIOUS
<1>1. \A m \in Modes : Counter(m) = 0 <=> Present(m) = {}
  BY PresentFinite, FS_EmptySet DEF Exact
<1> QED BY <1>1 DEF CountersTell, Counter, Modes

\* What is added to Exact for the wakeups.
Awaited ==
  /\ Waiting("write") # {} => Active # {}
  /\ Waiting("read") # {} => Present("write") # {}

\* A thread at the lock means that some thread has it.
LEMMA PresentActive ==
  ASSUME TypeOK, Awaited, NEW m \in Modes, Present(m) # {}
  PROVE  Active # {}
<1>1. PICK s \in Threads : pc[s] # "out"
  BY DEF Present
<1>2. CASE pc[s] = "waiting" /\ mode[s] = "write"
  BY <1>2 DEF Awaited, Waiting
<1>3. CASE pc[s] = "waiting" /\ mode[s] = "read"
  <2>1. PICK u \in Threads : pc[u] # "out" /\ mode[u] = "write"
    BY <1>3 DEF Awaited, Waiting, Present
  <2>2. CASE pc[u] = "waiting"
    BY <2>1, <2>2 DEF Awaited, Waiting
  <2> QED BY <2>1, <2>2 DEF Active, TypeOK
<1> QED BY <1>1, <1>2, <1>3 DEF Active, TypeOK

\* Until a wait times out a thread that leaves wakes whoever has to be woken.
LEMMA NextAwaited == ~late' /\ Exact /\ Awaited /\ [Next]_vars => Awaited'
<1> SUFFICES ASSUME ~late', Exact, Awaited, [Next]_vars PROVE Awaited'
  OBVIOUS
<1>a. Exact'
  BY NextExact
<1>0. TypeOK /\ TypeOK' /\ CountersTell /\ CountersTell'
  <2>1. CountersTell /\ CountersTell'
    BY <1>a, ExactZero, PTL
  <2> QED BY <1>a, <2>1 DEF Exact
<1>1. ASSUME NEW t \in Threads, NEW m \in Modes, Lock(t, m), BusyFor(m) PROVE Awaited'
  <2>1. /\ pc[t] = "out"
        /\ pc' = [pc EXCEPT ![t] = "waiting"]
        /\ mode' = [mode EXCEPT ![t] = m]
    BY <1>1 DEF Lock, Count
  <2>2. Active' = Active
    BY <1>0, <2>1 DEF Active, TypeOK
  <2>3. Present("write") \subseteq Present("write")'
    BY <1>0, <2>1 DEF Present, TypeOK
  <2>4. Present("write") # {} \/ (m = "write" /\ Present("read") # {})
    BY <1>0, <1>1 DEF BusyFor, TypeOK, CountersTell
  <2>5. Active # {}
    BY <1>0, <2>4, PresentActive DEF Modes
  <2>6. m = "read" => Present("write") # {}
    BY <2>4
  <2>7. m = "write" => Waiting("read")' = Waiting("read")
    BY <1>0, <2>1 DEF Waiting, TypeOK
  <2> QED BY <2>2, <2>3, <2>5, <2>6, <2>7 DEF Awaited, Modes
<1>2. ASSUME NEW t \in Threads, NEW m \in Modes, Lock(t, m) \/ TryLock(t, m), ~BusyFor(m) PROVE Awaited'
  <2>1. /\ pc[t] = "out"
        /\ pc' = [pc EXCEPT ![t] = "in"]
        /\ mode' = [mode EXCEPT ![t] = m]
    BY <1>2 DEF Lock, TryLock, Count
  <2> QED BY <1>0, <2>1 DEF Awaited, Waiting, Present, Active, TypeOK
<1>3. ASSUME NEW t \in Threads, WaitReturns(t) PROVE Awaited'
  BY <1>0, <1>3 DEF WaitReturns, Awaited, Waiting, Present, Active, TypeOK
<1>4. ASSUME NEW t \in Threads, Unlock(t) PROVE Awaited'
  <2>1. PICK woken \in Wakes(t, writelock', readlock') :
          pc' = [s \in Threads |-> IF s = t THEN "out" ELSE IF s \in woken THEN "woken" ELSE pc[s]]
    BY <1>4 DEF Unlock
  <2>2. pc[t] = "in" /\ mode' = mode
    BY <1>4 DEF Unlock
  <2>3. \A m \in Modes : Waiting(m)' = Waiting(m) \ woken
    BY <1>0, <2>1, <2>2 DEF Waiting, TypeOK
  <2>4. ASSUME Waiting("write")' # {} PROVE Active' # {}
    <3>1. Present("write")' # {} /\ Waiting("write") # {}
      BY <2>3, <2>4 DEF Waiting, Present, Modes
    <3>2. writelock' > 0
      BY <1>0, <3>1 DEF TypeOK, CountersTell
    <3>3. PICK s \in Waiting("write") : woken = {s}
      BY <2>1, <3>1, <3>2 DEF Wakes
    <3> QED BY <2>1, <2>2, <3>3 DEF Active, Waiting
  <2>5. ASSUME Waiting("read")' # {}, Present("write")' = {} PROVE FALSE
    <3>1. Waiting("read") # {} /\ Present("read")' # {}
      BY <2>3, <2>5 DEF Waiting, Present, Modes
    <3>2. Present("write") # {}
      BY <3>1 DEF Awaited
    <3>3. mode[t] = "write"
      BY <1>0, <1>4, <2>5, <3>2, LeavesCounted DEF Modes
    <3>4. writelock' = 0 /\ readlock' > 0
      BY <1>0, <2>5, <3>1 DEF TypeOK, CountersTell
    <3>5. woken = Waiting("read")
      BY <2>1, <3>3, <3>4 DEF Wakes
    <3> QED BY <2>3, <2>5, <3>5 DEF Modes
  <2> QED BY <2>4, <2>5 DEF Awaited
<1>5. CASE UNCHANGED vars
  BY <1>5 DEF vars, Awaited, Waiting, Present, Active
<1> QED
  BY <1>1, <1>2, <1>3, <1>4, <1>5 DEF Next, Step, Modes, Timeout, TryLock

\* A wait that has timed out is not forgotten.
LEMMA LateStays == Bounded /\ [Next]_vars /\ ~late' => ~late
<1> SUFFICES ASSUME [Next]_vars, late PROVE late'
  OBVIOUS
<1> QED BY DEF Next, Step, Lock, TryLock, Count, WaitReturns, Timeout, Unlock, vars

\* Until a wait times out no wakeup is lost: whoever waits has a thread before it that
\* will signal, and no thread is left waiting at a lock that nobody has (cs_rwunlock_int's
\* choice of whom to signal).
THEOREM NoLostWakeupAlways == Spec => []NoLostWakeup
<1> DEFINE Inv == Bounded /\ (~late => Exact /\ Awaited)
<1>1. Init => Inv
  <2>1. Init => Awaited
    BY DEF Init, Awaited, Waiting
  <2> QED BY <2>1, InitExact, ExactBounded
<1>2. Inv /\ [Next]_vars => Inv'
  BY NextBounded, NextExact, NextAwaited, LateStays
<1>3. Inv => NoLostWakeup
  BY DEF Awaited, NoLostWakeup
<1> QED BY <1>1, <1>2, <1>3, PTL DEF Spec

-----------------------------------------------------------------------------
\* While no two readers have met, and no wait has timed out, one thread has the lock.
OneActive ==
  /\ \A s, t \in Active : s = t
  /\ \A s, t \in Present("read") : s = t

\* Readers that have met stay recorded.
LEMMA MetStays == [Next]_vars /\ ~met' => ~met
<1> SUFFICES ASSUME [Next]_vars, met PROVE met'
  OBVIOUS
<1> QED BY DEF Next, Step, Lock, TryLock, Count, WaitReturns, Timeout, Unlock, vars

\* A reader that comes while none has met another finds no reader there.
LEMMA FirstReader ==
  ASSUME TypeOK, ~met', NEW t \in Threads, Lock(t, "read") \/ TryLock(t, "read")
  PROVE  Present("read") = {}
BY DEF Lock, TryLock, Count

LEMMA NextOneActive == ~late' /\ ~met' /\ Exact /\ OneActive /\ [Next]_vars => OneActive'
<1> SUFFICES ASSUME ~late', ~met', Exact, OneActive, [Next]_vars PROVE OneActive'
  OBVIOUS
<1>0. TypeOK /\ CountersTell
  BY ExactZero DEF Exact
<1>1. ASSUME NEW t \in Threads, NEW m \in Modes, Lock(t, m), BusyFor(m) PROVE OneActive'
  <2>1. /\ pc[t] = "out"
        /\ pc' = [pc EXCEPT ![t] = "waiting"]
        /\ mode' = [mode EXCEPT ![t] = m]
    BY <1>1 DEF Lock, Count
  <2>2. Active' = Active
    BY <1>0, <2>1 DEF Active, TypeOK
  <2>3. \A s \in Present("read")' : s \in Present("read") \/ (s = t /\ m = "read")
    BY <1>0, <2>1 DEF Present, TypeOK
  <2>4. m = "read" => Present("read") = {}
    BY <1>0, <1>1, FirstReader
  <2> QED BY <2>2, <2>3, <2>4 DEF OneActive
<1>2. ASSUME NEW t \in Threads, NEW m \in Modes, Lock(t, m) \/ TryLock(t, m), ~BusyFor(m) PROVE OneActive'
  <2>1. /\ pc[t] = "out"
        /\ pc' = [pc EXCEPT ![t] = "in"]
        /\ mode' = [mode EXCEPT ![t] = m]
    BY <1>2 DEF Lock, TryLock, Count
  <2>2. Present("write") = {} /\ (m = "write" => Present("read") = {})
    BY <1>0, <1>2 DEF BusyFor, CountersTell, TypeOK
  <2>r. m = "read" => Present("read") = {}
    BY <1>0, <1>2, FirstReader
  <2>3. Active = {}
    <3> SUFFICES ASSUME NEW s \in Active PROVE FALSE
      OBVIOUS
    <3>1. s \in Present("read") /\ m = "read"
      BY <1>0, <2>2 DEF Active, Present, TypeOK, Modes
    <3> QED BY <2>r, <3>1
  <2>4. Active' = {t}
    BY <1>0, <2>1, <2>3 DEF Active, TypeOK
  <2>5. \A s \in Present("read")' : s \in Present("read") \/ (s = t /\ m = "read")
    BY <1>0, <2>1 DEF Present, TypeOK
  <2> QED BY <2>r, <2>4, <2>5 DEF OneActive
<1>3. ASSUME NEW t \in Threads, WaitReturns(t) PROVE OneActive'
  BY <1>0, <1>3 DEF WaitReturns, OneActive, Active, Present, TypeOK
<1>4. ASSUME NEW t \in Threads, Unlock(t) PROVE OneActive'
  <2>1. PICK woken \in Wakes(t, writelock', readlock') :
          pc' = [s \in Threads |-> IF s = t THEN "out" ELSE IF s \in woken THEN "woken" ELSE pc[s]]
    BY <1>4 DEF Unlock
  <2>2. pc[t] = "in" /\ mode' = mode
    BY <1>4 DEF Unlock
  <2>3. Active = {t}
    BY <2>2 DEF OneActive, Active
  <2>4. Active' \subseteq woken
    BY <1>0, <2>1, <2>3 DEF Active, TypeOK
  <2>5. \A r, s \in woken : r = s
    <3>1. \A r, s \in Waiting("read") : r = s
      BY DEF Waiting, Present, OneActive
    <3> QED BY <2>1, <3>1 DEF Wakes
  <2>6. Present("read")' \subseteq Present("read")
    BY <1>0, <2>1, <2>2, WokenWaited DEF Present, TypeOK
  <2> QED BY <2>4, <2>5, <2>6 DEF OneActive
<1>5. CASE UNCHANGED vars
  BY <1>5 DEF vars, OneActive, Present, Active
<1> QED
  BY <1>1, <1>2, <1>3, <1>4, <1>5 DEF Next, Step, Modes, Timeout, TryLock

\* Every step of the lock is a step of Exclusion or leaves who is inside alone.
LEMMA StepExcludes ==
  ASSUME Exact, OneActive, ~late', ~met', [Next]_vars
  PROVE  [Lock_!Next]_<<Inside("write"), Inside("read")>>
<1>0. TypeOK /\ CountersTell
  BY ExactZero DEF Exact
<1>1. ASSUME NEW t \in Threads, NEW m \in Modes, Lock(t, m), BusyFor(m)
      PROVE  UNCHANGED <<Inside("write"), Inside("read")>>
  BY <1>0, <1>1 DEF Lock, Count, Inside, TypeOK
<1>2. ASSUME NEW t \in Threads, NEW m \in Modes, Lock(t, m) \/ TryLock(t, m), ~BusyFor(m)
      PROVE  Lock_!EnterWrite(t) \/ Lock_!EnterRead(t)
  <2>1. /\ pc[t] = "out"
        /\ pc' = [pc EXCEPT ![t] = "in"]
        /\ mode' = [mode EXCEPT ![t] = m]
    BY <1>2 DEF Lock, TryLock, Count
  <2>2. Inside("write") = {} /\ (m = "write" => Inside("read") = {})
    BY <1>0, <1>2 DEF BusyFor, CountersTell, TypeOK, Present, Inside
  <2>3. CASE m = "write"
    BY <1>0, <2>1, <2>2, <2>3 DEF Lock_!EnterWrite, Inside, TypeOK
  <2>4. CASE m = "read"
    BY <1>0, <2>1, <2>2, <2>4 DEF Lock_!EnterRead, Inside, TypeOK
  <2> QED BY <2>3, <2>4 DEF Modes
<1>3. ASSUME NEW t \in Threads, WaitReturns(t)
      PROVE  Lock_!EnterWrite(t) \/ Lock_!EnterRead(t)
  <2>1. Inside("write") = {} /\ Inside("read") = {}
    BY <1>3 DEF OneActive, Active, Inside, WaitReturns
  <2>2. CASE mode[t] = "write"
    BY <1>0, <1>3, <2>1, <2>2 DEF WaitReturns, Lock_!EnterWrite, Inside, TypeOK
  <2>3. CASE mode[t] = "read"
    BY <1>0, <1>3, <2>1, <2>3 DEF WaitReturns, Lock_!EnterRead, Inside, TypeOK
  <2> QED BY <1>0, <2>2, <2>3 DEF TypeOK
<1>4. ASSUME NEW t \in Threads, Unlock(t) PROVE Lock_!Leave(t)
  <2>1. PICK woken \in Wakes(t, writelock', readlock') :
          pc' = [s \in Threads |-> IF s = t THEN "out" ELSE IF s \in woken THEN "woken" ELSE pc[s]]
    BY <1>4 DEF Unlock
  <2>2. pc[t] = "in" /\ mode' = mode /\ (mode[t] = "write" \/ mode[t] = "read")
    BY <1>0, <1>4 DEF Unlock, TypeOK
  <2>3. \A s \in woken : pc[s] = "waiting"
    BY <2>1, WokenWaited
  <2>4. /\ Inside("write")' = Inside("write") \ {t}
        /\ Inside("read")' = Inside("read") \ {t}
    BY <1>0, <2>1, <2>2, <2>3 DEF Inside, TypeOK
  <2>5. t \in Inside("write") \cup Inside("read")
    BY <2>2 DEF Inside
  <2> QED BY <2>4, <2>5 DEF Lock_!Leave
<1>5. CASE UNCHANGED vars
  BY <1>5 DEF vars, Inside
<1> QED
  BY <1>1, <1>2, <1>3, <1>4, <1>5 DEF Next, Step, Modes, Timeout, TryLock, Lock_!Next

\* As long as no wait times out and no two readers meet at the lock, it is a
\* readers-writer lock, for any number of threads.  (The run lock_two_readers shows that
\* two readers inside break it.)
THEOREM ExcludesUntilReadersMeet == Spec => Excludes
<1> DEFINE Inv == Bounded /\ (~late /\ ~met => Exact /\ OneActive)
<1>1. Init => Inv /\ Lock_!Init
  <2>1. Init => OneActive /\ Lock_!Init
    BY DEF Init, OneActive, Active, Present, Inside, Lock_!Init
  <2> QED BY <2>1, InitExact, ExactBounded
<1>2. Inv /\ [Next]_vars => Inv'
  BY NextBounded, NextExact, NextOneActive, LateStays, MetStays
<1>3. Inv /\ [Next]_vars => [late' \/ met' \/ Lock_!Next]_<<Inside("write"), Inside("read")>>
  BY StepExcludes, LateStays, MetStays
<1> QED
  BY <1>1, <1>2, <1>3, PTL DEF Spec, Excludes
=============================================================================
