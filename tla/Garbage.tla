------------------------------ MODULE Garbage ------------------------------
(***************************************************************************)
(* The garbage collector (ncam-garbage.c): memory that other threads may   *)
(* still use is put into a list and freed when it has been there for some  *)
(* time.  Any thread adds; one thread collects.  This is one of the        *)
(* HASH_BUCKETS lists with its lock, while the collector is active.        *)
(*                                                                         *)
(* The lock is ncam-lock.c's as far as writers go (RwLock): a counter of   *)
(* those inside and waiting, and an unlock that wakes a waiting one.       *)
(***************************************************************************)
EXTENDS Integers, FiniteSets, Chains

CONSTANTS
  Data,       \* memory, each put into the garbage by a thread of its own
  Collector,  \* the thread garbage_collector
  TimeoutTime, \* timeout_time, in ticks
  MaxTime     \* bound of the clock

ASSUME GcAssumption ==
  /\ IsFiniteSet(Data) /\ Collector \notin Data /\ Nil \notin Data
  /\ TimeoutTime \in Nat /\ MaxTime \in Nat

VARIABLES
  clock,
  first, next,  \* garbage_first[i], and next of the entry of d
  stamp,        \* stamp[d]: its time
  gpc,          \* where a thread is; d stands for the thread that adds d
  gwritelock,   \* l->writelock: those who are inside or wait
  deltime,      \* the collector's deltime + timeout_time
  at, prev, j,  \* the collector's garbage, prev and j
  freed,        \* history: freed[d]: how often d was freed
  early,        \* history: data freed before their time
  overtaken,    \* history: data linked before others that have an earlier time
  beside        \* history: two threads were inside the lock at once

thread == <<gpc, gwritelock>>
entry  == <<first, next, stamp>>
coll   == <<deltime, at, prev, j>>
hist   == <<freed, early, overtaken, beside>>
gcVars == <<clock, thread, entry, coll, hist>>

Users == Data \cup {Collector}
Queued == {t \in Users : gpc[t] = "wait"}
\* Inside the lock; the collector at "on" has left it once and goes on.
Holders == {t \in Users : gpc[t] \in {"in", "linked"}}

\* The entries from d on
Chain(d) == ChainIn(Data, next, d)

-----------------------------------------------------------------------------
(* cs_writelock, cs_writeunlock *)

\* t asks for the lock and is inside at once, or waits.
GcLock(t) ==
  /\ gwritelock' = gwritelock + 1
  /\ gpc' = [gpc EXCEPT ![t] = IF gwritelock = 0 THEN "in" ELSE "wait"]
  /\ beside' = (beside \/ (gwritelock = 0 /\ Holders # {}))

GcDec(n) == IF n > 0 THEN n - 1 ELSE 0

\* Mutant of Woken: the counter is read before it is decremented.
WokenBefore == IF gwritelock = 1 THEN {{u} : u \in Queued} \cup {{}} ELSE {{}}
\* Whom an unlock lets in: if the counter says that somebody is left, one of those who wait.
Woken == IF GcDec(gwritelock) > 0 /\ Queued # {} THEN {{u} : u \in Queued} ELSE {{}}

\* t unlocks, and goes to the place to.
GcUnlock(t, to) ==
  /\ gwritelock' = GcDec(gwritelock)
  /\ \E woken \in Woken :
       /\ gpc' = [u \in Users |-> IF u = t THEN to ELSE IF u \in woken THEN "in" ELSE gpc[u]]
       /\ beside' = (beside \/ (woken # {} /\ Holders \ {t} # {}))

-----------------------------------------------------------------------------
(* add_garbage *)

\* The time is taken before the lock.
Stamp(d) ==
  /\ gpc[d] = "start"
  /\ stamp' = [stamp EXCEPT ![d] = clock]
  /\ gpc' = [gpc EXCEPT ![d] = "stamped"]
  /\ UNCHANGED <<clock, gwritelock, first, next, coll, hist>>

AddLock(d) ==
  /\ gpc[d] = "stamped"
  /\ GcLock(d)
  /\ UNCHANGED <<clock, entry, coll, freed, early, overtaken>>

\* Mutant of Link: the old first entry is forgotten.
LinkAlone(d) ==
  /\ gpc[d] = "in"
  /\ next' = [next EXCEPT ![d] = Nil]
  /\ gpc' = [gpc EXCEPT ![d] = "linked"]
  /\ UNCHANGED <<clock, gwritelock, first, stamp, coll, hist>>
Link(d) ==
  /\ gpc[d] = "in"
  /\ next' = [next EXCEPT ![d] = first]
  /\ gpc' = [gpc EXCEPT ![d] = "linked"]
  /\ UNCHANGED <<clock, gwritelock, first, stamp, coll, hist>>

AddUnlock(d) ==
  /\ gpc[d] = "linked"
  /\ first' = d
  /\ overtaken' = overtaken \cup {e \in Chain(next[d]) : stamp[e] > stamp[d]}
  /\ GcUnlock(d, "added")
  /\ UNCHANGED <<clock, next, stamp, coll, freed, early>>

-----------------------------------------------------------------------------
(* garbage_collector *)

\* The round begins: deltime is read, once for all lists.
Round ==
  /\ gpc[Collector] = "start"
  /\ deltime' = clock
  /\ gpc' = [gpc EXCEPT ![Collector] = "stamped"]
  /\ UNCHANGED <<clock, gwritelock, entry, at, prev, j, hist>>

CollectLock ==
  /\ gpc[Collector] = "stamped"
  /\ GcLock(Collector)
  /\ UNCHANGED <<clock, entry, coll, freed, early, overtaken>>

ReadFirst ==
  /\ gpc[Collector] = "in" /\ j = -1
  /\ at' = first /\ prev' = Nil /\ j' = 0
  /\ UNCHANGED <<clock, thread, entry, deltime, hist>>

\* The third entry: the lock is left already.
EarlyUnlock ==
  /\ gpc[Collector] = "in" /\ j = 2 /\ at # Nil
  /\ GcUnlock(Collector, "on")
  /\ j' = 3
  /\ UNCHANGED <<clock, entry, deltime, at, prev, freed, early, overtaken>>

\* Mutant of Old: off by one tick.
OldSoon(d) == stamp[d] <= deltime - TimeoutTime
Old(d) == stamp[d] < deltime - TimeoutTime

Scanning == gpc[Collector] \in {"in", "on"} /\ j \in 0..3 /\ ~(gpc[Collector] = "in" /\ j = 2)

Pass ==
  /\ Scanning /\ at # Nil /\ ~Old(at)
  /\ prev' = at /\ at' = next[at] /\ j' = IF j < 3 THEN j + 1 ELSE j
  /\ UNCHANGED <<clock, thread, entry, deltime, hist>>

\* An old entry and all behind it are taken out of the list.
Cut ==
  /\ Scanning /\ at # Nil /\ Old(at)
  /\ IF prev = Nil THEN first' = Nil /\ UNCHANGED next
     ELSE next' = [next EXCEPT ![prev] = Nil] /\ UNCHANGED first
  /\ j' = 4
  /\ UNCHANGED <<clock, thread, stamp, deltime, at, prev, hist>>

\* cs_writeunlock behind the loop, whether the lock is held or not
LastUnlock ==
  /\ gpc[Collector] \in {"in", "on"} /\ (j = 4 \/ (j >= 0 /\ at = Nil))
  /\ GcUnlock(Collector, "free")
  /\ UNCHANGED <<clock, entry, coll, freed, early, overtaken>>

Free ==
  /\ gpc[Collector] = "free"
  /\ freed' = [d \in Data |-> IF d \in Chain(at) THEN freed[d] + 1 ELSE freed[d]]
  /\ early' = early \cup {d \in Chain(at) : ~(stamp[d] < clock - TimeoutTime)}
  /\ gpc' = [gpc EXCEPT ![Collector] = "start"]
  /\ deltime' = 0 /\ at' = Nil /\ prev' = Nil /\ j' = -1
  /\ UNCHANGED <<clock, gwritelock, entry, overtaken, beside>>

Tick ==
  /\ clock < MaxTime
  /\ clock' = clock + 1
  /\ UNCHANGED <<thread, entry, coll, hist>>

GcInit ==
  /\ clock = 0
  /\ first = Nil /\ next = [d \in Data |-> Nil] /\ stamp = [d \in Data |-> 0]
  /\ gpc = [t \in Users |-> "start"]
  /\ gwritelock = 0
  /\ deltime = 0 /\ at = Nil /\ prev = Nil /\ j = -1
  /\ freed = [d \in Data |-> 0] /\ early = {} /\ overtaken = {} /\ beside = FALSE

GcNext ==
  \/ \E d \in Data : Stamp(d) \/ AddLock(d) \/ Link(d) \/ AddUnlock(d)
  \/ Round \/ CollectLock \/ ReadFirst \/ EarlyUnlock \/ Pass \/ Cut \/ LastUnlock \/ Free
  \/ Tick

GcSpec == GcInit /\ [][GcNext]_gcVars

-----------------------------------------------------------------------------
\* Type invariant of a list of the garbage collector and its lock.
GcTypeOK ==
  /\ first \in Data \cup {Nil} /\ next \in [Data -> Data \cup {Nil}]
  /\ {at, prev} \subseteq Data \cup {Nil} /\ j \in -1..4
  /\ clock \in 0..MaxTime /\ deltime \in 0..clock
  /\ \A d \in Data : stamp[d] \in 0..clock
  /\ gpc \in [Users -> {"start", "stamped", "wait", "in", "linked", "added", "on", "free"}]
  /\ gwritelock \in 0..Cardinality(Users)

\* What add_garbage was given is in the list, or in the part that the collector has taken
\* out, or freed, and nothing is freed twice; until the collector, which leaves the lock a
\* second time when the list has more than two entries, lets two threads in.
NothingLost ==
  ~beside => \A d \in Data :
    gpc[d] = "added" =>
      /\ freed[d] <= 1
      /\ freed[d] = 0 => d \in Chain(first) \cup Chain(at)
      /\ freed[d] = 1 => d \notin Chain(first)

\* Memory stays for timeout_time, on which threads rely that still use it, unless it was
\* linked before an older entry whose thread had to wait for the lock: the collector takes
\* all that is behind an old entry.
NotEarly == ~beside => early \subseteq overtaken

\* The collector's second unlock forgets a thread in the counter, but nobody waits without a
\* thread inside that lets the next one in.
NobodyLockedOut == Queued # {} => Holders # {}
=============================================================================
