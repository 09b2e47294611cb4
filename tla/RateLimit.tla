----------------------------- MODULE RateLimit -----------------------------
(***************************************************************************)
(* The ECM rate limiter of a reader (ncam-reader.c): a table of slots, one *)
(* for each service the reader has lately been asked for, and a cooldown   *)
(* phase that decides whether their number is limited.                     *)
(*                                                                         *)
(* The reader's thread looks for a slot and enters the service in it;      *)
(* threads of clients look for a slot too, to see whether there is one,    *)
(* and free and move slots while they do.  No lock is taken.  A search is  *)
(* one step here; entering what it found is another.                       *)
(*                                                                         *)
(* ecmunique is off, and no service comes from the DVB API.                *)
(***************************************************************************)
EXTENDS Naturals, FiniteSets, FiniteSetsExt

CONSTANTS
  Services,   \* the services ECMs are for
  LimitOf,    \* LimitOf[s]: get_ratelimit's ratelimitecm, or else the reader's own
  Limit,      \* the reader's ratelimitecm
  MaxSlots,   \* MAXECMRATELIMIT
  Hold,       \* ratelimittime + srvidholdtime, in ticks
  Cooldowns,  \* whether cooldown[0] is set
  NoService

ASSUME RateAssumption ==
  /\ IsFiniteSet(Services) /\ NoService \notin Services
  /\ LimitOf \in [Services -> Nat]
  /\ Limit \in Nat /\ MaxSlots \in Nat /\ Hold \in Nat
  /\ Cooldowns \subseteq BOOLEAN

VARIABLES
  cooldown,       \* cooldown[0] is set
  rlecmh,         \* each slot: service, and age of its last request
  cooldownstate,  \* 0 set-up, 2 delay, 1 rate limit
  over,           \* the delay of cooldown[0] seconds is over
  found,          \* what the reader's thread has found for a request: a service, its slot
  since,          \* history: age of the last ECM of s that was passed on, at most Hold
  raced           \* history: a slot was moved between search and entry

rateVars == <<cooldown, rlecmh, cooldownstate, over, found, since, raced>>

RlSlots == 1..MaxSlots
Free  == [srv |-> NoService, age |-> 0]
NoSearch  == [srv |-> NoService, at |-> 0]

Used(t) == {n \in RlSlots : t[n].srv # NoService}

\* Mutant of DropOld: a slot is kept.
DropOldNot(t) == t
\* Slots whose time is over are released by every search.
DropOld(t) == [n \in RlSlots |-> IF t[n].age >= Hold THEN Free ELSE t[n]]

\* The most critical limit of the services in the table
MostCritical(t) == Min({MaxSlots} \cup {LimitOf[t[n].srv] : n \in Used(t)})

Limited(state) == ~cooldown \/ state = 1

LimitNow(t, state) == IF Limited(state) THEN MostCritical(t) ELSE MaxSlots

\* Searches give the table they leave and the slot found, 0 for none.
Searched(t, n) == [table |-> t, at |-> n]

Moved(t, n, to) == [t EXCEPT ![n] = Free, ![to] = t[n]]

\* s is in slot n: it moves to the lowest free slot below, and has to be within the limit.
FindKnown(t, max, n) ==
  LET lower == {k \in 1..n : k = n \/ t[k].srv = NoService}
      to    == Min(lower)
  IN IF to <= max THEN Searched(Moved(t, n, to), to) ELSE Searched([t EXCEPT ![n] = Free], 0)

\* Mutant of Fits: its own limit is forgotten.
FitsOthers(t, max, s) == Cardinality(Used(t)) + 1 <= max
\* s is new: with it there may be no more services than any of them allows.
Fits(t, max, s) == Cardinality(Used(t)) + 1 <= Min({max, LimitOf[s]})

FindNew(t, max, s, state) ==
  LET free == {n \in 1..max : t[n].srv = NoService}
  IN IF free = {} \/ (Limited(state) /\ ~Fits(t, max, s)) THEN Searched(t, 0)
     ELSE Searched(t, Min(free))

\* ecm_ratelimit_findspace
FindSpace(s, state, table) ==
  LET t     == DropOld(table)
      max   == LimitNow(t, state)
      known == {n \in Used(t) : t[n].srv = s}
  IN IF known # {} THEN FindKnown(t, max, Min(known)) ELSE FindNew(t, max, s, state)

\* The end of the delay: if the limit is still exceeded the rate limit phase begins, with
\* the slots above the limit released (sort_ecmrl, which compares a slot with itself and
\* leaves the order as it is).
Exceeded == Cardinality({n \in Used(rlecmh) : rlecmh[n].age <= Hold}) >= Limit
Phase ==
  IF ~cooldown THEN 0
  ELSE IF cooldownstate = 2 /\ over THEN (IF Exceeded THEN 1 ELSE 0)
  ELSE IF cooldownstate = 1 THEN 0 ELSE cooldownstate
Kept == IF cooldownstate = 2 /\ Phase = 1
        THEN [n \in RlSlots |-> IF n > Limit THEN Free ELSE rlecmh[n]] ELSE rlecmh

\* ecm_ratelimit_check up to the search
Search(s) == FindSpace(s, Phase, Kept)

\* matching_reader, in a client's thread, only asks.
LookUp(s) ==
  /\ rlecmh' = Search(s).table
  /\ cooldownstate' = Phase
  /\ raced' = (raced \/ (found # NoSearch /\ rlecmh' # rlecmh))
  /\ UNCHANGED <<cooldown, over, found, since>>

\* reader_get_ecm searches a slot for the service.
Find(s) ==
  /\ found = NoSearch
  /\ rlecmh' = Search(s).table
  /\ cooldownstate' = Phase
  /\ found' = [srv |-> s, at |-> Search(s).at]
  /\ UNCHANGED <<cooldown, over, since, raced>>

\* None is free: the request is answered with E2_RATELIMIT.
Refuse ==
  /\ found # NoSearch /\ found.at = 0
  /\ found' = NoSearch
  /\ UNCHANGED <<cooldown, rlecmh, cooldownstate, over, since, raced>>

\* It is entered, which may begin the delay of the cooldown, and the ECM passed on.
Enter ==
  /\ found # NoSearch /\ found.at # 0
  /\ rlecmh' = [rlecmh EXCEPT ![found.at] = [srv |-> found.srv, age |-> 0]]
  /\ since' = [since EXCEPT ![found.srv] = 0]
  /\ IF cooldown /\ cooldownstate = 0 /\ found.at > Limit
     THEN cooldownstate' = 2 /\ over' = FALSE
     ELSE UNCHANGED <<cooldownstate, over>>
  /\ found' = NoSearch
  /\ UNCHANGED <<cooldown, raced>>

\* Time passes; the reader's thread is not held up between search and entry.
TimePasses ==
  /\ found = NoSearch
  /\ rlecmh' = [n \in RlSlots |-> IF rlecmh[n] = Free THEN Free
                              ELSE [rlecmh[n] EXCEPT !.age = Min({@ + 1, Hold})]]
  /\ since' = [s \in Services |-> Min({since[s] + 1, Hold})]
  /\ over' \in {over, cooldownstate = 2}
  /\ UNCHANGED <<cooldown, cooldownstate, found, raced>>

RateInit ==
  /\ cooldown \in Cooldowns
  /\ rlecmh = [n \in RlSlots |-> Free]
  /\ cooldownstate = 0 /\ over = FALSE
  /\ found = NoSearch
  /\ since = [s \in Services |-> Hold]
  /\ raced = FALSE

RateNext ==
  \/ \E s \in Services : LookUp(s) \/ Find(s)
  \/ Refuse \/ Enter \/ TimePasses

RateSpec == RateInit /\ [][RateNext]_rateVars

-----------------------------------------------------------------------------
\* The services the reader was sent ECMs of in the last interval
Current == {s \in Services : since[s] < Hold}

\* Type invariant of the table; a service has two slots only after a race.
RateTypeOK ==
  /\ cooldown \in BOOLEAN
  /\ rlecmh \in [RlSlots -> [srv : Services \cup {NoService}, age : 0..Hold]]
  /\ cooldownstate \in {0, 1, 2} /\ over \in BOOLEAN
  /\ found \in [srv : Services \cup {NoService}, at : 0..MaxSlots]
  /\ since \in [Services -> 0..Hold]
  /\ ~raced => \A m, n \in Used(rlecmh) : rlecmh[m].srv = rlecmh[n].srv => m = n

\* Without cooldown, and until a search of a client's thread comes in between, the reader is
\* sent ECMs of no more services in an interval than the limit of any of them allows
\* (ecm_ratelimit_findspace's counting, moving and releasing of slots).
WithinLimit ==
  ~cooldown /\ ~raced => \A s \in Current : Cardinality(Current) <= LimitOf[s]

\* And it is not more strict than that: a request is refused only if the table has no room,
\* or if its service would exceed a limit; and if its service is among the current ones,
\* or in the set-up and delay phases of a cooldown, not even for its limit.
Full == Cardinality(Current) >= MaxSlots
RefusedForCause ==
  [][~raced => \A s \in Services :
       found = NoSearch /\ found' = [srv |-> s, at |-> 0] =>
         IF cooldown
         THEN cooldownstate' = 1 \/ Full
         ELSE /\ s \notin Current
              /\ Full \/ \E t \in Current \cup {s} : Cardinality(Current) >= LimitOf[t]]_rateVars

\* Both: every limit is kept, and none is invented.
RateKept == []WithinLimit /\ RefusedForCause
=============================================================================
