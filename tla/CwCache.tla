------------------------------ MODULE CwCache ------------------------------
(***************************************************************************)
(* The cache of CWs (ncam-cache.c): for each ECM hash the different CWs    *)
(* that readers and peers have supplied, counted and sorted by their       *)
(* counts, so that the CW most often received is the one to answer with;   *)
(* and the clean-up of hashes for which nothing comes any more.            *)
(*                                                                         *)
(* cache_lock is held by every operation, so each is a step.  All ECMs of  *)
(* a hash have the same parity.                                            *)
(***************************************************************************)
EXTENDS Integers, Sequences, FiniteSets, SequencesExt

CONSTANTS
  Hashes, Cws,
  MaxCws,     \* different CWs stored for a hash: 10
  MaxTime,    \* max_cache_time, in ticks
  CwCheck,    \* cwcheck: how often a CW of peers must have come
  Signed,     \* whether a caller sees -1 as such that count_sort returns in a uint8_t: may be
  MaxCounted  \* bound: copies of CWs counted in the cache

VARIABLES
  signed,    \* in this build it does
  cache,     \* ll_cache: hashes in order of arrival; first, upd: ages; cws: ll_cw
  event      \* history: what the last step was

vars == <<signed, cache, event>>

Favour == 251658240  \* 0x0F000000: set in the counter of a locally generated CW
Quiet   == [kind |-> "none"]

Has(h) == \E n \in DOMAIN cache : cache[n].hash = h
At(h)  == CHOOSE n \in DOMAIN cache : cache[n].hash = h

-----------------------------------------------------------------------------
(* sort_list: tommy_list_sort's merge sort with count_sort *)

Cmp(a, b) == IF a.count = b.count THEN 0
             ELSE IF a.count < b.count THEN 1 ELSE IF signed THEN -1 ELSE 255

Merged(a, b) ==
  LET merge[i \in 1..Len(a) + 1, j \in 1..Len(b) + 1] ==
        IF i > Len(a) THEN SubSeq(b, j, Len(b))
        ELSE IF j > Len(b) THEN SubSeq(a, i, Len(a))
        ELSE IF Cmp(a[i], b[j]) > 0 THEN <<b[j]>> \o merge[i, j + 1]
        ELSE <<a[i]>> \o merge[i + 1, j]
  IN IF Cmp(Last(a), Head(b)) <= 0 THEN a \o b
     ELSE IF Cmp(Last(b), Head(a)) < 0 THEN b \o a
     ELSE merge[1, 1]

\* The largest power of two below n, up to the 10 CWs of a hash
HalfOf(n) == CHOOSE p \in {1, 2, 4, 8} : p < n /\ 2 * p >= n

\* Mutant of Sorted: the list is left as it is.
SortedNot(s) == s
Sorted(s) ==
  LET sort[lo \in 1..Len(s), hi \in 1..Len(s)] ==
        IF hi = lo THEN <<s[lo]>>
        ELSE LET mid == lo + HalfOf(hi - lo + 1)
             IN Merged(sort[lo, mid - 1], sort[mid, hi])
  IN sort[1, Len(s)]

-----------------------------------------------------------------------------
\* Who has supplied a CW: peers only, or a proxy reader (cw->proxy), or a local one
\* (cw->localcards), which count for more whatever else comes.
Origins == {"peers", "proxy", "local"}
Best(o, p) == IF "local" \in {o, p} THEN "local" ELSE IF "proxy" \in {o, p} THEN "proxy" ELSE "peers"

\* A CW that comes again, or for the first time.  lg: it is flagged as locally generated, as
\* those of local readers are.
NewCw(c) == [cw |-> c, count |-> 0, lg |-> FALSE, bad |-> FALSE, from |-> "peers"]

Counted(e, lg) == (IF lg /\ e.count < Favour THEN e.count + Favour ELSE e.count) + 1
Updated(e, lg, from) == [e EXCEPT !.count = Counted(e, lg), !.lg = lg, !.from = Best(@, from)]

\* The list of a hash with one more c
Added(cws, c, lg, from) ==
  LET known == {n \in DOMAIN cws : cws[n].cw = c}
      all   == IF known = {} THEN Append(cws, NewCw(c)) ELSE cws
      n     == CHOOSE k \in DOMAIN all : all[k].cw = c
      new   == [all EXCEPT ![n] = Updated(@, lg, from)]
  IN IF new[n].count > 1 THEN Sorted(new) ELSE new

Entry(cws, c) == IF \E n \in DOMAIN cws : cws[n].cw = c
                 THEN cws[CHOOSE n \in DOMAIN cws : cws[n].cw = c] ELSE NewCw(c)

\* The copies counted in the cache
Copies == FoldSeq(LAMBDA e, s : FoldSeq(LAMBDA w, r : r + (w.count % Favour), s, e.cws), 0, cache)

\* add_cache
AddCache(h, c, flag, from) ==
  LET lg   == flag \/ from = "local"
      old  == IF Has(h) THEN cache
              ELSE Append(cache, [hash |-> h, first |-> 0, upd |-> 0, cws |-> <<>>])
      n    == CHOOSE k \in DOMAIN old : old[k].hash = h
      e    == Entry(old[n].cws, c)
      full == e.count = 0 /\ Len(old[n].cws) >= MaxCws
  IN /\ cache' = [old EXCEPT ![n].upd = 0,
                             ![n].cws = IF full THEN @ ELSE Added(@, c, lg, from)]
     /\ event' = Quiet
     /\ UNCHANGED signed

\* The position of get_first_cw's CW, 0 if there is none
FirstCw(cws) ==
  LET good == {n \in DOMAIN cws : ~cws[n].bad}
  IN IF good = {} THEN 0 ELSE CHOOSE n \in good : \A k \in good : n <= k

\* check_cache finds a CW for a request: local: preferlocalcards is 2 and stage below 3;
\* strict: the wait time is not over, or cwcheck's mode is 1; lgOnly: for an account that
\* takes locally generated CWs only.
CheckCache(h, local, strict, lgOnly) ==
  /\ Has(h)
  /\ LET cws == cache[At(h)].cws  n == FirstCw(cws)
     IN /\ n # 0
        /\ local => cws[n].from = "local"
        /\ cws[n].from = "peers" /\ CwCheck > 1 /\ cws[n].count < CwCheck => ~strict
        /\ lgOnly => cws[n].lg
        /\ event' = [kind |-> "answer", hash |-> h, cw |-> cws[n].cw]
  /\ UNCHANGED <<signed, cache>>

\* Or it fails the CW cycle check, and will not be looked at again.
FailsCycle(h) ==
  /\ Has(h)
  /\ LET n == FirstCw(cache[At(h)].cws)
     IN n # 0 /\ cache' = [cache EXCEPT ![At(h)].cws[n].bad = TRUE]
  /\ event' = Quiet
  /\ UNCHANGED signed

\* Mutant of Expired: the age of the hash.
ExpiredFirst(e) == e.first > MaxTime
Expired(e) == e.upd > MaxTime

\* cleanup_cache: hashes that arrived within max_cache_time end the search.
Cleanup ==
  /\ LET young == {n \in DOMAIN cache : cache[n].first <= MaxTime}
         gone  == {n \in DOMAIN cache : (\A k \in young : n < k) /\ Expired(cache[n])}
     IN cache' = SelectSeq(cache, LAMBDA e : \A n \in gone : cache[n] # e)
  /\ event' = [kind |-> "cleaned"]
  /\ UNCHANGED signed

Older(n) == IF n <= MaxTime THEN n + 1 ELSE n
Tick ==
  /\ cache' = [n \in DOMAIN cache |-> [cache[n] EXCEPT !.first = Older(@), !.upd = Older(@)]]
  /\ event' = Quiet
  /\ UNCHANGED signed

Init ==
  /\ signed \in Signed
  /\ cache = <<>> /\ event = Quiet

Next ==
  \/ /\ Copies < MaxCounted
     /\ \E h \in Hashes, c \in Cws, flag \in BOOLEAN, from \in Origins : AddCache(h, c, flag, from)
  \/ \E h \in Hashes :
       \/ \E local, strict, lgOnly \in BOOLEAN : CheckCache(h, local, strict, lgOnly)
       \/ FailsCycle(h)
  \/ Cleanup \/ Tick

Spec == Init /\ [][Next]_vars

-----------------------------------------------------------------------------
\* Type invariant of the cache: the hashes differ, the CWs of a hash differ, and a counter
\* holds the flag at most once.
TypeOK ==
  /\ \A m, n \in DOMAIN cache : cache[m].hash = cache[n].hash => m = n
  /\ \A n \in DOMAIN cache :
       /\ cache[n].hash \in Hashes /\ cache[n].upd \in 0..cache[n].first
       /\ Len(cache[n].cws) \in 0..MaxCws
       /\ \A j, k \in DOMAIN cache[n].cws :
            cache[n].cws[j].cw = cache[n].cws[k].cw => j = k
       /\ \A k \in DOMAIN cache[n].cws : cache[n].cws[k].count < 2 * Favour

\* check_cache answers with the CW that was received most often among those that did not
\* fail the cycle check, locally generated ones first.
MostReceived ==
  event.kind = "answer" =>
    LET cws == cache[At(event.hash)].cws
    IN \A n \in DOMAIN cws : ~cws[n].bad => cws[n].count <= Entry(cws, event.cw).count

\* The clean-up, which stops at the first young hash, leaves no hash for which nothing has
\* come for max_cache_time, and takes no other away.
CleanedUp ==
  [][event'.kind = "cleaned" =>
       \A h \in Hashes : Has(h)' <=> (Has(h) /\ cache[At(h)].upd <= MaxTime)]_vars
=============================================================================
