----------------------------- MODULE LinkedList -----------------------------
(***************************************************************************)
(* The shared linked lists (ncam-llist.c): nodes linked by pointers, and   *)
(* iterators that several threads keep between their calls while the list  *)
(* changes under them.                                                     *)
(*                                                                         *)
(* Every call holds the list's lock, so a call is a step.  A removed node  *)
(* goes to the garbage and its memory stays as it is while an iterator may *)
(* point to it (GarbageCollector).                                         *)
(***************************************************************************)
EXTENDS Naturals, FiniteSets, Chains

CONSTANTS
  Nodes,       \* nodes; each is put into the list once
  Walkers,     \* threads, each with one iterator
  MaxVersion   \* bound: changes of the list that iterators notice

ASSUME LlAssumption ==
  IsFiniteSet(Nodes) /\ Nil \notin Nodes \cup Walkers /\ MaxVersion \in Nat

VARIABLES
  nxt, initial, last, count, version,  \* the list: LLIST, and LL_NODE's nxt
  used,        \* nodes that have been allocated
  it,          \* it[t]: LL_ITER
  phase,       \* phase[t]: "idle", "on", or "done" when ll_iter_next has returned NULL
  seen,        \* history: seen[t]: what this iteration has returned
  due,         \* history: due[t]: nodes in the list since this iteration began
  strayed,     \* history: strayed[t]: where it stood was removed by another, or moved
  twice,       \* history: twice[t]: it returned a node again
  taken        \* history: taken[n]: how often the object of n was given to who removes it

list == <<nxt, initial, last, count, version, used>>
llHist == <<seen, due, strayed, twice, taken>>
llVars == <<list, it, phase, llHist>>

\* The nodes of the list, and those behind n
Linked    == ChainIn(Nodes, nxt, initial)
Behind(n) == ChainIn(Nodes, nxt, nxt[n])

\* The node after which a search for n ends: the one before it, Nil if n is the first
Before(n) == IF n = initial THEN Nil
             ELSE IF n \in Linked THEN CHOOSE p \in Linked : nxt[p] = n ELSE last

Start(v) == [cur |-> Nil, prv |-> Nil, ver |-> v]

-----------------------------------------------------------------------------
(* Iterators *)

\* Mutant of Resumed: an iterator that has lost its place gives up.
ResumedAtEnd(i) ==
  IF i.cur \in Linked THEN [cur |-> nxt[i.cur], prv |-> i.cur, ver |-> version]
  ELSE [cur |-> Nil, prv |-> Nil, ver |-> version]
\* The list has changed: the iterator looks for its place, or starts again.
Resumed(i) ==
  IF i.cur = Nil /\ i.prv = Nil THEN [cur |-> initial, prv |-> Nil, ver |-> version]
  ELSE IF i.cur \in Linked THEN [cur |-> nxt[i.cur], prv |-> i.cur, ver |-> version]
  ELSE [cur |-> initial, prv |-> Nil, ver |-> version]

\* ll_iter_next_nolock
Moves(i) ==
  IF i.ver # version THEN Resumed(i)
  ELSE IF i.cur # Nil THEN [i EXCEPT !.prv = i.cur, !.cur = nxt[i.cur]]
  ELSE IF i.prv = Nil THEN [i EXCEPT !.cur = initial] ELSE i

\* Mutant of Stale: prv is trusted.
StaleNever(i) == i.prv = Nil
\* prv may be wrong: the list is searched for cur.
Stale(i) == i.ver # version \/ i.prv = Nil
Prev(i)  == IF Stale(i) THEN Before(i.cur) ELSE i.prv
Found(i) == i.cur # Nil /\ (Stale(i) => i.cur \in Linked)

\* What a step of t's iterator to i returns
Returns(t, i) ==
  /\ phase' = [phase EXCEPT ![t] = IF i.cur = Nil THEN "done" ELSE "on"]
  /\ seen' = [seen EXCEPT ![t] = @ \cup ({i.cur} \ {Nil})]
  /\ twice' = [twice EXCEPT ![t] = @ \/ i.cur \in seen[t]]

\* The nodes of set are no longer in the list.
Leave(set, t) ==
  /\ due' = [u \in Walkers |-> due[u] \ set]
  /\ strayed' = [u \in Walkers |-> strayed[u] \/ (u # t /\ it[u].cur \in set)]

\* n, after p, is unlinked; i is then at p, or before the first node.
Unlink(n, p) ==
  /\ nxt' = IF p = Nil THEN nxt ELSE [nxt EXCEPT ![p] = nxt[n]]
  /\ initial' = IF p = Nil THEN nxt[n] ELSE initial
  /\ last' = IF initial' = Nil THEN Nil ELSE IF n = last THEN p ELSE last
  /\ count' = count - 1
  /\ version' = version + 1
Back(p) == [cur |-> p, prv |-> IF p = Nil THEN Nil ELSE Before(p), ver |-> version + 1]

\* ll_iter_create
Create(t) ==
  /\ phase[t] = "idle"
  /\ it' = [it EXCEPT ![t] = Start(version)]
  /\ phase' = [phase EXCEPT ![t] = "on"]
  /\ seen' = [seen EXCEPT ![t] = {}]
  /\ due' = [due EXCEPT ![t] = Linked]
  /\ strayed' = [strayed EXCEPT ![t] = FALSE]
  /\ twice' = [twice EXCEPT ![t] = FALSE]
  /\ UNCHANGED <<list, taken>>

\* ll_iter_next
IterNext(t) ==
  /\ phase[t] = "on"
  /\ it' = [it EXCEPT ![t] = Moves(it[t])]
  /\ Returns(t, Moves(it[t]))
  /\ UNCHANGED <<list, due, strayed, taken>>

\* ll_iter_remove, ll_iter_remove_data
Remove(t) ==
  /\ phase[t] = "on" /\ it[t].cur \in seen[t]
  /\ Found(it[t]) /\ version < MaxVersion
  /\ LET n == it[t].cur  p == Prev(it[t])
     IN /\ Unlink(n, p)
        /\ it' = [it EXCEPT ![t] = Back(p)]
        /\ Leave({n}, t)
        /\ taken' = [taken EXCEPT ![n] = @ + 1]
  /\ UNCHANGED <<used, phase, seen, twice>>

\* ll_iter_next_remove
NextRemove(t) ==
  /\ phase[t] = "on" /\ version < MaxVersion
  /\ LET i == Moves(it[t])
     IN /\ Returns(t, i)
        /\ IF i.cur = Nil
           THEN it' = [it EXCEPT ![t] = i] /\ UNCHANGED <<list, due, strayed, taken>>
           ELSE /\ Unlink(i.cur, Prev(i))
                /\ it' = [it EXCEPT ![t] = Back(Prev(i))]
                /\ Leave({i.cur}, t)
                /\ taken' = [taken EXCEPT ![i.cur] = @ + 1]
                /\ UNCHANGED used

\* ll_iter_move_first
MoveFirst(t) ==
  /\ phase[t] = "on" /\ it[t].cur # initial
  /\ Found(it[t]) /\ version < MaxVersion
  /\ LET n == it[t].cur  p == Prev(it[t])
     IN /\ nxt' = [nxt EXCEPT ![p] = nxt[n], ![n] = initial]
        /\ initial' = n
        /\ last' = IF last = n THEN p ELSE last
        /\ it' = [it EXCEPT ![t] = [cur |-> n, prv |-> Nil, ver |-> version + 1]]
  /\ version' = version + 1
  /\ strayed' = [u \in Walkers |-> TRUE]
  /\ UNCHANGED <<count, used, phase, seen, due, twice, taken>>

\* ll_append_nolock
Appended(n) ==
  /\ nxt' = IF last = Nil THEN nxt ELSE [nxt EXCEPT ![last] = n]
  /\ initial' = IF last = Nil THEN n ELSE initial
  /\ last' = n
  /\ count' = count + 1
  /\ used' = used \cup {n}

\* ll_append
LlAppend(n) ==
  /\ n \notin used
  /\ Appended(n)
  /\ UNCHANGED <<version, it, phase, llHist>>

\* ll_prepend
Prepend(n) ==
  /\ n \notin used
  /\ nxt' = [nxt EXCEPT ![n] = initial]
  /\ initial' = n
  /\ last' = IF last = Nil THEN n ELSE last
  /\ count' = count + 1
  /\ used' = used \cup {n}
  /\ UNCHANGED <<version, it, phase, llHist>>

\* ll_iter_insert behind the current node.  It takes the list's version over without a
\* search; its callers have reached the end, or hold a lock of their own against changes.
Insert(t, n) ==
  /\ phase[t] # "idle" /\ n \notin used
  /\ it[t].cur = Nil \/ it[t].ver = version
  /\ IF it[t].cur = Nil \/ nxt[it[t].cur] = Nil
     THEN Appended(n) /\ UNCHANGED <<version, it>>
     ELSE /\ version < MaxVersion
          /\ nxt' = [nxt EXCEPT ![it[t].cur] = n, ![n] = nxt[it[t].cur]]
          /\ count' = count + 1
          /\ version' = version + 1
          /\ it' = [it EXCEPT ![t].ver = version + 1]
          /\ used' = used \cup {n}
          /\ UNCHANGED <<initial, last>>
  /\ UNCHANGED <<phase, llHist>>

\* ll_clear
Clear ==
  /\ version < MaxVersion
  /\ initial' = Nil /\ last' = Nil /\ count' = 0
  /\ version' = version + 1
  /\ Leave(Linked, Nil)
  /\ UNCHANGED <<nxt, used, it, phase, seen, twice, taken>>

\* The iteration is over: at its end, or because its thread breaks it off.
Leaves(t) ==
  /\ phase[t] # "idle"
  /\ phase' = [phase EXCEPT ![t] = "idle"]
  /\ it' = [it EXCEPT ![t] = Start(0)]
  /\ seen' = [seen EXCEPT ![t] = {}]
  /\ due' = [due EXCEPT ![t] = {}]
  /\ strayed' = [strayed EXCEPT ![t] = FALSE]
  /\ twice' = [twice EXCEPT ![t] = FALSE]
  /\ UNCHANGED <<list, taken>>

LlInit ==
  /\ nxt = [n \in Nodes |-> Nil]
  /\ initial = Nil /\ last = Nil /\ count = 0 /\ version = 0
  /\ used = {}
  /\ it = [t \in Walkers |-> Start(0)]
  /\ phase = [t \in Walkers |-> "idle"]
  /\ seen = [t \in Walkers |-> {}] /\ due = [t \in Walkers |-> {}]
  /\ strayed = [t \in Walkers |-> FALSE] /\ twice = [t \in Walkers |-> FALSE]
  /\ taken = [n \in Nodes |-> 0]

LlNext ==
  \/ \E t \in Walkers : \/ Create(t) \/ IterNext(t) \/ Remove(t) \/ NextRemove(t)
                        \/ MoveFirst(t) \/ Leaves(t)
                        \/ \E n \in Nodes : Insert(t, n)
  \/ \E n \in Nodes : LlAppend(n) \/ Prepend(n)
  \/ Clear

LlSpec == LlInit /\ [][LlNext]_llVars

-----------------------------------------------------------------------------
\* Type invariant of a list and its iterators.
LlTypeOK ==
  /\ nxt \in [Nodes -> Nodes \cup {Nil}]
  /\ {initial, last} \subseteq Nodes \cup {Nil} /\ used \subseteq Nodes
  /\ version \in 0..MaxVersion /\ count \in 0..Cardinality(Nodes)
  /\ \A t \in Walkers : /\ {it[t].cur, it[t].prv} \subseteq used \cup {Nil}
                        /\ it[t].ver \in 0..version

\* Whatever iterators and other calls do between each other, the links of the list stay
\* sound: no cycle, the last node is last, count is the number of nodes, and no node is in
\* the list whose memory is in the garbage (unlinking with the remembered prv).
LinksSound ==
  /\ \A n \in Linked : n \notin Behind(n)
  /\ \A n \in Linked : (nxt[n] = Nil) <=> (n = last)
  /\ (last = Nil) <=> (initial = Nil)
  /\ count = Cardinality(Linked)
  /\ \A n \in Linked : taken[n] = 0
  /\ \A n \in Nodes : taken[n] <= 1

\* Until an iteration has lost its place, or nodes were moved under it, it returns no node
\* twice, and when it reaches the end it has returned every node that was in the list all
\* the time, also when it had to find its place again.
EachOnce ==
  \A t \in Walkers : ~strayed[t] =>
    ~twice[t] /\ (phase[t] = "done" => due[t] \subseteq seen[t])
=============================================================================
