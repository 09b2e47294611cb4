----------------------------- MODULE ListProofs -----------------------------
(***************************************************************************)
(* The lists whose nodes are linked by pointers, for any numbers of nodes, *)
(* threads and changes, and any times.                                     *)
(*                                                                         *)
(* Chains: what is reached along links, and what becomes of it when links  *)
(* are cut, skipped or put between; the least closed set takes the place   *)
(* of an induction along the list.                                         *)
(*                                                                         *)
(* The garbage collector's lock: its counter may have forgotten those      *)
(* inside but not those who wait (LockInv), so whoever leaves lets one of  *)
(* them in.  Its list, until two threads are inside at once (ListInv): no  *)
(* entry has two before it and none leads to itself, and the collector     *)
(* stands in it; what it cuts off and what stays have no entry in common,  *)
(* and together they are what was there.                                   *)
(*                                                                         *)
(* The list with iterators (LlInv): its links are sound; an iterator that  *)
(* has seen every change stands in it, behind the node it came from, and   *)
(* of the others nothing is trusted; what an iteration has returned is     *)
(* behind it, and what it owes ahead.                                      *)
(***************************************************************************)
EXTENDS Garbage, LinkedList, FiniteSetTheorems, TLAPS

-----------------------------------------------------------------------------
(* Chains of links: what ChainIn promises, whatever the links are.         *)

\* The links there may be between nodes of D
LinksOf(D) == [D -> D \cup {Nil}]

\* From d on there is d, what its link leads to, and nothing that a closed set with d leaves out.
LEMMA ChainNil == ASSUME NEW D, NEW nx PROVE ChainIn(D, nx, Nil) = {}
<1>1. Nil \in {} \cup {Nil} /\ Closed(nx, {}) /\ {} \in SUBSET D
  BY DEF Closed
<1> QED BY <1>1 DEF ChainIn

LEMMA ChainHas ==
  ASSUME NEW D, Nil \notin D, NEW nx, NEW d \in D
  PROVE  d \in ChainIn(D, nx, d) /\ ChainIn(D, nx, d) \subseteq D
  BY DEF ChainIn

LEMMA ChainData == ASSUME NEW D, NEW nx, NEW d PROVE ChainIn(D, nx, d) \subseteq D
  BY DEF ChainIn

LEMMA ChainClosed ==
  ASSUME NEW D, NEW nx \in LinksOf(D), NEW d
  PROVE  Closed(nx, ChainIn(D, nx, d))
<1> SUFFICES ASSUME NEW e \in ChainIn(D, nx, d), nx[e] # Nil PROVE nx[e] \in ChainIn(D, nx, d)
  BY DEF Closed
<1>1. e \in D /\ nx[e] \in D
  BY DEF ChainIn, LinksOf
<1>2. ASSUME NEW S \in SUBSET D, d \in S \cup {Nil}, Closed(nx, S) PROVE nx[e] \in S
  <2>1. e \in S
    BY <1>2 DEF ChainIn
  <2> QED BY <1>2, <2>1 DEF Closed
<1> QED BY <1>1, <1>2 DEF ChainIn

LEMMA ChainLeast ==
  ASSUME NEW D, NEW nx, NEW d, NEW S \in SUBSET D, d \in S \cup {Nil}, Closed(nx, S)
  PROVE  ChainIn(D, nx, d) \subseteq S
  BY DEF ChainIn

LEMMA ChainStep ==
  ASSUME NEW D, Nil \notin D, NEW nx \in LinksOf(D), NEW d \in D
  PROVE  ChainIn(D, nx, d) = {d} \cup ChainIn(D, nx, nx[d])
<1> DEFINE R == {d} \cup ChainIn(D, nx, nx[d])
<1>1. nx[d] \in D \cup {Nil}
  BY DEF LinksOf
<1>2. nx[d] \in ChainIn(D, nx, nx[d]) \cup {Nil}
  BY <1>1, ChainHas
<1>3. Closed(nx, R)
  <2>1. Closed(nx, ChainIn(D, nx, nx[d]))
    BY ChainClosed
  <2> QED BY <1>2, <2>1 DEF Closed
<1>4. R \in SUBSET D
  BY ChainData
<1>5. ChainIn(D, nx, d) \subseteq R
  <2> HIDE DEF R
  <2>1. d \in R \cup {Nil}
    BY DEF R
  <2> QED BY <1>3, <1>4, <2>1, ChainLeast
<1>6. ChainIn(D, nx, nx[d]) \subseteq ChainIn(D, nx, d)
  <2>1. d \in ChainIn(D, nx, d) /\ ChainIn(D, nx, d) \in SUBSET D /\ Closed(nx, ChainIn(D, nx, d))
    BY ChainHas, ChainClosed
  <2>2. nx[d] \in ChainIn(D, nx, d) \cup {Nil}
    BY <2>1 DEF Closed
  <2> QED BY <2>1, <2>2, ChainLeast
<1> QED BY <1>5, <1>6, ChainHas

\* What is behind an entry of a chain is in the chain.
LEMMA ChainSub ==
  ASSUME NEW D, NEW nx \in LinksOf(D), NEW d, NEW e \in ChainIn(D, nx, d)
  PROVE  ChainIn(D, nx, e) \subseteq ChainIn(D, nx, d)
<1>1. ChainIn(D, nx, d) \in SUBSET D /\ Closed(nx, ChainIn(D, nx, d))
  BY ChainData, ChainClosed
<1> QED BY <1>1, ChainLeast

\* A link that is taken away adds nothing to a chain.
LEMMA ChainShrinks ==
  ASSUME NEW D, Nil \notin D, NEW nx \in LinksOf(D), NEW ny, NEW d \in D \cup {Nil},
         \A e \in D : ny[e] \in {nx[e], Nil}
  PROVE  ChainIn(D, ny, d) \subseteq ChainIn(D, nx, d)
<1>1. ChainIn(D, nx, d) \in SUBSET D /\ Closed(nx, ChainIn(D, nx, d))
  BY ChainData, ChainClosed
<1>2. Closed(ny, ChainIn(D, nx, d))
  BY <1>1 DEF Closed
<1>3. d \in ChainIn(D, nx, d) \cup {Nil}
  BY ChainHas
<1> QED BY <1>1, <1>2, <1>3, ChainLeast

\* A link that is changed elsewhere leaves a chain alone.
LEMMA ChainSame ==
  ASSUME NEW D, Nil \notin D, NEW nx \in LinksOf(D), NEW ny \in LinksOf(D), NEW d \in D \cup {Nil},
         \A e \in ChainIn(D, nx, d) : ny[e] = nx[e]
  PROVE  ChainIn(D, ny, d) = ChainIn(D, nx, d)
<1>1. /\ ChainIn(D, nx, d) \in SUBSET D /\ Closed(nx, ChainIn(D, nx, d))
      /\ ChainIn(D, ny, d) \in SUBSET D /\ Closed(ny, ChainIn(D, ny, d))
  BY ChainData, ChainClosed
<1>2. d \in ChainIn(D, nx, d) \cup {Nil} /\ d \in ChainIn(D, ny, d) \cup {Nil}
  BY ChainHas
<1>3. Closed(ny, ChainIn(D, nx, d))
  BY <1>1 DEF Closed
<1>4. ChainIn(D, ny, d) \subseteq ChainIn(D, nx, d)
  BY <1>1, <1>2, <1>3, ChainLeast
<1>5. Closed(nx, ChainIn(D, ny, d))
  BY <1>1, <1>4 DEF Closed
<1>6. ChainIn(D, nx, d) \subseteq ChainIn(D, ny, d)
  BY <1>1, <1>2, <1>5, ChainLeast
<1> QED BY <1>4, <1>6

\* Who is in a chain is its first entry or has another one of it before.
LEMMA ChainBefore ==
  ASSUME NEW D, Nil \notin D, NEW nx \in LinksOf(D), NEW d \in D \cup {Nil}, NEW e \in ChainIn(D, nx, d), e # d
  PROVE  \E w \in ChainIn(D, nx, d) : nx[w] = e
<1> SUFFICES ASSUME \A w \in ChainIn(D, nx, d) : nx[w] # e PROVE FALSE
  OBVIOUS
<1> DEFINE S == ChainIn(D, nx, d) \ {e}
<1>1. S \in SUBSET D /\ Closed(nx, ChainIn(D, nx, d))
  BY ChainData, ChainClosed
<1>2. Closed(nx, S)
  BY <1>1 DEF Closed
<1>3. d \in S \cup {Nil}
  BY ChainHas
<1>4. ChainIn(D, nx, d) \subseteq S
  <2> HIDE DEF S
  <2> QED BY <1>1, <1>2, <1>3, ChainLeast
<1> QED BY <1>4

\* No entry leads to itself, and no two to the same one.
Straight(D, nx) ==
  /\ \A x \in D : x \notin ChainIn(D, nx, nx[x])
  /\ \A x, y \in D : nx[x] = nx[y] /\ nx[x] # Nil => x = y

CutBehind(D, nx, p, ny) == ny \in LinksOf(D) /\ \A e \in D : ny[e] = IF e = p THEN Nil ELSE nx[e]

\* A chain without loops, cut behind p: what was before and what was behind have nothing in
\* common, and nobody is lost.
LEMMA ChainCut ==
  ASSUME NEW D, Nil \notin D, NEW nx \in LinksOf(D), NEW d \in D, NEW p \in ChainIn(D, nx, d), nx[p] # Nil,
         Straight(D, nx), NEW ny, CutBehind(D, nx, p, ny)
  PROVE  /\ ChainIn(D, ny, nx[p]) = ChainIn(D, nx, nx[p])
         /\ ChainIn(D, ny, d) \cap ChainIn(D, nx, nx[p]) = {}
         /\ ChainIn(D, nx, d) = ChainIn(D, ny, d) \cup ChainIn(D, nx, nx[p])
<1> DEFINE A == ChainIn(D, nx, nx[p])
           C == ChainIn(D, nx, d)
           B == ChainIn(D, ny, d)
<1>1. /\ p \in D /\ nx[p] \in D /\ ny \in LinksOf(D)
      /\ \A e \in D : ny[e] = IF e = p THEN Nil ELSE nx[e]
  BY ChainData DEF LinksOf, CutBehind
<1>2. p \notin A
  BY <1>1 DEF Straight
<1>3. ChainIn(D, ny, nx[p]) = A
  <2>1. \A e \in A : ny[e] = nx[e]
    BY <1>1, <1>2, ChainData DEF LinksOf
  <2> QED BY <1>1, <2>1, ChainSame
<1>4. /\ C \in SUBSET D /\ Closed(nx, C) /\ A \in SUBSET D /\ Closed(nx, A)
      /\ B \in SUBSET D /\ Closed(ny, B)
  BY <1>1, ChainData, ChainClosed
<1>5. A \subseteq C
  <2>1. nx[p] \in C
    BY <1>4 DEF Closed
  <2> QED BY <2>1, ChainSub
<1>6. d \notin A
  <2> SUFFICES ASSUME d \in A PROVE FALSE
    OBVIOUS
  <2>1. C \subseteq A
    BY ChainSub
  <2> QED BY <1>2, <2>1
<1>7. Closed(ny, C \ A)
  <2> SUFFICES ASSUME NEW e \in C \ A, ny[e] # Nil PROVE ny[e] \in C \ A
    BY DEF Closed
  <2>1. e \in D /\ e # p /\ ny[e] = nx[e] /\ nx[e] \in C
    BY <1>1, <1>4 DEF Closed, LinksOf
  <2>2. nx[e] # nx[p]
    BY <1>1, <2>1 DEF Straight
  <2>3. ASSUME nx[e] \in A PROVE FALSE
    <3>1. PICK w \in A : nx[w] = nx[e]
      BY <1>1, <2>2, <2>3, ChainBefore
    <3>2. w = e
      BY <1>4, <2>1, <3>1 DEF Straight
    <3> QED BY <3>1, <3>2
  <2> QED BY <2>1, <2>3
<1>8. B \subseteq C \ A
  <2>1. d \in C \ A /\ (C \ A) \in SUBSET D
    BY <1>4, <1>6, ChainHas
  <2> HIDE DEF A, C, B
  <2> QED BY <1>7, <2>1, ChainLeast DEF B
<1>9. Closed(nx, B \cup A)
  <2> SUFFICES ASSUME NEW e \in B \cup A PROVE nx[e] \in B \cup A \cup {Nil}
    BY DEF Closed
  <2>1. CASE e \in A
    BY <1>4, <2>1 DEF Closed
  <2>2. CASE e \in B /\ e # p
    <3>1. ny[e] = nx[e] /\ ny[e] \in B \cup {Nil}
      BY <1>1, <1>4, <2>2 DEF Closed, LinksOf
    <3> QED BY <3>1
  <2>3. CASE e = p
    BY <1>1, <2>3, ChainHas
  <2> QED BY <2>1, <2>2, <2>3
<1>10. C \subseteq B \cup A
  <2>1. d \in B \cup A /\ (B \cup A) \in SUBSET D
    BY <1>4, ChainHas
  <2> HIDE DEF A, B
  <2> QED BY <1>9, <2>1, ChainLeast
<1> QED BY <1>3, <1>5, <1>8, <1>10

-----------------------------------------------------------------------------
(* Chains that do not lead back: what the operations of a list make of     *)
(* them.                                                                   *)

Path(D, nx, d) == \A x \in ChainIn(D, nx, d) : x \notin ChainIn(D, nx, nx[x])

\* Of two nodes of a chain, one is behind the other.
LEMMA ChainOrdered ==
  ASSUME NEW D, Nil \notin D, NEW nx \in LinksOf(D), NEW d \in D \cup {Nil},
         NEW x \in ChainIn(D, nx, d), NEW y \in ChainIn(D, nx, d)
  PROVE  x \in ChainIn(D, nx, y) \/ y \in ChainIn(D, nx, x)
<1> DEFINE C == ChainIn(D, nx, d)
           S == {e \in C : x \in ChainIn(D, nx, e) \/ e \in ChainIn(D, nx, x)}
<1>1. C \in SUBSET D /\ Closed(nx, C) /\ x \in D /\ Closed(nx, ChainIn(D, nx, x))
  BY ChainData, ChainClosed
<1>2. Closed(nx, S)
  <2> SUFFICES ASSUME NEW e \in S, nx[e] # Nil PROVE nx[e] \in S
    BY DEF Closed
  <2>1. nx[e] \in C /\ e \in D
    BY <1>1 DEF Closed
  <2>2. CASE e \in ChainIn(D, nx, x)
    <3>1. nx[e] \in ChainIn(D, nx, x)
      BY <1>1, <2>2 DEF Closed
    <3> QED BY <2>1, <3>1
  <2>3. CASE x \in ChainIn(D, nx, e) /\ e # x
    <3>1. x \in ChainIn(D, nx, nx[e])
      BY <2>1, <2>3, ChainStep
    <3> QED BY <2>1, <3>1
  <2>4. e = x => e \in ChainIn(D, nx, x)
    BY <1>1, ChainHas
  <2> QED BY <2>2, <2>3, <2>4
<1>3. d \in S
  <2>1. d # Nil
    BY ChainNil
  <2> QED BY <2>1, ChainHas
<1>4. C \subseteq S
  <2> HIDE DEF S
  <2>1. S \in SUBSET D
    BY <1>1 DEF S
  <2> QED BY <1>2, <1>3, <2>1, ChainLeast
<1> QED BY <1>4

\* No two nodes of it lead to the same one.
LEMMA PathSingle ==
  ASSUME NEW D, Nil \notin D, NEW nx \in LinksOf(D), NEW d \in D \cup {Nil}, Path(D, nx, d),
         NEW x \in ChainIn(D, nx, d), NEW y \in ChainIn(D, nx, d), nx[x] = nx[y]
  PROVE  x = y
<1> SUFFICES ASSUME x # y PROVE FALSE
  OBVIOUS
<1>1. x \in D /\ y \in D
  BY ChainData
<1>2. x \in ChainIn(D, nx, nx[y]) \/ y \in ChainIn(D, nx, nx[x])
  BY <1>1, ChainOrdered, ChainStep
<1> QED BY <1>2 DEF Path

LEMMA PathSub ==
  ASSUME NEW D, Nil \notin D, NEW nx \in LinksOf(D), NEW d \in D \cup {Nil}, Path(D, nx, d),
         NEW e \in ChainIn(D, nx, d)
  PROVE  /\ Path(D, nx, e) /\ Path(D, nx, nx[e])
         /\ nx[e] \in ChainIn(D, nx, d) \cup {Nil}
         /\ ChainIn(D, nx, nx[e]) \subseteq ChainIn(D, nx, d)
         /\ e \notin ChainIn(D, nx, nx[e])
<1>1. e \in D /\ ChainIn(D, nx, e) \subseteq ChainIn(D, nx, d)
  BY ChainData, ChainSub
<1>2. ChainIn(D, nx, nx[e]) \subseteq ChainIn(D, nx, e)
  BY <1>1, ChainStep
<1>3. nx[e] \in ChainIn(D, nx, d) \cup {Nil}
  BY ChainClosed DEF Closed
<1> QED BY <1>1, <1>2, <1>3 DEF Path

\* A link that skips a node takes that node out of the chain.
SkipsBehind(D, nx, p, ny) ==
  ny \in LinksOf(D) /\ \A e \in D : ny[e] = IF e = p THEN nx[nx[p]] ELSE nx[e]

LEMMA SkippedShrinks ==
  ASSUME NEW D, Nil \notin D, NEW nx \in LinksOf(D), NEW ny, NEW p \in D, nx[p] # Nil,
         SkipsBehind(D, nx, p, ny), NEW e \in D \cup {Nil}
  PROVE  ChainIn(D, ny, e) \subseteq ChainIn(D, nx, e)
<1>1. ChainIn(D, nx, e) \in SUBSET D /\ Closed(nx, ChainIn(D, nx, e))
  BY ChainData, ChainClosed
<1>2. e \in ChainIn(D, nx, e) \cup {Nil}
  BY ChainHas
<1>3. Closed(ny, ChainIn(D, nx, e))
  <2> SUFFICES ASSUME NEW c \in ChainIn(D, nx, e) PROVE ny[c] \in ChainIn(D, nx, e) \cup {Nil}
    BY DEF Closed
  <2> QED BY <1>1 DEF Closed, SkipsBehind
<1> QED BY <1>1, <1>2, <1>3, ChainLeast

LEMMA SkippedChain ==
  ASSUME NEW D, Nil \notin D, NEW nx \in LinksOf(D), NEW d \in D \cup {Nil}, Path(D, nx, d),
         NEW p \in ChainIn(D, nx, d), nx[p] # Nil, NEW ny, SkipsBehind(D, nx, p, ny)
  PROVE  /\ nx[p] # d
         /\ ChainIn(D, ny, d) = ChainIn(D, nx, d) \ {nx[p]}
<1> DEFINE C == ChainIn(D, nx, d)
           B == ChainIn(D, ny, d)
           n == nx[p]
<1>0. d # Nil /\ d \in D
  BY ChainNil
<1>1. /\ C \in SUBSET D /\ Closed(nx, C) /\ B \in SUBSET D /\ Closed(ny, B)
      /\ p \in D /\ n \in D /\ n \in C /\ nx[n] \in C \cup {Nil} /\ d \in C /\ d \in B
  <2>1. ny \in LinksOf(D) /\ p \in D /\ n \in D
    BY ChainData DEF LinksOf, SkipsBehind
  <2>2. C \in SUBSET D /\ Closed(nx, C) /\ B \in SUBSET D /\ Closed(ny, B)
    BY <2>1, ChainData, ChainClosed
  <2>3. n \in C /\ nx[n] \in C \cup {Nil}
    BY <2>1, <2>2 DEF Closed
  <2> QED BY <1>0, <2>1, <2>2, <2>3, ChainHas
<1>2. n # d
  BY DEF Path
<1>3. n \notin ChainIn(D, nx, nx[n]) /\ nx[n] # n
  <2>1. n \notin ChainIn(D, nx, nx[n])
    BY <1>1 DEF Path
  <2> QED BY <1>1, <2>1, ChainHas
<1>4. B \subseteq C \ {n}
  <2>1. Closed(ny, C \ {n})
    <3> SUFFICES ASSUME NEW e \in C \ {n} PROVE ny[e] \in (C \ {n}) \cup {Nil}
      BY DEF Closed
    <3>1. CASE e = p
      BY <1>1, <1>3, <3>1 DEF SkipsBehind
    <3>2. CASE e # p
      <4>1. ny[e] = nx[e] /\ nx[e] \in C \cup {Nil}
        BY <1>1, <3>2 DEF SkipsBehind, Closed
      <4>2. nx[e] # n
        BY <3>2, PathSingle
      <4> QED BY <4>1, <4>2
    <3> QED BY <3>1, <3>2
  <2>2. d \in C \ {n} /\ (C \ {n}) \in SUBSET D
    BY <1>1, <1>2
  <2> HIDE DEF C, n
  <2> QED BY <2>1, <2>2, ChainLeast
<1>5. p \in B
  <2> SUFFICES ASSUME p \notin B PROVE FALSE
    OBVIOUS
  <2>1. Closed(nx, B)
    BY <1>1 DEF Closed, SkipsBehind
  <2>2. C \subseteq B
    BY <1>1, <2>1, ChainLeast
  <2> QED BY <2>2
<1>6. C \subseteq B \cup {n}
  <2>1. Closed(nx, B \cup {n})
    <3> SUFFICES ASSUME NEW e \in B \cup {n} PROVE nx[e] \in B \cup {n} \cup {Nil}
      BY DEF Closed
    <3>1. CASE e = n
      <4>1. ny[p] = nx[n] /\ ny[p] \in B \cup {Nil}
        BY <1>1, <1>5 DEF SkipsBehind, Closed
      <4> QED BY <3>1, <4>1
    <3>2. CASE e \in B /\ e # p
      <4>1. ny[e] = nx[e] /\ ny[e] \in B \cup {Nil}
        BY <1>1, <3>2 DEF SkipsBehind, Closed
      <4> QED BY <4>1
    <3> QED BY <3>1, <3>2
  <2>2. d \in B \cup {n} /\ (B \cup {n}) \in SUBSET D
    BY <1>1
  <2> HIDE DEF B, n
  <2> QED BY <2>1, <2>2, ChainLeast
<1> QED BY <1>2, <1>4, <1>6

LEMMA Skipped ==
  ASSUME NEW D, Nil \notin D, NEW nx \in LinksOf(D), NEW d \in D \cup {Nil}, Path(D, nx, d),
         NEW p \in ChainIn(D, nx, d), nx[p] # Nil, NEW ny, SkipsBehind(D, nx, p, ny)
  PROVE  /\ nx[p] # d
         /\ ChainIn(D, ny, d) = ChainIn(D, nx, d) \ {nx[p]}
         /\ Path(D, ny, d)
         /\ \A e \in ChainIn(D, nx, d) \ {nx[p]} :
              ChainIn(D, ny, ny[e]) = ChainIn(D, nx, nx[e]) \ {nx[p]}
<1> DEFINE C == ChainIn(D, nx, d)
           n == nx[p]
<1>1. /\ C \in SUBSET D /\ ny \in LinksOf(D) /\ p \in D /\ n \in D /\ n \in C
      /\ \A e \in D : ny[e] = IF e = p THEN nx[n] ELSE nx[e]
  <2>1. p \in D /\ C \in SUBSET D /\ n \in C \cup {Nil}
    BY ChainData, PathSub
  <2> QED BY <2>1 DEF SkipsBehind
<1>2. n # d /\ ChainIn(D, ny, d) = C \ {n}
  BY SkippedChain
<1>3. ASSUME NEW e \in C \ {n} PROVE ChainIn(D, ny, ny[e]) = ChainIn(D, nx, nx[e]) \ {n}
  <2>1. CASE e = p
    <3>1. ChainIn(D, nx, n) = {n} \cup ChainIn(D, nx, nx[n]) /\ n \notin ChainIn(D, nx, nx[n])
      BY <1>1, ChainStep DEF Path
    <3>2. p \notin ChainIn(D, nx, nx[n])
      BY <3>1 DEF Path
    <3>3. \A c \in ChainIn(D, nx, nx[n]) : ny[c] = nx[c]
      BY <1>1, <3>2, ChainData
    <3>4. nx[n] \in D \cup {Nil}
      BY <1>1 DEF LinksOf
    <3>5. ChainIn(D, ny, nx[n]) = ChainIn(D, nx, nx[n])
      BY <1>1, <3>3, <3>4, ChainSame
    <3> QED BY <1>1, <2>1, <3>1, <3>5
  <2>2. CASE e # p
    <3>1. ny[e] = nx[e] /\ nx[e] \in C \cup {Nil} /\ nx[e] # n /\ Path(D, nx, nx[e])
      BY <1>1, <2>2, PathSingle, PathSub
    <3>2. CASE p \in ChainIn(D, nx, nx[e])
      <4>1. nx[e] \in D \cup {Nil}
        BY <1>1, <3>1
      <4> QED BY <3>1, <3>2, <4>1, SkippedChain
    <3>3. CASE p \notin ChainIn(D, nx, nx[e])
      <4>1. nx[e] \in D \cup {Nil} /\ ChainIn(D, nx, nx[e]) \subseteq C
        BY <1>1, <3>1, PathSub
      <4>2. ChainIn(D, ny, nx[e]) = ChainIn(D, nx, nx[e])
        BY <1>1, <3>3, <4>1, ChainSame
      <4>3. n \notin ChainIn(D, nx, nx[e])
        <5> SUFFICES ASSUME n \in ChainIn(D, nx, nx[e]) PROVE FALSE
          OBVIOUS
        <5>1. PICK w \in ChainIn(D, nx, nx[e]) : nx[w] = n
          BY <3>1, <4>1, ChainBefore
        <5>2. w = p
          BY <4>1, <5>1, PathSingle
        <5> QED BY <3>3, <5>2
      <4> QED BY <3>1, <4>2, <4>3
    <3> QED BY <3>2, <3>3
  <2> QED BY <2>1, <2>2
<1>4. Path(D, ny, d)
  BY <1>2, <1>3 DEF Path
<1> QED BY <1>2, <1>3, <1>4

\* A link to a new node that leads on where it led puts the node into the chain.
PutsBehind(D, nx, p, n, ny) ==
  ny \in LinksOf(D) /\ \A e \in D : ny[e] = IF e = p THEN n ELSE IF e = n THEN nx[p] ELSE nx[e]

LEMMA PutBehind ==
  ASSUME NEW D, Nil \notin D, NEW nx \in LinksOf(D), NEW d \in D \cup {Nil}, Path(D, nx, d),
         NEW p \in ChainIn(D, nx, d), NEW n \in D \ ChainIn(D, nx, d),
         NEW ny, PutsBehind(D, nx, p, n, ny)
  PROVE  /\ ChainIn(D, ny, d) = ChainIn(D, nx, d) \cup {n}
         /\ Path(D, ny, d)
         /\ \A e \in ChainIn(D, nx, d) :
              /\ ChainIn(D, nx, nx[e]) \subseteq ChainIn(D, ny, ny[e])
              /\ ChainIn(D, ny, ny[e]) \subseteq ChainIn(D, nx, nx[e]) \cup {n}
<1> DEFINE C == ChainIn(D, nx, d)
<1>1. /\ C \in SUBSET D /\ Closed(nx, C) /\ ny \in LinksOf(D) /\ p \in D /\ p # n
      /\ \A e \in D : ny[e] = IF e = p THEN n ELSE IF e = n THEN nx[p] ELSE nx[e]
  BY ChainData, ChainClosed DEF PutsBehind
\* Chains without p stay.
<1>2. ASSUME NEW e \in C \cup {Nil}, p \notin ChainIn(D, nx, e)
      PROVE  ChainIn(D, ny, e) = ChainIn(D, nx, e)
  <2>1. ChainIn(D, nx, e) \subseteq C /\ e \in D \cup {Nil}
    BY <1>1, ChainNil, ChainSub
  <2>2. \A c \in ChainIn(D, nx, e) : ny[c] = nx[c]
    BY <1>1, <1>2, <2>1
  <2> QED BY <1>1, <2>1, <2>2, ChainSame
<1>3. nx[p] \in C \cup {Nil} /\ p \notin ChainIn(D, nx, nx[p])
  BY <1>1 DEF Path, Closed
<1>4. ChainIn(D, ny, n) = {n} \cup ChainIn(D, nx, nx[p])
  <2>1. ChainIn(D, ny, n) = {n} \cup ChainIn(D, ny, ny[n])
    BY <1>1, ChainStep
  <2> QED BY <1>1, <1>2, <1>3, <2>1
\* Chains with p get n.
<1>5. ASSUME NEW e \in C, p \in ChainIn(D, nx, e)
      PROVE  ChainIn(D, ny, e) = ChainIn(D, nx, e) \cup {n}
  <2> DEFINE A == ChainIn(D, nx, e)
             B == ChainIn(D, ny, e)
  <2>1. /\ A \in SUBSET D /\ Closed(nx, A) /\ B \in SUBSET D /\ Closed(ny, B)
        /\ A \subseteq C /\ e \in A /\ e \in B /\ e \in D
    <3>1. e \in D
      BY <1>1
    <3> QED BY <1>1, <3>1, ChainData, ChainClosed, ChainSub, ChainHas
  <2>2. Closed(ny, A \cup {n})
    <3> SUFFICES ASSUME NEW c \in A \cup {n} PROVE ny[c] \in A \cup {n} \cup {Nil}
      BY DEF Closed
    <3>1. nx[p] \in A \cup {Nil}
      BY <1>5, <2>1 DEF Closed
    <3>2. c \in A => nx[c] \in A \cup {Nil}
      BY <2>1 DEF Closed
    <3> QED BY <1>1, <2>1, <3>1, <3>2
  <2>3. B \subseteq A \cup {n}
    <3>1. e \in A \cup {n} /\ (A \cup {n}) \in SUBSET D
      BY <2>1
    <3> HIDE DEF A, B
    <3> QED BY <2>2, <3>1, ChainLeast DEF B
  <2>4. p \in B
    <3> SUFFICES ASSUME p \notin B PROVE FALSE
      OBVIOUS
    <3>1. n \notin B
      <4> SUFFICES ASSUME n \in B PROVE FALSE
        OBVIOUS
      <4>1. n # e
        BY <2>1
      <4>2. PICK w \in B : ny[w] = n
        BY <1>1, <2>1, <4>1, ChainBefore
      <4>3. w # n /\ w \in D
        <5>1. ny[n] = nx[p] /\ nx[p] # n
          BY <1>1, <1>3
        <5> QED BY <2>1, <4>2, <5>1
      <4>4. nx[w] = n
        BY <1>1, <4>2, <4>3
      <4>5. w \in A
        BY <2>3, <4>2, <4>3
      <4>6. nx[w] \in C \cup {Nil}
        BY <1>1, <2>1, <4>5 DEF Closed
      <4> QED BY <4>4, <4>6
    <3>2. Closed(nx, B)
      <4> SUFFICES ASSUME NEW c \in B PROVE nx[c] \in B \cup {Nil}
        BY DEF Closed
      <4>1. ny[c] = nx[c] /\ ny[c] \in B \cup {Nil}
        BY <1>1, <2>1, <3>1 DEF Closed
      <4> QED BY <4>1
    <3>3. A \subseteq B
      BY <2>1, <3>2, ChainLeast
    <3> QED BY <1>5, <3>3
  <2>5. n \in B
    BY <1>1, <2>1, <2>4 DEF Closed
  <2>6. A \subseteq B
    <3>1. nx[p] \in B \cup {Nil}
      <4>1. ny[n] = nx[p] /\ ny[n] \in B \cup {Nil}
        BY <1>1, <2>1, <2>5 DEF Closed
      <4> QED BY <4>1
    <3>2. Closed(nx, A \cap B)
      <4> SUFFICES ASSUME NEW c \in A \cap B PROVE nx[c] \in (A \cap B) \cup {Nil}
        BY DEF Closed
      <4>1. nx[c] \in A \cup {Nil}
        BY <2>1 DEF Closed
      <4>2. c # p => nx[c] \in B \cup {Nil}
        <5>1. c # n /\ c \in D
          BY <2>1
        <5>2. c # p => ny[c] = nx[c] /\ ny[c] \in B \cup {Nil}
          BY <1>1, <2>1, <5>1 DEF Closed
        <5> QED BY <5>2
      <4> QED BY <3>1, <4>1, <4>2
    <3>3. e \in A \cap B /\ (A \cap B) \in SUBSET D
      BY <2>1
    <3>4. A \subseteq A \cap B
      <4> HIDE DEF B
      <4> QED BY <3>2, <3>3, ChainLeast
    <3> QED BY <3>4
  <2> QED BY <2>3, <2>5, <2>6
<1>6. ChainIn(D, ny, d) = C \cup {n}
  <2>1. d \in C
    BY ChainNil, ChainHas
  <2> QED BY <1>5, <2>1
<1>7. ASSUME NEW e \in C
      PROVE  /\ ChainIn(D, nx, nx[e]) \subseteq ChainIn(D, ny, ny[e])
             /\ ChainIn(D, ny, ny[e]) \subseteq ChainIn(D, nx, nx[e]) \cup {n}
  <2>1. CASE e = p
    BY <1>1, <1>4, <2>1
  <2>2. CASE e # p
    <3>1. ny[e] = nx[e] /\ nx[e] \in C \cup {Nil}
      BY <1>1, <2>2 DEF Closed
    <3>2. p \in ChainIn(D, nx, nx[e]) => nx[e] # Nil
      BY ChainNil
    <3> QED BY <1>2, <1>5, <3>1, <3>2
  <2> QED BY <2>1, <2>2
<1>8. Path(D, ny, d)
  <2> SUFFICES ASSUME NEW e \in C \cup {n} PROVE e \notin ChainIn(D, ny, ny[e])
    BY <1>6 DEF Path
  <2>1. CASE e = n
    <3>1. ny[n] = nx[p] /\ ChainIn(D, ny, nx[p]) = ChainIn(D, nx, nx[p])
      BY <1>1, <1>2, <1>3
    <3>2. n \notin ChainIn(D, nx, nx[p])
      BY <1>1, <1>3, ChainNil, ChainSub
    <3> QED BY <2>1, <3>1, <3>2
  <2>2. CASE e \in C
    <3>1. e \notin ChainIn(D, nx, nx[e]) /\ e # n
      BY <2>2 DEF Path
    <3> QED BY <1>7, <2>2, <3>1
  <2> QED BY <2>1, <2>2
<1> QED BY <1>6, <1>7, <1>8

\* A new first node leads to the old one.
PutsFirst(D, nx, n, d, ny) ==
  ny \in LinksOf(D) /\ \A e \in D : ny[e] = IF e = n THEN d ELSE nx[e]

LEMMA PutFirst ==
  ASSUME NEW D, Nil \notin D, NEW nx \in LinksOf(D), NEW d \in D \cup {Nil}, Path(D, nx, d),
         NEW n \in D \ ChainIn(D, nx, d), NEW ny, PutsFirst(D, nx, n, d, ny)
  PROVE  /\ ChainIn(D, ny, n) = ChainIn(D, nx, d) \cup {n}
         /\ ChainIn(D, ny, d) = ChainIn(D, nx, d)
         /\ Path(D, ny, n)
         /\ \A e \in ChainIn(D, nx, d) : ChainIn(D, ny, ny[e]) = ChainIn(D, nx, nx[e])
<1> DEFINE C == ChainIn(D, nx, d)
<1>1. /\ C \in SUBSET D /\ ny \in LinksOf(D)
      /\ \A e \in D : ny[e] = IF e = n THEN d ELSE nx[e]
  BY ChainData DEF PutsFirst
<1>2. ASSUME NEW e \in D \cup {Nil}, ChainIn(D, nx, e) \subseteq C
      PROVE  ChainIn(D, ny, e) = ChainIn(D, nx, e)
  <2>1. \A c \in ChainIn(D, nx, e) : ny[c] = nx[c]
    BY <1>1, <1>2
  <2> QED BY <1>1, <2>1, ChainSame
<1>3. ChainIn(D, ny, d) = C
  BY <1>2
<1>4. ChainIn(D, ny, n) = {n} \cup ChainIn(D, ny, ny[n])
  BY <1>1, ChainStep
<1>5. ChainIn(D, ny, n) = C \cup {n}
  BY <1>1, <1>3, <1>4
<1>6. ASSUME NEW e \in C PROVE ChainIn(D, ny, ny[e]) = ChainIn(D, nx, nx[e])
  <2>1. ny[e] = nx[e] /\ nx[e] \in D \cup {Nil} /\ ChainIn(D, nx, nx[e]) \subseteq C
    BY <1>1, PathSub
  <2> QED BY <1>2, <2>1
<1>7. Path(D, ny, n)
  <2> SUFFICES ASSUME NEW e \in C \cup {n} PROVE e \notin ChainIn(D, ny, ny[e])
    BY <1>5 DEF Path
  <2>1. CASE e = n
    BY <1>1, <1>3, <2>1
  <2>2. CASE e # n
    BY <1>6, <2>2 DEF Path
  <2> QED BY <2>1, <2>2
<1> QED BY <1>3, <1>5, <1>6, <1>7

-----------------------------------------------------------------------------
(* The garbage collector (ncam-garbage.c)                                  *)

Places == {"start", "stamped", "wait", "in", "linked", "added", "on", "free"}

Types ==
  /\ first \in Data \cup {Nil} /\ next \in [Data -> Data \cup {Nil}]
  /\ stamp \in [Data -> Nat]
  /\ at \in Data \cup {Nil} /\ prev \in Data \cup {Nil} /\ j \in -1..4
  /\ clock \in 0..MaxTime /\ deltime \in 0..clock
  /\ \A d \in Data : stamp[d] <= clock
  /\ gpc \in [Users -> Places]
  /\ freed \in [Data -> Nat]
  /\ beside \in BOOLEAN

LockInv ==
  /\ gwritelock \in Nat
  /\ gwritelock <= Cardinality(Queued \cup Holders)
  /\ Queued # {} => Holders # {} /\ Cardinality(Queued) < gwritelock

Added == {d \in Data : gpc[d] = "added"}
Single == \A t, u \in Holders : t = u

\* The links: no two to one entry, none back to where it comes from, and none to the first
\* entry but that of the thread that is about to put its own before it.
Shape ==
  /\ first \in Added \cup {Nil}
  /\ \A x \in Data : next[x] \in Added \cup {Nil}
  /\ \A x \in Data : gpc[x] \notin {"linked", "added"} => next[x] = Nil
  /\ \A x \in Data : gpc[x] = "linked" => next[x] = first
  /\ \A x \in Data : x \notin Chain(next[x])
  /\ \A x, y \in Data : next[x] = next[y] /\ next[x] # Nil => x = y
  /\ \A x \in Data : next[x] = first /\ first # Nil => gpc[x] = "linked"

Walking == gpc[Collector] \in {"in", "on"} /\ j \in 0..3

\* Where the collector stands
Stand ==
  /\ gpc[Collector] \notin {"linked", "added"}
  /\ gpc[Collector] \in {"start", "stamped", "wait"} => j = -1
  /\ gpc[Collector] = "on" => j \in {3, 4}
  /\ gpc[Collector] = "free" => j # -1
  /\ j = -1 => at = Nil
  /\ at \in Added \cup {Nil}
  /\ Walking /\ prev = Nil => gpc[Collector] = "in" /\ j = 0 /\ at = first
  /\ Walking /\ prev # Nil => prev \in Chain(first) /\ next[prev] = at
  /\ j = 4 \/ gpc[Collector] = "free" => Chain(at) \cap Chain(first) = {}
  /\ (j = 4 \/ gpc[Collector] = "free") /\ at # Nil => Old(at)

\* Every entry is in the list or cut off from it, or freed once.
Fate ==
  /\ \A x \in Data : freed[x] \in {0, 1}
  /\ \A x \in Chain(first) \cup Chain(at) : freed[x] = 0
  /\ \A x \in Data \ Added : freed[x] = 0
  /\ \A x \in Added : freed[x] = 0 => x \in Chain(first) \cup Chain(at)

\* What is behind an entry is older, or was overtaken.
Ages ==
  /\ \A x \in Added : \A y \in Chain(next[x]) : stamp[y] <= stamp[x] \/ y \in overtaken
  /\ early \subseteq overtaken

ListInv == ~beside => Single /\ Shape /\ Stand /\ Fate /\ Ages

-----------------------------------------------------------------------------
LEMMA UsersFinite == IsFiniteSet(Users) /\ \A S \in SUBSET Users : IsFiniteSet(S)
<1>1. IsFiniteSet(Data \cup {Collector})
  BY GcAssumption, FS_AddElement
<1>2. ASSUME NEW S \in SUBSET Users PROVE IsFiniteSet(S)
  BY <1>1, FS_Subset, Zenon DEF Users
<1> QED BY <1>1, <1>2 DEF Users

LEMMA Subsets ==
  /\ Queued \in SUBSET Users /\ Holders \in SUBSET Users /\ Queued \cap Holders = {}
  BY DEF Queued, Holders

LEMMA InitTypes == GcInit => Types /\ LockInv
<1> SUFFICES ASSUME GcInit PROVE Types /\ LockInv
  OBVIOUS
<1>1. Types
  <2>1. gpc \in [Users -> Places] /\ beside \in BOOLEAN
    BY Zenon DEF GcInit, Places
  <2>2. freed \in [Data -> Nat] /\ stamp \in [Data -> Nat] /\ next \in [Data -> Data \cup {Nil}]
    BY DEF GcInit
  <2>3. clock \in 0..MaxTime /\ deltime \in 0..clock /\ j \in -1..4 /\ \A d \in Data : stamp[d] <= clock
    BY GcAssumption DEF GcInit
  <2> QED BY <2>1, <2>2, <2>3 DEF GcInit, Types
<1>2. Queued = {} /\ Holders = {} /\ gwritelock = 0
  BY DEF GcInit, Queued, Holders
<1> QED BY <1>1, <1>2, FS_EmptySet DEF LockInv

\* A thread that asks for the lock is inside, or waits while another one is inside.
LEMMA LockKeeps ==
  ASSUME LockInv, NEW t \in Users, gpc \in [Users -> Places], gpc[t] = "stamped", GcLock(t)
  PROVE  LockInv'
<1> DEFINE Q == Queued
           H == Holders
<1>1. /\ gwritelock \in Nat /\ gwritelock' = gwritelock + 1
      /\ gwritelock <= Cardinality(Q \cup H)
      /\ Q # {} => H # {} /\ Cardinality(Q) < gwritelock
  BY DEF LockInv, GcLock
<1>2. Q \in SUBSET Users /\ H \in SUBSET Users /\ t \notin Q \cup H
  BY DEF Queued, Holders
<1>3. IsFiniteSet(Q) /\ IsFiniteSet(H) /\ IsFiniteSet(Q \cup H) /\ IsFiniteSet(Q \cup {t})
  BY <1>2, UsersFinite
<1>4. Cardinality(Q \cup {t}) = Cardinality(Q) + 1 /\ Cardinality((Q \cup H) \cup {t}) = Cardinality(Q \cup H) + 1
  BY <1>2, <1>3, FS_AddElement
<1>5. Cardinality(Q) \in Nat /\ Cardinality(Q \cup H) \in Nat
  BY <1>3, FS_CardinalityType
<1>6. CASE gwritelock = 0
  <2>1. Queued' = Q /\ Holders' = H \cup {t}
    BY <1>6 DEF GcLock, Queued, Holders
  <2>2. Q = {}
    BY <1>1, <1>5, <1>6
  <2>3. Q \cup (H \cup {t}) = (Q \cup H) \cup {t}
    OBVIOUS
  <2> HIDE DEF Q, H
  <2> QED BY <1>1, <1>4, <1>5, <2>1, <2>2, <2>3 DEF LockInv
<1>7. CASE gwritelock # 0
  <2>1. Queued' = Q \cup {t} /\ Holders' = H
    BY <1>7 DEF GcLock, Queued, Holders
  <2>2. H # {} /\ Cardinality(Q) < gwritelock
    <3>1. CASE Q = {}
      <4>1. Cardinality(Q) = 0
        BY <3>1, FS_EmptySet
      <4>2. Cardinality(H) > 0
        BY <1>1, <1>5, <1>7, <3>1
      <4>3. H # {}
        BY <4>2, FS_EmptySet
      <4> QED BY <1>1, <1>7, <4>1, <4>3
    <3> QED BY <1>1, <3>1
  <2>3. (Q \cup {t}) \cup H = (Q \cup H) \cup {t}
    OBVIOUS
  <2> HIDE DEF Q, H
  <2> QED BY <1>1, <1>4, <1>5, <2>1, <2>2, <2>3 DEF LockInv
<1> QED BY <1>1, <1>6, <1>7

\* A thread that unlocks, from inside or (the collector) after it has left, lets one in of
\* those who wait.
LEMMA UnlockKeeps ==
  ASSUME LockInv, NEW t \in Users, gpc \in [Users -> Places], gpc[t] # "wait",
         NEW to \in Places \ {"wait", "in", "linked"}, GcUnlock(t, to)
  PROVE  LockInv'
<1> DEFINE Q == Queued
           H == Holders \ {t}
<1>1. /\ gwritelock \in Nat /\ gwritelock' = GcDec(gwritelock)
      /\ gwritelock <= Cardinality(Q \cup Holders)
      /\ Q # {} => Cardinality(Q) < gwritelock
  BY DEF LockInv, GcUnlock
<1>2. Q \in SUBSET Users /\ H \in SUBSET Users /\ t \notin Q \cup H /\ Q \cap H = {}
  BY DEF Queued, Holders
<1>3. IsFiniteSet(Q) /\ IsFiniteSet(H) /\ IsFiniteSet(Q \cup H)
  BY <1>2, UsersFinite
<1>4. Cardinality(Q) \in Nat /\ Cardinality(Q \cup H) \in Nat
  BY <1>3, FS_CardinalityType
<1>5. gwritelock <= Cardinality(Q \cup H) + 1
  <2>1. Q \cup Holders \subseteq (Q \cup H) \cup {t}
    OBVIOUS
  <2>2. Cardinality((Q \cup H) \cup {t}) = Cardinality(Q \cup H) + 1 /\ IsFiniteSet((Q \cup H) \cup {t})
    BY <1>2, <1>3, FS_AddElement
  <2>3. Cardinality(Q \cup Holders) <= Cardinality((Q \cup H) \cup {t}) /\ IsFiniteSet(Q \cup Holders)
    BY <2>1, <2>2, FS_Subset
  <2>4. Cardinality(Q \cup Holders) \in Nat
    BY <2>3, FS_CardinalityType
  <2> QED BY <1>1, <1>4, <2>2, <2>3, <2>4
<1>6. PICK woken \in Woken : gpc' = [u \in Users |-> IF u = t THEN to ELSE IF u \in woken THEN "in" ELSE gpc[u]]
  BY DEF GcUnlock
<1>7. CASE Q = {}
  <2>1. woken = {}
    BY <1>6, <1>7 DEF Woken
  <2>2. Queued' = {} /\ Holders' = H
    BY <1>6, <1>7, <2>1 DEF Queued, Holders, Places
  <2>3. Cardinality(H) >= GcDec(gwritelock) /\ GcDec(gwritelock) \in Nat
    BY <1>1, <1>4, <1>5, <1>7 DEF GcDec
  <2>4. {} \cup H = H
    OBVIOUS
  <2> HIDE DEF H
  <2> QED BY <1>1, <2>2, <2>3, <2>4 DEF LockInv
<1>8. CASE Q # {}
  <2>0. Cardinality(Q) > 0
    <3>1. Cardinality(Q) = 0 <=> Q = {}
      BY <1>3, FS_EmptySet
    <3> QED BY <1>4, <1>8, <3>1
  <2>1. gwritelock >= 2 /\ GcDec(gwritelock) = gwritelock - 1
    BY <1>1, <1>4, <1>8, <2>0 DEF GcDec
  <2>2. PICK u \in Q : woken = {u}
    <3>1. GcDec(gwritelock) > 0
      BY <1>1, <2>1
    <3>2. Woken = {{u} : u \in Q}
      BY <1>8, <3>1 DEF Woken
    <3> QED BY <3>2
  <2>3. Queued' = Q \ {u} /\ Holders' = H \cup {u}
    BY <1>2, <1>6, <2>2 DEF Queued, Holders, Places
  <2>4. Cardinality(Q \ {u}) = Cardinality(Q) - 1
    BY <1>3, FS_RemoveElement
  <2>5. (Q \ {u}) \cup (H \cup {u}) = Q \cup H
    OBVIOUS
  <2>6. Cardinality(Q) < gwritelock /\ Cardinality(Q) <= Cardinality(Q \cup H)
    <3>1. Q \subseteq Q \cup H
      OBVIOUS
    <3> QED BY <1>1, <1>3, <1>8, <3>1, FS_Subset
  <2>7. (Queued \cup Holders)' = Q \cup H /\ Holders' # {}
    BY <2>3, <2>5
  <2>8. gwritelock' \in Nat /\ gwritelock' <= Cardinality(Q \cup H) /\ Cardinality(Q \ {u}) < gwritelock'
    BY <1>1, <1>4, <1>5, <2>1, <2>4, <2>6
  <2> QED BY <2>3, <2>7, <2>8 DEF LockInv
<1> QED BY <1>7, <1>8

LEMMA SamePlaces ==
  ASSUME LockInv, gwritelock' = gwritelock, Queued' = Queued, Holders' = Holders
  PROVE  LockInv'
  BY DEF LockInv

-----------------------------------------------------------------------------
(* Places, and who is inside.                                              *)

\* Links lead from entries to entries.
LEMMA ChainAdded ==
  ASSUME Types, Shape, NEW a \in Added \cup {Nil}
  PROVE  Chain(a) \subseteq Added
<1>1. Added \in SUBSET Data /\ Closed(next, Added)
  BY DEF Added, Shape, Closed
<1> QED BY <1>1, ChainLeast DEF Chain

\* Whoever waits and whoever is let in was not in the list and is not.
SameRoles ==
  \A d \in Data : /\ gpc'[d] = "linked" <=> gpc[d] = "linked"
                  /\ gpc'[d] = "added" <=> gpc[d] = "added"

LEMMA LockMoves ==
  ASSUME Types, NEW t \in Users, gpc[t] = "stamped", GcLock(t), ListInv, ~beside'
  PROVE  /\ ~beside /\ Single' /\ SameRoles
         /\ \A u \in Users \ {t} : gpc'[u] = gpc[u]
         /\ gpc'[t] \in {"in", "wait"}
<1>1. gpc' = [gpc EXCEPT ![t] = IF gwritelock = 0 THEN "in" ELSE "wait"] /\ gpc \in [Users -> Places]
  BY DEF GcLock, Types
<1>2. ~beside /\ ~(gwritelock = 0 /\ Holders # {})
  BY DEF GcLock
<1>3. (\A u \in Users \ {t} : gpc'[u] = gpc[u]) /\ gpc'[t] \in {"in", "wait"}
  BY <1>1
<1>4. SameRoles
  BY <1>1 DEF SameRoles, Users
<1>5. Single
  BY <1>2 DEF ListInv
<1>6. Single'
  <2>1. CASE gwritelock = 0
    <3>1. Holders' \subseteq {t}
      BY <1>1, <1>2, <2>1 DEF Holders
    <3> QED BY <3>1 DEF Single
  <2>2. CASE gwritelock # 0
    <3>1. Holders' = Holders
      BY <1>1, <2>2 DEF Holders
    <3> QED BY <1>5, <3>1 DEF Single
  <2> QED BY <2>1, <2>2
<1> QED BY <1>2, <1>3, <1>4, <1>6

LEMMA UnlockMoves ==
  ASSUME Types, NEW t \in Users, gpc[t] \in {"in", "linked", "on"},
         NEW to \in {"added", "on", "free"}, GcUnlock(t, to), ListInv, ~beside'
  PROVE  /\ ~beside /\ Single'
         /\ \A u \in Users \ {t} : gpc'[u] = gpc[u] \/ (gpc[u] = "wait" /\ gpc'[u] = "in")
         /\ gpc'[t] = to
<1>0. gpc \in [Users -> Places]
  BY DEF Types
<1>1. PICK woken \in Woken :
        /\ gpc' = [u \in Users |-> IF u = t THEN to ELSE IF u \in woken THEN "in" ELSE gpc[u]]
        /\ beside' = (beside \/ (woken # {} /\ Holders \ {t} # {}))
  BY DEF GcUnlock
<1>2. ~beside /\ ~(woken # {} /\ Holders \ {t} # {})
  BY <1>1
<1>3. Single
  BY <1>2 DEF ListInv
<1>4. \/ woken = {}
      \/ \E u \in Queued : woken = {u}
  BY DEF Woken
<1>5. \A u \in woken : u \in Users /\ gpc[u] = "wait"
  BY <1>4 DEF Queued
<1>6. Single'
  <2>1. CASE woken = {}
    <3>1. Holders' \subseteq Holders
      BY <1>1, <2>1 DEF Holders
    <3> QED BY <1>3, <3>1 DEF Single
  <2>2. CASE \E u \in Queued : woken = {u}
    <3>1. PICK w \in Queued : woken = {w}
      BY <2>2
    <3>2. Holders' \subseteq {w}
      BY <1>1, <1>2, <3>1 DEF Holders
    <3> QED BY <3>2 DEF Single
  <2> QED BY <1>4, <2>1, <2>2
<1> QED BY <1>1, <1>2, <1>5, <1>6

\* What is said of the list alone holds on when only places change that do not concern it.
LEMMA SameList ==
  ASSUME Types, Shape, Fate, Ages, SameRoles,
         UNCHANGED <<first, next, stamp, at, freed, early, overtaken>>
  PROVE  Shape' /\ Fate' /\ Ages' /\ Added' = Added
<1>1. Added' = Added
  BY DEF SameRoles, Added
<1>2. Shape'
  <2>1. ASSUME NEW x \in Data PROVE (gpc'[x] \notin {"linked", "added"} => next[x] = Nil)
                                 /\ (gpc'[x] = "linked" => next[x] = first)
                                 /\ (next[x] = first /\ first # Nil => gpc'[x] = "linked")
    BY DEF Shape, SameRoles
  <2> QED BY <1>1, <2>1 DEF Shape, Chain
<1>3. Fate' /\ Ages'
  BY <1>1 DEF Fate, Ages, Chain
<1> QED BY <1>1, <1>2, <1>3

\* The collector stands where it stood.
LEMMA SameStand ==
  ASSUME Stand, Added' = Added, gpc'[Collector] = gpc[Collector],
         UNCHANGED <<first, next, stamp, at, prev, j, deltime>>
  PROVE  Stand'
  BY DEF Stand, Walking, Old, Chain

-----------------------------------------------------------------------------
(* add_garbage *)

LEMMA StampKeeps ==
  ASSUME Types, ListInv, NEW d \in Data, Stamp(d)
  PROVE  ListInv'
<1> SUFFICES ASSUME ~beside PROVE (Single /\ Shape /\ Stand /\ Fate /\ Ages)'
  BY DEF ListInv, Stamp, hist
<1>1. /\ gpc' = [gpc EXCEPT ![d] = "stamped"] /\ gpc[d] = "start" /\ stamp' = [stamp EXCEPT ![d] = clock]
      /\ UNCHANGED <<clock, first, next, at, prev, j, deltime, freed, early, overtaken>>
  BY DEF Stamp, coll, hist
<1>2. Single /\ Shape /\ Stand /\ Fate /\ Ages
  BY DEF ListInv
<1>3. SameRoles /\ Added' = Added /\ Holders' = Holders
  BY <1>1 DEF SameRoles, Added, Holders, Types, Users
<1>4. \A x \in Added : stamp'[x] = stamp[x]
  BY <1>1 DEF Added, Types
<1>5. Shape'
  <2>1. ASSUME NEW x \in Data PROVE (gpc'[x] \notin {"linked", "added"} => next[x] = Nil)
                                 /\ (gpc'[x] = "linked" => next[x] = first)
                                 /\ (next[x] = first /\ first # Nil => gpc'[x] = "linked")
    BY <1>2, <1>3 DEF Shape, SameRoles
  <2> QED BY <1>1, <1>2, <1>3, <2>1 DEF Shape, Chain
<1>6. Fate'
  BY <1>1, <1>2, <1>3 DEF Fate, Chain
<1>7. Ages'
  <2>1. ASSUME NEW x \in Added, NEW y \in Chain(next[x]) PROVE stamp'[y] <= stamp'[x] \/ y \in overtaken
    <3>1. y \in Added /\ x \in Data
      BY <1>2, ChainAdded DEF Shape, Added
    <3> QED BY <1>2, <1>4, <3>1 DEF Ages
  <2> QED BY <1>1, <1>2, <1>3, <2>1 DEF Ages, Chain
<1>8. Stand'
  <2>1. gpc'[Collector] = gpc[Collector]
    BY <1>1, GcAssumption DEF Types
  <2>2. at # Nil /\ Old(at) => Old(at)'
    <3>1. at # Nil => stamp'[at] = stamp[at]
      BY <1>2, <1>4 DEF Stand
    <3> QED BY <1>1, <3>1 DEF Old
  <2> QED BY <1>1, <1>2, <1>3, <2>1, <2>2 DEF Stand, Walking, Chain
<1> QED BY <1>2, <1>3, <1>5, <1>6, <1>7, <1>8 DEF Single

LEMMA AddLockKeeps ==
  ASSUME Types, ListInv, NEW d \in Data, AddLock(d)
  PROVE  ListInv'
<1> SUFFICES ASSUME ~beside' PROVE (Single /\ Shape /\ Stand /\ Fate /\ Ages)'
  BY DEF ListInv
<1>1. /\ GcLock(d) /\ gpc[d] = "stamped" /\ d \in Users
      /\ UNCHANGED <<clock, first, next, stamp, at, prev, j, deltime, freed, early, overtaken>>
  BY DEF AddLock, entry, coll, Users
<1>2. ~beside /\ Single' /\ SameRoles /\ \A u \in Users \ {d} : gpc'[u] = gpc[u]
  BY <1>1, LockMoves
<1>3. Shape /\ Stand /\ Fate /\ Ages
  BY <1>2 DEF ListInv
<1>4. gpc'[Collector] = gpc[Collector]
  BY <1>2, GcAssumption DEF Users
<1> QED BY <1>1, <1>2, <1>3, <1>4, SameList, SameStand

\* A new entry leads to the first one, and nobody else's does.
LEMMA LinkKeeps ==
  ASSUME Types, ListInv, NEW d \in Data, Link(d)
  PROVE  ListInv'
<1> SUFFICES ASSUME ~beside PROVE (Single /\ Shape /\ Stand /\ Fate /\ Ages)'
  BY DEF ListInv, Link, hist
<1>1. /\ gpc' = [gpc EXCEPT ![d] = "linked"] /\ gpc[d] = "in" /\ next' = [next EXCEPT ![d] = first]
      /\ UNCHANGED <<clock, first, stamp, at, prev, j, deltime, freed, early, overtaken>>
  BY DEF Link, coll, hist
<1>2. Single /\ Shape /\ Stand /\ Fate /\ Ages
  BY DEF ListInv
<1>3. Added' = Added /\ Holders' = Holders /\ d \notin Added /\ Added \subseteq Data
  BY <1>1 DEF Added, Holders, Types, Users
<1>4. next \in LinksOf(Data) /\ next' \in LinksOf(Data) /\ Nil \notin Data
  BY <1>1, GcAssumption DEF Types, LinksOf
<1>5. \A a \in Added \cup {Nil} : ChainIn(Data, next', a) = Chain(a)
  <2> SUFFICES ASSUME NEW a \in Added \cup {Nil} PROVE ChainIn(Data, next', a) = Chain(a)
    OBVIOUS
  <2>1. \A e \in ChainIn(Data, next, a) : next'[e] = next[e]
    BY <1>1, <1>2, <1>3, <1>4, ChainAdded DEF Chain, LinksOf
  <2> QED BY <1>3, <1>4, <2>1, ChainSame DEF Chain
<1>6. \A x \in Data : next'[x] = IF x = d THEN first ELSE next[x]
  BY <1>1 DEF Types
<1>7. gpc[d] \notin {"linked", "added"} /\ \A x \in Data : gpc[x] # "linked"
  <2>1. ASSUME NEW x \in Data, gpc[x] = "linked" PROVE FALSE
    <3>1. x \in Holders /\ d \in Holders
      BY <1>1, <2>1 DEF Holders, Users
    <3> QED BY <1>1, <1>2, <2>1, <3>1 DEF Single
  <2> QED BY <1>1, <2>1
<1>8. \A x \in Data : gpc'[x] = IF x = d THEN "linked" ELSE gpc[x]
  BY <1>1 DEF Types, Users
<1>9. first \in Added \cup {Nil} /\ \A x \in Data : next[x] \in Added \cup {Nil}
  BY <1>2 DEF Shape
<1>10. \A x \in Data : next'[x] \in Added \cup {Nil} /\ ChainIn(Data, next', next'[x]) = Chain(next'[x])
  BY <1>5, <1>6, <1>9
<1>11. Shape'
  <2>1. \A x \in Data : x \notin ChainIn(Data, next', next'[x])
    <3>1. ASSUME NEW x \in Data, x # d PROVE x \notin Chain(next'[x])
      BY <1>2, <1>6, <3>1 DEF Shape
    <3>2. d \notin Chain(first)
      BY <1>2, <1>3, <1>9, ChainAdded
    <3> QED BY <1>6, <1>10, <3>1, <3>2
  <2>2. \A x, y \in Data : next'[x] = next'[y] /\ next'[x] # Nil => x = y
    <3>1. \A x \in Data : next[x] = first => first = Nil
      BY <1>2, <1>7 DEF Shape
    <3>2. \A x, y \in Data : next[x] = next[y] /\ next[x] # Nil => x = y
      BY <1>2 DEF Shape
    <3> QED BY <1>6, <3>1, <3>2
  <2>3. \A x \in Data : /\ gpc'[x] \notin {"linked", "added"} => next'[x] = Nil
                        /\ gpc'[x] = "linked" => next'[x] = first
                        /\ next'[x] = first /\ first # Nil => gpc'[x] = "linked"
    BY <1>2, <1>6, <1>7, <1>8 DEF Shape
  <2> QED BY <1>1, <1>3, <1>9, <1>10, <2>1, <2>2, <2>3 DEF Shape, Chain
<1>12. at \in Added \cup {Nil}
  BY <1>2 DEF Stand
<1>13. Chain(first)' = Chain(first) /\ Chain(at)' = Chain(at)
  BY <1>1, <1>5, <1>9, <1>12 DEF Chain
<1>14. Fate'
  BY <1>1, <1>2, <1>3, <1>13 DEF Fate
<1>15. Ages'
  <2>1. \A x \in Added : Chain(next[x])' = Chain(next[x])
    BY <1>3, <1>6, <1>10 DEF Chain
  <2> QED BY <1>1, <1>2, <1>3, <2>1 DEF Ages
<1>16. Stand'
  <2>1. gpc'[Collector] = gpc[Collector]
    BY <1>1, GcAssumption DEF Types
  <2>2. prev \in Chain(first) => next'[prev] = next[prev]
    BY <1>2, <1>3, <1>6, <1>9, ChainAdded
  <2> QED BY <1>1, <1>2, <1>3, <1>13, <2>1, <2>2 DEF Stand, Walking, Old
<1> QED BY <1>2, <1>3, <1>11, <1>14, <1>15, <1>16 DEF Single

\* The new entry becomes the first one while the collector is not inside.
LEMMA AddUnlockKeeps ==
  ASSUME Types, ListInv, NEW d \in Data, AddUnlock(d)
  PROVE  ListInv'
<1> SUFFICES ASSUME ~beside' PROVE (Single /\ Shape /\ Stand /\ Fate /\ Ages)'
  BY DEF ListInv
<1>1. /\ GcUnlock(d, "added") /\ gpc[d] = "linked" /\ d \in Users /\ first' = d
      /\ overtaken' = overtaken \cup {e \in Chain(next[d]) : stamp[e] > stamp[d]}
      /\ UNCHANGED <<clock, next, stamp, at, prev, j, deltime, freed, early>>
  BY DEF AddUnlock, coll, Users
<1>2. /\ ~beside /\ Single' /\ gpc'[d] = "added"
      /\ \A u \in Users \ {d} : gpc'[u] = gpc[u] \/ (gpc[u] = "wait" /\ gpc'[u] = "in")
  BY <1>1, UnlockMoves
<1>3. Single /\ Shape /\ Stand /\ Fate /\ Ages
  BY <1>2 DEF ListInv
<1>4. \A u \in Users : gpc[u] \in {"in", "linked"} => u = d
  BY <1>1, <1>3 DEF Single, Holders
<1>5. \A x \in Data : gpc'[x] # "linked" /\ (gpc'[x] = "added" <=> x = d \/ gpc[x] = "added")
  BY <1>1, <1>2, <1>4 DEF Users
<1>6. Added' = Added \cup {d} /\ d \notin Added
  BY <1>1, <1>5 DEF Added
<1>7. next \in LinksOf(Data) /\ d # Nil /\ Nil \notin Data
  BY GcAssumption DEF Types, LinksOf
<1>8. next[d] = first /\ first \in Added \cup {Nil} /\ at \in Added \cup {Nil}
  BY <1>1, <1>3 DEF Shape, Stand
<1>9. Chain(first)' = {d} \cup Chain(first) /\ Chain(at)' = Chain(at)
  BY <1>1, <1>7, <1>8, ChainStep DEF Chain
<1>10. d \notin Chain(at) /\ Chain(at) \subseteq Added /\ Chain(first) \subseteq Added /\ Added \subseteq Data
  BY <1>3, <1>6, <1>8, ChainAdded DEF Added
<1>11. Shape'
  <2>1. \A x \in Data : next[x] # d
    BY <1>3, <1>6, <1>7 DEF Shape
  <2>2. \A x \in Data : gpc'[x] \notin {"linked", "added"} => next[x] = Nil
    BY <1>2, <1>3, <1>5, <1>6 DEF Shape, Users
  <2> QED BY <1>1, <1>3, <1>5, <1>6, <2>1, <2>2 DEF Shape, Chain
<1>12. Stand'
  <2>1. Collector \in Users \ {d} /\ gpc[Collector] \notin {"in", "linked"}
    BY <1>4, GcAssumption DEF Users
  <2>2. \/ gpc'[Collector] = gpc[Collector]
        \/ gpc[Collector] = "wait" /\ gpc'[Collector] = "in" /\ j = -1
    BY <1>2, <1>3, <2>1 DEF Stand
  <2>3. Old(at)' <=> Old(at)
    BY <1>1 DEF Old
  <2>4. j = 4 \/ gpc[Collector] = "free" => Chain(at) \cap ({d} \cup Chain(first)) = {}
    BY <1>3, <1>10 DEF Stand
  <2>5. CASE gpc'[Collector] = gpc[Collector]
    BY <1>1, <1>3, <1>6, <1>9, <2>1, <2>3, <2>4, <2>5 DEF Stand, Walking
  <2>6. CASE gpc[Collector] = "wait" /\ gpc'[Collector] = "in" /\ j = -1
    BY <1>1, <1>3, <1>6, <2>6 DEF Stand, Walking
  <2> QED BY <2>2, <2>5, <2>6
<1>13. Fate'
  BY <1>1, <1>3, <1>6, <1>9, <1>10 DEF Fate
<1>14. Ages'
  <2>1. ASSUME NEW x \in Added', NEW y \in Chain(next[x]) PROVE stamp[y] <= stamp[x] \/ y \in overtaken'
    <3>1. CASE x = d
      <4>1. y \in Data
        BY ChainData DEF Chain
      <4>2. stamp[y] \in Nat /\ stamp[d] \in Nat
        BY <4>1 DEF Types
      <4> QED BY <1>1, <2>1, <3>1, <4>2
    <3>2. CASE x # d
      BY <1>1, <1>3, <1>6, <2>1, <3>2 DEF Ages
    <3> QED BY <3>1, <3>2
  <2> QED BY <1>1, <1>3, <2>1 DEF Ages, Chain
<1> QED BY <1>2, <1>11, <1>12, <1>13, <1>14

-----------------------------------------------------------------------------
(* garbage_collector *)

LEMMA RoundKeeps == ASSUME Types, ListInv, Round PROVE ListInv'
<1> SUFFICES ASSUME ~beside PROVE (Single /\ Shape /\ Stand /\ Fate /\ Ages)'
  BY DEF ListInv, Round, hist
<1>1. /\ gpc' = [gpc EXCEPT ![Collector] = "stamped"] /\ gpc[Collector] = "start"
      /\ UNCHANGED <<clock, first, next, stamp, at, prev, j, freed, early, overtaken>>
  BY DEF Round, entry, hist
<1>2. Single /\ Shape /\ Stand /\ Fate /\ Ages
  BY DEF ListInv
<1>3. SameRoles /\ Holders' = Holders /\ gpc'[Collector] = "stamped"
  BY <1>1, GcAssumption DEF SameRoles, Holders, Types, Users
<1>4. Shape' /\ Fate' /\ Ages' /\ Added' = Added
  BY <1>1, <1>2, <1>3, SameList
<1>5. Stand'
  BY <1>1, <1>2, <1>3, <1>4 DEF Stand, Walking
<1> QED BY <1>2, <1>3, <1>4, <1>5 DEF Single

LEMMA CollectLockKeeps == ASSUME Types, ListInv, CollectLock PROVE ListInv'
<1> SUFFICES ASSUME ~beside' PROVE (Single /\ Shape /\ Stand /\ Fate /\ Ages)'
  BY DEF ListInv
<1>1. /\ GcLock(Collector) /\ gpc[Collector] = "stamped" /\ Collector \in Users
      /\ UNCHANGED <<clock, first, next, stamp, at, prev, j, deltime, freed, early, overtaken>>
  BY DEF CollectLock, entry, coll, Users
<1>2. ~beside /\ Single' /\ SameRoles /\ gpc'[Collector] \in {"in", "wait"}
  BY <1>1, LockMoves
<1>3. Shape /\ Stand /\ Fate /\ Ages
  BY <1>2 DEF ListInv
<1>4. Shape' /\ Fate' /\ Ages' /\ Added' = Added
  BY <1>1, <1>2, <1>3, SameList
<1>5. Stand'
  BY <1>1, <1>2, <1>3, <1>4 DEF Stand, Walking
<1> QED BY <1>2, <1>4, <1>5

LEMMA ReadFirstKeeps == ASSUME Types, ListInv, ReadFirst PROVE ListInv'
<1> SUFFICES ASSUME ~beside PROVE (Single /\ Shape /\ Stand /\ Fate /\ Ages)'
  BY DEF ListInv, ReadFirst, hist
<1>1. /\ gpc[Collector] = "in" /\ j = -1 /\ at' = first /\ prev' = Nil /\ j' = 0
      /\ UNCHANGED <<clock, gpc, first, next, stamp, deltime, freed, early, overtaken>>
  BY DEF ReadFirst, entry, hist, thread
<1>2. Single /\ Shape /\ Stand /\ Fate /\ Ages
  BY DEF ListInv
<1>3. Added' = Added /\ Holders' = Holders /\ Single' /\ Shape' /\ Ages'
  BY <1>1, <1>2 DEF Added, Holders, Single, Shape, Ages, Chain
<1>4. Stand'
  BY <1>1, <1>2, <1>3 DEF Stand, Walking, Shape
<1>5. Fate'
  <2>1. Chain(at) = {}
    BY <1>1, <1>2, ChainNil DEF Stand, Chain
  <2>2. Chain(first)' = Chain(first) /\ Chain(at)' = Chain(first)
    BY <1>1 DEF Chain
  <2> QED BY <1>1, <1>2, <1>3, <2>1, <2>2 DEF Fate
<1> QED BY <1>3, <1>4, <1>5

LEMMA EarlyUnlockKeeps == ASSUME Types, ListInv, EarlyUnlock PROVE ListInv'
<1> SUFFICES ASSUME ~beside' PROVE (Single /\ Shape /\ Stand /\ Fate /\ Ages)'
  BY DEF ListInv
<1>1. /\ GcUnlock(Collector, "on") /\ gpc[Collector] = "in" /\ j = 2 /\ j' = 3 /\ Collector \in Users
      /\ UNCHANGED <<clock, first, next, stamp, at, prev, deltime, freed, early, overtaken>>
  BY DEF EarlyUnlock, entry, Users
<1>2. /\ ~beside /\ Single' /\ gpc'[Collector] = "on"
      /\ \A u \in Users \ {Collector} : gpc'[u] = gpc[u] \/ (gpc[u] = "wait" /\ gpc'[u] = "in")
  BY <1>1, UnlockMoves
<1>3. Shape /\ Stand /\ Fate /\ Ages
  BY <1>2 DEF ListInv
<1>4. SameRoles
  BY <1>2, GcAssumption DEF SameRoles, Users
<1>5. Shape' /\ Fate' /\ Ages' /\ Added' = Added
  BY <1>1, <1>3, <1>4, SameList
<1>6. Stand'
  BY <1>1, <1>2, <1>3, <1>5 DEF Stand, Walking, Chain
<1> QED BY <1>2, <1>5, <1>6

LEMMA LastUnlockKeeps == ASSUME Types, ListInv, LastUnlock PROVE ListInv'
<1> SUFFICES ASSUME ~beside' PROVE (Single /\ Shape /\ Stand /\ Fate /\ Ages)'
  BY DEF ListInv
<1>1. /\ GcUnlock(Collector, "free") /\ gpc[Collector] \in {"in", "on"} /\ Collector \in Users
      /\ (j = 4 \/ (j >= 0 /\ at = Nil)) /\ j # -1
      /\ UNCHANGED <<clock, first, next, stamp, at, prev, j, deltime, freed, early, overtaken>>
  BY DEF LastUnlock, entry, coll, Users
<1>2. /\ ~beside /\ Single' /\ gpc'[Collector] = "free"
      /\ \A u \in Users \ {Collector} : gpc'[u] = gpc[u] \/ (gpc[u] = "wait" /\ gpc'[u] = "in")
  BY <1>1, UnlockMoves
<1>3. Shape /\ Stand /\ Fate /\ Ages
  BY <1>2 DEF ListInv
<1>4. SameRoles
  BY <1>2, GcAssumption DEF SameRoles, Users
<1>5. Shape' /\ Fate' /\ Ages' /\ Added' = Added
  BY <1>1, <1>3, <1>4, SameList
<1>6. Chain(at) \cap Chain(first) = {} /\ (at # Nil => Old(at))
  <2>1. CASE j = 4
    BY <1>3, <2>1 DEF Stand
  <2>2. CASE at = Nil
    BY <2>2, ChainNil DEF Chain
  <2> QED BY <1>1, <2>1, <2>2
<1>7. Stand'
  BY <1>1, <1>2, <1>3, <1>5, <1>6 DEF Stand, Walking, Chain, Old
<1> QED BY <1>2, <1>5, <1>7

LEMMA PassKeeps == ASSUME Types, ListInv, Pass PROVE ListInv'
<1> SUFFICES ASSUME ~beside PROVE (Single /\ Shape /\ Stand /\ Fate /\ Ages)'
  BY DEF ListInv, Pass, hist
<1>1. /\ Walking /\ at # Nil /\ prev' = at /\ at' = next[at] /\ j' = IF j < 3 THEN j + 1 ELSE j
      /\ UNCHANGED <<clock, gpc, first, next, stamp, deltime, freed, early, overtaken>>
  BY DEF Pass, Scanning, Walking, entry, hist, thread
<1>2. Single /\ Shape /\ Stand /\ Fate /\ Ages
  BY DEF ListInv
<1>3. Added' = Added /\ Holders' = Holders /\ Single' /\ Shape' /\ Ages'
  BY <1>1, <1>2 DEF Added, Holders, Single, Shape, Ages, Chain
<1>4. next \in LinksOf(Data) /\ at \in Data /\ first \in Data \cup {Nil} /\ Nil \notin Data
  BY <1>1, GcAssumption DEF Types, LinksOf
<1>5. at \in Chain(first)
  <2>1. CASE prev = Nil
    BY <1>1, <1>2, <1>4, <2>1, ChainHas DEF Stand, Chain
  <2>2. CASE prev # Nil
    <3>1. Closed(next, Chain(first))
      BY <1>4, ChainClosed DEF Chain
    <3> QED BY <1>1, <1>2, <2>2, <3>1 DEF Stand, Closed
  <2> QED BY <2>1, <2>2
<1>6. j' \in 1..3 /\ (gpc[Collector] = "on" => j' = 3) /\ gpc[Collector] \in {"in", "on"}
  BY <1>1, <1>2 DEF Walking, Stand
<1>7. Stand'
  <2>1. next[at] \in Added \cup {Nil}
    BY <1>2, <1>4 DEF Shape
  <2> QED BY <1>1, <1>3, <1>4, <1>5, <1>6, <2>1 DEF Stand, Walking, Chain
<1>8. Chain(first) \cup Chain(at) = Chain(first) /\ Chain(first)' = Chain(first)
  BY <1>1, <1>4, <1>5, ChainSub DEF Chain
<1>9. Chain(at)' \subseteq Chain(first)
  <2>1. Chain(at)' = ChainIn(Data, next, next[at])
    BY <1>1 DEF Chain
  <2>2. Chain(at) = {at} \cup ChainIn(Data, next, next[at])
    BY <1>4, ChainStep DEF Chain
  <2> QED BY <1>8, <2>1, <2>2
<1>10. Fate'
  BY <1>1, <1>2, <1>3, <1>8, <1>9 DEF Fate
<1> QED BY <1>3, <1>7, <1>10

\* All the list is cut off, or what is behind prev; in both cases without the rest.
LEMMA CutKeeps == ASSUME Types, ListInv, Cut PROVE ListInv'
<1> SUFFICES ASSUME ~beside PROVE (Single /\ Shape /\ Stand /\ Fate /\ Ages)'
  BY DEF ListInv, Cut, hist
<1>1. /\ Walking /\ at # Nil /\ Old(at) /\ j' = 4
      /\ IF prev = Nil THEN first' = Nil /\ UNCHANGED next
         ELSE next' = [next EXCEPT ![prev] = Nil] /\ UNCHANGED first
      /\ UNCHANGED <<clock, gpc, stamp, at, prev, deltime, freed, early, overtaken>>
  BY DEF Cut, Scanning, Walking, hist, thread
<1>2. Single /\ Shape /\ Stand /\ Fate /\ Ages
  BY DEF ListInv
<1>3. Added' = Added /\ Holders' = Holders /\ Single' /\ Added \subseteq Data
  BY <1>1, <1>2 DEF Added, Holders, Single
<1>4. next \in LinksOf(Data) /\ at \in Data /\ first \in Data \cup {Nil} /\ Nil \notin Data
  BY <1>1, GcAssumption DEF Types, LinksOf
<1>5. gpc[Collector] \in {"in", "on"} /\ Old(at)' /\ at \in Added
  BY <1>1, <1>2 DEF Walking, Stand, Old
<1>6. CASE prev = Nil
  <2>1. first' = Nil /\ next' = next /\ at = first /\ gpc[Collector] = "in"
    BY <1>1, <1>2, <1>6 DEF Stand
  <2>2. \A x \in Data : gpc[x] # "linked"
    <3>1. ASSUME NEW x \in Data, gpc[x] = "linked" PROVE FALSE
      <4>1. x \in Holders /\ Collector \in Holders /\ x # Collector
        BY <2>1, <3>1, GcAssumption DEF Holders, Users
      <4> QED BY <1>2, <4>1 DEF Single
    <3> QED BY <3>1
  <2>3. Shape'
    BY <1>1, <1>2, <1>3, <2>1, <2>2 DEF Shape, Chain
  <2>4. Chain(first)' = {} /\ Chain(at)' = Chain(at) /\ Chain(first) \cup Chain(at) = Chain(at)
    BY <1>1, <2>1, ChainNil DEF Chain
  <2>5. Fate'
    BY <1>1, <1>2, <1>3, <2>4 DEF Fate
  <2>6. Ages'
    BY <1>1, <1>2, <1>3, <2>1 DEF Ages, Chain
  <2>7. Stand'
    BY <1>1, <1>3, <1>5, <2>1, <2>4 DEF Stand, Walking
  <2> QED BY <1>3, <2>3, <2>5, <2>6, <2>7
<1>7. CASE prev # Nil
  <2>1. /\ next' = [next EXCEPT ![prev] = Nil] /\ first' = first
        /\ prev \in Chain(first) /\ next[prev] = at
    BY <1>1, <1>2, <1>7 DEF Stand
  <2>2. first # Nil /\ first \in Data
    BY <1>4, <2>1, ChainNil DEF Chain
  <2>3. /\ \A x \in Data : x \notin ChainIn(Data, next, next[x])
        /\ \A x, y \in Data : next[x] = next[y] /\ next[x] # Nil => x = y
    BY <1>2 DEF Shape, Chain
  <2>4. /\ Chain(at)' = Chain(at) /\ Chain(first)' \cap Chain(at) = {}
        /\ Chain(first) = Chain(first)' \cup Chain(at)
    <3>1. prev \in ChainIn(Data, next, first) /\ next[prev] # Nil
      BY <1>1, <2>1 DEF Chain
    <3>2. /\ ChainIn(Data, next', next[prev]) = ChainIn(Data, next, next[prev])
          /\ ChainIn(Data, next', first) \cap ChainIn(Data, next, next[prev]) = {}
          /\ ChainIn(Data, next, first) = ChainIn(Data, next', first) \cup ChainIn(Data, next, next[prev])
      <4>1. Straight(Data, next)
        BY <2>3 DEF Straight
      <4>2. CutBehind(Data, next, prev, next')
        BY <1>4, <2>1 DEF LinksOf, CutBehind
      <4> QED BY <1>4, <2>2, <3>1, <4>1, <4>2, ChainCut
    <3> QED BY <1>1, <2>1, <3>2 DEF Chain
  <2>5. prev \in Added /\ first \in Added \cup {Nil}
    BY <1>2, <2>1, ChainAdded DEF Shape
  <2>6. \A x \in Data : next'[x] = IF x = prev THEN Nil ELSE next[x]
    BY <1>4, <2>1 DEF LinksOf
  <2>7. \A x \in Data : ChainIn(Data, next', next'[x]) \subseteq Chain(next[x])
    <3> SUFFICES ASSUME NEW x \in Data PROVE ChainIn(Data, next', next'[x]) \subseteq Chain(next[x])
      OBVIOUS
    <3>1. CASE x = prev
      BY <2>6, <3>1, ChainNil
    <3>2. CASE x # prev
      <4>1. next[x] \in Data \cup {Nil} /\ \A e \in Data : next'[e] \in {next[e], Nil}
        BY <1>4, <2>6 DEF LinksOf
      <4>2. ChainIn(Data, next', next[x]) \subseteq ChainIn(Data, next, next[x])
        BY <1>4, <4>1, ChainShrinks
      <4> QED BY <2>6, <3>2, <4>2 DEF Chain
    <3> QED BY <3>1, <3>2
  <2>8. Shape'
    <3>1. \A x \in Data : gpc[x] = "linked" => x # prev
      BY <2>5 DEF Added
    <3>2. \A x \in Data : x \notin ChainIn(Data, next', next'[x])
      BY <2>3, <2>7 DEF Chain
    <3>3. \A x, y \in Data : next'[x] = next'[y] /\ next'[x] # Nil => x = y
      BY <2>3, <2>6
    <3>4. \A x \in Data : /\ next'[x] \in Added \cup {Nil}
                          /\ gpc[x] \notin {"linked", "added"} => next'[x] = Nil
                          /\ gpc[x] = "linked" => next'[x] = first
                          /\ next'[x] = first /\ first # Nil => gpc[x] = "linked"
      BY <1>2, <2>6, <3>1 DEF Shape
    <3> QED BY <1>1, <1>3, <2>1, <2>5, <3>2, <3>3, <3>4 DEF Shape, Chain
  <2>9. Fate'
    <3>1. (Chain(first) \cup Chain(at))' = Chain(first) \cup Chain(at)
      BY <2>4
    <3> QED BY <1>1, <1>2, <1>3, <3>1 DEF Fate
  <2>10. Ages'
    BY <1>1, <1>2, <1>3, <2>7 DEF Ages, Chain
  <2>11. Stand'
    BY <1>1, <1>3, <1>5, <2>4 DEF Stand, Walking
  <2> QED BY <1>3, <2>8, <2>9, <2>10, <2>11
<1> QED BY <1>6, <1>7

\* What is freed was cut off behind an entry that was old.
LEMMA FreeKeeps == ASSUME Types, ListInv, Free PROVE ListInv'
<1> SUFFICES ASSUME ~beside PROVE (Single /\ Shape /\ Stand /\ Fate /\ Ages)'
  BY DEF ListInv, Free
<1>1. /\ gpc[Collector] = "free" /\ gpc' = [gpc EXCEPT ![Collector] = "start"]
      /\ freed' = [d \in Data |-> IF d \in Chain(at) THEN freed[d] + 1 ELSE freed[d]]
      /\ early' = early \cup {d \in Chain(at) : ~(stamp[d] < clock - TimeoutTime)}
      /\ at' = Nil /\ prev' = Nil /\ j' = -1
      /\ UNCHANGED <<clock, first, next, stamp, overtaken>>
  BY DEF Free, entry
<1>2. Single /\ Shape /\ Stand /\ Fate /\ Ages
  BY DEF ListInv
<1>3. SameRoles /\ Holders' = Holders /\ gpc'[Collector] = "start" /\ Collector \notin Data
  BY <1>1, GcAssumption DEF SameRoles, Holders, Types, Users
<1>4. Added' = Added /\ Single'
  BY <1>2, <1>3 DEF SameRoles, Added, Single
<1>5. Shape'
  <2>1. ASSUME NEW x \in Data PROVE (gpc'[x] \notin {"linked", "added"} => next[x] = Nil)
                                 /\ (gpc'[x] = "linked" => next[x] = first)
                                 /\ (next[x] = first /\ first # Nil => gpc'[x] = "linked")
    BY <1>2, <1>3 DEF Shape, SameRoles
  <2> QED BY <1>1, <1>2, <1>4, <2>1 DEF Shape, Chain
<1>6. Stand'
  BY <1>1, <1>3, <1>4 DEF Stand, Walking
<1>7. /\ Chain(at) \cap Chain(first) = {} /\ Chain(at) \subseteq Added /\ Chain(first) \subseteq Added
      /\ (at # Nil => Old(at)) /\ Added \subseteq Data
  BY <1>1, <1>2, ChainAdded DEF Stand, Shape, Added
<1>8. Fate'
  <2>1. Chain(first)' = Chain(first) /\ Chain(at)' = {}
    BY <1>1, ChainNil DEF Chain
  <2>2. \A x \in Data : freed'[x] = IF x \in Chain(at) THEN 1 ELSE freed[x]
    BY <1>1, <1>2 DEF Fate
  <2> QED BY <1>1, <1>2, <1>4, <1>7, <2>1, <2>2 DEF Fate
<1>9. Ages'
  <2>1. \A x \in Added : \A y \in Chain(next[x]) : stamp[y] <= stamp[x] \/ y \in overtaken
    BY <1>2 DEF Ages
  <2>2. ASSUME NEW y \in Chain(at), ~(stamp[y] < clock - TimeoutTime) PROVE y \in overtaken
    <3>1. at \in Data /\ next \in LinksOf(Data) /\ at \in Added
      BY <1>2, ChainNil DEF Types, LinksOf, Stand, Chain, Added
    <3>2. stamp[at] < clock - TimeoutTime /\ stamp[at] \in Nat /\ clock - TimeoutTime \in Int
      BY <1>7, <3>1, GcAssumption DEF Old, Types
    <3>3. y # at
      BY <2>2, <3>2
    <3>4. y \in Chain(next[at])
      BY <3>1, <3>3, GcAssumption, ChainStep DEF Chain
    <3>5. stamp[y] \in Nat
      BY <1>7 DEF Types
    <3>6. ~(stamp[y] <= stamp[at])
      BY <2>2, <3>2, <3>5
    <3> QED BY <2>1, <3>1, <3>4, <3>6
  <2> QED BY <1>1, <1>2, <1>4, <2>1, <2>2 DEF Ages, Chain
<1> QED BY <1>4, <1>5, <1>6, <1>8, <1>9

LEMMA TickKeeps == ASSUME Types, ListInv, Tick PROVE ListInv'
<1>1. UNCHANGED <<gpc, first, next, stamp, at, prev, j, deltime, freed, early, overtaken, beside>>
  BY DEF Tick, thread, entry, coll, hist
<1> QED BY <1>1 DEF ListInv, Single, Holders, Added, Shape, Stand, Fate, Ages, Chain, Walking, Old

LEMMA ListKept == ASSUME Types, ListInv, [GcNext]_gcVars PROVE ListInv'
<1>1. CASE GcNext
  BY <1>1, StampKeeps, AddLockKeeps, LinkKeeps, AddUnlockKeeps, RoundKeeps, CollectLockKeeps,
     ReadFirstKeeps, EarlyUnlockKeeps, PassKeeps, CutKeeps, LastUnlockKeeps, FreeKeeps, TickKeeps
     DEF GcNext
<1>2. CASE UNCHANGED gcVars
  <2>1. UNCHANGED <<gpc, first, next, stamp, at, prev, j, deltime, freed, early, overtaken, beside>>
    BY <1>2 DEF gcVars, thread, entry, coll, hist
  <2> QED BY <2>1 DEF ListInv, Single, Holders, Added, Shape, Stand, Fate, Ages, Chain, Walking, Old
<1> QED BY <1>1, <1>2

-----------------------------------------------------------------------------
(* The lock and the types under every step                                 *)

\* A step that moves a thread elsewhere leaves the lock's count right.
LEMMA LockKept == ASSUME Types, LockInv, [GcNext]_gcVars PROVE LockInv'
<1>0. gpc \in [Users -> Places] /\ Collector \in Users /\ Data \subseteq Users
  BY DEF Types, Users
<1>1. ASSUME NEW d \in Data, Stamp(d) PROVE LockInv'
  <2>1. Queued' = Queued /\ Holders' = Holders /\ gwritelock' = gwritelock
    BY <1>0, <1>1 DEF Stamp, Queued, Holders
  <2> QED BY <2>1, SamePlaces
<1>2. ASSUME NEW d \in Data, AddLock(d) PROVE LockInv'
  BY <1>0, <1>2, LockKeeps DEF AddLock
<1>3. ASSUME NEW d \in Data, Link(d) PROVE LockInv'
  <2>1. Queued' = Queued /\ Holders' = Holders /\ gwritelock' = gwritelock
    BY <1>0, <1>3 DEF Link, Queued, Holders
  <2> QED BY <2>1, SamePlaces
<1>4. ASSUME NEW d \in Data, AddUnlock(d) PROVE LockInv'
  <2>1. GcUnlock(d, "added") /\ d \in Users /\ gpc[d] # "wait" /\ "added" \in Places \ {"wait", "in", "linked"}
    BY <1>0, <1>4 DEF AddUnlock, Places
  <2> QED BY <1>0, <2>1, UnlockKeeps
<1>5. ASSUME Round PROVE LockInv'
  <2>1. Queued' = Queued /\ Holders' = Holders /\ gwritelock' = gwritelock
    BY <1>0, <1>5 DEF Round, Queued, Holders
  <2> QED BY <2>1, SamePlaces
<1>6. ASSUME CollectLock PROVE LockInv'
  BY <1>0, <1>6, LockKeeps DEF CollectLock
<1>7. ASSUME EarlyUnlock PROVE LockInv'
  <2>1. GcUnlock(Collector, "on") /\ gpc[Collector] # "wait" /\ "on" \in Places \ {"wait", "in", "linked"}
    BY <1>7 DEF EarlyUnlock, Places
  <2> QED BY <1>0, <2>1, UnlockKeeps
<1>8. ASSUME LastUnlock PROVE LockInv'
  <2>1. GcUnlock(Collector, "free") /\ gpc[Collector] # "wait" /\ "free" \in Places \ {"wait", "in", "linked"}
    BY <1>8 DEF LastUnlock, Places
  <2> QED BY <1>0, <2>1, UnlockKeeps
<1>9. ASSUME Free PROVE LockInv'
  <2>1. Queued' = Queued /\ Holders' = Holders /\ gwritelock' = gwritelock
    BY <1>0, <1>9 DEF Free, Queued, Holders
  <2> QED BY <2>1, SamePlaces
<1>10. ASSUME ReadFirst \/ Pass \/ Cut \/ Tick \/ UNCHANGED gcVars PROVE LockInv'
  <2>1. gpc' = gpc /\ gwritelock' = gwritelock
    BY <1>10 DEF ReadFirst, Pass, Cut, Tick, gcVars, thread
  <2>2. Queued' = Queued /\ Holders' = Holders
    BY <2>1 DEF Queued, Holders
  <2> QED BY <2>1, <2>2, SamePlaces
<1> QED BY <1>1, <1>2, <1>3, <1>4, <1>5, <1>6, <1>7, <1>8, <1>9, <1>10 DEF GcNext

LEMMA TypesKept == ASSUME Types, [GcNext]_gcVars PROVE Types'
<1>0. /\ clock \in Nat /\ MaxTime \in Nat /\ deltime \in Nat /\ clock <= MaxTime /\ deltime <= clock
      /\ stamp \in [Data -> Nat] /\ \A d \in Data : stamp[d] <= clock
      /\ gpc \in [Users -> Places] /\ Collector \in Users /\ Data \subseteq Users
  BY GcAssumption DEF Types, Users
<1>1. gpc' \in [Users -> Places]
  <2>1. ASSUME NEW t \in Users, GcLock(t) PROVE gpc' \in [Users -> Places]
    BY <1>0, <2>1 DEF GcLock, Places
  <2>2. ASSUME NEW t \in Users, NEW to \in Places, GcUnlock(t, to) PROVE gpc' \in [Users -> Places]
    BY <1>0, <2>2 DEF GcUnlock, Places
  <2>3. {"added", "on", "free", "stamped", "linked", "start"} \subseteq Places
    BY DEF Places
  <2>4. ASSUME NEW d \in Data, Stamp(d) \/ AddLock(d) \/ Link(d) \/ AddUnlock(d) PROVE gpc' \in [Users -> Places]
    BY <1>0, <2>1, <2>2, <2>3, <2>4 DEF Stamp, AddLock, Link, AddUnlock
  <2>5. ASSUME Round \/ CollectLock \/ EarlyUnlock \/ LastUnlock \/ Free PROVE gpc' \in [Users -> Places]
    BY <1>0, <2>1, <2>2, <2>3, <2>5 DEF Round, CollectLock, EarlyUnlock, LastUnlock, Free
  <2>6. ASSUME ReadFirst \/ Pass \/ Cut \/ Tick \/ UNCHANGED gcVars PROVE gpc' \in [Users -> Places]
    BY <1>0, <2>6 DEF ReadFirst, Pass, Cut, Tick, gcVars, thread
  <2> QED BY <2>4, <2>5, <2>6 DEF GcNext
<1>2. beside' \in BOOLEAN
  <2>1. beside \in BOOLEAN
    BY DEF Types
  <2>2. ASSUME NEW t \in Users, GcLock(t) PROVE beside' \in BOOLEAN
    BY <2>1, <2>2, Zenon DEF GcLock
  <2>3. ASSUME NEW t \in Users, NEW to, GcUnlock(t, to) PROVE beside' \in BOOLEAN
    BY <2>1, <2>3, Zenon DEF GcUnlock
  <2>4. ASSUME NEW d \in Data, Stamp(d) \/ AddLock(d) \/ Link(d) \/ AddUnlock(d) PROVE beside' \in BOOLEAN
    BY <1>0, <2>1, <2>2, <2>3, <2>4, Zenon DEF Stamp, AddLock, Link, AddUnlock, hist
  <2>5. ASSUME Round \/ CollectLock \/ EarlyUnlock \/ LastUnlock \/ Free PROVE beside' \in BOOLEAN
    BY <1>0, <2>1, <2>2, <2>3, <2>5, Zenon DEF Round, CollectLock, EarlyUnlock, LastUnlock, Free, hist
  <2>6. ASSUME ReadFirst \/ Pass \/ Cut \/ Tick \/ UNCHANGED gcVars PROVE beside' \in BOOLEAN
    BY <2>1, <2>6, Zenon DEF ReadFirst, Pass, Cut, Tick, gcVars, hist
  <2> QED BY <2>4, <2>5, <2>6 DEF GcNext
<1>3. /\ clock' \in Nat /\ clock' <= MaxTime /\ clock <= clock' /\ deltime' \in Nat /\ deltime' <= clock'
  BY <1>0 DEF GcNext, Stamp, AddLock, Link, AddUnlock, Round, CollectLock, ReadFirst, EarlyUnlock,
              Pass, Cut, LastUnlock, Free, Tick, gcVars, thread, entry, coll
<1>4. stamp' \in [Data -> Nat] /\ \A d \in Data : stamp'[d] <= clock'
  BY <1>0, <1>3 DEF GcNext, Stamp, AddLock, Link, AddUnlock, Round, CollectLock, ReadFirst, EarlyUnlock,
              Pass, Cut, LastUnlock, Free, Tick, gcVars, thread, entry, coll
<1>5. first' \in Data \cup {Nil} /\ next' \in [Data -> Data \cup {Nil}]
  BY DEF Types, GcNext, Stamp, AddLock, Link, AddUnlock, Round, CollectLock, ReadFirst, EarlyUnlock,
         Pass, Cut, LastUnlock, Free, Tick, gcVars, thread, entry, coll
<1>6. at' \in Data \cup {Nil} /\ prev' \in Data \cup {Nil} /\ j' \in -1..4
  BY DEF Types, GcNext, Stamp, AddLock, Link, AddUnlock, Round, CollectLock, ReadFirst, EarlyUnlock,
         Pass, Cut, LastUnlock, Free, Tick, gcVars, thread, entry, coll, Scanning
<1>7. freed' \in [Data -> Nat]
  BY DEF Types, GcNext, Stamp, AddLock, Link, AddUnlock, Round, CollectLock, ReadFirst, EarlyUnlock,
         Pass, Cut, LastUnlock, Free, Tick, gcVars, thread, entry, coll, hist
<1> QED BY <1>0, <1>1, <1>2, <1>3, <1>4, <1>5, <1>6, <1>7 DEF Types

-----------------------------------------------------------------------------
GcInv == Types /\ LockInv /\ ListInv

LEMMA InitList == GcInit => ListInv
<1> SUFFICES ASSUME GcInit PROVE Single /\ Shape /\ Stand /\ Fate /\ Ages
  BY DEF ListInv
<1>1. /\ first = Nil /\ at = Nil /\ j = -1 /\ early = {} /\ overtaken = {}
      /\ \A x \in Data : next[x] = Nil /\ freed[x] = 0 /\ gpc[x] = "start"
      /\ \A u \in Users : gpc[u] = "start"
  BY DEF GcInit, Users
<1>2. Chain(Nil) = {} /\ Added = {} /\ Holders = {} /\ gpc[Collector] = "start"
  BY <1>1, ChainNil DEF Chain, Added, Holders, Users
<1> QED BY <1>1, <1>2 DEF Single, Shape, Stand, Walking, Fate, Ages

LEMMA GcInvAlways == GcSpec => []GcInv
<1>1. GcInit => GcInv
  BY InitTypes, InitList DEF GcInv
<1>2. GcInv /\ [GcNext]_gcVars => GcInv'
  BY TypesKept, LockKept, ListKept DEF GcInv
<1> QED BY <1>1, <1>2, PTL DEF GcSpec

\* The types of a list of the garbage collector and its lock: the counter never exceeds the
\* number of threads.
THEOREM GcTypeOKAlways == GcSpec => []GcTypeOK
<1>1. GcInv => GcTypeOK
  <2> SUFFICES ASSUME GcInv PROVE GcTypeOK
    OBVIOUS
  <2>1. gwritelock \in 0..Cardinality(Users)
    <3>1. (Queued \cup Holders) \in SUBSET Users
      BY DEF Queued, Holders
    <3>2. Cardinality(Queued \cup Holders) <= Cardinality(Users)
      BY <3>1, UsersFinite, FS_Subset
    <3>3. Cardinality(Queued \cup Holders) \in Nat /\ Cardinality(Users) \in Nat
      BY <3>1, UsersFinite, FS_CardinalityType
    <3> QED BY <3>2, <3>3 DEF GcInv, LockInv
  <2>2. \A d \in Data : stamp[d] \in 0..clock
    BY DEF GcInv, Types
  <2> QED BY <2>1, <2>2 DEF GcInv, Types, GcTypeOK, Places
<1> QED BY <1>1, GcInvAlways, PTL

\* However often the collector leaves the lock a second time, nobody waits for it without
\* another thread inside that lets the next one in.
THEOREM NobodyLockedOutAlways == GcSpec => []NobodyLockedOut
<1>1. GcInv => NobodyLockedOut
  BY DEF GcInv, LockInv, NobodyLockedOut
<1> QED BY <1>1, GcInvAlways, PTL

\* What was given to add_garbage is in the list, cut off from it, or freed, and freed once;
\* until the collector's second unlock lets two threads in at once.
THEOREM NothingLostAlways == GcSpec => []NothingLost
<1>1. GcInv => NothingLost
  <2> SUFFICES ASSUME GcInv, ~beside, NEW d \in Data, gpc[d] = "added"
               PROVE  /\ freed[d] <= 1
                      /\ freed[d] = 0 => d \in Chain(first) \cup Chain(at)
                      /\ freed[d] = 1 => d \notin Chain(first)
    BY DEF NothingLost
  <2>1. Fate /\ d \in Added
    BY DEF GcInv, ListInv, Added
  <2> QED BY <2>1 DEF Fate
<1> QED BY <1>1, GcInvAlways, PTL

\* Memory stays for timeout_time after its thread gave it up, or was linked before an older
\* entry; until the collector's second unlock lets two threads in at once.
THEOREM NotEarlyAlways == GcSpec => []NotEarly
<1>1. GcInv => NotEarly
  BY DEF GcInv, ListInv, Ages, NotEarly
<1> QED BY <1>1, GcInvAlways, PTL

-----------------------------------------------------------------------------
(* The list (ncam-llist.c)                                                 *)

LlTypes ==
  /\ nxt \in LinksOf(Nodes)
  /\ initial \in Nodes \cup {Nil} /\ last \in Nodes \cup {Nil} /\ used \in SUBSET Nodes
  /\ version \in 0..MaxVersion
  /\ it \in [Walkers -> [cur : Nodes \cup {Nil}, prv : Nodes \cup {Nil}, ver : Nat]]
  /\ phase \in [Walkers -> {"idle", "on", "done"}]
  /\ seen \in [Walkers -> SUBSET Nodes] /\ due \in [Walkers -> SUBSET Nodes]
  /\ strayed \in [Walkers -> BOOLEAN] /\ twice \in [Walkers -> BOOLEAN]
  /\ taken \in [Nodes -> Nat]

\* The links, and what has become of the nodes
LlShape ==
  /\ Path(Nodes, nxt, initial)
  /\ Linked \subseteq used
  /\ last \in Linked \cup {Nil} /\ (last = Nil <=> initial = Nil)
  /\ \A n \in Linked : nxt[n] = Nil <=> n = last
  /\ count = Cardinality(Linked)
  /\ \A n \in Linked : taken[n] = 0
  /\ \A n \in Nodes : taken[n] <= 1
  /\ \A n \in Nodes \ used : nxt[n] = Nil /\ taken[n] = 0

\* An iterator that has seen every change stands in the list, and the node it came from is
\* the one before; what the others remember is not trusted.
StandsAt(i) ==
  /\ {i.cur, i.prv} \subseteq used \cup {Nil} /\ i.ver <= version
  /\ i.ver = version /\ i.cur # Nil =>
       i.cur \in Linked /\ (i.prv # Nil => i.prv \in Linked /\ nxt[i.prv] = i.cur)
LlStand == \A t \in Walkers : StandsAt(it[t])

\* What an iteration has still to come to
Ahead(i) == IF i.cur = Nil THEN Linked ELSE Behind(i.cur)

\* An iteration that was not lost stands in the list; what it has returned is not ahead of
\* it, and what it owes is.
Walked(t) ==
  /\ due[t] \subseteq Linked /\ seen[t] \subseteq used
  /\ phase[t] = "on" /\ it[t].cur = Nil => it[t].prv = Nil
  /\ ~strayed[t] =>
       /\ ~twice[t]
       /\ phase[t] = "done" => due[t] \subseteq seen[t]
       /\ phase[t] = "on" =>
            /\ it[t].cur \in Linked \cup {Nil}
            /\ seen[t] \cap Ahead(it[t]) = {}
            /\ due[t] \subseteq seen[t] \cup Ahead(it[t])
LlWalks == \A t \in Walkers : Walked(t)

LlInv == LlTypes /\ LlShape /\ LlStand /\ LlWalks

\* The node before n, and what an operation makes of the nodes in the list
RightAfter(n, p) == n \in Linked /\ IF p = Nil THEN n = initial ELSE p \in Linked /\ nxt[p] = n
Loses(n) == /\ Linked' = Linked \ {n}
            /\ \A e \in Linked \ {n} : Behind(e)' = Behind(e) \ {n}
Gains(n) == /\ Linked' = Linked \cup {n}
            /\ \A e \in Linked : Behind(e) \subseteq Behind(e)' /\ Behind(e)' \subseteq Behind(e) \cup {n}

LEMMA LinkedFacts ==
  ASSUME LlTypes, LlShape
  PROVE  /\ Nil \notin Nodes /\ Linked \in SUBSET Nodes /\ IsFiniteSet(Linked)
         /\ initial # Nil => initial \in Linked /\ Linked = {initial} \cup Behind(initial)
         /\ initial = Nil => Linked = {}
         /\ \A e \in Linked : /\ e \notin Behind(e) /\ Behind(e) \subseteq Linked
                              /\ nxt[e] \in Linked \cup {Nil}
                              /\ nxt[e] # Nil => Behind(e) = {nxt[e]} \cup Behind(nxt[e])
                              /\ nxt[e] = Nil => Behind(e) = {}
<1>1. Nil \notin Nodes /\ nxt \in LinksOf(Nodes) /\ initial \in Nodes \cup {Nil} /\ IsFiniteSet(Nodes)
  BY LlAssumption DEF LlTypes
<1>2. Linked \in SUBSET Nodes
  BY ChainData DEF Linked
<1>3. IsFiniteSet(Linked)
  BY <1>1, <1>2, FS_Subset
<1>4. initial # Nil => initial \in Linked /\ Linked = {initial} \cup Behind(initial)
  BY <1>1, ChainHas, ChainStep DEF Linked, Behind
<1>5. initial = Nil => Linked = {}
  BY ChainNil DEF Linked
<1>6. ASSUME NEW e \in Linked
      PROVE  /\ e \notin Behind(e) /\ Behind(e) \subseteq Linked
             /\ nxt[e] \in Linked \cup {Nil}
             /\ nxt[e] # Nil => Behind(e) = {nxt[e]} \cup Behind(nxt[e])
             /\ nxt[e] = Nil => Behind(e) = {}
  <2>1. Path(Nodes, nxt, initial)
    BY DEF LlShape
  <2>2. /\ e \notin Behind(e) /\ Behind(e) \subseteq Linked
        /\ nxt[e] \in Linked \cup {Nil}
    BY <1>1, <2>1, PathSub DEF Linked, Behind
  <2>3. nxt[e] # Nil => nxt[e] \in Nodes
    BY <1>2, <2>2
  <2>4. nxt[e] # Nil => Behind(e) = {nxt[e]} \cup Behind(nxt[e])
    BY <1>1, <2>3, ChainStep DEF Behind
  <2>5. nxt[e] = Nil => Behind(e) = {}
    BY ChainNil DEF Behind
  <2> QED BY <2>2, <2>4, <2>5
<1> QED BY <1>1, <1>2, <1>3, <1>4, <1>5, <1>6

LEMMA BeforeRight ==
  ASSUME LlTypes, LlShape, NEW n \in Linked
  PROVE  RightAfter(n, Before(n))
<1>0. Nil \notin Nodes /\ Linked \in SUBSET Nodes /\ nxt \in LinksOf(Nodes) /\ initial \in Nodes \cup {Nil}
  BY LinkedFacts DEF LlTypes
<1>1. CASE n = initial
  BY <1>1 DEF Before, RightAfter
<1>2. CASE n # initial
  <2>1. \E w \in Linked : nxt[w] = n
    BY <1>0, <1>2, ChainBefore DEF Linked
  <2>2. Before(n) \in Linked /\ nxt[Before(n)] = n
    BY <1>2, <2>1 DEF Before
  <2> QED BY <1>0, <2>2 DEF RightAfter
<1> QED BY <1>1, <1>2

LEMMA PrevRight ==
  ASSUME LlTypes, LlShape, NEW i, StandsAt(i), Found(i)
  PROVE  i.cur \in Linked /\ RightAfter(i.cur, Prev(i))
<1>1. CASE Stale(i)
  BY <1>1, BeforeRight DEF Found, Prev
<1>2. CASE ~Stale(i)
  BY <1>2 DEF Stale, StandsAt, Found, Prev, RightAfter
<1> QED BY <1>1, <1>2

\* Unlinking a node, wherever it is
LEMMA Unlinked ==
  ASSUME LlTypes, LlShape, NEW n, NEW p, RightAfter(n, p), Unlink(n, p),
         taken' = [taken EXCEPT ![n] = @ + 1], used' = used
  PROVE  /\ LlShape' /\ Loses(n) /\ n \in Nodes /\ p \in (Linked \cup {Nil})'
         /\ p = Nil => Linked' = Behind(n)
         /\ p # Nil => Behind(p)' = Behind(n)
         /\ nxt' \in LinksOf(Nodes) /\ {initial', last'} \subseteq Nodes \cup {Nil}
<1>1. /\ n \in Linked /\ Linked \in SUBSET Nodes /\ Nil \notin Nodes /\ IsFiniteSet(Linked)
      /\ nxt \in LinksOf(Nodes) /\ initial \in Nodes \cup {Nil} /\ Path(Nodes, nxt, initial)
      /\ nxt[n] \in Linked \cup {Nil} /\ n \notin Behind(n)
  BY LinkedFacts DEF RightAfter, LlTypes, LlShape
<1>2. /\ nxt' = IF p = Nil THEN nxt ELSE [nxt EXCEPT ![p] = nxt[n]]
      /\ initial' = IF p = Nil THEN nxt[n] ELSE initial
      /\ last' = IF initial' = Nil THEN Nil ELSE IF n = last THEN p ELSE last
      /\ count' = count - 1
  BY DEF Unlink
<1>3. nxt' \in LinksOf(Nodes)
  BY <1>1, <1>2 DEF LinksOf
<1>4. /\ Loses(n) /\ Path(Nodes, nxt', initial') /\ p \in (Linked \cup {Nil})'
      /\ p = Nil => Linked' = Behind(n)
      /\ p # Nil => Behind(p)' = Behind(n)
  <2>1. CASE p = Nil
    <3>1. n = initial /\ nxt' = nxt /\ initial' = nxt[n]
      BY <1>2, <2>1 DEF RightAfter
    <3>2. Linked = {n} \cup Behind(n) /\ Linked' = Behind(n)
      BY <1>1, <3>1, LinkedFacts DEF Linked, Behind
    <3>3. Linked' = Linked \ {n}
      BY <1>1, <3>2
    <3>4. ASSUME NEW e \in Linked \ {n} PROVE Behind(e)' = Behind(e) \ {n}
      <4>1. e \in Behind(n)
        BY <3>2, <3>4
      <4>2. nxt[n] \in Nodes \cup {Nil} /\ Path(Nodes, nxt, nxt[n])
        BY <1>1, PathSub DEF Linked
      <4>3. Behind(e) \subseteq Behind(n)
        BY <1>1, <4>1, <4>2, PathSub DEF Behind
      <4> QED BY <1>1, <3>1, <4>3 DEF Behind
    <3>5. Path(Nodes, nxt', initial')
      BY <1>1, <3>1, PathSub DEF Linked
    <3> QED BY <2>1, <3>2, <3>3, <3>4, <3>5 DEF Loses
  <2>2. CASE p # Nil
    <3>1. p \in Linked /\ nxt[p] = n /\ initial' = initial /\ n # Nil /\ p \in Nodes
      BY <1>1, <1>2, <2>2 DEF RightAfter
    <3>2. SkipsBehind(Nodes, nxt, p, nxt')
      BY <1>2, <1>3, <2>2, <3>1 DEF SkipsBehind, LinksOf
    <3>3. /\ ChainIn(Nodes, nxt', initial) = ChainIn(Nodes, nxt, initial) \ {n}
          /\ Path(Nodes, nxt', initial)
          /\ \A e \in ChainIn(Nodes, nxt, initial) \ {n} :
               ChainIn(Nodes, nxt', nxt'[e]) = ChainIn(Nodes, nxt, nxt[e]) \ {n}
      <4>1. p \in ChainIn(Nodes, nxt, initial) /\ nxt[p] # Nil
        BY <3>1 DEF Linked
      <4>2. /\ ChainIn(Nodes, nxt', initial) = ChainIn(Nodes, nxt, initial) \ {nxt[p]}
            /\ Path(Nodes, nxt', initial)
            /\ \A e \in ChainIn(Nodes, nxt, initial) \ {nxt[p]} :
                 ChainIn(Nodes, nxt', nxt'[e]) = ChainIn(Nodes, nxt, nxt[e]) \ {nxt[p]}
        BY <1>1, <3>2, <4>1, Skipped
      <4> QED BY <3>1, <4>2
    <3>4. Loses(n) /\ Path(Nodes, nxt', initial')
      BY <3>1, <3>3 DEF Loses, Linked, Behind
    <3>5. p # n /\ Behind(p) = {n} \cup Behind(n)
      <4>1. p \notin Behind(p) /\ Behind(p) = {n} \cup Behind(n)
        BY <3>1, LinkedFacts
      <4> QED BY <4>1
    <3> QED BY <1>1, <2>2, <3>1, <3>4, <3>5 DEF Loses
  <2> QED BY <2>1, <2>2
<1>5. count' = Cardinality(Linked')
  <2>1. Cardinality(Linked \ {n}) = Cardinality(Linked) - 1
    BY <1>1, FS_RemoveElement
  <2> QED BY <1>2, <1>4, <2>1 DEF LlShape, Loses
<1>6. last \in Linked /\ (nxt[n] = Nil <=> n = last) /\ initial # Nil
  BY <1>1, LinkedFacts DEF LlShape
<1>7. last' \in (Linked \cup {Nil})' /\ (last' = Nil <=> initial' = Nil)
  <2>1. CASE p = Nil
    <3>1. initial' = nxt[n]
      BY <1>2, <2>1
    <3>2. nxt[n] = Nil => last' = Nil
      BY <1>2, <3>1
    <3>3. nxt[n] # Nil => n # last /\ last' = last
      BY <1>2, <1>6, <3>1
    <3> QED BY <1>1, <1>4, <1>6, <3>1, <3>2, <3>3 DEF Loses
  <2>2. CASE p # Nil
    <3>1. initial' = initial /\ last' = IF n = last THEN p ELSE last
      BY <1>2, <1>6, <2>2
    <3> QED BY <1>1, <1>4, <1>6, <2>2, <3>1 DEF Loses
  <2> QED BY <2>1, <2>2
<1>8. ASSUME NEW e \in Linked' PROVE nxt'[e] = Nil <=> e = last'
  <2>1. e \in Linked /\ e # n /\ e \in Nodes /\ initial' # Nil
    <3>1. e \in Linked /\ e # n
      BY <1>4, <1>8 DEF Loses
    <3>2. initial' # Nil
      <4>1. p = Nil => Behind(n) # {}
        BY <1>4, <1>8
      <4> QED BY <1>1, <1>2, <1>6, <4>1, LinkedFacts
    <3> QED BY <1>1, <3>1, <3>2
  <2>2. nxt[e] = Nil <=> e = last
    BY <2>1 DEF LlShape
  <2>3. CASE e = p
    <3>1. nxt'[e] = nxt[n] /\ nxt[e] = n /\ p # Nil
      BY <1>1, <1>2, <2>1, <2>3 DEF RightAfter, LinksOf
    <3>2. e # last
      BY <1>1, <2>2, <3>1
    <3> QED BY <1>2, <1>6, <2>1, <2>3, <3>1, <3>2
  <2>4. CASE e # p
    <3>1. nxt'[e] = nxt[e]
      BY <1>1, <1>2, <2>1, <2>4 DEF LinksOf
    <3> QED BY <1>2, <2>1, <2>2, <2>4, <3>1
  <2> QED BY <2>3, <2>4
<1>9. /\ \A e \in Linked' : taken'[e] = 0
      /\ \A e \in Nodes : taken'[e] <= 1
      /\ \A e \in Nodes \ used' : nxt'[e] = Nil /\ taken'[e] = 0
  <2>1. taken \in [Nodes -> Nat] /\ taken[n] = 0 /\ \A e \in Nodes : taken'[e] = IF e = n THEN 1 ELSE taken[e]
    BY <1>1 DEF LlTypes, LlShape
  <2>2. \A e \in Linked' : e \in Linked /\ e # n /\ e \in Nodes
    BY <1>1, <1>4 DEF Loses
  <2>3. ASSUME NEW e \in Nodes \ used' PROVE nxt'[e] = Nil /\ taken'[e] = 0
    <3>1. e \notin Linked /\ e # n /\ nxt[e] = Nil /\ taken[e] = 0
      BY <1>1, <2>3 DEF LlShape
    <3>2. nxt'[e] = nxt[e]
      BY <1>1, <1>2, <3>1 DEF RightAfter, LinksOf
    <3> QED BY <2>1, <3>1, <3>2
  <2> QED BY <2>1, <2>2, <2>3 DEF LlShape
<1>10. Linked' \subseteq used' /\ {initial', last'} \subseteq Nodes \cup {Nil}
  BY <1>1, <1>2, <1>4, <1>7 DEF LlShape, Loses
<1> QED BY <1>1, <1>3, <1>4, <1>5, <1>7, <1>8, <1>9, <1>10 DEF LlShape

\* A new node that is put behind p, or first, into the list
LEMMA GainedShape ==
  ASSUME LlTypes, LlShape, NEW n \in Nodes \ used, Linked' = Linked \cup {n},
         Path(Nodes, nxt', initial'), used' = used \cup {n}, count' = count + 1, taken' = taken,
         last' \in Linked \cup {n}, initial' # Nil,
         \A e \in Linked \cup {n} : nxt'[e] = Nil <=> e = last',
         \A e \in Nodes \ (used \cup {n}) : nxt'[e] = nxt[e]
  PROVE  LlShape'
<1>1. n \notin Linked /\ IsFiniteSet(Linked) /\ Linked \in SUBSET Nodes /\ Nil \notin Nodes
  BY LinkedFacts DEF LlShape
<1>2. count' = Cardinality(Linked')
  <2>1. Cardinality(Linked \cup {n}) = Cardinality(Linked) + 1
    BY <1>1, FS_AddElement
  <2> QED BY <2>1 DEF LlShape
<1>3. \A e \in Nodes \ used' : nxt'[e] = Nil /\ taken'[e] = 0
  BY DEF LlShape
<1>4. \A e \in Linked' : taken'[e] = 0
  BY DEF LlShape
<1>5. last' \in (Linked \cup {Nil})' /\ (last' = Nil <=> initial' = Nil)
  BY <1>1
<1> QED BY <1>2, <1>3, <1>4, <1>5 DEF LlShape

LEMMA PutBehindGains ==
  ASSUME LlTypes, LlShape, NEW n \in Nodes \ used, NEW p \in Linked,
         nxt' = [nxt EXCEPT ![p] = n, ![n] = nxt[p]], initial' = initial
  PROVE  /\ nxt' \in LinksOf(Nodes) /\ Gains(n) /\ Path(Nodes, nxt', initial')
         /\ \A e \in Nodes : nxt'[e] = IF e = p THEN n ELSE IF e = n THEN nxt[p] ELSE nxt[e]
<1>1. /\ n \notin Linked /\ Linked \in SUBSET Nodes /\ Nil \notin Nodes /\ p \in Nodes /\ p # n
      /\ nxt \in LinksOf(Nodes) /\ initial \in Nodes \cup {Nil} /\ Path(Nodes, nxt, initial)
  BY LinkedFacts DEF LlTypes, LlShape
<1>2. PutsBehind(Nodes, nxt, p, n, nxt')
  BY <1>1 DEF PutsBehind, LinksOf
<1>3. p \in ChainIn(Nodes, nxt, initial) /\ n \in Nodes \ ChainIn(Nodes, nxt, initial)
  BY <1>1 DEF Linked
<1>4. /\ ChainIn(Nodes, nxt', initial) = ChainIn(Nodes, nxt, initial) \cup {n}
      /\ Path(Nodes, nxt', initial)
      /\ \A e \in ChainIn(Nodes, nxt, initial) :
           /\ ChainIn(Nodes, nxt, nxt[e]) \subseteq ChainIn(Nodes, nxt', nxt'[e])
           /\ ChainIn(Nodes, nxt', nxt'[e]) \subseteq ChainIn(Nodes, nxt, nxt[e]) \cup {n}
  <2> DEFINE ny == nxt'
  <2>1. ny \in LinksOf(Nodes) /\ PutsBehind(Nodes, nxt, p, n, ny)
    BY <1>2 DEF PutsBehind
  <2> HIDE DEF ny
  <2>2. /\ ChainIn(Nodes, ny, initial) = ChainIn(Nodes, nxt, initial) \cup {n}
        /\ Path(Nodes, ny, initial)
        /\ \A e \in ChainIn(Nodes, nxt, initial) :
             /\ ChainIn(Nodes, nxt, nxt[e]) \subseteq ChainIn(Nodes, ny, ny[e])
             /\ ChainIn(Nodes, ny, ny[e]) \subseteq ChainIn(Nodes, nxt, nxt[e]) \cup {n}
    BY <1>1, <1>3, <2>1, PutBehind
  <2> QED BY <2>2 DEF ny
<1>5. Gains(n)
  BY <1>4 DEF Gains, Linked, Behind
<1> QED BY <1>2, <1>4, <1>5 DEF PutsBehind

LEMMA AppendedKeeps ==
  ASSUME LlTypes, LlShape, NEW n \in Nodes \ used, Appended(n), taken' = taken
  PROVE  LlShape' /\ Gains(n) /\ nxt' \in LinksOf(Nodes)
<1>1. /\ n \notin Linked /\ Linked \in SUBSET Nodes /\ Nil \notin Nodes /\ nxt[n] = Nil
      /\ nxt \in LinksOf(Nodes) /\ initial \in Nodes \cup {Nil} /\ Path(Nodes, nxt, initial)
      /\ last \in Linked \cup {Nil} /\ (last = Nil <=> initial = Nil)
      /\ \A e \in Linked : nxt[e] = Nil <=> e = last
  BY LinkedFacts DEF LlTypes, LlShape
<1>2. /\ nxt' = IF last = Nil THEN nxt ELSE [nxt EXCEPT ![last] = n]
      /\ initial' = IF last = Nil THEN n ELSE initial
      /\ last' = n /\ count' = count + 1 /\ used' = used \cup {n}
  BY DEF Appended
<1>3. /\ nxt' \in LinksOf(Nodes) /\ Gains(n) /\ Path(Nodes, nxt', initial') /\ initial' # Nil
      /\ \A e \in Nodes : nxt'[e] = IF last # Nil /\ e = last THEN n ELSE nxt[e]
  <2>1. CASE last = Nil
    <3>1. Linked = {} /\ nxt' = nxt /\ initial' = n
      BY <1>1, <1>2, <2>1, LinkedFacts
    <3>2. Behind(n) = {}
      BY <1>1, ChainNil DEF Behind
    <3>3. Linked' = {n}
      BY <1>1, <3>1, <3>2, ChainStep DEF Linked, Behind
    <3>4. Path(Nodes, nxt', initial')
      BY <3>1, <3>2, <3>3 DEF Path, Linked, Behind
    <3> QED BY <1>1, <2>1, <3>1, <3>3, <3>4 DEF Gains
  <2>2. CASE last # Nil
    <3>1. last \in Linked /\ nxt[last] = Nil /\ last \in Nodes /\ last # n
      BY <1>1, <2>2
    <3>2. nxt' = [nxt EXCEPT ![last] = n, ![n] = nxt[last]]
      <4>1. nxt' \in LinksOf(Nodes) /\ [nxt EXCEPT ![last] = n, ![n] = nxt[last]] \in LinksOf(Nodes)
        BY <1>1, <1>2, <2>2, <3>1 DEF LinksOf
      <4>2. \A e \in Nodes : nxt'[e] = [nxt EXCEPT ![last] = n, ![n] = nxt[last]][e]
        BY <1>1, <1>2, <2>2, <3>1 DEF LinksOf
      <4> QED BY <4>1, <4>2 DEF LinksOf
    <3>3. initial' = initial /\ initial # Nil
      BY <1>1, <1>2, <2>2
    <3>4. /\ nxt' \in LinksOf(Nodes) /\ Gains(n) /\ Path(Nodes, nxt', initial')
          /\ \A e \in Nodes : nxt'[e] = IF e = last THEN n ELSE IF e = n THEN nxt[last] ELSE nxt[e]
      BY <3>1, <3>2, <3>3, PutBehindGains
    <3> QED BY <1>1, <2>2, <3>1, <3>3, <3>4
  <2> QED BY <2>1, <2>2
<1>4. \A e \in Linked \cup {n} : nxt'[e] = Nil <=> e = last'
  BY <1>1, <1>2, <1>3
<1>5. Linked' = Linked \cup {n}
  BY <1>3 DEF Gains
<1>6. \A e \in Nodes \ (used \cup {n}) : nxt'[e] = nxt[e]
  BY <1>1, <1>3 DEF LlShape
<1>7. LlShape'
  BY <1>2, <1>3, <1>4, <1>5, <1>6, GainedShape
<1> QED BY <1>3, <1>7

LEMMA PrependedKeeps ==
  ASSUME LlTypes, LlShape, NEW n \in Nodes, Prepend(n)
  PROVE  LlShape' /\ Gains(n) /\ nxt' \in LinksOf(Nodes) /\ {initial', last'} \subseteq Nodes \cup {Nil}
<1>1. /\ n \notin Linked /\ Linked \in SUBSET Nodes /\ Nil \notin Nodes /\ n \notin used
      /\ nxt \in LinksOf(Nodes) /\ initial \in Nodes \cup {Nil} /\ Path(Nodes, nxt, initial)
      /\ last \in Linked \cup {Nil} /\ (last = Nil <=> initial = Nil)
      /\ \A e \in Linked : nxt[e] = Nil <=> e = last
  BY LinkedFacts DEF LlTypes, LlShape, Prepend
<1>2. /\ nxt' = [nxt EXCEPT ![n] = initial] /\ initial' = n
      /\ last' = IF last = Nil THEN n ELSE last
      /\ count' = count + 1 /\ used' = used \cup {n} /\ taken' = taken
  BY DEF Prepend, llHist
<1>3. PutsFirst(Nodes, nxt, n, initial, nxt')
  BY <1>1, <1>2 DEF PutsFirst, LinksOf
<1>4. n \in Nodes \ ChainIn(Nodes, nxt, initial)
  BY <1>1 DEF Linked
<1>5. /\ ChainIn(Nodes, nxt', n) = ChainIn(Nodes, nxt, initial) \cup {n}
      /\ Path(Nodes, nxt', n)
      /\ \A e \in ChainIn(Nodes, nxt, initial) : ChainIn(Nodes, nxt', nxt'[e]) = ChainIn(Nodes, nxt, nxt[e])
  BY <1>1, <1>3, <1>4, PutFirst
<1>6. Gains(n) /\ Path(Nodes, nxt', initial')
  BY <1>2, <1>5 DEF Gains, Linked, Behind
<1>7. nxt' \in LinksOf(Nodes) /\ \A e \in Nodes : nxt'[e] = IF e = n THEN initial ELSE nxt[e]
  BY <1>3 DEF PutsFirst
<1>8. Linked = {} <=> initial = Nil
  BY LinkedFacts
<1>9. \A e \in Linked \cup {n} : nxt'[e] = Nil <=> e = last'
  BY <1>1, <1>2, <1>7, <1>8
<1>10. Linked' = Linked \cup {n} /\ last' \in Linked \cup {n} /\ initial' # Nil
  BY <1>1, <1>2, <1>6 DEF Gains
<1>11. LlShape'
  <2>1. n \in Nodes \ used
    BY <1>1
  <2>2. \A e \in Nodes \ (used \cup {n}) : nxt'[e] = nxt[e]
    BY <1>7
  <2> QED BY <1>2, <1>6, <1>9, <1>10, <2>1, <2>2, GainedShape
<1> QED BY <1>1, <1>2, <1>6, <1>7, <1>10, <1>11

\* A node that is put between two of the list
LEMMA InsertedKeeps ==
  ASSUME LlTypes, LlShape, NEW n \in Nodes \ used, NEW p \in Linked, nxt[p] # Nil,
         nxt' = [nxt EXCEPT ![p] = n, ![n] = nxt[p]],
         count' = count + 1, used' = used \cup {n}, taken' = taken,
         initial' = initial, last' = last
  PROVE  LlShape' /\ Gains(n) /\ nxt' \in LinksOf(Nodes)
<1>1. /\ nxt' \in LinksOf(Nodes) /\ Gains(n) /\ Path(Nodes, nxt', initial')
      /\ \A e \in Nodes : nxt'[e] = IF e = p THEN n ELSE IF e = n THEN nxt[p] ELSE nxt[e]
  BY PutBehindGains
<1>2. /\ n \notin Linked /\ Linked \in SUBSET Nodes /\ Nil \notin Nodes /\ p # last
      /\ last \in Linked \cup {Nil} /\ (last = Nil <=> initial = Nil) /\ initial # Nil
      /\ \A e \in Linked : nxt[e] = Nil <=> e = last
  BY LinkedFacts DEF LlShape
<1>3. \A e \in Linked \cup {n} : nxt'[e] = Nil <=> e = last'
  BY <1>1, <1>2
<1>4. Linked' = Linked \cup {n} /\ last' \in Linked \cup {n} /\ initial' # Nil
  BY <1>1, <1>2 DEF Gains
<1>5. \A e \in Nodes \ (used \cup {n}) : nxt'[e] = nxt[e]
  BY <1>1 DEF LlShape
<1>6. LlShape'
  BY <1>1, <1>3, <1>4, <1>5, GainedShape
<1> QED BY <1>1, <1>6

LEMMA MovedKeeps ==
  ASSUME LlTypes, LlShape, NEW n, NEW p, RightAfter(n, p), n # initial,
         nxt' = [nxt EXCEPT ![p] = nxt[n], ![n] = initial], initial' = n,
         last' = IF last = n THEN p ELSE last,
         count' = count, used' = used, taken' = taken
  PROVE  LlShape' /\ Linked' = Linked /\ nxt' \in LinksOf(Nodes) /\ n \in Nodes /\ last' \in Nodes \cup {Nil}
<1>1. /\ n \in Linked /\ p \in Linked /\ p # Nil /\ nxt[p] = n /\ n # Nil /\ n \in Nodes /\ p \in Nodes
      /\ p # n /\ Linked \in SUBSET Nodes /\ Nil \notin Nodes /\ nxt[n] \in Linked \cup {Nil} /\ nxt[n] # n
      /\ nxt \in LinksOf(Nodes) /\ initial \in Nodes \cup {Nil} /\ Path(Nodes, nxt, initial)
  <2>1. n \in Linked /\ p \in Linked /\ p # Nil /\ nxt[p] = n
    BY LinkedFacts DEF RightAfter
  <2>2. Linked \in SUBSET Nodes /\ Nil \notin Nodes /\ nxt[n] \in Linked \cup {Nil}
    BY <2>1, LinkedFacts
  <2>3. nxt \in LinksOf(Nodes) /\ initial \in Nodes \cup {Nil} /\ Path(Nodes, nxt, initial)
    BY DEF LlTypes, LlShape
  <2>4. \A e \in Linked : e \notin Behind(e) /\ (nxt[e] # Nil => nxt[e] \in Behind(e))
    BY LinkedFacts
  <2>5. p # n /\ nxt[n] # n
    BY <2>1, <2>2, <2>4
  <2> QED BY <2>1, <2>2, <2>3, <2>5
<1> DEFINE ny == [nxt EXCEPT ![p] = nxt[n]]
<1>2. ny \in LinksOf(Nodes) /\ \A e \in Nodes : ny[e] = IF e = p THEN nxt[n] ELSE nxt[e]
  BY <1>1 DEF LinksOf
<1>3. nxt' \in LinksOf(Nodes) /\ \A e \in Nodes : nxt'[e] = IF e = n THEN initial ELSE ny[e]
  BY <1>1, <1>2 DEF LinksOf
<1> HIDE DEF ny
<1>4. SkipsBehind(Nodes, nxt, p, ny) /\ PutsFirst(Nodes, ny, n, initial, nxt')
  BY <1>1, <1>2, <1>3 DEF SkipsBehind, PutsFirst
<1>5. ChainIn(Nodes, ny, initial) = Linked \ {n} /\ Path(Nodes, ny, initial)
  <2>1. p \in ChainIn(Nodes, nxt, initial) /\ nxt[p] # Nil
    BY <1>1 DEF Linked
  <2>2. ChainIn(Nodes, ny, initial) = ChainIn(Nodes, nxt, initial) \ {nxt[p]} /\ Path(Nodes, ny, initial)
    BY <1>1, <1>4, <2>1, Skipped
  <2> QED BY <1>1, <2>2 DEF Linked
<1>6. Linked' = Linked /\ Path(Nodes, nxt', n)
  <2> DEFINE nz == nxt'
  <2>1. PutsFirst(Nodes, ny, n, initial, nz)
    BY <1>4
  <2> HIDE DEF nz
  <2>2. n \in Nodes \ ChainIn(Nodes, ny, initial)
    BY <1>1, <1>5
  <2>3. ChainIn(Nodes, nz, n) = ChainIn(Nodes, ny, initial) \cup {n} /\ Path(Nodes, nz, n)
    BY <1>1, <1>2, <1>5, <2>1, <2>2, PutFirst
  <2>4. ChainIn(Nodes, nxt', n) = Linked
    BY <1>1, <1>5, <2>3 DEF nz
  <2> QED BY <2>3, <2>4 DEF Linked, nz
<1>7. /\ last \in Linked /\ \A e \in Linked : nxt[e] = Nil <=> e = last
      /\ initial # Nil
  BY <1>1, LinkedFacts DEF LlShape
<1>8. \A e \in Linked : nxt'[e] = Nil <=> e = last'
  BY <1>1, <1>2, <1>3, <1>7
<1>9. \A e \in Nodes \ used : nxt'[e] = nxt[e]
  BY <1>1, <1>2, <1>3 DEF LlShape
<1>10. last' \in Linked /\ n # Nil
  BY <1>1, <1>7
<1> QED BY <1>1, <1>3, <1>6, <1>8, <1>9, <1>10 DEF LlShape

\* Where an iterator's step leads: on to the next node it has not come to.
LEMMA MovesRight ==
  ASSUME LlTypes, LlShape, NEW t \in Walkers, StandsAt(it[t]), NEW i, i = Moves(it[t])
  PROVE  /\ i \in [cur : Nodes \cup {Nil}, prv : Nodes \cup {Nil}, ver : Nat]
         /\ StandsAt(i) /\ i.ver = version
         /\ Walked(t) /\ phase[t] = "on" /\ ~strayed[t] =>
              IF i.cur = Nil THEN Ahead(it[t]) = {}
              ELSE i.cur \in Ahead(it[t]) /\ i.cur \notin Behind(i.cur)
                   /\ Ahead(it[t]) = {i.cur} \cup Behind(i.cur)
<1> DEFINE o == it[t]
<1>1. /\ o \in [cur : Nodes \cup {Nil}, prv : Nodes \cup {Nil}, ver : Nat]
      /\ version \in Nat /\ initial \in Nodes \cup {Nil} /\ Linked \subseteq used
  BY LlAssumption DEF LlTypes, LlShape
<1>2. /\ Nil \notin Nodes /\ Linked \in SUBSET Nodes
      /\ initial # Nil => initial \in Linked /\ Linked = {initial} \cup Behind(initial)
      /\ initial = Nil => Linked = {}
      /\ \A e \in Linked : /\ e \notin Behind(e)
                           /\ nxt[e] \in Linked \cup {Nil}
                           /\ nxt[e] # Nil => Behind(e) = {nxt[e]} \cup Behind(nxt[e])
                           /\ nxt[e] = Nil => Behind(e) = {}
  BY LinkedFacts
<1> HIDE DEF o
<1>3. CASE o.cur \in Linked
  <2>1. i = [cur |-> nxt[o.cur], prv |-> o.cur, ver |-> version]
    <3>1. o.cur # Nil
      BY <1>2, <1>3
    <3>2. CASE o.ver # version
      BY <1>3, <3>1, <3>2 DEF Moves, Resumed, o
    <3>3. CASE o.ver = version
      <4>1. i = [o EXCEPT !.prv = o.cur, !.cur = nxt[o.cur]]
        BY <3>1, <3>3 DEF Moves, o
      <4> QED BY <1>1, <3>3, <4>1
    <3> QED BY <3>2, <3>3
  <2>2. StandsAt(i) /\ i.ver = version /\ i \in [cur : Nodes \cup {Nil}, prv : Nodes \cup {Nil}, ver : Nat]
    BY <1>1, <1>2, <1>3, <2>1 DEF StandsAt
  <2>3. Ahead(o) = Behind(o.cur)
    BY <1>2, <1>3 DEF Ahead
  <2> QED BY <1>2, <1>3, <2>1, <2>2, <2>3 DEF o
<1>4. CASE o.cur = Nil /\ o.prv = Nil
  <2>1. i = [cur |-> initial, prv |-> Nil, ver |-> version]
    <3>1. CASE o.ver # version
      BY <1>4, <3>1 DEF Moves, Resumed, o
    <3>2. CASE o.ver = version
      <4>1. i = [o EXCEPT !.cur = initial]
        BY <1>4, <3>2 DEF Moves, o
      <4> QED BY <1>1, <1>4, <3>2, <4>1
    <3> QED BY <3>1, <3>2
  <2>2. StandsAt(i) /\ i.ver = version /\ i \in [cur : Nodes \cup {Nil}, prv : Nodes \cup {Nil}, ver : Nat]
    BY <1>1, <1>2, <2>1 DEF StandsAt
  <2>3. Ahead(o) = Linked
    BY <1>4 DEF Ahead
  <2> QED BY <1>2, <2>1, <2>2, <2>3 DEF o
<1>5. CASE o.cur \notin Linked /\ ~(o.cur = Nil /\ o.prv = Nil)
  <2>1. ~(Walked(t) /\ phase[t] = "on" /\ ~strayed[t])
    BY <1>5 DEF Walked, o
  <2>2. StandsAt(i) /\ i.ver = version /\ i \in [cur : Nodes \cup {Nil}, prv : Nodes \cup {Nil}, ver : Nat]
    <3>1. CASE o.ver # version
      <4>1. i = [cur |-> initial, prv |-> Nil, ver |-> version]
        BY <1>5, <3>1 DEF Moves, Resumed, o
      <4> QED BY <1>1, <1>2, <4>1 DEF StandsAt
    <3>2. CASE o.ver = version
      <4>1. o.cur = Nil
        BY <1>5, <3>2 DEF StandsAt, o
      <4>2. i = o
        BY <1>5, <3>2, <4>1 DEF Moves, o
      <4> QED BY <1>1, <3>2, <4>2 DEF o
    <3> QED BY <3>1, <3>2
  <2> QED BY <2>1, <2>2
<1> QED BY <1>3, <1>4, <1>5

\* Where an iterator stands that has unlinked the node n behind p
LEMMA BackRight ==
  ASSUME LlTypes, LlShape, LlShape', NEW n, NEW p, RightAfter(n, p), Unlink(n, p), Loses(n),
         used' = used, NEW i, i = Back(p)
  PROVE  /\ StandsAt(i)' /\ i \in [cur : Nodes \cup {Nil}, prv : Nodes \cup {Nil}, ver : Nat]
         /\ i.cur = p /\ (p = Nil => i.prv = Nil)
<1>1. i = [cur |-> p, prv |-> IF p = Nil THEN Nil ELSE Before(p), ver |-> version + 1] /\ version' = version + 1
  BY DEF Back, Unlink
<1>2. /\ Linked \in SUBSET Nodes /\ Nil \notin Nodes /\ Linked' \subseteq used' /\ Linked' = Linked \ {n}
      /\ version \in Nat
  BY LinkedFacts, LlAssumption DEF LlShape, Loses, LlTypes
<1>3. CASE p = Nil
  BY <1>1, <1>2, <1>3 DEF StandsAt
<1>4. CASE p # Nil
  <2>1. p \in Linked /\ nxt[p] = n /\ n \in Linked /\ n \in Nodes
    BY <1>2, <1>4 DEF RightAfter
  <2>2. Behind(p) = {n} \cup Behind(n) /\ p \notin Behind(p) /\ n \notin Behind(n)
    BY <1>2, <2>1, LinkedFacts
  <2>3. RightAfter(p, Before(p))
    BY <2>1, BeforeRight
  <2>4. Before(p) \in Linked \cup {Nil}
    BY <2>3 DEF RightAfter
  <2>5. ASSUME Before(p) # Nil PROVE Before(p) \in Linked' /\ nxt'[Before(p)] = p
    <3> DEFINE w == Before(p)
    <3>1. w \in Linked /\ nxt[w] = p
      BY <2>3, <2>5 DEF RightAfter
    <3> HIDE DEF w
    <3>2. w # n
      <4> SUFFICES ASSUME w = n PROVE FALSE
        OBVIOUS
      <4>1. p \in Behind(n)
        BY <1>2, <2>1, <3>1, LinkedFacts
      <4> QED BY <2>2, <4>1
    <3>3. w # p
      <4> SUFFICES ASSUME w = p PROVE FALSE
        OBVIOUS
      <4> QED BY <2>1, <2>2, <3>1
    <3>4. nxt'[w] = nxt[w]
      BY <1>2, <1>4, <3>1, <3>3 DEF Unlink, LlTypes, LinksOf
    <3> QED BY <1>2, <3>1, <3>2, <3>4 DEF w
  <2>6. p \in Linked'
    BY <1>2, <2>1, <2>2
  <2> QED BY <1>1, <1>2, <1>4, <2>4, <2>5, <2>6 DEF StandsAt
<1> QED BY <1>3, <1>4

-----------------------------------------------------------------------------
(* Iterations, when the list changes under them                            *)

SameWalk(u) ==
  /\ it'[u].cur = it[u].cur /\ it'[u].prv = it[u].prv
  /\ phase'[u] = phase[u] /\ seen'[u] = seen[u] /\ twice'[u] = twice[u]

LEMMA WalkGains ==
  ASSUME LlTypes, LlShape, NEW n \in Nodes \ used, Gains(n), used' = used \cup {n},
         NEW u \in Walkers, Walked(u), SameWalk(u), due'[u] = due[u], strayed'[u] = strayed[u]
  PROVE  Walked(u)'
<1>1. Linked \subseteq Linked' /\ seen[u] \subseteq used' /\ due[u] \subseteq Linked' /\ n \notin seen[u]
  BY DEF Gains, Walked
<1>2. it[u].cur \in Linked \cup {Nil} =>
        /\ Ahead(it[u]) \subseteq Ahead(it[u])' /\ Ahead(it[u])' \subseteq Ahead(it[u]) \cup {n}
  BY DEF Ahead, Gains, Linked, Behind, SameWalk
<1> QED BY <1>1, <1>2 DEF Walked, SameWalk

LEMMA WalkLoses ==
  ASSUME LlTypes, LlShape, NEW n \in Linked, Loses(n), used' = used,
         NEW u \in Walkers, Walked(u), SameWalk(u), due'[u] = due[u] \ {n},
         strayed'[u] = (strayed[u] \/ it[u].cur = n)
  PROVE  Walked(u)'
<1>1. seen[u] \subseteq used' /\ due'[u] \subseteq Linked'
  BY DEF Loses, Walked
<1>2. it[u].cur \in (Linked \ {n}) \cup {Nil} => Ahead(it[u])' = Ahead(it[u]) \ {n}
  BY DEF Ahead, Loses, Linked, Behind, SameWalk
<1>3. ~strayed'[u] => ~strayed[u] /\ it[u].cur # n
  OBVIOUS
<1>4. ~strayed'[u] /\ phase[u] = "on" => it[u].cur \in (Linked \ {n}) \cup {Nil} /\ it[u].cur \in Linked' \cup {Nil}
  BY <1>3 DEF Walked, Loses
<1> QED BY <1>1, <1>2, <1>3, <1>4 DEF Walked, SameWalk

\* The list stays as it is.
LEMMA WalkSame ==
  ASSUME NEW u \in Walkers, Walked(u), SameWalk(u), due'[u] = due[u], strayed'[u] = strayed[u],
         nxt' = nxt, initial' = initial, used' = used
  PROVE  Walked(u)'
<1>1. Linked' = Linked /\ Ahead(it[u])' = Ahead(it[u])
  BY DEF Ahead, Linked, Behind, SameWalk
<1> QED BY <1>1 DEF Walked, SameWalk

\* An iterator that another one's change leaves as it is notices it at its next step.
LEMMA StandsNoticed ==
  ASSUME LlTypes, NEW i, StandsAt(i), i.ver \in Nat, version' = version + 1, used \subseteq used'
  PROVE  StandsAt(i)'
<1>1. version \in Nat
  BY LlAssumption DEF LlTypes
<1> QED BY <1>1 DEF StandsAt

LEMMA ShapeSame ==
  ASSUME LlShape, UNCHANGED <<nxt, initial, last, count, used, taken>>
  PROVE  LlShape'
  BY DEF LlShape, Linked, Path

LEMMA StandsSame ==
  ASSUME NEW i, StandsAt(i), UNCHANGED <<nxt, initial, version, used>>
  PROVE  StandsAt(i)'
  BY DEF StandsAt, Linked

\* What is at stake in a step, when the types are right
LlKept == LlTypes' /\ LlShape' /\ LlStand' /\ LlWalks'

LEMMA CreateKeeps == ASSUME LlInv, NEW t \in Walkers, Create(t) PROVE LlKept
<1>1. /\ it' = [it EXCEPT ![t] = Start(version)] /\ phase' = [phase EXCEPT ![t] = "on"]
      /\ seen' = [seen EXCEPT ![t] = {}] /\ due' = [due EXCEPT ![t] = Linked]
      /\ strayed' = [strayed EXCEPT ![t] = FALSE] /\ twice' = [twice EXCEPT ![t] = FALSE]
      /\ UNCHANGED <<nxt, initial, last, count, version, used, taken>>
  BY DEF Create, list
<1>2. LlTypes /\ LlShape /\ LlStand /\ LlWalks
  BY DEF LlInv
<1>3. Linked \in SUBSET Nodes /\ version \in Nat
  BY <1>2, LinkedFacts, LlAssumption DEF LlTypes
<1>4. LlTypes'
  BY <1>1, <1>2, <1>3 DEF LlTypes, Start
<1>5. LlShape'
  BY <1>1, <1>2, ShapeSame
<1>6. ASSUME NEW u \in Walkers PROVE StandsAt(it[u])' /\ Walked(u)'
  <2>1. CASE u = t
    <3>1. it'[u] = Start(version) /\ seen'[u] = {} /\ due'[u] = Linked /\ twice'[u] = FALSE /\ phase'[u] = "on" /\ strayed'[u] = FALSE
      BY <1>1, <1>2, <2>1 DEF LlTypes
    <3>2. Linked' = Linked /\ Ahead(it[u])' = Linked
      BY <1>1, <3>1 DEF Ahead, Linked, Start
    <3>3. StandsAt(it[u])'
      BY <1>1, <1>3, <3>1 DEF StandsAt, Start
    <3>4. Walked(u)'
      BY <1>1, <3>1, <3>2 DEF Walked, Start
    <3> QED BY <3>3, <3>4
  <2>2. CASE u # t
    <3>1. it'[u] = it[u] /\ SameWalk(u) /\ due'[u] = due[u] /\ strayed'[u] = strayed[u]
      BY <1>1, <1>2, <2>2 DEF LlTypes, SameWalk
    <3> QED BY <1>1, <1>2, <3>1, StandsSame, WalkSame DEF LlStand, LlWalks
  <2> QED BY <2>1, <2>2
<1> QED BY <1>4, <1>5, <1>6 DEF LlKept, LlStand, LlWalks

LEMMA LeavesKeeps == ASSUME LlInv, NEW t \in Walkers, Leaves(t) PROVE LlKept
<1>1. /\ it' = [it EXCEPT ![t] = Start(0)] /\ phase' = [phase EXCEPT ![t] = "idle"]
      /\ seen' = [seen EXCEPT ![t] = {}] /\ due' = [due EXCEPT ![t] = {}]
      /\ strayed' = [strayed EXCEPT ![t] = FALSE] /\ twice' = [twice EXCEPT ![t] = FALSE]
      /\ UNCHANGED <<nxt, initial, last, count, version, used, taken>>
  BY DEF Leaves, list
<1>2. LlTypes /\ LlShape /\ LlStand /\ LlWalks
  BY DEF LlInv
<1>3. version \in Nat
  BY <1>2, LlAssumption DEF LlTypes
<1>4. LlTypes'
  BY <1>1, <1>2 DEF LlTypes, Start
<1>5. LlShape'
  BY <1>1, <1>2, ShapeSame
<1>6. ASSUME NEW u \in Walkers PROVE StandsAt(it[u])' /\ Walked(u)'
  <2>1. CASE u = t
    <3>1. it'[u] = Start(0) /\ seen'[u] = {} /\ due'[u] = {} /\ twice'[u] = FALSE /\ phase'[u] = "idle" /\ strayed'[u] = FALSE
      BY <1>1, <1>2, <2>1 DEF LlTypes
    <3>2. StandsAt(it[u])'
      BY <1>1, <1>3, <3>1 DEF StandsAt, Start
    <3>3. Walked(u)'
      BY <3>1 DEF Walked
    <3> QED BY <3>2, <3>3
  <2>2. CASE u # t
    <3>1. it'[u] = it[u] /\ SameWalk(u) /\ due'[u] = due[u] /\ strayed'[u] = strayed[u]
      BY <1>1, <1>2, <2>2 DEF LlTypes, SameWalk
    <3> QED BY <1>1, <1>2, <3>1, StandsSame, WalkSame DEF LlStand, LlWalks
  <2> QED BY <2>1, <2>2
<1> QED BY <1>4, <1>5, <1>6 DEF LlKept, LlStand, LlWalks

\* What an iterator has just come to was ahead of it.
LEMMA WalkReturns ==
  ASSUME LlTypes, LlShape, NEW t \in Walkers, Walked(t), phase[t] = "on", StandsAt(it[t]),
         NEW i, i = Moves(it[t]), it'[t] = i, Returns(t, i),
         due'[t] = due[t], strayed'[t] = strayed[t], nxt' = nxt, initial' = initial, used' = used
  PROVE  Walked(t)'
<1>1. /\ i \in [cur : Nodes \cup {Nil}, prv : Nodes \cup {Nil}, ver : Nat] /\ StandsAt(i) /\ i.ver = version
      /\ ~strayed[t] =>
           IF i.cur = Nil THEN Ahead(it[t]) = {}
           ELSE i.cur \in Ahead(it[t]) /\ i.cur \notin Behind(i.cur)
                /\ Ahead(it[t]) = {i.cur} \cup Behind(i.cur)
  BY MovesRight
<1>2. /\ phase'[t] = IF i.cur = Nil THEN "done" ELSE "on"
      /\ seen'[t] = seen[t] \cup ({i.cur} \ {Nil})
      /\ twice'[t] = (twice[t] \/ i.cur \in seen[t])
  BY DEF Returns, LlTypes
<1>3. i.cur # Nil => i.cur \in Linked /\ i.cur \in used
  BY <1>1 DEF StandsAt, LlShape
<1>4. Linked' = Linked /\ (i.cur # Nil => Ahead(i)' = Behind(i.cur))
  BY DEF Linked, Ahead, Behind
<1>5. seen[t] \subseteq used /\ Nil \notin used /\ due[t] \subseteq Linked
  BY LinkedFacts DEF Walked, LlTypes
<1>6. CASE i.cur = Nil
  BY <1>1, <1>2, <1>4, <1>5, <1>6 DEF Walked
<1>7. CASE i.cur # Nil
  <2>1. /\ phase'[t] = "on" /\ seen'[t] = seen[t] \cup {i.cur} /\ twice'[t] = (twice[t] \/ i.cur \in seen[t])
        /\ it'[t].cur = i.cur /\ i.cur \in Linked /\ i.cur \in used
    BY <1>2, <1>3, <1>7
  <2>2. Ahead(it[t])' = Behind(i.cur)
    BY <1>7 DEF Ahead, Behind
  <2>3. due'[t] \subseteq Linked' /\ seen'[t] \subseteq used'
    BY <1>4, <1>5, <2>1
  <2>4. ASSUME ~strayed'[t]
        PROVE  ~twice'[t] /\ seen'[t] \cap Ahead(it[t])' = {} /\ due'[t] \subseteq seen'[t] \cup Ahead(it[t])'
    <3>1. /\ ~twice[t] /\ seen[t] \cap Ahead(it[t]) = {} /\ due[t] \subseteq seen[t] \cup Ahead(it[t])
      BY <2>4 DEF Walked
    <3>2. /\ i.cur \in Ahead(it[t]) /\ i.cur \notin Behind(i.cur)
          /\ Ahead(it[t]) = {i.cur} \cup Behind(i.cur)
      BY <1>1, <1>7, <2>4
    <3> QED BY <2>1, <2>2, <3>1, <3>2
  <2> QED BY <1>4, <1>7, <2>1, <2>2, <2>3, <2>4 DEF Walked
<1> QED BY <1>6, <1>7

LEMMA ReturnsTypes ==
  ASSUME LlTypes, NEW t \in Walkers, NEW i, i.cur \in Nodes \cup {Nil}, Returns(t, i)
  PROVE  /\ phase' \in [Walkers -> {"idle", "on", "done"}]
         /\ seen' \in [Walkers -> SUBSET Nodes] /\ twice' \in [Walkers -> BOOLEAN]
         /\ \A u \in Walkers \ {t} : phase'[u] = phase[u] /\ seen'[u] = seen[u] /\ twice'[u] = twice[u]
<1>1. \A u \in Walkers : seen[u] \cup ({i.cur} \ {Nil}) \in SUBSET Nodes
  BY DEF LlTypes
<1>2. \A u \in Walkers : (twice[u] \/ i.cur \in seen[u]) \in BOOLEAN
  OBVIOUS
<1> QED BY <1>1, <1>2 DEF Returns, LlTypes

LEMMA IterNextKeeps == ASSUME LlInv, NEW t \in Walkers, IterNext(t) PROVE LlKept
<1> DEFINE i == Moves(it[t])
<1>1. /\ it' = [it EXCEPT ![t] = i] /\ phase[t] = "on" /\ Returns(t, i)
      /\ UNCHANGED <<nxt, initial, last, count, version, used, taken, due, strayed>>
  BY DEF IterNext, list
<1>2. LlTypes /\ LlShape /\ LlStand /\ LlWalks
  BY DEF LlInv
<1>3. /\ i \in [cur : Nodes \cup {Nil}, prv : Nodes \cup {Nil}, ver : Nat]
      /\ StandsAt(i)
  BY <1>2, MovesRight DEF LlStand
<1> HIDE DEF i
<1>4. LlTypes' /\ \A u \in Walkers \ {t} : SameWalk(u) /\ it'[u] = it[u]
  BY <1>1, <1>2, <1>3, ReturnsTypes DEF LlTypes, SameWalk
<1>5. LlShape'
  BY <1>1, <1>2, ShapeSame
<1>6. it'[t] = i
  BY <1>1, <1>2 DEF LlTypes
<1>7. ASSUME NEW u \in Walkers PROVE StandsAt(it[u])' /\ Walked(u)'
  <2>1. CASE u = t
    <3>1. StandsAt(it[u])'
      BY <1>1, <1>3, <1>6, <2>1 DEF StandsAt, Linked
    <3>2. Walked(u)'
      BY <1>1, <1>2, <1>6, <2>1, WalkReturns DEF i, LlStand, LlWalks
    <3> QED BY <3>1, <3>2
  <2>2. CASE u # t
    <3>1. it'[u] = it[u] /\ SameWalk(u) /\ due'[u] = due[u] /\ strayed'[u] = strayed[u]
      BY <1>1, <1>4, <2>2
    <3> QED BY <1>1, <1>2, <3>1, StandsSame, WalkSame DEF LlStand, LlWalks
  <2> QED BY <2>1, <2>2
<1> QED BY <1>4, <1>5, <1>7 DEF LlKept, LlStand, LlWalks

\* A node is unlinked by t, whose iterator steps back.
LEMMA UnlinkKeeps ==
  ASSUME LlInv, NEW t \in Walkers, NEW n, NEW p, RightAfter(n, p), Unlink(n, p), version < MaxVersion,
         it' = [it EXCEPT ![t] = Back(p)], Leave({n}, t), taken' = [taken EXCEPT ![n] = @ + 1],
         used' = used, phase' \in [Walkers -> {"idle", "on", "done"}],
         seen' \in [Walkers -> SUBSET Nodes], twice' \in [Walkers -> BOOLEAN],
         \A u \in Walkers \ {t} : phase'[u] = phase[u] /\ seen'[u] = seen[u] /\ twice'[u] = twice[u],
         phase'[t] = "on", seen'[t] \subseteq seen[t] \cup {n},
         ~strayed[t] =>
           /\ ~twice'[t] /\ seen'[t] \cap Behind(n) = {}
           /\ due[t] \subseteq seen'[t] \cup {n} \cup Behind(n)
  PROVE  LlKept
<1>1. LlTypes /\ LlShape /\ LlStand /\ LlWalks
  BY DEF LlInv
<1>2. /\ LlShape' /\ Loses(n) /\ n \in Nodes /\ p \in (Linked \cup {Nil})'
      /\ p = Nil => Linked' = Behind(n)
      /\ p # Nil => Behind(p)' = Behind(n)
      /\ nxt' \in LinksOf(Nodes) /\ {initial', last'} \subseteq Nodes \cup {Nil}
  BY <1>1, Unlinked
<1>3. n \in Linked /\ n \in used /\ n \in Nodes /\ n # Nil
  BY <1>1, LinkedFacts DEF RightAfter, LlShape
<1>4. /\ due' = [u \in Walkers |-> due[u] \ {n}]
      /\ strayed' = [u \in Walkers |-> strayed[u] \/ (u # t /\ it[u].cur \in {n})]
  BY DEF Leave
<1>0. PICK i : i = Back(p)
  OBVIOUS
<1>5. /\ StandsAt(i)' /\ i \in [cur : Nodes \cup {Nil}, prv : Nodes \cup {Nil}, ver : Nat]
      /\ i.cur = p /\ (p = Nil => i.prv = Nil)
  BY <1>0, <1>1, <1>2, BackRight
<1>6. it'[t] = i /\ \A u \in Walkers \ {t} : it'[u] = it[u]
  BY <1>0, <1>1 DEF LlTypes
<1>7. version' = version + 1 /\ version \in 0..MaxVersion /\ MaxVersion \in Nat
  BY <1>1, LlAssumption DEF Unlink, LlTypes
<1>8. LlTypes'
  <2>1. it' \in [Walkers -> [cur : Nodes \cup {Nil}, prv : Nodes \cup {Nil}, ver : Nat]]
    <3>1. it' = [it EXCEPT ![t] = i]
      BY <1>0
    <3> QED BY <1>1, <1>5, <3>1 DEF LlTypes
  <2>2. due' \in [Walkers -> SUBSET Nodes] /\ strayed' \in [Walkers -> BOOLEAN]
    <3>1. \A u \in Walkers : due[u] \ {n} \in SUBSET Nodes
      BY <1>1 DEF LlTypes
    <3>2. \A u \in Walkers : (strayed[u] \/ (u # t /\ it[u].cur \in {n})) \in BOOLEAN
      OBVIOUS
    <3> QED BY <1>4, <3>1, <3>2
  <2>3. taken' \in [Nodes -> Nat]
    BY <1>1, <1>2 DEF LlTypes
  <2>5. version' \in 0..MaxVersion
    BY <1>7
  <2>4. used' \in SUBSET Nodes
    BY <1>1 DEF LlTypes
  <2> QED BY <1>2, <2>1, <2>2, <2>3, <2>4, <2>5 DEF LlTypes
<1>9. ASSUME NEW u \in Walkers PROVE StandsAt(it[u])' /\ Walked(u)'
  <2>1. CASE u = t
    <3>1. StandsAt(it[u])'
      BY <1>5, <1>6, <2>1 DEF StandsAt
    <3>2. /\ due'[u] = due[u] \ {n} /\ strayed'[u] = strayed[u] /\ due'[u] \subseteq Linked'
          /\ seen'[u] \subseteq used'
      <4>1. due'[u] = due[u] \ {n} /\ strayed'[u] = strayed[u]
        BY <1>1, <1>4, <2>1 DEF LlTypes
      <4> QED BY <1>1, <1>2, <1>3, <2>1, <4>1 DEF LlWalks, Walked, Loses
    <3>3. Ahead(it[u])' = Behind(n)
      BY <1>2, <1>5, <1>6, <2>1 DEF Ahead, Linked, Behind
    <3>4. it'[u].cur = p /\ (p = Nil => it'[u].prv = Nil)
      BY <1>5, <1>6, <2>1
    <3>5. ~strayed'[u] =>
            /\ ~twice'[u] /\ it'[u].cur \in (Linked \cup {Nil})'
            /\ seen'[u] \cap Ahead(it[u])' = {}
            /\ due'[u] \subseteq seen'[u] \cup Ahead(it[u])'
      BY <1>2, <2>1, <3>2, <3>3, <3>4
    <3>6. phase'[u] = "on"
      BY <2>1
    <3> QED BY <3>1, <3>2, <3>4, <3>5, <3>6 DEF Walked
  <2>2. CASE u # t
    <3>1. /\ it'[u] = it[u] /\ SameWalk(u) /\ due'[u] = due[u] \ {n}
          /\ strayed'[u] = (strayed[u] \/ it[u].cur = n)
      BY <1>4, <1>6, <2>2 DEF SameWalk
    <3>2. Walked(u)'
      BY <1>1, <1>2, <1>3, <3>1, WalkLoses DEF LlWalks
    <3>3. StandsAt(it[u]) /\ it[u].ver \in Nat
      BY <1>1 DEF LlStand, LlTypes
    <3>4. StandsAt(it[u])'
      <4> DEFINE k == it[u]
      <4>1. StandsAt(k) /\ k.ver \in Nat
        BY <3>3
      <4> HIDE DEF k
      <4>2. ASSUME NEW o, StandsAt(o), o.ver \in Nat PROVE StandsAt(o)'
        BY <1>1, <1>7, <4>2, StandsNoticed
      <4> QED BY <3>1, <3>3, <4>2 DEF StandsAt
    <3> QED BY <3>2, <3>4
  <2> QED BY <2>1, <2>2
<1> QED BY <1>2, <1>8, <1>9 DEF LlKept, LlStand, LlWalks

LEMMA RemoveKeeps == ASSUME LlInv, NEW t \in Walkers, Remove(t) PROVE LlKept
<1> DEFINE n == it[t].cur
           p == Prev(it[t])
<1>1. /\ phase[t] = "on" /\ Found(it[t]) /\ version < MaxVersion /\ Unlink(n, p)
      /\ it' = [it EXCEPT ![t] = Back(p)] /\ Leave({n}, t) /\ taken' = [taken EXCEPT ![n] = @ + 1]
      /\ used' = used /\ phase' = phase /\ seen' = seen /\ twice' = twice
  BY DEF Remove
<1>2. LlTypes /\ LlShape /\ StandsAt(it[t]) /\ Walked(t)
  BY DEF LlInv, LlStand, LlWalks
<1>3. RightAfter(n, p) /\ n \in Linked
  BY <1>1, <1>2, PrevRight
<1>4. n # Nil
  BY <1>1 DEF Found
<1>5. ~strayed[t] =>
        /\ ~twice'[t] /\ seen'[t] \cap Behind(n) = {}
        /\ due[t] \subseteq seen'[t] \cup {n} \cup Behind(n)
  <2>1. Ahead(it[t]) = Behind(n)
    BY <1>4 DEF Ahead
  <2> QED BY <1>1, <1>2, <2>1 DEF Walked
<1>6. /\ phase' \in [Walkers -> {"idle", "on", "done"}]
      /\ seen' \in [Walkers -> SUBSET Nodes] /\ twice' \in [Walkers -> BOOLEAN]
  BY <1>1, <1>2 DEF LlTypes
<1>7. PICK m, q : m = n /\ q = p
  OBVIOUS
<1> HIDE DEF n, p
<1>8. RightAfter(m, q) /\ Unlink(m, q) /\ it' = [it EXCEPT ![t] = Back(q)] /\ Leave({m}, t)
      /\ taken' = [taken EXCEPT ![m] = @ + 1]
  BY <1>1, <1>3, <1>7
<1>9. ~strayed[t] =>
        /\ ~twice'[t] /\ seen'[t] \cap Behind(m) = {}
        /\ due[t] \subseteq seen'[t] \cup {m} \cup Behind(m)
  BY <1>5, <1>7
<1> QED BY <1>1, <1>6, <1>8, <1>9, UnlinkKeeps

LEMMA NextRemoveKeeps == ASSUME LlInv, NEW t \in Walkers, NextRemove(t) PROVE LlKept
<1>0. PICK i : i = Moves(it[t])
  OBVIOUS
<1>1. /\ phase[t] = "on" /\ version < MaxVersion /\ Returns(t, i)
      /\ IF i.cur = Nil
         THEN it' = [it EXCEPT ![t] = i] /\ UNCHANGED <<list, due, strayed, taken>>
         ELSE /\ Unlink(i.cur, Prev(i))
              /\ it' = [it EXCEPT ![t] = Back(Prev(i))]
              /\ Leave({i.cur}, t)
              /\ taken' = [taken EXCEPT ![i.cur] = @ + 1]
              /\ UNCHANGED used
  BY <1>0 DEF NextRemove
<1>2. LlTypes /\ LlShape /\ StandsAt(it[t]) /\ Walked(t)
  BY DEF LlInv, LlStand, LlWalks
<1>3. /\ i \in [cur : Nodes \cup {Nil}, prv : Nodes \cup {Nil}, ver : Nat] /\ StandsAt(i) /\ i.ver = version
      /\ ~strayed[t] =>
           IF i.cur = Nil THEN Ahead(it[t]) = {}
           ELSE i.cur \in Ahead(it[t]) /\ i.cur \notin Behind(i.cur)
                /\ Ahead(it[t]) = {i.cur} \cup Behind(i.cur)
  BY <1>0, <1>1, <1>2, MovesRight
<1>4. CASE i.cur = Nil
  <2>1. IterNext(t)
    BY <1>0, <1>1, <1>4 DEF IterNext
  <2> QED BY <2>1, IterNextKeeps
<1>5. CASE i.cur # Nil
  <2>1. Found(i)
    BY <1>3, <1>5 DEF Found, StandsAt
  <2>2. PICK q : q = Prev(i)
    OBVIOUS
  <2>3. RightAfter(i.cur, q)
    BY <1>2, <1>3, <2>1, <2>2, PrevRight
  <2>4. /\ Unlink(i.cur, q) /\ it' = [it EXCEPT ![t] = Back(q)] /\ Leave({i.cur}, t)
        /\ taken' = [taken EXCEPT ![i.cur] = @ + 1] /\ used' = used
    BY <1>1, <1>5, <2>2
  <2>5. /\ phase' \in [Walkers -> {"idle", "on", "done"}]
        /\ seen' \in [Walkers -> SUBSET Nodes] /\ twice' \in [Walkers -> BOOLEAN]
        /\ \A u \in Walkers \ {t} : phase'[u] = phase[u] /\ seen'[u] = seen[u] /\ twice'[u] = twice[u]
    BY <1>1, <1>2, <1>3, ReturnsTypes
  <2>6. phase'[t] = "on" /\ seen'[t] = seen[t] \cup {i.cur} /\ twice'[t] = (twice[t] \/ i.cur \in seen[t])
    BY <1>1, <1>2, <1>5 DEF Returns, LlTypes
  <2>7. ~strayed[t] =>
          /\ ~twice'[t] /\ seen'[t] \cap Behind(i.cur) = {}
          /\ due[t] \subseteq seen'[t] \cup {i.cur} \cup Behind(i.cur)
    <3> SUFFICES ASSUME ~strayed[t]
                 PROVE  /\ ~twice'[t] /\ seen'[t] \cap Behind(i.cur) = {}
                        /\ due[t] \subseteq seen'[t] \cup {i.cur} \cup Behind(i.cur)
      OBVIOUS
    <3>1. ~twice[t] /\ seen[t] \cap Ahead(it[t]) = {} /\ due[t] \subseteq seen[t] \cup Ahead(it[t])
      BY <1>1, <1>2 DEF Walked
    <3>2. i.cur \in Ahead(it[t]) /\ i.cur \notin Behind(i.cur) /\ Ahead(it[t]) = {i.cur} \cup Behind(i.cur)
      BY <1>3, <1>5
    <3> QED BY <2>6, <3>1, <3>2
  <2>8. PICK m : m = i.cur
    OBVIOUS
  <2>9. /\ RightAfter(m, q) /\ Unlink(m, q) /\ Leave({m}, t) /\ taken' = [taken EXCEPT ![m] = @ + 1]
        /\ seen'[t] \subseteq seen[t] \cup {m}
        /\ ~strayed[t] =>
             /\ ~twice'[t] /\ seen'[t] \cap Behind(m) = {}
             /\ due[t] \subseteq seen'[t] \cup {m} \cup Behind(m)
    BY <2>3, <2>4, <2>6, <2>7, <2>8
  <2> QED BY <1>1, <2>4, <2>5, <2>6, <2>9, UnlinkKeeps
<1> QED BY <1>4, <1>5

LEMMA MoveFirstKeeps == ASSUME LlInv, NEW t \in Walkers, MoveFirst(t) PROVE LlKept
<1>0. PICK n, p : n = it[t].cur /\ p = Prev(it[t])
  OBVIOUS
<1>1. /\ phase[t] = "on" /\ n # initial /\ Found(it[t]) /\ version < MaxVersion
      /\ nxt' = [nxt EXCEPT ![p] = nxt[n], ![n] = initial] /\ initial' = n
      /\ last' = IF last = n THEN p ELSE last
      /\ it' = [it EXCEPT ![t] = [cur |-> n, prv |-> Nil, ver |-> version + 1]]
      /\ version' = version + 1 /\ strayed' = [u \in Walkers |-> TRUE]
      /\ UNCHANGED <<count, used, phase, seen, due, twice, taken>>
  BY <1>0 DEF MoveFirst
<1>2. LlTypes /\ LlShape /\ LlStand /\ LlWalks
  BY DEF LlInv
<1>3. RightAfter(n, p) /\ n \in Linked
  BY <1>0, <1>1, <1>2, PrevRight DEF LlStand
<1>4. LlShape' /\ Linked' = Linked /\ nxt' \in LinksOf(Nodes) /\ n \in Nodes /\ last' \in Nodes \cup {Nil}
  BY <1>1, <1>2, <1>3, MovedKeeps
<1>5. version \in 0..MaxVersion /\ MaxVersion \in Nat /\ n \in used /\ n # Nil
  BY <1>2, <1>3, <1>4, LlAssumption DEF LlTypes, LlShape
<1>6. LlTypes'
  <2>1. it' \in [Walkers -> [cur : Nodes \cup {Nil}, prv : Nodes \cup {Nil}, ver : Nat]]
    BY <1>1, <1>2, <1>4, <1>5 DEF LlTypes
  <2>2. version' \in 0..MaxVersion /\ strayed' \in [Walkers -> BOOLEAN]
    BY <1>1, <1>5
  <2> QED BY <1>1, <1>2, <1>4, <2>1, <2>2 DEF LlTypes
<1>7. ASSUME NEW u \in Walkers PROVE StandsAt(it[u])' /\ Walked(u)'
  <2>1. strayed'[u]
    BY <1>1
  <2>2. due'[u] \subseteq Linked' /\ seen'[u] \subseteq used'
    BY <1>1, <1>2, <1>4 DEF LlWalks, Walked
  <2>3. CASE u = t
    <3>1. it'[u] = [cur |-> n, prv |-> Nil, ver |-> version + 1]
      BY <1>1, <1>2, <2>3 DEF LlTypes
    <3> QED BY <1>1, <1>3, <1>4, <1>5, <2>1, <2>2, <3>1 DEF StandsAt, Walked
  <2>4. CASE u # t
    <3>1. it'[u] = it[u] /\ phase'[u] = phase[u]
      BY <1>1, <1>2, <2>4 DEF LlTypes
    <3>2. StandsAt(it[u]) /\ it[u].ver \in Nat /\ Walked(u)
      BY <1>2 DEF LlStand, LlTypes, LlWalks
    <3>3. StandsAt(it[u])'
      BY <1>1, <1>5, <3>1, <3>2 DEF StandsAt
    <3>4. Walked(u)'
      BY <2>1, <2>2, <3>1, <3>2 DEF Walked
    <3> QED BY <3>3, <3>4
  <2> QED BY <2>3, <2>4
<1> QED BY <1>4, <1>6, <1>7 DEF LlKept, LlStand, LlWalks

\* A node is added that no iterator notices: none stands at the link that changes.
LEMMA GainKeeps ==
  ASSUME LlInv, NEW n \in Nodes \ used, LlShape', Gains(n), nxt' \in LinksOf(Nodes),
         {initial', last'} \subseteq Nodes \cup {Nil}, used' = used \cup {n},
         \A e \in Linked : nxt[e] # Nil => nxt'[e] = nxt[e],
         UNCHANGED <<version, it, phase, llHist>>
  PROVE  LlKept
<1>1. LlTypes /\ LlShape /\ LlStand /\ LlWalks
  BY DEF LlInv
<1>2. LlTypes'
  BY <1>1 DEF LlTypes, llHist
<1>3. ASSUME NEW u \in Walkers PROVE StandsAt(it[u])' /\ Walked(u)'
  <2>1. StandsAt(it[u]) /\ Walked(u)
    BY <1>1 DEF LlStand, LlWalks
  <2>2. StandsAt(it[u])'
    <3>1. Linked \subseteq Linked' /\ used \subseteq used'
      BY DEF Gains
    <3>2. Nil \notin Nodes /\ Linked \in SUBSET Nodes
      BY <1>1, LinkedFacts
    <3> QED BY <2>1, <3>1, <3>2 DEF StandsAt
  <2>3. Walked(u)'
    BY <1>1, <2>1, WalkGains DEF SameWalk, llHist
  <2> QED BY <2>2, <2>3
<1> QED BY <1>2, <1>3 DEF LlKept, LlStand, LlWalks

LEMMA GainAtEnd ==
  ASSUME LlInv, NEW n \in Nodes \ used, Appended(n), UNCHANGED <<version, it, phase, llHist>>
  PROVE  LlKept
<1>1. LlTypes /\ LlShape /\ taken' = taken
  BY DEF LlInv, llHist
<1>2. LlShape' /\ Gains(n) /\ nxt' \in LinksOf(Nodes)
  BY <1>1, AppendedKeeps
<1>3. \A e \in Linked : nxt[e] # Nil => nxt'[e] = nxt[e]
  <2>1. nxt \in LinksOf(Nodes) /\ Linked \in SUBSET Nodes /\ (\A e \in Linked : nxt[e] = Nil <=> e = last)
    BY <1>1, LinkedFacts DEF LlTypes, LlShape
  <2> QED BY <2>1 DEF Appended, LinksOf
<1>4. {initial', last'} \subseteq Nodes \cup {Nil} /\ used' = used \cup {n}
  BY <1>1 DEF Appended, LlTypes
<1> QED BY <1>2, <1>3, <1>4, GainKeeps

LEMMA AppendKeeps == ASSUME LlInv, NEW n \in Nodes, LlAppend(n) PROVE LlKept
<1>1. n \in Nodes \ used /\ Appended(n) /\ UNCHANGED <<version, it, phase, llHist>>
  BY DEF LlAppend
<1> QED BY <1>1, GainAtEnd

LEMMA PrependKeeps == ASSUME LlInv, NEW n \in Nodes, Prepend(n) PROVE LlKept
<1>1. LlTypes /\ LlShape
  BY DEF LlInv
<1>2. LlShape' /\ Gains(n) /\ nxt' \in LinksOf(Nodes) /\ {initial', last'} \subseteq Nodes \cup {Nil}
  BY <1>1, PrependedKeeps
<1>3. n \in Nodes \ used /\ used' = used \cup {n} /\ UNCHANGED <<version, it, phase, llHist>>
  BY DEF Prepend
<1>4. \A e \in Linked : nxt[e] # Nil => nxt'[e] = nxt[e]
  <2>1. nxt \in LinksOf(Nodes) /\ Linked \in SUBSET Nodes /\ n \notin Linked
    BY <1>1, <1>3, LinkedFacts DEF LlTypes, LlShape
  <2> QED BY <2>1 DEF Prepend, LinksOf
<1> QED BY <1>2, <1>3, <1>4, GainKeeps

LEMMA InsertKeeps == ASSUME LlInv, NEW t \in Walkers, NEW n \in Nodes, Insert(t, n) PROVE LlKept
<1>0. PICK p : p = it[t].cur
  OBVIOUS
<1>1. LlTypes /\ LlShape /\ LlStand /\ LlWalks /\ n \in Nodes \ used
  BY DEF LlInv, Insert
<1>2. CASE p = Nil \/ nxt[p] = Nil
  <2>1. Appended(n) /\ UNCHANGED <<version, it, phase, llHist>>
    BY <1>0, <1>2 DEF Insert
  <2> QED BY <1>1, <2>1, GainAtEnd
<1>3. CASE ~(p = Nil \/ nxt[p] = Nil)
  <2>1. /\ p # Nil /\ nxt[p] # Nil /\ it[t].ver = version /\ version < MaxVersion
        /\ nxt' = [nxt EXCEPT ![p] = n, ![n] = nxt[p]] /\ count' = count + 1
        /\ version' = version + 1 /\ it' = [it EXCEPT ![t].ver = version + 1]
        /\ used' = used \cup {n} /\ UNCHANGED <<initial, last, phase, seen, due, strayed, twice, taken>>
    BY <1>0, <1>3 DEF Insert, llHist
  <2>2. p \in Linked /\ Linked \in SUBSET Nodes /\ Nil \notin Nodes /\ p \notin Behind(p) /\ n \notin Linked
    <3>1. p \in Linked
      BY <1>0, <1>1, <2>1 DEF LlStand, StandsAt
    <3> QED BY <1>1, <3>1, LinkedFacts DEF LlShape
  <2>3. LlShape' /\ Gains(n) /\ nxt' \in LinksOf(Nodes)
    BY <1>1, <2>1, <2>2, InsertedKeeps
  <2>4. version \in 0..MaxVersion /\ MaxVersion \in Nat
    BY <1>1, LlAssumption DEF LlTypes
  <2>5. /\ it'[t].ver = version + 1 /\ it'[t].cur = it[t].cur /\ it'[t].prv = it[t].prv
        /\ \A u \in Walkers \ {t} : it'[u] = it[u]
        /\ it' \in [Walkers -> [cur : Nodes \cup {Nil}, prv : Nodes \cup {Nil}, ver : Nat]]
    <3>1. /\ it \in [Walkers -> [cur : Nodes \cup {Nil}, prv : Nodes \cup {Nil}, ver : Nat]]
          /\ version + 1 \in Nat
      BY <1>1, <2>4 DEF LlTypes
    <3>2. PICK i : i = [it[t] EXCEPT !.ver = version + 1]
      OBVIOUS
    <3>3. /\ i \in [cur : Nodes \cup {Nil}, prv : Nodes \cup {Nil}, ver : Nat]
          /\ i.ver = version + 1 /\ i.cur = it[t].cur /\ i.prv = it[t].prv
      BY <3>1, <3>2
    <3>4. it' = [it EXCEPT ![t] = i]
      BY <2>1, <3>2
    <3> QED BY <3>1, <3>3, <3>4
  <2>6. LlTypes'
    BY <1>1, <2>1, <2>3, <2>4, <2>5 DEF LlTypes
  <2>7. ASSUME NEW u \in Walkers PROVE StandsAt(it[u])' /\ Walked(u)'
    <3>1. StandsAt(it[u]) /\ Walked(u) /\ it[u].ver \in Nat
      BY <1>1 DEF LlStand, LlWalks, LlTypes
    <3>2. Walked(u)'
      <4>1. SameWalk(u) /\ due'[u] = due[u] /\ strayed'[u] = strayed[u]
        BY <2>1, <2>5 DEF SameWalk
      <4> QED BY <1>1, <2>1, <2>3, <3>1, <4>1, WalkGains
    <3>3. CASE u = t
      <4>1. Linked \subseteq Linked' /\ used \subseteq used'
        BY <2>1, <2>3 DEF Gains
      <4>2. it[u].prv # Nil => it[u].prv \in Linked /\ nxt[it[u].prv] = p
        BY <1>0, <2>1, <3>1, <3>3 DEF StandsAt
      <4>3. it[u].prv # Nil => nxt'[it[u].prv] = p
        <5> SUFFICES ASSUME it[u].prv # Nil PROVE nxt'[it[u].prv] = p
          OBVIOUS
        <5>1. it[u].prv # p
          BY <1>1, <2>1, <2>2, <4>2, LinkedFacts
        <5>2. it[u].prv # n /\ it[u].prv \in Nodes
          BY <2>2, <4>2
        <5> QED BY <1>1, <2>1, <4>2, <5>1, <5>2 DEF LlTypes, LinksOf
      <4>4. it'[u].ver = version' /\ it'[u].cur = p /\ it'[u].prv = it[u].prv
        BY <1>0, <2>1, <2>5, <3>3
      <4>5. {p, it'[u].prv} \subseteq used' \cup {Nil} /\ p \in Linked'
        BY <1>0, <2>2, <3>1, <3>3, <4>1, <4>4 DEF StandsAt
      <4>6. it'[u].ver <= version'
        BY <2>1, <2>4, <4>4
      <4>7. it'[u].prv # Nil => it'[u].prv \in Linked' /\ nxt'[it'[u].prv] = p
        BY <4>1, <4>2, <4>3, <4>4
      <4>8. StandsAt(it[u])'
        BY <4>4, <4>5, <4>6, <4>7 DEF StandsAt
      <4> QED BY <3>2, <4>8
    <3>4. CASE u # t
      <4>1. it'[u] = it[u]
        BY <2>5, <3>4
      <4>2. used \subseteq used' /\ version' = version + 1 /\ version \in Nat
        BY <2>1, <2>4
      <4>3. StandsAt(it[u])'
        BY <3>1, <4>1, <4>2 DEF StandsAt
      <4> QED BY <3>2, <4>3
    <3> QED BY <3>3, <3>4
  <2> QED BY <2>3, <2>6, <2>7 DEF LlKept, LlStand, LlWalks
<1> QED BY <1>2, <1>3

LEMMA ClearKeeps == ASSUME LlInv, Clear PROVE LlKept
<1>1. /\ version < MaxVersion /\ initial' = Nil /\ last' = Nil /\ count' = 0 /\ version' = version + 1
      /\ due' = [u \in Walkers |-> due[u] \ Linked]
      /\ strayed' = [u \in Walkers |-> strayed[u] \/ (u # Nil /\ it[u].cur \in Linked)]
      /\ UNCHANGED <<nxt, used, it, phase, seen, twice, taken>>
  BY DEF Clear, Leave
<1>2. LlTypes /\ LlShape /\ LlStand /\ LlWalks
  BY DEF LlInv
<1>3. Linked' = {} /\ Linked \in SUBSET Nodes
  BY <1>1, <1>2, ChainNil, LinkedFacts DEF Linked
<1>4. version \in 0..MaxVersion /\ MaxVersion \in Nat /\ Nil \notin Walkers
  BY <1>2, LlAssumption DEF LlTypes
<1>5. LlTypes'
  <2>1. due' \in [Walkers -> SUBSET Nodes]
    <3>1. \A u \in Walkers : due[u] \ Linked \in SUBSET Nodes
      BY <1>2 DEF LlTypes
    <3> QED BY <1>1, <3>1
  <2>2. strayed' \in [Walkers -> BOOLEAN]
    <3>1. \A u \in Walkers : (strayed[u] \/ (u # Nil /\ it[u].cur \in Linked)) \in BOOLEAN
      OBVIOUS
    <3> QED BY <1>1, <3>1
  <2> QED BY <1>1, <1>2, <1>4, <2>1, <2>2 DEF LlTypes
<1>6. LlShape'
  <2>1. Cardinality(Linked') = 0
    BY <1>3, FS_EmptySet
  <2>2. Path(Nodes, nxt', initial')
    BY <1>3 DEF Path, Linked
  <2> QED BY <1>1, <1>2, <1>3, <2>1, <2>2 DEF LlShape
<1>7. ASSUME NEW u \in Walkers PROVE StandsAt(it[u])' /\ Walked(u)'
  <2>1. StandsAt(it[u]) /\ Walked(u) /\ it[u].ver \in Nat
    BY <1>2 DEF LlStand, LlWalks, LlTypes
  <2>2. StandsAt(it[u])'
    BY <1>1, <1>4, <2>1 DEF StandsAt
  <2>3. due'[u] = {} /\ strayed'[u] = (strayed[u] \/ it[u].cur \in Linked)
    BY <1>1, <1>4, <2>1 DEF Walked
  <2>4. Walked(u)'
    <3>1. ~strayed'[u] => ~strayed[u] /\ it[u].cur \notin Linked
      BY <2>3
    <3>2. ~strayed'[u] /\ phase[u] = "on" => it[u].cur = Nil
      BY <2>1, <3>1 DEF Walked
    <3>3. it[u].cur = Nil => Ahead(it[u])' = {}
      BY <1>1, <1>3 DEF Ahead
    <3> QED BY <1>1, <2>1, <2>3, <3>1, <3>2, <3>3 DEF Walked
  <2> QED BY <2>2, <2>4
<1> QED BY <1>5, <1>6, <1>7 DEF LlKept, LlStand, LlWalks

-----------------------------------------------------------------------------
LEMMA LlInvStep == LlInv /\ [LlNext]_llVars => LlInv'
<1> SUFFICES ASSUME LlInv, [LlNext]_llVars PROVE LlInv'
  OBVIOUS
<1>1. CASE UNCHANGED llVars
  <2>1. /\ UNCHANGED <<nxt, initial, last, count, version, used, it, phase>>
        /\ UNCHANGED <<seen, due, strayed, twice, taken>>
    BY <1>1 DEF llVars, list, llHist
  <2>2. LlTypes' /\ LlShape' /\ LlStand'
    BY <2>1 DEF LlInv, LlTypes, LlShape, LlStand, StandsAt, Linked, Path
  <2>3. LlWalks'
    BY <2>1, WalkSame DEF LlInv, LlWalks, SameWalk
  <2> QED BY <2>2, <2>3 DEF LlInv
<1>2. CASE LlNext
  <2>1. ASSUME NEW t \in Walkers, Create(t) \/ IterNext(t) \/ Remove(t) \/ NextRemove(t)
                                  \/ MoveFirst(t) \/ Leaves(t)
        PROVE  LlKept
    BY <2>1, CreateKeeps, IterNextKeeps, RemoveKeeps, NextRemoveKeeps, MoveFirstKeeps, LeavesKeeps
  <2>2. ASSUME NEW t \in Walkers, NEW n \in Nodes, Insert(t, n) PROVE LlKept
    BY <2>2, InsertKeeps
  <2>3. ASSUME NEW n \in Nodes, LlAppend(n) \/ Prepend(n) PROVE LlKept
    BY <2>3, AppendKeeps, PrependKeeps
  <2>4. LlKept
    BY <1>2, <2>1, <2>2, <2>3, ClearKeeps DEF LlNext
  <2> QED BY <2>4 DEF LlKept, LlInv
<1> QED BY <1>1, <1>2

LEMMA LlInvInit == LlInit => LlInv
<1> SUFFICES ASSUME LlInit PROVE LlInv
  OBVIOUS
<1>1. LlTypes
  BY LlAssumption DEF LlInit, LlTypes, LinksOf, Start
<1>2. Linked = {} /\ Cardinality(Linked) = 0
  BY ChainNil, FS_EmptySet DEF LlInit, Linked
<1>3. LlShape
  BY <1>2 DEF LlInit, LlShape, Path, Linked
<1>4. LlStand /\ LlWalks
  BY <1>2 DEF LlInit, LlStand, LlWalks, StandsAt, Walked, Start
<1> QED BY <1>1, <1>3, <1>4 DEF LlInv

LEMMA LlInvAlways == LlSpec => []LlInv
<1> QED BY LlInvInit, LlInvStep, PTL DEF LlSpec

\* ncam-llist.c: the fields of a list and of its iterators hold what they are declared to.
THEOREM LlTypeOKAlways == LlSpec => []LlTypeOK
<1>1. LlInv => LlTypeOK
  <2> SUFFICES ASSUME LlInv PROVE LlTypeOK
    OBVIOUS
  <2>1. LlTypes /\ LlShape /\ LlStand
    BY DEF LlInv
  <2>2. count \in 0..Cardinality(Nodes)
    <3>1. Linked \in SUBSET Nodes /\ IsFiniteSet(Nodes)
      BY <2>1, LinkedFacts, LlAssumption
    <3>2. IsFiniteSet(Linked) /\ Cardinality(Linked) <= Cardinality(Nodes)
      BY <3>1, FS_Subset
    <3>3. Cardinality(Linked) \in Nat /\ Cardinality(Nodes) \in Nat
      BY <3>1, <3>2, FS_CardinalityType
    <3> QED BY <2>1, <3>2, <3>3 DEF LlShape
  <2>3. ASSUME NEW t \in Walkers PROVE {it[t].cur, it[t].prv} \subseteq used \cup {Nil} /\ it[t].ver \in 0..version
    BY <2>1, LlAssumption DEF LlTypes, LlStand, StandsAt
  <2> QED BY <2>1, <2>2, <2>3 DEF LlTypeOK, LlTypes, LinksOf
<1> QED BY <1>1, LlInvAlways, PTL

\* ll_iter_remove, ll_iter_next_remove, ll_iter_move_first and ll_clear between each other
\* and the calls that add nodes: the list never has a cycle nor a node that was removed, its
\* last node and its count are right, and no object is handed to two who remove it.
THEOREM LinksSoundAlways == LlSpec => []LinksSound
<1>1. LlInv => LinksSound
  <2> SUFFICES ASSUME LlInv PROVE LinksSound
    OBVIOUS
  <2>1. LlTypes /\ LlShape
    BY DEF LlInv
  <2>2. \A n \in Linked : n \notin Behind(n)
    BY <2>1, LinkedFacts
  <2> QED BY <2>1, <2>2 DEF LlShape, LinksSound
<1> QED BY <1>1, LlInvAlways, PTL

\* ll_iter_next: until its node is removed by another, or nodes are moved, an iteration
\* returns each node once, and at its end every node that was there all the time.
THEOREM EachOnceAlways == LlSpec => []EachOnce
<1>1. LlInv => EachOnce
  BY DEF LlInv, LlWalks, Walked, EachOnce
<1> QED BY <1>1, LlInvAlways, PTL
=============================================================================
