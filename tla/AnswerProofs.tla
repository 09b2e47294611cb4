---------------------------- MODULE AnswerProofs ----------------------------
(***************************************************************************)
(* What is done with the CWs that come: their cycle is checked (CwCycle),  *)
(* and the demuxer of a program takes them (DvbapiDemux).                  *)
(***************************************************************************)
EXTENDS CwCycle, DvbapiDemux, FiniteSetTheorems, WellFoundedInduction, TLAPS

-----------------------------------------------------------------------------
(***************************************************************************)
(* However long a CW lives, however many threads check CWs and whatever    *)
(* wrong ones came: a wrong CW is not taken for the next one, unless one   *)
(* that shares a half with a right one has misled the check before.  As    *)
(* long as no such CW has, the right ones come in order, and checks do not *)
(* overlap, none of those is refused.                                      *)
(***************************************************************************)

Halves     == {n \in Int : n <= 0}
RightPairs == Halves \X Halves
WrongPairs == {WrongCw(w) : w \in WrongCws}
PurePairs  == RightPairs \cup WrongPairs
Pairs      == Int \X Int

Entries == [stage : 0..4, cw : Pairs, ago : Int, locked : BOOLEAN, cycle : Int, dyn : Int,
            stays : {0, 1, Unknown}, repeat : Int, ecms : SUBSET Int]

\* Of what is checked against it is known which half stays.
Trusted(e) == e.stage = 3 => e.stays \in {0, 1}

Kept(e) == e # None => e \in Entries /\ Trusted(e)

\* What was learned from is a right CW, or one that shares no half with any; what is checked
\* against is right.
Pure(e)   == e.cw \in PurePairs /\ (e.stage = 3 => e.cw \in RightPairs)
Honest(e) == e # None => Pure(e)

\* The inductive invariant: it must speak of the entries still to be put back, too.
AllKept == /\ Kept(entry) /\ pending \in [Checkers -> Entries \cup {None}]
           /\ \A t \in Checkers : Kept(pending[t])
           /\ ~fooled => Honest(entry) /\ \A t \in Checkers : Honest(pending[t])

-----------------------------------------------------------------------------
\* The CWs that come are pairs.
LEMMA PureArePairs == PurePairs \subseteq Pairs /\ RightPairs \subseteq Pairs
<1>1. RightPairs \subseteq Pairs
  BY DEF RightPairs, Halves, Pairs
<1>2. WrongPairs \subseteq Pairs
  BY CycleAssumption DEF WrongPairs, WrongCw, Pairs
<1> QED
  BY <1>1, <1>2 DEF PurePairs

LEMMA CwsArePairs ==
  ASSUME NEW ecm \in {0, -1}, NEW cw \in Cws(ecm)
  PROVE  cw \in Pairs /\ (~Mixed(ecm, cw) => cw \in PurePairs)
<1>1. RightCw(ecm) \in RightPairs
  BY DEF RightCw, RightPairs, Halves
<1>2. ASSUME NEW k \in {ecm, ecm - 1}, NEW n \in {1, 2} PROVE RightCw(k)[n] \in Int
  <2>1. RightCw(k) \in {<<k - 1, k>>, <<k, k - 1>>} /\ k \in Int
    BY DEF RightCw
  <2> QED
    BY <2>1
<1>3. ASSUME NEW n \in {1, 2} PROVE HalvesAt(ecm, n) \subseteq Int
  <2>1. RightCw(ecm)[n] \in Int /\ RightCw(ecm - 1)[n] \in Int
    BY <1>2
  <2>2. WrongCws \subseteq Int
    BY CycleAssumption
  <2> QED
    BY <2>1, <2>2 DEF HalvesAt
<1>4. cw \in Pairs
  BY <1>3 DEF Cws, Pairs
<1> QED
  BY <1>1, <1>4 DEF Mixed, PurePairs, WrongPairs

\* A wrong CW shares a half only with itself, so nothing is learned from it.
LEMMA WrongOnesTeachNothing ==
  ASSUME NEW e \in Entries, NEW cw \in Pairs, Stays(e, cw) # Unknown
  PROVE  /\ Stays(e, cw) \in {0, 1}
         /\ e.cw \in PurePairs /\ cw \in PurePairs => cw \in RightPairs
<1>1. Stays(e, cw) \in {0, 1}
  BY DEF Stays
<1>2. ASSUME e.cw \in PurePairs, NEW w \in WrongCws, cw = WrongCw(w) PROVE FALSE
  <2>1. w \in Nat /\ w > 0 /\ cw[1] = w /\ cw[2] = w
    BY <1>2, CycleAssumption DEF WrongCw
  <2>2. CASE e.cw \in RightPairs
    <3>1. e.cw[1] <= 0 /\ e.cw[2] <= 0
      BY <2>2 DEF RightPairs, Halves
    <3> QED
      BY <3>1, <2>1 DEF Stays
  <2>3. CASE e.cw \in WrongPairs
    <3>1. e.cw[1] = e.cw[2]
      BY <2>3 DEF WrongPairs, WrongCw
    <3> QED
      BY <3>1, <2>1 DEF Stays
  <2> QED
    BY <1>2, <2>2, <2>3 DEF PurePairs
<1> QED
  BY <1>1, <1>2 DEF PurePairs, WrongPairs

\* What an assignment to a field of an entry leaves of it
LEMMA StageSet ==
  ASSUME NEW e \in Entries, NEW x \in 0..4
  PROVE  LET f == [e EXCEPT !.stage = x]
         IN f \in Entries /\ f.stage = x /\ f.cw = e.cw /\ f.stays = e.stays
  BY DEF Entries

LEMMA StaysSet ==
  ASSUME NEW e \in Entries, NEW x \in {0, 1, Unknown}
  PROVE  LET f == [e EXCEPT !.stays = x]
         IN f \in Entries /\ f.stage = e.stage /\ f.cw = e.cw /\ f.stays = x
  BY DEF Entries

LEMMA CwSet ==
  ASSUME NEW e \in Entries, NEW x \in Pairs
  PROVE  LET f == [e EXCEPT !.cw = x]
         IN f \in Entries /\ f.stage = e.stage /\ f.cw = x /\ f.stays = e.stays
  BY DEF Entries

LEMMA NumberSet ==
  ASSUME NEW e \in Entries, NEW x \in Int,
         NEW f \in {[e EXCEPT !.ago = x], [e EXCEPT !.cycle = x],
                    [e EXCEPT !.dyn = x], [e EXCEPT !.repeat = x]}
  PROVE  f \in Entries /\ f.stage = e.stage /\ f.cw = e.cw /\ f.stays = e.stays
  BY DEF Entries

LEMMA OtherSet ==
  ASSUME NEW e \in Entries, NEW b \in BOOLEAN, NEW x \in SUBSET Int,
         NEW f \in {[e EXCEPT !.locked = b], [e EXCEPT !.ecms = x]}
  PROVE  f \in Entries /\ f.stage = e.stage /\ f.cw = e.cw /\ f.stays = e.stays
  BY DEF Entries

\* Learning keeps an entry; from CWs that share no half with a right one it gets to stage 3
\* only with a right one.
LEMMA Learned ==
  ASSUME NEW e \in Entries, e.stage # 3, NEW cw \in Pairs, NEW gap \in Int
  PROVE  LET f == Learn(e, cw, gap)
         IN /\ f \in Entries /\ (f.stage = 3 => f.stays \in {0, 1})
            /\ f.stage = 3 /\ e.cw \in PurePairs /\ cw \in PurePairs => cw \in RightPairs
<1> DEFINE at(n) == [e EXCEPT !.stage = n]
<1>1. \A n \in 0..4 : at(n) \in Entries /\ at(n).stage = n
  BY StageSet
<1> HIDE DEF at
<1>2. e.stage \in 0..4 /\ e.repeat \in Int
  BY DEF Entries
<1>3. CASE e.stage = 0
  <2>1. Learn(e, cw, gap) = IF Stable(e, gap) THEN at(1) ELSE at(0)
    BY <1>3 DEF Learn, at
  <2> QED
    BY <2>1, <1>1
<1>4. CASE e.stage = 1
  <2>1. Learn(e, cw, gap) = IF Stable(e, gap) THEN at(2) ELSE at(0)
    BY <1>4 DEF Learn, at
  <2> QED
    BY <2>1, <1>1
<1>5. CASE e.stage \in {2, 4} /\ Stays(e, cw) # Unknown
  <2>1. Stays(e, cw) \in {0, 1} /\ (e.cw \in PurePairs /\ cw \in PurePairs => cw \in RightPairs)
    BY <1>5, WrongOnesTeachNothing
  <2> DEFINE g == [at(3) EXCEPT !.cycle = gap]
             f(h) == [h EXCEPT !.stays = Stays(e, cw)]
  <2>2. g \in Entries
    <3>1. at(3) \in Entries
      BY <1>1
    <3> QED
      BY <3>1, NumberSet
  <2>3. \A h \in Entries : f(h) \in Entries /\ f(h).stays = Stays(e, cw)
    BY <2>1, StaysSet
  <2>4. e.stage = 2 =>
          Learn(e, cw, gap) = IF Stable(e, gap) /\ e.cycle > 0 THEN f(g) ELSE at(1)
    BY <1>5 DEF Learn, at
  <2>5. e.stage = 4 => Learn(e, cw, gap) = f(at(3))
    BY <1>5 DEF Learn, at
  <2> HIDE DEF f, g
  <2> QED
    BY <2>1, <2>2, <2>3, <2>4, <2>5, <1>1, <1>5
<1>6. CASE e.stage \in {2, 4} /\ Stays(e, cw) = Unknown
  <2> DEFINE f(n) == [at(n) EXCEPT !.repeat = e.repeat + 1]
  <2>1. ASSUME NEW n \in {1, 4} PROVE f(n) \in Entries /\ f(n).stage = n
    <3>1. at(n) \in Entries /\ at(n).stage = n /\ e.repeat + 1 \in Int
      BY <1>1, <1>2
    <3> QED
      BY <3>1, NumberSet
  <2>2. e.stage = 2 => Learn(e, cw, gap) = at(1)
    BY <1>6 DEF Learn, at
  <2>3. e.stage = 4 => Learn(e, cw, gap) = f(IF e.repeat > MaxRepeat THEN 1 ELSE 4)
    BY <1>6 DEF Learn, at
  <2> HIDE DEF f
  <2> QED
    BY <2>1, <2>2, <2>3, <1>1, <1>6
<1> QED
  BY <1>2, <1>3, <1>4, <1>5, <1>6

\* The other parts of checkcwcycle_int keep an entry, too.
LEMMA TimedKept ==
  ASSUME NEW e \in Entries, NEW gap \in Int
  PROVE  LET f == Timed(e, gap)
         IN f \in Entries /\ f.stage = e.stage /\ f.stays = e.stays
<1>0. e.cycle \in Int
  BY DEF Entries
<1>1. CASE e.stage = 3
  <2> DEFINE late == IF gap > e.cycle THEN gap - e.cycle ELSE 0
             f == [e EXCEPT !.locked = FALSE]
             g == [f EXCEPT !.repeat = 0]
             h == [g EXCEPT !.dyn = late]
  <2>1. late \in Int
    BY <1>0
  <2>2. f \in Entries /\ f.stage = e.stage /\ f.stays = e.stays
    BY OtherSet
  <2> HIDE DEF late
  <2>3. Timed(e, gap) = h
    BY <1>1 DEF Timed, late
  <2> HIDE DEF f
  <2>4. g \in Entries /\ g.stage = e.stage /\ g.stays = e.stays
    <3>1. f \in Entries /\ 0 \in Int
      BY <2>2
    <3>2. g \in Entries /\ g.stage = f.stage /\ g.stays = f.stays
      BY <3>1, NumberSet
    <3> QED
      BY <3>2, <2>2
  <2> HIDE DEF g
  <2>5. h \in Entries /\ h.stage = e.stage /\ h.stays = e.stays
    BY <2>1, <2>4, NumberSet
  <2> QED
    BY <2>3, <2>5
<1>2. CASE e.stage # 3
  <2> DEFINE time == IF e.stage < 3 THEN gap ELSE e.cycle
             f == [e EXCEPT !.locked = TRUE]
             g == [f EXCEPT !.cycle = time]
  <2>1. time \in Int
    BY <1>0
  <2>2. f \in Entries /\ f.stage = e.stage /\ f.stays = e.stays
    BY OtherSet
  <2> HIDE DEF time
  <2>3. Timed(e, gap) = g
    BY <1>2 DEF Timed, time
  <2> HIDE DEF f
  <2>4. g \in Entries /\ g.stage = e.stage /\ g.stays = e.stays
    BY <2>1, <2>2, NumberSet
  <2> QED
    BY <2>3, <2>4
<1> QED
  BY <1>1, <1>2

LEMMA UpdatedKept ==
  ASSUME NEW e \in Entries, NEW ecm \in Int, NEW cw \in Pairs, NEW ago \in Int
  PROVE  LET f == Updated(e, ecm, cw, ago)
         IN f \in Entries /\ f.stage = e.stage /\ f.cw = cw /\ f.stays = e.stays
<1> DEFINE ecms == e.ecms \cup {ecm}
           f == [e EXCEPT !.cw = cw]
           g == [f EXCEPT !.ago = ago]
           h == [g EXCEPT !.ecms = ecms]
<1>1. ecms \in SUBSET Int
  BY DEF Entries
<1>2. f \in Entries /\ f.stage = e.stage /\ f.cw = cw /\ f.stays = e.stays
  BY CwSet
<1> HIDE DEF ecms
<1>3. Updated(e, ecm, cw, ago) = h
  BY DEF Updated, ecms
<1> HIDE DEF f
<1>4. g \in Entries /\ g.stage = e.stage /\ g.cw = cw /\ g.stays = e.stays
  BY <1>2, NumberSet
<1> HIDE DEF g
<1>5. h \in Entries /\ h.stage = e.stage /\ h.cw = cw /\ h.stays = e.stays
  BY <1>1, <1>4, OtherSet
<1> QED
  BY <1>3, <1>5

LEMMA AgedIsKept ==
  ASSUME NEW e \in Entries, NEW gap \in Int
  PROVE  LET f == Aged(e, gap)
         IN f \in Entries /\ f.stage # 3 /\ (e.cw \in PurePairs => f.cw \in PurePairs)
<1>1. CASE e.stage # 3
  BY <1>1 DEF Aged
<1>2. CASE e.stage = 3
  <2> DEFINE stage == IF KeepTime > 0 /\ gap < KeepTime THEN 4 ELSE 2
             f == [e EXCEPT !.stage = stage]
             g == [f EXCEPT !.cw = NoCw]
             h == [g EXCEPT !.stays = Unknown]
  <2>1. stage \in 0..4 /\ stage # 3
    OBVIOUS
  <2>2. NoCw \in Pairs /\ NoCw \in PurePairs
    BY DEF NoCw, Pairs, PurePairs, RightPairs, Halves
  <2>3. Aged(e, gap) = h
    BY <1>2 DEF Aged
  <2> HIDE DEF stage
  <2>4. f \in Entries /\ f.stage # 3
    BY <2>1, StageSet
  <2> HIDE DEF f
  <2>5. g \in Entries /\ g.stage # 3 /\ g.cw = NoCw
    BY <2>2, <2>4, CwSet
  <2> HIDE DEF g
  <2>6. h \in Entries /\ h.stage # 3 /\ h.cw = NoCw
    BY <2>5, StaysSet
  <2> QED
    BY <2>2, <2>3, <2>6
<1> QED
  BY <1>1, <1>2

\* What a check says to put back is kept; if it was learned from CWs that share no half with
\* a right one, an entry in stage 3 holds a right CW.
LEMMA VerdictKept ==
  ASSUME NEW e \in Entries, Trusted(e), NEW ecm \in {0, -1}, NEW cw \in Pairs,
         NEW ago \in Int, NEW fixed \in BOOLEAN, NEW like \in BOOLEAN
  PROVE  LET put == Verdict(e, ecm, cw, ago, fixed, like).entry
         IN /\ put \in Entries \cup {None} /\ Kept(put)
            /\ Pure(e) /\ cw \in PurePairs => Honest(put)
<1> DEFINE gap == Gap(e, ago)
<1>0. gap \in Int /\ ecm \in Int
  BY DEF Gap, Entries
<1> HIDE DEF gap
<1>1. CASE Window(e, gap)
  <2>1. e.stage = 3 /\ e.stays \in {0, 1} /\ (Pure(e) => e.cw \in RightPairs)
    BY <1>1 DEF Window, Trusted, Pure
  <2>2. Verdict(e, ecm, cw, ago, fixed, like) = Compare(e, ecm, cw, ago, fixed, like)
    BY <1>1 DEF Verdict, gap
  <2>3. CASE cw # e.cw /\ Passes(e, cw, like)
    <3>1. Pure(e) /\ cw \in PurePairs => cw \in RightPairs
      <4>1. ASSUME Pure(e), NEW w \in WrongCws, cw = WrongCw(w) PROVE FALSE
        <5>1. cw[1] > 0 /\ cw[2] > 0
          BY <4>1, CycleAssumption DEF WrongCw
        <5>2. e.cw[1] <= 0 /\ e.cw[2] <= 0
          BY <2>1, <4>1 DEF RightPairs, Halves
        <5>3. cw[1] # e.cw[1] /\ cw[2] # e.cw[2]
          BY <5>1, <5>2, <4>1, <2>1, CycleAssumption DEF WrongCw, RightPairs, Halves
        <5>4. CASE e.stays = 0
          BY <5>3, <5>4, <2>3 DEF Passes, Follows
        <5>5. CASE e.stays = 1
          BY <5>3, <5>5, <2>3 DEF Passes, Follows
        <5> QED
          BY <5>4, <5>5, <2>1
      <4> QED
        BY <4>1 DEF PurePairs, WrongPairs
    <3> DEFINE f == [e EXCEPT !.stays = 1 - e.stays]
               g == Timed(f, gap)
               h == Updated(g, ecm, cw, ago)
    <3>2. 1 - e.stays \in {0, 1}
      BY <2>1
    <3>3. Compare(e, ecm, cw, ago, fixed, like).entry = h
      BY <2>3 DEF Compare, Result, gap
    <3>4. f \in Entries /\ f.stage = 3 /\ f.stays \in {0, 1}
      BY <3>2, <2>1, StaysSet
    <3> HIDE DEF f
    <3>5. g \in Entries /\ g.stage = 3 /\ g.stays \in {0, 1}
      BY <3>4, <1>0, TimedKept
    <3> HIDE DEF g
    <3>6. h \in Entries /\ h.stage = g.stage /\ h.stays = g.stays /\ h.cw = cw
      <4>1. g \in Entries /\ ecm \in Int
        BY <3>5, <1>0
      <4> QED
        BY ONLY <4>1, cw \in Pairs, ago \in Int, UpdatedKept DEF h
    <3> HIDE DEF h
    <3> QED
      BY <3>1, <3>3, <3>5, <3>6, <2>2 DEF Kept, Trusted, Honest, Pure
  <2>4. CASE cw # e.cw /\ ~Passes(e, cw, like) /\ ecm \notin e.ecms /\ AllowBad /\ fixed
    <3> DEFINE f == [e EXCEPT !.stage = 4]
               g == [f EXCEPT !.stays = Unknown]
               h == Updated(g, ecm, cw, ago)
    <3>1. Compare(e, ecm, cw, ago, fixed, like).entry = h
      BY <2>4 DEF Compare, Result
    <3>2. f \in Entries /\ f.stage = 4
      <4>1. 4 \in 0..4
        OBVIOUS
      <4> QED
        BY <4>1, StageSet
    <3> HIDE DEF f
    <3>3. g \in Entries /\ g.stage = 4
      BY <3>2, StaysSet
    <3> HIDE DEF g
    <3>4. h \in Entries /\ h.stage = 4 /\ h.cw = cw
      <4>1. g \in Entries /\ g.stage = 4 /\ ecm \in Int
        BY <3>3, <1>0
      <4> QED
        BY ONLY <4>1, cw \in Pairs, ago \in Int, UpdatedKept DEF h
    <3> HIDE DEF h
    <3> QED
      BY <3>1, <3>4, <2>2 DEF Kept, Trusted, Honest, Pure
  <2>5. CASE \/ cw = e.cw
             \/ ~Passes(e, cw, like) /\ ~(ecm \notin e.ecms /\ AllowBad /\ fixed)
    <3>1. Compare(e, ecm, cw, ago, fixed, like).entry = None
      BY <2>5 DEF Compare, Result
    <3> QED
      BY <3>1, <2>2 DEF Kept, Honest
  <2> QED
    BY <2>3, <2>4, <2>5
<1>2. CASE ~Window(e, gap)
  <2> DEFINE f == Aged(e, gap)
             g == Learn(f, cw, gap)
             h == Timed(g, gap)
             i == Updated(h, ecm, cw, ago)
  <2>1. Verdict(e, ecm, cw, ago, fixed, like).entry \in {None, i}
    BY <1>2 DEF Verdict, Result, gap
  <2>2. f \in Entries /\ f.stage # 3 /\ (Pure(e) => f.cw \in PurePairs)
    BY <1>0, AgedIsKept DEF Pure
  <2> HIDE DEF f
  <2>3. /\ g \in Entries /\ (g.stage = 3 => g.stays \in {0, 1})
        /\ g.stage = 3 /\ f.cw \in PurePairs /\ cw \in PurePairs => cw \in RightPairs
    BY <2>2, <1>0, Learned
  <2> HIDE DEF g
  <2>4. h \in Entries /\ h.stage = g.stage /\ h.stays = g.stays
    BY <2>3, <1>0, TimedKept
  <2> HIDE DEF h
  <2>5. i \in Entries /\ i.stage = h.stage /\ i.stays = h.stays /\ i.cw = cw
    BY <2>4, <1>0, UpdatedKept
  <2> HIDE DEF i
  <2> QED
    BY <2>1, <2>2, <2>3, <2>4, <2>5 DEF Kept, Trusted, Honest, Pure
<1> QED
  BY <1>1, <1>2

\* Time keeps an entry: what is right stays right, what is wrong stays wrong.
LEMMA LaterKept ==
  ASSUME NEW e \in Entries \cup {None}, Kept(e)
  PROVE  Later(e) \in Entries \cup {None} /\ Kept(Later(e)) /\ (Honest(e) => Honest(Later(e)))
<1>1. CASE e = None
  BY <1>1 DEF Later, Kept, Honest
<1>2. CASE e # None
  <2> DEFINE cw   == <<NextEcm(e.cw[1]), NextEcm(e.cw[2])>>
             ago  == e.ago + 1
             ecms == {NextEcm(n) : n \in e.ecms} \cap {-1, 0}
             f == [e EXCEPT !.ago = ago]
             g == [f EXCEPT !.cw = cw]
             h == [g EXCEPT !.ecms = ecms]
  <2>1. e \in Entries /\ (e.stage = 3 => e.stays \in {0, 1})
    BY <1>2 DEF Kept, Trusted
  <2>2. \A n \in Halves : NextEcm(n) \in Halves
    BY DEF NextEcm, Halves
  <2>3. e.cw \in RightPairs => cw \in RightPairs
    BY <2>2 DEF RightPairs
  <2>4. e.cw \in WrongPairs => cw \in WrongPairs
    <3>1. ASSUME NEW w \in WrongCws, e.cw = WrongCw(w) PROVE cw = WrongCw(w)
      <4>1. w \in Nat /\ w > 0
        BY CycleAssumption
      <4>2. NextEcm(w) = w
        BY <4>1 DEF NextEcm, Oldest
      <4> QED
        BY <4>2, <3>1 DEF WrongCw
    <3> QED
      BY <3>1 DEF WrongPairs
  <2>5. cw \in Pairs /\ ago \in Int /\ ecms \in SUBSET Int
    <3>1. \A n \in Int : NextEcm(n) \in Int
      BY DEF NextEcm
    <3> QED
      BY <2>1, <3>1 DEF Pairs, Entries
  <2>6. Later(e) = h
    BY <1>2 DEF Later
  <2> HIDE DEF cw, ago, ecms
  <2>7. f \in Entries /\ f.stage = e.stage /\ f.stays = e.stays
    BY <2>1, <2>5, NumberSet
  <2> HIDE DEF f
  <2>8. g \in Entries /\ g.stage = e.stage /\ g.stays = e.stays /\ g.cw = cw
    BY <2>5, <2>7, CwSet
  <2> HIDE DEF g
  <2>9. h \in Entries /\ h.stage = e.stage /\ h.stays = e.stays /\ h.cw = cw
    BY <2>5, <2>8, OtherSet
  <2> HIDE DEF h
  <2> QED
    BY <1>2, <2>1, <2>3, <2>4, <2>6, <2>9 DEF Kept, Trusted, Honest, Pure, PurePairs
<1> QED
  BY <1>1, <1>2

LEMMA NewEntryKept ==
  ASSUME NEW ecm \in {0, -1}, NEW cw \in Pairs, NEW ago \in Int
  PROVE  /\ NewEntry(ecm, cw, ago) \in Entries /\ Kept(NewEntry(ecm, cw, ago))
         /\ cw \in PurePairs => Honest(NewEntry(ecm, cw, ago))
  BY DEF NewEntry, Entries, Kept, Trusted, Unknown, Honest, Pure

LEMMA AllKeptInit == CycleInit => AllKept
  BY DEF CycleInit, AllKept, Kept, Honest, None

\* Whatever is asked of a CW, the answer is yes or no.
LEMMA AskedTyped == \A ago : Asked(ago) \subseteq BOOLEAN
  BY DEF Asked

LEMMA AllKeptInductive == AllKept /\ [CycleNext]_cycleVars => AllKept'
<1> SUFFICES ASSUME AllKept, [CycleNext]_cycleVars PROVE AllKept'
  OBVIOUS
<1> USE DEF AllKept
<1>0. entry \in Entries \cup {None}
  BY DEF Kept
<1>1. ASSUME NEW t \in Checkers, NEW ago \in 0..Delay, NEW cw \in Cws(EcmOf(ago)),
             NEW fixed \in BOOLEAN, NEW like \in BOOLEAN, Check(t, ago, cw, fixed, like)
      PROVE  AllKept'
  <2> DEFINE ecm == EcmOf(ago)
             put == IF entry = None THEN NewEntry(ecm, cw, ago)
                    ELSE Verdict(entry, ecm, cw, ago, fixed, like).entry
             misled  == Mixed(ecm, cw) /\ put # None
             overlap == \E u \in Checkers : pending[u] # None
  <2>1. ecm \in {0, -1} /\ ago \in Int
    BY CycleAssumption DEF EcmOf
  <2>2. cw \in Pairs /\ (~Mixed(ecm, cw) => cw \in PurePairs)
    BY <2>1, CwsArePairs
  <2>3. /\ pending' = [pending EXCEPT ![t] = put] /\ entry' = entry
        /\ fooled' = ((fooled /\ (entry # None \/ overlap)) \/ misled)
    BY <1>1 DEF Check
  <2> HIDE DEF ecm
  <2>4. /\ put \in Entries \cup {None} /\ Kept(put)
        /\ cw \in PurePairs /\ Honest(entry) => Honest(put)
    <3>1. CASE entry = None
      BY <3>1, <2>1, <2>2, NewEntryKept
    <3>2. CASE entry # None
      <4>1. entry \in Entries /\ Trusted(entry) /\ (Honest(entry) => Pure(entry))
        BY <3>2 DEF Kept, Honest
      <4> QED
        BY <3>2, <4>1, <2>1, <2>2, VerdictKept
    <3> QED
      BY <3>1, <3>2
  <2> HIDE DEF put
  <2>5. ASSUME ~fooled'
        PROVE  Honest(put) /\ Honest(entry) /\ \A u \in Checkers : Honest(pending[u])
    <3>1. ~misled /\ (~fooled \/ (entry = None /\ ~overlap))
      BY <2>3, <2>5
    <3>2. Honest(None)
      BY DEF Honest
    <3>3. Honest(entry) /\ \A u \in Checkers : Honest(pending[u])
      BY <3>1, <3>2
    <3> QED
      BY <2>2, <2>4, <3>1, <3>2, <3>3
  <2>6. /\ pending' \in [Checkers -> Entries \cup {None}]
        /\ \A u \in Checkers : pending'[u] \in {pending[u], put}
    BY <2>3, <2>4
  <2> QED
    BY <2>3, <2>4, <2>5, <2>6 DEF Kept, Trusted, Honest, Pure
<1>2. ASSUME NEW t \in Checkers, Insert(t) PROVE AllKept'
  <2>1. None \in Entries \cup {None} /\ Kept(None) /\ Honest(None)
    BY DEF Kept, Honest
  <2> QED
    BY <1>2, <2>1 DEF Insert, Kept, Trusted, Honest, Pure
<1>3. CASE Cleanup
  BY <1>3 DEF Cleanup, Kept, Trusted, Honest, Pure
<1>4. CASE Tick
  <2>1. /\ entry' = Later(entry) /\ pending' = [t \in Checkers |-> Later(pending[t])]
        /\ fooled' = fooled
    BY <1>4 DEF Tick
  <2>2. Kept(Later(entry)) /\ (Honest(entry) => Honest(Later(entry)))
    BY <1>0, LaterKept
  <2>3. \A t \in Checkers : /\ Later(pending[t]) \in Entries \cup {None} /\ Kept(Later(pending[t]))
                            /\ Honest(pending[t]) => Honest(Later(pending[t]))
    BY LaterKept
  <2> QED
    BY <2>1, <2>2, <2>3 DEF Kept, Trusted, Honest, Pure
<1>5. CASE UNCHANGED cycleVars
  BY <1>5 DEF cycleVars, Kept, Trusted, Honest, Pure
<1> QED
  BY <1>1, <1>2, <1>3, <1>4, <1>5, AskedTyped DEF CycleNext

LEMMA KeptNotFooled == AllKept => NotFooled
<1> SUFFICES ASSUME AllKept, entry # None, ~fooled, NEW ago \in 0..Delay,
                    NEW cw \in Cws(EcmOf(ago)), NEW like \in BOOLEAN,
                    Window(entry, Gap(entry, ago)), cw[entry.stays + 1] \in WrongCws
             PROVE  Dropped(Verdict(entry, EcmOf(ago), cw, ago, FALSE, like).verdict)
  BY DEF NotFooled
<1>1. entry.cw \in RightPairs /\ entry.stays \in {0, 1}
  BY DEF AllKept, Kept, Trusted, Honest, Pure, Window
<1>2. cw[entry.stays + 1] # entry.cw[entry.stays + 1]
  <2>1. \A w \in WrongCws : w \in Nat /\ w > 0
    BY CycleAssumption
  <2>2. entry.cw[1] \in Int /\ entry.cw[1] <= 0 /\ entry.cw[2] \in Int /\ entry.cw[2] <= 0
    BY <1>1 DEF RightPairs, Halves
  <2>3. CASE entry.stays = 0
    BY <2>1, <2>2, <2>3
  <2>4. CASE entry.stays = 1
    BY <2>1, <2>2, <2>4
  <2> QED
    BY <1>1, <2>3, <2>4
<1>3. cw # entry.cw /\ ~Passes(entry, cw, like)
  BY <1>2 DEF Passes, Follows
<1> QED
  BY <1>3 DEF Verdict, Compare, Result, Dropped

\* Unless a CW that shares a half with a right one has misled the check, a CW whose half that
\* has to stay is wrong is never taken for the one an entry holds or for the next (NotFooled),
\* for any number of threads, any times and any learned entries (checkcwcycle_int).
THEOREM NotFooledAlways == CycleSpec => []NotFooled
<1>1. AllKept /\ [CycleNext]_cycleVars => AllKept'
  BY AllKeptInductive
<1> QED
  BY AllKeptInit, <1>1, KeptNotFooled, PTL DEF CycleSpec

-----------------------------------------------------------------------------
(* Right CWs pass: an entry that CWs are checked against holds the newest right CW, and    *)
(* knows which half of it stays (InStep).  For this to last, every entry must hold a CW of *)
(* an ECM that is not newer than the newest (Fits), and one that is about to be put back   *)
(* stands for the one on the list (Chained).                                              *)

\* What is left of CWs of older ECMs, and where the new half of an ECM's CW is.
OldCw == <<Oldest, Oldest>>
Place(odd, n) == IF odd = (n \in {0, -2}) THEN 2 ELSE 1
CwAt(odd, n)  == IF Place(odd, n) = 2 THEN <<n - 1, n>> ELSE <<n, n - 1>>

CwsUpTo(odd, new) ==
  WrongPairs \cup {NoCw, OldCw} \cup {CwAt(odd, n) : n \in {k \in -2..0 : k <= new}}

InStep(e, odd, new) ==
  /\ ~e.locked
  /\ new >= -2 => e.cw = CwAt(odd, new) /\ e.stays = Place(odd, new) - 1

Fits(e, odd, new) ==
  e # None => /\ e.cw \in CwsUpTo(odd, new)
              /\ e.stage = 3 => InStep(e, odd, new) /\ e.cw \in RightPairs

Bounds == phase \in 0..2 * Period - 1 /\ newest \in Oldest..0

Chained == ~broken =>
  /\ \A t, u \in Checkers : pending[t] # None /\ pending[u] # None => t = u
  /\ IF \E t \in Checkers : pending[t] # None
     THEN \A t \in Checkers : Fits(pending[t], Odd, newest)
     ELSE Fits(entry, Odd, newest)

InTurn == AllKept /\ Bounds /\ broken \in BOOLEAN /\ Chained

\* From one ECM to the next the places change.
LEMMA PlacesAlternate ==
  ASSUME NEW odd \in BOOLEAN, NEW n \in -2..-1
  PROVE  /\ Place(odd, n + 1) = 3 - Place(odd, n)
         /\ Place(~odd, n) = Place(odd, n + 1)
         /\ Place(odd, n) \in {1, 2}
<1>1. CASE n = -2
  BY <1>1 DEF Place
<1>2. CASE n = -1
  BY <1>2 DEF Place
<1> QED BY <1>1, <1>2

LEMMA CwOfPlace ==
  ASSUME NEW odd, NEW n \in -2..0
  PROVE  /\ Place(odd, n) \in {1, 2}
         /\ CwAt(odd, n)[Place(odd, n)] = n /\ CwAt(odd, n)[3 - Place(odd, n)] = n - 1
         /\ CwAt(odd, n) = <<CwAt(odd, n)[1], CwAt(odd, n)[2]>>
<1>1. CASE Place(odd, n) = 2
  BY <1>1 DEF CwAt
<1>2. CASE Place(odd, n) = 1
  BY <1>2 DEF CwAt
<1> QED BY <1>1, <1>2 DEF Place

LEMMA RightCwAt ==
  ASSUME NEW ecm \in {0, -1}
  PROVE  RightCw(ecm) = CwAt(Odd, ecm)
<1>1. CASE ecm = 0
  BY <1>1 DEF RightCw, CwAt, Place
<1>2. CASE ecm = -1
  BY <1>2 DEF RightCw, CwAt, Place
<1> QED BY <1>1, <1>2

\* A wrong CW shares no half with a right one.
LEMMA WrongHalves ==
  ASSUME NEW cw \in WrongPairs
  PROVE  /\ cw[1] \in Nat \ {0} /\ cw[2] = cw[1]
         /\ \A odd \in BOOLEAN, n \in -2..0 : cw # CwAt(odd, n)
<1>1. PICK w \in WrongCws : cw = <<w, w>>
  BY DEF WrongPairs, WrongCw
<1>2. w \in Nat \ {0}
  BY CycleAssumption
<1>3. cw[1] = w /\ cw[2] = w
  BY <1>1
<1>4. ASSUME NEW odd \in BOOLEAN, NEW n \in -2..0, cw = CwAt(odd, n) PROVE FALSE
  <2>1. CwAt(odd, n)[1] <= 0
    BY DEF CwAt
  <2> QED BY <1>2, <1>3, <1>4, <2>1
<1> QED BY <1>2, <1>3, <1>4

\* Newer ECMs are allowed more CWs.
LEMMA UpToMore ==
  ASSUME NEW odd \in BOOLEAN, NEW new \in Oldest..0, NEW new1 \in Oldest..0, new <= new1
  PROVE  CwsUpTo(odd, new) \subseteq CwsUpTo(odd, new1)
<1>1. {k \in -2..0 : k <= new} \subseteq {k \in -2..0 : k <= new1}
  BY DEF Oldest
<1> QED BY <1>1 DEF CwsUpTo

\* From the CW of an ECM and one of the ECMs before, only the place of the half that came
\* with the newer can be learned.
LEMMA LearnsPlace ==
  ASSUME NEW odd \in BOOLEAN, NEW ecm \in {0, -1}, NEW new \in Oldest..0, new <= ecm,
         NEW e, e.cw \in CwsUpTo(odd, new), Stays(e, CwAt(odd, ecm)) # Unknown
  PROVE  Stays(e, CwAt(odd, ecm)) = Place(odd, ecm) - 1
<1> DEFINE cw == CwAt(odd, ecm)
<1>0. /\ Place(odd, ecm) \in {1, 2} /\ ecm \in -2..0
      /\ cw[Place(odd, ecm)] = ecm /\ cw[3 - Place(odd, ecm)] = ecm - 1
  BY CwOfPlace
<1>1. cw[1] \in -2..0 /\ cw[2] \in -2..0
  BY <1>0
<1>2. e.cw \notin WrongPairs
  <2>1. e.cw \in WrongPairs => e.cw[1] > 0 /\ e.cw[2] > 0
    BY WrongHalves
  <2> QED BY <1>1, <2>1 DEF Stays
<1>3. e.cw # NoCw /\ e.cw # OldCw
  BY <1>1 DEF Stays, NoCw, OldCw, Oldest
<1>4. PICK n \in -2..0 : n <= new /\ e.cw = CwAt(odd, n)
  BY <1>2, <1>3 DEF CwsUpTo
<1>5. /\ Place(odd, n) \in {1, 2}
      /\ e.cw[Place(odd, n)] = n /\ e.cw[3 - Place(odd, n)] = n - 1
  BY <1>4, CwOfPlace
<1> HIDE DEF cw
<1>6. CASE n = ecm
  BY <1>4, <1>6 DEF Stays, cw
<1>7. CASE n = ecm - 1
  <2>1. Place(odd, ecm) = 3 - Place(odd, n)
    <3>1. n \in -2..-1 /\ ecm = n + 1
      BY <1>7
    <3> QED BY <3>1, PlacesAlternate
  <2>2. CASE Place(odd, n) = 1
    <3>1. cw[1] = n /\ cw[2] = ecm /\ e.cw[1] = n /\ e.cw[2] = n - 1
      BY <1>0, <1>5, <1>7, <2>1, <2>2
    <3>2. Stays(e, cw) = 1
      BY <3>1, <1>7 DEF Stays
    <3> QED BY <2>1, <2>2, <3>2 DEF cw
  <2>3. CASE Place(odd, n) = 2
    <3>1. cw[2] = n /\ cw[1] = ecm /\ e.cw[2] = n /\ e.cw[1] = n - 1
      BY <1>0, <1>5, <1>7, <2>1, <2>3
    <3>2. Stays(e, cw) = 0
      BY <3>1, <1>7 DEF Stays
    <3> QED BY <2>1, <2>3, <3>2 DEF cw
  <2> QED BY <1>5, <2>2, <2>3
<1>8. CASE n < ecm - 1
  <2>1. n = -2 /\ ecm = 0
    BY <1>8
  <2>2. e.cw[1] \in {-2, -3} /\ e.cw[2] \in {-2, -3} /\ cw[1] \in {0, -1} /\ cw[2] \in {0, -1}
    BY <1>0, <1>5, <2>1
  <2>3. Stays(e, cw) = Unknown
    BY <2>2 DEF Stays
  <2> QED BY <2>3 DEF cw
<1> QED BY <1>4, <1>6, <1>7, <1>8 DEF Oldest

\* The right CW of the newest ECM or of the next is known or follows.
LEMMA RightFollows ==
  ASSUME NEW e \in Entries, NEW odd \in BOOLEAN, NEW new \in Oldest..0, InStep(e, odd, new),
         NEW ecm \in {0, -1}, ecm \in new..new + 1
  PROVE  /\ ecm = new => e.cw = CwAt(odd, ecm)
         /\ ecm = new + 1 => /\ e.cw # CwAt(odd, ecm)
                             /\ Follows(e, CwAt(odd, ecm))
                             /\ 1 - e.stays = Place(odd, ecm) - 1
<1>1. new \in -2..0 /\ e.cw = CwAt(odd, new) /\ e.stays = Place(odd, new) - 1
  BY DEF InStep, Oldest
<1>2. ASSUME ecm = new + 1
      PROVE  /\ e.cw # CwAt(odd, ecm)
             /\ Follows(e, CwAt(odd, ecm))
             /\ 1 - e.stays = Place(odd, ecm) - 1
  <2>1. new \in -2..-1
    BY <1>1, <1>2
  <2>2. Place(odd, ecm) = 3 - Place(odd, new) /\ Place(odd, new) \in {1, 2}
    BY <1>2, <2>1, PlacesAlternate
  <2>3. CwAt(odd, new)[Place(odd, new)] = new /\ CwAt(odd, new)[3 - Place(odd, new)] = new - 1
    BY <1>1, CwOfPlace
  <2>4. CwAt(odd, ecm)[Place(odd, ecm)] = ecm /\ CwAt(odd, ecm)[3 - Place(odd, ecm)] = ecm - 1
    BY CwOfPlace
  <2>5. e.stays + 1 = Place(odd, new)
    BY <1>1, <2>2
  <2>6. 3 - Place(odd, ecm) = Place(odd, new) /\ ecm - 1 = new
    BY <1>1, <1>2, <2>2
  <2>7. CwAt(odd, ecm)[Place(odd, new)] = new
    BY <2>4, <2>6
  <2>8. Follows(e, CwAt(odd, ecm))
    BY <1>1, <2>3, <2>5, <2>7 DEF Follows
  <2>9. CwAt(odd, ecm) # CwAt(odd, new)
    <3>1. CwAt(odd, ecm)[Place(odd, ecm)] = new + 1 /\ CwAt(odd, new)[Place(odd, ecm)] = new - 1
      BY <1>2, <2>2, <2>3, <2>4
    <3>2. new + 1 # new - 1
      BY <1>1
    <3> QED BY <3>1, <3>2
  <2> QED BY <1>1, <2>2, <2>8, <2>9
<1> QED BY <1>1, <1>2

\* Wrong CWs do not follow.
LEMMA WrongDoNotFollow ==
  ASSUME NEW e \in Entries, e.stays \in {0, 1}, e.cw \in RightPairs, NEW cw \in WrongPairs
  PROVE  ~Follows(e, cw) /\ cw # e.cw
<1>1. cw[1] > 0 /\ cw[2] > 0
  BY WrongHalves
<1>2. e.cw[1] <= 0 /\ e.cw[2] <= 0 /\ e.cw[1] \in Int /\ e.cw[2] \in Int
  BY DEF RightPairs, Halves
<1>3. cw[1] # e.cw[1] /\ cw[2] # e.cw[2]
  BY <1>1, <1>2, WrongHalves
<1>4. CASE e.stays = 0
  BY <1>3, <1>4 DEF Follows
<1>5. CASE e.stays = 1
  BY <1>3, <1>5 DEF Follows
<1> QED BY <1>3, <1>4, <1>5

\* Whether others must wait is decided by Timed alone.
LEMMA LockedTimed ==
  ASSUME NEW e \in Entries, NEW gap \in Int
  PROVE  Timed(e, gap).locked = (e.stage # 3)
<1>1. CASE e.stage = 3
  BY <1>1 DEF Timed, Entries
<1>2. CASE e.stage # 3
  BY <1>2 DEF Timed, Entries
<1> QED BY <1>1, <1>2

LEMMA LockedUpdated ==
  ASSUME NEW e \in Entries, NEW ecm, NEW cw, NEW ago
  PROVE  Updated(e, ecm, cw, ago).locked = e.locked
  BY DEF Updated, Entries

LEMMA LockedAged ==
  ASSUME NEW e \in Entries, NEW gap \in Int
  PROVE  /\ Aged(e, gap).locked = e.locked
         /\ Aged(e, gap).cw \in {NoCw, e.cw}
         /\ e.stage # 3 => Aged(e, gap) = e
  BY DEF Aged, Entries

\* Stage 3 is reached only by learning which half stays.
LEMMA LearnedStays ==
  ASSUME NEW e \in Entries, e.stage # 3, NEW cw, NEW gap \in Int, Learn(e, cw, gap).stage = 3
  PROVE  Stays(e, cw) # Unknown /\ Learn(e, cw, gap).stays = Stays(e, cw)
<1>1. e.stage \in {0, 1, 2, 4}
  BY DEF Entries
<1>2. CASE e.stage = 0
  BY <1>2 DEF Learn, Entries
<1>3. CASE e.stage = 1
  BY <1>3 DEF Learn, Entries
<1>4. CASE e.stage = 2
  BY <1>4 DEF Learn, Entries
<1>5. CASE e.stage = 4
  BY <1>5 DEF Learn, Entries
<1> QED BY <1>1, <1>2, <1>3, <1>4, <1>5

\* CWs up to an ECM share no half with a right one, or are right.
LEMMA UpToPure ==
  ASSUME NEW odd \in BOOLEAN, NEW new \in Oldest..0
  PROVE  CwsUpTo(odd, new) \subseteq PurePairs
<1>1. \A n \in -2..0 : CwAt(odd, n) \in RightPairs
  BY DEF CwAt, RightPairs, Halves
<1>2. NoCw \in RightPairs /\ OldCw \in RightPairs
  BY DEF NoCw, OldCw, Oldest, RightPairs, Halves
<1> QED BY <1>1, <1>2 DEF CwsUpTo, PurePairs

\* The CW of a check, and the newest ECM after it: the right CWs come in order.
InOrder(ecm, cw, new) ==
  /\ cw = CwAt(Odd, ecm) => ecm \in newest..newest + 1
  /\ new = IF cw = CwAt(Odd, ecm) /\ ecm > newest THEN ecm ELSE newest

LEMMA InOrderCws ==
  ASSUME Bounds, NEW ecm \in {0, -1}, NEW cw \in Cws(ecm), ~Mixed(ecm, cw),
         NEW new, InOrder(ecm, cw, new)
  PROVE  /\ cw \in Pairs /\ cw \in PurePairs
         /\ new \in Oldest..0 /\ newest <= new
         /\ cw \in CwsUpTo(Odd, new)
         /\ \/ cw \in WrongPairs /\ cw # CwAt(Odd, ecm) /\ new = newest
            \/ cw = CwAt(Odd, ecm) /\ new = ecm /\ ecm \in newest..newest + 1
<1>1. cw \in Pairs /\ cw \in PurePairs
  BY CwsArePairs
<1>2. newest \in Oldest..0 /\ Odd \in BOOLEAN /\ ecm \in -2..0
  BY DEF Bounds, Odd
<1>3. CASE cw = CwAt(Odd, ecm)
  <2>1. ecm \in newest..newest + 1 /\ new = IF ecm > newest THEN ecm ELSE newest
    BY <1>3 DEF InOrder
  <2>2. new = ecm /\ new \in Oldest..0 /\ newest <= new
    BY <1>2, <2>1 DEF Oldest
  <2>3. cw \in CwsUpTo(Odd, new)
    BY <1>2, <1>3, <2>2 DEF CwsUpTo
  <2> QED BY <1>1, <1>3, <2>1, <2>2, <2>3
<1>4. CASE cw # CwAt(Odd, ecm)
  <2>1. cw \in WrongPairs
    BY <1>4, RightCwAt DEF Mixed, WrongPairs
  <2>2. new = newest
    BY <1>4 DEF InOrder
  <2> QED BY <1>1, <1>2, <1>4, <2>1, <2>2 DEF CwsUpTo, Oldest
<1> QED BY <1>3, <1>4

\* What a check puts back fits; if it puts back nothing, the entry still does.
LEMMA PutFits ==
  ASSUME Bounds, NEW e \in Entries, Trusted(e), Fits(e, Odd, newest), e # None,
         NEW ecm \in {0, -1}, NEW cw \in Cws(ecm), NEW ago \in Int, NEW fixed \in BOOLEAN,
         NEW like \in BOOLEAN, ~Mixed(ecm, cw), cw = CwAt(Odd, ecm) => ~(Sensitive /\ like),
         NEW new, InOrder(ecm, cw, new)
  PROVE  LET put == Verdict(e, ecm, cw, ago, fixed, like).entry
         IN Fits(IF put = None THEN e ELSE put, Odd, new)
<1> DEFINE gap == Gap(e, ago)
           put == Verdict(e, ecm, cw, ago, fixed, like).entry
<1>1. /\ cw \in Pairs /\ cw \in PurePairs
      /\ new \in Oldest..0 /\ newest <= new
      /\ cw \in CwsUpTo(Odd, new)
      /\ \/ cw \in WrongPairs /\ cw # CwAt(Odd, ecm) /\ new = newest
         \/ cw = CwAt(Odd, ecm) /\ new = ecm /\ ecm \in newest..newest + 1
  BY InOrderCws
<1>2. newest \in Oldest..0 /\ Odd \in BOOLEAN /\ ecm \in Int
  BY DEF Bounds, Odd
<1>3. e.cw \in CwsUpTo(Odd, new)
  BY <1>1, <1>2, UpToMore DEF Fits
<1>4. gap \in Int
  BY DEF Gap, Entries
<1>5. CASE Window(e, gap)
  <2>1. e.stage = 3 /\ InStep(e, Odd, newest) /\ e.cw \in RightPairs /\ e.stays \in {0, 1}
    BY <1>5 DEF Window, Fits, Trusted
  <2>2. put = Compare(e, ecm, cw, ago, fixed, like).entry
    BY <1>5 DEF Verdict
  <2>3. CASE cw \in WrongPairs /\ new = newest
    <3>1. ~Follows(e, cw) /\ cw # e.cw
      BY <2>1, <2>3, WrongDoNotFollow
    <3> DEFINE f == [[e EXCEPT !.stage = 4] EXCEPT !.stays = Unknown]
    <3>2. put \in {None, Updated(f, ecm, cw, ago)}
      BY <2>2, <3>1 DEF Compare, Result, Passes
    <3>3. f \in Entries /\ f.stage = 4
      <4>1. [e EXCEPT !.stage = 4] \in Entries /\ [e EXCEPT !.stage = 4].stage = 4
        <5>1. 4 \in 0..4
          OBVIOUS
        <5> QED BY <5>1, StageSet
      <4> QED BY <4>1, StaysSet
    <3> HIDE DEF f
    <3>4. Updated(f, ecm, cw, ago).stage = 4 /\ Updated(f, ecm, cw, ago).cw = cw
      BY <1>1, <1>2, <3>3, UpdatedKept
    <3> HIDE DEF put
    <3>5. CASE put = None
      BY <2>3, <3>5 DEF put
    <3>6. CASE put # None
      BY <1>1, <3>2, <3>4, <3>6 DEF Fits, put
    <3> QED BY <3>5, <3>6
  <2>4. CASE cw = CwAt(Odd, ecm) /\ new = ecm /\ ecm \in newest..newest + 1
    <3>1. CASE ecm = newest
      <4>1. e.cw = cw
        BY <1>2, <2>1, <2>4, <3>1, RightFollows
      <4>2. put = None
        BY <2>2, <4>1 DEF Compare, Result
      <4> QED BY <2>4, <3>1, <4>2
    <3>2. CASE ecm = newest + 1
      <4>1. e.cw # cw /\ Follows(e, cw) /\ 1 - e.stays = Place(Odd, ecm) - 1
        BY <1>2, <2>1, <2>4, <3>2, RightFollows
      <4> DEFINE f == [e EXCEPT !.stays = 1 - e.stays]
                 g == Timed(f, gap)
                 h == Updated(g, ecm, cw, ago)
      <4>2. put = h
        BY <2>2, <2>4, <4>1 DEF Compare, Result, Passes
      <4>3. f \in Entries /\ f.stage = 3 /\ f.stays = Place(Odd, ecm) - 1
        <5>1. 1 - e.stays \in {0, 1, Unknown}
          BY <2>1
        <5> QED BY <2>1, <4>1, <5>1, StaysSet
      <4> HIDE DEF f
      <4>4. /\ g \in Entries /\ g.stage = 3 /\ g.stays = Place(Odd, ecm) - 1
            /\ ~g.locked
        BY <1>4, <4>3, TimedKept, LockedTimed
      <4> HIDE DEF g
      <4>5. h \in Entries /\ h.cw = cw /\ h.stays = Place(Odd, ecm) - 1
        <5>1. g \in Entries /\ ecm \in Int /\ cw \in Pairs
          BY <1>1, <1>2, <4>4
        <5>2. h \in Entries /\ h.cw = cw /\ h.stays = g.stays
          BY ONLY <5>1, ago \in Int, UpdatedKept DEF h
        <5> QED BY <4>4, <5>2
      <4>6. ~h.locked
        BY <4>4, LockedUpdated
      <4> HIDE DEF h, put
      <4>7. Fits(h, Odd, new)
        <5>1. CwAt(Odd, ecm) \in RightPairs
          BY <1>2 DEF CwAt, RightPairs, Halves
        <5> QED BY <1>1, <2>4, <4>5, <4>6, <5>1 DEF Fits, InStep
      <4>8. h # None
        BY <4>5 DEF None, Entries
      <4> QED BY <4>2, <4>7, <4>8 DEF put
    <3> QED BY <1>2, <2>4, <3>1, <3>2
  <2> QED BY <1>1, <2>3, <2>4
<1>6. CASE ~Window(e, gap)
  <2> DEFINE f == Aged(e, gap)
             g == Learn(f, cw, gap)
             h == Timed(g, gap)
             i == Updated(h, ecm, cw, ago)
  <2>1. put = IF Locked(f, gap) THEN None ELSE i
    BY <1>6 DEF Verdict, Result
  <2>2. /\ f \in Entries /\ f.stage # 3
        /\ f.locked = e.locked /\ f.cw \in {NoCw, e.cw}
    BY <1>4, AgedIsKept, LockedAged
  <2>3. f.cw \in CwsUpTo(Odd, newest) /\ f.cw \in PurePairs
    <3>1. f.cw \in CwsUpTo(Odd, newest)
      BY <2>2 DEF CwsUpTo, Fits
    <3> QED BY <1>2, <3>1, UpToPure
  <2>4. ASSUME Locked(f, gap) PROVE e.stage # 3
    <3>1. f.locked
      BY <2>4 DEF Locked
    <3> QED BY <2>2, <3>1 DEF Fits, InStep
  <2> HIDE DEF f
  <2>5. g \in Entries /\ (g.stage = 3 => g.stays \in {0, 1} /\ cw \in RightPairs)
    BY <1>1, <1>4, <2>2, <2>3, Learned
  <2>6. g.stage = 3 => Stays(f, cw) # Unknown /\ g.stays = Stays(f, cw)
    BY <1>4, <2>2, LearnedStays
  <2> HIDE DEF g
  <2>7. /\ h \in Entries /\ h.stage = g.stage /\ h.stays = g.stays
        /\ h.locked = (g.stage # 3)
    BY <1>4, <2>5, TimedKept, LockedTimed
  <2> HIDE DEF h
  <2>8. i \in Entries /\ i.stage = h.stage /\ i.stays = h.stays /\ i.cw = cw
    <3>1. h \in Entries /\ ecm \in Int /\ cw \in Pairs
      BY <1>1, <1>2, <2>7
    <3> QED BY ONLY <3>1, ago \in Int, UpdatedKept DEF i
  <2>9. i.locked = h.locked
    BY <2>7, LockedUpdated
  <2> HIDE DEF i, put
  <2>10. ASSUME i.stage = 3 PROVE InStep(i, Odd, new) /\ i.cw \in RightPairs
    <3>1. g.stage = 3
      BY <2>7, <2>8, <2>10
    <3>2. cw \in RightPairs /\ Stays(f, cw) # Unknown /\ g.stays = Stays(f, cw)
      BY <2>5, <2>6, <3>1
    <3>3. cw = CwAt(Odd, ecm) /\ new = ecm /\ ecm \in newest..newest + 1
      <4>1. cw[1] <= 0 /\ cw[1] \in Int
        BY <3>2 DEF RightPairs, Halves
      <4>2. cw \notin WrongPairs
        BY <4>1, WrongHalves
      <4> QED BY <1>1, <4>2
    <3>4. newest <= ecm
      BY <1>2, <3>3
    <3>5. Stays(f, cw) = Place(Odd, ecm) - 1
      BY <1>2, <2>3, <3>2, <3>3, <3>4, LearnsPlace
    <3>6. ~i.locked
      BY <2>7, <2>9, <3>1
    <3> QED BY <2>7, <2>8, <3>2, <3>3, <3>5, <3>6 DEF InStep
  <2>11. Fits(i, Odd, new)
    BY <1>1, <2>8, <2>10 DEF Fits
  <2>12. CASE Locked(f, gap)
    <3>1. put = None /\ e.stage # 3
      BY <2>1, <2>4, <2>12
    <3> QED BY <1>3, <3>1 DEF put, Fits
  <2>13. CASE ~Locked(f, gap)
    <3>1. put = i
      BY <2>1, <2>13
    <3>2. CASE put = None
      <4>1. i = None
        BY <3>1, <3>2
      <4>2. None \notin Entries
        BY DEF None, Entries
      <4> QED BY <2>8, <4>1, <4>2
    <3>3. CASE put # None
      BY <2>11, <3>1, <3>3 DEF put
    <3> QED BY <3>2, <3>3
  <2> QED BY <2>12, <2>13
<1> QED BY <1>5, <1>6

\* When an ECM comes the places change and the halves grow older; otherwise nothing does.
LEMMA Wrap ==
  ASSUME NEW p \in Nat \ {0}, NEW x \in 0..2 * p - 1
  PROVE  /\ (x + 1) % (2 * p) = IF x + 1 = 2 * p THEN 0 ELSE x + 1
         /\ (x + 1) % p = 0 <=> (x + 1 = p \/ x + 1 = 2 * p)
  OBVIOUS

EcmComes == (phase + 1) % Period = 0

LEMMA TickMoves ==
  ASSUME Bounds, Tick
  PROVE  /\ Bounds' /\ Odd \in BOOLEAN
         /\ EcmComes => /\ Odd' = ~Odd
                        /\ \A n \in Int : NextEcm(n) = IF n \in -2..0 THEN n - 1 ELSE n
         /\ ~EcmComes => Odd' = Odd /\ \A n \in Int : NextEcm(n) = n
<1>1. Period \in Nat \ {0} /\ phase \in 0..2 * Period - 1 /\ newest \in Oldest..0
  BY CycleAssumption DEF Bounds
<1>2. phase' = IF phase + 1 = 2 * Period THEN 0 ELSE phase + 1
  BY <1>1, Wrap DEF Tick
<1>3. EcmComes <=> (phase + 1 = Period \/ phase + 1 = 2 * Period)
  BY <1>1, Wrap DEF EcmComes
<1>4. phase' \in 0..2 * Period - 1
  BY <1>1, <1>2
<1>5. \A n \in Int : NextEcm(n) = IF EcmComes /\ n \in -2..0 THEN n - 1 ELSE n
  BY DEF NextEcm, EcmComes, Oldest
<1>6. newest' \in Oldest..0
  <2>1. newest' = NextEcm(newest) /\ newest \in Int
    BY <1>1 DEF Tick, Oldest
  <2> QED BY <1>1, <1>5, <2>1 DEF Oldest
<1>7. (Odd' <=> phase' >= Period) /\ (Odd <=> phase >= Period)
  BY DEF Odd
<1>8. EcmComes => (phase' >= Period <=> ~(phase >= Period))
  BY <1>1, <1>2, <1>3
<1>9. ~EcmComes => (phase' >= Period <=> phase >= Period)
  BY <1>1, <1>2, <1>3
<1>10. Odd \in BOOLEAN /\ Odd' \in BOOLEAN
  BY DEF Odd
<1>11. EcmComes => Odd' = ~Odd
  BY <1>7, <1>8, <1>10
<1>12. ~EcmComes => Odd' = Odd
  BY <1>7, <1>9, <1>10
<1> QED BY <1>4, <1>5, <1>6, <1>10, <1>11, <1>12 DEF Bounds

LEMMA LaterEntry ==
  ASSUME NEW e \in Entries
  PROVE  LET f == Later(e)
         IN /\ f.stage = e.stage /\ f.locked = e.locked /\ f.stays = e.stays
            /\ f.cw = <<NextEcm(e.cw[1]), NextEcm(e.cw[2])>>
<1>1. e # None
  BY DEF None, Entries
<1> QED BY <1>1 DEF Later, Entries

\* A CW of an ECM grows older with it.
LEMMA LaterCw ==
  ASSUME NEW odd \in BOOLEAN, NEW n \in -2..0
  PROVE  LET cw == CwAt(odd, n)
             older(k) == IF k \in -2..0 THEN k - 1 ELSE k
             later == <<older(cw[1]), older(cw[2])>>
         IN /\ n > -2 => later = CwAt(~odd, n - 1) /\ Place(~odd, n - 1) = Place(odd, n)
            /\ n = -2 => later = OldCw
<1> DEFINE cw == CwAt(odd, n)
           older(k) == IF k \in -2..0 THEN k - 1 ELSE k
           later == <<older(cw[1]), older(cw[2])>>
<1>1. /\ Place(odd, n) \in {1, 2}
      /\ cw[Place(odd, n)] = n /\ cw[3 - Place(odd, n)] = n - 1
  BY CwOfPlace
<1>2. CASE n = -2
  BY <1>1, <1>2 DEF OldCw, Oldest
<1>3. CASE n > -2
  <2>1. n - 1 \in -2..-1 /\ (n - 1) + 1 = n
    BY <1>3
  <2>2. Place(~odd, n - 1) = Place(odd, n)
    BY <2>1, PlacesAlternate
  <2>3. CASE Place(odd, n) = 2
    <3>1. CwAt(~odd, n - 1) = <<n - 2, n - 1>> /\ cw = <<n - 1, n>>
      BY <2>1, <2>2, <2>3 DEF CwAt
    <3> QED BY <1>3, <2>1, <2>2, <3>1
  <2>4. CASE Place(odd, n) = 1
    <3>1. CwAt(~odd, n - 1) = <<n - 1, n - 2>> /\ cw = <<n, n - 1>>
      BY <2>1, <2>2, <2>4 DEF CwAt
    <3> QED BY <1>3, <2>1, <2>2, <3>1
  <2> QED BY <1>1, <1>3, <2>3, <2>4
<1> QED BY <1>2, <1>3

LEMMA LaterFits ==
  ASSUME Bounds, Tick, NEW e \in Entries \cup {None}, Fits(e, Odd, newest)
  PROVE  Fits(Later(e), Odd', newest')
<1>1. CASE e = None
  BY <1>1 DEF Later, Fits
<1>2. CASE e # None
  <2> DEFINE f == Later(e)
  <2>1. e \in Entries /\ e.cw \in CwsUpTo(Odd, newest) /\ (e.stage = 3 => InStep(e, Odd, newest))
        /\ (e.stage = 3 => e.cw \in RightPairs)
    BY <1>2 DEF Fits
  <2>2. /\ f.stage = e.stage /\ f.locked = e.locked /\ f.stays = e.stays
        /\ f.cw = <<NextEcm(e.cw[1]), NextEcm(e.cw[2])>>
    BY <2>1, LaterEntry
  <2> HIDE DEF f
  <2>r. f.stage = 3 => f.cw \in RightPairs
    <3>1. \A n \in Halves : NextEcm(n) \in Halves
      BY DEF NextEcm, Halves
    <3> QED BY <2>1, <2>2, <3>1 DEF RightPairs
  <2>3. Bounds' /\ Odd \in BOOLEAN /\ newest' = NextEcm(newest) /\ newest \in Oldest..0
    BY TickMoves DEF Tick, Bounds
  <2>4. ASSUME e.cw \notin {CwAt(Odd, n) : n \in -2..0} PROVE f.cw = e.cw
    <3>1. CASE e.cw \in WrongPairs
      <4>1. PICK w \in WrongCws : e.cw = <<w, w>>
        BY <3>1 DEF WrongPairs, WrongCw
      <4>2. w \in Nat \ {0}
        BY CycleAssumption
      <4>3. NextEcm(w) = w
        BY <4>2 DEF NextEcm, Oldest
      <4> QED BY <2>2, <4>1, <4>3
    <3>2. CASE e.cw \in {NoCw, OldCw}
      <4>1. NextEcm(-4) = -4 /\ NextEcm(-3) = -3
        BY DEF NextEcm, Oldest
      <4>2. e.cw \in {<<-4, -4>>, <<-3, -3>>}
        BY <3>2 DEF NoCw, OldCw, Oldest
      <4> QED BY <2>2, <4>1, <4>2
    <3> QED BY <2>1, <2>4, <3>1, <3>2 DEF CwsUpTo
  <2>5. CASE e.cw \notin {CwAt(Odd, n) : n \in -2..0}
    <3>1. f.cw \in WrongPairs \cup {NoCw, OldCw}
      BY <2>1, <2>4, <2>5 DEF CwsUpTo
    <3>2. e.stage = 3 => newest = -3
      BY <2>1, <2>3, <2>5 DEF InStep, Oldest
    <3>3. e.stage = 3 => newest' = -3
      BY <2>3, <3>2 DEF NextEcm, Oldest
    <3>4. f.cw \in CwsUpTo(Odd', newest')
      BY <3>1 DEF CwsUpTo
    <3>5. f.stage = 3 => InStep(f, Odd', newest')
      BY <2>1, <2>2, <3>3 DEF InStep
    <3> QED BY <2>r, <3>4, <3>5 DEF Fits, f
  <2>6. ASSUME NEW n \in -2..0, n <= newest, e.cw = CwAt(Odd, n) PROVE Fits(f, Odd', newest')
    <3>0. /\ e.cw[1] \in Int /\ e.cw[2] \in Int /\ n \in Int /\ newest \in Int
          /\ e.cw = <<e.cw[1], e.cw[2]>>
      BY <2>3, <2>6, CwOfPlace DEF CwAt, Oldest
    <3>1. CASE EcmComes
      <4>1. Odd' = ~Odd /\ newest' = IF newest \in -2..0 THEN newest - 1 ELSE newest
        BY <2>3, <3>0, <3>1, TickMoves
      <4>2. f.cw = <<IF e.cw[1] \in -2..0 THEN e.cw[1] - 1 ELSE e.cw[1],
                     IF e.cw[2] \in -2..0 THEN e.cw[2] - 1 ELSE e.cw[2]>>
        BY <2>2, <3>0, <3>1, TickMoves
      <4>3. /\ n > -2 => f.cw = CwAt(~Odd, n - 1) /\ Place(~Odd, n - 1) = Place(Odd, n)
            /\ n = -2 => f.cw = OldCw
        BY <2>3, <2>6, <4>2, LaterCw
      <4>4. newest' = newest - 1
        BY <2>6, <2>3, <4>1 DEF Oldest
      <4>5. f.cw \in CwsUpTo(Odd', newest')
        <5>1. CASE n > -2
          <6>1. n - 1 \in {k \in -2..0 : k <= newest'}
            BY <2>6, <2>3, <4>4, <5>1 DEF Oldest
          <6> QED BY <4>1, <4>3, <5>1, <6>1 DEF CwsUpTo
        <5>2. CASE n = -2
          BY <4>3, <5>2 DEF CwsUpTo
        <5> QED BY <5>1, <5>2
      <4>6. ASSUME f.stage = 3, newest' >= -2
            PROVE  f.cw = CwAt(Odd', newest') /\ f.stays = Place(Odd', newest') - 1
        <5>1. newest \in -1..0
          BY <2>3, <4>4, <4>6 DEF Oldest
        <5>2. e.cw = CwAt(Odd, newest) /\ e.stays = Place(Odd, newest) - 1
          BY <2>1, <2>2, <4>6, <5>1 DEF InStep
        <5>3. f.cw = CwAt(~Odd, newest - 1) /\ Place(~Odd, newest - 1) = Place(Odd, newest)
          BY <2>3, <4>2, <5>1, <5>2, LaterCw
        <5> QED BY <2>2, <4>1, <4>4, <5>2, <5>3
      <4> QED BY <2>r, <2>1, <2>2, <4>5, <4>6 DEF Fits, InStep
    <3>2. CASE ~EcmComes
      <4>1. Odd' = Odd /\ newest' = newest /\ f.cw = e.cw
        BY <2>2, <2>3, <3>0, <3>2, TickMoves
      <4> QED BY <2>r, <2>1, <2>2, <4>1 DEF Fits, InStep
    <3> QED BY <3>1, <3>2
  <2>7. CASE e.cw \in {CwAt(Odd, n) : n \in -2..0}
    <3>1. e.cw \in {CwAt(Odd, n) : n \in {k \in -2..0 : k <= newest}}
      <4>1. PICK n \in -2..0 : e.cw = CwAt(Odd, n)
        BY <2>7
      <4>2. CwAt(Odd, n)[1] <= 0 /\ CwAt(Odd, n)[1] \in Int
        BY DEF CwAt
      <4>3. e.cw \notin WrongPairs
        BY <4>1, <4>2, WrongHalves
      <4>4. e.cw # NoCw /\ e.cw # OldCw
        <5>1. \/ CwAt(Odd, n)[1] \in -2..0 
              \/ CwAt(Odd, n)[2] \in -2..0
          BY DEF CwAt
        <5>2. NoCw[1] = -4 /\ NoCw[2] = -4 /\ OldCw[1] = -3 /\ OldCw[2] = -3
          BY DEF NoCw, OldCw, Oldest
        <5> QED BY <4>1, <5>1, <5>2
      <4> QED BY <2>1, <4>3, <4>4 DEF CwsUpTo
    <3>2. PICK n \in {k \in -2..0 : k <= newest} : e.cw = CwAt(Odd, n)
      BY <3>1
    <3> QED BY <2>6, <3>2 DEF f
  <2> QED BY <2>5, <2>7
<1> QED BY <1>1, <1>2

LEMMA InTurnInit == CycleInit => InTurn
<1> SUFFICES ASSUME CycleInit PROVE InTurn
  OBVIOUS
<1>1. AllKept
  BY AllKeptInit
<1>2. phase = 0 /\ newest = -1 /\ broken = FALSE /\ entry = None /\ \A t \in Checkers : pending[t] = None
  BY DEF CycleInit
<1>3. Bounds
  BY <1>2, CycleAssumption DEF Bounds, Oldest
<1>4. Chained
  BY <1>2 DEF Chained, Fits
<1> QED BY <1>1, <1>2, <1>3, <1>4 DEF InTurn

LEMMA CheckInTurn ==
  ASSUME InTurn, NEW t \in Checkers, NEW ago \in 0..Delay, NEW cw \in Cws(EcmOf(ago)),
         NEW fixed \in BOOLEAN, NEW like \in BOOLEAN, Check(t, ago, cw, fixed, like)
  PROVE  Bounds' /\ broken' \in BOOLEAN /\ Chained'
<1> DEFINE ecm == EcmOf(ago)
           put == IF entry = None THEN NewEntry(ecm, cw, ago)
                  ELSE Verdict(entry, ecm, cw, ago, fixed, like).entry
<1>1. ecm \in {0, -1} /\ ago \in Int /\ cw \in Cws(ecm)
  BY CycleAssumption DEF EcmOf
<1>2. RightCw(ecm) = CwAt(Odd, ecm) /\ cw \in Pairs
  BY <1>1, RightCwAt, CwsArePairs
<1> HIDE DEF ecm
<1>3. /\ pending[t] = None
      /\ pending' = [pending EXCEPT ![t] = put]
      /\ newest' = IF entry = None \/ (cw = CwAt(Odd, ecm) /\ ecm > newest) THEN ecm ELSE newest
      /\ UNCHANGED <<phase, entry>>
  BY <1>2 DEF Check, ecm
<1>4. broken' = \/ entry # None /\ broken
                \/ /\ entry # None /\ cw = CwAt(Odd, ecm)
                   /\ ecm \notin newest..newest + 1 \/ (Sensitive /\ like)
                \/ \E u \in Checkers : pending[u] # None
                \/ Mixed(ecm, cw) /\ put # None
  BY <1>2 DEF Check, ecm
<1> HIDE DEF put
<1>5. Bounds /\ newest \in Oldest..0 /\ AllKept /\ Odd' = Odd
  BY <1>3 DEF InTurn, Bounds, Odd
<1>6. Bounds' /\ broken' \in BOOLEAN
  <2>1. ecm \in Oldest..0
    BY <1>1 DEF Oldest
  <2>2. broken' \in BOOLEAN
    BY <1>4, Zenon DEF InTurn
  <2> QED BY <1>3, <1>5, <2>1, <2>2 DEF Bounds
<1>7. ASSUME ~broken' PROVE /\ \A u \in Checkers : pending[u] = None
                            /\ entry # None => ~broken /\ InOrder(ecm, cw, newest')
                            /\ entry # None /\ cw = CwAt(Odd, ecm) => ~(Sensitive /\ like)
                            /\ Mixed(ecm, cw) => put = None
  <2>1. \A u \in Checkers : pending[u] = None
    BY <1>4, <1>7, Zenon
  <2>2. /\ entry # None => ~broken /\ (cw = CwAt(Odd, ecm) => ecm \in newest..newest + 1)
        /\ entry # None /\ cw = CwAt(Odd, ecm) => ~(Sensitive /\ like)
        /\ Mixed(ecm, cw) => put = None
    BY <1>4, <1>7, Zenon
  <2> QED BY <1>3, <2>1, <2>2 DEF InOrder
<1>8. ASSUME ~broken'
      PROVE  /\ put # None => Fits(put, Odd, newest')
             /\ put = None => Fits(entry, Odd, newest')
  <2>1. CASE entry = None
    <3>1. put = NewEntry(ecm, cw, ago) /\ newest' = ecm
      BY <1>3, <2>1 DEF put
    <3>2. put.stage = 0 /\ put.cw = cw
      BY <3>1 DEF NewEntry
    <3>3. cw \in CwsUpTo(Odd, ecm)
      <4>1. cw \in WrongPairs \cup {CwAt(Odd, ecm)}
        <5>1. put # None
          BY <3>2 DEF None
        <5> QED BY <1>2, <1>7, <1>8, <5>1 DEF Mixed, WrongPairs
      <4>2. ecm \in {k \in -2..0 : k <= ecm}
        BY <1>1
      <4> QED BY <4>1, <4>2 DEF CwsUpTo
    <3> QED BY <2>1, <3>1, <3>2, <3>3 DEF Fits
  <2>2. CASE entry # None
    <3>1. /\ ~broken /\ InOrder(ecm, cw, newest') /\ \A u \in Checkers : pending[u] = None
          /\ cw = CwAt(Odd, ecm) => ~(Sensitive /\ like)
          /\ Mixed(ecm, cw) => put = None
      BY <1>7, <1>8, <2>2
    <3>2. Fits(entry, Odd, newest)
      BY <3>1 DEF InTurn, Chained
    <3>3. entry \in Entries /\ Trusted(entry)
      BY <1>5, <2>2 DEF AllKept, Kept
    <3>4. put = Verdict(entry, ecm, cw, ago, fixed, like).entry
      BY <2>2 DEF put
    <3>5. CASE Mixed(ecm, cw)
      <4>1. cw # CwAt(Odd, ecm)
        BY <1>2, <3>5 DEF Mixed
      <4>2. put = None /\ newest' = newest
        BY <1>3, <2>2, <3>1, <3>5, <4>1
      <4> QED BY <3>2, <4>2
    <3>6. CASE ~Mixed(ecm, cw)
      <4>1. Fits(IF put = None THEN entry ELSE put, Odd, newest')
        BY <1>1, <1>5, <2>2, <3>1, <3>2, <3>3, <3>4, <3>6, PutFits
      <4> QED BY <4>1
    <3> QED BY <3>5, <3>6
  <2> QED BY <2>1, <2>2
<1>9. Chained'
  <2> SUFFICES ASSUME ~broken'
               PROVE  /\ \A v, u \in Checkers : pending'[v] # None /\ pending'[u] # None => v = u
                      /\ IF \E v \in Checkers : pending'[v] # None
                         THEN \A v \in Checkers : Fits(pending'[v], Odd', newest')
                         ELSE Fits(entry', Odd', newest')
    BY DEF Chained
  <2>1. pending'[t] = put /\ \A u \in Checkers \ {t} : pending'[u] = None
    BY <1>3, <1>5, <1>7 DEF AllKept
  <2>2. Fits(None, Odd', newest')
    BY DEF Fits
  <2>3. CASE put = None
    BY <1>3, <1>5, <1>8, <2>1, <2>3
  <2>4. CASE put # None
    BY <1>5, <1>8, <2>1, <2>2, <2>4
  <2> QED BY <2>3, <2>4
<1> QED BY <1>6, <1>9

LEMMA InTurnInductive == InTurn /\ [CycleNext]_cycleVars => InTurn'
<1> SUFFICES ASSUME InTurn, [CycleNext]_cycleVars PROVE Bounds' /\ broken' \in BOOLEAN /\ Chained'
  BY AllKeptInductive DEF InTurn
<1>0. /\ Bounds /\ Chained /\ broken \in BOOLEAN /\ AllKept
      /\ entry \in Entries \cup {None} /\ pending \in [Checkers -> Entries \cup {None}]
  BY DEF InTurn, AllKept, Kept
<1>1. ASSUME NEW t \in Checkers, NEW ago \in 0..Delay, NEW cw \in Cws(EcmOf(ago)),
             NEW fixed \in BOOLEAN, NEW like \in BOOLEAN, Check(t, ago, cw, fixed, like)
      PROVE  Bounds' /\ broken' \in BOOLEAN /\ Chained'
  BY <1>1, CheckInTurn
<1>2. ASSUME NEW t \in Checkers, Insert(t)
      PROVE  Bounds' /\ broken' \in BOOLEAN /\ Chained'
  <2>1. /\ pending[t] # None /\ entry' = pending[t]
        /\ pending'[t] = None /\ \A u \in Checkers \ {t} : pending'[u] = pending[u]
        /\ UNCHANGED <<phase, newest, broken>> /\ Odd' = Odd
    BY <1>0, <1>2 DEF Insert, Odd
  <2>2. ASSUME ~broken
        PROVE  Fits(pending[t], Odd, newest) /\ \A u \in Checkers : pending'[u] = None
    BY <1>0, <2>1, <2>2 DEF Chained
  <2> QED BY <1>0, <2>1, <2>2 DEF Bounds, Chained
<1>3. CASE Cleanup
  <2>1. entry' = None /\ UNCHANGED <<phase, pending, newest, broken>> /\ Odd' = Odd
    BY <1>3 DEF Cleanup, Odd
  <2>2. Fits(None, Odd, newest)
    BY DEF Fits
  <2> QED BY <1>0, <2>1, <2>2 DEF Bounds, Chained
<1>4. CASE Tick
  <2>1. /\ Bounds' /\ broken' = broken
        /\ entry' = Later(entry) /\ pending' = [t \in Checkers |-> Later(pending[t])]
    BY <1>0, <1>4, TickMoves DEF Tick
  <2>2. \A t \in Checkers : pending[t] = None => pending'[t] = None
    <3>1. Later(None) = None
      BY DEF Later
    <3>2. \A t \in Checkers : pending'[t] = Later(pending[t])
      BY <2>1, Zenon
    <3> QED BY <3>1, <3>2
  <2>3. ASSUME NEW e \in Entries \cup {None}, Fits(e, Odd, newest)
        PROVE  Fits(Later(e), Odd', newest')
    BY <1>0, <1>4, <2>3, LaterFits
  <2>4. ASSUME NEW e \in Entries PROVE Later(e) # None
    <3>1. Later(e).stage = e.stage
      BY LaterEntry
    <3>2. e.stage # -1 /\ None.stage = -1
      BY DEF Entries, None
    <3> QED BY <3>1, <3>2
  <2>5. \A t \in Checkers : pending[t] # None => pending'[t] # None
    BY <1>0, <2>1, <2>4
  <2>6. CASE broken
    BY <2>1, <2>6, <1>0 DEF Chained
  <2>7. CASE ~broken
    <3>1. CASE \E t \in Checkers : pending[t] # None
      <4>1. \A t \in Checkers : Fits(pending[t], Odd, newest)
        BY <1>0, <2>7, <3>1 DEF Chained
      <4>2. \A t \in Checkers : Fits(pending'[t], Odd', newest')
        BY <1>0, <2>1, <2>3, <4>1
      <4>3. \A t, u \in Checkers : pending'[t] # None /\ pending'[u] # None => t = u
        BY <1>0, <2>2, <2>7 DEF Chained
      <4>4. \E t \in Checkers : pending'[t] # None
        BY <2>5, <3>1
      <4> QED BY <1>0, <2>1, <4>2, <4>3, <4>4 DEF Chained
    <3>2. CASE \A t \in Checkers : pending[t] = None
      <4>1. Fits(entry, Odd, newest)
        BY <1>0, <2>7, <3>2 DEF Chained
      <4>2. Fits(entry', Odd', newest')
        BY <1>0, <2>1, <2>3, <4>1
      <4>3. \A t \in Checkers : pending'[t] = None
        BY <2>2, <3>2
      <4> QED BY <1>0, <2>1, <4>2, <4>3 DEF Chained
    <3> QED BY <3>1, <3>2
  <2> QED BY <1>0, <2>1, <2>6, <2>7
<1>5. CASE UNCHANGED cycleVars
  BY <1>0, <1>5 DEF cycleVars, Bounds, Chained, Fits, InStep, CwsUpTo, Odd
<1> QED BY <1>1, <1>2, <1>3, <1>4, <1>5, AskedTyped DEF CycleNext

\* A right CW that comes in its turn is known or follows; it is never a bad cycle.
LEMMA InTurnPasses == InTurn => RightOnesPass
<1> SUFFICES ASSUME InTurn, entry # None, ~broken, \A t \in Checkers : pending[t] = None,
                    NEW ago \in 0..Delay, EcmOf(ago) \in newest..newest + 1
             PROVE  Verdict(entry, EcmOf(ago), RightCw(EcmOf(ago)), ago, FALSE, FALSE).verdict # "bad"
  BY DEF RightOnesPass
<1> DEFINE ecm == EcmOf(ago)
           cw  == RightCw(ecm)
           gap == Gap(entry, ago)
<1>1. ecm \in {0, -1} /\ cw = CwAt(Odd, ecm) /\ Odd \in BOOLEAN /\ newest \in Oldest..0
  BY RightCwAt DEF EcmOf, Odd, InTurn, Bounds
<1>2. entry \in Entries /\ Fits(entry, Odd, newest)
  BY DEF InTurn, AllKept, Kept, Chained
<1>3. CASE Window(entry, gap)
  <2>1. InStep(entry, Odd, newest)
    BY <1>2, <1>3 DEF Window, Fits
  <2>2. cw = entry.cw \/ Follows(entry, cw)
    <3>1. ecm = newest \/ ecm = newest + 1
      BY <1>1 DEF Oldest
    <3> QED BY <1>1, <1>2, <2>1, <3>1, RightFollows
  <2>3. Verdict(entry, ecm, cw, ago, FALSE, FALSE) = Compare(entry, ecm, cw, ago, FALSE, FALSE)
    BY <1>3 DEF Verdict
  <2>4. Compare(entry, ecm, cw, ago, FALSE, FALSE).verdict \in {"old", "same", "ok"}
    BY <2>2 DEF Compare, Result, Passes
  <2> QED BY <2>3, <2>4
<1>4. CASE ~Window(entry, gap)
  <2>1. Verdict(entry, ecm, cw, ago, FALSE, FALSE).verdict = "learning"
    BY <1>4 DEF Verdict, Result
  <2> QED BY <2>1
<1> QED BY <1>3, <1>4

\* Whatever wrong CWs came in between and however long checks took, a right CW is not
\* refused as a bad cycle as long as right CWs come in order and for every ECM, none with a
\* new half like the old one, checks do not overlap, and no wrong CW that shares a half with
\* another has misled the check (checkcwcycle_int), for any number of threads and any times.
THEOREM RightOnesPassAlways == CycleSpec => []RightOnesPass
<1> QED
  BY InTurnInit, InTurnInductive, InTurnPasses, PTL DEF CycleSpec

-----------------------------------------------------------------------------
(* The types of entries: which half of a CW stays is known in stage 3, and only there. *)

Plain(e) == (e.stays = Unknown <=> e.stage # 3) /\ e.dyn \in Nat

\* Other fields of an entry than those that are assigned
LEMMA OtherFields ==
  ASSUME NEW e \in Entries, NEW x
  PROVE  /\ \A f \in {[e EXCEPT !.stage = x], [e EXCEPT !.stays = x], [e EXCEPT !.cw = x],
                      [e EXCEPT !.cycle = x], [e EXCEPT !.repeat = x], [e EXCEPT !.locked = x],
                      [e EXCEPT !.ecms = x]} :
              f.dyn = e.dyn /\ f.ago = e.ago
         /\ LET f == [e EXCEPT !.dyn = x] IN f.dyn = x /\ f.ago = e.ago
         /\ LET f == [e EXCEPT !.ago = x] IN f.dyn = e.dyn /\ f.ago = x
         /\ \A f \in {[e EXCEPT !.stays = x], [e EXCEPT !.repeat = x], [e EXCEPT !.cycle = x]} :
              f.stage = e.stage
         /\ \A f \in {[e EXCEPT !.stage = x], [e EXCEPT !.repeat = x], [e EXCEPT !.cycle = x]} :
              f.stays = e.stays
  BY DEF Entries

\* Learning, the times, and an entry that is too old
LEMMA LearnedPlain ==
  ASSUME NEW e \in Entries, NEW cw \in Pairs, NEW gap \in Int, e.stage # 3, e.stays = Unknown,
         e.dyn \in Nat
  PROVE  Plain(Learn(e, cw, gap))
<1> DEFINE at(n) == [e EXCEPT !.stage = n]
<1>1. \A n \in 0..4 : at(n) \in Entries /\ at(n).stage = n
                      /\ at(n).dyn = e.dyn /\ at(n).stays = Unknown
  <2> TAKE n \in 0..4
  <2>1. at(n) \in Entries /\ at(n).stage = n /\ at(n).stays = e.stays
    BY StageSet
  <2>2. at(n).dyn = e.dyn
    BY OtherFields
  <2> QED BY <2>1, <2>2
<1> HIDE DEF at
<1>2. e.stage \in 0..4 /\ e.repeat \in Int
  BY DEF Entries
<1>0. \A n \in {0, 1, 2, 4} : Plain(at(n))
  BY <1>1 DEF Plain
<1>3. CASE e.stage = 0
  <2>1. Learn(e, cw, gap) = IF Stable(e, gap) THEN at(1) ELSE at(0)
    BY <1>3 DEF Learn, at
  <2> QED BY <2>1, <1>0
<1>4. CASE e.stage = 1
  <2>1. Learn(e, cw, gap) = IF Stable(e, gap) THEN at(2) ELSE at(0)
    BY <1>4 DEF Learn, at
  <2> QED BY <2>1, <1>0
<1>5. CASE e.stage \in {2, 4} /\ Stays(e, cw) # Unknown
  <2>1. Stays(e, cw) \in {0, 1}
    BY <1>5, WrongOnesTeachNothing
  <2> DEFINE g == [at(3) EXCEPT !.cycle = gap]
             f(h) == [h EXCEPT !.stays = Stays(e, cw)]
  <2>2. g \in Entries /\ g.stage = 3 /\ g.dyn = e.dyn
    <3>1. at(3) \in Entries /\ at(3).stage = 3 /\ at(3).dyn = e.dyn
      BY <1>1
    <3> QED BY <3>1, NumberSet, OtherFields
  <2>3. ASSUME NEW h \in Entries, h.stage = 3, h.dyn = e.dyn PROVE Plain(f(h))
    <3>1. f(h).stage = 3 /\ f(h).stays = Stays(e, cw) /\ f(h).dyn = e.dyn
      BY <2>1, <2>3, StaysSet, OtherFields
    <3> QED BY <2>1, <3>1 DEF Plain, Unknown
  <2>4. e.stage = 2 =>
          Learn(e, cw, gap) = IF Stable(e, gap) /\ e.cycle > 0 THEN f(g) ELSE at(1)
    BY <1>5 DEF Learn, at
  <2>5. e.stage = 4 => Learn(e, cw, gap) = f(at(3))
    BY <1>5 DEF Learn, at
  <2> HIDE DEF f, g
  <2> QED BY <1>0, <1>1, <1>5, <2>2, <2>3, <2>4, <2>5
<1>6. CASE e.stage \in {2, 4} /\ Stays(e, cw) = Unknown
  <2> DEFINE f(n) == [at(n) EXCEPT !.repeat = e.repeat + 1]
  <2>1. ASSUME NEW n \in {1, 4} PROVE Plain(f(n))
    <3>1. at(n) \in Entries /\ Plain(at(n)) /\ e.repeat + 1 \in Int
      BY <1>0, <1>1, <1>2
    <3>2. f(n).stage = at(n).stage /\ f(n).stays = at(n).stays /\ f(n).dyn = at(n).dyn
      BY <3>1, OtherFields
    <3> QED BY <3>1, <3>2 DEF Plain
  <2>2. e.stage = 2 => Learn(e, cw, gap) = at(1)
    BY <1>6 DEF Learn, at
  <2>3. e.stage = 4 => Learn(e, cw, gap) = f(IF e.repeat > MaxRepeat THEN 1 ELSE 4)
    BY <1>6 DEF Learn, at
  <2> HIDE DEF f
  <2> QED BY <2>1, <2>2, <2>3, <1>0, <1>6
<1> QED BY <1>2, <1>3, <1>4, <1>5, <1>6

LEMMA TimedPlain ==
  ASSUME NEW e \in Entries, NEW gap \in Int, Plain(e)
  PROVE  Plain(Timed(e, gap))
<1>0. e.cycle \in Int /\ Timed(e, gap).stage = e.stage /\ Timed(e, gap).stays = e.stays
  BY TimedKept DEF Entries
<1>1. CASE e.stage = 3
  <2> DEFINE late == IF gap > e.cycle THEN gap - e.cycle ELSE 0
             f == [e EXCEPT !.locked = FALSE]
             g == [f EXCEPT !.repeat = 0]
             h == [g EXCEPT !.dyn = late]
  <2>1. late \in Nat
    BY <1>0
  <2>2. f \in Entries
    BY OtherSet
  <2> HIDE DEF late
  <2>3. Timed(e, gap) = h
    BY <1>1 DEF Timed, late
  <2> HIDE DEF f
  <2>4. g \in Entries
    <3>1. f \in Entries /\ 0 \in Int
      BY <2>2
    <3> QED BY <3>1, NumberSet
  <2> HIDE DEF g
  <2>5. h.dyn = late
    BY <2>4, OtherFields
  <2> QED BY <1>0, <2>1, <2>3, <2>5 DEF Plain
<1>2. CASE e.stage # 3
  <2> DEFINE time == IF e.stage < 3 THEN gap ELSE e.cycle
             f == [e EXCEPT !.locked = TRUE]
             g == [f EXCEPT !.cycle = time]
  <2>2. f \in Entries /\ f.dyn = e.dyn
    <3>1. f \in Entries
      BY OtherSet
    <3>2. f.dyn = e.dyn
      BY OtherFields
    <3> QED BY <3>1, <3>2
  <2> HIDE DEF time
  <2>3. Timed(e, gap) = g
    BY <1>2 DEF Timed, time
  <2> HIDE DEF f
  <2>4. g.dyn = e.dyn
    BY <2>2, OtherFields
  <2> QED BY <1>0, <2>3, <2>4 DEF Plain
<1> QED BY <1>1, <1>2

LEMMA UpdatedPlain ==
  ASSUME NEW e \in Entries, NEW ecm \in Int, NEW cw \in Pairs, NEW ago \in Int, Plain(e)
  PROVE  Plain(Updated(e, ecm, cw, ago)) /\ Updated(e, ecm, cw, ago).ago = ago
<1>0. Updated(e, ecm, cw, ago).stage = e.stage /\ Updated(e, ecm, cw, ago).stays = e.stays
  BY UpdatedKept
<1> DEFINE ecms == e.ecms \cup {ecm}
           f == [e EXCEPT !.cw = cw]
           g == [f EXCEPT !.ago = ago]
           h == [g EXCEPT !.ecms = ecms]
<1>1. f \in Entries
  BY CwSet
<1>2. f.dyn = e.dyn
  BY OtherFields
<1> HIDE DEF ecms
<1>3. Updated(e, ecm, cw, ago) = h
  BY DEF Updated, ecms
<1> HIDE DEF f
<1>4. g \in Entries
  BY <1>1, NumberSet
<1>5. g.dyn = f.dyn /\ g.ago = ago
  BY <1>1, OtherFields
<1> HIDE DEF g
<1>6. h.dyn = g.dyn /\ h.ago = g.ago
  BY <1>4, OtherFields
<1> HIDE DEF h
<1> QED BY <1>0, <1>2, <1>3, <1>5, <1>6 DEF Plain

LEMMA AgedPlain ==
  ASSUME NEW e \in Entries, NEW gap \in Int, Plain(e)
  PROVE  Aged(e, gap).stays = Unknown /\ Aged(e, gap).dyn \in Nat
<1>1. CASE e.stage # 3
  BY <1>1 DEF Aged, Plain
<1>2. CASE e.stage = 3
  <2> DEFINE stage == IF KeepTime > 0 /\ gap < KeepTime THEN 4 ELSE 2
             f == [e EXCEPT !.stage = stage]
             g == [f EXCEPT !.cw = NoCw]
             h == [g EXCEPT !.stays = Unknown]
  <2>1. stage \in 0..4
    OBVIOUS
  <2>2. NoCw \in Pairs
    BY DEF NoCw, Pairs
  <2>3. Aged(e, gap) = h
    BY <1>2 DEF Aged
  <2> HIDE DEF stage
  <2>4. f \in Entries /\ f.dyn = e.dyn
    BY <2>1, StageSet, OtherFields
  <2> HIDE DEF f
  <2>5. g \in Entries /\ g.dyn = e.dyn
    BY <2>2, <2>4, CwSet, OtherFields
  <2> HIDE DEF g
  <2>6. h.stays = Unknown /\ h.dyn = e.dyn
    BY <2>5, StaysSet, OtherFields
  <2> QED BY <2>3, <2>6 DEF Plain
<1> QED BY <1>1, <1>2

\* What a check says to put back
LEMMA VerdictPlain ==
  ASSUME NEW e \in Entries, Trusted(e), Plain(e), NEW ecm \in {0, -1}, NEW cw \in Pairs,
         NEW ago \in Int, NEW fixed \in BOOLEAN, NEW like \in BOOLEAN
  PROVE  LET put == Verdict(e, ecm, cw, ago, fixed, like).entry
         IN put = None \/ (Plain(put) /\ put.ago = ago)
<1> DEFINE gap == Gap(e, ago)
<1>0. gap \in Int /\ ecm \in Int
  BY DEF Gap, Entries
<1> HIDE DEF gap
<1>1. CASE Window(e, gap)
  <2>1. e.stage = 3 /\ e.stays \in {0, 1}
    BY <1>1 DEF Window, Trusted
  <2>2. Verdict(e, ecm, cw, ago, fixed, like) = Compare(e, ecm, cw, ago, fixed, like)
    BY <1>1 DEF Verdict, gap
  <2>3. CASE cw # e.cw /\ Passes(e, cw, like)
    <3> DEFINE f == [e EXCEPT !.stays = 1 - e.stays]
               g == Timed(f, gap)
               h == Updated(g, ecm, cw, ago)
    <3>1. 1 - e.stays \in {0, 1}
      BY <2>1
    <3>2. Compare(e, ecm, cw, ago, fixed, like).entry = h
      BY <2>3 DEF Compare, Result, gap
    <3>3. f \in Entries /\ f.stage = 3 /\ f.stays \in {0, 1}
      BY <3>1, <2>1, StaysSet
    <3>4. f.dyn = e.dyn
      BY OtherFields
    <3> HIDE DEF f
    <3>5. Plain(f)
      BY <3>3, <3>4 DEF Plain, Unknown
    <3>6. g \in Entries /\ Plain(g)
      BY <3>3, <3>5, <1>0, TimedKept, TimedPlain
    <3> HIDE DEF g
    <3>7. Plain(h) /\ h.ago = ago
      <4>1. g \in Entries /\ ecm \in Int /\ Plain(g)
        BY <3>6, <1>0
      <4> QED BY ONLY <4>1, cw \in Pairs, ago \in Int, UpdatedPlain DEF h
    <3> HIDE DEF h
    <3> QED BY <3>2, <3>7, <2>2
  <2>4. CASE cw # e.cw /\ ~Passes(e, cw, like) /\ ecm \notin e.ecms /\ AllowBad /\ fixed
    <3> DEFINE f == [e EXCEPT !.stage = 4]
               g == [f EXCEPT !.stays = Unknown]
               h == Updated(g, ecm, cw, ago)
    <3>1. Compare(e, ecm, cw, ago, fixed, like).entry = h
      BY <2>4 DEF Compare, Result
    <3>2. f \in Entries /\ f.stage = 4
      <4>1. 4 \in 0..4
        OBVIOUS
      <4> QED BY <4>1, StageSet
    <3>3. f.dyn = e.dyn
      BY OtherFields
    <3> HIDE DEF f
    <3>4. g \in Entries /\ g.stage = 4 /\ g.stays = Unknown
      BY <3>2, StaysSet
    <3>5. g.dyn = f.dyn
      BY <3>2, OtherFields
    <3> HIDE DEF g
    <3>6. Plain(g)
      BY <3>3, <3>4, <3>5 DEF Plain
    <3>7. Plain(h) /\ h.ago = ago
      BY <3>4, <3>6, <1>0, UpdatedPlain
    <3> HIDE DEF h
    <3> QED BY <3>1, <3>7, <2>2
  <2>5. CASE \/ cw = e.cw
             \/ ~Passes(e, cw, like) /\ ~(ecm \notin e.ecms /\ AllowBad /\ fixed)
    <3>1. Compare(e, ecm, cw, ago, fixed, like).entry = None
      BY <2>5 DEF Compare, Result
    <3> QED BY <3>1, <2>2
  <2> QED BY <2>3, <2>4, <2>5
<1>2. CASE ~Window(e, gap)
  <2> DEFINE f == Aged(e, gap)
             g == Learn(f, cw, gap)
             h == Timed(g, gap)
             i == Updated(h, ecm, cw, ago)
  <2>1. Verdict(e, ecm, cw, ago, fixed, like).entry \in {None, i}
    BY <1>2 DEF Verdict, Result, gap
  <2>2. f \in Entries /\ f.stage # 3 /\ f.stays = Unknown /\ f.dyn \in Nat
    BY <1>0, AgedIsKept, AgedPlain
  <2> HIDE DEF f
  <2>3. g \in Entries /\ Plain(g)
    BY <2>2, <1>0, Learned, LearnedPlain
  <2> HIDE DEF g
  <2>4. h \in Entries /\ Plain(h)
    BY <2>3, <1>0, TimedKept, TimedPlain
  <2> HIDE DEF h
  <2>5. Plain(i) /\ i.ago = ago
    BY <2>4, <1>0, UpdatedPlain
  <2> HIDE DEF i
  <2> QED BY <2>1, <2>5
<1> QED BY <1>1, <1>2

LEMMA LaterPlain ==
  ASSUME NEW e \in Entries, Kept(e), Plain(e), e # None
  PROVE  Plain(Later(e)) /\ Later(e).ago = e.ago + 1
<1> DEFINE cw   == <<NextEcm(e.cw[1]), NextEcm(e.cw[2])>>
           ago  == e.ago + 1
           ecms == {NextEcm(n) : n \in e.ecms} \cap {-1, 0}
           L    == [e EXCEPT !.ago = ago, !.cw = cw, !.ecms = ecms]
<1>1. Later(e) = L
  BY DEF Later
<1> HIDE DEF cw, ago, ecms
<1>2. L.stage = e.stage /\ L.stays = e.stays /\ L.dyn = e.dyn /\ L.ago = ago
  BY DEF Entries
<1> HIDE DEF L
<1> QED BY <1>1, <1>2 DEF Plain, ago

\* What an entry says, as long as it is no older than n
Sane(e, n) == e # None => Plain(e) /\ e.ago \in 0..n

Learnt ==
  /\ AllKept /\ InTurn
  /\ Sane(entry, MaxAge) /\ \A t \in Checkers : Sane(pending[t], MaxAge)

LEMMA LearntInit == CycleInit => Learnt
<1> SUFFICES ASSUME CycleInit PROVE Learnt
  OBVIOUS
<1>1. Sane(entry, MaxAge) /\ \A t \in Checkers : Sane(pending[t], MaxAge)
  BY DEF CycleInit, Sane
<1> QED BY <1>1, AllKeptInit, InTurnInit DEF Learnt

LEMMA LearntInductive ==
  ASSUME MaxAge \in Nat, MaxSlow \in 0..MaxAge, Delay <= MaxAge
  PROVE  Learnt /\ [CycleNext]_cycleVars => Learnt'
<1> SUFFICES ASSUME Learnt, [CycleNext]_cycleVars
             PROVE  (Sane(entry, MaxAge) /\ \A t \in Checkers : Sane(pending[t], MaxAge))'
  BY AllKeptInductive, InTurnInductive DEF Learnt
<1>0. /\ Sane(entry, MaxAge) /\ \A t \in Checkers : Sane(pending[t], MaxAge)
      /\ entry # None => entry \in Entries /\ Trusted(entry) /\ Kept(entry)
      /\ \A t \in Checkers : pending[t] # None => pending[t] \in Entries /\ Kept(pending[t])
      /\ pending \in [Checkers -> Entries \cup {None}]
  BY DEF Learnt, AllKept, Kept
<1>1. ASSUME NEW t \in Checkers, NEW ago \in 0..Delay, NEW cw \in Cws(EcmOf(ago)),
             NEW fixed \in BOOLEAN, NEW like \in BOOLEAN, Check(t, ago, cw, fixed, like)
      PROVE  (Sane(entry, MaxAge) /\ \A u \in Checkers : Sane(pending[u], MaxAge))'
  <2> DEFINE ecm == EcmOf(ago)
             put == IF entry = None THEN NewEntry(ecm, cw, ago)
                    ELSE Verdict(entry, ecm, cw, ago, fixed, like).entry
  <2>1. ecm \in {0, -1} /\ ago \in Int /\ ago \in 0..MaxAge
    BY CycleAssumption DEF EcmOf
  <2>2. cw \in Pairs
    BY <2>1, CwsArePairs
  <2>3. pending' = [pending EXCEPT ![t] = put] /\ entry' = entry
    BY <1>1 DEF Check
  <2> HIDE DEF ecm
  <2>4. put = None \/ (Plain(put) /\ put.ago = ago)
    <3>1. CASE entry = None
      BY <3>1 DEF NewEntry, Plain
    <3>2. CASE entry # None
      BY <3>2, <1>0, <2>1, <2>2, VerdictPlain DEF Sane
    <3> QED BY <3>1, <3>2
  <2> HIDE DEF put
  <2>5. Sane(put, MaxAge)
    BY <2>1, <2>4 DEF Sane
  <2> QED BY <1>0, <2>3, <2>5 DEF Sane, Plain
<1>2. ASSUME NEW t \in Checkers, Insert(t)
      PROVE  (Sane(entry, MaxAge) /\ \A u \in Checkers : Sane(pending[u], MaxAge))'
  BY <1>0, <1>2 DEF Insert, Sane, Plain
<1>3. CASE Cleanup
  BY <1>0, <1>3 DEF Cleanup, Sane, Plain
<1>4. CASE Tick
  <2>1. /\ entry' = Later(entry) /\ pending' = [t \in Checkers |-> Later(pending[t])]
        /\ entry # None => entry.ago < MaxAge
        /\ \A t \in Checkers : pending[t] # None => pending[t].ago < MaxSlow
    BY <1>4 DEF Tick
  <2>2. ASSUME NEW e, Sane(e, MaxAge), e # None => e \in Entries /\ Kept(e) /\ e.ago < MaxAge
        PROVE  Sane(Later(e), MaxAge)
    <3>1. CASE e = None
      BY <3>1 DEF Later, Sane
    <3>2. CASE e # None
      <4>1. Plain(Later(e)) /\ Later(e).ago = e.ago + 1 /\ e.ago \in 0..MaxAge /\ e.ago < MaxAge
        BY <2>2, <3>2, LaterPlain DEF Sane
      <4> QED BY <4>1 DEF Sane
    <3> QED BY <3>1, <3>2
  <2>3. Sane(Later(entry), MaxAge)
    BY <1>0, <2>1, <2>2
  <2>4. ASSUME NEW t \in Checkers PROVE Sane(Later(pending[t]), MaxAge)
    <3>1. pending[t] # None => pending[t].ago < MaxAge
      <4> SUFFICES ASSUME pending[t] # None PROVE pending[t].ago < MaxAge
        OBVIOUS
      <4>1. pending[t].ago \in 0..MaxAge /\ pending[t].ago < MaxSlow
        BY <1>0, <2>1 DEF Sane
      <4> QED BY <4>1
    <3> QED BY <1>0, <2>2, <3>1
  <2> QED BY <2>1, <2>3, <2>4 DEF Sane, Plain
<1>5. CASE UNCHANGED cycleVars
  BY <1>0, <1>5 DEF cycleVars, Sane, Plain
<1> QED BY <1>1, <1>2, <1>3, <1>4, <1>5, AskedTyped DEF CycleNext

\* Type invariant of the CW cycle check, where no bound is smaller than the age of a CW that
\* is checked or the time a thread takes: which half stays is known in stage 3 and only then.
THEOREM CycleTypeOKAlways ==
  ASSUME MaxAge \in Nat, MaxSlow \in 0..MaxAge, Delay <= MaxAge
  PROVE  CycleSpec => []CycleTypeOK
<1>1. Learnt => CycleTypeOK
  <2> SUFFICES ASSUME Learnt PROVE CycleTypeOK
    OBVIOUS
  <2>1. phase \in 0..2 * Period - 1 /\ newest \in Oldest..0
    BY DEF Learnt, InTurn, Bounds
  <2>2. ASSUME NEW e \in {entry} \cup {pending[t] : t \in Checkers}, e # None
        PROVE  /\ e.stage \in 0..4 /\ e.stays \in {0, 1, Unknown}
               /\ e.stays = Unknown <=> e.stage # 3
               /\ e.dyn >= 0 /\ e.ago \in 0..MaxAge
    <3>1. Sane(e, MaxAge) /\ Kept(e)
      BY DEF Learnt, AllKept
    <3> QED BY <2>2, <3>1 DEF Sane, Plain, Kept, Entries
  <2> QED BY <2>1, <2>2 DEF CycleTypeOK
<1> QED BY <1>1, LearntInit, LearntInductive, PTL DEF CycleSpec

-----------------------------------------------------------------------------
(***************************************************************************)
(* The demuxer, for any number of pids and any weights: the pid that       *)
(* descrambles stays filtered, none with less weight takes its place, and  *)
(* the pids are not sorted anew before all were tried.                     *)
(*                                                                         *)
(* The work thread holds an index into ECMpids while the main thread works *)
(* on the list, so the invariant must speak of the answer under way: it is *)
(* not about a filter of another pid than the one that descrambles (Aside),*)
(* and its pid has no less weight or is done with (Weighed).  That in turn *)
(* needs all filters to be for different indices (Apart) and, in request   *)
(* mode 0, every pid that is done with to have been tried (Tried).         *)
(***************************************************************************)

PidRecs == [pid : EcmPids \cup {NoPid}, status : -1 .. MaxStatus, checked : 0 .. 4,
            tries : {"fresh", "used"}]
Lists   == [1 .. MaxPids -> PidRecs]

\* The first k pids of e are different ones.
Listed(e, k) ==
  /\ k \in 0 .. MaxPids
  /\ \A n \in 1 .. k : e[n].pid \in EcmPids
  /\ \A m, n \in 1 .. k : e[m].pid = e[n].pid => m = n

LEMMA MaxPidsNat == MaxPids \in Nat
BY DemuxAssumption, FS_CardinalityType DEF MaxPids

\* A set of natural numbers has a least one.
LEMMA LeastNumber ==
  ASSUME NEW S \in SUBSET Nat, S # {}
  PROVE  \E x \in S : \A y \in S : x <= y
<1> DEFINE T == {1 .. n : n \in S}
<1>1. T \subseteq FiniteSubsetsOf(Nat) /\ T # {}
  <2>1. ASSUME NEW n \in S PROVE 1 .. n \in SUBSET Nat /\ IsFiniteSet(1 .. n)
    <3>1. n \in Int /\ 1 \in Int
      OBVIOUS
    <3> QED BY <3>1, FS_Interval
  <2> QED BY <2>1, Zenon DEF FiniteSubsetsOf
<1>2. \E x \in T : \A y \in T : ~(<<y, x>> \in StrictSubsetOrdering(Nat))
  BY <1>1, FS_StrictSubsetOrderingWellFounded, WFMin, Zenon
<1>3. PICK n \in S : \A m \in S : ~(<<1 .. m, 1 .. n>> \in StrictSubsetOrdering(Nat))
  BY <1>2
<1>4. ASSUME NEW m \in S, m < n PROVE FALSE
  <2> DEFINE A == 1 .. m  B == 1 .. n
  <2>1. A \in SUBSET Nat /\ B \in SUBSET Nat /\ A \subseteq B /\ n \in B /\ n \notin A
    BY <1>4
  <2>2. ~(<<A, B>> \in StrictSubsetOrdering(Nat))
    BY <1>3
  <2> HIDE DEF A, B
  <2> QED BY <2>1, <2>2 DEF StrictSubsetOrdering
<1>5. \A m \in S : n <= m
  BY <1>4
<1> QED BY <1>5

\* Of pids that may be used one is the last to be looked at.
LEMMA LastExists ==
  ASSUME NEW e, NEW got \in SUBSET (1 .. MaxPids), got # {},
         \A n \in got : e[n].status \in Nat
  PROVE  \E n \in got : \A m \in got : m = n \/ Precedes(e, m, n)
<1> DEFINE S == {e[n].status : n \in got}
<1>1. \E x \in S : \A y \in S : x <= y
  <2>1. S \in SUBSET Nat /\ S # {}
    OBVIOUS
  <2> HIDE DEF S
  <2> QED BY <2>1, LeastNumber
<1>2. PICK l \in got : \A m \in got : e[l].status <= e[m].status
  BY <1>1
<1> DEFINE U == {MaxPids - n : n \in {m \in got : e[m].status = e[l].status}}
<1>3. \E x \in U : \A y \in U : x <= y
  <2>1. U \in SUBSET Nat /\ U # {}
    BY <1>2, MaxPidsNat
  <2> HIDE DEF U
  <2> QED BY <2>1, LeastNumber
<1>4. PICK n \in got : /\ e[n].status = e[l].status
                       /\ \A m \in got : e[m].status = e[l].status => MaxPids - n <= MaxPids - m
  BY <1>3
<1>5. ASSUME NEW m \in got, m # n PROVE Precedes(e, m, n)
  <2>1. m \in Nat /\ n \in Nat /\ e[m].status \in Nat /\ e[n].status \in Nat
    BY MaxPidsNat
  <2>2. e[n].status <= e[m].status
    BY <1>2, <1>4
  <2>3. e[m].status = e[n].status => m <= n
    BY <1>4, <2>1, MaxPidsNat
  <2> QED BY <1>5, <2>1, <2>2, <2>3 DEF Precedes
<1> QED BY <1>5

\* What dvbapi_try_next_caid leaves of k pids e whose checked is c
Outcome(o, e, k, c) ==
  /\ o.ECMpids \in Lists
  /\ \A n \in 1 .. MaxPids : o.ECMpids[n].pid = e[n].pid
  /\ \A f \in o.filters :
       /\ f \in [pid : EcmPids, at : 1 .. MaxPids] /\ f.at <= k /\ f.pid = e[f.at].pid
       /\ o.ECMpids[f.at].status >= 0 /\ o.ECMpids[f.at].checked = c + 1
       /\ mode = 0 => f.pid \in o.tried
  /\ \A f, g \in o.filters : f.at = g.at \/ mode = 0 => f = g
  /\ o.curindex \in 0 .. MaxPids /\ o.tried \subseteq EcmPids
  /\ mode = 0 => \A n \in 1 .. k : o.ECMpids[n] = e[n] \/ e[n].pid \in o.tried

LEMMA TryNextFacts ==
  ASSUME NEW e \in Lists, NEW k, Listed(e, k), NEW c \in {0, 2}, NEW cur \in 0 .. MaxPids,
         NEW o \in TryNext(e, k, c, cur)
  PROVE  Outcome(o, e, k, c)
<1> DEFINE cands == Candidates(e, k, c)
<1>0. MaxPids \in Nat /\ MaxStatus \in Nat /\ k \in 0 .. MaxPids
  BY MaxPidsNat, DemuxAssumption DEF Listed
<1>a. PICK got \in SUBSET cands :
        /\ mode = 0 => Cardinality(got) <= 1
        /\ \E open \in SUBSET got : o = Started(e, k, c, cur, got, open)
  BY Zenon DEF TryNext
<1>1. PICK open \in SUBSET got : o = Started(e, k, c, cur, got, open)
  BY <1>a
<1> DEFINE looked == Looked(e, cands, got)
           last   == {n \in got : \A m \in got : m = n \/ Precedes(e, m, n)}
           spared == {n \in looked : n = cur /\ \A m \in got : Precedes(e, n, m)}
           E      == [n \in 1 .. MaxPids |->
                        IF n \in got \cup spared THEN [e[n] EXCEPT !.checked = c + 1]
                        ELSE IF n \in looked
                             THEN [e[n] EXCEPT !.checked = 4, !.status = -1]
                        ELSE e[n]]
<1>2. /\ o.ECMpids = E
      /\ o.filters = {[pid |-> e[n].pid, at |-> n] : n \in open}
      /\ o.curindex = IF got = {} THEN cur ELSE CHOOSE n \in last : TRUE
      /\ o.tried = {e[n].pid : n \in {m \in looked : mode = 0}}
  BY <1>1 DEF Started
<1>3. cands \subseteq 1 .. k /\ \A n \in cands : e[n].status >= 0
  BY DEF Candidates, Usable
<1>4. looked \subseteq cands /\ spared \subseteq looked /\ got \subseteq cands
  BY DEF Looked
<1>5. got \subseteq 1 .. MaxPids /\ looked \subseteq 1 .. MaxPids /\ \A n \in got : e[n].status \in Nat
  BY <1>0, <1>1, <1>3, <1>4 DEF Lists, PidRecs
<1>6. mode = 0 => \A m, n \in got : m = n
  <2> SUFFICES ASSUME mode = 0, NEW m \in got, NEW n \in got PROVE m = n
    OBVIOUS
  <2>1. IsFiniteSet(1 .. MaxPids)
    <3>1. 1 \in Int /\ MaxPids \in Int
      BY <1>0
    <3> QED BY <3>1, FS_Interval
  <2>2. IsFiniteSet(got) /\ Cardinality(got) \in Nat /\ Cardinality(got) <= 1
    BY <2>1, <1>a, <1>5, FS_Subset, FS_CardinalityType
  <2>3. Cardinality(got) = 1
    BY <2>2, FS_EmptySet
  <2> QED BY <2>2, <2>3, FS_Singleton
<1>7. got \subseteq looked
  BY <1>1, <1>6 DEF Looked
<1> HIDE DEF looked, last, spared, cands
<1>8. \A n \in 1 .. MaxPids :
        /\ E[n] \in PidRecs /\ E[n].pid = e[n].pid
        /\ n \in got => E[n].status = e[n].status /\ E[n].checked = c + 1
        /\ n \notin looked => E[n] = e[n]
  <2> TAKE n \in 1 .. MaxPids
  <2>1. /\ e[n] \in PidRecs /\ c + 1 \in 0 .. 4 /\ -1 \in -1 .. MaxStatus
        /\ spared \subseteq looked /\ got \subseteq looked
    BY <1>0, <1>4, <1>7 DEF Lists
  <2>2. E[n] = IF n \in got \cup spared THEN [e[n] EXCEPT !.checked = c + 1]
               ELSE IF n \in looked THEN [e[n] EXCEPT !.checked = 4, !.status = -1] ELSE e[n]
    OBVIOUS
  <2>3. CASE n \in got \cup spared
    BY <2>1, <2>2, <2>3 DEF PidRecs
  <2>4. CASE n \notin got \cup spared /\ n \in looked
    <3>1. n \notin got /\ E[n] = [e[n] EXCEPT !.checked = 4, !.status = -1]
      BY <2>1, <2>2, <2>4, Zenon
    <3> HIDE DEF E
    <3> DEFINE x == [e[n] EXCEPT !.checked = 4]
    <3>a. x \in PidRecs /\ x.pid = e[n].pid
      BY <2>1 DEF PidRecs
    <3>b. E[n] = [x EXCEPT !.status = -1]
      BY <3>1
    <3> HIDE DEF x
    <3>2. E[n].pid = e[n].pid /\ E[n] \in PidRecs
      BY <2>1, <3>a, <3>b DEF PidRecs
    <3> QED BY <2>4, <3>1, <3>2
  <2>5. CASE n \notin got \cup spared /\ n \notin looked
    BY <2>1, <2>2, <2>5
  <2> QED BY <2>3, <2>4, <2>5
<1>9. o.ECMpids \in Lists
  BY <1>2, <1>8 DEF Lists
<1>10. o.curindex \in 0 .. MaxPids
  <2>1. CASE got = {}
    BY <2>1, <1>2
  <2>2. CASE got # {}
    <3>1. last # {} /\ last \subseteq got
      BY <2>2, <1>5, LastExists DEF last
    <3>2. o.curindex \in last
      BY <2>2, <1>2, <3>1
    <3>3. o.curindex \in 1 .. MaxPids
      BY <3>1, <3>2, <1>5, Zenon
    <3> QED BY <3>3, <1>0
  <2> QED BY <2>1, <2>2
<1>11. o.tried \subseteq EcmPids
  <2>1. \A n \in looked : e[n].pid \in EcmPids
    BY <1>3, <1>4 DEF Listed
  <2>2. \A x \in o.tried : \E n \in looked : x = e[n].pid
    BY <1>2, Zenon
  <2> QED BY <2>1, <2>2, Zenon
<1>12. mode = 0 => \A n \in 1 .. k : o.ECMpids[n] = e[n] \/ e[n].pid \in o.tried
  <2> SUFFICES ASSUME mode = 0, NEW n \in 1 .. k
               PROVE  o.ECMpids[n] = e[n] \/ e[n].pid \in o.tried
    OBVIOUS
  <2>1. n \in 1 .. MaxPids
    BY <1>0
  <2>2. CASE n \in looked
    BY <1>2, <2>2
  <2>3. CASE n \notin looked
    BY <1>2, <1>8, <2>1, <2>3
  <2> QED BY <2>2, <2>3
<1>13. ASSUME NEW f \in o.filters
       PROVE  /\ f \in [pid : EcmPids, at : 1 .. MaxPids] /\ f.at <= k /\ f.pid = e[f.at].pid
              /\ o.ECMpids[f.at].status >= 0 /\ o.ECMpids[f.at].checked = c + 1
              /\ mode = 0 => f.pid \in o.tried
              /\ f.at \in got
  <2>1. PICK n \in open : f = [pid |-> e[n].pid, at |-> n]
    BY <1>2
  <2>2. n \in got /\ n \in looked /\ n \in 1 .. k /\ n \in 1 .. MaxPids /\ e[n].status >= 0
    <3>1. n \in got /\ n \in looked /\ n \in cands
      BY <1>1, <1>7
    <3>2. n \in 1 .. k /\ e[n].status >= 0
      BY <3>1, <1>3
    <3> QED BY <3>1, <3>2, <1>0
  <2>3. f.at = n /\ f.pid = e[n].pid /\ e[n].pid \in EcmPids
    BY <2>1, <2>2 DEF Listed
  <2>4. f \in [pid : EcmPids, at : 1 .. MaxPids]
    BY <2>1, <2>2, <2>3
  <2>5. o.ECMpids[n].status >= 0 /\ o.ECMpids[n].checked = c + 1
    BY <1>2, <1>8, <2>2
  <2>6. mode = 0 => f.pid \in o.tried
    BY <1>2, <2>2, <2>3
  <2> QED BY <2>2, <2>3, <2>4, <2>5, <2>6
<1>14. \A f, g \in o.filters : f.at = g.at \/ mode = 0 => f = g
  BY <1>6, <1>13
<1> QED BY <1>2, <1>8, <1>9, <1>10, <1>11, <1>12, <1>13, <1>14 DEF Outcome

-----------------------------------------------------------------------------
\* The inductive invariant
DShape ==
  /\ mode \in Modes /\ mode \in {0, 1} /\ on \in BOOLEAN /\ running \in BOOLEAN /\ stranded \in BOOLEAN
  /\ running => on
  /\ running <=> count # 0
  /\ ECMpids \in Lists /\ Listed(ECMpids, count)
  /\ pidindex \in 0 .. MaxPids /\ curindex \in 0 .. MaxPids
  /\ filters \subseteq [pid : EcmPids, at : 1 .. MaxPids]
  /\ ~running => filters = {}
  /\ tried \subseteq EcmPids
  /\ answer \in [pid : EcmPids \cup {NoPid}, at : 0 .. MaxPids, rc : Refusals \cup {"found"}]
  /\ answer # Idle => answer.at # 0 /\ answer.pid \in EcmPids

\* All filters were started at one time, so each for another index; one only in mode 0.
Apart == \A f, g \in filters : f.at = g.at \/ mode = 0 => f = g

Steady == pidindex # 0 /\ ~stranded => Filtered(pidindex)

\* A refusal under way is not for the filter of the pid that descrambles, unless for its index.
Aside ==
  answer # Idle /\ pidindex # 0 /\ ~stranded /\ answer.at # pidindex =>
    \A f \in filters : f.at = pidindex => f.pid # answer.pid

\* Request mode 1
Live(n) == ECMpids[n].checked = 4 \/ ECMpids[n].status >= 0
Heavier(n) == ECMpids[n].checked = 4 \/ ECMpids[n].status >= ECMpids[pidindex].status
Weighed ==
  mode = 1 =>
    /\ \A n \in 1 .. count : Filtered(n) => Live(n)
    /\ pidindex # 0 /\ ~stranded =>
         /\ ECMpids[pidindex].status >= 0
         /\ \A n \in 1 .. count : n # pidindex => Heavier(n)
         /\ answer # Idle /\ answer.at # pidindex => Heavier(answer.at)

\* Request mode 0
Done(n) == ECMpids[n].status >= 0 /\ ECMpids[n].checked \in {1, 3, 4}
Tried ==
  mode = 0 =>
    /\ \A f \in filters : f.pid \in tried /\ ECMpids[f.at].checked # 2
    /\ \A n \in 1 .. count : Done(n) => ECMpids[n].pid \in tried \/ (stranded /\ pidindex = n)

DInv == DShape /\ Apart /\ Steady /\ Aside /\ Weighed /\ Tried

\* A pid is given up.
GivenUp(e, j) == [e EXCEPT ![j] = [@ EXCEPT !.status = -1, !.checked = 4, !.tries = "fresh"]]

LEMMA GivenUpFacts ==
  ASSUME NEW e \in Lists, NEW j \in 1 .. MaxPids
  PROVE  /\ GivenUp(e, j) \in Lists
         /\ \A n \in 1 .. MaxPids : /\ GivenUp(e, j)[n].pid = e[n].pid
                                    /\ n # j => GivenUp(e, j)[n] = e[n]
         /\ GivenUp(e, j)[j].status = -1 /\ GivenUp(e, j)[j].checked = 4
<1> DEFINE x == [e[j] EXCEPT !.checked = 4]
           y == [x EXCEPT !.status = -1]
           z == [y EXCEPT !.tries = "fresh"]
<1>1. e[j] \in PidRecs
  BY DEF Lists
<1>2. x \in PidRecs /\ x.pid = e[j].pid /\ x.checked = 4
  BY <1>1 DEF PidRecs
<1>3. y \in PidRecs /\ y.pid = e[j].pid /\ y.checked = 4 /\ y.status = -1
  <2>1. -1 \in -1 .. MaxStatus
    BY DemuxAssumption
  <2> HIDE DEF x
  <2> QED BY <1>2, <2>1 DEF PidRecs
<1>4. z \in PidRecs /\ z.pid = e[j].pid /\ z.checked = 4 /\ z.status = -1
  <2> HIDE DEF y
  <2> QED BY <1>3 DEF PidRecs
<1>5. GivenUp(e, j) = [e EXCEPT ![j] = z]
  <2>1. [e[j] EXCEPT !.status = -1, !.checked = 4, !.tries = "fresh"] = z
    BY <1>1 DEF PidRecs
  <2> HIDE DEF z
  <2> QED BY <2>1 DEF GivenUp, Lists
<1> HIDE DEF z
<1> QED BY <1>4, <1>5 DEF Lists

\* Steps after which the pids are the same and no filter is new
Mends ==
  /\ filters' \subseteq filters
  /\ ECMpids' \in Lists /\ \A n \in 1 .. MaxPids : ECMpids'[n].pid = ECMpids[n].pid
  /\ pidindex' \in 0 .. MaxPids /\ stranded' \in BOOLEAN
  /\ answer' \in {answer, Idle}
  /\ mode' = mode /\ on' = on /\ running' = running /\ count' = count
  /\ curindex' = curindex /\ tried' = tried

LEMMA MendsFacts ==
  ASSUME DInv, Mends
  PROVE  /\ DShape' /\ Apart'
         /\ \A n \in 1 .. MaxPids : Filtered(n)' => Filtered(n)
<1>1. 1 .. count \subseteq 1 .. MaxPids /\ count \in 0 .. MaxPids
  BY MaxPidsNat DEF DInv, DShape, Listed
<1>2. Listed(ECMpids', count')
  BY <1>1 DEF DInv, DShape, Listed, Mends
<1>3. Idle \in [pid : EcmPids \cup {NoPid}, at : 0 .. MaxPids, rc : Refusals \cup {"found"}]
  BY MaxPidsNat DEF Idle
<1>4. DShape'
  BY <1>2, <1>3 DEF DInv, DShape, Mends
<1>5. Apart'
  BY DEF DInv, Apart, Mends
<1>6. \A n \in 1 .. MaxPids : Filtered(n)' => Filtered(n)
  BY DEF Filtered, Mends
<1> QED BY <1>4, <1>5, <1>6

\* and none is more eligible than it was
Softens ==
  /\ \A n \in 1 .. MaxPids :
       \/ ECMpids'[n].checked = 4
       \/ ECMpids'[n].status = ECMpids[n].status /\ ECMpids[n].checked # 4
  /\ pidindex' # 0 /\ ~stranded' =>
       /\ pidindex' = pidindex /\ ~stranded
       /\ ECMpids'[pidindex].status = ECMpids[pidindex].status
  /\ mode = 0 => \A f \in filters' : ECMpids'[f.at].checked # 2
  /\ mode = 0 => \A n \in 1 .. count :
       Done(n)' => Done(n) /\ (stranded /\ pidindex = n => stranded' /\ pidindex' = n)

LEMMA SoftensFacts ==
  ASSUME DInv, Mends, Softens
  PROVE  Aside' /\ Weighed' /\ Tried'
<1>1. 1 .. count \subseteq 1 .. MaxPids /\ count \in 0 .. MaxPids
  BY MaxPidsNat DEF DInv, DShape, Listed
<1>2. Aside'
  BY DEF DInv, Aside, Mends, Softens
<1>3. Weighed'
  <2> SUFFICES ASSUME mode = 1
               PROVE  /\ \A n \in 1 .. count : Filtered(n)' => Live(n)'
                      /\ pidindex' # 0 /\ ~stranded' =>
                           /\ ECMpids'[pidindex'].status >= 0
                           /\ \A n \in 1 .. count : n # pidindex' => Heavier(n)'
                           /\ answer' # Idle /\ answer'.at # pidindex' => Heavier(answer.at)'
    <3>1. mode' = mode /\ count' = count
      BY DEF Mends
    <3>2. answer' # Idle => answer'.at = answer.at
      BY DEF Mends
    <3> QED BY <3>1, <3>2 DEF Weighed, Heavier
  <2>1. \A n \in 1 .. count : Filtered(n)' => Live(n)'
    BY <1>1, MendsFacts DEF DInv, Weighed, Live, Softens
  <2>2. ASSUME pidindex' # 0, ~stranded'
        PROVE  /\ ECMpids'[pidindex'].status >= 0
               /\ \A n \in 1 .. count : n # pidindex' => Heavier(n)'
               /\ answer' # Idle /\ answer'.at # pidindex' => Heavier(answer.at)'
    <3>1. /\ pidindex' = pidindex /\ ~stranded /\ pidindex # 0
          /\ ECMpids'[pidindex'].status = ECMpids[pidindex].status
      BY <2>2 DEF Softens
    <3>2. /\ ECMpids[pidindex].status >= 0
          /\ \A n \in 1 .. count : n # pidindex => Heavier(n)
          /\ answer # Idle /\ answer.at # pidindex => Heavier(answer.at)
      BY <3>1 DEF DInv, Weighed
    <3>3. \A n \in 1 .. MaxPids : Heavier(n) => Heavier(n)'
      BY <3>1 DEF Heavier, Softens
    <3>4. answer' # Idle => answer' = answer /\ answer.at \in 1 .. MaxPids
      BY DEF DInv, DShape, Mends
    <3> QED BY <1>1, <3>1, <3>2, <3>3, <3>4
  <2> QED BY <2>1, <2>2
<1>4. Tried'
  <2> SUFFICES ASSUME mode = 0
               PROVE  /\ \A f \in filters' : f.pid \in tried /\ ECMpids'[f.at].checked # 2
                      /\ \A n \in 1 .. count :
                           Done(n)' => ECMpids'[n].pid \in tried \/ (stranded' /\ pidindex' = n)
    <3>1. mode' = mode /\ count' = count /\ tried' = tried
      BY DEF Mends
    <3> QED BY <3>1 DEF Tried
  <2> QED BY <1>1 DEF DInv, Tried, Mends, Softens
<1> QED BY <1>2, <1>3, <1>4

\* Softening steps keep the invariant if the pid that descrambles keeps its filter.
LEMMA SoftStep ==
  ASSUME DInv, Mends, Softens, Steady'
  PROVE  DInv'
BY MendsFacts, SoftensFacts DEF DInv

\* Stops leaves nothing to keep but the answer under way.
LEMMA StopsFacts ==
  ASSUME DInv, Stops, mode' = mode, answer' \in {answer, Idle}
  PROVE  DInv'
<1>1. 0 \in 0 .. MaxPids /\ MaxPids \in Nat /\ MaxStatus \in Nat
  BY MaxPidsNat, DemuxAssumption
<1>2. Unused \in Lists
  BY <1>1 DEF Unused, Blank, Lists, PidRecs
<1>3. Idle \in [pid : EcmPids \cup {NoPid}, at : 0 .. MaxPids, rc : Refusals \cup {"found"}]
  BY <1>1 DEF Idle
<1>4. Listed(ECMpids', count')
  BY <1>1 DEF Stops, Listed
<1>5. DShape'
  BY <1>1, <1>2, <1>3, <1>4 DEF DInv, DShape, Stops
<1>6. 1 .. count' = {}
  BY DEF Stops
<1>7. Apart' /\ Steady' /\ Aside'
  BY DEF Stops, Apart, Steady, Aside
<1>8. Weighed'
  BY <1>6 DEF Stops, Weighed
<1>9. Tried'
  BY <1>6 DEF Stops, Tried
<1> QED BY <1>5, <1>7, <1>8, <1>9 DEF DInv

\* What dvbapi_resort_ecmpids leaves: no pid has been started.
LEMMA SortedFacts ==
  ASSUME NEW e \in Lists, NEW k, Listed(e, k), NEW s \in Sorted(e, k)
  PROVE  /\ s \in Lists /\ Listed(s, k)
         /\ \A n \in 1 .. k : s[n].pid = e[n].pid /\ s[n].checked \in {0, 2}
<1>1. k \in 0 .. MaxPids /\ MaxPids \in Nat /\ MaxStatus \in Nat
  BY MaxPidsNat, DemuxAssumption DEF Listed
<1>2. PICK w \in [1 .. k -> -1 .. MaxStatus] :
        s = [n \in 1 .. MaxPids |->
               IF n > k THEN e[n]
               ELSE [e[n] EXCEPT !.status = w[n], !.checked = IF w[n] = 0 THEN 2 ELSE 0,
                                 !.tries = "fresh"]]
  BY DEF Sorted
<1>3. ASSUME NEW n \in 1 .. k
      PROVE  s[n] \in PidRecs /\ s[n].pid = e[n].pid /\ s[n].checked \in {0, 2}
  <2>1. n \in 1 .. MaxPids /\ ~(n > k) /\ e[n] \in PidRecs /\ w[n] \in -1 .. MaxStatus
    BY <1>1 DEF Lists
  <2> DEFINE b == IF w[n] = 0 THEN 2 ELSE 0
             x == [e[n] EXCEPT !.status = w[n]]
             y == [x EXCEPT !.checked = b]
             z == [y EXCEPT !.tries = "fresh"]
  <2>2. x \in PidRecs /\ x.pid = e[n].pid
    BY <2>1 DEF PidRecs
  <2>3. b \in {0, 2}
    OBVIOUS
  <2>4. y \in PidRecs /\ y.pid = e[n].pid /\ y.checked = b
    <3> HIDE DEF x, b
    <3> QED BY <2>2, <2>3 DEF PidRecs
  <2>5. z \in PidRecs /\ z.pid = e[n].pid /\ z.checked = b
    <3> HIDE DEF y, b
    <3> QED BY <2>4 DEF PidRecs
  <2>6. s[n] = [e[n] EXCEPT !.status = w[n], !.checked = b, !.tries = "fresh"]
    BY <1>2, <2>1
  <2>7. s[n] = z
    <3> HIDE DEF b
    <3> QED BY <2>6
  <2> HIDE DEF z, b
  <2> QED BY <2>3, <2>5, <2>7
<1>4. \A n \in 1 .. MaxPids : n > k => s[n] = e[n] /\ s[n] \in PidRecs
  BY <1>2 DEF Lists
<1>5. s \in Lists
  <2>1. \A n \in 1 .. MaxPids : s[n] \in PidRecs
    BY <1>1, <1>3, <1>4
  <2>2. s = [n \in 1 .. MaxPids |-> s[n]]
    BY <1>2
  <2> QED BY <2>1, <2>2 DEF Lists
<1>6. Listed(s, k)
  BY <1>1, <1>3 DEF Listed
<1> QED BY <1>3, <1>5, <1>6

\* Sorting the pids anew when no filter runs
LEMMA RestartsFacts ==
  ASSUME DInv, filters = {}, NEW e \in Lists, NEW k, Listed(e, k), Restarts(e, k),
         k # 0, stranded' = FALSE, on' = TRUE, running' = TRUE, count' = k,
         mode' = mode, answer' = answer
  PROVE  DInv'
<1>1. PICK s \in Sorted(e, k) : \E o \in TryNext(s, k, 0, 0) :
        Becomes(o) /\ pidindex' = 0 /\ tried' = o.tried
  BY DEF Restarts
<1>2. PICK o \in TryNext(s, k, 0, 0) : Becomes(o) /\ pidindex' = 0 /\ tried' = o.tried
  BY <1>1
<1>3. /\ s \in Lists /\ Listed(s, k)
      /\ \A n \in 1 .. k : s[n].pid = e[n].pid /\ s[n].checked \in {0, 2}
  BY SortedFacts
<1>4. /\ 0 \in 0 .. MaxPids /\ 0 \in {0, 2} /\ k \in 0 .. MaxPids /\ MaxPids \in Nat
      /\ 1 .. k \subseteq 1 .. MaxPids
  BY MaxPidsNat DEF Listed
<1>5. Outcome(o, s, k, 0)
  BY <1>3, <1>4, TryNextFacts
<1>6. /\ ECMpids' = o.ECMpids /\ curindex' = o.curindex /\ filters' = o.filters
      /\ pidindex' = 0 /\ tried' = o.tried
  BY <1>2 DEF Becomes
<1>7. Listed(ECMpids', count')
  BY <1>3, <1>4, <1>5, <1>6 DEF Listed, Outcome
<1>8. DShape'
  BY <1>4, <1>5, <1>6, <1>7 DEF DInv, DShape, Outcome
<1>9. Apart' /\ Steady' /\ Aside'
  BY <1>5, <1>6 DEF Apart, Steady, Aside, Outcome
<1>10. Weighed'
  BY <1>5, <1>6 DEF Weighed, Filtered, Live, Outcome
<1>11. Tried'
  <2> SUFFICES ASSUME mode = 0
               PROVE  /\ \A f \in filters' : f.pid \in tried' /\ ECMpids'[f.at].checked # 2
                      /\ \A n \in 1 .. k : Done(n)' => ECMpids'[n].pid \in tried'
    BY DEF Tried
  <2>1. \A f \in filters' : f.pid \in tried' /\ ECMpids'[f.at].checked # 2
    BY <1>5, <1>6 DEF Outcome
  <2>2. ASSUME NEW n \in 1 .. k, Done(n)' PROVE ECMpids'[n].pid \in tried'
    <3>1. o.ECMpids[n] = s[n] \/ s[n].pid \in o.tried
      BY <1>5 DEF Outcome
    <3>2. ~(o.ECMpids[n] = s[n])
      BY <2>2, <1>3, <1>6 DEF Done
    <3> QED BY <1>4, <1>5, <1>6, <3>1, <3>2 DEF Outcome
  <2> QED BY <2>1, <2>2
<1> QED BY <1>8, <1>9, <1>10, <1>11 DEF DInv

-----------------------------------------------------------------------------
\* Each action keeps the invariant.
LEMMA DInvStopDescrambling ==
  ASSUME DInv, StopDescrambling
  PROVE  DInv'
BY StopsFacts DEF StopDescrambling

LEMMA DInvStartOver ==
  ASSUME DInv, StartOver
  PROVE  DInv'
<1>1. /\ filters = {} /\ ECMpids \in Lists /\ Listed(ECMpids, count) /\ count # 0
      /\ running = TRUE /\ on = TRUE
  BY DEF StartOver, Idles, DInv, DShape, Listed
<1>2. stranded' = FALSE
  BY DEF StartOver, Restarts, Keeps
<1> QED BY <1>1, <1>2, RestartsFacts DEF StartOver

\* Trying the pids of one run, when no filter is left
LEMMA RunsFacts ==
  ASSUME DInv, Idles, NEW e \in Lists, NEW c \in {0, 2}, Runs(e, c),
         \A n \in 1 .. MaxPids : /\ e[n].pid = ECMpids[n].pid /\ e[n].status = ECMpids[n].status
                                 /\ e[n].checked = ECMpids[n].checked
  PROVE  DInv'
<1>1. PICK o \in TryNext(e, count, c, curindex) : Becomes(o) /\ tried' = tried \cup o.tried
  BY DEF Runs
<1>2. /\ filters = {} /\ count # 0 /\ on /\ running
      /\ count \in 0 .. MaxPids /\ MaxPids \in Nat /\ 1 .. count \subseteq 1 .. MaxPids
  BY MaxPidsNat DEF DInv, DShape, Idles, Listed
<1>3. Listed(e, count) /\ curindex \in 0 .. MaxPids
  BY <1>2 DEF DInv, DShape, Listed
<1>4. Outcome(o, e, count, c)
  BY <1>3, TryNextFacts
<1>5. /\ ECMpids' = o.ECMpids /\ curindex' = o.curindex /\ filters' = o.filters
      /\ tried' = tried \cup o.tried
      /\ UNCHANGED <<mode, on, running, count, pidindex, answer, stranded>>
  BY <1>1, <1>2 DEF Becomes, Runs
<1>6. pidindex = 0 \/ stranded
  BY <1>2 DEF DInv, Steady, Filtered
<1>7. Listed(ECMpids', count')
  BY <1>2, <1>3, <1>4, <1>5 DEF Listed, Outcome
<1>8. DShape'
  BY <1>2, <1>4, <1>5, <1>7 DEF DInv, DShape, Outcome
<1>9. Apart' /\ Steady' /\ Aside'
  BY <1>4, <1>5, <1>6 DEF Apart, Steady, Aside, Outcome
<1>10. Weighed'
  BY <1>4, <1>5, <1>6 DEF Weighed, Filtered, Live, Outcome
<1>11. Tried'
  <2> SUFFICES ASSUME mode = 0
               PROVE  /\ \A f \in filters' : f.pid \in tried' /\ ECMpids'[f.at].checked # 2
                      /\ \A n \in 1 .. count :
                           Done(n)' => ECMpids'[n].pid \in tried' \/ (stranded /\ pidindex = n)
    BY <1>5 DEF Tried
  <2>1. \A f \in filters' : f.pid \in tried' /\ ECMpids'[f.at].checked # 2
    BY <1>4, <1>5 DEF Outcome
  <2>2. ASSUME NEW n \in 1 .. count, Done(n)'
        PROVE  ECMpids'[n].pid \in tried' \/ (stranded /\ pidindex = n)
    <3>1. n \in 1 .. MaxPids /\ ECMpids'[n].pid = ECMpids[n].pid /\ e[n].pid = ECMpids[n].pid
      BY <1>2, <1>4, <1>5 DEF Outcome
    <3>2. CASE e[n].pid \in o.tried
      BY <1>5, <3>1, <3>2
    <3>3. CASE o.ECMpids[n] = e[n]
      <4>1. Done(n)
        BY <2>2, <3>1, <3>3, <1>5 DEF Done
      <4> QED BY <4>1, <3>1, <1>5 DEF DInv, Tried
    <3> QED BY <1>4, <3>2, <3>3 DEF Outcome
  <2> QED BY <2>1, <2>2
<1> QED BY <1>8, <1>9, <1>10, <1>11 DEF DInv

LEMMA DInvFirstRun ==
  ASSUME DInv, FirstRun
  PROVE  DInv'
<1>1. ECMpids \in Lists /\ 0 \in {0, 2} /\ Idles /\ Runs(ECMpids, 0)
  BY DEF DInv, DShape, FirstRun
<1> QED BY <1>1, RunsFacts

LEMMA DInvSecondRun ==
  ASSUME DInv, SecondRun
  PROVE  DInv'
<1>1. PICK n \in Left(2) : Runs([ECMpids EXCEPT ![n].tries = "fresh"], 2)
  BY DEF SecondRun
<1>2. n \in 1 .. MaxPids /\ ECMpids \in Lists
  BY MaxPidsNat DEF DInv, DShape, Listed, Left, Usable
<1> DEFINE e == [ECMpids EXCEPT ![n].tries = "fresh"]
<1>3. /\ e \in Lists
      /\ \A m \in 1 .. MaxPids : /\ e[m].pid = ECMpids[m].pid /\ e[m].status = ECMpids[m].status
                                 /\ e[m].checked = ECMpids[m].checked
  BY <1>2 DEF Lists, PidRecs
<1>4. Idles /\ Runs(e, 2) /\ 2 \in {0, 2}
  BY <1>1 DEF SecondRun
<1> HIDE DEF e
<1> QED BY <1>3, <1>4, RunsFacts

\* The list a CA PMT brings
Relisted(s, k) ==
  [n \in 1 .. MaxPids |->
     IF n <= k THEN [pid |-> s[n], status |-> 0, checked |-> 0, tries |-> "fresh"]
     ELSE IF n = answer.at THEN ECMpids[n] ELSE Blank]

LEMMA RelistedFacts ==
  ASSUME DInv, NEW k \in 0 .. MaxPids, NEW s \in [1 .. k -> EcmPids],
         \A m, n \in 1 .. k : s[m] = s[n] => m = n
  PROVE  /\ Relisted(s, k) \in Lists /\ Listed(Relisted(s, k), k)
         /\ \A n \in 1 .. MaxPids :
              /\ n <= k => Relisted(s, k)[n].status = 0 /\ Relisted(s, k)[n].checked = 0
              /\ n > k /\ n = answer.at => Relisted(s, k)[n] = ECMpids[n]
              /\ n > k /\ n # answer.at => Relisted(s, k)[n] = Blank
<1> DEFINE e == Relisted(s, k)
<1>1. MaxPids \in Nat /\ MaxStatus \in Nat /\ k \in Int
  BY MaxPidsNat, DemuxAssumption
<1>2. ASSUME NEW n \in 1 .. MaxPids
      PROVE  /\ e[n] \in PidRecs
             /\ n <= k => e[n].pid = s[n] /\ e[n].status = 0 /\ e[n].checked = 0
             /\ n > k /\ n = answer.at => e[n] = ECMpids[n]
             /\ n > k /\ n # answer.at => e[n] = Blank
  <2>1. e[n] = IF n <= k
               THEN [pid |-> s[n], status |-> 0, checked |-> 0, tries |-> "fresh"]
               ELSE IF n = answer.at THEN ECMpids[n] ELSE Blank
    BY DEF Relisted
  <2>2. CASE n <= k
    <3>1. s[n] \in EcmPids /\ 0 \in -1 .. MaxStatus
      BY <1>1, <2>2
    <3> QED BY <1>1, <2>1, <2>2, <3>1 DEF PidRecs
  <2>3. CASE ~(n <= k)
    <3>1. Blank \in PidRecs
      BY <1>1 DEF Blank, PidRecs
    <3>2. ECMpids[n] \in PidRecs
      BY DEF DInv, DShape, Lists
    <3> QED BY <1>1, <2>1, <2>3, <3>1, <3>2
  <2> QED BY <2>2, <2>3
<1>3. e \in Lists
  <2>1. e = [n \in 1 .. MaxPids |-> e[n]]
    BY DEF Relisted
  <2> HIDE DEF e
  <2> QED BY <1>2, <2>1 DEF Lists
<1>4. Listed(e, k)
  <2>1. \A n \in 1 .. k : n \in 1 .. MaxPids /\ n <= k
    BY <1>1
  <2> HIDE DEF e
  <2> QED BY <1>2, <2>1 DEF Listed
<1> QED BY <1>2, <1>3, <1>4

\* The program goes on with other pids: its filters stay, the pids are no longer sorted.
LEMMA UpdateFacts ==
  ASSUME DInv, NEW k \in 0 .. MaxPids, k # 0, NEW e \in Lists, Listed(e, k),
         \A n \in 1 .. MaxPids :
           /\ n <= k => e[n].status = 0 /\ e[n].checked = 0
           /\ n > k /\ n = answer.at => e[n] = ECMpids[n]
           /\ n > k /\ n # answer.at => e[n] = Blank,
         running, on' = TRUE, count' = k, running' = TRUE, ECMpids' = e,
         UNCHANGED <<pidindex, curindex, filters, tried, mode, answer>>,
         MayStrand
  PROVE  DInv'
<1>1. /\ 1 .. k \subseteq 1 .. MaxPids /\ MaxPids \in Nat
      /\ \A n \in 1 .. k : e[n].status = 0 /\ e[n].checked = 0
  BY MaxPidsNat
<1>2. DShape'
  BY DEF DInv, DShape, MayStrand
<1>3. Apart'
  BY DEF DInv, Apart
<1>4. Steady'
  BY DEF MayStrand, Steady
<1>5. stranded' \/ pidindex = 0 \/ ~stranded
  BY DEF MayStrand
<1>6. Aside'
  BY <1>5 DEF DInv, Aside
<1>7. ASSUME mode = 1
      PROVE  /\ \A n \in 1 .. k : Live(n)'
             /\ pidindex # 0 /\ ~stranded' =>
                  /\ e[pidindex].status >= 0
                  /\ \A n \in 1 .. k : Heavier(n)'
                  /\ answer # Idle /\ answer.at # pidindex => Heavier(answer.at)'
  <2>1. \A n \in 1 .. k : Live(n)'
    BY <1>1 DEF Live
  <2>2. ASSUME pidindex # 0, ~stranded'
        PROVE  /\ e[pidindex].status >= 0
               /\ \A n \in 1 .. k : Heavier(n)'
               /\ answer # Idle /\ answer.at # pidindex => Heavier(answer.at)'
    <3>1. pidindex \in 1 .. k /\ e[pidindex].status = 0
      <4>1. Filtered(pidindex)'
        BY <2>2 DEF MayStrand
      <4>2. pidindex <= k
        BY <4>1 DEF Filtered
      <4> QED BY <1>1, <2>2, <4>2 DEF DInv, DShape
    <3>2. \A n \in 1 .. k : Heavier(n)'
      BY <1>1, <3>1 DEF Heavier
    <3>3. ASSUME answer # Idle, answer.at # pidindex PROVE Heavier(answer.at)'
      <4>1. answer.at \in 1 .. MaxPids
        BY <3>3, <1>1 DEF DInv, DShape
      <4>2. CASE answer.at <= k
        <5>1. answer.at \in 1 .. k
          BY <4>1, <4>2
        <5>2. answer' = answer
          OBVIOUS
        <5> QED BY <3>2, <5>1, <5>2 DEF Heavier
      <4>3. CASE answer.at > k
        <5>1. Heavier(answer.at) /\ ECMpids[pidindex].status >= 0
          BY <1>5, <1>7, <2>2, <3>3 DEF DInv, Weighed
        <5>2. e[answer.at] = ECMpids[answer.at] /\ ECMpids[answer.at] \in PidRecs
          BY <4>1, <4>3 DEF DInv, DShape, Lists
        <5>3. ECMpids[pidindex].status \in Int /\ ECMpids[answer.at].status \in Int
          BY <3>1, <1>1, <4>1 DEF DInv, DShape, Lists, PidRecs
        <5> QED BY <3>1, <5>1, <5>2, <5>3 DEF Heavier
      <4> QED BY <1>1, <4>1, <4>2, <4>3
    <3> QED BY <3>1, <3>2, <3>3
  <2> QED BY <2>1, <2>2
<1>8. Weighed'
  BY <1>7 DEF Weighed
<1>9. Tried'
  <2> SUFFICES ASSUME mode = 0
               PROVE  /\ \A f \in filters : f.pid \in tried /\ e[f.at].checked # 2
                      /\ \A n \in 1 .. k : ~Done(n)'
    BY DEF Tried
  <2>1. \A n \in 1 .. k : ~Done(n)'
    BY <1>1 DEF Done
  <2>2. ASSUME NEW f \in filters PROVE f.pid \in tried /\ e[f.at].checked # 2
    <3>1. f.pid \in tried /\ ECMpids[f.at].checked # 2 /\ f.at \in 1 .. MaxPids
      BY DEF DInv, DShape, Tried
    <3>2. CASE f.at <= k
      BY <3>1, <3>2
    <3>3. CASE f.at > k /\ f.at = answer.at
      BY <3>1, <3>3
    <3>4. CASE f.at > k /\ f.at # answer.at
      BY <3>1, <3>4 DEF Blank
    <3> QED BY <1>1, <3>1, <3>2, <3>3, <3>4
  <2> QED BY <2>1, <2>2
<1> QED BY <1>2, <1>3, <1>4, <1>6, <1>8, <1>9 DEF DInv

\* What the host's list of k pids does
Parsed(s, k) ==
  /\ \A m, n \in 1 .. k : s[m] = s[n] => m = n
  /\ on' = TRUE /\ count' = k /\ running' = (k # 0)
  /\ \/ /\ k = 0
        /\ ECMpids' = Relisted(s, k) /\ pidindex' = 0 /\ filters' = {}
        /\ Keeps
        /\ UNCHANGED <<curindex, tried>>
     \/ /\ k # 0 /\ running
        /\ ECMpids' = Relisted(s, k)
        /\ UNCHANGED <<pidindex, curindex, filters, tried>>
        /\ MayStrand
     \/ /\ k # 0 /\ ~running
        /\ Restarts(Relisted(s, k), k)
        /\ Keeps
  /\ UNCHANGED <<mode, answer>>

LEMMA DInvParseCapmt ==
  ASSUME DInv, ParseCapmt
  PROVE  DInv'
<1>0. PICK k \in 0 .. MaxPids : \E s \in [1 .. k -> EcmPids] : Parsed(s, k)
  BY DEF ParseCapmt, Relisted, Parsed
<1>1. PICK s \in [1 .. k -> EcmPids] : Parsed(s, k)
  BY <1>0
<1>p. \A m, n \in 1 .. k : s[m] = s[n] => m = n
  BY <1>1 DEF Parsed
<1> DEFINE e == Relisted(s, k)
<1>2. /\ e \in Lists /\ Listed(e, k)
      /\ \A n \in 1 .. MaxPids :
           /\ n <= k => e[n].status = 0 /\ e[n].checked = 0
           /\ n > k /\ n = answer.at => e[n] = ECMpids[n]
           /\ n > k /\ n # answer.at => e[n] = Blank
  BY <1>p, RelistedFacts
<1> HIDE DEF e
<1>3. CASE /\ k = 0 /\ ECMpids' = e /\ pidindex' = 0 /\ filters' = {}
           /\ Keeps /\ UNCHANGED <<curindex, tried>>
  <2>1. 1 .. count' = {} /\ stranded' = FALSE /\ running' = FALSE /\ on' = TRUE /\ count' = 0
    <3>1. on' = TRUE /\ count' = k /\ running' = (k # 0)
      BY <1>1 DEF Parsed
    <3>2. stranded' = FALSE
      BY <1>3 DEF Keeps
    <3>3. count' = 0 /\ 1 .. count' = {}
      BY <1>3, <3>1
    <3>4. running' = FALSE
      BY <1>3, <3>1, Zenon
    <3> QED BY <3>1, <3>2, <3>3, <3>4, Zenon
  <2>2. DShape'
    <3>1. UNCHANGED <<mode, answer>> /\ Listed(ECMpids', count')
      BY <1>1, <1>2, <1>3, <2>1 DEF Parsed
    <3> QED BY <1>2, <1>3, <2>1, <3>1, MaxPidsNat DEF DInv, DShape
  <2>3. Apart' /\ Steady' /\ Aside' /\ Weighed'
    BY <1>3, <2>1 DEF Apart, Steady, Aside, Weighed
  <2>4. Tried'
    BY <1>3, <2>1 DEF Tried
  <2> QED BY <2>2, <2>3, <2>4 DEF DInv
<1>4. CASE /\ k # 0 /\ running /\ ECMpids' = e
           /\ UNCHANGED <<pidindex, curindex, filters, tried>> /\ MayStrand
  <2>1. /\ on' = TRUE /\ count' = k /\ running' = TRUE /\ UNCHANGED <<mode, answer>>
    BY <1>1, <1>4 DEF Parsed
  <2> QED BY <1>2, <1>4, <2>1, UpdateFacts
<1>5. CASE k # 0 /\ ~running /\ Restarts(e, k) /\ Keeps
  <2>1. filters = {}
    BY <1>5 DEF DInv, DShape
  <2>2. stranded' = FALSE
    BY <1>5 DEF Restarts, Keeps
  <2>3. on' = TRUE /\ count' = k /\ running' = TRUE /\ UNCHANGED <<mode, answer>>
    BY <1>1, <1>5 DEF Parsed
  <2> QED BY <1>2, <1>5, <2>1, <2>2, <2>3, RestartsFacts
<1> QED BY <1>1, <1>3, <1>4, <1>5 DEF e, Parsed

\* A pid is given up and no longer descrambles; of its filters those in rest are left.
LEMMA GiveUpFacts ==
  ASSUME DInv, NEW j \in 1 .. MaxPids,
         ECMpids' = GivenUp(ECMpids, j), pidindex' = Without(j), filters' \subseteq filters,
         answer' \in {answer, Idle}, UNCHANGED <<mode, on, running, count, curindex, tried>>,
         Keeps \/ MayStrand, Steady'
  PROVE  DInv'
<1>1. /\ pidindex \in 0 .. MaxPids /\ 0 \in 0 .. MaxPids /\ ECMpids \in Lists
      /\ 1 .. count \subseteq 1 .. MaxPids /\ stranded \in BOOLEAN
  BY MaxPidsNat DEF DInv, DShape, Listed
<1>2. /\ ECMpids' \in Lists
      /\ \A n \in 1 .. MaxPids : /\ ECMpids'[n].pid = ECMpids[n].pid
                                 /\ n # j => ECMpids'[n] = ECMpids[n]
      /\ ECMpids'[j].status = -1 /\ ECMpids'[j].checked = 4
  BY <1>1, GivenUpFacts
<1>3. /\ pidindex' # 0 => pidindex' = pidindex /\ pidindex # j
      /\ pidindex' \in {0, pidindex}
  BY DEF Without
<1>4. /\ stranded' \in BOOLEAN
      /\ pidindex' # 0 /\ stranded => stranded'
  BY <1>1 DEF Keeps, MayStrand
<1>5. Mends
  BY <1>1, <1>2, <1>3, <1>4 DEF Mends
<1>6. \A n \in 1 .. MaxPids :
        \/ ECMpids'[n].checked = 4
        \/ ECMpids'[n].status = ECMpids[n].status /\ ECMpids[n].checked # 4
  BY <1>2
<1>7. pidindex' # 0 /\ ~stranded' =>
        /\ pidindex' = pidindex /\ ~stranded
        /\ ECMpids'[pidindex].status = ECMpids[pidindex].status
  BY <1>1, <1>2, <1>3, <1>4
<1>8. mode = 0 => \A f \in filters' : ECMpids'[f.at].checked # 2
  BY <1>2 DEF DInv, DShape, Tried
<1>9. mode = 0 => \A n \in 1 .. count :
        Done(n)' => Done(n) /\ (stranded /\ pidindex = n => stranded' /\ pidindex' = n)
  <2> SUFFICES ASSUME NEW n \in 1 .. count, Done(n)'
               PROVE  Done(n) /\ (stranded /\ pidindex = n => stranded' /\ pidindex' = n)
    OBVIOUS
  <2>1. n # j
    BY <1>2 DEF Done
  <2>2. Done(n)
    BY <2>1, <1>1, <1>2 DEF Done
  <2>3. pidindex = n => pidindex' = n /\ pidindex' # 0
    BY <2>1, <1>1 DEF Without
  <2> QED BY <2>2, <2>3, <1>4
<1>10. Softens
  BY <1>6, <1>7, <1>8, <1>9 DEF Softens
<1> QED BY <1>5, <1>10, SoftStep

\* Steps that only change how often a pid may still be asked for, or end filters
LEMMA SpareFacts ==
  ASSUME DInv, ECMpids' \in Lists,
         \A n \in 1 .. MaxPids : /\ ECMpids'[n].pid = ECMpids[n].pid
                                 /\ ECMpids'[n].status = ECMpids[n].status
                                 /\ ECMpids'[n].checked = ECMpids[n].checked,
         filters' \subseteq filters, answer' \in {answer, Idle},
         UNCHANGED <<mode, on, running, count, pidindex, curindex, tried>>,
         stranded' \in BOOLEAN, pidindex # 0 /\ stranded => stranded',
         Steady'
  PROVE  DInv'
<1>1. 1 .. count \subseteq 1 .. MaxPids
  BY MaxPidsNat DEF DInv, DShape, Listed
<1>2. Mends
  BY DEF DInv, DShape, Mends
<1>3. DShape' /\ Apart'
  BY <1>2, MendsFacts
<1>4. \A n \in 1 .. MaxPids : Filtered(n)' => Filtered(n)
  BY <1>2, MendsFacts
<1>5. Aside'
  BY DEF DInv, Aside
<1>6. pidindex' # 0 /\ ~stranded' => ~stranded
  OBVIOUS
<1>7. Weighed'
  <2> SUFFICES ASSUME mode = 1
               PROVE  /\ \A n \in 1 .. count : Filtered(n)' => Live(n)'
                      /\ pidindex # 0 /\ ~stranded' =>
                           /\ ECMpids'[pidindex].status >= 0
                           /\ \A n \in 1 .. count : n # pidindex => Heavier(n)'
                           /\ answer' # Idle /\ answer'.at # pidindex => Heavier(answer.at)'
    BY DEF Weighed, Heavier
  <2>1. \A n \in 1 .. count : Filtered(n)' => Live(n)'
    BY <1>1, <1>4 DEF DInv, Weighed, Live
  <2>2. pidindex # 0 => pidindex \in 1 .. MaxPids
    BY MaxPidsNat DEF DInv, DShape
  <2>3. \A n \in 1 .. MaxPids : pidindex # 0 /\ Heavier(n) => Heavier(n)'
    BY <2>2 DEF Heavier
  <2>4. answer' # Idle => answer' = answer /\ answer.at \in 1 .. MaxPids
    BY MaxPidsNat DEF DInv, DShape
  <2> QED BY <1>1, <1>6, <2>1, <2>2, <2>3, <2>4 DEF DInv, Weighed
<1>8. Tried'
  <2>1. \A n \in 1 .. count : Done(n)' => Done(n)
    BY <1>1 DEF Done
  <2>2. \A f \in filters' : f.at \in 1 .. MaxPids /\ f \in filters
    BY DEF DInv, DShape
  <2>3. \A n \in 1 .. count : pidindex = n => pidindex # 0
    BY <1>1
  <2> QED BY <1>1, <2>1, <2>2, <2>3 DEF DInv, Tried
<1> QED BY <1>3, <1>5, <1>7, <1>8, Zenon DEF DInv

\* tries is all that changes in the pid at j.
SetTries(e, j, t) == [e EXCEPT ![j].tries = t]

LEMMA TriesFacts ==
  ASSUME NEW e \in Lists, NEW j \in 1 .. MaxPids, NEW t \in {"fresh", "used"}
  PROVE  /\ SetTries(e, j, t) \in Lists
         /\ \A n \in 1 .. MaxPids : /\ SetTries(e, j, t)[n].pid = e[n].pid
                                    /\ SetTries(e, j, t)[n].status = e[n].status
                                    /\ SetTries(e, j, t)[n].checked = e[n].checked
BY DEF SetTries, Lists, PidRecs

LEMMA DInvRefuses ==
  ASSUME DInv, NEW p, NEW j \in 1 .. MaxPids, NEW rc, Refuses(p, j, rc),
         mode' = mode, answer' \in {answer, Idle},
         pidindex # 0 /\ ~stranded /\ pidindex # j =>
           \A f \in filters : f.at = pidindex => f.pid # p
  PROVE  DInv'
<1>1. ECMpids \in Lists /\ pidindex \in 0 .. MaxPids
  BY DEF DInv, DShape
<1>2. CASE rc = "sleeping"
  BY <1>2, StopsFacts DEF Refuses
<1>3. CASE rc # "sleeping" /\ rc = "timeout" /\ ECMpids[j].tries = "fresh"
  <2>1. /\ ECMpids' = [ECMpids EXCEPT ![j].tries = "used"]
        /\ UNCHANGED <<on, running, count, pidindex, curindex, filters, stranded, tried>>
    BY <1>3 DEF Refuses
  <2>2. /\ ECMpids' \in Lists
        /\ \A n \in 1 .. MaxPids : /\ ECMpids'[n].pid = ECMpids[n].pid
                                   /\ ECMpids'[n].status = ECMpids[n].status
                                   /\ ECMpids'[n].checked = ECMpids[n].checked
    <3>1. ECMpids' = SetTries(ECMpids, j, "used") /\ "used" \in {"fresh", "used"}
      BY <2>1 DEF SetTries
    <3> QED BY <1>1, <3>1, TriesFacts
  <2>3. Steady'
    <3>1. pidindex # 0 => pidindex \in 1 .. MaxPids
      BY <1>1
    <3> QED BY <2>1, <2>2, <3>1 DEF DInv, Steady, Filtered
  <2>4. stranded' \in BOOLEAN /\ filters' \subseteq filters
    BY <2>1 DEF DInv, DShape
  <2> QED BY <2>1, <2>2, <2>3, <2>4, SpareFacts
<1>4. CASE rc # "sleeping" /\ ~(rc = "timeout" /\ ECMpids[j].tries = "fresh")
  <2>1. /\ ECMpids' = GivenUp(ECMpids, j) /\ pidindex' = Without(j)
        /\ filters' = {f \in filters : f.pid # p}
        /\ UNCHANGED <<on, running, count, curindex, tried>>
        /\ IF ECMpids[j].pid = p THEN Keeps ELSE MayStrand
    BY <1>4 DEF Refuses, GivenUp
  <2>2. /\ \A n \in 1 .. MaxPids : ECMpids'[n].pid = ECMpids[n].pid
    BY <1>1, <2>1, GivenUpFacts
  <2>3. Steady'
    <3>1. CASE ECMpids[j].pid = p
      <4> SUFFICES ASSUME pidindex' # 0, ~stranded' PROVE Filtered(pidindex)'
        BY DEF Steady
      <4>1. pidindex' = pidindex /\ pidindex # j /\ pidindex # 0
        BY <2>1 DEF Without
      <4>2. ~stranded
        BY <2>1, <3>1 DEF Keeps
      <4>3. PICK f \in filters : f.at = pidindex /\ f.pid = ECMpids[pidindex].pid
        BY <4>1, <4>2 DEF DInv, Steady, Filtered
      <4>4. f \in filters' /\ pidindex <= count
        BY <2>1, <4>1, <4>2, <4>3 DEF DInv, Steady, Filtered
      <4>5. pidindex \in 1 .. MaxPids
        BY <1>1, <4>1
      <4> QED BY <2>1, <2>2, <4>1, <4>3, <4>4, <4>5 DEF Filtered
    <3>2. CASE ECMpids[j].pid # p
      BY <2>1, <3>2 DEF MayStrand, Steady
    <3> QED BY <3>1, <3>2
  <2>4. filters' \subseteq filters /\ (Keeps \/ MayStrand)
    BY <2>1
  <2> QED BY <2>1, <2>3, <2>4, GiveUpFacts
<1> QED BY <1>2, <1>3, <1>4

LEMMA DInvKillPid ==
  ASSUME DInv, NEW f \in filters, KillPid(f)
  PROVE  DInv'
<1> DEFINE j == f.at
<1>1. j \in 1 .. MaxPids /\ ECMpids \in Lists /\ pidindex \in 0 .. MaxPids
  BY DEF DInv, DShape
<1>2. /\ ECMpids' = GivenUp(ECMpids, j) /\ pidindex' = Without(j) /\ filters' = filters \ {f}
      /\ Keeps /\ UNCHANGED <<mode, on, running, count, curindex, answer, tried>>
  BY DEF KillPid, GivenUp
<1>3. \A n \in 1 .. MaxPids : ECMpids'[n].pid = ECMpids[n].pid
  BY <1>1, <1>2, GivenUpFacts
<1>4. Steady'
  <2> SUFFICES ASSUME pidindex' # 0, ~stranded' PROVE Filtered(pidindex)'
    BY DEF Steady
  <2>1. pidindex' = pidindex /\ pidindex # j /\ pidindex \in 1 .. MaxPids
    BY <1>1, <1>2 DEF Without
  <2>2. Filtered(pidindex)
    BY <1>2, <2>1 DEF Keeps, DInv, Steady
  <2> QED BY <1>2, <1>3, <2>1, <2>2 DEF Filtered
<1>5. filters' \subseteq filters
  BY <1>2
<1> HIDE DEF j
<1> QED BY <1>1, <1>2, <1>4, <1>5, GiveUpFacts

LEMMA DInvBadSection ==
  ASSUME DInv, NEW f \in filters, BadSection(f)
  PROVE  DInv'
<1>1. f.at \in 1 .. MaxPids /\ ECMpids \in Lists /\ pidindex \in 0 .. MaxPids
  BY DEF DInv, DShape
<1>2. /\ ECMpids' \in Lists
      /\ \A n \in 1 .. MaxPids : /\ ECMpids'[n].pid = ECMpids[n].pid
                                 /\ ECMpids'[n].status = ECMpids[n].status
                                 /\ ECMpids'[n].checked = ECMpids[n].checked
  <2>1. ECMpids' = SetTries(ECMpids, f.at, "used") /\ "used" \in {"fresh", "used"}
    BY DEF BadSection, SetTries
  <2> QED BY <1>1, <2>1, TriesFacts
<1>3. UNCHANGED <<mode, on, running, count, pidindex, curindex, filters, answer, stranded, tried>>
  BY DEF BadSection
<1>4. Steady'
  <2>1. pidindex # 0 => pidindex \in 1 .. MaxPids
    BY <1>1
  <2> QED BY <1>2, <1>3, <2>1 DEF DInv, Steady, Filtered
<1>5. stranded' \in BOOLEAN /\ filters' \subseteq filters
  BY <1>3 DEF DInv, DShape
<1> QED BY <1>2, <1>3, <1>4, <1>5, SpareFacts

LEMMA DInvFilterFails ==
  ASSUME DInv, NEW f \in filters, FilterFails(f)
  PROVE  DInv'
<1>1. /\ filters' = filters \ {f} /\ MayStrand
      /\ UNCHANGED <<mode, on, running, count, ECMpids, pidindex, curindex, answer, tried>>
  BY DEF FilterFails
<1>2. ECMpids' \in Lists
  BY <1>1 DEF DInv, DShape
<1>3. Steady' /\ stranded' \in BOOLEAN /\ (pidindex # 0 /\ stranded => stranded')
  BY <1>1 DEF MayStrand, Steady
<1> QED BY <1>1, <1>2, <1>3, SpareFacts

\* checked is all that changes in the pid at j.
SetChecked(e, j, b) == [e EXCEPT ![j].checked = b]

LEMMA CheckedFacts ==
  ASSUME NEW e \in Lists, NEW j \in 1 .. MaxPids, NEW b \in 0 .. 4
  PROVE  /\ SetChecked(e, j, b) \in Lists
         /\ \A n \in 1 .. MaxPids : /\ SetChecked(e, j, b)[n].pid = e[n].pid
                                    /\ SetChecked(e, j, b)[n].status = e[n].status
                                    /\ n # j => SetChecked(e, j, b)[n] = e[n]
         /\ SetChecked(e, j, b)[j].checked = b
BY DEF SetChecked, Lists, PidRecs

LEMMA DInvWrongChid ==
  ASSUME DInv, NEW f \in filters, WrongChid(f)
  PROVE  DInv'
<1> DEFINE j == f.at
           c == ECMpids[j].checked
           b == Postponed(c)
<1>1. /\ j \in 1 .. MaxPids /\ ECMpids \in Lists /\ pidindex \in 0 .. MaxPids
      /\ ECMpids[j] \in PidRecs /\ 1 .. count \subseteq 1 .. MaxPids
  BY MaxPidsNat DEF DInv, DShape, Lists, Listed
<1>2. /\ ECMpids' = SetChecked(ECMpids, j, b)
      /\ filters' = filters \ {f} /\ MayStrand
      /\ UNCHANGED <<mode, on, running, count, pidindex, curindex, answer, tried>>
  <2>1. ECMpids' = SetChecked(ECMpids, j, b)
    BY DEF WrongChid, SetChecked
  <2> QED BY <2>1 DEF WrongChid
<1>3. /\ b \in 0 .. 4
      /\ ECMpids[j].checked = 4 => b = 4
      /\ b = 4 \/ ECMpids[j].checked # 4
      /\ b \in {1, 3, 4} => ECMpids[j].checked \in {2, 3, 4}
  BY <1>1 DEF PidRecs, Postponed
<1> HIDE DEF b
<1>4. /\ ECMpids' \in Lists
      /\ \A n \in 1 .. MaxPids : /\ ECMpids'[n].pid = ECMpids[n].pid
                                 /\ ECMpids'[n].status = ECMpids[n].status
                                 /\ n # j => ECMpids'[n].checked = ECMpids[n].checked
      /\ ECMpids'[j].checked = b
  <2>1. /\ SetChecked(ECMpids, j, b) \in Lists
        /\ \A n \in 1 .. MaxPids :
             /\ SetChecked(ECMpids, j, b)[n].pid = ECMpids[n].pid
             /\ SetChecked(ECMpids, j, b)[n].status = ECMpids[n].status
             /\ n # j => SetChecked(ECMpids, j, b)[n] = ECMpids[n]
        /\ SetChecked(ECMpids, j, b)[j].checked = b
    <3> HIDE DEF j
    <3> QED BY <1>1, <1>3, CheckedFacts
  <2> QED BY <1>2, <2>1
<1>5. Steady' /\ stranded' \in BOOLEAN /\ (pidindex # 0 /\ stranded => stranded')
  BY <1>2 DEF MayStrand, Steady
<1>6. Mends
  BY <1>1, <1>2, <1>4, <1>5 DEF Mends
<1>7. mode = 0 => filters' = {} /\ ECMpids[j].checked # 2
  <2>1. mode = 0 => filters = {f}
    BY DEF DInv, Apart
  <2> QED BY <1>2, <2>1 DEF DInv, Tried
<1>8. Softens
  <2>1. \A n \in 1 .. MaxPids :
          \/ ECMpids'[n].checked = 4
          \/ ECMpids'[n].status = ECMpids[n].status /\ ECMpids[n].checked # 4
    BY <1>3, <1>4
  <2>2. pidindex' # 0 /\ ~stranded' =>
          /\ pidindex' = pidindex /\ ~stranded
          /\ ECMpids'[pidindex].status = ECMpids[pidindex].status
    BY <1>1, <1>2, <1>4, <1>5
  <2>3. mode = 0 => \A g \in filters' : ECMpids'[g.at].checked # 2
    BY <1>7
  <2>4. mode = 0 => \A n \in 1 .. count :
          Done(n)' => Done(n) /\ (stranded /\ pidindex = n => stranded' /\ pidindex' = n)
    <3> SUFFICES ASSUME mode = 0, NEW n \in 1 .. count, Done(n)'
                 PROVE  Done(n) /\ (stranded /\ pidindex = n => stranded' /\ pidindex' = n)
      OBVIOUS
    <3>1. n \in 1 .. MaxPids /\ (pidindex = n => pidindex # 0)
      BY <1>1
    <3>2. ECMpids[n].status = ECMpids'[n].status
      BY <1>4, <3>1
    <3>3. ECMpids[n].checked \in {1, 3, 4}
      BY <1>3, <1>4, <1>7, <3>1 DEF Done
    <3> QED BY <1>2, <1>5, <3>1, <3>2, <3>3 DEF Done
  <2> QED BY <2>1, <2>2, <2>3, <2>4 DEF Softens
<1> QED BY <1>5, <1>6, <1>8, SoftStep

LEMMA DInvRefusedAtOnce ==
  ASSUME DInv, NEW f \in filters, RefusedAtOnce(f)
  PROVE  DInv'
<1> DEFINE p == ECMpids[f.at].pid
<1>1. PICK j \in Places(p), rc \in Refusals : Refuses(p, j, rc)
  BY DEF RefusedAtOnce
<1>2. j \in 1 .. count /\ j \in 1 .. MaxPids /\ ECMpids[j].pid = p
  BY MaxPidsNat DEF Places, DInv, DShape, Listed
<1> HIDE DEF p
<1>3. ASSUME pidindex # 0, ~stranded, pidindex # j, NEW g \in filters, g.at = pidindex
      PROVE  g.pid # p
  <2>1. PICK h \in filters : h.at = pidindex /\ h.pid = ECMpids[pidindex].pid
    BY <1>3 DEF DInv, Steady, Filtered
  <2>2. g = h
    BY <1>3, <2>1 DEF DInv, Apart
  <2>3. pidindex \in 1 .. count
    BY <1>3, MaxPidsNat DEF DInv, DShape, Steady, Filtered
  <2>4. ECMpids[pidindex].pid # p
    BY <1>2, <1>3, <2>3 DEF DInv, DShape, Listed
  <2> QED BY <2>1, <2>2, <2>4
<1>4. mode' = mode /\ answer' \in {answer, Idle}
  BY DEF RefusedAtOnce
<1> QED BY <1>1, <1>2, <1>3, <1>4, DInvRefuses

LEMMA DInvPidAnswered ==
  ASSUME DInv, NEW p \in EcmPids, NEW rc \in Refusals \cup {"found"}, PidAnswered(p, rc)
  PROVE  DInv'
<1>1. PICK j \in Places(p) : answer' = [pid |-> p, at |-> j, rc |-> rc]
  BY DEF PidAnswered
<1>2. /\ UNCHANGED <<mode, on, running, count, ECMpids, pidindex, curindex, filters, stranded,
                     tried>>
      /\ answer = Idle
  BY DEF PidAnswered
<1>3. /\ j \in 1 .. count /\ j \in 1 .. MaxPids /\ ECMpids[j].pid = p /\ j # 0 /\ j \in 0 .. MaxPids
      /\ MaxPids \in Nat /\ count \in 0 .. MaxPids
  BY MaxPidsNat DEF Places, DInv, DShape, Listed
<1>4. answer'.pid = p /\ answer'.at = j /\ answer' \in
        [pid : EcmPids \cup {NoPid}, at : 0 .. MaxPids, rc : Refusals \cup {"found"}]
  BY <1>1, <1>3
<1>5. DShape'
  BY <1>2, <1>3, <1>4 DEF DInv, DShape, Listed
<1>6. Apart' /\ Steady'
  BY <1>2 DEF DInv, Apart, Steady, Filtered
<1>7. Aside'
  <2> SUFFICES ASSUME pidindex # 0, ~stranded, j # pidindex, NEW g \in filters, g.at = pidindex
               PROVE  g.pid # p
    BY <1>2, <1>4 DEF Aside
  <2>1. PICK h \in filters : h.at = pidindex /\ h.pid = ECMpids[pidindex].pid
    BY DEF DInv, Steady, Filtered
  <2>2. g = h
    BY <2>1 DEF DInv, Apart
  <2>3. pidindex \in 1 .. count
    BY MaxPidsNat DEF DInv, DShape, Steady, Filtered
  <2>4. ECMpids[pidindex].pid # p
    BY <1>3, <2>3 DEF DInv, DShape, Listed
  <2> QED BY <2>1, <2>2, <2>4
<1>8. Weighed'
  <2> SUFFICES ASSUME mode = 1
               PROVE  /\ \A n \in 1 .. count : Filtered(n)' => Live(n)'
                      /\ pidindex # 0 /\ ~stranded =>
                           /\ ECMpids[pidindex].status >= 0
                           /\ \A n \in 1 .. count : n # pidindex => Heavier(n)
                           /\ j # pidindex => Heavier(j)
    BY <1>2, <1>4 DEF Weighed, Heavier
  <2> QED BY <1>2, <1>3 DEF DInv, Weighed, Filtered, Live
<1>9. Tried'
  BY <1>2 DEF DInv, Tried, Done
<1> QED BY <1>5, <1>6, <1>7, <1>8, <1>9 DEF DInv

\* The first answer of request mode 0
LEMMA DInvTakeFirst ==
  ASSUME DInv, answer # Idle, mode = 0, TakeFirst(answer.at),
         stranded' = IF pidindex' = pidindex THEN stranded ELSE ~Filtered(answer.at),
         UNCHANGED <<mode, on, running, count, curindex, tried>>, answer' = Idle
  PROVE  DInv'
<1> DEFINE j == answer.at
<1>1. /\ j \in 1 .. MaxPids /\ j # 0 /\ ECMpids \in Lists /\ pidindex \in 0 .. MaxPids
      /\ 1 .. count \subseteq 1 .. MaxPids /\ j \in 0 .. MaxPids /\ 4 \in 0 .. 4
      /\ "fresh" \in {"fresh", "used"} /\ stranded \in BOOLEAN
  BY MaxPidsNat DEF DInv, DShape, Listed
<1> HIDE DEF j
<1>2. filters' = filters
  BY DEF TakeFirst
<1>3. CASE pidindex # 0
  <2>1. pidindex' = pidindex /\ stranded' = stranded
    BY <1>3 DEF TakeFirst
  <2>2. ECMpids' = [ECMpids EXCEPT ![j].tries = "fresh", ![j].checked = ECMpids[j].checked]
    BY <1>3 DEF TakeFirst, j
  <2>3. ECMpids' = SetTries(ECMpids, j, "fresh")
    <3>1. SetTries(ECMpids, j, "fresh")[j].checked = ECMpids[j].checked
      BY <1>1, TriesFacts
    <3> QED BY <1>1, <2>2, <3>1 DEF SetTries, Lists, PidRecs
  <2>4. /\ ECMpids' \in Lists
        /\ \A n \in 1 .. MaxPids : /\ ECMpids'[n].pid = ECMpids[n].pid
                                   /\ ECMpids'[n].status = ECMpids[n].status
                                   /\ ECMpids'[n].checked = ECMpids[n].checked
    BY <1>1, <2>3, TriesFacts
  <2>5. Steady'
    <3>1. pidindex # 0 => pidindex \in 1 .. MaxPids
      BY <1>1
    <3> QED BY <1>2, <2>1, <2>4, <3>1 DEF DInv, Steady, Filtered
  <2>6. /\ stranded' \in BOOLEAN /\ filters' \subseteq filters
        /\ UNCHANGED <<mode, on, running, count, pidindex, curindex, tried>>
    BY <1>1, <1>2, <2>1
  <2> QED BY <2>1, <2>4, <2>5, <2>6, SpareFacts
<1>4. CASE pidindex = 0
  <2>1. pidindex' = j /\ ECMpids' = SetChecked(SetTries(ECMpids, j, "fresh"), j, 4)
    BY <1>4 DEF TakeFirst, SetChecked, SetTries, j
  <2>2. stranded' = ~Filtered(j)
    BY <1>1, <1>4, <2>1 DEF j
  <2> DEFINE e == SetTries(ECMpids, j, "fresh")
  <2>3. /\ e \in Lists
        /\ \A n \in 1 .. MaxPids : /\ e[n].pid = ECMpids[n].pid
                                   /\ e[n].status = ECMpids[n].status
                                   /\ e[n].checked = ECMpids[n].checked
    BY <1>1, TriesFacts
  <2> HIDE DEF e
  <2>4. /\ SetChecked(e, j, 4) \in Lists
        /\ \A n \in 1 .. MaxPids : /\ SetChecked(e, j, 4)[n].pid = e[n].pid
                                   /\ SetChecked(e, j, 4)[n].status = e[n].status
                                   /\ n # j => SetChecked(e, j, 4)[n] = e[n]
        /\ SetChecked(e, j, 4)[j].checked = 4
    BY <1>1, <2>3, CheckedFacts
  <2>5. /\ ECMpids' \in Lists
        /\ \A n \in 1 .. MaxPids : /\ ECMpids'[n].pid = ECMpids[n].pid
                                   /\ ECMpids'[n].status = ECMpids[n].status
                                   /\ n # j => ECMpids'[n].checked = ECMpids[n].checked
        /\ ECMpids'[j].checked = 4
    BY <2>1, <2>3, <2>4 DEF e
  <2>6. Mends
    BY <1>1, <1>2, <2>1, <2>2, <2>5 DEF Mends
  <2>7. DShape' /\ Apart'
    BY <2>6, MendsFacts
  <2>8. Steady'
    BY <1>1, <1>2, <2>1, <2>2, <2>5 DEF Steady, Filtered
  <2>9. Aside' /\ Weighed'
    BY DEF Aside, Weighed
  <2>10. Tried'
    <3> SUFFICES /\ \A f \in filters : f.pid \in tried /\ ECMpids'[f.at].checked # 2
                 /\ \A n \in 1 .. count :
                      Done(n)' => ECMpids'[n].pid \in tried \/ (stranded' /\ j = n)
      BY <1>2, <2>1 DEF Tried
    <3>1. ASSUME NEW f \in filters PROVE f.pid \in tried /\ ECMpids'[f.at].checked # 2
      <4>1. f.pid \in tried /\ ECMpids[f.at].checked # 2 /\ f.at \in 1 .. MaxPids
        BY DEF DInv, DShape, Tried
      <4> QED BY <2>5, <4>1
    <3>2. ASSUME NEW n \in 1 .. count, Done(n)', ~(stranded' /\ j = n)
          PROVE  ECMpids'[n].pid \in tried
      <4>1. n \in 1 .. MaxPids /\ pidindex # n
        BY <1>1, <1>4
      <4>2. CASE n = j
        <5>1. PICK f \in filters : f.pid = ECMpids[j].pid
          BY <2>2, <3>2, <4>2 DEF Filtered
        <5> QED BY <2>5, <4>1, <4>2, <5>1 DEF DInv, Tried
      <4>3. CASE n # j
        <5>1. Done(n)
          BY <2>5, <3>2, <4>1, <4>3 DEF Done
        <5> QED BY <2>5, <4>1, <5>1 DEF DInv, Tried
      <4> QED BY <4>2, <4>3
    <3> QED BY <3>1, <3>2
  <2> QED BY <2>7, <2>8, <2>9, <2>10 DEF DInv
<1> QED BY <1>3, <1>4

\* What a pid that is not done with does to the others in request mode 1
LEMMA TakenOver ==
  ASSUME DInv, NEW j \in 1 .. MaxPids, TakeOver(j)
  PROVE  /\ filters' \subseteq filters
         /\ ECMpids' \in Lists
         /\ \A n \in 1 .. MaxPids : /\ ECMpids'[n].pid = ECMpids[n].pid
                                    /\ ECMpids'[n].status = ECMpids[n].status
                                    /\ ECMpids'[n].checked \in {4, ECMpids[n].checked}
         /\ ECMpids[j].checked # 4 =>
              /\ pidindex' = j
              /\ \A f \in filters : f.at = j => f \in filters'
              /\ \A n \in Lesser(j) : ECMpids'[n].checked = 4
         /\ ECMpids[j].checked = 4 =>
              /\ pidindex' = pidindex /\ filters' = filters
              /\ \A n \in 1 .. MaxPids : ECMpids'[n].checked = ECMpids[n].checked
<1> DEFINE takes == ECMpids[j].checked # 4
           left  == IF takes THEN {f \in filters : f.at \notin Lesser(j)} ELSE filters
           done  == IF takes THEN Lesser(j) \cup {n \in {j} : Cardinality(left) = 1} ELSE {}
           b(n)  == IF n \in done THEN 4 ELSE ECMpids[n].checked
           t(n)  == IF n = j THEN "fresh" ELSE ECMpids[n].tries
<1>1. /\ pidindex' = IF takes THEN j ELSE pidindex
      /\ filters' = left
      /\ ECMpids' = [n \in 1 .. MaxPids |-> [ECMpids[n] EXCEPT !.checked = b(n), !.tries = t(n)]]
  BY DEF TakeOver
<1>2. /\ ~takes => done = {} /\ left = filters
      /\ takes => Lesser(j) \subseteq done /\ left = {f \in filters : f.at \notin Lesser(j)}
  OBVIOUS
<1>3. j \notin Lesser(j) /\ Lesser(j) \subseteq 1 .. MaxPids /\ ECMpids \in Lists
  BY MaxPidsNat DEF Lesser, DInv, DShape, Listed
<1> HIDE DEF done, left
<1>4. ASSUME NEW n \in 1 .. MaxPids
      PROVE  /\ ECMpids'[n] \in PidRecs
             /\ ECMpids'[n].pid = ECMpids[n].pid /\ ECMpids'[n].status = ECMpids[n].status
             /\ ECMpids'[n].checked = b(n)
  <2>1. ECMpids[n] \in PidRecs /\ 4 \in 0 .. 4
    BY <1>3 DEF Lists
  <2>2. b(n) \in 0 .. 4 /\ t(n) \in {"fresh", "used"}
    BY <2>1 DEF PidRecs
  <2>3. ECMpids'[n] = [ECMpids[n] EXCEPT !.checked = b(n), !.tries = t(n)]
    BY <1>1
  <2> HIDE DEF b, t
  <2> QED BY <2>1, <2>2, <2>3 DEF PidRecs
<1>5. ECMpids' \in Lists
  <2>1. ECMpids' = [n \in 1 .. MaxPids |-> ECMpids'[n]]
    BY <1>1
  <2> QED BY <1>4, <2>1 DEF Lists
<1>6. takes => /\ pidindex' = j
               /\ \A f \in filters : f.at = j => f \in filters'
               /\ \A n \in Lesser(j) : ECMpids'[n].checked = 4
  BY <1>1, <1>2, <1>3, <1>4
<1>7. ~takes => /\ pidindex' = pidindex /\ filters' = filters
                /\ \A n \in 1 .. MaxPids : ECMpids'[n].checked = ECMpids[n].checked
  BY <1>1, <1>2, <1>4
<1>8. filters' \subseteq filters
  BY <1>1, <1>2
<1>9. \A n \in 1 .. MaxPids : ECMpids'[n].checked \in {4, ECMpids[n].checked}
  BY <1>4
<1> QED BY <1>4, <1>5, <1>6, <1>7, <1>8, <1>9

LEMMA DInvTakeOver ==
  ASSUME DInv, answer # Idle, mode = 1, TakeOver(answer.at),
         stranded' = IF pidindex' = pidindex THEN stranded ELSE ~Filtered(answer.at),
         UNCHANGED <<mode, on, running, count, curindex, tried>>, answer' = Idle
  PROVE  DInv'
<1> DEFINE j == answer.at
<1>1. /\ j \in 1 .. MaxPids /\ j # 0 /\ pidindex \in 0 .. MaxPids /\ ECMpids \in Lists
      /\ 1 .. count \subseteq 1 .. MaxPids /\ j \in 0 .. MaxPids /\ stranded \in BOOLEAN
      /\ TakeOver(j) /\ count \in Nat
  BY MaxPidsNat DEF DInv, DShape, Listed
<1>s. stranded' = IF pidindex' = pidindex THEN stranded ELSE ~Filtered(j)
  OBVIOUS
<1> HIDE DEF j
<1>2. /\ filters' \subseteq filters
      /\ ECMpids' \in Lists
      /\ \A n \in 1 .. MaxPids : /\ ECMpids'[n].pid = ECMpids[n].pid
                                 /\ ECMpids'[n].status = ECMpids[n].status
                                 /\ ECMpids'[n].checked \in {4, ECMpids[n].checked}
      /\ ECMpids[j].checked # 4 =>
           /\ pidindex' = j
           /\ \A f \in filters : f.at = j => f \in filters'
           /\ \A n \in Lesser(j) : ECMpids'[n].checked = 4
      /\ ECMpids[j].checked = 4 =>
           /\ pidindex' = pidindex /\ filters' = filters
           /\ \A n \in 1 .. MaxPids : ECMpids'[n].checked = ECMpids[n].checked
  BY <1>1, TakenOver
<1>3. CASE ECMpids[j].checked = 4
  <2>1. Steady'
    <3>1. pidindex # 0 => pidindex \in 1 .. MaxPids
      BY <1>1
    <3> QED BY <1>2, <1>3, <1>s, <3>1 DEF DInv, Steady, Filtered
  <2>2. stranded' = stranded
    BY <1>2, <1>3, <1>s
  <2> QED BY <1>1, <1>2, <1>3, <2>1, <2>2, SpareFacts
<1>4. CASE ECMpids[j].checked # 4
  <2>1. pidindex' = j /\ stranded' \in BOOLEAN
    BY <1>1, <1>2, <1>4, <1>s
  <2>2. Mends
    BY <1>1, <1>2, <2>1 DEF Mends
  <2>3. DShape' /\ Apart'
    BY <2>2, MendsFacts
  <2>4. \A n \in 1 .. MaxPids : Filtered(n)' => Filtered(n)
    BY <2>2, MendsFacts
  <2>5. ~stranded' => Filtered(j)
    BY <1>1, <1>s, <2>1 DEF DInv, Steady
  <2>6. Steady'
    <3> SUFFICES ASSUME ~stranded' PROVE Filtered(pidindex)'
      BY DEF Steady
    <3>1. PICK f \in filters : f.at = j /\ f.pid = ECMpids[j].pid
      BY <2>5 DEF Filtered
    <3>2. f \in filters' /\ ECMpids'[j].pid = ECMpids[j].pid /\ j <= count
      BY <1>1, <1>2, <1>4, <2>5, <3>1 DEF Filtered
    <3> QED BY <2>1, <3>1, <3>2 DEF Filtered
  <2>7. Aside' /\ Tried'
    BY DEF Aside, Tried
  <2>8. Weighed'
    <3> SUFFICES /\ \A n \in 1 .. count : Filtered(n)' => Live(n)'
                 /\ ~stranded' =>
                      /\ ECMpids'[j].status >= 0
                      /\ \A n \in 1 .. count : n # j => Heavier(n)'
      BY <2>1 DEF Weighed
    <3>1. \A n \in 1 .. count : Filtered(n)' => Live(n)'
      <4> SUFFICES ASSUME NEW n \in 1 .. count, Filtered(n)' PROVE Live(n)'
        OBVIOUS
      <4>1. n \in 1 .. MaxPids /\ Live(n)
        BY <1>1, <2>4 DEF DInv, Weighed
      <4> QED BY <1>2, <4>1 DEF Live
    <3>2. ASSUME ~stranded' PROVE ECMpids'[j].status >= 0
      <4>1. j \in 1 .. count
        BY <1>1, <2>5, <3>2 DEF Filtered
      <4>2. Live(j)
        BY <2>5, <3>2, <4>1 DEF DInv, Weighed
      <4> QED BY <1>1, <1>2, <1>4, <4>2 DEF Live
    <3>3. ASSUME NEW n \in 1 .. count, n # j PROVE Heavier(n)'
      <4>1. n \in 1 .. MaxPids /\ ECMpids[n].status \in Int /\ ECMpids[j].status \in Int
        BY <1>1 DEF Lists, PidRecs
      <4>2. CASE n \in Lesser(j)
        BY <1>2, <1>4, <4>2 DEF Heavier
      <4>3. CASE n \notin Lesser(j)
        <5>1. ECMpids[n].status >= ECMpids[j].status
          BY <3>3, <4>1, <4>3 DEF Lesser
        <5> QED BY <1>1, <1>2, <2>1, <4>1, <5>1 DEF Heavier
      <4> QED BY <4>2, <4>3
    <3> QED BY <3>1, <3>2, <3>3
  <2> QED BY <2>3, <2>6, <2>7, <2>8 DEF DInv
<1> QED BY <1>3, <1>4

LEMMA DInvActOnAnswer ==
  ASSUME DInv, ActOnAnswer
  PROVE  DInv'
<1> DEFINE j == answer.at
<1>1. answer # Idle /\ j \in 1 .. MaxPids /\ answer' = Idle /\ mode' = mode /\ mode \in {0, 1}
  BY MaxPidsNat DEF ActOnAnswer, DInv, DShape
<1>2. CASE answer.rc = "found"
  <2>1. /\ IF mode = 0 THEN TakeFirst(j) ELSE TakeOver(j)
        /\ stranded' = IF pidindex' = pidindex THEN stranded ELSE ~Filtered(j)
        /\ UNCHANGED <<mode, on, running, count, curindex, tried>>
    BY <1>2 DEF ActOnAnswer
  <2>2. CASE mode = 0
    BY <1>1, <2>1, <2>2, DInvTakeFirst
  <2>3. CASE mode = 1
    BY <1>1, <2>1, <2>3, DInvTakeOver
  <2> QED BY <1>1, <2>2, <2>3
<1>3. CASE answer.rc # "found"
  <2>1. Refuses(answer.pid, j, answer.rc)
    BY <1>3 DEF ActOnAnswer
  <2>2. pidindex # 0 /\ ~stranded /\ pidindex # j =>
          \A f \in filters : f.at = pidindex => f.pid # answer.pid
    BY <1>1 DEF DInv, Aside
  <2> QED BY <1>1, <2>1, <2>2, DInvRefuses
<1> QED BY <1>2, <1>3

LEMMA DInvInit ==
  ASSUME DemuxInit
  PROVE  DInv
<1>1. 0 \in 0 .. MaxPids /\ MaxPids \in Nat /\ MaxStatus \in Nat
  BY MaxPidsNat, DemuxAssumption
<1>2. Unused \in Lists
  BY <1>1 DEF Unused, Blank, Lists, PidRecs
<1>3. Idle \in [pid : EcmPids \cup {NoPid}, at : 0 .. MaxPids, rc : Refusals \cup {"found"}]
  BY <1>1 DEF Idle
<1>4. Listed(ECMpids, count) /\ 1 .. count = {}
  BY <1>1 DEF DemuxInit, Listed
<1>5. mode \in {0, 1}
  BY DemuxAssumption DEF DemuxInit
<1>6. DShape
  BY <1>1, <1>2, <1>3, <1>4, <1>5 DEF DemuxInit, DShape
<1>7. Apart /\ Steady /\ Aside
  BY DEF DemuxInit, Apart, Steady, Aside
<1>8. Weighed
  BY <1>4 DEF DemuxInit, Weighed
<1>9. Tried
  BY <1>4 DEF DemuxInit, Tried
<1> QED BY <1>6, <1>7, <1>8, <1>9 DEF DInv

LEMMA DInvStep ==
  ASSUME DInv, [DemuxNext]_demuxVars
  PROVE  DInv'
<1>1. CASE NewProgram \/ UpdateProgram
  BY <1>1, DInvParseCapmt DEF NewProgram, UpdateProgram
<1>2. CASE StopDescrambling
  BY <1>2, DInvStopDescrambling
<1>3. CASE FirstRun
  BY <1>3, DInvFirstRun
<1>4. CASE SecondRun
  BY <1>4, DInvSecondRun
<1>5. CASE StartOver
  BY <1>5, DInvStartOver
<1>6. ASSUME NEW f \in filters, Section(f) PROVE DInv'
  BY <1>6, DInvKillPid, DInvBadSection, DInvWrongChid, DInvRefusedAtOnce, DInvFilterFails
     DEF Section
<1>7. ASSUME NEW p \in EcmPids, NEW rc \in Refusals \cup {"found"}, PidAnswered(p, rc)
      PROVE  DInv'
  BY <1>7, DInvPidAnswered
<1>8. CASE ActOnAnswer
  BY <1>8, DInvActOnAnswer
<1>9. CASE UNCHANGED demuxVars
  <2>1. DShape'
    BY <1>9 DEF demuxVars, DInv, DShape, Listed
  <2>2. Apart' /\ Steady' /\ Aside'
    BY <1>9 DEF demuxVars, DInv, Apart, Steady, Aside, Filtered
  <2>3. Weighed'
    BY <1>9 DEF demuxVars, DInv, Weighed, Filtered, Live, Heavier
  <2>4. Tried'
    BY <1>9 DEF demuxVars, DInv, Tried, Done
  <2> QED BY <2>1, <2>2, <2>3, <2>4 DEF DInv
<1> QED BY <1>1, <1>2, <1>3, <1>4, <1>5, <1>6, <1>7, <1>8, <1>9 DEF DemuxNext

LEMMA DInvAlways == DemuxSpec => []DInv
<1>1. DemuxInit => DInv
  BY DInvInit
<1>2. DInv /\ [DemuxNext]_demuxVars => DInv'
  BY DInvStep
<1> QED BY <1>1, <1>2, PTL DEF DemuxSpec

\* In request mode 1 only an answer makes a pid take over.
LEMMA WhoTakesOver ==
  ASSUME DInv, [DemuxNext]_demuxVars, mode = 1
  PROVE  \/ pidindex' \in {0, pidindex}
         \/ /\ answer # Idle /\ answer.at \in 1 .. MaxPids
            /\ pidindex' = answer.at /\ ECMpids[answer.at].checked # 4
<1>1. ASSUME NEW p, NEW j, NEW rc, Refuses(p, j, rc) PROVE pidindex' \in {0, pidindex}
  BY <1>1 DEF Refuses, Stops, Without
<1>2. CASE NewProgram \/ UpdateProgram
  BY <1>2 DEF NewProgram, UpdateProgram, ParseCapmt, Restarts
<1>3. CASE StopDescrambling \/ FirstRun \/ SecondRun \/ StartOver
  BY <1>3 DEF StopDescrambling, Stops, FirstRun, SecondRun, Runs, StartOver, Restarts
<1>4. ASSUME NEW f \in filters, Section(f) PROVE pidindex' \in {0, pidindex}
  BY <1>1, <1>4 DEF Section, KillPid, BadSection, WrongChid, RefusedAtOnce, FilterFails, Without
<1>5. ASSUME NEW p \in EcmPids, NEW rc \in Refusals \cup {"found"}, PidAnswered(p, rc)
      PROVE  pidindex' = pidindex
  BY <1>5 DEF PidAnswered
<1>6. CASE ActOnAnswer
  <2>1. answer # Idle /\ answer.at \in 1 .. MaxPids
    BY <1>6, MaxPidsNat DEF ActOnAnswer, DInv, DShape
  <2>2. CASE answer.rc = "found"
    <3>1. TakeOver(answer.at)
      BY <1>6, <2>2 DEF ActOnAnswer
    <3> QED BY <2>1, <3>1, TakenOver
  <2>3. CASE answer.rc # "found"
    BY <1>1, <1>6, <2>3 DEF ActOnAnswer
  <2> QED BY <2>2, <2>3
<1>7. CASE UNCHANGED demuxVars
  BY <1>7 DEF demuxVars
<1> QED BY <1>2, <1>3, <1>4, <1>5, <1>6, <1>7 DEF DemuxNext

LEMMA DInvTypeOK ==
  ASSUME DInv
  PROVE  DemuxTypeOK
<1>1. /\ mode \in Modes /\ on \in BOOLEAN /\ running \in BOOLEAN /\ (running => on)
      /\ count \in 0 .. MaxPids /\ pidindex \in 0 .. MaxPids /\ curindex \in 0 .. MaxPids
      /\ ECMpids \in Lists
      /\ filters \subseteq [pid : EcmPids, at : 1 .. MaxPids] /\ tried \subseteq EcmPids
      /\ answer \in [pid : EcmPids \cup {NoPid}, at : 0 .. MaxPids, rc : Refusals \cup {"found"}]
  BY DEF DInv, DShape, Listed
<1>2. mode = 0 => Cardinality(filters) <= 1
  <2> SUFFICES ASSUME mode = 0 PROVE Cardinality(filters) <= 1
    OBVIOUS
  <2>1. CASE filters = {}
    BY <2>1, FS_EmptySet
  <2>2. CASE filters # {}
    <3>1. PICK f \in filters : TRUE
      BY <2>2
    <3>2. filters = {f}
      BY <3>1 DEF DInv, Apart
    <3> QED BY <3>2, FS_Singleton
  <2> QED BY <2>1, <2>2
<1> QED BY <1>1, <1>2 DEF DemuxTypeOK, Lists, PidRecs

\* The demuxer's state (dvbapi_parse_pmt_info, dvbapi_start_descrambling) has its types, and
\* in request mode 0 dvbapi_try_next_caid never has two ECM filters at a time.
THEOREM DemuxTypeOKAlways == DemuxSpec => []DemuxTypeOK
<1>1. DInv => DemuxTypeOK
  BY DInvTypeOK
<1> QED BY <1>1, DInvAlways, PTL

\* The pid that descrambles goes on being filtered for any number of pids when refusals, pids
\* given up and pids that take over end filters (dvbapi_send_dcw, dvbapi_process_input).  A
\* filter that fails or brings another CHID, a new CA PMT, and an answer acted on after its
\* filter has ended are excepted, until another pid takes the place of the one without filter.
THEOREM StillFilteredAlways == DemuxSpec => []StillFiltered
<1>1. DInv => StillFiltered
  BY DEF DInv, Steady, StillFiltered
<1> QED BY <1>1, DInvAlways, PTL

\* In request mode 1 no lighter pid takes over from the one that descrambles (dvbapi_send_dcw),
\* and in request mode 0 dvbapi_main_local starts over only after all pids were tried; with
\* the exceptions of StillFiltered.
THEOREM BestPidAlways == DemuxSpec => BestPid
<1> DEFINE A == ~stranded =>
       /\ mode = 1 /\ on /\ on' /\ pidindex # 0 /\ pidindex' # 0 =>
            ECMpids[pidindex'].status >= ECMpids[pidindex].status
       /\ mode = 0 /\ StartOver =>
            \A n \in Usable(ECMpids, count) : ECMpids[n].pid \in tried
<1>1. ASSUME DInv, [DemuxNext]_demuxVars PROVE A
  <2>1. ASSUME ~stranded, mode = 1, pidindex # 0, pidindex' # 0
        PROVE  ECMpids[pidindex'].status >= ECMpids[pidindex].status
    <3>1. pidindex \in 1 .. MaxPids /\ \A n \in 1 .. MaxPids : ECMpids[n].status \in Int
      BY <1>1, <2>1, MaxPidsNat DEF DInv, DShape, Lists, PidRecs
    <3>2. CASE pidindex' = pidindex
      BY <3>1, <3>2
    <3>3. CASE pidindex' # pidindex
      <4>1. /\ answer # Idle /\ answer.at \in 1 .. MaxPids
            /\ pidindex' = answer.at /\ ECMpids[answer.at].checked # 4
        BY <1>1, <2>1, <3>3, WhoTakesOver
      <4>2. Heavier(answer.at)
        BY <1>1, <2>1, <3>3, <4>1 DEF DInv, Weighed
      <4> QED BY <4>1, <4>2 DEF Heavier
    <3> QED BY <3>2, <3>3
  <2>2. ASSUME ~stranded, mode = 0, StartOver, NEW n \in Usable(ECMpids, count)
        PROVE  ECMpids[n].pid \in tried
    <3>1. /\ n \in 1 .. count /\ ECMpids[n].status >= 0
          /\ ECMpids[n].checked # 0 /\ ECMpids[n].checked # 2
      BY <2>2 DEF Usable, StartOver, Left
    <3>2. ECMpids[n].checked \in 0 .. 4
      BY <1>1, <3>1, MaxPidsNat DEF DInv, DShape, Listed, Lists, PidRecs
    <3>3. Done(n)
      BY <3>1, <3>2 DEF Done
    <3> QED BY <1>1, <2>2, <3>1, <3>3 DEF DInv, Tried
  <2> QED BY <2>1, <2>2
<1>2. DInv /\ [DemuxNext]_demuxVars => [A]_demuxVars
  BY <1>1
<1> QED BY <1>2, DInvAlways, PTL DEF BestPid, DemuxSpec
=============================================================================
