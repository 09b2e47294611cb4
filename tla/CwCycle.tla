------------------------------ MODULE CwCycle ------------------------------
(***************************************************************************)
(* The CW cycle check of one service (module-cw-cycle-check.c): from the   *)
(* CWs that pass by it learns how long a CW lives and which half of it     *)
(* stays when the next one comes, and from then on refuses CWs that do not *)
(* follow.  What has been learned is an entry that a thread copies, works  *)
(* on without a lock, and puts back on top of the list.                    *)
(*                                                                         *)
(* A CW is a pair of halves.  Each ECM brings a new half and keeps the one *)
(* that came with the ECM before.  Half 0 came with the current ECM, half  *)
(* -1 with the one before, and so on, so all that is kept grows older      *)
(* while time goes on without a bound.  Wrong CWs have halves of their own *)
(* in both places, or in one beside a half of the right CW or of the one   *)
(* before; or they are the CW of the ECM before.                           *)
(*                                                                         *)
(* cwcycle_dropold is on and cwcycle_usecwcfromce off, as by default; the  *)
(* length of ECMs does not change and no CW is half empty.  Of the 15 ECMs *)
(* an entry remembers only those that may still be asked for matter.       *)
(***************************************************************************)
EXTENDS Integers

CONSTANTS
  Checkers,     \* threads that check CWs
  WrongCws,     \* the numbers of the halves that only wrong CWs have
  Period,       \* ticks from one ECM to the next
  Delay,        \* how long a request may be under way until its CW is checked
  FallbackTime, \* get_fallbacktimeout, in ticks
  KeepTime,     \* keepcycletime, 0 or in ticks
  CleanTime,    \* how much longer an entry stays
  AllowBad,     \* cwcycle_allowbadfromffb
  Sensitive,    \* cwcycle_sensitive is not 0 (it is 4 by default)
  MaxRepeat,    \* looks in stage 4: 12
  MaxAge,       \* bound: an entry is cleaned up before it is older
  MaxSlow       \* bound: how long a thread takes to put its entry back

ASSUME CycleAssumption ==
  /\ WrongCws \subseteq Nat \ {0}
  /\ Period \in Nat \ {0} /\ Delay \in 0..Period /\ KeepTime \in Nat /\ CleanTime \in Nat
  /\ Sensitive \in BOOLEAN

VARIABLES
  phase,    \* ticks of two ECMs: the current one is even or odd
  entry,    \* what the first entry of the list for this service says, or None
  pending,  \* pending[t]: the entry t is about to put on top
  newest,   \* history: the last ECM its right CW was checked for, or the first one
  broken,   \* history: right CWs left an ECM out or came out of order, or checks overlapped,
            \* or a CW that shares a half with another misled the check
  fooled    \* history: such a wrong CW was learned from or has passed

cycleVars == <<phase, entry, pending, newest, broken, fooled>>

None == [stage |-> -1]
Odd  == phase >= Period

\* A request of some ticks ago was for the current ECM or the one before.
EcmOf(ago) == IF ago <= phase % Period THEN 0 ELSE -1

Oldest == -3  \* halves and ECMs that old are not told apart

\* The new half of a CW is the second one if its ECM is odd.
RightCw(ecm) == IF Odd = (ecm \in {0, -2}) THEN <<ecm - 1, ecm>> ELSE <<ecm, ecm - 1>>
WrongCw(w)   == <<w, w>>
NoCw         == <<0 - 4, 0 - 4>>   \* memset
Unknown      == 2                  \* nextcyclecw: not known which half stays

-----------------------------------------------------------------------------
(* checkcwcycle_int.  Its times are ticks ago; gap is now - cwc->time. *)

Gap(e, ago) == e.ago - ago

\* Mutant of Stays: n == m is not tested.
StaysFirst(e, cw) == IF cw[2] = e.cw[2] THEN 0 ELSE IF cw[1] = e.cw[1] THEN 1 ELSE Unknown
\* Learned from two CWs: which half of cw stays, if just one was kept.
Stays(e, cw) ==
  IF cw[1] = e.cw[1] /\ cw[2] # e.cw[2] THEN 1
  ELSE IF cw[2] = e.cw[2] /\ cw[1] # e.cw[1] THEN 0 ELSE Unknown

Stable(e, gap) == gap - e.cycle \in -1..1

\* The stage that follows when the CW for a learning entry has come
Learn(e, cw, gap) ==
  LET stays == Stays(e, cw)
  IN CASE e.stage = 0 -> [e EXCEPT !.stage = IF Stable(e, gap) THEN 1 ELSE 0]
       [] e.stage = 1 -> [e EXCEPT !.stage = IF Stable(e, gap) THEN 2 ELSE 0]
       [] e.stage = 2 -> IF Stable(e, gap) /\ e.cycle > 0 /\ stays # Unknown
                         THEN [e EXCEPT !.stage = 3, !.cycle = gap, !.stays = stays]
                         ELSE [e EXCEPT !.stage = 1]
       [] e.stage = 4 -> IF stays # Unknown THEN [e EXCEPT !.stage = 3, !.stays = stays]
                         ELSE [e EXCEPT !.stage = IF e.repeat > MaxRepeat THEN 1 ELSE 4,
                                        !.repeat = @ + 1]
       [] OTHER -> e

\* Its times: how far stage 3 is behind the cycle time, and that others have to wait.
Timed(e, gap) ==
  IF e.stage = 3
  THEN [e EXCEPT !.locked = FALSE, !.repeat = 0, !.dyn = IF gap > e.cycle THEN gap - e.cycle ELSE 0]
  ELSE [e EXCEPT !.locked = TRUE, !.cycle = IF e.stage < 3 THEN gap ELSE @]

\* An entry in stage 3 that is too old to be checked against
Aged(e, gap) ==
  IF e.stage # 3 THEN e
  ELSE [e EXCEPT !.stage = IF KeepTime > 0 /\ gap < KeepTime THEN 4 ELSE 2,
                 !.cw = NoCw, !.stays = Unknown]

\* The entry that is put back
Updated(e, ecm, cw, ago) == [e EXCEPT !.cw = cw, !.ago = ago, !.ecms = @ \cup {ecm}]

Result(verdict, e) == [verdict |-> verdict, entry |-> e]

\* The entry can be checked against: not more than one ECM can have come since.
Window(e, gap) == e.stage = 3 /\ gap < 2 * e.cycle - e.dyn - 1

\* Mutant of Follows: the half that stayed the last time.
FollowsLast(e, cw) == cw[2 - e.stays] = e.cw[2 - e.stays]
Follows(e, cw) == cw[e.stays + 1] = e.cw[e.stays + 1]

\* countCWpart: the half that has to change must not be like the one it replaces, that is,
\* not have cwcycle_sensitive or more of its 8 bytes in their places.
Passes(e, cw, like) == Follows(e, cw) /\ ~(Sensitive /\ like)

\* The verdict on a CW in stage 3, from a fixed fallback reader or another
Compare(e, ecm, cw, ago, fixed, like) ==
  LET gap == Gap(e, ago)
  IN IF cw = e.cw
     THEN Result(IF gap >= e.cycle - e.dyn THEN "old" ELSE "same", None)
     ELSE IF Passes(e, cw, like)
     THEN Result("ok", Updated(Timed([e EXCEPT !.stays = 1 - @], gap), ecm, cw, ago))
     ELSE IF ecm \in e.ecms THEN Result("old", None)
     ELSE IF AllowBad /\ fixed
     THEN Result("allowed", Updated([e EXCEPT !.stage = 4, !.stays = Unknown], ecm, cw, ago))
     ELSE Result("bad", None)

\* checkcwcycle: the verdicts on which the CW is dropped (onbadcycle is on)
Dropped(verdict) == verdict \in {"bad", "old"}

Locked(e, gap) == e.locked /\ gap <= FallbackTime

\* checkcwcycle_int with an entry: the verdict, and the entry to be put back, if any
Verdict(e, ecm, cw, ago, fixed, like) ==
  LET gap == Gap(e, ago)
      f   == Aged(e, gap)
  IN IF Window(e, gap) THEN Compare(e, ecm, cw, ago, fixed, like)
     ELSE IF Locked(f, gap) THEN Result("learning", None)
     ELSE Result("learning", Updated(Timed(Learn(f, cw, gap), gap), ecm, cw, ago))

NewEntry(ecm, cw, ago) ==
  [stage |-> 0, cw |-> cw, ago |-> ago, locked |-> TRUE, cycle |-> 99, dyn |-> 0,
   stays |-> Unknown, repeat |-> 0, ecms |-> {ecm}]

-----------------------------------------------------------------------------
HalvesAt(ecm, n) == WrongCws \cup {RightCw(ecm)[n], RightCw(ecm - 1)[n]}
Cws(ecm)         == HalvesAt(ecm, 1) \X HalvesAt(ecm, 2)

\* A CW that is not right for its ECM and shares a half with others
Mixed(ecm, cw) == cw # RightCw(ecm) /\ \A w \in WrongCws : cw # WrongCw(w)

\* t checks the CW for a request of some ticks ago: it copies the entry and decides.
Check(t, ago, cw, fixed, like) ==
  /\ pending[t] = None
  /\ LET ecm == EcmOf(ago)
         put == IF entry = None THEN NewEntry(ecm, cw, ago)
                ELSE Verdict(entry, ecm, cw, ago, fixed, like).entry
         right == cw = RightCw(ecm)
         misled == put # None /\ Mixed(ecm, cw)
         overlap == \E u \in Checkers : pending[u] # None
     IN /\ pending' = [pending EXCEPT ![t] = put]
        /\ newest' = IF entry = None \/ (right /\ ecm > newest) THEN ecm ELSE newest
        /\ broken' = \/ entry # None /\ broken
                     \/ /\ entry # None /\ right
                        /\ ecm \notin newest..newest + 1 \/ (Sensitive /\ like)
                     \/ overlap \/ misled
        /\ fooled' = ((fooled /\ (entry # None \/ overlap)) \/ misled)
  /\ UNCHANGED <<phase, entry>>

\* t puts its entry on top.
Insert(t) ==
  /\ pending[t] # None
  /\ entry' = pending[t]
  /\ pending' = [pending EXCEPT ![t] = None]
  /\ UNCHANGED <<phase, newest, broken, fooled>>

\* cleanupcwcycle
Cleanup ==
  /\ entry # None /\ entry.ago > KeepTime + CleanTime
  /\ entry' = None
  /\ UNCHANGED <<phase, pending, newest, broken, fooled>>

\* A half or an ECM, and an entry, one tick later
NextEcm(n) == IF (phase + 1) % Period = 0 /\ n \in Oldest + 1..0 THEN n - 1 ELSE n
Later(e) ==
  IF e = None THEN None
  ELSE [e EXCEPT !.ago = @ + 1, !.cw = <<NextEcm(@[1]), NextEcm(@[2])>>,
                 !.ecms = {NextEcm(n) : n \in @} \cap {-1, 0}]

Tick ==
  /\ entry # None => entry.ago < MaxAge
  /\ \A t \in Checkers : pending[t] # None => pending[t].ago < MaxSlow
  /\ phase' = (phase + 1) % (2 * Period)
  /\ entry' = Later(entry)
  /\ pending' = [t \in Checkers |-> Later(pending[t])]
  /\ newest' = NextEcm(newest)
  /\ UNCHANGED <<broken, fooled>>

CycleInit ==
  /\ phase = 0
  /\ entry = None
  /\ pending = [t \in Checkers |-> None]
  /\ newest = -1 /\ broken = FALSE /\ fooled = FALSE

\* Whether the reader is a fixed fallback, and whether the halves are alike, is looked at
\* only for a CW that is compared.
Asked(ago) == IF entry # None /\ Window(entry, Gap(entry, ago)) THEN BOOLEAN ELSE {FALSE}

CycleNext ==
  \/ \E t \in Checkers :
       \/ \E ago \in 0..Delay : \E cw \in Cws(EcmOf(ago)), fixed, like \in Asked(ago) :
            Check(t, ago, cw, fixed, like)
       \/ Insert(t)
  \/ Cleanup \/ Tick

CycleSpec == CycleInit /\ [][CycleNext]_cycleVars

-----------------------------------------------------------------------------
\* Type invariant of an entry and those about to be put back.
CycleTypeOK ==
  /\ phase \in 0..2 * Period - 1 /\ newest \in Oldest..0
  /\ \A e \in {entry} \cup {pending[t] : t \in Checkers} : e # None =>
       /\ e.stage \in 0..4 /\ e.stays \in {0, 1, Unknown}
       /\ e.stays = Unknown <=> e.stage # 3
       /\ e.dyn >= 0 /\ e.ago \in 0..MaxAge

\* Whatever was learned from, in whatever order threads put their entries back: an entry
\* that CWs are checked against holds a right CW, so one whose half that has to stay is wrong
\* does not pass, neither as the one that is known nor as the next, unless it comes from a
\* fixed fallback reader that may (checkcwcycle_int).  Not so once a wrong CW that shares a
\* half with a right one was learned from or has passed, as the comment on countCWpart says:
\* "freeze, but for cwc is ok"; until the entry is gone.
NotFooled ==
  entry # None /\ ~fooled => \A ago \in 0..Delay : Window(entry, Gap(entry, ago)) =>
    \A cw \in Cws(EcmOf(ago)), like \in BOOLEAN : cw[entry.stays + 1] \in WrongCws =>
      Dropped(Verdict(entry, EcmOf(ago), cw, ago, FALSE, like).verdict)

\* As long as, since the entry was begun, right CWs came in order and for every ECM, none of
\* them with a new half like the old one, no check began before the entry of the one before
\* was on top, and no wrong CW that shares a half with a right one was learned from or has
\* passed ("cw is right, cwc out of step"): no right CW whose new half is not like the old
\* one is refused as a bad cycle, however many wrong ones came and at whatever times
\* (checkcwcycle_int).
RightOnesPass ==
  entry # None /\ ~broken /\ (\A t \in Checkers : pending[t] = None) => \A ago \in 0..Delay :
    EcmOf(ago) \in newest..newest + 1 =>
      Verdict(entry, EcmOf(ago), RightCw(EcmOf(ago)), ago, FALSE, FALSE).verdict # "bad"
=============================================================================
