----------------------------- MODULE EcmReaders -----------------------------
(***************************************************************************)
(* The reader lists, the selections and the requests the small instances   *)
(* of EcmRequest are made of.                                              *)
(***************************************************************************)
EXTENDS TLC, Sequences

CONSTANTS norm, local, fall, cex, q1, q2, ecm

\* A reader list and what its readers are
OneNorm      == <<norm>>
CexNorm      == <<cex, norm>>
CexLocalFall == <<cex, local, fall>>

KindOf(list) ==
  [r \in {list[i] : i \in DOMAIN list} |->
     CASE r = local -> {"LOCAL"} [] r = fall -> {"FALLBACK"} [] r = cex -> {"CACHEEX"} [] OTHER -> {}]
OneNormKind      == KindOf(OneNorm)
CexNormKind      == KindOf(CexNorm)
CexLocalFallKind == KindOf(CexLocalFall)

\* The readers lb_set_best_reader leaves active: all of them, or any
AllOf(list)  == {{list[i] : i \in DOMAIN list}}
SomeOf(list) == SUBSET {list[i] : i \in DOMAIN list}
OneNormAll      == AllOf(OneNorm)
OneNormAny      == SomeOf(OneNorm)
CexNormAll      == AllOf(CexNorm)
CexLocalFallMay == AllOf(CexLocalFall) \cup {{cex}}
LocalFallAny    == SUBSET {local, fall}

OneEcm  == [q \in {q1} |-> ecm]
SameEcm == [q \in {q1, q2} |-> ecm]
Swap    == Permutations({q1, q2})
=============================================================================
