------------------------------- MODULE Chains -------------------------------
(***************************************************************************)
(* Nodes linked by pointers: what is reached from a node along the links.  *)
(* The lists of ncam-llist.c and ncam-garbage.c are read this way.         *)
(***************************************************************************)
CONSTANT Nil  \* the null pointer

\* No link leads out of S.
Closed(links, S) == \A e \in S : links[e] \in S \cup {Nil}

\* The nodes of D from d on: the least set with d that no link leads out of
ChainIn(D, links, d) ==
  {e \in D : \A S \in SUBSET D : d \in S \cup {Nil} /\ Closed(links, S) => e \in S}
=============================================================================
