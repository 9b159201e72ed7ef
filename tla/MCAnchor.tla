------------------------------ MODULE MCAnchor ------------------------------
(***************************************************************************)
(* Two documents, the second dated after the first, and two versions; one  *)
(* publisher, which may stop and be run again, next to operations executed *)
(* by hand.                                                                *)
(***************************************************************************)
EXTENDS Anchor, FiniteSets, TLC

CONSTANTS d1, d2

MCGeneratedAt == d1 :> 1 @@ d2 :> 2

\* A bound: one of the three observers at a time.  None of them changes anything
\* that another one, the chain or a publisher reads.
Watched ==
  (IF audit # NoAudit THEN {"auditor"} ELSE {})
    \cup {s \in Servers :
            cache[s] # None \/ \E r \in Requests : request[r].server = s}
OneObserver == \E s \in Servers \cup {"auditor"} : Watched \subseteq {s}

\* A bound: two operations wait in the timelock at a time.
TwoPending == Cardinality({o \in Operations : scheduled[o] \in Nat}) <= 2
=============================================================================
