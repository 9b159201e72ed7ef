-------------------------- MODULE MCRegistryCache --------------------------
(***************************************************************************)
(* Two root keys; the first signs three registries over time, the second   *)
(* one that lies between them.  One issuer's key is approved, then dropped; *)
(* the second root approves another issuer, too.                          *)
(***************************************************************************)
EXTENDS Onboarding, FiniteSets, TLC

CONSTANTS root1, root2, key1, key2, site1, site2

Reg(root, t, keys) == [root |-> root, generated_at |-> t, approves |-> keys]
MCRegistries ==
  {Reg(root1, 1, {key1}), Reg(root1, 3, {}), Reg(root2, 2, {key1, key2})}

MCAdvertises == (site1 :> {key1}) @@ (site2 :> {key2})

\* Bounds.  No guard reads mints, so nothing is lost by stopping at the first
\* one; of starts there are two.
FewSent == mints = {} /\ Cardinality(starts) <= 2

HandlerSymmetry == Permutations(Handlers)
=============================================================================
