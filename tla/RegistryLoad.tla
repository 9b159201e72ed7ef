---------------------------- MODULE RegistryLoad ----------------------------
(***************************************************************************)
(* What TrustRegistry.load takes for a registry: a document with its       *)
(* signature files, pinned root keys, a policy and, optionally, an anchor. *)
(* Pure.  A signature stands for the key that made it; "garbage" is one    *)
(* that no key verifies.                                                   *)
(***************************************************************************)
CONSTANTS
  RootKeys,   \* root keys, classical and post-quantum
  Documents,
  Missing     \* no file, no key pinned, no anchor given

Policies == {"classical-only", "hybrid-preferred", "hybrid-required"}
Signatures == RootKeys \cup {"garbage"}

Loads ==
  [doc : Documents, sig : Signatures, mldsa_sig : Signatures \cup {Missing},
   root : RootKeys, mldsa_root : RootKeys \cup {Missing}, policy : Policies,
   anchor : Documents \cup {Missing, "unreachable"}]

EdVerifies(l) == l.sig = l.root
MldsaVerifies(l) == l.mldsa_sig = l.mldsa_root
Pinned(l) == l.mldsa_root # Missing

\* verify_registry_hybrid.
VerifyHybrid(l) ==
  /\ EdVerifies(l)
  /\ \/ l.policy = "classical-only"
     \/ l.policy = "hybrid-preferred" /\ ~ Pinned(l)
     \/ Pinned(l) /\ l.mldsa_sig # Missing /\ MldsaVerifies(l)

\* load goes by the hybrid rules when any part of them is configured.
HybridEngaged(l) == l.policy # "classical-only" \/ Pinned(l)
Accepts(l) ==
  /\ IF HybridEngaged(l) THEN VerifyHybrid(l) ELSE EdVerifies(l)
  /\ l.anchor = Missing \/ l.anchor = l.doc

\* Who can forge the classical signature but not the post-quantum one gains
\* nothing by leaving the latter out, breaking it or making it with another
\* key, once a key is pinned and the policy is a hybrid one; `preferred' is then
\* `required'; and an anchor only ever turns documents away.
DowngradeNeverHelps ==
  \A l \in Loads :
    /\ Accepts(l) => EdVerifies(l)
    /\ Pinned(l) /\ l.policy # "classical-only" /\ ~ MldsaVerifies(l)
         => ~ Accepts(l)
    /\ Pinned(l) => (Accepts([l EXCEPT !.policy = "hybrid-preferred"])
                       <=> Accepts([l EXCEPT !.policy = "hybrid-required"]))
    /\ Accepts(l) => Accepts([l EXCEPT !.anchor = Missing])
=============================================================================
