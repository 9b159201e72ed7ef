---------------------------- MODULE MCExtension ----------------------------
(***************************************************************************)
(* One tab, two challenges (of one site or of two), an exported file of    *)
(* one token and one nonce to mint.  Two handlers are enough for any pair  *)
(* of messages to overlap; the same file may be imported again after its   *)
(* token was spent.                                                        *)
(***************************************************************************)
EXTENDS Extension, TLC

CONSTANTS siteA, siteB, chA, chB, i1, m1

MCAudience == chA :> siteA @@ chB :> siteB
MCOneAudience == [ch \in {chA, chB} |-> siteA]
MCImportFiles == {{i1}}
MCMintNonces == {m1}
\* The imported token meets only one of the two challenges.
MCEligible == chA :> Nonces @@ chB :> MintNonces
\* Either token meets both.
MCAnyEligible == [ch \in {chA, chB} |-> Nonces]

HandlerSymmetry == Permutations(Handlers)
=============================================================================
