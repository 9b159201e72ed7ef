------------------------------ MODULE MCVault ------------------------------
(***************************************************************************)
(* Two commands at a time, one issuer, two tokens, two challenges of which *)
(* the second accepts one token only.                                      *)
(***************************************************************************)
EXTENDS Vault, TLC

CONSTANTS n1, n2, chA, chB

MCEligible == chA :> {n1, n2} @@ chB :> {n2}

ProcessSymmetry == Permutations(Processes)
=============================================================================
