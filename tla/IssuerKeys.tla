----------------------------- MODULE IssuerKeys -----------------------------
(***************************************************************************)
(* The issuer's key store (keys.py) and what its well-known document says  *)
(* of it (issuer/app.py).  A key file is a sequence of entries             *)
(*                                                                         *)
(*   [purpose, algorithm, key_id, claim, key, meta, assurance]             *)
(*                                                                         *)
(* where key is the key pair, claim stands for the whole binding of a      *)
(* token key (claim, assurance level, epoch), and meta and assurance are   *)
(* the signed metadata of a credential key.                                *)
(***************************************************************************)
EXTENDS Naturals, Sequences

Algorithms == [token_signing |-> {"ed25519", "mock", "rsabssa"},
               vc_signing |-> {"bbs"}]

\* The constructor's checks: known algorithms, one entry per key id or tuple.
LoadableKeys(file) ==
  /\ \A i \in DOMAIN file : file[i].algorithm \in Algorithms[file[i].purpose]
  /\ \A i, j \in DOMAIN file :
       i # j /\ file[i].purpose = file[j].purpose =>
         IF file[i].purpose = "vc_signing" THEN file[i].key_id # file[j].key_id
         ELSE file[i].claim # file[j].claim

\* _by_tuple.get, as a set of at most one entry; also what a wallet finds in
\* the well-known document when it looks for a claim's key.
EntriesFor(file, claim) ==
  {file[i] : i \in {j \in DOMAIN file :
     file[j].purpose = "token_signing" /\ file[j].claim = claim}}

\* blind_signer_for and signer_for: a blind key never signs plaintext.
BlindSigners(file, claim) ==
  {entry \in EntriesFor(file, claim) : entry.algorithm = "rsabssa"}
PlainSigners(file, claim) ==
  {entry \in EntriesFor(file, claim) : entry.algorithm # "rsabssa"}

\* vc_entries, by their places in the file; vc_signer_for takes the first.
VcIndexes(file) == {i \in DOMAIN file : file[i].purpose = "vc_signing"}
VcSigner(file) ==
  file[CHOOSE i \in VcIndexes(file) : \A j \in VcIndexes(file) : i <= j]
=============================================================================
