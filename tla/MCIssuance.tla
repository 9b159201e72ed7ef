----------------------------- MODULE MCIssuance -----------------------------
(***************************************************************************)
(* Small instances of Issuance: RSA moduli 15 and 21, a group of order 5.  *)
(***************************************************************************)
EXTENDS Issuance

CONSTANTS n1, n2, ph1, ph2

MCNonces == {n1, n2}
MCSalts == {"a", "b"}
\* Every encoding is below half of both moduli, and no two are the same; 5
\* shares a factor with 15, and 7 with 21.
MCEncode(message, salt, n) ==
  IF message = n1 THEN (IF salt = "a" THEN 2 ELSE 5)
                  ELSE (IF salt = "a" THEN 7 ELSE 4)

MCH == <<2, 4, 1, 3, 2, 4>>
MCTildes == {<<1, 2, 3, 4, 2>>, <<3, 1, 4, 2, 1>>}
MCCalculateDomain(w, L) == (3 * w + L) % r
MCHashE(sk, msgs) == (2 * sk + FoldLeft(LAMBDA a, b : 2 * a + b, 1, msgs)) % r
MCClaimScalar(claim) == IF claim = 13 THEN 3 ELSE IF claim = 16 THEN 1 ELSE 4

Entry(purpose, algorithm, key_id, claim, key, meta) ==
  [purpose |-> purpose, algorithm |-> algorithm, key_id |-> key_id,
   claim |-> claim, key |-> key, meta |-> meta, assurance |-> 2]
TokenEntry(algorithm, claim, key) ==
  Entry("token_signing", algorithm, claim, claim, key, <<>>)
VcEntry(sk, epoch) ==
  Entry("vc_signing", "bbs", 0, 0, [sk |-> sk], <<1, 2, epoch>>)

Rsa15 == [n |-> 15, e |-> 3, d |-> 3]
Rsa21 == [n |-> 21, e |-> 5, d |-> 5]
\* The second file has the keys made again, under the same ids, with the
\* credential key for another epoch; the third has a plain key and no
\* credential key; the last does not load.
MCKeyFiles ==
  {<<TokenEntry("rsabssa", 16, Rsa15), VcEntry(2, 3)>>,
   <<TokenEntry("rsabssa", 16, Rsa21), VcEntry(3, 4)>>,
   <<TokenEntry("ed25519", 16, [ed |-> 1])>>,
   <<TokenEntry("ed25519", 16, [ed |-> 2]), TokenEntry("rsabssa", 16, Rsa15)>>}

MCClaimSets == {{}, {13}, {13, 16}, {13, 16, 18}}
MCChallenges ==
  {[required |-> 16, assurance |-> 2, open |-> TRUE, ph |-> ph1],
   [required |-> 13, assurance |-> 1, open |-> TRUE, ph |-> ph2],
   [required |-> 13, assurance |-> 3, open |-> TRUE, ph |-> ph1],
   [required |-> 16, assurance |-> 2, open |-> FALSE, ph |-> ph2]}

\* Tokens and the credential share nothing but the key store: a behaviour has
\* tokens or a credential.
OneProduct == credential = NoCredential \/ (command = Idle /\ drawn = {})
=============================================================================
