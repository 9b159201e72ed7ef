---------------------------- MODULE MCVerifier ----------------------------
(***************************************************************************)
(* A site with one trusted issuer, two tokens and one reusable credential. *)
(* Times: the credential key expires at 1 and the token key at 2, a        *)
(* challenge lives one tick and the clock runs to 2, so a request can come *)
(* before, at and after either deadline and be overtaken by both.          *)
(***************************************************************************)
EXTENDS Verifier, TLC

CONSTANTS n1, n2, c1, c2

MCIssuers == {[issuer_id |-> "gov", status |-> "active"]}

TokenSigningKey ==
  [issuer_id |-> "gov", key_id |-> "k1", purpose |-> "token_signing",
   algorithm |-> "rsabssa", public_key |-> "pk1", claim |-> "18",
   assurance_level |-> 2, epoch |-> "Q1", valid_from |-> 0, valid_until |-> 2]
VcSigningKey ==
  [TokenSigningKey EXCEPT !.key_id = "v1", !.purpose = "vc_signing",
     !.algorithm = "bbs-bls12381-sha256", !.public_key = "pk2",
     !.claim = "none", !.valid_until = 1]
MCKeys == {TokenSigningKey, VcSigningKey}

MCPolicy ==
  [required_claim |-> "18", minimum_assurance_level |-> 2,
   trusted_issuers |-> {"gov"}, allowed_algorithms |-> {"rsabssa"},
   require_domain_binding |-> TRUE, require_single_use |-> TRUE]

TokenPresentation(n, id, value, aud) ==
  [endpoint |-> "redeem", issuer_id |-> "gov", issuer_key_id |-> "k1",
   claim |-> "18", assurance_level |-> 2, epoch |-> "Q1", nonce |-> n,
   signer |-> "pk1", audience |-> aud, challenge_id |-> id,
   challenge |-> value]
VcPresentation(id, value, bound) ==
  [endpoint |-> "redeem-vc", issuer_id |-> "gov", issuer_key_id |-> "v1",
   claim |-> "18", assurance_level |-> 2, epoch |-> "Q1",
   well_shaped |-> TRUE, signer |-> "pk2", audience |-> "site",
   challenge_id |-> id, challenge |-> value, bound_to |-> bound]

\* One token with every pairing of an id with a value, right and wrong; the same
\* addressed to another site, and signed by another key; a second token; a
\* proof made for its challenge and a proof made for another one.
TokensFor(nonces, ids) ==
  {TokenPresentation(n, id, v, "site") : n \in nonces, id \in ids, v \in ids}
Refused ==
  {TokenPresentation(n1, c1, c1, "elsewhere"),
   [TokenPresentation(n1, c1, c1, "site") EXCEPT !.signer = "pk2"]}

MCPresentations ==
  TokensFor({n1}, {c1, c2}) \cup Refused
    \cup {TokenPresentation(n2, c2, c2, "site"),
          VcPresentation(c1, c1, <<"site", c1, c1>>),
          VcPresentation(c2, c2, <<"site", c1, c1>>)}
=============================================================================
