--------------------------- MODULE TrustRegistry ---------------------------
(***************************************************************************)
(* The verified issuer registry a relying site has loaded: pure lookups,   *)
(* no state.  A TrustRegistry object is immutable once from_dict has       *)
(* accepted it, so it is a pair of constants here.                         *)
(*                                                                         *)
(* An assurance level is its rank (AAL0 = 0 ... AAL3 = 3) and a public key *)
(* is an opaque value; the payload fields no lookup reads are left out.    *)
(***************************************************************************)
EXTENDS Naturals

CONSTANTS
  Issuers,  \* records [issuer_id, status]
  Keys      \* records [issuer_id, key_id, purpose, algorithm, public_key,
            \*          claim, assurance_level, epoch, valid_from, valid_until]

\* The key materials listed for one purpose, with the key that lists them.
KeysFor(purpose) == {k \in Keys : k.purpose = purpose}

\* What from_dict refuses to load: two issuers of one name, two keys of one
\* issuer with one key_id, two token keys of one issuer bound to the same
\* (claim, assurance, epoch), material shared by two signing keys, or a
\* signing key that doubles as a registry key.
Loadable ==
  /\ \A i, j \in Issuers : i.issuer_id = j.issuer_id => i = j
  /\ \A k, l \in Keys :
       k.issuer_id = l.issuer_id /\ k.key_id = l.key_id => k = l
  /\ \A k, l \in KeysFor("token_signing") :
       /\ k.issuer_id = l.issuer_id
       /\ <<k.claim, k.assurance_level, k.epoch>>
            = <<l.claim, l.assurance_level, l.epoch>>
       => k = l
  /\ \A k, l \in KeysFor("token_signing") \cup KeysFor("vc_signing") :
       k.public_key = l.public_key => k = l
  /\ \A k \in KeysFor("token_signing") \cup KeysFor("vc_signing") :
       \A r \in KeysFor("registry") : k.public_key # r.public_key

ASSUME RegistryAssumption == Loadable

\* get_issuer(...).status is ACTIVE: the issuer is known and active.
ActiveIssuer(id) == \E i \in Issuers : i.issuer_id = id /\ i.status = "active"

\* get_token_key / get_vc_key: the one key of that issuer, name and purpose,
\* as a set that is empty where the code returns None.
TokenKey(issuer, kid) ==
  {k \in KeysFor("token_signing") : k.issuer_id = issuer /\ k.key_id = kid}
VcKey(issuer, kid) ==
  {k \in KeysFor("vc_signing") : k.issuer_id = issuer /\ k.key_id = kid}

AssuranceAtLeast(level, minimum) == level >= minimum

\* now lies in the key's validity window, both ends included.
InWindow(key, now) == key.valid_from <= now /\ now <= key.valid_until
=============================================================================
