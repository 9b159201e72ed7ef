------------------------------ MODULE Issuance ------------------------------
(***************************************************************************)
(* What a wallet gets from the issuer and what it can show of it: blind    *)
(* and plain tokens (client.py mint, issuer/app.py issue) and the reusable *)
(* credential with its selective proofs (vc_get, issue_credential,         *)
(* vc_prove).  The issuer may be restarted with other keys between the     *)
(* wallet's two requests of a mint, or any time later.  Rsabssa and Bbs    *)
(* have the cryptography, IssuerKeys the key store.                        *)
(*                                                                         *)
(* The wallet runs one command at a time (Vault has the overlapping ones)  *)
(* for one enrolled person, whose eligible claims do not change.           *)
(***************************************************************************)
EXTENDS Rsabssa, Bbs, IssuerKeys

CONSTANTS
  Nonces,          \* what secrets.token_bytes may draw
  KeyFiles,        \* the key files the issuer may be started with
  ClaimSets,       \* the eligible claims of the enrolled persons; claims are ages
  ClaimScalar(_),  \* the scalar a claim hashes to
  Challenges,      \* records required, assurance, open and ph
  MaxBatch,        \* MAX_BATCH
  MaxRotations,    \* bound on restarts with other keys
  MaxProofs        \* bound on proofs shown

VARIABLES
  claims,       \* what the enrolled person is eligible for
  keys,         \* the issuer's key store
  published,    \* every entry the well-known document ever had
  rotations,    \* restarts with other keys so far
  command,      \* the wallet command under way
  drawn,        \* nonces drawn so far
  tokens,       \* the tokens in the vault
  seen,         \* what the issuer has received in issue requests
  credential,   \* the credential in the vault, or NoCredential
  shown,        \* proofs presented to sites
  asked         \* questions to the random oracle, with its answers

vars == <<claims, keys, published, rotations, command, drawn, tokens, seen,
          credential, shown, asked>>

walletVars == <<command, drawn, tokens>>
vcVars == <<credential, shown, asked>>
issuerVars == <<claims, keys, published, rotations>>

Idle == [at |-> "idle"]
NoCredential == [sk |-> 0]
Claims == UNION ClaimSets

-----------------------------------------------------------------------------
\* Signatures.  A plain one (ed25519, mock) is the record of who signed what;
\* a blind one is an integer, in a record so that TLC can compare the two.
Plain(key, nonce) == [by |-> key, of |-> nonce]
Raw(s) == [raw |-> s]

\* What a verifier that holds key does with a token.
TokenVerifies(entry, token) ==
  IF entry.algorithm = "rsabssa"
  THEN /\ DOMAIN token.signature = {"raw"}
       /\ PssVerifies(entry.key, token.nonce, token.signature.raw)
  ELSE token.signature = Plain(entry.key, token.nonce)

\* vc_message_vector: three metadata messages and the sorted claims.
MessageVector(meta, some) ==
  meta \o [i \in 1 .. Cardinality(some) |-> ClaimScalar(Ascending(some)[i])]

\* [0, 1, 2, claim_index], counted from one.
DisclosedIndexes(some, required) ==
  <<1, 2, 3, 3 + Cardinality({c \in some : c <= required})>>

\* Faulty variants: what a plausible slip would make of the definition each is
\* named after.  Nothing in the specification uses them; put in the place of
\* the original, each one makes TLC find the property in brackets violated.

\* [TokensVerify] the unblinded signatures are stored unverified.
FinalizesUnverified(sent, signatures) == TRUE
\* [TypeOK] a person without claims gets a credential of the metadata alone.
CredentialForAnyone(some, file) ==
  /\ VcIndexes(file) # {}
  /\ LET vc == VcSigner(file) IN ~ SignFails(vc.key.sk, MessageVector(vc.meta, some))

-----------------------------------------------------------------------------
\* What a key file is made of: RSA key pairs over which messages encode to
\* residues, and credential keys with their three metadata messages.
ProperEntry(entry) ==
  /\ entry.algorithm = "rsabssa" =>
       /\ IsKeyPair(entry.key)
       /\ \A nonce \in Nonces, salt \in Salts :
            Encode(nonce, salt, entry.key.n) \in 0 .. entry.key.n - 1
  /\ entry.purpose = "vc_signing" =>
       /\ entry.key.sk \in Scalars
       /\ entry.meta \in [1 .. 3 -> Scalars]
       /\ \A some \in ClaimSets :
            HashE(entry.key.sk, MessageVector(entry.meta, some)) \in Scalars

\* Claims are ages and hash to scalars; there are generators and draws enough
\* for all that a credential may hold.
ASSUME IssuanceAssumption ==
  /\ MaxRotations \in Nat
  /\ \A file \in KeyFiles :
       DOMAIN file = 1 .. Len(file) /\ \A entry \in ToSet(file) : ProperEntry(entry)
  /\ \A claim \in Claims : claim \in Nat /\ ClaimScalar(claim) \in Scalars
  /\ \A some \in ClaimSets :
       /\ IsFiniteSet(some) /\ 3 + Cardinality(some) <= Len(H)
       /\ \A t \in Tildes : Len(t) >= 2 + Cardinality(some)

-----------------------------------------------------------------------------
\* The well-known document lists every entry of the store.
Advertised(file) == ToSet(file)

\* The issuer runs with some key file from the start.
Init ==
  /\ claims \in ClaimSets
  /\ keys \in {file \in KeyFiles : LoadableKeys(file)}
  /\ published = Advertised(keys)
  /\ rotations = 0
  /\ command = Idle
  /\ drawn = {}
  /\ tokens = {}
  /\ seen = {}
  /\ credential = NoCredential
  /\ shown = {}
  /\ asked = {}

\* The issuer is restarted with another key file; one that does not load
\* leaves no issuer, and the operator puts another one in its place.
Rotate ==
  /\ rotations < MaxRotations
  /\ rotations' = rotations + 1
  /\ \E file \in KeyFiles \ {keys} :
       /\ LoadableKeys(file)
       /\ keys' = file
       /\ published' = published \cup Advertised(file)
  /\ UNCHANGED <<claims, walletVars, seen, vcVars>>

\* mint: the wallet reads the well-known document for the claim's key.
ReadWellKnown(claim) ==
  /\ command = Idle
  /\ drawn # Nonces
  /\ \E entry \in EntriesFor(keys, claim) :
       command' = [at |-> "minting", entry |-> entry]
  /\ UNCHANGED <<issuerVars, drawn, tokens, seen, vcVars>>

\* The nonces of one command, all fresh.
Batches ==
  {nonces \in UNION {[1 .. n -> Nonces \ drawn] : n \in 1 .. Cardinality(Nonces \ drawn)} :
     \A i, j \in DOMAIN nonces : i # j => nonces[i] # nonces[j]}

\* mint, for a blind key: every nonce is blinded on its own; one encoding that
\* shares a factor with the modulus ends the command.
BlindBatch ==
  /\ command.at = "minting" /\ command.entry.algorithm = "rsabssa"
  /\ \E nonces \in Batches :
       LET key == command.entry.key IN
       /\ drawn' = drawn \cup ToSet(nonces)
       /\ \E salts \in [DOMAIN nonces -> Salts], factors \in [DOMAIN nonces -> Units(key.n)] :
            LET m == [i \in DOMAIN nonces |-> Encode(nonces[i], salts[i], key.n)] IN
            command' =
              IF \A i \in DOMAIN nonces : Blindable(key, m[i])
              THEN [at |-> "sent", entry |-> command.entry, nonces |-> nonces,
                    kind |-> "blinded_messages",
                    payload |-> [i \in DOMAIN nonces |-> Blind(key, m[i], factors[i])],
                    invs |-> [i \in DOMAIN nonces |-> InverseMod(factors[i], key.n)]]
              ELSE Idle
  /\ UNCHANGED <<issuerVars, tokens, seen, vcVars>>

\* mint, for any other key: the nonces themselves are sent.
PlainBatch ==
  /\ command.at = "minting" /\ command.entry.algorithm # "rsabssa"
  /\ \E nonces \in Batches :
       /\ drawn' = drawn \cup ToSet(nonces)
       /\ command' = [at |-> "sent", entry |-> command.entry, nonces |-> nonces,
                      kind |-> "nonces", payload |-> nonces, invs |-> <<>>]
  /\ UNCHANGED <<issuerVars, tokens, seen, vcVars>>

\* What the issuer answers: the signatures of all of the batch, or nothing.
\* Of the entry by, the answer itself has only the id.
SignBatch(sent) ==
  LET claim == sent.entry.claim
      ok == claim \in claims /\ Len(sent.payload) <= MaxBatch
  IN {[by |-> entry,
       signatures |-> [i \in DOMAIN sent.payload |->
                         Raw(RawSignature(entry.key, sent.payload[i]))]] :
        entry \in {e \in BlindSigners(keys, claim) :
          ok /\ sent.kind = "blinded_messages"
             /\ \A i \in DOMAIN sent.payload : Signable(e.key, sent.payload[i])}}
     \cup
     {[by |-> entry,
       signatures |-> [i \in DOMAIN sent.payload |-> Plain(entry.key, sent.payload[i])]] :
        entry \in {e \in PlainSigners(keys, claim) : ok /\ sent.kind = "nonces"}}

\* issue: whatever the verdict, the issuer has seen the request.
IssueTokens ==
  /\ command.at = "sent"
  /\ seen' = seen \cup {[entry |-> command.entry, kind |-> command.kind,
                         payload |-> command.payload]}
  /\ IF SignBatch(command) = {} THEN command' = Idle
     ELSE \E answer \in SignBatch(command) :
            command' = [at |-> "answered", sent |-> command, answer |-> answer]
  /\ UNCHANGED <<issuerVars, drawn, tokens, vcVars>>

\* The signatures a wallet keeps, in the order of its nonces: unblinded under
\* the key it was advertised, or as they came.
Kept(sent, signatures) ==
  IF sent.kind = "nonces" THEN signatures
  ELSE [i \in DOMAIN signatures |->
          Raw(Unblinded(sent.entry.key, signatures[i].raw, sent.invs[i]))]

\* finalize verifies each one; a plain signature is not looked at.
Finalizes(sent, signatures) ==
  sent.kind = "blinded_messages" =>
    \A i \in DOMAIN signatures :
      PssVerifies(sent.entry.key, sent.nonces[i], Kept(sent, signatures)[i].raw)

\* mint, on the answer: all of the batch is stored, or none of it.  The id of
\* the key is the issuer's word; advertised and by are history, no vault
\* keeps them.
FinalizeBatch ==
  /\ command.at = "answered"
  /\ LET sent == command.sent
         answer == command.answer
         batch == {[nonce |-> sent.nonces[i], key_id |-> answer.by.key_id,
                    advertised |-> sent.entry, by |-> answer.by,
                    signature |-> Kept(sent, answer.signatures)[i]] :
                     i \in DOMAIN sent.nonces}
     IN tokens' = IF Finalizes(sent, answer.signatures) THEN tokens \cup batch
                  ELSE tokens
  /\ command' = Idle
  /\ UNCHANGED <<issuerVars, drawn, seen, vcVars>>

\* The command is killed, or its request or the answer is lost.
Interrupted ==
  /\ command # Idle
  /\ command' = Idle
  /\ UNCHANGED <<issuerVars, drawn, tokens, seen, vcVars>>

-----------------------------------------------------------------------------
\* issue_credential refuses who has no claims, and needs a credential key.
CredentialIssuable(some, file) ==
  /\ some # {}
  /\ VcIndexes(file) # {}
  /\ LET vc == VcSigner(file) IN ~ SignFails(vc.key.sk, MessageVector(vc.meta, some))

\* vc_get with issue_credential: one credential with all of the claims.
VcGet ==
  /\ command = Idle
  /\ CredentialIssuable(claims, keys)
  /\ LET vc == VcSigner(keys) IN
       credential' = [sk |-> vc.key.sk, key_id |-> vc.key_id, meta |-> vc.meta,
                      assurance |-> vc.assurance, claims |-> claims,
                      signature |-> Sign(vc.key.sk, MessageVector(vc.meta, claims))]
  /\ UNCHANGED <<issuerVars, walletVars, seen, shown, asked>>

\* The refusals of vc_prove, and the check of _octets_to_signature.
Presentable(challenge) ==
  /\ credential # NoCredential
  /\ challenge.open
  /\ challenge.required \in credential.claims
  /\ credential.assurance >= challenge.assurance
  /\ credential.signature.e # 0

\* The random oracle answers a question it knows as before.
Answers(question) ==
  LET known == {pair \in asked : pair[1] = question} IN
    IF known = {} THEN Scalars ELSE {pair[2] : pair \in known}

\* vc_prove: a proof of the credential with one claim of it, bound to the
\* challenge.  For the verifying key W = P2*sk the model has sk.
VcProve(challenge) ==
  /\ command = Idle
  /\ Presentable(challenge)
  /\ Cardinality(shown) < MaxProofs
  /\ LET msgs == MessageVector(credential.meta, credential.claims)
         indexes == DisclosedIndexes(credential.claims, challenge.required)
     IN \E draws \in Draws(Len(msgs) - Len(indexes)) :
          LET points == InitPoints(credential.sk, credential.signature, msgs, draws)
              question == ProverTranscript(credential.sk, points, msgs, indexes,
                                           draws, challenge.ph)
          IN \E c \in Answers(question) :
               /\ asked' = asked \cup {<<question, c>>}
               /\ shown' = shown \cup
                    {[credential |-> credential, required |-> challenge.required,
                      meta |-> credential.meta, indexes |-> indexes, ph |-> challenge.ph,
                      proof |-> [points |-> points,
                                 responses |-> Responses(credential.signature, msgs,
                                                         indexes, draws, c)]]}
  /\ UNCHANGED <<issuerVars, walletVars, seen, credential>>

Next ==
  \/ Rotate
  \/ \E claim \in Claims : ReadWellKnown(claim)
  \/ BlindBatch
  \/ PlainBatch
  \/ IssueTokens
  \/ FinalizeBatch
  \/ Interrupted
  \/ VcGet
  \/ \E challenge \in Challenges : VcProve(challenge)

Spec == Init /\ [][Next]_vars

-----------------------------------------------------------------------------
\* verify_vc_presentation with the registry's entry for the key: the shape of
\* the indexes, the metadata, and the proof over the messages it rebuilds.
SiteAccepts(entry, p) ==
  /\ Len(p.indexes) = 4 /\ SubSeq(p.indexes, 1, 3) = <<1, 2, 3>>
  /\ p.meta = entry.meta
  /\ LET disclosed == Append(entry.meta, ClaimScalar(p.required)) IN
       ProofVerifies(entry.key.sk, p.proof,
                     [k \in 1 .. 4 |-> <<p.indexes[k], disclosed[k]>>], p.ph, asked)

-----------------------------------------------------------------------------
(***************************************************************************)
(* Properties                                                              *)
(***************************************************************************)
\* Every variable has its shape, and only who is eligible for something has a
\* credential.
TypeOK ==
  /\ claims \in ClaimSets /\ keys \in KeyFiles /\ rotations \in 0 .. MaxRotations
  /\ Advertised(keys) \subseteq published
  /\ command.at \in {"idle", "minting", "sent", "answered"}
  /\ \A token \in tokens : token.nonce \in drawn
  /\ \A pair \in asked : pair[2] \in Scalars
  /\ credential # NoCredential =>
       /\ credential.claims = claims /\ claims # {}
       /\ credential.signature \in [A : NonZero, e : Scalars]

\* When the issuer signed under the key the wallet had been advertised, every
\* signature of the batch unblinds to one that verifies, in the wallet's order,
\* so that finalize does not throw an honest batch away.
BatchUnblinds ==
  command.at = "answered" =>
    (command.answer.by = command.sent.entry
       => Finalizes(command.sent, command.answer.signatures))

\* A stored token verifies under a key that was published under the id it
\* carries and that is for a claim of its owner, although the issuer may have
\* changed its keys (and kept their ids) between the two requests of a mint.
TokensVerify ==
  \A token \in tokens : \E entry \in published :
    /\ entry.key_id = token.key_id
    /\ entry.claim \in claims
    /\ TokenVerifies(entry, token)

\* No nonce that a blind token was made of is ever sent in clear.
NoncesStaySecret ==
  \A token \in tokens, request \in seen :
    token.advertised.algorithm = "rsabssa" /\ request.kind = "nonces"
      => token.nonce \notin ToSet(request.payload)

\* The issuer cannot tell which request a blind token came from: every blinded
\* message it was sent under the token's key, refused, lost or signed, might
\* have been the token's under some blinding factor; and nonces stay secret.
\* (With numbers this small a signature made under another key verifies now and
\* then; such tokens are left out of the former.)
TokenUnlinkable ==
  /\ NoncesStaySecret
  /\ \A token \in {t \in tokens :
              t.advertised.algorithm = "rsabssa" /\ t.by = t.advertised} :
       LET key == token.advertised.key
           m == Power(token.signature.raw, key.e) % key.n
       IN \A request \in {q \in seen : q.kind = "blinded_messages"} :
            request.entry = token.advertised =>
              \A i \in DOMAIN request.payload :
                \E factor \in Units(key.n) : request.payload[i] = Blind(key, m, factor)

\* A credential the issuer signed is valid, and a site with its key in the
\* registry accepts every proof of it that came out with no scalar zero.
HonestProofAccepted ==
  /\ credential # NoCredential /\ credential.signature.e # 0 =>
       Verify(credential.sk, credential.signature,
              MessageVector(credential.meta, credential.claims))
  /\ \A p \in shown : \A entry \in published :
       /\ entry.purpose = "vc_signing"
       /\ entry.key.sk = p.credential.sk /\ entry.meta = p.meta
       /\ WellFormed(p.proof)
       => SiteAccepts(entry, p)

\* A proof is good for nothing but what it was made for: no site accepts it for
\* another claim, at another index (a metadata index given twice included),
\* for another challenge, or under another of the issuer's keys.
ProofBound ==
  \A p \in shown : \A entry \in {e \in published : e.purpose = "vc_signing"} :
    \A required \in Claims, challenge \in Challenges,
       k \in 1 .. 4 + Len(p.proof.responses.m_hat) :
      SiteAccepts(entry, [p EXCEPT !.required = required, !.ph = challenge.ph,
                                   !.meta = entry.meta,
                                   !.indexes = <<1, 2, 3, k>>])
        => /\ required = p.required /\ challenge.ph = p.ph
           /\ k = p.indexes[4] /\ entry.key.sk = p.credential.sk

\* The holder of msgs, signed with any e, might have made proof p: there are
\* draws that give its points, its responses and its question to the oracle.
\* (The tilde scalars may be zero here, which one draw in r leaves out.)
Explains(p, msgs, indexes, e) ==
  LET sk == p.credential.sk
      pt == p.proof.points
      rs == p.proof.responses
      b == BValue(CalculateDomain(sk, Len(msgs)), msgs)
      signature == [A |-> (b * InverseOf((sk + e) % r)) % r, e |-> e]
      hidden == Undisclosed(indexes, Len(msgs))
      r1 == (pt.abar * (sk + e) * InverseOf(pt.d)) % r
      r2 == (pt.d * InverseOf(b)) % r
      draws == [r1 |-> r1, r2 |-> r2,
                e_tilde |-> (rs.e_hat - e * rs.c) % r,
                r1_tilde |-> (rs.r1_hat + r1 * rs.c) % r,
                r3_tilde |-> (rs.r3_hat + InverseOf(r2) * rs.c) % r,
                m_tilde |-> [j \in DOMAIN hidden |->
                               (rs.m_hat[j] - msgs[hidden[j]] * rs.c) % r]]
  IN /\ InitPoints(sk, signature, msgs, draws) = pt
     /\ Responses(signature, msgs, indexes, draws, rs.c) = rs
     /\ <<ProverTranscript(sk, pt, msgs, indexes, draws, p.ph), rs.c>> \in asked

\* What BBS can be signed on: neither the point nor the divisor is zero.
SignableWith(sk, msgs, e) ==
  (sk + e) % r # 0 /\ BValue(CalculateDomain(sk, Len(msgs)), msgs) # 0

\* A proof says nothing of the values it hides, nor of the signature: whatever
\* scalars stood at the hidden indexes, with whatever e signed, might have
\* given this very proof.
HiddenClaimsStayHidden ==
  \A p \in shown :
    LET msgs == MessageVector(p.meta, p.credential.claims)
        hidden == ToSet(Undisclosed(p.indexes, Len(msgs)))
    IN \A values \in [hidden -> Scalars], e \in Scalars :
         LET others == [i \in DOMAIN msgs |->
                          IF i \in hidden THEN values[i] ELSE msgs[i]]
         IN SignableWith(p.credential.sk, others, e)
              => Explains(p, others, p.indexes, e)

\* docs/vc-vs-tokens.md says a proof reveals only issuer, assurance, epoch and
\* the required claim: then everyone who has that claim might have made it.
RevealsOnlyRequired ==
  \A p \in {q \in shown : WellFormed(q.proof)} :
   \A some \in {s \in ClaimSets : p.required \in s} :
    LET msgs == MessageVector(p.meta, some)
        indexes == DisclosedIndexes(some, p.required)
    IN /\ Len(msgs) = 4 + Len(p.proof.responses.m_hat)
       /\ \E e \in Scalars : SignableWith(p.credential.sk, msgs, e)
                               /\ Explains(p, msgs, indexes, e)
=============================================================================
