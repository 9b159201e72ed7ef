--------------------------- MODULE IssuanceProofs ---------------------------
(***************************************************************************)
(* Proofs about Issuance, for any keys, key files, nonces, encodings,      *)
(* claims, prime order of the group, generators and numbers of restarts:   *)
(*                                                                         *)
(*   what a mint stores verifies and its nonces stay secret;               *)
(*   numbers modulo n: inverses, powers, congruences;                      *)
(*   blind signatures: an honest batch unblinds, no token is linkable;     *)
(*   sums of sequences and finite sets of numbers in order;                *)
(*   BBS: a verifier asks the question that the prover asked;              *)
(*   credentials and their proofs: accepted, bound to what they were made  *)
(*   for, and silent about the claims they hide.                           *)
(*                                                                         *)
(* Induction over numbers is by least counterexample (Smallest); what a    *)
(* recursive function computes follows from Recursion.                     *)
(***************************************************************************)
EXTENDS Issuance, TLAPS, WellFoundedInduction, FiniteSetTheorems,
        FunctionTheorems, SequenceTheorems

\* Whoever makes a blind key again makes it under the id it had.
IdsAreKept ==
  \A f, g \in KeyFiles, claim \in Claims :
    \A x \in BlindSigners(f, claim), y \in BlindSigners(g, claim) :
      x.key_id = y.key_id

\* What a wallet can find under a claim.
Findable(entry) ==
  /\ entry \in published
  /\ \E f \in KeyFiles, claim \in Claims : entry \in EntriesFor(f, claim)

\* A request is for an advertised key and says what the key asks for.
Requested(sent) ==
  /\ Findable(sent.entry)
  /\ sent.kind \in {"blinded_messages", "nonces"}
  /\ DOMAIN sent.payload = DOMAIN sent.nonces
  /\ sent.kind = "blinded_messages" => sent.entry.algorithm = "rsabssa"
  /\ sent.kind = "nonces"
       => sent.payload = sent.nonces /\ sent.entry.algorithm # "rsabssa"

\* An answer is signed, one signature for each message, with a published key
\* for the claim that was asked for, by a signer of the kind that was asked.
Signed(sent, answer) ==
  /\ answer.by \in published
  /\ sent.entry.claim \in claims
  /\ DOMAIN answer.signatures = DOMAIN sent.nonces
  /\ IF sent.kind = "blinded_messages"
     THEN \E f \in KeyFiles : answer.by \in BlindSigners(f, sent.entry.claim)
     ELSE /\ answer.by.claim = sent.entry.claim
          /\ answer.by.algorithm # "rsabssa"
          /\ \A i \in DOMAIN sent.nonces :
               answer.signatures[i] = Plain(answer.by.key, sent.nonces[i])

KeysInv == keys \in KeyFiles /\ ToSet(keys) \subseteq published
MintInv ==
  /\ command.at \in {"idle", "minting", "sent", "answered"}
  /\ command.at = "minting" => Findable(command.entry)
  /\ command.at = "sent" => Requested(command)
  /\ command.at = "answered" =>
       Requested(command.sent) /\ Signed(command.sent, command.answer)

-----------------------------------------------------------------------------
\* An entry that is found under a claim is one of the file's, for that claim.
LEMMA Found ==
  ASSUME NEW file, NEW claim, NEW entry \in EntriesFor(file, claim)
  PROVE  entry \in ToSet(file) /\ entry.claim = claim
BY DEF EntriesFor, ToSet

LEMMA InitMint == Init => KeysInv /\ MintInv /\ TokensVerify
  BY DEF Init, KeysInv, MintInv, TokensVerify, Advertised, Idle

\* Entries stay published.
LEMMA PublishedGrows == [Next]_vars => published \subseteq published' /\ claims' = claims
  BY DEF Next, Rotate, ReadWellKnown, BlindBatch, PlainBatch, IssueTokens,
         FinalizeBatch, Interrupted, VcGet, VcProve, vars, walletVars, vcVars,
         issuerVars

LEMMA NextKeys == KeysInv /\ [Next]_vars => KeysInv'
  BY DEF KeysInv, Next, Rotate, ReadWellKnown, BlindBatch, PlainBatch,
         IssueTokens, FinalizeBatch, Interrupted, VcGet, VcProve, vars,
         walletVars, vcVars, issuerVars, Advertised

LEMMA NextMint ==
  ASSUME KeysInv, MintInv, [Next]_vars
  PROVE  MintInv'
<1>1. published \subseteq published' /\ claims' = claims
  BY PublishedGrows
<1>2. ASSUME NEW entry, Findable(entry) PROVE Findable(entry)'
  BY <1>1, <1>2 DEF Findable
<1>3. CASE UNCHANGED command
  <2>1. PICK was : was = command
    OBVIOUS
  <2>2. command' = was
    BY <1>3, <2>1
  <2>3. was.at = "minting" => Findable(was.entry)'
    BY <1>2, <2>1 DEF MintInv
  <2>4. \A sent : Requested(sent) => Requested(sent)'
    BY <1>2 DEF Requested
  <2>5. \A sent, answer : Signed(sent, answer) => Signed(sent, answer)'
    BY <1>1 DEF Signed
  <2>6. /\ was.at = "sent" => Requested(was)'
        /\ was.at = "answered"
             => Requested(was.sent)' /\ Signed(was.sent, was.answer)'
    BY <2>1, <2>4, <2>5 DEF MintInv
  <2> QED BY <2>1, <2>2, <2>3, <2>6 DEF MintInv
<1>4. CASE command' = Idle
  BY <1>4 DEF MintInv, Idle
<1>5. ASSUME NEW claim \in Claims, ReadWellKnown(claim) PROVE MintInv'
  <2>1. PICK entry \in EntriesFor(keys, claim) :
          command' = [at |-> "minting", entry |-> entry]
    BY <1>5 DEF ReadWellKnown
  <2>2. Findable(entry)
    BY <2>1, Found DEF Findable, KeysInv
  <2> QED BY <1>2, <2>1, <2>2 DEF MintInv
<1>6. CASE BlindBatch
  <2>1. command.at = "minting" /\ command.entry.algorithm = "rsabssa"
    BY <1>6 DEF BlindBatch
  <2>2. command' = Idle
          \/ \E nonces, payload, invs :
               /\ DOMAIN payload = DOMAIN nonces
               /\ command' = [at |-> "sent", entry |-> command.entry,
                              nonces |-> nonces, kind |-> "blinded_messages",
                              payload |-> payload, invs |-> invs]
    BY <1>6 DEF BlindBatch
  <2>3. ASSUME NEW nonces, NEW payload, NEW invs,
               DOMAIN payload = DOMAIN nonces,
               command' = [at |-> "sent", entry |-> command.entry,
                           nonces |-> nonces, kind |-> "blinded_messages",
                           payload |-> payload, invs |-> invs]
        PROVE  MintInv'
    BY <1>2, <2>1, <2>3 DEF MintInv, Requested
  <2> QED BY <1>4, <2>2, <2>3
<1>7. CASE PlainBatch
  <2>1. PICK nonces \in Batches :
          command' = [at |-> "sent", entry |-> command.entry, nonces |-> nonces,
                      kind |-> "nonces", payload |-> nonces, invs |-> <<>>]
    BY <1>7 DEF PlainBatch
  <2> QED BY <1>2, <1>7, <2>1 DEF MintInv, Requested, PlainBatch
<1>8. CASE IssueTokens
  <2>1. CASE SignBatch(command) # {}
    <3>1. PICK answer \in SignBatch(command) :
            command' = [at |-> "answered", sent |-> command, answer |-> answer]
      BY <1>8, <2>1 DEF IssueTokens
    <3>2. Requested(command) /\ UNCHANGED published
      BY <1>8 DEF IssueTokens, MintInv, issuerVars
    <3>3. Signed(command, answer)
      BY <3>2, Found DEF SignBatch, Signed, Requested, KeysInv, BlindSigners,
        PlainSigners
    <3>4. /\ command'.at = "answered" /\ command'.sent = command
          /\ command'.answer = answer
      BY <3>1
    <3> QED BY <1>1, <1>2, <3>2, <3>3, <3>4 DEF MintInv, Requested, Signed
  <2> QED BY <1>4, <1>8, <2>1 DEF IssueTokens
<1>9. CASE UNCHANGED vars
  BY <1>3, <1>9 DEF vars, walletVars
<1> QED
  BY <1>3, <1>4, <1>5, <1>6, <1>7, <1>8, <1>9 DEF Next, Rotate, FinalizeBatch,
     Interrupted, VcGet, VcProve, walletVars

\* What finalize stores verifies under a key published under the id it carries.
LEMMA NextTokens ==
  ASSUME IdsAreKept, KeysInv, MintInv, TokensVerify, [Next]_vars
  PROVE  TokensVerify'
<1>1. published \subseteq published' /\ claims' = claims
  BY PublishedGrows
<1>2. ASSUME NEW token,
             \E entry \in published : /\ entry.key_id = token.key_id
                                      /\ entry.claim \in claims
                                      /\ TokenVerifies(entry, token)
      PROVE  \E entry \in published' : /\ entry.key_id = token.key_id
                                       /\ entry.claim \in claims'
                                       /\ TokenVerifies(entry, token)
  BY <1>1, <1>2
<1>3. CASE tokens' = tokens
  BY <1>2, <1>3 DEF TokensVerify
<1>4. CASE FinalizeBatch
  <2> DEFINE sent == command.sent
             answer == command.answer
             Stored(i) == [nonce |-> sent.nonces[i], key_id |-> answer.by.key_id,
                           advertised |-> sent.entry, by |-> answer.by,
                           signature |-> Kept(sent, answer.signatures)[i]]
  <2>1. /\ Requested(sent) /\ Signed(sent, answer)
        /\ tokens' = IF Finalizes(sent, answer.signatures)
                     THEN tokens \cup {Stored(i) : i \in DOMAIN sent.nonces}
                     ELSE tokens
    BY <1>4 DEF FinalizeBatch, MintInv
  <2>2. ASSUME NEW i \in DOMAIN sent.nonces, Finalizes(sent, answer.signatures)
        PROVE  \E entry \in published : /\ entry.key_id = Stored(i).key_id
                                        /\ entry.claim \in claims
                                        /\ TokenVerifies(entry, Stored(i))
    <3>1. CASE sent.kind = "nonces"
      <4>1. answer.signatures[i] = Plain(answer.by.key, sent.nonces[i])
        BY <2>1, <3>1 DEF Signed
      <4>2. Stored(i).signature = Plain(answer.by.key, Stored(i).nonce)
        BY <3>1, <4>1 DEF Kept
      <4>3. TokenVerifies(answer.by, Stored(i))
        BY <2>1, <3>1, <4>2 DEF Signed, TokenVerifies
      <4> QED BY <2>1, <3>1, <4>3 DEF Signed
    <3>2. CASE sent.kind = "blinded_messages"
      <4> DEFINE u == Unblinded(sent.entry.key, answer.signatures[i].raw, sent.invs[i])
      <4>1. i \in DOMAIN answer.signatures
        BY <2>1 DEF Signed
      <4>2. Stored(i).signature = Raw(u)
        BY <3>2, <4>1 DEF Kept
      <4>3. PssVerifies(sent.entry.key, sent.nonces[i], u)
        BY <2>2, <3>2, <4>1 DEF Finalizes, Kept, Raw
      <4>4. TokenVerifies(sent.entry, Stored(i))
        <5>1. DOMAIN Raw(u) = {"raw"} /\ Raw(u).raw = u
          BY DEF Raw
        <5> HIDE DEF u
        <5> QED BY <2>1, <3>2, <4>2, <4>3, <5>1 DEF TokenVerifies, Requested
      <4>5. sent.entry.key_id = answer.by.key_id
        <5>1. PICK f \in KeyFiles, claim \in Claims :
                sent.entry \in EntriesFor(f, claim)
          BY <2>1 DEF Requested, Findable
        <5>2. sent.entry.claim = claim /\ sent.entry.algorithm = "rsabssa"
          BY <2>1, <3>2, <5>1, Found DEF Requested
        <5>3. sent.entry \in BlindSigners(f, claim)
          BY <5>1, <5>2 DEF BlindSigners
        <5>4. PICK g \in KeyFiles : answer.by \in BlindSigners(g, claim)
          BY <2>1, <3>2, <5>2 DEF Signed
        <5> QED BY <5>3, <5>4 DEF IdsAreKept
      <4> QED BY <2>1, <4>4, <4>5 DEF Signed, Requested, Findable
    <3> QED BY <2>1, <3>1, <3>2 DEF Requested
  <2>3. ASSUME NEW token \in tokens'
        PROVE  \E entry \in published : /\ entry.key_id = token.key_id
                                        /\ entry.claim \in claims
                                        /\ TokenVerifies(entry, token)
    <3>1. CASE token \in tokens
      BY <3>1 DEF TokensVerify
    <3>2. CASE token \notin tokens
      <4>1. PICK i \in DOMAIN sent.nonces :
              token = Stored(i) /\ Finalizes(sent, answer.signatures)
        BY <2>1, <2>3, <3>2
      <4> HIDE DEF Stored
      <4> QED BY <2>2, <4>1
    <3> QED BY <3>1, <3>2
  <2> QED BY <1>2, <2>3 DEF TokensVerify
<1> QED
  BY <1>3, <1>4 DEF Next, Rotate, ReadWellKnown, BlindBatch, PlainBatch,
     IssueTokens, Interrupted, VcGet, VcProve, vars, walletVars

\* Whatever the issuer does to its keys while a mint is under way, what the
\* wallet stores verifies under a published key for one of its owner's claims,
\* with the id the token carries, as long as a key made again keeps its id.
THEOREM StoredTokensVerify ==
  ASSUME IdsAreKept
  PROVE  Spec => []TokensVerify
<1>1. KeysInv /\ MintInv /\ TokensVerify /\ [Next]_vars
        => (KeysInv /\ MintInv /\ TokensVerify)'
  BY NextKeys, NextMint, NextTokens
<1> QED BY <1>1, InitMint, PTL DEF Spec

-----------------------------------------------------------------------------
\* Which nonces are whose: all that were sent or stored have been drawn, and
\* those of a batch under way are in no clear request if they are blinded, and
\* in no blind token if they are not.

Clear == {request \in seen : request.kind = "nonces"}
Blinded == {token \in tokens : token.advertised.algorithm = "rsabssa"}
Apart(sent) ==
  /\ ToSet(sent.nonces) \subseteq drawn
  /\ sent.kind = "blinded_messages" =>
       \A request \in Clear : ToSet(request.payload) \cap ToSet(sent.nonces) = {}
  /\ sent.kind = "nonces" =>
       \A token \in Blinded : token.nonce \notin ToSet(sent.nonces)
NoncesInv ==
  /\ \A request \in Clear : ToSet(request.payload) \subseteq drawn
  /\ \A token \in Blinded : token.nonce \in drawn
  /\ command.at = "sent" => Apart(command)
  /\ command.at = "answered" => Apart(command.sent)
  /\ NoncesStaySecret

LEMMA InitNonces == Init => NoncesInv
  BY DEF Init, NoncesInv, Clear, Blinded, NoncesStaySecret, Idle

\* A batch is drawn from the nonces nobody has drawn before.
LEMMA NewBatch ==
  ASSUME NoncesInv, NEW nonces \in Batches, NEW sent, sent.nonces = nonces,
         command' = sent, sent.at = "sent",
         drawn' = drawn \cup ToSet(nonces), UNCHANGED <<tokens, seen>>
  PROVE  NoncesInv'
<1>1. ToSet(nonces) \cap drawn = {}
  <2>1. PICK n \in 1 .. Cardinality(Nonces \ drawn) : nonces \in [1 .. n -> Nonces \ drawn]
    BY DEF Batches
  <2> QED BY <2>1 DEF ToSet
<1>2. Clear' = Clear /\ Blinded' = Blinded /\ NoncesStaySecret'
  BY DEF Clear, Blinded, NoncesInv, NoncesStaySecret
<1>3. /\ \A request \in Clear : ToSet(request.payload) \subseteq drawn
      /\ \A token \in Blinded : token.nonce \in drawn
  BY DEF NoncesInv
<1>4. Apart(sent)'
  BY <1>1, <1>2, <1>3 DEF Apart
<1> QED BY <1>2, <1>3, <1>4 DEF NoncesInv

LEMMA NextNonces ==
  ASSUME MintInv, NoncesInv, [Next]_vars
  PROVE  NoncesInv'
<1>1. CASE UNCHANGED <<drawn, tokens, seen>> /\ (command' = command \/ command' = Idle
             \/ command'.at = "minting")
  <2>1. Clear' = Clear /\ Blinded' = Blinded /\ NoncesStaySecret'
    BY <1>1 DEF Clear, Blinded, NoncesInv, NoncesStaySecret
  <2>2. \A sent : Apart(sent) => Apart(sent)'
    BY <1>1, <2>1 DEF Apart
  <2>3. PICK next : command' = next
    OBVIOUS
  <2>4. /\ next.at = "sent" => Apart(next)'
        /\ next.at = "answered" => Apart(next.sent)'
    <3>1. CASE next = command
      BY <2>2, <3>1 DEF NoncesInv
    <3>2. CASE next # command
      BY <1>1, <2>3, <3>2 DEF Idle
    <3> QED BY <3>1, <3>2
  <2> QED BY <1>1, <2>1, <2>3, <2>4 DEF NoncesInv
<1>2. CASE BlindBatch
  <2>1. PICK nonces \in Batches :
          /\ drawn' = drawn \cup ToSet(nonces)
          /\ \/ command' = Idle
             \/ command'.at = "sent" /\ command'.nonces = nonces
    BY <1>2 DEF BlindBatch
  <2>2. CASE command' = Idle
    <3>1. Clear' = Clear /\ Blinded' = Blinded /\ NoncesStaySecret' /\ drawn \subseteq drawn'
      BY <1>2, <2>1 DEF BlindBatch, Clear, Blinded, NoncesInv, NoncesStaySecret
    <3> QED BY <2>2, <3>1 DEF NoncesInv, Idle
  <2> QED BY <1>2, <2>1, <2>2, NewBatch DEF BlindBatch
<1>3. CASE PlainBatch
  BY <1>3, NewBatch DEF PlainBatch
<1>4. CASE IssueTokens
  <2> DEFINE request == [entry |-> command.entry, kind |-> command.kind,
                         payload |-> command.payload]
  <2>1. /\ seen' = seen \cup {request} /\ UNCHANGED <<drawn, tokens>>
        /\ Requested(command) /\ Apart(command)
        /\ command' = Idle \/ (command'.at = "answered" /\ command'.sent = command)
    BY <1>4 DEF IssueTokens, MintInv, NoncesInv
  <2>2. request.kind = command.kind /\ request.payload = command.payload
    OBVIOUS
  <2> HIDE DEF request
  <2>3. Blinded' = Blinded /\ Clear' \subseteq Clear \cup {request}
    BY <2>1 DEF Blinded, Clear
  <2>4. ASSUME command.kind = "nonces"
        PROVE  /\ ToSet(request.payload) \subseteq drawn
               /\ \A token \in Blinded : token.nonce \notin ToSet(request.payload)
    BY <2>1, <2>2, <2>4 DEF Apart, Requested
  <2>5. command.kind # "nonces" => Clear' = Clear
    BY <2>1, <2>2 DEF Clear
  <2>6. \A q \in Clear' : /\ ToSet(q.payload) \subseteq drawn
                          /\ \A token \in Blinded : token.nonce \notin ToSet(q.payload)
    <3>1. \A q \in Clear : /\ ToSet(q.payload) \subseteq drawn
                           /\ \A token \in Blinded : token.nonce \notin ToSet(q.payload)
      BY DEF NoncesInv, NoncesStaySecret, Clear, Blinded
    <3> QED BY <2>3, <2>4, <2>5, <3>1
  <2>7. NoncesStaySecret'
    BY <2>1, <2>6 DEF NoncesStaySecret, Clear, Blinded
  <2>8. PICK was, next : was = command /\ next = command'
    OBVIOUS
  <2>9. Apart(was)'
    BY <2>1, <2>2, <2>3, <2>5, <2>8 DEF Apart
  <2>10. next = Idle \/ (next.at = "answered" /\ next.sent = was)
    BY <2>1, <2>8
  <2> QED BY <2>1, <2>3, <2>6, <2>7, <2>8, <2>9, <2>10 DEF NoncesInv, Idle
<1>5. CASE FinalizeBatch
  <2> DEFINE sent == command.sent
  <2>1. /\ Requested(sent) /\ Apart(sent) /\ command' = Idle
        /\ UNCHANGED <<drawn, seen>>
    BY <1>5 DEF FinalizeBatch, MintInv, NoncesInv
  <2>2. \A token \in tokens' \ tokens :
          token.nonce \in ToSet(sent.nonces) /\ token.advertised = sent.entry
    BY <1>5 DEF FinalizeBatch, ToSet
  <2>3. Clear' = Clear
    BY <2>1 DEF Clear
  <2>4. \A token \in Blinded' : token \in Blinded \/
          (token.nonce \in ToSet(sent.nonces) /\ sent.entry.algorithm = "rsabssa")
    BY <2>2 DEF Blinded
  <2>5. \A token \in Blinded' : /\ token.nonce \in drawn
          /\ \A request \in Clear : token.nonce \notin ToSet(request.payload)
    <3>1. \A token \in Blinded : /\ token.nonce \in drawn
            /\ \A request \in Clear : token.nonce \notin ToSet(request.payload)
      BY DEF NoncesInv, NoncesStaySecret, Clear, Blinded
    <3>2. sent.entry.algorithm = "rsabssa" => sent.kind = "blinded_messages"
      BY <2>1 DEF Requested
    <3> HIDE DEF sent
    <3> QED BY <2>1, <2>4, <3>1, <3>2 DEF Apart
  <2>6. NoncesStaySecret'
    BY <2>3, <2>5 DEF NoncesStaySecret, Clear, Blinded
  <2> QED BY <2>1, <2>3, <2>5, <2>6 DEF NoncesInv, Idle
<1> QED
  BY <1>1, <1>2, <1>3, <1>4, <1>5 DEF Next, Rotate, ReadWellKnown, Interrupted,
     VcGet, VcProve, vars, walletVars

\* Whatever is refused, lost, repeated or killed, the issuer has never seen the
\* nonce of a blind token.
THEOREM BlindNoncesSecret == Spec => []NoncesStaySecret
<1>1. NoncesInv => NoncesStaySecret
  BY DEF NoncesInv
<1>2. KeysInv /\ MintInv /\ NoncesInv /\ [Next]_vars
        => (KeysInv /\ MintInv /\ NoncesInv)'
  BY NextKeys, NextMint, NextNonces
<1> QED BY <1>1, <1>2, InitMint, InitNonces, PTL DEF Spec

-----------------------------------------------------------------------------
(***************************************************************************)
(* Numbers: least elements and induction, congruence modulo n, inverses and *)
(* powers.                                                                 *)
(***************************************************************************)

\* Every set of naturals has a smallest element ...
LEMMA Smallest ==
  ASSUME NEW S, S \subseteq Nat, S # {}
  PROVE  \E x \in S : \A y \in S : x <= y
<1> DEFINE R == OpToRel(<, Nat)
<1>1. IsWellFoundedOn(R, Nat)
  BY NatLessThanWellFounded, Zenon
<1>2. \A x, y \in Nat : x < y => <<x, y>> \in R
  BY DEF OpToRel
<1> HIDE DEF R
<1>3. PICK x \in S : \A y \in S : ~ (<<y, x>> \in R)
  BY <1>1, WFMin
<1>4. ASSUME NEW y \in S PROVE x <= y
  <2>1. x \in Nat /\ y \in Nat /\ ~ (y < x)
    BY <1>2, <1>3
  <2> QED BY <2>1
<1> QED BY <1>4

\* ... so that there is induction for sets that are given by a formula.
LEMMA Induction ==
  ASSUME NEW S, 0 \in S, \A k \in Nat : k \in S => k + 1 \in S
  PROVE  \A k \in Nat : k \in S
<1> SUFFICES ASSUME Nat \ S # {} PROVE FALSE
  OBVIOUS
<1>1. PICK x \in Nat \ S : \A y \in Nat \ S : x <= y
  BY Smallest
<1>2. x # 0 /\ x - 1 \in S
  BY <1>1
<1> QED BY <1>1, <1>2

\* Functions on 0 .. N that start with v and go by step.
Unfolds(g, V, v, N, step) ==
  /\ g \in [0 .. N -> V]
  /\ g[0] = v
  /\ \A k \in 1 .. N : g[k] = step[k][g[k - 1]]

\* A recursive function that applies one step after the other exists and unfolds.
LEMMA Recursion ==
  ASSUME NEW V, NEW v \in V, NEW N \in Nat, NEW step \in [1 .. N -> [V -> V]]
  PROVE  \E g : Unfolds(g, V, v, N, step)
<1> DEFINE S == {k \in Nat : k <= N => \E g : Unfolds(g, V, v, k, step)}
<1>1. 0 \in S
  <2> DEFINE g == [k \in 0 .. 0 |-> v]
  <2>1. Unfolds(g, V, v, 0, step)
    BY DEF Unfolds
  <2> HIDE DEF g
  <2> QED BY <2>1
<1>2. ASSUME NEW n \in Nat, n \in S PROVE n + 1 \in S
  <2> SUFFICES ASSUME n + 1 <= N PROVE \E g : Unfolds(g, V, v, n + 1, step)
    OBVIOUS
  <2>1. PICK g : Unfolds(g, V, v, n, step)
    BY <1>2
  <2>2. /\ g \in [0 .. n -> V] /\ g[0] = v
        /\ \A k \in 1 .. n : g[k] = step[k][g[k - 1]]
    BY <2>1 DEF Unfolds
  <2> DEFINE h == [k \in 0 .. n + 1 |-> IF k <= n THEN g[k] ELSE step[n + 1][g[n]]]
  <2>3. step[n + 1][g[n]] \in V
    BY <2>2
  <2>4. h \in [0 .. n + 1 -> V] /\ h[0] = v
    BY <2>2, <2>3
  <2>5. \A k \in 1 .. n + 1 : h[k] = step[k][h[k - 1]]
    BY <2>2
  <2> HIDE DEF h
  <2> QED BY <2>4, <2>5 DEF Unfolds
<1> HIDE DEF S
<1>3. N \in S
  BY <1>1, <1>2, Induction
<1> QED BY <1>3 DEF S

-----------------------------------------------------------------------------
\* Remainders: a number has one.
LEMMA Division ==
  ASSUME NEW x \in Int, NEW n \in Nat, n > 0
  PROVE  x % n \in 0 .. n - 1 /\ \E k \in Int : x = (x % n) + k * n
<1>1. x = (x \div n) * n + (x % n) /\ x \div n \in Int /\ x % n \in 0 .. n - 1
  OBVIOUS
<1> QED BY <1>1

LEMMA Remainder ==
  ASSUME NEW n \in Nat, n > 0, NEW x \in 0 .. n - 1, NEW k \in Int
  PROVE  (x + k * n) % n = x
OBVIOUS

\* Equal up to a multiple of n.
Congruent(x, y, n) == \E k \in Int : x = y + k * n

\* Congruence is an equivalence ...
LEMMA Same ==
  ASSUME NEW n \in Nat, NEW x \in Int
  PROVE  Congruent(x, x, n)
<1>1. 0 \in Int /\ x = x + 0 * n
  OBVIOUS
<1> QED BY <1>1 DEF Congruent

LEMMA Back ==
  ASSUME NEW n \in Nat, NEW x \in Int, NEW y \in Int, Congruent(x, y, n)
  PROVE  Congruent(y, x, n)
<1>1. PICK k \in Int : x = y + k * n
  BY DEF Congruent
<1>2. - k \in Int /\ y = x + (- k) * n
  BY <1>1
<1> QED BY <1>2 DEF Congruent

LEMMA Chain ==
  ASSUME NEW n \in Nat, NEW x \in Int, NEW y \in Int, NEW z \in Int,
         Congruent(x, y, n), Congruent(y, z, n)
  PROVE  Congruent(x, z, n)
<1>1. PICK k \in Int : x = y + k * n
  BY DEF Congruent
<1>2. PICK j \in Int : y = z + j * n
  BY DEF Congruent
<1>3. k + j \in Int /\ x = z + (k + j) * n
  BY <1>1, <1>2
<1> QED BY <1>3 DEF Congruent

\* ... that sums and products respect ...
LEMMA Plus ==
  ASSUME NEW n \in Nat, NEW x \in Int, NEW y \in Int, NEW u \in Int, NEW v \in Int,
         Congruent(x, y, n), Congruent(u, v, n)
  PROVE  Congruent(x + u, y + v, n) /\ Congruent(x - u, y - v, n)
<1>1. PICK k \in Int : x = y + k * n
  BY DEF Congruent
<1>2. PICK j \in Int : u = v + j * n
  BY DEF Congruent
<1>3. k + j \in Int /\ x + u = (y + v) + (k + j) * n
  BY <1>1, <1>2
<1>4. k - j \in Int /\ x - u = (y - v) + (k - j) * n
  BY <1>1, <1>2
<1> QED BY <1>3, <1>4 DEF Congruent

LEMMA Times ==
  ASSUME NEW n \in Nat, NEW x \in Int, NEW y \in Int, NEW u \in Int, NEW v \in Int,
         Congruent(x, y, n), Congruent(u, v, n)
  PROVE  Congruent(x * u, y * v, n)
<1>1. PICK k \in Int : x = y + k * n
  BY DEF Congruent
<1>2. PICK j \in Int : u = v + j * n
  BY DEF Congruent
<1> DEFINE q == k * v + y * j + k * j * n
<1>3. x * u = (y + k * n) * (v + j * n)
  BY <1>1, <1>2
<1>4. (y + k * n) * (v + j * n) = y * v + q * n
  OBVIOUS
<1>5. q \in Int
  OBVIOUS
<1>6. x * u = y * v + q * n
  BY <1>3, <1>4
<1> HIDE DEF q
<1> QED BY <1>5, <1>6 DEF Congruent

\* ... and it says that two numbers leave the same remainder.
LEMMA Reduced ==
  ASSUME NEW n \in Nat, n > 0, NEW x \in Int
  PROVE  x % n \in 0 .. n - 1 /\ Congruent(x % n, x, n) /\ Congruent(x, x % n, n)
<1>1. x % n \in Int /\ Congruent(x, x % n, n)
  BY Division DEF Congruent
<1> QED BY <1>1, Back, Division

\* Congruent numbers have the same remainder, and the other way round.
LEMMA SameRemainder ==
  ASSUME NEW n \in Nat, n > 0, NEW x \in Int, NEW y \in Int, Congruent(x, y, n)
  PROVE  x % n = y % n
<1>1. Congruent(x, y % n, n) /\ y % n \in 0 .. n - 1
  BY Reduced, Chain
<1>2. PICK k \in Int : x = (y % n) + k * n
  BY <1>1 DEF Congruent
<1> QED BY <1>1, <1>2, Remainder

LEMMA Residue ==
  ASSUME NEW n \in Nat, n > 0, NEW x \in 0 .. n - 1
  PROVE  x % n = x
BY Remainder, x + 0 * n = x, 0 \in Int

LEMMA Rest ==
  ASSUME NEW n \in Nat, n > 0, NEW x \in Int, NEW y \in Int, x % n = y % n
  PROVE  Congruent(x, y, n)
<1>1. Congruent(x, x % n, n) /\ x % n \in Int
  BY Reduced
<1>2. Congruent(y % n, y, n)
  BY Reduced
<1>3. Congruent(x % n, y, n)
  BY <1>2
<1> QED BY <1>1, <1>3, Chain

\* A common divisor of f and n is what the smallest positive combination of
\* the two is, so a unit has an inverse.
LEMMA Bezout ==
  ASSUME NEW n \in Nat, n > 1, NEW f \in Nat, Coprime(f, n)
  PROVE  \E a, b \in Int : a * f + b * n = 1
<1> DEFINE S == {x \in Nat : x > 0 /\ \E a, b \in Int : x = a * f + b * n}
<1>1. n \in S
  <2>1. 0 \in Int /\ 1 \in Int /\ n = 0 * f + 1 * n
    OBVIOUS
  <2> QED BY <2>1
<1>2. PICK g \in S : \A x \in S : g <= x
  BY <1>1, Smallest
<1>3. PICK a \in Int, b \in Int : g = a * f + b * n
  BY <1>2
<1>4. g \in Nat /\ g > 0
  BY <1>2
\* What g leaves of a combination is a smaller one.
<1>5. ASSUME NEW x \in Nat, NEW c \in Int, NEW d \in Int, x = c * f + d * n
      PROVE  x % g = 0
  <2>1. PICK k \in Int : x = (x % g) + k * g
    BY <1>4, Division
  <2>2. x % g \in 0 .. g - 1
    BY <1>4, Division
  <2>3. x % g = x - k * g
    BY <1>4, <2>1, <2>2
  <2>4. x % g = (c * f + d * n) - k * (a * f + b * n)
    BY <1>3, <1>5, <2>3
  <2>5. (c * f + d * n) - k * (a * f + b * n) = (c - k * a) * f + (d - k * b) * n
    BY <1>4
  <2>6. c - k * a \in Int /\ d - k * b \in Int
    OBVIOUS
  <2>7. x % g = (c - k * a) * f + (d - k * b) * n
    BY <2>4, <2>5
  <2>8. ASSUME x % g > 0 PROVE FALSE
    <3>1. PICK z, i, j : z = x % g /\ i = c - k * a /\ j = d - k * b
      OBVIOUS
    <3>2. z \in Nat /\ z > 0 /\ z < g
      BY <1>4, <2>2, <2>8, <3>1
    <3>3. i \in Int /\ j \in Int /\ z = i * f + j * n
      BY <2>6, <2>7, <3>1
    <3>4. z \in S
      BY <3>2, <3>3
    <3> HIDE DEF S
    <3>5. g <= z
      BY <1>2, <3>4
    <3> QED BY <1>4, <3>2, <3>5
  <2> QED BY <1>4, <2>2, <2>8
<1>6. f % g = 0 /\ n % g = 0
  <2>1. 0 \in Int /\ 1 \in Int /\ n = 0 * f + 1 * n /\ f = 1 * f + 0 * n
    OBVIOUS
  <2> QED BY <1>5, <2>1
<1>7. g <= n
  BY <1>1, <1>2
<1>8. g = 1
  BY <1>4, <1>6, <1>7 DEF Coprime
<1> QED BY <1>3, <1>8

\* What InverseMod chooses exists, for everything coprime to the modulus.
LEMMA InverseOfUnit ==
  ASSUME NEW n \in Nat, n > 1, NEW f \in Units(n)
  PROVE  InverseMod(f, n) \in 1 .. n - 1 /\ (f * InverseMod(f, n)) % n = 1
<1>1. f \in Nat /\ f \in 1 .. n - 1 /\ Coprime(f, n)
  BY DEF Units
<1>2. PICK a \in Int, b \in Int : a * f + b * n = 1
  BY <1>1, Bezout
<1> DEFINE i == a % n
<1>3. i \in 0 .. n - 1 /\ Congruent(i, a, n)
  BY Reduced
<1>4. Congruent(f * i, f * a, n)
  BY <1>1, <1>3, Same, Times
<1>5. f * a = 1 + (- b) * n /\ - b \in Int /\ f * a \in Int
  BY <1>1, <1>2
<1>6. Congruent(f * a, 1, n)
  BY <1>5 DEF Congruent
<1>7. Congruent(f * i, 1, n) /\ f * i \in Int
  BY <1>1, <1>3, <1>4, <1>5, <1>6, Chain
<1>8. (f * i) % n = 1
  BY <1>7, SameRemainder, Residue
<1>9. i # 0
  <2>1. f * 0 = 0 /\ 0 % n = 0
    BY <1>1, Residue
  <2> QED BY <1>8, <2>1
<1>10. i \in 1 .. n - 1
  BY <1>3, <1>9
<1> HIDE DEF i
<1> QED BY <1>8, <1>10 DEF InverseMod

\* What has an inverse has no factor in common with the modulus.
LEMMA Invertible ==
  ASSUME NEW n \in Nat, n > 1, NEW x \in 0 .. n - 1, NEW y \in Int,
         Congruent(x * y, 1, n)
  PROVE  x \in Units(n)
<1>1. PICK k \in Int : x * y = 1 + k * n
  BY DEF Congruent
<1>2. ASSUME NEW g \in 2 .. n, x % g = 0, n % g = 0
      PROVE  FALSE
  <2>1. PICK u \in Int : x = u * g
    <3>1. g \in Nat /\ g > 0 /\ x \in Int
      OBVIOUS
    <3>2. PICK u \in Int : x = (x % g) + u * g
      BY <3>1, Division
    <3>3. x = 0 + u * g
      BY <1>2, <3>2
    <3> QED BY <3>3
  <2>2. PICK v \in Int : n = v * g
    <3>1. g \in Nat /\ g > 0 /\ n \in Int
      OBVIOUS
    <3>2. PICK v \in Int : n = (n % g) + v * g
      BY <3>1, Division
    <3>3. n = 0 + v * g
      BY <1>2, <3>2
    <3> QED BY <3>3
  <2>3. (u * g) * y = 1 + k * (v * g)
    BY <1>1, <2>1, <2>2
  <2>4. (u * g) * y - k * (v * g) = (u * y - k * v) * g
    OBVIOUS
  <2> DEFINE w == u * y - k * v
  <2>5. w \in Int /\ w * g = 1
    BY <2>3, <2>4
  <2> HIDE DEF w
  <2>6. w > 0 => w * g > 1
    BY <2>5
  <2>7. w <= 0 => w * g <= 0
    BY <2>5
  <2> QED BY <2>5, <2>6, <2>7
<1>3. x # 0
  <2>1. x = 0 => FALSE
    BY <1>2, n \in 2 .. n, 0 % n = 0, n % n = 0
  <2> QED BY <2>1
<1>4. Coprime(x, n)
  BY <1>2 DEF Coprime
<1>5. x \in 1 .. n - 1
  BY <1>3
<1> QED BY <1>4, <1>5 DEF Units

-----------------------------------------------------------------------------
\* Powers are what they are called.
LEMMA PowersDef ==
  ASSUME NEW b \in Int, NEW x \in Nat
  PROVE  /\ Powers(b, x) \in [0 .. x -> Int]
         /\ Powers(b, x)[0] = 1
         /\ \A k \in 1 .. x : Powers(b, x)[k] = Powers(b, x)[k - 1] * b
<1> DEFINE p[k \in 0 .. x] == IF k = 0 THEN 1 ELSE p[k - 1] * b
           step == [k \in 1 .. x |-> [v \in Int |-> v * b]]
<1>1. Powers(b, x) = p
  BY DEF Powers
<1>2. step \in [1 .. x -> [Int -> Int]]
  OBVIOUS
<1>3. \A k \in 1 .. x, v \in Int : step[k][v] = v * b
  OBVIOUS
<1> HIDE DEF step
<1>4. 1 \in Int
  OBVIOUS
<1>5. PICK g : Unfolds(g, Int, 1, x, step)
  BY <1>2, <1>4, Recursion, Zenon
<1>6. /\ g \in [0 .. x -> Int] /\ g[0] = 1
      /\ \A k \in 1 .. x : g[k] = step[k][g[k - 1]]
  BY <1>5 DEF Unfolds
<1>7. ASSUME NEW k \in 1 .. x PROVE g[k] = g[k - 1] * b
  <2>1. g[k - 1] \in Int
    BY <1>6
  <2>2. g[k] = step[k][g[k - 1]]
    BY <1>6
  <2> QED BY <1>3, <2>1, <2>2, Zenon
<1>8. g = [k \in 0 .. x |-> IF k = 0 THEN 1 ELSE g[k - 1] * b]
  BY <1>6, <1>7
<1>9. p = [k \in 0 .. x |-> IF k = 0 THEN 1 ELSE p[k - 1] * b]
  BY <1>8, Zenon
<1> HIDE DEF p
<1>10. p[0] = 1 /\ \A k \in 1 .. x : p[k] = p[k - 1] * b
  BY <1>9
<1> DEFINE S == {k \in Nat : k <= x => p[k] \in Int}
<1>11. \A k \in Nat : k \in S
  <2>1. 0 \in S /\ \A k \in Nat : k \in S => k + 1 \in S
    BY <1>10
  <2> HIDE DEF S
  <2> QED BY <2>1, Induction
<1>12. p \in [0 .. x -> Int]
  BY <1>9, <1>11
<1> QED BY <1>1, <1>10, <1>12

LEMMA PowerType ==
  ASSUME NEW b \in Int, NEW x \in Nat
  PROVE  Power(b, x) \in Int
BY PowersDef DEF Power

\* Powers of products, of congruent numbers and of one.
LEMMA PowerOfProduct ==
  ASSUME NEW a \in Int, NEW b \in Int, NEW x \in Nat
  PROVE  Power(a * b, x) = Power(a, x) * Power(b, x)
<1> DEFINE S == {k \in Nat : k <= x =>
                   Powers(a * b, x)[k] = Powers(a, x)[k] * Powers(b, x)[k]}
<1>1. 0 \in S
  BY PowersDef, a * b \in Int, 1 * 1 = 1
<1>2. ASSUME NEW k \in Nat, k \in S PROVE k + 1 \in S
  <2> SUFFICES ASSUME k + 1 <= x
               PROVE  Powers(a * b, x)[k + 1] = Powers(a, x)[k + 1] * Powers(b, x)[k + 1]
    OBVIOUS
  <2>1. PICK p, q, pq : p = Powers(a, x)[k] /\ q = Powers(b, x)[k] /\ pq = Powers(a * b, x)[k]
    OBVIOUS
  <2>2. k \in 0 .. x /\ k + 1 \in 1 .. x /\ (k + 1) - 1 = k
    OBVIOUS
  <2>3. p \in Int /\ Powers(a, x)[k + 1] = p * a
    BY <2>1, <2>2, PowersDef
  <2>4. q \in Int /\ Powers(b, x)[k + 1] = q * b
    BY <2>1, <2>2, PowersDef
  <2>5. Powers(a * b, x)[k + 1] = pq * (a * b)
    BY <2>1, <2>2, PowersDef, a * b \in Int
  <2>6. pq = p * q
    BY <1>2, <2>1, <2>2
  <2>7. (p * q) * (a * b) = (p * a) * (q * b)
    BY <2>3, <2>4
  <2> QED BY <2>3, <2>4, <2>5, <2>6, <2>7
<1> HIDE DEF S
<1>3. x \in S
  BY <1>1, <1>2, Induction
<1> QED BY <1>3 DEF S, Power

LEMMA PowerOfCongruent ==
  ASSUME NEW n \in Nat, NEW a \in Int, NEW b \in Int, NEW x \in Nat, Congruent(a, b, n)
  PROVE  Congruent(Power(a, x), Power(b, x), n)
<1> DEFINE S == {k \in Nat : k <= x => Congruent(Powers(a, x)[k], Powers(b, x)[k], n)}
<1>1. 0 \in S
  BY PowersDef, Same, 1 \in Int
<1>2. ASSUME NEW k \in Nat, k \in S PROVE k + 1 \in S
  <2> SUFFICES ASSUME k + 1 <= x
               PROVE  Congruent(Powers(a, x)[k + 1], Powers(b, x)[k + 1], n)
    OBVIOUS
  <2>1. PICK p, q : p = Powers(a, x)[k] /\ q = Powers(b, x)[k]
    OBVIOUS
  <2>2. k \in 0 .. x /\ k + 1 \in 1 .. x /\ (k + 1) - 1 = k
    OBVIOUS
  <2>3. p \in Int /\ Powers(a, x)[k + 1] = p * a
    BY <2>1, <2>2, PowersDef
  <2>4. q \in Int /\ Powers(b, x)[k + 1] = q * b
    BY <2>1, <2>2, PowersDef
  <2>5. Congruent(p, q, n)
    BY <1>2, <2>1, <2>2
  <2>6. Congruent(p * a, q * b, n)
    BY <2>3, <2>4, <2>5, Times
  <2> QED BY <2>3, <2>4, <2>6
<1> HIDE DEF S
<1>3. x \in S
  BY <1>1, <1>2, Induction
<1> QED BY <1>3 DEF S, Power

LEMMA PowerOfOne ==
  ASSUME NEW x \in Nat
  PROVE  Power(1, x) = 1
<1> DEFINE S == {k \in Nat : k <= x => Powers(1, x)[k] = 1}
<1>1. Powers(1, x)[0] = 1 /\ \A k \in 1 .. x : Powers(1, x)[k] = Powers(1, x)[k - 1] * 1
  BY PowersDef, 1 \in Int
<1>2. 0 \in S /\ \A k \in Nat : k \in S => k + 1 \in S
  BY <1>1
<1> HIDE DEF S
<1>3. x \in S
  BY <1>2, Induction
<1> QED BY <1>3 DEF S, Power

\* The power of a number that is given by its residue.
LEMMA PowerOfInverse ==
  ASSUME NEW n \in Nat, n > 1, NEW a \in Int, NEW b \in Int, NEW x \in Nat,
         Congruent(a * b, 1, n)
  PROVE  Congruent(Power(a, x) * Power(b, x), 1, n)
<1>1. Congruent(Power(a * b, x), Power(1, x), n)
  BY PowerOfCongruent, 1 \in Int, a * b \in Int
<1> QED BY <1>1, PowerOfProduct, PowerOfOne

-----------------------------------------------------------------------------
(***************************************************************************)
(* Blind signatures.                                                       *)
(***************************************************************************)
\* What a signature of a blinded message unblinds to verifies as the message.
LEMMA UnblindsTo ==
  ASSUME NEW n \in Nat, n > 1, NEW e \in Nat, NEW m \in 0 .. n - 1,
         NEW f \in Units(n), NEW s \in Int, Power(s, e) % n = (m * Power(f, e)) % n
  PROVE  Power((s * InverseMod(f, n)) % n, e) % n = m
<1>0. n > 0
  OBVIOUS
<1>1. PICK i : i = InverseMod(f, n)
  OBVIOUS
<1>2. i \in Int /\ f \in Int /\ (f * i) % n = 1
  BY <1>1, InverseOfUnit DEF Units
<1>3. PICK se, fe, ie : se = Power(s, e) /\ fe = Power(f, e) /\ ie = Power(i, e)
  OBVIOUS
<1>4. se \in Int /\ fe \in Int /\ ie \in Int
  BY <1>2, <1>3, PowerType
<1>5. Congruent(fe * ie, 1, n)
  <2>1. (f * i) % n = 1 % n /\ f * i \in Int /\ 1 \in Int
    BY <1>2, Residue
  <2>2. Congruent(f * i, 1, n)
    BY <1>0, <2>1, Rest, Zenon
  <2> QED BY <1>2, <1>3, <2>2, PowerOfInverse
<1>6. m \in Int /\ m * fe \in Int /\ (m * fe) * ie \in Int /\ se * ie \in Int /\ s * i \in Int
  BY <1>2, <1>4
<1>61. Congruent(se, m * fe, n)
  <2>1. se % n = (m * fe) % n
    BY <1>3
  <2> QED BY <1>0, <1>4, <1>6, <2>1, Rest, Zenon
<1>62. Congruent(ie, ie, n) /\ Congruent(m, m, n)
  BY <1>4, <1>6, Same, Zenon
<1>7. Congruent(se * ie, (m * fe) * ie, n)
  BY <1>4, <1>6, <1>61, <1>62, Times, Zenon
<1>8. Congruent(m * (fe * ie), m * 1, n)
  BY <1>4, <1>5, Same, Times
<1>9. (m * fe) * ie = m * (fe * ie) /\ m * 1 = m
  BY <1>4
<1>10. Congruent(se * ie, m, n)
  BY <1>4, <1>7, <1>8, <1>9, Chain
<1>11. PICK u : u = (s * i) % n
  OBVIOUS
<1>12. u \in Int /\ Congruent(u, s * i, n)
  BY <1>2, <1>11, Reduced
<1>13. Congruent(Power(u, e), Power(s * i, e), n)
  BY <1>2, <1>12, PowerOfCongruent
<1>14. Power(s * i, e) = se * ie
  BY <1>2, <1>3, PowerOfProduct
<1>15. Power(u, e) \in Int /\ Congruent(Power(u, e), m, n)
  <2>1. Power(u, e) \in Int
    BY <1>12, PowerType, Zenon
  <2> QED BY <1>6, <1>10, <1>13, <1>14, <2>1, Chain, Zenon
<1>16. Power(u, e) % n = m % n
  BY <1>0, <1>6, <1>15, SameRemainder, Zenon
<1> QED BY <1>1, <1>11, <1>16, Residue

\* Units are closed under products and powers.
LEMMA UnitInverse ==
  ASSUME NEW n \in Nat, n > 1, NEW f \in Units(n)
  PROVE  f \in 1 .. n - 1 /\ \E i \in Int : Congruent(f * i, 1, n)
<1>1. f \in 1 .. n - 1
  BY DEF Units
<1>2. InverseMod(f, n) \in Int /\ (f * InverseMod(f, n)) % n = 1 % n
  BY InverseOfUnit, Residue, 1 \in 0 .. n - 1
<1>3. Congruent(f * InverseMod(f, n), 1, n)
  <2>1. n > 0 /\ f * InverseMod(f, n) \in Int /\ 1 \in Int
    BY <1>1, <1>2
  <2> QED BY <1>2, <2>1, Rest, Zenon
<1> QED BY <1>1, <1>2, <1>3

LEMMA UnitOfInverse ==
  ASSUME NEW n \in Nat, n > 1, NEW x \in Int, NEW y \in Int, Congruent(x * y, 1, n)
  PROVE  x % n \in Units(n)
<1>1. x % n \in 0 .. n - 1 /\ Congruent(x % n, x, n)
  BY Reduced
<1>2. Congruent((x % n) * y, x * y, n)
  <2>1. Congruent(y, y, n) /\ x % n \in Int
    BY <1>1, Same
  <2> QED BY <1>1, <2>1, Times, Zenon
<1>3. Congruent((x % n) * y, 1, n)
  BY <1>1, <1>2, Chain
<1> QED BY <1>1, <1>3, Invertible

\* Units are closed under products and powers.
LEMMA UnitProduct ==
  ASSUME NEW n \in Nat, n > 1, NEW a \in Units(n), NEW b \in Units(n)
  PROVE  (a * b) % n \in Units(n)
<1>1. PICK i \in Int : Congruent(a * i, 1, n)
  BY UnitInverse
<1>2. PICK j \in Int : Congruent(b * j, 1, n)
  BY UnitInverse
<1>3. a \in Int /\ b \in Int
  BY UnitInverse
<1>4. Congruent((a * i) * (b * j), 1 * 1, n)
  BY <1>1, <1>2, <1>3, Times
<1>5. (a * i) * (b * j) = (a * b) * (i * j) /\ 1 * 1 = 1 /\ a * b \in Int /\ i * j \in Int
  BY <1>3
<1>6. Congruent((a * b) * (i * j), 1, n)
  BY <1>4, <1>5
<1> QED BY <1>5, <1>6, UnitOfInverse

LEMMA UnitPower ==
  ASSUME NEW n \in Nat, n > 1, NEW a \in Units(n), NEW x \in Nat
  PROVE  Power(a, x) % n \in Units(n)
<1>1. PICK i \in Int : Congruent(a * i, 1, n)
  BY UnitInverse
<1>2. a \in Int
  BY UnitInverse
<1>3. Congruent(Power(a, x) * Power(i, x), 1, n)
  BY <1>1, <1>2, PowerOfInverse
<1> QED BY <1>2, <1>3, PowerType, UnitOfInverse

\* Blinding a unit gives a unit ...
LEMMA BlindIsUnit ==
  ASSUME NEW n \in Nat, n > 1, NEW e \in Nat, NEW m \in Units(n), NEW f \in Units(n)
  PROVE  (m * Power(f, e)) % n \in Units(n)
<1>1. PICK q : q = Power(f, e) % n
  OBVIOUS
<1>2. f \in Int /\ m \in Int
  BY UnitInverse
<1>3. q \in Units(n) /\ Power(f, e) \in Int /\ q \in Int
  <2>1. q \in Units(n)
    BY <1>1, UnitPower
  <2>2. q \in Int
    BY <2>1, UnitInverse
  <2> QED BY <1>2, <2>1, <2>2, PowerType
<1>4. Congruent(Power(f, e), q, n)
  BY <1>1, <1>3, Reduced
<1>5. Congruent(m * Power(f, e), m * q, n)
  <2>1. Congruent(m, m, n)
    BY <1>2, Same
  <2> QED BY <1>2, <1>3, <1>4, <2>1, Times, Zenon
<1>6. (m * Power(f, e)) % n = (m * q) % n
  <2>1. n > 0 /\ m * Power(f, e) \in Int /\ m * q \in Int
    BY <1>2, <1>3
  <2> QED BY <1>5, <2>1, SameRemainder, Zenon
<1> QED BY <1>3, <1>6, UnitProduct

\* ... and under some factor it gives any unit there is.
LEMMA AnyBlinding ==
  ASSUME NEW key, IsKeyPair(key), NEW m \in Units(key.n), NEW a \in Units(key.n)
  PROVE  \E factor \in Units(key.n) : a = Blind(key, m, factor)
<1>1. PICK n \in Nat, e \in Nat, d \in Nat : n = key.n /\ e = key.e /\ d = key.d /\ n > 1
  BY DEF IsKeyPair
<1>2. m \in Units(n) /\ a \in Units(n)
  BY <1>1
<1>3. m \in Int /\ a \in 1 .. n - 1 /\ a \in Int
  BY <1>1, <1>2, UnitInverse
<1>4. PICK i \in Units(n) : Congruent(m * i, 1, n)
  <2>1. PICK j \in Int : Congruent(m * j, 1, n)
    BY <1>1, <1>2, UnitInverse
  <2>2. Congruent(j % n, j, n) /\ j % n \in Int
    BY <1>1, Reduced
  <2>3. Congruent(m * (j % n), m * j, n)
    BY <1>3, <2>2, Same, Times
  <2>4. Congruent(m * (j % n), 1, n)
    BY <1>3, <2>1, <2>2, <2>3, Chain
  <2>5. j * m = m * j
    BY <1>3
  <2>6. j % n \in Units(n)
    BY <1>1, <1>3, <2>1, <2>5, UnitOfInverse
  <2> QED BY <2>4, <2>6
<1>5. PICK q : q = (a * i) % n
  OBVIOUS
<1>6. q \in Units(n) /\ i \in Int /\ q \in Int
  BY <1>1, <1>2, <1>5, UnitProduct, UnitInverse
<1>7. PICK f : f = RawSignature(key, q)
  OBVIOUS
<1>8. f = Power(q, d) % n
  BY <1>1, <1>7 DEF RawSignature
<1>9. f \in Units(n) /\ f \in Int
  BY <1>1, <1>6, <1>8, UnitPower, UnitInverse
<1>10. Power(f, e) % n = q
  BY <1>1, <1>6, <1>7 DEF IsKeyPair
<1>11. PICK fe \in Int : fe = Power(f, e)
  BY <1>9, PowerType
<1>12. Congruent(fe, q, n)
  BY <1>1, <1>10, <1>11, Reduced
<1>13. Congruent(q, a * i, n)
  <2>1. n > 0 /\ a * i \in Int
    BY <1>1, <1>3, <1>6
  <2> QED BY <1>5, <2>1, Reduced, Zenon
<1>20. a * i \in Int /\ m * (a * i) \in Int /\ m * fe \in Int /\ m * i \in Int /\ n > 0
  BY <1>1, <1>3, <1>6
<1>14. Congruent(m * fe, m * (a * i), n)
  <2>1. Congruent(m, m, n) /\ Congruent(fe, a * i, n)
    BY <1>3, <1>6, <1>12, <1>13, <1>20, Chain, Same, Zenon
  <2> QED BY <1>3, <1>20, <2>1, Times, Zenon
<1>15. m * (a * i) = a * (m * i) /\ a * 1 = a
  BY <1>3, <1>6
<1>16. Congruent(a * (m * i), a * 1, n)
  BY <1>3, <1>4, <1>6, Same, Times
<1>17. Congruent(m * fe, a, n)
  BY <1>3, <1>6, <1>14, <1>15, <1>16, Chain
<1>18. (m * fe) % n = a
  <2>1. (m * fe) % n = a % n
    BY <1>3, <1>17, <1>20, SameRemainder, Zenon
  <2> QED BY <1>3, <1>20, <2>1, Residue
<1> QED BY <1>1, <1>9, <1>11, <1>18 DEF Blind

\* z is what a nonce is sent as, and inv takes the blinding away again.
Made(entry, nonce, z, inv) ==
  \E salt \in Salts, factor \in Units(entry.key.n) :
    /\ Blindable(entry.key, Encode(nonce, salt, entry.key.n))
    /\ z = Blind(entry.key, Encode(nonce, salt, entry.key.n), factor)
    /\ inv = InverseMod(factor, entry.key.n)
MadeBatch(sent) ==
  sent.kind = "blinded_messages" =>
    /\ ToSet(sent.nonces) \subseteq Nonces
    /\ \A i \in DOMAIN sent.nonces :
         Made(sent.entry, sent.nonces[i], sent.payload[i], sent.invs[i])
SignedBatch(sent, answer) ==
  sent.kind = "blinded_messages" =>
    \A i \in DOMAIN sent.nonces :
      /\ Signable(answer.by.key, sent.payload[i])
      /\ answer.signatures[i] = Raw(RawSignature(answer.by.key, sent.payload[i]))

\* Under an honest answer a token's message is a unit, as all that is sent is.
OfUnit(token) ==
  token.advertised.algorithm = "rsabssa" /\ token.by = token.advertised =>
    LET key == token.advertised.key IN
      /\ Findable(token.advertised)
      /\ Power(token.signature.raw, key.e) % key.n \in Units(key.n)
OfUnits(request) ==
  request.kind = "blinded_messages" =>
    /\ request.entry.algorithm = "rsabssa"
    /\ \A i \in DOMAIN request.payload :
         request.payload[i] \in Units(request.entry.key.n)

\* What is on its way was blinded and signed as the code does it; what is stored
\* or seen under a blind key is a unit.
BlindInv ==
  /\ command.at = "sent" => MadeBatch(command)
  /\ command.at = "answered" =>
       MadeBatch(command.sent) /\ SignedBatch(command.sent, command.answer)
  /\ \A token \in tokens : OfUnit(token)
  /\ \A request \in seen : OfUnits(request)

\* A blind key that can be found is a key pair over which messages encode.
LEMMA FoundKey ==
  ASSUME NEW entry, Findable(entry), entry.algorithm = "rsabssa"
  PROVE  /\ IsKeyPair(entry.key)
         /\ \A nonce \in Nonces, salt \in Salts :
              Encode(nonce, salt, entry.key.n) \in 0 .. entry.key.n - 1
<1>1. PICK file \in KeyFiles, claim \in Claims : entry \in EntriesFor(file, claim)
  BY DEF Findable
<1>2. entry \in ToSet(file)
  BY <1>1, Found
<1>3. ProperEntry(entry)
  BY <1>2, IssuanceAssumption
<1> QED BY <1>3 DEF ProperEntry

LEMMA BlindableIsUnit ==
  ASSUME NEW n \in Nat, n > 1, NEW m \in 0 .. n - 1, Coprime(m, n)
  PROVE  m \in Units(n)
<1>1. n \in 2 .. n /\ n % n = 0 /\ 0 % n = 0
  OBVIOUS
<1>2. m # 0
  BY <1>1 DEF Coprime
<1> QED BY <1>2 DEF Units

\* What a message unblinds to when the key it was blinded under signs it.
LEMMA HonestToken ==
  ASSUME NEW entry, Findable(entry), entry.algorithm = "rsabssa",
         NEW nonce \in Nonces, NEW z, NEW inv, Made(entry, nonce, z, inv),
         Signable(entry.key, z)
  PROVE  LET u == Unblinded(entry.key, RawSignature(entry.key, z), inv)
             m == Power(u, entry.key.e) % entry.key.n
         IN /\ m \in Units(entry.key.n)
            /\ \E salt \in Salts : m = Encode(nonce, salt, entry.key.n)
<1>1. PICK key, n, e, d : key = entry.key /\ n = key.n /\ e = key.e /\ d = key.d
  OBVIOUS
<1>2. n \in Nat /\ n > 1 /\ e \in Nat /\ d \in Nat
  BY <1>1, FoundKey DEF IsKeyPair
<1>3. PICK salt \in Salts, factor \in Units(n) :
        /\ Blindable(key, Encode(nonce, salt, n))
        /\ z = Blind(key, Encode(nonce, salt, n), factor)
        /\ inv = InverseMod(factor, n)
  BY <1>1 DEF Made
<1>4. PICK m : m = Encode(nonce, salt, n)
  OBVIOUS
<1>5. m \in 0 .. n - 1
  BY <1>1, <1>4, FoundKey
<1>6. m \in Units(n)
  BY <1>1, <1>2, <1>3, <1>4, <1>5, BlindableIsUnit DEF Blindable
<1>7. z = (m * Power(factor, e)) % n
  BY <1>1, <1>3, <1>4 DEF Blind
<1>8. z \in Int
  <2>1. factor \in Int
    BY DEF Units
  <2>2. Power(factor, e) \in Int
    BY <1>2, <2>1, PowerType
  <2> QED BY <1>2, <1>5, <1>7, <2>2
<1>9. PICK s : s = RawSignature(key, z)
  OBVIOUS
<1>10. s \in Int
  <2>1. Power(z, d) \in Int
    BY <1>2, <1>8, PowerType
  <2> QED BY <1>1, <1>2, <1>9, <2>1 DEF RawSignature
<1>11. Power(s, e) % n = (m * Power(factor, e)) % n
  BY <1>1, <1>7, <1>9 DEF Signable
<1>12. Power((s * InverseMod(factor, n)) % n, e) % n = m
  BY <1>2, <1>5, <1>10, <1>11, UnblindsTo
<1>13. Unblinded(key, s, inv) = (s * InverseMod(factor, n)) % n
  BY <1>1, <1>3 DEF Unblinded
<1> QED BY <1>1, <1>4, <1>6, <1>9, <1>12, <1>13

\* What is sent for a blind key is a unit, so that the issuer's check passes.
LEMMA MadeIsUnit ==
  ASSUME NEW entry, Findable(entry), entry.algorithm = "rsabssa",
         NEW nonce \in Nonces, NEW z, NEW inv, Made(entry, nonce, z, inv)
  PROVE  z \in Units(entry.key.n)
<1>1. PICK key, n, e : key = entry.key /\ n = key.n /\ e = key.e
  OBVIOUS
<1>2. n \in Nat /\ n > 1 /\ e \in Nat
  BY <1>1, FoundKey DEF IsKeyPair
<1>3. PICK salt \in Salts, factor \in Units(n) :
        /\ Blindable(key, Encode(nonce, salt, n))
        /\ z = Blind(key, Encode(nonce, salt, n), factor)
  BY <1>1 DEF Made
<1>4. PICK m : m = Encode(nonce, salt, n)
  OBVIOUS
<1>5. m \in 0 .. n - 1
  BY <1>1, <1>4, FoundKey
<1>6. m \in Units(n)
  BY <1>1, <1>2, <1>3, <1>4, <1>5, BlindableIsUnit DEF Blindable
<1> QED BY <1>1, <1>2, <1>3, <1>4, <1>6, BlindIsUnit DEF Blind

-----------------------------------------------------------------------------
LEMMA InitBlind == Init => BlindInv
  BY DEF Init, BlindInv, Idle

\* Blinding, signing and finalizing keep it so.
LEMMA NextBlind ==
  ASSUME MintInv, BlindInv, [Next]_vars
  PROVE  BlindInv'
<1>1. \A entry : Findable(entry) => Findable(entry)'
  BY PublishedGrows DEF Findable
<1>2. ASSUME NEW token, OfUnit(token) PROVE OfUnit(token)'
  BY <1>1, <1>2 DEF OfUnit
<1>3. PICK was, next : was = command /\ next = command'
  OBVIOUS
<1>4. \/ next.at \notin {"sent", "answered"} \/ next = was
      => /\ next.at = "sent" => MadeBatch(next)
         /\ next.at = "answered" => MadeBatch(next.sent) /\ SignedBatch(next.sent, next.answer)
  BY <1>3 DEF BlindInv
<1>5. CASE UNCHANGED <<tokens, seen>> /\ (next = was \/ next.at \notin {"sent", "answered"})
  BY <1>2, <1>3, <1>4, <1>5 DEF BlindInv
<1>6. CASE BlindBatch /\ next # Idle
  <2> DEFINE M(nonces, salts) ==
               [i \in DOMAIN nonces |-> Encode(nonces[i], salts[i], was.entry.key.n)]
             Sent(nonces, salts, factors) ==
               [at |-> "sent", entry |-> was.entry, nonces |-> nonces,
                kind |-> "blinded_messages",
                payload |-> [i \in DOMAIN nonces |->
                               Blind(was.entry.key, M(nonces, salts)[i], factors[i])],
                invs |-> [i \in DOMAIN nonces |->
                            InverseMod(factors[i], was.entry.key.n)]]
  <2>0. PICK nonces \in Batches :
          \E salts \in [DOMAIN nonces -> Salts],
             factors \in [DOMAIN nonces -> Units(was.entry.key.n)] :
            next = IF \A i \in DOMAIN nonces : Blindable(was.entry.key, M(nonces, salts)[i])
                   THEN Sent(nonces, salts, factors) ELSE Idle
    BY <1>3, <1>6 DEF BlindBatch
  <2>1. PICK salts \in [DOMAIN nonces -> Salts],
             factors \in [DOMAIN nonces -> Units(was.entry.key.n)] :
          /\ \A i \in DOMAIN nonces : Blindable(was.entry.key, M(nonces, salts)[i])
          /\ next = Sent(nonces, salts, factors)
    BY <1>6, <2>0
  <2>2. nonces \in [DOMAIN nonces -> Nonces]
    BY DEF Batches
  <2>3. ASSUME NEW i \in DOMAIN nonces
        PROVE  Made(was.entry, next.nonces[i], next.payload[i], next.invs[i])
    BY <2>1 DEF Made
  <2>4. MadeBatch(next)
    BY <2>1, <2>2, <2>3 DEF MadeBatch, ToSet
  <2>5. UNCHANGED <<tokens, seen>> /\ next.at = "sent"
    BY <1>6, <2>1 DEF BlindBatch
  <2> QED BY <1>2, <1>3, <2>4, <2>5 DEF BlindInv
<1>7. CASE PlainBatch
  <2>1. next.at = "sent" /\ next.kind = "nonces" /\ UNCHANGED <<tokens, seen>>
    BY <1>3, <1>7 DEF PlainBatch
  <2> QED BY <1>2, <1>3, <2>1 DEF BlindInv, MadeBatch
<1>8. CASE IssueTokens
  <2>1. was.at = "sent" /\ Requested(was) /\ MadeBatch(was) /\ UNCHANGED tokens
    BY <1>3, <1>8 DEF IssueTokens, MintInv, BlindInv
  <2>2. seen' = seen \cup {[entry |-> was.entry, kind |-> was.kind, payload |-> was.payload]}
    BY <1>3, <1>8 DEF IssueTokens
  <2>3. ASSUME was.kind = "blinded_messages", NEW i \in DOMAIN was.payload
        PROVE  was.payload[i] \in Units(was.entry.key.n)
    <3>1. i \in DOMAIN was.nonces /\ was.nonces[i] \in Nonces
      BY <2>1, <2>3 DEF Requested, MadeBatch, ToSet
    <3> QED BY <2>1, <2>3, <3>1, MadeIsUnit DEF Requested, MadeBatch
  <2>4. \A request \in seen' : OfUnits(request)
    <3>1. was.kind = "blinded_messages" => was.entry.algorithm = "rsabssa"
      BY <2>1 DEF Requested
    <3> QED BY <2>2, <2>3, <3>1 DEF OfUnits, BlindInv
  <2>5. CASE next = Idle
    BY <1>2, <1>3, <2>1, <2>4, <2>5 DEF BlindInv, Idle
  <2>6. CASE next # Idle
    <3>1. PICK answer \in SignBatch(was) :
            next = [at |-> "answered", sent |-> was, answer |-> answer]
      BY <1>3, <1>8, <2>6 DEF IssueTokens
    <3>2. SignedBatch(was, answer)
      BY <2>1, <3>1 DEF SignBatch, SignedBatch, Requested
    <3>3. next.at = "answered" /\ next.sent = was /\ next.answer = answer
      BY <3>1
    <3> QED BY <1>2, <1>3, <2>1, <2>4, <3>2, <3>3 DEF BlindInv
  <2> QED BY <2>5, <2>6
<1>9. CASE FinalizeBatch
  <2>1. PICK sent, answer : sent = was.sent /\ answer = was.answer
    OBVIOUS
  <2> DEFINE Stored(i) == [nonce |-> sent.nonces[i], key_id |-> answer.by.key_id,
                           advertised |-> sent.entry, by |-> answer.by,
                           signature |-> Kept(sent, answer.signatures)[i]]
  <2>2. /\ Requested(sent) /\ Signed(sent, answer)
        /\ MadeBatch(sent) /\ SignedBatch(sent, answer)
    BY <1>3, <1>9, <2>1 DEF FinalizeBatch, MintInv, BlindInv
  <2>3. /\ next = Idle /\ seen' = seen
        /\ tokens' \subseteq tokens \cup {Stored(i) : i \in DOMAIN sent.nonces}
    BY <1>3, <1>9, <2>1 DEF FinalizeBatch
  <2>4. ASSUME NEW i \in DOMAIN sent.nonces PROVE OfUnit(Stored(i))
    <3> SUFFICES ASSUME sent.entry.algorithm = "rsabssa", answer.by = sent.entry
                 PROVE  Power(Kept(sent, answer.signatures)[i].raw, sent.entry.key.e)
                          % sent.entry.key.n \in Units(sent.entry.key.n)
      BY <2>2 DEF OfUnit, Requested
    <3>1. /\ sent.kind = "blinded_messages" /\ Findable(sent.entry)
          /\ i \in DOMAIN answer.signatures
      BY <2>2 DEF Requested, Signed
    <3>2. /\ sent.nonces[i] \in Nonces /\ Signable(sent.entry.key, sent.payload[i])
          /\ Made(sent.entry, sent.nonces[i], sent.payload[i], sent.invs[i])
          /\ answer.signatures[i] = Raw(RawSignature(sent.entry.key, sent.payload[i]))
      BY <2>2, <3>1 DEF MadeBatch, SignedBatch, ToSet
    <3>3. Kept(sent, answer.signatures)[i].raw
            = Unblinded(sent.entry.key, RawSignature(sent.entry.key, sent.payload[i]), sent.invs[i])
      BY <3>1, <3>2 DEF Kept, Raw
    <3> QED BY <3>1, <3>2, <3>3, HonestToken
  <2> HIDE DEF Stored
  <2>5. \A token \in tokens' : OfUnit(token)
    BY <2>3, <2>4 DEF BlindInv
  <2> QED BY <1>2, <1>3, <2>3, <2>5 DEF BlindInv, Idle
<1>10. CASE BlindBatch /\ next = Idle
  BY <1>5, <1>10 DEF BlindBatch, Idle
<1> QED
  BY <1>3, <1>5, <1>6, <1>7, <1>8, <1>9, <1>10 DEF Next, Rotate, ReadWellKnown,
     Interrupted, VcGet, VcProve, vars, walletVars, Idle

\* Every signature of an honest batch finalizes.
LEMMA HonestBatch == MintInv /\ BlindInv => BatchUnblinds
<1> SUFFICES ASSUME MintInv, BlindInv, command.at = "answered",
                    command.answer.by = command.sent.entry,
                    command.sent.kind = "blinded_messages",
                    NEW i \in DOMAIN command.answer.signatures
             PROVE  PssVerifies(command.sent.entry.key, command.sent.nonces[i],
                                Kept(command.sent, command.answer.signatures)[i].raw)
  BY DEF BatchUnblinds, Finalizes
<1>1. PICK sent, answer : sent = command.sent /\ answer = command.answer
  OBVIOUS
<1>2. /\ Requested(sent) /\ Signed(sent, answer)
      /\ MadeBatch(sent) /\ SignedBatch(sent, answer)
  BY <1>1 DEF MintInv, BlindInv
<1>3. /\ Findable(sent.entry) /\ i \in DOMAIN sent.nonces
      /\ sent.entry.algorithm = "rsabssa"
  BY <1>1, <1>2 DEF Requested, Signed
<1>4. /\ sent.nonces[i] \in Nonces /\ Signable(sent.entry.key, sent.payload[i])
      /\ Made(sent.entry, sent.nonces[i], sent.payload[i], sent.invs[i])
      /\ answer.signatures[i] = Raw(RawSignature(sent.entry.key, sent.payload[i]))
  BY <1>1, <1>2, <1>3 DEF MadeBatch, SignedBatch, ToSet
<1>5. Kept(sent, answer.signatures)[i].raw
        = Unblinded(sent.entry.key, RawSignature(sent.entry.key, sent.payload[i]), sent.invs[i])
  BY <1>1, <1>4 DEF Kept, Raw
<1> QED BY <1>1, <1>3, <1>4, <1>5, HonestToken DEF PssVerifies

\* Any unit is a blinding of any other.
LEMMA Unlinkable == NoncesStaySecret /\ BlindInv => TokenUnlinkable
<1> SUFFICES ASSUME BlindInv, NEW token \in tokens,
                    token.advertised.algorithm = "rsabssa", token.by = token.advertised,
                    NEW request \in seen, request.kind = "blinded_messages",
                    request.entry = token.advertised,
                    NEW i \in DOMAIN request.payload
             PROVE  \E factor \in Units(token.advertised.key.n) :
                      request.payload[i] = Blind(token.advertised.key,
                        Power(token.signature.raw, token.advertised.key.e)
                          % token.advertised.key.n, factor)
  BY DEF TokenUnlinkable
<1>1. PICK key : key = token.advertised.key
  OBVIOUS
<1>2. IsKeyPair(key)
  BY <1>1, FoundKey DEF BlindInv, OfUnit
<1>3. Power(token.signature.raw, key.e) % key.n \in Units(key.n)
  BY <1>1 DEF BlindInv, OfUnit
<1>4. request.payload[i] \in Units(key.n)
  BY <1>1 DEF BlindInv, OfUnits
<1> QED BY <1>1, <1>2, <1>3, <1>4, AnyBlinding

\* An honest batch is never thrown away: under the key that was advertised, every
\* signature unblinds to one that verifies, whatever the key pair and the batch.
THEOREM HonestBatchesUnblind == Spec => []BatchUnblinds
<1>1. KeysInv /\ MintInv /\ BlindInv /\ [Next]_vars
        => (KeysInv /\ MintInv /\ BlindInv)'
  BY NextKeys, NextMint, NextBlind
<1> QED BY <1>1, InitMint, InitBlind, HonestBatch, PTL DEF Spec

\* Every blinded message the issuer has seen under the key of a token might have
\* been that token's, whatever it sees, and nonces are never sent in clear.
THEOREM TokensUnlinkable == Spec => []TokenUnlinkable
<1>1. KeysInv /\ MintInv /\ BlindInv /\ [Next]_vars
        => (KeysInv /\ MintInv /\ BlindInv)'
  BY NextKeys, NextMint, NextBlind
<1> QED BY <1>1, InitMint, InitBlind, BlindNoncesSecret, Unlinkable, PTL DEF Spec

-----------------------------------------------------------------------------
(***************************************************************************)
(* Sums of sequences, and finite sets of numbers in order.                 *)
(***************************************************************************)
\* Sums: of a sequence of numbers.
Summing(t, L) ==
  /\ Total(t) = Sums(t)[L]
  /\ Sums(t) \in [0 .. L -> Int]
  /\ Sums(t)[0] = 0
  /\ \A k \in 1 .. L : Sums(t)[k] = Sums(t)[k - 1] + t[k]

\* Sums is what its recursion says.
LEMMA SumsDef ==
  ASSUME NEW L \in Nat, NEW t \in [1 .. L -> Int]
  PROVE  Summing(t, L)
<1> DEFINE p[k \in 0 .. Len(t)] == IF k = 0 THEN 0 ELSE p[k - 1] + t[k]
           step == [k \in 1 .. L |-> [v \in Int |-> v + t[k]]]
<1>0. Len(t) = L
  OBVIOUS
<1>1. Sums(t) = p
  BY DEF Sums
<1>2. step \in [1 .. L -> [Int -> Int]]
  OBVIOUS
<1>3. \A k \in 1 .. L, v \in Int : step[k][v] = v + t[k]
  OBVIOUS
<1> HIDE DEF step
<1>4. 0 \in Int
  OBVIOUS
<1>5. PICK g : Unfolds(g, Int, 0, L, step)
  BY <1>2, <1>4, Recursion, Zenon
<1>6. /\ g \in [0 .. L -> Int] /\ g[0] = 0
      /\ \A k \in 1 .. L : g[k] = step[k][g[k - 1]]
  BY <1>5 DEF Unfolds
<1>7. ASSUME NEW k \in 1 .. L PROVE g[k] = g[k - 1] + t[k]
  <2>1. g[k - 1] \in Int
    BY <1>6
  <2>2. g[k] = step[k][g[k - 1]]
    BY <1>6
  <2> QED BY <1>3, <2>1, <2>2, Zenon
<1>8. g = [k \in 0 .. Len(t) |-> IF k = 0 THEN 0 ELSE g[k - 1] + t[k]]
  BY <1>0, <1>6, <1>7
<1>9. p = [k \in 0 .. Len(t) |-> IF k = 0 THEN 0 ELSE p[k - 1] + t[k]]
  BY <1>8, Zenon
<1> HIDE DEF p
<1>10. p[0] = 0 /\ \A k \in 1 .. L : p[k] = p[k - 1] + t[k]
  BY <1>0, <1>9
<1> DEFINE S == {k \in Nat : k <= L => p[k] \in Int}
<1>11. \A k \in Nat : k \in S
  <2>1. 0 \in S /\ \A k \in Nat : k \in S => k + 1 \in S
    BY <1>10
  <2> HIDE DEF S
  <2> QED BY <2>1, Induction
<1>12. p \in [0 .. L -> Int]
  <2>1. \A k \in 0 .. L : p[k] \in Int
    BY <1>11
  <2>2. DOMAIN p = 0 .. L /\ p = [k \in 0 .. L |-> p[k]]
    BY <1>0, <1>9
  <2> QED BY <2>1, <2>2
<1> QED BY <1>0, <1>1, <1>10, <1>12 DEF Total, Summing

LEMMA TotalType ==
  ASSUME NEW L \in Nat, NEW t \in [1 .. L -> Int]
  PROVE  Total(t) \in Int
BY SumsDef DEF Summing

\* They are linear ...
LEMMA TotalLinear ==
  ASSUME NEW L \in Nat, NEW s \in [1 .. L -> Int], NEW t \in [1 .. L -> Int],
         NEW c \in Int
  PROVE  Total([k \in 1 .. L |-> s[k] + c * t[k]]) = Total(s) + c * Total(t)
<1> DEFINE u == [k \in 1 .. L |-> s[k] + c * t[k]]
           S == {k \in Nat : k <= L => Sums(u)[k] = Sums(s)[k] + c * Sums(t)[k]}
<1>0. \A k \in 1 .. L : c * t[k] \in Int
  OBVIOUS
<1>1. u \in [1 .. L -> Int] /\ \A k \in 1 .. L : u[k] = s[k] + c * t[k]
  BY <1>0
<1> HIDE DEF u
<1>9. Summing(s, L) /\ Summing(t, L) /\ Summing(u, L)
  BY <1>1, SumsDef, Zenon
<1>2. 0 \in S
  BY <1>1, <1>9, c * 0 = 0 DEF Summing
<1>3. ASSUME NEW k \in Nat, k \in S PROVE k + 1 \in S
  <2> SUFFICES ASSUME k + 1 <= L
               PROVE  Sums(u)[k + 1] = Sums(s)[k + 1] + c * Sums(t)[k + 1]
    OBVIOUS
  <2>1. PICK x, y, z, a, b : /\ x = Sums(s)[k] /\ y = Sums(t)[k] /\ z = Sums(u)[k]
                             /\ a = s[k + 1] /\ b = t[k + 1]
    OBVIOUS
  <2>2. k \in 0 .. L /\ k + 1 \in 1 .. L /\ (k + 1) - 1 = k
    OBVIOUS
  <2>3. x \in Int /\ y \in Int /\ a \in Int /\ b \in Int /\ z = x + c * y
    BY <1>3, <2>1, <2>2, <1>9 DEF Summing
  <2>4. Sums(s)[k + 1] = x + a /\ Sums(t)[k + 1] = y + b
    BY <2>1, <2>2, <1>9 DEF Summing
  <2>5. u[k + 1] = a + c * b
    BY <1>1, <2>1, <2>2
  <2>6. Sums(u)[k + 1] = z + (a + c * b)
    BY <1>1, <2>1, <2>2, <2>5, <1>9 DEF Summing
  <2>7. (x + c * y) + (a + c * b) = (x + a) + c * (y + b)
    BY <2>3
  <2> QED BY <2>3, <2>4, <2>6, <2>7
<1> HIDE DEF S
<1>4. L \in S
  BY <1>2, <1>3, Induction
<1> QED BY <1>1, <1>4, <1>9 DEF S, u, Summing

\* ... respect congruence ...
LEMMA TotalCongruent ==
  ASSUME NEW n \in Nat, NEW L \in Nat, NEW s \in [1 .. L -> Int], NEW t \in [1 .. L -> Int],
         \A k \in 1 .. L : Congruent(s[k], t[k], n)
  PROVE  Congruent(Total(s), Total(t), n)
<1> DEFINE S == {k \in Nat : k <= L => Congruent(Sums(s)[k], Sums(t)[k], n)}
<1>9. Summing(s, L) /\ Summing(t, L)
  BY SumsDef, Zenon
<1>1. 0 \in S
  BY <1>9, Same, 0 \in Int DEF Summing
<1>2. ASSUME NEW k \in Nat, k \in S PROVE k + 1 \in S
  <2> SUFFICES ASSUME k + 1 <= L
               PROVE  Congruent(Sums(s)[k + 1], Sums(t)[k + 1], n)
    OBVIOUS
  <2>1. PICK x, y, a, b : /\ x = Sums(s)[k] /\ y = Sums(t)[k]
                          /\ a = s[k + 1] /\ b = t[k + 1]
    OBVIOUS
  <2>2. k \in 0 .. L /\ k + 1 \in 1 .. L /\ (k + 1) - 1 = k
    OBVIOUS
  <2>3. x \in Int /\ y \in Int /\ a \in Int /\ b \in Int
    BY <2>1, <2>2, <1>9 DEF Summing
  <2>4. Sums(s)[k + 1] = x + a /\ Sums(t)[k + 1] = y + b
    BY <2>1, <2>2, <1>9 DEF Summing
  <2>5. Congruent(x, y, n) /\ Congruent(a, b, n)
    BY <1>2, <2>1, <2>2
  <2>6. Congruent(x + a, y + b, n)
    BY <2>3, <2>5, Plus
  <2> QED BY <2>4, <2>6
<1> HIDE DEF S
<1>3. L \in S
  BY <1>1, <1>2, Induction
<1> QED BY <1>3, <1>9 DEF S, Summing

\* ... and change with one term by what the term changes.
LEMMA TotalUpdate ==
  ASSUME NEW L \in Nat, NEW s \in [1 .. L -> Int], NEW t \in [1 .. L -> Int],
         NEW i \in 1 .. L, \A k \in 1 .. L : k # i => s[k] = t[k]
  PROVE  Total(s) = Total(t) + (s[i] - t[i])
<1> DEFINE S == {k \in Nat : k <= L =>
                  Sums(s)[k] = Sums(t)[k] + IF k < i THEN 0 ELSE s[i] - t[i]}
<1>9. Summing(s, L) /\ Summing(t, L)
  BY SumsDef, Zenon
<1>1. 0 \in S
  BY <1>9 DEF Summing
<1>2. ASSUME NEW k \in Nat, k \in S PROVE k + 1 \in S
  <2> SUFFICES ASSUME k + 1 <= L
               PROVE  Sums(s)[k + 1] = Sums(t)[k + 1] + IF k + 1 < i THEN 0 ELSE s[i] - t[i]
    OBVIOUS
  <2>1. PICK x, y, a, b, u, v : /\ x = Sums(s)[k] /\ y = Sums(t)[k]
                          /\ a = s[k + 1] /\ b = t[k + 1] /\ u = s[i] /\ v = t[i]
    OBVIOUS
  <2>2. k \in 0 .. L /\ k + 1 \in 1 .. L /\ (k + 1) - 1 = k
    OBVIOUS
  <2>3. x \in Int /\ y \in Int /\ a \in Int /\ b \in Int /\ u \in Int /\ v \in Int
    BY <2>1, <2>2, <1>9 DEF Summing
  <2>4. Sums(s)[k + 1] = x + a /\ Sums(t)[k + 1] = y + b
    BY <2>1, <2>2, <1>9 DEF Summing
  <2>5. x = y + IF k < i THEN 0 ELSE u - v
    BY <1>2, <2>1, <2>2
  <2>6. k + 1 # i => a = b
    BY <2>1, <2>2
  <2>7. k + 1 = i => a = u /\ b = v
    BY <2>1
  <2>8. Sums(s)[k + 1] = Sums(t)[k + 1] + IF k + 1 < i THEN 0 ELSE u - v
    BY <2>2, <2>3, <2>4, <2>5, <2>6, <2>7
  <2> QED BY <2>1, <2>8
<1> HIDE DEF S
<1>3. L \in S
  BY <1>1, <1>2, Induction
<1> QED BY <1>3, <1>9 DEF S, Summing

LEMMA TotalOfZeros ==
  ASSUME NEW L \in Nat
  PROVE  Total([k \in 1 .. L |-> 0]) = 0
<1> DEFINE z == [k \in 1 .. L |-> 0]
           S == {k \in Nat : k <= L => Sums(z)[k] = 0}
<1>0. z \in [1 .. L -> Int] /\ \A k \in 1 .. L : z[k] = 0
  OBVIOUS
<1> HIDE DEF z
<1>9. Summing(z, L)
  BY <1>0, SumsDef, Zenon
<1>1. Sums(z)[0] = 0 /\ \A k \in 1 .. L : Sums(z)[k] = Sums(z)[k - 1] + 0
  BY <1>0, <1>9 DEF Summing
<1>2. 0 \in S /\ \A k \in Nat : k \in S => k + 1 \in S
  BY <1>1
<1> HIDE DEF S
<1>3. L \in S
  BY <1>2, Induction
<1> QED BY <1>0, <1>3, <1>9 DEF S, z, Summing

\* The terms of places that are all different are those of a set of places.
At(t, L, places) == [i \in 1 .. L |-> IF i \in places THEN t[i] ELSE 0]

\* The sum of the terms at some places.
SumAt(t, places, u) == Total([j \in 1 .. u |-> t[places[j]]])

\* A sum over the places of some terms is the sum of those terms with zeros
\* everywhere else.
LEMMA Gather ==
  ASSUME NEW L \in Nat, NEW t \in [1 .. L -> Int], NEW u \in Nat,
         NEW s \in [1 .. u -> 1 .. L],
         \A i, j \in 1 .. u : i # j => s[i] # s[j]
  PROVE  SumAt(t, s, u) = Total(At(t, L, ToSet(s)))
<1> DEFINE g == [j \in 1 .. u |-> t[s[j]]]
           First(k) == {s[j] : j \in 1 .. k}
           S == {k \in Nat : k <= u => Sums(g)[k] = Total(At(t, L, First(k)))}
<1>1. g \in [1 .. u -> Int] /\ \A j \in 1 .. u : g[j] = t[s[j]]
  OBVIOUS
<1> HIDE DEF g
<1>9. Summing(g, u)
  BY <1>1, SumsDef, Zenon
<1>2. 0 \in S
  <2>1. At(t, L, First(0)) = [k \in 1 .. L |-> 0]
    BY DEF At
  <2> QED BY <1>1, <2>1, <1>9, TotalOfZeros DEF Summing
<1>3. ASSUME NEW k \in Nat, k \in S PROVE k + 1 \in S
  <2> SUFFICES ASSUME k + 1 <= u
               PROVE  Sums(g)[k + 1] = Total(At(t, L, First(k + 1)))
    BY k + 1 \in Nat, Zenon
  <2>1. k \in 0 .. u /\ k + 1 \in 1 .. u /\ (k + 1) - 1 = k
    OBVIOUS
  <2>2. PICK i, a, b : /\ i = s[k + 1] /\ a = At(t, L, First(k + 1))
                       /\ b = At(t, L, First(k))
    OBVIOUS
  <2>3. i \in 1 .. L /\ i \in First(k + 1) /\ i \notin First(k)
    BY <2>1, <2>2
  <2>4. \A j \in 1 .. L : j # i => (j \in First(k + 1) <=> j \in First(k))
    BY <2>1, <2>2
  <2>5. Sums(g)[k] = Total(b)
    BY <1>3, <2>1, <2>2
  <2> HIDE DEF First
  <2>6. a \in [1 .. L -> Int] /\ b \in [1 .. L -> Int]
    BY <2>2 DEF At
  <2>7. a[i] = t[i] /\ b[i] = 0 /\ \A j \in 1 .. L : j # i => a[j] = b[j]
    BY <2>2, <2>3, <2>4 DEF At
  <2>8. Total(a) = Total(b) + (a[i] - b[i])
    <3>1. i \in 1 .. L /\ \A j \in 1 .. L : j # i => a[j] = b[j]
      BY <2>3, <2>7
    <3> HIDE DEF S
    <3> QED BY <2>6, <3>1, TotalUpdate
  <2>9. Sums(g)[k + 1] = Total(b) + t[i]
    BY <1>1, <2>1, <2>2, <2>5, <1>9 DEF Summing
  <2>10. a[i] - b[i] = t[i]
    BY <2>3, <2>7
  <2> QED BY <2>2, <2>8, <2>9, <2>10
<1>4. First(u) = ToSet(s)
  BY DEF ToSet
<1> HIDE DEF S, First
<1>5. u \in S
  BY <1>2, <1>3, Induction
<1>6. Total(g) = Total(At(t, L, ToSet(s)))
  BY <1>1, <1>4, <1>5, <1>9 DEF S, Summing
<1> QED BY <1>6 DEF g, SumAt

\* Two such lists that share the places between them share the sum.
Places(s, u, L) ==
  s \in [1 .. u -> 1 .. L] /\ \A i, j \in 1 .. u : i # j => s[i] # s[j]
\* Two lists of places that have every place between them, once.
Shared(L, s, u, h, v) ==
  Places(s, u, L) /\ Places(h, v, L) /\ ToSet(h) = (1 .. L) \ ToSet(s)

\* A sum over all places is the sum over the one list and over the other.
LEMMA SplitTotal ==
  ASSUME NEW L \in Nat, NEW t \in [1 .. L -> Int],
         NEW u \in Nat, NEW s, NEW v \in Nat, NEW h, Shared(L, s, u, h, v)
  PROVE  Total(t) = SumAt(t, s, u) + SumAt(t, h, v)
<1>1. PICK a, b : a = At(t, L, ToSet(s)) /\ b = At(t, L, ToSet(h))
  OBVIOUS
<1>8. /\ s \in [1 .. u -> 1 .. L] /\ \A i, j \in 1 .. u : i # j => s[i] # s[j]
      /\ h \in [1 .. v -> 1 .. L] /\ \A i, j \in 1 .. v : i # j => h[i] # h[j]
      /\ ToSet(h) = (1 .. L) \ ToSet(s)
  BY DEF Shared, Places
<1>2. a \in [1 .. L -> Int] /\ b \in [1 .. L -> Int]
  BY <1>1 DEF At
<1>3. t = [k \in 1 .. L |-> a[k] + 1 * b[k]]
  <2>1. \A k \in 1 .. L : t[k] = a[k] + 1 * b[k]
    BY <1>1, <1>8 DEF At
  <2> QED BY <2>1
<1>4. Total(t) = Total(a) + 1 * Total(b)
  BY <1>2, <1>3, TotalLinear, 1 \in Int
<1>5. Total(b) \in Int
  BY <1>2, TotalType
<1>6. SumAt(t, s, u) = Total(a)
  BY <1>1, <1>8, Gather
<1>7. SumAt(t, h, v) = Total(b)
  BY <1>1, <1>8, Gather
<1> QED BY <1>4, <1>5, <1>6, <1>7

\* A finite set of numbers in order: there is such a sequence ...
Ordered(s, S) ==
  /\ s \in [1 .. Cardinality(S) -> S]
  /\ \A i, j \in 1 .. Cardinality(S) : i < j => s[i] < s[j]

LEMMA OrderedExists ==
  ASSUME NEW S, S \subseteq Nat, IsFiniteSet(S)
  PROVE  \E s : Ordered(s, S)
<1> DEFINE G == {n \in Nat : \A T \in SUBSET S : Cardinality(T) = n => \E s : Ordered(s, T)}
<1>0. \A T \in SUBSET S : IsFiniteSet(T) /\ Cardinality(T) \in Nat
  BY FS_Subset, FS_CardinalityType
<1>1. 0 \in G
  <2>1. ASSUME NEW T \in SUBSET S, Cardinality(T) = 0 PROVE \E s : Ordered(s, T)
    <3>1. T = {}
      BY <1>0, <2>1, FS_EmptySet
    <3> DEFINE s == [i \in 1 .. 0 |-> 0]
    <3>2. Ordered(s, T)
      BY <2>1, <3>1 DEF Ordered
    <3> QED BY <3>2
  <2> QED BY <2>1
<1>2. ASSUME NEW n \in Nat, n \in G PROVE n + 1 \in G
  <2>1. ASSUME NEW T \in SUBSET S, Cardinality(T) = n + 1 PROVE \E s : Ordered(s, T)
    <3>1. T # {}
      BY <2>1, FS_EmptySet
    <3>2. PICK x \in T : \A y \in T : x <= y
      BY <3>1, Smallest
    <3>3. PICK U : U = T \ {x}
      OBVIOUS
    <3>4. U \in SUBSET S /\ Cardinality(U) = n
      <4>1. Cardinality(U) = Cardinality(T) - 1
        BY <1>0, <3>3, FS_RemoveElement
      <4> QED BY <2>1, <3>3, <4>1
    <3>5. PICK s : Ordered(s, U)
      BY <1>2, <3>4
    <3>6. s \in [1 .. n -> U] /\ \A i, j \in 1 .. n : i < j => s[i] < s[j]
      BY <3>4, <3>5 DEF Ordered
    <3> DEFINE t == [i \in 1 .. n + 1 |-> IF i = 1 THEN x ELSE s[i - 1]]
    <3>7. \A y \in U : y \in T /\ x < y
      <4>1. \A y \in U : y \in T /\ y # x /\ y \in Nat /\ x \in Nat
        BY <3>3
      <4> QED BY <3>2, <4>1
    <3>8. \A i \in 2 .. n + 1 : s[i - 1] \in U
      BY <3>6
    <3>9. t \in [1 .. n + 1 -> T]
      BY <3>7, <3>8
    <3>10. ASSUME NEW i \in 1 .. n + 1, NEW j \in 1 .. n + 1, i < j PROVE t[i] < t[j]
      <4>1. CASE i = 1
        <5>1. t[j] = s[j - 1] /\ s[j - 1] \in U /\ t[i] = x
          BY <3>8, <3>10, <4>1
        <5> QED BY <3>7, <5>1
      <4>2. CASE i # 1
        <5>1. t[i] = s[i - 1] /\ t[j] = s[j - 1]
          BY <3>10, <4>2
        <5>2. i - 1 \in 1 .. n /\ j - 1 \in 1 .. n /\ i - 1 < j - 1
          BY <3>10, <4>2
        <5> HIDE DEF t
        <5> QED BY <3>6, <5>1, <5>2
      <4> QED BY <4>1, <4>2
    <3> HIDE DEF t
    <3>11. Ordered(t, T)
      BY <2>1, <3>9, <3>10 DEF Ordered
    <3> QED BY <3>11
  <2> QED BY <2>1
<1> HIDE DEF G
<1>3. Cardinality(S) \in G
  BY <1>0, <1>1, <1>2, Induction
<1> QED BY <1>3 DEF G

\* ... and Ascending chooses it.
LEMMA AscendingOrdered ==
  ASSUME NEW S, S \subseteq Nat, IsFiniteSet(S)
  PROVE  Ordered(Ascending(S), S)
<1>0. Cardinality(S) \in Nat
  BY FS_CardinalityType
<1>1. PICK s : Ordered(s, S)
  BY OrderedExists
<1>2. \E t \in [1 .. Cardinality(S) -> S] : \A i, j \in DOMAIN t : i < j => t[i] < t[j]
  BY <1>0, <1>1 DEF Ordered
<1>3. PICK t : t = Ascending(S)
  OBVIOUS
<1>4. t \in [1 .. Cardinality(S) -> S] /\ \A i, j \in DOMAIN t : i < j => t[i] < t[j]
  BY <1>2, <1>3 DEF Ascending
<1> QED BY <1>3, <1>4 DEF Ordered

\* ... and it has every number of the set once.
LEMMA OrderedIsAll ==
  ASSUME NEW S, S \subseteq Nat, IsFiniteSet(S), NEW s, Ordered(s, S)
  PROVE  /\ ToSet(s) = S
         /\ \A i, j \in 1 .. Cardinality(S) : i # j => s[i] # s[j]
<1>1. PICK n \in Nat : n = Cardinality(S)
  BY FS_CardinalityType
<1>2. s \in [1 .. n -> S] /\ \A i, j \in 1 .. n : i < j => s[i] < s[j]
  BY <1>1 DEF Ordered
<1>3. ASSUME NEW i \in 1 .. n, NEW j \in 1 .. n, i # j PROVE s[i] # s[j]
  <2>0. s[i] \in S /\ s[j] \in S
    BY <1>2
  <2>3. i < j \/ j < i
    BY <1>3
  <2>4. s[i] \in Nat /\ s[j] \in Nat
    BY <2>0, Zenon
  <2>1. s[i] \in Nat /\ s[j] \in Nat /\ (i < j \/ j < i)
    BY <2>3, <2>4
  <2> QED BY <1>2, <2>1
<1>4. s \in Injection(1 .. n, S)
  BY <1>2, <1>3 DEF Injection, IsInjective
<1>5. Cardinality(1 .. n) = n
  BY FS_Interval
<1>6. s \in Surjection(1 .. n, S)
  BY <1>1, <1>4, <1>5, FS_Injection
<1>7. ToSet(s) = S
  BY <1>2, <1>6 DEF Surjection, ToSet
<1> QED BY <1>1, <1>3, <1>7

\* The place of a number is the number of those that are not above it.
LEMMA PlaceOf ==
  ASSUME NEW S, S \subseteq Nat, IsFiniteSet(S), NEW c \in S
  PROVE  LET k == Cardinality({x \in S : x <= c}) IN
           k \in 1 .. Cardinality(S) /\ Ascending(S)[k] = c
<1>1. PICK s, n : s = Ascending(S) /\ n = Cardinality(S)
  OBVIOUS
<1>2. Ordered(s, S) /\ n \in Nat
  BY <1>1, AscendingOrdered, FS_CardinalityType
<1>3. s \in [1 .. n -> S] /\ \A i, j \in 1 .. n : i < j => s[i] < s[j]
  BY <1>1, <1>2 DEF Ordered
<1>4. ToSet(s) = S
  BY <1>2, OrderedIsAll
<1>5. PICK k \in 1 .. n : s[k] = c
  BY <1>3, <1>4 DEF ToSet
<1>6. PICK T : T = {x \in S : x <= c}
  OBVIOUS
<1> DEFINE f == [i \in 1 .. k |-> s[i]]
<1>7. \A i \in 1 .. n : s[i] \in Nat /\ (i < k => s[i] < c) /\ (i > k => s[i] > c)
  BY <1>3, <1>5
<1>8. ASSUME NEW i \in 1 .. k PROVE s[i] \in T
  <2>1. i \in 1 .. n /\ (i < k \/ i = k)
    BY <1>2
  <2>2. s[i] \in S /\ s[i] \in Nat /\ c \in Nat /\ (s[i] < c \/ s[i] = c)
    BY <1>3, <1>5, <1>7, <2>1
  <2> QED BY <1>6, <2>2
<1>9. ASSUME NEW x \in T PROVE \E i \in 1 .. k : s[i] = x
  <2>1. PICK i \in 1 .. n : s[i] = x
    BY <1>3, <1>4, <1>6 DEF ToSet
  <2>2. ~ (i > k)
    BY <1>5, <1>6, <1>7, <2>1
  <2> QED BY <1>5, <2>1, <2>2
<1>10. \A i, j \in 1 .. k : i # j => s[i] # s[j]
  <2>1. ASSUME NEW i \in 1 .. k, NEW j \in 1 .. k, i # j PROVE s[i] # s[j]
    <3>1. i \in 1 .. n /\ j \in 1 .. n /\ (i < j \/ j < i)
      BY <1>2, <2>1
    <3>2. s[i] < s[j] \/ s[j] < s[i]
      BY <1>3, <3>1
    <3>3. s[i] \in Nat /\ s[j] \in Nat
      BY <1>7, <3>1
    <3> QED BY <3>2, <3>3
  <2> QED BY <2>1
<1>11. f \in [1 .. k -> T] /\ \A i \in 1 .. k : f[i] = s[i]
  BY <1>8
<1> HIDE DEF f
<1>12. f \in Bijection(1 .. k, T)
  BY <1>9, <1>10, <1>11 DEF Bijection, Injection, Surjection, IsInjective
<1>13. ExistsBijection(1 .. k, T) /\ k \in Nat
  BY <1>2, <1>12 DEF ExistsBijection
<1>14. Cardinality(T) = k
  BY <1>13, FS_CountingElements
<1> QED BY <1>1, <1>5, <1>6, <1>14

-----------------------------------------------------------------------------
(***************************************************************************)
(* BBS: the scalars of a prime field, combinations of generators, and the  *)
(* transcripts of prover and verifier.                                     *)
(***************************************************************************)
\* The scalars of a prime field.
LEMMA Order == r \in Nat /\ r > 1 /\ r > 0
  BY BbsAssumption

\* The order is a prime: all but zero has an inverse.
LEMMA NonZeroUnits == Units(r) = NonZero
<1>1. ASSUME NEW x \in 1 .. r - 1, NEW k \in 2 .. r, x % k = 0, r % k = 0 PROVE FALSE
  <2>1. k \in 2 .. r - 1 => r % k # 0
    BY BbsAssumption
  <2>2. k = r
    BY <1>1, <2>1, Order
  <2>3. x % r = x
    BY Order, Residue
  <2> QED BY <1>1, <2>2, <2>3
<1> QED BY <1>1 DEF Units, Coprime, NonZero

LEMMA InverseType ==
  ASSUME NEW x \in NonZero
  PROVE  InverseOf(x) \in NonZero /\ Congruent(x * InverseOf(x), 1, r)
<1>1. PICK i : i = InverseMod(x, r)
  OBVIOUS
<1>2. i \in 1 .. r - 1 /\ (x * i) % r = 1
  BY <1>1, NonZeroUnits, Order, InverseOfUnit
<1>3. InverseOf(x) = i
  BY <1>1 DEF InverseOf, InverseMod, NonZero
<1>4. (x * i) % r = 1 % r
  BY <1>2, Order, Residue
<1>5. x * i \in Int /\ 1 \in Int
  BY <1>2 DEF NonZero
<1>6. Congruent(x * i, 1, r)
  BY <1>4, <1>5, Order, Rest, Zenon
<1> QED BY <1>2, <1>3, <1>6 DEF NonZero

LEMMA NonZeroProduct ==
  ASSUME NEW a \in NonZero, NEW b \in NonZero
  PROVE  (a * b) % r \in NonZero
BY NonZeroUnits, Order, UnitProduct

LEMMA ScalarOf ==
  ASSUME NEW x \in Int
  PROVE  /\ x % r \in Scalars /\ x % r \in Int
         /\ Congruent(x % r, x, r) /\ Congruent(x, x % r, r)
BY Order, Reduced DEF Scalars

LEMMA ScalarInt ==
  /\ Scalars \subseteq Int /\ NonZero \subseteq Int /\ NonZero \subseteq Scalars
  /\ 0 \in Scalars /\ \A x \in Scalars : x # 0 => x \in NonZero
  BY Order DEF Scalars, NonZero

LEMMA SameScalar ==
  ASSUME NEW x \in Scalars, NEW y \in Int, Congruent(y, x, r)
  PROVE  y % r = x
<1>1. x \in Int /\ x % r = x
  BY Order, Residue DEF Scalars
<1>2. y % r = x % r
  BY <1>1, Order, SameRemainder, Zenon
<1> QED BY <1>1, <1>2

\* Combinations of generators.
LEMMA GeneratorInt == Len(H) \in Nat /\ \A i \in 1 .. Len(H) : H[i] \in Int
<1>1. H \in Seq(NonZero)
  BY BbsAssumption
<1>2. Len(H) \in Nat /\ \A i \in 1 .. Len(H) : H[i] \in NonZero
  BY <1>1
<1> QED BY <1>2, ScalarInt

\* A combination of generators at some places.
Weighted(places, x, v) == Total([j \in 1 .. v |-> H[places[j]] * x[j]])

LEMMA WeightedType ==
  ASSUME NEW v \in Nat, NEW places \in [1 .. v -> 1 .. Len(H)], NEW x \in [1 .. v -> Scalars]
  PROVE  Weighted(places, x, v) \in Int
<1>1. ASSUME NEW j \in 1 .. v PROVE H[places[j]] * x[j] \in Int
  <2>1. PICK a, b : a = H[places[j]] /\ b = x[j]
    OBVIOUS
  <2>2. a \in Int /\ b \in Scalars
    BY <2>1, GeneratorInt
  <2>3. b \in Int
    BY <2>2, ScalarInt, Zenon
  <2> QED BY <2>1, <2>2, <2>3
<1>2. [j \in 1 .. v |-> H[places[j]] * x[j]] \in [1 .. v -> Int]
  BY <1>1
<1> QED BY <1>2, TotalType DEF Weighted

\* What Combine sums is a combination of generators.
LEMMA CombineSum ==
  ASSUME NEW v \in Nat, NEW places \in [1 .. v -> 1 .. Len(H)], NEW x \in [1 .. v -> Scalars],
         NEW pairs, DOMAIN pairs = 1 .. v, \A k \in 1 .. v : pairs[k] = <<places[k], x[k]>>
  PROVE  Combine(pairs) = Weighted(places, x, v)
<1>1. [k \in DOMAIN pairs |-> H[pairs[k][1]] * pairs[k][2]]
        = [j \in 1 .. v |-> H[places[j]] * x[j]]
  OBVIOUS
<1> QED BY <1>1 DEF Combine, Weighted

\* The terms of a vector of messages.
Terms(msgs, L) == [i \in 1 .. L |-> H[i] * msgs[i]]

LEMMA TermsType ==
  ASSUME NEW L \in Nat, L <= Len(H), NEW msgs \in [1 .. L -> Scalars]
  PROVE  Terms(msgs, L) \in [1 .. L -> Int]
<1>1. ASSUME NEW i \in 1 .. L PROVE H[i] * msgs[i] \in Int
  <2>1. Len(H) \in Nat
    BY BbsAssumption
  <2>2. i \in 1 .. Len(H)
    BY <2>1
  <2>3. H[i] \in Int /\ msgs[i] \in Int
    BY <2>2, GeneratorInt, ScalarInt
  <2> QED BY <2>3
<1> QED BY <1>1 DEF Terms

\* B is the combination of all messages, up to a multiple of the order.
LEMMA BValueSum ==
  ASSUME NEW L \in Nat, L <= Len(H), NEW msgs \in [1 .. L -> Scalars],
         NEW domain \in Scalars
  PROVE  /\ BValue(domain, msgs) = (P1 + Q1 * domain + Total(Terms(msgs, L))) % r
         /\ P1 \in Int /\ Q1 \in Int /\ Total(Terms(msgs, L)) \in Int
         /\ BValue(domain, msgs) \in Scalars
         /\ Congruent(BValue(domain, msgs), P1 + Q1 * domain + Total(Terms(msgs, L)), r)
<1>1. P1 \in Int /\ Q1 \in Int /\ domain \in Int /\ Len(H) \in Nat
  BY BbsAssumption, ScalarInt
<1> DEFINE pairs == [i \in DOMAIN msgs |-> <<i, msgs[i]>>]
           places == [i \in 1 .. L |-> i]
<1>2. DOMAIN pairs = 1 .. L /\ \A k \in 1 .. L : pairs[k] = <<places[k], msgs[k]>>
  OBVIOUS
<1>3. places \in [1 .. L -> 1 .. Len(H)] /\ \A k \in 1 .. L : places[k] = k
  BY <1>1
<1> HIDE DEF pairs, places
<1>4. Combine(pairs) = Weighted(places, msgs, L)
  BY <1>2, <1>3, CombineSum
<1>5. Weighted(places, msgs, L) = Total(Terms(msgs, L))
  <2>1. [j \in 1 .. L |-> H[places[j]] * msgs[j]] = Terms(msgs, L)
    BY <1>3 DEF Terms
  <2> QED BY <2>1 DEF Weighted
<1>6. PICK t : t = Total(Terms(msgs, L))
  OBVIOUS
<1>7. t \in Int
  BY <1>6, TermsType, TotalType
<1>8. P1 + Q1 * domain + t \in Int
  BY <1>1, <1>7
<1>9. BValue(domain, msgs) = (P1 + Q1 * domain + t) % r
  BY <1>4, <1>5, <1>6 DEF BValue, pairs
<1>10. PICK b : b = P1 + Q1 * domain + t
  OBVIOUS
<1>11. b % r \in Scalars /\ Congruent(b % r, b, r)
  BY <1>8, <1>10, ScalarOf
<1> QED BY <1>1, <1>6, <1>7, <1>9, <1>10, <1>11

\* A signature that could be made is one that verifies.
LEMMA Signs ==
  ASSUME NEW B \in NonZero, NEW sk \in Scalars, NEW e \in Scalars, (sk + e) % r # 0
  PROVE  LET A == (B * InverseOf((sk + e) % r)) % r IN
           A \in NonZero /\ Congruent(A * (sk + e), B, r)
<1>1. PICK x, i, A : x = (sk + e) % r /\ i = InverseOf(x) /\ A = (B * i) % r
  OBVIOUS
<1>2. sk \in Int /\ e \in Int /\ B \in Int /\ sk + e \in Int
  BY ScalarInt
<1>3. x \in NonZero /\ Congruent(sk + e, x, r)
  BY <1>1, <1>2, ScalarOf, ScalarInt
<1>4. i \in NonZero /\ Congruent(x * i, 1, r)
  BY <1>1, <1>3, InverseType
<1>5. A \in NonZero
  BY <1>1, <1>4, NonZeroProduct
<1>6. x \in Int /\ i \in Int /\ A \in Int /\ r \in Nat
  BY <1>3, <1>4, <1>5, ScalarInt, Order
<1>7. Congruent(A, B * i, r)
  BY <1>1, <1>2, <1>6, ScalarOf, B * i \in Int
<1>8. PICK j \in Int : A = B * i + j * r
  BY <1>7 DEF Congruent
<1>9. PICK k \in Int : sk + e = x + k * r
  BY <1>3 DEF Congruent
<1>10. PICK l \in Int : x * i = 1 + l * r
  BY <1>4 DEF Congruent
<1>11. A * (sk + e) = (B * i + j * r) * (x + k * r)
  BY <1>8, <1>9
<1>12. (B * i + j * r) * (x + k * r) = B * (x * i) + (B * i * k + j * x + j * k * r) * r
  BY <1>2, <1>6
<1>13. B * (1 + l * r) + (B * i * k + j * x + j * k * r) * r
         = B + (B * l + B * i * k + j * x + j * k * r) * r
  BY <1>2, <1>6
<1>14. A * (sk + e) = B + (B * l + B * i * k + j * x + j * k * r) * r
  BY <1>10, <1>11, <1>12, <1>13
<1>15. B * l + B * i * k + j * x + j * k * r \in Int
  BY <1>2, <1>6
<1>16. PICK q : q = B * l + B * i * k + j * x + j * k * r
  OBVIOUS
<1>17. q \in Int /\ A * (sk + e) = B + q * r
  BY <1>14, <1>15, <1>16
<1>18. Congruent(A * (sk + e), B, r)
  BY <1>17 DEF Congruent
<1> QED BY <1>1, <1>5, <1>18

\* The indexes that are left out are the others, each of them once.
LEMMA Others ==
  ASSUME NEW L \in Nat, NEW u \in Nat, NEW indexes, Places(indexes, u, L)
  PROVE  /\ L - u \in Nat
         /\ Shared(L, indexes, u, Undisclosed(indexes, L), L - u)
<1>1. PICK T, U : T = ToSet(indexes) /\ U = (1 .. L) \ T
  OBVIOUS
<1>0. /\ indexes \in [1 .. u -> 1 .. L]
      /\ \A i, j \in 1 .. u : i # j => indexes[i] # indexes[j]
  BY DEF Places
<1>2. T \subseteq 1 .. L
  BY <1>0, <1>1 DEF ToSet
<1>3. indexes \in Bijection(1 .. u, T)
  BY <1>0, <1>1 DEF Bijection, Injection, Surjection, IsInjective, ToSet
<1>4. ExistsBijection(1 .. u, T)
  BY <1>3 DEF ExistsBijection
<1>5. Cardinality(T) = u
  BY <1>4, FS_CountingElements
<1>6. IsFiniteSet(1 .. L) /\ Cardinality(1 .. L) = L
  BY FS_Interval
<1>7. IsFiniteSet(U) /\ Cardinality(U) = L - u
  <2>1. (1 .. L) \cap T = T
    BY <1>2
  <2>2. /\ IsFiniteSet((1 .. L) \ T)
        /\ Cardinality((1 .. L) \ T) = Cardinality(1 .. L) - Cardinality((1 .. L) \cap T)
    BY <1>6, FS_Difference, Zenon
  <2> QED BY <1>1, <1>5, <1>6, <2>1, <2>2
<1>8. L - u \in Nat /\ U \subseteq Nat /\ U \subseteq 1 .. L
  BY <1>1, <1>7, FS_CardinalityType
<1>9. PICK h : h = Ascending(U)
  OBVIOUS
<1>10. Ordered(h, U)
  BY <1>7, <1>8, <1>9, AscendingOrdered
<1>11. h \in [1 .. L - u -> U]
  BY <1>7, <1>10 DEF Ordered
<1>12. ToSet(h) = U /\ \A i, j \in 1 .. L - u : i # j => h[i] # h[j]
  BY <1>7, <1>8, <1>10, OrderedIsAll
<1>13. h = Undisclosed(indexes, L)
  BY <1>1, <1>9 DEF Undisclosed
<1>14. h \in [1 .. L - u -> 1 .. L]
  BY <1>8, <1>11
<1>15. Places(h, L - u, L)
  BY <1>12, <1>14 DEF Places
<1> QED BY <1>1, <1>8, <1>12, <1>13, <1>15 DEF Shared

\* The messages at some places.
Of(msgs, places, u) == [j \in 1 .. u |-> msgs[places[j]]]

LEMMA TermsOf ==
  ASSUME NEW L \in Nat, NEW msgs, NEW u \in Nat, NEW s, Places(s, u, L)
  PROVE  SumAt(Terms(msgs, L), s, u) = Weighted(s, Of(msgs, s, u), u)
<1>1. [j \in 1 .. u |-> Terms(msgs, L)[s[j]]]
        = [j \in 1 .. u |-> H[s[j]] * Of(msgs, s, u)[j]]
  BY DEF Places, Terms, Of
<1> QED BY <1>1 DEF SumAt, Weighted

\* What is disclosed and what is hidden are all of the messages.
LEMMA TermsShared ==
  ASSUME NEW L \in Nat, L <= Len(H), NEW msgs \in [1 .. L -> Scalars],
         NEW u \in Nat, NEW s, NEW v \in Nat, NEW h, Shared(L, s, u, h, v)
  PROVE  Total(Terms(msgs, L)) = Weighted(s, Of(msgs, s, u), u) + Weighted(h, Of(msgs, h, v), v)
<1>1. PICK t : t = Terms(msgs, L)
  OBVIOUS
<1>2. t \in [1 .. L -> Int]
  BY <1>1, TermsType
<1>3. Total(t) = SumAt(t, s, u) + SumAt(t, h, v)
  BY <1>2, SplitTotal
<1>4. Places(s, u, L) /\ Places(h, v, L)
  BY DEF Shared
<1>5. SumAt(t, s, u) = Weighted(s, Of(msgs, s, u), u)
  BY <1>1, <1>4, TermsOf
<1>6. SumAt(t, h, v) = Weighted(h, Of(msgs, h, v), v)
  BY <1>1, <1>4, TermsOf
<1> QED BY <1>1, <1>3, <1>5, <1>6

\* What the responses add up to, over places among the generators.
LEMMA Answered ==
  ASSUME NEW v \in Nat, NEW places \in [1 .. v -> 1 .. Len(H)], NEW c \in Scalars,
         NEW x \in [1 .. v -> Scalars], NEW y \in [1 .. v -> Scalars],
         NEW z \in [1 .. v -> Scalars], \A j \in 1 .. v : z[j] = (x[j] + y[j] * c) % r
  PROVE  Congruent(Weighted(places, z, v),
                   Weighted(places, x, v) + c * Weighted(places, y, v), r)
<1> DEFINE f == [j \in 1 .. v |-> H[places[j]] * z[j]]
           g == [j \in 1 .. v |-> H[places[j]] * x[j]]
           h == [j \in 1 .. v |-> H[places[j]] * y[j]]
           k == [j \in 1 .. v |-> g[j] + c * h[j]]
<1>1. c \in Int
  BY ScalarInt
<1>2. ASSUME NEW j \in 1 .. v
      PROVE  f[j] \in Int /\ g[j] \in Int /\ h[j] \in Int /\ k[j] \in Int
             /\ Congruent(f[j], k[j], r)
  <2>1. PICK a, b, d, zj : /\ a = H[places[j]] /\ b = x[j] /\ d = y[j] /\ zj = z[j]
    OBVIOUS
  <2>2. a \in Int
    BY <2>1, GeneratorInt
  <2>3. b \in Int /\ d \in Int
    <3>1. b \in Scalars /\ d \in Scalars
      BY <2>1
    <3> QED BY <3>1, ScalarInt, Zenon
  <2>4. d * c \in Int /\ b + d * c \in Int
    BY <1>1, <2>3
  <2>5. zj \in Int /\ Congruent(zj, b + d * c, r)
    <3>1. zj = (b + d * c) % r
      BY <2>1
    <3> QED BY <2>4, <3>1, ScalarOf
  <2>6. Congruent(a, a, r)
    BY <2>2, Order, Same
  <2>7. Congruent(a * zj, a * (b + d * c), r)
    BY <2>2, <2>4, <2>5, <2>6, Order, Times, Zenon
  <2>8. a * (b + d * c) = a * b + c * (a * d)
    BY <1>1, <2>2, <2>3
  <2>9. f[j] = a * zj /\ g[j] = a * b /\ h[j] = a * d /\ k[j] = a * b + c * (a * d)
    BY <2>1
  <2>10. a * zj \in Int /\ a * b \in Int /\ a * d \in Int /\ a * b + c * (a * d) \in Int
    BY <1>1, <2>2, <2>3, <2>5
  <2> HIDE DEF f, g, h, k
  <2> QED BY <2>7, <2>8, <2>9, <2>10
<1>3. f \in [1 .. v -> Int] /\ g \in [1 .. v -> Int] /\ h \in [1 .. v -> Int]
      /\ k \in [1 .. v -> Int]
  BY <1>2
<1>4. k = [j \in 1 .. v |-> g[j] + c * h[j]]
  OBVIOUS
<1> HIDE DEF f, g, h, k
<1>5. Congruent(Total(f), Total(k), r)
  BY <1>2, <1>3, Order, TotalCongruent
<1>6. Total(k) = Total(g) + c * Total(h)
  BY <1>1, <1>3, <1>4, TotalLinear
<1> QED BY <1>5, <1>6 DEF f, g, h, Weighted

\* The commitments that a verifier computes are the prover's.
LEMMA FirstCommitment ==
  ASSUME NEW n \in Nat, NEW abar \in Int, NEW bbar \in Int, NEW d \in Int,
         NEW r1 \in Int, NEW e \in Int, NEW c \in Int, NEW et \in Int, NEW rt \in Int,
         NEW eh \in Int, NEW rh \in Int,
         Congruent(bbar, d * r1 - abar * e, n),
         Congruent(eh, et + e * c, n), Congruent(rh, rt - r1 * c, n)
  PROVE  Congruent(bbar * c + abar * eh + d * rh, abar * et + d * rt, n)
<1>1. PICK i \in Int : bbar = d * r1 - abar * e + i * n
  BY DEF Congruent
<1>2. PICK j \in Int : eh = et + e * c + j * n
  BY DEF Congruent
<1>3. PICK k \in Int : rh = rt - r1 * c + k * n
  BY DEF Congruent
<1>4. bbar * c + abar * eh + d * rh
        = (d * r1 - abar * e + i * n) * c + abar * (et + e * c + j * n)
            + d * (rt - r1 * c + k * n)
  BY <1>1, <1>2, <1>3
<1>5. (d * r1 - abar * e + i * n) * c + abar * (et + e * c + j * n)
            + d * (rt - r1 * c + k * n)
        = (abar * et + d * rt) + (i * c + abar * j + d * k) * n
  OBVIOUS
<1>6. PICK q : q = i * c + abar * j + d * k
  OBVIOUS
<1>7. q \in Int
  BY <1>6
<1>8. bbar * c + abar * eh + d * rh = (abar * et + d * rt) + q * n
  BY <1>4, <1>5, <1>6
<1> QED BY <1>7, <1>8 DEF Congruent

LEMMA SecondCommitment ==
  ASSUME NEW n \in Nat, NEW bv \in Int, NEW b \in Int, NEW d \in Int,
         NEW r2 \in Int, NEW i2 \in Int, NEW c \in Int, NEW rt \in Int, NEW rh \in Int,
         NEW M \in Int, NEW X \in Int, NEW Y \in Int,
         Congruent(d, b * r2, n), Congruent(r2 * i2, 1, n),
         Congruent(rh, rt - i2 * c, n), Congruent(b, bv + Y, n),
         Congruent(M, X + c * Y, n)
  PROVE  Congruent(bv * c + d * rh + M, d * rt + X, n)
<1>1. PICK k1 \in Int : d = b * r2 + k1 * n
  BY DEF Congruent
<1>2. PICK k2 \in Int : rh = rt - i2 * c + k2 * n
  BY DEF Congruent
<1>3. PICK k3 \in Int : r2 * i2 = 1 + k3 * n
  BY DEF Congruent
<1>4. PICK k4 \in Int : b = (bv + Y) + k4 * n
  BY DEF Congruent
<1>5. PICK k5 \in Int : M = (X + c * Y) + k5 * n
  BY DEF Congruent
<1>6. PICK z : z = d * i2
  OBVIOUS
<1>7. PICK k6 : k6 = b * k3 + k1 * i2
  OBVIOUS
<1>8. z \in Int /\ k6 \in Int
  BY <1>6, <1>7
<1>9. z = b + k6 * n
  <2>1. z = (b * r2 + k1 * n) * i2
    BY <1>1, <1>6
  <2>2. (b * r2 + k1 * n) * i2 = b * (r2 * i2) + (k1 * i2) * n
    OBVIOUS
  <2>3. b * (1 + k3 * n) + (k1 * i2) * n = b + (b * k3 + k1 * i2) * n
    OBVIOUS
  <2> QED BY <1>3, <1>7, <2>1, <2>2, <2>3
<1>10. PICK k7 : k7 = k4 + k6
  OBVIOUS
<1>11. k7 \in Int /\ z = (bv + Y) + k7 * n
  <2>1. (k4 + k6) * n = k4 * n + k6 * n
    BY <1>8
  <2> QED BY <1>4, <1>8, <1>9, <1>10, <2>1
<1>12. d * rh = d * rt - z * c + (d * k2) * n
  <2>1. d * rh = d * (rt - i2 * c + k2 * n)
    BY <1>2
  <2>2. d * (rt - i2 * c + k2 * n) = d * rt - (d * i2) * c + (d * k2) * n
    OBVIOUS
  <2> QED BY <1>6, <2>1, <2>2
<1>13. z * c = bv * c + c * Y + (k7 * c) * n
  <2>1. z * c = ((bv + Y) + k7 * n) * c
    BY <1>11
  <2>2. ((bv + Y) + k7 * n) * c = bv * c + c * Y + (k7 * c) * n
    BY <1>11
  <2> QED BY <2>1, <2>2
<1>14. PICK q : q = d * k2 - k7 * c + k5
  OBVIOUS
<1>15. q \in Int
  BY <1>11, <1>14
<1>16. q * n = (d * k2) * n - (k7 * c) * n + k5 * n
  <2>1. (d * k2 - k7 * c + k5) * n = (d * k2) * n - (k7 * c) * n + k5 * n
    BY <1>11
  <2> QED BY <1>14, <2>1
<1>17. bv * c + d * rh + M = (d * rt + X) + q * n
  <2>1. PICK a1, a2, a3, a4, a5, a6, a7 :
          /\ a1 = bv * c /\ a2 = d * rt /\ a3 = c * Y /\ a4 = (k7 * c) * n
          /\ a5 = (d * k2) * n /\ a6 = k5 * n /\ a7 = q * n
    OBVIOUS
  <2>2. /\ a1 \in Int /\ a2 \in Int /\ a3 \in Int /\ a4 \in Int
        /\ a5 \in Int /\ a6 \in Int /\ a7 \in Int
    BY <1>11, <1>15, <2>1
  <2>3. PICK b1, b2 : b1 = z * c /\ b2 = d * rh
    OBVIOUS
  <2>4. b1 = a1 + a3 + a4 /\ b2 = a2 - b1 + a5 /\ M = X + a3 + a6 /\ a7 = a5 - a4 + a6
    BY <1>5, <1>12, <1>13, <1>16, <2>1, <2>3
  <2>5. a1 + b2 + M = (a2 + X) + a7
    BY <2>2, <2>4
  <2> QED BY <2>1, <2>3, <2>5
<1> QED BY <1>15, <1>17 DEF Congruent

\* What a proof discloses.
Revealed(msgs, indexes) == [k \in DOMAIN indexes |-> <<indexes[k], msgs[indexes[k]]>>]

\* Scalars that a prover may have drawn.
DrawnFor(draws, v) ==
  /\ draws.r1 \in NonZero /\ draws.r2 \in NonZero
  /\ draws.e_tilde \in Scalars /\ draws.r1_tilde \in Scalars /\ draws.r3_tilde \in Scalars
  /\ draws.m_tilde \in [1 .. v -> Scalars]

\* A verifier asks what the prover asked.
LEMMA Complete ==
  ASSUME NEW L \in Nat, L <= Len(H), NEW w \in Scalars, NEW msgs \in [1 .. L -> Scalars],
         NEW u \in Nat, NEW indexes, Places(indexes, u, L),
         NEW signature, signature.e \in Scalars, NEW c \in Scalars,
         NEW draws, DrawnFor(draws, L - u), NEW ph,
         NEW pt, pt.abar \in Int,
         pt.d = (BValue(CalculateDomain(w, L), msgs) * draws.r2) % r,
         pt.bbar = (pt.d * draws.r1 - pt.abar * signature.e) % r
  PROVE  ProverTranscript(w, pt, msgs, indexes, draws, ph)
           = VerifierTranscript(w,
               [points |-> pt, responses |-> Responses(signature, msgs, indexes, draws, c)],
               Revealed(msgs, indexes), ph)
<1>1. PICK rs, dis, hid, v, domain, t, b, e :
        /\ rs = Responses(signature, msgs, indexes, draws, c)
        /\ dis = Revealed(msgs, indexes)
        /\ hid = Undisclosed(indexes, L)
        /\ v = L - u
        /\ domain = CalculateDomain(w, L)
        /\ t = Terms(msgs, L)
        /\ b = BValue(domain, msgs)
        /\ e = signature.e
  OBVIOUS
<1>2. Len(msgs) = L /\ Len(H) \in Nat
  BY GeneratorInt
<1>0. Places(indexes, u, L) /\ indexes \in [1 .. u -> 1 .. L]
  BY DEF Places
<1>3. v \in Nat /\ hid \in [1 .. v -> 1 .. L] /\ Shared(L, indexes, u, hid, v)
  <2>1. L - u \in Nat /\ Shared(L, indexes, u, Undisclosed(indexes, L), L - u)
    BY <1>0, Others
  <2> QED BY <1>1, <2>1 DEF Shared, Places
<1>4. DOMAIN hid = 1 .. v
  BY <1>3
\* The responses and the sizes.
<1>5. /\ rs.e_hat = (draws.e_tilde + e * c) % r
      /\ rs.r1_hat = (draws.r1_tilde - draws.r1 * c) % r
      /\ rs.r3_hat = (draws.r3_tilde - InverseOf(draws.r2) * c) % r
      /\ rs.m_hat = [j \in 1 .. v |-> (draws.m_tilde[j] + msgs[hid[j]] * c) % r]
      /\ rs.c = c
  BY <1>1, <1>2, <1>4 DEF Responses, R1Hat
<1>6. Len(rs.m_hat) = v /\ DOMAIN rs.m_hat = 1 .. v
  <2>1. rs.m_hat = [j \in 1 .. v |-> rs.m_hat[j]]
    BY <1>5
  <2> QED BY <1>3, <2>1
<1>7. /\ DOMAIN dis = 1 .. u /\ Len(dis) = u
      /\ \A k \in 1 .. u : dis[k] = <<indexes[k], msgs[indexes[k]]>>
      /\ [k \in DOMAIN dis |-> dis[k][1]] = indexes
  <2>1. dis = [k \in 1 .. u |-> <<indexes[k], msgs[indexes[k]]>>]
    BY <1>0, <1>1 DEF Revealed
  <2> QED BY <1>0, <2>1
<1>8. Len(dis) + Len(rs.m_hat) = L
  BY <1>1, <1>6, <1>7
\* The sums.
<1>9. t \in [1 .. L -> Int]
  BY <1>1, TermsType
<1>10. PICK y, z, M, X, Y, D :
        /\ y = Of(msgs, hid, v) /\ z = Of(msgs, indexes, u)
        /\ M = Weighted(hid, rs.m_hat, v) /\ X = Weighted(hid, draws.m_tilde, v)
        /\ Y = Weighted(hid, y, v) /\ D = Weighted(indexes, z, u)
  OBVIOUS
<1>11. hid \in [1 .. v -> 1 .. Len(H)] /\ indexes \in [1 .. u -> 1 .. Len(H)]
  <2>1. 1 .. L \subseteq 1 .. Len(H)
    BY <1>2
  <2> QED BY <1>0, <1>3, <2>1
<1>12. y \in [1 .. v -> Scalars] /\ z \in [1 .. u -> Scalars]
  BY <1>0, <1>3, <1>10 DEF Of
<1>13. rs.m_hat \in [1 .. v -> Scalars]
  <2>1. ASSUME NEW j \in 1 .. v PROVE (draws.m_tilde[j] + msgs[hid[j]] * c) % r \in Scalars
    <3>1. PICK a, b1 : a = draws.m_tilde[j] /\ b1 = msgs[hid[j]]
      OBVIOUS
    <3>2. a \in Scalars /\ b1 \in Scalars
      BY <1>1, <1>3, <3>1 DEF DrawnFor
    <3>3. a \in Int /\ b1 \in Int /\ c \in Int
      BY <3>2, ScalarInt, Zenon
    <3>4. a + b1 * c \in Int
      BY <3>3
    <3> QED BY <3>1, <3>4, ScalarOf
  <2> QED BY <1>5, <2>1
<1>33. draws.m_tilde \in [1 .. v -> Scalars]
  BY <1>1 DEF DrawnFor
<1>34. M \in Int /\ X \in Int /\ Y \in Int /\ D \in Int
  BY <1>3, <1>10, <1>11, <1>12, <1>13, <1>33, WeightedType
<1>35. Congruent(M, X + c * Y, r)
  <2>1. PICK x, m : x = draws.m_tilde /\ m = rs.m_hat
    OBVIOUS
  <2>2. \A j \in 1 .. v : m[j] = (x[j] + y[j] * c) % r
    BY <1>5, <1>10, <2>1 DEF Of
  <2> QED BY <1>3, <1>10, <1>11, <1>12, <1>13, <1>33, <2>1, <2>2, Answered
<1>36. Total(t) = D + Y
  <2>1. Total(Terms(msgs, L)) = Weighted(indexes, Of(msgs, indexes, u), u)
                                  + Weighted(hid, Of(msgs, hid, v), v)
    <3>1. v \in Nat /\ Shared(L, indexes, u, hid, v)
      BY <1>3
    <3> QED BY <3>1, TermsShared
  <2> QED BY <1>1, <1>10, <2>1
<1>14. Combine(dis) = D
  <2>1. \A k \in 1 .. u : dis[k] = <<indexes[k], z[k]>>
    BY <1>7, <1>10 DEF Of
  <2>2. DOMAIN dis = 1 .. u
    BY <1>7
  <2>3. Combine(dis) = Weighted(indexes, z, u)
    BY <1>11, <1>12, <2>1, <2>2, CombineSum, Zenon
  <2> QED BY <1>10, <2>3
<1>15. Combine([j \in DOMAIN hid |-> <<hid[j], draws.m_tilde[j]>>]) = X
  <2> DEFINE p == [j \in DOMAIN hid |-> <<hid[j], draws.m_tilde[j]>>]
  <2>1. DOMAIN p = 1 .. v /\ \A j \in 1 .. v : p[j] = <<hid[j], draws.m_tilde[j]>>
    BY <1>4
  <2> HIDE DEF p
  <2>5. Combine(p) = X
    BY <1>3, <1>10, <1>11, <1>33, <2>1, CombineSum
  <2> QED BY <2>5 DEF p
<1>17. Combine([j \in DOMAIN rs.m_hat |-> <<hid[j], rs.m_hat[j]>>]) = M
  <2> DEFINE p == [j \in DOMAIN rs.m_hat |-> <<hid[j], rs.m_hat[j]>>]
  <2>1. DOMAIN p = 1 .. v /\ \A j \in 1 .. v : p[j] = <<hid[j], rs.m_hat[j]>>
    BY <1>6
  <2> HIDE DEF p
  <2>4. Combine(p) = M
    BY <1>3, <1>10, <1>11, <1>13, <2>1, CombineSum
  <2> QED BY <2>4 DEF p
\* The two commitments.
<1>18. domain \in Scalars
  <2>1. L \in 0 .. Len(H)
    BY <1>2
  <2> QED BY <1>1, <2>1, BbsAssumption
<1>19. PICK bv : bv = P1 + Q1 * domain + D
  OBVIOUS
<1>20. bv \in Int /\ b \in Int /\ Congruent(b, bv + Y, r)
  <2>1. /\ P1 \in Int /\ Q1 \in Int /\ Congruent(b, P1 + Q1 * domain + Total(t), r)
        /\ b \in Scalars
    BY <1>1, <1>18, BValueSum
  <2>2. b \in Int /\ domain \in Int
    BY <1>18, <2>1, ScalarInt, Zenon
  <2>3. PICK q : q = Q1 * domain
    OBVIOUS
  <2>4. q \in Int
    BY <2>1, <2>2, <2>3
  <2>5. P1 + q + Total(t) = (P1 + q + D) + Y
    BY <1>34, <1>36, <2>1, <2>4
  <2> QED BY <1>34, <1>19, <2>1, <2>2, <2>3, <2>4, <2>5
<1>21. PICK r1, r2, i2, et, rt, r3t, eh, rh, r3h, abar, bbar, d :
         /\ r1 = draws.r1 /\ r2 = draws.r2 /\ i2 = InverseOf(r2)
         /\ et = draws.e_tilde /\ rt = draws.r1_tilde /\ r3t = draws.r3_tilde
         /\ eh = rs.e_hat /\ rh = rs.r1_hat /\ r3h = rs.r3_hat
         /\ abar = pt.abar /\ bbar = pt.bbar /\ d = pt.d
  OBVIOUS
<1>22. /\ r1 \in Int /\ r2 \in NonZero /\ r2 \in Int /\ et \in Int /\ rt \in Int
       /\ r3t \in Int /\ e \in Int /\ c \in Int /\ abar \in Int
  BY <1>1, <1>21, ScalarInt, Zenon DEF DrawnFor
<1>23. i2 \in Int /\ Congruent(r2 * i2, 1, r)
  BY <1>21, <1>22, InverseType, ScalarInt
<1>24. d \in Int /\ Congruent(d, b * r2, r)
  <2>1. b * r2 \in Int
    BY <1>20, <1>22
  <2> QED BY <1>1, <1>21, <2>1, ScalarOf
<1>25. bbar \in Int /\ Congruent(bbar, d * r1 - abar * e, r)
  <2>1. d * r1 - abar * e \in Int
    BY <1>22, <1>24
  <2> QED BY <1>1, <1>21, <2>1, ScalarOf
<1>26. eh \in Int /\ Congruent(eh, et + e * c, r)
  <2>1. et + e * c \in Int
    BY <1>22
  <2> QED BY <1>5, <1>21, <2>1, ScalarOf
<1>27. rh \in Int /\ Congruent(rh, rt - r1 * c, r)
  <2>1. rt - r1 * c \in Int
    BY <1>22
  <2> QED BY <1>5, <1>21, <2>1, ScalarOf
<1>28. r3h \in Int /\ Congruent(r3h, r3t - i2 * c, r)
  <2>1. r3t - i2 * c \in Int
    BY <1>22, <1>23
  <2> QED BY <1>5, <1>21, <2>1, ScalarOf
<1>29. (bbar * c + abar * eh + d * rh) % r = (abar * et + d * rt) % r
  <2>1. Congruent(bbar * c + abar * eh + d * rh, abar * et + d * rt, r)
    BY <1>22, <1>24, <1>25, <1>26, <1>27, Order, FirstCommitment, Zenon
  <2>2. bbar * c + abar * eh + d * rh \in Int /\ abar * et + d * rt \in Int
    BY <1>22, <1>24, <1>25, <1>26, <1>27
  <2> QED BY <2>1, <2>2, Order, SameRemainder, Zenon
<1>30. (bv * c + d * r3h + M) % r = (d * r3t + X) % r
  <2>1. Congruent(bv * c + d * r3h + M, d * r3t + X, r)
    BY <1>34, <1>35, <1>20, <1>22, <1>23, <1>24, <1>28, Order, SecondCommitment, Zenon
  <2>2. bv * c + d * r3h + M \in Int /\ d * r3t + X \in Int
    BY <1>34, <1>20, <1>22, <1>24, <1>28
  <2> QED BY <2>1, <2>2, Order, SameRemainder, Zenon
<1>31. ProverTranscript(w, pt, msgs, indexes, draws, ph)
         = Transcript(pt, (abar * et + d * rt) % r, (d * r3t + X) % r, domain, dis, ph)
  BY <1>1, <1>2, <1>15, <1>21 DEF ProverTranscript, Revealed
<1>32. VerifierTranscript(w, [points |-> pt, responses |-> rs], dis, ph)
         = Transcript(pt, (bbar * c + abar * eh + d * rh) % r, (bv * c + d * r3h + M) % r,
                      domain, dis, ph)
  <2>1. PICK proof : proof = [points |-> pt, responses |-> rs]
    OBVIOUS
  <2>2. proof.points = pt /\ proof.responses = rs
    BY <2>1
  <2>3. PICK ix, L1 : ix = [k \in DOMAIN dis |-> dis[k][1]] /\ L1 = Len(dis) + Len(rs.m_hat)
    OBVIOUS
  <2>4. ix = indexes /\ L1 = L
    BY <1>7, <1>8, <2>3
  <2>5. VerifierTranscript(w, proof, dis, ph)
          = Transcript(pt,
              (pt.bbar * rs.c + pt.abar * rs.e_hat + pt.d * rs.r1_hat) % r,
              ((P1 + Q1 * CalculateDomain(w, L1) + Combine(dis)) * rs.c + pt.d * rs.r3_hat
                + Combine([j \in DOMAIN rs.m_hat |-> <<Undisclosed(ix, L1)[j], rs.m_hat[j]>>])) % r,
              CalculateDomain(w, L1), dis, ph)
    BY <2>2, <2>3 DEF VerifierTranscript
  <2>6. CalculateDomain(w, L1) = domain /\ Undisclosed(ix, L1) = hid /\ rs.c = c
    BY <1>1, <1>5, <2>4
  <2> QED BY <1>14, <1>17, <1>19, <1>21, <2>1, <2>5, <2>6
<1> QED BY <1>1, <1>29, <1>30, <1>31, <1>32

-----------------------------------------------------------------------------
(***************************************************************************)
(* Credentials.                                                            *)
(***************************************************************************)
LEMMA Listed ==
  ASSUME NEW S, NEW n \in Nat, NEW f \in [1 .. n -> S]
  PROVE  f \in Seq(S) /\ Len(f) = n
OBVIOUS

Appended(s, f, m, g, n, S) ==
  /\ s \in [1 .. m + n -> S]
  /\ \A i \in 1 .. m + n : s[i] = IF i <= m THEN f[i] ELSE g[i - m]

\* Sequences of scalars, and one after the other.
LEMMA Joined ==
  ASSUME NEW S, NEW m \in Nat, NEW n \in Nat, NEW f \in [1 .. m -> S], NEW g \in [1 .. n -> S]
  PROVE  Appended(f \o g, f, m, g, n, S)
<1>1. f \in Seq(S) /\ Len(f) = m /\ g \in Seq(S) /\ Len(g) = n
  BY Listed
<1>2. PICK s : s = f \o g
  OBVIOUS
<1>3. s \in Seq(S) /\ Len(s) = m + n
  BY <1>1, <1>2, ConcatProperties
<1>4. s \in [1 .. m + n -> S]
  BY <1>3
<1>5. \A i \in 1 .. Len(f) + Len(g) : (f \o g)[i] = IF i <= Len(f) THEN f[i] ELSE g[i - Len(f)]
  BY <1>1, ConcatProperties
<1>6. \A i \in 1 .. m + n : (f \o g)[i] = IF i <= m THEN f[i] ELSE g[i - m]
  BY <1>1, <1>5
<1> QED BY <1>2, <1>4, <1>6 DEF Appended
\* The messages of a credential.
LEMMA Vector ==
  ASSUME NEW meta \in [1 .. 3 -> Scalars], NEW some \in ClaimSets
  PROVE  /\ Cardinality(some) \in Nat /\ 3 + Cardinality(some) <= Len(H)
         /\ MessageVector(meta, some) \in [1 .. 3 + Cardinality(some) -> Scalars]
         /\ \A i \in 1 .. 3 : MessageVector(meta, some)[i] = meta[i]
         /\ \A i \in 1 .. Cardinality(some) :
              MessageVector(meta, some)[3 + i] = ClaimScalar(Ascending(some)[i])
<1>1. PICK n : n = Cardinality(some)
  OBVIOUS
<1>2. IsFiniteSet(some) /\ 3 + n <= Len(H) /\ some \subseteq Nat
      /\ \A claim \in some : ClaimScalar(claim) \in Scalars
  BY <1>1, IssuanceAssumption DEF Claims
<1>3. n \in Nat
  BY <1>1, <1>2, FS_CardinalityType
<1>4. Ordered(Ascending(some), some)
  BY <1>2, AscendingOrdered
<1> DEFINE f == [i \in 1 .. n |-> ClaimScalar(Ascending(some)[i])]
<1>5. f \in [1 .. n -> Scalars]
  BY <1>1, <1>2, <1>4 DEF Ordered
<1>6. \A i \in 1 .. n : f[i] = ClaimScalar(Ascending(some)[i])
  OBVIOUS
<1> HIDE DEF f
<1>8. PICK msgs : msgs = meta \o f
  OBVIOUS
<1>9. /\ msgs \in [1 .. 3 + n -> Scalars]
      /\ \A i \in 1 .. 3 + n : msgs[i] = IF i <= 3 THEN meta[i] ELSE f[i - 3]
  <2>1. PICK m \in Nat : m = 3
    OBVIOUS
  <2>2. meta \in [1 .. m -> Scalars]
    BY <2>1
  <2>3. /\ msgs \in [1 .. m + n -> Scalars]
        /\ \A i \in 1 .. m + n : msgs[i] = IF i <= m THEN meta[i] ELSE f[i - m]
    <3>1. Appended(meta \o f, meta, m, f, n, Scalars)
      BY <1>3, <1>5, <2>2, Joined
    <3>2. Appended(msgs, meta, m, f, n, Scalars)
      BY <1>8, <3>1
    <3> QED BY <3>2 DEF Appended
  <2> QED BY <2>1, <2>3
<1>10. \A i \in 1 .. 3 : msgs[i] = meta[i]
  BY <1>3, <1>9
<1>11. ASSUME NEW i \in 1 .. n PROVE msgs[3 + i] = f[i]
  <2>1. 3 + i \in 1 .. 3 + n /\ ~ (3 + i <= 3) /\ (3 + i) - 3 = i
    BY <1>3
  <2> QED BY <1>9, <2>1
<1>12. MessageVector(meta, some) = msgs
  BY <1>1, <1>8 DEF MessageVector, f
<1> QED BY <1>1, <1>2, <1>3, <1>6, <1>9, <1>10, <1>11, <1>12

\* The place of a claim in the vector.
Place(some, required) == 3 + Cardinality({c \in some : c <= required})

\* The indexes that a presentation discloses are four different ones, the last of
\* them the place of the claim in the sorted claims.
LEMMA Indexes ==
  ASSUME NEW some \in ClaimSets, NEW required \in some
  PROVE  LET L == 3 + Cardinality(some) IN
           /\ Place(some, required) \in 4 .. L
           /\ DisclosedIndexes(some, required) = <<1, 2, 3, Place(some, required)>>
           /\ Places(DisclosedIndexes(some, required), 4, L)
           /\ Ascending(some)[Place(some, required) - 3] = required
<1>1. PICK n, k : n = Cardinality(some) /\ k = Cardinality({c \in some : c <= required})
  OBVIOUS
<1>2. IsFiniteSet(some) /\ some \subseteq Nat
  BY IssuanceAssumption DEF Claims
<1>3. n \in Nat
  BY <1>1, <1>2, FS_CardinalityType
<1>4. k \in 1 .. n /\ Ascending(some)[k] = required
  BY <1>1, <1>2, PlaceOf
<1>5. PICK p : p = Place(some, required)
  OBVIOUS
<1>6. p = 3 + k /\ p \in 4 .. 3 + n /\ p - 3 = k
  BY <1>1, <1>3, <1>4, <1>5 DEF Place
<1>7. DisclosedIndexes(some, required) = <<1, 2, 3, p>>
  BY <1>5 DEF DisclosedIndexes, Place
<1>8. Places(<<1, 2, 3, p>>, 4, 3 + n)
  <2>1. <<1, 2, 3, p>> \in [1 .. 4 -> 1 .. 3 + n]
    BY <1>3, <1>6
  <2>2. \A i, j \in 1 .. 4 : i # j => <<1, 2, 3, p>>[i] # <<1, 2, 3, p>>[j]
    BY <1>3, <1>6
  <2> QED BY <2>1, <2>2 DEF Places
<1> QED BY <1>1, <1>4, <1>5, <1>6, <1>7, <1>8

\* A credential that the issuer signed.
Proper(cred) ==
  /\ cred.sk \in Scalars /\ cred.meta \in [1 .. 3 -> Scalars] /\ cred.claims \in ClaimSets
  /\ HashE(cred.sk, MessageVector(cred.meta, cred.claims)) \in Scalars
  /\ ~ SignFails(cred.sk, MessageVector(cred.meta, cred.claims))
  /\ cred.signature = Sign(cred.sk, MessageVector(cred.meta, cred.claims))
\* The point that a credential signs.
BOf(cred) ==
  BValue(CalculateDomain(cred.sk, 3 + Cardinality(cred.claims)),
         MessageVector(cred.meta, cred.claims))

\* A signature that did not fail is one of a point other than zero.
LEMMA ProperSignature ==
  ASSUME NEW cred, Proper(cred)
  PROVE  /\ BOf(cred) \in NonZero
         /\ BOf(cred) = BValue(CalculateDomain(cred.sk,
                                  Len(MessageVector(cred.meta, cred.claims))),
                               MessageVector(cred.meta, cred.claims))
         /\ cred.signature.e \in Scalars /\ cred.signature.A \in NonZero
         /\ cred.signature \in [A : NonZero, e : Scalars]
         /\ (cred.sk + cred.signature.e) % r # 0
         /\ Congruent(cred.signature.A * (cred.sk + cred.signature.e), BOf(cred), r)
<1>1. PICK msgs, L, sk, B, e, domain :
        /\ msgs = MessageVector(cred.meta, cred.claims) /\ L = 3 + Cardinality(cred.claims)
        /\ sk = cred.sk /\ B = BOf(cred) /\ e = HashE(sk, msgs)
        /\ domain = CalculateDomain(sk, L)
  OBVIOUS
<1>2. /\ L \in Nat /\ L <= Len(H) /\ msgs \in [1 .. L -> Scalars]
      /\ sk \in Scalars /\ e \in Scalars
  BY <1>1, Vector DEF Proper
<1>3. Len(msgs) = L
  BY <1>2
<1>4. domain \in Scalars
  <2>1. L \in 0 .. Len(H)
    BY <1>2, GeneratorInt
  <2> QED BY <1>1, <1>2, <2>1, BbsAssumption
<1>5. B = BValue(domain, msgs)
  BY <1>1 DEF BOf
<1>6. B \in Scalars
  BY <1>2, <1>4, <1>5, BValueSum
<1>7. (sk + e) % r # 0 /\ B # 0
  BY <1>1, <1>3, <1>5 DEF Proper, SignFails
<1>8. B \in NonZero
  BY <1>6, <1>7, ScalarInt
<1>9. PICK A : A = (B * InverseOf((sk + e) % r)) % r
  OBVIOUS
<1>10. A \in NonZero /\ Congruent(A * (sk + e), B, r)
  BY <1>2, <1>7, <1>8, <1>9, Signs
<1>11. cred.signature = [A |-> A, e |-> e]
  BY <1>1, <1>3, <1>5, <1>9 DEF Proper, Sign
<1> QED BY <1>1, <1>2, <1>3, <1>5, <1>7, <1>8, <1>10, <1>11

\* What the well-known document says is proper.
LEMMA SignerProper ==
  ASSUME NEW file \in KeyFiles, VcIndexes(file) # {}
  PROVE  VcSigner(file) \in ToSet(file) /\ VcSigner(file).purpose = "vc_signing"
         /\ ProperEntry(VcSigner(file))
<1>1. DOMAIN file = 1 .. Len(file) /\ \A entry \in ToSet(file) : ProperEntry(entry)
  BY IssuanceAssumption
<1>2. VcIndexes(file) \subseteq Nat
  BY <1>1 DEF VcIndexes
<1>3. \E i \in VcIndexes(file) : \A j \in VcIndexes(file) : i <= j
  BY <1>2, Smallest
<1>4. PICK i : i = CHOOSE k \in VcIndexes(file) : \A j \in VcIndexes(file) : k <= j
  OBVIOUS
<1>5. i \in VcIndexes(file)
  BY <1>3, <1>4
<1>6. VcSigner(file) = file[i] /\ i \in DOMAIN file /\ file[i].purpose = "vc_signing"
  BY <1>4, <1>5 DEF VcSigner, VcIndexes
<1> QED BY <1>1, <1>6 DEF ToSet

\* What vc_get stores is proper.
LEMMA NewCredential ==
  ASSUME KeysInv, claims \in ClaimSets, VcGet
  PROVE  /\ Proper(credential') /\ credential'.claims = claims /\ claims # {}
         /\ \E vc \in published : /\ vc.purpose = "vc_signing"
                                  /\ credential'.sk = vc.key.sk
<1>1. PICK vc, msgs : vc = VcSigner(keys) /\ msgs = MessageVector(vc.meta, claims)
  OBVIOUS
<1>2. claims # {} /\ VcIndexes(keys) # {} /\ ~ SignFails(vc.key.sk, msgs)
  BY <1>1 DEF VcGet, CredentialIssuable
<1>3. vc \in published /\ vc.purpose = "vc_signing" /\ ProperEntry(vc)
  BY <1>1, <1>2, SignerProper DEF KeysInv
<1>4. vc.key.sk \in Scalars /\ vc.meta \in [1 .. 3 -> Scalars] /\ HashE(vc.key.sk, msgs) \in Scalars
  BY <1>1, <1>3 DEF ProperEntry
<1>5. credential' = [sk |-> vc.key.sk, key_id |-> vc.key_id, meta |-> vc.meta,
                     assurance |-> vc.assurance, claims |-> claims,
                     signature |-> Sign(vc.key.sk, msgs)]
  BY <1>1 DEF VcGet
<1>6. PICK cred : cred = credential'
  OBVIOUS
<1>7. /\ cred.sk = vc.key.sk /\ cred.meta = vc.meta /\ cred.claims = claims
      /\ cred.signature = Sign(vc.key.sk, msgs)
  BY <1>5, <1>6
<1>8. Proper(cred)
  BY <1>1, <1>2, <1>4, <1>7 DEF Proper
<1> QED BY <1>2, <1>3, <1>6, <1>7, <1>8

\* The credential in the vault was signed for its owner with a published key.
CredentialInv ==
  /\ claims \in ClaimSets
  /\ credential # NoCredential =>
       /\ Proper(credential) /\ credential.claims = claims /\ claims # {}

LEMMA InitCredential == Init => CredentialInv
  BY DEF Init, CredentialInv

LEMMA NextCredential ==
  ASSUME KeysInv, CredentialInv, [Next]_vars
  PROVE  CredentialInv'
<1>1. claims' = claims /\ (credential' = credential \/ VcGet)
  BY DEF Next, Rotate, ReadWellKnown, BlindBatch, PlainBatch, IssueTokens,
         FinalizeBatch, Interrupted, VcGet, VcProve, vars, walletVars, vcVars,
         issuerVars
<1>2. CASE credential' = credential
  BY <1>1, <1>2 DEF CredentialInv
<1>3. CASE VcGet
  <2>1. PICK cred : cred = credential'
    OBVIOUS
  <2>2. Proper(cred) /\ cred.claims = claims /\ claims # {}
    BY <1>3, <2>1, NewCredential DEF CredentialInv
  <2> QED BY <1>1, <2>1, <2>2 DEF CredentialInv
<1> QED BY <1>1, <1>2, <1>3

LEMMA InitType == Init => TypeOK
  BY IssuanceAssumption DEF Init, TypeOK, Idle

LEMMA NextType ==
  ASSUME KeysInv, MintInv, NoncesInv, CredentialInv, CredentialInv', KeysInv', MintInv',
         TypeOK, [Next]_vars
  PROVE  TypeOK'
<1>1. claims' \in ClaimSets /\ keys' \in KeyFiles /\ Advertised(keys)' \subseteq published'
  BY DEF CredentialInv, KeysInv, Advertised
<1>2. (command').at \in {"idle", "minting", "sent", "answered"}
  BY DEF MintInv
<1>3. rotations' \in 0 .. MaxRotations
  <2>1. rotations \in 0 .. MaxRotations /\ MaxRotations \in Nat
    BY IssuanceAssumption DEF TypeOK
  <2>2. rotations' = rotations \/ (rotations < MaxRotations /\ rotations' = rotations + 1)
    BY DEF Next, Rotate, ReadWellKnown, BlindBatch, PlainBatch, IssueTokens,
           FinalizeBatch, Interrupted, VcGet, VcProve, vars, walletVars, vcVars,
           issuerVars
  <2> QED BY <2>1, <2>2
<1>4. \A token \in tokens' : token.nonce \in drawn'
  <2>1. CASE tokens' = tokens
    <3>1. drawn \subseteq drawn'
      BY DEF Next, Rotate, ReadWellKnown, BlindBatch, PlainBatch, IssueTokens,
             FinalizeBatch, Interrupted, VcGet, VcProve, vars, walletVars, vcVars,
             issuerVars
    <3> QED BY <2>1, <3>1 DEF TypeOK
  <2>2. CASE FinalizeBatch
    <3>1. /\ drawn' = drawn /\ ToSet(command.sent.nonces) \subseteq drawn
          /\ \A token \in tokens' \ tokens : token.nonce \in ToSet(command.sent.nonces)
      BY <2>2 DEF FinalizeBatch, NoncesInv, Apart, ToSet
    <3> QED BY <3>1 DEF TypeOK
  <2> QED BY <2>1, <2>2 DEF Next, Rotate, ReadWellKnown, BlindBatch, PlainBatch,
             IssueTokens, Interrupted, VcGet, VcProve, vars, walletVars
<1>5. \A pair \in asked' : pair[2] \in Scalars
  <2>1. CASE asked' = asked
    BY <2>1 DEF TypeOK
  <2>2. ASSUME NEW challenge \in Challenges, VcProve(challenge)
        PROVE  \A pair \in asked' : pair[2] \in Scalars
    <3>1. PICK question : \E c \in Answers(question) : asked' = asked \cup {<<question, c>>}
      BY <2>2 DEF VcProve
    <3>2. PICK c \in Answers(question) : asked' = asked \cup {<<question, c>>}
      BY <3>1
    <3>3. c \in Scalars
      BY DEF Answers, TypeOK
    <3> QED BY <3>2, <3>3 DEF TypeOK
  <2> QED BY <2>1, <2>2 DEF Next, Rotate, ReadWellKnown, BlindBatch, PlainBatch,
             IssueTokens, FinalizeBatch, Interrupted, VcGet, vars, vcVars
<1>6. credential' # NoCredential =>
        /\ (credential').claims = claims' /\ claims' # {}
        /\ (credential').signature \in [A : NonZero, e : Scalars]
  <2>1. PICK cred : cred = credential'
    OBVIOUS
  <2>2. Proper(cred) => cred.signature \in [A : NonZero, e : Scalars]
    BY ProperSignature
  <2> QED BY <2>1, <2>2 DEF CredentialInv
<1> QED BY <1>1, <1>2, <1>3, <1>4, <1>5, <1>6 DEF TypeOK

\* Every variable keeps its shape, and only who is eligible for something has a
\* credential, for any key files and any number of restarts.
THEOREM IssuanceTypeCorrect == Spec => []TypeOK
<1>1. KeysInv /\ MintInv /\ NoncesInv /\ CredentialInv /\ [Next]_vars
        => (KeysInv /\ MintInv /\ NoncesInv /\ CredentialInv)'
  BY NextKeys, NextMint, NextNonces, NextCredential
<1>2. /\ KeysInv /\ MintInv /\ NoncesInv /\ CredentialInv /\ TypeOK /\ [Next]_vars
        => TypeOK'
  <2>1. SUFFICES ASSUME KeysInv, MintInv, NoncesInv, CredentialInv, TypeOK, [Next]_vars
                 PROVE  TypeOK'
    OBVIOUS
  <2>2. KeysInv' /\ MintInv'
    BY <2>1, NextKeys, NextMint
  <2>3. CredentialInv'
    BY <2>1, NextCredential
  <2> QED BY <2>1, <2>2, <2>3, NextType
<1> QED BY <1>1, <1>2, InitMint, InitNonces, InitCredential, InitType, PTL DEF Spec

-----------------------------------------------------------------------------
(***************************************************************************)
(* Proofs of credentials.                                                  *)
(***************************************************************************)
\* What bbs_proof_gen draws are scalars enough.
LEMMA DrawsType ==
  ASSUME NEW u \in Nat, \A t \in Tildes : Len(t) >= 3 + u, NEW draws \in Draws(u)
  PROVE  DrawnFor(draws, u)
<1>1. PICK r1 \in NonZero, r2 \in NonZero, t \in Tildes :
        draws = [r1 |-> r1, r2 |-> r2, e_tilde |-> t[1], r1_tilde |-> t[2],
                 r3_tilde |-> t[3], m_tilde |-> SubSeq(t, 4, 3 + u)]
  BY DEF Draws
<1>2. t \in Seq(Scalars) /\ Len(t) >= 3 + u
  BY BbsAssumption
<1>3. PICK n \in Nat : n = Len(t)
  BY <1>2
<1>4. n >= 3 + u /\ \A i \in 1 .. n : t[i] \in Scalars
  BY <1>2, <1>3
<1>5. t[1] \in Scalars /\ t[2] \in Scalars /\ t[3] \in Scalars
  BY <1>4
<1>6. SubSeq(t, 4, 3 + u) \in [1 .. u -> Scalars]
  <2>1. SubSeq(t, 4, 3 + u) = [i \in 1 .. u |-> t[i + 3]]
    <3>1. SubSeq(t, 4, 3 + u) = [i \in 1 .. (3 + u) - 4 + 1 |-> t[i + 4 - 1]]
      OBVIOUS
    <3>2. (3 + u) - 4 + 1 = u /\ \A i \in 1 .. u : i + 4 - 1 = i + 3
      OBVIOUS
    <3> QED BY <3>1, <3>2
  <2>2. \A i \in 1 .. u : t[i + 3] \in Scalars
    BY <1>4
  <2> QED BY <2>1, <2>2
<1> QED BY <1>1, <1>5, <1>6 DEF DrawnFor

\* The messages of the credential behind a proof, their number, and the question
\* that its prover asked.
Messages(p) == MessageVector(p.credential.meta, p.credential.claims)
Size(p) == 3 + Cardinality(p.credential.claims)
Question(p, draws) ==
  ProverTranscript(p.credential.sk, p.proof.points, Messages(p), p.indexes, draws, p.ph)

\* p is a proof of a proper credential, made with those draws and that challenge.
MadeWith(p, draws, c) ==
  /\ p = [credential |-> p.credential, required |-> p.required, meta |-> p.meta,
          indexes |-> p.indexes, ph |-> p.ph, proof |-> p.proof]
  /\ Proper(p.credential) /\ p.meta = p.credential.meta
  /\ p.required \in p.credential.claims
  /\ p.indexes = DisclosedIndexes(p.credential.claims, p.required)
  /\ DrawnFor(draws, Size(p) - 4) /\ c \in Scalars
  /\ p.proof = [points |-> InitPoints(p.credential.sk, p.credential.signature,
                                      Messages(p), draws),
                responses |-> Responses(p.credential.signature, Messages(p),
                                        p.indexes, draws, c)]

\* Every proof shown was asked about, and no question is about anything else;
\* all that was ever published is what a key file is made of.
ShownInv ==
  /\ \A p \in shown : \E draws, c : MadeWith(p, draws, c) /\ <<Question(p, draws), c>> \in asked
  /\ \A pair \in asked : \E p \in shown : \E draws, c :
       MadeWith(p, draws, c) /\ pair = <<Question(p, draws), c>>
  /\ \A entry \in published : ProperEntry(entry)

LEMMA InitShown == Init => ShownInv
<1>1. \A file \in KeyFiles : \A entry \in ToSet(file) : ProperEntry(entry)
  BY IssuanceAssumption
<1> QED BY <1>1 DEF Init, ShownInv, Advertised

\* vc_prove shows one proof and asks one question, about that proof.
LEMMA NewProof ==
  ASSUME CredentialInv, TypeOK, NEW challenge, VcProve(challenge)
  PROVE  \E p, draws, c :
           /\ MadeWith(p, draws, c)
           /\ shown' = shown \cup {p} /\ asked' = asked \cup {<<Question(p, draws), c>>}
<1>1. PICK cred, msgs, indexes, required, u :
        /\ cred = credential /\ msgs = MessageVector(cred.meta, cred.claims)
        /\ required = challenge.required /\ indexes = DisclosedIndexes(cred.claims, required)
        /\ u = Len(msgs) - Len(indexes)
  OBVIOUS
<1>2. Proper(cred) /\ required \in cred.claims
  BY <1>1 DEF VcProve, Presentable, CredentialInv
<1>3. cred.claims \in ClaimSets /\ cred.meta \in [1 .. 3 -> Scalars]
  BY <1>2 DEF Proper
<1>4. PICK L : L = 3 + Cardinality(cred.claims)
  OBVIOUS
<1>5. L \in Nat /\ Len(msgs) = L /\ Len(indexes) = 4 /\ L - 4 \in Nat
      /\ \A t \in Tildes : Len(t) >= 3 + (L - 4)
  <2>1. Cardinality(cred.claims) \in Nat /\ msgs \in [1 .. L -> Scalars]
    BY <1>1, <1>3, <1>4, Vector
  <2>2. L \in Nat /\ Len(msgs) = L
    BY <1>4, <2>1
  <2>3. /\ Place(cred.claims, required) \in 4 .. L
        /\ indexes = <<1, 2, 3, Place(cred.claims, required)>>
    BY <1>1, <1>2, <1>3, <1>4, Indexes
  <2>4. \A t \in Tildes : Len(t) >= 2 + Cardinality(cred.claims)
    BY <1>3, IssuanceAssumption
  <2>5. 3 + (L - 4) = 2 + Cardinality(cred.claims)
    BY <1>4, <2>1
  <2> QED BY <2>2, <2>3, <2>4, <2>5
<1>6. u \in Nat /\ u = L - 4
  BY <1>1, <1>5
<1>7. PICK draws \in Draws(u) :
        \E c \in Answers(ProverTranscript(cred.sk, InitPoints(cred.sk, cred.signature, msgs, draws),
                                          msgs, indexes, draws, challenge.ph)) :
           /\ asked' = asked \cup {<<ProverTranscript(cred.sk,
                          InitPoints(cred.sk, cred.signature, msgs, draws),
                          msgs, indexes, draws, challenge.ph), c>>}
           /\ shown' = shown \cup
                {[credential |-> cred, required |-> required,
                  meta |-> cred.meta, indexes |-> indexes, ph |-> challenge.ph,
                  proof |-> [points |-> InitPoints(cred.sk, cred.signature, msgs, draws),
                             responses |-> Responses(cred.signature, msgs, indexes, draws, c)]]}
  BY <1>1 DEF VcProve
<1>8. PICK points, question :
        /\ points = InitPoints(cred.sk, cred.signature, msgs, draws)
        /\ question = ProverTranscript(cred.sk, points, msgs, indexes, draws, challenge.ph)
  OBVIOUS
<1>9. PICK c \in Answers(question) :
           /\ asked' = asked \cup {<<question, c>>}
           /\ shown' = shown \cup
                {[credential |-> cred, required |-> required,
                  meta |-> cred.meta, indexes |-> indexes, ph |-> challenge.ph,
                  proof |-> [points |-> points,
                             responses |-> Responses(cred.signature, msgs, indexes, draws, c)]]}
  BY <1>7, <1>8
<1>10. PICK p : p = [credential |-> cred, required |-> required,
                  meta |-> cred.meta, indexes |-> indexes, ph |-> challenge.ph,
                  proof |-> [points |-> points,
                             responses |-> Responses(cred.signature, msgs, indexes, draws, c)]]
  OBVIOUS
<1>11. /\ p.credential = cred /\ p.required = required /\ p.meta = cred.meta
       /\ p.indexes = indexes /\ p.ph = challenge.ph
       /\ p.proof = [points |-> points,
                     responses |-> Responses(cred.signature, msgs, indexes, draws, c)]
       /\ p.proof.points = points
  BY <1>10
<1>12. c \in Scalars
  BY DEF Answers, TypeOK
<1>13. DrawnFor(draws, L - 4)
  BY <1>5, <1>6, DrawsType
<1>14. Messages(p) = msgs /\ Size(p) = L /\ Question(p, draws) = question
  BY <1>1, <1>4, <1>8, <1>11 DEF Messages, Size, Question
<1>15. MadeWith(p, draws, c)
  BY <1>1, <1>2, <1>8, <1>10, <1>11, <1>12, <1>13, <1>14, Zenon DEF MadeWith
<1> QED BY <1>9, <1>10, <1>14, <1>15

LEMMA NextShown ==
  ASSUME CredentialInv, TypeOK, ShownInv, [Next]_vars
  PROVE  ShownInv'
<1>1. /\ \/ shown' = shown /\ asked' = asked
         \/ \E challenge \in Challenges : VcProve(challenge)
      /\ \/ published' = published
         \/ \E file \in KeyFiles : published' = published \cup Advertised(file)
  BY DEF Next, Rotate, ReadWellKnown, BlindBatch, PlainBatch, IssueTokens,
         FinalizeBatch, Interrupted, VcGet, VcProve, vars, walletVars, vcVars,
         issuerVars
<1>2. \A entry \in published' : ProperEntry(entry)
  <2>1. \A file \in KeyFiles : \A entry \in ToSet(file) : ProperEntry(entry)
    BY IssuanceAssumption
  <2> QED BY <1>1, <2>1 DEF ShownInv, Advertised
<1>3. CASE shown' = shown /\ asked' = asked
  BY <1>2, <1>3 DEF ShownInv
<1>4. ASSUME NEW challenge \in Challenges, VcProve(challenge) PROVE ShownInv'
  <2>1. PICK p, draws, c :
           /\ MadeWith(p, draws, c)
           /\ shown' = shown \cup {p} /\ asked' = asked \cup {<<Question(p, draws), c>>}
    BY <1>4, NewProof
  <2>2. \A q \in shown' : \E ds, d : MadeWith(q, ds, d) /\ <<Question(q, ds), d>> \in asked'
    BY <2>1 DEF ShownInv
  <2>3. \A pair \in asked' : \E q \in shown' : \E ds, d :
           MadeWith(q, ds, d) /\ pair = <<Question(q, ds), d>>
    BY <2>1 DEF ShownInv
  <2> QED BY <1>2, <2>2, <2>3 DEF ShownInv
<1> QED BY <1>1, <1>3, <1>4

\* The point that the pairing compares: abar * sk = d * r1 - abar * e.
LEMMA PairedPoints ==
  ASSUME NEW n \in Nat, NEW A \in Int, NEW sk \in Int, NEW e \in Int, NEW B \in Int,
         NEW r1 \in Int, NEW r2 \in Int, NEW abar \in Int, NEW d \in Int,
         Congruent(A * (sk + e), B, n), Congruent(abar, A * r1 * r2, n),
         Congruent(d, B * r2, n)
  PROVE  Congruent(abar * sk, d * r1 - abar * e, n)
<1>1. PICK i \in Int : A * (sk + e) = B + i * n
  BY DEF Congruent
<1>2. PICK j \in Int : abar = A * r1 * r2 + j * n
  BY DEF Congruent
<1>3. PICK k \in Int : d = B * r2 + k * n
  BY DEF Congruent
<1>4. PICK x : x = A * (sk + e)
  OBVIOUS
<1>5. abar * sk + abar * e = (A * r1 * r2 + j * n) * (sk + e)
  <2>1. abar * sk + abar * e = abar * (sk + e)
    OBVIOUS
  <2> QED BY <1>2, <2>1
<1>6. (A * r1 * r2 + j * n) * (sk + e) = (A * (sk + e)) * (r1 * r2) + (j * (sk + e)) * n
  OBVIOUS
<1>7. x \in Int /\ x * (r1 * r2) = (B + i * n) * (r1 * r2)
  BY <1>1, <1>4
<1>8. (B + i * n) * (r1 * r2) = (B * r2) * r1 + (i * (r1 * r2)) * n
  OBVIOUS
<1>9. d * r1 = (B * r2) * r1 + (k * r1) * n
  <2>1. d * r1 = (B * r2 + k * n) * r1
    BY <1>3
  <2>2. (B * r2 + k * n) * r1 = (B * r2) * r1 + (k * r1) * n
    OBVIOUS
  <2> QED BY <2>1, <2>2
<1>10. PICK q1, q2, q3, y : /\ q1 = j * (sk + e) /\ q2 = i * (r1 * r2) /\ q3 = k * r1
                           /\ y = (B * r2) * r1
  OBVIOUS
<1>11. q1 \in Int /\ q2 \in Int /\ q3 \in Int /\ y \in Int
  BY <1>10
<1>12. abar * sk + abar * e = y + q2 * n + q1 * n
  BY <1>4, <1>5, <1>6, <1>7, <1>8, <1>10
<1>13. d * r1 = y + q3 * n
  BY <1>9, <1>10
<1>14. PICK s, t, v : s = abar * sk /\ t = abar * e /\ v = d * r1
  OBVIOUS
<1>15. s \in Int /\ t \in Int /\ v \in Int
  BY <1>14
<1>16. s = (v - t) + (q2 + q1 - q3) * n
  <2>1. (q2 + q1 - q3) * n = q2 * n + q1 * n - q3 * n
    BY <1>11
  <2>2. PICK n1, n2, n3, n4 : n1 = q1 * n /\ n2 = q2 * n /\ n3 = q3 * n
                              /\ n4 = (q2 + q1 - q3) * n
    OBVIOUS
  <2>3. n1 \in Int /\ n2 \in Int /\ n3 \in Int /\ n4 = n2 + n1 - n3
    BY <1>11, <2>1, <2>2
  <2>4. s + t = y + n2 + n1 /\ v = y + n3
    BY <1>12, <1>13, <1>14, <2>2
  <2>5. s = (v - t) + n4
    BY <1>11, <1>15, <2>3, <2>4
  <2> QED BY <2>2, <2>5
<1>17. q2 + q1 - q3 \in Int
  BY <1>11
<1>18. PICK q : q = q2 + q1 - q3
  OBVIOUS
<1>19. q \in Int /\ abar * sk = (d * r1 - abar * e) + q * n
  BY <1>14, <1>16, <1>17, <1>18
<1> QED BY <1>19 DEF Congruent

\* The points of a proof that was made with those draws.
Computed(abar, bbar, d, A, B, e, r1, r2) ==
  /\ abar = (A * r1 * r2) % r /\ d = (B * r2) % r
  /\ bbar = (d * r1 - abar * e) % r
LEMMA PointsMade ==
  ASSUME NEW sk \in Scalars, NEW e \in Scalars, NEW B \in NonZero, NEW A \in NonZero,
         Congruent(A * (sk + e), B, r), NEW r1 \in NonZero, NEW r2 \in NonZero,
         NEW abar, NEW d, NEW bbar, Computed(abar, bbar, d, A, B, e, r1, r2)
  PROVE  abar \in NonZero /\ d \in NonZero /\ bbar \in Scalars /\ (abar * sk) % r = bbar
<1>1. /\ sk \in Int /\ e \in Int /\ B \in Int /\ A \in Int /\ r1 \in Int /\ r2 \in Int
      /\ A * r1 \in Int /\ A * r1 * r2 \in Int /\ B * r2 \in Int
  BY ScalarInt
<1>2. d \in NonZero
  BY NonZeroProduct DEF Computed
<1>3. abar \in NonZero
  <2>1. PICK x : x = (A * r1) % r
    OBVIOUS
  <2>2. x \in NonZero
    BY <2>1, NonZeroProduct
  <2>3. (x * r2) % r \in NonZero
    BY <2>2, NonZeroProduct
  <2>4. x \in Int /\ Congruent(x, A * r1, r) /\ Congruent(r2, r2, r)
    BY <1>1, <2>1, ScalarOf, Order, Same
  <2>5. Congruent(x * r2, A * r1 * r2, r)
    BY <1>1, <2>4, Order, Times, Zenon
  <2>6. x * r2 \in Int
    BY <1>1, <2>4
  <2>7. (x * r2) % r = (A * r1 * r2) % r
    BY <1>1, <2>5, <2>6, Order, SameRemainder, Zenon
  <2> QED BY <2>3, <2>7 DEF Computed
<1>4. abar \in Int /\ d \in Int
  BY <1>2, <1>3, ScalarInt, Zenon
<1>5. Congruent(abar, A * r1 * r2, r) /\ Congruent(d, B * r2, r)
  BY <1>1, ScalarOf DEF Computed
<1>6. Congruent(abar * sk, d * r1 - abar * e, r)
  BY <1>1, <1>4, <1>5, Order, PairedPoints, Zenon
<1>7. abar * sk \in Int /\ d * r1 - abar * e \in Int
  BY <1>1, <1>4
<1>8. (abar * sk) % r = (d * r1 - abar * e) % r
  BY <1>6, <1>7, Order, SameRemainder, Zenon
<1> QED BY <1>2, <1>3, <1>7, <1>8, ScalarOf DEF Computed

\* What a site finds in a proof that was made with some draws.
LEMMA ProofMade ==
  ASSUME NEW p, NEW draws, NEW c, MadeWith(p, draws, c)
  PROVE  /\ Size(p) \in Nat /\ Size(p) <= Len(H) /\ Messages(p) \in [1 .. Size(p) -> Scalars]
         /\ Size(p) - 4 \in Nat /\ Places(p.indexes, 4, Size(p))
         /\ p.proof.points.abar \in NonZero /\ p.proof.points.d \in NonZero
         /\ p.proof.points.bbar \in Scalars
         /\ (p.proof.points.abar * p.credential.sk) % r = p.proof.points.bbar
         /\ p.proof.points.d = (BOf(p.credential) * draws.r2) % r
         /\ p.proof.points.bbar = (p.proof.points.d * draws.r1
                                     - p.proof.points.abar * p.credential.signature.e) % r
         /\ p.proof.responses.c = c
         /\ Len(p.proof.responses.m_hat) = Size(p) - 4
         /\ DOMAIN p.proof.responses.m_hat = 1 .. Size(p) - 4
         /\ Question(p, draws)
              = VerifierTranscript(p.credential.sk, p.proof,
                                   Revealed(Messages(p), p.indexes), p.ph)
<1>1. PICK cred, msgs, L, pt, rs, B, A, e, sk :
        /\ cred = p.credential /\ msgs = Messages(p) /\ L = Size(p)
        /\ pt = p.proof.points /\ rs = p.proof.responses
        /\ B = BOf(cred) /\ A = cred.signature.A /\ e = cred.signature.e /\ sk = cred.sk
  OBVIOUS
<1>2. /\ Proper(cred) /\ DrawnFor(draws, L - 4) /\ c \in Scalars
      /\ p.indexes = DisclosedIndexes(cred.claims, p.required) /\ p.required \in cred.claims
      /\ pt = InitPoints(sk, cred.signature, msgs, draws)
      /\ rs = Responses(cred.signature, msgs, p.indexes, draws, c)
      /\ p.proof = [points |-> pt, responses |-> rs]
  BY <1>1 DEF MadeWith
<1>3. /\ cred.claims \in ClaimSets /\ cred.meta \in [1 .. 3 -> Scalars] /\ sk \in Scalars
  BY <1>1, <1>2 DEF Proper
<1>4. /\ L \in Nat /\ L <= Len(H) /\ msgs \in [1 .. L -> Scalars]
  BY <1>1, <1>3, Vector DEF Messages, Size
<1>5. Len(msgs) = L
  BY <1>4
<1>6. Places(p.indexes, 4, L) /\ L - 4 \in Nat
  <2>1. Places(p.indexes, 4, L) /\ Place(cred.claims, p.required) \in 4 .. L
    BY <1>1, <1>2, <1>3, Indexes DEF Size
  <2> QED BY <1>4, <2>1
<1>7. /\ B \in NonZero /\ A \in NonZero /\ e \in Scalars /\ Congruent(A * (sk + e), B, r)
      /\ B = BValue(CalculateDomain(sk, L), msgs)
  BY <1>1, <1>2, <1>5, ProperSignature DEF Messages
<1>8. draws.r1 \in NonZero /\ draws.r2 \in NonZero
  BY <1>2 DEF DrawnFor
<1>9. /\ pt.abar = (A * draws.r1 * draws.r2) % r
      /\ pt.d = (B * draws.r2) % r
      /\ pt.bbar = (pt.d * draws.r1 - pt.abar * e) % r
  BY <1>1, <1>2, <1>5, <1>7 DEF InitPoints, Abar
<1>10. /\ pt.abar \in NonZero /\ pt.d \in NonZero /\ pt.bbar \in Scalars
       /\ (pt.abar * sk) % r = pt.bbar
  <2>1. PICK abar, d, bbar, r1, r2 :
          /\ abar = pt.abar /\ d = pt.d /\ bbar = pt.bbar /\ r1 = draws.r1 /\ r2 = draws.r2
    OBVIOUS
  <2>2. /\ r1 \in NonZero /\ r2 \in NonZero
        /\ abar = (A * r1 * r2) % r /\ d = (B * r2) % r /\ bbar = (d * r1 - abar * e) % r
    BY <1>8, <1>9, <2>1
  <2>3. abar \in NonZero /\ d \in NonZero /\ bbar \in Scalars /\ (abar * sk) % r = bbar
    BY <1>3, <1>7, <2>2, PointsMade DEF Computed
  <2> QED BY <2>1, <2>3
<1>11. /\ Len(rs.m_hat) = L - 4 /\ DOMAIN rs.m_hat = 1 .. L - 4 /\ rs.c = c
  <2>1. Shared(L, p.indexes, 4, Undisclosed(p.indexes, L), L - 4)
    BY <1>4, <1>6, Others
  <2>2. DOMAIN Undisclosed(p.indexes, L) = 1 .. L - 4
    BY <2>1 DEF Shared, Places
  <2>3. PICK f : f = rs.m_hat
    OBVIOUS
  <2>4. f = [j \in 1 .. L - 4 |-> (draws.m_tilde[j]
                       + msgs[Undisclosed(p.indexes, L)[j]] * c) % r] /\ rs.c = c
    BY <1>2, <1>5, <2>2, <2>3 DEF Responses
  <2>5. f = [j \in 1 .. L - 4 |-> f[j]]
    BY <2>4
  <2> QED BY <1>6, <2>3, <2>4, <2>5
<1>12. ProverTranscript(sk, pt, msgs, p.indexes, draws, p.ph)
         = VerifierTranscript(sk, [points |-> pt, responses |-> rs],
                              Revealed(msgs, p.indexes), p.ph)
  <2>1. pt.abar \in Int
    BY <1>10, ScalarInt, Zenon
  <2>2. pt.d = (BValue(CalculateDomain(sk, L), msgs) * draws.r2) % r
    BY <1>7, <1>9
  <2>3. pt.bbar = (pt.d * draws.r1 - pt.abar * cred.signature.e) % r
    BY <1>1, <1>9
  <2>4. cred.signature.e \in Scalars /\ 4 \in Nat
    BY <1>1, <1>7
  <2>5. ProverTranscript(sk, pt, msgs, p.indexes, draws, p.ph)
         = VerifierTranscript(sk,
             [points |-> pt,
              responses |-> Responses(cred.signature, msgs, p.indexes, draws, c)],
             Revealed(msgs, p.indexes), p.ph)
    BY <1>2, <1>3, <1>4, <1>6, <2>1, <2>2, <2>3, <2>4, Complete, SMTT(60)
  <2> QED BY <1>2, <2>5
<1>13. Question(p, draws) = ProverTranscript(sk, pt, msgs, p.indexes, draws, p.ph)
  BY <1>1 DEF Question
<1>14. p.proof.points.bbar = (p.proof.points.d * draws.r1
                                     - p.proof.points.abar * p.credential.signature.e) % r
       /\ p.proof.points.d = (BOf(p.credential) * draws.r2) % r
  BY <1>1, <1>9
<1>15. /\ Len(p.proof.responses.m_hat) = Size(p) - 4
       /\ DOMAIN p.proof.responses.m_hat = 1 .. Size(p) - 4
       /\ p.proof.responses.c = c
  BY <1>1, <1>11
<1>16. /\ p.proof.points.abar \in NonZero /\ p.proof.points.d \in NonZero
       /\ p.proof.points.bbar \in Scalars
       /\ (p.proof.points.abar * p.credential.sk) % r = p.proof.points.bbar
  BY <1>1, <1>10
<1>17. Question(p, draws)
              = VerifierTranscript(p.credential.sk, p.proof,
                                   Revealed(Messages(p), p.indexes), p.ph)
  BY <1>1, <1>2, <1>12, <1>13
<1> QED BY <1>1, <1>4, <1>6, <1>14, <1>15, <1>16, <1>17

\* What a site takes as disclosed.
Claimed(indexes, meta, required) ==
  [k \in 1 .. 4 |-> <<indexes[k], Append(meta, ClaimScalar(required))[k]>>]

LEMMA Extended ==
  ASSUME NEW S, NEW s \in Seq(S), NEW e \in S
  PROVE  (\A i \in 1 .. Len(s) : Append(s, e)[i] = s[i]) /\ Append(s, e)[Len(s) + 1] = e
OBVIOUS

LEMMA ClaimedParts ==
  ASSUME NEW meta \in [1 .. 3 -> Scalars], NEW required, ClaimScalar(required) \in Scalars,
         NEW indexes
  PROVE  /\ DOMAIN Claimed(indexes, meta, required) = 1 .. 4
         /\ Len(Claimed(indexes, meta, required)) = 4
         /\ \A k \in 1 .. 3 : Claimed(indexes, meta, required)[k] = <<indexes[k], meta[k]>>
         /\ Claimed(indexes, meta, required)[4] = <<indexes[4], ClaimScalar(required)>>
<1>1. PICK s, f : s = Append(meta, ClaimScalar(required)) /\ f = Claimed(indexes, meta, required)
  OBVIOUS
<1>2. meta \in Seq(Scalars) /\ Len(meta) = 3
  <2>1. PICK n \in Nat : n = 3
    OBVIOUS
  <2>2. meta \in [1 .. n -> Scalars]
    BY <2>1
  <2>3. meta \in Seq(Scalars) /\ Len(meta) = n
    BY <2>2, Listed
  <2> QED BY <2>1, <2>3
<1>3. s[4] = ClaimScalar(required) /\ \A k \in 1 .. 3 : s[k] = meta[k]
  <2>1. PICK e \in Scalars : e = ClaimScalar(required)
    OBVIOUS
  <2>2. PICK m \in Seq(Scalars) : m = meta
    BY <1>2
  <2>3. (\A i \in 1 .. Len(m) : Append(m, e)[i] = m[i]) /\ Append(m, e)[Len(m) + 1] = e
    BY Extended
  <2>4. Append(m, e) = s /\ Len(m) = 3
    BY <1>1, <1>2, <2>1, <2>2
  <2>5. PICK n : n = Len(m)
    OBVIOUS
  <2>6. n = 3 /\ n + 1 = 4
    BY <2>4, <2>5
  <2>7. (\A i \in 1 .. n : s[i] = m[i]) /\ s[n + 1] = e
    BY <2>3, <2>4, <2>5
  <2> QED BY <2>1, <2>2, <2>6, <2>7
<1>4. f = [k \in 1 .. 4 |-> <<indexes[k], s[k]>>]
  BY <1>1 DEF Claimed
<1>5. Len(f) = 4 /\ DOMAIN f = 1 .. 4
  BY <1>4
<1> QED BY <1>1, <1>3, <1>4, <1>5

\* What a proof discloses are the metadata and the claim it is shown for.
LEMMA IndexesOf ==
  ASSUME NEW p, NEW draws, NEW c, MadeWith(p, draws, c)
  PROVE  /\ p.indexes = <<1, 2, 3, p.indexes[4]>> /\ p.indexes[4] \in 4 .. Size(p)
         /\ Messages(p)[p.indexes[4]] = ClaimScalar(p.required)
         /\ \A k \in 1 .. 3 : Messages(p)[k] = p.meta[k]
         /\ p.meta \in [1 .. 3 -> Scalars] /\ ClaimScalar(p.required) \in Scalars
<1>1. PICK some, meta, n, k, msgs : /\ some = p.credential.claims /\ meta = p.credential.meta
                                   /\ n = Cardinality(some) /\ k = Place(some, p.required)
                                   /\ msgs = Messages(p)
  OBVIOUS
<1>2. /\ some \in ClaimSets /\ p.required \in some /\ meta \in [1 .. 3 -> Scalars]
      /\ p.meta = meta /\ p.indexes = DisclosedIndexes(some, p.required)
  BY <1>1 DEF MadeWith, Proper
<1>3. k \in 4 .. 3 + n /\ p.indexes = <<1, 2, 3, k>> /\ Ascending(some)[k - 3] = p.required
  BY <1>1, <1>2, Indexes
<1>4. /\ n \in Nat /\ \A i \in 1 .. 3 : msgs[i] = meta[i]
      /\ \A i \in 1 .. n : msgs[3 + i] = ClaimScalar(Ascending(some)[i])
  BY <1>1, <1>2, Vector DEF Messages
<1>5. k - 3 \in 1 .. n /\ 3 + (k - 3) = k
  BY <1>3, <1>4
<1>6. msgs[k] = ClaimScalar(p.required)
  BY <1>3, <1>4, <1>5
<1>7. ClaimScalar(p.required) \in Scalars
  BY <1>2, IssuanceAssumption DEF Claims
<1>8. p.indexes[4] = k
  BY <1>3
<1> QED BY <1>1, <1>2, <1>3, <1>4, <1>6, <1>7, <1>8 DEF Size

LEMMA RevealedIsClaimed ==
  ASSUME NEW p, NEW draws, NEW c, MadeWith(p, draws, c)
  PROVE  Revealed(Messages(p), p.indexes) = Claimed(p.indexes, p.meta, p.required)
<1>1. PICK k, msgs, x, f : /\ k = p.indexes[4] /\ msgs = Messages(p) /\ x = ClaimScalar(p.required)
                           /\ f = Claimed(p.indexes, p.meta, p.required)
  OBVIOUS
<1>2. /\ p.indexes = <<1, 2, 3, k>> /\ msgs[k] = x /\ p.meta \in [1 .. 3 -> Scalars]
      /\ \A i \in 1 .. 3 : msgs[i] = p.meta[i]
      /\ x \in Scalars
  BY <1>1, IndexesOf
<1>3. /\ DOMAIN f = 1 .. 4 /\ \A i \in 1 .. 3 : f[i] = <<p.indexes[i], p.meta[i]>>
      /\ f[4] = <<p.indexes[4], x>>
  BY <1>1, <1>2, ClaimedParts
<1>4. f = [i \in 1 .. 4 |-> f[i]]
  BY <1>1 DEF Claimed
<1>5. Revealed(msgs, p.indexes) = [i \in 1 .. 4 |-> <<p.indexes[i], msgs[p.indexes[i]]>>]
  BY <1>2 DEF Revealed
<1>6. ASSUME NEW i \in 1 .. 4 PROVE f[i] = <<p.indexes[i], msgs[p.indexes[i]]>>
  <2>1. CASE i = 4
    BY <1>2, <1>3, <2>1
  <2>2. CASE i \in 1 .. 3
    <3>1. p.indexes[i] = i
      BY <1>2, <2>2
    <3> QED BY <1>2, <1>3, <2>2, <3>1
  <2> QED BY <2>1, <2>2
<1> QED BY <1>1, <1>4, <1>5, <1>6

\* A signature that bbs_sign returned verifies.
LEMMA CredentialVerifies ==
  ASSUME NEW cred, Proper(cred), cred.signature.e # 0
  PROVE  Verify(cred.sk, cred.signature, MessageVector(cred.meta, cred.claims))
<1>1. PICK sk, A, e, B : sk = cred.sk /\ A = cred.signature.A /\ e = cred.signature.e
                         /\ B = BOf(cred)
  OBVIOUS
<1>2. /\ A \in NonZero /\ e \in Scalars /\ B \in NonZero /\ Congruent(A * (sk + e), B, r)
      /\ B = BValue(CalculateDomain(cred.sk, Len(MessageVector(cred.meta, cred.claims))),
                    MessageVector(cred.meta, cred.claims))
  BY <1>1, ProperSignature
<1>3. sk \in Scalars
  BY <1>1 DEF Proper
<1>4. sk \in Int /\ A \in Int /\ e \in Int /\ A * (sk + e) \in Int
  <2>1. sk \in Int /\ A \in Int /\ e \in Int
    BY <1>2, <1>3, ScalarInt, Zenon
  <2> QED BY <2>1
<1>5. PICK x : x = A * (sk + e)
  OBVIOUS
<1>6. B \in Scalars /\ x \in Int /\ Congruent(x, B, r)
  BY <1>2, <1>4, <1>5, ScalarInt
<1>7. x % r = B
  BY <1>6, SameScalar
<1>8. A # 0
  BY <1>2 DEF NonZero
<1> QED BY <1>1, <1>2, <1>5, <1>7, <1>8 DEF Verify

\* The verifier asks what the prover asked, and its pairing compares equal points.
LEMMA HonestAccepted == CredentialInv /\ ShownInv => HonestProofAccepted
<1> SUFFICES ASSUME CredentialInv, ShownInv PROVE HonestProofAccepted
  OBVIOUS
<1>1. credential # NoCredential /\ credential.signature.e # 0 =>
       Verify(credential.sk, credential.signature,
              MessageVector(credential.meta, credential.claims))
  BY CredentialVerifies DEF CredentialInv
<1>2. ASSUME NEW p \in shown, NEW entry \in published,
             entry.key.sk = p.credential.sk, entry.meta = p.meta, WellFormed(p.proof)
      PROVE  SiteAccepts(entry, p)
  <2>1. PICK draws, c : MadeWith(p, draws, c) /\ <<Question(p, draws), c>> \in asked
    BY DEF ShownInv
  <2>2. PICK dis, w, x : /\ dis = Claimed(p.indexes, p.meta, p.required) /\ w = p.credential.sk
                         /\ x = ClaimScalar(p.required)
    OBVIOUS
  <2>3. <<VerifierTranscript(w, p.proof, dis, p.ph), p.proof.responses.c>> \in asked
    <3>1. /\ Question(p, draws) = VerifierTranscript(w, p.proof,
                Revealed(Messages(p), p.indexes), p.ph)
          /\ p.proof.responses.c = c
      BY <2>1, <2>2, ProofMade
    <3>2. Revealed(Messages(p), p.indexes) = dis
      BY <2>1, <2>2, RevealedIsClaimed
    <3> QED BY <2>1, <3>1, <3>2
  <2>4. /\ Len(p.proof.responses.m_hat) = Size(p) - 4 /\ Size(p) \in Nat
        /\ (p.proof.points.abar * w) % r = p.proof.points.bbar
    BY <2>1, <2>2, ProofMade
  <2>5. /\ p.indexes = <<1, 2, 3, p.indexes[4]>> /\ p.indexes[4] \in 4 .. Size(p)
        /\ p.meta \in [1 .. 3 -> Scalars] /\ x \in Scalars
    BY <2>1, <2>2, IndexesOf
  <2>6. /\ DOMAIN dis = 1 .. 4 /\ Len(dis) = 4 /\ dis[4] = <<p.indexes[4], x>>
        /\ \A k \in 1 .. 3 : dis[k] = <<p.indexes[k], p.meta[k]>>
    BY <2>2, <2>5, ClaimedParts
  <2>7. ASSUME NEW k \in DOMAIN dis
        PROVE  dis[k][1] \in 1 .. Len(dis) + Len(p.proof.responses.m_hat)
    <3>1. Len(dis) + Len(p.proof.responses.m_hat) = Size(p)
      BY <2>4, <2>6
    <3>2. CASE k = 4
      BY <2>5, <2>6, <3>1, <3>2
    <3>3. CASE k \in 1 .. 3
      <4>1. dis[k][1] = k
        BY <2>5, <2>6, <3>3
      <4> QED BY <2>5, <3>1, <3>3, <4>1
    <3> QED BY <2>6, <3>2, <3>3
  <2>8. ProofVerifies(w, p.proof, dis, p.ph, asked)
    BY <1>2, <2>3, <2>4, <2>7 DEF ProofVerifies
  <2>9. Len(p.indexes) = 4 /\ SubSeq(p.indexes, 1, 3) = <<1, 2, 3>>
    <3>1. PICK k : k = p.indexes[4]
      OBVIOUS
    <3>2. p.indexes = <<1, 2, 3, k>>
      BY <2>5, <3>1
    <3>3. Len(<<1, 2, 3, k>>) = 4
      OBVIOUS
    <3>4. SubSeq(<<1, 2, 3, k>>, 1, 3) = <<1, 2, 3>>
      <4>1. SubSeq(<<1, 2, 3, k>>, 1, 3) = [i \in 1 .. 3 - 1 + 1 |-> <<1, 2, 3, k>>[i + 1 - 1]]
        OBVIOUS
      <4>2. 3 - 1 + 1 = 3 /\ \A i \in 1 .. 3 : i + 1 - 1 = i /\ <<1, 2, 3, k>>[i] = i
        OBVIOUS
      <4>3. [i \in 1 .. 3 |-> i] = <<1, 2, 3>>
        OBVIOUS
      <4> QED BY <4>1, <4>2, <4>3
    <3> QED BY <3>2, <3>3, <3>4
  <2>10. dis = [k \in 1 .. 4 |-> <<p.indexes[k], Append(entry.meta, ClaimScalar(p.required))[k]>>]
    BY <1>2, <2>2 DEF Claimed
  <2> QED BY <1>2, <2>2, <2>8, <2>9, <2>10 DEF SiteAccepts
<1> QED BY <1>1, <1>2 DEF HonestProofAccepted

\* The inductive invariant of credentials and proofs.
LEMMA InitAll == Init => TypeOK /\ KeysInv /\ MintInv /\ NoncesInv /\ CredentialInv /\ ShownInv
  BY InitMint, InitNonces, InitCredential, InitType, InitShown

LEMMA NextAll ==
  TypeOK /\ KeysInv /\ MintInv /\ NoncesInv /\ CredentialInv /\ ShownInv /\ [Next]_vars
    => (TypeOK /\ KeysInv /\ MintInv /\ NoncesInv /\ CredentialInv /\ ShownInv)'
<1>1. SUFFICES ASSUME TypeOK, KeysInv, MintInv, NoncesInv, CredentialInv, ShownInv, [Next]_vars
               PROVE  (TypeOK /\ KeysInv /\ MintInv /\ NoncesInv /\ CredentialInv /\ ShownInv)'
  OBVIOUS
<1>2. KeysInv' /\ MintInv'
  BY <1>1, NextKeys, NextMint
<1>3. CredentialInv'
  BY <1>1, NextCredential
<1>4. NoncesInv'
  BY <1>1, NextNonces
<1>5. ShownInv'
  BY <1>1, NextShown
<1>6. TypeOK'
  BY <1>1, <1>2, <1>3, NextType
<1> QED BY <1>2, <1>3, <1>4, <1>5, <1>6

\* A site whose registry has the key accepts every honest proof without a zero
\* scalar, and every signature the issuer made verifies, in any group of prime
\* order and for any generators, claims, draws and answers of the oracle.
THEOREM HonestProofsAccepted == Spec => []HonestProofAccepted
<1> QED BY InitAll, NextAll, HonestAccepted, PTL DEF Spec

\* A factor with an inverse cancels.
LEMMA Cancelled ==
  ASSUME NEW n \in Nat, NEW a \in Int, NEW i \in Int, NEW x \in Int, NEW y \in Int,
         Congruent(a * i, 1, n), Congruent(a * x, a * y, n)
  PROVE  Congruent(x, y, n)
<1>1. PICK l \in Int : a * i = 1 + l * n
  BY DEF Congruent
<1>2. PICK j \in Int : a * x = a * y + j * n
  BY DEF Congruent
<1>3. (a * i) * x = x + (l * x) * n
  <2>1. (1 + l * n) * x = x + (l * x) * n
    OBVIOUS
  <2> QED BY <1>1, <2>1
<1>4. (a * i) * y = y + (l * y) * n
  <2>1. (1 + l * n) * y = y + (l * y) * n
    OBVIOUS
  <2> QED BY <1>1, <2>1
<1>5. (a * i) * x = (a * i) * y + (j * i) * n
  <2>1. (a * i) * x = (a * x) * i
    OBVIOUS
  <2>2. (a * x) * i = (a * y + j * n) * i
    BY <1>2
  <2>3. (a * y + j * n) * i = (a * i) * y + (j * i) * n
    OBVIOUS
  <2> QED BY <2>1, <2>2, <2>3
<1>6. PICK k : k = l * y + j * i - l * x
  OBVIOUS
<1>7. k \in Int
  BY <1>6
<1>8. k * n = (l * y) * n + (j * i) * n - (l * x) * n
  <2>1. (l * y + j * i - l * x) * n = (l * y) * n + (j * i) * n - (l * x) * n
    OBVIOUS
  <2> QED BY <1>6, <2>1
<1>9. x = y + k * n
  <2>1. PICK u, v, b1, b2, b3, b4 :
          /\ u = (a * i) * x /\ v = (a * i) * y /\ b1 = (l * x) * n /\ b2 = (l * y) * n
          /\ b3 = (j * i) * n /\ b4 = k * n
    OBVIOUS
  <2>2. u \in Int /\ v \in Int /\ b1 \in Int /\ b2 \in Int /\ b3 \in Int /\ b4 \in Int
    BY <1>7, <2>1
  <2>3. u = x + b1 /\ v = y + b2 /\ u = v + b3 /\ b4 = b2 + b3 - b1
    BY <1>3, <1>4, <1>5, <1>8, <2>1
  <2>4. x = y + b4
    BY <2>2, <2>3
  <2> QED BY <2>1, <2>4
<1> QED BY <1>7, <1>9 DEF Congruent

\* Two keys that pair alike with a point other than zero are the same.
LEMMA SameKey ==
  ASSUME NEW a \in NonZero, NEW x \in Scalars, NEW y \in Scalars, (a * x) % r = (a * y) % r
  PROVE  x = y
<1>1. PICK i : i = InverseOf(a)
  OBVIOUS
<1>2. i \in NonZero /\ Congruent(a * i, 1, r)
  BY <1>1, InverseType
<1>3. i \in Int /\ a \in Int /\ x \in Int /\ y \in Int
  BY <1>2, ScalarInt, Zenon
<1>4. a * x \in Int /\ a * y \in Int
  BY <1>3
<1>5. Congruent(a * x, a * y, r)
  BY <1>4, Order, Rest, Zenon
<1>6. Congruent(x, y, r) /\ Congruent(x, x, r)
  BY <1>2, <1>3, <1>5, Order, Cancelled, Same, Zenon
<1>7. x % r = y /\ x % r = x
  BY <1>3, <1>6, SameScalar, Zenon
<1> QED BY <1>7

\* A question says which proof it was asked for.
LEMMA Asked ==
  ASSUME NEW p, NEW draws, NEW c, MadeWith(p, draws, c)
  PROVE  /\ Question(p, draws).points = p.proof.points
         /\ Question(p, draws).disclosed = Claimed(p.indexes, p.meta, p.required)
         /\ Question(p, draws).ph = p.ph
<1>1. /\ Question(p, draws).points = p.proof.points
      /\ Question(p, draws).disclosed = Revealed(Messages(p), p.indexes)
      /\ Question(p, draws).ph = p.ph
  BY DEF Question, ProverTranscript, Transcript, Revealed
<1> QED BY <1>1, RevealedIsClaimed

\* No two proofs have the same points: they are drawn from as many as there are
\* scalars.
PointsAreFresh == \A p, q \in shown : p.proof.points = q.proof.points => p = q
\* No two claims hash to the same scalar.
ClaimsDiffer == \A a, b \in Claims : ClaimScalar(a) = ClaimScalar(b) => a = b

\* The question of an accepted proof was asked, for a proof with its points.
LEMMA Bound == ClaimsDiffer /\ PointsAreFresh /\ ShownInv => ProofBound
<1> SUFFICES ASSUME ClaimsDiffer, PointsAreFresh, ShownInv,
                    NEW p \in shown, NEW entry \in published, entry.purpose = "vc_signing",
                    NEW required \in Claims, NEW challenge \in Challenges, NEW k,
                    SiteAccepts(entry, [p EXCEPT !.required = required, !.ph = challenge.ph,
                                   !.meta = entry.meta,
                                   !.indexes = <<1, 2, 3, k>>])
             PROVE  /\ required = p.required /\ challenge.ph = p.ph
                    /\ k = p.indexes[4] /\ entry.key.sk = p.credential.sk
  BY DEF ProofBound
<1>1. PICK ds, d : MadeWith(p, ds, d)
  BY DEF ShownInv
<1>2. PICK x, w, dis, ph, pt :
        /\ x = [p EXCEPT !.required = required, !.ph = challenge.ph,
                         !.meta = entry.meta, !.indexes = <<1, 2, 3, k>>]
        /\ w = entry.key.sk /\ dis = Claimed(<<1, 2, 3, k>>, entry.meta, required)
        /\ ph = challenge.ph /\ pt = p.proof.points
  OBVIOUS
<1>3. /\ x.required = required /\ x.ph = ph /\ x.meta = entry.meta
      /\ x.indexes = <<1, 2, 3, k>> /\ x.proof = p.proof
  <2>1. p = [credential |-> p.credential, required |-> p.required, meta |-> p.meta,
             indexes |-> p.indexes, ph |-> p.ph, proof |-> p.proof]
    BY <1>1 DEF MadeWith
  <2> QED BY <1>2, <2>1
<1>4. ProofVerifies(w, p.proof, dis, ph, asked)
  <2>1. SiteAccepts(entry, x)
    BY <1>2
  <2>2. ProofVerifies(entry.key.sk, x.proof,
          [j \in 1 .. 4 |-> <<x.indexes[j], Append(entry.meta, ClaimScalar(x.required))[j]>>],
          x.ph, asked)
    BY <2>1 DEF SiteAccepts
  <2>3. ProofVerifies(entry.key.sk, x.proof, Claimed(x.indexes, entry.meta, x.required),
                      x.ph, asked)
    BY <2>2 DEF Claimed
  <2>4. Claimed(x.indexes, entry.meta, x.required) = dis
    BY <1>2, <1>3
  <2> QED BY <1>2, <1>3, <2>3, <2>4
<1>5. /\ <<VerifierTranscript(w, p.proof, dis, ph), p.proof.responses.c>> \in asked
      /\ (pt.abar * w) % r = pt.bbar
  BY <1>2, <1>4 DEF ProofVerifies
<1>6. PICK t : t = VerifierTranscript(w, p.proof, dis, ph)
  OBVIOUS
<1>7. t.points = pt /\ t.disclosed = dis /\ t.ph = ph
  BY <1>2, <1>6 DEF VerifierTranscript, Transcript
<1>8. PICK q, draws, c : q \in shown /\ MadeWith(q, draws, c) /\ t = Question(q, draws)
  <2>1. \A pair \in asked : \E q \in shown : \E draws, c :
          MadeWith(q, draws, c) /\ pair = <<Question(q, draws), c>>
    BY DEF ShownInv
  <2>2. PICK q, draws, c : /\ q \in shown /\ MadeWith(q, draws, c)
                            /\ <<t, p.proof.responses.c>> = <<Question(q, draws), c>>
    BY <1>5, <1>6, <2>1
  <2> QED BY <2>2
<1>9. /\ q.proof.points = pt /\ dis = Claimed(q.indexes, q.meta, q.required) /\ q.ph = ph
  BY <1>7, <1>8, Asked
<1>10. q = p
  BY <1>2, <1>8, <1>9 DEF PointsAreFresh
<1>11. /\ entry.meta \in [1 .. 3 -> Scalars] /\ w \in Scalars /\ ClaimScalar(required) \in Scalars
  <2>1. ProperEntry(entry)
    BY DEF ShownInv
  <2> QED BY <1>2, <2>1, IssuanceAssumption DEF ProperEntry
<1>12. dis[4] = <<k, ClaimScalar(required)>>
  <2>1. dis[4] = <<<<1, 2, 3, k>>[4], ClaimScalar(required)>>
    BY <1>2, <1>11, ClaimedParts
  <2> QED BY <2>1
<1>13. dis[4] = <<p.indexes[4], ClaimScalar(p.required)>>
  <2>1. p.meta \in [1 .. 3 -> Scalars] /\ ClaimScalar(p.required) \in Scalars
    BY <1>1, IndexesOf
  <2>2. dis = Claimed(p.indexes, p.meta, p.required)
    BY <1>9, <1>10
  <2> QED BY <2>1, <2>2, ClaimedParts
<1>14. k = p.indexes[4] /\ ClaimScalar(required) = ClaimScalar(p.required)
  BY <1>12, <1>13
<1>15. p.required \in Claims
  BY <1>1 DEF MadeWith, Proper, Claims
<1>16. required = p.required
  BY <1>14, <1>15 DEF ClaimsDiffer
<1>17. w = p.credential.sk
  <2>1. pt.abar \in NonZero /\ (pt.abar * p.credential.sk) % r = pt.bbar
    BY <1>1, <1>2, ProofMade
  <2>2. p.credential.sk \in Scalars
    BY <1>1 DEF MadeWith, Proper
  <2> QED BY <1>5, <1>11, <2>1, <2>2, SameKey
<1> QED BY <1>2, <1>9, <1>10, <1>14, <1>16, <1>17

\* A proof is accepted for nothing but what it was made for, as long as no two
\* proofs drew the same points and no two claims hash to the same scalar.
THEOREM ProofsAreBound ==
  ASSUME ClaimsDiffer PROVE Spec /\ []PointsAreFresh => []ProofBound
<1>1. PointsAreFresh /\ ShownInv => ProofBound
  BY Bound
<1> QED BY <1>1, InitAll, NextAll, PTL DEF Spec

\* Draws that are quotients give back what they were divided from.
LEMMA Divided ==
  ASSUME NEW n \in Nat, NEW x \in Int, NEW y \in Int, NEW i \in Int, NEW q \in Int,
         Congruent(y * i, 1, n), Congruent(q, x * i, n)
  PROVE  Congruent(y * q, x, n)
<1>1. PICK l \in Int : y * i = 1 + l * n
  BY DEF Congruent
<1>2. PICK j \in Int : q = x * i + j * n
  BY DEF Congruent
<1>3. y * q = x * (y * i) + (y * j) * n
  <2>1. y * q = y * (x * i + j * n)
    BY <1>2
  <2>2. y * (x * i + j * n) = x * (y * i) + (y * j) * n
    OBVIOUS
  <2> QED BY <2>1, <2>2
<1>4. x * (y * i) = x + (x * l) * n
  <2>1. x * (1 + l * n) = x + (x * l) * n
    OBVIOUS
  <2> QED BY <1>1, <2>1
<1>5. PICK k : k = x * l + y * j
  OBVIOUS
<1>6. k \in Int
  BY <1>5
<1>7. k * n = (x * l) * n + (y * j) * n
  <2>1. (x * l + y * j) * n = (x * l) * n + (y * j) * n
    OBVIOUS
  <2> QED BY <1>5, <2>1
<1>8. y * q = x + k * n
  BY <1>3, <1>4, <1>6, <1>7
<1> QED BY <1>6, <1>8 DEF Congruent

LEMMA Regrouped ==
  ASSUME NEW n \in Nat, NEW A \in Int, NEW s \in Int, NEW b \in Int, NEW d \in Int,
         NEW r1 \in Int, NEW r2 \in Int, NEW abar \in Int,
         Congruent(A * s, b, n), Congruent(d * r1, abar * s, n), Congruent(b * r2, d, n)
  PROVE  Congruent(b * (A * r1 * r2), b * abar, n)
<1>1. PICK i \in Int : A * s = b + i * n
  BY DEF Congruent
<1>2. PICK j \in Int : d * r1 = abar * s + j * n
  BY DEF Congruent
<1>3. PICK k \in Int : b * r2 = d + k * n
  BY DEF Congruent
<1>4. b * (A * r1 * r2) = A * (d * r1) + (k * A * r1) * n
  <2>1. b * (A * r1 * r2) = (b * r2) * (A * r1)
    OBVIOUS
  <2>2. (d + k * n) * (A * r1) = A * (d * r1) + (k * A * r1) * n
    OBVIOUS
  <2> QED BY <1>3, <2>1, <2>2
<1>5. A * (d * r1) = abar * (A * s) + (A * j) * n
  <2>1. A * (abar * s + j * n) = abar * (A * s) + (A * j) * n
    OBVIOUS
  <2> QED BY <1>2, <2>1
<1>6. abar * (A * s) = b * abar + (abar * i) * n
  <2>1. abar * (b + i * n) = b * abar + (abar * i) * n
    OBVIOUS
  <2> QED BY <1>1, <2>1
<1>7. PICK q1, q2, q3, q : q1 = k * A * r1 /\ q2 = A * j /\ q3 = abar * i /\ q = q1 + q2 + q3
  OBVIOUS
<1>8. q1 \in Int /\ q2 \in Int /\ q3 \in Int /\ q \in Int
  BY <1>7
<1>9. q * n = q1 * n + q2 * n + q3 * n
  <2>1. (q1 + q2 + q3) * n = q1 * n + q2 * n + q3 * n
    BY <1>8
  <2> QED BY <1>7, <2>1
<1>10. PICK x, y : x = b * (A * r1 * r2) /\ y = b * abar
  OBVIOUS
<1>11. x \in Int /\ y \in Int /\ x = y + q3 * n + q2 * n + q1 * n
  BY <1>4, <1>5, <1>6, <1>7, <1>10
<1>12. x = y + q * n
  BY <1>8, <1>9, <1>11
<1> QED BY <1>8, <1>10, <1>12 DEF Congruent

\* What the other holder draws makes the same points.
Drawn(r1, r2, abar, d, b, s) ==
  r1 = (abar * s * InverseOf(d)) % r /\ r2 = (d * InverseOf(b)) % r

LEMMA SamePoints ==
  ASSUME NEW abar \in NonZero, NEW d \in NonZero, NEW b \in NonZero, NEW sk \in Scalars,
         NEW e \in Scalars, NEW A \in NonZero, Congruent(A * (sk + e), b, r),
         (sk + e) % r # 0, NEW r1, NEW r2, Drawn(r1, r2, abar, d, b, sk + e)
  PROVE  /\ r1 \in NonZero /\ r2 \in NonZero
         /\ (b * r2) % r = d /\ (A * r1 * r2) % r = abar
         /\ (d * r1 - abar * e) % r = (abar * sk) % r
<1>1. PICK i, k, s : i = InverseOf(d) /\ k = InverseOf(b) /\ s = sk + e
  OBVIOUS
<1>2. /\ i \in NonZero /\ k \in NonZero
      /\ Congruent(d * i, 1, r) /\ Congruent(b * k, 1, r)
  BY <1>1, InverseType
<1>3. /\ abar \in Int /\ d \in Int /\ b \in Int /\ sk \in Int /\ e \in Int /\ A \in Int
      /\ i \in Int /\ k \in Int
  BY <1>2, ScalarInt, Zenon
<1>4. s \in Int /\ abar * s \in Int /\ abar * s * i \in Int /\ d * k \in Int
  BY <1>1, <1>3
<1>5. /\ r1 = (abar * s * i) % r /\ r2 = (d * k) % r
  BY <1>1 DEF Drawn
<1>6. r2 \in NonZero
  BY <1>2, <1>5, NonZeroProduct
<1>7. r1 \in NonZero
  <2>1. PICK x, y : x = s % r /\ y = (abar * x) % r
    OBVIOUS
  <2>2. x \in NonZero /\ x \in Int /\ Congruent(x, s, r)
    <3>1. s % r # 0
      BY <1>1
    <3> QED BY <1>4, <2>1, <3>1, ScalarOf, ScalarInt
  <2>3. y \in NonZero /\ (y * i) % r \in NonZero
    BY <1>2, <2>1, <2>2, NonZeroProduct
  <2>4. Congruent(abar, abar, r) /\ Congruent(i, i, r)
    BY <1>3, Order, Same
  <2>5. Congruent(abar * x, abar * s, r)
    BY <1>3, <1>4, <2>2, <2>4, Order, Times, Zenon
  <2>6. abar * x \in Int
    BY <1>3, <2>2
  <2>7. y \in Int /\ Congruent(y, abar * x, r)
    BY <2>1, <2>6, ScalarOf
  <2>8. Congruent(y, abar * s, r)
    BY <1>4, <2>5, <2>6, <2>7, Order, Chain, Zenon
  <2>9. Congruent(y * i, abar * s * i, r)
    BY <1>3, <1>4, <2>4, <2>7, <2>8, Order, Times, Zenon
  <2>10. y * i \in Int
    BY <1>3, <2>7
  <2>11. (y * i) % r = (abar * s * i) % r
    BY <1>4, <2>9, <2>10, Order, SameRemainder, Zenon
  <2> QED BY <1>5, <2>3, <2>11
<1>8. r1 \in Int /\ r2 \in Int
  BY <1>6, <1>7, ScalarInt, Zenon
<1>9. Congruent(r2, d * k, r) /\ Congruent(r1, abar * s * i, r)
  BY <1>4, <1>5, ScalarOf
<1>10. Congruent(b * r2, d, r)
  BY <1>2, <1>3, <1>8, <1>9, Order, Divided, Zenon
<1>11. Congruent(d * r1, abar * s, r)
  BY <1>2, <1>3, <1>4, <1>8, <1>9, Order, Divided, Zenon
<1>12. Congruent(b * (A * r1 * r2), b * abar, r)
  <2>1. Congruent(A * s, b, r)
    BY <1>1
  <2> QED BY <1>3, <1>4, <1>8, <1>10, <1>11, <2>1, Order, Regrouped, Zenon
<1>13. A * r1 * r2 \in Int /\ b * r2 \in Int /\ d * r1 - abar * e \in Int /\ d * r1 \in Int
       /\ abar * sk \in Int /\ abar * e \in Int
  BY <1>3, <1>8
<1>14. Congruent(A * r1 * r2, abar, r)
  BY <1>2, <1>3, <1>12, <1>13, Order, Cancelled, Zenon
<1>15. d \in Scalars /\ abar \in Scalars
  BY ScalarInt, Zenon
<1>16. (b * r2) % r = d /\ (A * r1 * r2) % r = abar
  BY <1>10, <1>13, <1>14, <1>15, SameScalar, Zenon
<1>17. Congruent(d * r1 - abar * e, abar * s - abar * e, r)
  <2>1. Congruent(abar * e, abar * e, r)
    BY <1>13, Order, Same, Zenon
  <2> QED BY <1>4, <1>11, <1>13, <2>1, Order, Plus, Zenon
<1>18. abar * s - abar * e = abar * sk
  BY <1>1, <1>3
<1>19. (d * r1 - abar * e) % r = (abar * sk) % r
  <2>1. Congruent(d * r1 - abar * e, abar * sk, r)
    BY <1>17, <1>18
  <2> QED BY <1>13, <2>1, Order, SameRemainder, Zenon
<1> QED BY <1>6, <1>7, <1>16, <1>19

LEMMA Undone ==
  ASSUME NEW x \in Scalars, NEW y \in Int
  PROVE  /\ (((x - y) % r) + y) % r = x /\ (((x + y) % r) - y) % r = x
         /\ (x - y) % r \in Scalars /\ (x + y) % r \in Scalars
<1>1. x \in Int /\ x - y \in Int /\ x + y \in Int
  BY ScalarInt
<1>2. PICK u, v : u = (x - y) % r /\ v = (x + y) % r
  OBVIOUS
<1>3. /\ u \in Scalars /\ v \in Scalars /\ u \in Int /\ v \in Int
      /\ Congruent(u, x - y, r) /\ Congruent(v, x + y, r)
  BY <1>1, <1>2, ScalarOf
<1>4. Congruent(u + y, x, r) /\ Congruent(v - y, x, r)
  <2>1. PICK j \in Int : u = x - y + j * r
    BY <1>3 DEF Congruent
  <2>2. PICK k \in Int : v = x + y + k * r
    BY <1>3 DEF Congruent
  <2>3. r \in Int
    BY Order
  <2>4. u + y = x + j * r
    BY <1>1, <2>1, <2>3
  <2>5. v - y = x + k * r
    BY <1>1, <2>2, <2>3
  <2> QED BY <2>4, <2>5 DEF Congruent
<1>5. u + y \in Int /\ v - y \in Int
  BY <1>3
<1>6. (u + y) % r = x /\ (v - y) % r = x
  BY <1>4, <1>5, SameScalar, Zenon
<1> QED BY <1>2, <1>3, <1>6

\* The draws of the other holder, as Explains has them.
OtherDraws(p, msgs, e, b, v) ==
  LET sk == p.credential.sk
      pt == p.proof.points
      rs == p.proof.responses
      r1 == (pt.abar * (sk + e) * InverseOf(pt.d)) % r
      r2 == (pt.d * InverseOf(b)) % r
      hidden == Undisclosed(p.indexes, Size(p))
  IN [r1 |-> r1, r2 |-> r2,
      e_tilde |-> (rs.e_hat - e * rs.c) % r,
      r1_tilde |-> (rs.r1_hat + r1 * rs.c) % r,
      r3_tilde |-> (rs.r3_hat + InverseOf(r2) * rs.c) % r,
      m_tilde |-> [j \in 1 .. v |-> (rs.m_hat[j] - msgs[hidden[j]] * rs.c) % r]]
OtherSignature(p, e, b) ==
  [A |-> (b * InverseOf((p.credential.sk + e) % r)) % r, e |-> e]

\* The responses of a proof are scalars.
LEMMA ResponsesMade ==
  ASSUME NEW p, NEW draws, NEW c, MadeWith(p, draws, c)
  PROVE  LET rs == p.proof.responses IN
         /\ rs.e_hat \in Scalars /\ rs.r1_hat \in Scalars /\ rs.r3_hat \in Scalars
         /\ rs.m_hat \in [1 .. Size(p) - 4 -> Scalars] /\ rs.c \in Scalars
         /\ rs = [e_hat |-> rs.e_hat, r1_hat |-> rs.r1_hat, r3_hat |-> rs.r3_hat,
                  m_hat |-> rs.m_hat, c |-> rs.c]
         /\ p.proof = [points |-> p.proof.points, responses |-> rs]
         /\ p.proof.points = [abar |-> p.proof.points.abar, d |-> p.proof.points.d,
                              bbar |-> p.proof.points.bbar]
         /\ Undisclosed(p.indexes, Size(p)) \in [1 .. Size(p) - 4 -> 1 .. Size(p)]
<1>1. PICK rs, msgs, L, hid, sig, sk :
        /\ rs = p.proof.responses /\ msgs = Messages(p) /\ L = Size(p)
        /\ hid = Undisclosed(p.indexes, L) /\ sig = p.credential.signature
        /\ sk = p.credential.sk
  OBVIOUS
<1>2. /\ rs = Responses(sig, msgs, p.indexes, draws, c)
      /\ p.proof.points = InitPoints(sk, sig, msgs, draws)
      /\ p.proof = [points |-> InitPoints(sk, sig, msgs, draws), responses |-> rs]
      /\ c \in Scalars /\ Proper(p.credential) /\ DrawnFor(draws, L - 4)
  BY <1>1 DEF MadeWith
<1>3. /\ L \in Nat /\ L - 4 \in Nat /\ msgs \in [1 .. L -> Scalars] /\ Places(p.indexes, 4, L)
  BY <1>1, ProofMade
<1>4. Len(msgs) = L
  BY <1>3
<1>5. hid \in [1 .. L - 4 -> 1 .. L]
  <2>1. Shared(L, p.indexes, 4, Undisclosed(p.indexes, L), L - 4)
    BY <1>3, Others
  <2> QED BY <1>1, <2>1 DEF Shared, Places
<1>6. DOMAIN hid = 1 .. L - 4
  BY <1>5
<1>7. rs = [e_hat |-> (draws.e_tilde + sig.e * c) % r,
            r1_hat |-> (draws.r1_tilde - draws.r1 * c) % r,
            r3_hat |-> (draws.r3_tilde - InverseOf(draws.r2) * c) % r,
            m_hat |-> [j \in 1 .. L - 4 |-> (draws.m_tilde[j] + msgs[hid[j]] * c) % r],
            c |-> c]
  BY <1>1, <1>2, <1>4, <1>6 DEF Responses, R1Hat
<1>8. PICK et, rt, r3t, e, r1, i2 :
        /\ et = draws.e_tilde /\ rt = draws.r1_tilde /\ r3t = draws.r3_tilde
        /\ e = sig.e /\ r1 = draws.r1 /\ i2 = InverseOf(draws.r2)
  OBVIOUS
<1>9. /\ et \in Int /\ rt \in Int /\ r3t \in Int /\ e \in Int /\ r1 \in Int /\ i2 \in Int
      /\ c \in Int
  <2>1. /\ et \in Scalars /\ rt \in Scalars /\ r3t \in Scalars /\ r1 \in NonZero
        /\ draws.r2 \in NonZero
    BY <1>2, <1>8 DEF DrawnFor
  <2>2. e \in Scalars
    BY <1>1, <1>2, <1>8, ProperSignature
  <2>3. i2 \in NonZero
    BY <1>8, <2>1, InverseType
  <2> QED BY <1>2, <2>1, <2>2, <2>3, ScalarInt, Zenon
<1>10. /\ (et + e * c) % r \in Scalars /\ (rt - r1 * c) % r \in Scalars
       /\ (r3t - i2 * c) % r \in Scalars
  <2>1. et + e * c \in Int /\ rt - r1 * c \in Int /\ r3t - i2 * c \in Int
    BY <1>9
  <2> QED BY <2>1, ScalarOf
<1>11. ASSUME NEW j \in 1 .. L - 4
       PROVE  (draws.m_tilde[j] + msgs[hid[j]] * c) % r \in Scalars
  <2>1. PICK a, b : a = draws.m_tilde[j] /\ b = msgs[hid[j]]
    OBVIOUS
  <2>2. a \in Scalars /\ b \in Scalars
    BY <1>2, <1>3, <1>5, <2>1 DEF DrawnFor
  <2>3. a \in Int /\ b \in Int
    BY <2>2, ScalarInt, Zenon
  <2>4. a + b * c \in Int
    BY <1>9, <2>3
  <2> QED BY <2>1, <2>4, ScalarOf
<1>12. /\ rs.e_hat \in Scalars /\ rs.r1_hat \in Scalars /\ rs.r3_hat \in Scalars
       /\ rs.c \in Scalars
  BY <1>2, <1>7, <1>8, <1>10
<1>13. rs.m_hat \in [1 .. L - 4 -> Scalars]
  <2>1. rs.m_hat = [j \in 1 .. L - 4 |-> (draws.m_tilde[j] + msgs[hid[j]] * c) % r]
    BY <1>7
  <2> QED BY <1>11, <2>1
<1>14. rs = [e_hat |-> rs.e_hat, r1_hat |-> rs.r1_hat, r3_hat |-> rs.r3_hat,
             m_hat |-> rs.m_hat, c |-> rs.c]
  BY <1>7
<1>15. p.proof.points = [abar |-> p.proof.points.abar, d |-> p.proof.points.d,
                         bbar |-> p.proof.points.bbar]
  <2>1. PICK pt : pt = p.proof.points
    OBVIOUS
  <2>2. \E x, y, z : pt = [abar |-> x, d |-> y, bbar |-> z]
    BY <1>2, <2>1 DEF InitPoints
  <2> QED BY <2>1, <2>2
<1>16. p.proof = [points |-> p.proof.points, responses |-> rs]
  BY <1>2
<1> QED BY <1>1, <1>5, <1>12, <1>13, <1>14, <1>15, <1>16

\* The responses of the other holder are the same.
LEMMA SameResponses ==
  ASSUME NEW p, NEW draws, NEW c, MadeWith(p, draws, c),
         NEW msgs \in [1 .. Size(p) -> Scalars], NEW e \in Scalars, NEW b \in NonZero,
         (p.credential.sk + e) % r # 0,
         OtherDraws(p, msgs, e, b, Size(p) - 4).r1 \in NonZero,
         OtherDraws(p, msgs, e, b, Size(p) - 4).r2 \in NonZero
  PROVE  /\ DrawnFor(OtherDraws(p, msgs, e, b, Size(p) - 4), Size(p) - 4)
         /\ Responses(OtherSignature(p, e, b), msgs, p.indexes,
                      OtherDraws(p, msgs, e, b, Size(p) - 4), p.proof.responses.c)
              = p.proof.responses
<1>1. PICK rs, L, hid, o, k, v :
        /\ rs = p.proof.responses /\ L = Size(p) /\ hid = Undisclosed(p.indexes, L)
        /\ v = L - 4 /\ o = OtherDraws(p, msgs, e, b, v) /\ k = rs.c
  OBVIOUS
<1>2. /\ rs.e_hat \in Scalars /\ rs.r1_hat \in Scalars /\ rs.r3_hat \in Scalars
      /\ rs.m_hat \in [1 .. v -> Scalars] /\ k \in Scalars /\ hid \in [1 .. v -> 1 .. L]
      /\ rs = [e_hat |-> rs.e_hat, r1_hat |-> rs.r1_hat, r3_hat |-> rs.r3_hat,
               m_hat |-> rs.m_hat, c |-> k]
  BY <1>1, ResponsesMade
<1>3. L \in Nat /\ v \in Nat /\ Len(msgs) = L /\ DOMAIN hid = 1 .. v
  BY <1>1, <1>2, ProofMade
<1>4. /\ o.r1 \in NonZero /\ o.r2 \in NonZero
      /\ o.e_tilde = (rs.e_hat - e * k) % r
      /\ o.r1_tilde = (rs.r1_hat + o.r1 * k) % r
      /\ o.r3_tilde = (rs.r3_hat + InverseOf(o.r2) * k) % r
      /\ o.m_tilde = [j \in 1 .. v |-> (rs.m_hat[j] - msgs[hid[j]] * k) % r]
  BY <1>1 DEF OtherDraws
<1>5. PICK i2 : i2 = InverseOf(o.r2)
  OBVIOUS
<1>6. i2 \in NonZero
  BY <1>4, <1>5, InverseType
<1>7. e \in Int /\ k \in Int /\ o.r1 \in Int /\ i2 \in Int
  BY <1>2, <1>4, <1>6, ScalarInt, Zenon
<1>8. e * k \in Int /\ o.r1 * k \in Int /\ i2 * k \in Int
  BY <1>7
<1>9. o.e_tilde \in Scalars /\ (o.e_tilde + e * k) % r = rs.e_hat
  BY <1>2, <1>4, <1>8, Undone
<1>10. o.r1_tilde \in Scalars /\ (o.r1_tilde - o.r1 * k) % r = rs.r1_hat
  BY <1>2, <1>4, <1>8, Undone
<1>11. o.r3_tilde \in Scalars /\ (o.r3_tilde - i2 * k) % r = rs.r3_hat
  BY <1>2, <1>4, <1>5, <1>8, Undone
<1>12. ASSUME NEW j \in 1 .. v
       PROVE  /\ o.m_tilde[j] \in Scalars
              /\ (o.m_tilde[j] + msgs[hid[j]] * k) % r = rs.m_hat[j]
  <2>1. PICK m, x, t : m = rs.m_hat[j] /\ x = msgs[hid[j]] /\ t = o.m_tilde[j]
    OBVIOUS
  <2>2. m \in Scalars /\ x \in Scalars /\ t = (m - x * k) % r
    BY <1>1, <1>2, <1>4, <2>1
  <2>3. x \in Int
    BY <2>2, ScalarInt, Zenon
  <2>4. x * k \in Int
    BY <1>7, <2>3
  <2>5. t \in Scalars /\ (t + x * k) % r = m
    BY <2>2, <2>4, Undone
  <2> QED BY <2>1, <2>5
<1>13. DrawnFor(o, v)
  <2>1. PICK f : f = o.m_tilde
    OBVIOUS
  <2>2. f \in [1 .. v -> Scalars]
    BY <1>4, <1>12, <2>1
  <2> QED BY <1>4, <1>9, <1>10, <1>11, <2>1, <2>2 DEF DrawnFor
<1>14. Responses(OtherSignature(p, e, b), msgs, p.indexes, o, k)
         = [e_hat |-> (o.e_tilde + e * k) % r, r1_hat |-> (o.r1_tilde - o.r1 * k) % r,
            r3_hat |-> (o.r3_tilde - i2 * k) % r,
            m_hat |-> [j \in 1 .. v |-> (o.m_tilde[j] + msgs[hid[j]] * k) % r],
            c |-> k]
  BY <1>1, <1>3, <1>5 DEF Responses, R1Hat, OtherSignature
<1>15. [j \in 1 .. v |-> (o.m_tilde[j] + msgs[hid[j]] * k) % r] = rs.m_hat
  BY <1>2, <1>12
<1>16. Responses(OtherSignature(p, e, b), msgs, p.indexes, o, k) = rs
  BY <1>2, <1>9, <1>10, <1>11, <1>14, <1>15
<1> QED BY <1>1, <1>13, <1>16

\* Whoever has other messages, the same where they are disclosed, and a
\* signature on them might have made the proof.
LEMMA Explained ==
  ASSUME NEW p, NEW draws, NEW c, MadeWith(p, draws, c), <<Question(p, draws), c>> \in asked,
         NEW msgs \in [1 .. Size(p) -> Scalars], Revealed(msgs, p.indexes)
                                                  = Revealed(Messages(p), p.indexes),
         NEW e \in Scalars, SignableWith(p.credential.sk, msgs, e)
  PROVE  Explains(p, msgs, p.indexes, e)
<1>1. PICK sk, pt, rs, L, b, A, o, sig, v :
        /\ sk = p.credential.sk /\ pt = p.proof.points /\ rs = p.proof.responses
        /\ L = Size(p) /\ b = BValue(CalculateDomain(sk, L), msgs) /\ v = L - 4
        /\ A = (b * InverseOf((sk + e) % r)) % r /\ sig = OtherSignature(p, e, b)
        /\ o = OtherDraws(p, msgs, e, b, v)
  OBVIOUS
<1>2. /\ L \in Nat /\ L <= Len(H) /\ v \in Nat /\ Places(p.indexes, 4, L)
      /\ pt.abar \in NonZero /\ pt.d \in NonZero /\ pt.bbar \in Scalars
      /\ (pt.abar * sk) % r = pt.bbar /\ rs.c = c
      /\ Question(p, draws) = VerifierTranscript(sk, p.proof,
                                 Revealed(Messages(p), p.indexes), p.ph)
  BY <1>1, ProofMade
<1>3. sk \in Scalars /\ c \in Scalars
  BY <1>1 DEF MadeWith, Proper
<1>4. Len(msgs) = L /\ msgs \in [1 .. L -> Scalars]
  BY <1>1, <1>2
<1>5. (sk + e) % r # 0 /\ b # 0
  BY <1>1, <1>4 DEF SignableWith
<1>6. b \in NonZero
  <2>1. CalculateDomain(sk, L) \in Scalars
    <3>1. L \in 0 .. Len(H)
      BY <1>2, GeneratorInt
    <3> QED BY <1>3, <3>1, BbsAssumption
  <2>2. b \in Scalars
    BY <1>1, <1>2, <1>4, <2>1, BValueSum
  <2> QED BY <1>5, <2>2, ScalarInt
<1>7. sig = [A |-> A, e |-> e] /\ sig.A = A /\ sig.e = e
  BY <1>1 DEF OtherSignature
<1>8. A \in NonZero /\ Congruent(A * (sk + e), b, r)
  BY <1>1, <1>3, <1>5, <1>6, Signs
<1>9. /\ o.r1 = (pt.abar * (sk + e) * InverseOf(pt.d)) % r
      /\ o.r2 = (pt.d * InverseOf(b)) % r
  BY <1>1 DEF OtherDraws
<1>10. /\ o.r1 \in NonZero /\ o.r2 \in NonZero
       /\ (b * o.r2) % r = pt.d /\ (A * o.r1 * o.r2) % r = pt.abar
       /\ (pt.d * o.r1 - pt.abar * e) % r = pt.bbar
  <2>1. PICK abar, d, r1, r2 : abar = pt.abar /\ d = pt.d /\ r1 = o.r1 /\ r2 = o.r2
    OBVIOUS
  <2>2. Drawn(r1, r2, abar, d, b, sk + e)
    BY <1>9, <2>1 DEF Drawn
  <2>3. abar \in NonZero /\ d \in NonZero
    BY <1>2, <2>1
  <2>4. /\ r1 \in NonZero /\ r2 \in NonZero
        /\ (b * r2) % r = d /\ (A * r1 * r2) % r = abar
        /\ (d * r1 - abar * e) % r = (abar * sk) % r
    BY <1>3, <1>5, <1>6, <1>8, <2>2, <2>3, SamePoints
  <2> QED BY <1>2, <2>1, <2>4
\* The points.
<1>11. InitPoints(sk, sig, msgs, o) = pt
  <2>1. InitPoints(sk, sig, msgs, o)
          = [abar |-> (A * o.r1 * o.r2) % r, d |-> (b * o.r2) % r,
             bbar |-> (((b * o.r2) % r) * o.r1 - ((A * o.r1 * o.r2) % r) * e) % r]
    BY <1>1, <1>4, <1>7 DEF InitPoints, Abar
  <2>2. InitPoints(sk, sig, msgs, o)
          = [abar |-> pt.abar, d |-> pt.d, bbar |-> pt.bbar]
    BY <1>10, <2>1
  <2>3. pt = [abar |-> pt.abar, d |-> pt.d, bbar |-> pt.bbar]
    BY <1>1, ResponsesMade
  <2> QED BY <2>2, <2>3
\* The responses.
<1>12. DrawnFor(o, v) /\ Responses(sig, msgs, p.indexes, o, rs.c) = rs
  BY <1>1, <1>5, <1>6, <1>10, SameResponses
\* The question.
<1>13. ProverTranscript(sk, pt, msgs, p.indexes, o, p.ph) = Question(p, draws)
  <2>1. pt.abar \in Int /\ 4 \in Nat
    BY <1>2, ScalarInt, Zenon
  <2>2. pt.d = (BValue(CalculateDomain(sk, L), msgs) * o.r2) % r
    BY <1>1, <1>10
  <2>3. sig.e \in Scalars /\ pt.bbar = (pt.d * o.r1 - pt.abar * sig.e) % r
    BY <1>7, <1>10
  <2>4. DrawnFor(o, L - 4)
    BY <1>1, <1>12
  <2>5. ProverTranscript(sk, pt, msgs, p.indexes, o, p.ph)
          = VerifierTranscript(sk,
              [points |-> pt, responses |-> Responses(sig, msgs, p.indexes, o, c)],
              Revealed(msgs, p.indexes), p.ph)
    BY <1>2, <1>3, <1>4, <2>1, <2>2, <2>3, <2>4, Complete, SMTT(60)
  <2>6. p.proof = [points |-> pt, responses |-> rs]
    BY <1>1, ResponsesMade
  <2> QED BY <1>2, <1>12, <2>5, <2>6
<1>14. OtherDraws(p, msgs, e, b, v)
         = [r1 |-> o.r1, r2 |-> o.r2,
            e_tilde |-> (rs.e_hat - e * rs.c) % r,
            r1_tilde |-> (rs.r1_hat + o.r1 * rs.c) % r,
            r3_tilde |-> (rs.r3_hat + InverseOf(o.r2) * rs.c) % r,
            m_tilde |-> [j \in DOMAIN Undisclosed(p.indexes, Len(msgs)) |->
               (rs.m_hat[j] - msgs[Undisclosed(p.indexes, Len(msgs))[j]] * rs.c) % r]]
  <2>1. DOMAIN Undisclosed(p.indexes, L) = 1 .. v
    BY <1>1, ResponsesMade
  <2> QED BY <1>1, <1>4, <1>9, <2>1 DEF OtherDraws
<1>15. <<ProverTranscript(sk, pt, msgs, p.indexes, o, p.ph), rs.c>> \in asked
  BY <1>2, <1>13
<1> QED BY <1>1, <1>4, <1>7, <1>9, <1>11, <1>12, <1>14, <1>15, Zenon DEF Explains

LEMMA Hidden == ShownInv => HiddenClaimsStayHidden
<1> SUFFICES ASSUME ShownInv, NEW p \in shown
             PROVE  LET msgs == MessageVector(p.meta, p.credential.claims)
                        hidden == ToSet(Undisclosed(p.indexes, Len(msgs)))
                    IN \A values \in [hidden -> Scalars], e \in Scalars :
                         LET others == [i \in DOMAIN msgs |->
                               IF i \in hidden THEN values[i] ELSE msgs[i]]
                         IN SignableWith(p.credential.sk, others, e)
                              => Explains(p, others, p.indexes, e)
  BY DEF HiddenClaimsStayHidden
<1>1. PICK draws, c : MadeWith(p, draws, c) /\ <<Question(p, draws), c>> \in asked
  BY DEF ShownInv
<1>2. PICK msgs, hidden, L : /\ msgs = MessageVector(p.meta, p.credential.claims)
                             /\ hidden = ToSet(Undisclosed(p.indexes, Len(msgs))) /\ L = Size(p)
  OBVIOUS
<1>3. msgs = Messages(p)
  BY <1>1, <1>2 DEF MadeWith, Messages
<1>4. /\ L \in Nat /\ msgs \in [1 .. L -> Scalars] /\ Places(p.indexes, 4, L)
  BY <1>1, <1>2, <1>3, ProofMade
<1>5. Len(msgs) = L
  BY <1>4
<1>6. \A k \in DOMAIN p.indexes : p.indexes[k] \in 1 .. L /\ p.indexes[k] \notin hidden
  <2>1. hidden = ToSet(Undisclosed(p.indexes, L))
    BY <1>2, <1>5
  <2>2. Shared(L, p.indexes, 4, Undisclosed(p.indexes, L), L - 4)
    BY <1>4, Others
  <2>3. ToSet(Undisclosed(p.indexes, L)) = (1 .. L) \ ToSet(p.indexes)
    BY <2>2 DEF Shared
  <2>4. \A k \in DOMAIN p.indexes : p.indexes[k] \in ToSet(p.indexes) /\ p.indexes[k] \in 1 .. L
    BY <1>4 DEF Places, ToSet
  <2> QED BY <2>1, <2>3, <2>4
<1>7. ASSUME NEW values \in [hidden -> Scalars], NEW e \in Scalars,
             NEW others, others = [i \in DOMAIN msgs |->
                                     IF i \in hidden THEN values[i] ELSE msgs[i]],
             SignableWith(p.credential.sk, others, e)
      PROVE  Explains(p, others, p.indexes, e)
  <2>1. others \in [1 .. L -> Scalars]
    BY <1>4, <1>7
  <2>2. \A k \in DOMAIN p.indexes : others[p.indexes[k]] = msgs[p.indexes[k]]
    BY <1>4, <1>6, <1>7
  <2>3. Revealed(others, p.indexes) = Revealed(Messages(p), p.indexes)
    BY <1>3, <2>2 DEF Revealed
  <2> QED BY <1>1, <1>2, <1>7, <2>1, <2>3, Explained
<1> QED BY <1>2, <1>7

\* Any scalars at the hidden indexes, signed with any e, explain a proof: it says
\* nothing of the claims it hides, in any group of prime order.
THEOREM HiddenClaimsHidden == Spec => []HiddenClaimsStayHidden
<1> QED BY InitAll, NextAll, Hidden, PTL DEF Spec
=============================================================================
