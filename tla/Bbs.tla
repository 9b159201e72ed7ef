-------------------------------- MODULE Bbs --------------------------------
(***************************************************************************)
(* The protocol layer of bbs.py: sign, verify, and proofs that disclose    *)
(* some of the signed messages.  The curve is a library; a point of G1 is  *)
(* its discrete logarithm modulo the group order r, the pairing of two     *)
(* points is their product, and the generators are constants.  A message   *)
(* is the scalar it hashes to.  The Fiat-Shamir hash is a random oracle:   *)
(* whoever uses this module keeps the questions it was asked and answered. *)
(*                                                                         *)
(* Message vectors are sequences, so indexes count from 1.                 *)
(***************************************************************************)
EXTENDS Integers, FiniteSets, Sequences, SequencesExt

CONSTANTS
  r,                  \* the group order, a prime
  P1, Q1, H,          \* generators: P1, Q1 \in 1 .. r-1, H \in Seq(1 .. r-1)
  Tildes,             \* a bound: draws of the scalars with a tilde, in order
  CalculateDomain(_, _), \* of a public key and the number of messages
  HashE(_, _)         \* the e of a signature, of a secret and the messages

Scalars == 0 .. r - 1
NonZero == 1 .. r - 1
InverseOf(x) == CHOOSE y \in NonZero : (x * y) % r = 1

ASSUME BbsAssumption ==
  /\ r \in Nat /\ r > 1 /\ \A k \in 2 .. r - 1 : r % k # 0
  /\ P1 \in NonZero /\ Q1 \in NonZero /\ H \in Seq(NonZero)
  /\ Tildes \subseteq Seq(Scalars)
  /\ \A w \in Scalars, L \in 0 .. Len(H) : CalculateDomain(w, L) \in Scalars

\* The sum of a sequence of numbers; Sums has those of its beginnings.
Sums(terms) ==
  LET sum[k \in 0 .. Len(terms)] == IF k = 0 THEN 0 ELSE sum[k - 1] + terms[k]
  IN sum
Total(terms) == Sums(terms)[Len(terms)]

\* The sum of H_i * m_i over pairs <<i, m>>.
Combine(pairs) == Total([k \in DOMAIN pairs |-> H[pairs[k][1]] * pairs[k][2]])

\* A finite set of numbers in order.
Ascending(S) ==
  CHOOSE s \in [1 .. Cardinality(S) -> S] :
    \A i, j \in DOMAIN s : i < j => s[i] < s[j]

\* Faulty variants: what a plausible slip would make of the definition each is
\* named after.  Nothing in the specification uses them; put in the place of
\* the original, each one makes TLC find the property in brackets violated.

\* [ProofBound] the transcript leaves out the presentation header.
TranscriptWithoutHeader(points, t1, t2, domain, disclosed, ph) ==
  [points |-> points, t1 |-> t1, t2 |-> t2, domain |-> domain,
   disclosed |-> disclosed]
\* [HiddenClaimsStayHidden] one blinding scalar does for both.
AbarWithoutR1(signature, draws) == (signature.A * draws.r2) % r
\* [HonestProofAccepted] the response for r1 adds what it should take away.
R1HatAdding(draws, c) == (draws.r1_tilde + draws.r1 * c) % r

-----------------------------------------------------------------------------
\* B = P1 + Q_1 * domain + sum(H_i * m_i).
BValue(domain, msgs) ==
  (P1 + Q1 * domain + Combine([i \in DOMAIN msgs |-> <<i, msgs[i]>>])) % r

\* bbs_sign, which fails when SK + e or the point A is zero.
SignFails(sk, msgs) ==
  \/ (sk + HashE(sk, msgs)) % r = 0
  \/ BValue(CalculateDomain(sk, Len(msgs)), msgs) = 0
Sign(sk, msgs) ==
  LET e == HashE(sk, msgs) IN
    [A |-> (BValue(CalculateDomain(sk, Len(msgs)), msgs)
              * InverseOf((sk + e) % r)) % r,
     e |-> e]

\* bbs_verify: e(A, W + P2*e) = e(B, P2), where W stands for P2*sk.
Verify(w, signature, msgs) ==
  /\ signature.e # 0 /\ signature.A # 0
  /\ (signature.A * (w + signature.e)) % r
       = BValue(CalculateDomain(w, Len(msgs)), msgs)

-----------------------------------------------------------------------------
\* The indexes of L messages that a list of indexes leaves out, in order.
Undisclosed(indexes, L) == Ascending((1 .. L) \ ToSet(indexes))

\* What the challenge is the hash of; disclosed is a sequence of pairs.
Transcript(points, t1, t2, domain, disclosed, ph) ==
  [points |-> points, t1 |-> t1, t2 |-> t2, domain |-> domain,
   disclosed |-> disclosed, ph |-> ph]

\* The scalars bbs_proof_gen draws to hide u messages.
Draws(u) ==
  {[r1 |-> r1, r2 |-> r2, e_tilde |-> t[1], r1_tilde |-> t[2], r3_tilde |-> t[3],
    m_tilde |-> SubSeq(t, 4, 3 + u)] : r1, r2 \in NonZero, t \in Tildes}

\* ProofInit: Abar, Bbar and D.
Abar(signature, draws) == (signature.A * draws.r1 * draws.r2) % r
InitPoints(w, signature, msgs, draws) ==
  LET d == (BValue(CalculateDomain(w, Len(msgs)), msgs) * draws.r2) % r
      abar == Abar(signature, draws)
  IN [abar |-> abar, d |-> d, bbar |-> (d * draws.r1 - abar * signature.e) % r]

\* The question a prover asks of the oracle.
ProverTranscript(w, points, msgs, indexes, draws, ph) ==
  LET hidden == Undisclosed(indexes, Len(msgs)) IN
    Transcript(points,
      (points.abar * draws.e_tilde + points.d * draws.r1_tilde) % r,
      (points.d * draws.r3_tilde
         + Combine([j \in DOMAIN hidden |-> <<hidden[j], draws.m_tilde[j]>>])) % r,
      CalculateDomain(w, Len(msgs)),
      [k \in DOMAIN indexes |-> <<indexes[k], msgs[indexes[k]]>>],
      ph)

\* ProofFinalize, given the oracle's answer c.
R1Hat(draws, c) == (draws.r1_tilde - draws.r1 * c) % r
Responses(signature, msgs, indexes, draws, c) ==
  LET hidden == Undisclosed(indexes, Len(msgs)) IN
    [e_hat |-> (draws.e_tilde + signature.e * c) % r,
     r1_hat |-> R1Hat(draws, c),
     r3_hat |-> (draws.r3_tilde - InverseOf(draws.r2) * c) % r,
     m_hat |-> [j \in DOMAIN hidden |->
                  (draws.m_tilde[j] + msgs[hidden[j]] * c) % r],
     c |-> c]

\* The checks of _octets_to_proof: no identity point and no zero scalar.
WellFormed(proof) ==
  /\ \A f \in {"abar", "bbar", "d"} : proof.points[f] # 0
  /\ \A f \in {"e_hat", "r1_hat", "r3_hat", "c"} : proof.responses[f] # 0
  /\ 0 \notin ToSet(proof.responses.m_hat)

\* The question the verifier recomputes from a proof and what is disclosed.
VerifierTranscript(w, proof, disclosed, ph) ==
  LET pt == proof.points
      rs == proof.responses
      indexes == [k \in DOMAIN disclosed |-> disclosed[k][1]]
      L == Len(disclosed) + Len(rs.m_hat)
      domain == CalculateDomain(w, L)
      hidden == Undisclosed(indexes, L)
      bv == P1 + Q1 * domain + Combine(disclosed)
  IN Transcript(pt,
       (pt.bbar * rs.c + pt.abar * rs.e_hat + pt.d * rs.r1_hat) % r,
       (bv * rs.c + pt.d * rs.r3_hat
          + Combine([j \in DOMAIN rs.m_hat |-> <<hidden[j], rs.m_hat[j]>>])) % r,
       domain, disclosed, ph)

\* bbs_proof_verify.  A question nobody has asked has an answer that nobody
\* knew when the proof was made, and it is not the challenge in the proof.
ProofVerifies(w, proof, disclosed, ph, answered) ==
  /\ WellFormed(proof)
  /\ \A k \in DOMAIN disclosed :
       disclosed[k][1] \in 1 .. Len(disclosed) + Len(proof.responses.m_hat)
  /\ <<VerifierTranscript(w, proof, disclosed, ph), proof.responses.c>>
       \in answered
  /\ (proof.points.abar * w) % r = proof.points.bbar
=============================================================================
