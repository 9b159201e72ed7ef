------------------------------ MODULE Rsabssa ------------------------------
(***************************************************************************)
(* RSA blind signatures as rsabssa.py makes them (RFC 9474): the wallet    *)
(* blinds an encoded message, the issuer signs what it cannot read, and    *)
(* the wallet unblinds and verifies.  The arithmetic is the code's, over   *)
(* whatever small key it is given; the PSS encoding is a constant operator *)
(* of the message, a random salt and the modulus.                          *)
(***************************************************************************)
EXTENDS Integers, Sequences

CONSTANTS
  Salts,
  Encode(_, _, _)   \* Encode(message, salt, n) \in 0 .. n - 1

\* A private key is a record of n, e and d; of a public one d is not read.

\* pow(b, x, n) is Power(b, x) % n.
Powers(b, x) == LET p[k \in 0 .. x] == IF k = 0 THEN 1 ELSE p[k - 1] * b IN p
Power(b, x) == Powers(b, x)[x]

Coprime(a, n) == \A k \in 2 .. n : ~ (a % k = 0 /\ n % k = 0)
\* What blind draws: r in [1, n-1] with an inverse.
Units(n) == {r \in 1 .. n - 1 : Coprime(r, n)}
InverseMod(r, n) == CHOOSE i \in 1 .. n - 1 : (r * i) % n = 1

\* Faulty variants: what a plausible slip would make of the definition each is
\* named after.  Nothing in the specification uses them; put in the place of
\* the original, each one makes TLC find the property in brackets violated.

\* [TokenUnlinkable] blind does not look for common factors.
BlindableAnyway(key, m) == TRUE
\* [BatchUnblinds] the blinding factor is not raised to the public exponent.
BlindWithoutExponent(key, m, r) == (m * r) % key.n

-----------------------------------------------------------------------------
\* blind refuses an encoding that shares a factor with the modulus.
Blindable(key, m) == Coprime(m, key.n)

\* blind: what is sent to the issuer.
Blind(key, m, r) == (m * Power(r, key.e)) % key.n

\* blind_sign: the range check and the check of the raw signature.
RawSignature(key, z) == Power(z, key.d) % key.n
Signable(key, z) ==
  /\ 1 < z /\ z < key.n
  /\ Power(RawSignature(key, z), key.e) % key.n = z

\* Signing and verifying undo each other.
IsKeyPair(key) ==
  /\ key.n \in Nat /\ key.n > 1 /\ key.e \in Nat /\ key.d \in Nat
  /\ \A x \in Units(key.n) : Power(RawSignature(key, x), key.e) % key.n = x

\* finalize, before it verifies: the raw signature times the inverse.
Unblinded(key, s, inv) == (s * inv) % key.n

\* RSA-PSS verification recovers the salt from the signature.
PssVerifies(key, message, signature) ==
  \E salt \in Salts : Power(signature, key.e) % key.n = Encode(message, salt, key.n)
=============================================================================
