--------------------------- MODULE PromiseProofs ---------------------------
(***************************************************************************)
(* What the modules without a program of their own promise: an AgeGate     *)
(* admits at most once, a Purse presents a token at most once and only     *)
(* when it is spent, and leaving a signature out never helps a registry to *)
(* be loaded.                                                              *)
(***************************************************************************)
EXTENDS AgeGate, Purse, RegistryLoad, TLAPS

GateShape ==
  /\ GateTypeOK
  /\ open \cap closed = {}
  /\ OncePerChallenge

TokensOnce ==
  \A a, b \in admissions : a.token = b.token /\ a.token # Reusable => a = b

LEMMA InitGate == GateInit => GateShape /\ TokensOnce
  BY DEF GateInit, GateShape, GateTypeOK, OncePerChallenge, TokensOnce

\* The challenge's half needs no memory of tokens.
LEMMA NextGateShape == GateShape /\ [ForgetfulNext]_gateVars => GateShape'
<1> SUFFICES ASSUME GateShape, [ForgetfulNext]_gateVars PROVE GateShape'
  OBVIOUS
<1> USE DEF GateShape, GateTypeOK, OncePerChallenge
<1>1. ASSUME NEW c \in Challenges, Offer(c) PROVE GateShape'
  BY <1>1 DEF Offer
<1>2. ASSUME NEW S \in SUBSET open, Withdraw(S) PROVE GateShape'
  BY <1>2 DEF Withdraw
<1>3. ASSUME NEW c \in Challenges, NEW t \in Tokens \cup {Reusable}, Enter(c, t)
      PROVE GateShape'
  <2> DEFINE new == [challenge |-> c, token |-> t]
  <2>1. GateTypeOK' /\ open' \cap closed' = {}
    BY <1>3 DEF Enter
  <2>2. ASSUME NEW a \in admissions PROVE a.challenge # c
    BY <1>3 DEF Enter
  <2>3. new.challenge = c /\ admissions' = admissions \cup {new}
    BY <1>3 DEF Enter
  <2> HIDE DEF new
  <2>4. OncePerChallenge'
    BY <1>3, <2>2, <2>3 DEF Enter
  <2> QED BY <2>1, <2>4
<1>4. CASE UNCHANGED gateVars
  BY <1>4 DEF gateVars
<1> QED BY <1>1, <1>2, <1>3, <1>4 DEF ForgetfulNext

LEMMA NextTokensOnce == TokensOnce /\ [GateNext]_gateVars => TokensOnce'
<1> SUFFICES ASSUME TokensOnce, [GateNext]_gateVars PROVE TokensOnce'
  OBVIOUS
<1>1. ASSUME NEW c \in Challenges, NEW t \in Tokens \cup {Reusable}, Admit(c, t)
      PROVE TokensOnce'
  <2> DEFINE new == [challenge |-> c, token |-> t]
  <2>1. ASSUME NEW a \in admissions, a.token = t PROVE t = Reusable
    BY <1>1, <2>1 DEF Admit, Unused
  <2>2. new.token = t /\ admissions' = admissions \cup {new}
    BY <1>1 DEF Admit, Enter
  <2> HIDE DEF new
  <2> QED BY <2>1, <2>2 DEF TokensOnce
<1>2. CASE UNCHANGED admissions
  BY <1>2 DEF TokensOnce
<1> QED BY <1>1, <1>2 DEF GateNext, Offer, Withdraw, gateVars

\* Even a gate that has forgotten every token lets in one visitor a challenge.
THEOREM ForgetfulGateStillOncePerChallenge == ForgetfulSpec => []OncePerChallenge
<1>1. GateShape => OncePerChallenge
  BY DEF GateShape
<1> QED BY <1>1, InitGate, NextGateShape, PTL DEF ForgetfulSpec

\* The gate keeps its promise: one admission for a challenge, one for a token.
THEOREM GateAdmitsAtMostOnce == GateSpec => []AtMostOnce
<1>1. GateShape /\ TokensOnce => AtMostOnce
  BY DEF GateShape, TokensOnce, AtMostOnce
<1>2. [GateNext]_gateVars => [ForgetfulNext]_gateVars
  BY DEF GateNext, ForgetfulNext, Admit
<1> QED BY <1>1, <1>2, InitGate, NextGateShape, NextTokensOnce, PTL DEF GateSpec

-----------------------------------------------------------------------------
PurseInv ==
  /\ store \in [Nonces -> {"absent", "unspent", "spent"}]
  /\ released \subseteq Presentations
  /\ PresentedOnce
  /\ PresentedIsSpent

\* What both wallets instantiate a purse with.
PresentationsHaveNonces == \A p \in Presentations : p.nonce \in Nonces

LEMMA PurseStart == PurseInit => PurseInv
BY DEF PurseInit, PurseInv, PresentedOnce, PresentedIsSpent

LEMMA PurseStays ==
  ASSUME PresentationsHaveNonces, PurseInv, [PurseNext]_purse
  PROVE  PurseInv'
<1> USE DEF PresentationsHaveNonces, PurseInv, PresentedOnce, PresentedIsSpent
<1>1. ASSUME NEW ns \in SUBSET Nonces, Add(ns) PROVE PurseInv'
  BY <1>1 DEF Add
<1>2. ASSUME NEW n \in Nonces, Spend(n) PROVE PurseInv'
  BY <1>2 DEF Spend
<1>3. ASSUME NEW p \in Presentations, Release(p) PROVE PurseInv'
  BY <1>3 DEF Release
<1>4. CASE UNCHANGED purse
  BY <1>4 DEF purse
<1> QED BY <1>1, <1>2, <1>3, <1>4 DEF PurseNext

\* A purse keeps its promise: no token is in two presentations, and what has
\* been presented is spent and stays so.
THEOREM PursePresentsOnce ==
  ASSUME PresentationsHaveNonces
  PROVE  PurseSpec => [](PresentedOnce /\ PresentedIsSpent)
<1>1. PurseInv => PresentedOnce /\ PresentedIsSpent
  BY DEF PurseInv
<1>2. PurseInv /\ [PurseNext]_purse => PurseInv'
  BY PurseStays
<1> QED BY <1>1, <1>2, PurseStart, PTL DEF PurseSpec

-----------------------------------------------------------------------------
\* For any set of keys and documents, no registry load accepts under a hybrid
\* policy rests on the classical signature alone once a key is pinned.
THEOREM NoDowngrade == DowngradeNeverHelps
<1> SUFFICES ASSUME NEW l \in Loads
             PROVE  /\ Accepts(l) => EdVerifies(l)
                    /\ Pinned(l) /\ l.policy # "classical-only" /\ ~ MldsaVerifies(l)
                         => ~ Accepts(l)
                    /\ Pinned(l) =>
                         (Accepts([l EXCEPT !.policy = "hybrid-preferred"])
                            <=> Accepts([l EXCEPT !.policy = "hybrid-required"]))
                    /\ Accepts(l) => Accepts([l EXCEPT !.anchor = Missing])
  BY DEF DowngradeNeverHelps
<1>1. Accepts(l) => EdVerifies(l)
  BY DEF Accepts, VerifyHybrid
<1>2. Pinned(l) /\ l.policy # "classical-only" /\ ~ MldsaVerifies(l)
        => ~ Accepts(l)
  BY DEF Accepts, VerifyHybrid, HybridEngaged
<1>3. ASSUME Pinned(l)
      PROVE  Accepts([l EXCEPT !.policy = "hybrid-preferred"])
               <=> Accepts([l EXCEPT !.policy = "hybrid-required"])
  BY <1>3 DEF Loads, Accepts, VerifyHybrid, HybridEngaged, EdVerifies,
              MldsaVerifies, Pinned
<1>4. Accepts(l) => Accepts([l EXCEPT !.anchor = Missing])
  BY DEF Loads, Accepts, VerifyHybrid, HybridEngaged, EdVerifies, MldsaVerifies,
         Pinned
<1> QED BY <1>1, <1>2, <1>3, <1>4
=============================================================================
