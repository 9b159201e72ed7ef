------------------------------- MODULE Purse -------------------------------
(***************************************************************************)
(* What a wallet promises about its tokens, whichever of the two wallets   *)
(* it is: the extension (Extension) and the command line (Vault) each keep *)
(* a list of tokens in a store that has no transactions, and each claims   *)
(* that a token is persistently spent before a presentation of it leaves   *)
(* and goes into one presentation only.                                    *)
(***************************************************************************)
CONSTANTS
  Nonces,         \* tokens, by their nonce
  Presentations   \* records with a field nonce

VARIABLES
  store,          \* what is persistently known of each token
  released        \* presentations handed out

purse == <<store, released>>

PurseInit ==
  /\ store = [n \in Nonces |-> "absent"]
  /\ released = {}

\* Tokens come in; the ones already known stay as they are.
Add(ns) ==
  /\ store' = [n \in Nonces |->
       IF n \in ns /\ store[n] = "absent" THEN "unspent" ELSE store[n]]
  /\ UNCHANGED released

Spend(n) ==
  /\ store[n] = "unspent"
  /\ store' = [store EXCEPT ![n] = "spent"]
  /\ UNCHANGED released

\* A spent token that has not been presented yet is presented.
Release(p) ==
  /\ store[p.nonce] = "spent"
  /\ \A q \in released : q.nonce # p.nonce
  /\ released' = released \cup {p}
  /\ UNCHANGED store

PurseNext ==
  \/ \E ns \in SUBSET Nonces : Add(ns)
  \/ \E n \in Nonces : Spend(n)
  \/ \E p \in Presentations : Release(p)

PurseSpec == PurseInit /\ [][PurseNext]_purse

\* No token is in two presentations.
PresentedOnce == \A p, q \in released : p.nonce = q.nonce => p = q
\* What has been presented is spent.
PresentedIsSpent == \A p \in released : store[p.nonce] = "spent"
=============================================================================
