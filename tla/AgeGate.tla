------------------------------ MODULE AgeGate ------------------------------
(***************************************************************************)
(* What a BlindAge site promises, without saying how: it opens challenges, *)
(* each one admits at most one visitor, and a single-use token is never    *)
(* admitted twice.  Challenges may be withdrawn at any time (a failed      *)
(* attempt, an expiry, a restart); tokens are not consumed by anything but *)
(* an admission.                                                           *)
(***************************************************************************)
CONSTANTS Challenges, Tokens,
          Reusable          \* stands for a reusable credential: not a token

VARIABLES
  open,        \* challenges that can still admit somebody
  closed,      \* challenges that never will again
  admissions   \* records [challenge, token]

gateVars == <<open, closed, admissions>>

GateTypeOK ==
  /\ open \in SUBSET Challenges
  /\ closed \in SUBSET Challenges
  /\ admissions \in
       SUBSET [challenge : Challenges, token : Tokens \cup {Reusable}]

GateInit == open = {} /\ closed = {} /\ admissions = {}

Offer(c) ==
  /\ c \notin open \cup closed
  /\ open' = open \cup {c}
  /\ UNCHANGED <<closed, admissions>>

Withdraw(S) ==
  /\ open' = open \ S
  /\ closed' = closed \cup S
  /\ UNCHANGED admissions

Unused(t) == t = Reusable \/ \A a \in admissions : a.token # t

\* The challenge's half of an admission, and the whole of it.
Enter(c, t) ==
  /\ c \in open
  /\ open' = open \ {c}
  /\ closed' = closed \cup {c}
  /\ admissions' = admissions \cup {[challenge |-> c, token |-> t]}

Admit(c, t) == Unused(t) /\ Enter(c, t)

GateNext ==
  \/ \E c \in Challenges : Offer(c)
  \/ \E S \in SUBSET open : Withdraw(S)
  \/ \E c \in Challenges, t \in Tokens \cup {Reusable} : Admit(c, t)

\* The same for a gate that does not remember tokens.
ForgetfulNext ==
  \/ \E c \in Challenges : Offer(c)
  \/ \E S \in SUBSET open : Withdraw(S)
  \/ \E c \in Challenges, t \in Tokens \cup {Reusable} : Enter(c, t)

\* No challenge lets in two visitors, and what has let somebody in is closed.
OncePerChallenge ==
  \A a, b \in admissions :
    a.challenge \in closed /\ (a.challenge = b.challenge => a = b)

\* And no token is let in twice.
AtMostOnce ==
  /\ OncePerChallenge
  /\ \A a, b \in admissions :
       a.token = b.token /\ a.token # Reusable => a = b

GateSpec == GateInit /\ [][GateNext]_gateVars
ForgetfulSpec == GateInit /\ [][ForgetfulNext]_gateVars
=============================================================================
