----------------------------- MODULE MCProofing -----------------------------
(***************************************************************************)
(* Two sessions, two codes from pages with any of their nonces and any of  *)
(* their code challenges, two callbacks with any pairing of codes and      *)
(* states.  The clock starts on 28 February 2026.  One person is 18        *)
(* already; the other, born on a 29 February, becomes 18 on the next day,  *)
(* which an enrollment made on the first lives to see.                     *)
(***************************************************************************)
EXTENDS Proofing, TLC

Date(y, m, d) == [year |-> y, month |-> m, day |-> d]

MCDobs == {Date(2006, 3, 1), Date(2008, 2, 29)}
MCDateOf ==
  0 :> Date(2026, 2, 28) @@ 1 :> Date(2026, 3, 1) @@ 2 :> Date(2026, 3, 2)

\* Nothing tells two sessions, codes, enrollment ids or callbacks apart.
Interchangeable ==
  Permutations(Sessions) \cup Permutations(Codes)
    \cup Permutations(Enrollments) \cup Permutations(Callbacks)
=============================================================================
