------------------------------- MODULE Vault -------------------------------
(***************************************************************************)
(* The command-line wallet.  Every `blindage' command is a process of its  *)
(* own that loads the whole vault, works on its copy (asking an issuer for *)
(* something, or choosing a token), saves the whole copy, and then writes  *)
(* its output file.  Nothing locks the vault, so commands started from two *)
(* shells overlap, and a process may be killed between any two steps.      *)
(*                                                                         *)
(* save writes a temporary file and renames it over the vault, so for the  *)
(* others it is one step: a process killed before the rename has changed   *)
(* nothing.  The passphrase is right (load fails before anything else if   *)
(* it is not) and challenges have not expired (prove gives up, unchanged,  *)
(* if one has).  `tokens' and `vc-prove' change no state and are left out. *)
(***************************************************************************)
EXTENDS Integers, FiniteSets

CONSTANTS
  Processes,    \* commands running at the same time
  Issuers,
  Nonces,       \* nonces the wallet may draw
  Challenges,
  Eligible,     \* Eligible[ch]: the nonces whose token meets its claim and level
  Count,        \* tokens asked for by one mint
  None

ASSUME VaultAssumption ==
  /\ Eligible \in [Challenges -> SUBSET Nonces]
  /\ Count \in Nat
  /\ None \notin Nonces \cup Challenges \cup Issuers

VARIABLES
  vault,      \* the vault file
  pc, local,  \* where each process is, and its variables
  drawn,      \* nonces drawn so far
  released,   \* presentation files written
  exported,   \* the last export file: the tokens in it, and the ones already
              \* presented when the command loaded the vault (history)
  clobbered   \* some save has undone a change its process had not loaded

vars == <<vault, pc, local, drawn, released, exported, clobbered>>

\* VaultData, and what load returns when there is no file.
VaultData ==
  [enrollments : SUBSET Issuers, credentials : SUBSET Issuers,
   tokens : [Nonces -> {"absent", "unspent", "spent"}]]
Empty ==
  [enrollments |-> {}, credentials |-> {},
   tokens |-> [n \in Nonces |-> "absent"]]

Presentations == [nonce : Nonces, challenge : Challenges]
NoLocals ==
  [data |-> Empty, loaded |-> Empty, issuer |-> None, out |-> None,
   before |-> {}]

Init ==
  /\ vault = Empty
  /\ pc = [p \in Processes |-> "idle"]
  /\ local = [p \in Processes |-> NoLocals]
  /\ drawn = {}
  /\ released = {}
  /\ exported = [tokens |-> {}, before |-> {}]
  /\ clobbered = FALSE

Goto(p, label, locals) ==
  /\ pc' = [pc EXCEPT ![p] = label]
  /\ local' = [local EXCEPT ![p] = locals]
Exit(p) == Goto(p, "idle", NoLocals)

\* _open_vault: a command starts with a copy of the vault.
Loaded == [NoLocals EXCEPT !.data = vault, !.loaded = vault]
Open(p, label, locals) ==
  /\ pc[p] = "idle"
  /\ Goto(p, label, locals)
  /\ UNCHANGED <<vault, drawn, released, exported, clobbered>>

\* Faulty variants: what a plausible slip would make of the definition each is
\* named after.  Nothing in the specification uses them; put in the place of
\* the original, each one makes TLC find the property in brackets violated.

\* [PurseUntilClobbered] the spent flag is set on a copy of the token.
MarkSpentOnACopy(data, n) == data
\* [ExportedNotReleased] export takes every token.
UnspentOrSpent(data) == {n \in Nonces : data.tokens[n] # "absent"}

-----------------------------------------------------------------------------
\* The tokens a copy of the vault can still present or export.
Unspent(data) == {n \in Nonces : data.tokens[n] = "unspent"}

\* build_presentation marks the token it takes in the data it was given.
MarkSpent(data, n) == [data EXCEPT !.tokens[n] = "spent"]

-----------------------------------------------------------------------------
\* Faulty variants of two of the steps below.

\* [RecordsKept] the enrollment is stored in a new vault.
EnrolledAfresh(p) ==
  /\ pc[p] = "enroll"
  /\ Goto(p, "save",
          [local[p] EXCEPT !.data = [Empty EXCEPT !.enrollments = {local[p].issuer},
                                                  !.tokens = local[p].data.tokens]])
  /\ UNCHANGED <<vault, drawn, released, exported, clobbered>>
\* [TypeOK] the vault is saved after the presentation has been written.
ProveThenSave(p, ch) ==
  \E n \in Unspent(vault) \cap Eligible[ch] :
    Open(p, "write", [Loaded EXCEPT !.out = [nonce |-> n, challenge |-> ch]])

-----------------------------------------------------------------------------
Enroll(p, i) == Open(p, "enroll", [Loaded EXCEPT !.issuer = i])
Enrolled(p) ==
  /\ pc[p] = "enroll"
  /\ Goto(p, "save",
          [local[p] EXCEPT !.data.enrollments = @ \cup {local[p].issuer}])
  /\ UNCHANGED <<vault, drawn, released, exported, clobbered>>

\* mint and vc-get need an enrollment in the vault they loaded.
Mint(p, i) ==
  i \in vault.enrollments /\ Open(p, "mint", [Loaded EXCEPT !.issuer = i])
Minted(p) ==
  /\ pc[p] = "mint"
  /\ \E fresh \in SUBSET (Nonces \ drawn) :
       /\ Cardinality(fresh) = Count
       /\ drawn' = drawn \cup fresh
       /\ Goto(p, "save",
               [local[p] EXCEPT !.data.tokens =
                  [n \in Nonces |-> IF n \in fresh THEN "unspent" ELSE @[n]]])
  /\ UNCHANGED <<vault, released, exported, clobbered>>

VcGet(p, i) ==
  i \in vault.enrollments /\ Open(p, "vc_get", [Loaded EXCEPT !.issuer = i])
VcGot(p) ==
  /\ pc[p] = "vc_get"
  /\ Goto(p, "save",
          [local[p] EXCEPT !.data.credentials = @ \cup {local[p].issuer}])
  /\ UNCHANGED <<vault, drawn, released, exported, clobbered>>

\* prove: choose a token of the copy and mark it spent there.
Prove(p, ch) ==
  \E n \in Unspent(vault) \cap Eligible[ch] :
    Open(p, "save",
         [Loaded EXCEPT !.data = MarkSpent(vault, n),
                        !.out = [nonce |-> n, challenge |-> ch]])

\* "persists the spent flag BEFORE releasing the presentation"
Save(p) ==
  /\ pc[p] = "save"
  /\ vault' = local[p].data
  /\ clobbered' = (clobbered \/ vault # local[p].loaded)
  /\ IF local[p].out = None THEN Exit(p) ELSE Goto(p, "write", local[p])
  /\ UNCHANGED <<drawn, released, exported>>

Write(p) ==
  /\ pc[p] = "write"
  /\ released' = released \cup {local[p].out}
  /\ Exit(p)
  /\ UNCHANGED <<vault, drawn, exported, clobbered>>

\* export: the unspent tokens of the copy; the vault is not saved.
Export(p) == Open(p, "export", [Loaded EXCEPT !.before = {r.nonce : r \in released}])
WriteExport(p) ==
  /\ pc[p] = "export"
  /\ exported' = [tokens |-> Unspent(local[p].data), before |-> local[p].before]
  /\ Exit(p)
  /\ UNCHANGED <<vault, drawn, released, clobbered>>

\* The command is killed, or its issuer refuses, or it cannot write a file.
Dies(p) ==
  /\ pc[p] # "idle"
  /\ Exit(p)
  /\ UNCHANGED <<vault, drawn, released, exported, clobbered>>

Next ==
  \E p \in Processes :
    \/ \E i \in Issuers : Enroll(p, i) \/ Mint(p, i) \/ VcGet(p, i)
    \/ Enrolled(p) \/ Minted(p) \/ VcGot(p)
    \/ \E ch \in Challenges : Prove(p, ch)
    \/ Save(p) \/ Write(p)
    \/ Export(p) \/ WriteExport(p)
    \/ Dies(p)

Spec == Init /\ [][Next]_vars

-----------------------------------------------------------------------------
Labels == {"idle", "enroll", "mint", "vc_get", "save", "write", "export"}

\* The shape of the state; and a command that is about to write a presentation
\* has one, of a token that it has marked spent in the copy it saved.
TypeOK ==
  /\ vault \in VaultData
  /\ pc \in [Processes -> Labels]
  /\ local \in [Processes ->
       [data : VaultData, loaded : VaultData, issuer : Issuers \cup {None},
        out : Presentations \cup {None}, before : SUBSET Nonces]]
  /\ drawn \in SUBSET Nonces
  /\ released \in SUBSET Presentations
  /\ exported \in [tokens : SUBSET Nonces, before : SUBSET Nonces]
  /\ clobbered \in BOOLEAN
  /\ \A p \in Processes :
       pc[p] = "write" =>
         /\ local[p].out \in Presentations
         /\ local[p].data.tokens[local[p].out.nonce] = "spent"

P == INSTANCE Purse WITH
  Nonces <- Nonces, Presentations <- Presentations,
  store <- vault.tokens, released <- released

\* The wallet is a purse, with any number of commands running and any of them
\* killed at any step: a presentation is written only when its token is
\* spent in the file, no token goes into two, and a token never comes back.
\* It stops being one when a command saves a copy that was loaded before
\* another command saved.
PurseUntilClobbered ==
  P!PurseInit /\ [][~clobbered' => [P!PurseNext]_(P!purse)]_vars

\* Enrollments and credentials, which every command rewrites without looking at
\* them, are never dropped (with the same proviso).
RecordsKept ==
  [][~clobbered' =>
       /\ vault.enrollments \subseteq vault'.enrollments
       /\ vault.credentials \subseteq vault'.credentials]_vars

\* An export file offers the extension no token of which a presentation had
\* been written when the command loaded the vault (with the same proviso).  A
\* token that is presented later is in both wallets: export does not mark it.
ExportedNotReleased ==
  ~clobbered => exported.tokens \cap exported.before = {}
=============================================================================
