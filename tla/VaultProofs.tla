---------------------------- MODULE VaultProofs ----------------------------
(***************************************************************************)
(* Proofs about Vault, for any processes, issuers, nonces and challenges:  *)
(* the types, what is exported, that records are kept, and that the wallet *)
(* is a purse as long as no stale copy is saved.                           *)
(***************************************************************************)
EXTENDS Vault, TLAPS

Tokens == [Nonces -> {"absent", "unspent", "spent"}]
Locals ==
  [data : VaultData, loaded : VaultData, issuer : Issuers \cup {None},
   out : Presentations \cup {None}, before : SUBSET Nonces]

\* What a command may do to the tokens of the copy it loaded: nothing, or add
\* some it did not have (Added); or spend the one it is going to present
\* (Marked).
AddTo(tokens, ns) ==
  [n \in Nonces |->
     IF n \in ns /\ tokens[n] = "absent" THEN "unspent" ELSE tokens[n]]
Added(l) ==
  /\ l.out = None
  /\ \E ns \in SUBSET Nonces : l.data.tokens = AddTo(l.loaded.tokens, ns)
Marked(l) ==
  /\ l.out \in Presentations
  /\ l.loaded.tokens[l.out.nonce] = "unspent"
  /\ l.data.tokens = [l.loaded.tokens EXCEPT ![l.out.nonce] = "spent"]
Kept(l) ==
  /\ l.loaded.enrollments \subseteq l.data.enrollments
  /\ l.loaded.credentials \subseteq l.data.credentials

\* What a command at a label has among its locals.  TypeOK says it of "write"
\* only; it is inductive with what a command is about to save.
Equipped(label, l) ==
  /\ label \in {"enroll", "mint", "vc_get"}
       => l.data = l.loaded /\ l.out = None /\ l.issuer \in Issuers
  /\ label = "save" => Kept(l) /\ (Added(l) \/ Marked(l))
  /\ label = "write" =>
       l.out \in Presentations /\ l.data.tokens[l.out.nonce] = "spent"

\* A nonce that is known somewhere has been drawn.
Known(data) == {n \in Nonces : data.tokens[n] # "absent"}

ProcessesInv ==
  /\ pc \in [Processes -> Labels]
  /\ local \in [Processes -> Locals]
  /\ \A p \in Processes :
       Equipped(pc[p], local[p]) /\ Known(local[p].data) \subseteq drawn

StorageInv ==
  /\ vault \in VaultData
  /\ Known(vault) \subseteq drawn
  /\ drawn \in SUBSET Nonces
  /\ released \in SUBSET Presentations
  /\ exported \in [tokens : SUBSET Nonces, before : SUBSET Nonces]
  /\ clobbered \in BOOLEAN

ShapeInv == StorageInv /\ ProcessesInv

LEMMA ShapeInvTypes == ShapeInv => TypeOK
BY DEF ShapeInv, StorageInv, ProcessesInv, TypeOK, Locals, Equipped

-----------------------------------------------------------------------------
LEMMA EmptyType == Empty \in VaultData /\ Known(Empty) = {}
BY DEF Empty, VaultData, Known

LEMMA NoLocalsType ==
  /\ NoLocals \in Locals /\ Known(NoLocals.data) = {}
  /\ NoLocals.issuer = None /\ NoLocals.out = None /\ NoLocals.before = {}
BY EmptyType DEF NoLocals, Locals

\* _open_vault: the copy is the vault, and so is what is remembered of it.
LEMMA LoadedType ==
  ASSUME vault \in VaultData
  PROVE  /\ Loaded \in Locals
         /\ Loaded.data = vault /\ Loaded.loaded = vault
         /\ Loaded.issuer = None /\ Loaded.out = None /\ Loaded.before = {}
<1> DEFINE held == [NoLocals EXCEPT !.data = vault]
<1>1. /\ held \in Locals /\ held.data = vault
      /\ held.issuer = None /\ held.out = None /\ held.before = {}
  BY NoLocalsType DEF Locals
<1>2. Loaded = [held EXCEPT !.loaded = vault]
  BY DEF Loaded
<1> HIDE DEF held
<1> QED BY <1>1, <1>2 DEF Locals

\* A process's move keeps the shape when its new locals have what its new label
\* asks for, and nonces are not forgotten.
LEMMA GotoShape ==
  ASSUME ProcessesInv, NEW p \in Processes, NEW label \in Labels,
         NEW l \in Locals, Goto(p, label, l), Equipped(label, l),
         drawn \subseteq drawn', Known(l.data) \subseteq drawn'
  PROVE  ProcessesInv'
<1>1. pc' = [pc EXCEPT ![p] = label] /\ local' = [local EXCEPT ![p] = l]
  BY DEF Goto
<1>2. pc \in [Processes -> Labels] /\ local \in [Processes -> Locals]
  BY DEF ProcessesInv
<1>3. pc' \in [Processes -> Labels] /\ local' \in [Processes -> Locals]
  BY <1>1, <1>2
<1>4. ASSUME NEW q \in Processes
      PROVE  Equipped(pc'[q], local'[q]) /\ Known(local'[q].data) \subseteq drawn'
  <2>1. CASE q = p
    <3>1. pc'[q] = label /\ local'[q] = l
      BY <1>1, <1>2, <2>1
    <3> QED BY <3>1
  <2>2. CASE q # p
    <3>1. pc'[q] = pc[q] /\ local'[q] = local[q]
      BY <1>1, <1>2, <2>2
    <3> QED BY <3>1 DEF ProcessesInv
  <2> QED BY <2>1, <2>2
<1>5. (\A q \in Processes : Equipped(pc[q], local[q]) /\ Known(local[q].data) \subseteq drawn)'
  BY <1>4 DEF Equipped, Added, Marked, Kept, Known
<1> QED BY <1>3, <1>5 DEF ProcessesInv

LEMMA ExitShape ==
  ASSUME ProcessesInv, NEW p \in Processes, Exit(p), drawn \subseteq drawn'
  PROVE  ProcessesInv'
BY NoLocalsType, GotoShape DEF Exit, Labels, Equipped

LEMMA ShapeInit == Init => ShapeInv
<1> SUFFICES ASSUME Init PROVE ShapeInv
  OBVIOUS
<1>1. StorageInv
  BY EmptyType DEF Init, StorageInv
<1>2. ProcessesInv
  BY NoLocalsType DEF Init, ProcessesInv, Labels, Equipped
<1> QED BY <1>1, <1>2 DEF ShapeInv

\* Commands that start.
LEMMA OpenShape ==
  ASSUME ShapeInv, NEW p \in Processes, NEW label \in Labels, NEW l \in Locals,
         Open(p, label, l), Equipped(label, l), Known(l.data) \subseteq drawn
  PROVE  ShapeInv'
<1>1. StorageInv'
  BY DEF Open, ShapeInv, StorageInv, Known
<1>2. ProcessesInv'
  BY GotoShape DEF Open, ShapeInv
<1> QED BY <1>1, <1>2 DEF ShapeInv

LEMMA StartShape ==
  ASSUME ShapeInv, NEW p \in Processes,
         \/ \E i \in Issuers : Enroll(p, i) \/ Mint(p, i) \/ VcGet(p, i)
         \/ \E ch \in Challenges : Prove(p, ch)
         \/ Export(p)
  PROVE  ShapeInv'
<1>1. /\ vault \in VaultData /\ Known(vault) \subseteq drawn
      /\ Loaded \in Locals
      /\ Loaded.data = vault /\ Loaded.loaded = vault /\ Loaded.out = None
  BY LoadedType DEF ShapeInv, StorageInv
<1>2. ASSUME NEW i \in Issuers, Enroll(p, i) \/ Mint(p, i) \/ VcGet(p, i)
      PROVE  ShapeInv'
  <2> DEFINE l == [Loaded EXCEPT !.issuer = i]
  <2>1. /\ l \in Locals /\ l.data = vault /\ l.loaded = vault
        /\ l.out = None /\ l.issuer = i
    BY <1>1 DEF Locals
  <2>2. Open(p, "enroll", l) \/ Open(p, "mint", l) \/ Open(p, "vc_get", l)
    BY <1>2 DEF Enroll, Mint, VcGet
  <2> HIDE DEF l
  <2> QED BY <1>1, <2>1, <2>2, OpenShape DEF Labels, Equipped
<1>3. ASSUME NEW ch \in Challenges, Prove(p, ch)
      PROVE  ShapeInv'
  <2>1. PICK n \in Unspent(vault) \cap Eligible[ch] :
          Open(p, "save", [Loaded EXCEPT !.data = MarkSpent(vault, n),
                                         !.out = [nonce |-> n, challenge |-> ch]])
    BY <1>3 DEF Prove
  <2> DEFINE marked == MarkSpent(vault, n)
             held == [Loaded EXCEPT !.data = marked]
             out == [nonce |-> n, challenge |-> ch]
             l == [held EXCEPT !.out = out]
  <2>2. n \in Nonces /\ vault.tokens[n] = "unspent"
    BY DEF Unspent
  <2>3. /\ marked \in VaultData /\ marked.tokens = [vault.tokens EXCEPT ![n] = "spent"]
        /\ marked.enrollments = vault.enrollments
        /\ marked.credentials = vault.credentials
    BY <1>1, <2>2 DEF MarkSpent, VaultData
  <2>4. Known(marked) \subseteq drawn
    BY <1>1, <2>2, <2>3 DEF Known, VaultData
  <2>5. out \in Presentations /\ out.nonce = n
    BY <2>2 DEF Presentations
  <2>6. Open(p, "save", l)
    BY <2>1
  <2> HIDE DEF marked, out
  <2>7. held \in Locals /\ held.data = marked /\ held.loaded = vault
    BY <1>1, <2>3 DEF Locals
  <2> HIDE DEF held
  <2>8. l \in Locals /\ l.data = marked /\ l.loaded = vault /\ l.out = out
    BY <2>5, <2>7 DEF Locals
  <2>9. Kept(l) /\ Marked(l)
    BY <2>2, <2>3, <2>5, <2>8 DEF Kept, Marked
  <2> QED BY <2>4, <2>6, <2>8, <2>9, OpenShape DEF Labels, Equipped
<1>4. CASE Export(p)
  <2> DEFINE before == {r.nonce : r \in released}
             l == [Loaded EXCEPT !.before = before]
  <2>1. before \in SUBSET Nonces
    BY DEF ShapeInv, StorageInv, Presentations
  <2>2. Open(p, "export", l)
    BY <1>4 DEF Export
  <2> HIDE DEF before
  <2>3. l \in Locals /\ l.data = vault /\ l.out = None
    BY <1>1, <2>1 DEF Locals
  <2> QED BY <1>1, <2>2, <2>3, OpenShape DEF Labels, Equipped
<1> QED BY <1>2, <1>3, <1>4

\* Commands that heard from their issuer.
LEMMA WorkShape ==
  ASSUME ShapeInv, NEW p \in Processes, Enrolled(p) \/ Minted(p) \/ VcGot(p)
  PROVE  ShapeInv'
<1> DEFINE data == local[p].data
<1>1. /\ local[p] \in Locals /\ data \in VaultData
      /\ local[p].loaded = data /\ local[p].out = None /\ local[p].issuer \in Issuers
      /\ Known(data) \subseteq drawn
  BY DEF Enrolled, Minted, VcGot, ShapeInv, ProcessesInv, Equipped, Locals
<1>2. ASSUME NEW d \in VaultData, NEW ns \in SUBSET Nonces,
             Goto(p, "save", [local[p] EXCEPT !.data = d]),
             data.enrollments \subseteq d.enrollments,
             data.credentials \subseteq d.credentials,
             d.tokens = AddTo(data.tokens, ns),
             drawn \subseteq drawn', Known(d) \subseteq drawn'
      PROVE  ProcessesInv'
  <2> DEFINE l == [local[p] EXCEPT !.data = d]
  <2>1. l \in Locals /\ l.data = d /\ l.loaded = data /\ l.out = None
    BY <1>1 DEF Locals
  <2>2. Goto(p, "save", l)
    BY <1>2
  <2> HIDE DEF l, data
  <2>3. Kept(l) /\ Added(l)
    BY <1>2, <2>1 DEF Kept, Added
  <2>4. Equipped("save", l)
    BY <2>3 DEF Equipped
  <2> QED BY <1>2, <2>1, <2>2, <2>4, GotoShape DEF ShapeInv, Labels
<1>3. ASSUME Enrolled(p) \/ VcGot(p)
      PROVE  ShapeInv'
  <2> DEFINE e == [data EXCEPT !.enrollments = @ \cup {local[p].issuer}]
             c == [data EXCEPT !.credentials = @ \cup {local[p].issuer}]
  <2>1. /\ e \in VaultData /\ e.tokens = data.tokens /\ e.credentials = data.credentials
        /\ data.enrollments \subseteq e.enrollments
    BY <1>1 DEF VaultData
  <2>2. /\ c \in VaultData /\ c.tokens = data.tokens /\ c.enrollments = data.enrollments
        /\ data.credentials \subseteq c.credentials
    BY <1>1 DEF VaultData
  <2>3. data.tokens = AddTo(data.tokens, {})
    BY <1>1 DEF VaultData, AddTo
  <2>4. \/ Goto(p, "save", [local[p] EXCEPT !.data = e])
        \/ Goto(p, "save", [local[p] EXCEPT !.data = c])
    BY <1>3 DEF Enrolled, VcGot
  <2>5. UNCHANGED <<vault, drawn, released, exported, clobbered>>
    BY <1>3 DEF Enrolled, VcGot
  <2>6. Known(e) = Known(data) /\ Known(c) = Known(data)
    BY <2>1, <2>2 DEF Known
  <2> HIDE DEF e, c, data
  <2>7. CASE Goto(p, "save", [local[p] EXCEPT !.data = e])
    <3>1. Known(e) \subseteq drawn' /\ drawn \subseteq drawn'
      BY <1>1, <2>5, <2>6
    <3>2. ProcessesInv'
      BY <1>2, <2>1, <2>3, <2>7, <3>1
    <3> QED BY <2>5, <3>2 DEF ShapeInv, StorageInv, Known
  <2>8. CASE Goto(p, "save", [local[p] EXCEPT !.data = c])
    <3>1. Known(c) \subseteq drawn' /\ drawn \subseteq drawn'
      BY <1>1, <2>5, <2>6
    <3>2. ProcessesInv'
      BY <1>2, <2>2, <2>3, <2>8, <3>1
    <3> QED BY <2>5, <3>2 DEF ShapeInv, StorageInv, Known
  <2> QED BY <2>4, <2>7, <2>8
<1>4. CASE Minted(p)
  <2>1. PICK fresh \in SUBSET (Nonces \ drawn) :
          /\ drawn' = drawn \cup fresh
          /\ Goto(p, "save",
                  [local[p] EXCEPT !.data.tokens =
                     [n \in Nonces |-> IF n \in fresh THEN "unspent" ELSE @[n]]])
    BY <1>4 DEF Minted
  <2> DEFINE d == [data EXCEPT !.tokens =
                     [n \in Nonces |-> IF n \in fresh THEN "unspent" ELSE @[n]]]
  <2>2. /\ d \in VaultData
        /\ d.enrollments = data.enrollments /\ d.credentials = data.credentials
        /\ d.tokens = [n \in Nonces |-> IF n \in fresh THEN "unspent" ELSE data.tokens[n]]
    BY <1>1 DEF VaultData
  <2>3. \A n \in fresh : data.tokens[n] = "absent"
    BY <1>1 DEF Known
  <2>4. Goto(p, "save", [local[p] EXCEPT !.data = d])
    BY <2>1
  <2>5. UNCHANGED <<vault, released, exported, clobbered>>
    BY <1>4 DEF Minted
  <2>6. Known(d) \subseteq drawn'
    BY <1>1, <2>1, <2>2 DEF Known
  <2> HIDE DEF d, data
  <2>7. d.tokens = AddTo(data.tokens, fresh)
    BY <2>2, <2>3 DEF AddTo
  <2>8. ProcessesInv'
    BY <1>2, <2>1, <2>2, <2>4, <2>6, <2>7
  <2> QED BY <2>1, <2>5, <2>8 DEF ShapeInv, StorageInv, Known
<1> QED BY <1>3, <1>4

LEMMA ShapeStep == ShapeInv /\ [Next]_vars => ShapeInv'
<1> SUFFICES ASSUME ShapeInv, [Next]_vars PROVE ShapeInv'
  OBVIOUS
<1>1. ASSUME NEW p \in Processes, Save(p) PROVE ShapeInv'
  <2>1. /\ local[p] \in Locals /\ local[p].data \in VaultData
        /\ Known(local[p].data) \subseteq drawn
        /\ Added(local[p]) \/ Marked(local[p])
    BY <1>1 DEF Save, ShapeInv, ProcessesInv, Equipped, Locals
  <2>2. clobbered' \in BOOLEAN
    BY <1>1, Zenon DEF Save
  <2>3. vault' = local[p].data /\ UNCHANGED <<drawn, released, exported>>
    BY <1>1 DEF Save
  <2>4. StorageInv'
    BY <2>1, <2>2, <2>3 DEF ShapeInv, StorageInv, Known
  <2>5. CASE local[p].out = None
    BY <1>1, <2>3, <2>4, <2>5, ExitShape DEF Save, ShapeInv
  <2>6. CASE local[p].out # None
    <3>1. Marked(local[p])
      BY <2>1, <2>6 DEF Added
    <3>2. Equipped("write", local[p])
      <4>1. local[p].out.nonce \in Nonces
        BY <3>1 DEF Marked, Presentations
      <4> QED BY <2>1, <3>1, <4>1 DEF Marked, Equipped, Locals, VaultData
    <3>3. Goto(p, "write", local[p])
      BY <1>1, <2>6 DEF Save
    <3>4. ProcessesInv'
      BY <2>1, <2>3, <3>2, <3>3, GotoShape DEF ShapeInv, Labels
    <3> QED BY <2>4, <3>4 DEF ShapeInv
  <2> QED BY <2>5, <2>6
<1>2. ASSUME NEW p \in Processes, Write(p) PROVE ShapeInv'
  <2>1. local[p].out \in Presentations
    BY <1>2 DEF Write, ShapeInv, ProcessesInv, Equipped
  <2>2. StorageInv'
    BY <1>2, <2>1 DEF Write, ShapeInv, StorageInv, Known
  <2> QED BY <1>2, <2>2, ExitShape DEF Write, ShapeInv
<1>3. ASSUME NEW p \in Processes, WriteExport(p) PROVE ShapeInv'
  <2>1. exported' \in [tokens : SUBSET Nonces, before : SUBSET Nonces]
    BY <1>3 DEF WriteExport, Unspent, ShapeInv, ProcessesInv, Locals
  <2>2. StorageInv'
    BY <1>3, <2>1 DEF WriteExport, ShapeInv, StorageInv, Known
  <2> QED BY <1>3, <2>2, ExitShape DEF WriteExport, ShapeInv
<1>4. ASSUME NEW p \in Processes, Dies(p) PROVE ShapeInv'
  <2>1. StorageInv'
    BY <1>4 DEF Dies, ShapeInv, StorageInv, Known
  <2> QED BY <1>4, <2>1, ExitShape DEF Dies, ShapeInv
<1>5. CASE UNCHANGED vars
  BY <1>5 DEF vars, ShapeInv, StorageInv, ProcessesInv, Known, Equipped, Added, Marked, Kept
<1> QED BY <1>1, <1>2, <1>3, <1>4, <1>5, StartShape, WorkShape DEF Next

LEMMA ShapeCorrect == Spec => []ShapeInv
BY ShapeInit, ShapeStep, PTL DEF Spec

\* vault.py and the commands of cli.py: whatever commands overlap and wherever
\* they are killed, a presentation is written from a copy in which its token is
\* spent, and the vault keeps its form.
THEOREM TypeCorrect == Spec => []TypeOK
BY ShapeCorrect, ShapeInvTypes, PTL

-----------------------------------------------------------------------------
\* save: a vault that has not changed since it was loaded is replaced by one
\* with all its enrollments and credentials.
THEOREM RecordsStay == Spec => RecordsKept
<1>1. ASSUME ShapeInv, [Next]_vars, ~clobbered'
      PROVE  /\ vault.enrollments \subseteq vault'.enrollments
             /\ vault.credentials \subseteq vault'.credentials
  <2>1. CASE vault' = vault
    BY <2>1
  <2>2. ASSUME NEW p \in Processes, Save(p)
        PROVE  /\ vault.enrollments \subseteq vault'.enrollments
               /\ vault.credentials \subseteq vault'.credentials
    <3>1. vault' = local[p].data /\ vault = local[p].loaded
      BY <1>1, <2>2 DEF Save
    <3>2. Kept(local[p])
      BY <1>1, <2>2 DEF Save, ShapeInv, ProcessesInv, Equipped
    <3> QED BY <3>1, <3>2 DEF Kept
  <2>3. vault' = vault \/ \E p \in Processes : Save(p)
    BY <1>1 DEF Next, vars, Open, Enroll, Enrolled, Mint, Minted, VcGet, VcGot, Prove,
       Write, Export, WriteExport, Dies
  <2> QED BY <2>1, <2>2, <2>3
<1>2. ShapeInv /\ [Next]_vars =>
        [~clobbered' => /\ vault.enrollments \subseteq vault'.enrollments
                        /\ vault.credentials \subseteq vault'.credentials]_vars
  BY <1>1
<1> QED BY <1>2, ShapeCorrect, PTL DEF Spec, RecordsKept

-----------------------------------------------------------------------------
\* Commands between the save and the output file.
Writing == {p \in Processes : pc[p] = "write"}

\* What makes the wallet a purse: besides being spent in the file, the token a
\* command is about to present is in no other command's hand and in no
\* presentation.
Exclusive ==
  /\ \A p \in Writing :
       /\ vault.tokens[local[p].out.nonce] = "spent"
       /\ \A r \in released : r.nonce # local[p].out.nonce
  /\ \A p, q \in Writing : local[p].out.nonce = local[q].out.nonce => p = q
  /\ \A r \in released : vault.tokens[r.nonce] = "spent"

\* What a running export has loaded as presented is not among the tokens it is
\* going to write, nor among those written.
Withheld ==
  /\ \A p \in Processes : pc[p] = "export" =>
       \A n \in local[p].before : local[p].data.tokens[n] = "spent"
  /\ exported.tokens \cap exported.before = {}

WalletInv == ~clobbered => Exclusive /\ Withheld

LEMMA WalletInit == Init => WalletInv
BY DEF Init, WalletInv, Exclusive, Withheld, Writing

\* A command that goes elsewhere than to write or to export does neither.
LEMMA Elsewhere ==
  ASSUME ProcessesInv, NEW p \in Processes, NEW label, NEW l,
         Goto(p, label, l)
  PROVE  \A q \in Processes :
           \/ q # p /\ pc'[q] = pc[q] /\ local'[q] = local[q]
           \/ q = p /\ pc'[q] = label /\ local'[q] = l
BY DEF ProcessesInv, Goto

LEMMA Keeps ==
  ASSUME Exclusive, UNCHANGED <<vault, released>>,
         \A q \in Processes : pc'[q] = "write" =>
           pc[q] = "write" /\ local'[q] = local[q]
  PROVE  Exclusive'
BY DEF Exclusive, Writing

LEMMA Withholds ==
  ASSUME Withheld, UNCHANGED exported,
         \A q \in Processes : pc'[q] = "export" =>
           pc[q] = "export" /\ local'[q] = local[q]
  PROVE  Withheld'
BY DEF Withheld

\* A command saves the copy of an unchanged vault.
LEMMA SaveExclusive ==
  ASSUME ShapeInv, Exclusive, NEW p \in Processes, Save(p), ~clobbered'
  PROVE  Exclusive'
<1>1. /\ vault' = local[p].data /\ vault = local[p].loaded /\ released' = released
      /\ Added(local[p]) \/ Marked(local[p])
  BY DEF Save, ShapeInv, ProcessesInv, Equipped
<1>2. /\ \A r \in released : r.nonce \in Nonces
      /\ \A q \in Writing : local[q].out.nonce \in Nonces
      /\ vault.tokens \in Tokens
  BY DEF ShapeInv, StorageInv, ProcessesInv, Equipped, Presentations, Writing,
     VaultData, Tokens
<1>3. CASE local[p].out = None
  <2>1. \A q \in Processes : pc'[q] = "write" => pc[q] = "write" /\ local'[q] = local[q]
    BY <1>3, Elsewhere DEF Save, Exit, ShapeInv
  <2>2. CASE Added(local[p])
    <3>1. \A n \in Nonces : vault.tokens[n] = "spent" => vault'.tokens[n] = "spent"
      BY <1>1, <2>2 DEF Added, AddTo
    <3> QED BY <1>1, <1>2, <2>1, <3>1 DEF Exclusive, Writing
  <2>3. CASE Marked(local[p])
    <3>1. local[p].out.nonce \in Nonces
      BY <2>3 DEF Marked, Presentations
    <3>2. \A n \in Nonces : vault.tokens[n] = "spent" => vault'.tokens[n] = "spent"
      BY <1>1, <1>2, <2>3, <3>1 DEF Marked, Tokens
    <3> QED BY <1>1, <1>2, <2>1, <3>2 DEF Exclusive, Writing
  <2> QED BY <1>1, <2>2, <2>3
<1>4. CASE local[p].out # None
  <2> DEFINE n == local[p].out.nonce
  <2>1. Marked(local[p])
    BY <1>1, <1>4 DEF Added
  <2>2. /\ n \in Nonces /\ vault.tokens[n] = "unspent"
        /\ vault'.tokens = [vault.tokens EXCEPT ![n] = "spent"]
    BY <1>1, <2>1 DEF Marked, Presentations
  <2>3. vault'.tokens[n] = "spent" /\ \A m \in Nonces \ {n} : vault'.tokens[m] = vault.tokens[m]
    BY <1>2, <2>2 DEF Tokens
  <2>4. \A q \in Processes :
          \/ q # p /\ pc'[q] = pc[q] /\ local'[q] = local[q]
          \/ q = p /\ local'[q] = local[p]
    BY <1>4, Elsewhere DEF Save, ShapeInv
  <2>5. /\ \A r \in released : r.nonce # n
        /\ \A q \in Writing : local[q].out.nonce # n
    BY <2>2 DEF Exclusive
  <2>6. \A q \in Writing' : q = p \/ (q \in Writing /\ local'[q] = local[q])
    BY <2>4 DEF Writing
  <2>7. local'[p].out.nonce = n
    BY <2>4
  <2> HIDE DEF n
  <2> QED BY <1>1, <1>2, <2>3, <2>5, <2>6, <2>7 DEF Exclusive
<1> QED BY <1>3, <1>4

LEMMA WalletStep == ShapeInv /\ WalletInv /\ [Next]_vars => WalletInv'
<1> SUFFICES ASSUME ShapeInv, WalletInv, [Next]_vars, ~clobbered'
             PROVE  Exclusive' /\ Withheld'
  BY DEF WalletInv
<1>0. ProcessesInv
  BY DEF ShapeInv
<1>1. ASSUME NEW p \in Processes,
             \/ \E i \in Issuers : Enroll(p, i) \/ Mint(p, i) \/ VcGet(p, i)
             \/ \E ch \in Challenges : Prove(p, ch)
             \/ Enrolled(p) \/ Minted(p) \/ VcGot(p) \/ Dies(p)
      PROVE  Exclusive' /\ Withheld'
  <2>1. UNCHANGED <<vault, released, exported, clobbered>>
    BY <1>1 DEF Enroll, Mint, VcGet, Prove, Open, Enrolled, Minted, VcGot, Dies
  <2>2. \E label, l : label \notin {"write", "export"} /\ Goto(p, label, l)
    BY <1>1 DEF Enroll, Mint, VcGet, Prove, Open, Enrolled, Minted, VcGot, Dies, Exit
  <2>3. \A q \in Processes : pc'[q] \in {"write", "export"} =>
          pc'[q] = pc[q] /\ local'[q] = local[q]
    BY <1>0, <2>2, Elsewhere
  <2>4. Exclusive /\ Withheld
    BY <2>1 DEF WalletInv
  <2> QED BY <2>1, <2>3, <2>4, Keeps, Withholds
<1>2. ASSUME NEW p \in Processes, Export(p) PROVE Exclusive' /\ Withheld'
  <2> DEFINE before == {r.nonce : r \in released}
             l == [Loaded EXCEPT !.before = before]
  <2>1. UNCHANGED <<vault, released, exported, clobbered>> /\ Goto(p, "export", l)
    BY <1>2 DEF Export, Open
  <2>2. l.data = vault /\ l.before = before
    BY LoadedType DEF ShapeInv, StorageInv, Locals
  <2>3. Exclusive /\ Withheld
    BY <2>1 DEF WalletInv
  <2>4. \A n \in before : vault.tokens[n] = "spent"
    BY <2>3 DEF Exclusive
  <2> HIDE DEF before, l
  <2>5. \A q \in Processes :
          \/ q # p /\ pc'[q] = pc[q] /\ local'[q] = local[q]
          \/ q = p /\ pc'[q] = "export" /\ local'[q] = l
    BY <1>0, <2>1, Elsewhere
  <2>6. Exclusive'
    BY <2>1, <2>3, <2>5, Keeps
  <2>7. Withheld'
    BY <2>1, <2>2, <2>3, <2>4, <2>5 DEF Withheld
  <2> QED BY <2>6, <2>7
<1>3. ASSUME NEW p \in Processes, WriteExport(p) PROVE Exclusive' /\ Withheld'
  <2>1. /\ UNCHANGED <<vault, released, clobbered>> /\ Exit(p) /\ pc[p] = "export"
        /\ exported' = [tokens |-> Unspent(local[p].data), before |-> local[p].before]
    BY <1>3 DEF WriteExport
  <2>2. \A q \in Processes : pc'[q] \in {"write", "export"} =>
          pc'[q] = pc[q] /\ local'[q] = local[q]
    BY <1>0, <2>1, Elsewhere DEF Exit
  <2>3. Exclusive /\ Withheld
    BY <2>1 DEF WalletInv
  <2>4. Exclusive'
    BY <2>1, <2>2, <2>3, Keeps
  <2>5. exported'.tokens \cap exported'.before = {}
    BY <2>1, <2>3 DEF Withheld, Unspent
  <2> QED BY <2>2, <2>3, <2>4, <2>5 DEF Withheld
<1>4. ASSUME NEW p \in Processes, Save(p) PROVE Exclusive' /\ Withheld'
  <2>1. ~clobbered /\ UNCHANGED exported
    BY <1>4 DEF Save
  <2>2. \A q \in Processes : pc'[q] = "export" => pc[q] = "export" /\ local'[q] = local[q]
    BY <1>0, <1>4, Elsewhere DEF Save, Exit
  <2> QED BY <1>4, <2>1, <2>2, SaveExclusive, Withholds DEF WalletInv
<1>5. ASSUME NEW p \in Processes, Write(p) PROVE Exclusive' /\ Withheld'
  <2>1. /\ UNCHANGED <<vault, exported, clobbered>> /\ Exit(p) /\ p \in Writing
        /\ released' = released \cup {local[p].out}
    BY <1>5 DEF Write, Writing
  <2>2. \A q \in Processes : pc'[q] \in {"write", "export"} =>
          q # p /\ pc'[q] = pc[q] /\ local'[q] = local[q]
    BY <1>0, <2>1, Elsewhere DEF Exit
  <2>3. Exclusive /\ Withheld
    BY <2>1 DEF WalletInv
  <2>4. Exclusive'
    BY <2>1, <2>2, <2>3 DEF Exclusive, Writing
  <2> QED BY <2>1, <2>2, <2>3, <2>4, Withholds
<1>6. CASE UNCHANGED vars
  BY <1>6, Keeps, Withholds DEF vars, WalletInv
<1> QED BY <1>1, <1>2, <1>3, <1>4, <1>5, <1>6 DEF Next

LEMMA WalletCorrect == Spec => [](ShapeInv /\ WalletInv)
BY ShapeInit, WalletInit, ShapeStep, WalletStep, PTL DEF Spec

\* export_token_entries: the file holds no token of which a presentation was
\* out when the command loaded the vault, until a stale copy is saved.
THEOREM ExportWithholds == Spec => []ExportedNotReleased
<1>1. WalletInv => ExportedNotReleased
  BY DEF WalletInv, Withheld, ExportedNotReleased
<1> QED BY <1>1, WalletCorrect, PTL

-----------------------------------------------------------------------------
\* Each step is one of the purse's or leaves the purse alone: saving what mint
\* has added to adds, saving what prove has marked spends, writing releases.
LEMMA PurseStep ==
  ASSUME ShapeInv, WalletInv, [Next]_vars, ~clobbered'
  PROVE  [P!PurseNext]_(P!purse)
<1>1. ASSUME NEW p \in Processes, Save(p)
      PROVE  P!PurseNext
  <2>1. /\ vault' = local[p].data /\ vault = local[p].loaded /\ released' = released
        /\ Added(local[p]) \/ Marked(local[p])
    BY <1>1 DEF Save, ShapeInv, ProcessesInv, Equipped
  <2>2. CASE Added(local[p])
    <3>1. PICK ns \in SUBSET Nonces : vault'.tokens = AddTo(vault.tokens, ns)
      BY <2>1, <2>2 DEF Added
    <3>2. P!Add(ns)
      BY <2>1, <3>1 DEF AddTo, P!Add
    <3> QED BY <3>2 DEF P!PurseNext
  <2>3. CASE Marked(local[p])
    <3>1. local[p].out.nonce \in Nonces
      BY <2>3 DEF Marked, Presentations
    <3>2. P!Spend(local[p].out.nonce)
      BY <2>1, <2>3 DEF Marked, P!Spend
    <3> QED BY <3>1, <3>2 DEF P!PurseNext
  <2> QED BY <2>1, <2>2, <2>3
<1>2. ASSUME NEW p \in Processes, Write(p)
      PROVE  P!PurseNext
  <2>1. local[p].out \in Presentations
    BY <1>2 DEF Write, ShapeInv, ProcessesInv, Equipped
  <2>2. /\ vault' = vault /\ ~clobbered /\ p \in Writing
        /\ released' = released \cup {local[p].out}
    BY <1>2 DEF Write, Writing
  <2>3. P!Release(local[p].out)
    BY <2>2 DEF WalletInv, Exclusive, P!Release
  <2> QED BY <2>1, <2>3 DEF P!PurseNext
<1>3. CASE \A p \in Processes : ~ Save(p) /\ ~ Write(p)
  <2>1. UNCHANGED <<vault, released>>
    BY <1>3 DEF Next, vars, Open, Enroll, Enrolled, Mint, Minted, VcGet, VcGot, Prove,
       Export, WriteExport, Dies
  <2> QED BY <2>1 DEF P!purse
<1> QED BY <1>1, <1>2, <1>3

\* The vault's tokens with the presentation files written implement Purse, step
\* by step, as long as no stale copy is saved.
THEOREM VaultIsPurse == Spec => PurseUntilClobbered
<1>1. Init => P!PurseInit
  BY DEF Init, Empty, P!PurseInit
<1>2. ShapeInv /\ WalletInv /\ [Next]_vars =>
        [~clobbered' => [P!PurseNext]_(P!purse)]_vars
  BY PurseStep
<1> QED BY <1>1, <1>2, WalletCorrect, PTL DEF Spec, PurseUntilClobbered

-----------------------------------------------------------------------------
\* What a lock on the vault file would buy: with one command at a time no save
\* is of a stale copy, and the proviso falls away.
OneAtATime == \A p, q \in Processes : p = q

UpToDate ==
  /\ ~clobbered
  /\ \A p \in Processes :
       pc[p] \in {"enroll", "mint", "vc_get", "save"} => local[p].loaded = vault

LEMMA UpToDateStep ==
  ASSUME OneAtATime, ShapeInv, UpToDate, [Next]_vars
  PROVE  UpToDate'
<1>0. /\ ProcessesInv
      /\ Loaded \in Locals /\ Loaded.loaded = vault
  BY LoadedType DEF ShapeInv, StorageInv
<1>1. ASSUME NEW p \in Processes, Save(p) \/ Write(p) \/ WriteExport(p) \/ Dies(p)
      PROVE  UpToDate'
  <2>1. ~clobbered'
    BY <1>1 DEF UpToDate, Save, Write, WriteExport, Dies
  <2>2. pc'[p] \in {"idle", "write"}
    BY <1>0, <1>1 DEF ProcessesInv, Save, Write, WriteExport, Dies, Exit, Goto
  <2> QED BY <2>1, <2>2 DEF OneAtATime, UpToDate
<1>2. ASSUME NEW p \in Processes, Enrolled(p) \/ Minted(p) \/ VcGot(p)
      PROVE  UpToDate'
  <2>1. /\ UNCHANGED <<vault, clobbered>>
        /\ \E d : Goto(p, "save", [local[p] EXCEPT !.data = d])
    BY <1>2 DEF Enrolled, Minted, VcGot
  <2>2. local'[p].loaded = local[p].loaded
    BY <1>0, <2>1 DEF ProcessesInv, Locals, Goto
  <2>3. local[p].loaded = vault
    BY <1>2 DEF UpToDate, Enrolled, Minted, VcGot
  <2> QED BY <2>1, <2>2, <2>3 DEF OneAtATime, UpToDate
<1>3. ASSUME NEW p \in Processes,
             \/ \E i \in Issuers : Enroll(p, i) \/ Mint(p, i) \/ VcGet(p, i)
             \/ \E ch \in Challenges : Prove(p, ch)
             \/ Export(p)
      PROVE  UpToDate'
  <2> DEFINE Starts == \E label, l : l.loaded = vault /\ Open(p, label, l)
  <2>1. Starts
    <3>1. ASSUME NEW i \in Issuers, Enroll(p, i) \/ Mint(p, i) \/ VcGet(p, i)
          PROVE  Starts
      <4> DEFINE l == [Loaded EXCEPT !.issuer = i]
      <4>1. l.loaded = vault
        BY <1>0 DEF Locals
      <4>2. Open(p, "enroll", l) \/ Open(p, "mint", l) \/ Open(p, "vc_get", l)
        BY <3>1 DEF Enroll, Mint, VcGet
      <4> HIDE DEF l
      <4> QED BY <4>1, <4>2
    <3>2. ASSUME NEW ch \in Challenges, Prove(p, ch) PROVE Starts
      <4>1. PICK n \in Unspent(vault) \cap Eligible[ch] :
              Open(p, "save", [Loaded EXCEPT !.data = MarkSpent(vault, n),
                                             !.out = [nonce |-> n, challenge |-> ch]])
        BY <3>2 DEF Prove
      <4> DEFINE l == [Loaded EXCEPT !.data = MarkSpent(vault, n),
                                     !.out = [nonce |-> n, challenge |-> ch]]
      <4>2. l.loaded = vault
        BY <1>0 DEF Locals
      <4> HIDE DEF l
      <4> QED BY <4>1, <4>2 DEF l
    <3>3. CASE Export(p)
      <4> DEFINE l == [Loaded EXCEPT !.before = {r.nonce : r \in released}]
      <4>1. l.loaded = vault /\ Open(p, "export", l)
        BY <1>0, <3>3 DEF Export, Locals
      <4> HIDE DEF l
      <4> QED BY <4>1
    <3> QED BY <1>3, <3>1, <3>2, <3>3
  <2>2. UNCHANGED <<vault, clobbered>> /\ local'[p].loaded = vault
    BY <1>0, <2>1 DEF Open, Goto, ProcessesInv
  <2> QED BY <2>2 DEF OneAtATime, UpToDate
<1>4. CASE UNCHANGED vars
  BY <1>4 DEF vars, UpToDate
<1> QED BY <1>1, <1>2, <1>3, <1>4 DEF Next

\* Run one at a time, commands leave a purse, without a proviso and although
\* each may be killed between any two steps.
THEOREM SerialVaultIsPurse ==
  ASSUME OneAtATime
  PROVE  Spec => P!PurseSpec
<1>1. Init => UpToDate /\ P!PurseInit
  BY DEF Init, Empty, UpToDate, P!PurseInit
<1>2. ShapeInv /\ UpToDate /\ [Next]_vars => UpToDate'
  BY UpToDateStep
<1>3. ShapeInv /\ WalletInv /\ UpToDate' /\ [Next]_vars => [P!PurseNext]_(P!purse)
  BY PurseStep DEF UpToDate
<1> QED BY <1>1, <1>2, <1>3, WalletCorrect, PTL DEF Spec, P!PurseSpec
=============================================================================
