-------------------------- MODULE ExtensionProofs --------------------------
(***************************************************************************)
(* Proofs about Extension, for any handlers, tabs, sites, challenges and   *)
(* files: the types, that a token is spent before it is released, and that *)
(* the wallet is a purse as long as no stale list is saved.                *)
(***************************************************************************)
EXTENDS Extension, TLAPS

Locals ==
  [tab : Tabs \cup {None}, challenge : Challenges \cup {None},
   nonce : Nonces \cup {None}, incoming : SUBSET Nonces, snapshot : Stored]

\* The two halves of TypeOK: what a handler at a label has among its locals,
\* and the rest of the state.
Equipped(label, locals) ==
  /\ label \in {"approve_read", "approve_write", "deliver"}
       => locals.tab \in Tabs /\ locals.challenge \in Challenges
  /\ label \in {"approve_write", "deliver"}
       => locals.nonce \in Eligible[locals.challenge]
  /\ label = "approve_write" => locals.snapshot[locals.nonce] = "unspent"

HandlersType ==
  /\ pc \in [Handlers -> Labels]
  /\ local \in [Handlers -> Locals]
  /\ \A h \in Handlers : Equipped(pc[h], local[h])

StorageType ==
  /\ tokens \in Stored
  /\ pending \in [Tabs -> Challenges \cup {None}]
  /\ page \in [Tabs -> Sites \cup {None}]
  /\ popup \in [tab : Tabs \cup {None}, challenge : Challenges \cup {None}]
  /\ popup.tab = None => popup.challenge = None
  /\ drawn \in SUBSET MintNonces
  /\ consented \in SUBSET Challenges
  /\ released \in SUBSET Presentations
  /\ clobbered \in BOOLEAN

LEMMA TypeHalves == TypeOK <=> StorageType /\ HandlersType
BY DEF TypeOK, StorageType, HandlersType, Equipped, Locals

-----------------------------------------------------------------------------
\* The operations on the stored list.

LEMMA MergeStored ==
  ASSUME NEW store \in Stored, NEW incoming \in SUBSET Nonces
  PROVE  Merge(store, incoming) \in Stored
BY DEF Merge, Stored

LEMMA MarkSpentStored ==
  ASSUME NEW store \in Stored, NEW n \in Nonces
  PROVE  MarkSpent(store, n) \in Stored
BY DEF MarkSpent, Stored

LEMMA NoLocalsType == NoLocals \in Locals
BY DEF NoLocals, Locals, Stored

-----------------------------------------------------------------------------
\* A handler's move keeps the types when its new locals have what its new label
\* asks for.
LEMMA GotoTypes ==
  ASSUME HandlersType, NEW h \in Handlers, NEW label \in Labels,
         NEW locals \in Locals, Goto(h, label, locals), Equipped(label, locals)
  PROVE  HandlersType'
<1>1. pc' = [pc EXCEPT ![h] = label] /\ local' = [local EXCEPT ![h] = locals]
  BY DEF Goto
<1>2. pc \in [Handlers -> Labels] /\ local \in [Handlers -> Locals]
  BY DEF HandlersType
<1>3. pc' \in [Handlers -> Labels] /\ local' \in [Handlers -> Locals]
  BY <1>1, <1>2
<1>4. ASSUME NEW g \in Handlers
      PROVE  Equipped(pc'[g], local'[g])
  <2>1. CASE g = h
    <3>1. pc'[g] = label /\ local'[g] = locals
      BY <1>1, <1>2, <2>1
    <3> QED BY <3>1
  <2>2. CASE g # h
    <3>1. pc'[g] = pc[g] /\ local'[g] = local[g]
      BY <1>1, <1>2, <2>2
    <3> QED BY <3>1 DEF HandlersType
  <2> QED BY <2>1, <2>2
<1> QED BY <1>3, <1>4 DEF HandlersType, Equipped

LEMMA ReturnTypes ==
  ASSUME HandlersType, NEW h \in Handlers, Return(h)
  PROVE  HandlersType'
BY NoLocalsType, GotoTypes DEF Return, Labels, Equipped

LEMMA TypeInit == Init => TypeOK
<1> SUFFICES ASSUME Init PROVE TypeOK
  OBVIOUS
<1>1. StorageType
  BY DEF Init, StorageType, Stored, Closed
<1>2. HandlersType
  BY NoLocalsType DEF Init, HandlersType, Labels, Equipped
<1> QED BY <1>1, <1>2, TypeHalves

\* Messages that concern the list of tokens and nothing else.
LEMMA TypeTokenHandler ==
  ASSUME TypeOK, NEW h \in Handlers,
         \/ \E file \in ImportFiles : Import(h, file)
         \/ Mint(h) \/ TopUp(h) \/ Issued(h) \/ MintFails(h)
         \/ MergeRead(h) \/ MergeWrite(h)
  PROVE  TypeOK'
<1>1. /\ StorageType /\ HandlersType
      /\ local[h] \in Locals /\ Equipped(pc[h], local[h])
  BY TypeHalves DEF HandlersType
<1> SUFFICES StorageType' /\ HandlersType'
  BY TypeHalves DEF TypeOK, StorageType, HandlersType, Equipped, Locals
<1>2. ASSUME NEW incoming \in SUBSET Nonces
      PROVE  [NoLocals EXCEPT !.incoming = incoming] \in Locals
  BY NoLocalsType DEF Locals
<1>3. CASE \E file \in ImportFiles : Import(h, file)
  <2>1. PICK file \in ImportFiles : Import(h, file)
    BY <1>3
  <2>2. file \in SUBSET Nonces
    BY DEF Nonces
  <2>3. StorageType'
    BY <1>1, <2>1 DEF Import, StorageType
  <2> QED BY <1>1, <1>2, <2>1, <2>2, <2>3, GotoTypes DEF Import, Labels, Equipped
<1>4. CASE Mint(h) \/ TopUp(h)
  <2>1. StorageType'
    BY <1>1, <1>4 DEF Mint, TopUp, StorageType
  <2> QED BY <1>1, <1>4, <2>1, NoLocalsType, GotoTypes DEF Mint, TopUp, Labels, Equipped
<1>5. CASE Issued(h)
  <2>1. PICK fresh \in SUBSET (MintNonces \ drawn) :
          /\ drawn' = drawn \cup fresh
          /\ Goto(h, "merge_read", [NoLocals EXCEPT !.incoming = fresh])
    BY <1>5 DEF Issued
  <2>2. fresh \in SUBSET Nonces
    BY DEF Nonces
  <2>3. StorageType'
    BY <1>1, <1>5, <2>1 DEF Issued, StorageType
  <2> QED BY <1>1, <1>2, <2>1, <2>2, <2>3, GotoTypes DEF Labels, Equipped
<1>6. CASE MintFails(h)
  BY <1>1, <1>6, ReturnTypes DEF MintFails, StorageType
<1>7. CASE MergeRead(h)
  <2>1. StorageType'
    BY <1>1, <1>7 DEF MergeRead, StorageType
  <2>2. [local[h] EXCEPT !.snapshot = tokens] \in Locals
    BY <1>1 DEF Locals, StorageType
  <2> QED BY <1>1, <1>7, <2>1, <2>2, GotoTypes DEF MergeRead, Labels, Equipped
<1>8. CASE MergeWrite(h)
  <2>1. tokens' \in Stored
    BY <1>1, <1>8, MergeStored DEF MergeWrite, SetTokens, Locals
  <2>2. clobbered' \in BOOLEAN
    BY <1>8, Zenon DEF MergeWrite, SetTokens
  <2>3. StorageType'
    BY <1>1, <1>8, <2>1, <2>2 DEF MergeWrite, StorageType
  <2> QED BY <1>1, <1>8, <2>3, ReturnTypes DEF MergeWrite
<1> QED BY <1>3, <1>4, <1>5, <1>6, <1>7, <1>8

LEMMA TypeApproveHandler ==
  ASSUME TypeOK, NEW h \in Handlers,
         Approve(h) \/ ApproveRead(h) \/ ApproveWrite(h) \/ Deliver(h)
  PROVE  TypeOK'
<1>1. /\ StorageType /\ HandlersType
      /\ local[h] \in Locals /\ Equipped(pc[h], local[h])
  BY TypeHalves DEF HandlersType
<1> SUFFICES StorageType' /\ HandlersType'
  BY TypeHalves DEF TypeOK, StorageType, HandlersType, Equipped, Locals
<1>2. CASE Approve(h)
  <2>1. popup.challenge \in Challenges /\ popup.tab \in Tabs
    BY <1>1, <1>2 DEF Approve, StorageType
  <2>2. StorageType'
    BY <1>1, <1>2, <2>1 DEF Approve, StorageType
  <2>3. CASE pending[popup.tab] = None
    BY <1>1, <1>2, <2>2, <2>3, ReturnTypes DEF Approve
  <2>4. CASE pending[popup.tab] # None
    <3> DEFINE held == [NoLocals EXCEPT !.tab = popup.tab]
               taken == [held EXCEPT !.challenge = pending[popup.tab]]
    <3>1. pending[popup.tab] \in Challenges
      BY <1>1, <2>1, <2>4 DEF StorageType
    <3>2. held \in Locals /\ held.tab = popup.tab
      BY <2>1, NoLocalsType DEF Locals
    <3>3. Goto(h, "approve_read", taken)
      BY <1>2, <2>4 DEF Approve
    <3> HIDE DEF held
    <3>4. /\ taken \in Locals /\ taken.tab = popup.tab
          /\ taken.challenge = pending[popup.tab]
      BY <3>1, <3>2 DEF Locals
    <3> QED BY <1>1, <2>1, <2>2, <3>1, <3>3, <3>4, GotoTypes DEF Labels, Equipped
  <2> QED BY <2>3, <2>4
<1>3. CASE ApproveRead(h)
  <2>1. StorageType'
    BY <1>1, <1>3 DEF ApproveRead, StorageType
  <2>2. CASE Return(h)
    BY <1>1, <2>1, <2>2, ReturnTypes
  <2>3. CASE ~ Return(h)
    <3>1. PICK n \in Unspent(tokens) \cap Eligible[local[h].challenge] :
            Goto(h, "approve_write",
                 [local[h] EXCEPT !.nonce = n, !.snapshot = tokens])
      BY <1>3, <2>3 DEF ApproveRead
    <3> DEFINE held == [local[h] EXCEPT !.nonce = n]
               chosen == [held EXCEPT !.snapshot = tokens]
    <3>2. n \in Nonces /\ tokens \in Stored /\ tokens[n] = "unspent"
      BY <1>1, <3>1 DEF Unspent, StorageType
    <3>3. /\ held \in Locals /\ held.nonce = n
          /\ held.tab = local[h].tab /\ held.challenge = local[h].challenge
      BY <1>1, <3>2 DEF Locals
    <3>4. Goto(h, "approve_write", chosen)
      BY <3>1
    <3> HIDE DEF held
    <3>5. /\ chosen \in Locals /\ chosen.nonce = n /\ chosen.snapshot = tokens
          /\ chosen.tab = local[h].tab /\ chosen.challenge = local[h].challenge
      BY <3>2, <3>3 DEF Locals
    <3>6. local[h].tab \in Tabs /\ local[h].challenge \in Challenges
      BY <1>1, <1>3 DEF ApproveRead, Equipped
    <3> QED BY <1>1, <2>1, <3>1, <3>2, <3>4, <3>5, <3>6, GotoTypes DEF Labels, Equipped
  <2> QED BY <2>2, <2>3
<1>4. CASE ApproveWrite(h)
  <2>1. /\ local[h].tab \in Tabs /\ local[h].challenge \in Challenges
        /\ local[h].nonce \in Eligible[local[h].challenge]
        /\ local[h].nonce \in Nonces /\ local[h].snapshot \in Stored
    BY <1>1, <1>4, WalletAssumption DEF ApproveWrite, Equipped, Locals
  <2>2. tokens' \in Stored
    BY <1>4, <2>1, MarkSpentStored DEF ApproveWrite, SetTokens
  <2>3. clobbered' \in BOOLEAN
    BY <1>4, Zenon DEF ApproveWrite, SetTokens
  <2>4. StorageType'
    BY <1>1, <1>4, <2>1, <2>2, <2>3 DEF ApproveWrite, StorageType
  <2> QED BY <1>1, <1>4, <2>1, <2>4, GotoTypes DEF ApproveWrite, Labels, Equipped
<1>5. CASE Deliver(h)
  <2>1. /\ local[h].tab \in Tabs /\ local[h].challenge \in Challenges
        /\ local[h].nonce \in Nonces
    BY <1>1, <1>5, WalletAssumption DEF Deliver, Equipped
  <2>2. page[local[h].tab] # None =>
          [nonce |-> local[h].nonce, challenge |-> local[h].challenge,
           to |-> page[local[h].tab]] \in Presentations
    BY <1>1, <2>1 DEF StorageType, Presentations
  <2>3. StorageType'
    BY <1>1, <1>5, <2>2 DEF Deliver, StorageType
  <2> QED BY <1>1, <1>5, <2>3, ReturnTypes DEF Deliver
<1> QED BY <1>2, <1>3, <1>4, <1>5

LEMMA TypeStep == TypeOK /\ [Next]_vars => TypeOK'
<1> SUFFICES ASSUME TypeOK, [Next]_vars PROVE TypeOK'
  OBVIOUS
<1>1. ASSUME NEW t \in Tabs, NEW ch \in Challenges, PageRequest(t, ch)
      PROVE TypeOK'
  BY <1>1 DEF PageRequest, TypeOK
<1>2. ASSUME NEW t \in Tabs, NEW s \in Sites \cup {None}, Navigate(t, s)
      PROVE TypeOK'
  BY <1>2 DEF Navigate, TypeOK, Closed
<1>3. ASSUME NEW t \in Tabs, OpenPopup(t) PROVE TypeOK'
  BY <1>3, WalletAssumption DEF OpenPopup, TypeOK
<1>4. CASE ClosePopup
  BY <1>4 DEF ClosePopup, TypeOK, Closed
<1>5. CASE WorkerDies
  <2>1. StorageType' /\ HandlersType'
    BY <1>5, TypeHalves, NoLocalsType
    DEF WorkerDies, StorageType, HandlersType, Labels, Equipped
  <2> QED BY <2>1 DEF TypeOK, StorageType, HandlersType, Equipped, Locals
<1>6. CASE UNCHANGED vars
  BY <1>6 DEF vars, TypeOK
<1> QED
  BY <1>1, <1>2, <1>3, <1>4, <1>5, <1>6, TypeTokenHandler, TypeApproveHandler DEF Next

\* background.js: what approve hands from one await to the next is whole, for
\* any interleaving of messages, navigations and worker deaths.
THEOREM TypeCorrect == Spec => []TypeOK
BY TypeInit, TypeStep, PTL DEF Spec

-----------------------------------------------------------------------------
\* Handlers between setTokens and tabs.sendMessage.
Delivering == {h \in Handlers : pc[h] = "deliver"}

\* What makes ReleasedIsSpent inductive and the wallet a purse: besides being
\* spent, the token in the hand of a delivering handler is in no other
\* handler's hand and in no presentation.
Exclusive ==
  /\ \A h \in Delivering :
       /\ tokens[local[h].nonce] = "spent"
       /\ \A p \in released : p.nonce # local[h].nonce
  /\ \A g, h \in Delivering : local[g].nonce = local[h].nonce => g = h
  /\ \A p \in released : tokens[p.nonce] = "spent"
  /\ \A p, q \in released : p.nonce = q.nonce => p = q

WalletInv == ~clobbered => Exclusive

\* The four things a step does to the tokens and the presentations, for who
\* looks no further.
LEMMA Keeps ==
  ASSUME TypeOK, Exclusive,
         UNCHANGED <<tokens, released>>,
         \A h \in Handlers : pc'[h] = "deliver" =>
           pc[h] = "deliver" /\ local'[h] = local[h]
  PROVE  Exclusive'
BY DEF Exclusive, Delivering

\* A handler that goes elsewhere than to deliver delivers nothing new.
LEMMA NotDelivering ==
  ASSUME TypeOK, NEW h \in Handlers, NEW label, NEW locals,
         Goto(h, label, locals), label # "deliver"
  PROVE  \A g \in Handlers : pc'[g] = "deliver" =>
           g # h /\ pc[g] = "deliver" /\ local'[g] = local[g]
BY DEF TypeOK, Goto

LEMMA WalletInit == Init => WalletInv
BY DEF Init, WalletInv, Exclusive, Delivering

LEMMA WalletStep == TypeOK /\ WalletInv /\ [Next]_vars => WalletInv'
<1> SUFFICES ASSUME TypeOK, WalletInv, [Next]_vars, ~clobbered'
             PROVE  Exclusive'
  BY DEF WalletInv
<1>1. CASE \/ \E t \in Tabs, ch \in Challenges : PageRequest(t, ch)
           \/ \E t \in Tabs, s \in Sites \cup {None} : Navigate(t, s)
           \/ \E t \in Tabs : OpenPopup(t)
           \/ ClosePopup
           \/ UNCHANGED vars
  <2>1. UNCHANGED <<tokens, released, pc, local, clobbered>>
    BY <1>1 DEF PageRequest, Navigate, OpenPopup, ClosePopup, vars
  <2> QED BY <2>1, Keeps DEF WalletInv
<1>2. CASE WorkerDies
  <2>1. /\ UNCHANGED <<tokens, released, clobbered>>
        /\ \A h \in Handlers : pc'[h] = "idle"
    BY <1>2 DEF WorkerDies
  <2> QED BY <2>1, Keeps DEF WalletInv
<1>3. ASSUME NEW h \in Handlers,
             \/ Approve(h) \/ ApproveRead(h) \/ Mint(h) \/ TopUp(h) \/ Issued(h)
             \/ MintFails(h) \/ MergeRead(h)
             \/ \E file \in ImportFiles : Import(h, file)
      PROVE  Exclusive'
  <2>1. UNCHANGED <<tokens, released, clobbered>>
    BY <1>3 DEF Approve, ApproveRead, Mint, TopUp, Issued, MintFails, MergeRead, Import
  <2>2. \E label, locals : label # "deliver" /\ Goto(h, label, locals)
    BY <1>3 DEF Approve, ApproveRead, Mint, TopUp, Issued, MintFails, MergeRead,
                Import, Return
  <2> QED BY <2>1, <2>2, NotDelivering, Keeps DEF WalletInv
<1>4. ASSUME NEW h \in Handlers, MergeWrite(h) PROVE Exclusive'
  <2>1. /\ ~clobbered /\ released' = released
        /\ tokens' = Merge(tokens, local[h].incoming)
    BY <1>4 DEF MergeWrite, SetTokens
  <2>2. \A n \in Nonces : tokens[n] = "spent" => tokens'[n] = "spent"
    BY <2>1 DEF Merge
  <2>3. \A g \in Handlers : pc'[g] = "deliver" =>
          pc[g] = "deliver" /\ local'[g] = local[g] /\ local[g].nonce \in Nonces
    BY <1>4, NotDelivering, WalletAssumption DEF MergeWrite, Return, TypeOK
  <2>4. \A p \in released : p.nonce \in Nonces
    BY DEF TypeOK, Presentations
  <2> QED BY <2>1, <2>2, <2>3, <2>4 DEF WalletInv, Exclusive, Delivering
<1>5. ASSUME NEW h \in Handlers, ApproveWrite(h) PROVE Exclusive'
  <2> DEFINE n == local[h].nonce
  <2>1. /\ ~clobbered /\ released' = released /\ tokens = local[h].snapshot
        /\ tokens' = [tokens EXCEPT ![n] = "spent"]
        /\ pc' = [pc EXCEPT ![h] = "deliver"] /\ local' = [local EXCEPT ![h] = local[h]]
    BY <1>5 DEF ApproveWrite, SetTokens, MarkSpent, Goto
  <2>2. tokens[n] = "unspent" /\ n \in Nonces
    BY <1>5, <2>1, WalletAssumption DEF ApproveWrite, TypeOK
  <2>3. tokens'[n] = "spent" /\ \A m \in Nonces \ {n} : tokens'[m] = tokens[m]
    BY <2>1, <2>2 DEF TypeOK, Stored
  <2>4. /\ local' = local
        /\ pc'[h] = "deliver" /\ \A g \in Handlers \ {h} : pc'[g] = pc[g]
    BY <2>1 DEF TypeOK
  <2>5. /\ \A p \in released : p.nonce \in Nonces /\ p.nonce # n
        /\ \A g \in Delivering : local[g].nonce \in Nonces /\ local[g].nonce # n
    BY <2>1, <2>2, WalletAssumption DEF TypeOK, Presentations, WalletInv, Exclusive, Delivering
  <2> HIDE DEF n
  <2>6. \A g \in Delivering' : g = h \/ g \in Delivering
    BY <2>4 DEF Delivering
  <2> QED BY <2>1, <2>3, <2>4, <2>5, <2>6 DEF WalletInv, Exclusive, Delivering, n
<1>6. ASSUME NEW h \in Handlers, Deliver(h) PROVE Exclusive'
  <2>1. \A g \in Handlers : pc'[g] = "deliver" =>
          g # h /\ pc[g] = "deliver" /\ local'[g] = local[g]
    BY <1>6, NotDelivering DEF Deliver, Return
  <2>2. UNCHANGED <<tokens, clobbered>> /\ h \in Delivering
    BY <1>6 DEF Deliver, Delivering
  <2>3. CASE released' = released
    BY <2>1, <2>2, <2>3, Keeps DEF WalletInv
  <2>4. CASE released' # released
    <3>1. PICK p : p.nonce = local[h].nonce /\ released' = released \cup {p}
      BY <1>6, <2>4 DEF Deliver
    <3> QED BY <2>1, <2>2, <3>1 DEF WalletInv, Exclusive, Delivering
  <2> QED BY <2>3, <2>4
<1> QED BY <1>1, <1>2, <1>3, <1>4, <1>5, <1>6 DEF Next

LEMMA WalletCorrect == Spec => [](TypeOK /\ WalletInv)
BY TypeInit, WalletInit, TypeStep, WalletStep, PTL DEF Spec

\* approve: whatever messages overlap and whenever the worker dies, a
\* presentation goes out only after its token is spent in storage, until a
\* stale list is saved.
THEOREM SpentBeforeReleased == Spec => []ReleasedIsSpent
<1>1. WalletInv => ReleasedIsSpent
  BY DEF WalletInv, Exclusive, Delivering, ReleasedIsSpent
<1> QED BY <1>1, WalletCorrect, PTL

\* approve: with the same proviso no token goes into two presentations.
THEOREM ReleasedOnce == Spec => [](~clobbered => DisjointTokens)
<1>1. WalletInv => (~clobbered => DisjointTokens)
  BY DEF WalletInv, Exclusive, DisjointTokens
<1> QED BY <1>1, WalletCorrect, PTL

-----------------------------------------------------------------------------
\* Each step is one of the purse's or leaves the purse alone: a merge adds,
\* setTokens of approve spends, a delivery into an open tab releases.
LEMMA PurseStep ==
  ASSUME TypeOK, WalletInv, [Next]_vars, ~clobbered'
  PROVE  [P!PurseNext]_(P!purse)
<1>1. CASE UNCHANGED <<tokens, released>>
  BY <1>1 DEF P!purse
<1>2. ASSUME NEW h \in Handlers, MergeWrite(h)
      PROVE  P!PurseNext
  <2>1. local[h].incoming \in SUBSET Nonces
    BY DEF TypeOK
  <2>2. P!Add(local[h].incoming)
    BY <1>2 DEF MergeWrite, SetTokens, Merge, P!Add
  <2> QED BY <2>1, <2>2 DEF P!PurseNext
<1>3. ASSUME NEW h \in Handlers, ApproveWrite(h)
      PROVE  P!PurseNext
  <2>1. local[h].nonce \in Nonces
    BY <1>3, WalletAssumption DEF ApproveWrite, TypeOK
  <2>2. P!Spend(local[h].nonce)
    BY <1>3 DEF ApproveWrite, SetTokens, MarkSpent, TypeOK, P!Spend
  <2> QED BY <2>1, <2>2 DEF P!PurseNext
<1>4. ASSUME NEW h \in Handlers, Deliver(h), released' # released
      PROVE  P!PurseNext
  <2> DEFINE p == [nonce |-> local[h].nonce, challenge |-> local[h].challenge,
                   to |-> page[local[h].tab]]
  <2>1. page[local[h].tab] # None /\ released' = released \cup {p}
    BY <1>4 DEF Deliver
  <2>2. p \in Presentations
    BY <1>4, <2>1, WalletAssumption DEF Deliver, TypeOK, Presentations
  <2>3. UNCHANGED <<tokens, clobbered>> /\ h \in Delivering
    BY <1>4 DEF Deliver, Delivering
  <2>4. P!Release(p)
    BY <2>1, <2>3 DEF WalletInv, Exclusive, P!Release
  <2> HIDE DEF p
  <2> QED BY <2>2, <2>4 DEF P!PurseNext
<1>5. CASE \A h \in Handlers :
             ~ MergeWrite(h) /\ ~ ApproveWrite(h) /\ ~ (Deliver(h) /\ released' # released)
  <2>1. UNCHANGED <<tokens, released>>
    BY <1>5 DEF Next, vars, PageRequest, Navigate, OpenPopup, ClosePopup, WorkerDies,
       Approve, ApproveRead, Deliver, Import, Mint, TopUp, Issued, MintFails, MergeRead
  <2> QED BY <2>1 DEF P!purse
<1> QED BY <1>2, <1>3, <1>4, <1>5

\* The extension's token list with what it has presented implements Purse,
\* step by step, as long as no stale list is saved.
THEOREM ExtensionIsPurse == Spec => PurseUntilClobbered
<1>1. Init => P!PurseInit
  BY DEF Init, P!PurseInit
<1>2. TypeOK /\ WalletInv /\ [Next]_vars =>
        [~clobbered' => [P!PurseNext]_(P!purse)]_vars
  BY PurseStep
<1> QED BY <1>1, <1>2, WalletCorrect, PTL DEF Spec, PurseUntilClobbered
=============================================================================
