----------------------------- MODULE Extension -----------------------------
(***************************************************************************)
(* The token wallet of the browser extension: the service worker of        *)
(* background.js, the popup that asks for consent and the content scripts  *)
(* that carry requests and presentations.                                  *)
(*                                                                         *)
(* Every message starts a handler, and handlers interleave at each await.  *)
(* A step of a handler is one awaited storage, network or tab operation    *)
(* taking effect, with the code that runs after it up to the next await.   *)
(* The worker keeps `pending' in memory and everything else in             *)
(* chrome.storage.local, one key at a time and without transactions: a     *)
(* read and the write computed from it are two operations.  The browser    *)
(* may end the worker at any time.                                         *)
(*                                                                         *)
(* The stored token list is a function from nonces; which eligible unspent *)
(* token selectToken meets first is left open.  A challenge's expiry is    *)
(* read only when it is requested, so an expired challenge is a request    *)
(* that changes nothing and has no action.                                 *)
(***************************************************************************)
EXTENDS Integers, FiniteSets

CONSTANTS
  Handlers,     \* messages being handled at the same time
  Tabs, Sites,
  Challenges,
  Audience,     \* Audience[ch]: the site a challenge is addressed to
  Eligible,     \* Eligible[ch]: the nonces whose token meets its claim and level
  ImportFiles,  \* sets of nonces in exported files a user may load, any time
  MintNonces,   \* nonces the extension may draw
  Batch,        \* tokens per mint (DEFAULT_COUNT)
  Threshold,    \* auto_topup mints below this many unspent tokens
  None

Nonces == MintNonces \cup UNION ImportFiles

ASSUME WalletAssumption ==
  /\ Audience \in [Challenges -> Sites]
  /\ Eligible \in [Challenges -> SUBSET Nonces]
  /\ Batch \in Nat /\ Threshold \in Nat
  /\ None \notin Nonces \cup Challenges \cup Sites \cup Tabs

VARIABLES
  tokens,      \* chrome.storage.local.tokens
  pending,     \* the worker's pending[tabId], in memory
  page,        \* the site shown in each tab; None for a closed tab
  popup,       \* the popup: the tab it is open on, the challenge it shows
  pc, local,   \* where each handler is, and its variables
  drawn,       \* nonces drawn for a mint so far
  consented,   \* challenges the user has clicked "Allow once" for (history)
  released,    \* presentations posted to a page (history)
  clobbered    \* some write has undone a change its handler had not read

vars == <<tokens, pending, page, popup, pc, local, drawn, consented, released,
          clobbered>>

Closed == [tab |-> None, challenge |-> None]
NoLocals ==
  [tab |-> None, challenge |-> None, nonce |-> None, incoming |-> {},
   snapshot |-> [n \in Nonces |-> "absent"]]

Init ==
  /\ tokens = [n \in Nonces |-> "absent"]
  /\ pending = [t \in Tabs |-> None]
  /\ page \in [Tabs -> Sites]
  /\ popup = Closed
  /\ pc = [h \in Handlers |-> "idle"]
  /\ local = [h \in Handlers |-> NoLocals]
  /\ drawn = {}
  /\ consented = {}
  /\ released = {}
  /\ clobbered = FALSE

-----------------------------------------------------------------------------
Goto(h, label, locals) ==
  /\ pc' = [pc EXCEPT ![h] = label]
  /\ local' = [local EXCEPT ![h] = locals]
Return(h) == Goto(h, "idle", NoLocals)

\* Faulty variants: what a plausible slip would make of the definition each is
\* named after.  Nothing in the specification uses them; put in the place of
\* the original, each one makes TLC find the property in brackets violated.

\* [PurseUntilClobbered] a re-imported token replaces the stored record.
MergeIncomingWins(store, incoming) ==
  [n \in Nonces |-> IF n \in incoming THEN "unspent" ELSE store[n]]

-----------------------------------------------------------------------------
\* mergeTokens: a nonce already stored keeps its record, spent or not.
Merge(store, incoming) ==
  [n \in Nonces |-> IF store[n] = "absent" /\ n \in incoming THEN "unspent"
                                                             ELSE store[n]]

Unspent(store) == {n \in Nonces : store[n] = "unspent"}

\* approveRequest marks the chosen token spent in the list it was given.
MarkSpent(store, n) == [store EXCEPT ![n] = "spent"]

\* setTokens writes the whole list, whatever is stored by then.
SetTokens(h, store) ==
  /\ tokens' = store
  /\ clobbered' = (clobbered \/ tokens # local[h].snapshot)

\* Faulty variants of two of the steps below.

\* [ReleasedIsSpent] the presentation is delivered before the list is saved.
ApproveReadThenDeliver(h) ==
  /\ pc[h] = "approve_read"
  /\ \E n \in Unspent(tokens) \cap Eligible[local[h].challenge] :
       Goto(h, "deliver", [local[h] EXCEPT !.nonce = n])
  /\ UNCHANGED <<tokens, pending, page, popup, drawn, consented, released,
                 clobbered>>
\* [TypeOK] the error of approveRequest is not looked at.
ApproveReadUnchecked(h) ==
  /\ pc[h] = "approve_read"
  /\ Goto(h, "approve_write", [local[h] EXCEPT !.snapshot = tokens])
  /\ UNCHANGED <<tokens, pending, page, popup, drawn, consented, released,
                 clobbered>>

-----------------------------------------------------------------------------
\* page_request: a page asks, through the content script of its tab, for a
\* challenge addressed to its own host.  The last request of a tab wins.
PageRequest(t, ch) ==
  /\ page[t] = Audience[ch]
  /\ pending' = [pending EXCEPT ![t] = ch]
  /\ UNCHANGED <<tokens, page, popup, pc, local, drawn, consented, released,
                 clobbered>>

\* The tab loads another site's page or is closed (and its popup with it).
\* Nothing tells the worker.
Navigate(t, s) ==
  /\ page[t] # s
  /\ page' = [page EXCEPT ![t] = s]
  /\ popup' = IF s = None /\ popup.tab = t THEN Closed ELSE popup
  /\ UNCHANGED <<tokens, pending, pc, local, drawn, consented, released,
                 clobbered>>

\* The user opens the popup on a tab: get_pending, and the consent card.
OpenPopup(t) ==
  /\ popup = Closed /\ page[t] # None
  /\ popup' = [tab |-> t, challenge |-> pending[t]]
  /\ UNCHANGED <<tokens, pending, page, pc, local, drawn, consented, released,
                 clobbered>>

ClosePopup ==
  /\ popup # Closed
  /\ popup' = Closed
  /\ UNCHANGED <<tokens, pending, page, pc, local, drawn, consented, released,
                 clobbered>>

\* "Allow once": the click sends approve with the tab's id, no more; the
\* handler takes whatever challenge that tab has pending now.  The button
\* stays where it is, and may be clicked again.
Approve(h) ==
  /\ pc[h] = "idle" /\ popup.challenge # None
  /\ consented' = consented \cup {popup.challenge}
  /\ IF pending[popup.tab] = None
     THEN Return(h)
     ELSE Goto(h, "approve_read",
               [NoLocals EXCEPT !.tab = popup.tab,
                                !.challenge = pending[popup.tab]])
  /\ UNCHANGED <<tokens, pending, page, popup, drawn, released, clobbered>>

\* getTokens has answered: choose a token, or give up.
ApproveRead(h) ==
  /\ pc[h] = "approve_read"
  /\ LET choice == Unspent(tokens) \cap Eligible[local[h].challenge] IN
       \/ choice = {} /\ Return(h)
       \/ \E n \in choice :
            Goto(h, "approve_write",
                 [local[h] EXCEPT !.nonce = n, !.snapshot = tokens])
  /\ UNCHANGED <<tokens, pending, page, popup, drawn, consented, released,
                 clobbered>>

\* setTokens has taken effect; the request is no longer pending.
ApproveWrite(h) ==
  /\ pc[h] = "approve_write"
  /\ SetTokens(h, MarkSpent(local[h].snapshot, local[h].nonce))
  /\ pending' = [pending EXCEPT ![local[h].tab] = None]
  /\ Goto(h, "deliver", local[h])
  /\ UNCHANGED <<page, popup, drawn, consented, released>>

\* tabs.sendMessage reaches whatever page the tab shows by now, and its content
\* script posts the presentation there.  In a closed tab the token is just gone.
Deliver(h) ==
  /\ pc[h] = "deliver"
  /\ LET site == page[local[h].tab] IN
       released' = released \cup
         (IF site = None THEN {}
          ELSE {[nonce |-> local[h].nonce, challenge |-> local[h].challenge,
                 to |-> site]})
  /\ Return(h)
  /\ UNCHANGED <<tokens, pending, page, popup, drawn, consented, clobbered>>

-----------------------------------------------------------------------------
\* import_tokens.
Import(h, file) ==
  /\ pc[h] = "idle"
  /\ Goto(h, "merge_read", [NoLocals EXCEPT !.incoming = file])
  /\ UNCHANGED <<tokens, pending, page, popup, drawn, consented, released,
                 clobbered>>

\* mint, and the mint that follows an accepted enrollment.
Mint(h) ==
  /\ pc[h] = "idle"
  /\ Goto(h, "minting", NoLocals)
  /\ UNCHANGED <<tokens, pending, page, popup, drawn, consented, released,
                 clobbered>>

\* auto_topup for one issuer: decide on the tokens stored now.
TopUp(h) ==
  /\ pc[h] = "idle"
  /\ Cardinality(Unspent(tokens)) < Threshold
  /\ Goto(h, "minting", NoLocals)
  /\ UNCHANGED <<tokens, pending, page, popup, drawn, consented, released,
                 clobbered>>

\* doMint up to assembleTokens: draw fresh nonces, have them signed blindly.
Issued(h) ==
  /\ pc[h] = "minting"
  /\ \E fresh \in SUBSET (MintNonces \ drawn) :
       /\ Cardinality(fresh) = Batch
       /\ drawn' = drawn \cup fresh
       /\ Goto(h, "merge_read", [NoLocals EXCEPT !.incoming = fresh])
  /\ UNCHANGED <<tokens, pending, page, popup, consented, released, clobbered>>

\* The registry refuses the issuer, or the issuer refuses, or the network fails.
MintFails(h) ==
  /\ pc[h] = "minting"
  /\ Return(h)
  /\ UNCHANGED <<tokens, pending, page, popup, drawn, consented, released,
                 clobbered>>

\* mergeTokens(await getTokens(), incoming), then setTokens.
MergeRead(h) ==
  /\ pc[h] = "merge_read"
  /\ Goto(h, "merge_write", [local[h] EXCEPT !.snapshot = tokens])
  /\ UNCHANGED <<tokens, pending, page, popup, drawn, consented, released,
                 clobbered>>
MergeWrite(h) ==
  /\ pc[h] = "merge_write"
  /\ SetTokens(h, Merge(local[h].snapshot, local[h].incoming))
  /\ Return(h)
  /\ UNCHANGED <<pending, page, popup, drawn, consented, released>>

\* The browser ends the service worker: its memory and its handlers are gone.
WorkerDies ==
  /\ pending' = [t \in Tabs |-> None]
  /\ pc' = [h \in Handlers |-> "idle"]
  /\ local' = [h \in Handlers |-> NoLocals]
  /\ UNCHANGED <<tokens, page, popup, drawn, consented, released, clobbered>>

Next ==
  \/ \E t \in Tabs, ch \in Challenges : PageRequest(t, ch)
  \/ \E t \in Tabs, s \in Sites \cup {None} : Navigate(t, s)
  \/ \E t \in Tabs : OpenPopup(t)
  \/ ClosePopup
  \/ \E h \in Handlers :
       \/ Approve(h) \/ ApproveRead(h) \/ ApproveWrite(h) \/ Deliver(h)
       \/ \E file \in ImportFiles : Import(h, file)
       \/ Mint(h) \/ TopUp(h) \/ Issued(h) \/ MintFails(h)
       \/ MergeRead(h) \/ MergeWrite(h)
  \/ WorkerDies

Spec == Init /\ [][Next]_vars

-----------------------------------------------------------------------------
Labels == {"idle", "approve_read", "approve_write", "deliver", "minting",
           "merge_read", "merge_write"}
Stored == [Nonces -> {"absent", "unspent", "spent"}]
Presentations == [nonce : Nonces, challenge : Challenges, to : Sites]

\* The shape of the state; and what approve hands from one await to the next: a
\* tab, a challenge that was pending there, and past the selection a token
\* that meets that challenge and was unspent in the list it is about to save.
TypeOK ==
  /\ tokens \in Stored
  /\ pending \in [Tabs -> Challenges \cup {None}]
  /\ page \in [Tabs -> Sites \cup {None}]
  /\ popup \in [tab : Tabs \cup {None}, challenge : Challenges \cup {None}]
  /\ popup.tab = None => popup.challenge = None
  /\ pc \in [Handlers -> Labels]
  /\ local \in [Handlers ->
       [tab : Tabs \cup {None}, challenge : Challenges \cup {None},
        nonce : Nonces \cup {None}, incoming : SUBSET Nonces, snapshot : Stored]]
  /\ drawn \in SUBSET MintNonces
  /\ consented \in SUBSET Challenges
  /\ released \in SUBSET Presentations
  /\ clobbered \in BOOLEAN
  /\ \A h \in Handlers :
       /\ pc[h] \in {"approve_read", "approve_write", "deliver"}
            => local[h].tab \in Tabs /\ local[h].challenge \in Challenges
       /\ pc[h] \in {"approve_write", "deliver"}
            => local[h].nonce \in Eligible[local[h].challenge]
       /\ pc[h] = "approve_write"
            => local[h].snapshot[local[h].nonce] = "unspent"

P == INSTANCE Purse WITH
  Nonces <- Nonces, Presentations <- Presentations,
  store <- tokens, released <- released

\* The wallet is a purse, through any mix of imports of the same file, mints,
\* top-ups, approvals and worker deaths: a stored token never disappears, a
\* spent one never becomes unspent, none is released unless spent and none is
\* released twice.  It stops being one when a handler saves a list computed
\* from a read that another handler's save has made stale.
PurseUntilClobbered ==
  P!PurseInit /\ [][~clobbered' => [P!PurseNext]_(P!purse)]_vars

\* A presentation is released only once its token is marked spent in persistent
\* storage, so a worker that dies in between, before or after the delivery,
\* leaves a token that is not offered again (unless a stale list was saved).
ReleasedIsSpent ==
  ~clobbered =>
    /\ \A h \in Handlers : pc[h] = "deliver" => tokens[local[h].nonce] = "spent"
    /\ \A p \in released : tokens[p.nonce] = "spent"

\* "two redemptions use two disjoint token values": no token is released
\* twice, without the proviso.
DisjointTokens ==
  \A p, q \in released : p.nonce = q.nonce => p = q

\* The consent card names a site and a claim and offers to allow them once:
\* what is released answers a challenge whose card the user clicked on, and
\* goes to the site the card named.
ReleasedAsConsented ==
  \A p \in released : p.challenge \in consented /\ p.to = Audience[p.challenge]
=============================================================================
