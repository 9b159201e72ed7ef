# BlindAge: specifications and proofs

BlindAge lets a person prove to a web site that they are old enough without
saying who they are. An issuer checks a birth date once and signs blind
single-use tokens (or one reusable credential); a wallet, in the browser or on
the command line, presents one of them in answer to a site's challenge; the
site checks it against a signed registry of issuers. This directory holds TLA+
modules of the parts of that system that keep state, TLC configurations that
check them on small instances, and proofs of the main results for every
instance.

## 1. The system

| component | code | state it keeps | operations |
|---|---|---|---|
| relying-site verifier | `blindage/verifier/` | `ChallengeManager._pending` (memory), `ReplayCache` (one sqlite connection) | `create`, `consume`, `check_and_insert`, `verify`, `verify_vc_presentation` |
| example site | `blindage/example_site/app.py` | the two objects above, shared by a thread pool | `/api/challenge`, `/api/redeem`, `/api/redeem-vc` |
| trust registry store | `blindage/registry/store.py` | immutable once loaded | load, `get_issuer`, `get_token_key`, `get_vc_key` |
| extension token wallet | `extension/background.js`, `core/store.js`, `core/protocol.js`, `popup.js`, `content.js` | `tokens` (chrome.storage.local), `pending` (worker memory) | page request, approve and deliver, import, mint, top-up |
| extension registry cache | `background.js`, `core/registry.js` | `trust`, `registryCache` (chrome.storage.local) | set trust, refresh, the gate of every mint |
| extension onboarding | `background.js`, `core/onboard.js` | `pendingEnroll`, `issuers`, `lastOnboard` | start enrollment, accept enrollment |
| command-line wallet | `blindage/wallet/` | the encrypted vault file | enroll, mint, vc-get, prove, vc-prove, export |
| issuer | `blindage/issuer/` | enrollments (sqlite, under a lock), keys | enroll, issue tokens, issue credential |
| OIDC proofing, dev IdP | `issuer/proofing.py`, `dev_idp/app.py` | sessions, authorization codes (memory, under locks), cached JWKS | authorize, callback, token exchange |
| registry signing and loading | `registry/signing.py`, `store.py` | none | classical and hybrid verification |
| anchor and publisher | `RegistryAnchor.sol`, `registry_chain/` | hash, version and time on chain, a timelock, a client-side cache | set anchor, schedule, execute, read |
| mirror | `registry_mirror/app.py` | three files on disk | serve registry and signatures |
| transparency | `transparency/` | a cached history | serve the log, audit |
| issuance | `wallet/client.py` with `issuer/app.py`, `issuer/keys.py` | the issuer's key store; a batch under way in the wallet | well-known document, mint, issue credential, prove |
| cryptography, schemas | `blindage/crypto/`, `blindage/schemas/` | none | RSABSSA, BBS, Ed25519; records |

How they meet. The site's challenge travels through the page to the extension
(or as a file to the command line), is answered with a presentation that names
the challenge's id, its secret value and the site, and is redeemed at one of
two endpoints. Wallets call the issuer over HTTP; the extension asks the cached
registry for permission first. Exported tokens go from the vault to the
extension as a file. Registries go from the root operator through a mirror,
optionally anchored on chain, to the extension and the site.

What is hard here, and where:

* The three site endpoints are synchronous FastAPI handlers, so they run on
  pool threads and share `_pending` and the replay cache without a lock.
* Every handler of the extension interleaves with every other at each `await`,
  over a key-value store without transactions; the browser may end the worker
  at any point.
* Every wallet command rewrites the whole vault from the copy it loaded.
* Restarts: the site forgets its challenges, and its spent tokens as well
  (`create_site` uses `":memory:"`); the worker forgets its pending requests.
* Two clocks are compared at two moments: a key's window, then a challenge's
  expiry.
* The mirror is not trusted, and serves a registry and its signature as two
  files.
* A wallet reads the issuer's keys and sends its batch in two requests, and the
  issuer may have been given other keys, under the same ids, in between.
* Blindness and selective disclosure are promises about what somebody *could*
  have sent: no test of one run can see them fail.
* An enrollment is started by one message, finished by another minutes later,
  and remembered in storage in between.

`PROJECT.json` lists each of these, and the rest, as a hazard at its line with
the properties that address it.

What makes each part correct: a site admits one visitor per challenge and per
token, and burns a token only for an admission; a wallet releases a token once
and only when it is durably marked spent; the cached registry is verified and
never older than before, and nothing is requested from an issuer it does not
approve; an issuer signs nothing an enrolled person is not eligible for, and
cannot recognise a token it signed blindly; a proof is accepted for what it was
made for and tells nothing else; a chain anchor never goes back.

## 2. The modules

```
AgeGate  <--implements--  Verifier  --EXTENDS-->  TrustRegistry
Purse    <--implements--  Extension
Purse    <--implements--  Vault
                          Onboarding --EXTENDS--> RegistryCache
                          Issuance --EXTENDS--> Rsabssa, Bbs, IssuerKeys
                          Proofing --EXTENDS-->  Eligibility
                          Anchor                 RegistryLoad
```

The proofs are in `VerifierProofs`, `ExtensionProofs`, `VaultProofs`,
`RegistryCacheProofs` (with those about Onboarding), `ProofingProofs`,
`AnchorProofs` and `IssuanceProofs`, each of which extends its module, and in
`PromiseProofs` for AgeGate, Purse and RegistryLoad.

**TrustRegistry**: the lookups of a loaded registry, as operators over the
constants `Issuers` and `Keys`, and what `from_dict` refuses to load as an
assumption on them. **RegistryLoad**: what `load` accepts of the files, pinned
keys, policy and anchor it is given, as an operator on all of those at once; a
signature stands for the key that made it.

**Verifier**: the site. A request is a thread with a program counter; a step
ends where another thread, the clock or a crash can be observed.

| action | code |
|---|---|
| `Create` | `ChallengeManager.create` |
| `Receive` | the endpoint, and `verify` / `verify_vc_presentation` down to their first shared access |
| `Pop`, then `CompareToken` or `CompareCredential` (using `Consumed`) | `consume`: the pop, then the comparison and the expiry, then the caller's check of the claim |
| `VerifyProof` | the BBS proof, checked after the challenge is gone |
| `EnterCache`, `LeaveCache` | `check_and_insert`; a call that ran alone obeys the primary key (`InsertAlone`) |
| `Restart` | the process dies; `durable`, chosen at the start, says whether the cache is a file or `":memory:"` |

Two calls to `check_and_insert` that overlap use one sqlite connection and one
cached statement from two threads. The library does not define what happens, so
`InsertOverlapped` lets such a call answer anything and leave its row or not,
with one limit: the answer "already there" implies the row. (On CPython 3.11
all of it occurs: both True, True without a row, an exception.)

The secret value of a challenge is identified with its id: what matters is
whether a request carries the value that belongs to the id. A client can know
the value only once the challenge exists. A token's signature and a proof are
modelled by the key material that made them and, for a proof, the domain
binding it was made over.

**AgeGate**: what a site promises: challenges open, close, and admit at most
one visitor each; tokens are admitted at most once. `Verifier!ImplementsGate`
instantiates it: a challenge is open while it is pending *or in the hand of the
thread that popped it*, and closed afterwards. The site keeps the gate's promise
except that it may let a token in again, against a challenge that is open, when
`Recurs` says why: single use is not required, an in-memory cache was lost with
the process, or a cache call overlapped another. `ForgetfulSpec` is a gate that
may do so always.

**Purse**: what a wallet promises: tokens come in, become spent, and are
released once, when spent. **Extension** and **Vault** both instantiate it, and
both only until a stale copy is saved: the history variable `clobbered` becomes
true when a write undoes a change its writer had not read, and
`PurseUntilClobbered` says that every step before that is a step of a purse.
What happens after it is what the run `extension_overlap` shows.

**Extension**: a handler step is one awaited storage, network or tab operation
taking effect with the code up to the next await.

| action | code |
|---|---|
| `PageRequest` | `page_request`, after `validateChallenge` |
| `OpenPopup`, `ClosePopup`, `Navigate` | `renderPending` and the user |
| `Approve`, `ApproveRead`, `ApproveWrite`, `Deliver` | `approve`, cut at `await getTokens()`, `await setTokens()`, `await tabs.sendMessage()` |
| `Import`; `Mint`, `TopUp`, `Issued`, `MintFails`; `MergeRead`, `MergeWrite` | `import_tokens`; `mint`, `auto_topup`, `doMint`; `mergeTokens(await getTokens(), ...)` and `setTokens` |
| `WorkerDies` | the browser ends the service worker |

**RegistryCache**: `refreshRegistry` cut at its awaits (`ReadTrust`,
`ReadCache`, `FetchGood`/`FetchBad`, `WriteCache`), the two messages that start
it, and the gate of `doMint` (`CheckIssuer`, `SendIssue`). The mirror serves any
pair of files published so far. A registry's validity windows are folded into
the set of issuer keys it approves.

**Onboarding**: the two messages of an enrollment, added to RegistryCache's
handlers; any handler of either module may run next to any other.

| action | code |
|---|---|
| `StartEnroll`, `GatePassed`, `GateRefused`, `StoreStart` | `start_enroll`, cut at the fetch of the well-known document, `registryRefusal`'s read of the cache and the write of `pendingEnroll` |
| `Enrollment` (with `Matches`), `ClearPending`, `ReadIssuers`, `WriteIssuers` | `enrollment`, cut at its four storage operations; `matchPendingEnroll` |
| `MintEnrolled`, `MintRefused` | the first mint, which goes on as RegistryCache's `SendIssue` |
| `OnboardingDies` | the worker ends with all of its handlers |

Any page may send an enrollment message at any time. `pickLatestKey` is the
choice of one of the keys the document may lead to. The issuer id of the
message is not compared with the stored one (nor is it in the code), and is
left out. `overlapped` is to the list of issuers what `clobbered` is to the
cache.

**Vault**: a command is a process: it loads the vault (`Enroll`, `Mint`,
`VcGet`, `Prove`, `Export`), gets its answer (`Enrolled`, `Minted`, `VcGot`),
saves (`Save`) and writes its output (`Write`, `WriteExport`); it may be killed
before any of these (`Dies`). `save` writes a temporary file and renames it, so
it is one step to everybody else.

**Proofing**: the issuer and the development IdP. A callback is a thread.

| action | code |
|---|---|
| `Authorize`, `Submit` | `/enroll` in OIDC mode, `authorize_submit` |
| `Callback`, `Consume` | `oidc_callback` reads the clock, then takes the session |
| `Exchange` (with `Exchangeable`), `Unreachable`, `LoseAnswer` | the token endpoint, and what can go wrong on the way to it and back |
| `GetJwks`, `StoreJwks`, `Validate` | `_get_jwks` without a lock, `validate_id_token` |
| `CreateEnrollment`, `AssertedEnroll` | the enrollment store, in either mode |
| `Issue`, `IssueCredential` | the two issuing endpoints |
| `IssuerRestart`, `IdpRestart` | in-memory sessions, keys and codes are gone |

A session stands for its state, nonce and PKCE verifier. They reach the IdP
through the browser as independent fields, so a page, and the code made on it,
may have the nonce of one session and the code challenge of another, and any
callback may pair any code with any state: `Exchangeable` compares the challenge
only, `Validate` the nonce. The page takes a birth date with
a time of day (`Timestamp`), which the issuer then refuses. The enrollment store
holds a lock around each statement, so its accesses are single steps.

**Rsabssa**: `blind`, `blind_sign`, `finalize` and verification, computed as the
code does over keys of a few bits. The PSS encoding is a constant: some number
below the modulus for each message and salt, among them numbers that share a
factor with the modulus.

**Bbs**: the protocol of `bbs.py` over a group of small prime order. A point of
G1 is its discrete logarithm, so adding points is adding numbers and a pairing
is a product; the generators, the domain and the hash that gives a signature's
`e` are constants. The hash that gives a proof's challenge is a random oracle:
a question gets any answer, the same one when asked again, and a verifier's
question that nobody asked before has an answer no prover can have built in.
Equations between points hold here exactly when they hold on the curve.

**IssuerKeys**: which key files load, and which entry serves which request.
**Issuance**: a wallet, the issuer and its keys.

| action | code |
|---|---|
| `ReadWellKnown`, `BlindBatch` or `PlainBatch` | `mint` down to its POST |
| `IssueTokens` (with `SignBatch`) | `issue`: refuses or signs all of a batch |
| `FinalizeBatch` (with `Kept`, `Finalizes`) | the rest of `mint` |
| `Interrupted` | the command is killed, or a request or an answer is lost |
| `VcGet`, `VcProve` | `vc_get` with `issue_credential`; `vc_prove` with `bbs_proof_gen` |
| `Rotate` | the issuer is restarted with another key file |

A site's verification is the operator `SiteAccepts` of a registry entry and a
presentation; Verifier has the challenge and the threads around it. Claims are
ages, and sort like their names. Everyone's modulus has one length, so the
length check of `finalize` is always met, and indexes count from 1. Enrollments
that have run out are persons without claims (Proofing has the clock).

**Eligibility**: `_age_in_years` and `eligible_claims`, and beside them the
calendar by day numbers, which they are compared with.

**Anchor**: the contract and everyone who reads it. The contract changes only
by logging an event, so a reader's view of the chain is a number of events.

| action | code |
|---|---|
| `PublishAnchor`, `Schedule`, `Execute`, `PublisherStops` | `publish_anchor`: the check, the two transactions, and an end anywhere |
| `ExecuteByHand`, `Cancel` | proposers and executors of the timelock (external) |
| `SetAnchor` | `setAnchor` |
| `Ask`, `AnswerFromCache`, `StartFetch`, `ReadChain`, `StoreView`, `FetchFails` | the mirror's `registry_json` with `AnchorClient.current`, and the log's `_entries`, which are one algorithm: a lock held while fetching, a time to live counted from the end of the fetch |
| `AuditHead`, `AuditHistory`, `AuditMirror` | `audit`, each read of which may fail |

The mirror's file is whatever its operator put there: a request reads any
document, or a half-written one. The auditor's mirror may serve anything. The
log events a node answers with may be fewer than the state it has just told of,
or none, without an error; that one read of the contract's state is of the node's
present is assumed.

The operators under "Faulty variants" in each module are not used by any
specification. Each is a plausible slip in the definition it is named after,
and replacing that definition by it makes TLC find the named property violated:
they document that the properties can fail.

## 3. What is checked

| run | instance | what it shows |
|---|---|---|
| `verifier` | 2 requests, 2 challenges, 2 tokens and a credential, clock to 2, one restart, overlapping cache calls, cache in memory or in a file | type invariant; one admission per challenge over both endpoints; one per token unless its cache calls overlapped or the cache was lost; a recorded nonce was admitted; each admission had its key and its challenge good at one instant; refinement of `AgeGate` up to `Recurs`; a burned challenge never returns; every request is answered (liveness) |
| `verifier_overlap` | 2 requests | *violated*: "Each token is redeemable once" |
| `extension_handlers` | 2 handlers, 1 tab, 2 challenges, 1 exported and 1 mintable token | type invariant; a released token is spent in storage; refinement of `Purse` until a stale save |
| `extension_overlap` | the same, either token good for both challenges | *violated*: "two redemptions use two disjoint token values"; one nonce is released for two challenges of one page |
| `extension_consent` | 1 handler | *violated*: what is released was consented to and goes where the card said |
| `registry_cache` | 2 handlers, 2 root keys, 3 registries, 2 issuers, 2 starts, one issue request | type invariant; the cache is verified; mints are approved; no rollback until a stale write; a recorded issuer was started with a registry's approval and answered in time; no record is lost until a stale write |
| `issuance` | moduli 15 and 21, a plain key, 2 nonces, 2 salts, every blinding factor, 1 change of keys; a group of order 5, 4 persons, 4 challenges, 1 proof | a batch signed under the advertised key always unblinds; a stored token verifies under a key its id was published for; every request the issuer saw could be every blind token's; every proof without a zero scalar is accepted, for its own claim, index, challenge and key only; any hidden values explain a proof |
| `issuance_claims` | the same, credentials only | *violated*: "revealing only `[issuer_id, assurance, epoch, required_claim]`" |
| `proofing` | 2 sessions, 2 codes, 2 callbacks, 2 enrollments, 1 restart; a 29 February birthday in the middle | a session enrolls once, however pages mix nonces and code challenges; every enrollment carries what was submitted on a page with its session's nonce and challenge; an ID token reaches only the callback whose challenge its page had, and is enrolled with only if it has its nonce; nothing is signed for the too young or the expired; the age function counts birthdays |
| `anchor` | 2 documents, 2 versions, 1 publisher, 1 reader | the anchor moves forward; a publisher that returns has published; the mirror serves what was anchored within a view's life, the log misses nothing older; a PASS of the auditor means that the mirror served the document of the head it read, and that a history, if it saw any, ended there |
| `anchor_audit` | the same | *violated*: "an auditor that skips is an auditor that lies"; a head with an empty history passes |
| `vault` | 2 commands, 2 tokens, 2 challenges | type invariant; refinement of `Purse` until a stale save; no enrollment or credential is dropped; an export offers nothing presented before |

Why the bounds are enough. Two requests are what it takes to race for a
challenge or a token, or to replay one after the other, before or after a
restart; the theorems of `VerifierProofs` are for any number. Two challenges give
every wrong pairing of id and value. The clock runs to 2; the credential key
expires at 1, the token key at 2, and a challenge lives one tick, so deadlines
are met, touched and missed between any two steps. Two
handlers or commands are what any lost update takes. One mintable and one
imported token cover the two ways in, and importing the same file again covers
re-adding a spent one. Three registries under two roots give an older one, a
newer one and one of another root between them.

Two callbacks race for one session, or exchange each other's codes; the clock
of `proofing` passes the end of a session, of a code and of an enrollment. Two
documents and two versions are what a step back takes, and a publisher that
stops and is run again leaves operations behind that are executed in any order.
The clock of `proofing` steps over the birthday of somebody born on 29 February
and over the birthday proper of somebody else.

With two nonces a batch is a pair, in either order, or two single mints one of
which is lost; 5 shares a factor with 15 and 7 with 21, and both are encodings
of some nonce. All blinding factors, all `r1` and `r2` and all challenges of the
group are drawn; for the scalars with a tilde there are two draws (`Tildes`), of
unequal values, since they enter the equations linearly and
`HiddenClaimsStayHidden` solves for them. The four persons hide none, one or two
claims, on either side of the one shown. In numbers this small some things
happen by chance that do not happen in 2048 bits or 255: a proof has a zero scalar
and is refused (`WellFormed` is a premise of `HonestProofAccepted`), and a
signature made under one key verifies under another (such tokens are left out of
`TokenUnlinkable`). Two issuers, two starts and two handlers are what it takes to
lose a record or to clear somebody else's start; `Ttl` is 0 ticks of a clock of
one, so that a start is matched in time or too late.

Bounds that exist for TLC only: `MaxTime`, `MaxRestarts`, `MaxVersion`, and the
finite sets of nonces and ids (each drawn at most once: `created`, `drawn`).
`OneObserver` (MCAnchor) watches the mirror, the log or the auditor in one
behaviour, not several: none of them changes anything another one reads.
`TwoPending` lets two operations wait in the timelock. `FewSent`
(MCRegistryCache) stops a behaviour at its first issue request, which nothing
reads, and at a third start; `OneProduct` (MCIssuance) lets a behaviour mint
tokens or use a credential, which share the key store only. `MaxRotations` and
`MaxProofs` are 1. `Interchangeable` is a
symmetry of Proofing, whose actions and invariants name no particular session,
code, enrollment or callback; no liveness is checked under it. `Quiescent` lets
a finished Verifier or Proofing run stutter, so deadlock is checked in every
run but those of Issuance, where a wallet that has drawn all its nonces and shown
its proof really stops: nobody being served is ever stuck.

Fairness. Only `EveryRequestAnswered` needs any: weak fairness of `Serve(r)`
for each request, which says that a pool thread with work to do is scheduled.
Nothing is assumed of clients, of the clock or of restarts. No liveness is
claimed for the extension (the browser may end the worker whenever it likes) or
for commands and publishers (they may be killed), and none for callbacks and
readers of the chain, whose steps are a straight line.

Where code and documentation disagree (`findings` in `PROJECT.json`):

1. Overlapping redemptions of one token can both be let in, because the replay
   cache has no lock, while the issuer's store has one for just this reason.
2. Overlapping handlers of the extension can present one token twice.
3. The click on "Allow once" approves whatever the tab has pending by then, and
   delivery goes to whatever page the tab shows by then.
4. The auditor passes when the chain answers its query for events with none,
   though the head it read is of some registry: both checks of the history are
   skipped then, which its docstring says it never does.
5. A proof of a credential tells how many claims it hides and where among them
   the shown one stands. As the age claims are nested, that is all of them.

Noticed besides, with no run of their own: of two overlapping refreshes the
older registry may be stored last (`CacheNeverRollsBack` holds up to such a
write and no further; README.md says "Registry rollback → deny"). The
transparency log lists executed updates only, not the pending ones that
docs/governance-ceremony.md says can be inspected there. `bbs_proof_verify` says
it refuses indexes that do not ascend, and checks only their range; its caller
fixes the first three, and `ProofBound` covers a fourth that repeats one of them.
`bbs_sign` with SK + e = 0 fails in `pow`, not with the error it has for that.

## 4. What is proved

With TLAPS, for every value of the constants that satisfies the assumption
named in the module that declares them. TLC evaluates each assumption on its
instance. They say that times and counts are natural numbers, that `None` is
none of the things it may stand for, that functions over the constants are
defined, and besides: a registry has passed `from_dict`
(`RegistryAssumption`); dates are dates, and ids drawn for one purpose are none
drawn for another (`ProofingAssumption`). A theorem that needs more says so in
its statement.

**The site** (`VerifierProofs`)

* `TypeCorrect`: `Spec => []TypeOK`. `TypeOK` is inductive.
* `ChallengeSingleUse`: `Spec => []OneGrantPerChallenge`. That is not inductive:
  it says nothing of the moment between the pop and the answer. `ChallengeInv`
  adds where a challenge can be: pending under its own id, or held by one thread
  only, or gone; a held challenge is never pending again, because ids are not
  drawn twice; and a thread past the comparison holds the challenge it names.
* `TokenSingleUse` and `RefusedTokenKept`: from `TokenInv`, which adds that the
  nonce of an admitted token is a row of the cache (when the cache survives, and
  the call did not overlap) and that threads with overlapping calls have started.
* `WindowsMeet`: `Spec => []GrantedInsideBothWindows`. The clock is read twice.
  `WindowInv` ties both readings to the first: the key was good then
  (`KeyWasGood`), and a challenge that is compared later was already issued,
  since its value was in the request (`KnownByThen`), and had not expired, since
  it has not expired now.
* `TakenForGood`: `Spec => BurnedStaysBurned`.
* `SiteIsAgeGate`: `Spec => ImplementsGate` for any number of threads, either
  kind of cache and any restarts, assuming only that the policy binds
  presentations to challenges, as the default one does. Init maps to the gate's
  Init; each action is mapped to `Offer`, `Withdraw`, `Admit`, `Enter` with a
  reason in `Recurs`, or a stutter, by the lemmas `Closing`, `SameAdmissions` and
  `Admitting`.

**The wallets** (`ExtensionProofs`, `VaultProofs`)

* `TypeCorrect` of each. Both invariants fall into what is stored and what a
  handler or command has among its locals at its label (`Equipped`), so that one
  lemma on `Goto` serves every action. A vault command that is about to save
  holds its copy with tokens added or with one marked (`Added`, `Marked`), which
  is what everything below rests on.
* `SpentBeforeReleased` (`ReleasedIsSpent`), `ReleasedOnce` (no token in two
  presentations) and `ExportWithholds` (`ExportedNotReleased`): from each module's
  `WalletInv`. As long as nothing is clobbered, a token is with one handler about
  to deliver it, or in one presentation, or in neither (`Exclusive`); for exports
  it adds that what a command read as unspent was not out when it was read
  (`Withheld`).
* `ExtensionIsPurse`, `VaultIsPurse`: `Spec => PurseUntilClobbered`, the step
  simulation of Purse up to the first stale save. `SerialVaultIsPurse` assumes
  `OneAtATime`, which is a user who runs one command after the other, and proves
  `Spec => P!PurseSpec` without the proviso: nothing is then computed from a
  stale copy (`UpToDate`), and that a command may be killed anywhere does not
  matter. There is no such theorem for the extension, whose handlers nothing
  serialises.
* `RecordsStay`: `Spec => RecordsKept`.

**The promises** (`PromiseProofs`): `GateAdmitsAtMostOnce` for AgeGate, and
`ForgetfulGateStillOncePerChallenge`: also a gate that remembers no token admits
one visitor per challenge, so what `Recurs` allows the site costs no more than
its tokens' single use;
`PursePresentsOnce` for Purse, assuming that presentations are of its tokens
(`PresentationsHaveNonces`, true of both instances); `NoDowngrade`
(`DowngradeNeverHelps` of RegistryLoad) for any keys and documents and with no
assumption: `load` under a hybrid policy with a pinned key takes nothing that key
did not sign. It speaks of constants only, of every load there is, so no run
checks it.

**The extension's registry and enrollments** (`RegistryCacheProofs`)

* `TypeCorrect`, `CacheVerified` (`CacheIsVerified`), `MintsApproved`
  (`MintsAreApproved`) and `NeverRollsBack` (`Spec => CacheNeverRollsBack`). What
  is cached says nothing of what a handler is about to write, so `CacheInv` adds
  what handlers hold (`InHand`): a root key that was read is one the user has
  configured, whatever the setting is by now; a registry fetched or checked is
  released and signed under such a root; one about to be written is no step back
  from the copy its handler read.
* `OnboardingRefinesCache`: `OnboardingSpec => Spec` of RegistryCache. The one
  step where that is not plain is `MintEnrolled`, whose key comes from the
  issuer's document: it is a key RegistryCache knows because a registry approves
  it. `CacheVerifiedBesideOnboarding` carries the two invariants over.
* `EnrolledOnlyAsStarted`: `OnboardingSpec => []EnrolledAsStarted`, from
  `OnboardInv`: what is pending was once started, a handler that is about to
  store a start got it past a trusted registry, and the records in handlers'
  copies of the list go back to starts like those in storage. Starts stay good
  because releases, root keys and time are never taken back (`Onward`).
* `IssuersStay`: `OnboardingSpec => IssuersKept`; no invariant is needed.

**Proofing** (`ProofingProofs`)

* `TypeCorrect`: from `ShapeInv`, which says what a callback holds at each label
  and that a code is of sessions that were drawn.
* `EnrolledOnce` (`OneEnrollmentPerSession`): `OnceInv` says where a session can
  be: in the store, with one callback that has taken it, behind one enrollment,
  or gone.
* `TokenIsItsSessions` (`TokenReachesItsSession`) and `DobIsAttested`
  (`EnrolledAsAttested`): `AttestedInv` follows the birth date from the page
  through the code and the ID token to the row, with the nonce and the code
  challenge of the page. The exchange fixes the second, `Validate` the first, so
  only a row, not a token, has both of its session.
* `SignedForTheAged` (`SignedOnlyForTheAged`) and `AgeIsCounted`
  (`AgeCountsBirthdays`): the second is a statement about `_age_in_years` and
  the calendar, for every date. The lemma `AgeIsBirthdays` says that somebody is
  n years old, by day numbers, exactly when n is at most `AgeInYears`; it rests
  on the order of days within a year and from year to year (`DaysInOrder`).

**Anchor** (`AnchorProofs`)

* `ForwardOnly`: `Spec => []AnchorMovesForward`, from `Ordered`, which compares
  any two events rather than neighbours, and `Shape`, by which a publisher under
  way has an operation in its hand. That a step logs nothing or one event is the
  lemma `Logged`.
* `PublishedForReal` (`PublishedIsAnchored`), from `Shape`.
* `MirrorIsAnchored` (`ServedIsAnchored`) and `LogKeepsUp` (`LogIsRecent`), from
  `LocksInv` (a lock is held by the one request that fetches under it) and
  `ViewsInv`: what n events leave out (`UpTo`) was logged no earlier than the
  start of the fetch that counted them, the fetch took at most `RpcTimeout`, and
  the view was kept less than `Ttl`. Both assume `ViewsAreKept`, a positive time
  to live, as the two servers have by default: with `cache_ttl=0.0`, which the
  tests use, a view may be exactly as old as the fetch was long, one instant
  more than `Recent` allows.
* `PassIsSound` (`PassMeansAnchored`): `AuditShape` says that an auditor with no
  problem so far holds a head, and a history of that length or an empty one; the
  first follows from the comparison of versions only because the events are
  `Ordered` (`SameView`), so the auditor relies on what the contract enforces.
  That the history is not empty is not so: `anchor_audit`.
* `TypeCorrect`, from all of the above.

**Issuance** (`IssuanceProofs`), for any key files, claims, nonces and
encodings, any modulus with a key pair and any group of prime order

Two assumptions carry the arithmetic. `BbsAssumption`: the order is a prime, the
generators are not zero, and what is hashed or drawn are scalars.
`IssuanceAssumption`: a blind key is a key pair (`IsKeyPair`: signing and
verifying undo each other on units; the library that loads the key checks it),
encodings are below the modulus (they have one bit less, `rsabssa.py` line 111), a
credential key and its metadata are scalars, and there are generators and draws
enough for every set of claims (the code makes as many as it needs).

* `IssuanceTypeCorrect` (`TypeOK`): from `CredentialInv`, which says that the
  credential in the vault is one that `bbs_sign` made and did not refuse
  (`Proper`), so that neither its point nor its divisor is zero.
* `StoredTokensVerify` (`TokensVerify`): from `MintInv`, which keeps what was
  advertised and who signed with the batch. It assumes `IdsAreKept`: a blind key
  that is made again keeps its id. That is how `generate_test_issuer.py` (line
  47) names keys, after what they are for; where an operator renames a key between
  the two requests of a mint, a token can carry an id its signature was not made
  for.
* `BlindNoncesSecret` (`NoncesStaySecret`, the first half of `TokenUnlinkable`):
  `NoncesInv` keeps the nonces of clear requests, of blind tokens and of the batch
  under way apart, whatever is refused, lost or killed.
* `HonestBatchesUnblind` (`BatchUnblinds`): `BlindInv` says that what is on its way
  was blinded with a unit whose inverse the wallet kept (`Made`), and signed raw
  (`SignedBatch`). `UnblindsTo` is the algebra: the raw signature of `m * r^e`
  times the inverse of `r`, raised to `e`, is `m`. It needs that powers of products,
  of congruent numbers and of inverses are what they should be (`PowerOfProduct`,
  `PowerOfCongruent`), and that a unit has an inverse at all (`Bezout`).
* `TokensUnlinkable` (`TokenUnlinkable`): what the issuer saw under a blind key and
  what a token was made of are units (`OfUnits`, `OfUnit`), and a unit is a blinding
  of any other unit (`AnyBlinding`: the quotient, signed raw, is the factor). That
  messages are units is what `blind` looks for with `gcd`.
* `HonestProofsAccepted` (`HonestProofAccepted`): `ShownInv` says that a proof shown
  was made of a proper credential with some draws and some answer (`MadeWith`), and
  that its question was asked. `Complete` is the heart: the two commitments that
  a verifier computes from the responses are the prover's, so it asks the same
  question. `SplitTotal` cuts the sum over all messages into the disclosed and the
  hidden ones, whose places are each other's complement (`Others`), and `Answered`
  adds up the responses. `PairedPoints` is the pairing.
* `ProofsAreBound` (`ProofBound`): by the other half of `ShownInv`, nothing was
  asked but for a proof shown; the question that an accepted proof leads to names
  the points, the disclosed pairs and the header of the proof it was asked for
  (`Asked`), and two keys that pair alike are the same (`SameKey`). It assumes
  `ClaimsDiffer` (no two claims hash to one scalar) and `PointsAreFresh` (no two
  proofs drew the same points, which with scalars of 255 bits is as good as never;
  the run shows one proof only).
* `HiddenClaimsHidden` (`HiddenClaimsStayHidden`): the draws that `Explains` computes
  are draws (`DrawnFor`), give the same points (`SamePoints`) and the same responses
  (`SameResponses`), and by `Complete`, used for both holders, the same question.

No prover at hand can take an induction principle with an operator as its
parameter. Induction is by the least counterexample instead: the numbers for
which a statement fails are a set, and a set of naturals that is not empty has a
least element (`Smallest`, from the well-foundedness of `<`), which gives
`Induction` over sets of naturals. `Recursion` builds, one step after the other,
the function that a recursive definition describes, so that `Powers`, `Sums` and
`Ascending` can be unfolded (`PowersDef`, `SumsDef`, `OrderedExists`).

The strengthened invariants were model-checked before they were proved, on the
instances of the runs.

Only model-checked: `EveryRequestAnswered`. It is liveness, for which the prover
would need `ENABLED`. Every other property of a passing run is a theorem.

## 5. What is not modelled

* Cryptographic strength: nobody forges a signature, finds a discrete logarithm
  or predicts a hash. In Verifier, Extension, Vault and Anchor a signature or a
  proof is valid exactly when the key's holder made it over that message.
* The PSS encoding, hashing to scalars and curve points, compression and octet
  strings; `rsabssa.js`, which repeats `rsabssa.py`.
* Serialisation, field validation, HTML and wording.
* Power loss with unsynced writes, clocks that go backwards, and blocks that a
  chain reorganisation takes back.
* Deployment of the contracts and the development scripts: they run once.
* `lastOnboard`, which the popup shows once; batches over `MAX_BATCH`, whose
  refusal is in `SignBatch` but needs more nonces than the run has.

## 6. Plan

Nothing more of the system is planned to be modelled. Worth proving still: a
composition of vault, export, extension and site would show that a token in two
wallets is admitted once, which `VerifierProofs!TokenSingleUse` says of any
clients whatever.
