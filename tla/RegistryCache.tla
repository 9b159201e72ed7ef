--------------------------- MODULE RegistryCache ---------------------------
(***************************************************************************)
(* How the browser extension obtains the trust registry: set_trust,        *)
(* refresh_registry, the cached copy, and the gate every mint and every    *)
(* enrollment passes (registryRefusal).                                    *)
(*                                                                         *)
(* A registry is a record of the root key that signed it, the time it was  *)
(* generated and the issuer keys it approves.  Root operators publish; a   *)
(* mirror is not trusted: it may answer with any registry published so     *)
(* far, with a signature file that belongs to another one (the two files   *)
(* are fetched separately), with garbage, or not at all.                   *)
(*                                                                         *)
(* As in Extension, a step of a handler is one awaited storage operation   *)
(* taking effect with the code up to the next await; the awaits between    *)
(* fetching and verifying touch no shared state and are one step.          *)
(***************************************************************************)
EXTENDS Integers

CONSTANTS
  Handlers,    \* messages being handled at the same time
  Roots,       \* root public keys
  Registries,  \* records [root, generated_at, approves]
  IssuerKeys,  \* signing keys issuers advertise
  None

ASSUME RegistriesAssumption ==
  /\ Registries \subseteq
       [root : Roots, generated_at : Nat, approves : SUBSET IssuerKeys]
  /\ None \notin Registries \cup Roots \cup IssuerKeys
  /\ \A r, s \in Registries :
       r.root = s.root /\ r.generated_at = s.generated_at => r = s

VARIABLES
  published,   \* registries signed and released so far
  trust,       \* chrome.storage.local.trust.rootKey
  cache,       \* chrome.storage.local.registryCache
  pc, local,   \* where each handler is, and its variables
  configured,  \* root keys the user has ever pasted (history)
  mints,       \* blind issue requests sent to an issuer (history)
  clobbered    \* some refresh wrote over a cache it had not read

vars == <<published, trust, cache, pc, local, configured, mints, clobbered>>

NoLocals == [root |-> None, cached |-> None, registry |-> None, key |-> None]

Init ==
  /\ published = {}
  /\ trust = None
  /\ cache = None
  /\ pc = [h \in Handlers |-> "idle"]
  /\ local = [h \in Handlers |-> NoLocals]
  /\ configured = {}
  /\ mints = {}
  /\ clobbered = FALSE

Goto(h, label, locals) ==
  /\ pc' = [pc EXCEPT ![h] = label]
  /\ local' = [local EXCEPT ![h] = locals]
Return(h) == Goto(h, "idle", NoLocals)

\* A root operator releases a newer registry.
Publish(r) ==
  /\ r \notin published
  /\ \A s \in published : s.root = r.root => s.generated_at < r.generated_at
  /\ published' = published \cup {r}
  /\ UNCHANGED <<trust, cache, pc, local, configured, mints, clobbered>>

-----------------------------------------------------------------------------
\* Faulty variants: what a plausible slip would make of the definition each is
\* named after.  Nothing in the specification uses them; put in the place of
\* the original, each one makes TLC find the property in brackets violated.

\* [CacheNeverRollsBack] only a copy of the very same time is refused.
RollbackSameTime(cached, fresh) ==
  cached # None /\ fresh.generated_at = cached.generated_at
\* [CacheIsVerified] the signature is checked under the key that signed.
VerifiesUnderItsOwnRoot(registry, signed, root) == registry = signed
\* [MintsAreApproved] with no registry at all, nothing is refused.
ApprovedFailingOpen(registry, key) ==
  registry # None => key \in registry.approves
\* [TypeOK] a failed fetch goes on to the write.
FetchUnchecked(h) ==
  /\ pc[h] = "fetch"
  /\ \E registry \in published \cup {None} :
       Goto(h, "write", [local[h] EXCEPT !.registry = registry])
  /\ UNCHANGED <<published, trust, cache, configured, mints, clobbered>>

-----------------------------------------------------------------------------
\* verifyRegistry: the signature covers the whole registry, under this key.
Verifies(registry, signed, root) == registry = signed /\ registry.root = root

\* isRollback against the copy the handler read, when there was one.
Rollback(cached, fresh) ==
  cached # None /\ fresh.generated_at < cached.generated_at

\* registryRefusal returns null: a registry is cached and approves this key of
\* this issuer, field for field.
Approved(registry, key) == registry # None /\ key \in registry.approves

-----------------------------------------------------------------------------
\* set_trust: the pasted key is stored, then the registry is refreshed.
SetTrust(h, k) ==
  /\ pc[h] = "idle"
  /\ trust' = k
  /\ configured' = configured \cup {k}
  /\ Goto(h, "refresh", NoLocals)
  /\ UNCHANGED <<published, cache, mints, clobbered>>

\* refresh_registry.
Refresh(h) ==
  /\ pc[h] = "idle"
  /\ Goto(h, "refresh", NoLocals)
  /\ UNCHANGED <<published, trust, cache, configured, mints, clobbered>>

\* refreshRegistry reads the trust settings; without them it gives up.
ReadTrust(h) ==
  /\ pc[h] = "refresh"
  /\ IF trust = None
     THEN Return(h)
     ELSE Goto(h, "read_cache", [local[h] EXCEPT !.root = trust])
  /\ UNCHANGED <<published, trust, cache, configured, mints, clobbered>>

\* It reads the cached copy before it fetches.
ReadCache(h) ==
  /\ pc[h] = "read_cache"
  /\ Goto(h, "fetch", [local[h] EXCEPT !.cached = cache])
  /\ UNCHANGED <<published, trust, cache, configured, mints, clobbered>>

\* The mirror has answered with two files; the registry verifies and is no
\* older than the copy that was read, so it will be stored.
FetchGood(h) ==
  /\ pc[h] = "fetch"
  /\ \E registry, signed \in published :
       /\ Verifies(registry, signed, local[h].root)
       /\ ~Rollback(local[h].cached, registry)
       /\ Goto(h, "write", [local[h] EXCEPT !.registry = registry])
  /\ UNCHANGED <<published, trust, cache, configured, mints, clobbered>>

\* The mirror is down, the payload is bad, or it is a rollback: whatever is
\* cached stays, and is reported as stale.
FetchBad(h) ==
  /\ pc[h] = "fetch"
  /\ Return(h)
  /\ UNCHANGED <<published, trust, cache, configured, mints, clobbered>>

WriteCache(h) ==
  /\ pc[h] = "write"
  /\ cache' = local[h].registry
  /\ clobbered' = (clobbered \/ cache # local[h].cached)
  /\ Return(h)
  /\ UNCHANGED <<published, trust, configured, mints>>

\* doMint: registryRefusal reads the cache; then the request is sent.
CheckIssuer(h, key) ==
  /\ pc[h] = "idle"
  /\ Approved(cache, key)
  /\ Goto(h, "issue", [NoLocals EXCEPT !.registry = cache, !.key = key])
  /\ UNCHANGED <<published, trust, cache, configured, mints, clobbered>>
SendIssue(h) ==
  /\ pc[h] = "issue"
  /\ mints' = mints \cup {[key |-> local[h].key, under |-> local[h].registry]}
  /\ Return(h)
  /\ UNCHANGED <<published, trust, cache, configured, clobbered>>

\* The browser ends the service worker.
WorkerDies ==
  /\ pc' = [h \in Handlers |-> "idle"]
  /\ local' = [h \in Handlers |-> NoLocals]
  /\ UNCHANGED <<published, trust, cache, configured, mints, clobbered>>

\* One step of the handler of a set_trust, refresh_registry or mint message.
HandlerStep(h) ==
  \/ \E k \in Roots : SetTrust(h, k)
  \/ Refresh(h) \/ ReadTrust(h) \/ ReadCache(h)
  \/ FetchGood(h) \/ FetchBad(h) \/ WriteCache(h)
  \/ \E key \in IssuerKeys : CheckIssuer(h, key)
  \/ SendIssue(h)

Next ==
  \/ \E r \in Registries : Publish(r)
  \/ \E h \in Handlers : HandlerStep(h)
  \/ WorkerDies

Spec == Init /\ [][Next]_vars

-----------------------------------------------------------------------------
\* The shape of the state: in particular a handler about to write the cache
\* has a registry in its hand.
TypeOK ==
  /\ published \in SUBSET Registries
  /\ trust \in Roots \cup {None}
  /\ cache \in Registries \cup {None}
  /\ pc \in [Handlers -> {"idle", "refresh", "read_cache", "fetch", "write",
                          "issue"}]
  /\ local \in [Handlers ->
       [root : Roots \cup {None}, cached : Registries \cup {None},
        registry : Registries \cup {None}, key : IssuerKeys \cup {None}]]
  /\ configured \in SUBSET Roots
  /\ mints \in SUBSET [key : IssuerKeys, under : Registries]
  /\ clobbered \in BOOLEAN
  /\ \A h \in Handlers :
       /\ pc[h] \in {"read_cache", "fetch"} => local[h].root \in Roots
       /\ pc[h] \in {"write", "issue"} => local[h].registry \in Registries
       /\ pc[h] = "issue" => local[h].key \in IssuerKeys

\* "rejects rollbacks": through any mix of refreshes, changes of the root key,
\* mirrors that answer with old files and worker deaths, the cached registry is
\* never replaced by an older one, unless a refresh writes over a copy that
\* another one stored after it had read the cache.
CacheNeverRollsBack ==
  [][~clobbered' /\ cache # None =>
       cache' # None /\ cache.generated_at <= cache'.generated_at]_vars

\* What is cached was published and signed by the holder of a root key the
\* user has configured, even though the key is read before the mirror answers
\* and may be replaced meanwhile.
CacheIsVerified ==
  cache # None => cache \in published /\ cache.root \in configured

\* "fail-closed [no verified registry => no enroll, no mint]": every request
\* to an issuer was for a key some registry approves that was published and
\* signed under a root the user has configured.
MintsAreApproved ==
  \A m \in mints :
    /\ m.under \in published /\ m.under.root \in configured
    /\ m.key \in m.under.approves
=============================================================================
