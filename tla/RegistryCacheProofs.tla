------------------------ MODULE RegistryCacheProofs ------------------------
(***************************************************************************)
(* Proofs about RegistryCache: types, what the cache holds, what mints     *)
(* were approved by, and that the cache goes back only by a stale write.   *)
(* Then about Onboarding: the cache goes on as RegistryCache says when     *)
(* enrollments run beside it, and every enrollment goes back to a start    *)
(* that passed the gate.                                                   *)
(***************************************************************************)
EXTENDS Onboarding, TLAPS

\* A registry that was released, under a root the user has configured.
Trusted(registry) ==
  registry \in published /\ registry.root \in configured

\* What makes CacheIsVerified and MintsAreApproved inductive: a root key a
\* handler has read was configured, and a registry in a handler's hand is
\* trusted, approves the key it is used for, and is no step back from the copy
\* the handler read.
InHand(label, locals) ==
  /\ label \in {"read_cache", "fetch"} => locals.root \in configured
  /\ label \in {"write", "issue"} => Trusted(locals.registry)
  /\ label = "write" => ~Rollback(locals.cached, locals.registry)
  /\ label = "issue" => locals.key \in locals.registry.approves

HandsInv == \A h \in Handlers : InHand(pc[h], local[h])

CacheInv ==
  /\ trust # None => trust \in configured
  /\ CacheIsVerified
  /\ MintsAreApproved
  /\ HandsInv

Labels == {"idle", "refresh", "read_cache", "fetch", "write", "issue"}
Locals == [root : Roots \cup {None}, cached : Registries \cup {None},
           registry : Registries \cup {None}, key : IssuerKeys \cup {None}]

\* The two halves of TypeOK: what a handler at a label has among its locals,
\* and what is in storage.
Equipped(label, locals) ==
  /\ label \in {"read_cache", "fetch"} => locals.root \in Roots
  /\ label \in {"write", "issue"} => locals.registry \in Registries
  /\ label = "issue" => locals.key \in IssuerKeys

StorageType ==
  /\ published \in SUBSET Registries
  /\ trust \in Roots \cup {None}
  /\ cache \in Registries \cup {None}
  /\ configured \in SUBSET Roots
  /\ mints \in SUBSET [key : IssuerKeys, under : Registries]
  /\ clobbered \in BOOLEAN

HandlersType ==
  /\ pc \in [Handlers -> Labels]
  /\ local \in [Handlers -> Locals]
  /\ \A h \in Handlers : Equipped(pc[h], local[h])

LEMMA TypeHalves == TypeOK <=> StorageType /\ HandlersType
BY DEF TypeOK, StorageType, HandlersType, Equipped, Labels, Locals

-----------------------------------------------------------------------------
\* A handler's move keeps the types when its new locals have what its new label
\* asks for.
LEMMA GotoTypes ==
  ASSUME HandlersType, NEW h \in Handlers, NEW label \in Labels,
         NEW locals \in Locals, Goto(h, label, locals), Equipped(label, locals)
  PROVE  HandlersType'
<1>1. pc' = [pc EXCEPT ![h] = label] /\ local' = [local EXCEPT ![h] = locals]
  BY DEF Goto
<1>2. pc \in [Handlers -> Labels] /\ local \in [Handlers -> Locals]
  BY DEF HandlersType
<1>3. pc' \in [Handlers -> Labels] /\ local' \in [Handlers -> Locals]
  BY <1>1, <1>2
<1>4. ASSUME NEW g \in Handlers
      PROVE  Equipped(pc'[g], local'[g])
  <2>1. CASE g = h
    <3>1. pc'[g] = label /\ local'[g] = locals
      BY <1>1, <1>2, <2>1
    <3>2. QED
      BY <3>1
  <2>2. CASE g # h
    <3>1. pc'[g] = pc[g] /\ local'[g] = local[g]
      BY <1>1, <1>2, <2>2
    <3>2. QED
      BY <3>1 DEF HandlersType
  <2>3. QED
    BY <2>1, <2>2
<1>5. QED
  BY <1>3, <1>4 DEF HandlersType, Equipped

LEMMA NoLocalsType == NoLocals \in Locals
BY DEF NoLocals, Locals

LEMMA ReturnTypes ==
  ASSUME HandlersType, NEW h \in Handlers, Return(h)
  PROVE  HandlersType'
BY NoLocalsType, GotoTypes DEF Return, Labels, Equipped

LEMMA TypeInit ==
  ASSUME Init
  PROVE  TypeOK
<1>1. StorageType
  BY DEF Init, StorageType
<1>2. HandlersType
  BY NoLocalsType DEF Init, HandlersType, Labels, Equipped
<1>3. QED
  BY <1>1, <1>2, TypeHalves

LEMMA TypeHandler ==
  ASSUME TypeOK, NEW h \in Handlers, HandlerStep(h)
  PROVE  TypeOK'
<1>1. StorageType /\ HandlersType /\ local[h] \in Locals /\ Equipped(pc[h], local[h])
  BY TypeHalves DEF HandlersType
<1> SUFFICES StorageType' /\ HandlersType'
  BY TypeHalves DEF TypeOK, StorageType, HandlersType, Equipped, Labels, Locals
<1>2. CASE \E k \in Roots : SetTrust(h, k)
  <2>1. PICK k \in Roots : SetTrust(h, k)
    BY <1>2
  <2>2. StorageType'
    BY <1>1, <2>1 DEF SetTrust, StorageType
  <2>3. HandlersType'
    BY <1>1, <2>1, NoLocalsType, GotoTypes DEF SetTrust, Labels, Equipped
  <2>4. QED
    BY <2>2, <2>3
<1>3. CASE Refresh(h)
  <2>1. StorageType'
    BY <1>1, <1>3 DEF Refresh, StorageType
  <2>2. HandlersType'
    BY <1>1, <1>3, NoLocalsType, GotoTypes DEF Refresh, Labels, Equipped
  <2>3. QED
    BY <2>1, <2>2
<1>4. CASE ReadTrust(h)
  <2>1. StorageType'
    BY <1>1, <1>4 DEF ReadTrust, StorageType
  <2>2. CASE trust = None
    BY <1>1, <1>4, <2>1, <2>2, ReturnTypes DEF ReadTrust
  <2>3. CASE trust # None
    <3>1. Goto(h, "read_cache", [local[h] EXCEPT !.root = trust])
      BY <1>4, <2>3 DEF ReadTrust
    <3>2. trust \in Roots
      BY <1>1, <2>3 DEF StorageType
    <3>3. /\ [local[h] EXCEPT !.root = trust] \in Locals
          /\ [local[h] EXCEPT !.root = trust].root = trust
      BY <1>1, <3>2 DEF Locals
    <3>4. HandlersType'
      BY <1>1, <3>1, <3>2, <3>3, GotoTypes DEF Labels, Equipped
    <3>5. QED
      BY <2>1, <3>4
  <2>4. QED
    BY <2>1, <2>2, <2>3
<1>5. CASE ReadCache(h)
  <2>1. StorageType'
    BY <1>1, <1>5 DEF ReadCache, StorageType
  <2>2. /\ [local[h] EXCEPT !.cached = cache] \in Locals
        /\ [local[h] EXCEPT !.cached = cache].root = local[h].root
    BY <1>1 DEF Locals, StorageType
  <2>3. HandlersType'
    BY <1>1, <1>5, <2>2, GotoTypes DEF ReadCache, Labels, Equipped
  <2>4. QED
    BY <2>1, <2>3
<1>6. CASE FetchGood(h)
  <2>1. StorageType'
    BY <1>1, <1>6 DEF FetchGood, StorageType
  <2>2. PICK r \in published : Goto(h, "write", [local[h] EXCEPT !.registry = r])
    BY <1>6 DEF FetchGood
  <2>3. /\ r \in Registries
        /\ [local[h] EXCEPT !.registry = r] \in Locals
        /\ [local[h] EXCEPT !.registry = r].registry = r
    BY <1>1 DEF Locals, StorageType
  <2>4. HandlersType'
    BY <1>1, <2>2, <2>3, GotoTypes DEF Labels, Equipped
  <2>5. QED
    BY <2>1, <2>4
<1>7. CASE FetchBad(h)
  BY <1>1, <1>7, ReturnTypes DEF FetchBad, StorageType
<1>8. CASE WriteCache(h)
  <2>1. local[h].registry \in Registries
    BY <1>1, <1>8 DEF WriteCache, Equipped
  <2>2. StorageType'
    <3>1. clobbered' \in BOOLEAN
      BY <1>8, Zenon DEF WriteCache
    <3>2. QED
      BY <1>1, <1>8, <2>1, <3>1 DEF WriteCache, StorageType
  <2>3. HandlersType'
    BY <1>1, <1>8, ReturnTypes DEF WriteCache
  <2>4. QED
    BY <2>2, <2>3
<1>9. CASE \E key \in IssuerKeys : CheckIssuer(h, key)
  <2>1. PICK key \in IssuerKeys : CheckIssuer(h, key)
    BY <1>9
  <2>2. StorageType' /\ cache \in Registries
    BY <1>1, <2>1 DEF CheckIssuer, Approved, StorageType
  <2> DEFINE held == [NoLocals EXCEPT !.registry = cache]
             checked == [held EXCEPT !.key = key]
  <2>3. held \in Locals /\ held.registry = cache
    BY <2>2, NoLocalsType DEF Locals
  <2>4. Goto(h, "issue", checked)
    BY <2>1 DEF CheckIssuer
  <2> HIDE DEF held
  <2>5. checked \in Locals /\ checked.registry = cache /\ checked.key = key
    BY <2>3 DEF Locals
  <2>6. HandlersType'
    BY <1>1, <2>2, <2>4, <2>5, GotoTypes DEF Labels, Equipped
  <2>7. QED
    BY <2>2, <2>6
<1>10. CASE SendIssue(h)
  <2>1. local[h].registry \in Registries /\ local[h].key \in IssuerKeys
    BY <1>1, <1>10 DEF SendIssue, Equipped
  <2>2. StorageType'
    BY <1>1, <1>10, <2>1 DEF SendIssue, StorageType
  <2>3. HandlersType'
    BY <1>1, <1>10, ReturnTypes DEF SendIssue
  <2>4. QED
    BY <2>2, <2>3
<1>11. QED
  BY <1>2, <1>3, <1>4, <1>5, <1>6, <1>7, <1>8, <1>9, <1>10 DEF HandlerStep

LEMMA TypeStep ==
  ASSUME TypeOK, [Next]_vars
  PROVE  TypeOK'
<1>1. CASE \E r \in Registries : Publish(r)
  BY <1>1 DEF Publish, TypeOK
<1>2. CASE \E h \in Handlers : HandlerStep(h)
  BY <1>2, TypeHandler
<1>3. CASE WorkerDies
  <2>1. StorageType' /\ HandlersType'
    BY <1>3, TypeHalves, NoLocalsType
    DEF WorkerDies, StorageType, HandlersType, Labels, Equipped
  <2>2. QED
    BY <2>1 DEF TypeOK, StorageType, HandlersType, Equipped, Labels, Locals
<1>4. CASE UNCHANGED vars
  BY <1>4 DEF vars, TypeOK
<1>5. QED
  BY <1>1, <1>2, <1>3, <1>4 DEF Next

\* In every state the storage and the handlers' variables have their types; in
\* particular a handler about to write the cache has a registry in its hand.
THEOREM TypeCorrect == Spec => []TypeOK
<1>1. Init => TypeOK
  BY TypeInit
<1>2. TypeOK /\ [Next]_vars => TypeOK'
  BY TypeStep
<1>3. QED
  BY <1>1, <1>2, PTL DEF Spec

-----------------------------------------------------------------------------
\* What all handlers hold stays good when one of them moves on with something
\* good, and neither a release nor a root key is forgotten.
LEMMA GotoInHand ==
  ASSUME HandlersType, HandsInv, NEW h \in Handlers, NEW label \in Labels,
         NEW locals \in Locals, Goto(h, label, locals),
         InHand(label, locals), published' = published,
         configured \subseteq configured'
  PROVE  HandsInv'
<1>1. ASSUME NEW g \in Handlers
      PROVE  InHand(pc[g], local[g])' 
  <2>1. /\ pc' = [pc EXCEPT ![h] = label]
        /\ local' = [local EXCEPT ![h] = locals]
        /\ pc \in [Handlers -> Labels] /\ local \in [Handlers -> Locals]
    BY DEF Goto, HandlersType
  <2>2. CASE g = h
    <3>1. pc'[g] = label /\ local'[g] = locals
      BY <2>1, <2>2
    <3>2. QED
      BY <3>1 DEF InHand, Trusted, Rollback
  <2>3. CASE g # h
    <3>1. pc'[g] = pc[g] /\ local'[g] = local[g]
      BY <2>1, <2>3
    <3>2. InHand(pc[g], local[g])
      BY DEF HandsInv
    <3>3. QED
      BY <3>1, <3>2 DEF InHand, Trusted, Rollback
  <2>4. QED
    BY <2>2, <2>3
<1>2. QED
  BY <1>1 DEF HandsInv

LEMMA ReturnInHand ==
  ASSUME HandlersType, HandsInv, NEW h \in Handlers, Return(h),
         published' = published, configured \subseteq configured'
  PROVE  HandsInv'
BY NoLocalsType, GotoInHand DEF Return, Labels, InHand

LEMMA CacheInit ==
  ASSUME Init
  PROVE  CacheInv
BY DEF Init, CacheInv, CacheIsVerified, MintsAreApproved, HandsInv, InHand

LEMMA CacheHandler ==
  ASSUME TypeOK, CacheInv, NEW h \in Handlers, HandlerStep(h)
  PROVE  CacheInv'
<1>1. /\ StorageType /\ HandlersType
      /\ local[h] \in Locals /\ Equipped(pc[h], local[h])
      /\ HandsInv /\ InHand(pc[h], local[h])
  BY TypeHalves DEF HandlersType, CacheInv, HandsInv
<1>2. CASE \E k \in Roots : SetTrust(h, k)
  <2>1. PICK k \in Roots : SetTrust(h, k)
    BY <1>2
  <2>2. HandsInv'
    BY <1>1, <2>1, NoLocalsType, GotoInHand DEF SetTrust, Labels, InHand
  <2>3. QED
    BY <2>1, <2>2 DEF SetTrust, CacheInv, CacheIsVerified, MintsAreApproved
<1>3. CASE Refresh(h)
  <2>1. HandsInv'
    BY <1>1, <1>3, NoLocalsType, GotoInHand DEF Refresh, Labels, InHand
  <2>2. QED
    BY <1>3, <2>1 DEF Refresh, CacheInv, CacheIsVerified, MintsAreApproved
<1>4. CASE ReadTrust(h)
  <2>1. CASE trust = None
    BY <1>1, <1>4, <2>1, ReturnInHand
    DEF ReadTrust, CacheInv, CacheIsVerified, MintsAreApproved
  <2>2. CASE trust # None
    <3>1. Goto(h, "read_cache", [local[h] EXCEPT !.root = trust])
      BY <1>4, <2>2 DEF ReadTrust
    <3>2. trust \in Roots /\ trust \in configured
      BY <1>1, <2>2 DEF StorageType, CacheInv
    <3>3. /\ [local[h] EXCEPT !.root = trust] \in Locals
          /\ [local[h] EXCEPT !.root = trust].root = trust
      BY <1>1, <3>2 DEF Locals
    <3>4. HandsInv'
      BY <1>1, <1>4, <3>1, <3>2, <3>3, GotoInHand DEF ReadTrust, Labels, InHand
    <3>5. QED
      BY <1>4, <3>4 DEF ReadTrust, CacheInv, CacheIsVerified, MintsAreApproved
  <2>3. QED
    BY <2>1, <2>2
<1>5. CASE ReadCache(h)
  <2>1. /\ [local[h] EXCEPT !.cached = cache] \in Locals
        /\ [local[h] EXCEPT !.cached = cache].root = local[h].root
    BY <1>1 DEF Locals, StorageType
  <2>2. HandsInv'
    BY <1>1, <1>5, <2>1, GotoInHand DEF ReadCache, Labels, InHand
  <2>3. QED
    BY <1>5, <2>2 DEF ReadCache, CacheInv, CacheIsVerified, MintsAreApproved
<1>6. CASE FetchGood(h)
  <2>1. PICK r \in published :
          /\ r.root = local[h].root
          /\ ~Rollback(local[h].cached, r)
          /\ Goto(h, "write", [local[h] EXCEPT !.registry = r])
    BY <1>6 DEF FetchGood, Verifies
  <2>2. /\ [local[h] EXCEPT !.registry = r] \in Locals
        /\ [local[h] EXCEPT !.registry = r].registry = r
        /\ [local[h] EXCEPT !.registry = r].cached = local[h].cached
    BY <1>1 DEF Locals, StorageType
  <2>3. Trusted(r)
    BY <1>1, <1>6, <2>1 DEF FetchGood, InHand, Trusted
  <2>4. HandsInv'
    BY <1>1, <1>6, <2>1, <2>2, <2>3, GotoInHand DEF FetchGood, Labels, InHand
  <2>5. QED
    BY <1>6, <2>4 DEF FetchGood, CacheInv, CacheIsVerified, MintsAreApproved
<1>7. CASE FetchBad(h)
  BY <1>1, <1>7, ReturnInHand
  DEF FetchBad, CacheInv, CacheIsVerified, MintsAreApproved
<1>8. CASE WriteCache(h)
  <2>1. Trusted(local[h].registry)
    BY <1>1, <1>8 DEF WriteCache, InHand
  <2>2. HandsInv'
    BY <1>1, <1>8, ReturnInHand DEF WriteCache
  <2>3. QED
    BY <1>8, <2>1, <2>2
    DEF WriteCache, CacheInv, CacheIsVerified, MintsAreApproved, Trusted
<1>9. CASE \E key \in IssuerKeys : CheckIssuer(h, key)
  <2>1. PICK key \in IssuerKeys : CheckIssuer(h, key)
    BY <1>9
  <2>2. cache \in Registries /\ key \in cache.approves /\ Trusted(cache)
    BY <1>1, <2>1 DEF CheckIssuer, Approved, StorageType, CacheInv,
                      CacheIsVerified, Trusted
  <2> DEFINE held == [NoLocals EXCEPT !.registry = cache]
             checked == [held EXCEPT !.key = key]
  <2>3. held \in Locals /\ held.registry = cache
    BY <2>2, NoLocalsType DEF Locals
  <2>4. Goto(h, "issue", checked)
    BY <2>1 DEF CheckIssuer
  <2> HIDE DEF held
  <2>5. checked \in Locals /\ checked.registry = cache /\ checked.key = key
    BY <2>3 DEF Locals
  <2>6. HandsInv'
    BY <1>1, <2>1, <2>2, <2>4, <2>5, GotoInHand DEF CheckIssuer, Labels, InHand
  <2>7. QED
    BY <2>1, <2>6 DEF CheckIssuer, CacheInv, CacheIsVerified, MintsAreApproved
<1>10. CASE SendIssue(h)
  <2>1. /\ Trusted(local[h].registry)
        /\ local[h].key \in local[h].registry.approves
    BY <1>1, <1>10 DEF SendIssue, InHand
  <2>2. HandsInv'
    BY <1>1, <1>10, ReturnInHand DEF SendIssue
  <2>3. MintsAreApproved'
    BY <1>10, <2>1 DEF SendIssue, CacheInv, MintsAreApproved, Trusted
  <2>4. QED
    BY <1>10, <2>2, <2>3 DEF SendIssue, CacheInv, CacheIsVerified
<1>11. QED
  BY <1>2, <1>3, <1>4, <1>5, <1>6, <1>7, <1>8, <1>9, <1>10 DEF HandlerStep

LEMMA CacheStep ==
  ASSUME TypeOK, CacheInv, [Next]_vars
  PROVE  CacheInv'
<1>1. CASE \E r \in Registries : Publish(r)
  BY <1>1 DEF Publish, CacheInv, CacheIsVerified, MintsAreApproved, HandsInv,
              InHand, Trusted, Rollback
<1>2. CASE \E h \in Handlers : HandlerStep(h)
  BY <1>2, CacheHandler
<1>3. CASE WorkerDies
  BY <1>3 DEF WorkerDies, CacheInv, CacheIsVerified, MintsAreApproved, HandsInv,
              InHand
<1>4. CASE UNCHANGED vars
  BY <1>4 DEF vars, CacheInv, CacheIsVerified, MintsAreApproved, HandsInv,
              InHand, Trusted, Rollback
<1>5. QED
  BY <1>1, <1>2, <1>3, <1>4 DEF Next

LEMMA CacheCorrect == Spec => [](TypeOK /\ CacheInv)
<1>1. Init => TypeOK /\ CacheInv
  BY TypeInit, CacheInit
<1>2. TypeOK /\ CacheInv /\ [Next]_vars => (TypeOK /\ CacheInv)'
  BY TypeStep, CacheStep
<1>3. QED
  BY <1>1, <1>2, PTL DEF Spec

\* refreshRegistry: however refreshes, changes of the root key and worker
\* deaths interleave, what is cached was released and signed under a root key
\* the user has configured.
THEOREM CacheVerified == Spec => []CacheIsVerified
<1>1. CacheInv => CacheIsVerified
  BY DEF CacheInv
<1>2. QED
  BY <1>1, CacheCorrect, PTL

\* doMint: every blind issue request was for a key that a trusted registry
\* approves, although the cache may have changed since the gate read it.
THEOREM MintsApproved == Spec => []MintsAreApproved
<1>1. CacheInv => MintsAreApproved
  BY DEF CacheInv
<1>2. QED
  BY <1>1, CacheCorrect, PTL

\* refreshRegistry: the cache goes back in time only by a write over a copy
\* that the writer had not read.
THEOREM NeverRollsBack == Spec => CacheNeverRollsBack
<1> DEFINE Forward == ~clobbered' /\ cache # None =>
             cache' # None /\ cache.generated_at <= cache'.generated_at
<1>1. TypeOK /\ CacheInv /\ [Next]_vars => [Forward]_vars
  <2> SUFFICES ASSUME TypeOK, CacheInv, Next PROVE Forward
    BY DEF vars
  <2>1. cache \in Registries \cup {None}
    BY DEF TypeOK
  <2>2. CASE cache' = cache
    BY <2>1, <2>2, RegistriesAssumption
  <2>3. CASE \E h \in Handlers : WriteCache(h)
    <3>1. PICK h \in Handlers : WriteCache(h)
      BY <2>3
    <3>2. /\ local[h].registry \in Registries
          /\ ~Rollback(local[h].cached, local[h].registry)
          /\ cache' = local[h].registry
          /\ ~clobbered' => cache = local[h].cached
      BY <3>1 DEF WriteCache, TypeOK, CacheInv, HandsInv, InHand
    <3>3. QED
      BY <2>1, <3>2, RegistriesAssumption DEF Rollback
  <2>4. QED
    BY <2>2, <2>3 DEF Next, HandlerStep, Publish, WorkerDies, SetTrust, Refresh,
                      ReadTrust, ReadCache, FetchGood, FetchBad, CheckIssuer,
                      SendIssue
<1>2. QED
  BY <1>1, CacheCorrect, PTL DEF Spec, CacheNeverRollsBack

-----------------------------------------------------------------------------
(* Onboarding, beside the cache.                                           *)

\* What is stored as a start is recent or old but not of the future, and was
\* let through by a trusted registry that approves a key of its issuer.
Backed(s) ==
  /\ s.start.created_at \in 0 .. now
  /\ Trusted(s.under)
  /\ s.key \in s.under.approves \cap Advertises[s.start.issuer]

\* The record goes back to a start, the page and the time being right.
Traced(record) ==
  \E s \in starts :
    /\ s.start.issuer = record.issuer /\ record.from = record.issuer
    /\ record.matched_at - s.start.created_at \in 0 .. Ttl
    /\ Backed(s)

Recording == {"clear", "read_issuers", "write_issuers"}

\* What a handler of this module has in its hand is good.
Good(o) ==
  /\ o.at = "store_start" =>
       Backed([start |-> o.start, under |-> o.under, key |-> o.key])
  /\ o.at \in Recording => Traced(o.record)
  /\ o.at = "write_issuers" => \A record \in o.read : Traced(record)

\* What makes EnrolledAsStarted inductive: what is pending was started, a
\* handler about to store a start has a good one, and every record goes back
\* to a start, those in handlers' copies of the list too.
OnboardInv ==
  /\ now \in Nat
  /\ DOMAIN onboard = Handlers
  /\ \A s \in starts : Backed(s)
  /\ pendingEnroll # None => \E s \in starts : s.start = pendingEnroll
  /\ \A record \in issuers : Traced(record)
  /\ \A h \in Handlers : Good(onboard[h])

\* Releases, root keys, starts and time are never taken back.
Onward ==
  /\ now \in Nat /\ now' \in Nat /\ now <= now'
  /\ published \subseteq published' /\ configured \subseteq configured'
  /\ starts \subseteq starts'

-----------------------------------------------------------------------------
\* The key of an enrollment's mint comes from the issuer's document; that it is
\* one RegistryCache knows follows from the registry's approval.
LEMMA OnboardingStepRefines ==
  ASSUME TypeOK, [OnboardingNext]_allVars
  PROVE  [Next]_vars
<1>1. CASE (\E r \in Registries : Publish(r)) /\ UNCHANGED onboardVars
  BY <1>1 DEF Next
<1>2. ASSUME NEW h \in Handlers, HandlerStep(h) \/ MintEnrolled(h)
      PROVE  Next
  <2>1. CASE MintEnrolled(h)
    <3>1. PICK key : CheckIssuer(h, key)
      BY <2>1 DEF MintEnrolled
    <3>2. key \in IssuerKeys
      BY <3>1, RegistriesAssumption DEF CheckIssuer, Approved, TypeOK
    <3>3. HandlerStep(h)
      BY <3>1, <3>2 DEF HandlerStep
    <3>4. QED
      BY <3>3 DEF Next
  <2>2. QED
    BY <1>2, <2>1 DEF Next
<1>3. ASSUME NEW h \in Handlers,
             \/ \E origin \in Origins :
                  \/ StartEnroll(h, origin)
                  \/ \E enrollment \in Enrollments :
                       Enrollment(h, origin, enrollment)
             \/ GatePassed(h) \/ GateRefused(h) \/ StoreStart(h)
             \/ ClearPending(h) \/ ReadIssuers(h) \/ WriteIssuers(h)
             \/ MintRefused(h)
      PROVE  UNCHANGED vars
  BY <1>3 DEF StartEnroll, Enrollment, GatePassed, GateRefused, StoreStart,
              ClearPending, ReadIssuers, WriteIssuers, MintRefused
<1>4. CASE Tick \/ UNCHANGED allVars
  BY <1>4 DEF Tick, allVars
<1>5. CASE OnboardingDies
  BY <1>5 DEF OnboardingDies, Next
<1>6. QED
  BY <1>1, <1>2, <1>3, <1>4, <1>5 DEF OnboardingNext

\* start_enroll and the enrollment messages are, for the registry cache,
\* nothing or the mint RegistryCache already has: onboarding beside it takes no
\* step that RegistryCache does not have.
THEOREM OnboardingRefinesCache == OnboardingSpec => Spec
<1>1. OnboardingInit => Init /\ TypeOK
  BY TypeInit DEF OnboardingInit
<1>2. TypeOK /\ [OnboardingNext]_allVars => [Next]_vars /\ TypeOK'
  BY OnboardingStepRefines, TypeStep
<1>3. QED
  BY <1>1, <1>2, PTL DEF OnboardingSpec, Spec

\* With enrollments running beside the refreshes, what is cached was released
\* under a configured root key, and mints were approved by such a registry.
THEOREM CacheVerifiedBesideOnboarding ==
  OnboardingSpec => [](CacheIsVerified /\ MintsAreApproved)
BY OnboardingRefinesCache, CacheVerified, MintsApproved, PTL

-----------------------------------------------------------------------------
LEMMA CacheOnlyGrows ==
  ASSUME [Next]_vars
  PROVE  published \subseteq published' /\ configured \subseteq configured'
BY DEF Next, vars, HandlerStep, Publish, WorkerDies, SetTrust, Refresh, ReadTrust,
       ReadCache, FetchGood, FetchBad, WriteCache, CheckIssuer, SendIssue

LEMMA OnboardingGoesOnward ==
  ASSUME TypeOK, OnboardInv, [OnboardingNext]_allVars
  PROVE  Onward
<1>1. published \subseteq published' /\ configured \subseteq configured'
  BY OnboardingStepRefines, CacheOnlyGrows
<1>2. starts \subseteq starts' /\ (now' = now \/ now' = now + 1)
  <2>1. ASSUME NEW h \in Handlers,
               \/ \E origin \in Origins :
                    \/ StartEnroll(h, origin)
                    \/ \E enrollment \in Enrollments :
                         Enrollment(h, origin, enrollment)
               \/ GatePassed(h) \/ GateRefused(h) \/ StoreStart(h)
               \/ ClearPending(h) \/ ReadIssuers(h) \/ WriteIssuers(h)
               \/ MintEnrolled(h) \/ MintRefused(h)
        PROVE  starts \subseteq starts' /\ now' = now
    BY <2>1 DEF StartEnroll, Enrollment, GatePassed, GateRefused, StoreStart,
                ClearPending, ReadIssuers, WriteIssuers, MintEnrolled, MintRefused
  <2>2. CASE Tick \/ OnboardingDies \/ UNCHANGED onboardVars
    BY <2>2 DEF Tick, OnboardingDies, onboardVars
  <2>3. QED
    BY <2>1, <2>2 DEF OnboardingNext, allVars
<1>3. QED
  BY <1>1, <1>2 DEF OnboardInv, Onward

LEMMA BackedStays ==
  ASSUME NEW s, Backed(s), Onward
  PROVE  Backed(s)'
BY DEF Backed, Trusted, Onward

LEMMA TracedStays ==
  ASSUME NEW record, Traced(record), Onward
  PROVE  Traced(record)'
<1>1. PICK s \in starts :
        /\ s.start.issuer = record.issuer /\ record.from = record.issuer
        /\ record.matched_at - s.start.created_at \in 0 .. Ttl
        /\ Backed(s)
  BY DEF Traced
<1>2. s \in starts' /\ Backed(s)'
  BY <1>1, BackedStays DEF Onward
<1>3. QED
  BY <1>1, <1>2 DEF Traced

LEMMA GoodStays ==
  ASSUME NEW o, Good(o), Onward
  PROVE  Good(o)'
BY BackedStays, TracedStays DEF Good

\* What handlers hold stays good when one of them goes on with something good.
LEMMA ContinueGood ==
  ASSUME OnboardInv, Onward, NEW h \in Handlers, NEW state,
         Continue(h, state), Good(state)
  PROVE  DOMAIN onboard' = Handlers /\ \A g \in Handlers : Good(onboard[g])'
<1>1. /\ DOMAIN onboard' = Handlers
      /\ onboard'[h] = state
      /\ \A g \in Handlers \ {h} : onboard'[g] = onboard[g]
  BY DEF OnboardInv, Continue
<1>2. ASSUME NEW g \in Handlers
      PROVE  Good(onboard[g])'
  <2>1. CASE g = h
    <3>1. onboard'[g] = state
      BY <1>1, <2>1
    <3>2. Good(state)'
      BY GoodStays
    <3>3. QED
      BY <3>1, <3>2 DEF Good
  <2>2. CASE g # h
    <3>1. onboard'[g] = onboard[g]
      BY <1>1, <2>2
    <3>2. Good(onboard[g])
      BY DEF OnboardInv
    <3>3. ASSUME NEW o, o = onboard[g] PROVE Good(o)'
      BY <3>2, <3>3, GoodStays
    <3>4. QED
      BY <3>1, <3>3 DEF Good
  <2>3. QED
    BY <2>1, <2>2
<1>3. QED
  BY <1>1, <1>2

-----------------------------------------------------------------------------
LEMMA OnboardInit ==
  ASSUME OnboardingInit
  PROVE  OnboardInv
BY DEF OnboardingInit, OnboardInv, Good, Recording, Done

\* What is in storage stays good: StorageGood is the part of OnboardInv that
\* does not speak of handlers.
StorageGood ==
  /\ now \in Nat
  /\ \A s \in starts : Backed(s)
  /\ pendingEnroll # None => \E s \in starts : s.start = pendingEnroll
  /\ \A record \in issuers : Traced(record)

LEMMA StorageKept ==
  ASSUME OnboardInv, Onward, UNCHANGED <<pendingEnroll, issuers, starts>>
  PROVE  StorageGood'
BY BackedStays, TracedStays DEF OnboardInv, StorageGood, Onward

LEMMA DoneGood == Good(Done)
BY DEF Good, Done, Recording

LEMMA OnboardHandler ==
  ASSUME TypeOK, CacheInv, OnboardInv, Onward, NEW h \in Handlers,
         \/ \E origin \in Origins :
              \/ StartEnroll(h, origin)
              \/ \E enrollment \in Enrollments : Enrollment(h, origin, enrollment)
         \/ GatePassed(h) \/ GateRefused(h) \/ StoreStart(h)
         \/ ClearPending(h) \/ ReadIssuers(h) \/ WriteIssuers(h)
         \/ MintEnrolled(h) \/ MintRefused(h)
  PROVE  OnboardInv'
<1>1. Good(onboard[h])
  BY DEF OnboardInv
<1>2. SUFFICES StorageGood' /\ \E state : Continue(h, state) /\ Good(state)
  BY ContinueGood DEF OnboardInv, StorageGood
<1>3. CASE \E origin \in Origins : StartEnroll(h, origin)
  BY <1>3, StorageKept DEF StartEnroll, Good, Recording
<1>4. CASE \E origin \in Origins, enrollment \in Enrollments :
             Enrollment(h, origin, enrollment)
  <2>1. PICK origin \in Origins, enrollment \in Enrollments :
          Enrollment(h, origin, enrollment)
    BY <1>4
  <2> DEFINE record == [issuer |-> pendingEnroll.issuer, enrollment |-> enrollment,
                        from |-> origin, matched_at |-> now]
  <2>2. PICK s \in starts : s.start = pendingEnroll
    BY <2>1 DEF Enrollment, Matches, OnboardInv
  <2>3. Backed(s) /\ now \in Nat
    BY DEF OnboardInv
  <2>4. Traced(record)
    BY <2>1, <2>2, <2>3, TimeAssumption DEF Enrollment, Matches, Traced, Backed
  <2>5. Continue(h, [at |-> "clear", record |-> record])
    BY <2>1 DEF Enrollment
  <2> HIDE DEF record
  <2>6. Good([at |-> "clear", record |-> record])
    BY <2>4 DEF Good
  <2>7. StorageGood'
    BY <2>1, StorageKept DEF Enrollment
  <2>8. QED
    BY <2>5, <2>6, <2>7
<1>5. CASE GatePassed(h)
  <2> DEFINE start == [issuer |-> onboard[h].issuer, created_at |-> now]
  <2>1. PICK key \in Advertises[onboard[h].issuer] :
          /\ Approved(cache, key)
          /\ Continue(h, [at |-> "store_start", start |-> start,
                          under |-> cache, key |-> key])
    BY <1>5 DEF GatePassed
  <2>2. Trusted(cache) /\ key \in cache.approves
    BY <2>1 DEF Approved, CacheInv, CacheIsVerified, Trusted
  <2>3. Backed([start |-> start, under |-> cache, key |-> key])
    BY <2>2 DEF Backed, OnboardInv
  <2> HIDE DEF start
  <2>4. UNCHANGED <<cache, pendingEnroll, issuers, starts>>
    BY <1>5 DEF GatePassed, vars
  <2>5. Good([at |-> "store_start", start |-> start, under |-> cache, key |-> key])
    BY <2>3 DEF Good, Recording
  <2>6. QED
    BY <2>1, <2>4, <2>5, StorageKept
<1>6. CASE GateRefused(h) \/ MintRefused(h) \/ MintEnrolled(h)
  BY <1>6, DoneGood, StorageKept DEF GateRefused, MintRefused, MintEnrolled
<1>7. CASE StoreStart(h)
  <2> DEFINE stored == [start |-> onboard[h].start, under |-> onboard[h].under,
                        key |-> onboard[h].key]
  <2>1. Backed(stored)
    BY <1>1, <1>7 DEF StoreStart, Good
  <2>2. /\ pendingEnroll' = stored.start /\ starts' = starts \cup {stored}
        /\ Continue(h, Done) /\ issuers' = issuers
    BY <1>7 DEF StoreStart
  <2> HIDE DEF stored
  <2>3. StorageGood'
    BY <2>1, <2>2, BackedStays, TracedStays DEF StorageGood, OnboardInv, Onward
  <2>4. QED
    BY <2>2, <2>3, DoneGood
<1>8. CASE ClearPending(h)
  <2>1. Continue(h, [at |-> "read_issuers", record |-> onboard[h].record])
    BY <1>8 DEF ClearPending
  <2>2. StorageGood'
    BY <1>8, BackedStays, TracedStays DEF ClearPending, StorageGood, OnboardInv, Onward
  <2>3. QED
    BY <1>1, <1>8, <2>1, <2>2 DEF ClearPending, Good, Recording
<1>9. CASE ReadIssuers(h)
  <2>1. Traced(onboard[h].record)
    BY <1>1, <1>9 DEF ReadIssuers, Good, Recording
  <2>2. Good([at |-> "write_issuers", record |-> onboard[h].record, read |-> issuers])
    BY <2>1 DEF Good, OnboardInv
  <2>3. /\ Continue(h, [at |-> "write_issuers", record |-> onboard[h].record,
                        read |-> issuers])
        /\ UNCHANGED <<pendingEnroll, issuers, starts>>
    BY <1>9 DEF ReadIssuers
  <2>4. QED
    BY <2>2, <2>3, StorageKept
<1>10. CASE WriteIssuers(h)
  <2>1. /\ Traced(onboard[h].record)
        /\ \A record \in onboard[h].read : Traced(record)
    BY <1>1, <1>10 DEF WriteIssuers, Good, Recording
  <2>2. \A record \in issuers' : Traced(record)
    BY <1>10, <2>1 DEF WriteIssuers, Without
  <2>3. StorageGood'
    BY <1>10, <2>2, BackedStays, TracedStays
    DEF WriteIssuers, StorageGood, OnboardInv, Onward
  <2>4. Good([at |-> "mint", issuer |-> onboard[h].record.issuer])
    BY DEF Good, Recording
  <2>5. QED
    BY <1>10, <2>3, <2>4 DEF WriteIssuers
<1>11. QED
  BY <1>3, <1>4, <1>5, <1>6, <1>7, <1>8, <1>9, <1>10

LEMMA OnboardStep ==
  ASSUME TypeOK, CacheInv, OnboardInv, [OnboardingNext]_allVars
  PROVE  OnboardInv'
<1>1. Onward
  BY OnboardingGoesOnward
<1>2. CASE UNCHANGED <<pendingEnroll, issuers, onboard, starts>>
  <2>1. StorageGood'
    BY <1>1, <1>2, StorageKept
  <2>2. ASSUME NEW h \in Handlers PROVE Good(onboard[h])'
    <3>1. ASSUME NEW o, o = onboard[h] PROVE Good(o)'
      BY <1>1, <3>1, GoodStays DEF OnboardInv
    <3>2. QED
      BY <1>2, <3>1 DEF Good
  <2>3. QED
    BY <1>2, <2>1, <2>2 DEF OnboardInv, StorageGood
<1>3. CASE OnboardingDies
  <2>1. StorageGood'
    BY <1>1, <1>3, StorageKept DEF OnboardingDies
  <2>2. ASSUME NEW h \in Handlers PROVE Good(onboard[h])'
    <3>1. onboard'[h] = Done
      BY <1>3 DEF OnboardingDies
    <3>2. QED
      BY <3>1 DEF Good, Done, Recording
  <2>3. QED
    BY <1>3, <2>1, <2>2 DEF OnboardingDies, OnboardInv, StorageGood
<1>4. CASE ~ OnboardingDies /\ ~ UNCHANGED <<pendingEnroll, issuers, onboard, starts>>
  <2>1. PICK h \in Handlers :
          \/ \E origin \in Origins :
               \/ StartEnroll(h, origin)
               \/ \E enrollment \in Enrollments : Enrollment(h, origin, enrollment)
          \/ GatePassed(h) \/ GateRefused(h) \/ StoreStart(h)
          \/ ClearPending(h) \/ ReadIssuers(h) \/ WriteIssuers(h)
          \/ MintEnrolled(h) \/ MintRefused(h)
    BY <1>4 DEF OnboardingNext, onboardVars, allVars, Tick
  <2>2. QED
    BY <1>1, <2>1, OnboardHandler
<1>5. QED
  BY <1>2, <1>3, <1>4

\* enrollment: whatever starts, messages, refreshes and worker deaths come in
\* between, every issuer on record was started with the approval of a trusted
\* registry for one of its keys, and its page answered in time.
THEOREM EnrolledOnlyAsStarted == OnboardingSpec => []EnrolledAsStarted
<1>1. OnboardingInit => TypeOK /\ CacheInv /\ OnboardInv
  BY TypeInit, CacheInit, OnboardInit DEF OnboardingInit
<1>2. TypeOK /\ CacheInv /\ OnboardInv /\ [OnboardingNext]_allVars =>
        (TypeOK /\ CacheInv /\ OnboardInv)'
  BY OnboardingStepRefines, TypeStep, CacheStep, OnboardStep
<1>3. OnboardInv => EnrolledAsStarted
  <2>1. OnboardInv =>
          \A record \in issuers \cup {onboard[h].record :
                 h \in {g \in Handlers : onboard[g].at \in Recording}} :
            Traced(record)
    BY DEF OnboardInv, Good
  <2>2. QED
    BY <2>1 DEF EnrolledAsStarted, Recording, Traced, Backed, Trusted
<1>4. QED
  BY <1>1, <1>2, <1>3, PTL DEF OnboardingSpec

\* enrollment: the list of issuers loses an issuer only by a write over a list
\* that the writer had not read.
THEOREM IssuersStay == OnboardingSpec => IssuersKept
<1> DEFINE Kept == ~overlapped' =>
      \A record \in issuers : \E kept \in issuers' : kept.issuer = record.issuer
<1>1. [OnboardingNext]_allVars => [Kept]_allVars
  <2> SUFFICES ASSUME OnboardingNext PROVE Kept
    OBVIOUS
  <2>1. CASE issuers' = issuers
    BY <2>1
  <2>2. CASE \E h \in Handlers : WriteIssuers(h)
    <3>1. PICK h \in Handlers : WriteIssuers(h)
      BY <2>2
    <3>2. ~overlapped' =>
            issuers' = Without(issuers, onboard[h].record.issuer)
                         \cup {onboard[h].record}
      BY <3>1 DEF WriteIssuers
    <3>3. QED
      BY <3>2 DEF Without
  <2>3. QED
    BY <2>1, <2>2 DEF OnboardingNext, onboardVars, Tick, OnboardingDies,
        StartEnroll, Enrollment, GatePassed, GateRefused, StoreStart,
        ClearPending, ReadIssuers, MintEnrolled, MintRefused
<1>2. QED
  BY <1>1, PTL DEF OnboardingSpec, IssuersKept
=============================================================================
