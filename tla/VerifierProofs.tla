--------------------------- MODULE VerifierProofs ---------------------------
(***************************************************************************)
(* Proofs about Verifier, for any number of requests, challenges, tokens,  *)
(* restarts and any registry, policy and set of presentations.             *)
(***************************************************************************)
EXTENDS Verifier, TLAPS

-----------------------------------------------------------------------------
\* TypeOK is inductive on its own.

LEMMA InitTypeOK == Init => TypeOK
  BY BoundsAssumption DEF Init, TypeOK, Labels

LEMMA NextTypeOK == TypeOK /\ [Next]_vars => TypeOK'
<1> SUFFICES ASSUME TypeOK, [Next]_vars PROVE TypeOK'
  OBVIOUS
<1> USE DEF TypeOK, Labels
<1>1. ASSUME NEW c \in ChallengeIds, Create(c) PROVE TypeOK'
  <2>1. [id |-> c, required_claim |-> Policy.required_claim,
         minimum_assurance_level |-> Policy.minimum_assurance_level,
         issued_at |-> now, expires_at |-> now + Ttl] \in ChallengeType
    BY BoundsAssumption DEF ChallengeType
  <2> QED BY <1>1, <2>1 DEF Create
<1>2. ASSUME NEW r \in Requests, NEW p \in Presentations, Receive(r, p)
      PROVE TypeOK'
  BY <1>2, PresentationsAssumption
  DEF Receive, Continue, Answer, ToReplayCheck
<1>3. ASSUME NEW r \in Requests, Pop(r) PROVE TypeOK'
  <2>1. req[r] \in Presentations /\ req[r].challenge_id \in ChallengeIds
    BY <1>3, PresentationsAssumption DEF Pop
  <2> QED BY <1>3, <2>1 DEF Pop, Continue
<1>4. ASSUME NEW r \in Requests, CompareToken(r) PROVE TypeOK'
  BY <1>4 DEF CompareToken, Continue, Answer, ToReplayCheck
<1>5. ASSUME NEW r \in Requests, CompareCredential(r) PROVE TypeOK'
  BY <1>5 DEF CompareCredential, Continue, Answer
<1>6. ASSUME NEW r \in Requests, VerifyProof(r) PROVE TypeOK'
  BY <1>6 DEF VerifyProof, Answer
<1>7. ASSUME NEW r \in Requests, EnterCache(r) PROVE TypeOK'
  BY <1>7 DEF EnterCache, Continue, InCache
<1>8. ASSUME NEW r \in Requests, LeaveCache(r) PROVE TypeOK'
  <2>1. req[r].nonce \in Nonces
    BY <1>8, PresentationsAssumption DEF LeaveCache
  <2> QED
    BY <1>8, <2>1 DEF LeaveCache, InsertAlone, InsertOverlapped, Answer
<1>9. CASE Tick
  BY <1>9, BoundsAssumption DEF Tick
<1>10. CASE Restart
  <2>1. \A r \in InCache : req[r].nonce \in Nonces
    BY PresentationsAssumption DEF InCache
  <2>2. spent' \in SUBSET Nonces
    BY <1>10, <2>1 DEF Restart
  <2> QED BY <1>10, <2>2, BoundsAssumption DEF Restart
<1>11. CASE UNCHANGED vars
  BY <1>11 DEF vars
<1> QED
  BY <1>1, <1>2, <1>3, <1>4, <1>5, <1>6, <1>7, <1>8, <1>9, <1>10, <1>11
  DEF Next, Serve, Quiescent

\* The state of the site always has the shape TypeOK states, and no thread is
\* at a label its endpoint does not reach.
THEOREM TypeCorrect == Spec => []TypeOK
  BY InitTypeOK, NextTypeOK, PTL DEF Spec

-----------------------------------------------------------------------------
\* Where a challenge can be.  It is pending under its own id, or it is in the
\* hand of the one thread that popped it, or it is gone: never in two places.
\* This is what makes consume a lock, and it is inductive with TypeOK.

PendingWellFiled ==
  \A c \in ChallengeIds :
    pending[c] # None => pending[c].id = c /\ c \in created

HeldWellFiled ==
  \A r \in Requests :
    held[r] # None =>
      /\ req[r] \in Presentations
      /\ held[r].id = req[r].challenge_id
      /\ held[r].id \in created
      /\ pending[held[r].id] = None

HeldByOne ==
  \A r, q \in Requests :
    r # q /\ held[r] # None /\ held[q] # None => held[r].id # held[q].id

\* A thread holds nothing before it pops, and holds a challenge wherever the
\* checks that follow consume have passed.
HeldWhenNeeded ==
  \A r \in Requests :
    /\ pc[r] \in {"idle", "consume"} => held[r] = None
    /\ pc[r] = "proof" => held[r] # None
    /\ pc[r] \in {"insert", "inserting"} /\ Policy.require_domain_binding
         => held[r] # None
    /\ Allowed(r) /\ BindsChallenge(r) => held[r] # None

ChallengeInv ==
  TypeOK /\ PendingWellFiled /\ HeldWellFiled /\ HeldByOne /\ HeldWhenNeeded

LEMMA InitChallengeInv == Init => ChallengeInv
  BY InitTypeOK
  DEF Init, ChallengeInv, PendingWellFiled, HeldWellFiled, HeldByOne,
      HeldWhenNeeded, Allowed

LEMMA NextChallengeInv == ChallengeInv /\ [Next]_vars => ChallengeInv'
<1> SUFFICES ASSUME ChallengeInv, [Next]_vars PROVE ChallengeInv'
  OBVIOUS
<1>0. TypeOK /\ TypeOK'
  BY NextTypeOK DEF ChallengeInv
<1> USE <1>0, NoneAssumption DEF ChallengeInv
<1> DEFINE Rest == PendingWellFiled /\ HeldWellFiled /\ HeldByOne /\ HeldWhenNeeded
<1> SUFFICES Rest'
  OBVIOUS
<1> USE DEF PendingWellFiled, HeldWellFiled, HeldByOne, HeldWhenNeeded, Allowed,
            BindsChallenge
<1>1. ASSUME NEW c \in ChallengeIds, Create(c) PROVE Rest'
  <2>1. \A d \in ChallengeIds : d # c => pending'[d] = pending[d]
    BY <1>1 DEF Create, TypeOK
  <2>2. pending'[c].id = c /\ pending[c] = None
    BY <1>1 DEF Create, TypeOK
  <2>3. created \subseteq created' /\ c \in created'
    BY <1>1 DEF Create
  <2>4. UNCHANGED <<pc, req, held, decision>>
    BY <1>1 DEF Create
  <2>5. PendingWellFiled'
    BY <2>1, <2>2, <2>3
  <2>6. HeldWellFiled'
    <3> SUFFICES ASSUME NEW r \in Requests, held[r] # None
                 PROVE /\ req[r] \in Presentations
                       /\ held[r].id = req[r].challenge_id
                       /\ held[r].id \in created'
                       /\ pending'[held[r].id] = None
      BY <2>4
    <3>1. held[r].id # c
      BY <1>1 DEF Create
    <3> QED BY <2>1, <2>3, <3>1, PresentationsAssumption
  <2>7. HeldByOne' /\ HeldWhenNeeded'
    BY <2>4
  <2> QED BY <2>5, <2>6, <2>7
<1>2. ASSUME NEW r \in Requests, NEW p \in Presentations, Receive(r, p)
      PROVE Rest'
  <2>1. UNCHANGED <<created, pending, held>> /\ held[r] = None
    BY <1>2 DEF Receive
  <2>2. \A q \in Requests : q # r =>
          req'[q] = req[q] /\ pc'[q] = pc[q] /\ decision'[q] = decision[q]
    BY <1>2 DEF Receive, Continue, Answer, ToReplayCheck, TypeOK
  <2>3. HeldWhenNeeded'
    BY <1>2, <2>1, <2>2, PresentationsAssumption DEF Receive, Continue, Answer, ToReplayCheck, TypeOK
  <2> QED BY <2>1, <2>2, <2>3
<1>3. ASSUME NEW r \in Requests, Pop(r) PROVE Rest'
  <2> DEFINE c == req[r].challenge_id
  <2>1. req[r] \in Presentations /\ c \in ChallengeIds /\ held[r] = None
    BY <1>3, PresentationsAssumption DEF Pop, TypeOK
  <2>2. held'[r] = pending[c] /\ pending'[c] = None /\ pc'[r] = "compare"
    BY <1>3, <2>1 DEF Pop, Continue, TypeOK
  <2>3. \A d \in ChallengeIds : d # c => pending'[d] = pending[d]
    BY <1>3, <2>1 DEF Pop, TypeOK
  <2>4. \A q \in Requests : q # r => held'[q] = held[q] /\ pc'[q] = pc[q]
    BY <1>3 DEF Pop, Continue, TypeOK
  <2>5. UNCHANGED <<created, req, decision>>
    BY <1>3 DEF Pop, Continue
  <2>6. decision[r] = "none"
    BY <1>3 DEF Pop, TypeOK
  <2>7. \A q \in Requests : held[q] # None => pending[c] = None \/ held[q].id # c
    BY <2>1
  <2> HIDE DEF c
  <2>8. PendingWellFiled'
    BY <2>2, <2>3, <2>5
  <2>9. HeldWellFiled'
    <3> SUFFICES ASSUME NEW q \in Requests, held'[q] # None
                 PROVE /\ req[q] \in Presentations
                       /\ held'[q].id = req[q].challenge_id
                       /\ held'[q].id \in created
                       /\ pending'[held'[q].id] = None
      BY <2>5
    <3>1. CASE q = r
      BY <3>1, <2>1, <2>2 DEF c
    <3>2. CASE q # r
      <4>1. held'[q].id \in ChallengeIds
        BY <3>2, <2>4, PresentationsAssumption
      <4> QED BY <3>2, <2>2, <2>3, <2>4, <4>1
    <3> QED BY <3>1, <3>2
  <2>10. HeldByOne'
    BY <2>1, <2>2, <2>4, <2>7
  <2>11. HeldWhenNeeded'
    BY <2>2, <2>4, <2>5, <2>6
  <2> QED BY <2>8, <2>9, <2>10, <2>11
<1>4. ASSUME NEW r \in Requests, CompareToken(r) PROVE Rest'
  BY <1>4 DEF CompareToken, Consumed, Continue, Answer, ToReplayCheck, TypeOK
<1>5. ASSUME NEW r \in Requests, CompareCredential(r) PROVE Rest'
  BY <1>5 DEF CompareCredential, Consumed, Continue, Answer, TypeOK
<1>6. ASSUME NEW r \in Requests, VerifyProof(r) PROVE Rest'
  BY <1>6 DEF VerifyProof, Answer, TypeOK
<1>7. ASSUME NEW r \in Requests, EnterCache(r) PROVE Rest'
  BY <1>7 DEF EnterCache, Continue, TypeOK
<1>8. ASSUME NEW r \in Requests, LeaveCache(r) PROVE Rest'
  BY <1>8 DEF LeaveCache, InsertAlone, InsertOverlapped, Answer, TypeOK
<1>9. CASE Tick
  BY <1>9 DEF Tick
<1>10. CASE Restart
  <2>1. \A c \in ChallengeIds : pending'[c] = None
    BY <1>10 DEF Restart
  <2>2. UNCHANGED <<created, req, held, decision>>
    BY <1>10 DEF Restart
  <2>3. \A r \in Requests : pc'[r] = pc[r] \/ pc'[r] \in {"cut", "lost"}
    BY <1>10 DEF Restart
  <2>4. \A r \in Requests : held[r] # None => held[r].id \in ChallengeIds
    BY PresentationsAssumption
  <2> QED BY <2>1, <2>2, <2>3, <2>4
<1>11. CASE UNCHANGED vars
  BY <1>11 DEF vars
<1> QED
  BY <1>1, <1>2, <1>3, <1>4, <1>5, <1>6, <1>7, <1>8, <1>9, <1>10, <1>11
  DEF Next, Serve, Quiescent

LEMMA ChallengeInvGrants == ChallengeInv => OneGrantPerChallenge
  BY DEF ChallengeInv, OneGrantPerChallenge, HeldWhenNeeded, HeldWellFiled,
         HeldByOne

\* A challenge lets in one visitor, whichever of the two endpoints is asked,
\* however the threads interleave, and across restarts.
THEOREM ChallengeSingleUse == Spec => []OneGrantPerChallenge
  BY InitChallengeInv, NextChallengeInv, ChallengeInvGrants, PTL DEF Spec

-----------------------------------------------------------------------------
\* A decision, and the presentation it is about, never change once made; nor
\* does a request leave the set of those whose cache call overlapped another.
LEMMA DecisionsStand ==
  ASSUME TypeOK, [Next]_vars, NEW r \in Requests
  PROVE  /\ pc[r] # "idle" => req'[r] = req[r] /\ pc'[r] # "idle"
         /\ pc[r] = "cut" => pc'[r] = "cut"
         /\ Allowed(r) => Allowed(r)'
         /\ r \in overlapped => r \in overlapped'
<1> USE DEF TypeOK, Allowed, Continue, Answer, ToReplayCheck
<1>1. ASSUME NEW c \in ChallengeIds, Create(c)
      PROVE UNCHANGED <<pc, req, decision, overlapped>>
  BY <1>1 DEF Create
<1>2. ASSUME NEW q \in Requests, NEW p \in Presentations, Receive(q, p)
      PROVE /\ UNCHANGED overlapped
            /\ q # r => UNCHANGED <<pc[r], req[r], decision[r]>>
            /\ pc[q] = "idle" /\ decision[q] = "none"
  BY <1>2 DEF Receive
<1>3. ASSUME NEW q \in Requests, Serve(q)
      PROVE /\ UNCHANGED req
            /\ q # r => UNCHANGED <<pc[r], decision[r]>>
            /\ pc[q] \notin {"idle", "cut"} /\ pc'[q] \notin {"idle", "cut"}
            /\ decision[q] = "none"
            /\ r \in overlapped => r \in overlapped'
  BY <1>3 DEF Serve, Pop, CompareToken, CompareCredential, VerifyProof,
              EnterCache, LeaveCache, InsertAlone, InsertOverlapped
<1>4. CASE Tick \/ Restart \/ Quiescent \/ UNCHANGED vars
  BY <1>4 DEF Tick, Restart, Quiescent, vars
<1> QED
  BY <1>1, <1>2, <1>3, <1>4 DEF Next

\* What LeaveCache and Restart may do to the rows of the cache, and that
\* nothing else touches them.
LEMMA RowsChange ==
  ASSUME TypeOK, [Next]_vars
  PROVE  \/ UNCHANGED spent
         \/ \E r \in Requests : LeaveCache(r)
         \/ Restart
  BY DEF Next, Serve, Create, Receive, Pop, CompareToken, CompareCredential,
         VerifyProof, EnterCache, Tick, Quiescent, vars

-----------------------------------------------------------------------------
\* Only a request that got as far as the cache can have overlapped another.
OverlappedRan == \A r \in overlapped : pc[r] # "idle"

\* A token let in by a call that ran alone has its row, as long as rows last.
GrantRecorded ==
  \A r \in Requests :
    /\ AllowedToken(r) /\ Policy.require_single_use
    /\ durable \/ restarts = 0
    /\ r \notin overlapped
    => req[r].nonce \in spent

TokenInv ==
  /\ TypeOK
  /\ OverlappedRan
  /\ TokenBurnedOnlyByGrant
  /\ GrantRecorded
  /\ OneGrantPerToken

LEMMA InitTokenInv == Init => TokenInv
  BY InitTypeOK
  DEF Init, TokenInv, OverlappedRan, TokenBurnedOnlyByGrant, GrantRecorded,
      OneGrantPerToken, AllowedToken, Allowed

LEMMA NextOverlappedRan ==
  TypeOK /\ OverlappedRan /\ [Next]_vars => OverlappedRan'
<1> SUFFICES ASSUME TypeOK, OverlappedRan, [Next]_vars, NEW r \in overlapped'
             PROVE  pc'[r] # "idle"
  BY DEF OverlappedRan
<1>1. r \in Requests
  BY NextTypeOK DEF TypeOK
<1>2. CASE r \in overlapped
  BY <1>1, <1>2, DecisionsStand DEF OverlappedRan
<1>3. CASE r \notin overlapped
  <2>1. PICK q \in Requests : EnterCache(q)
    BY <1>3 DEF Next, Serve, Create, Receive, Pop, CompareToken,
       CompareCredential, VerifyProof, LeaveCache, Tick, Restart, Quiescent, vars
  <2>2. r \in InCache \cup {q}
    BY <1>3, <2>1 DEF EnterCache
  <2>3. pc[r] # "idle"
    BY <2>1, <2>2 DEF InCache, EnterCache
  <2> QED BY <1>1, <2>3, DecisionsStand
<1> QED BY <1>2, <1>3

\* A new row is accounted for by the request that wrote it; an old one still
\* is by the request that accounted for it before.
LEMMA NextBurn ==
  TypeOK /\ OverlappedRan /\ TokenBurnedOnlyByGrant /\ [Next]_vars
    => TokenBurnedOnlyByGrant'
<1> SUFFICES ASSUME TypeOK, OverlappedRan, TokenBurnedOnlyByGrant, [Next]_vars,
                    NEW n \in spent'
             PROVE  \E r \in Requests :
                      /\ req'[r] # None /\ req'[r].endpoint = "redeem"
                      /\ req'[r].nonce = n
                      /\ Allowed(r)' \/ pc'[r] = "cut" \/ r \in overlapped'
  BY DEF TokenBurnedOnlyByGrant
<1>1. CASE n \in spent
  <2>1. PICK r \in Requests :
          /\ req[r] # None /\ req[r].endpoint = "redeem" /\ req[r].nonce = n
          /\ Allowed(r) \/ pc[r] = "cut" \/ r \in overlapped
    BY <1>1 DEF TokenBurnedOnlyByGrant
  <2>2. pc[r] # "idle"
    BY <2>1 DEF Allowed, TypeOK, OverlappedRan
  <2> QED BY <2>1, <2>2, DecisionsStand
<1>2. CASE n \notin spent
  <2>1. CASE \E r \in Requests : LeaveCache(r)
    <3>1. PICK r \in Requests : LeaveCache(r)
      BY <2>1
    <3>2. /\ req[r].nonce = n
          /\ Allowed(r)' \/ r \in overlapped
      BY <1>2, <3>1
      DEF LeaveCache, InsertAlone, InsertOverlapped, Answer, Allowed, TypeOK
    <3>3. req[r] \in Presentations /\ req[r].endpoint = "redeem"
      BY <3>1 DEF LeaveCache, TypeOK
    <3> QED BY <3>1, <3>2, <3>3, NoneAssumption DEF LeaveCache
  <2>2. CASE Restart
    <3>1. PICK r \in InCache : req[r].nonce = n
      BY <1>2, <2>2 DEF Restart
    <3>2. r \in Requests /\ pc'[r] = "cut"
      BY <2>2, <3>1 DEF Restart, InCache, TypeOK
    <3>3. req[r] \in Presentations /\ req[r].endpoint = "redeem"
      BY <3>1 DEF InCache, TypeOK
    <3> QED BY <2>2, <3>1, <3>2, <3>3, NoneAssumption DEF Restart
  <2> QED BY <1>2, <2>1, <2>2, RowsChange
<1> QED BY <1>1, <1>2

\* A request that is let in by this step was let in either by a call to the
\* cache, or under a policy that has no single use.
LEMMA NewGrant ==
  ASSUME TypeOK, [Next]_vars, NEW r \in Requests, AllowedToken(r)', ~Allowed(r),
         Policy.require_single_use
  PROVE  LeaveCache(r)
<1> USE DEF TypeOK, Allowed, AllowedToken, Continue, Answer, ToReplayCheck
<1>1. ASSUME NEW q \in Requests, NEW p \in Presentations, Receive(q, p)
      PROVE FALSE
  BY <1>1 DEF Receive
<1>2. ASSUME NEW q \in Requests, Serve(q) PROVE LeaveCache(r)
  <2>1. ~Pop(q) /\ ~CompareToken(q) /\ ~CompareCredential(q) /\ ~EnterCache(q)
    BY DEF Pop, CompareToken, CompareCredential, EnterCache
  <2>2. ~VerifyProof(q)
    BY DEF VerifyProof
  <2>3. LeaveCache(q)
    BY <1>2, <2>1, <2>2 DEF Serve
  <2>4. \E d : Answer(q, d)
    BY <2>3 DEF LeaveCache, InsertAlone, InsertOverlapped
  <2>5. q = r
    BY <2>4
  <2> QED BY <2>3, <2>5
<1>3. ~(\E c \in ChallengeIds : Create(c)) /\ ~Tick /\ ~Restart /\ ~Quiescent
  BY DEF Create, Tick, Restart, Quiescent, vars
<1> QED
  BY <1>1, <1>2, <1>3 DEF Next, vars

LEMMA NextGrants == TokenInv /\ [Next]_vars => GrantRecorded' /\ OneGrantPerToken'
<1> SUFFICES ASSUME TokenInv, [Next]_vars
             PROVE  GrantRecorded' /\ OneGrantPerToken'
  OBVIOUS
<1>1. TypeOK /\ TypeOK'
  BY NextTypeOK DEF TokenInv
<1> DEFINE Alone(r) == AllowedToken(r) /\ r \notin overlapped
           Lasting == durable \/ restarts = 0
<1>2. Lasting' => Lasting /\ spent \subseteq spent'
  <2>0. UNCHANGED durable
    BY DEF Next, Serve, Create, Receive, Pop, CompareToken, CompareCredential,
       VerifyProof, EnterCache, LeaveCache, Tick, Restart, Quiescent, vars
  <2>1. restarts' = 0 => restarts = 0
    BY <1>1, BoundsAssumption
    DEF Next, Serve, Create, Receive, Pop, CompareToken, CompareCredential,
        VerifyProof, EnterCache, LeaveCache, Tick, Restart, Quiescent, vars,
        TypeOK
  <2>2. ASSUME NEW r \in Requests, LeaveCache(r) PROVE spent \subseteq spent'
    BY <2>2 DEF LeaveCache, InsertAlone, InsertOverlapped
  <2>3. CASE Restart
    BY <2>3, <1>1 DEF Restart, TypeOK
  <2> QED BY <1>1, <2>0, <2>1, <2>2, <2>3, RowsChange
<1>3. ASSUME NEW r \in Requests, Alone(r)', Allowed(r)
      PROVE  Alone(r) /\ req'[r] = req[r]
  <2>1. pc[r] # "idle"
    BY <1>1, <1>3 DEF TypeOK, Allowed
  <2> QED BY <1>1, <1>3, <2>1, DecisionsStand DEF AllowedToken
<1>4. ASSUME NEW r \in Requests, Alone(r)', ~Allowed(r),
             Policy.require_single_use
      PROVE  /\ LeaveCache(r)
             /\ req[r].nonce \notin spent /\ req[r].nonce \in spent'
             /\ req' = req
  <2>1. LeaveCache(r)
    BY <1>1, <1>4, NewGrant
  <2>2. r \notin overlapped
    BY <1>1, <1>4, DecisionsStand
  <2> QED
    BY <1>1, <1>4, <2>1, <2>2
    DEF LeaveCache, InsertAlone, Answer, AllowedToken, Allowed, TypeOK
<1>5. GrantRecorded'
  <2> SUFFICES ASSUME NEW r \in Requests, Alone(r)',
                      Policy.require_single_use, Lasting'
               PROVE  req'[r].nonce \in spent'
    BY DEF GrantRecorded
  <2>1. CASE Allowed(r)
    BY <1>2, <1>3, <2>1 DEF TokenInv, GrantRecorded
  <2>2. CASE ~Allowed(r)
    BY <1>4, <2>2
  <2> QED BY <2>1, <2>2
<1>6. OneGrantPerToken'
  <2> SUFFICES ASSUME NEW r \in Requests, NEW q \in Requests, r # q,
                      Alone(r)', Alone(q)', Policy.require_single_use,
                      Lasting', req'[r].nonce = req'[q].nonce
               PROVE  FALSE
    BY DEF OneGrantPerToken
  <2>1. CASE Allowed(r) /\ Allowed(q)
    BY <1>2, <1>3, <2>1 DEF TokenInv, OneGrantPerToken
  <2>2. CASE Allowed(r) /\ ~Allowed(q)
    BY <1>2, <1>3, <1>4, <2>2 DEF TokenInv, GrantRecorded
  <2>3. CASE ~Allowed(r) /\ Allowed(q)
    BY <1>2, <1>3, <1>4, <2>3 DEF TokenInv, GrantRecorded
  <2>4. CASE ~Allowed(r) /\ ~Allowed(q)
    BY <1>1, <1>4, <2>4 DEF LeaveCache, InsertAlone, InsertOverlapped, Answer,
       AllowedToken, Allowed, TypeOK
  <2> QED BY <2>1, <2>2, <2>3, <2>4
<1> QED BY <1>5, <1>6

LEMMA NextTokenInv == TokenInv /\ [Next]_vars => TokenInv'
  BY NextTypeOK, NextOverlappedRan, NextBurn, NextGrants DEF TokenInv

\* Two ALLOW answers for one nonce need a call to the cache that overlapped
\* another, or a cache that was lost.
THEOREM TokenSingleUse == Spec => []OneGrantPerToken
<1>1. TokenInv => OneGrantPerToken
  BY DEF TokenInv
<1> QED BY <1>1, InitTokenInv, NextTokenInv, PTL DEF Spec

\* A row of the cache is the trace of an ALLOW, of a crash in the middle of
\* one, or of a call that overlapped another: a refused attempt leaves none.
THEOREM RefusedTokenKept == Spec => []TokenBurnedOnlyByGrant
<1>1. TokenInv => TokenBurnedOnlyByGrant
  BY DEF TokenInv
<1> QED BY <1>1, InitTokenInv, NextTokenInv, PTL DEF Spec

-----------------------------------------------------------------------------
\* Two windows, one instant.  What is remembered from the first instant on is
\* that the challenge named by its value had been created by then; it cannot
\* have been created again since.

\* A request past the checks of its key, and past consume.
KeyChecked(r) ==
  Allowed(r) \/ pc[r] \in {"consume", "compare", "proof", "insert", "inserting"}
PastConsume(r) ==
  /\ Allowed(r) \/ pc[r] \in {"proof", "insert", "inserting"}
  /\ BindsChallenge(r)

KeyWasGood ==
  \A r \in Requests : KeyChecked(r) =>
    \E key \in TokenKey(req[r].issuer_id, req[r].issuer_key_id)
                 \cup VcKey(req[r].issuer_id, req[r].issuer_key_id) :
      InWindow(key, checkedAt[r])

\* The value of a challenge is known only when it has been created, so a
\* pending challenge of that value was issued by the first instant.
KnownByThen ==
  \A r \in Requests : pc[r] # "idle" =>
    /\ checkedAt[r] <= now
    /\ req[r].challenge \in created
    /\ pending[req[r].challenge] # None =>
         pending[req[r].challenge].issued_at <= checkedAt[r]

LivesTtl ==
  /\ \A c \in ChallengeIds : pending[c] # None =>
       pending[c].issued_at <= now /\ pending[c].expires_at = pending[c].issued_at + Ttl
  /\ \A r \in Requests : held[r] # None =>
       /\ held[r].expires_at = held[r].issued_at + Ttl
       /\ held[r].id = req[r].challenge => held[r].issued_at <= checkedAt[r]

ChallengeWasGood ==
  \A r \in Requests : PastConsume(r) =>
    held[r] # None /\ held[r].id = req[r].challenge /\ checkedAt[r] <= held[r].expires_at

WindowInv == KeyWasGood /\ KnownByThen /\ LivesTtl /\ ChallengeWasGood

LEMMA InitWindowInv == Init => WindowInv
  BY DEF Init, WindowInv, KeyWasGood, KnownByThen, LivesTtl, ChallengeWasGood,
         KeyChecked, PastConsume, Allowed

\* A step of the thread of r that leaves what it has read as it is.
LEMMA WindowStays ==
  ASSUME ChallengeInv, WindowInv, NEW r \in Requests,
         UNCHANGED <<now, created, pending, req, held, checkedAt>>,
         \A q \in Requests : q # r => pc'[q] = pc[q] /\ decision'[q] = decision[q],
         pc[r] # "idle" /\ KeyChecked(r),
         BindsChallenge(r) =>
           \/ pc'[r] \notin {"proof", "insert", "inserting"} /\ decision'[r] # "ALLOW"
           \/ held[r] # None /\ held[r].id = req[r].challenge
                /\ checkedAt[r] <= held[r].expires_at
  PROVE  WindowInv'
<1>1. KeyWasGood'
  BY DEF WindowInv, KeyWasGood, KeyChecked, Allowed
<1>2. KnownByThen'
  BY DEF WindowInv, KnownByThen
<1>3. LivesTtl'
  BY DEF WindowInv, LivesTtl
<1>4. ChallengeWasGood'
  BY DEF WindowInv, ChallengeWasGood, PastConsume, Allowed, BindsChallenge
<1> QED BY <1>1, <1>2, <1>3, <1>4 DEF WindowInv

LEMMA NextWindowInv == ChallengeInv /\ WindowInv /\ [Next]_vars => WindowInv'
<1> SUFFICES ASSUME ChallengeInv, WindowInv, [Next]_vars PROVE WindowInv'
  OBVIOUS
<1>0. TypeOK /\ TypeOK' /\ now \in Nat /\ Ttl \in Nat
  BY NextTypeOK, BoundsAssumption DEF ChallengeInv, TypeOK
<1>1. ASSUME NEW c \in ChallengeIds, Create(c) PROVE WindowInv'
  <2>1. /\ c \notin created /\ created' = created \cup {c}
        /\ UNCHANGED <<now, pc, req, held, checkedAt, decision>>
    BY <1>1 DEF Create
  <2>2. \A d \in ChallengeIds : d # c => pending'[d] = pending[d]
    BY <1>0, <1>1 DEF Create, TypeOK
  <2>3. pending'[c].issued_at = now /\ pending'[c].expires_at = now + Ttl
    BY <1>0, <1>1 DEF Create, TypeOK
  <2>4. KnownByThen'
    BY <1>0, <2>1, <2>2 DEF WindowInv, KnownByThen, TypeOK
  <2>5. LivesTtl'
    BY <1>0, <2>1, <2>2, <2>3 DEF WindowInv, LivesTtl, TypeOK
  <2>6. KeyWasGood' /\ ChallengeWasGood'
    BY <2>1 DEF WindowInv, KeyWasGood, ChallengeWasGood, KeyChecked, PastConsume,
       Allowed, BindsChallenge
  <2> QED BY <2>4, <2>5, <2>6 DEF WindowInv
<1>2. ASSUME NEW r \in Requests, NEW p \in Presentations, Receive(r, p)
      PROVE WindowInv'
  <2>1. /\ pc[r] = "idle" /\ p.challenge \in created /\ p.challenge \in ChallengeIds
        /\ held[r] = None /\ decision[r] = "none"
        /\ UNCHANGED <<now, created, pending, held>>
        /\ req'[r] = p /\ checkedAt'[r] = now
    BY <1>0, <1>2, PresentationsAssumption
    DEF Receive, TypeOK, ChallengeInv, HeldWhenNeeded
  <2>2. \A q \in Requests : q # r =>
          /\ req'[q] = req[q] /\ pc'[q] = pc[q] /\ decision'[q] = decision[q]
          /\ checkedAt'[q] = checkedAt[q]
    BY <1>0, <1>2 DEF Receive, Continue, Answer, ToReplayCheck, TypeOK
  <2>3. KnownByThen'
    BY <1>0, <2>1, <2>2 DEF WindowInv, KnownByThen, LivesTtl, TypeOK
  <2>4. LivesTtl'
    BY <1>0, <2>1, <2>2 DEF WindowInv, LivesTtl, TypeOK
  <2>5. KeyWasGood'
    <3>1. CASE TokenAcceptable(p, now) \/ CredentialAcceptable(p, now)
      <4>1. \E key \in TokenKey(p.issuer_id, p.issuer_key_id)
                         \cup VcKey(p.issuer_id, p.issuer_key_id) : InWindow(key, now)
        BY <3>1 DEF TokenAcceptable, CredentialAcceptable
      <4> QED BY <2>1, <2>2, <4>1 DEF WindowInv, KeyWasGood, KeyChecked, Allowed
    <3>2. CASE ~ TokenAcceptable(p, now) /\ ~ CredentialAcceptable(p, now)
      <4>1. pc'[r] = "done" /\ decision'[r] = "DENY"
        BY <1>0, <1>2, <3>2 DEF Receive, Answer, TypeOK
      <4> QED BY <2>1, <2>2, <4>1 DEF WindowInv, KeyWasGood, KeyChecked, Allowed
    <3> QED BY <3>1, <3>2
  <2>6. ChallengeWasGood'
    <3>1. BindsChallenge(r)' => pc'[r] \in {"consume", "done"} /\ decision'[r] # "ALLOW"
      BY <1>0, <1>2, <2>1
      DEF Receive, Continue, Answer, ToReplayCheck, BindsChallenge, TypeOK
    <3> QED BY <2>1, <2>2, <3>1 DEF WindowInv, ChallengeWasGood, PastConsume, Allowed,
               BindsChallenge
  <2> QED BY <2>3, <2>4, <2>5, <2>6 DEF WindowInv
<1>3. ASSUME NEW r \in Requests, Pop(r) PROVE WindowInv'
  <2> DEFINE c == req[r].challenge_id
  <2>1. /\ req[r] \in Presentations /\ c \in ChallengeIds /\ pc[r] = "consume"
        /\ held'[r] = pending[c] /\ pc'[r] = "compare"
        /\ UNCHANGED <<now, created, req, checkedAt, decision>>
    BY <1>0, <1>3, PresentationsAssumption DEF Pop, Continue, TypeOK
  <2>2. /\ \A d \in ChallengeIds : d # c => pending'[d] = pending[d]
        /\ pending'[c] = None
    BY <1>0, <1>3, <2>1 DEF Pop, TypeOK
  <2>3. \A q \in Requests : q # r => held'[q] = held[q] /\ pc'[q] = pc[q]
    BY <1>0, <1>3 DEF Pop, Continue, TypeOK
  <2>4. pending[c] # None => pending[c].id = c
    BY <2>1 DEF ChallengeInv, PendingWellFiled
  <2>5. KnownByThen'
    BY <1>0, <2>1, <2>2, <2>3 DEF WindowInv, KnownByThen, TypeOK
  <2>6. LivesTtl'
    <3>1. pending[c] # None =>
            /\ pending[c].expires_at = pending[c].issued_at + Ttl
            /\ c = req[r].challenge => pending[c].issued_at <= checkedAt[r]
      BY <2>1 DEF WindowInv, LivesTtl, KnownByThen
    <3> HIDE DEF c
    <3> QED BY <2>1, <2>2, <2>3, <2>4, <3>1 DEF WindowInv, LivesTtl
  <2> HIDE DEF c
  <2>7. KeyWasGood'
    BY <2>1, <2>3 DEF WindowInv, KeyWasGood, KeyChecked, Allowed
  <2>8. ChallengeWasGood'
    <3>1. decision[r] # "ALLOW"
      BY <1>0, <2>1 DEF TypeOK
    <3> QED BY <2>1, <2>3, <3>1 DEF WindowInv, ChallengeWasGood, PastConsume, Allowed,
               BindsChallenge
  <2> QED BY <2>5, <2>6, <2>7, <2>8 DEF WindowInv
<1>4. ASSUME NEW r \in Requests, Consumed(r), pc[r] = "compare"
      PROVE  held[r] # None /\ held[r].id = req[r].challenge
               /\ checkedAt[r] <= held[r].expires_at
  <2>1. held[r].expires_at \in Int /\ checkedAt[r] \in Int
    BY <1>0, <1>4 DEF Consumed, TypeOK, ChallengeType
  <2>2. checkedAt[r] <= now
    BY <1>4 DEF WindowInv, KnownByThen
  <2> QED BY <1>0, <1>4, <2>1, <2>2 DEF Consumed
<1>5. ASSUME NEW r \in Requests,
             CompareToken(r) \/ CompareCredential(r)
      PROVE WindowInv'
  <2>1. /\ pc[r] = "compare" /\ decision[r] = "none"
        /\ UNCHANGED <<now, created, pending, req, held, checkedAt>>
        /\ \A q \in Requests : q # r => pc'[q] = pc[q] /\ decision'[q] = decision[q]
    BY <1>0, <1>5
    DEF CompareToken, CompareCredential, Continue, Answer, ToReplayCheck, TypeOK
  <2>2. Consumed(r) \/ (pc'[r] = "done" /\ decision'[r] = "DENY")
    BY <1>0, <1>5 DEF CompareToken, CompareCredential, Answer, TypeOK
  <2>3. KeyChecked(r)
    BY <2>1 DEF KeyChecked
  <2> QED BY <1>4, <2>1, <2>2, <2>3, WindowStays
<1>6. ASSUME NEW r \in Requests,
             VerifyProof(r) \/ EnterCache(r) \/ LeaveCache(r)
      PROVE WindowInv'
  <2>1. /\ pc[r] \in {"proof", "insert", "inserting"} /\ pc[r] # "idle"
        /\ UNCHANGED <<now, created, pending, req, held, checkedAt>>
        /\ \A q \in Requests : q # r => pc'[q] = pc[q] /\ decision'[q] = decision[q]
    BY <1>0, <1>6
    DEF VerifyProof, EnterCache, LeaveCache, InsertAlone, InsertOverlapped, Continue,
        Answer, TypeOK
  <2>2. BindsChallenge(r) =>
          held[r] # None /\ held[r].id = req[r].challenge /\ checkedAt[r] <= held[r].expires_at
    BY <2>1 DEF WindowInv, ChallengeWasGood, PastConsume
  <2>3. KeyChecked(r)
    BY <2>1 DEF KeyChecked
  <2> QED BY <2>1, <2>2, <2>3, WindowStays
<1>7. CASE Tick
  <2>1. now' = now + 1 /\ UNCHANGED <<created, pending, pc, req, held, checkedAt, decision>>
    BY <1>7 DEF Tick
  <2>2. KnownByThen' /\ LivesTtl'
    BY <1>0, <2>1 DEF WindowInv, KnownByThen, LivesTtl, TypeOK, ChallengeType
  <2>3. KeyWasGood' /\ ChallengeWasGood'
    BY <2>1 DEF WindowInv, KeyWasGood, ChallengeWasGood, KeyChecked, PastConsume,
       Allowed, BindsChallenge
  <2> QED BY <2>2, <2>3 DEF WindowInv
<1>8. CASE Restart
  <2>1. /\ UNCHANGED <<now, created, req, held, checkedAt, decision>>
        /\ \A c \in ChallengeIds : pending'[c] = None
        /\ \A r \in Requests : pc'[r] = pc[r] \/ (pc[r] # "idle" /\ pc'[r] \in {"cut", "lost"})
    BY <1>8 DEF Restart
  <2>2. KnownByThen' /\ LivesTtl'
    BY <1>0, <2>1 DEF WindowInv, KnownByThen, LivesTtl, TypeOK
  <2>3. KeyWasGood' /\ ChallengeWasGood'
    BY <2>1 DEF WindowInv, KeyWasGood, ChallengeWasGood, KeyChecked, PastConsume,
       Allowed, BindsChallenge
  <2> QED BY <2>2, <2>3 DEF WindowInv
<1>9. CASE UNCHANGED vars
  BY <1>9 DEF vars, WindowInv, KeyWasGood, KnownByThen, LivesTtl, ChallengeWasGood,
     KeyChecked, PastConsume, Allowed, BindsChallenge
<1> QED
  BY <1>1, <1>2, <1>3, <1>5, <1>6, <1>7, <1>8, <1>9 DEF Next, Serve, Quiescent

\* verify reads the clock twice, once for the key and once for the challenge:
\* at the first of the two instants both were good, whatever the threads do.
THEOREM WindowsMeet == Spec => []GrantedInsideBothWindows
<1>1. ChallengeInv /\ WindowInv => GrantedInsideBothWindows
  BY DEF WindowInv, KeyWasGood, LivesTtl, ChallengeWasGood, KeyChecked, PastConsume,
         GrantedInsideBothWindows
<1> QED BY <1>1, InitChallengeInv, InitWindowInv, NextChallengeInv, NextWindowInv, PTL
        DEF Spec

\* consume pops before it looks: a challenge that has been taken, by whichever
\* thread and for whatever answer, is never pending again.
THEOREM TakenForGood == Spec => BurnedStaysBurned
<1>1. ASSUME TypeOK, [Next]_vars, NEW c \in created, pending[c] = None
      PROVE  pending'[c] = None
  <2>1. c \in ChallengeIds
    BY <1>1 DEF TypeOK
  <2>2. ASSUME NEW d \in ChallengeIds, Create(d) PROVE pending'[c] = None
    BY <1>1, <2>2 DEF Create, TypeOK
  <2>3. ASSUME NEW r \in Requests, Pop(r) PROVE pending'[c] = None
    BY <1>1, <2>1, <2>3 DEF Pop, TypeOK
  <2>4. CASE Restart
    BY <2>1, <2>4 DEF Restart
  <2>5. \/ pending' = pending \/ Restart
        \/ \E d \in ChallengeIds : Create(d)
        \/ \E r \in Requests : Pop(r)
    BY <1>1 DEF Next, Serve, Receive, CompareToken, CompareCredential, VerifyProof,
       EnterCache, LeaveCache, Tick, Quiescent, vars
  <2> QED BY <1>1, <2>2, <2>3, <2>4, <2>5
<1>2. TypeOK /\ [Next]_vars =>
        [\A c \in created : pending[c] = None => pending'[c] = None]_vars
  BY <1>1
<1> QED BY <1>2, InitTypeOK, NextTypeOK, PTL DEF Spec, BurnedStaysBurned

-----------------------------------------------------------------------------
(* The site is an AgeGate.                                                 *)

GateInv == ChallengeInv /\ TokenInv

LEMMA InitGateInv == Init => GateInv
  BY InitChallengeInv, InitTokenInv DEF GateInv

LEMMA NextGateInv == GateInv /\ [Next]_vars => GateInv'
  BY NextChallengeInv, NextTokenInv DEF GateInv

-----------------------------------------------------------------------------
\* The gate sees a step only through these two sets and `created'.

LEMMA OpenCreated == ChallengeInv => OpenChallenges \subseteq created
  BY DEF ChallengeInv, OpenChallenges, PendingWellFiled, HeldWellFiled, TypeOK

\* What ImplementsGate allows in a step that the gate sees.
SiteStep ==
  \/ Gate!GateNext
  \/ \E c \in ChallengeIds, t \in Nonces : Recurs(t) /\ Gate!Enter(c, t)

\* A step that closes challenges and admits nobody is a Withdraw.
LEMMA Closing ==
  ASSUME ChallengeInv, UNCHANGED <<created, Admissions>>,
         OpenChallenges' \subseteq OpenChallenges
  PROVE  Gate!GateNext
<1> DEFINE S == OpenChallenges \ OpenChallenges'
<1>1. S \in SUBSET OpenChallenges
  OBVIOUS
<1>2. Gate!Withdraw(S)
  BY OpenCreated DEF Gate!Withdraw
<1> QED BY <1>1, <1>2 DEF Gate!GateNext

\* A request that has not been allowed is in no admission: changing its
\* program counter or its answer to anything but ALLOW changes none of them.
LEMMA SameAdmissions ==
  ASSUME TypeOK, [Next]_vars,
         \A r \in Requests : Allowed(r)' => Allowed(r)
  PROVE  UNCHANGED Admissions
<1>1. \A r \in Requests : Allowed(r)' <=> Allowed(r)
  BY DecisionsStand
<1>2. \A r \in Requests : Allowed(r) => Admission(r)' = Admission(r)
  BY DecisionsStand DEF Admission, Allowed, TypeOK
<1> QED BY <1>1, <1>2 DEF Admissions

\* The thread of r answers ALLOW with a challenge in its hand: the gate closes
\* that challenge and admits r, whose token, if it is one, recurs or is unused.
LEMMA Admitting ==
  ASSUME ChallengeInv, [Next]_vars, NEW r \in Requests,
         InHand(r), held[r] # None, req[r] \in Presentations, ~Allowed(r),
         Answer(r, "ALLOW"), UNCHANGED <<created, pending, held, req>>,
         req[r].endpoint = "redeem" =>
           \/ Recurs(req[r].nonce)
           \/ \A q \in Requests : AllowedToken(q) => req[q].nonce # req[r].nonce
  PROVE  SiteStep
<1> DEFINE c == held[r].id
           t == IF req[r].endpoint = "redeem" THEN req[r].nonce ELSE None
<1>0. TypeOK
  BY DEF ChallengeInv
<1>1. /\ c = req[r].challenge_id /\ c \in ChallengeIds /\ c \in created
      /\ pending[c] = None /\ t \in Nonces \cup {None}
  BY PresentationsAssumption DEF ChallengeInv, HeldWellFiled
<1>2. \A q \in Requests : q # r => pc'[q] = pc[q] /\ decision'[q] = decision[q]
  BY <1>0 DEF Answer, TypeOK
<1>3. pc'[r] = "done" /\ decision'[r] = "ALLOW"
  BY <1>0 DEF Answer, TypeOK
<1>4. c \in OpenChallenges
  BY DEF OpenChallenges
<1>5. OpenChallenges' = OpenChallenges \ {c}
  <2>1. \A q \in Requests : q # r /\ held[q] # None => held[q].id # c
    BY DEF ChallengeInv, HeldByOne
  <2>2. \A q \in Requests : InHand(q)' <=> InHand(q) /\ q # r
    BY <1>2, <1>3 DEF InHand
  <2> HIDE DEF c
  <2>3. ASSUME NEW d PROVE d \in OpenChallenges' <=> d \in OpenChallenges /\ d # c
    <3>1. d \in OpenChallenges' <=>
            \/ d \in ChallengeIds /\ pending[d] # None
            \/ \E q \in Requests : InHand(q)' /\ held[q] # None /\ d = held[q].id
      BY DEF OpenChallenges
    <3>2. d \in OpenChallenges <=>
            \/ d \in ChallengeIds /\ pending[d] # None
            \/ \E q \in Requests : InHand(q) /\ held[q] # None /\ d = held[q].id
      BY DEF OpenChallenges
    <3> QED BY <1>1, <2>1, <2>2, <3>1, <3>2 DEF c
  <2> QED BY <2>3
<1>6. Admissions' = Admissions \cup {[challenge |-> c, token |-> t]}
  <2>1. \A q \in Requests : Allowed(q)' <=> Allowed(q) \/ q = r
    BY <1>2, <1>3 DEF Allowed
  <2>2. \A q \in Requests : Admission(q)' = Admission(q)
    BY DEF Admission
  <2>3. Admission(r) = [challenge |-> c, token |-> t]
    BY <1>1 DEF Admission
  <2> HIDE DEF c, t
  <2> QED BY <2>1, <2>2, <2>3 DEF Admissions
<1>7. Gate!Unused(t) \/ (t \in Nonces /\ Recurs(t))
  <2>1. CASE req[r].endpoint # "redeem"
    BY <2>1 DEF Gate!Unused
  <2>2. CASE req[r].endpoint = "redeem" /\ Recurs(req[r].nonce)
    BY <2>2, PresentationsAssumption
  <2>3. CASE req[r].endpoint = "redeem" /\ ~ Recurs(req[r].nonce)
    <3> SUFFICES ASSUME NEW q \in Requests, Allowed(q) PROVE Admission(q).token # t
      BY DEF Gate!Unused, Admissions
    <3>1. CASE req[q].endpoint = "redeem"
      BY <2>3, <3>1 DEF Admission, AllowedToken
    <3>2. CASE req[q].endpoint # "redeem"
      BY <2>3, <3>2, <1>1, NoneAssumption, PresentationsAssumption DEF Admission
    <3> QED BY <3>1, <3>2
  <2> QED BY <2>1, <2>2, <2>3
<1>8. Gate!Enter(c, t)
  <2> HIDE DEF c, t
  <2>1. (created \ OpenChallenges)' = (created \ OpenChallenges) \cup {c}
    BY <1>1, <1>5
  <2> QED BY <1>4, <1>5, <1>6, <2>1 DEF Gate!Enter
<1> HIDE DEF c, t
<1> QED BY <1>1, <1>7, <1>8 DEF SiteStep, Gate!GateNext, Gate!Admit

-----------------------------------------------------------------------------
LEMMA GateStep ==
  ASSUME Policy.require_domain_binding, GateInv, [Next]_vars
  PROVE  [SiteStep]_(Gate!gateVars)
<1>0. ChallengeInv /\ TokenInv /\ TypeOK
  BY DEF GateInv, ChallengeInv
<1> USE DEF TypeOK
<1>1. ASSUME NEW c \in ChallengeIds, Create(c) PROVE Gate!GateNext
  <2>1. UNCHANGED Admissions
    BY <1>0, <1>1, SameAdmissions DEF Create, Allowed
  <2>2. c \notin OpenChallenges
    BY <1>0, <1>1, OpenCreated DEF Create
  <2>3. pending'[c] # None
    <3>1. pending'[c] \in ChallengeType
      BY <1>0, <1>1, BoundsAssumption DEF Create, ChallengeType
    <3> QED BY <3>1, NoneAssumption
  <2>4. OpenChallenges' = OpenChallenges \cup {c}
    BY <1>0, <1>1, <2>3 DEF Create, OpenChallenges, InHand
  <2>5. Gate!Offer(c)
    BY <1>1, <2>1, <2>2, <2>4 DEF Gate!Offer, Create
  <2> QED BY <2>5 DEF Gate!GateNext
<1>2. ASSUME NEW r \in Requests, NEW p \in Presentations, Receive(r, p)
      PROVE UNCHANGED Gate!gateVars
  <2>1. /\ held[r] = None /\ UNCHANGED <<created, pending, held>>
        /\ decision[r] = "none" /\ decision'[r] # "ALLOW"
        /\ \A q \in Requests : q # r => pc'[q] = pc[q] /\ decision'[q] = decision[q]
    BY <1>0, <1>2
    DEF Receive, Continue, Answer, ToReplayCheck, ChallengeInv,
        HeldWhenNeeded
  <2>2. UNCHANGED Admissions
    BY <1>0, <2>1, SameAdmissions DEF Allowed
  <2>3. UNCHANGED OpenChallenges
    BY <2>1 DEF OpenChallenges, InHand
  <2> QED BY <2>1, <2>2, <2>3 DEF Gate!gateVars
<1>3. ASSUME NEW r \in Requests, Pop(r) PROVE UNCHANGED Gate!gateVars
  <2> DEFINE c == req[r].challenge_id
  <2>1. /\ c \in ChallengeIds /\ ~InHand(r) /\ InHand(r)'
        /\ held'[r] = pending[c] /\ pending'[c] = None
        /\ pending[c] # None => pending[c].id = c
        /\ UNCHANGED <<created, decision>>
    BY <1>0, <1>3, PresentationsAssumption
    DEF Pop, Continue, InHand, ChallengeInv, PendingWellFiled
  <2>2. /\ \A d \in ChallengeIds : d # c => pending'[d] = pending[d]
        /\ \A q \in Requests : q # r =>
             held'[q] = held[q] /\ (InHand(q)' <=> InHand(q))
    BY <1>0, <1>3, <2>1 DEF Pop, Continue, InHand
  <2>3. UNCHANGED Admissions
    BY <1>0, <2>1, SameAdmissions DEF Allowed
  <2> HIDE DEF c
  <2>4. ASSUME NEW d PROVE d \in OpenChallenges' <=> d \in OpenChallenges
    <3>1. d \in OpenChallenges' <=>
            \/ d \in ChallengeIds /\ pending'[d] # None
            \/ \E q \in Requests : InHand(q)' /\ held'[q] # None /\ d = held'[q].id
      BY DEF OpenChallenges
    <3>2. d \in OpenChallenges <=>
            \/ d \in ChallengeIds /\ pending[d] # None
            \/ \E q \in Requests : InHand(q) /\ held[q] # None /\ d = held[q].id
      BY DEF OpenChallenges
    <3> QED BY <2>1, <2>2, <3>1, <3>2
  <2>5. OpenChallenges' = OpenChallenges
    BY <2>4
  <2> QED BY <2>1, <2>3, <2>5 DEF Gate!gateVars
\* An answer other than ALLOW, or a step that keeps the challenge in hand.
<1>4. ASSUME NEW r \in Requests, InHand(r), ~Allowed(r), decision'[r] # "ALLOW",
             UNCHANGED <<created, pending, held>>,
             \A q \in Requests : q # r => pc'[q] = pc[q] /\ decision'[q] = decision[q]
      PROVE  Gate!GateNext
  <2>1. UNCHANGED Admissions
    BY <1>0, <1>4, SameAdmissions DEF Allowed
  <2>2. OpenChallenges' \subseteq OpenChallenges
    BY <1>4 DEF OpenChallenges, InHand
  <2> QED BY <1>0, <1>4, <2>1, <2>2, Closing
<1>5. ASSUME NEW r \in Requests, CompareToken(r) PROVE SiteStep
  <2>1. /\ InHand(r) /\ ~Allowed(r) /\ UNCHANGED <<created, pending, held, req>>
        /\ req[r] \in Presentations /\ req[r].endpoint = "redeem"
    BY <1>0, <1>5 DEF CompareToken, InHand, Allowed
  <2>2. CASE Answer(r, "ALLOW")
    <3>1. held[r] # None /\ Recurs(req[r].nonce)
      BY <1>0, <1>5, <2>2
      DEF CompareToken, Consumed, Continue, Answer, ToReplayCheck, Recurs
    <3> QED BY <1>0, <2>1, <2>2, <3>1, Admitting
  <2>3. CASE ~Answer(r, "ALLOW")
    BY <1>0, <1>4, <1>5, <2>1, <2>3
    DEF CompareToken, Continue, Answer, ToReplayCheck, InHand, Allowed, SiteStep
  <2> QED BY <2>2, <2>3
<1>6. ASSUME NEW r \in Requests, CompareCredential(r) PROVE SiteStep
  BY <1>0, <1>4, <1>6 DEF CompareCredential, Continue, Answer, InHand, Allowed, SiteStep
<1>7. ASSUME NEW r \in Requests, VerifyProof(r) PROVE SiteStep
  <2>1. /\ InHand(r) /\ ~Allowed(r) /\ held[r] # None /\ req[r] \in Presentations
        /\ req[r].endpoint # "redeem"
    BY <1>0, <1>7
    DEF VerifyProof, InHand, Allowed, ChallengeInv, HeldWhenNeeded
  <2>2. CASE ProofValid(req[r])
    BY <1>0, <1>7, <2>1, <2>2, Admitting DEF VerifyProof
  <2>3. CASE ~ProofValid(req[r])
    BY <1>0, <1>4, <1>7, <2>1, <2>3 DEF VerifyProof, Answer, SiteStep
  <2> QED BY <2>2, <2>3
<1>8. ASSUME NEW r \in Requests, EnterCache(r) PROVE SiteStep
  BY <1>0, <1>4, <1>8 DEF EnterCache, Continue, InHand, Allowed, SiteStep
<1>9. ASSUME NEW r \in Requests, LeaveCache(r) PROVE SiteStep
  <2>1. /\ InHand(r) /\ ~Allowed(r) /\ held[r] # None /\ req[r] \in Presentations
        /\ req[r].endpoint = "redeem" /\ pc[r] = "inserting"
        /\ UNCHANGED <<created, pending, held, req>>
    BY <1>0, <1>9
    DEF LeaveCache, InHand, Allowed, ChallengeInv, HeldWhenNeeded
  <2>2. CASE ~Answer(r, "ALLOW")
    <3>1. PICK d : d # "ALLOW" /\ Answer(r, d)
      BY <1>9, <2>2 DEF LeaveCache, InsertAlone, InsertOverlapped
    <3>2. /\ decision'[r] # "ALLOW"
          /\ \A q \in Requests : q # r => pc'[q] = pc[q] /\ decision'[q] = decision[q]
      BY <1>0, <3>1 DEF Answer
    <3> QED BY <1>4, <2>1, <3>2 DEF SiteStep
  <2>3. CASE Answer(r, "ALLOW") /\ r \in overlapped
    <3>1. Recurs(req[r].nonce)
      BY <2>1, <2>3 DEF Recurs
    <3> QED BY <1>0, <2>1, <2>3, <3>1, Admitting
  <2>4. CASE Answer(r, "ALLOW") /\ r \notin overlapped
    <3>1. req[r].nonce \notin spent
      BY <1>0, <1>9, <2>4 DEF LeaveCache, InsertAlone, Answer
    <3>2. ASSUME ~Recurs(req[r].nonce), NEW q \in Requests, AllowedToken(q),
                 req[q].nonce = req[r].nonce
          PROVE  FALSE
      <4>1. q \notin overlapped /\ Policy.require_single_use
        BY <3>2 DEF Recurs
      <4>2. durable \/ restarts = 0
        BY <1>0, <3>1, <3>2, BoundsAssumption DEF Recurs
      <4> QED BY <1>0, <3>1, <3>2, <4>1, <4>2 DEF TokenInv, GrantRecorded
    <3> QED BY <1>0, <2>1, <2>4, <3>2, Admitting
  <2> QED BY <2>2, <2>3, <2>4
<1>10. CASE Restart
  <2>1. UNCHANGED Admissions
    BY <1>0, <1>10, SameAdmissions DEF Restart, Allowed
  <2>2. OpenChallenges' = {}
    BY <1>10 DEF Restart, OpenChallenges, InHand
  <2> QED BY <1>0, <1>10, <2>1, <2>2, Closing DEF Restart, SiteStep
<1>11. CASE Tick \/ UNCHANGED vars
  BY <1>11
  DEF Tick, vars, Gate!gateVars, OpenChallenges, Admissions, Admission, InHand,
      Allowed
<1> QED
  BY <1>1, <1>2, <1>3, <1>5, <1>6, <1>7, <1>8, <1>9, <1>10, <1>11
  DEF Next, Serve, Quiescent, SiteStep

\* With any number of threads, a cache in memory or on disk, and restarts at any
\* time, each step of the site is a step of the gate, or none: it offers,
\* withdraws and admits as AgeGate says, and lets a token in again only when
\* Recurs tells why.  The policy binds presentations to challenges, as the
\* default one does; without that there is no gate at all.
THEOREM SiteIsAgeGate ==
  ASSUME Policy.require_domain_binding
  PROVE  Spec => ImplementsGate
<1>1. Init => Gate!GateInit
  BY DEF Init, Gate!GateInit, OpenChallenges, Admissions, InHand, Allowed
<1>2. GateInv /\ [Next]_vars => [SiteStep]_(Gate!gateVars)
  BY GateStep
<1> QED
  BY <1>1, <1>2, InitGateInv, NextGateInv, PTL DEF Spec, ImplementsGate, SiteStep
=============================================================================
