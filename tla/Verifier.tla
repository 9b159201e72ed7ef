------------------------------ MODULE Verifier ------------------------------
(***************************************************************************)
(* The relying site: ChallengeManager, ReplayCache, the two verification   *)
(* functions, and the three endpoints that call them.                      *)
(*                                                                         *)
(* /api/challenge, /api/redeem and /api/redeem-vc are synchronous FastAPI  *)
(* endpoints, so the framework runs each request in a thread of its pool   *)
(* and the threads share one ChallengeManager and one ReplayCache, neither *)
(* of which has a lock.  A request is a thread with a program counter; a   *)
(* step ends where another thread, the clock or a crash can be observed.   *)
(* The dictionary operations create and pop are atomic under the           *)
(* interpreter lock.  check_and_insert is not: it spans two calls on one   *)
(* sqlite3 connection (execute, commit) that release that lock.            *)
(***************************************************************************)
EXTENDS Integers, TrustRegistry

CONSTANTS
  Requests,        \* redemption requests; each one is served once
  ChallengeIds,    \* ids ChallengeManager can draw; also their secret values
  Nonces,          \* token nonces
  Presentations,   \* what clients may submit (see PresentationsAssumption)
  Policy,          \* the site's VerifierPolicy
  TrustedIssuer,   \* the issuer redeem-vc accepts
  Audience,        \* the audience string of the site
  Ttl,             \* challenge lifetime, in clock ticks
  MaxTime,         \* bound: the clock stops here
  MaxRestarts,     \* bound: server crashes considered
  None

\* A presentation is one record for both endpoints: `signer' is the key
\* material that really produced its token signature or its proof, and
\* `bound_to' is the domain binding a credential proof was computed over.
ASSUME PresentationsAssumption ==
  \A p \in Presentations :
    /\ p.endpoint \in {"redeem", "redeem-vc"}
    /\ p.challenge_id \in ChallengeIds
    /\ p.challenge \in ChallengeIds
    /\ p.endpoint = "redeem" => p.nonce \in Nonces
ASSUME BoundsAssumption ==
  Ttl \in Nat /\ MaxTime \in Nat /\ MaxRestarts \in Nat

VARIABLES
  durable,     \* TRUE: the replay cache is a database file;
               \* FALSE: ":memory:", as create_site makes it
  now,         \* the wall clock, taken to be monotone
  created,     \* every challenge id drawn so far, by any process
  pending,     \* ChallengeManager._pending
  spent,       \* the rows of the replay cache
  pc,          \* where each request's thread is
  req,         \* the presentation a request carries
  held,        \* the challenge its thread popped
  checkedAt,   \* when it read the clock for the key's window
  decision,    \* what it answered
  overlapped,  \* requests whose cache call overlapped another (history)
  restarts

vars == <<durable, now, created, pending, spent, pc, req, held, checkedAt,
          decision, overlapped, restarts>>

ChallengeType ==
  [id : ChallengeIds, required_claim : {Policy.required_claim},
   minimum_assurance_level : {Policy.minimum_assurance_level},
   issued_at : Int, expires_at : Int]
ASSUME NoneAssumption ==
  /\ None \notin ChallengeIds \cup Presentations \cup Nonces
  /\ None \notin ChallengeType

Labels == {"idle", "consume", "compare", "proof", "insert", "inserting",
           "done", "lost", "cut"}

Init ==
  /\ durable \in BOOLEAN
  /\ now = 0
  /\ created = {}
  /\ pending = [c \in ChallengeIds |-> None]
  /\ spent = {}
  /\ pc = [r \in Requests |-> "idle"]
  /\ req = [r \in Requests |-> None]
  /\ held = [r \in Requests |-> None]
  /\ checkedAt = [r \in Requests |-> 0]
  /\ decision = [r \in Requests |-> "none"]
  /\ overlapped = {}
  /\ restarts = 0

-----------------------------------------------------------------------------
\* The checks of verify that read nothing but the presentation, the registry,
\* the policy and the clock.  deny() is the same answer for all of them.
TokenAcceptable(p, t) ==
  /\ ActiveIssuer(p.issuer_id)
  /\ p.issuer_id \in Policy.trusted_issuers
  /\ \E key \in TokenKey(p.issuer_id, p.issuer_key_id) :
       /\ key.algorithm \in Policy.allowed_algorithms
       /\ p.signer = key.public_key
       /\ <<p.claim, p.assurance_level, p.epoch>>
            = <<key.claim, key.assurance_level, key.epoch>>
       /\ key.claim = Policy.required_claim
       /\ AssuranceAtLeast(key.assurance_level, Policy.minimum_assurance_level)
       /\ InWindow(key, t)
  /\ Policy.require_domain_binding => p.audience = Audience

\* The checks of verify_vc_presentation that come before the challenge.
CredentialAcceptable(p, t) ==
  /\ ActiveIssuer(p.issuer_id)
  /\ p.issuer_id = TrustedIssuer
  /\ \E key \in VcKey(p.issuer_id, p.issuer_key_id) :
       /\ key.algorithm = "bbs-bls12381-sha256"
       /\ p.well_shaped
       /\ <<p.assurance_level, p.epoch>> = <<key.assurance_level, key.epoch>>
       /\ InWindow(key, t)
  /\ p.audience = Audience

\* bbs_proof_verify: the proof comes from a credential this key signed over the
\* messages it reveals (that is what `signer' says) and was computed over
\* this very domain binding.
ProofValid(p) ==
  /\ \E key \in VcKey(p.issuer_id, p.issuer_key_id) : p.signer = key.public_key
  /\ p.bound_to = <<p.audience, p.challenge_id, p.challenge>>

\* The two ways a handler's segment ends: it goes on at a label, or answers.
Continue(r, label) ==
  pc' = [pc EXCEPT ![r] = label] /\ UNCHANGED decision
Answer(r, d) ==
  /\ pc' = [pc EXCEPT ![r] = "done"]
  /\ decision' = [decision EXCEPT ![r] = d]

\* The tail of verify once everything but the replay check has passed.
ToReplayCheck(r) ==
  IF Policy.require_single_use THEN Continue(r, "insert") ELSE Answer(r, "ALLOW")
-----------------------------------------------------------------------------
\* Faulty variants: what a plausible slip would make of the definition each is
\* named after.  Nothing in the specification uses them; put in the place of
\* the original, each one makes TLC find the property in brackets violated.

\* [OneGrantPerChallenge] consume looks the challenge up and leaves it there.
PopWithoutRemoving(r) ==
  /\ pc[r] = "consume"
  /\ held' = [held EXCEPT ![r] = pending[req[r].challenge_id]]
  /\ Continue(r, "compare")
  /\ UNCHANGED <<durable, now, created, pending, spent, req, checkedAt,
                 overlapped, restarts>>

\* [ImplementsGate] challenge ids that can be drawn again.
CreateReusingIds(c) ==
  /\ pending[c] = None
  /\ created' = created \cup {c}
  /\ pending' = [pending EXCEPT ![c] =
       [id |-> c, required_claim |-> Policy.required_claim,
        minimum_assurance_level |-> Policy.minimum_assurance_level,
        issued_at |-> now, expires_at |-> now + Ttl]]
  /\ UNCHANGED <<durable, now, spent, pc, req, held, checkedAt, decision,
                 overlapped, restarts>>

\* [GrantedInsideBothWindows] consume forgets the expiry.
ConsumedWhenever(r) == held[r] # None /\ held[r].id = req[r].challenge

\* [TokenBurnedOnlyByGrant] the nonce is recorded before the challenge is known
\* to be good.
CompareTokenBurningFirst(r) ==
  /\ pc[r] = "compare" /\ req[r].endpoint = "redeem"
  /\ Answer(r, IF held[r] # None /\ held[r].id = req[r].challenge
               THEN "ALLOW" ELSE "DENY")
  /\ spent' = spent \cup {req[r].nonce}
  /\ UNCHANGED <<durable, now, created, pending, req, held, checkedAt,
                 overlapped, restarts>>

\* [EveryRequestAnswered] a mismatched token attempt is tried again.
CompareTokenRetrying(r) ==
  /\ pc[r] = "compare" /\ req[r].endpoint = "redeem"
  /\ IF held[r] # None /\ held[r].id = req[r].challenge
     THEN ToReplayCheck(r)
     ELSE Continue(r, "consume")
  /\ UNCHANGED <<durable, now, created, pending, spent, req, held, checkedAt,
                 overlapped, restarts>>

\* [TypeOK] both endpoints end in one shared tail.
CompareCredentialSharedTail(r) ==
  /\ pc[r] = "compare" /\ req[r].endpoint = "redeem-vc"
  /\ held[r] # None /\ ToReplayCheck(r)
  /\ UNCHANGED <<durable, now, created, pending, spent, req, held, checkedAt,
                 overlapped, restarts>>

\* [BurnedStaysBurned] a failed proof gives the challenge back.
VerifyProofRestoring(r) ==
  /\ pc[r] = "proof"
  /\ Answer(r, IF ProofValid(req[r]) THEN "ALLOW" ELSE "DENY")
  /\ pending' = IF ProofValid(req[r]) THEN pending
                ELSE [pending EXCEPT ![held[r].id] = held[r]]
  /\ UNCHANGED <<durable, now, created, spent, req, held, checkedAt,
                 overlapped, restarts>>

\* [OneGrantPerToken] INSERT OR IGNORE: a second insertion succeeds too.
InsertOrIgnore(r, n) == Answer(r, "ALLOW") /\ spent' = spent \cup {n}

-----------------------------------------------------------------------------
\* ChallengeManager.create, called by /api/challenge with the site's policy.
Create(c) ==
  /\ c \notin created
  /\ created' = created \cup {c}
  /\ pending' = [pending EXCEPT ![c] =
       [id |-> c, required_claim |-> Policy.required_claim,
        minimum_assurance_level |-> Policy.minimum_assurance_level,
        issued_at |-> now, expires_at |-> now + Ttl]]
  /\ UNCHANGED <<durable, now, spent, pc, req, held, checkedAt, decision,
                 overlapped, restarts>>

\* A request arrives and runs up to its first access of shared state.  A client
\* knows the secret value of a challenge only once it has been created; the id
\* travels in the clear and may be anything.
Receive(r, p) ==
  /\ pc[r] = "idle"
  /\ p.challenge \in created
  /\ req' = [req EXCEPT ![r] = p]
  /\ checkedAt' = [checkedAt EXCEPT ![r] = now]
  /\ \/ /\ p.endpoint = "redeem" /\ TokenAcceptable(p, now)
        /\ IF Policy.require_domain_binding THEN Continue(r, "consume")
                                            ELSE ToReplayCheck(r)
     \/ /\ p.endpoint = "redeem-vc" /\ CredentialAcceptable(p, now)
        /\ Continue(r, "consume")
     \/ /\ p.endpoint = "redeem" /\ ~TokenAcceptable(p, now)
        /\ Answer(r, "DENY")
     \/ /\ p.endpoint = "redeem-vc" /\ ~CredentialAcceptable(p, now)
        /\ Answer(r, "DENY")
  /\ UNCHANGED <<durable, now, created, pending, spent, held, overlapped,
                 restarts>>

\* consume, first half: pop the challenge before looking at it.
Pop(r) ==
  /\ pc[r] = "consume"
  /\ held' = [held EXCEPT ![r] = pending[req[r].challenge_id]]
  /\ pending' = [pending EXCEPT ![req[r].challenge_id] = None]
  /\ Continue(r, "compare")
  /\ UNCHANGED <<durable, now, created, spent, req, checkedAt, overlapped,
                 restarts>>

\* consume, second half: a challenge was pending, its value was presented and
\* it has not expired.  The popped challenge is gone whatever this says.
Consumed(r) ==
  /\ held[r] # None
  /\ held[r].id = req[r].challenge
  /\ now <= held[r].expires_at

\* verify, after consume.
CompareToken(r) ==
  /\ pc[r] = "compare" /\ req[r].endpoint = "redeem"
  /\ IF Consumed(r) /\ held[r].required_claim = Policy.required_claim
     THEN ToReplayCheck(r)
     ELSE Answer(r, "DENY")
  /\ UNCHANGED <<durable, now, created, pending, spent, req, held, checkedAt,
                 overlapped, restarts>>

\* verify_vc_presentation, after consume.
CompareCredential(r) ==
  /\ pc[r] = "compare" /\ req[r].endpoint = "redeem-vc"
  /\ IF /\ Consumed(r)
        /\ held[r].required_claim = req[r].claim
        /\ AssuranceAtLeast(req[r].assurance_level,
                            held[r].minimum_assurance_level)
     THEN Continue(r, "proof")
     ELSE Answer(r, "DENY")
  /\ UNCHANGED <<durable, now, created, pending, spent, req, held, checkedAt,
                 overlapped, restarts>>

\* The proof is checked last, after the challenge is gone.
VerifyProof(r) ==
  /\ pc[r] = "proof"
  /\ Answer(r, IF ProofValid(req[r]) THEN "ALLOW" ELSE "DENY")
  /\ UNCHANGED <<durable, now, created, pending, spent, req, held, checkedAt,
                 overlapped, restarts>>

-----------------------------------------------------------------------------
InCache == {r \in Requests : pc[r] = "inserting"}

\* A thread enters check_and_insert.
EnterCache(r) ==
  /\ pc[r] = "insert"
  /\ Continue(r, "inserting")
  /\ overlapped' = IF InCache = {} THEN overlapped
                   ELSE overlapped \cup InCache \cup {r}
  /\ UNCHANGED <<durable, now, created, pending, spent, req, held, checkedAt,
                 restarts>>

\* A call that ran alone: the primary key decides.
InsertAlone(r, n) ==
  IF n \in spent
  THEN Answer(r, "DENY") /\ UNCHANGED spent
  ELSE Answer(r, "ALLOW") /\ spent' = spent \cup {n}

\* Calls that overlapped shared one prepared statement of one connection: a
\* call may run with the other's parameter, be refused in its stead, find its
\* statement reset or its transaction gone.  Whatever it answers, its own
\* nonce may or may not end up as a row; only "already there" implies a row.
InsertOverlapped(r, n) ==
  \E d \in {"ALLOW", "DENY", "ERROR"}, rows \in SUBSET {n} :
    /\ spent' = spent \cup rows
    /\ d = "DENY" => n \in spent'
    /\ Answer(r, d)

\* The thread leaves check_and_insert and verify answers.
LeaveCache(r) ==
  /\ pc[r] = "inserting"
  /\ IF r \in overlapped THEN InsertOverlapped(r, req[r].nonce)
                         ELSE InsertAlone(r, req[r].nonce)
  /\ UNCHANGED <<durable, now, created, pending, req, held, checkedAt,
                 overlapped, restarts>>

-----------------------------------------------------------------------------
Tick ==
  /\ now < MaxTime
  /\ now' = now + 1
  /\ UNCHANGED <<durable, created, pending, spent, pc, req, held, checkedAt,
                 decision, overlapped, restarts>>

\* The server process dies and is started again.  Its challenges are gone, the
\* requests it was serving get no answer, and a row that was being inserted was
\* committed or was not.
Restart ==
  /\ restarts < MaxRestarts
  /\ restarts' = restarts + 1
  /\ pending' = [c \in ChallengeIds |-> None]
  /\ IF durable
     THEN \E rows \in SUBSET {req[r].nonce : r \in InCache} :
            spent' = spent \cup rows
     ELSE spent' = {}
  /\ pc' = [r \in Requests |->
              IF pc[r] \in {"idle", "done", "lost", "cut"} THEN pc[r]
              ELSE IF pc[r] = "inserting" THEN "cut" ELSE "lost"]
  /\ UNCHANGED <<durable, now, created, req, held, checkedAt, decision,
                 overlapped>>

Answered(r) == pc[r] \in {"done", "lost", "cut"}

\* Nobody is left to ask anything and the clock has run out.
Quiescent ==
  /\ \A r \in Requests : Answered(r)
  /\ now = MaxTime
  /\ UNCHANGED vars

Serve(r) ==
  \/ Pop(r)
  \/ CompareToken(r)
  \/ CompareCredential(r)
  \/ VerifyProof(r)
  \/ EnterCache(r)
  \/ LeaveCache(r)

Next ==
  \/ \E c \in ChallengeIds : Create(c)
  \/ \E r \in Requests, p \in Presentations : Receive(r, p)
  \/ \E r \in Requests : Serve(r)
  \/ Tick
  \/ Restart
  \/ Quiescent

Spec == Init /\ [][Next]_vars

\* A thread that has work to do is scheduled eventually.
FairSpec == Spec /\ \A r \in Requests : WF_vars(Serve(r))

-----------------------------------------------------------------------------
\* Every variable keeps its shape, and a thread is only ever at a label its
\* endpoint reaches: a credential, which has no nonce, never comes to the
\* replay cache, and a token never to the proof check.
TypeOK ==
  /\ durable \in BOOLEAN
  /\ now \in 0 .. MaxTime
  /\ created \in SUBSET ChallengeIds
  /\ pending \in [ChallengeIds -> ChallengeType \cup {None}]
  /\ spent \in SUBSET Nonces
  /\ pc \in [Requests -> Labels]
  /\ req \in [Requests -> Presentations \cup {None}]
  /\ held \in [Requests -> ChallengeType \cup {None}]
  /\ checkedAt \in [Requests -> 0 .. MaxTime]
  /\ decision \in [Requests -> {"none", "ALLOW", "DENY", "ERROR"}]
  /\ overlapped \in SUBSET Requests
  /\ restarts \in 0 .. MaxRestarts
  /\ \A r \in Requests :
       /\ pc[r] # "idle" => req[r] \in Presentations
       /\ pc[r] \in {"insert", "inserting", "cut"} => req[r].endpoint = "redeem"
       /\ pc[r] = "proof" => req[r].endpoint = "redeem-vc"
       /\ decision[r] # "none" <=> pc[r] = "done"

Allowed(r) == decision[r] = "ALLOW"
AllowedToken(r) == Allowed(r) /\ req[r].endpoint = "redeem"
BindsChallenge(r) ==
  req[r].endpoint = "redeem-vc" \/ Policy.require_domain_binding

\* A challenge admits one visitor: whatever mix of tokens and credentials is
\* thrown at both endpoints at once, and across restarts, no two ALLOW answers
\* name the same challenge.  (ChallengeManager.consume is the only guard here,
\* and the only one redeem-vc has at all.)
OneGrantPerChallenge ==
  \A r, q \in Requests :
    /\ r # q /\ Allowed(r) /\ Allowed(q) /\ BindsChallenge(r) /\ BindsChallenge(q)
    => req[r].challenge_id # req[q].challenge_id

\* A token is redeemed once, whatever the challenges it comes with, as long as
\* neither of the two calls to check_and_insert ran at the same time as
\* another, and as long as the rows of the cache outlive the process.
OneGrantPerToken ==
  \A r, q \in Requests :
    /\ r # q /\ AllowedToken(r) /\ AllowedToken(q)
    /\ Policy.require_single_use
    /\ durable \/ restarts = 0
    /\ req[r].nonce = req[q].nonce
    => {r, q} \cap overlapped # {}

\* "the nonce is only burned once every other check has passed, so a failed
\* attempt does not consume the token": a row in the cache is there because
\* the token was let in, or its answer was cut off by a crash, or the call
\* that wrote it overlapped another.
TokenBurnedOnlyByGrant ==
  \A n \in spent : \E r \in Requests :
    /\ req[r] # None /\ req[r].endpoint = "redeem" /\ req[r].nonce = n
    /\ Allowed(r) \/ pc[r] = "cut" \/ r \in overlapped

\* The key's window and the challenge's lifetime are read at two different
\* instants.  Still, for every ALLOW there is one instant (the first of the
\* two) at which the key was valid and the challenge had been issued and had
\* not expired, so a token is never let in on a key and a challenge that were
\* not both good at once.
GrantedInsideBothWindows ==
  \A r \in Requests :
    Allowed(r) =>
      /\ \E key \in TokenKey(req[r].issuer_id, req[r].issuer_key_id)
                    \cup VcKey(req[r].issuer_id, req[r].issuer_key_id) :
           InWindow(key, checkedAt[r])
      /\ BindsChallenge(r) =>
           /\ held[r].issued_at <= checkedAt[r]
           /\ checkedAt[r] <= held[r].expires_at
           /\ held[r].expires_at = held[r].issued_at + Ttl

\* "fail-closed pop-first semantics beat the alternative of leaving a
\* used/mismatched challenge live": a challenge that has left the pending
\* table never comes back, whoever took it out and however that ended.
BurnedStaysBurned ==
  [][\A c \in created : pending[c] = None => pending'[c] = None]_vars

\* Every redemption that was started is answered, or the server died under it;
\* no interleaving of the two endpoints leaves a thread waiting for another.
EveryRequestAnswered ==
  \A r \in Requests : pc[r] # "idle" ~> Answered(r)

\* The claim the documentation makes without the premises of
\* OneGrantPerToken: no two ALLOW answers for one nonce.
TokenRedeemableOnce ==
  \A r, q \in Requests :
    r # q /\ AllowedToken(r) /\ AllowedToken(q) => req[r].nonce # req[q].nonce

-----------------------------------------------------------------------------
\* The site as an AgeGate.  A challenge is open while it is pending or while
\* the thread that popped it has not answered yet.
InHand(r) == pc[r] \in {"compare", "proof", "insert", "inserting"}
OpenChallenges ==
  {c \in ChallengeIds : pending[c] # None}
    \cup {held[r].id : r \in {q \in Requests : InHand(q) /\ held[q] # None}}
Admission(r) ==
  [challenge |-> req[r].challenge_id,
   token |-> IF req[r].endpoint = "redeem" THEN req[r].nonce ELSE None]
Admissions == {Admission(r) : r \in {q \in Requests : Allowed(q)}}

Gate == INSTANCE AgeGate WITH
  Challenges <- ChallengeIds, Tokens <- Nonces, Reusable <- None,
  open <- OpenChallenges, closed <- created \ OpenChallenges,
  admissions <- Admissions

\* What can let a token in again: no single use is asked for; its row was lost
\* with the process and there is no new one; or a cache call of the visitor it
\* lets in, or of one it has let in before, overlapped another.
Recurs(t) ==
  \/ ~Policy.require_single_use
  \/ ~durable /\ restarts > 0 /\ t \notin spent
  \/ \E r \in overlapped :
       /\ pc[r] = "inserting" \/ AllowedToken(r)
       /\ req[r].nonce = t

\* However many threads serve it, whatever its cache is kept in and whenever it
\* restarts, the site is an AgeGate: each of its steps is one of the gate's or
\* none, but that it may let a token in again for one of these three reasons,
\* and even then only against a challenge that is open.
ImplementsGate ==
  /\ Gate!GateInit
  /\ [][\/ Gate!GateNext
        \/ \E c \in ChallengeIds, t \in Nonces :
             Recurs(t) /\ Gate!Enter(c, t)]_(Gate!gateVars)
=============================================================================
