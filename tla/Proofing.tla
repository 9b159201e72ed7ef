------------------------------ MODULE Proofing ------------------------------
(***************************************************************************)
(* Enrollment at an issuer and what it signs afterwards: the OIDC sessions *)
(* of ProofingSessionStore, the callback that exchanges a code for an ID   *)
(* token and turns it into an enrollment, the development IdP on the other *)
(* side, the enrollment store, and the two issuing endpoints.              *)
(*                                                                         *)
(* Callbacks are synchronous endpoints on pool threads: a callback is a    *)
(* thread, and a step of it ends where it reaches the session store, the   *)
(* IdP, the cached JWKS or the enrollment store.  Both session and code    *)
(* tables are guarded by locks, so each access is one step.                *)
(*                                                                         *)
(* A session stands for its state, nonce and PKCE verifier, which the      *)
(* issuer draws together.  They travel to the IdP through the browser, as  *)
(* separate fields of a link and then of a form: a page, and the code made *)
(* on it, may have the nonce of one session and the code challenge of      *)
(* another.  (One of no session matches nothing: so does one of a session  *)
(* that is never called back.)  The IdP's keys always have the same kid,   *)
(* so a key is told apart by its value only, here a number.                *)
(***************************************************************************)
EXTENDS Integers, Eligibility

CONSTANTS
  Sessions, Codes, Enrollments,    \* what can be drawn, each once
  Callbacks,                       \* calls of /oidc/callback, each served once
  Dobs,                            \* birth dates
  Timestamp,    \* a birth date with a time of day, which the IdP's page takes
  DateOf,       \* the calendar day at each time of the clock
  SigningKeys,  \* the claims the issuer has a token key for, and "vc" when it
                \* has a credential key
  SessionTtl, CodeTtl, IdTokenTtl, EnrollmentTtl,
  MaxTime,      \* bound: the clock stops here
  MaxRestarts,  \* bound: restarts of either server
  None

\* ID tokens, the IdP's record of a code, rows of the enrollment store.
IdTokens == [nonce : Sessions, dob : Dobs \cup {Timestamp}, exp : Nat, key : Nat]
CodeRecords ==
  [nonce : Sessions, challenge : Sessions, dob : Dobs \cup {Timestamp}, at : Nat]
Rows == [dob : Dobs, expires_at : Nat]

ASSUME ProofingAssumption ==
  /\ SigningKeys \subseteq Claims \cup {"vc"}
  /\ DOMAIN DateOf = 0 .. MaxTime
  /\ \A dob \in Dobs : IsDate(dob)
  /\ \A t \in 0 .. MaxTime : IsDate(DateOf[t])
  /\ Timestamp \notin Dobs
  /\ {SessionTtl, CodeTtl, IdTokenTtl, EnrollmentTtl, MaxTime, MaxRestarts}
       \subseteq Nat
  /\ Enrollments \cap (Sessions \cup Codes) = {} /\ Sessions \cap Codes = {}
  /\ None \notin Sessions \cup Codes \cup Enrollments \cup Dobs \cup {Timestamp}
  /\ None \notin Nat /\ None \notin IdTokens /\ None \notin CodeRecords
  /\ None \notin Rows

VARIABLES
  now,
  mode,         \* how create_app was configured: "oidc" or "asserted"
  sessions,     \* ProofingSessionStore: created_at of the live sessions
  jwks,         \* OidcProofing._jwks
  enrollments,  \* rows of the enrollment store
  idpKey,       \* the IdP's signing key
  codes,        \* the IdP's codes
  pc, local,    \* where each callback is, and its variables
  drawn,        \* sessions, codes and enrollment ids drawn so far
  attested,     \* what was submitted on the IdP's pages, and what nonce and
                \* code challenge each page was opened with (history)
  proofOf,      \* the session whose callback made an enrollment (history)
  signed,       \* the last thing signed: for whom, which claims, when (history)
  restarts

issuer == <<sessions, jwks, enrollments>>
idp == <<idpKey, codes>>
history == <<drawn, attested, proofOf, signed, restarts>>
vars == <<now, mode, issuer, idp, pc, local, history>>

NoLocals ==
  [code |-> None, state |-> None, at |-> 0, token |-> None, keys |-> None]

Init ==
  /\ now = 0
  /\ mode \in {"oidc", "asserted"}
  /\ sessions = [s \in Sessions |-> None]
  /\ jwks = None
  /\ enrollments = [e \in Enrollments |-> None]
  /\ idpKey = 0
  /\ codes = [c \in Codes |-> None]
  /\ pc = [r \in Callbacks |-> "idle"]
  /\ local = [r \in Callbacks |-> NoLocals]
  /\ drawn = {}
  /\ attested = {}
  /\ proofOf = [e \in Enrollments |-> None]
  /\ signed = None
  /\ restarts = 0

Goto(r, label, locals) ==
  /\ pc' = [pc EXCEPT ![r] = label]
  /\ local' = [local EXCEPT ![r] = locals]
Fail(r) == Goto(r, "failed", NoLocals)

-----------------------------------------------------------------------------
\* Faulty variants: what a plausible slip would make of the definition each is
\* named after.  Nothing in the specification uses them; put in the place of
\* the original, each one makes TLC find the property in brackets violated.

\* [OneEnrollmentPerSession] the session is looked up and stays.
ConsumeWithoutRemoving(r) ==
  /\ pc[r] = "entered"
  /\ IF /\ sessions[local[r].state] # None
        /\ local[r].at - sessions[local[r].state] <= SessionTtl
     THEN Goto(r, "exchange", local[r])
     ELSE Fail(r)
  /\ UNCHANGED <<now, mode, issuer, idp, history>>
\* [TokenReachesItsSession] the IdP forgets PKCE.
ExchangeableByAnyone(r, record) == record # None /\ now - record.at <= CodeTtl
\* [TypeOK] the status of the token endpoint's answer is not looked at.
ExchangeUnchecked(r) ==
  /\ pc[r] = "exchange"
  /\ codes' = [codes EXCEPT ![local[r].code] = None]
  /\ Goto(r, "answer", local[r])
  /\ UNCHANGED <<now, mode, issuer, idpKey, history>>
\* [TokenReachesItsSession] the nonce of the ID token is not looked at.
ValidateWithoutNonce(r) ==
  /\ pc[r] = "validate"
  /\ LET token == local[r].token IN
       IF token.key = local[r].keys /\ now < token.exp /\ token.dob # Timestamp
       THEN Goto(r, "create", local[r])
       ELSE Fail(r)
  /\ UNCHANGED <<now, mode, issuer, idp, history>>
\* [EnrolledAsAttested] the asserted endpoint stays open in OIDC mode.
AssertedEnrollAlways(e, dob) ==
  /\ e \notin drawn
  /\ drawn' = drawn \cup {e}
  /\ enrollments' = [enrollments EXCEPT
       ![e] = [dob |-> dob, expires_at |-> now + EnrollmentTtl]]
  /\ UNCHANGED <<now, mode, sessions, jwks, idp, pc, local, attested, proofOf,
                 signed, restarts>>
\* [SignedOnlyForTheAged] credentials are issued for every claim.
IssueCredentialForAll(e) ==
  /\ enrollments[e] # None /\ now < enrollments[e].expires_at
  /\ signed' = [enrollment |-> e, claims |-> Claims, at |-> now]
  /\ UNCHANGED <<now, mode, issuer, idp, pc, local, drawn, attested, proofOf,
                 restarts>>

-----------------------------------------------------------------------------
\* GET /enroll in OIDC mode: a session, and a redirect to the IdP's page.
Authorize(s) ==
  /\ mode = "oidc" /\ s \notin drawn
  /\ drawn' = drawn \cup {s}
  /\ sessions' = [sessions EXCEPT ![s] = now]
  /\ UNCHANGED <<now, mode, jwks, enrollments, idp, pc, local, attested, proofOf,
                 signed, restarts>>

\* A page of the IdP is submitted (perhaps for a second time): a code.  The page
\* was opened with the nonce of one link and the code challenge of the same or
\* of another.  It parses the birth date as a timestamp, validate_id_token as a
\* date.
Submit(c, n, ch, dob) ==
  /\ c \notin drawn /\ {n, ch} \subseteq drawn
  /\ drawn' = drawn \cup {c}
  /\ codes' = [codes EXCEPT
       ![c] = [nonce |-> n, challenge |-> ch, dob |-> dob, at |-> now]]
  /\ attested' = attested \cup {[nonce |-> n, challenge |-> ch, dob |-> dob]}
  /\ UNCHANGED <<now, mode, issuer, idpKey, pc, local, proofOf, signed, restarts>>

\* /oidc/callback is called with a code and a state.  It reads the clock before
\* it takes the session.
Callback(r, c, s) ==
  /\ pc[r] = "idle" /\ mode = "oidc" /\ {c, s} \subseteq drawn
  /\ Goto(r, "entered", [NoLocals EXCEPT !.code = c, !.state = s, !.at = now])
  /\ UNCHANGED <<now, mode, issuer, idp, history>>

\* ProofingSessionStore.consume: the session is gone whatever comes of it.
Consume(r) ==
  /\ pc[r] = "entered"
  /\ sessions' = [sessions EXCEPT ![local[r].state] = None]
  /\ IF /\ sessions[local[r].state] # None
        /\ local[r].at - sessions[local[r].state] <= SessionTtl
     THEN Goto(r, "exchange", local[r])
     ELSE Fail(r)
  /\ UNCHANGED <<now, mode, jwks, enrollments, idp, history>>

\* The IdP's token endpoint: the code is gone whatever comes of it.  The verifier
\* sent is that of the callback's session and must meet the code challenge; the
\* token carries whatever nonce the page had.
Exchangeable(r, record) ==
  /\ record # None
  /\ now - record.at <= CodeTtl
  /\ record.challenge = local[r].state
Exchange(r) ==
  /\ pc[r] = "exchange"
  /\ codes' = [codes EXCEPT ![local[r].code] = None]
  /\ LET record == codes[local[r].code] IN
       IF Exchangeable(r, record)
       THEN Goto(r, "answer",
                 [local[r] EXCEPT !.token =
                    [nonce |-> record.nonce, dob |-> record.dob,
                     exp |-> now + IdTokenTtl, key |-> idpKey]])
       ELSE Fail(r)
  /\ UNCHANGED <<now, mode, issuer, idpKey, history>>

\* Discovery or the JWKS cannot be fetched, or the answer to the exchange is
\* lost: the session is gone and perhaps the code, and there is no enrollment.
Unreachable(r) ==
  /\ pc[r] = "exchange" \/ (pc[r] = "answer" /\ jwks = None)
  /\ Fail(r)
  /\ UNCHANGED <<now, mode, issuer, idp, history>>
LoseAnswer(r) ==
  /\ pc[r] = "exchange"
  /\ codes' = [codes EXCEPT ![local[r].code] = None]
  /\ Fail(r)
  /\ UNCHANGED <<now, mode, issuer, idpKey, history>>

\* _get_jwks: fetched if there is none, kept for the life of the process, and
\* what is kept by then, which another callback may have stored, is returned.
GetJwks(r) ==
  /\ pc[r] = "answer"
  /\ IF jwks = None THEN Goto(r, "store", [local[r] EXCEPT !.keys = idpKey])
                    ELSE Goto(r, "validate", [local[r] EXCEPT !.keys = jwks])
  /\ UNCHANGED <<now, mode, issuer, idp, history>>
StoreJwks(r) ==
  /\ pc[r] = "store"
  /\ jwks' = local[r].keys
  /\ Goto(r, "answer", local[r])
  /\ UNCHANGED <<now, mode, sessions, enrollments, idp, history>>

\* validate_id_token.
Validate(r) ==
  /\ pc[r] = "validate"
  /\ LET token == local[r].token IN
       IF /\ token.key = local[r].keys /\ now < token.exp
          /\ token.nonce = local[r].state /\ token.dob # Timestamp
       THEN Goto(r, "create", local[r])
       ELSE Fail(r)
  /\ UNCHANGED <<now, mode, issuer, idp, history>>

\* oidc_callback stores the birth date, and nothing else of the ID token.
CreateEnrollment(r, e) ==
  /\ pc[r] = "create" /\ e \notin drawn
  /\ drawn' = drawn \cup {e}
  /\ enrollments' = [enrollments EXCEPT
       ![e] = [dob |-> local[r].token.dob, expires_at |-> now + EnrollmentTtl]]
  /\ proofOf' = [proofOf EXCEPT ![e] = local[r].state]
  /\ Goto(r, "done", NoLocals)
  /\ UNCHANGED <<now, mode, sessions, jwks, idp, attested, signed, restarts>>

\* POST /v1/enrollment, without OIDC only.
AssertedEnroll(e, dob) ==
  /\ mode = "asserted" /\ e \notin drawn
  /\ drawn' = drawn \cup {e}
  /\ enrollments' = [enrollments EXCEPT
       ![e] = [dob |-> dob, expires_at |-> now + EnrollmentTtl]]
  /\ UNCHANGED <<now, mode, sessions, jwks, idp, pc, local, attested, proofOf,
                 signed, restarts>>

-----------------------------------------------------------------------------
\* POST /v1/tokens/issue: a batch of blinded messages under the key of a claim.
Issue(e, claim) ==
  /\ enrollments[e] # None /\ now < enrollments[e].expires_at
  /\ claim \in EligibleClaims(enrollments[e].dob, DateOf[now]) \cap SigningKeys
  /\ signed' = [enrollment |-> e, claims |-> {claim}, at |-> now]
  /\ UNCHANGED <<now, mode, issuer, idp, pc, local, drawn, attested, proofOf,
                 restarts>>

\* POST /v1/credentials/issue: one credential over every eligible claim.
IssueCredential(e) ==
  /\ enrollments[e] # None /\ now < enrollments[e].expires_at
  /\ LET claims == EligibleClaims(enrollments[e].dob, DateOf[now]) IN
       /\ claims # {} /\ "vc" \in SigningKeys
       /\ signed' = [enrollment |-> e, claims |-> claims, at |-> now]
  /\ UNCHANGED <<now, mode, issuer, idp, pc, local, drawn, attested, proofOf,
                 restarts>>

-----------------------------------------------------------------------------
Tick ==
  /\ now < MaxTime
  /\ now' = now + 1
  /\ UNCHANGED <<mode, issuer, idp, pc, local, history>>

\* The issuer restarts: its sessions, its cached keys and its callbacks are
\* gone, its enrollments are not.
Running(r) == pc[r] \notin {"idle", "done", "failed"}
IssuerRestart ==
  /\ restarts < MaxRestarts
  /\ restarts' = restarts + 1
  /\ sessions' = [s \in Sessions |-> None]
  /\ jwks' = None
  /\ pc' = [r \in Callbacks |-> IF Running(r) THEN "failed" ELSE pc[r]]
  /\ local' = [r \in Callbacks |-> NoLocals]
  /\ UNCHANGED <<now, mode, enrollments, idp, drawn, attested, proofOf, signed>>

\* The IdP restarts without a key file: its codes are gone and its key is new.
IdpRestart ==
  /\ restarts < MaxRestarts
  /\ restarts' = restarts + 1
  /\ idpKey' = idpKey + 1
  /\ codes' = [c \in Codes |-> None]
  /\ UNCHANGED <<now, mode, issuer, pc, local, drawn, attested, proofOf, signed>>

\* Nobody is being served and the clock has run out.
Quiescent ==
  /\ \A r \in Callbacks : ~ Running(r)
  /\ now = MaxTime
  /\ UNCHANGED vars

Serve(r) ==
  \/ Consume(r) \/ Exchange(r) \/ Unreachable(r) \/ LoseAnswer(r)
  \/ GetJwks(r) \/ StoreJwks(r) \/ Validate(r)
  \/ \E e \in Enrollments : CreateEnrollment(r, e)

Next ==
  \/ \E s \in Sessions : Authorize(s)
  \/ \E c \in Codes, n, ch \in Sessions, d \in Dobs \cup {Timestamp} :
       Submit(c, n, ch, d)
  \/ \E r \in Callbacks, c \in Codes, s \in Sessions : Callback(r, c, s)
  \/ \E r \in Callbacks : Serve(r)
  \/ \E e \in Enrollments, d \in Dobs : AssertedEnroll(e, d)
  \/ \E e \in Enrollments, claim \in Claims : Issue(e, claim)
  \/ \E e \in Enrollments : IssueCredential(e)
  \/ Tick \/ IssuerRestart \/ IdpRestart \/ Quiescent

Spec == Init /\ [][Next]_vars

-----------------------------------------------------------------------------
Labels == {"idle", "entered", "exchange", "answer", "store", "validate",
           "create", "done", "failed"}

\* The shape of the state; and a callback that has got past the exchange has an
\* ID token in its hand.
TypeOK ==
  /\ now \in 0 .. MaxTime
  /\ mode \in {"oidc", "asserted"}
  /\ sessions \in [Sessions -> 0 .. MaxTime \cup {None}]
  /\ jwks \in 0 .. MaxRestarts \cup {None}
  /\ idpKey \in 0 .. MaxRestarts
  /\ pc \in [Callbacks -> Labels]
  /\ drawn \subseteq Sessions \cup Codes \cup Enrollments
  /\ attested \subseteq
       [nonce : Sessions, challenge : Sessions, dob : Dobs \cup {Timestamp}]
  /\ proofOf \in [Enrollments -> Sessions \cup {None}]
  /\ restarts \in 0 .. MaxRestarts
  /\ \A e \in Enrollments :
       /\ e \in drawn <=> enrollments[e] # None
       /\ enrollments[e] # None => enrollments[e].dob \in Dobs
  /\ \A c \in Codes : codes[c] # None => c \in drawn
  /\ \A r \in Callbacks :
       /\ Running(r) => {local[r].code, local[r].state} \subseteq drawn
       /\ pc[r] \in {"answer", "store", "validate", "create"}
            => local[r].token # None

\* A session enrolls once, even when its page was submitted twice, the browser
\* repeats the callback, and the callbacks run at the same time.
OneEnrollmentPerSession ==
  \A e, f \in Enrollments :
    proofOf[e] # None /\ proofOf[e] = proofOf[f] => e = f

\* In OIDC mode every enrollment carries a birth date the IdP attested on a page
\* opened with both the nonce and the code challenge of the very session it was
\* proved in: none is asserted by its owner, and no code of another page, mixed
\* as it may be, is turned into an enrollment.
EnrolledAsAttested ==
  mode = "oidc" =>
    \A e \in Enrollments : enrollments[e] # None =>
      [nonce |-> proofOf[e], challenge |-> proofOf[e], dob |-> enrollments[e].dob]
        \in attested

\* Any code may be brought to any callback, and its page may have mixed two
\* sessions.  Still, an ID token is handed only to the callback of the session
\* whose code challenge its page had (PKCE sees to this), and a callback that
\* has another session's token in its hand, which a mixed page gives it, never
\* comes to enroll with it (the nonce sees to that).
TokenReachesItsSession ==
  \A r \in Callbacks :
    LET token == local[r].token IN
    token # None =>
      /\ [nonce |-> token.nonce, challenge |-> local[r].state, dob |-> token.dob]
           \in attested
      /\ pc[r] = "create" => token.nonce = local[r].state

\* From the IdP's page to the issuer's signature: whatever is signed, as tokens
\* or as a credential, is for claims that a birth date submitted on a page of
\* the session that enrolled satisfies on that day (a birthday may have passed
\* since), and within the life of the enrollment.
SignedOnlyForTheAged ==
  signed # None =>
    LET e == signed.enrollment IN
      /\ \A c \in signed.claims :
           OfAge(enrollments[e].dob, CLAIM_MIN_AGE[c], DateOf[signed.at])
      /\ mode = "oidc" =>
           \E a \in attested :
             /\ a.nonce = proofOf[e] /\ a.challenge = proofOf[e] /\ a.dob \in Dobs
             /\ \A c \in signed.claims :
                  OfAge(a.dob, CLAIM_MIN_AGE[c], DateOf[signed.at])
      /\ signed.at < enrollments[e].expires_at

\* The age the issuer reckons with for an enrollment, on every day the
\* enrollment sees, is the number of birthdays its owner has had: also on the
\* birthday itself, and for a birthday on 29 February as the comment in
\* _age_in_years has it.
AgeCountsBirthdays ==
  \A e \in Enrollments : enrollments[e] # None =>
    LET dob == enrollments[e].dob
        age == AgeInYears(dob, DateOf[now])
    IN OfAge(dob, age, DateOf[now]) /\ ~ OfAge(dob, age + 1, DateOf[now])
=============================================================================
