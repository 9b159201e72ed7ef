----------------------------- MODULE Onboarding -----------------------------
(***************************************************************************)
(* Self-service enrollment in the browser extension: start_enroll passes   *)
(* the registry gate and leaves pendingEnroll behind; a page of the issuer *)
(* later posts an enrollment message, which is matched against it, kept    *)
(* under `issuers', and followed by a first mint.  The handlers run among  *)
(* those of RegistryCache, in the same worker and on the same storage, and *)
(* interleave with them and with each other at every await.                *)
(*                                                                         *)
(* Where a handler of this module is, is in onboard; its pc stays idle      *)
(* until its mint, which then goes on as RegistryCache's SendIssue.         *)
(***************************************************************************)
EXTENDS RegistryCache

CONSTANTS
  Origins,      \* origins of pages, and base URLs of issuers
  Enrollments,  \* enrollment ids
  Advertises,   \* the keys an origin's well-known document may lead to
  Ttl,          \* ENROLL_TTL_MS
  MaxTime       \* bound on the clock

ASSUME OriginsAssumption ==
  /\ Advertises \in [Origins -> SUBSET IssuerKeys]
  /\ None \notin Origins
ASSUME TimeAssumption == Ttl \in Nat /\ MaxTime \in Nat

VARIABLES
  now,            \* Date.now
  pendingEnroll,  \* chrome.storage.local.pendingEnroll
  issuers,        \* chrome.storage.local.issuers, a set of records
  onboard,        \* where each onboarding handler is, and its variables
  starts,         \* what was ever stored as pendingEnroll (history)
  overlapped      \* some handler wrote over a list of issuers it had not read

onboardVars == <<now, pendingEnroll, issuers, onboard, starts, overlapped>>
allVars == <<vars, onboardVars>>

Done == [at |-> "idle"]

\* Faulty variants: what a plausible slip would make of the definition each is
\* named after.  Nothing in the specification uses them; put in the place of
\* the original, each one makes TLC find the property in brackets violated.

\* [EnrolledAsStarted] the age of the start is not looked at.
MatchesAnyAge(pe, origin) == pe # None /\ origin = pe.issuer
\* [IssuersKept] the filter keeps what it should drop.
WithoutTheOthers(list, issuer) == {record \in list : record.issuer = issuer}

-----------------------------------------------------------------------------
OnboardingInit ==
  /\ Init
  /\ now = 0
  /\ pendingEnroll = None
  /\ issuers = {}
  /\ onboard = [h \in Handlers |-> Done]
  /\ starts = {}
  /\ overlapped = FALSE

Continue(h, state) == onboard' = [onboard EXCEPT ![h] = state]

\* start_enroll, up to the answer of the issuer's well-known document.
StartEnroll(h, issuer) ==
  /\ pc[h] = "idle" /\ onboard[h] = Done
  /\ Continue(h, [at |-> "gate", issuer |-> issuer])
  /\ UNCHANGED <<vars, now, pendingEnroll, issuers, starts, overlapped>>

\* pickLatestKey finds a key and registryRefusal has no objection to it.
GatePassed(h) ==
  /\ onboard[h].at = "gate"
  /\ \E key \in Advertises[onboard[h].issuer] :
       /\ Approved(cache, key)
       /\ Continue(h, [at |-> "store_start",
                       start |-> [issuer |-> onboard[h].issuer, created_at |-> now],
                       under |-> cache, key |-> key])
  /\ UNCHANGED <<vars, now, pendingEnroll, issuers, starts, overlapped>>

\* The document is not there, has no key for the default claim, or the
\* registry does not approve of it.
GateRefused(h) ==
  /\ onboard[h].at = "gate"
  /\ Continue(h, Done)
  /\ UNCHANGED <<vars, now, pendingEnroll, issuers, starts, overlapped>>

\* pendingEnroll is stored, over whatever was there; a tab is opened.
StoreStart(h) ==
  /\ onboard[h].at = "store_start"
  /\ pendingEnroll' = onboard[h].start
  /\ starts' = starts \cup {[start |-> onboard[h].start, under |-> onboard[h].under,
                             key |-> onboard[h].key]}
  /\ Continue(h, Done)
  /\ UNCHANGED <<vars, now, issuers, overlapped>>

-----------------------------------------------------------------------------
\* matchPendingEnroll.
Matches(pe, origin) ==
  pe # None /\ now - pe.created_at <= Ttl /\ origin = pe.issuer

\* enrollment: the message of a page is matched with what is pending.  The
\* page and the time of the match are kept in the record as history.
Enrollment(h, origin, enrollment) ==
  /\ pc[h] = "idle" /\ onboard[h] = Done
  /\ Matches(pendingEnroll, origin)
  /\ Continue(h, [at |-> "clear",
                  record |-> [issuer |-> pendingEnroll.issuer, enrollment |-> enrollment,
                              from |-> origin, matched_at |-> now]])
  /\ UNCHANGED <<vars, now, pendingEnroll, issuers, starts, overlapped>>

ClearPending(h) ==
  /\ onboard[h].at = "clear"
  /\ pendingEnroll' = None
  /\ Continue(h, [at |-> "read_issuers", record |-> onboard[h].record])
  /\ UNCHANGED <<vars, now, issuers, starts, overlapped>>

\* Any record of the same issuer makes room for the new one.
Without(list, issuer) == {record \in list : record.issuer # issuer}

ReadIssuers(h) ==
  /\ onboard[h].at = "read_issuers"
  /\ Continue(h, [at |-> "write_issuers",
                  record |-> onboard[h].record, read |-> issuers])
  /\ UNCHANGED <<vars, now, pendingEnroll, issuers, starts, overlapped>>

WriteIssuers(h) ==
  LET s == onboard[h] IN
  /\ s.at = "write_issuers"
  /\ issuers' = Without(s.read, s.record.issuer) \cup {s.record}
  /\ overlapped' = (overlapped \/ issuers # s.read)
  /\ Continue(h, [at |-> "mint", issuer |-> s.record.issuer])
  /\ UNCHANGED <<vars, now, pendingEnroll, starts>>

\* The first mint reads the well-known document again and passes the gate
\* again; whether it works makes no difference to the record.
MintEnrolled(h) ==
  /\ onboard[h].at = "mint"
  /\ \E key \in Advertises[onboard[h].issuer] : CheckIssuer(h, key)
  /\ Continue(h, Done)
  /\ UNCHANGED <<now, pendingEnroll, issuers, starts, overlapped>>
MintRefused(h) ==
  /\ onboard[h].at = "mint"
  /\ Continue(h, Done)
  /\ UNCHANGED <<vars, now, pendingEnroll, issuers, starts, overlapped>>

-----------------------------------------------------------------------------
Tick ==
  /\ now < MaxTime
  /\ now' = now + 1
  /\ UNCHANGED <<vars, pendingEnroll, issuers, onboard, starts, overlapped>>

\* The worker takes the handlers of both modules with it.
OnboardingDies ==
  /\ WorkerDies
  /\ onboard' = [h \in Handlers |-> Done]
  /\ UNCHANGED <<now, pendingEnroll, issuers, starts, overlapped>>

OnboardingNext ==
  \/ (\E r \in Registries : Publish(r)) /\ UNCHANGED onboardVars
  \/ \E h \in Handlers :
       \/ onboard[h] = Done /\ HandlerStep(h) /\ UNCHANGED onboardVars
       \/ \E origin \in Origins :
            \/ StartEnroll(h, origin)
            \/ \E enrollment \in Enrollments : Enrollment(h, origin, enrollment)
       \/ GatePassed(h) \/ GateRefused(h) \/ StoreStart(h)
       \/ ClearPending(h) \/ ReadIssuers(h) \/ WriteIssuers(h)
       \/ MintEnrolled(h) \/ MintRefused(h)
  \/ Tick
  \/ OnboardingDies

OnboardingSpec == OnboardingInit /\ [][OnboardingNext]_allVars

-----------------------------------------------------------------------------
\* Every issuer the extension has a record of was started with the approval of
\* a registry that was published and signed under a configured root, for a key
\* of that issuer, and its page answered within the time a start is good for,
\* although another start may have been stored, matched or cleared meanwhile,
\* and one start may be matched by two messages.
EnrolledAsStarted ==
  \A record \in issuers \cup {onboard[h].record :
                 h \in {g \in Handlers : onboard[g].at \in
                          {"clear", "read_issuers", "write_issuers"}}} :
    \E s \in starts :
      /\ s.start.issuer = record.issuer /\ record.from = record.issuer
      /\ record.matched_at - s.start.created_at \in 0 .. Ttl
      /\ s.under \in published /\ s.under.root \in configured
      /\ s.key \in s.under.approves \cap Advertises[record.issuer]

\* An issuer once enrolled with keeps a record, new enrollments with others and
\* worker deaths notwithstanding, unless a handler saves a list that another
\* one has changed since it read it.
IssuersKept ==
  [][~overlapped' =>
       \A record \in issuers : \E kept \in issuers' : kept.issuer = record.issuer]_allVars
=============================================================================
