------------------------------- MODULE Anchor -------------------------------
(***************************************************************************)
(* The on-chain anchor of the trust registry and everyone who reads it:    *)
(* the RegistryAnchor contract behind its timelock, publishers that run    *)
(* publish_anchor, the registry mirror and the transparency log with their *)
(* cached views of the chain, and the auditor.                             *)
(*                                                                         *)
(* A transaction is one step, and so is a read of the chain.  The contract *)
(* only ever changes by logging an event, so what a reader has seen of it  *)
(* is a number of events.  A registry document stands for its hash.        *)
(*                                                                         *)
(* AnchorClient.current and the log server's _entries hold a lock while    *)
(* they fetch, and note the time only after: a view may be older than its  *)
(* time to live by as long as the fetch took, which is RpcTimeout at most. *)
(***************************************************************************)
EXTENDS Integers, Sequences

CONSTANTS
  Docs,          \* signed registry documents
  GeneratedAt,   \* the date a document carries
  Publishers,    \* runs of publish_anchor at one time
  Requests,      \* concurrent requests to the mirror and the log server
  MinDelay,      \* of the timelock
  Delay,         \* given to publish_anchor
  Ttl,           \* cache_ttl
  RpcTimeout,
  MaxVersion, MaxTime,   \* bounds
  None, Executed

ASSUME AnchorAssumption ==
  /\ GeneratedAt \in [Docs -> Nat \ {0}]
  /\ {MinDelay, Delay, Ttl, RpcTimeout, MaxVersion, MaxTime} \subseteq Nat
  /\ MinDelay <= Delay
  /\ {None, Executed} \cap (Docs \cup Nat) = {} /\ None # Executed
  /\ None \notin Requests

VARIABLES
  now,
  events,     \* AnchorUpdated events, with the time of their block
  scheduled,  \* the timelock's operations: when ready, None, or Executed
  publisher,  \* publish_anchor: where it is and its arguments
  cache,      \* the views of the mirror and of the log server
  lock,       \* who holds their locks
  request,    \* requests to the two servers
  audit       \* a run of the auditor

chain == <<events, scheduled>>
servers == <<cache, lock, request>>
vars == <<now, chain, publisher, servers, audit>>

Servers == {"mirror", "log"}
Operations == Docs \X (1 .. MaxVersion)   \* calldata and salt

\* The contract after n events.
Deployed == [doc |-> None, generated_at |-> 0, version |-> 0, at |-> 0]
HeadAfter(n) == IF n = 0 THEN Deployed ELSE events[n]
Current == HeadAfter(Len(events))

NoRun == [pc |-> "idle", doc |-> None, version |-> 0, wake |-> 0]
NoRequest ==
  [pc |-> "idle", server |-> None, text |-> None, since |-> 0, seen |-> 0]
NoAudit ==
  [pc |-> "head", ok |-> TRUE, head |-> None, history |-> None, registry |-> None]

Init ==
  /\ now = 0
  /\ events = <<>>
  /\ scheduled = [o \in Operations |-> None]
  /\ publisher = [p \in Publishers |-> NoRun]
  /\ cache = [s \in Servers |-> None]
  /\ lock = [s \in Servers |-> None]
  /\ request = [r \in Requests |-> NoRequest]
  /\ audit = NoAudit

-----------------------------------------------------------------------------
\* Faulty variants: what a plausible slip would make of the definition each is
\* named after.  Nothing in the specification uses them; put in the place of
\* the original, each one makes TLC find the property in brackets violated.

\* [AnchorMovesForward] a newer version is enough.
IncreasesVersionOnly(doc, version) == version > Current.version
\* [PublishedIsAnchored] the status of the receipt is not looked at.
ExecuteUnchecked(p) ==
  /\ publisher[p].pc = "sleeping" /\ publisher[p].wake <= now
  /\ publisher' = [publisher EXCEPT ![p].pc = "published", ![p].wake = 0]
  /\ UNCHANGED <<now, chain, servers, audit>>
\* [LogIsRecent] a view never goes stale.
FreshForever(s) == cache[s] # None
\* [ServedIsAnchored] without an anchor to compare with, the file is served.
FetchFailsOpen(r) ==
  /\ request[r].pc \in {"fetching", "fetched"}
  /\ lock' = [lock EXCEPT ![request[r].server] = None]
  /\ request' = [request EXCEPT ![r].pc = "answered", ![r].since = now]
  /\ UNCHANGED <<now, chain, publisher, cache, audit>>
\* [TypeOK] the lock is not released when the fetch fails.
ReadChainOrGiveUp(r) ==
  /\ request[r].pc = "fetching"
  /\ \/ request' = [request EXCEPT ![r].pc = "fetched", ![r].seen = Len(events)]
     \/ request' = [request EXCEPT ![r] = NoRequest]
  /\ UNCHANGED <<now, chain, publisher, cache, lock, audit>>
\* [PassMeansAnchored] the last event is not compared with the head.
HistoryAgreesWithItself(head, history) ==
  history # None /\ \A i \in 1 .. history - 1 :
                      events[i + 1].version > events[i].version

-----------------------------------------------------------------------------
(* The contract, its timelock, and publishers.                             *)

Ready(o) == scheduled[o] \in Nat /\ scheduled[o] <= now

\* setAnchor reverts unless both the version and the date go up.
Increases(doc, version) ==
  /\ version > Current.version
  /\ GeneratedAt[doc] > Current.generated_at
SetAnchor(doc, version) ==
  /\ Increases(doc, version)
  /\ events' = Append(events, [doc |-> doc, generated_at |-> GeneratedAt[doc],
                               version |-> version, at |-> now])

\* execute calls setAnchor; when that reverts, so does execute.
ExecuteOperation(o) ==
  /\ Ready(o)
  /\ SetAnchor(o[1], o[2])
  /\ scheduled' = [scheduled EXCEPT ![o] = Executed]
Executable(o) == Ready(o) /\ Increases(o[1], o[2])

\* The proposers and executors of the timelock may also act by hand.
ExecuteByHand(o) ==
  /\ ExecuteOperation(o)
  /\ UNCHANGED <<now, publisher, servers, audit>>
Cancel(o) ==
  /\ scheduled[o] \in Nat
  /\ scheduled' = [scheduled EXCEPT ![o] = None]
  /\ UNCHANGED <<now, events, publisher, servers, audit>>

\* publish_anchor reads the anchor and refuses a document that is not newer.
PublishAnchor(p, doc, version) ==
  /\ publisher[p].pc \in {"idle", "published"}
  /\ publisher' = [publisher EXCEPT ![p] =
       IF Increases(doc, version)
       THEN [pc |-> "checked", doc |-> doc, version |-> version, wake |-> 0]
       ELSE NoRun]
  /\ UNCHANGED <<now, chain, servers, audit>>

Operation(p) == <<publisher[p].doc, publisher[p].version>>

\* The salt is the version: a repeated schedule of one operation reverts.
Schedule(p) ==
  /\ publisher[p].pc = "checked"
  /\ IF scheduled[Operation(p)] = None
     THEN /\ scheduled' = [scheduled EXCEPT ![Operation(p)] = now + Delay]
          /\ publisher' = [publisher EXCEPT ![p].pc = "sleeping",
                                            ![p].wake = now + Delay + 1]
     ELSE /\ publisher' = [publisher EXCEPT ![p] = NoRun]
          /\ UNCHANGED scheduled
  /\ UNCHANGED <<now, events, servers, audit>>

\* After its sleep it executes, and looks at the receipt.
Execute(p) ==
  /\ publisher[p].pc = "sleeping" /\ publisher[p].wake <= now
  /\ IF Executable(Operation(p))
     THEN /\ ExecuteOperation(Operation(p))
          /\ publisher' = [publisher EXCEPT ![p].pc = "published", ![p].wake = 0]
     ELSE /\ publisher' = [publisher EXCEPT ![p] = NoRun]
          /\ UNCHANGED chain
  /\ UNCHANGED <<now, servers, audit>>

\* The publisher stops; what it scheduled stays scheduled.
PublisherStops(p) ==
  /\ publisher[p].pc \in {"checked", "sleeping"}
  /\ publisher' = [publisher EXCEPT ![p] = NoRun]
  /\ UNCHANGED <<now, chain, servers, audit>>

-----------------------------------------------------------------------------
(* The mirror and the log server.                                          *)

\* The mirror reads its file before it looks at the anchor.  Whoever runs it may
\* have put any document there, or be in the middle of writing one (None).
Ask(r, s, file) ==
  /\ request[r].pc \in {"idle", "answered"}
  /\ s = "log" => file = None
  /\ request' = [request EXCEPT ![r] =
       [NoRequest EXCEPT !.pc = "waiting", !.server = s, !.text = file]]
  /\ UNCHANGED <<now, chain, publisher, cache, lock, audit>>

Fresh(s) == cache[s] # None /\ now - cache[s].at < Ttl

\* The mirror refuses a file that is not the anchored document; the log serves
\* every event of its view.
Servable(r, seen) ==
  request[r].server = "mirror" =>
    request[r].text # None /\ request[r].text = HeadAfter(seen).doc
Answer(r, seen) ==
  request' = [request EXCEPT ![r] =
    IF Servable(r, seen)
    THEN [@ EXCEPT !.pc = "answered", !.since = now, !.seen = seen]
    ELSE NoRequest]

AnswerFromCache(r) ==
  LET s == request[r].server IN
    /\ request[r].pc = "waiting" /\ lock[s] = None
    /\ Fresh(s)
    /\ Answer(r, cache[s].seen)
    /\ UNCHANGED <<now, chain, publisher, cache, lock, audit>>

StartFetch(r) ==
  LET s == request[r].server IN
    /\ request[r].pc = "waiting" /\ lock[s] = None
    /\ ~ Fresh(s)
    /\ lock' = [lock EXCEPT ![s] = r]
    /\ request' = [request EXCEPT ![r].pc = "fetching", ![r].since = now]
    /\ UNCHANGED <<now, chain, publisher, cache, audit>>

\* The node of a server is taken to be up to date: how old a view is counts from
\* what its node knew.
ReadChain(r) ==
  /\ request[r].pc = "fetching"
  /\ request' = [request EXCEPT ![r].pc = "fetched", ![r].seen = Len(events)]
  /\ UNCHANGED <<now, chain, publisher, cache, lock, audit>>

StoreView(r) ==
  LET s == request[r].server IN
    /\ request[r].pc = "fetched"
    /\ cache' = [cache EXCEPT ![s] = [seen |-> request[r].seen, at |-> now]]
    /\ lock' = [lock EXCEPT ![s] = None]
    /\ Answer(r, request[r].seen)
    /\ UNCHANGED <<now, chain, publisher, audit>>

\* The node cannot be reached, or its answer is lost: 503, whatever is cached.
FetchFails(r) ==
  /\ request[r].pc \in {"fetching", "fetched"}
  /\ lock' = [lock EXCEPT ![request[r].server] = None]
  /\ request' = [request EXCEPT ![r] = NoRequest]
  /\ UNCHANGED <<now, chain, publisher, cache, audit>>

-----------------------------------------------------------------------------
(* The auditor reads the head, the history and the mirror, one by one.  A  *)
(* read that fails is a problem, and so is a disagreement.                 *)

\* check_history on the first n events: two neighbours at a time, so nothing
\* when there are none.
Monotone(n) ==
  \A i \in 1 .. n - 1 : /\ events[i + 1].version > events[i].version
                        /\ events[i + 1].generated_at > events[i].generated_at

\* And nothing to compare the head with, either.
HistoryAgrees(head, history) ==
  /\ history # None /\ Monotone(history)
  /\ head # None /\ history > 0 =>
       /\ events[history].version = HeadAfter(head).version
       /\ events[history].doc = HeadAfter(head).doc
MirrorAgrees(head, registry) ==
  /\ registry # None
  /\ head # None =>
       /\ registry = HeadAfter(head).doc
       /\ GeneratedAt[registry] = HeadAfter(head).generated_at

AuditHead ==
  /\ audit.pc \in {"head", "done"}
  /\ \E head \in {Len(events), None} :
       audit' = [NoAudit EXCEPT !.pc = "history", !.head = head,
                                !.ok = (head # None)]
  /\ UNCHANGED <<now, chain, publisher, servers>>

\* get_logs may know fewer events than there are, or none, and say so without an
\* error: a node's index of its logs may be behind its state, or cut short.
AuditHistory ==
  /\ audit.pc = "history"
  /\ \E history \in 0 .. Len(events) \cup {None} :
       audit' = [audit EXCEPT !.pc = "mirror", !.history = history,
                              !.ok = @ /\ HistoryAgrees(audit.head, history)]
  /\ UNCHANGED <<now, chain, publisher, servers>>

\* The mirror is not trusted: it may serve the auditor any document.
AuditMirror ==
  /\ audit.pc = "mirror"
  /\ \E registry \in Docs \cup {None} :
       audit' = [audit EXCEPT !.pc = "done", !.registry = registry,
                              !.ok = @ /\ MirrorAgrees(audit.head, registry)]
  /\ UNCHANGED <<now, chain, publisher, servers>>

\* A fetch is given up after RpcTimeout.
Tick ==
  /\ now < MaxTime
  /\ \A r \in Requests : request[r].pc \in {"fetching", "fetched"} =>
       now - request[r].since < RpcTimeout
  /\ now' = now + 1
  /\ UNCHANGED <<chain, publisher, servers, audit>>

Publishing(p) ==
  \/ \E doc \in Docs, v \in 1 .. MaxVersion : PublishAnchor(p, doc, v)
  \/ Schedule(p) \/ Execute(p) \/ PublisherStops(p)
Serving(r) ==
  \/ \E s \in Servers, file \in Docs \cup {None} : Ask(r, s, file)
  \/ AnswerFromCache(r) \/ StartFetch(r) \/ ReadChain(r) \/ StoreView(r)
  \/ FetchFails(r)

Next ==
  \/ \E p \in Publishers : Publishing(p)
  \/ \E o \in Operations : ExecuteByHand(o) \/ Cancel(o)
  \/ \E r \in Requests : Serving(r)
  \/ AuditHead \/ AuditHistory \/ AuditMirror
  \/ Tick

Spec == Init /\ [][Next]_vars

-----------------------------------------------------------------------------
TypeOK ==
  /\ now \in 0 .. MaxTime
  /\ events \in Seq([doc : Docs, generated_at : Nat, version : 1 .. MaxVersion,
                     at : 0 .. MaxTime])
  /\ scheduled \in [Operations -> Nat \cup {None, Executed}]
  /\ \A p \in Publishers :
       publisher[p].pc \in {"checked", "sleeping", "published"}
         => Operation(p) \in Operations
  /\ \A s \in Servers :
       /\ cache[s] # None => cache[s].seen <= Len(events) /\ cache[s].at <= now
       /\ lock[s] # None => request[lock[s]].server = s
  /\ \A r \in Requests :
       request[r].pc \in {"fetching", "fetched"}
         => lock[request[r].server] = r
  /\ audit.ok \in BOOLEAN

\* The anchor only ever moves forward, in version and in date at once, whatever
\* publishers, stopped publishers' leftovers and hand-executed operations are
\* about: an auditor of the whole history finds nothing.
AnchorMovesForward == Monotone(Len(events))

\* publish_anchor returns only when its own document has been anchored under
\* its own version.
PublishedIsAnchored ==
  \A p \in Publishers : publisher[p].pc = "published" =>
    \E i \in 1 .. Len(events) :
      <<events[i].doc, events[i].version>> = Operation(p)

\* The event a view of n events ends with was still the last one not longer ago
\* than a view may be old.
Recent(n, at) == n = Len(events) \/ events[n + 1].at > at - (Ttl + RpcTimeout)

\* What an anchored mirror serves has been the anchored document within the life
\* of a view, however its files and the chain have changed in the meantime.
ServedIsAnchored ==
  \A r \in Requests :
    request[r].pc = "answered" /\ request[r].server = "mirror" =>
      /\ request[r].text = HeadAfter(request[r].seen).doc
      /\ Recent(request[r].seen, request[r].since)

\* The log never leaves out an event that is older than a view may be.
LogIsRecent ==
  \A r \in Requests :
    request[r].pc = "answered" /\ request[r].server = "log" =>
      Recent(request[r].seen, request[r].since)

\* A PASS of the auditor: the mirror served the very document that the head it
\* read anchors, whatever was anchored during its three reads, and the history
\* it saw, if it saw any, ends with that head: it is complete.
PassMeansAnchored ==
  audit.pc = "done" /\ audit.ok =>
    /\ audit.head > 0
    /\ audit.registry = events[audit.head].doc
    /\ audit.history \in {0, audit.head}

\* "Any unreachable dependency or inconsistency is a FAIL", "an auditor that
\* skips is an auditor that lies": a PASS rests on the history of the head it
\* names, not on an empty answer.
PassSawHistory ==
  audit.pc = "done" /\ audit.ok => audit.history = audit.head
=============================================================================
