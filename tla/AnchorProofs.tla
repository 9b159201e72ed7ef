---------------------------- MODULE AnchorProofs ----------------------------
(***************************************************************************)
(* Proofs about Anchor, for any documents, versions, publishers, readers   *)
(* and times.                                                              *)
(***************************************************************************)
EXTENDS Anchor, TLAPS

Event == [doc : Docs, generated_at : Nat, version : 1 .. MaxVersion, at : Nat]
Run == [pc : {"idle", "checked", "sleeping", "published"},
        doc : Docs \cup {None}, version : 0 .. MaxVersion, wake : Nat]

\* What has to be known of the rest to follow the chain: a publisher that has
\* something to publish, or has published it, has an operation in its hand.
Shape ==
  /\ now \in Nat
  /\ events \in Seq(Event)
  /\ publisher \in [Publishers -> Run]
  /\ \A p \in Publishers :
       publisher[p].pc \in {"checked", "sleeping", "published"}
         => Operation(p) \in Operations

\* AnchorMovesForward compares neighbours; this compares any two events, which
\* is what the auditor's comparison of two reads relies on.
Ordered ==
  \A i, j \in 1 .. Len(events) : i < j =>
    /\ events[i].version < events[j].version
    /\ events[i].generated_at < events[j].generated_at

-----------------------------------------------------------------------------
\* A step logs nothing, or one event, for a document and a version that exist.

LEMMA Logged ==
  ASSUME Shape, [Next]_vars
  PROVE  \/ events' = events
         \/ \E o \in Operations : SetAnchor(o[1], o[2])
<1>1. ASSUME NEW p \in Publishers, Publishing(p)
      PROVE  \/ events' = events
             \/ \E o \in Operations : SetAnchor(o[1], o[2])
  <2>1. CASE Execute(p)
    <3>1. Operation(p) \in Operations
      BY <2>1 DEF Execute, Shape
    <3> QED BY <2>1, <3>1 DEF Execute, ExecuteOperation, chain
  <2>2. CASE ~ Execute(p)
    BY <1>1, <2>2 DEF Publishing, PublishAnchor, Schedule, PublisherStops, chain
  <2> QED BY <2>1, <2>2
<1>2. ASSUME NEW o \in Operations, ExecuteByHand(o) \/ Cancel(o)
      PROVE  events' = events \/ SetAnchor(o[1], o[2])
  BY <1>2 DEF ExecuteByHand, ExecuteOperation, Cancel
<1>3. ASSUME NEW r \in Requests, Serving(r) PROVE events' = events
  BY <1>3 DEF Serving, Ask, AnswerFromCache, StartFetch, ReadChain, StoreView,
              FetchFails, chain
<1>4. CASE AuditHead \/ AuditHistory \/ AuditMirror \/ Tick \/ UNCHANGED vars
  BY <1>4 DEF AuditHead, AuditHistory, AuditMirror, Tick, vars, chain
<1> QED BY <1>1, <1>2, <1>3, <1>4 DEF Next

LEMMA CurrentVersion ==
  ASSUME Shape
  PROVE  /\ Len(events) \in Nat
         /\ Current.version \in Nat /\ Current.generated_at \in Nat
         /\ Len(events) > 0 => Current = events[Len(events)]
<1>1. CASE Len(events) = 0
  BY <1>1 DEF Shape, Current, HeadAfter, Deployed
<1>2. CASE Len(events) # 0
  <2>1. events[Len(events)] \in Event
    BY <1>2 DEF Shape
  <2> QED BY <1>2, <2>1, AnchorAssumption DEF Shape, Current, HeadAfter, Event
<1> QED BY <1>1, <1>2

\* What setAnchor appends is an event, and the others stay where they are.
LEMMA Appended ==
  ASSUME Shape, NEW o \in Operations, SetAnchor(o[1], o[2])
  PROVE  /\ events' \in Seq(Event)
         /\ Len(events') = Len(events) + 1
         /\ \A i \in 1 .. Len(events) : events'[i] = events[i]
         /\ events'[Len(events) + 1].version = o[2]
         /\ events'[Len(events) + 1].generated_at = GeneratedAt[o[1]]
<1> DEFINE e == [doc |-> o[1], generated_at |-> GeneratedAt[o[1]],
                 version |-> o[2], at |-> now]
<1>1. o[1] \in Docs /\ o[2] \in 1 .. MaxVersion
  BY DEF Operations
<1>2. e \in Event
  BY <1>1, AnchorAssumption DEF Shape, Event
<1>3. events' = Append(events, e)
  BY DEF SetAnchor
<1>4. events \in Seq(Event) /\ Len(events) \in Nat
  BY DEF Shape
<1> HIDE DEF e
<1>5. /\ events' \in Seq(Event)
      /\ Len(events') = Len(events) + 1
      /\ \A i \in 1 .. Len(events) : events'[i] = events[i]
      /\ events'[Len(events) + 1] = e
  BY <1>2, <1>3, <1>4
<1> QED BY <1>5 DEF e

-----------------------------------------------------------------------------
LEMMA InitChain == Init => Shape /\ Ordered
  BY AnchorAssumption DEF Init, Shape, Ordered, NoRun, Run

LEMMA NextShape == Shape /\ [Next]_vars => Shape'
<1> SUFFICES ASSUME Shape, [Next]_vars PROVE Shape'
  OBVIOUS
<1>1. events' \in Seq(Event)
  BY Logged, Appended DEF Shape
<1>2. now' = now \/ (now' \in Nat /\ UNCHANGED publisher)
  <2>1. CASE Tick
    BY <2>1 DEF Tick, Shape
  <2> QED
    BY <2>1 DEF Next, Publishing, PublishAnchor, Schedule, Execute,
      PublisherStops, ExecuteByHand, Cancel, Serving, Ask, AnswerFromCache,
      StartFetch, ReadChain, StoreView, FetchFails, AuditHead, AuditHistory,
      AuditMirror, vars
<1>3. ASSUME NEW p \in Publishers, Publishing(p)
      PROVE  /\ publisher' \in [Publishers -> Run]
             /\ \A q \in Publishers :
                  publisher'[q].pc \in {"checked", "sleeping", "published"}
                    => <<publisher'[q].doc, publisher'[q].version>> \in Operations
  <2>1. PICK run \in Run :
          /\ publisher' = [publisher EXCEPT ![p] = run]
          /\ run.pc \in {"checked", "sleeping", "published"}
               => <<run.doc, run.version>> \in Operations
    <3>1. NoRun \in Run /\ NoRun.pc = "idle"
      BY AnchorAssumption DEF NoRun, Run
    <3>2. ASSUME NEW doc \in Docs, NEW v \in 1 .. MaxVersion,
                 PublishAnchor(p, doc, v)
          PROVE  \E run \in Run :
                   /\ publisher' = [publisher EXCEPT ![p] = run]
                   /\ run.pc \in {"checked", "sleeping", "published"}
                        => <<run.doc, run.version>> \in Operations
      <4> DEFINE run == [pc |-> "checked", doc |-> doc, version |-> v, wake |-> 0]
      <4>1. run \in Run /\ <<run.doc, run.version>> \in Operations
        BY AnchorAssumption DEF Run, Operations
      <4> QED BY <3>1, <3>2, <4>1 DEF PublishAnchor
    <3>3. CASE Schedule(p)
      <4> DEFINE run == [publisher[p] EXCEPT !.pc = "sleeping",
                                             !.wake = now + Delay + 1]
      <4>1. publisher[p] \in Run /\ Operation(p) \in Operations
        BY <3>3 DEF Schedule, Shape
      <4>2. run \in Run
        <5>1. now + Delay + 1 \in Nat
          BY AnchorAssumption DEF Shape
        <5> QED BY <4>1, <5>1 DEF Run
      <4>3. <<run.doc, run.version>> \in Operations
        BY <4>1 DEF Operation, Run
      <4>4. publisher' = [publisher EXCEPT ![p] = run]
              \/ publisher' = [publisher EXCEPT ![p] = NoRun]
        BY <3>3 DEF Schedule, Shape
      <4> QED BY <3>1, <4>2, <4>3, <4>4
    <3>4. CASE Execute(p)
      <4> DEFINE run == [publisher[p] EXCEPT !.pc = "published", !.wake = 0]
      <4>1. publisher[p] \in Run
        BY DEF Shape
      <4>2. run \in Run /\ <<run.doc, run.version>> \in Operations
        BY <3>4, <4>1 DEF Execute, Shape, Run, Operation
      <4>3. publisher' = [publisher EXCEPT ![p] = run]
              \/ publisher' = [publisher EXCEPT ![p] = NoRun]
        BY <3>4 DEF Execute, Shape
      <4> QED BY <3>1, <4>2, <4>3
    <3>5. CASE PublisherStops(p)
      BY <3>1, <3>5 DEF PublisherStops
    <3> QED BY <1>3, <3>2, <3>3, <3>4, <3>5 DEF Publishing
  <2> QED BY <2>1 DEF Shape, Operation
<1>4. CASE \E p \in Publishers : Publishing(p)
  <2>1. now' = now
    BY <1>4 DEF Publishing, PublishAnchor, Schedule, Execute, PublisherStops
  <2> QED BY <1>1, <1>3, <1>4, <2>1 DEF Shape, Operation
<1>5. CASE ~ \E p \in Publishers : Publishing(p)
  <2>1. UNCHANGED publisher
    BY <1>5 DEF Next, ExecuteByHand, Cancel, Serving, Ask, AnswerFromCache,
      StartFetch, ReadChain, StoreView, FetchFails, AuditHead, AuditHistory,
      AuditMirror, Tick, vars
  <2> QED BY <1>1, <1>2, <2>1 DEF Shape, Operation
<1> QED BY <1>4, <1>5

LEMMA NextOrdered == Shape /\ Ordered /\ [Next]_vars => Ordered'
<1> SUFFICES ASSUME Shape, Ordered, [Next]_vars PROVE Ordered'
  OBVIOUS
<1>1. CASE events' = events
  BY <1>1 DEF Ordered
<1>2. ASSUME NEW o \in Operations, SetAnchor(o[1], o[2]) PROVE Ordered'
  <2> SUFFICES ASSUME NEW i \in 1 .. Len(events'), NEW j \in 1 .. Len(events'),
                      i < j
               PROVE  /\ events'[i].version < events'[j].version
                      /\ events'[i].generated_at < events'[j].generated_at
    BY DEF Ordered
  <2>1. /\ Len(events) \in Nat /\ Len(events') = Len(events) + 1
        /\ i \in 1 .. Len(events) /\ events'[i] = events[i]
    BY <1>2, Appended, CurrentVersion
  <2>2. CASE j \in 1 .. Len(events)
    BY <1>2, <2>1, <2>2, Appended DEF Ordered
  <2>3. CASE j = Len(events) + 1
    <3>1. /\ Current.version < events'[j].version
          /\ Current.generated_at < events'[j].generated_at
      BY <1>2, <2>3, Appended DEF SetAnchor, Increases
    <3>2. Current = events[Len(events)] /\ events[i] \in Event
      BY <2>1, CurrentVersion DEF Shape
    <3>3. /\ events[i].version <= Current.version
          /\ events[i].generated_at <= Current.generated_at
      BY <2>1, <3>2, CurrentVersion DEF Ordered, Event
    <3>4. events'[j].version \in Nat /\ events'[j].generated_at \in Nat
      BY <1>2, <2>3, Appended, AnchorAssumption DEF Operations
    <3>5. events[i].version \in Nat /\ events[i].generated_at \in Nat
      BY <3>2 DEF Event
    <3> QED BY <2>1, <3>1, <3>3, <3>4, <3>5, CurrentVersion
  <2> QED BY <2>1, <2>2, <2>3
<1> QED BY <1>1, <1>2, Logged

LEMMA OrderedIsMonotone ==
  ASSUME Shape, Ordered, NEW n \in 0 .. Len(events)
  PROVE  Monotone(n)
<1> SUFFICES ASSUME NEW i \in 1 .. n - 1
             PROVE  /\ events[i + 1].version > events[i].version
                    /\ events[i + 1].generated_at > events[i].generated_at
  BY DEF Monotone
<1>1. Len(events) \in Nat
  BY DEF Shape
<1>2. i \in 1 .. Len(events) /\ i + 1 \in 1 .. Len(events) /\ i < i + 1
  BY <1>1
<1>3. events[i] \in Event /\ events[i + 1] \in Event
  BY <1>2 DEF Shape
<1> QED BY <1>2, <1>3 DEF Ordered, Event

\* The anchor never goes back, whoever publishes, stops, executes or cancels.
THEOREM ForwardOnly == Spec => []AnchorMovesForward
<1>1. Shape /\ Ordered /\ [Next]_vars => (Shape /\ Ordered)'
  BY NextShape, NextOrdered
<1>2. Shape /\ Ordered => AnchorMovesForward
  BY OrderedIsMonotone, CurrentVersion DEF AnchorMovesForward
<1> QED BY InitChain, <1>1, <1>2, PTL DEF Spec

-----------------------------------------------------------------------------
\* The auditor, as long as it has found no problem, holds two views of one
\* length, unless the second came back empty, and in the end the document that
\* the first ends with.

Found(n) == n \in 0 .. Len(events)
AuditRun == [pc : {"head", "history", "mirror", "done"}, ok : BOOLEAN,
             head : Nat \cup {None}, history : Nat \cup {None},
             registry : Docs \cup {None}]
AuditShape ==
  /\ audit \in AuditRun
  /\ audit.pc = "history" /\ audit.ok => Found(audit.head)
  /\ audit.pc \in {"mirror", "done"} /\ audit.ok
       => Found(audit.head) /\ audit.history \in {0, audit.head}
  /\ audit.pc = "done" /\ audit.ok
       => audit.head > 0 /\ audit.registry = events[audit.head].doc

\* Two views of an ordered history that end with one version are the same view.
LEMMA SameView ==
  ASSUME Shape, Ordered, NEW head \in 0 .. Len(events),
         NEW history \in 0 .. Len(events), HistoryAgrees(head, history)
  PROVE  history \in {0, head}
<1>1. Len(events) \in Nat /\ head # None
  <2>1. None \notin Nat /\ Len(events) \in Nat
    BY AnchorAssumption DEF Shape
  <2> QED BY <2>1
<1>2. CASE history > 0
  <2>1. history \in 1 .. Len(events) /\ events[history] \in Event
    BY <1>1, <1>2 DEF Shape
  <2>2. HeadAfter(head).version = events[history].version
    BY <1>1, <1>2 DEF HistoryAgrees
  <2>3. head # 0
    BY <1>1, <2>1, <2>2 DEF HeadAfter, Deployed, Event
  <2>4. /\ head \in 1 .. Len(events) /\ events[head].version = events[history].version
        /\ events[head] \in Event
    BY <1>1, <2>2, <2>3 DEF HeadAfter, Shape
  <2>5. ~ (head < history) /\ ~ (history < head)
    BY <2>1, <2>4 DEF Ordered, Event
  <2> QED BY <1>1, <2>1, <2>4, <2>5
<1>3. CASE history = 0
  BY <1>3
<1> QED BY <1>1, <1>2, <1>3

LEMMA NextAudit ==
  ASSUME Shape, Ordered, AuditShape, [Next]_vars
  PROVE  AuditShape'
<1>1. CASE UNCHANGED audit
  <2>1. Len(events) \in Nat /\ Len(events') \in Nat /\ Len(events) <= Len(events')
    BY Logged, Appended, CurrentVersion
  <2>2. \A i \in 1 .. Len(events) : events'[i] = events[i]
    BY Logged, Appended
  <2> QED BY <1>1, <2>1, <2>2 DEF AuditShape, Found
<1>2. CASE AuditHead
  <2>1. events' = events /\ Len(events) \in 0 .. Len(events)
    BY <1>2, CurrentVersion DEF AuditHead, chain
  <2>2. PICK head \in {Len(events), None} :
          audit' = [NoAudit EXCEPT !.pc = "history", !.head = head,
                                   !.ok = (head # None)]
    BY <1>2 DEF AuditHead
  <2>3. audit' \in AuditRun /\ audit'.pc = "history" /\ audit'.head = head
    BY <2>1, <2>2, CurrentVersion DEF NoAudit, AuditRun
  <2>4. audit'.ok => head # None
    BY <2>2 DEF NoAudit
  <2> QED BY <2>1, <2>2, <2>3, <2>4 DEF AuditShape, Found
<1>3. CASE AuditHistory
  <2>1. events' = events
    BY <1>3 DEF AuditHistory, chain
  <2>2. PICK history \in 0 .. Len(events) \cup {None} :
          audit' = [audit EXCEPT !.pc = "mirror", !.history = history,
                     !.ok = audit.ok /\ HistoryAgrees(audit.head, history)]
    BY <1>3 DEF AuditHistory
  <2>0. history \in Nat \cup {None}
    BY CurrentVersion
  <2>3. HistoryAgrees(audit.head, history) \in BOOLEAN
    BY DEF HistoryAgrees
  <2>4. /\ audit' \in AuditRun /\ audit'.pc = "mirror"
        /\ audit'.head = audit.head /\ audit'.history = history
        /\ audit'.ok <=> audit.ok /\ HistoryAgrees(audit.head, history)
    BY <2>0, <2>2, <2>3 DEF AuditShape, AuditRun
  <2>5. ASSUME audit'.ok PROVE Found(audit.head) /\ history \in {0, audit.head}
    <3>1. Found(audit.head) /\ HistoryAgrees(audit.head, history)
      BY <1>3, <2>4, <2>5 DEF AuditHistory, AuditShape
    <3>2. history \in 0 .. Len(events)
      BY <2>2, <3>1 DEF HistoryAgrees
    <3> QED BY <3>1, <3>2, SameView DEF Found
  <2> QED BY <2>1, <2>4, <2>5 DEF AuditShape, Found
<1>4. CASE AuditMirror
  <2>1. events' = events
    BY <1>4 DEF AuditMirror, chain
  <2>2. PICK registry \in Docs \cup {None} :
          audit' = [audit EXCEPT !.pc = "done", !.registry = registry,
                     !.ok = audit.ok /\ MirrorAgrees(audit.head, registry)]
    BY <1>4 DEF AuditMirror
  <2>3. MirrorAgrees(audit.head, registry) \in BOOLEAN
    BY DEF MirrorAgrees
  <2>4. /\ audit' \in AuditRun /\ audit'.pc = "done"
        /\ audit'.head = audit.head /\ audit'.history = audit.history
        /\ audit'.registry = registry
        /\ audit'.ok <=> audit.ok /\ MirrorAgrees(audit.head, registry)
    BY <2>2, <2>3 DEF AuditShape, AuditRun
  <2>5. ASSUME audit'.ok
        PROVE  /\ Found(audit.head) /\ audit.history \in {0, audit.head}
               /\ audit.head > 0 /\ registry = events[audit.head].doc
    <3>1. audit.ok /\ MirrorAgrees(audit.head, registry) /\ audit.pc = "mirror"
      BY <1>4, <2>4, <2>5 DEF AuditMirror
    <3>2. Found(audit.head) /\ audit.history \in {0, audit.head}
      BY <3>1 DEF AuditShape
    <3>3. audit.head \in Nat /\ audit.head # None
      BY <3>2, CurrentVersion, AnchorAssumption DEF Found
    <3>4. registry # None /\ registry = HeadAfter(audit.head).doc
      BY <3>1, <3>3 DEF MirrorAgrees
    <3>5. audit.head # 0
      BY <3>4 DEF HeadAfter, Deployed
    <3> QED BY <3>2, <3>3, <3>4, <3>5 DEF HeadAfter
  <2> QED BY <2>1, <2>4, <2>5 DEF AuditShape, Found
<1> QED
  BY <1>1, <1>2, <1>3, <1>4 DEF Next, Publishing, PublishAnchor, Schedule,
     Execute, PublisherStops, ExecuteByHand, Cancel, Serving, Ask,
     AnswerFromCache, StartFetch, ReadChain, StoreView, FetchFails, Tick, vars

\* When the auditor says PASS, the mirror has served the document of the head it
\* read, and the history it was given, if it was given any, ends with that head.
THEOREM PassIsSound == Spec => []PassMeansAnchored
<1> DEFINE Inv == Shape /\ Ordered /\ AuditShape
<1>1. Init => Inv
  <2>1. Init => AuditShape
    BY DEF Init, NoAudit, AuditShape, AuditRun
  <2> QED BY <2>1, InitChain
<1>2. Inv /\ [Next]_vars => Inv'
  BY NextShape, NextOrdered, NextAudit
<1>3. Inv => PassMeansAnchored
  BY DEF PassMeansAnchored, AuditShape
<1> QED BY <1>1, <1>2, <1>3, PTL DEF Spec
-----------------------------------------------------------------------------
\* The mirror and the log server: who holds which lock, and what they have seen.

View == [seen : Nat, at : Nat]
Asked == [pc : {"idle", "waiting", "fetching", "fetched", "answered"},
          server : Servers \cup {None}, text : Docs \cup {None},
          since : Nat, seen : Nat]
Fetching(q) == q.pc \in {"fetching", "fetched"}

\* A lock is held by the request that fetches for its server and by no other.
LocksInv ==
  /\ cache \in [Servers -> View \cup {None}]
  /\ lock \in [Servers -> Requests \cup {None}]
  /\ request \in [Requests -> Asked]
  /\ \A r \in Requests : request[r].pc # "idle" => request[r].server \in Servers
  /\ \A r \in Requests : Fetching(request[r]) => lock[request[r].server] = r
  /\ \A s \in Servers :
       lock[s] # None => Fetching(request[lock[s]]) /\ request[lock[s]].server = s

\* Whatever n events leave out was logged at time t or later.
UpTo(n, t) ==
  /\ n \in 0 .. Len(events)
  /\ n = Len(events) \/ events[n + 1].at >= t

\* How long a view is used after it was stored.
Kept == IF Ttl > 0 THEN Ttl - 1 ELSE 0

\* What each request and each cache may claim of the view it holds.  A fetch
\* that is under way has not lasted longer than RpcTimeout, and the view is at
\* least as recent as the start of the fetch.
Timely(q) ==
  /\ Fetching(q) => q.since <= now /\ now <= q.since + RpcTimeout
  /\ q.pc = "fetched" => UpTo(q.seen, q.since)
  /\ q.pc = "answered" =>
       /\ q.since <= now
       /\ UpTo(q.seen, q.since - RpcTimeout - Kept)
       /\ q.server = "mirror" => q.text = HeadAfter(q.seen).doc
Stored(v) == v.at <= now /\ UpTo(v.seen, v.at - RpcTimeout)
ViewsInv ==
  /\ \A r \in Requests : Timely(request[r])
  /\ \A s \in Servers : cache[s] # None => Stored(cache[s])

LEMMA KeptIsNatural == Kept \in Nat /\ RpcTimeout \in Nat /\ Ttl \in Nat
  BY AnchorAssumption DEF Kept

\* A new event carries the time at which it is logged, so an older view leaves
\* out nothing that is older than it; and it ends with the event it ended with.
LEMMA ViewsStay ==
  ASSUME Shape, [Next]_vars, NEW n, NEW t \in Int, t <= now, UpTo(n, t)
  PROVE  UpTo(n, t)' /\ HeadAfter(n)' = HeadAfter(n)
<1>1. Len(events) \in Nat /\ n \in 0 .. Len(events)
  BY CurrentVersion DEF UpTo
<1>2. CASE events' = events
  BY <1>2 DEF UpTo, HeadAfter
<1>3. ASSUME NEW o \in Operations, SetAnchor(o[1], o[2])
      PROVE  UpTo(n, t)' /\ HeadAfter(n)' = HeadAfter(n)
  <2>1. /\ Len(events') = Len(events) + 1
        /\ \A i \in 1 .. Len(events) : events'[i] = events[i]
    BY <1>3, Appended
  <2>2. events'[Len(events) + 1].at = now
    BY <1>1, <1>3 DEF SetAnchor, Shape
  <2>3. n = Len(events) \/ n + 1 \in 1 .. Len(events)
    BY <1>1
  <2>4. UpTo(n, t)'
    BY <1>1, <2>1, <2>2, <2>3 DEF UpTo, Shape
  <2>5. HeadAfter(n)' = HeadAfter(n)
    BY <1>1, <2>1 DEF HeadAfter, Deployed
  <2> QED BY <2>4, <2>5
<1> QED BY <1>2, <1>3, Logged

\* A weaker claim about the same view.
LEMMA UpToBefore ==
  ASSUME Shape, NEW n, NEW t \in Int, NEW u \in Int, u <= t, UpTo(n, t)
  PROVE  UpTo(n, u)
<1>1. CASE n = Len(events)
  BY <1>1 DEF UpTo
<1>2. CASE n # Len(events)
  <2>1. n + 1 \in 1 .. Len(events)
    BY <1>2, CurrentVersion DEF UpTo
  <2>2. events[n + 1].at \in Nat
    <3>1. events[n + 1] \in Event
      BY <2>1 DEF Shape
    <3> QED BY <3>1 DEF Event
  <2>3. events[n + 1].at >= u
    BY <1>2, <2>2 DEF UpTo
  <2> QED BY <2>3 DEF UpTo
<1> QED BY <1>1, <1>2

LEMMA InitViews == Init => LocksInv /\ ViewsInv
<1> SUFFICES ASSUME Init PROVE LocksInv /\ ViewsInv
  OBVIOUS
<1>1. NoRequest \in Asked /\ NoRequest.pc = "idle"
  BY DEF NoRequest, Asked
<1>2. LocksInv
  BY <1>1 DEF Init, LocksInv, Fetching
<1>3. ViewsInv
  BY <1>1 DEF Init, ViewsInv, Timely, Fetching
<1> QED BY <1>2, <1>3

\* What a step of a request does to the locks and to the request.

LEMMA TakeLock ==
  ASSUME LocksInv, NEW r \in Requests, NEW s \in Servers, NEW q \in Asked,
         request[r].server = s, ~ Fetching(request[r]), lock[s] = None,
         q.pc = "fetching", q.server = s,
         request' = [request EXCEPT ![r] = q],
         lock' = [lock EXCEPT ![s] = r], UNCHANGED cache
  PROVE  LocksInv'
<1>1. /\ request'[r] = q /\ lock'[s] = r /\ Fetching(q)
      /\ \A o \in Requests : o # r => request'[o] = request[o]
      /\ \A z \in Servers : z # s => lock'[z] = lock[z]
  BY DEF LocksInv, Fetching
<1>2. \A o \in Requests : Fetching(request'[o]) => lock'[request'[o].server] = o
  <2>1. \A o \in Requests : Fetching(request[o]) => request[o].server # s
    BY AnchorAssumption DEF LocksInv
  <2> QED BY <1>1, <2>1 DEF LocksInv, Fetching
<1>3. \A z \in Servers : lock'[z] # None =>
        Fetching(request'[lock'[z]]) /\ request'[lock'[z]].server = z
  BY <1>1 DEF LocksInv
<1> QED BY <1>1, <1>2, <1>3 DEF LocksInv, Fetching

LEMMA KeepLock ==
  ASSUME LocksInv, NEW r \in Requests, NEW q \in Asked,
         q.pc # "idle" => q.server \in Servers,
         Fetching(q) <=> Fetching(request[r]),
         Fetching(q) => q.server = request[r].server,
         request' = [request EXCEPT ![r] = q], UNCHANGED <<lock, cache>>
  PROVE  LocksInv'
  BY AnchorAssumption DEF LocksInv, Fetching

LEMMA FreeLock ==
  ASSUME LocksInv, NEW r \in Requests, NEW q \in Asked,
         Fetching(request[r]), ~ Fetching(q),
         q.pc # "idle" => q.server \in Servers,
         request' = [request EXCEPT ![r] = q],
         lock' = [lock EXCEPT ![request[r].server] = None],
         cache' \in [Servers -> View \cup {None}]
  PROVE  LocksInv'
<1> DEFINE s == request[r].server
<1>1. s \in Servers /\ lock[s] = r
  BY DEF LocksInv, Fetching
<1>2. /\ request'[r] = q /\ lock'[s] = None
      /\ \A o \in Requests : o # r => request'[o] = request[o]
      /\ \A z \in Servers : z # s => lock'[z] = lock[z]
  BY <1>1 DEF LocksInv
<1>3. \A o \in Requests : Fetching(request'[o]) => lock'[request'[o].server] = o
  <2>1. \A o \in Requests : Fetching(request[o]) /\ o # r => request[o].server # s
    BY <1>1 DEF LocksInv
  <2> QED BY <1>2, <2>1 DEF LocksInv, Fetching
<1>4. \A z \in Servers : lock'[z] # None =>
        Fetching(request'[lock'[z]]) /\ request'[lock'[z]].server = z
  BY <1>1, <1>2 DEF LocksInv
<1>5. lock' \in [Servers -> Requests \cup {None}] /\ request' \in [Requests -> Asked]
  BY DEF LocksInv
<1>6. \A o \in Requests : request'[o].pc # "idle" => request'[o].server \in Servers
  BY <1>2 DEF LocksInv
<1> QED BY <1>3, <1>4, <1>5, <1>6 DEF LocksInv

\* A step of one request, with the chain and the clock as they are, keeps what
\* the others may claim.
LEMMA OneTimely ==
  ASSUME LocksInv, ViewsInv, NEW r \in Requests, NEW q \in Asked,
         request' = [request EXCEPT ![r] = q], UNCHANGED <<now, events>>,
         Timely(q),
         \A s \in Servers : cache'[s] # None => Stored(cache'[s])
  PROVE  ViewsInv'
<1>1. ASSUME NEW o \in Requests PROVE Timely(request'[o])
  BY <1>1 DEF LocksInv, ViewsInv
<1>2. ASSUME NEW o \in Requests PROVE Timely(request[o])'
  BY <1>1 DEF Timely, UpTo, HeadAfter, Kept, Fetching
<1>3. ASSUME NEW s \in Servers, cache'[s] # None PROVE Stored(cache[s])'
  BY <1>3 DEF Stored, UpTo
<1> QED BY <1>2, <1>3 DEF ViewsInv

\* An answer from a view that leaves out nothing too old.
LEMMA Answers ==
  ASSUME Shape, LocksInv, NEW r \in Requests, request[r].pc # "idle",
         NEW seen \in Nat, UpTo(seen, now - RpcTimeout - Kept), Answer(r, seen)
  PROVE  \E q \in Asked :
           /\ request' = [request EXCEPT ![r] = q]
           /\ q.pc \in {"idle", "answered"}
           /\ q.pc # "idle" => q.server \in Servers
           /\ Timely(q)
<1>1. request[r] \in Asked /\ request[r].server \in Servers /\ now \in Nat
  BY DEF LocksInv, Shape
<1>2. CASE ~ Servable(r, seen)
  <2>1. NoRequest \in Asked /\ NoRequest.pc = "idle"
    BY DEF NoRequest, Asked
  <2>2. request' = [request EXCEPT ![r] = NoRequest]
    BY <1>2 DEF Answer
  <2>3. Timely(NoRequest)
    BY <2>1 DEF Timely, Fetching
  <2> QED BY <2>1, <2>2, <2>3
<1>3. CASE Servable(r, seen)
  <2> DEFINE q == [request[r] EXCEPT !.pc = "answered", !.since = now, !.seen = seen]
  <2>1. request' = [request EXCEPT ![r] = q]
    BY <1>3 DEF Answer, LocksInv
  <2>2. /\ q \in Asked /\ q.pc = "answered" /\ q.since = now /\ q.seen = seen
        /\ q.server = request[r].server /\ q.text = request[r].text
    BY <1>1 DEF Asked
  <2> HIDE DEF q
  <2>3. Timely(q)
    <3>1. q.server = "mirror" => q.text = HeadAfter(q.seen).doc
      BY <1>3, <2>2 DEF Servable
    <3>2. UpTo(q.seen, q.since - RpcTimeout - Kept) /\ q.since <= now
      BY <1>1, <2>2
    <3> QED BY <2>2, <3>1, <3>2 DEF Timely, Fetching
  <2> QED BY <1>1, <2>1, <2>2, <2>3
<1> QED BY <1>2, <1>3

LEMMA NextServing ==
  ASSUME Shape, LocksInv, ViewsInv, NEW r \in Requests, Serving(r)
  PROVE  LocksInv' /\ ViewsInv'
<1>1. /\ request[r] \in Asked /\ now \in Nat /\ UNCHANGED <<now, events>>
      /\ Timely(request[r])
  BY DEF LocksInv, ViewsInv, Shape, Serving, Ask, AnswerFromCache, StartFetch,
         ReadChain, StoreView, FetchFails, chain
<1>2. \A s \in Servers : cache[s] # None => cache[s] \in View /\ Stored(cache[s])
  BY DEF LocksInv, ViewsInv
<1>3. NoRequest \in Asked /\ NoRequest.pc = "idle" /\ Timely(NoRequest)
  BY DEF NoRequest, Asked, Timely, Fetching
<1>4. ASSUME NEW s \in Servers, NEW file \in Docs \cup {None}, Ask(r, s, file)
      PROVE  LocksInv' /\ ViewsInv'
  <2> DEFINE q == [NoRequest EXCEPT !.pc = "waiting", !.server = s, !.text = file]
  <2>1. /\ request' = [request EXCEPT ![r] = q] /\ UNCHANGED <<cache, lock>>
        /\ ~ Fetching(request[r])
    BY <1>4 DEF Ask, Fetching
  <2>2. q \in Asked /\ q.pc = "waiting" /\ q.server = s
    BY <1>3 DEF NoRequest, Asked
  <2> HIDE DEF q
  <2>3. ~ Fetching(q) /\ Timely(q)
    BY <2>2 DEF Timely, Fetching
  <2> QED BY <1>1, <1>2, <2>1, <2>2, <2>3, KeepLock, OneTimely
<1>5. CASE AnswerFromCache(r)
  <2> DEFINE s == request[r].server
  <2>1. /\ request[r].pc = "waiting" /\ Fresh(s) /\ Answer(r, cache[s].seen)
        /\ UNCHANGED <<cache, lock>> /\ s \in Servers
    BY <1>5 DEF AnswerFromCache, LocksInv
  <2>2. cache[s] \in View /\ Stored(cache[s]) /\ now - cache[s].at < Ttl
    BY <1>2, <2>1 DEF Fresh
  <2>3. /\ cache[s].seen \in Nat /\ cache[s].at \in Nat
        /\ UpTo(cache[s].seen, cache[s].at - RpcTimeout)
    BY <2>2 DEF View, Stored
  <2>4. now - RpcTimeout - Kept <= cache[s].at - RpcTimeout
    <3>1. cache[s].at <= now /\ Ttl > 0 => Kept = Ttl - 1
      BY <2>2 DEF Kept, Stored
    <3> QED BY <1>1, <2>2, <2>3, <3>1, KeptIsNatural DEF Stored
  <2>5. UpTo(cache[s].seen, now - RpcTimeout - Kept)
    <3>1. cache[s].at - RpcTimeout \in Int /\ now - RpcTimeout - Kept \in Int
      BY <1>1, <2>3, KeptIsNatural
    <3> QED BY <2>3, <2>4, <3>1, UpToBefore
  <2>6. PICK q \in Asked :
          /\ request' = [request EXCEPT ![r] = q]
          /\ q.pc \in {"idle", "answered"}
          /\ q.pc # "idle" => q.server \in Servers
          /\ Timely(q)
    BY <2>1, <2>3, <2>5, Answers
  <2>7. ~ Fetching(q) /\ ~ Fetching(request[r])
    BY <2>1, <2>6 DEF Fetching
  <2> QED BY <1>1, <1>2, <2>1, <2>6, <2>7, KeepLock, OneTimely
<1>6. CASE StartFetch(r)
  <2> DEFINE s == request[r].server
             q == [request[r] EXCEPT !.pc = "fetching", !.since = now]
  <2>1. /\ request[r].pc = "waiting" /\ lock[s] = None /\ s \in Servers
        /\ lock' = [lock EXCEPT ![s] = r] /\ UNCHANGED cache
    BY <1>6 DEF StartFetch, LocksInv
  <2>2. request' = [request EXCEPT ![r] = q]
    BY <1>1, <1>6 DEF StartFetch, LocksInv
  <2>3. q \in Asked /\ q.pc = "fetching" /\ q.since = now /\ q.server = s
    BY <1>1 DEF Asked
  <2> HIDE DEF q
  <2>4. Timely(q) /\ ~ Fetching(request[r])
    BY <1>1, <2>1, <2>3, KeptIsNatural DEF Timely, Fetching
  <2>5. LocksInv'
    BY <2>1, <2>2, <2>3, <2>4, TakeLock
  <2>6. ViewsInv'
    BY <1>1, <1>2, <2>1, <2>2, <2>3, <2>4, OneTimely
  <2> QED BY <2>5, <2>6
<1>7. CASE ReadChain(r)
  <2> DEFINE q == [request[r] EXCEPT !.pc = "fetched", !.seen = Len(events)]
  <2>1. request[r].pc = "fetching" /\ UNCHANGED <<cache, lock>>
    BY <1>7 DEF ReadChain
  <2>2. request' = [request EXCEPT ![r] = q]
    BY <1>1, <1>7 DEF ReadChain, LocksInv
  <2>3. /\ q \in Asked /\ q.pc = "fetched" /\ q.seen = Len(events)
        /\ q.since = request[r].since /\ q.server = request[r].server
    BY <1>1, CurrentVersion DEF Asked
  <2> HIDE DEF q
  <2>4. UpTo(q.seen, q.since)
    BY <2>3, CurrentVersion DEF UpTo
  <2>5. Timely(q) /\ Fetching(q) /\ Fetching(request[r])
    BY <1>1, <2>1, <2>3, <2>4 DEF Timely, Fetching
  <2>6. request[r].server \in Servers
    BY <2>1 DEF LocksInv
  <2> QED BY <1>1, <1>2, <2>1, <2>2, <2>3, <2>5, <2>6, KeepLock, OneTimely
<1>8. CASE StoreView(r)
  <2> DEFINE s == request[r].server
             v == [seen |-> request[r].seen, at |-> now]
  <2>1. /\ request[r].pc = "fetched" /\ s \in Servers
        /\ cache' = [cache EXCEPT ![s] = v]
        /\ lock' = [lock EXCEPT ![s] = None]
        /\ Answer(r, request[r].seen)
    BY <1>8 DEF StoreView, LocksInv
  <2>2. /\ request[r].seen \in Nat /\ request[r].since \in Nat
        /\ now <= request[r].since + RpcTimeout
        /\ UpTo(request[r].seen, request[r].since)
    BY <1>1, <2>1 DEF Timely, Fetching, Asked
  <2>3. /\ UpTo(request[r].seen, now - RpcTimeout)
        /\ UpTo(request[r].seen, now - RpcTimeout - Kept)
    <3>1. /\ now - RpcTimeout \in Int /\ now - RpcTimeout - Kept \in Int
          /\ now - RpcTimeout <= request[r].since
          /\ now - RpcTimeout - Kept <= request[r].since
          /\ request[r].since \in Int
      BY <1>1, <2>2, KeptIsNatural
    <3> QED BY <2>2, <3>1, UpToBefore
  <2>4. /\ v \in View /\ v.seen = request[r].seen /\ v.at = now
        /\ cache' \in [Servers -> View \cup {None}]
        /\ cache'[s] = v /\ \A z \in Servers : z # s => cache'[z] = cache[z]
    BY <1>1, <2>1, <2>2 DEF View, LocksInv
  <2>5. \A z \in Servers : cache'[z] # None => Stored(cache'[z])
    <3>1. Stored(v)
      BY <1>1, <2>3, <2>4 DEF Stored
    <3> QED BY <1>2, <2>4, <3>1
  <2>6. PICK q \in Asked :
          /\ request' = [request EXCEPT ![r] = q]
          /\ q.pc \in {"idle", "answered"}
          /\ q.pc # "idle" => q.server \in Servers
          /\ Timely(q)
    BY <2>1, <2>2, <2>3, Answers
  <2>7. ~ Fetching(q) /\ Fetching(request[r])
    BY <2>1, <2>6 DEF Fetching
  <2>8. LocksInv'
    BY <2>1, <2>4, <2>6, <2>7, FreeLock
  <2> QED BY <1>1, <2>5, <2>6, <2>8, OneTimely
<1>9. CASE FetchFails(r)
  <2>1. /\ Fetching(request[r]) /\ UNCHANGED cache
        /\ request' = [request EXCEPT ![r] = NoRequest]
        /\ lock' = [lock EXCEPT ![request[r].server] = None]
    BY <1>9 DEF FetchFails, Fetching
  <2>2. ~ Fetching(NoRequest) /\ cache' \in [Servers -> View \cup {None}]
    BY <1>3, <2>1 DEF Fetching, LocksInv
  <2>3. LocksInv'
    BY <1>3, <2>1, <2>2, FreeLock
  <2>4. ViewsInv'
    BY <1>1, <1>2, <1>3, <2>1, OneTimely
  <2> QED BY <2>3, <2>4
<1> QED BY <1>4, <1>5, <1>6, <1>7, <1>8, <1>9 DEF Serving

\* Every other step leaves the servers alone, and time passes only as long as no
\* fetch has taken its full time.
LEMMA Elsewhere ==
  ASSUME Shape, [Next]_vars, ~ \E r \in Requests : Serving(r)
  PROVE  /\ UNCHANGED servers
         /\ now' = now \/ (Tick /\ now' = now + 1)
  BY DEF Next, Publishing, PublishAnchor, Schedule, Execute, PublisherStops,
         ExecuteByHand, Cancel, AuditHead, AuditHistory, AuditMirror, Tick, vars

LEMMA StaysTimely ==
  ASSUME Shape, [Next]_vars, ~ \E r \in Requests : Serving(r),
         NEW r \in Requests, NEW q \in Asked, request[r] = q, Timely(q)
  PROVE  Timely(q)'
<1>1. /\ now \in Nat /\ now' \in Nat /\ now <= now'
      /\ q.since \in Nat /\ q.seen \in Nat
  BY Elsewhere DEF Shape, Asked
<1>2. Fetching(q) => q.since <= now' /\ now' <= q.since + RpcTimeout
  <2>1. CASE now' = now
    BY <2>1 DEF Timely
  <2>2. CASE Tick /\ now' = now + 1
    BY <1>1, <2>2, KeptIsNatural DEF Tick, Timely, Fetching
  <2> QED BY <2>1, <2>2, Elsewhere
<1>3. q.pc = "fetched" => UpTo(q.seen, q.since)'
  BY <1>1, ViewsStay DEF Timely, Fetching
<1>4. ASSUME q.pc = "answered"
      PROVE  /\ q.since <= now'
             /\ UpTo(q.seen, q.since - RpcTimeout - Kept)'
             /\ q.server = "mirror" => q.text = HeadAfter(q.seen)'.doc
  <2> DEFINE t == q.since - RpcTimeout - Kept
  <2>1. /\ q.since <= now /\ UpTo(q.seen, t)
        /\ q.server = "mirror" => q.text = HeadAfter(q.seen).doc
    BY <1>4 DEF Timely
  <2>2. t \in Int /\ t <= now
    BY <1>1, <2>1, KeptIsNatural
  <2>3. UpTo(q.seen, t)' /\ HeadAfter(q.seen)' = HeadAfter(q.seen)
    BY <2>1, <2>2, ViewsStay DEF Kept
  <2> QED BY <1>1, <2>1, <2>3
<1> QED BY <1>2, <1>3, <1>4 DEF Timely, Fetching, Kept

LEMMA StaysStored ==
  ASSUME Shape, [Next]_vars, ~ \E r \in Requests : Serving(r),
         NEW v \in View, Stored(v)
  PROVE  Stored(v)'
<1>1. now \in Nat /\ now' \in Nat /\ now <= now' /\ v.at \in Nat
  BY Elsewhere DEF Shape, View
<1>2. v.at - RpcTimeout \in Int /\ v.at - RpcTimeout <= now
  BY <1>1, KeptIsNatural DEF Stored
<1>3. UpTo(v.seen, v.at - RpcTimeout)'
  BY <1>2, ViewsStay DEF Stored
<1> QED BY <1>1, <1>3 DEF Stored

LEMMA NextViews ==
  ASSUME Shape, LocksInv, ViewsInv, [Next]_vars
  PROVE  LocksInv' /\ ViewsInv'
<1>1. CASE \E r \in Requests : Serving(r)
  BY <1>1, NextServing
<1>2. CASE ~ \E r \in Requests : Serving(r)
  <2>1. UNCHANGED <<cache, lock, request>>
    BY <1>2, Elsewhere DEF servers
  <2>2. LocksInv'
    BY <2>1 DEF LocksInv
  <2>3. ASSUME NEW r \in Requests PROVE Timely(request[r])'
    <3>1. PICK q \in Asked : request[r] = q
      BY DEF LocksInv
    <3>2. Timely(q)'
      BY <1>2, <3>1, StaysTimely DEF ViewsInv
    <3> QED BY <2>1, <3>1, <3>2
  <2>4. ASSUME NEW s \in Servers, cache'[s] # None PROVE Stored(cache[s])'
    <3>1. PICK v \in View : cache[s] = v
      BY <2>1, <2>4 DEF LocksInv
    <3>2. Stored(v)'
      BY <1>2, <2>1, <2>4, <3>1, StaysStored DEF ViewsInv
    <3> QED BY <2>1, <3>1, <3>2
  <2> QED BY <2>2, <2>3, <2>4 DEF ViewsInv
<1> QED BY <1>1, <1>2

\* What a mirror serves, and what the log leaves out, whatever is published and
\* whenever the chain is read.  A view that is never kept (Ttl = 0, as the tests
\* configure it) may be as old as RpcTimeout itself, which Recent excludes.
ViewsAreKept == Ttl > 0

LEMMA ViewsAreRecent ==
  ASSUME ViewsAreKept, Shape, LocksInv, ViewsInv
  PROVE  ServedIsAnchored /\ LogIsRecent
<1>1. ASSUME NEW r \in Requests, request[r].pc = "answered"
      PROVE  /\ Recent(request[r].seen, request[r].since)
             /\ request[r].server = "mirror"
                  => request[r].text = HeadAfter(request[r].seen).doc
  <2> DEFINE n == request[r].seen
             t == request[r].since - RpcTimeout - Kept
  <2>1. /\ UpTo(n, t) /\ request[r].since \in Nat /\ n \in Nat
        /\ request[r].server = "mirror" => request[r].text = HeadAfter(n).doc
    BY <1>1 DEF LocksInv, Asked, ViewsInv, Timely
  <2>2. CASE n = Len(events)
    BY <2>1, <2>2 DEF Recent
  <2>3. CASE n # Len(events)
    <3>1. n + 1 \in 1 .. Len(events) /\ events[n + 1].at >= t
      BY <2>1, <2>3, CurrentVersion DEF UpTo
    <3>2. events[n + 1] \in Event
      BY <3>1 DEF Shape
    <3>3. events[n + 1].at \in Nat
      BY <3>2 DEF Event
    <3>4. Kept = Ttl - 1
      BY DEF Kept, ViewsAreKept
    <3>5. events[n + 1].at > request[r].since - (Ttl + RpcTimeout)
      BY <2>1, <3>1, <3>3, <3>4, KeptIsNatural
    <3> QED BY <2>1, <3>5 DEF Recent
  <2> QED BY <2>2, <2>3
<1> QED BY <1>1 DEF ServedIsAnchored, LogIsRecent

LEMMA NextReaders ==
  Shape /\ LocksInv /\ ViewsInv /\ [Next]_vars => (Shape /\ LocksInv /\ ViewsInv)'
BY NextShape, NextViews

\* An anchored mirror serves what was the anchored document within the life of a
\* view, although it reads its file before it looks at the chain.
THEOREM MirrorIsAnchored ==
  ASSUME ViewsAreKept
  PROVE  Spec => []ServedIsAnchored
BY InitChain, InitViews, NextReaders, ViewsAreRecent, PTL DEF Spec

\* The log leaves out no event that is older than a view may be.
THEOREM LogKeepsUp ==
  ASSUME ViewsAreKept
  PROVE  Spec => []LogIsRecent
BY InitChain, InitViews, NextReaders, ViewsAreRecent, PTL DEF Spec

-----------------------------------------------------------------------------
\* What publish_anchor reports.

LEMMA NextPublished ==
  ASSUME Shape, PublishedIsAnchored, [Next]_vars
  PROVE  PublishedIsAnchored'
<1> SUFFICES ASSUME NEW p \in Publishers, publisher'[p].pc = "published"
             PROVE  \E i \in 1 .. Len(events') :
                      <<events'[i].doc, events'[i].version>>
                        = <<publisher'[p].doc, publisher'[p].version>>
  BY DEF PublishedIsAnchored, Operation
<1>1. /\ Len(events) \in Nat /\ Len(events') \in Nat /\ Len(events) <= Len(events')
      /\ \A i \in 1 .. Len(events) : events'[i] = events[i]
  BY Logged, Appended, CurrentVersion
<1>2. CASE publisher'[p] = publisher[p]
  <2>1. PICK i \in 1 .. Len(events) :
          <<events[i].doc, events[i].version>> = Operation(p)
    BY <1>2 DEF PublishedIsAnchored
  <2>2. i \in 1 .. Len(events') /\ events'[i] = events[i]
    BY <1>1
  <2> QED BY <1>2, <2>1, <2>2 DEF Operation
<1>3. CASE publisher'[p] # publisher[p]
  <2>1. Execute(p) /\ Executable(Operation(p))
    <3>1. PICK q \in Publishers : Publishing(q)
      BY <1>3 DEF Next, ExecuteByHand, Cancel, Serving, Ask, AnswerFromCache,
        StartFetch, ReadChain, StoreView, FetchFails, AuditHead, AuditHistory,
        AuditMirror, Tick, vars
    <3>2. publisher \in [Publishers -> Run]
      BY DEF Shape
    <3>3. q = p
      BY <1>3, <3>1, <3>2 DEF Publishing, PublishAnchor, Schedule, Execute,
        PublisherStops
    <3>4. ~ PublisherStops(p)
      BY <3>2 DEF PublisherStops, NoRun
    <3>5. ~ Schedule(p)
      BY <3>2 DEF Schedule, NoRun, Run
    <3>6. ~ \E doc \in Docs, v \in 1 .. MaxVersion : PublishAnchor(p, doc, v)
      BY <3>2 DEF PublishAnchor, NoRun
    <3>7. Execute(p)
      BY <3>1, <3>3, <3>4, <3>5, <3>6 DEF Publishing
    <3> QED BY <3>2, <3>7 DEF Execute, NoRun
  <2> DEFINE o == Operation(p)
  <2>2. /\ SetAnchor(o[1], o[2]) /\ o \in Operations
        /\ publisher' = [publisher EXCEPT ![p].pc = "published", ![p].wake = 0]
    BY <2>1 DEF Execute, ExecuteOperation, Shape
  <2>3. publisher'[p].doc = o[1] /\ publisher'[p].version = o[2]
    BY <2>2 DEF Shape, Operation, Run
  <2>4. events' = Append(events, [doc |-> o[1], generated_at |-> GeneratedAt[o[1]],
                                  version |-> o[2], at |-> now])
    BY <2>2 DEF SetAnchor
  <2>5. events'[Len(events) + 1] =
          [doc |-> o[1], generated_at |-> GeneratedAt[o[1]],
           version |-> o[2], at |-> now]
    BY <2>4 DEF Shape
  <2>6. Len(events) + 1 \in 1 .. Len(events')
    BY <1>1, <2>2, Appended
  <2> QED BY <2>3, <2>5, <2>6
<1> QED BY <1>2, <1>3

\* publish_anchor returns only when its own document is on the chain under its
\* own version, whoever else schedules, executes and cancels.
THEOREM PublishedForReal == Spec => []PublishedIsAnchored
<1>1. Init => PublishedIsAnchored
  BY DEF Init, PublishedIsAnchored, NoRun
<1>2. Shape /\ PublishedIsAnchored /\ [Next]_vars => (Shape /\ PublishedIsAnchored)'
  BY NextShape, NextPublished
<1> QED BY InitChain, <1>1, <1>2, PTL DEF Spec

-----------------------------------------------------------------------------
\* Type correctness: what TypeOK says of the clock, the chain and the timelock.

Stamped == [doc : Docs, generated_at : Nat, version : 1 .. MaxVersion,
            at : 0 .. MaxTime]
Timelocks == [Operations -> Nat \cup {None, Executed}]
StampedInv ==
  /\ now \in 0 .. MaxTime
  /\ events \in Seq(Stamped)
  /\ scheduled \in Timelocks

LEMMA NextStamped ==
  ASSUME Shape, StampedInv, [Next]_vars
  PROVE  StampedInv'
<1>1. now' \in 0 .. MaxTime
  <2>1. now' = now \/ (now < MaxTime /\ now' = now + 1)
    BY DEF Next, Publishing, PublishAnchor, Schedule, Execute, PublisherStops,
      ExecuteByHand, Cancel, Serving, Ask, AnswerFromCache, StartFetch,
      ReadChain, StoreView, FetchFails, AuditHead, AuditHistory, AuditMirror,
      Tick, vars
  <2> QED BY <2>1, AnchorAssumption DEF StampedInv
<1>2. events' \in Seq(Stamped)
  <2>1. ASSUME NEW o \in Operations, SetAnchor(o[1], o[2])
        PROVE  events' \in Seq(Stamped)
    <3> DEFINE e == [doc |-> o[1], generated_at |-> GeneratedAt[o[1]],
                     version |-> o[2], at |-> now]
    <3>1. o[1] \in Docs /\ o[2] \in 1 .. MaxVersion
      BY DEF Operations
    <3>2. e \in Stamped
      BY <3>1, AnchorAssumption DEF StampedInv, Stamped
    <3>3. events' = Append(events, e)
      BY <2>1 DEF SetAnchor
    <3> HIDE DEF e
    <3> QED BY <3>2, <3>3 DEF StampedInv
  <2> QED BY <2>1, Logged DEF StampedInv
<1>3. ASSUME NEW o \in Operations, NEW t \in Nat \cup {None, Executed},
             scheduled' = [scheduled EXCEPT ![o] = t]
      PROVE  scheduled' \in Timelocks
  BY <1>3 DEF StampedInv, Timelocks
<1>4. scheduled' \in Timelocks
  <2>1. ASSUME NEW p \in Publishers, Publishing(p)
        PROVE  scheduled' \in Timelocks
    <3>1. CASE Schedule(p)
      <4>1. Operation(p) \in Operations /\ now + Delay \in Nat
        BY <3>1, AnchorAssumption DEF Schedule, Shape
      <4>2. CASE scheduled[Operation(p)] = None
        BY <1>3, <3>1, <4>1, <4>2 DEF Schedule
      <4>3. CASE scheduled[Operation(p)] # None
        BY <3>1, <4>3 DEF Schedule, StampedInv
      <4> QED BY <4>2, <4>3
    <3>2. CASE Execute(p)
      <4>1. Operation(p) \in Operations
        BY <3>2 DEF Execute, Shape
      <4>2. CASE Executable(Operation(p))
        BY <1>3, <3>2, <4>1, <4>2 DEF Execute, ExecuteOperation
      <4>3. CASE ~ Executable(Operation(p))
        BY <3>2, <4>3 DEF Execute, chain, StampedInv
      <4> QED BY <4>2, <4>3
    <3>3. CASE ~ (Schedule(p) \/ Execute(p))
      BY <2>1, <3>3 DEF Publishing, PublishAnchor, PublisherStops, chain,
        StampedInv
    <3> QED BY <3>1, <3>2, <3>3
  <2>2. ASSUME NEW o \in Operations, ExecuteByHand(o) \/ Cancel(o)
        PROVE  scheduled' \in Timelocks
    BY <1>3, <2>2 DEF ExecuteByHand, ExecuteOperation, Cancel
  <2>3. ASSUME NEW r \in Requests, Serving(r) PROVE scheduled' = scheduled
    BY <2>3 DEF Serving, Ask, AnswerFromCache, StartFetch, ReadChain, StoreView,
      FetchFails, chain
  <2>4. CASE AuditHead \/ AuditHistory \/ AuditMirror \/ Tick \/ UNCHANGED vars
    BY <2>4 DEF AuditHead, AuditHistory, AuditMirror, Tick, vars, chain,
      StampedInv
  <2> QED BY <2>1, <2>2, <2>3, <2>4 DEF Next, StampedInv
<1> QED BY <1>1, <1>2, <1>4 DEF StampedInv

\* Every state is of its type, and a lock is held by the one request that
\* fetches under it.
THEOREM TypeCorrect == Spec => []TypeOK
<1> DEFINE Inv == /\ Shape /\ Ordered /\ AuditShape /\ LocksInv /\ ViewsInv
                  /\ StampedInv
<1>1. Init => Inv
  <2>1. Init => AuditShape
    BY DEF Init, NoAudit, AuditShape, AuditRun
  <2>2. Init => StampedInv
    BY AnchorAssumption DEF Init, StampedInv, Timelocks
  <2> QED BY <2>1, <2>2, InitChain, InitViews
<1>2. Inv /\ [Next]_vars => Inv'
  BY NextShape, NextOrdered, NextAudit, NextViews, NextStamped
<1>3. Inv => TypeOK
  <2> SUFFICES ASSUME Inv PROVE TypeOK
    OBVIOUS
  <2>1. ASSUME NEW s \in Servers
        PROVE  /\ cache[s] # None => cache[s].seen <= Len(events) /\ cache[s].at <= now
               /\ lock[s] # None => request[lock[s]].server = s
    <3>1. cache[s] # None => Stored(cache[s])
      BY DEF ViewsInv
    <3>2. cache[s] # None => cache[s].seen <= Len(events)
      BY <3>1, CurrentVersion DEF Stored, UpTo
    <3> QED BY <3>1, <3>2 DEF Stored, LocksInv
  <2>2. audit.ok \in BOOLEAN
    BY DEF AuditShape, AuditRun
  <2> QED
    BY <2>1, <2>2 DEF TypeOK, StampedInv, Stamped, Timelocks, Shape, LocksInv,
      Fetching
<1> QED BY <1>1, <1>2, <1>3, PTL DEF Spec
=============================================================================
