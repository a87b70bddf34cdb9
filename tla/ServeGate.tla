------------------------------- MODULE ServeGate -------------------------------
(***************************************************************************)
(* What admits a request to `daftari serve` and what shutting it down waits*)
(* for (src/src/serve/index.ts): the penalty box of failed authentications,*)
(* the rate bucket of every principal, the bounded registry of buckets of  *)
(* the public integration routes, the slots of requests in flight          *)
(* (src/src/serve/limits.ts), and the audit line each outcome leaves.      *)
(*                                                                         *)
(* A connection carries one request at a time.  Each await of handle() ends*)
(* a step: verifying a bearer against the key set, receiving a body,       *)
(* running the handler; the client may leave at each of them.              *)
(* A bucket holds whole tokens and every tick adds one to each.            *)
(***************************************************************************)
EXTENDS Integers, Sequences, FiniteSetsExt, SequencesExt

CONSTANTS
  Conns,        \* connections
  Users,        \* principals of the configuration
  Remotes,      \* socket addresses
  None,
  MaxSlots,     \* limits.maxInFlight
  Burst,        \* limits.burst
  FailureBurst, \* limits.authFailureBurst
  MaxEntries,   \* most buckets in the penalty box, and in the registry
  IdleTicks,    \* ticks after which the registry forgets a bucket
  Kinds,        \* bound: what requests are made
  Spent,        \* bound: whose burst on the public route is spent at first
  MaxRequests,  \* bound: how many
  MaxTicks      \* bound: how often time passes

Routes == {"mcp", "board", "managed", "public", "login"}
Kind   == [route : Routes, user : Users \cup {None}, remote : Remotes]

ASSUME ServeGateAssumption ==
  /\ IsFiniteSet(Conns)
  /\ Remotes # {} /\ Users \cap Remotes = {}
  /\ None \notin Users /\ Kinds \subseteq Kind
  /\ {MaxSlots, Burst, FailureBurst, MaxEntries} \subseteq Nat \ {0}
  /\ IdleTicks \in Nat /\ IdleTicks >= Burst
  /\ Spent \subseteq Remotes /\ IsFiniteSet(Spent) /\ Cardinality(Spent) <= MaxEntries
  /\ {MaxRequests, MaxTicks} \subseteq Nat

\* A quarter of the slots, at least two, set apart for a public route.
PublicSlots == Max({2, (MaxSlots + 3) \div 4})

VARIABLES
  conn,       \* the request of every connection
  inFlight,   \* slotGate.inFlight
  inPublic,   \* that of the public route's own gate
  penalties,  \* penaltyBox.buckets, in order of insertion
  principals, \* tokens of principalBuckets; one that is not there yet is full
  registry,   \* publicIntegrationBuckets, least recently used first
  ticks,      \* the clock
  server,     \* what close() has come to
  pending,    \* whether audit appends are in flight that close() is to drain
  straggled,  \* whether requests began one later: of clients gone early, or others
  served,     \* requests so far
  leaked,     \* slots of requests that are over
  cuts,       \* managed requests whose client left while they authenticated
  taken,      \* admissions by a bucket
  failures,   \* failures of requests that met none of another since their check
  forgotten   \* buckets evicted before they were full, of each box

gates  == <<inFlight, inPublic>>
limits == <<penalties, principals, registry>>
trail  == <<server, pending, straggled>>
counts == <<served, leaked, cuts, taken, failures, forgotten>>
vars   == <<conn, gates, limits, ticks, trail, counts>>

Nobody == [route |-> "login", user |-> None, remote |-> CHOOSE r \in Remotes : TRUE]
Idle   == [pc |-> "off", kind |-> Nobody, open |-> FALSE, holds |-> FALSE, audits |-> 0,
           overlapped |-> FALSE, cut |-> FALSE]

TypeOK ==
  /\ conn \in [Conns -> [pc : {"off", "auth", "body", "run", "sending"}, kind : Kind,
                         open : BOOLEAN, holds : BOOLEAN, audits : Nat,
                         overlapped : BOOLEAN, cut : BOOLEAN]]
  /\ inFlight \in 0 .. MaxSlots /\ inPublic \in 0 .. PublicSlots
  /\ penalties \in Seq([key : Remotes, tokens : 0 .. FailureBurst]) /\ Len(penalties) <= MaxEntries
  /\ principals \in [Users -> 0 .. Burst]
  /\ registry \in Seq([key : Remotes, tokens : 0 .. Burst, seen : 0 .. MaxTicks])
  /\ Len(registry) <= MaxEntries
  /\ ticks \in 0 .. MaxTicks
  /\ server \in {"up", "closing", "draining", "closed"}
  /\ pending \in BOOLEAN /\ straggled \subseteq BOOLEAN
  /\ served \in 0 .. MaxRequests /\ {leaked, cuts} \subseteq Nat
  /\ taken \in [Users \cup Remotes -> Nat] /\ failures \in [Remotes -> Nat]
  /\ forgotten \in [{"penalties", "registry"} -> [Remotes -> Nat]]

Init ==
  /\ conn = [c \in Conns |-> Idle]
  /\ inFlight = 0 /\ inPublic = 0
  /\ penalties = <<>>
  /\ registry = SetToSeq({[key |-> k, tokens |-> 0, seen |-> 0] : k \in Spent})
  /\ principals = [u \in Users |-> Burst]
  /\ ticks = 0 /\ server = "up" /\ pending = FALSE /\ straggled = {}
  /\ served = 0 /\ leaked = 0 /\ cuts = 0
  /\ taken = [k \in Users \cup Remotes |-> IF k \in Spent THEN Burst ELSE 0]
  /\ failures = [k \in Remotes |-> 0]
  /\ forgotten = [box \in {"penalties", "registry"} |-> [k \in Remotes |-> 0]]

------------------------------------------------------------------------------
(***************************************************************************)
(* limits.ts.                                                              *)
(***************************************************************************)
\* The buckets of other keys: a Map keeps the order of insertion.
Without(buckets, keys) ==
  LET kept[n \in 0 .. Len(buckets)] ==
        IF n = 0 THEN <<>>
        ELSE IF buckets[n].key \in keys THEN kept[n - 1]
        ELSE Append(kept[n - 1], buckets[n])
  IN  kept[Len(buckets)]

KeysOf(buckets) == {buckets[i].key : i \in DOMAIN buckets}

BucketOf(buckets, k) == buckets[CHOOSE i \in DOMAIN buckets : buckets[i].key = k]

\* The oldest go until there is room for one more.
Oldest(buckets) ==
  IF Len(buckets) < MaxEntries THEN {}
  ELSE {buckets[i].key : i \in 1 .. Len(buckets) - MaxEntries + 1}

PenaltyAllows(k) == k \in KeysOf(penalties) => BucketOf(penalties, k).tokens >= 1

\* An eviction starts the bucket of a key over: it counts if it was not full.
Forget(box, buckets, keys, capacity) ==
  LET lost == {k \in keys : BucketOf(buckets, k).tokens < capacity}
  IN  forgotten' = [forgotten EXCEPT ![box] = [k \in Remotes |-> @[k] + (IF k \in lost THEN 1 ELSE 0)]]

\* What the sweep of the penalty box drops: a full bucket is as good as none.
Full == {k \in KeysOf(penalties) : BucketOf(penalties, k).tokens = FailureBurst}

ChargePenalty(k) ==
  IF k \in KeysOf(penalties)
  THEN /\ penalties' = [i \in DOMAIN penalties |->
                          IF penalties[i].key = k
                          THEN [penalties[i] EXCEPT !.tokens = Max({0, @ - 1})] ELSE penalties[i]]
       /\ UNCHANGED forgotten
  ELSE LET swept == IF Len(penalties) >= MaxEntries THEN Without(penalties, Full) ELSE penalties
           out   == Oldest(swept)
       IN  /\ penalties' = Append(Without(swept, out), [key |-> k, tokens |-> FailureBurst - 1])
           /\ Forget("penalties", swept, out, FailureBurst)

\* A first use sweeps the idle and makes room; a later one makes its bucket the
\* most recent.  allowed is tryTake's answer.
TakeFromRegistry_Bug(k, allowed) ==
  LET known  == k \in KeysOf(registry)
      idle   == {e \in KeysOf(registry) : ticks - BucketOf(registry, e).seen >= IdleTicks}
      swept  == Without(registry, idle)
      bucket == IF known THEN BucketOf(registry, k) ELSE [key |-> k, tokens |-> Burst, seen |-> ticks]
      rest   == IF known THEN Without(registry, {k}) ELSE Without(swept, Oldest(swept))
  IN  /\ allowed = (bucket.tokens >= 1)
      /\ registry' = Append(rest, [bucket EXCEPT !.tokens = Max({0, @ - 1})])
      /\ Forget("registry", swept, IF known THEN {} ELSE Oldest(swept), Burst)
      /\ taken' = [taken EXCEPT ![k] = IF allowed THEN @ + 1 ELSE @]

TakeFromRegistry(k, allowed) ==
  LET known  == k \in KeysOf(registry)
      idle   == {e \in KeysOf(registry) : ticks - BucketOf(registry, e).seen >= IdleTicks}
      swept  == Without(registry, idle)
      bucket == IF known THEN [BucketOf(registry, k) EXCEPT !.seen = ticks]
                ELSE [key |-> k, tokens |-> Burst, seen |-> ticks]
      rest   == IF known THEN Without(registry, {k}) ELSE Without(swept, Oldest(swept))
  IN  /\ allowed = (bucket.tokens >= 1)
      /\ registry' = Append(rest, [bucket EXCEPT !.tokens = Max({0, @ - 1})])
      /\ Forget("registry", swept, IF known THEN {} ELSE Oldest(swept), Burst)
      /\ taken' = [taken EXCEPT ![k] = IF allowed THEN @ + 1 ELSE @]

\* Every bucket gains a token; the code does this when it next looks at one.
Refilled(buckets, capacity) ==
  [i \in DOMAIN buckets |-> [buckets[i] EXCEPT !.tokens = Min({capacity, @ + 1})]]

Tick ==
  /\ ticks < MaxTicks
  /\ ticks' = ticks + 1
  /\ penalties' = Refilled(penalties, FailureBurst)
  /\ registry' = Refilled(registry, Burst)
  /\ principals' = [u \in Users |-> Min({Burst, principals[u] + 1})]
  /\ UNCHANGED <<conn, gates, trail, counts>>

------------------------------------------------------------------------------
(***************************************************************************)
(* serve/index.ts.                                                         *)
(***************************************************************************)
Request(c) == conn[c].kind

\* audit(): fire and forget, but tracked for close().
Audits(c, n) ==
  IF server \in {"up", "closing"}
  THEN pending' = (pending \/ n > 0) /\ UNCHANGED straggled
  ELSE /\ straggled' = IF n > 0 THEN straggled \cup {conn[c].cut} ELSE straggled
       /\ UNCHANGED pending

\* The slots that n requests more, or fewer, of a route hold.
Slots(route, n) ==
  IF route = "public" THEN inPublic' = inPublic + n /\ UNCHANGED inFlight
  ELSE inFlight' = Max({0, inFlight + n}) /\ UNCHANGED inPublic

\* What a connection comes to when its response has been written: without a
\* client nothing is sent, and no event will follow.
Ended(request) == IF request.open THEN [request EXCEPT !.pc = "sending", !.overlapped = FALSE] ELSE Idle

Leaks(request) == leaked' = IF ~request.open /\ request.holds THEN leaked + 1 ELSE leaked

\* A response is written, with n audit lines; `freed` gives its slot back first.
Answer(c, n, freed) ==
  LET request == [conn[c] EXCEPT !.audits = @ + n, !.holds = @ /\ ~freed]
  IN  /\ conn' = [conn EXCEPT ![c] = Ended(request)]
      /\ Slots(conn[c].kind.route, IF freed /\ conn[c].holds THEN -1 ELSE 0)
      /\ Leaks(request)
      /\ Audits(c, n)

Refused(kind) ==
  [Idle EXCEPT !.pc = "sending", !.kind = kind, !.open = TRUE,
               !.audits = IF kind.route = "login" THEN 0 ELSE 1]

Begin(c, request) ==
  /\ server = "up" /\ served < MaxRequests /\ conn[c].pc = "off"
  /\ served' = served + 1
  /\ conn' = [conn EXCEPT ![c] = request]
  /\ pending' = (pending \/ request.audits > 0)
  /\ UNCHANGED <<penalties, principals, ticks, server, straggled, leaked, cuts, failures>>

\* A request that is to prove who it is passes the penalty box first.
Knock(c) ==
  \E kind \in Kinds :
    /\ kind.route # "public"
    /\ Begin(c, IF ~PenaltyAllows(kind.remote) THEN Refused(kind)
                ELSE [Idle EXCEPT !.kind = kind, !.open = TRUE,
                                  !.pc = IF kind.route = "login" THEN "body" ELSE "auth"])
    /\ UNCHANGED <<gates, registry, taken, forgotten>>

\* admitPublic: a callback or a webhook takes a token, then a slot of its route.
Deliver(c) ==
  \E kind \in Kinds, allowed \in BOOLEAN :
    /\ kind.route = "public"
    /\ TakeFromRegistry(kind.remote, allowed)
    /\ IF allowed /\ inPublic < PublicSlots
       THEN /\ Begin(c, [Idle EXCEPT !.pc = "body", !.kind = kind, !.open = TRUE,
                                     !.audits = 1, !.holds = TRUE])
            /\ Slots("public", 1)
       ELSE Begin(c, Refused(kind)) /\ UNCHANGED gates

\* 401 and 403 charge the remote; requests of the same remote under way had
\* their check before.
Fail(c) ==
  LET k == Request(c).remote
      others == {d \in Conns \ {c} : /\ Request(d).remote = k
                                    /\ \/ conn[d].pc = "auth"
                                       \/ conn[d].pc = "body" /\ Request(d).route = "login"}
      request == [conn[c] EXCEPT !.audits = @ + 1]
  IN  /\ ChargePenalty(k)
      /\ failures' = [failures EXCEPT ![k] = IF conn[c].overlapped THEN @ ELSE @ + 1]
      /\ conn' = [d \in Conns |-> IF d = c THEN Ended(request)
                                  ELSE [conn[d] EXCEPT !.overlapped = @ \/ d \in others]]
      /\ Audits(c, 1)
      /\ UNCHANGED <<gates, principals, registry, leaked, taken>>

\* The allow line comes before the slot is asked for.
Admit_Bug(c) ==
  LET request == [conn[c] EXCEPT !.audits = @ + 1]
  IN  IF inFlight >= MaxSlots
      THEN Answer(c, 2, FALSE)
      ELSE /\ conn' = [conn EXCEPT ![c] = [request EXCEPT !.holds = TRUE,
                         !.pc = IF Request(c).route = "mcp" THEN "body" ELSE "run"]]
           /\ Slots(Request(c).route, 1)
           /\ Audits(c, 1)
           /\ UNCHANGED leaked

\* One of the slots, or a refusal.
Admit(c) ==
  LET request == [conn[c] EXCEPT !.audits = @ + 1]
  IN  IF inFlight >= MaxSlots
      THEN Answer(c, 1, FALSE)
      ELSE /\ conn' = [conn EXCEPT ![c] = [request EXCEPT !.holds = TRUE,
                         !.pc = IF Request(c).route = "mcp" THEN "body" ELSE "run"]]
           /\ Slots(Request(c).route, 1)
           /\ Audits(c, 1)
           /\ UNCHANGED leaked

\* The board's routes take no slot and log no admission; some read a body.
Board(c) ==
  /\ \E pc \in {"body", "run"} : conn' = [conn EXCEPT ![c].pc = pc]
  /\ UNCHANGED <<gates, leaked, pending, straggled>>

\* A token of the principal's bucket.
Spend(u) ==
  /\ principals' = [principals EXCEPT ![u] = @ - 1]
  /\ taken' = [taken EXCEPT ![u] = @ + 1]

\* authenticate() answers: a failure is charged; a principal pays a token and,
\* but for the board, takes a slot.
Authenticated(c) ==
  LET u == Request(c).user
  IN  /\ conn[c].pc = "auth"
      /\ \/ u = None /\ Fail(c)
         \/ /\ u # None /\ principals[u] = 0
            /\ Answer(c, 1, FALSE)
            /\ UNCHANGED <<limits, taken, failures, forgotten>>
         \/ /\ u # None /\ principals[u] >= 1
            /\ Spend(u)
            /\ IF Request(c).route = "board" THEN Board(c) ELSE Admit(c)
            /\ UNCHANGED <<penalties, registry, failures, forgotten>>
      /\ UNCHANGED <<ticks, server, served, cuts>>

\* The client left before its body was listened for, and nothing else ends the read.
Unheard(c) == conn[c].cut /\ Request(c).route = "board"

\* The login page's form: a wrong password counts as a failure; a right one is
\* answered with a session, a form that cannot be read with a refusal.
LoginRead(c) ==
  /\ conn[c].pc = "body" /\ Request(c).route = "login"
  /\ \/ conn[c].open /\ Request(c).user = None /\ Fail(c)
     \/ Answer(c, 0, FALSE) /\ UNCHANGED <<limits, taken, failures, forgotten>>
  /\ UNCHANGED <<ticks, server, served, cuts>>

\* Any other body comes to an end: it is there, or the request is over.
BodyRead(c) ==
  /\ conn[c].pc = "body" /\ Request(c).route # "login" /\ ~Unheard(c)
  /\ \/ /\ conn[c].open
        /\ conn' = [conn EXCEPT ![c].pc = "run"]
        /\ UNCHANGED <<gates, pending, straggled, leaked>>
     \/ Answer(c, 0, TRUE)
  /\ UNCHANGED <<limits, ticks, server, served, cuts, taken, failures, forgotten>>

\* The slot of a managed request waits for its response's events, any other's
\* goes with the handler.
Handled(c) ==
  /\ conn[c].pc = "run"
  /\ Answer(c, 0, Request(c).route # "managed")
  /\ UNCHANGED <<limits, ticks, server, served, cuts, taken, failures, forgotten>>

\* release() is not told that it has run before.
Flushed_Bug(c) ==
  LET events == IF conn[c].holds THEN {"finish", "close"} ELSE {}
  IN  /\ conn[c].pc = "sending"
      /\ conn' = [conn EXCEPT ![c] = Idle]
      /\ Slots(Request(c).route, -Cardinality(events))
      /\ UNCHANGED <<limits, ticks, trail, counts>>

\* "finish" and "close": the response has been handed to the socket.  The first
\* of them releases a slot that is still held, the second does nothing.
Flushed(c) ==
  /\ conn[c].pc = "sending"
  /\ conn' = [conn EXCEPT ![c] = Idle]
  /\ Slots(Request(c).route, IF conn[c].holds THEN -1 ELSE 0)
  /\ UNCHANGED <<limits, ticks, trail, counts>>

\* What is left of a request when its client goes.
Left(request, heard) ==
  IF request.pc = "sending" THEN Idle
  ELSE [request EXCEPT !.open = FALSE, !.holds = @ /\ ~heard, !.cut = request.pc = "auth"]

\* "close" without "finish": the client leaves.  Only a managed request that was
\* admitted listens for it; the handler runs on.
Leave(c) ==
  LET heard == conn[c].holds /\ Request(c).route = "managed"
  IN  /\ conn[c].open /\ conn[c].pc \in {"auth", "body", "run", "sending"}
      /\ conn' = [conn EXCEPT ![c] = Left(@, heard)]
      /\ Slots(Request(c).route, IF heard THEN -1 ELSE 0)
      /\ cuts' = IF Request(c).route = "managed" /\ conn[c].pc = "auth" THEN cuts + 1 ELSE cuts
      /\ UNCHANGED <<limits, ticks, trail, served, leaked, taken, failures, forgotten>>

\* The appends in flight end.
AppendsDone ==
  /\ pending
  /\ pending' = FALSE
  /\ UNCHANGED <<conn, gates, limits, ticks, server, straggled, counts>>

\* close(): no request is accepted any more.
Stop ==
  /\ server = "up"
  /\ server' = "closing"
  /\ UNCHANGED <<conn, gates, limits, ticks, pending, straggled, counts>>

\* The audits are drained while exchanges are still under way.
ListenerClosed_Bug ==
  /\ server = "closing"
  /\ server' = "draining"
  /\ UNCHANGED <<conn, gates, limits, ticks, pending, straggled, counts>>

\* Every handler is waited for too.
ListenerClosed_BugWaits ==
  /\ server = "closing"
  /\ \A c \in Conns : conn[c].pc = "off"
  /\ server' = "draining"
  /\ UNCHANGED <<conn, gates, limits, ticks, pending, straggled, counts>>

\* Every connection has ended; close() looks at the appends in flight.
ListenerClosed ==
  /\ server = "closing"
  /\ \A c \in Conns : ~conn[c].open
  /\ server' = "draining"
  /\ UNCHANGED <<conn, gates, limits, ticks, pending, straggled, counts>>

Drained ==
  /\ server = "draining" /\ ~pending
  /\ server' = "closed"
  /\ UNCHANGED <<conn, gates, limits, ticks, pending, straggled, counts>>

Step(c) == Authenticated(c) \/ LoginRead(c) \/ BodyRead(c) \/ Handled(c) \/ Flushed(c)

Next ==
  \/ \E c \in Conns : Knock(c) \/ Deliver(c) \/ Step(c) \/ Leave(c)
  \/ Tick \/ AppendsDone \/ Stop \/ ListenerClosed \/ Drained

\* The handlers settle; the bodies of /mcp and of the public routes have a
\* deadline; those of the board and of the login page have none.
Fairness ==
  /\ \A c \in Conns : WF_vars((conn[c].pc = "body" => conn[c].holds) /\ Step(c))
  /\ WF_vars(AppendsDone) /\ WF_vars(ListenerClosed) /\ WF_vars(Drained)

Spec == Init /\ [][Next]_vars /\ Fairness

------------------------------------------------------------------------------
(***************************************************************************)
(* Properties.                                                             *)
(***************************************************************************)
\* admitPublic(), authorize() and their release(), which "finish" may call and
\* "close" again: a gate's count is of what holds a slot, neither more nor fewer,
\* and of what took one to its grave; and this befalls only a managed request
\* whose client left before "close" was listened for.
SlotsExact ==
  LET holders(public) == {c \in Conns : conn[c].holds /\ (Request(c).route = "public") = public}
  IN  /\ inFlight = Cardinality(holders(FALSE)) + leaked /\ leaked <= cuts
      /\ inPublic = Cardinality(holders(TRUE))

\* "Exactly one audit outcome per request": admitted or refused, never both,
\* never neither; the board and the login page log their refusals only.
AuditedOnce ==
  \A c \in Conns :
    /\ conn[c].audits <= 1
    /\ (conn[c].pc \in {"run", "sending"} /\ Request(c).route \notin {"board", "login"})
         => conn[c].audits = 1

\* The rate buckets: what a key is allowed is its burst and a token per tick, and
\* one burst more for each time a full registry evicted it; forgetting the idle
\* gives nothing away.
RateHeld ==
  /\ \A u \in Users : taken[u] <= Burst + ticks
  /\ \A k \in Remotes : taken[k] <= (1 + forgotten["registry"][k]) * Burst + ticks

\* The penalty box: what it was to bound, of failures that did not overlap.
FailuresBounded ==
  \A k \in Remotes : failures[k] <= (1 + forgotten["penalties"][k]) * FailureBurst + ticks

\* limits.ts: no gate, bucket or registry exceeds its bound, nor admits more than
\* it was set to, whatever is swept, evicted or forgotten.
LimitsHold == TypeOK /\ RateHeld /\ FailuresBounded

\* close(), "leaves no straggler writer": when it returns, no audit append is in
\* flight and none follows, but of a client that left while it authenticated.
QuietAfterClose == server = "closed" => ~pending /\ FALSE \notin straggled

\* A slot is given back in the end.
SlotsFree == \A c \in Conns : conn[c].holds ~> ~conn[c].holds

\* close() returns, or waits for a body that has no deadline.
ShutdownEnds ==
  server = "closing" ~>
    \/ server = "closed"
    \/ \E c \in Conns : conn[c].pc = "body" /\ conn[c].open /\ ~conn[c].holds

\* handle() and close(): nothing is held or waited for without end.
ServerSettles == SlotsFree /\ ShutdownEnds
================================================================================
