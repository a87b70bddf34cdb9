---------------------------- MODULE ServeGateProofs ----------------------------
(***************************************************************************)
(* Theorems about ServeGate for any number of connections, principals and  *)
(* remotes, and any limits: the slots, the audit trail, the shutdown, and  *)
(* what the limits grant.                                                  *)
(***************************************************************************)
EXTENDS ServeGate, FiniteSetTheorems, WellFoundedInduction, SequenceTheorems, TLAPS

Requests ==
  [pc : {"off", "auth", "body", "run", "sending"}, kind : Kinds \cup {Nobody},
   open : BOOLEAN, holds : BOOLEAN, audits : {0, 1}, overlapped : BOOLEAN, cut : BOOLEAN]

\* The audit line that a request has left so far.
Audited(r) ==
  /\ r.pc \in {"off", "auth"} => r.audits = 0
  /\ r.pc \in {"body", "run"} => r.audits = IF r.kind.route \in {"board", "login"} THEN 0 ELSE 1
  /\ r.pc = "sending" /\ r.kind.route \notin {"board", "login"} => r.audits = 1

\* What a request may hold: the managed routes alone keep their slot until the
\* response is sent, and without a client only if it left while they
\* authenticated.
Holding(r) ==
  /\ r.holds => /\ r.pc \in {"body", "run", "sending"}
                /\ r.kind.route \in {"mcp", "managed", "public"}
                /\ r.pc = "sending" => r.kind.route = "managed"
                /\ r.kind.route = "managed" => r.open \/ r.cut
  /\ r.pc = "auth" => r.kind.route \notin {"public", "login"}
  /\ r.pc = "body" => r.kind.route # "managed"
  /\ r.pc = "off" => ~r.open
  /\ r.pc = "sending" => r.open
  /\ r.pc = "auth" /\ ~r.open => r.cut
  /\ r.cut => ~r.open

RequestsOK ==
  /\ conn \in [Conns -> Requests]
  /\ \A c \in Conns : Audited(conn[c]) /\ Holding(conn[c])

Held(r)       == r.holds /\ r.kind.route # "public"
HeldPublic(r) == r.holds /\ r.kind.route = "public"
Doomed(r)     == r.cut /\ r.kind.route = "managed"

\* The counters are of the connections: a slot that is lost was one of those whose
\* client left early, and the doomed are those that may lose one yet.
CountsOK ==
  /\ {leaked, cuts} \subseteq Nat
  /\ inFlight = Cardinality({c \in Conns : Held(conn[c])}) + leaked
  /\ inPublic = Cardinality({c \in Conns : HeldPublic(conn[c])})
  /\ leaked + Cardinality({c \in Conns : Doomed(conn[c])}) <= cuts

\* close(): once the listener is closed no client is there, and the appends that
\* follow are of those that left early.
ShutdownOK ==
  /\ server \in {"up", "closing", "draining", "closed"}
  /\ server \in {"draining", "closed"} => \A c \in Conns : ~conn[c].open
  /\ server = "closed" => ~pending
  /\ FALSE \notin straggled

GateInv == RequestsOK /\ CountsOK /\ ShutdownOK

------------------------------------------------------------------------------
(***************************************************************************)
(* Numbers and records.                                                    *)
(***************************************************************************)
LEMMA NotBelowZero ==
  ASSUME NEW n \in Int
  PROVE  Max({0, n}) = IF n >= 0 THEN n ELSE 0
<1>1. \E x \in {0, n} : \A y \in {0, n} : x >= y
  OBVIOUS
<1>2. /\ Max({0, n}) \in {0, n}
      /\ \A y \in {0, n} : Max({0, n}) >= y
  BY <1>1 DEF Max
<1>3. QED
  BY <1>2

LEMMA IdleParts ==
  /\ Idle \in Requests /\ Idle.pc = "off" /\ Idle.kind = Nobody /\ Idle.open = FALSE
  /\ Idle.holds = FALSE /\ Idle.audits = 0 /\ Idle.cut = FALSE
  /\ Nobody.route = "login"
BY DEF Idle, Nobody, Requests

LEMMA RequestParts ==
  ASSUME NEW r \in Requests
  PROVE  /\ r.pc \in {"off", "auth", "body", "run", "sending"}
         /\ r.kind \in Kinds \cup {Nobody} /\ r.open \in BOOLEAN /\ r.holds \in BOOLEAN
         /\ r.audits \in {0, 1} /\ r.cut \in BOOLEAN
         /\ r.kind.route \in Routes
BY ServeGateAssumption DEF Requests, Kind, Nobody, Routes

\* What a connection comes to, with a client and without.
LEMMA EndedParts ==
  ASSUME NEW r \in Requests
  PROVE  /\ Ended(r) \in Requests
         /\ ~r.open => Ended(r) = Idle
         /\ r.open => /\ Ended(r).pc = "sending" /\ Ended(r).kind = r.kind
                      /\ Ended(r).open = r.open /\ Ended(r).holds = r.holds
                      /\ Ended(r).audits = r.audits /\ Ended(r).cut = r.cut
<1>1. CASE r.open
  <2>1. Ended(r) = [r EXCEPT !.pc = "sending", !.overlapped = FALSE]
    BY <1>1 DEF Ended
  <2>2. /\ Ended(r) \in Requests
        /\ Ended(r).pc = "sending" /\ Ended(r).kind = r.kind
        /\ Ended(r).open = r.open /\ Ended(r).holds = r.holds
        /\ Ended(r).audits = r.audits /\ Ended(r).cut = r.cut
    BY <2>1, Zenon DEF Requests
  <2>3. QED
    BY <1>1, <2>2
<1>2. CASE ~r.open
  BY <1>2, IdleParts DEF Ended
<1>3. QED
  BY <1>1, <1>2

LEMMA LeftParts ==
  ASSUME NEW q \in Requests, NEW heard \in BOOLEAN
  PROVE  /\ Left(q, heard) \in Requests /\ Left(q, heard).open = FALSE
         /\ q.pc = "sending" => Left(q, heard) = Idle
         /\ q.pc # "sending" =>
              /\ Left(q, heard).pc = q.pc /\ Left(q, heard).kind = q.kind
              /\ Left(q, heard).holds = (q.holds /\ ~heard)
              /\ Left(q, heard).audits = q.audits
              /\ Left(q, heard).cut = (q.pc = "auth")
<1>1. CASE q.pc = "sending"
  BY <1>1, IdleParts DEF Left
<1>2. CASE q.pc # "sending"
  <2>1. Left(q, heard) = [q EXCEPT !.open = FALSE, !.holds = @ /\ ~heard, !.cut = q.pc = "auth"]
    BY <1>2, Zenon DEF Left
  <2>2. /\ Left(q, heard) \in Requests /\ Left(q, heard).open = FALSE
        /\ Left(q, heard).pc = q.pc /\ Left(q, heard).kind = q.kind
        /\ Left(q, heard).holds = (q.holds /\ ~heard)
        /\ Left(q, heard).audits = q.audits
        /\ Left(q, heard).cut = (q.pc = "auth")
    BY <2>1, Zenon DEF Requests
  <2>3. QED
    BY <1>2, <2>2
<1>3. QED
  BY <1>1, <1>2

------------------------------------------------------------------------------
(***************************************************************************)
(* Counting.                                                               *)
(***************************************************************************)
Weight(b) == IF b THEN 1 ELSE 0

\* Two sets that differ in one element at most.
LEMMA Recount ==
  ASSUME NEW S \in SUBSET Conns, NEW T \in SUBSET Conns, NEW c, S \ {c} = T \ {c}
  PROVE  /\ Cardinality(S) \in Nat /\ Cardinality(T) \in Nat
         /\ Cardinality(T) = Cardinality(S) + Weight(c \in T) - Weight(c \in S)
         /\ c \in S => Cardinality(S) >= 1
<1>1. IsFiniteSet(S) /\ IsFiniteSet(T)
  BY FS_Subset, ServeGateAssumption
<1>2. IsFiniteSet(S \ {c}) /\ IsFiniteSet(T \ {c})
  BY <1>1, FS_RemoveElement
<1>3. /\ Cardinality(S) \in Nat /\ Cardinality(T) \in Nat /\ Cardinality(S \ {c}) \in Nat
  BY <1>1, <1>2, FS_CardinalityType
<1>4. /\ Cardinality(S \ {c}) = IF c \in S THEN Cardinality(S) - 1 ELSE Cardinality(S)
      /\ Cardinality(T \ {c}) = IF c \in T THEN Cardinality(T) - 1 ELSE Cardinality(T)
  BY <1>1, FS_RemoveElement
<1>5. Cardinality(S \ {c}) = Cardinality(T \ {c})
  OBVIOUS
<1>6. /\ Cardinality(S) = Cardinality(S \ {c}) + Weight(c \in S)
      /\ Cardinality(T) = Cardinality(T \ {c}) + Weight(c \in T)
  BY <1>3, <1>4 DEF Weight
<1>7. Weight(c \in S) \in {0, 1} /\ Weight(c \in T) \in {0, 1} /\ (c \in S => Weight(c \in S) = 1)
  BY DEF Weight
<1>8. QED
  BY <1>3, <1>5, <1>6, <1>7

LEMMA CountsAreNumbers ==
  ASSUME CountsOK
  PROVE  /\ {inFlight, inPublic, leaked, cuts} \subseteq Nat
         /\ \A c \in Conns : /\ Held(conn[c]) => inFlight >= 1
                             /\ HeldPublic(conn[c]) => inPublic >= 1
<1> DEFINE S == {c \in Conns : Held(conn[c])}
           T == {c \in Conns : HeldPublic(conn[c])}
<1>1. Cardinality(S) \in Nat /\ Cardinality(T) \in Nat
  BY ServeGateAssumption, FS_Subset, FS_CardinalityType
<1>2. \A c : /\ c \in S => Cardinality(S) >= 1
             /\ c \in T => Cardinality(T) >= 1
  <2> SUFFICES ASSUME NEW c
               PROVE  /\ c \in S => Cardinality(S) >= 1
                      /\ c \in T => Cardinality(T) >= 1
    OBVIOUS
  <2>1. S \in SUBSET Conns /\ T \in SUBSET Conns
    OBVIOUS
  <2> HIDE DEF S, T
  <2>2. QED
    BY <2>1, Recount
<1>3. QED
  BY <1>1, <1>2 DEF CountsOK

\* All that the counts look at.
Alike(r, s) ==
  /\ r.pc = s.pc /\ r.kind = s.kind /\ r.open = s.open /\ r.holds = s.holds
  /\ r.audits = s.audits /\ r.cut = s.cut

\* A step of one connection keeps the counts, if it gives and takes what that
\* connection has.
LEMMA OneStep ==
  ASSUME GateInv, NEW c \in Conns, conn' \in [Conns -> Requests],
         \A d \in Conns \ {c} : Alike(conn'[d], conn[d]),
         Audited(conn'[c]), Holding(conn'[c]),
         leaked' \in Nat, cuts' \in Nat,
         inFlight' - leaked' =
           inFlight - leaked + Weight(Held(conn'[c])) - Weight(Held(conn[c])),
         inFlight' \in Int,
         inPublic' = inPublic + Weight(HeldPublic(conn'[c])) - Weight(HeldPublic(conn[c])),
         leaked' + Weight(Doomed(conn'[c])) - cuts' <= leaked + Weight(Doomed(conn[c])) - cuts,
         server' \in {"up", "closing", "draining", "closed"},
         server' \in {"draining", "closed"} => server = server',
         conn'[c].open => conn[c].open \/ server' = "up",
         server' = "closed" => ~pending', FALSE \notin straggled'
  PROVE  GateInv'
<1>1. RequestsOK'
  <2> SUFFICES ASSUME NEW d \in Conns
               PROVE  Audited(conn'[d]) /\ Holding(conn'[d])
    BY DEF RequestsOK
  <2>1. CASE d = c
    BY <2>1
  <2>2. CASE d # c
    BY <2>2 DEF GateInv, RequestsOK, Audited, Holding, Alike
  <2>3. QED
    BY <2>1, <2>2
<1>2. CountsOK'
  <2> DEFINE S1 == {d \in Conns : Held(conn[d])}
             T1 == {d \in Conns : Held(conn'[d])}
             S2 == {d \in Conns : HeldPublic(conn[d])}
             T2 == {d \in Conns : HeldPublic(conn'[d])}
             S3 == {d \in Conns : Doomed(conn[d])}
             T3 == {d \in Conns : Doomed(conn'[d])}
  <2>1. S1 \ {c} = T1 \ {c} /\ S2 \ {c} = T2 \ {c} /\ S3 \ {c} = T3 \ {c}
    BY DEF Held, HeldPublic, Doomed, Alike
  <2>2. /\ c \in S1 <=> Held(conn[c])
        /\ c \in T1 <=> Held(conn'[c])
        /\ c \in S2 <=> HeldPublic(conn[c])
        /\ c \in T2 <=> HeldPublic(conn'[c])
        /\ c \in S3 <=> Doomed(conn[c])
        /\ c \in T3 <=> Doomed(conn'[c])
    OBVIOUS
  <2>3. /\ S1 \in SUBSET Conns /\ T1 \in SUBSET Conns /\ S2 \in SUBSET Conns
        /\ T2 \in SUBSET Conns /\ S3 \in SUBSET Conns /\ T3 \in SUBSET Conns
    OBVIOUS
  <2>4. /\ {leaked, cuts} \subseteq Nat
        /\ inFlight = Cardinality(S1) + leaked /\ inPublic = Cardinality(S2)
        /\ leaked + Cardinality(S3) <= cuts
    BY DEF GateInv, CountsOK
  <2>5. CountsOK' <=> /\ {leaked', cuts'} \subseteq Nat
                      /\ inFlight' = Cardinality(T1) + leaked'
                      /\ inPublic' = Cardinality(T2)
                      /\ leaked' + Cardinality(T3) <= cuts'
    BY DEF CountsOK
  <2> HIDE DEF S1, T1, S2, T2, S3, T3
  <2>6. /\ Cardinality(S1) \in Nat /\ Cardinality(T1) \in Nat
        /\ Cardinality(T1) = Cardinality(S1) + Weight(c \in T1) - Weight(c \in S1)
    BY <2>1, <2>3, Recount
  <2>7. /\ Cardinality(S2) \in Nat /\ Cardinality(T2) \in Nat
        /\ Cardinality(T2) = Cardinality(S2) + Weight(c \in T2) - Weight(c \in S2)
    BY <2>1, <2>3, Recount
  <2>8. /\ Cardinality(S3) \in Nat /\ Cardinality(T3) \in Nat
        /\ Cardinality(T3) = Cardinality(S3) + Weight(c \in T3) - Weight(c \in S3)
    BY <2>1, <2>3, Recount
  <2>9. inFlight' = Cardinality(T1) + leaked'
    BY <2>2, <2>4, <2>6 DEF Weight
  <2>10. inPublic' = Cardinality(T2)
    BY <2>2, <2>4, <2>7 DEF Weight
  <2>11. leaked' + Cardinality(T3) <= cuts'
    BY <2>2, <2>4, <2>8 DEF Weight
  <2>12. QED
    BY <2>5, <2>9, <2>10, <2>11
<1>3. ShutdownOK'
  BY DEF GateInv, ShutdownOK, Alike
<1>4. QED
  BY <1>1, <1>2, <1>3 DEF GateInv

------------------------------------------------------------------------------
(***************************************************************************)
(* What the actions consist of.                                            *)
(***************************************************************************)
\* audit(): no append begins after the drain but of a client gone early.
LEMMA AuditsQuiet ==
  ASSUME GateInv, NEW c \in Conns, NEW n \in {0, 1}, Audits(c, n), server' = server,
         n = 1 => conn[c].pc = "auth" \/ conn[c].open
  PROVE  (server' = "closed" => ~pending') /\ FALSE \notin straggled'
<1>1. conn[c] \in Requests /\ conn[c].cut \in BOOLEAN
  BY RequestParts DEF GateInv, RequestsOK
<1>2. CASE server \in {"up", "closing"}
  BY <1>2 DEF GateInv, ShutdownOK, Audits
<1>3. CASE server \notin {"up", "closing"}
  <2>1. ~conn[c].open
    BY <1>3 DEF GateInv, ShutdownOK
  <2>2. n = 1 => conn[c].cut = TRUE
    BY <1>1, <2>1 DEF GateInv, RequestsOK, Holding
  <2>3. pending' = pending /\ straggled' \in {straggled, straggled \cup {TRUE}}
    <3>1. CASE n = 1
      <4>1. straggled' = straggled \cup {conn[c].cut} /\ pending' = pending
        BY <1>3, <3>1 DEF Audits
      <4>2. QED
        BY <2>2, <3>1, <4>1, Zenon
    <3>2. CASE n = 0
      BY <1>3, <3>2 DEF Audits
    <3>3. QED
      BY <3>1, <3>2
  <2>4. FALSE \notin straggled'
    BY <2>3, Zenon DEF GateInv, ShutdownOK
  <2>5. QED
    BY <2>3, <2>4 DEF GateInv, ShutdownOK
<1>4. QED
  BY <1>2, <1>3

LEMMA SlotsParts ==
  ASSUME CountsOK, NEW route, NEW n \in {-1, 0, 1}, Slots(route, n),
         n = -1 /\ route # "public" => inFlight >= 1
  PROVE  /\ inFlight' \in Int /\ inPublic' \in Int
         /\ inFlight' = IF route = "public" THEN inFlight ELSE inFlight + n
         /\ inPublic' = IF route = "public" THEN inPublic + n ELSE inPublic
<1>1. inFlight \in Nat /\ inPublic \in Nat
  BY CountsAreNumbers
<1>2. CASE route = "public"
  BY <1>1, <1>2 DEF Slots
<1>3. CASE route # "public"
  <2>1. inFlight + n \in Int /\ inFlight + n >= 0
    BY <1>1, <1>3
  <2>2. Max({0, inFlight + n}) = inFlight + n
    BY <2>1, NotBelowZero
  <2>3. inFlight' = Max({0, inFlight + n}) /\ inPublic' = inPublic
    BY <1>3, Zenon DEF Slots
  <2>4. QED
    BY <1>1, <1>3, <2>1, <2>2, <2>3
<1>4. QED
  BY <1>2, <1>3

\* The connections of which one has another request.
LEMMA Exchanged ==
  ASSUME RequestsOK, NEW c \in Conns, NEW r \in Requests, conn' = [conn EXCEPT ![c] = r]
  PROVE  /\ conn' \in [Conns -> Requests] /\ conn'[c] = r
         /\ \A d \in Conns \ {c} : Alike(conn'[d], conn[d])
BY DEF RequestsOK, Alike

LEMMA RequestAt ==
  ASSUME GateInv, NEW c \in Conns
  PROVE  /\ conn[c] \in Requests /\ Audited(conn[c]) /\ Holding(conn[c])
         /\ conn[c].pc \in {"off", "auth", "body", "run", "sending"}
         /\ conn[c].kind \in Kinds \cup {Nobody} /\ conn[c].open \in BOOLEAN
         /\ conn[c].holds \in BOOLEAN /\ conn[c].audits \in {0, 1} /\ conn[c].cut \in BOOLEAN
         /\ conn[c].kind.route \in Routes
         /\ {inFlight, inPublic, leaked, cuts} \subseteq Nat
         /\ Held(conn[c]) => inFlight >= 1
         /\ HeldPublic(conn[c]) => inPublic >= 1
BY RequestParts, CountsAreNumbers DEF GateInv, RequestsOK

\* An answer: a refusal of who authenticates, or the end of what was admitted.
LEMMA AnswerStep ==
  ASSUME GateInv, NEW c \in Conns, NEW n \in {0, 1}, NEW freed \in BOOLEAN,
         Answer(c, n, freed),
         \/ n = 1 /\ conn[c].pc = "auth"
         \/ n = 0 /\ conn[c].pc \in {"body", "run"},
         conn[c].holds /\ ~freed => conn[c].kind.route = "managed",
         cuts' = cuts, server' = server
  PROVE  GateInv'
<1> DEFINE q == conn[c]
           r == [q EXCEPT !.audits = @ + n, !.holds = @ /\ ~freed]
           e == Ended(r)
<1>1. /\ conn' = [conn EXCEPT ![c] = e]
      /\ Slots(q.kind.route, IF freed /\ q.holds THEN -1 ELSE 0)
      /\ Leaks(r)
      /\ Audits(c, n)
  BY DEF Answer
<1>2. /\ q \in Requests /\ Audited(q) /\ Holding(q)
      /\ q.open \in BOOLEAN /\ q.holds \in BOOLEAN /\ q.audits \in {0, 1} /\ q.cut \in BOOLEAN
      /\ q.kind.route \in Routes
      /\ {inFlight, inPublic, leaked, cuts} \subseteq Nat
      /\ Held(q) => inFlight >= 1
  BY RequestAt
<1>3. q.audits + n \in {0, 1}
  BY <1>2 DEF Audited
<1>a. r = [q EXCEPT !.audits = @ + n, !.holds = @ /\ ~freed]
  BY Zenon
<1> HIDE DEF r, q
<1>4. /\ r \in Requests
      /\ r.holds = (q.holds /\ ~freed) /\ r.audits = q.audits + n
      /\ r.open = q.open /\ r.kind = q.kind /\ r.cut = q.cut
  BY <1>2, <1>3, <1>a, Zenon DEF Requests
<1> USE DEF q
<1>5. /\ e \in Requests
      /\ ~q.open => e = Idle
      /\ q.open => /\ e.pc = "sending" /\ e.kind = q.kind /\ e.open = q.open
                   /\ e.holds = (q.holds /\ ~freed) /\ e.audits = q.audits + n /\ e.cut = q.cut
  BY <1>4, EndedParts
<1> HIDE DEF e
<1>6. /\ conn' \in [Conns -> Requests] /\ conn'[c] = e
      /\ \A d \in Conns \ {c} : Alike(conn'[d], conn[d])
  BY <1>1, <1>5, Exchanged DEF GateInv
<1>7. (server' = "closed" => ~pending') /\ FALSE \notin straggled'
  <2>1. Audits(c, n) /\ (n = 1 => conn[c].pc = "auth" \/ conn[c].open)
    BY <1>1
  <2>2. QED
    BY <2>1, AuditsQuiet
<1>8. leaked' = IF ~q.open /\ q.holds /\ ~freed THEN leaked + 1 ELSE leaked
  BY <1>1, <1>4 DEF Leaks
<1>9. /\ inFlight' \in Int
      /\ inFlight' = IF q.kind.route = "public" THEN inFlight
                     ELSE inFlight + (IF freed /\ q.holds THEN -1 ELSE 0)
      /\ inPublic' = IF q.kind.route = "public"
                     THEN inPublic + (IF freed /\ q.holds THEN -1 ELSE 0) ELSE inPublic
  <2>1. (IF freed /\ q.holds THEN -1 ELSE 0) \in {-1, 0, 1}
    OBVIOUS
  <2>2. (IF freed /\ q.holds THEN -1 ELSE 0) = -1 /\ q.kind.route # "public" => inFlight >= 1
    BY <1>2 DEF Held
  <2>3. QED
    BY <1>1, <2>1, <2>2, SlotsParts DEF GateInv
<1>10. Audited(e) /\ Holding(e)
  <2>1. CASE q.open
    <3>1. /\ e.pc = "sending" /\ e.kind = q.kind /\ e.open = TRUE
          /\ e.holds => q.holds /\ ~freed
          /\ e.audits = q.audits + n /\ e.cut = FALSE
      BY <1>2, <1>5, <2>1 DEF Holding
    <3>2. q.kind.route \notin {"board", "login"} => q.audits + n = 1
      BY <1>2 DEF Audited
    <3>3. Audited(e)
      BY <3>1, <3>2 DEF Audited
    <3>4. Holding(e)
      BY <1>2, <3>1 DEF Holding
    <3>5. QED
      BY <3>3, <3>4
  <2>2. CASE ~q.open
    BY <1>5, <2>2, IdleParts DEF Audited, Holding
  <2>3. QED
    BY <2>1, <2>2
<1>11. /\ inFlight' - leaked' = inFlight - leaked + Weight(Held(e)) - Weight(Held(q))
       /\ inPublic' = inPublic + Weight(HeldPublic(e)) - Weight(HeldPublic(q))
       /\ leaked' + Weight(Doomed(e)) - cuts' <= leaked + Weight(Doomed(q)) - cuts
       /\ leaked' \in Nat
  <2>1. CASE q.open
    BY <1>2, <1>5, <1>8, <1>9, <2>1 DEF Weight, Held, HeldPublic, Doomed, Holding
  <2>2. CASE ~q.open
    <3>1. e.holds = FALSE /\ e.cut = FALSE
      BY <1>5, <2>2, IdleParts
    <3>2. CASE q.holds /\ ~freed
      BY <1>2, <1>8, <1>9, <2>2, <3>1, <3>2 DEF Weight, Held, HeldPublic, Doomed, Holding
    <3>3. CASE ~(q.holds /\ ~freed)
      BY <1>2, <1>8, <1>9, <2>2, <3>1, <3>3 DEF Weight, Held, HeldPublic, Doomed, Holding
    <3>4. QED
      BY <3>2, <3>3
  <2>3. QED
    BY <2>1, <2>2
<1>12. e.open => q.open
  BY <1>5, IdleParts
<1>13. server' \in {"up", "closing", "draining", "closed"}
  BY DEF GateInv, ShutdownOK
<1>14. QED
  BY <1>2, <1>6, <1>7, <1>9, <1>10, <1>11, <1>12, <1>13, OneStep

\* A request begins, with a slot of the public route or none.
LEMMA BeginStep ==
  ASSUME GateInv, NEW c \in Conns, NEW kind \in Kinds, NEW r \in Requests, Begin(c, r),
         r.kind = kind, r.open = TRUE, r.cut = FALSE, Audited(r), Holding(r),
         inFlight' = inFlight,
         r.holds => kind.route = "public",
         inPublic' = IF r.holds THEN inPublic + 1 ELSE inPublic
  PROVE  GateInv'
<1> DEFINE q == conn[c]
<1>1. /\ server = "up" /\ q.pc = "off" /\ conn' = [conn EXCEPT ![c] = r]
      /\ UNCHANGED <<server, straggled, leaked, cuts>>
  BY DEF Begin
<1>2. /\ q.holds = FALSE /\ q.open = FALSE /\ q.cut \in BOOLEAN
      /\ {inFlight, inPublic, leaked, cuts} \subseteq Nat
  BY <1>1, RequestAt DEF Holding
<1>3. /\ conn' \in [Conns -> Requests] /\ conn'[c] = r
      /\ \A d \in Conns \ {c} : Alike(conn'[d], conn[d])
  BY <1>1, Exchanged DEF GateInv
<1>4. /\ inFlight' - leaked' = inFlight - leaked + Weight(Held(r)) - Weight(Held(q))
      /\ inPublic' = inPublic + Weight(HeldPublic(r)) - Weight(HeldPublic(q))
      /\ leaked' + Weight(Doomed(r)) - cuts' <= leaked + Weight(Doomed(q)) - cuts
  BY <1>1, <1>2, RequestParts DEF Weight, Held, HeldPublic, Doomed
<1>5. server' = "up" /\ FALSE \notin straggled'
  BY <1>1 DEF GateInv, ShutdownOK
<1>6. leaked' \in Nat /\ cuts' \in Nat /\ inFlight' \in Int
  BY <1>1, <1>2
<1>7. Audited(conn'[c]) /\ Holding(conn'[c])
  BY <1>3
<1>8. QED
  BY <1>3, <1>4, <1>5, <1>6, <1>7, OneStep

LEMMA RefusedParts ==
  ASSUME NEW kind \in Kinds
  PROVE  /\ Refused(kind) \in Requests /\ Refused(kind).kind = kind
         /\ Refused(kind).open = TRUE /\ Refused(kind).cut = FALSE
         /\ Refused(kind).holds = FALSE
         /\ Audited(Refused(kind)) /\ Holding(Refused(kind))
<1>1. /\ Refused(kind) \in Requests /\ Refused(kind).pc = "sending"
      /\ Refused(kind).kind = kind /\ Refused(kind).open = TRUE
      /\ Refused(kind).cut = FALSE /\ Refused(kind).holds = FALSE
      /\ Refused(kind).audits = IF kind.route = "login" THEN 0 ELSE 1
  BY DEF Refused, Idle, Requests
<1>2. QED
  BY <1>1 DEF Audited, Holding

LEMMA KnockStep == ASSUME GateInv, NEW c \in Conns, Knock(c) PROVE GateInv'
<1>1. PICK kind \in Kinds :
        /\ kind.route # "public"
        /\ Begin(c, IF ~PenaltyAllows(kind.remote) THEN Refused(kind)
                    ELSE [Idle EXCEPT !.kind = kind, !.open = TRUE,
                            !.pc = IF kind.route = "login" THEN "body" ELSE "auth"])
        /\ UNCHANGED <<gates, registry, taken, forgotten>>
  BY DEF Knock
<1>2. inFlight' = inFlight /\ inPublic' = inPublic
  BY <1>1 DEF gates
<1>3. CASE Begin(c, Refused(kind))
  BY <1>2, <1>3, BeginStep, RefusedParts
<1> DEFINE r == [Idle EXCEPT !.kind = kind, !.open = TRUE,
                             !.pc = IF kind.route = "login" THEN "body" ELSE "auth"]
<1>4. CASE Begin(c, r)
  <2>1. /\ r \in Requests /\ r.kind = kind /\ r.open = TRUE /\ r.cut = FALSE
        /\ r.holds = FALSE /\ r.audits = 0
        /\ r.pc = IF kind.route = "login" THEN "body" ELSE "auth"
    BY DEF Idle, Requests
  <2> HIDE DEF r
  <2>2. Audited(r) /\ Holding(r)
    BY <1>1, <2>1 DEF Audited, Holding
  <2>3. QED
    BY <1>2, <1>4, <2>1, <2>2, BeginStep
<1>5. QED
  BY <1>1, <1>3, <1>4

LEMMA DeliverStep == ASSUME GateInv, NEW c \in Conns, Deliver(c) PROVE GateInv'
<1>1. PICK kind \in Kinds, allowed \in BOOLEAN :
        /\ kind.route = "public"
        /\ IF allowed /\ inPublic < PublicSlots
           THEN /\ Begin(c, [Idle EXCEPT !.pc = "body", !.kind = kind, !.open = TRUE,
                                         !.audits = 1, !.holds = TRUE])
                /\ Slots("public", 1)
           ELSE Begin(c, Refused(kind)) /\ UNCHANGED gates
  BY DEF Deliver
<1>2. CASE Begin(c, Refused(kind)) /\ UNCHANGED gates
  <2>1. inFlight' = inFlight /\ inPublic' = inPublic
    BY <1>2 DEF gates
  <2>2. QED
    BY <1>2, <2>1, BeginStep, RefusedParts
<1> DEFINE r == [Idle EXCEPT !.pc = "body", !.kind = kind, !.open = TRUE,
                             !.audits = 1, !.holds = TRUE]
<1>3. CASE Begin(c, r) /\ Slots("public", 1)
  <2>1. /\ r \in Requests /\ r.kind = kind /\ r.open = TRUE /\ r.cut = FALSE
        /\ r.holds = TRUE /\ r.audits = 1 /\ r.pc = "body"
    BY DEF Idle, Requests
  <2>2. inFlight' = inFlight /\ inPublic' = inPublic + 1
    BY <1>3 DEF Slots
  <2> HIDE DEF r
  <2>3. Audited(r) /\ Holding(r)
    BY <1>1, <2>1 DEF Audited, Holding
  <2>4. QED
    BY <1>1, <1>3, <2>1, <2>2, <2>3, BeginStep
<1>4. QED
  BY <1>1, <1>2, <1>3

\* A failure ends one request and marks the others of the same remote.
LEMMA FailStep ==
  ASSUME GateInv, NEW c \in Conns, Fail(c), cuts' = cuts, server' = server,
         \/ conn[c].pc = "auth"
         \/ conn[c].pc = "body" /\ Request(c).route = "login" /\ conn[c].open
  PROVE  GateInv'
<1> DEFINE q == conn[c]
           r == [q EXCEPT !.audits = @ + 1]
           e == Ended(r)
<1>1. /\ \E others : conn' = [d \in Conns |-> IF d = c THEN e
                                ELSE [conn[d] EXCEPT !.overlapped = @ \/ d \in others]]
      /\ Audits(c, 1)
      /\ UNCHANGED <<gates, leaked>>
  BY DEF Fail
<1>2. /\ q \in Requests /\ Audited(q) /\ Holding(q)
      /\ q.open \in BOOLEAN /\ q.holds \in BOOLEAN /\ q.cut \in BOOLEAN
      /\ {inFlight, inPublic, leaked, cuts} \subseteq Nat
  BY RequestAt
<1>3. q.audits = 0 /\ q.holds = FALSE
  BY <1>2 DEF Audited, Holding, Request
<1>4. /\ r \in Requests /\ r.holds = q.holds /\ r.audits = 1
      /\ r.open = q.open /\ r.kind = q.kind /\ r.cut = q.cut
  BY <1>2, <1>3 DEF Requests
<1> HIDE DEF r
<1>5. /\ e \in Requests
      /\ ~q.open => e = Idle
      /\ q.open => /\ e.pc = "sending" /\ e.kind = q.kind /\ e.open = q.open
                   /\ e.holds = FALSE /\ e.audits = 1 /\ e.cut = q.cut
  BY <1>3, <1>4, EndedParts
<1> HIDE DEF e
<1>6. /\ conn' \in [Conns -> Requests] /\ conn'[c] = e
      /\ \A d \in Conns \ {c} : Alike(conn'[d], conn[d])
  <2>1. PICK others : conn' = [d \in Conns |-> IF d = c THEN e
                                 ELSE [conn[d] EXCEPT !.overlapped = @ \/ d \in others]]
    BY <1>1
  <2>2. ASSUME NEW d \in Conns \ {c}
        PROVE  conn'[d] \in Requests /\ Alike(conn'[d], conn[d])
    <3>1. conn[d] \in Requests
      BY DEF GateInv, RequestsOK
    <3>2. conn'[d] = [conn[d] EXCEPT !.overlapped = @ \/ d \in others]
      BY <2>1
    <3>3. QED
      BY <3>1, <3>2, Zenon DEF Requests, Alike
  <2>3. QED
    BY <1>5, <2>1, <2>2
<1>7. (server' = "closed" => ~pending') /\ FALSE \notin straggled'
  <2>1. Audits(c, 1) /\ (conn[c].pc = "auth" \/ conn[c].open)
    BY <1>1
  <2>2. QED
    BY <2>1, AuditsQuiet
<1>8. Audited(e) /\ Holding(e)
  BY <1>2, <1>3, <1>5, IdleParts DEF Audited, Holding
<1>9. /\ inFlight' - leaked' = inFlight - leaked + Weight(Held(e)) - Weight(Held(q))
      /\ inPublic' = inPublic + Weight(HeldPublic(e)) - Weight(HeldPublic(q))
      /\ leaked' + Weight(Doomed(e)) - cuts' <= leaked + Weight(Doomed(q)) - cuts
      /\ leaked' \in Nat /\ inFlight' \in Int
  <2>1. e.holds = FALSE /\ (e.cut => q.cut /\ e.kind = q.kind)
    BY <1>2, <1>5, IdleParts
  <2>2. QED
    BY <1>1, <1>2, <1>3, <2>1 DEF Weight, Held, HeldPublic, Doomed, gates
<1>10. e.open => q.open
  BY <1>5, IdleParts
<1>11. server' \in {"up", "closing", "draining", "closed"}
  BY DEF GateInv, ShutdownOK
<1>12. QED
  BY <1>2, <1>6, <1>7, <1>8, <1>9, <1>10, <1>11, OneStep

\* A request goes on to another place, with or without a slot of its route.
LEMMA MoveStep ==
  ASSUME GateInv, NEW c \in Conns, NEW r \in Requests, conn' = [conn EXCEPT ![c] = r],
         r.kind = conn[c].kind, r.open => conn[c].open, r.cut = conn[c].cut,
         Audited(r), Holding(r), leaked' = leaked, cuts' = cuts, server' = server,
         inFlight' = inFlight + Weight(Held(r)) - Weight(Held(conn[c])),
         inPublic' = inPublic + Weight(HeldPublic(r)) - Weight(HeldPublic(conn[c])),
         server' = "closed" => ~pending', FALSE \notin straggled'
  PROVE  GateInv'
<1>1. /\ conn' \in [Conns -> Requests] /\ conn'[c] = r
      /\ \A d \in Conns \ {c} : Alike(conn'[d], conn[d])
  BY Exchanged DEF GateInv
<1>2. {inFlight, inPublic, leaked, cuts} \subseteq Nat
  BY RequestAt
<1>3. Weight(Held(r)) \in {0, 1} /\ Weight(Held(conn[c])) \in {0, 1} /\ Doomed(r) = Doomed(conn[c])
  BY DEF Weight, Doomed
<1>4. /\ leaked' \in Nat /\ cuts' \in Nat /\ inFlight' \in Int
      /\ inFlight' - leaked' = inFlight - leaked + Weight(Held(r)) - Weight(Held(conn[c]))
      /\ leaked' + Weight(Doomed(r)) - cuts' <= leaked + Weight(Doomed(conn[c])) - cuts
  BY <1>2, <1>3 DEF Weight
<1>5. server' \in {"up", "closing", "draining", "closed"}
  BY DEF GateInv, ShutdownOK
<1>6. QED
  BY <1>1, <1>4, <1>5, OneStep

LEMMA AdmitStep ==
  ASSUME GateInv, NEW c \in Conns, conn[c].pc = "auth", conn[c].kind.route # "board",
         Admit(c), cuts' = cuts, server' = server
  PROVE  GateInv'
<1> DEFINE q == conn[c]
           r == [[q EXCEPT !.audits = @ + 1] EXCEPT !.holds = TRUE,
                   !.pc = IF Request(c).route = "mcp" THEN "body" ELSE "run"]
<1>1. /\ q \in Requests /\ Audited(q) /\ Holding(q) /\ q.kind.route \in Routes
      /\ q.open \in BOOLEAN
      /\ {inFlight, inPublic, leaked, cuts} \subseteq Nat
  BY RequestAt
<1>2. q.audits = 0 /\ q.holds = FALSE /\ q.kind.route \in {"mcp", "managed"}
  BY <1>1 DEF Audited, Holding, Routes
<1>3. CASE Answer(c, 1, FALSE)
  BY <1>2, <1>3, AnswerStep
<1>4. CASE /\ conn' = [conn EXCEPT ![c] = r]
           /\ Slots(Request(c).route, 1) /\ Audits(c, 1) /\ UNCHANGED leaked
  <2>1. /\ r \in Requests /\ r.kind = q.kind /\ r.open = q.open /\ r.cut = q.cut
        /\ r.holds = TRUE /\ r.audits = 1
        /\ r.pc = IF q.kind.route = "mcp" THEN "body" ELSE "run"
    <3>1. /\ [q EXCEPT !.audits = @ + 1] \in Requests
          /\ [q EXCEPT !.audits = @ + 1].audits = 1
      BY <1>1, <1>2 DEF Requests
    <3>2. /\ r \in Requests /\ r.holds = TRUE
          /\ r.audits = [q EXCEPT !.audits = @ + 1].audits
      BY <3>1, Zenon DEF Requests
    <3>3. /\ r.kind = q.kind /\ r.open = q.open /\ r.cut = q.cut
          /\ r.pc = IF q.kind.route = "mcp" THEN "body" ELSE "run"
      BY <1>1, Zenon DEF Requests, Request
    <3>4. QED
      BY <3>1, <3>2, <3>3
  <2>2. /\ inFlight' = inFlight + 1 /\ inPublic' = inPublic
    BY <1>2, <1>4, SlotsParts DEF Request, GateInv
  <2>3. (server' = "closed" => ~pending') /\ FALSE \notin straggled'
    <3>1. Audits(c, 1) /\ conn[c].pc = "auth"
      BY <1>4
    <3>2. QED
      BY <3>1, AuditsQuiet
  <2>4. conn' = [conn EXCEPT ![c] = r] /\ leaked' = leaked
    BY <1>4
  <2> HIDE DEF r
  <2>5. Audited(r) /\ Holding(r)
    BY <1>1, <1>2, <2>1 DEF Audited, Holding
  <2>6. /\ inFlight' = inFlight + Weight(Held(r)) - Weight(Held(q))
        /\ inPublic' = inPublic + Weight(HeldPublic(r)) - Weight(HeldPublic(q))
    BY <1>1, <1>2, <2>1, <2>2 DEF Weight, Held, HeldPublic
  <2>7. QED
    BY <2>1, <2>3, <2>4, <2>5, <2>6, MoveStep
<1>5. QED
  BY <1>3, <1>4, Zenon DEF Admit

\* A new place, and nothing else.
LEMMA Elsewhere ==
  ASSUME GateInv, NEW c \in Conns, NEW pc \in {"body", "run"},
         conn' = [conn EXCEPT ![c].pc = pc],
         \/ conn[c].pc = "auth" /\ conn[c].kind.route = "board"
         \/ conn[c].pc = "body" /\ conn[c].open /\ pc = "run" /\ conn[c].kind.route # "login",
         UNCHANGED <<gates, leaked, pending, straggled, cuts, server>>
  PROVE  GateInv'
<1> DEFINE q == conn[c]
           r == [q EXCEPT !.pc = pc]
<1>1. /\ q \in Requests /\ Audited(q) /\ Holding(q) /\ q.kind.route \in Routes
      /\ q.open \in BOOLEAN /\ q.holds \in BOOLEAN
      /\ {inFlight, inPublic, leaked, cuts} \subseteq Nat
  BY RequestAt
<1>2. conn' = [conn EXCEPT ![c] = r]
  BY Zenon
<1>3. /\ r \in Requests /\ r.pc = pc /\ r.kind = q.kind /\ r.open = q.open /\ r.cut = q.cut
      /\ r.holds = q.holds /\ r.audits = q.audits
  BY <1>1, Zenon DEF Requests
<1> HIDE DEF r
<1>4. Audited(r) /\ Holding(r)
  BY <1>1, <1>3 DEF Audited, Holding
<1>5. /\ inFlight' = inFlight + Weight(Held(r)) - Weight(Held(q))
      /\ inPublic' = inPublic + Weight(HeldPublic(r)) - Weight(HeldPublic(q))
  BY <1>1, <1>3 DEF Weight, Held, HeldPublic, gates
<1>6. (server' = "closed" => ~pending') /\ FALSE \notin straggled'
  BY DEF GateInv, ShutdownOK
<1>7. QED
  BY <1>2, <1>3, <1>4, <1>5, <1>6, MoveStep

LEMMA AuthenticatedStep ==
  ASSUME GateInv, NEW c \in Conns, Authenticated(c) PROVE GateInv'
<1>1. conn[c].pc = "auth" /\ cuts' = cuts /\ server' = server
  BY DEF Authenticated
<1>2. conn[c].holds = FALSE
  BY <1>1, RequestAt DEF Holding
<1>3. CASE Fail(c)
  BY <1>1, <1>3, FailStep
<1>4. CASE Answer(c, 1, FALSE)
  BY <1>1, <1>2, <1>4, AnswerStep
<1>5. CASE Request(c).route = "board" /\ Board(c)
  <2>1. PICK pc \in {"body", "run"} : conn' = [conn EXCEPT ![c].pc = pc]
    BY <1>5 DEF Board
  <2>2. UNCHANGED <<gates, leaked, pending, straggled, cuts, server>>
    BY <1>1, <1>5 DEF Board
  <2>3. QED
    BY <1>1, <1>5, <2>1, <2>2, Elsewhere DEF Request
<1>6. CASE Request(c).route # "board" /\ Admit(c)
  BY <1>1, <1>6, AdmitStep DEF Request
<1>7. QED
  BY <1>3, <1>4, <1>5, <1>6 DEF Authenticated

LEMMA LoginReadStep ==
  ASSUME GateInv, NEW c \in Conns, LoginRead(c) PROVE GateInv'
<1>1. /\ conn[c].pc = "body" /\ Request(c).route = "login" /\ cuts' = cuts /\ server' = server
  BY DEF LoginRead
<1>2. conn[c].holds = FALSE
  BY <1>1, RequestAt DEF Holding, Request
<1>3. CASE conn[c].open /\ Fail(c)
  BY <1>1, <1>3, FailStep
<1>4. CASE Answer(c, 0, FALSE)
  BY <1>1, <1>2, <1>4, AnswerStep
<1>5. QED
  BY <1>3, <1>4 DEF LoginRead

LEMMA BodyReadStep ==
  ASSUME GateInv, NEW c \in Conns, BodyRead(c) PROVE GateInv'
<1>1. /\ conn[c].pc = "body" /\ Request(c).route # "login" /\ cuts' = cuts /\ server' = server
  BY DEF BodyRead
<1>2. CASE /\ conn[c].open /\ conn' = [conn EXCEPT ![c].pc = "run"]
           /\ UNCHANGED <<gates, pending, straggled, leaked>>
  BY <1>1, <1>2, Elsewhere DEF Request
<1>3. CASE Answer(c, 0, TRUE)
  BY <1>1, <1>3, AnswerStep
<1>4. QED
  BY <1>2, <1>3 DEF BodyRead

LEMMA HandledStep ==
  ASSUME GateInv, NEW c \in Conns, Handled(c) PROVE GateInv'
<1>1. /\ conn[c].pc = "run" /\ cuts' = cuts /\ server' = server
      /\ Answer(c, 0, Request(c).route # "managed")
  BY DEF Handled
<1>2. CASE Request(c).route = "managed"
  <2>1. Answer(c, 0, FALSE)
    BY <1>1, <1>2
  <2>2. QED
    BY <1>1, <1>2, <2>1, AnswerStep DEF Request
<1>3. CASE Request(c).route # "managed"
  <2>1. Answer(c, 0, TRUE)
    BY <1>1, <1>3
  <2>2. QED
    BY <1>1, <2>1, AnswerStep
<1>4. QED
  BY <1>2, <1>3

LEMMA FlushedStep ==
  ASSUME GateInv, NEW c \in Conns, Flushed(c) PROVE GateInv'
<1> DEFINE q == conn[c]
<1>1. /\ q.pc = "sending" /\ conn' = [conn EXCEPT ![c] = Idle]
      /\ Slots(q.kind.route, IF q.holds THEN -1 ELSE 0)
      /\ UNCHANGED <<server, pending, straggled, leaked, cuts>>
  BY DEF Flushed, trail, counts, Request
<1>2. /\ q \in Requests /\ Holding(q) /\ q.holds \in BOOLEAN /\ q.cut = FALSE
      /\ {inFlight, inPublic, leaked, cuts} \subseteq Nat
      /\ Held(q) => inFlight >= 1
  BY <1>1, RequestAt DEF Holding
<1>3. /\ inFlight' \in Int
      /\ inFlight' = IF q.kind.route = "public" THEN inFlight
                     ELSE inFlight + (IF q.holds THEN -1 ELSE 0)
      /\ inPublic' = IF q.kind.route = "public"
                     THEN inPublic + (IF q.holds THEN -1 ELSE 0) ELSE inPublic
  <2>1. /\ (IF q.holds THEN -1 ELSE 0) \in {-1, 0, 1}
        /\ (IF q.holds THEN -1 ELSE 0) = -1 /\ q.kind.route # "public" => inFlight >= 1
    BY <1>2 DEF Held
  <2>2. QED
    BY <1>1, <2>1, SlotsParts DEF GateInv
<1>4. /\ conn' \in [Conns -> Requests] /\ conn'[c] = Idle
      /\ \A d \in Conns \ {c} : Alike(conn'[d], conn[d])
  BY <1>1, IdleParts, Exchanged DEF GateInv
<1>5. Audited(Idle) /\ Holding(Idle)
  BY IdleParts DEF Audited, Holding
<1>6. /\ inFlight' - leaked' = inFlight - leaked + Weight(Held(Idle)) - Weight(Held(q))
      /\ inPublic' = inPublic + Weight(HeldPublic(Idle)) - Weight(HeldPublic(q))
      /\ leaked' + Weight(Doomed(Idle)) - cuts' <= leaked + Weight(Doomed(q)) - cuts
      /\ leaked' \in Nat /\ cuts' \in Nat
  BY <1>1, <1>2, <1>3, IdleParts DEF Weight, Held, HeldPublic, Doomed
<1>7. /\ server' \in {"up", "closing", "draining", "closed"} /\ server' = server
      /\ (server' = "closed" => ~pending') /\ FALSE \notin straggled'
  BY <1>1 DEF GateInv, ShutdownOK
<1>8. ~conn'[c].open
  BY <1>4, IdleParts
<1>9. QED
  BY <1>3, <1>4, <1>5, <1>6, <1>7, <1>8, OneStep

\* The client goes: its slot is given back if the handler listens, and a managed
\* request that authenticates is doomed.
LEMMA LeaveStep ==
  ASSUME GateInv, NEW c \in Conns, Leave(c) PROVE GateInv'
<1> DEFINE q     == conn[c]
           heard == q.holds /\ q.kind.route = "managed"
           r     == Left(q, heard)
<1>1. /\ q.open /\ q.pc \in {"auth", "body", "run", "sending"}
      /\ conn' = [conn EXCEPT ![c] = r]
      /\ Slots(q.kind.route, IF heard THEN -1 ELSE 0)
      /\ cuts' = IF q.kind.route = "managed" /\ q.pc = "auth" THEN cuts + 1 ELSE cuts
      /\ UNCHANGED <<server, pending, straggled, leaked>>
  BY DEF Leave, Request, trail
<1>2. /\ q \in Requests /\ Audited(q) /\ Holding(q) /\ q.holds \in BOOLEAN /\ q.cut \in BOOLEAN
      /\ q.kind.route \in Routes
      /\ {inFlight, inPublic, leaked, cuts} \subseteq Nat
      /\ Held(q) => inFlight >= 1
  BY RequestAt
<1>3. q.cut = FALSE
  BY <1>1, <1>2 DEF Holding
<1>4. /\ r \in Requests /\ r.open = FALSE
      /\ q.pc = "sending" => r = Idle
      /\ q.pc # "sending" => /\ r.pc = q.pc /\ r.kind = q.kind
                             /\ r.holds = (q.holds /\ ~heard) /\ r.audits = q.audits
                             /\ r.cut = (q.pc = "auth")
  BY <1>2, LeftParts
<1> HIDE DEF r
<1>6. Audited(r) /\ Holding(r)
  <2>1. CASE q.pc = "sending"
    BY <1>4, <2>1, IdleParts DEF Audited, Holding
  <2>2. CASE q.pc # "sending"
    BY <1>1, <1>2, <1>4, <2>2 DEF Audited, Holding
  <2>3. QED
    BY <2>1, <2>2
<1>7. /\ inFlight' \in Int
      /\ inFlight' = IF heard THEN inFlight - 1 ELSE inFlight
      /\ inPublic' = inPublic
  <2>1. /\ (IF heard THEN -1 ELSE 0) \in {-1, 0, 1}
        /\ (IF heard THEN -1 ELSE 0) = -1 /\ q.kind.route # "public" => inFlight >= 1
    BY <1>2 DEF Held
  <2>2. QED
    BY <1>1, <1>2, <2>1, SlotsParts DEF GateInv
<1>8. /\ inFlight' - leaked' = inFlight - leaked + Weight(Held(r)) - Weight(Held(q))
      /\ inPublic' = inPublic + Weight(HeldPublic(r)) - Weight(HeldPublic(q))
      /\ leaked' + Weight(Doomed(r)) - cuts' <= leaked + Weight(Doomed(q)) - cuts
      /\ leaked' \in Nat /\ cuts' \in Nat
  <2>1. CASE q.pc = "sending"
    <3>1. r.holds = FALSE /\ r.cut = FALSE /\ (q.holds => q.kind.route = "managed")
      BY <1>2, <1>4, <2>1, IdleParts DEF Holding
    <3>2. QED
      BY <1>1, <1>2, <1>3, <1>7, <2>1, <3>1 DEF Weight, Held, HeldPublic, Doomed
  <2>2. CASE q.pc # "sending"
    <3>1. /\ r.pc = q.pc /\ r.kind = q.kind /\ r.holds = (q.holds /\ ~heard)
          /\ r.cut = (q.pc = "auth")
      BY <1>4, <2>2
    <3>2. CASE heard
      BY <1>1, <1>2, <1>3, <1>7, <3>1, <3>2 DEF Weight, Held, HeldPublic, Doomed, Holding
    <3>3. CASE ~heard
      <4>1. Held(r) = Held(q) /\ HeldPublic(r) = HeldPublic(q) /\ Doomed(q) = FALSE
        BY <1>2, <1>3, <3>1, <3>3, Zenon DEF Held, HeldPublic, Doomed
      <4>2. CASE q.pc = "auth" /\ q.kind.route = "managed"
        BY <1>1, <1>2, <1>7, <3>3, <4>1, <4>2 DEF Weight
      <4>3. CASE ~(q.pc = "auth" /\ q.kind.route = "managed")
        <5>1. ~Doomed(r)
          BY <3>1, <4>3 DEF Doomed
        <5>2. QED
          BY <1>1, <1>2, <1>7, <3>3, <4>1, <4>3, <5>1 DEF Weight
      <4>4. QED
        BY <4>2, <4>3
    <3>4. QED
      BY <3>2, <3>3
  <2>3. QED
    BY <2>1, <2>2
<1>9. /\ conn' \in [Conns -> Requests] /\ conn'[c] = r
      /\ \A d \in Conns \ {c} : Alike(conn'[d], conn[d])
  BY <1>1, <1>4, Exchanged DEF GateInv
<1>10. /\ server' \in {"up", "closing", "draining", "closed"} /\ server' = server
       /\ (server' = "closed" => ~pending') /\ FALSE \notin straggled'
  BY <1>1 DEF GateInv, ShutdownOK
<1>11. ~conn'[c].open /\ Audited(conn'[c]) /\ Holding(conn'[c])
  BY <1>4, <1>6, <1>9
<1>12. QED
  BY <1>7, <1>8, <1>9, <1>10, <1>11, OneStep

------------------------------------------------------------------------------
LEMMA GateStep == GateInv /\ [Next]_vars => GateInv'
<1> SUFFICES ASSUME GateInv, [Next]_vars
             PROVE  GateInv'
  OBVIOUS
<1>1. ASSUME NEW c \in Conns, Step(c) PROVE GateInv'
  BY <1>1, AuthenticatedStep, LoginReadStep, BodyReadStep, HandledStep, FlushedStep DEF Step
<1>2. ASSUME UNCHANGED <<conn, gates, leaked, cuts>>, ShutdownOK'
      PROVE  GateInv'
  BY <1>2 DEF GateInv, RequestsOK, CountsOK, gates
<1>3. CASE Tick
  <2>1. UNCHANGED <<conn, gates, leaked, cuts, server, pending, straggled>>
    BY <1>3 DEF Tick, trail, counts
  <2>2. QED
    BY <1>2, <2>1 DEF GateInv, ShutdownOK
<1>4. CASE AppendsDone
  <2>1. UNCHANGED <<conn, gates, leaked, cuts, server, straggled>> /\ pending' = FALSE
    BY <1>4 DEF AppendsDone, counts
  <2>2. QED
    BY <1>2, <2>1 DEF GateInv, ShutdownOK
<1>5. CASE Stop
  <2>1. UNCHANGED <<conn, gates, leaked, cuts, straggled>> /\ server' = "closing"
    BY <1>5 DEF Stop, counts
  <2>2. QED
    BY <1>2, <2>1 DEF GateInv, ShutdownOK
<1>6. CASE ListenerClosed
  <2>1. /\ UNCHANGED <<conn, gates, leaked, cuts, straggled>> /\ server' = "draining"
        /\ \A c \in Conns : ~conn[c].open
    BY <1>6 DEF ListenerClosed, counts
  <2>2. QED
    BY <1>2, <2>1 DEF GateInv, ShutdownOK
<1>7. CASE Drained
  <2>1. /\ UNCHANGED <<conn, gates, leaked, cuts, straggled>> /\ server' = "closed"
        /\ server = "draining" /\ ~pending /\ pending' = pending
    BY <1>7 DEF Drained, counts
  <2>2. QED
    BY <1>2, <2>1 DEF GateInv, ShutdownOK
<1>8. CASE UNCHANGED vars
  <2>1. UNCHANGED <<conn, gates, leaked, cuts, server, pending, straggled>>
    BY <1>8 DEF vars, trail, counts
  <2>2. QED
    BY <1>2, <2>1 DEF GateInv, ShutdownOK
<1>9. QED
  BY <1>1, <1>3, <1>4, <1>5, <1>6, <1>7, <1>8, KnockStep, DeliverStep, LeaveStep DEF Next

LEMMA GateInvariant == Spec => []GateInv
<1>1. Init => GateInv
  <2> SUFFICES ASSUME Init PROVE GateInv
    OBVIOUS
  <2>1. RequestsOK
    BY IdleParts DEF Init, RequestsOK, Audited, Holding
  <2>2. CountsOK
    <3> DEFINE S1 == {c \in Conns : Held(conn[c])}
               S2 == {c \in Conns : HeldPublic(conn[c])}
               S3 == {c \in Conns : Doomed(conn[c])}
    <3>1. S1 = {} /\ S2 = {} /\ S3 = {}
      BY IdleParts DEF Init, Held, HeldPublic, Doomed
    <3>2. /\ inFlight = 0 /\ inPublic = 0 /\ leaked = 0 /\ cuts = 0
          /\ Cardinality({}) = 0
      BY FS_EmptySet DEF Init
    <3>3. CountsOK <=> /\ {leaked, cuts} \subseteq Nat
                       /\ inFlight = Cardinality(S1) + leaked /\ inPublic = Cardinality(S2)
                       /\ leaked + Cardinality(S3) <= cuts
      BY DEF CountsOK
    <3> HIDE DEF S1, S2, S3
    <3>4. QED
      BY <3>1, <3>2, <3>3
  <2>3. ShutdownOK
    BY DEF Init, ShutdownOK
  <2>4. QED
    BY <2>1, <2>2, <2>3 DEF GateInv
<1>2. QED
  BY <1>1, GateStep, PTL DEF Spec

\* The gates: a count is of the requests that hold a slot, and of those that took
\* theirs to the grave, who are no more than the managed ones that left too early.
THEOREM SlotsExactHolds == Spec => []SlotsExact
<1>1. GateInv => SlotsExact
  <2> SUFFICES ASSUME GateInv PROVE SlotsExact
    OBVIOUS
  <2>1. /\ {c \in Conns : conn[c].holds /\ (Request(c).route = "public") = FALSE}
             = {c \in Conns : Held(conn[c])}
        /\ {c \in Conns : conn[c].holds /\ (Request(c).route = "public") = TRUE}
             = {c \in Conns : HeldPublic(conn[c])}
    BY Zenon DEF Held, HeldPublic, Request
  <2>2. leaked <= cuts
    <3> DEFINE S == {c \in Conns : Doomed(conn[c])}
    <3>1. Cardinality(S) \in Nat
      BY ServeGateAssumption, FS_Subset, FS_CardinalityType
    <3>2. /\ leaked + Cardinality(S) <= cuts /\ leaked \in Nat /\ cuts \in Nat
      BY DEF GateInv, CountsOK
    <3> HIDE DEF S
    <3>3. QED
      BY <3>1, <3>2
  <2>3. QED
    BY <2>1, <2>2 DEF GateInv, CountsOK, SlotsExact
<1>2. QED
  BY <1>1, GateInvariant, PTL

\* One audit line for every request: admitted or refused.
THEOREM AuditedOnceHolds == Spec => []AuditedOnce
<1>1. GateInv => AuditedOnce
  <2> SUFFICES ASSUME GateInv, NEW c \in Conns
               PROVE  /\ conn[c].audits <= 1
                      /\ (conn[c].pc \in {"run", "sending"}
                          /\ Request(c).route \notin {"board", "login"}) => conn[c].audits = 1
    BY DEF AuditedOnce
  <2>1. conn[c].audits \in {0, 1} /\ Audited(conn[c])
    BY RequestAt
  <2>2. QED
    BY <2>1 DEF Audited, Request
<1>2. QED
  BY <1>1, GateInvariant, PTL

\* close(): when it has returned no append is in flight, and none follows but of
\* a client that left while it authenticated.
THEOREM QuietAfterCloseHolds == Spec => []QuietAfterClose
<1>1. GateInv => QuietAfterClose
  BY DEF GateInv, ShutdownOK, QuietAfterClose
<1>2. QED
  BY <1>1, GateInvariant, PTL
------------------------------------------------------------------------------
(***************************************************************************)
(* The limits.  A key without a bucket stands as if its bucket were full.  *)
(***************************************************************************)
Distinct(b) == \A i, j \in DOMAIN b : b[i].key = b[j].key => i = j

Credit(b, k, capacity) == IF k \in KeysOf(b) THEN BucketOf(b, k).tokens ELSE capacity

PenaltyBuckets  == [key : Remotes, tokens : 0 .. FailureBurst]
RegistryBuckets == [key : Remotes, tokens : 0 .. Burst, seen : 0 .. MaxTicks]

\* One bucket for a key, and no more buckets than there may be.
BoxesOK ==
  /\ penalties \in Seq(PenaltyBuckets) /\ Len(penalties) <= MaxEntries /\ Distinct(penalties)
  /\ registry \in Seq(RegistryBuckets) /\ Len(registry) <= MaxEntries /\ Distinct(registry)

\* A bucket of the registry has refilled since it was last used: what the idle
\* sweep drops is full.
Refilling ==
  \A i \in DOMAIN registry :
    /\ registry[i].seen <= ticks
    /\ registry[i].tokens = Burst \/ registry[i].tokens >= ticks - registry[i].seen

TokensOK ==
  /\ principals \in [Users -> 0 .. Burst]
  /\ ticks \in 0 .. MaxTicks /\ served \in 0 .. MaxRequests
  /\ taken \in [Users \cup Remotes -> Nat] /\ failures \in [Remotes -> Nat]
  /\ forgotten \in [{"penalties", "registry"} -> [Remotes -> Nat]]

GatesOK ==
  /\ inFlight <= MaxSlots /\ inPublic <= PublicSlots
  /\ pending \in BOOLEAN /\ straggled \subseteq BOOLEAN

\* What was taken and what is left is what was ever given.
Balanced ==
  /\ \A u \in Users : taken[u] + principals[u] <= Burst + ticks
  /\ \A k \in Remotes :
       /\ taken[k] + Credit(registry, k, Burst)
            <= (1 + forgotten["registry"][k]) * Burst + ticks
       /\ failures[k] + Credit(penalties, k, FailureBurst)
            <= (1 + forgotten["penalties"][k]) * FailureBurst + ticks

\* Who passed the penalty box and met no failure of its remote since would pass it now.
Waiting(r) == r.pc = "auth" \/ (r.pc = "body" /\ r.kind.route = "login")

Warned ==
  \A c \in Conns :
    Waiting(conn[c]) => \/ conn[c].overlapped
                       \/ Credit(penalties, conn[c].kind.remote, FailureBurst) >= 1

TokenInv == BoxesOK /\ Refilling /\ TokensOK /\ Balanced

LimitInv == TokenInv /\ GatesOK /\ Warned

LEMMA LeastExists ==
  ASSUME NEW S \in SUBSET Nat, S # {}
  PROVE  \E k \in S : \A j \in S : k <= j
<1>1. PICK k \in S : \A j \in S : <<j, k>> \notin OpToRel(<, Nat)
  <2>1. IsWellFoundedOn(OpToRel(<, Nat), Nat)
    BY NatLessThanWellFounded
  <2>2. QED
    BY <2>1, WFMin
<1>2. \A j \in S : ~ (j < k)
  BY <1>1 DEF OpToRel
<1>3. QED
  BY <1>2

\* g[n] is what is left of the first n buckets of b.
Keeps(g, b, keys) ==
  /\ g[0] = <<>>
  /\ \A n \in 1 .. Len(b) :
       g[n] = IF b[n].key \in keys THEN g[n - 1] ELSE Append(g[n - 1], b[n])

\* Without is what its recursion says.
LEMMA WithoutIs ==
  ASSUME NEW b, NEW keys, Len(b) \in Nat
  PROVE  \E g : Without(b, keys) = g[Len(b)] /\ Keeps(g, b, keys)
<1> DEFINE last == Len(b)
           Part(g, n) == IF n = 0 THEN <<>>
                         ELSE IF b[n].key \in keys THEN g[n - 1] ELSE Append(g[n - 1], b[n])
           IsKept(g, n) == g = [m \in 0 .. n |-> Part(g, m)]
           kept == CHOOSE g : IsKept(g, last)
<1>1. Without(b, keys) = kept[last]
  BY DEF Without
<1> HIDE DEF last
<1>2. last \in Nat
  BY DEF last
<1>3. \A n \in 0 .. last : \E g : IsKept(g, n)
  <2> DEFINE Lacking == {n \in 0 .. last : ~ \E g : IsKept(g, n)}
  <2> SUFFICES ASSUME Lacking # {} PROVE FALSE
    OBVIOUS
  <2> HIDE DEF IsKept
  <2>1. Lacking \in SUBSET Nat
    BY <1>2
  <2>2. PICK n \in Lacking : \A m \in Lacking : n <= m
    BY <2>1, LeastExists, Zenon
  <2>3. CASE n = 0
    <3> DEFINE g == [m \in 0 .. 0 |-> <<>>]
    <3>1. IsKept(g, 0)
      BY DEF IsKept
    <3>2. QED
      BY <2>2, <2>3, <3>1, Zenon
  <2>4. CASE n # 0
    <3>1. n \in Nat /\ n - 1 \in 0 .. last /\ n - 1 \notin Lacking
      BY <1>2, <2>1, <2>2, <2>4
    <3>2. PICK h : IsKept(h, n - 1)
      BY <3>1
    <3> DEFINE g == [m \in 0 .. n |-> IF m = n THEN Part(h, n) ELSE h[m]]
    <3>3. \A m \in 0 .. n : g[m] = Part(g, m)
      <4> SUFFICES ASSUME NEW m \in 0 .. n PROVE g[m] = Part(g, m)
        OBVIOUS
      <4>1. m # 0 => g[m - 1] = h[m - 1]
        BY <3>1
      <4>2. m # n => g[m] = h[m] /\ h[m] = Part(h, m)
        <5> SUFFICES ASSUME m # n PROVE g[m] = h[m] /\ h[m] = Part(h, m)
          OBVIOUS
        <5>1. m \in 0 .. n - 1
          BY <3>1
        <5> HIDE DEF Part
        <5>2. h[m] = Part(h, m)
          BY <3>2, <5>1, Zenon DEF IsKept
        <5>3. QED
          BY <5>2, Zenon
      <4>3. QED
        BY <4>1, <4>2
    <3>4. IsKept(g, n)
      BY <3>3 DEF IsKept
    <3>5. QED
      BY <2>2, <3>4, Zenon
  <2>5. QED
    BY <2>3, <2>4
<1>4. IsKept(kept, last)
  <2> HIDE DEF IsKept
  <2>1. \E g : IsKept(g, last)
    BY <1>2, <1>3
  <2>2. QED
    BY <2>1, Zenon
<1> HIDE DEF kept
<1>5. \A n \in 0 .. last : kept[n] = Part(kept, n)
  BY <1>4
<1>6. kept[0] = <<>>
  BY <1>2, <1>5
<1>7. \A n \in 1 .. last :
        kept[n] = IF b[n].key \in keys THEN kept[n - 1] ELSE Append(kept[n - 1], b[n])
  BY <1>2, <1>5
<1>8. QED
  BY <1>1, <1>6, <1>7 DEF last, Keeps

\* What is kept of the first n buckets of b.
Partial(b, keys, s, n, S) ==
  /\ s \in Seq(S) /\ Len(s) <= n
  /\ \A j \in DOMAIN s : \E i \in 1 .. n : s[j] = b[i] /\ b[i].key \notin keys
  /\ \A i \in 1 .. n : b[i].key \notin keys => \E j \in DOMAIN s : s[j] = b[i]
  /\ Distinct(s)

\* One more.
LEMMA PartialGrows ==
  ASSUME NEW S, NEW b \in Seq(S), Distinct(b), NEW keys, NEW n \in 1 .. Len(b),
         NEW s, Partial(b, keys, s, n - 1, S),
         NEW t, t = IF b[n].key \in keys THEN s ELSE Append(s, b[n])
  PROVE  Partial(b, keys, t, n, S)
<1>1. Len(b) \in Nat /\ n \in Nat /\ n - 1 \in Nat /\ b[n] \in S /\ n \in DOMAIN b /\ DOMAIN b = 1 .. Len(b)
  OBVIOUS
<1>2. CASE b[n].key \in keys
  <2>1. s \in Seq(S) /\ Len(s) \in Nat /\ Len(s) <= n - 1 /\ Distinct(s)
    BY DEF Partial
  <2>2. \A j \in DOMAIN s : \E i \in 1 .. n : s[j] = b[i] /\ b[i].key \notin keys
    BY <1>1 DEF Partial
  <2>3. \A i \in 1 .. n : b[i].key \notin keys => \E j \in DOMAIN s : s[j] = b[i]
    BY <1>1, <1>2 DEF Partial
  <2>4. QED
    BY <1>1, <1>2, <2>1, <2>2, <2>3 DEF Partial
<1>3. CASE b[n].key \notin keys
  <2>1. /\ s \in Seq(S) /\ Len(s) \in Nat /\ Len(s) <= n - 1 /\ Distinct(s)
        /\ \A j \in DOMAIN s : \E i \in 1 .. n - 1 : s[j] = b[i] /\ b[i].key \notin keys
        /\ \A i \in 1 .. n - 1 : b[i].key \notin keys => \E j \in DOMAIN s : s[j] = b[i]
    BY DEF Partial
  <2>2. /\ t \in Seq(S) /\ Len(t) = Len(s) + 1 /\ DOMAIN t = 1 .. Len(s) + 1 /\ DOMAIN s = 1 .. Len(s)
        /\ \A j \in DOMAIN s : t[j] = s[j]
        /\ t[Len(s) + 1] = b[n]
    BY <1>1, <1>3, <2>1
  <2> HIDE DEF Partial
  <2>3. \A j \in DOMAIN s : \E i \in 1 .. n - 1 : i \in DOMAIN b /\ i # n /\ t[j] = b[i] /\ b[i].key \notin keys
    BY <1>1, <2>1, <2>2
  <2>4. \A j \in DOMAIN t : \E i \in 1 .. n : t[j] = b[i] /\ b[i].key \notin keys
    BY <1>1, <1>3, <2>1, <2>2, <2>3
  <2>5. \A i \in 1 .. n : b[i].key \notin keys => \E j \in DOMAIN t : t[j] = b[i]
    <3> SUFFICES ASSUME NEW i \in 1 .. n, b[i].key \notin keys
                 PROVE  \E j \in DOMAIN t : t[j] = b[i]
      OBVIOUS
    <3>1. CASE i = n
      BY <2>1, <2>2, <3>1
    <3>2. CASE i # n
      <4>1. PICK j \in DOMAIN s : s[j] = b[i]
        BY <1>1, <2>1, <3>2
      <4>2. QED
        BY <2>1, <2>2, <4>1
    <3>3. QED
      BY <3>1, <3>2
  <2>6. \A j \in DOMAIN s : t[j].key # b[n].key
    BY <1>1, <2>3 DEF Distinct
  <2>7. Distinct(t)
    <3> SUFFICES ASSUME NEW i \in DOMAIN t, NEW j \in DOMAIN t, t[i].key = t[j].key
                 PROVE  i = j
      BY DEF Distinct
    <3>1. CASE i \in DOMAIN s /\ j \in DOMAIN s
      BY <2>1, <2>2, <3>1 DEF Distinct
    <3>2. CASE i = Len(s) + 1 /\ j \in DOMAIN s
      BY <2>2, <2>6, <3>2
    <3>3. CASE j = Len(s) + 1 /\ i \in DOMAIN s
      BY <2>2, <2>6, <3>3
    <3>4. CASE i = Len(s) + 1 /\ j = Len(s) + 1
      BY <3>4
    <3>5. QED
      BY <2>1, <2>2, <3>1, <3>2, <3>3, <3>4
  <2>8. Len(t) <= n
    BY <1>1, <2>1, <2>2
  <2>9. QED
    BY <2>2, <2>4, <2>5, <2>7, <2>8 DEF Partial
<1>4. QED
  BY <1>2, <1>3

\* Without keeps the other buckets, each once; it is shorter by what it drops.
LEMMA WithoutFacts ==
  ASSUME NEW S, NEW b \in Seq(S), Distinct(b), NEW keys
  PROVE  Partial(b, keys, Without(b, keys), Len(b), S)
<1>1. Len(b) \in Nat
  OBVIOUS
<1>2. PICK g : Without(b, keys) = g[Len(b)] /\ Keeps(g, b, keys)
  BY <1>1, WithoutIs
<1> DEFINE Bad == {n \in 0 .. Len(b) : ~ Partial(b, keys, g[n], n, S)}
<1>3. Partial(b, keys, g[0], 0, S)
  <2>1. <<>> \in Seq(S) /\ Len(<<>>) = 0 /\ DOMAIN <<>> = {} /\ 1 .. 0 = {}
    BY EmptySeq
  <2>2. QED
    BY <1>2, <2>1 DEF Keeps, Partial, Distinct
<1>4. SUFFICES ASSUME Bad # {} PROVE FALSE
  BY <1>1, <1>2
<1>5. Bad \in SUBSET Nat
  BY <1>1
<1>6. PICK n \in Bad : \A m \in Bad : n <= m
  BY <1>4, <1>5, LeastExists, Zenon
<1>7. n # 0
  BY <1>3, <1>6
<1>8. n \in 1 .. Len(b) /\ n - 1 \in 0 .. Len(b) /\ n - 1 \notin Bad
  BY <1>1, <1>6, <1>7
<1>9. Partial(b, keys, g[n - 1], n - 1, S)
  BY <1>8
<1>10. g[n] = IF b[n].key \in keys THEN g[n - 1] ELSE Append(g[n - 1], b[n])
  BY <1>2, <1>8 DEF Keeps
<1>11. Partial(b, keys, g[n], n, S)
  BY <1>8, <1>9, <1>10, PartialGrows
<1>12. QED
  BY <1>6, <1>11

\* Where every bucket from lo to hi goes, none of them counts.
LEMMA WithoutShortens ==
  ASSUME NEW S, NEW b \in Seq(S), NEW keys, NEW lo \in 1 .. Len(b), NEW hi \in lo .. Len(b),
         \A i \in lo .. hi : b[i].key \in keys
  PROVE  Len(Without(b, keys)) <= Len(b) - (hi - lo + 1)
<1>1. Len(b) \in Nat
  OBVIOUS
<1>2. PICK g : Without(b, keys) = g[Len(b)] /\ Keeps(g, b, keys)
  BY <1>1, WithoutIs
<1> DEFINE most(n) == IF n < lo THEN n ELSE IF n <= hi THEN lo - 1 ELSE n - (hi - lo + 1)
           Fits(n) == g[n] \in Seq(S) /\ Len(g[n]) <= most(n)
           Bad == {n \in 0 .. Len(b) : ~ Fits(n)}
<1>3. Fits(0)
  <2>1. <<>> \in Seq(S) /\ Len(<<>>) = 0
    BY EmptySeq
  <2>2. QED
    BY <1>2, <2>1 DEF Keeps
<1>4. ASSUME Bad # {} PROVE FALSE
  <2>1. Bad \in SUBSET Nat
    BY <1>1
  <2>2. PICK n \in Bad : \A m \in Bad : n <= m
    BY <1>4, <2>1, LeastExists, Zenon
  <2>3. n # 0
    BY <1>3, <2>2
  <2>4. n \in 1 .. Len(b) /\ n - 1 \in 0 .. Len(b) /\ n - 1 \notin Bad /\ b[n] \in S
    BY <1>1, <2>2, <2>3
  <2>5. g[n - 1] \in Seq(S) /\ Len(g[n - 1]) <= most(n - 1)
    BY <2>4
  <2>6. g[n] = IF b[n].key \in keys THEN g[n - 1] ELSE Append(g[n - 1], b[n])
    BY <1>2, <2>4 DEF Keeps
  <2>7. ~ Fits(n)
    BY <2>2
  <2>8. CASE b[n].key \in keys
    <3>1. g[n] \in Seq(S) /\ Len(g[n]) <= most(n - 1)
      BY <2>5, <2>6, <2>8
    <3>2. most(n - 1) <= most(n)
      BY <1>1, <2>4
    <3>3. most(n) \in Int /\ most(n - 1) \in Int /\ Len(g[n]) \in Int
      BY <1>1, <2>4, <3>1
    <3> HIDE DEF most
    <3>4. QED
      BY <2>7, <3>1, <3>2, <3>3
  <2>9. CASE b[n].key \notin keys
    <3>1. g[n] \in Seq(S) /\ Len(g[n]) = Len(g[n - 1]) + 1 /\ Len(g[n - 1]) \in Nat
      BY <2>4, <2>5, <2>6, <2>9
    <3>2. n < lo \/ n > hi
      BY <1>1, <2>4, <2>9
    <3>3. most(n - 1) + 1 <= most(n) /\ most(n) \in Int /\ most(n - 1) \in Int
      BY <1>1, <2>4, <3>2
    <3> HIDE DEF most
    <3>4. QED
      BY <2>5, <2>7, <3>1, <3>3
  <2>10. QED
    BY <2>8, <2>9
<1>5. Fits(Len(b))
  BY <1>1, <1>4
<1>6. most(Len(b)) <= Len(b) - (hi - lo + 1)
  BY <1>1
<1>7. QED
  BY <1>2, <1>5, <1>6

------------------------------------------------------------------------------
(***************************************************************************)
(* Boxes of buckets.                                                       *)
(***************************************************************************)
LEMMA BucketAt ==
  ASSUME NEW b, Distinct(b), NEW i \in DOMAIN b
  PROVE  BucketOf(b, b[i].key) = b[i] /\ b[i].key \in KeysOf(b)
<1> DEFINE j == CHOOSE j \in DOMAIN b : b[j].key = b[i].key
<1>1. j \in DOMAIN b /\ b[j].key = b[i].key
  OBVIOUS
<1>2. j = i
  BY <1>1 DEF Distinct
<1>3. BucketOf(b, b[i].key) = b[j]
  BY DEF BucketOf
<1>4. QED
  BY <1>2, <1>3 DEF KeysOf

LEMMA WithoutKeys ==
  ASSUME NEW S, NEW b \in Seq(S), Distinct(b), NEW keys
  PROVE  /\ Without(b, keys) \in Seq(S) /\ Distinct(Without(b, keys))
         /\ Len(Without(b, keys)) <= Len(b)
         /\ KeysOf(Without(b, keys)) = KeysOf(b) \ keys
         /\ \A k \in KeysOf(b) \ keys : BucketOf(Without(b, keys), k) = BucketOf(b, k)
         /\ \A j \in DOMAIN Without(b, keys) : \E i \in DOMAIN b : Without(b, keys)[j] = b[i]
<1>1. PICK s : s = Without(b, keys)
  OBVIOUS
<1>2. Partial(b, keys, s, Len(b), S)
  BY <1>1, WithoutFacts
<1>3. DOMAIN b = 1 .. Len(b)
  OBVIOUS
<1>4. /\ s \in Seq(S) /\ Len(s) <= Len(b) /\ Distinct(s)
      /\ \A j \in DOMAIN s : \E i \in DOMAIN b : s[j] = b[i] /\ b[i].key \notin keys
      /\ \A i \in DOMAIN b : b[i].key \notin keys => \E j \in DOMAIN s : s[j] = b[i]
  BY <1>2, <1>3 DEF Partial
<1>5. KeysOf(s) = KeysOf(b) \ keys
  <2>1. \A j \in DOMAIN s : s[j].key \in KeysOf(b) \ keys
    BY <1>4 DEF KeysOf
  <2>2. \A i \in DOMAIN b : b[i].key \notin keys => b[i].key \in KeysOf(s)
    BY <1>4 DEF KeysOf
  <2>3. KeysOf(s) \subseteq KeysOf(b) \ keys
    BY <2>1 DEF KeysOf
  <2>4. KeysOf(b) \ keys \subseteq KeysOf(s)
    BY <2>2 DEF KeysOf
  <2>5. QED
    BY <2>3, <2>4
<1>6. ASSUME NEW k \in KeysOf(b) \ keys PROVE BucketOf(s, k) = BucketOf(b, k)
  <2>1. PICK i \in DOMAIN b : b[i].key = k
    BY DEF KeysOf
  <2>2. PICK j \in DOMAIN s : s[j] = b[i]
    BY <1>4, <2>1
  <2>3. BucketOf(b, b[i].key) = b[i] /\ BucketOf(s, s[j].key) = s[j]
    BY <1>4, BucketAt
  <2>4. QED
    BY <2>1, <2>2, <2>3
<1>7. QED
  BY <1>1, <1>4, <1>5, <1>6

\* A bucket for a key that had none.
LEMMA AppendKeys ==
  ASSUME NEW S, NEW b \in Seq(S), Distinct(b), NEW x \in S, x.key \notin KeysOf(b)
  PROVE  /\ Append(b, x) \in Seq(S) /\ Distinct(Append(b, x)) /\ Len(Append(b, x)) = Len(b) + 1
         /\ KeysOf(Append(b, x)) = KeysOf(b) \cup {x.key}
         /\ BucketOf(Append(b, x), x.key) = x
         /\ \A k \in KeysOf(b) : BucketOf(Append(b, x), k) = BucketOf(b, k)
         /\ \A j \in DOMAIN Append(b, x) : Append(b, x)[j] = x \/ \E i \in DOMAIN b : Append(b, x)[j] = b[i]
<1>1. PICK s : s = Append(b, x)
  OBVIOUS
<1>2. /\ Len(b) \in Nat /\ DOMAIN b = 1 .. Len(b)
      /\ s \in Seq(S) /\ Len(s) = Len(b) + 1 /\ DOMAIN s = 1 .. Len(b) + 1
      /\ s[Len(b) + 1] = x /\ \A i \in DOMAIN b : s[i] = b[i]
  BY <1>1
<1>3. \A j \in DOMAIN s : j \in DOMAIN b \/ j = Len(b) + 1
  BY <1>2
<1>4. \A i \in DOMAIN b : b[i].key # x.key /\ i \in DOMAIN s
  BY <1>2 DEF KeysOf
<1>5. Distinct(s)
  <2> SUFFICES ASSUME NEW i \in DOMAIN s, NEW j \in DOMAIN s, s[i].key = s[j].key
               PROVE  i = j
    BY DEF Distinct
  <2>1. CASE i \in DOMAIN b /\ j \in DOMAIN b
    BY <1>2, <2>1 DEF Distinct
  <2>2. CASE ~(i \in DOMAIN b /\ j \in DOMAIN b)
    BY <1>2, <1>3, <1>4, <2>2
  <2>3. QED
    BY <2>1, <2>2
<1>6. KeysOf(s) = KeysOf(b) \cup {x.key}
  <2>1. Len(b) + 1 \in DOMAIN s
    BY <1>2
  <2>2. QED
    BY <1>2, <1>3, <1>4, <2>1 DEF KeysOf
<1>7. BucketOf(s, x.key) = x
  <2>1. Len(b) + 1 \in DOMAIN s
    BY <1>2
  <2>2. QED
    BY <1>2, <1>5, <2>1, BucketAt
<1>8. ASSUME NEW k \in KeysOf(b) PROVE BucketOf(s, k) = BucketOf(b, k)
  <2>1. PICK i \in DOMAIN b : b[i].key = k
    BY DEF KeysOf
  <2>2. i \in DOMAIN s /\ s[i] = b[i]
    BY <1>2, <1>4
  <2>3. BucketOf(b, b[i].key) = b[i] /\ BucketOf(s, s[i].key) = s[i]
    BY <1>5, <2>2, BucketAt
  <2>4. QED
    BY <2>1, <2>2, <2>3
<1>9. QED
  BY <1>1, <1>2, <1>3, <1>5, <1>6, <1>7, <1>8

\* Every bucket is replaced by one of the same key.
LEMMA MapKeys ==
  ASSUME NEW S, NEW b \in Seq(S), Distinct(b), NEW s \in [DOMAIN b -> S],
         \A i \in DOMAIN b : s[i].key = b[i].key
  PROVE  /\ s \in Seq(S) /\ Distinct(s) /\ Len(s) = Len(b) /\ KeysOf(s) = KeysOf(b)
         /\ \A i \in DOMAIN b : BucketOf(s, b[i].key) = s[i] /\ BucketOf(b, b[i].key) = b[i]
<1>1. Len(b) \in Nat /\ DOMAIN b = 1 .. Len(b)
  OBVIOUS
<1>2. s \in [1 .. Len(b) -> S]
  BY <1>1
<1>3. s \in Seq(S) /\ Len(s) = Len(b)
  BY <1>1, <1>2
<1>4. Distinct(s)
  BY DEF Distinct
<1>5. KeysOf(s) = KeysOf(b)
  BY DEF KeysOf
<1>6. QED
  BY <1>3, <1>4, <1>5, BucketAt

\* Buckets of any number of tokens up to capacity.
Buckets(S, capacity) ==
  \A s \in S : /\ s.key \in Remotes /\ s.tokens \in 0 .. capacity
               /\ {"key", "tokens"} \subseteq DOMAIN s
               /\ \A n \in 0 .. capacity : [s EXCEPT !.tokens = n] \in S

LEMMA BucketParts ==
  ASSUME NEW S, NEW b \in Seq(S), Distinct(b), NEW k \in KeysOf(b)
  PROVE  \E i \in DOMAIN b : BucketOf(b, k) = b[i] /\ b[i] \in S /\ b[i].key = k
<1>1. PICK i \in DOMAIN b : b[i].key = k
  BY DEF KeysOf
<1>2. BucketOf(b, k) = b[i] /\ b[i] \in S
  BY <1>1, BucketAt
<1>3. QED
  BY <1>1, <1>2

LEMMA CreditParts ==
  ASSUME NEW S, NEW b \in Seq(S), Distinct(b), NEW capacity \in Nat, Buckets(S, capacity), NEW k
  PROVE  /\ Credit(b, k, capacity) \in 0 .. capacity
         /\ k \in KeysOf(b) => k \in Remotes /\ Credit(b, k, capacity) = BucketOf(b, k).tokens
         /\ k \notin KeysOf(b) => Credit(b, k, capacity) = capacity
<1>1. CASE k \in KeysOf(b)
  BY <1>1, BucketParts DEF Buckets, Credit
<1>2. CASE k \notin KeysOf(b)
  BY <1>2 DEF Credit
<1>3. QED
  BY <1>1, <1>2

\* To drop full buckets changes nothing.
LEMMA SweepIsFree ==
  ASSUME NEW S, NEW b \in Seq(S), Distinct(b), NEW capacity, NEW keys,
         \A k \in keys \cap KeysOf(b) : BucketOf(b, k).tokens = capacity
  PROVE  \A k : Credit(Without(b, keys), k, capacity) = Credit(b, k, capacity)
<1>1. PICK w : w = Without(b, keys)
  OBVIOUS
<1>2. /\ KeysOf(w) = KeysOf(b) \ keys
      /\ \A k \in KeysOf(b) \ keys : BucketOf(w, k) = BucketOf(b, k)
  BY <1>1, WithoutKeys
<1>3. QED
  BY <1>1, <1>2 DEF Credit

\* Who loses a bucket that is not full.
Losing(b, out, capacity) == {k \in out : BucketOf(b, k).tokens < capacity}

LEMMA ForgetParts ==
  ASSUME forgotten \in [{"penalties", "registry"} -> [Remotes -> Nat]],
         NEW box \in {"penalties", "registry"}, NEW b, NEW out, NEW capacity,
         Forget(box, b, out, capacity)
  PROVE  /\ forgotten' \in [{"penalties", "registry"} -> [Remotes -> Nat]]
         /\ \A other \in {"penalties", "registry"} \ {box} : forgotten'[other] = forgotten[other]
         /\ \A k \in Remotes :
              forgotten'[box][k] = forgotten[box][k] + (IF k \in Losing(b, out, capacity) THEN 1 ELSE 0)
<1>1. PICK lost : lost = Losing(b, out, capacity)
  OBVIOUS
<1>2. forgotten' = [forgotten EXCEPT ![box] = [k \in Remotes |-> @[k] + (IF k \in lost THEN 1 ELSE 0)]]
  BY <1>1 DEF Forget, Losing
<1>3. PICK f : f = [k \in Remotes |-> forgotten[box][k] + (IF k \in lost THEN 1 ELSE 0)]
  OBVIOUS
<1>4. forgotten[box] \in [Remotes -> Nat]
  OBVIOUS
<1>5. f \in [Remotes -> Nat]
  BY <1>3, <1>4
<1>6. forgotten' = [forgotten EXCEPT ![box] = f]
  BY <1>2, <1>3
<1>7. /\ forgotten' \in [{"penalties", "registry"} -> [Remotes -> Nat]]
      /\ \A other \in {"penalties", "registry"} \ {box} : forgotten'[other] = forgotten[other]
      /\ forgotten'[box] = f
  BY <1>5, <1>6, Zenon
<1>8. QED
  BY <1>1, <1>3, <1>7

\* The counts go from f to g by one for each key that is lost.
CountedFor(f, g, lost) ==
  /\ f \in [Remotes -> Nat] /\ g \in [Remotes -> Nat]
  /\ \A k \in Remotes : g[k] = f[k] + (IF k \in lost THEN 1 ELSE 0)

\* The box w is b with room made for x.
RoomMade(S, b, x, w, f, g, capacity) ==
  /\ w \in Seq(S) /\ Distinct(w) /\ Len(w) <= MaxEntries
  /\ \A j \in DOMAIN w : w[j] = x \/ \E i \in DOMAIN b : w[j] = b[i]
  /\ Credit(w, x.key, capacity) = x.tokens /\ g[x.key] = f[x.key]
  /\ \A k \in Remotes \ {x.key} :
       \/ g[k] = f[k] /\ Credit(w, k, capacity) = Credit(b, k, capacity)
       \/ g[k] = f[k] + 1 /\ Credit(w, k, capacity) = capacity

\* What an eviction to make room for x does to the keys, and to their counts.
LEMMA Evict ==
  ASSUME NEW S, NEW b \in Seq(S), Distinct(b), NEW capacity \in Nat, Buckets(S, capacity),
         NEW f, NEW g, CountedFor(f, g, Losing(b, Oldest(b), capacity)),
         NEW x \in S, x.key \notin KeysOf(b),
         NEW w, w = Append(Without(b, Oldest(b)), x)
  PROVE  RoomMade(S, b, x, w, f, g, capacity)
<1>1. Len(b) \in Nat /\ DOMAIN b = 1 .. Len(b) /\ MaxEntries \in Nat /\ MaxEntries >= 1
  BY ServeGateAssumption
<1>2. PICK out : out = Oldest(b)
  OBVIOUS
<1>3. out \subseteq KeysOf(b)
  <2>1. CASE Len(b) < MaxEntries
    BY <1>2, <2>1 DEF Oldest
  <2>2. CASE ~(Len(b) < MaxEntries)
    <3>1. out = {b[i].key : i \in 1 .. Len(b) - MaxEntries + 1}
      BY <1>2, <2>2 DEF Oldest
    <3>2. \A i \in 1 .. Len(b) - MaxEntries + 1 : i \in DOMAIN b
      BY <1>1, <2>2
    <3>3. QED
      BY <3>1, <3>2 DEF KeysOf
  <2>3. QED
    BY <2>1, <2>2
<1>4. PICK v : v = Without(b, out)
  OBVIOUS
<1>5. /\ v \in Seq(S) /\ Distinct(v) /\ Len(v) <= Len(b)
      /\ KeysOf(v) = KeysOf(b) \ out
      /\ \A k \in KeysOf(b) \ out : BucketOf(v, k) = BucketOf(b, k)
      /\ \A j \in DOMAIN v : \E i \in DOMAIN b : v[j] = b[i]
  BY <1>4, WithoutKeys
<1>6. Len(v) <= MaxEntries - 1
  <2>1. CASE Len(b) < MaxEntries
    BY <1>1, <1>5, <2>1
  <2>2. CASE Len(b) >= MaxEntries
    <3> DEFINE hi == Len(b) - MaxEntries + 1
    <3>1. 1 \in 1 .. Len(b) /\ hi \in 1 .. Len(b)
      BY <1>1, <2>2
    <3>2. \A i \in 1 .. hi : b[i].key \in out
      BY <1>1, <1>2, <2>2 DEF Oldest
    <3> HIDE DEF hi
    <3>3. Len(v) <= Len(b) - (hi - 1 + 1)
      BY <1>4, <3>1, <3>2, WithoutShortens
    <3>4. QED
      BY <1>1, <1>5, <3>1, <3>3 DEF hi
  <2>3. QED
    BY <1>1, <2>1, <2>2
<1>7. w = Append(v, x) /\ x.key \notin KeysOf(v)
  BY <1>2, <1>4, <1>5
<1>8. /\ w \in Seq(S) /\ Distinct(w) /\ Len(w) = Len(v) + 1
      /\ KeysOf(w) = KeysOf(v) \cup {x.key}
      /\ BucketOf(w, x.key) = x
      /\ \A k \in KeysOf(v) : BucketOf(w, k) = BucketOf(v, k)
      /\ \A j \in DOMAIN w : w[j] = x \/ \E i \in DOMAIN v : w[j] = v[i]
  BY <1>5, <1>7, AppendKeys
<1>9. Len(w) <= MaxEntries
  BY <1>1, <1>5, <1>6, <1>8
<1>10. \A j \in DOMAIN w : w[j] = x \/ \E i \in DOMAIN b : w[j] = b[i]
  BY <1>5, <1>8
<1>11. PICK lost : lost = Losing(b, out, capacity)
  OBVIOUS
<1>12. \A k \in Remotes : g[k] = f[k] + (IF k \in lost THEN 1 ELSE 0)
  BY <1>2, <1>11 DEF CountedFor
<1>13. x.key \in Remotes /\ x.key \notin lost
  BY <1>3, <1>11 DEF Buckets, Losing
<1>14. Credit(w, x.key, capacity) = x.tokens /\ g[x.key] = f[x.key]
  <2>1. f[x.key] \in Nat
    BY <1>13 DEF CountedFor
  <2>2. QED
    BY <1>8, <1>12, <1>13, <2>1 DEF Credit
<1>15. ASSUME NEW k \in Remotes \ {x.key}
       PROVE  \/ g[k] = f[k] /\ Credit(w, k, capacity) = Credit(b, k, capacity)
              \/ g[k] = f[k] + 1 /\ Credit(w, k, capacity) = capacity
  <2>1. f[k] \in Nat
    BY DEF CountedFor
  <2>2. CASE k \in lost
    <3>1. k \notin KeysOf(w)
      BY <1>5, <1>8, <1>11, <2>2 DEF Losing
    <3>2. QED
      BY <1>12, <2>2, <3>1 DEF Credit
  <2>3. CASE k \notin lost
    <3>1. g[k] = f[k]
      BY <1>12, <2>1, <2>3
    <3>2. CASE k \in out
      <4>1. k \in KeysOf(b) /\ k \notin KeysOf(w)
        BY <1>3, <1>5, <1>8, <3>2
      <4>2. Credit(b, k, capacity) = BucketOf(b, k).tokens /\ BucketOf(b, k).tokens \in 0 .. capacity
        BY <4>1, CreditParts
      <4>3. BucketOf(b, k).tokens = capacity
        BY <1>11, <2>3, <3>2, <4>2 DEF Losing
      <4>4. QED
        BY <3>1, <4>1, <4>2, <4>3 DEF Credit
    <3>3. CASE k \notin out
      <4>1. k \in KeysOf(w) <=> k \in KeysOf(b)
        BY <1>5, <1>8, <3>3
      <4>2. k \in KeysOf(b) => BucketOf(w, k) = BucketOf(b, k)
        BY <1>5, <1>8, <3>3
      <4>3. QED
        BY <3>1, <4>1, <4>2 DEF Credit
    <3>4. QED
      BY <3>2, <3>3
  <2>4. QED
    BY <2>2, <2>3
<1>16. QED
  BY <1>8, <1>9, <1>10, <1>14, <1>15 DEF RoomMade

------------------------------------------------------------------------------
(***************************************************************************)
(* What the boxes do.                                                      *)
(***************************************************************************)
Less(n) == IF n >= 1 THEN n - 1 ELSE 0

\* Of the box from b to w the key k has paid a token if it had one; every other
\* key stands as it stood, or was evicted, which is counted, and starts over.
Charged(b, w, f, g, k, capacity) ==
  /\ g[k] = f[k] /\ Credit(w, k, capacity) = Less(Credit(b, k, capacity))
  /\ \A e \in Remotes \ {k} :
       \/ g[e] = f[e] /\ Credit(w, e, capacity) = Credit(b, e, capacity)
       \/ g[e] = f[e] + 1 /\ Credit(w, e, capacity) = capacity

LEMMA BucketTypes ==
  /\ FailureBurst \in Nat /\ FailureBurst >= 1 /\ Burst \in Nat /\ Burst >= 1
  /\ Buckets(PenaltyBuckets, FailureBurst) /\ Buckets(RegistryBuckets, Burst)
BY ServeGateAssumption DEF Buckets, PenaltyBuckets, RegistryBuckets

\* chargeFailure: a remote without a bucket gets one, after a sweep and an
\* eviction if the box is full.
LEMMA ChargeKeeps ==
  ASSUME TokenInv, NEW k \in Remotes, ChargePenalty(k)
  PROVE  /\ penalties' \in Seq(PenaltyBuckets) /\ Len(penalties') <= MaxEntries
         /\ Distinct(penalties')
         /\ forgotten' \in [{"penalties", "registry"} -> [Remotes -> Nat]]
         /\ forgotten'["registry"] = forgotten["registry"]
         /\ Charged(penalties, penalties', forgotten["penalties"], forgotten'["penalties"], k, FailureBurst)
<1>1. /\ penalties \in Seq(PenaltyBuckets) /\ Len(penalties) <= MaxEntries /\ Distinct(penalties)
      /\ forgotten \in [{"penalties", "registry"} -> [Remotes -> Nat]]
  BY DEF TokenInv, BoxesOK, TokensOK
<1>2. FailureBurst \in Nat /\ FailureBurst >= 1 /\ Buckets(PenaltyBuckets, FailureBurst)
  BY BucketTypes
<1>3. CASE k \in KeysOf(penalties)
  <2>1. /\ penalties' = [i \in DOMAIN penalties |->
                           IF penalties[i].key = k
                           THEN [penalties[i] EXCEPT !.tokens = Max({0, @ - 1})] ELSE penalties[i]]
        /\ forgotten' = forgotten
    BY <1>3 DEF ChargePenalty
  <2>2. PICK w : w = penalties'
    OBVIOUS
  <2>3. ASSUME NEW i \in DOMAIN penalties
        PROVE  /\ penalties[i] \in PenaltyBuckets /\ w[i] \in PenaltyBuckets
               /\ w[i].key = penalties[i].key
               /\ w[i].tokens = IF penalties[i].key = k THEN Less(penalties[i].tokens)
                                ELSE penalties[i].tokens
    <3>1. penalties[i] \in PenaltyBuckets
      BY <1>1
    <3>2. CASE penalties[i].key = k
      <4>1. w[i] = [penalties[i] EXCEPT !.tokens = Max({0, @ - 1})]
        BY <2>1, <2>2, <3>2
      <4>2. penalties[i].tokens \in 0 .. FailureBurst
        BY <3>1 DEF PenaltyBuckets
      <4>3. Max({0, penalties[i].tokens - 1}) = Less(penalties[i].tokens)
        BY <1>2, <4>2, NotBelowZero DEF Less
      <4>4. Less(penalties[i].tokens) \in 0 .. FailureBurst
        BY <1>2, <4>2 DEF Less
      <4>5. w[i] = [penalties[i] EXCEPT !.tokens = Less(penalties[i].tokens)]
        BY <4>1, <4>3
      <4>6. w[i] \in PenaltyBuckets /\ w[i].key = penalties[i].key
            /\ w[i].tokens = Less(penalties[i].tokens)
        BY <3>1, <4>4, <4>5, Zenon DEF PenaltyBuckets
      <4>7. QED
        BY <3>1, <3>2, <4>6
    <3>3. CASE penalties[i].key # k
      BY <2>1, <2>2, <3>1, <3>3
    <3>4. QED
      BY <3>2, <3>3
  <2>4. DOMAIN w = DOMAIN penalties /\ w = [i \in DOMAIN penalties |-> w[i]]
    BY <2>1, <2>2
  <2>5. /\ w \in Seq(PenaltyBuckets) /\ Distinct(w) /\ Len(w) = Len(penalties)
        /\ KeysOf(w) = KeysOf(penalties)
        /\ \A i \in DOMAIN penalties : /\ BucketOf(w, penalties[i].key) = w[i]
                                       /\ BucketOf(penalties, penalties[i].key) = penalties[i]
    <3>1. PICK b : b = penalties
      OBVIOUS
    <3>2. b \in Seq(PenaltyBuckets) /\ Distinct(b) /\ w \in [DOMAIN b -> PenaltyBuckets]
      BY <1>1, <2>3, <2>4, <3>1
    <3>3. \A i \in DOMAIN b : w[i].key = b[i].key
      BY <2>3, <3>1
    <3>4. /\ w \in Seq(PenaltyBuckets) /\ Distinct(w) /\ Len(w) = Len(b) /\ KeysOf(w) = KeysOf(b)
          /\ \A i \in DOMAIN b : BucketOf(w, b[i].key) = w[i] /\ BucketOf(b, b[i].key) = b[i]
      BY <3>2, <3>3, MapKeys
    <3>5. QED
      BY <3>1, <3>4
  <2>6. ASSUME NEW e
        PROVE  Credit(w, e, FailureBurst) = IF e = k THEN Less(Credit(penalties, e, FailureBurst))
                                            ELSE Credit(penalties, e, FailureBurst)
    <3>1. CASE e \in KeysOf(penalties)
      <4>1. PICK i \in DOMAIN penalties : penalties[i].key = e
        BY <3>1 DEF KeysOf
      <4>2. BucketOf(w, e) = w[i] /\ BucketOf(penalties, e) = penalties[i]
        BY <2>5, <4>1
      <4>3. QED
        BY <2>3, <2>5, <3>1, <4>1, <4>2 DEF Credit
    <3>2. CASE e \notin KeysOf(penalties)
      BY <1>3, <2>5, <3>2 DEF Credit
    <3>3. QED
      BY <3>1, <3>2
  <2>7. QED
    BY <1>1, <2>1, <2>2, <2>5, <2>6 DEF Charged
<1>4. CASE k \notin KeysOf(penalties)
  <2> DEFINE swept == IF Len(penalties) >= MaxEntries THEN Without(penalties, Full) ELSE penalties
             x     == [key |-> k, tokens |-> FailureBurst - 1]
  <2>1. /\ penalties' = Append(Without(swept, Oldest(swept)), x)
        /\ Forget("penalties", swept, Oldest(swept), FailureBurst)
    BY <1>4 DEF ChargePenalty
  <2>2. /\ swept \in Seq(PenaltyBuckets) /\ Distinct(swept) /\ k \notin KeysOf(swept)
        /\ \A e : Credit(swept, e, FailureBurst) = Credit(penalties, e, FailureBurst)
    <3>1. CASE Len(penalties) >= MaxEntries
      <4>1. PICK w : w = Without(penalties, Full)
        OBVIOUS
      <4>2. w \in Seq(PenaltyBuckets) /\ Distinct(w) /\ KeysOf(w) = KeysOf(penalties) \ Full
        BY <1>1, <4>1, WithoutKeys
      <4>3. \A e : Credit(w, e, FailureBurst) = Credit(penalties, e, FailureBurst)
        <5>1. \A e \in Full \cap KeysOf(penalties) : BucketOf(penalties, e).tokens = FailureBurst
          BY DEF Full
        <5>2. QED
          BY <1>1, <4>1, <5>1, SweepIsFree
      <4>4. swept = w
        BY <3>1, <4>1
      <4>5. QED
        BY <1>4, <4>2, <4>3, <4>4
    <3>2. CASE ~(Len(penalties) >= MaxEntries)
      BY <1>1, <1>4, <3>2
    <3>3. QED
      BY <3>1, <3>2
  <2>3. x \in PenaltyBuckets /\ x.key = k /\ x.tokens = FailureBurst - 1
    BY <1>2 DEF PenaltyBuckets
  <2> HIDE DEF swept, x
  <2>4. PICK b, w, f, g : /\ b = swept /\ w = penalties'
                         /\ f = forgotten["penalties"] /\ g = forgotten'["penalties"]
    OBVIOUS
  <2>5. /\ forgotten' \in [{"penalties", "registry"} -> [Remotes -> Nat]]
        /\ forgotten'["registry"] = forgotten["registry"]
        /\ f \in [Remotes -> Nat] /\ g \in [Remotes -> Nat]
        /\ \A e \in Remotes :
             g[e] = f[e] + (IF e \in Losing(b, Oldest(b), FailureBurst) THEN 1 ELSE 0)
    <3>2. PICK out : out = Oldest(b)
      OBVIOUS
    <3>1. Forget("penalties", b, out, FailureBurst)
      BY <2>1, <2>4, <3>2
    <3>3. /\ forgotten' \in [{"penalties", "registry"} -> [Remotes -> Nat]]
          /\ \A other \in {"penalties", "registry"} \ {"penalties"} : forgotten'[other] = forgotten[other]
          /\ \A e \in Remotes : forgotten'["penalties"][e] = forgotten["penalties"][e]
                                 + (IF e \in Losing(b, out, FailureBurst) THEN 1 ELSE 0)
      BY <1>1, <3>1, ForgetParts
    <3>4. "registry" \in {"penalties", "registry"} \ {"penalties"}
      OBVIOUS
    <3>5. QED
      BY <1>1, <2>4, <3>2, <3>3, <3>4
  <2>10. /\ w \in Seq(PenaltyBuckets) /\ Distinct(w) /\ Len(w) <= MaxEntries
         /\ Credit(w, k, FailureBurst) = FailureBurst - 1 /\ g[k] = f[k]
         /\ \A e \in Remotes \ {k} :
              \/ g[e] = f[e] /\ Credit(w, e, FailureBurst) = Credit(b, e, FailureBurst)
              \/ g[e] = f[e] + 1 /\ Credit(w, e, FailureBurst) = FailureBurst
    <3>1. b \in Seq(PenaltyBuckets) /\ Distinct(b) /\ x.key \notin KeysOf(b)
      BY <2>2, <2>3, <2>4
    <3>2. w = Append(Without(b, Oldest(b)), x)
      BY <2>1, <2>4
    <3>5. PICK y : y = x
      OBVIOUS
    <3>6. y \in PenaltyBuckets /\ y.key \notin KeysOf(b) /\ w = Append(Without(b, Oldest(b)), y)
      BY <2>3, <3>1, <3>2, <3>5
    <3>7. CountedFor(f, g, Losing(b, Oldest(b), FailureBurst))
      BY <2>5 DEF CountedFor
    <3>3. RoomMade(PenaltyBuckets, b, y, w, f, g, FailureBurst)
      BY <1>2, <3>1, <3>6, <3>7, Evict
    <3>4. QED
      BY <2>3, <3>3, <3>5 DEF RoomMade
  <2>6. Credit(penalties, k, FailureBurst) = FailureBurst
    BY <1>4 DEF Credit
  <2>7. Less(FailureBurst) = FailureBurst - 1
    BY <1>2 DEF Less
  <2>8. \A e : Credit(b, e, FailureBurst) = Credit(penalties, e, FailureBurst)
    BY <2>2, <2>4
  <2>9. QED
    BY <2>4, <2>5, <2>6, <2>7, <2>8, <2>10 DEF Charged
<1>5. QED
  BY <1>3, <1>4

\* What a bucket of the registry holds is at least what has accrued since it was used.
Accrued(e) == e.seen <= ticks /\ (e.tokens = Burst \/ e.tokens >= ticks - e.seen)

\* What tryTake comes to: k pays a token if it has one, and is answered by that.
TakenFrom(k, allowed) ==
  /\ registry' \in Seq(RegistryBuckets) /\ Len(registry') <= MaxEntries /\ Distinct(registry')
  /\ \A i \in DOMAIN registry' : Accrued(registry'[i])
  /\ forgotten' \in [{"penalties", "registry"} -> [Remotes -> Nat]]
  /\ forgotten'["penalties"] = forgotten["penalties"]
  /\ Charged(registry, registry', forgotten["registry"], forgotten'["registry"], k, Burst)
  /\ allowed = (Credit(registry, k, Burst) >= 1)
  /\ taken' = [taken EXCEPT ![k] = IF allowed THEN @ + 1 ELSE @]

\* A bucket that is there is moved to the end.
LEMMA TakeKnown ==
  ASSUME TokenInv, NEW k \in Remotes, NEW allowed, TakeFromRegistry(k, allowed), k \in KeysOf(registry)
  PROVE  TakenFrom(k, allowed)
<1>1. /\ registry \in Seq(RegistryBuckets) /\ Len(registry) <= MaxEntries /\ Distinct(registry)
      /\ forgotten \in [{"penalties", "registry"} -> [Remotes -> Nat]]
      /\ \A i \in DOMAIN registry : Accrued(registry[i])
      /\ ticks \in 0 .. MaxTicks
  BY DEF TokenInv, BoxesOK, TokensOK, Refilling, Accrued
<1>2. Burst \in Nat /\ Burst >= 1 /\ MaxTicks \in Nat /\ Buckets(RegistryBuckets, Burst)
  BY BucketTypes, ServeGateAssumption
<1>3. PICK b, now : b = registry /\ now = ticks
  OBVIOUS
<1>4. PICK i \in DOMAIN b : BucketOf(b, k) = b[i] /\ b[i] \in RegistryBuckets /\ b[i].key = k
  BY <1>1, <1>3, BucketParts
<1>5. b[i].tokens \in 0 .. Burst /\ b[i] = [key |-> k, tokens |-> b[i].tokens, seen |-> b[i].seen]
  BY <1>4 DEF RegistryBuckets
<1>6. PICK n : n = b[i].tokens
  OBVIOUS
<1>7. PICK z : z = [key |-> k, tokens |-> Less(n), seen |-> now]
  OBVIOUS
<1>8. z \in RegistryBuckets /\ z.key = k /\ z.tokens = Less(n) /\ z.seen = now /\ Accrued(z)
  <2>1. Less(n) \in 0 .. Burst /\ Less(n) >= now - now
    BY <1>1, <1>2, <1>3, <1>5, <1>6 DEF Less
  <2>2. now \in 0 .. MaxTicks
    BY <1>1, <1>3
  <2>3. QED
    BY <1>2, <1>3, <1>7, <2>1, <2>2 DEF RegistryBuckets, Accrued
<1>9. /\ registry' = Append(Without(b, {k}), z)
      /\ allowed = (n >= 1)
      /\ \E s : Forget("registry", s, {}, Burst)
      /\ taken' = [taken EXCEPT ![k] = IF allowed THEN @ + 1 ELSE @]
  <2> DEFINE idle == {e \in KeysOf(registry) : ticks - BucketOf(registry, e).seen >= IdleTicks}
             y    == [BucketOf(b, k) EXCEPT !.seen = now]
  <2>1. PICK s : s = Without(registry, idle)
    OBVIOUS
  <2>2. /\ allowed = (y.tokens >= 1)
        /\ registry' = Append(Without(b, {k}), [y EXCEPT !.tokens = Max({0, @ - 1})])
        /\ Forget("registry", s, {}, Burst)
        /\ taken' = [taken EXCEPT ![k] = IF allowed THEN @ + 1 ELSE @]
    BY <1>3, <2>1 DEF TakeFromRegistry
  <2>3. y = [key |-> k, tokens |-> n, seen |-> now]
    BY <1>4, <1>5, <1>6
  <2>4. Max({0, n - 1}) = Less(n)
    BY <1>2, <1>5, <1>6, NotBelowZero DEF Less
  <2> HIDE DEF y
  <2>5. y.tokens = n /\ [y EXCEPT !.tokens = Max({0, @ - 1})] = z
    BY <1>7, <2>3, <2>4
  <2>6. QED
    BY <2>2, <2>5
<1>10. PICK v : v = Without(b, {k})
  OBVIOUS
<1>11. /\ v \in Seq(RegistryBuckets) /\ Distinct(v)
       /\ KeysOf(v) = KeysOf(b) \ {k}
       /\ \A e \in KeysOf(b) \ {k} : BucketOf(v, e) = BucketOf(b, e)
       /\ \A j \in DOMAIN v : \E m \in DOMAIN b : v[j] = b[m]
  <2>1. b \in Seq(RegistryBuckets) /\ Distinct(b)
    BY <1>1, <1>3
  <2>2. PICK only : only = {k}
    OBVIOUS
  <2>3. v = Without(b, only)
    BY <1>10, <2>2
  <2>4. /\ v \in Seq(RegistryBuckets) /\ Distinct(v)
        /\ KeysOf(v) = KeysOf(b) \ only
        /\ \A e \in KeysOf(b) \ only : BucketOf(v, e) = BucketOf(b, e)
        /\ \A j \in DOMAIN v : \E m \in DOMAIN b : v[j] = b[m]
    BY <2>1, <2>3, WithoutKeys
  <2>5. QED
    BY <2>2, <2>4
<1>12. Len(v) <= Len(b) - 1 /\ Len(b) \in Nat /\ Len(v) \in Nat
  <2>1. i \in 1 .. Len(b) /\ i \in i .. i /\ b \in Seq(RegistryBuckets) /\ Len(b) \in Nat
    BY <1>1, <1>3, <1>4
  <2>2. i \in i .. Len(b) /\ \A m \in i .. i : b[m].key \in {k}
    BY <1>4, <2>1
  <2>3. Len(v) <= Len(b) - (i - i + 1)
    BY <1>10, <2>1, <2>2, WithoutShortens
  <2>4. Len(v) \in Nat
    BY <1>11
  <2>5. QED
    BY <2>1, <2>3, <2>4
<1>13. PICK w : w = registry'
  OBVIOUS
<1>14. /\ w \in Seq(RegistryBuckets) /\ Distinct(w) /\ Len(w) = Len(v) + 1
       /\ KeysOf(w) = KeysOf(v) \cup {k}
       /\ BucketOf(w, k) = z
       /\ \A e \in KeysOf(v) : BucketOf(w, e) = BucketOf(v, e)
       /\ \A j \in DOMAIN w : w[j] = z \/ \E m \in DOMAIN v : w[j] = v[m]
  <2>1. z.key \notin KeysOf(v) /\ w = Append(v, z)
    BY <1>8, <1>9, <1>10, <1>11, <1>13
  <2>2. /\ w \in Seq(RegistryBuckets) /\ Distinct(w) /\ Len(w) = Len(v) + 1
        /\ KeysOf(w) = KeysOf(v) \cup {z.key}
        /\ BucketOf(w, z.key) = z
        /\ \A e \in KeysOf(v) : BucketOf(w, e) = BucketOf(v, e)
        /\ \A j \in DOMAIN w : w[j] = z \/ \E m \in DOMAIN v : w[j] = v[m]
    BY <1>8, <1>11, <2>1, AppendKeys
  <2>3. QED
    BY <1>8, <2>2
<1>15. Len(w) <= MaxEntries
  BY <1>1, <1>3, <1>12, <1>14, ServeGateAssumption
<1>16. \A j \in DOMAIN w : Accrued(w[j])
  BY <1>1, <1>3, <1>8, <1>11, <1>14
<1>17. forgotten' \in [{"penalties", "registry"} -> [Remotes -> Nat]] /\ forgotten' = forgotten
  <2>1. PICK s : Forget("registry", s, {}, Burst)
    BY <1>9
  <2>2. Losing(s, {}, Burst) = {}
    BY DEF Losing
  <2>3. PICK none : none = {}
    OBVIOUS
  <2>4. Forget("registry", s, none, Burst) /\ Losing(s, none, Burst) = {}
    BY <2>1, <2>2, <2>3
  <2>5. /\ forgotten' \in [{"penalties", "registry"} -> [Remotes -> Nat]]
        /\ \A other \in {"penalties", "registry"} \ {"registry"} : forgotten'[other] = forgotten[other]
        /\ \A e \in Remotes : forgotten'["registry"][e] = forgotten["registry"][e]
                               + (IF e \in Losing(s, none, Burst) THEN 1 ELSE 0)
    BY <1>1, <2>4, ForgetParts
  <2>6. \A e \in Remotes : forgotten'["registry"][e] = forgotten["registry"][e]
    <3> SUFFICES ASSUME NEW e \in Remotes PROVE forgotten'["registry"][e] = forgotten["registry"][e]
      OBVIOUS
    <3>1. forgotten["registry"][e] \in Nat
      BY <1>1
    <3>2. QED
      BY <2>4, <2>5, <3>1
  <2>7. PICK f, g : f = forgotten["registry"] /\ g = forgotten'["registry"]
    OBVIOUS
  <2>8. f \in [Remotes -> Nat] /\ g \in [Remotes -> Nat] /\ \A e \in Remotes : g[e] = f[e]
    BY <1>1, <2>5, <2>6, <2>7
  <2>9. f = g
    BY <2>8
  <2>10. forgotten'["penalties"] = forgotten["penalties"] /\ forgotten'["registry"] = forgotten["registry"]
    <3>1. "penalties" \in {"penalties", "registry"} \ {"registry"}
      OBVIOUS
    <3>2. QED
      BY <2>5, <2>7, <2>9, <3>1
  <2>11. PICK old, new : old = forgotten /\ new = forgotten'
    OBVIOUS
  <2>12. old = new
    <3>1. /\ old \in [{"penalties", "registry"} -> [Remotes -> Nat]]
          /\ new \in [{"penalties", "registry"} -> [Remotes -> Nat]]
      BY <1>1, <2>5, <2>11
    <3>2. old["penalties"] = new["penalties"] /\ old["registry"] = new["registry"]
      BY <2>10, <2>11
    <3>3. \A box \in {"penalties", "registry"} : old[box] = new[box]
      BY <3>2
    <3>4. QED
      BY <3>1, <3>3
  <2>13. QED
    BY <2>5, <2>11, <2>12
<1>18. k \in KeysOf(b) /\ Credit(b, k, Burst) = n
  BY <1>3, <1>4, <1>6 DEF Credit
<1>19. Credit(w, k, Burst) = Less(n)
  BY <1>8, <1>14 DEF Credit
<1>20. \A e : e # k => Credit(w, e, Burst) = Credit(b, e, Burst)
  <2> SUFFICES ASSUME NEW e, e # k PROVE Credit(w, e, Burst) = Credit(b, e, Burst)
    OBVIOUS
  <2>1. e \in KeysOf(w) <=> e \in KeysOf(b)
    BY <1>11, <1>14
  <2>2. e \in KeysOf(b) => BucketOf(w, e) = BucketOf(b, e)
    BY <1>11, <1>14
  <2>3. QED
    BY <2>1, <2>2 DEF Credit
<1>21. Charged(b, w, forgotten["registry"], forgotten'["registry"], k, Burst)
  BY <1>17, <1>18, <1>19, <1>20 DEF Charged
<1>22. QED
  BY <1>3, <1>9, <1>13, <1>14, <1>15, <1>16, <1>17, <1>18, <1>21 DEF TakenFrom

\* A first use: what is idle long enough to be swept is full.
LEMMA TakeNew ==
  ASSUME TokenInv, NEW k \in Remotes, NEW allowed, TakeFromRegistry(k, allowed), k \notin KeysOf(registry)
  PROVE  TakenFrom(k, allowed)
<1>1. /\ registry \in Seq(RegistryBuckets) /\ Len(registry) <= MaxEntries /\ Distinct(registry)
      /\ forgotten \in [{"penalties", "registry"} -> [Remotes -> Nat]]
      /\ \A i \in DOMAIN registry : Accrued(registry[i])
      /\ ticks \in 0 .. MaxTicks
  BY DEF TokenInv, BoxesOK, TokensOK, Refilling, Accrued
<1>2. Burst \in Nat /\ Burst >= 1 /\ MaxTicks \in Nat /\ Buckets(RegistryBuckets, Burst)
  BY BucketTypes, ServeGateAssumption
<1>3. PICK b, now, idle : /\ b = registry /\ now = ticks
                          /\ idle = {e \in KeysOf(registry) : ticks - BucketOf(registry, e).seen >= IdleTicks}
  OBVIOUS
<1>4. b \in Seq(RegistryBuckets) /\ Distinct(b) /\ k \notin KeysOf(b) /\ now \in 0 .. MaxTicks
  BY <1>1, <1>3
<1>5. \A e \in idle \cap KeysOf(b) : BucketOf(b, e).tokens = Burst
  <2> SUFFICES ASSUME NEW e \in idle \cap KeysOf(b) PROVE BucketOf(b, e).tokens = Burst
    OBVIOUS
  <2>1. PICK i \in DOMAIN b : BucketOf(b, e) = b[i] /\ b[i] \in RegistryBuckets
    BY <1>4, BucketParts
  <2>2. now - b[i].seen >= IdleTicks
    BY <1>3, <2>1
  <2>3. b[i].tokens \in 0 .. Burst /\ b[i].seen \in 0 .. MaxTicks
    BY <2>1 DEF RegistryBuckets
  <2>4. b[i].tokens = Burst \/ b[i].tokens >= now - b[i].seen
    BY <1>1, <1>3, <2>1 DEF Accrued
  <2>5. IdleTicks \in Nat /\ IdleTicks >= Burst
    BY ServeGateAssumption
  <2>6. b[i].tokens = Burst
    BY <1>2, <1>4, <2>2, <2>3, <2>4, <2>5
  <2>7. QED
    BY <2>1, <2>6
<1>6. PICK s : s = Without(b, idle)
  OBVIOUS
<1>7. /\ s \in Seq(RegistryBuckets) /\ Distinct(s) /\ k \notin KeysOf(s)
      /\ \A j \in DOMAIN s : \E i \in DOMAIN b : s[j] = b[i]
  <2>1. /\ s \in Seq(RegistryBuckets) /\ Distinct(s)
        /\ KeysOf(s) = KeysOf(b) \ idle
        /\ \A j \in DOMAIN s : \E i \in DOMAIN b : s[j] = b[i]
    BY <1>4, <1>6, WithoutKeys
  <2>2. QED
    BY <1>4, <2>1
<1>8. \A e : Credit(s, e, Burst) = Credit(b, e, Burst)
  BY <1>4, <1>5, <1>6, SweepIsFree
<1>9. PICK z : z = [key |-> k, tokens |-> Burst - 1, seen |-> now]
  OBVIOUS
<1>10. z \in RegistryBuckets /\ z.key = k /\ z.tokens = Burst - 1 /\ Accrued(z)
  <2>1. Burst - 1 \in 0 .. Burst /\ Burst - 1 >= now - now /\ now <= now
    BY <1>2, <1>4
  <2>2. QED
    BY <1>3, <1>4, <1>9, <2>1 DEF RegistryBuckets, Accrued
<1>11. /\ registry' = Append(Without(s, Oldest(s)), z)
       /\ allowed = (Burst >= 1)
       /\ Forget("registry", s, Oldest(s), Burst)
       /\ taken' = [taken EXCEPT ![k] = IF allowed THEN @ + 1 ELSE @]
  <2> DEFINE y == [key |-> k, tokens |-> Burst, seen |-> now]
  <2>1. /\ allowed = (y.tokens >= 1)
        /\ registry' = Append(Without(s, Oldest(s)), [y EXCEPT !.tokens = Max({0, @ - 1})])
        /\ Forget("registry", s, Oldest(s), Burst)
        /\ taken' = [taken EXCEPT ![k] = IF allowed THEN @ + 1 ELSE @]
    BY <1>3, <1>6 DEF TakeFromRegistry
  <2>2. Max({0, Burst - 1}) = Burst - 1
    BY <1>2, NotBelowZero
  <2>3. y.tokens = Burst /\ [y EXCEPT !.tokens = Max({0, @ - 1})] = z
    BY <1>9, <2>2
  <2> HIDE DEF y
  <2>4. QED
    BY <2>1, <2>3
<1>12. PICK w, f, g, out : /\ w = registry' /\ out = Oldest(s)
                           /\ f = forgotten["registry"] /\ g = forgotten'["registry"]
  OBVIOUS
<1>13. /\ forgotten' \in [{"penalties", "registry"} -> [Remotes -> Nat]]
       /\ forgotten'["penalties"] = forgotten["penalties"]
       /\ CountedFor(f, g, Losing(s, Oldest(s), Burst))
  <2>1. Forget("registry", s, out, Burst)
    BY <1>11, <1>12
  <2>2. /\ forgotten' \in [{"penalties", "registry"} -> [Remotes -> Nat]]
        /\ \A other \in {"penalties", "registry"} \ {"registry"} : forgotten'[other] = forgotten[other]
        /\ \A e \in Remotes : forgotten'["registry"][e] = forgotten["registry"][e]
                               + (IF e \in Losing(s, out, Burst) THEN 1 ELSE 0)
    BY <1>1, <2>1, ForgetParts
  <2>3. "penalties" \in {"penalties", "registry"} \ {"registry"}
    OBVIOUS
  <2>4. QED
    BY <1>1, <1>12, <2>2, <2>3 DEF CountedFor
<1>14. RoomMade(RegistryBuckets, s, z, w, f, g, Burst)
  <2>1. w = Append(Without(s, Oldest(s)), z) /\ z.key \notin KeysOf(s)
    BY <1>7, <1>10, <1>11, <1>12
  <2>2. QED
    BY <1>2, <1>7, <1>10, <1>13, <2>1, Evict
<1>15. /\ w \in Seq(RegistryBuckets) /\ Distinct(w) /\ Len(w) <= MaxEntries
       /\ \A j \in DOMAIN w : w[j] = z \/ \E i \in DOMAIN s : w[j] = s[i]
       /\ Credit(w, k, Burst) = Burst - 1 /\ g[k] = f[k]
       /\ \A e \in Remotes \ {k} :
            \/ g[e] = f[e] /\ Credit(w, e, Burst) = Credit(s, e, Burst)
            \/ g[e] = f[e] + 1 /\ Credit(w, e, Burst) = Burst
  BY <1>10, <1>14 DEF RoomMade
<1>16. \A j \in DOMAIN w : Accrued(w[j])
  <2>1. \A i \in DOMAIN b : Accrued(b[i])
    BY <1>1, <1>3
  <2>2. \A j \in DOMAIN s : Accrued(s[j])
    <3> SUFFICES ASSUME NEW j \in DOMAIN s PROVE Accrued(s[j])
      OBVIOUS
    <3>1. PICK i \in DOMAIN b : s[j] = b[i]
      BY <1>7
    <3>2. QED
      BY <2>1, <3>1
  <2>3. SUFFICES ASSUME NEW j \in DOMAIN w PROVE Accrued(w[j])
    OBVIOUS
  <2>4. w[j] = z \/ \E i \in DOMAIN s : w[j] = s[i]
    BY <1>15
  <2>5. QED
    BY <1>10, <2>2, <2>4
<1>17. Credit(b, k, Burst) = Burst /\ Less(Burst) = Burst - 1
  BY <1>2, <1>4 DEF Credit, Less
<1>18. Charged(b, w, f, g, k, Burst)
  BY <1>8, <1>15, <1>17 DEF Charged
<1>19. QED
  BY <1>3, <1>11, <1>12, <1>13, <1>15, <1>16, <1>17, <1>18 DEF TakenFrom

LEMMA LowerOfTwo ==
  ASSUME NEW m \in Int, NEW n \in Int
  PROVE  Min({m, n}) = IF m <= n THEN m ELSE n
<1>1. \E x \in {m, n} : \A y \in {m, n} : x <= y
  OBVIOUS
<1>2. Min({m, n}) \in {m, n} /\ \A y \in {m, n} : Min({m, n}) <= y
  BY <1>1 DEF Min
<1>3. QED
  BY <1>2

\* A tick fills a bucket by a token, and none over its capacity.
FilledFrom(w, b, S, capacity) ==
  /\ w \in Seq(S) /\ Distinct(w) /\ Len(w) = Len(b)
  /\ \A k : /\ Credit(w, k, capacity) <= Credit(b, k, capacity) + 1
            /\ Credit(w, k, capacity) >= Credit(b, k, capacity)
  /\ \A i \in DOMAIN b :
       w[i] = [b[i] EXCEPT !.tokens = IF b[i].tokens = capacity THEN capacity ELSE b[i].tokens + 1]

LEMMA RefillKeeps ==
  ASSUME NEW S, NEW b \in Seq(S), Distinct(b), NEW capacity \in Nat, Buckets(S, capacity)
  PROVE  FilledFrom(Refilled(b, capacity), b, S, capacity)
<1>1. PICK w : w = Refilled(b, capacity)
  OBVIOUS
<1>2. ASSUME NEW n \in 0 .. capacity PROVE Min({capacity, n + 1}) = IF n = capacity THEN capacity ELSE n + 1
  <2>1. Min({capacity, n + 1}) = IF capacity <= n + 1 THEN capacity ELSE n + 1
    BY LowerOfTwo
  <2>2. QED
    BY <2>1
<1> DEFINE more(n) == IF n = capacity THEN capacity ELSE n + 1
<1>3. ASSUME NEW i \in DOMAIN b
      PROVE  /\ b[i] \in S /\ b[i].tokens \in 0 .. capacity
             /\ w[i] = [b[i] EXCEPT !.tokens = more(b[i].tokens)]
             /\ w[i] \in S /\ w[i].key = b[i].key /\ w[i].tokens = more(b[i].tokens)
  <2>1. b[i] \in S
    OBVIOUS
  <2>2. b[i].tokens \in 0 .. capacity
    BY <2>1 DEF Buckets
  <2>3. w[i] = [b[i] EXCEPT !.tokens = Min({capacity, @ + 1})]
    BY <1>1 DEF Refilled
  <2>4. w[i] = [b[i] EXCEPT !.tokens = more(b[i].tokens)]
    BY <1>2, <2>2, <2>3
  <2>5. more(b[i].tokens) \in 0 .. capacity
    BY <2>2
  <2> HIDE DEF more
  <2>6. w[i] \in S
    BY <2>1, <2>4, <2>5 DEF Buckets
  <2>7. QED
    BY <2>1, <2>2, <2>4, <2>6
<1>4. w \in [DOMAIN b -> S]
  BY <1>1, <1>3 DEF Refilled
<1>5. /\ w \in Seq(S) /\ Distinct(w) /\ Len(w) = Len(b) /\ KeysOf(w) = KeysOf(b)
      /\ \A i \in DOMAIN b : BucketOf(w, b[i].key) = w[i] /\ BucketOf(b, b[i].key) = b[i]
  <2>1. \A i \in DOMAIN b : w[i].key = b[i].key
    BY <1>3
  <2>2. QED
    BY <1>4, <2>1, MapKeys
<1>6. ASSUME NEW k PROVE /\ Credit(w, k, capacity) <= Credit(b, k, capacity) + 1
                         /\ Credit(w, k, capacity) >= Credit(b, k, capacity)
  <2>1. CASE k \in KeysOf(b)
    <3>1. PICK i \in DOMAIN b : b[i].key = k
      BY <2>1 DEF KeysOf
    <3>2. Credit(w, k, capacity) = w[i].tokens /\ Credit(b, k, capacity) = b[i].tokens
      BY <1>5, <2>1, <3>1 DEF Credit
    <3>3. w[i].tokens = more(b[i].tokens) /\ b[i].tokens \in 0 .. capacity
      BY <1>3
    <3>4. QED
      BY <3>2, <3>3
  <2>2. CASE k \notin KeysOf(b)
    BY <1>5, <2>2 DEF Credit
  <2>3. QED
    BY <2>1, <2>2
<1>7. QED
  BY <1>1, <1>3, <1>5, <1>6 DEF FilledFrom

------------------------------------------------------------------------------
(***************************************************************************)
(* What the steps do to the balance, to the gates and to who waits.        *)
(***************************************************************************)
LEMMA OneBurstMore ==
  ASSUME NEW f \in Nat, NEW burst \in Nat
  PROVE  (1 + f) * burst \in Nat /\ (1 + (f + 1)) * burst = (1 + f) * burst + burst
OBVIOUS

\* What was given covers what was taken and what is left.
Covers(f, p, b, capacity, t) ==
  \A e \in Remotes : p[e] + Credit(b, e, capacity) <= (1 + f[e]) * capacity + t

\* From p to q, k alone takes, and only what it has.
Pays(p, q, b, k, capacity) ==
  /\ \A e \in Remotes : p[e] \in Nat /\ q[e] \in Nat
  /\ \A e \in Remotes : Credit(b, e, capacity) \in 0 .. capacity
  /\ \A e \in Remotes \ {k} : q[e] = p[e]
  /\ q[k] <= p[k] + Weight(Credit(b, k, capacity) >= 1)

\* A charge of k pays for what is counted as taken, and an eviction is paid for
\* by the burst that it is counted for.
LEMMA ChargedBalance ==
  ASSUME NEW b, NEW w, NEW k \in Remotes, NEW capacity \in Nat, NEW t \in Nat,
         NEW f \in [Remotes -> Nat], NEW g \in [Remotes -> Nat],
         Charged(b, w, f, g, k, capacity),
         NEW p, NEW q, Pays(p, q, b, k, capacity), Covers(f, p, b, capacity, t)
  PROVE  Covers(g, q, w, capacity, t)
<1> SUFFICES ASSUME NEW e \in Remotes
             PROVE  q[e] + Credit(w, e, capacity) <= (1 + g[e]) * capacity + t
  BY DEF Covers
<1>1. PICK m, n, x, y, u, v :
        /\ m = (1 + f[e]) * capacity /\ n = (1 + g[e]) * capacity
        /\ x = Credit(b, e, capacity) /\ y = Credit(w, e, capacity)
        /\ u = p[e] /\ v = q[e]
  OBVIOUS
<1>2. /\ m \in Nat /\ (g[e] = f[e] => n = m)
      /\ g[e] = f[e] + 1 => n = m + capacity
  BY <1>1, OneBurstMore
<1>3. u \in Nat /\ v \in Nat /\ x \in Nat /\ x <= capacity /\ u + x <= m + t
  BY <1>1 DEF Pays, Covers
<1>4. CASE e = k
  <2>1. g[e] = f[e] /\ y = Less(x) /\ v <= u + Weight(x >= 1)
    BY <1>1, <1>4 DEF Charged, Pays
  <2>2. n = m
    BY <1>2, <2>1
  <2>3. v + y <= m + t
    <3>1. CASE x >= 1
      <4>1. y = x - 1 /\ v <= u + 1
        BY <2>1, <3>1 DEF Less, Weight
      <4>2. QED
        BY <1>2, <1>3, <4>1
    <3>2. CASE ~(x >= 1)
      <4>1. y = 0 /\ x = 0 /\ v <= u + 0
        BY <1>3, <2>1, <3>2 DEF Less, Weight
      <4>2. QED
        BY <1>2, <1>3, <4>1
    <3>3. QED
      BY <3>1, <3>2
  <2>4. QED
    BY <1>1, <2>2, <2>3
<1>5. CASE e # k
  <2>1. u = v
    BY <1>1, <1>5 DEF Pays
  <2>2. (g[e] = f[e] /\ y = x) \/ (g[e] = f[e] + 1 /\ y = capacity)
    BY <1>1, <1>5 DEF Charged
  <2>3. v + y <= n + t
    <3>1. CASE g[e] = f[e] /\ y = x
      <4>1. n = m
        BY <1>2, <3>1
      <4>2. QED
        BY <1>3, <2>1, <3>1, <4>1
    <3>2. CASE g[e] = f[e] + 1 /\ y = capacity
      <4>1. n = m + capacity
        BY <1>2, <3>2
      <4>2. u <= m + t
        BY <1>2, <1>3
      <4>3. QED
        BY <1>2, <1>3, <2>1, <3>2, <4>1, <4>2
    <3>3. QED
      BY <2>2, <3>1, <3>2
  <2>4. QED
    BY <1>1, <2>3
<1>6. QED
  BY <1>4, <1>5

LEMMA NobodyParts == Nobody \in Kind /\ Kinds \cup {Nobody} \subseteq Kind
<1>1. \E r \in Remotes : TRUE
  BY ServeGateAssumption
<1>2. (CHOOSE r \in Remotes : TRUE) \in Remotes
  BY <1>1
<1>3. QED
  BY <1>2, ServeGateAssumption DEF Nobody, Kind, Routes

LEMMA RemoteAt ==
  ASSUME RequestsOK, NEW c \in Conns
  PROVE  conn[c].kind.remote \in Remotes /\ conn[c].kind.user \in Users \cup {None}
<1>1. conn[c].kind \in Kind
  BY NobodyParts DEF RequestsOK, Requests
<1>2. QED
  BY <1>1 DEF Kind

LEMMA Credits ==
  ASSUME BoxesOK
  PROVE  \A k : /\ Credit(penalties, k, FailureBurst) \in 0 .. FailureBurst
                /\ Credit(registry, k, Burst) \in 0 .. Burst
                /\ PenaltyAllows(k) <=> Credit(penalties, k, FailureBurst) >= 1
<1> SUFFICES ASSUME NEW k
             PROVE  /\ Credit(penalties, k, FailureBurst) \in 0 .. FailureBurst
                    /\ Credit(registry, k, Burst) \in 0 .. Burst
                    /\ PenaltyAllows(k) <=> Credit(penalties, k, FailureBurst) >= 1
  OBVIOUS
<1>1. PICK b, w : b = penalties /\ w = registry
  OBVIOUS
<1>2. /\ b \in Seq(PenaltyBuckets) /\ Distinct(b) /\ w \in Seq(RegistryBuckets) /\ Distinct(w)
  BY <1>1 DEF BoxesOK
<1>3. Credit(b, k, FailureBurst) \in 0 .. FailureBurst
  BY <1>2, BucketTypes, CreditParts
<1>4. Credit(w, k, Burst) \in 0 .. Burst
  BY <1>2, BucketTypes, CreditParts
<1>5. PenaltyAllows(k) <=> Credit(b, k, FailureBurst) >= 1
  BY <1>1, BucketTypes DEF PenaltyAllows, Credit
<1>6. QED
  BY <1>1, <1>3, <1>4, <1>5

LEMMA TokensStay ==
  ASSUME TokenInv, UNCHANGED <<limits, ticks, taken, failures, forgotten>>, served' \in 0 .. MaxRequests
  PROVE  TokenInv'
<1>1. UNCHANGED <<penalties, registry, principals, ticks, taken, failures, forgotten>>
  BY DEF limits
<1>2. BoxesOK' /\ Refilling'
  BY <1>1 DEF TokenInv, BoxesOK, Refilling
<1>3. TokensOK'
  BY <1>1 DEF TokenInv, TokensOK
<1>4. Balanced'
  BY <1>1 DEF TokenInv, Balanced
<1>5. QED
  BY <1>2, <1>3, <1>4 DEF TokenInv

LEMMA TokensTaken ==
  ASSUME TokenInv, NEW k \in Remotes, NEW allowed \in BOOLEAN, TakeFromRegistry(k, allowed),
         UNCHANGED <<penalties, principals, ticks, failures>>, served' \in 0 .. MaxRequests
  PROVE  TokenInv'
<1>1. TakenFrom(k, allowed)
  BY TakeKnown, TakeNew
<1>2. BoxesOK' /\ Refilling'
  BY <1>1 DEF TokenInv, TakenFrom, BoxesOK, Refilling, Accrued
<1>3. taken \in [Users \cup Remotes -> Nat] /\ k \in Users \cup Remotes
  BY DEF TokenInv, TokensOK
<1>4. /\ taken' \in [Users \cup Remotes -> Nat]
      /\ \A e \in (Users \cup Remotes) \ {k} : taken'[e] = taken[e]
      /\ taken'[k] <= taken[k] + Weight(Credit(registry, k, Burst) >= 1)
  <2>1. /\ taken' = [taken EXCEPT ![k] = IF allowed THEN @ + 1 ELSE @]
        /\ allowed = (Credit(registry, k, Burst) >= 1)
    BY <1>1 DEF TakenFrom
  <2>2. taken[k] \in Nat
    BY <1>3
  <2>3. PICK n : n = IF allowed THEN taken[k] + 1 ELSE taken[k]
    OBVIOUS
  <2>4. n \in Nat /\ n <= taken[k] + Weight(Credit(registry, k, Burst) >= 1)
    <3>1. CASE allowed
      <4>1. Credit(registry, k, Burst) >= 1
        BY <2>1, <3>1
      <4>2. Weight(Credit(registry, k, Burst) >= 1) = 1
        BY <4>1 DEF Weight
      <4>3. QED
        BY <2>2, <2>3, <3>1, <4>2
    <3>2. CASE ~allowed
      <4>1. Weight(Credit(registry, k, Burst) >= 1) \in {0, 1}
        BY DEF Weight
      <4>2. QED
        BY <2>2, <2>3, <3>2, <4>1
    <3>3. QED
      BY <3>1, <3>2
  <2>5. taken' = [taken EXCEPT ![k] = n]
    BY <2>1, <2>3
  <2>6. /\ taken' \in [Users \cup Remotes -> Nat] /\ taken'[k] = n
        /\ \A e \in (Users \cup Remotes) \ {k} : taken'[e] = taken[e]
    BY <1>3, <2>4, <2>5
  <2>7. QED
    BY <2>4, <2>6
<1>5. TokensOK'
  BY <1>1, <1>4 DEF TokenInv, TokensOK, TakenFrom
<1>6. Balanced'
  <2>1. PICK b, w, f, g, t, p, q :
          /\ b = registry /\ w = registry' /\ t = ticks /\ p = taken /\ q = taken'
          /\ f = forgotten["registry"] /\ g = forgotten'["registry"]
    OBVIOUS
  <2>2. f \in [Remotes -> Nat] /\ g \in [Remotes -> Nat] /\ t \in Nat /\ Burst \in Nat
    BY <1>1, <2>1, BucketTypes DEF TokenInv, TokensOK, TakenFrom
  <2>3. Charged(b, w, f, g, k, Burst)
    BY <1>1, <2>1 DEF TakenFrom
  <2>4. \A e \in Remotes : Credit(b, e, Burst) \in 0 .. Burst
    BY <2>1, Credits DEF TokenInv
  <2>5. Pays(p, q, b, k, Burst)
    BY <1>3, <1>4, <2>1, <2>4 DEF Pays
  <2>6. Covers(f, p, b, Burst, t)
    BY <2>1 DEF TokenInv, Balanced, Covers
  <2>7. Covers(g, q, w, Burst, t)
    BY <2>2, <2>3, <2>5, <2>6, ChargedBalance
  <2>8. \A u \in Users : taken'[u] = taken[u]
    BY <1>4, ServeGateAssumption
  <2>9. /\ \A u \in Users : taken'[u] + principals'[u] <= Burst + ticks'
        /\ forgotten'["penalties"] = forgotten["penalties"]
    BY <1>1, <2>8 DEF TokenInv, Balanced, TakenFrom
  <2>10. \A e \in Remotes : taken'[e] + Credit(registry', e, Burst)
                             <= (1 + forgotten'["registry"][e]) * Burst + ticks'
    BY <2>1, <2>7 DEF Covers
  <2>11. \A e \in Remotes : failures'[e] + Credit(penalties', e, FailureBurst)
                             <= (1 + forgotten'["penalties"][e]) * FailureBurst + ticks'
    BY <2>9 DEF TokenInv, Balanced
  <2>12. QED
    BY <2>9, <2>10, <2>11 DEF Balanced
<1>7. QED
  BY <1>2, <1>5, <1>6 DEF TokenInv

\* A failure is paid for, unless it overlapped another.
LEMMA TokensCharged ==
  ASSUME TokenInv, NEW k \in Remotes, NEW overlapped \in BOOLEAN, ChargePenalty(k),
         failures' = [failures EXCEPT ![k] = IF overlapped THEN @ ELSE @ + 1],
         overlapped \/ Credit(penalties, k, FailureBurst) >= 1,
         UNCHANGED <<principals, registry, ticks, served, taken>>
  PROVE  /\ TokenInv'
         /\ \A e \in Remotes \ {k} :
              \/ Credit(penalties', e, FailureBurst) = Credit(penalties, e, FailureBurst)
              \/ Credit(penalties', e, FailureBurst) = FailureBurst
<1>1. /\ penalties' \in Seq(PenaltyBuckets) /\ Len(penalties') <= MaxEntries
      /\ Distinct(penalties')
      /\ forgotten' \in [{"penalties", "registry"} -> [Remotes -> Nat]]
      /\ forgotten'["registry"] = forgotten["registry"]
      /\ Charged(penalties, penalties', forgotten["penalties"], forgotten'["penalties"], k, FailureBurst)
  BY ChargeKeeps
<1>2. BoxesOK' /\ Refilling'
  BY <1>1 DEF TokenInv, BoxesOK, Refilling
<1>3. failures \in [Remotes -> Nat]
  BY DEF TokenInv, TokensOK
<1>4. /\ failures' \in [Remotes -> Nat]
      /\ \A e \in Remotes \ {k} : failures'[e] = failures[e]
      /\ failures'[k] <= failures[k] + Weight(Credit(penalties, k, FailureBurst) >= 1)
  <2>1. failures[k] \in Nat
    BY <1>3
  <2>2. PICK n : n = IF overlapped THEN failures[k] ELSE failures[k] + 1
    OBVIOUS
  <2>3. n \in Nat /\ n <= failures[k] + Weight(Credit(penalties, k, FailureBurst) >= 1)
    BY <2>1, <2>2 DEF Weight
  <2>4. failures' = [failures EXCEPT ![k] = n]
    BY <2>2
  <2>5. /\ failures' \in [Remotes -> Nat] /\ failures'[k] = n
        /\ \A e \in Remotes \ {k} : failures'[e] = failures[e]
    BY <1>3, <2>3, <2>4
  <2>6. QED
    BY <2>3, <2>5
<1>5. TokensOK'
  BY <1>1, <1>4 DEF TokenInv, TokensOK
<1>6. Balanced'
  <2>1. PICK b, w, f, g, t, p, q :
          /\ b = penalties /\ w = penalties' /\ t = ticks /\ p = failures /\ q = failures'
          /\ f = forgotten["penalties"] /\ g = forgotten'["penalties"]
    OBVIOUS
  <2>2. f \in [Remotes -> Nat] /\ g \in [Remotes -> Nat] /\ t \in Nat /\ FailureBurst \in Nat
    BY <1>1, <2>1, BucketTypes DEF TokenInv, TokensOK
  <2>3. Charged(b, w, f, g, k, FailureBurst)
    BY <1>1, <2>1
  <2>4. \A e \in Remotes : Credit(b, e, FailureBurst) \in 0 .. FailureBurst
    BY <2>1, Credits DEF TokenInv
  <2>5. Pays(p, q, b, k, FailureBurst)
    BY <1>3, <1>4, <2>1, <2>4 DEF Pays
  <2>6. Covers(f, p, b, FailureBurst, t)
    BY <2>1 DEF TokenInv, Balanced, Covers
  <2>7. Covers(g, q, w, FailureBurst, t)
    BY <2>2, <2>3, <2>5, <2>6, ChargedBalance
  <2>8. \A u \in Users : taken'[u] + principals'[u] <= Burst + ticks'
    BY DEF TokenInv, Balanced
  <2>9. \A e \in Remotes : failures'[e] + Credit(penalties', e, FailureBurst)
                            <= (1 + forgotten'["penalties"][e]) * FailureBurst + ticks'
    BY <2>1, <2>7 DEF Covers
  <2>10. \A e \in Remotes : taken'[e] + Credit(registry', e, Burst)
                             <= (1 + forgotten'["registry"][e]) * Burst + ticks'
    BY <1>1 DEF TokenInv, Balanced
  <2>11. QED
    BY <2>8, <2>9, <2>10 DEF Balanced
<1>7. TokenInv'
  BY <1>2, <1>5, <1>6 DEF TokenInv
<1>8. QED
  BY <1>1, <1>7 DEF Charged

LEMMA TokensSpent ==
  ASSUME TokenInv, NEW u \in Users, principals[u] >= 1, Spend(u),
         UNCHANGED <<penalties, registry, ticks, served, failures, forgotten>>
  PROVE  TokenInv'
<1>1. /\ principals \in [Users -> 0 .. Burst] /\ taken \in [Users \cup Remotes -> Nat]
      /\ principals[u] \in 0 .. Burst /\ taken[u] \in Nat /\ ticks \in 0 .. MaxTicks
      /\ Burst \in Nat /\ MaxTicks \in Nat
  BY BucketTypes, ServeGateAssumption DEF TokenInv, TokensOK
<1>2. /\ principals' = [principals EXCEPT ![u] = principals[u] - 1]
      /\ taken' = [taken EXCEPT ![u] = taken[u] + 1]
  BY DEF Spend
<1>3. /\ principals' \in [Users -> 0 .. Burst] /\ principals'[u] = principals[u] - 1
      /\ \A e \in Users \ {u} : principals'[e] = principals[e]
  BY <1>1, <1>2
<1>4. /\ taken' \in [Users \cup Remotes -> Nat] /\ taken'[u] = taken[u] + 1
      /\ \A e \in (Users \cup Remotes) \ {u} : taken'[e] = taken[e]
  BY <1>1, <1>2
<1>5. BoxesOK' /\ Refilling'
  BY DEF TokenInv, BoxesOK, Refilling
<1>6. TokensOK'
  BY <1>3, <1>4 DEF TokenInv, TokensOK
<1>7. \A e \in Users : taken'[e] + principals'[e] <= Burst + ticks'
  <2> SUFFICES ASSUME NEW e \in Users PROVE taken'[e] + principals'[e] <= Burst + ticks
    OBVIOUS
  <2>1. taken[e] + principals[e] <= Burst + ticks
    BY DEF TokenInv, Balanced
  <2>2. CASE e = u
    BY <1>1, <1>3, <1>4, <2>1, <2>2
  <2>3. CASE e # u
    BY <1>3, <1>4, <2>1, <2>3
  <2>4. QED
    BY <2>2, <2>3
<1>8. \A e \in Remotes : taken'[e] = taken[e]
  BY <1>4, ServeGateAssumption
<1>9. Balanced'
  BY <1>7, <1>8 DEF TokenInv, Balanced
<1>10. QED
  BY <1>5, <1>6, <1>9 DEF TokenInv

\* Time gives every key a token more to take.
LEMMA TokensTick ==
  ASSUME TokenInv, Tick
  PROVE  /\ TokenInv'
         /\ \A e : Credit(penalties', e, FailureBurst) >= Credit(penalties, e, FailureBurst)
<1>1. /\ ticks < MaxTicks /\ ticks' = ticks + 1
      /\ penalties' = Refilled(penalties, FailureBurst)
      /\ registry' = Refilled(registry, Burst)
      /\ principals' = [u \in Users |-> Min({Burst, principals[u] + 1})]
      /\ UNCHANGED <<served, taken, failures, forgotten>>
  BY DEF Tick, counts
<1>2. /\ penalties \in Seq(PenaltyBuckets) /\ Len(penalties) <= MaxEntries /\ Distinct(penalties)
      /\ registry \in Seq(RegistryBuckets) /\ Len(registry) <= MaxEntries /\ Distinct(registry)
      /\ principals \in [Users -> 0 .. Burst] /\ ticks \in 0 .. MaxTicks /\ served \in 0 .. MaxRequests
      /\ taken \in [Users \cup Remotes -> Nat] /\ failures \in [Remotes -> Nat]
      /\ forgotten \in [{"penalties", "registry"} -> [Remotes -> Nat]]
  BY DEF TokenInv, BoxesOK, TokensOK
<1>3. /\ Burst \in Nat /\ FailureBurst \in Nat /\ MaxTicks \in Nat
      /\ Buckets(PenaltyBuckets, FailureBurst) /\ Buckets(RegistryBuckets, Burst)
  BY BucketTypes, ServeGateAssumption
<1>4. PICK b, w, p, r : b = penalties /\ w = penalties' /\ p = registry /\ r = registry'
  OBVIOUS
<1>5. FilledFrom(w, b, PenaltyBuckets, FailureBurst)
  <2>1. b \in Seq(PenaltyBuckets) /\ Distinct(b) /\ w = Refilled(b, FailureBurst)
    BY <1>1, <1>2, <1>4
  <2>2. QED
    BY <1>3, <2>1, RefillKeeps
<1>6. FilledFrom(r, p, RegistryBuckets, Burst)
  <2>1. p \in Seq(RegistryBuckets) /\ Distinct(p) /\ r = Refilled(p, Burst)
    BY <1>1, <1>2, <1>4
  <2>2. QED
    BY <1>3, <2>1, RefillKeeps
<1>7. BoxesOK'
  BY <1>2, <1>4, <1>5, <1>6 DEF BoxesOK, FilledFrom
<1>8. Refilling'
  <2>0. SUFFICES \A i \in DOMAIN r :
                   r[i].seen <= ticks + 1 /\ (r[i].tokens = Burst \/ r[i].tokens >= (ticks + 1) - r[i].seen)
    <3>1. Refilling' <=> \A i \in DOMAIN registry' :
                           /\ registry'[i].seen <= ticks'
                           /\ registry'[i].tokens = Burst \/ registry'[i].tokens >= ticks' - registry'[i].seen
      BY DEF Refilling
    <3>2. QED
      BY <1>1, <1>4, <3>1
  <2> SUFFICES ASSUME NEW i \in DOMAIN r
               PROVE  r[i].seen <= ticks + 1 /\ (r[i].tokens = Burst \/ r[i].tokens >= (ticks + 1) - r[i].seen)
    OBVIOUS
  <2>1. i \in DOMAIN p
    BY <1>2, <1>4, <1>6 DEF FilledFrom
  <2>2. p[i] \in RegistryBuckets
    BY <1>2, <1>4, <2>1
  <2>3. p[i].seen <= ticks /\ (p[i].tokens = Burst \/ p[i].tokens >= ticks - p[i].seen)
    BY <1>4, <2>1 DEF TokenInv, Refilling
  <2>4. p[i].tokens \in 0 .. Burst /\ p[i].seen \in 0 .. MaxTicks
    BY <2>2 DEF RegistryBuckets
  <2>5. r[i].seen = p[i].seen /\ r[i].tokens = IF p[i].tokens = Burst THEN Burst ELSE p[i].tokens + 1
    BY <1>6, <2>1, <2>2 DEF RegistryBuckets, FilledFrom
  <2>6. QED
    BY <1>2, <1>3, <2>3, <2>4, <2>5
<1>9. ASSUME NEW u \in Users
      PROVE  principals'[u] \in 0 .. Burst /\ principals'[u] <= principals[u] + 1
  <2>1. principals[u] \in 0 .. Burst
    BY <1>2
  <2>2. PICK n : n = principals[u]
    OBVIOUS
  <2>3. n \in 0 .. Burst /\ principals'[u] = Min({Burst, n + 1})
    BY <1>1, <2>1, <2>2
  <2>4. Min({Burst, n + 1}) = IF Burst <= n + 1 THEN Burst ELSE n + 1
    BY <1>3, <2>3, LowerOfTwo
  <2>5. QED
    BY <1>3, <2>2, <2>3, <2>4
<1>10. TokensOK'
  BY <1>1, <1>2, <1>3, <1>9 DEF TokensOK
<1>11. \A u \in Users : taken'[u] + principals'[u] <= Burst + ticks'
  <2> SUFFICES ASSUME NEW u \in Users PROVE taken[u] + principals'[u] <= Burst + (ticks + 1)
    BY <1>1
  <2>1. taken[u] + principals[u] <= Burst + ticks /\ taken[u] \in Nat /\ principals[u] \in Nat
    BY <1>2 DEF TokenInv, Balanced
  <2>2. principals'[u] \in Nat /\ principals'[u] <= principals[u] + 1
    BY <1>9
  <2>3. QED
    BY <1>2, <1>3, <2>1, <2>2
<1>12. ASSUME NEW f \in [Remotes -> Nat], NEW q, NEW x, NEW y, NEW capacity \in Nat,
              \A e \in Remotes : q[e] \in Nat /\ Credit(x, e, capacity) \in 0 .. capacity
                                 /\ Credit(y, e, capacity) \in 0 .. capacity,
              NEW S, FilledFrom(y, x, S, capacity),
              NEW t \in Nat, Covers(f, q, x, capacity, t)
       PROVE  Covers(f, q, y, capacity, t + 1)
  <2> SUFFICES ASSUME NEW e \in Remotes
               PROVE  q[e] + Credit(y, e, capacity) <= (1 + f[e]) * capacity + (t + 1)
    BY DEF Covers
  <2>1. PICK m, i, j, k : /\ m = (1 + f[e]) * capacity /\ i = Credit(x, e, capacity)
                          /\ j = Credit(y, e, capacity) /\ k = q[e]
    OBVIOUS
  <2>2. m \in Nat
    BY <2>1, OneBurstMore
  <2>3. i \in Nat /\ j \in Nat /\ k \in Nat /\ j <= i + 1
    BY <1>12, <2>1 DEF FilledFrom
  <2>4. k + i <= m + t
    BY <1>12, <2>1 DEF Covers
  <2>5. k + j <= m + (t + 1)
    BY <2>2, <2>3, <2>4
  <2>6. QED
    BY <2>1, <2>5
<1>13. Balanced'
  <2>1. PICK fs, fp, t, qs, qp : /\ fs = forgotten["registry"] /\ fp = forgotten["penalties"]
                                 /\ t = ticks /\ qs = taken /\ qp = failures
    OBVIOUS
  <2>2. /\ fs \in [Remotes -> Nat] /\ fp \in [Remotes -> Nat] /\ t \in Nat
        /\ \A e \in Remotes : qs[e] \in Nat /\ qp[e] \in Nat
    BY <1>2, <1>3, <2>1
  <2>3. Covers(fs, qs, p, Burst, t) /\ Covers(fp, qp, b, FailureBurst, t)
    BY <1>4, <2>1 DEF TokenInv, Balanced, Covers
  <2>4. \A e : /\ Credit(b, e, FailureBurst) \in 0 .. FailureBurst
               /\ Credit(w, e, FailureBurst) \in 0 .. FailureBurst
               /\ Credit(p, e, Burst) \in 0 .. Burst /\ Credit(r, e, Burst) \in 0 .. Burst
    <3>1. b \in Seq(PenaltyBuckets) /\ Distinct(b) /\ p \in Seq(RegistryBuckets) /\ Distinct(p)
      BY <1>2, <1>4
    <3>2. QED
      BY <1>3, <1>5, <1>6, <3>1, CreditParts DEF FilledFrom
  <2>5. Covers(fs, qs, r, Burst, t + 1)
    BY <1>3, <1>6, <1>12, <2>2, <2>3, <2>4
  <2>6. Covers(fp, qp, w, FailureBurst, t + 1)
    BY <1>3, <1>5, <1>12, <2>2, <2>3, <2>4
  <2>7. \A e \in Remotes : /\ taken'[e] + Credit(registry', e, Burst)
                                <= (1 + forgotten'["registry"][e]) * Burst + ticks'
                           /\ failures'[e] + Credit(penalties', e, FailureBurst)
                                <= (1 + forgotten'["penalties"][e]) * FailureBurst + ticks'
    BY <1>1, <1>4, <2>1, <2>5, <2>6 DEF Covers
  <2>8. QED
    BY <1>11, <2>7 DEF Balanced
<1>14. TokenInv'
  BY <1>7, <1>8, <1>10, <1>13 DEF TokenInv
<1>15. QED
  BY <1>4, <1>5, <1>14 DEF FilledFrom

\* No other connection moves, and this one, if it waits, was warned in time.
LEMMA WarnedStays ==
  ASSUME Warned, penalties' = penalties, NEW c \in Conns,
         \A d \in Conns \ {c} : conn'[d] = conn[d],
         Waiting(conn'[c]) =>
           conn'[c].overlapped \/ Credit(penalties, conn'[c].kind.remote, FailureBurst) >= 1
  PROVE  Warned'
<1> SUFFICES ASSUME NEW d \in Conns, Waiting(conn'[d])
             PROVE  conn'[d].overlapped \/ Credit(penalties, conn'[d].kind.remote, FailureBurst) >= 1
  BY DEF Warned, Waiting
<1>1. CASE d = c
  BY <1>1
<1>2. CASE d # c
  BY <1>2 DEF Warned
<1>3. QED
  BY <1>1, <1>2

LEMMA AuditsTyped ==
  ASSUME GateInv, GatesOK, NEW c \in Conns, NEW n, Audits(c, n)
  PROVE  pending' \in BOOLEAN /\ straggled' \subseteq BOOLEAN
<1>1. conn[c].cut \in BOOLEAN
  BY RequestAt
<1>2. QED
  BY <1>1 DEF Audits, GatesOK

LEMMA SlotCounts == MaxSlots \in Nat /\ PublicSlots \in Int /\ PublicSlots >= 2
<1>1. MaxSlots \in Nat
  BY ServeGateAssumption
<1>2. PICK m : m = (MaxSlots + 3) \div 4
  OBVIOUS
<1>3. m \in Int
  BY <1>1, <1>2
<1>4. \E x \in {2, m} : \A y \in {2, m} : x >= y
  BY <1>3
<1>5. Max({2, m}) \in {2, m} /\ \A y \in {2, m} : Max({2, m}) >= y
  BY <1>4, SMT DEF Max
<1>6. QED
  BY <1>1, <1>2, <1>3, <1>5 DEF PublicSlots

\* A slot given back, or none.
LEMMA SlotsFall ==
  ASSUME GateInv, GatesOK, NEW route, NEW n \in {-1, 0}, Slots(route, n)
  PROVE  inFlight' <= MaxSlots /\ inPublic' <= PublicSlots
<1>1. /\ inFlight \in Nat /\ inPublic \in Nat /\ MaxSlots \in Nat
      /\ inFlight <= MaxSlots /\ inPublic <= PublicSlots
  BY CountsAreNumbers, ServeGateAssumption DEF GateInv, GatesOK
<1>2. PublicSlots \in Int
  BY SlotCounts
<1>3. CASE route = "public"
  BY <1>1, <1>2, <1>3 DEF Slots
<1>4. CASE route # "public"
  <2>1. inFlight' = Max({0, inFlight + n}) /\ inPublic' = inPublic
    BY <1>4, Zenon DEF Slots
  <2>2. inFlight + n \in Int
    BY <1>1
  <2>3. inFlight' = IF inFlight + n >= 0 THEN inFlight + n ELSE 0
    BY <2>1, <2>2, NotBelowZero
  <2>4. QED
    BY <1>1, <2>1, <2>3
<1>5. QED
  BY <1>3, <1>4

LEMMA EndedRests ==
  ASSUME NEW r \in Requests
  PROVE  ~Waiting(Ended(r))
BY EndedParts, IdleParts DEF Waiting

\* An answer uses up nothing.
LEMMA AnswerLimits ==
  ASSUME GateInv, LimitInv, NEW c \in Conns, NEW n \in {0, 1}, NEW freed \in BOOLEAN, Answer(c, n, freed),
         n = 1 => conn[c].audits = 0,
         TokenInv', penalties' = penalties
  PROVE  LimitInv'
<1> DEFINE q == conn[c]
           r == [q EXCEPT !.audits = @ + n, !.holds = @ /\ ~freed]
<1>1. /\ conn' = [conn EXCEPT ![c] = Ended(r)]
      /\ Slots(q.kind.route, IF freed /\ q.holds THEN -1 ELSE 0)
      /\ Audits(c, n)
  BY DEF Answer
<1>2. q \in Requests /\ q.audits \in {0, 1} /\ q.holds \in BOOLEAN
  BY RequestAt
<1>3. r \in Requests
  <2>1. r = [q EXCEPT !.audits = q.audits + n, !.holds = q.holds /\ ~freed]
    BY Zenon
  <2>2. q.audits + n \in {0, 1} /\ (q.holds /\ ~freed) \in BOOLEAN
    BY <1>2
  <2>3. [q EXCEPT !.audits = q.audits + n, !.holds = q.holds /\ ~freed] \in Requests
    BY <1>2, <2>2, Zenon DEF Requests
  <2>4. QED
    BY <2>1, <2>3
<1> HIDE DEF r
<1>4. /\ conn' \in [Conns -> Requests] /\ conn'[c] = Ended(r)
      /\ \A d \in Conns \ {c} : conn'[d] = conn[d]
  BY <1>1, <1>3, EndedParts DEF GateInv, RequestsOK
<1>5. ~Waiting(conn'[c])
  BY <1>3, <1>4, EndedRests
<1>6. Warned'
  BY <1>4, <1>5, WarnedStays DEF LimitInv
<1>7. inFlight' <= MaxSlots /\ inPublic' <= PublicSlots
  <2>1. (IF freed /\ q.holds THEN -1 ELSE 0) \in {-1, 0}
    OBVIOUS
  <2>2. QED
    BY <1>1, <2>1, SlotsFall DEF LimitInv
<1>8. pending' \in BOOLEAN /\ straggled' \subseteq BOOLEAN
  BY <1>1, AuditsTyped DEF LimitInv
<1>9. QED
  BY <1>6, <1>7, <1>8 DEF LimitInv, GatesOK

\* The slots and the trail may change, and where this connection is.
LEMMA MoveLimits ==
  ASSUME GateInv, LimitInv, NEW c \in Conns, NEW r \in Requests, conn' = [conn EXCEPT ![c] = r],
         Waiting(r) => r.overlapped \/ Credit(penalties, r.kind.remote, FailureBurst) >= 1,
         TokenInv', penalties' = penalties, GatesOK'
  PROVE  LimitInv'
<1>1. conn'[c] = r /\ \A d \in Conns \ {c} : conn'[d] = conn[d]
  BY DEF GateInv, RequestsOK
<1>2. Warned'
  BY <1>1, WarnedStays DEF LimitInv
<1>3. QED
  BY <1>2 DEF LimitInv

LEMMA BeginParts ==
  ASSUME GateInv, LimitInv, NEW c \in Conns, NEW r \in Requests, Begin(c, r)
  PROVE  /\ conn' = [conn EXCEPT ![c] = r] /\ served' \in 0 .. MaxRequests
         /\ pending' \in BOOLEAN /\ straggled' \subseteq BOOLEAN
         /\ UNCHANGED <<penalties, principals, ticks, failures>>
<1>1. /\ served < MaxRequests /\ served' = served + 1 /\ conn' = [conn EXCEPT ![c] = r]
      /\ pending' = (pending \/ r.audits > 0) /\ straggled' = straggled
      /\ UNCHANGED <<penalties, principals, ticks, failures>>
  BY DEF Begin
<1>2. served \in 0 .. MaxRequests /\ MaxRequests \in Nat
  BY ServeGateAssumption DEF LimitInv, TokenInv, TokensOK
<1>3. served' \in 0 .. MaxRequests
  BY <1>1, <1>2
<1>4. QED
  BY <1>1, <1>3 DEF LimitInv, GatesOK

LEMMA KnockLimits == ASSUME GateInv, LimitInv, NEW c \in Conns, Knock(c) PROVE LimitInv'
<1>1. PICK kind \in Kinds :
        /\ kind.route # "public"
        /\ Begin(c, IF ~PenaltyAllows(kind.remote) THEN Refused(kind)
                    ELSE [Idle EXCEPT !.kind = kind, !.open = TRUE,
                            !.pc = IF kind.route = "login" THEN "body" ELSE "auth"])
        /\ UNCHANGED <<gates, registry, taken, forgotten>>
  BY DEF Knock
<1>2. ASSUME NEW r \in Requests, Begin(c, r),
             Waiting(r) => Credit(penalties, r.kind.remote, FailureBurst) >= 1
      PROVE  LimitInv'
  <2>1. /\ conn' = [conn EXCEPT ![c] = r] /\ served' \in 0 .. MaxRequests
        /\ pending' \in BOOLEAN /\ straggled' \subseteq BOOLEAN
        /\ UNCHANGED <<penalties, principals, ticks, failures>>
    BY <1>2, BeginParts
  <2>2. TokenInv'
    BY <1>1, <2>1, TokensStay DEF LimitInv, limits
  <2>3. GatesOK'
    BY <1>1, <2>1 DEF LimitInv, GatesOK, gates
  <2>4. QED
    BY <1>2, <2>1, <2>2, <2>3, MoveLimits
<1>3. CASE ~PenaltyAllows(kind.remote)
  <2>1. Begin(c, Refused(kind))
    BY <1>1, <1>3
  <2>2. Refused(kind) \in Requests /\ Refused(kind).pc = "sending"
    <3>1. Refused(kind).pc = "sending"
      BY DEF Refused, Idle
    <3>2. QED
      BY <3>1, RefusedParts
  <2>3. ~Waiting(Refused(kind))
    BY <2>2 DEF Waiting
  <2>4. QED
    BY <1>2, <2>1, <2>2, <2>3
<1> DEFINE r == [Idle EXCEPT !.kind = kind, !.open = TRUE,
                             !.pc = IF kind.route = "login" THEN "body" ELSE "auth"]
<1>4. CASE PenaltyAllows(kind.remote)
  <2>1. Begin(c, r)
    BY <1>1, <1>4
  <2>2. r \in Requests /\ r.kind = kind
    BY DEF Idle, Requests
  <2>3. Credit(penalties, kind.remote, FailureBurst) >= 1
    BY <1>4, Credits DEF LimitInv, TokenInv
  <2> HIDE DEF r
  <2>4. QED
    BY <1>2, <2>1, <2>2, <2>3
<1>5. QED
  BY <1>3, <1>4

LEMMA DeliverLimits == ASSUME GateInv, LimitInv, NEW c \in Conns, Deliver(c) PROVE LimitInv'
<1>1. PICK kind \in Kinds, allowed \in BOOLEAN :
        /\ kind.route = "public"
        /\ TakeFromRegistry(kind.remote, allowed)
        /\ IF allowed /\ inPublic < PublicSlots
           THEN /\ Begin(c, [Idle EXCEPT !.pc = "body", !.kind = kind, !.open = TRUE,
                                         !.audits = 1, !.holds = TRUE])
                /\ Slots("public", 1)
           ELSE Begin(c, Refused(kind)) /\ UNCHANGED gates
  BY DEF Deliver
<1>2. kind.remote \in Remotes
  BY ServeGateAssumption DEF Kind
<1>3. ASSUME NEW r \in Requests, Begin(c, r), ~Waiting(r), inFlight' <= MaxSlots, inPublic' <= PublicSlots
      PROVE  LimitInv'
  <2>1. /\ conn' = [conn EXCEPT ![c] = r] /\ served' \in 0 .. MaxRequests
        /\ pending' \in BOOLEAN /\ straggled' \subseteq BOOLEAN
        /\ UNCHANGED <<penalties, principals, ticks, failures>>
    BY <1>3, BeginParts
  <2>2. TokenInv'
    BY <1>1, <1>2, <2>1, TokensTaken DEF LimitInv
  <2>3. GatesOK'
    BY <1>3, <2>1 DEF GatesOK
  <2>4. QED
    BY <1>3, <2>1, <2>2, <2>3, MoveLimits
<1>4. CASE Begin(c, Refused(kind)) /\ UNCHANGED gates
  <2>1. inFlight' <= MaxSlots /\ inPublic' <= PublicSlots
    BY <1>4 DEF LimitInv, GatesOK, gates
  <2>2. Refused(kind) \in Requests /\ Refused(kind).pc = "sending"
    <3>1. Refused(kind).pc = "sending"
      BY DEF Refused, Idle
    <3>2. QED
      BY <3>1, RefusedParts
  <2>3. ~Waiting(Refused(kind))
    BY <2>2 DEF Waiting
  <2>4. QED
    BY <1>3, <1>4, <2>1, <2>2, <2>3
<1> DEFINE r == [Idle EXCEPT !.pc = "body", !.kind = kind, !.open = TRUE,
                             !.audits = 1, !.holds = TRUE]
<1>5. CASE inPublic < PublicSlots /\ Begin(c, r) /\ Slots("public", 1)
  <2>1. r \in Requests /\ r.kind = kind /\ r.pc = "body"
    BY DEF Idle, Requests
  <2> HIDE DEF r
  <2>2. ~Waiting(r)
    BY <1>1, <2>1 DEF Waiting
  <2>3. inFlight' = inFlight /\ inPublic' = inPublic + 1
    BY <1>5 DEF Slots
  <2>4. inPublic \in Nat /\ PublicSlots \in Int
    BY CountsAreNumbers, SlotCounts DEF GateInv
  <2>5. inFlight' <= MaxSlots /\ inPublic' <= PublicSlots
    BY <1>5, <2>3, <2>4 DEF LimitInv, GatesOK
  <2>6. QED
    BY <1>3, <1>5, <2>1, <2>2, <2>5
<1>6. QED
  BY <1>1, <1>4, <1>5

\* A failure: whoever waits of the same remote overlapped it, and no other is worse off.
LEMMA FailLimits ==
  ASSUME GateInv, LimitInv, NEW c \in Conns, Fail(c), served' = served, ticks' = ticks, Waiting(conn[c])
  PROVE  LimitInv'
<1> DEFINE q == conn[c]
           k == q.kind.remote
           others == {d \in Conns \ {c} : /\ Request(d).remote = k
                                          /\ \/ conn[d].pc = "auth"
                                             \/ conn[d].pc = "body" /\ Request(d).route = "login"}
           e == Ended([q EXCEPT !.audits = @ + 1])
<1>1. /\ ChargePenalty(k)
      /\ failures' = [failures EXCEPT ![k] = IF q.overlapped THEN @ ELSE @ + 1]
      /\ conn' = [d \in Conns |-> IF d = c THEN e
                                  ELSE [conn[d] EXCEPT !.overlapped = @ \/ d \in others]]
      /\ Audits(c, 1)
      /\ UNCHANGED <<gates, principals, registry, leaked, taken>>
  BY DEF Fail, Request
<1>2. k \in Remotes
  BY RemoteAt DEF GateInv
<1>3. PICK x, o : x = k /\ o = q.overlapped
  OBVIOUS
<1>4. o \in BOOLEAN
  BY <1>3, RequestAt DEF Requests
<1>5. o \/ Credit(penalties, x, FailureBurst) >= 1
  BY <1>3 DEF LimitInv, Warned
<1>6. /\ TokenInv'
      /\ \A d \in Remotes \ {x} :
           \/ Credit(penalties', d, FailureBurst) = Credit(penalties, d, FailureBurst)
           \/ Credit(penalties', d, FailureBurst) = FailureBurst
  <2>1. /\ ChargePenalty(x) /\ x \in Remotes
        /\ failures' = [failures EXCEPT ![x] = IF o THEN @ ELSE @ + 1]
    BY <1>1, <1>2, <1>3
  <2>2. UNCHANGED <<principals, registry, ticks, served, taken>>
    BY <1>1
  <2>3. QED
    BY <1>4, <1>5, <2>1, <2>2, TokensCharged DEF LimitInv
<1>7. GatesOK'
  <2>1. pending' \in BOOLEAN /\ straggled' \subseteq BOOLEAN
    BY <1>1, AuditsTyped DEF LimitInv
  <2>2. QED
    BY <1>1, <2>1 DEF LimitInv, GatesOK, gates
<1>8. conn'[c] = e /\ ~Waiting(conn'[c])
  <2>1. q \in Requests /\ Audited(q) /\ Holding(q)
    BY RequestAt
  <2>2. q.audits = 0
    BY <2>1 DEF Waiting, Audited
  <2>3. [q EXCEPT !.audits = @ + 1] \in Requests
    BY <2>1, <2>2 DEF Requests
  <2>4. ~Waiting(e)
    BY <2>3, EndedRests
  <2> HIDE DEF e
  <2>5. conn'[c] = e
    BY <1>1
  <2>6. QED
    BY <2>4, <2>5
<1>9. ASSUME NEW d \in Conns \ {c}, Waiting(conn'[d])
      PROVE  conn'[d].overlapped \/ Credit(penalties', conn'[d].kind.remote, FailureBurst) >= 1
  <2>1. conn[d] \in Requests
    BY RequestAt
  <2>2. conn'[d] = [conn[d] EXCEPT !.overlapped = @ \/ d \in others]
    BY <1>1, Zenon
  <2> HIDE DEF others
  <2>3. conn'[d].pc = conn[d].pc /\ conn'[d].kind = conn[d].kind
        /\ conn'[d].overlapped = (conn[d].overlapped \/ d \in others)
    BY <2>1, <2>2, Zenon DEF Requests
  <2>4. Waiting(conn[d])
    BY <1>9, <2>3 DEF Waiting
  <2>5. CASE conn[d].kind.remote = k
    <3>1. d \in others
      BY <2>4, <2>5 DEF others, Waiting, Request
    <3>2. QED
      BY <2>3, <3>1
  <2>6. CASE conn[d].kind.remote # k
    <3>1. PICK y : y = conn[d].kind.remote
      OBVIOUS
    <3>2. y \in Remotes \ {x}
      BY <1>3, <2>6, <3>1, RemoteAt DEF GateInv
    <3>3. \/ Credit(penalties', y, FailureBurst) = Credit(penalties, y, FailureBurst)
          \/ Credit(penalties', y, FailureBurst) = FailureBurst
      BY <1>6, <3>2
    <3>4. conn[d].overlapped \/ Credit(penalties, y, FailureBurst) >= 1
      BY <2>4, <3>1 DEF LimitInv, Warned
    <3>5. FailureBurst >= 1
      BY BucketTypes
    <3>6. QED
      BY <2>3, <3>1, <3>3, <3>4, <3>5
  <2>7. QED
    BY <2>5, <2>6
<1>10. Warned'
  BY <1>8, <1>9 DEF Warned, Waiting
<1>11. QED
  BY <1>6, <1>7, <1>10 DEF LimitInv

LEMMA AdmitLimits ==
  ASSUME GateInv, LimitInv, NEW c \in Conns, conn[c].pc = "auth", Request(c).route # "board", Admit(c),
         TokenInv', penalties' = penalties
  PROVE  LimitInv'
<1> DEFINE q == conn[c]
           r == [[q EXCEPT !.audits = @ + 1] EXCEPT !.holds = TRUE,
                   !.pc = IF Request(c).route = "mcp" THEN "body" ELSE "run"]
<1>1. q \in Requests /\ q.audits = 0 /\ q.kind.route \in {"mcp", "managed"}
  BY RequestAt DEF Audited, Holding, Request, Routes
<1>2. CASE inFlight >= MaxSlots
  BY <1>1, <1>2, AnswerLimits DEF Admit
<1>3. CASE ~(inFlight >= MaxSlots)
  <2>1. conn' = [conn EXCEPT ![c] = r] /\ Slots(Request(c).route, 1) /\ Audits(c, 1)
    BY <1>3 DEF Admit
  <2>2. r \in Requests /\ r.kind = q.kind /\ r.pc = IF q.kind.route = "mcp" THEN "body" ELSE "run"
    <3>1. [q EXCEPT !.audits = @ + 1] \in Requests /\ [q EXCEPT !.audits = @ + 1].kind = q.kind
      BY <1>1 DEF Requests
    <3>2. PICK s : s = [q EXCEPT !.audits = @ + 1]
      OBVIOUS
    <3>3. PICK p : p = IF Request(c).route = "mcp" THEN "body" ELSE "run"
      OBVIOUS
    <3>4. r = [s EXCEPT !.holds = TRUE, !.pc = p] /\ s \in Requests /\ p \in {"body", "run"}
      BY <3>1, <3>2, <3>3
    <3>5. r \in Requests /\ r.kind = s.kind /\ r.pc = p
      BY <3>4, Zenon DEF Requests
    <3>6. QED
      BY <3>1, <3>2, <3>3, <3>5 DEF Request
  <2> HIDE DEF r
  <2>3. ~Waiting(r)
    BY <1>1, <2>2 DEF Waiting
  <2>4. inFlight \in Nat /\ inPublic \in Nat /\ MaxSlots \in Nat
    BY CountsAreNumbers, SlotCounts DEF GateInv
  <2>5. inFlight' = inFlight + 1 /\ inPublic' = inPublic
    <3>1. inFlight' = Max({0, inFlight + 1}) /\ inPublic' = inPublic
      BY <1>1, <2>1 DEF Slots, Request
    <3>2. inFlight + 1 \in Int /\ inFlight + 1 >= 0
      BY <2>4
    <3>3. QED
      BY <3>1, <3>2, NotBelowZero
  <2>6. GatesOK'
    <3>1. inFlight' <= MaxSlots /\ inPublic' <= PublicSlots
      BY <1>3, <2>4, <2>5 DEF LimitInv, GatesOK
    <3>2. pending' \in BOOLEAN /\ straggled' \subseteq BOOLEAN
      BY <2>1, AuditsTyped DEF LimitInv
    <3>3. QED
      BY <3>1, <3>2 DEF GatesOK
  <2>7. QED
    BY <2>1, <2>2, <2>3, <2>6, MoveLimits
<1>4. QED
  BY <1>2, <1>3

\* A new place where it does not wait.
LEMMA ElsewhereLimits ==
  ASSUME GateInv, LimitInv, NEW c \in Conns, NEW pc \in {"body", "run"},
         conn' = [conn EXCEPT ![c].pc = pc], pc = "run" \/ Request(c).route # "login",
         UNCHANGED <<gates, pending, straggled>>, TokenInv', penalties' = penalties
  PROVE  LimitInv'
<1> DEFINE r == [conn[c] EXCEPT !.pc = pc]
<1>1. conn' = [conn EXCEPT ![c] = r]
  BY Zenon
<1>2. r \in Requests /\ r.pc = pc /\ r.kind = conn[c].kind
  BY RequestAt, Zenon DEF Requests
<1> HIDE DEF r
<1>3. ~Waiting(r)
  BY <1>2 DEF Waiting, Request
<1>4. GatesOK'
  BY DEF LimitInv, GatesOK, gates
<1>5. QED
  BY <1>1, <1>2, <1>3, <1>4, MoveLimits

LEMMA AuthenticatedLimits ==
  ASSUME GateInv, LimitInv, NEW c \in Conns, Authenticated(c) PROVE LimitInv'
<1> DEFINE u == Request(c).user
<1>1. /\ conn[c].pc = "auth" /\ ticks' = ticks /\ served' = served
      /\ \/ u = None /\ Fail(c)
         \/ /\ Answer(c, 1, FALSE)
            /\ UNCHANGED <<limits, taken, failures, forgotten>>
         \/ /\ u # None /\ principals[u] >= 1
            /\ Spend(u)
            /\ IF Request(c).route = "board" THEN Board(c) ELSE Admit(c)
            /\ UNCHANGED <<penalties, registry, failures, forgotten>>
  BY DEF Authenticated
<1>2. conn[c].audits = 0 /\ served \in 0 .. MaxRequests
  BY <1>1, RequestAt DEF Audited, LimitInv, TokenInv, TokensOK
<1>3. CASE Fail(c)
  BY <1>1, <1>3, FailLimits DEF Waiting
<1>4. CASE Answer(c, 1, FALSE) /\ UNCHANGED <<limits, taken, failures, forgotten>>
  <2>1. TokenInv' /\ penalties' = penalties
    BY <1>1, <1>2, <1>4, TokensStay DEF LimitInv, limits
  <2>2. QED
    BY <1>2, <1>4, <2>1, AnswerLimits
<1>5. CASE /\ u # None /\ principals[u] >= 1 /\ Spend(u)
           /\ IF Request(c).route = "board" THEN Board(c) ELSE Admit(c)
           /\ UNCHANGED <<penalties, registry, failures, forgotten>>
  <2>1. PICK v : v = u
    OBVIOUS
  <2>2. v \in Users
    BY <1>5, <2>1, RemoteAt DEF GateInv, Request
  <2>3. TokenInv' /\ penalties' = penalties
    <3>1. principals[v] >= 1 /\ Spend(v)
      BY <1>5, <2>1
    <3>2. UNCHANGED <<penalties, registry, ticks, served, failures, forgotten>>
      BY <1>1, <1>5
    <3>3. QED
      BY <2>2, <3>1, <3>2, TokensSpent DEF LimitInv
  <2>4. CASE Request(c).route = "board"
    <3>1. /\ \E pc \in {"body", "run"} : conn' = [conn EXCEPT ![c].pc = pc]
          /\ UNCHANGED <<gates, pending, straggled>>
      BY <1>5, <2>4 DEF Board
    <3>2. QED
      BY <2>3, <2>4, <3>1, ElsewhereLimits
  <2>5. CASE Request(c).route # "board"
    BY <1>1, <1>5, <2>3, <2>5, AdmitLimits
  <2>6. QED
    BY <2>4, <2>5
<1>6. QED
  BY <1>1, <1>3, <1>4, <1>5

\* A step that uses up nothing.
LEMMA FreeStep ==
  ASSUME LimitInv, UNCHANGED <<limits, ticks, served, taken, failures, forgotten>>
  PROVE  TokenInv' /\ penalties' = penalties
<1>1. served' \in 0 .. MaxRequests
  BY DEF LimitInv, TokenInv, TokensOK
<1>2. QED
  BY <1>1, TokensStay DEF LimitInv, limits

LEMMA LoginReadLimits ==
  ASSUME GateInv, LimitInv, NEW c \in Conns, LoginRead(c) PROVE LimitInv'
<1>1. /\ conn[c].pc = "body" /\ Request(c).route = "login" /\ ticks' = ticks /\ served' = served
      /\ \/ Fail(c)
         \/ Answer(c, 0, FALSE) /\ UNCHANGED <<limits, taken, failures, forgotten>>
  BY DEF LoginRead
<1>2. CASE Fail(c)
  BY <1>1, <1>2, FailLimits DEF Waiting, Request
<1>3. CASE Answer(c, 0, FALSE) /\ UNCHANGED <<limits, taken, failures, forgotten>>
  <2>1. TokenInv' /\ penalties' = penalties
    BY <1>1, <1>3, FreeStep
  <2>2. PICK freed \in BOOLEAN : Answer(c, 0, freed)
    BY <1>3
  <2>3. QED
    BY <2>1, <2>2, AnswerLimits
<1>4. QED
  BY <1>1, <1>2, <1>3

LEMMA BodyReadLimits ==
  ASSUME GateInv, LimitInv, NEW c \in Conns, BodyRead(c) PROVE LimitInv'
<1>1. /\ TokenInv' /\ penalties' = penalties
      /\ \/ conn' = [conn EXCEPT ![c].pc = "run"] /\ UNCHANGED <<gates, pending, straggled>>
         \/ Answer(c, 0, TRUE)
  BY FreeStep DEF BodyRead
<1>2. CASE Answer(c, 0, TRUE)
  <2>1. PICK freed \in BOOLEAN : Answer(c, 0, freed)
    BY <1>2
  <2>2. QED
    BY <1>1, <2>1, AnswerLimits
<1>3. CASE conn' = [conn EXCEPT ![c].pc = "run"] /\ UNCHANGED <<gates, pending, straggled>>
  BY <1>1, <1>3, ElsewhereLimits
<1>4. QED
  BY <1>1, <1>2, <1>3

LEMMA HandledLimits ==
  ASSUME GateInv, LimitInv, NEW c \in Conns, Handled(c) PROVE LimitInv'
<1>1. TokenInv' /\ penalties' = penalties /\ Answer(c, 0, Request(c).route # "managed")
  BY FreeStep DEF Handled
<1>2. PICK freed \in BOOLEAN : Answer(c, 0, freed)
  BY <1>1
<1>3. QED
  BY <1>1, <1>2, AnswerLimits

LEMMA FlushedLimits ==
  ASSUME GateInv, LimitInv, NEW c \in Conns, Flushed(c) PROVE LimitInv'
<1>1. /\ TokenInv' /\ penalties' = penalties /\ conn' = [conn EXCEPT ![c] = Idle]
      /\ Slots(Request(c).route, IF conn[c].holds THEN -1 ELSE 0)
      /\ UNCHANGED <<pending, straggled>>
  BY FreeStep DEF Flushed, counts, trail
<1>2. inFlight' <= MaxSlots /\ inPublic' <= PublicSlots
  <2>1. (IF conn[c].holds THEN -1 ELSE 0) \in {-1, 0}
    OBVIOUS
  <2>2. QED
    BY <1>1, <2>1, SlotsFall DEF LimitInv
<1>3. GatesOK'
  BY <1>1, <1>2 DEF LimitInv, GatesOK
<1>4. Idle \in Requests /\ ~Waiting(Idle)
  BY IdleParts DEF Waiting
<1>5. QED
  BY <1>1, <1>3, <1>4, MoveLimits

LEMMA LeaveLimits ==
  ASSUME GateInv, LimitInv, NEW c \in Conns, Leave(c) PROVE LimitInv'
<1> DEFINE q     == conn[c]
           heard == q.holds /\ q.kind.route = "managed"
           r     == Left(q, heard)
<1>1. /\ TokenInv' /\ penalties' = penalties /\ conn' = [conn EXCEPT ![c] = r]
      /\ Slots(q.kind.route, IF heard THEN -1 ELSE 0)
      /\ UNCHANGED <<pending, straggled>>
  BY FreeStep DEF Leave, trail, Request
<1>2. inFlight' <= MaxSlots /\ inPublic' <= PublicSlots
  <2>1. (IF heard THEN -1 ELSE 0) \in {-1, 0}
    OBVIOUS
  <2>2. QED
    BY <1>1, <2>1, SlotsFall DEF LimitInv
<1>3. GatesOK'
  BY <1>1, <1>2 DEF LimitInv, GatesOK
<1>4. q \in Requests
  BY RequestAt
<1>5. r \in Requests /\ (Waiting(r) => r.overlapped = q.overlapped /\ r.kind = q.kind /\ Waiting(q))
  <2>1. CASE q.pc = "sending"
    <3>1. r = Idle
      BY <2>1 DEF Left
    <3>2. QED
      BY <3>1, IdleParts DEF Waiting
  <2>2. CASE q.pc # "sending"
    <3>1. r = [q EXCEPT !.open = FALSE, !.holds = @ /\ ~heard, !.cut = q.pc = "auth"]
      BY <2>2, Zenon DEF Left
    <3>2. r \in Requests /\ r.pc = q.pc /\ r.kind = q.kind /\ r.overlapped = q.overlapped
      BY <1>4, <3>1, Zenon DEF Requests
    <3> HIDE DEF r
    <3>3. QED
      BY <3>2 DEF Waiting
  <2>3. QED
    BY <2>1, <2>2
<1> HIDE DEF r
<1>6. Waiting(r) => r.overlapped \/ Credit(penalties, r.kind.remote, FailureBurst) >= 1
  BY <1>5 DEF LimitInv, Warned
<1>7. QED
  BY <1>1, <1>3, <1>5, <1>6, MoveLimits

LEMMA LimitStep == GateInv /\ LimitInv /\ [Next]_vars => LimitInv'
<1> SUFFICES ASSUME GateInv, LimitInv, [Next]_vars
             PROVE  LimitInv'
  OBVIOUS
<1>1. ASSUME NEW c \in Conns, Step(c) PROVE LimitInv'
  BY <1>1, AuthenticatedLimits, LoginReadLimits, BodyReadLimits, HandledLimits, FlushedLimits DEF Step
<1>2. ASSUME UNCHANGED <<conn, gates, limits, ticks, counts, straggled>>, pending' \in BOOLEAN
      PROVE  LimitInv'
  <2>1. TokenInv' /\ penalties' = penalties
    BY <1>2, FreeStep DEF counts
  <2>2. GatesOK'
    BY <1>2 DEF LimitInv, GatesOK, gates
  <2>3. Warned'
    BY <1>2, <2>1 DEF LimitInv, Warned, Waiting
  <2>4. QED
    BY <2>1, <2>2, <2>3 DEF LimitInv
<1>3. CASE Tick
  <2>1. conn' = conn /\ UNCHANGED <<gates, pending, straggled>>
    BY <1>3 DEF Tick, trail
  <2>2. /\ TokenInv'
        /\ \A e : Credit(penalties', e, FailureBurst) >= Credit(penalties, e, FailureBurst)
    BY <1>3, TokensTick DEF LimitInv
  <2>3. \A e : /\ Credit(penalties, e, FailureBurst) \in 0 .. FailureBurst
               /\ Credit(penalties', e, FailureBurst) \in 0 .. FailureBurst
    <3>1. PICK b, w : b = penalties /\ w = penalties'
      OBVIOUS
    <3>2. b \in Seq(PenaltyBuckets) /\ Distinct(b) /\ w \in Seq(PenaltyBuckets) /\ Distinct(w)
      BY <2>2, <3>1 DEF LimitInv, TokenInv, BoxesOK
    <3>3. /\ \A e : Credit(b, e, FailureBurst) \in 0 .. FailureBurst
          /\ \A e : Credit(w, e, FailureBurst) \in 0 .. FailureBurst
      BY <3>2, BucketTypes, CreditParts
    <3>4. QED
      BY <3>1, <3>3
  <2>4. Warned'
    <3> SUFFICES ASSUME NEW c \in Conns, Waiting(conn[c])
                 PROVE  \/ conn[c].overlapped
                        \/ Credit(penalties', conn[c].kind.remote, FailureBurst) >= 1
      BY <2>1 DEF Warned, Waiting
    <3>1. PICK e : e = conn[c].kind.remote
      OBVIOUS
    <3>2. conn[c].overlapped \/ Credit(penalties, e, FailureBurst) >= 1
      BY <3>1 DEF LimitInv, Warned
    <3>3. PICK m, n : m = Credit(penalties, e, FailureBurst) /\ n = Credit(penalties', e, FailureBurst)
      OBVIOUS
    <3>4. m \in Nat /\ n \in Nat /\ n >= m
      BY <2>2, <2>3, <3>3
    <3>5. QED
      BY <3>1, <3>2, <3>3, <3>4
  <2>5. GatesOK'
    BY <2>1 DEF LimitInv, GatesOK, gates
  <2>6. QED
    BY <2>2, <2>4, <2>5 DEF LimitInv
<1>4. CASE AppendsDone \/ Stop \/ ListenerClosed \/ Drained \/ UNCHANGED vars
  <2>1. UNCHANGED <<conn, gates, limits, ticks, counts, straggled>> /\ (pending' = FALSE \/ pending' = pending)
    BY <1>4 DEF AppendsDone, Stop, ListenerClosed, Drained, vars, trail
  <2>2. pending' \in BOOLEAN
    BY <2>1 DEF LimitInv, GatesOK
  <2>3. QED
    BY <1>2, <2>1, <2>2
<1>5. QED
  BY <1>1, <1>3, <1>4, KnockLimits, DeliverLimits, LeaveLimits DEF Next

\* The registry starts with the buckets that are spent, in some order.
LEMMA SpentBuckets ==
  ASSUME Init
  PROVE  /\ registry \in Seq(RegistryBuckets) /\ Len(registry) <= MaxEntries /\ Distinct(registry)
         /\ \A i \in DOMAIN registry : registry[i].tokens = 0 /\ registry[i].seen = 0
         /\ \A k \in Remotes : /\ k \in Spent => Credit(registry, k, Burst) = 0
                               /\ k \notin Spent => Credit(registry, k, Burst) = Burst
<1> DEFINE S == {[key |-> k, tokens |-> 0, seen |-> 0] : k \in Spent}
           start(k) == [key |-> k, tokens |-> 0, seen |-> 0]
<1>1. /\ \A k \in Spent : start(k) \in S /\ start(k).key = k
      /\ \A x \in S : \E k \in Spent : x = start(k)
  OBVIOUS
<1>2. S \subseteq RegistryBuckets
  BY ServeGateAssumption, BucketTypes DEF RegistryBuckets
<1>3. \A x \in S : x.tokens = 0 /\ x.seen = 0 /\ x.key \in Spent /\ x = start(x.key)
  OBVIOUS
<1>4. registry = SetToSeq(S)
  BY DEF Init
<1> HIDE DEF S, start
<1>5. IsFiniteSet(S) /\ Cardinality(S) = Cardinality(Spent)
  <2> DEFINE f == [k \in Spent |-> start(k)]
  <2>1. f \in [Spent -> S]
    BY <1>1
  <2>2. \A a, b \in DOMAIN f : f[a] = f[b] => a = b
    BY <1>1
  <2>3. \A x \in S : \E k \in Spent : f[k] = x
    BY <1>1
  <2> HIDE DEF f
  <2>4. f \in Bijection(Spent, S)
    BY <2>1, <2>2, <2>3 DEF Bijection, Injection, Surjection, IsInjective
  <2>5. ExistsBijection(Spent, S)
    BY <2>4 DEF ExistsBijection
  <2>6. QED
    BY <2>5, FS_Bijection, ServeGateAssumption
<1>6. PICK n : n = Cardinality(S)
  OBVIOUS
<1>7. n \in Nat /\ n <= MaxEntries
  BY <1>5, <1>6, FS_CardinalityType, ServeGateAssumption
<1>8. registry \in [1 .. n -> S] /\ IsInjective(registry)
  <2>1. PICK m \in Nat : ExistsBijection(1 .. m, S)
    BY <1>5, FS_NatBijection
  <2>2. m = n
    BY <1>6, <2>1, FS_CountingElements
  <2>3. \E f \in [1 .. n -> S] : IsInjective(f)
    BY <2>1, <2>2 DEF ExistsBijection, Bijection, Injection
  <2>4. registry = CHOOSE f \in [1 .. n -> S] : IsInjective(f)
    BY <1>4, <1>6 DEF SetToSeq
  <2>5. QED
    BY <2>3, <2>4
<1>9. \A x \in S : \E i \in 1 .. n : registry[i] = x
  <2>1. PICK f : f = registry
    OBVIOUS
  <2>2. f \in Injection(1 .. n, S)
    BY <1>8, <2>1 DEF Injection
  <2>3. IsFiniteSet(1 .. n) /\ Cardinality(1 .. n) = n
    BY <1>7, FS_Interval
  <2>4. f \in Surjection(1 .. n, S)
    BY <1>5, <1>6, <2>2, <2>3, FS_Injection
  <2>5. QED
    BY <2>1, <2>4 DEF Surjection
<1>10. /\ registry \in Seq(RegistryBuckets) /\ Len(registry) = n /\ DOMAIN registry = 1 .. n
  <2>1. registry \in [1 .. n -> RegistryBuckets]
    BY <1>2, <1>8
  <2>2. QED
    BY <1>7, <2>1
<1>11. \A i \in DOMAIN registry : registry[i] \in S
  BY <1>8, <1>10
<1>12. Distinct(registry)
  <2> SUFFICES ASSUME NEW i \in DOMAIN registry, NEW j \in DOMAIN registry,
                      registry[i].key = registry[j].key
               PROVE  i = j
    BY DEF Distinct
  <2>1. registry[i] = start(registry[i].key) /\ registry[j] = start(registry[j].key)
    BY <1>3, <1>11
  <2>2. registry[i] = registry[j]
    BY <2>1
  <2>3. QED
    BY <1>8, <2>2 DEF IsInjective
<1>13. ASSUME NEW k \in Remotes
       PROVE  /\ k \in Spent => Credit(registry, k, Burst) = 0
              /\ k \notin Spent => Credit(registry, k, Burst) = Burst
  <2>1. CASE k \in Spent
    <3>1. start(k) \in S /\ start(k).key = k /\ start(k).tokens = 0
      BY <1>1, <1>3, <2>1
    <3>2. PICK i \in DOMAIN registry : registry[i] = start(k)
      BY <1>9, <1>10, <3>1
    <3>3. BucketOf(registry, registry[i].key) = registry[i] /\ registry[i].key \in KeysOf(registry)
      <4>1. PICK r : r = registry
        OBVIOUS
      <4>2. Distinct(r) /\ i \in DOMAIN r
        BY <1>12, <4>1
      <4>3. BucketOf(r, r[i].key) = r[i] /\ r[i].key \in KeysOf(r)
        BY <4>2, BucketAt
      <4>4. QED
        BY <4>1, <4>3
    <3>4. QED
      BY <2>1, <3>1, <3>2, <3>3 DEF Credit
  <2>2. CASE k \notin Spent
    <3>1. k \notin KeysOf(registry)
      BY <1>3, <1>11, <2>2 DEF KeysOf
    <3>2. QED
      BY <2>2, <3>1 DEF Credit
  <2>3. QED
    BY <2>1, <2>2
<1>14. QED
  BY <1>3, <1>7, <1>10, <1>11, <1>12, <1>13

LEMMA LimitInit == Init => LimitInv
<1> SUFFICES ASSUME Init PROVE LimitInv
  OBVIOUS
<1>1. /\ penalties = <<>> /\ ticks = 0 /\ served = 0 /\ inFlight = 0 /\ inPublic = 0
      /\ principals = [u \in Users |-> Burst]
      /\ pending = FALSE /\ straggled = {}
      /\ conn = [c \in Conns |-> Idle]
      /\ taken = [k \in Users \cup Remotes |-> IF k \in Spent THEN Burst ELSE 0]
      /\ failures = [k \in Remotes |-> 0]
      /\ forgotten = [box \in {"penalties", "registry"} |-> [k \in Remotes |-> 0]]
  BY DEF Init
<1>2. /\ Burst \in Nat /\ FailureBurst \in Nat /\ MaxSlots \in Nat /\ MaxTicks \in Nat
      /\ MaxRequests \in Nat /\ MaxEntries \in Nat /\ PublicSlots \in Int
      /\ Users \cap Remotes = {} /\ Spent \subseteq Remotes
  BY BucketTypes, SlotCounts, ServeGateAssumption
<1>3. /\ registry \in Seq(RegistryBuckets) /\ Len(registry) <= MaxEntries /\ Distinct(registry)
      /\ \A i \in DOMAIN registry : registry[i].tokens = 0 /\ registry[i].seen = 0
      /\ \A k \in Remotes : /\ k \in Spent => Credit(registry, k, Burst) = 0
                            /\ k \notin Spent => Credit(registry, k, Burst) = Burst
  BY SpentBuckets
<1>4. /\ <<>> \in Seq(PenaltyBuckets) /\ Len(<<>>) = 0 /\ DOMAIN <<>> = {}
  BY EmptySeq
<1>5. BoxesOK
  BY <1>1, <1>2, <1>3, <1>4 DEF BoxesOK, Distinct
<1>6. Refilling
  BY <1>1, <1>3 DEF Refilling
<1>7. TokensOK
  BY <1>1, <1>2 DEF TokensOK
<1>8. Balanced
  <2>1. \A u \in Users : taken[u] + principals[u] <= Burst + ticks
    BY <1>1, <1>2
  <2>2. ASSUME NEW k \in Remotes
        PROVE  /\ taken[k] + Credit(registry, k, Burst)
                    <= (1 + forgotten["registry"][k]) * Burst + ticks
               /\ failures[k] + Credit(penalties, k, FailureBurst)
                    <= (1 + forgotten["penalties"][k]) * FailureBurst + ticks
    <3>1. Credit(penalties, k, FailureBurst) = FailureBurst
      BY <1>1, <1>4 DEF Credit, KeysOf
    <3>2. forgotten["registry"][k] = 0 /\ forgotten["penalties"][k] = 0
      BY <1>1
    <3>3. taken[k] = (IF k \in Spent THEN Burst ELSE 0) /\ failures[k] = 0
      BY <1>1
    <3>4. (1 + 0) * Burst = Burst /\ (1 + 0) * FailureBurst = FailureBurst
      BY <1>2
    <3>5. taken[k] + Credit(registry, k, Burst) = Burst
      BY <1>2, <1>3, <3>3
    <3>6. QED
      BY <1>1, <1>2, <3>1, <3>2, <3>3, <3>4, <3>5
  <2>3. QED
    BY <2>1, <2>2 DEF Balanced
<1>9. GatesOK
  <2>1. 0 <= MaxSlots /\ 0 <= PublicSlots
    BY SlotCounts
  <2>2. FALSE \in BOOLEAN /\ {} \subseteq BOOLEAN
    OBVIOUS
  <2>3. QED
    BY <1>1, <2>1, <2>2 DEF GatesOK
<1>10. Warned
  BY <1>1, IdleParts DEF Warned, Waiting
<1>11. QED
  BY <1>5, <1>6, <1>7, <1>8, <1>9, <1>10 DEF LimitInv, TokenInv

\* What the limits grant, whatever is swept, evicted or forgotten: no box, gate or
\* bucket exceeds its bound, and no key is let through more often than its burst,
\* the ticks and the evictions that started it over account for.
THEOREM LimitsHoldHolds == Spec => []LimitsHold
<1>1. GateInv /\ LimitInv => LimitsHold
  <2> SUFFICES ASSUME GateInv, LimitInv PROVE LimitsHold
    OBVIOUS
  <2>1. TypeOK
    <3>1. conn \in [Conns -> [pc : {"off", "auth", "body", "run", "sending"}, kind : Kind,
                              open : BOOLEAN, holds : BOOLEAN, audits : Nat,
                              overlapped : BOOLEAN, cut : BOOLEAN]]
      <4>1. Requests \subseteq [pc : {"off", "auth", "body", "run", "sending"}, kind : Kind,
                                open : BOOLEAN, holds : BOOLEAN, audits : Nat,
                                overlapped : BOOLEAN, cut : BOOLEAN]
        BY NobodyParts DEF Requests
      <4>2. QED
        BY <4>1 DEF GateInv, RequestsOK
    <3>2. inFlight \in 0 .. MaxSlots /\ inPublic \in 0 .. PublicSlots
      BY CountsAreNumbers, SlotCounts DEF GateInv, LimitInv, GatesOK
    <3>3. /\ penalties \in Seq([key : Remotes, tokens : 0 .. FailureBurst])
          /\ registry \in Seq([key : Remotes, tokens : 0 .. Burst, seen : 0 .. MaxTicks])
          /\ Len(penalties) <= MaxEntries /\ Len(registry) <= MaxEntries
      BY DEF LimitInv, TokenInv, BoxesOK, PenaltyBuckets, RegistryBuckets
    <3>4. /\ server \in {"up", "closing", "draining", "closed"} /\ {leaked, cuts} \subseteq Nat
      BY DEF GateInv, ShutdownOK, CountsOK
    <3>5. QED
      BY <3>1, <3>2, <3>3, <3>4 DEF TypeOK, LimitInv, TokenInv, TokensOK, GatesOK
  <2>2. \A u \in Users : taken[u] <= Burst + ticks
    <3> SUFFICES ASSUME NEW u \in Users PROVE taken[u] <= Burst + ticks
      OBVIOUS
    <3>1. /\ taken[u] + principals[u] <= Burst + ticks /\ taken[u] \in Nat
          /\ principals[u] \in 0 .. Burst /\ Burst \in Nat /\ ticks \in 0 .. MaxTicks
      BY BucketTypes DEF LimitInv, TokenInv, Balanced, TokensOK
    <3>2. QED
      BY <3>1
  <2>3. ASSUME NEW k \in Remotes
        PROVE  /\ taken[k] <= (1 + forgotten["registry"][k]) * Burst + ticks
               /\ failures[k] <= (1 + forgotten["penalties"][k]) * FailureBurst + ticks
    <3>1. PICK m, n, x, y : /\ m = (1 + forgotten["registry"][k]) * Burst + ticks
                            /\ n = (1 + forgotten["penalties"][k]) * FailureBurst + ticks
                            /\ x = Credit(registry, k, Burst)
                            /\ y = Credit(penalties, k, FailureBurst)
      OBVIOUS
    <3>2. /\ taken[k] \in Nat /\ failures[k] \in Nat /\ ticks \in Nat
          /\ forgotten["registry"][k] \in Nat /\ forgotten["penalties"][k] \in Nat
          /\ Burst \in Nat /\ FailureBurst \in Nat
      BY BucketTypes, ServeGateAssumption DEF LimitInv, TokenInv, TokensOK
    <3>3. m \in Nat /\ n \in Nat
      BY <3>1, <3>2, OneBurstMore
    <3>4. x \in Nat /\ y \in Nat
      BY <3>1, Credits DEF LimitInv, TokenInv
    <3>5. taken[k] + x <= m /\ failures[k] + y <= n
      BY <3>1 DEF LimitInv, TokenInv, Balanced
    <3>6. taken[k] <= m /\ failures[k] <= n
      BY <3>2, <3>3, <3>4, <3>5
    <3>7. QED
      BY <3>1, <3>6
  <2>4. QED
    BY <2>1, <2>2, <2>3 DEF LimitsHold, RateHeld, FailuresBounded
<1>2. Spec => []LimitInv
  BY LimitInit, LimitStep, GateInvariant, PTL DEF Spec
<1>3. QED
  BY <1>1, <1>2, GateInvariant, PTL
================================================================================
