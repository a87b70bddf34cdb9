------------------------- MODULE StagedActionsProofs -------------------------
(***************************************************************************)
(* Theorems about StagedActions for any number of proposals, ratifiers,    *)
(* edits and documents, and any number of failing appends.                 *)
(***************************************************************************)
EXTENDS StagedActions, Integers, FiniteSetTheorems, SequenceTheorems,
        WellFoundedInduction, TLAPS

(***************************************************************************)
(* The CHOOSE of Last has something to choose.                             *)
(***************************************************************************)
LEMMA LeastExists ==
  ASSUME NEW S \in SUBSET Nat, S # {}
  PROVE  \E k \in S : \A j \in S : k <= j
<1>1. PICK k \in S : \A j \in S : <<j, k>> \notin OpToRel(<, Nat)
  <2>1. IsWellFoundedOn(OpToRel(<, Nat), Nat)
    BY NatLessThanWellFounded
  <2>2. QED
    BY <2>1, WFMin
<1>2. \A j \in S : ~ (j < k)
  BY <1>1 DEF OpToRel
<1>3. QED
  BY <1>2

\* A set of numbers up to n has a greatest one, and that is its Last.
LEMMA LastIsGreatest ==
  ASSUME NEW n \in Nat, NEW S \in SUBSET (1 .. n), S # {}
  PROVE  Last(S) \in S /\ \A j \in S : j <= Last(S)
<1>1. {n - k : k \in S} \in SUBSET Nat /\ {n - k : k \in S} # {}
  <2>1. \A k \in S : n - k \in Nat
    OBVIOUS
  <2>2. {n - k : k \in S} \in SUBSET Nat
    BY <2>1, Zenon
  <2>3. PICK k \in S : TRUE
    OBVIOUS
  <2>4. n - k \in {n - i : i \in S}
    BY Zenon
  <2>5. QED
    BY <2>2, <2>4, Zenon
<1>2. PICK x \in {n - k : k \in S} : \A y \in {n - k : k \in S} : x <= y
  BY <1>1, LeastExists
<1>3. PICK k \in S : x = n - k
  BY <1>2
<1>4. \A j \in S : n - k <= n - j
  BY <1>2, <1>3
<1>5. \A j \in S : j <= k
  BY <1>4
<1>6. QED
  BY <1>5 DEF Last

------------------------------------------------------------------------------
(***************************************************************************)
(* Typing.  An id is never greater than the number of proposals staged:    *)
(* that is what keeps it within Ids.                                       *)
(***************************************************************************)
Staged == {p \in Proposals : stage[p] = "staged"}
Used   == 1 .. Cardinality(Staged)
InFlight(r) == ratify[r] \notin {"idle", "answered"}

Typed ==
  /\ TypeOK
  /\ \A k \in DOMAIN log : log[k].id \in Used
  /\ \A k \in DOMAIN log : Proposed(k) => log[k].by \in Proposals
  /\ \A r \in Ratifiers : InFlight(r) => found[r].id \in Used /\ found[r].of \in Proposals

LEMMA UsedIsIds ==
  ASSUME TypeOK
  PROVE  /\ IsFiniteSet(Staged)
         /\ Cardinality(Staged) \in Nat
         /\ Cardinality(Proposals) \in Nat
         /\ Used \subseteq Ids
<1>1. Cardinality(Proposals) \in Nat
  BY StagedAssumption, FS_CardinalityType
<1>2. Staged \in SUBSET Proposals
  BY DEF Staged
<1>3. IsFiniteSet(Staged) /\ Cardinality(Staged) <= Cardinality(Proposals)
  BY <1>2, StagedAssumption, FS_Subset
<1>4. Cardinality(Staged) \in Nat
  BY <1>3, FS_CardinalityType
<1>5. QED
  BY <1>1, <1>3, <1>4 DEF Used, Ids

\* nextStagedId hands out an id above every one in the log.
LEMMA NextIdIsNew ==
  ASSUME Typed
  PROVE  /\ NextId \in Nat
         /\ 1 <= NextId /\ NextId <= Cardinality(Staged) + 1
         /\ \A k \in DOMAIN log : log[k].id < NextId
<1> DEFINE used == {log[k].id : k \in DOMAIN log}
<1>1. Cardinality(Staged) \in Nat
  BY UsedIsIds DEF Typed
<1>2. used \in SUBSET (1 .. Cardinality(Staged))
  BY DEF Typed, Used
<1>3. NextId = IF used = {} THEN 1 ELSE Last(used) + 1
  BY DEF NextId
<1>4. \A k \in DOMAIN log : log[k].id \in used
  OBVIOUS
<1> HIDE DEF used
<1>5. CASE used = {}
  BY <1>1, <1>3, <1>4, <1>5
<1>6. CASE used # {}
  <2>1. Last(used) \in used /\ \A j \in used : j <= Last(used)
    BY <1>1, <1>2, <1>6, LastIsGreatest
  <2>2. Last(used) \in 1 .. Cardinality(Staged)
    BY <1>2, <2>1
  <2>3. \A k \in DOMAIN log : log[k].id <= Last(used) /\ log[k].id \in Nat
    <3>1. \A i \in used : i \in Nat
      BY <1>1, <1>2
    <3>2. QED
      BY <1>4, <2>1, <3>1, Zenon
  <2>4. QED
    BY <1>1, <1>3, <1>6, <2>2, <2>3
<1>7. QED
  BY <1>5, <1>6

------------------------------------------------------------------------------
(***************************************************************************)
(* How the log grows.                                                      *)
(***************************************************************************)
\* Lines are only added, and each of them is in S.
Grows(S) ==
  /\ log' \in Seq(Line)
  /\ Len(log') >= Len(log)
  /\ \A k \in DOMAIN log : log'[k] = log[k]
  /\ \A k \in DOMAIN log' : k \notin DOMAIN log => log'[k] \in S

Decision(r, what) == [id |-> found[r].id, what |-> what, by |-> r]
Expiries == {line \in Line : line.what = "expired" /\ line.id \in Pending}

LEMMA AppendGrows ==
  ASSUME log \in Seq(Line), NEW line \in Line, Appended(line)
  PROVE  Grows({line}) /\ Len(log') <= Len(log) + 1
<1>1. CASE ragged
  BY <1>1 DEF Appended, Grows
<1>2. CASE ~ragged
  BY <1>2 DEF Appended, Grows
<1>3. QED
  BY <1>1, <1>2

LEMMA ConcatGrows ==
  ASSUME log \in Seq(Line), NEW S \in SUBSET Line, NEW more \in Seq(S), log' = log \o more
  PROVE  Grows(S)
<1>1. more \in Seq(Line)
  OBVIOUS
<1>2. /\ log' \in Seq(Line)
      /\ Len(log') = Len(log) + Len(more)
      /\ \A k \in 1 .. Len(log) + Len(more) :
           log'[k] = IF k <= Len(log) THEN log[k] ELSE more[k - Len(log)]
  BY <1>1, ConcatProperties
<1>3. \A k \in DOMAIN log' : k \notin DOMAIN log => log'[k] \in S
  <2> SUFFICES ASSUME NEW k \in DOMAIN log', k \notin DOMAIN log
               PROVE  log'[k] \in S
    OBVIOUS
  <2>1. k - Len(log) \in DOMAIN more /\ log'[k] = more[k - Len(log)]
    BY <1>1, <1>2
  <2>2. QED
    BY <2>1
<1>4. QED
  BY <1>1, <1>2, <1>3 DEF Grows

LEMMA SweepGrows ==
  ASSUME TypeOK, Sweep \/ SweepFails
  PROVE  Grows(Expiries)
<1>1. Cardinality(Stale) \in Nat \ {0} /\ Stale \subseteq Pending
  <2>1. IsFiniteSet(Ids)
    BY UsedIsIds, FS_Interval DEF Ids
  <2>2. Stale \in SUBSET Ids
    BY DEF Stale, Pending, Known
  <2>3. Stale # {}
    BY DEF Sweep, SweepFails
  <2>4. IsFiniteSet(Stale)
    BY <2>1, <2>2, FS_Subset
  <2>5. QED
    BY <2>3, <2>4, FS_CardinalityType, FS_EmptySet DEF Stale
<1>2. \A i \in Stale : Expiry(i) \in Expiries
  BY <1>1 DEF Expiry, Expiries, Line, Pending, Known
<1>3. \A order \in Orders(Stale), n \in 0 .. Cardinality(Stale) :
        [k \in 1 .. n |-> Expiry(order[k])] \in Seq(Expiries)
  <2> SUFFICES ASSUME NEW order \in Orders(Stale), NEW n \in 0 .. Cardinality(Stale)
               PROVE  [k \in 1 .. n |-> Expiry(order[k])] \in Seq(Expiries)
    OBVIOUS
  <2>1. n \in Nat /\ \A k \in 1 .. n : order[k] \in Stale
    BY <1>1 DEF Orders
  <2>2. \A k \in 1 .. n : Expiry(order[k]) \in Expiries
    BY <1>2, <2>1
  <2>3. QED
    BY <2>1, <2>2
<1>4. ASSUME NEW order \in Orders(Stale), NEW n \in 0 .. Cardinality(Stale),
             LET lines == [k \in 1 .. n |-> Expiry(order[k])]
             IN  log' = log \o (IF ragged /\ n > 0 THEN Tail(lines) ELSE lines)
      PROVE  Grows(Expiries)
  <2> DEFINE lines == [k \in 1 .. n |-> Expiry(order[k])]
             more == IF ragged /\ n > 0 THEN Tail(lines) ELSE lines
  <2>1. lines \in Seq(Expiries) /\ Len(lines) = n
    BY <1>1, <1>3
  <2>2. log' = log \o more
    BY <1>4
  <2>3. more \in Seq(Expiries)
    <3> HIDE DEF lines
    <3>1. CASE ragged /\ n > 0
      <4>1. lines # << >>
        BY <2>1, <3>1
      <4>2. Tail(lines) \in Seq(Expiries)
        BY <2>1, <4>1, HeadTailProperties
      <4>3. QED
        BY <3>1, <4>2
    <3>2. CASE ~(ragged /\ n > 0)
      BY <2>1, <3>2
    <3>3. QED
      BY <3>1, <3>2
  <2>4. Expiries \in SUBSET Line /\ log \in Seq(Line)
    BY DEF Expiries, TypeOK
  <2> HIDE DEF more
  <2>5. QED
    BY <2>2, <2>3, <2>4, ConcatGrows
<1>5. CASE Sweep
  <2>1. PICK order \in Orders(Stale) :
          LET lines == [k \in DOMAIN order |-> Expiry(order[k])]
          IN  log' = log \o (IF ragged THEN Tail(lines) ELSE lines)
    BY <1>5 DEF Sweep
  <2>2. DOMAIN order = 1 .. Cardinality(Stale)
    BY DEF Orders
  <2>3. Cardinality(Stale) \in 0 .. Cardinality(Stale) /\ Cardinality(Stale) > 0
    BY <1>1
  <2>4. QED
    BY <1>4, <2>1, <2>2, <2>3
<1>6. CASE SweepFails
  <2>1. PICK order \in Orders(Stale), n \in 0 .. Cardinality(Stale) - 1 :
          LET lines == [k \in 1 .. n |-> Expiry(order[k])]
          IN  log' = log \o (IF ragged /\ n > 0 THEN Tail(lines) ELSE lines)
    BY <1>6 DEF SweepFails
  <2>2. n \in 0 .. Cardinality(Stale)
    BY <1>1
  <2>3. QED
    BY <1>4, <2>1, <2>2
<1>7. QED
  BY <1>5, <1>6

------------------------------------------------------------------------------
\* What an open id stands for.
LEMMA PendingIsOpen ==
  ASSUME Typed, NEW i \in Pending
  PROVE  /\ i \in Used
         /\ Row(i) \in Proposals
         /\ \E k \in LinesOf(i) :
              Proposed(k) /\ Last(LinesOf(i)) = k /\ \A j \in LinesOf(i) : j <= k
<1>1. Len(log) \in Nat /\ DOMAIN log = 1 .. Len(log)
  BY DEF Typed, TypeOK
<1>2. LinesOf(i) \in SUBSET (1 .. Len(log)) /\ LinesOf(i) # {}
  BY <1>1 DEF LinesOf, Pending, Known
<1>3. Last(LinesOf(i)) \in LinesOf(i) /\ \A j \in LinesOf(i) : j <= Last(LinesOf(i))
  BY <1>1, <1>2, LastIsGreatest
<1>4. Proposed(Last(LinesOf(i)))
  BY DEF Pending, Status, Proposed
<1>5. Row(i) \in Proposals
  <2> DEFINE S == {k \in LinesOf(i) : Proposed(k)}
  <2>1. S \in SUBSET (1 .. Len(log)) /\ S # {}
    BY <1>2, <1>3, <1>4
  <2>2. Last(S) \in S
    BY <1>1, <2>1, LastIsGreatest
  <2>3. QED
    BY <2>2 DEF Row, LinesOf, Typed
<1>6. i \in Used
  BY <1>2 DEF LinesOf, Typed
<1>7. QED
  BY <1>3, <1>4, <1>5, <1>6

\* A step that lets the log grow by well-numbered lines, and nothing else that
\* typing is about but the places of the calls.
LEMMA LogStaysTyped ==
  ASSUME Typed, NEW S, Grows(S), Staged \subseteq Staged', stage' \in [Proposals -> StagePlaces],
         \A line \in S : line.id \in Used' /\ (line.what = "proposed" => line.by \in Proposals)
  PROVE  /\ Used \subseteq Used'
         /\ \A k \in DOMAIN log' : log'[k].id \in Used'
         /\ \A k \in DOMAIN log' : Proposed(k)' => log'[k].by \in Proposals
<1>1. Used \subseteq Used'
  <2>1. Staged' \in SUBSET Proposals
    BY DEF Staged
  <2>2. IsFiniteSet(Staged')
    BY <2>1, StagedAssumption, FS_Subset
  <2>3. Cardinality(Staged) <= Cardinality(Staged')
    BY <2>2, FS_Subset
  <2>4. Cardinality(Staged) \in Nat /\ Cardinality(Staged') \in Nat
    BY <2>2, FS_CardinalityType, UsedIsIds DEF Typed
  <2>5. QED
    BY <2>3, <2>4 DEF Used
<1>2. \A k \in DOMAIN log : log'[k] = log[k]
  BY DEF Grows
<1>3. \A k \in DOMAIN log' : k \notin DOMAIN log => log'[k] \in S
  BY DEF Grows
<1>4. QED
  BY <1>1, <1>2, <1>3 DEF Typed, Proposed

\* An append that throws keeps the bound on faults.
LEMMA FailTyped ==
  ASSUME TypeOK, AppendFails
  PROVE  log' = log /\ ragged' \in BOOLEAN /\ faults' \in 0 .. MaxFaults
<1>1. ragged' \in BOOLEAN
  BY Zenon DEF AppendFails, TypeOK
<1>2. faults' \in 0 .. MaxFaults
  BY StagedAssumption DEF AppendFails, TypeOK
<1>3. QED
  BY <1>1, <1>2 DEF AppendFails

LEMMA StageTyped ==
  ASSUME Typed, NEW p \in Proposals, Stage(p)
  PROVE  Typed'
<1> DEFINE line == [id |-> NextId, what |-> "proposed", by |-> p]
<1>1. /\ stage[p] \in {"composed", "anchored"}
      /\ UNCHANGED <<kind, target, base, version, ratify, found, load, looked,
                     overdue, doc, applied, newer>>
  BY DEF Stage, ratifyVars, docVars
<1>2. CASE stage' = [stage EXCEPT ![p] = "staged"] /\ Appended(line)
           /\ named' = [named EXCEPT ![p] = Contenders(p)]
  <2>1. Staged' = Staged \cup {p} /\ p \notin Staged
    BY <1>1, <1>2 DEF Staged, Typed, TypeOK
  <2>2. Cardinality(Staged') = Cardinality(Staged) + 1
    BY <2>1, FS_AddElement, UsedIsIds DEF Typed
  <2>3. NextId \in Used'
    BY <2>2, NextIdIsNew, UsedIsIds DEF Used, Typed
  <2>4. stage' \in [Proposals -> StagePlaces]
    BY <1>2 DEF Typed, TypeOK, StagePlaces
  <2>5. Cardinality(Staged') <= Cardinality(Proposals)
    <3>1. Staged' \in SUBSET Proposals
      BY DEF Staged
    <3>2. QED
      BY <3>1, StagedAssumption, FS_Subset
  <2>6. Used' \subseteq Ids
    BY <2>2, <2>5, UsedIsIds DEF Used, Ids, Typed
  <2>7. line \in Line
    BY <2>3, <2>6 DEF Line
  <2>8. log \in Seq(Line)
    BY DEF Typed, TypeOK
  <2> HIDE DEF line
  <2>9. Grows({line})
    BY <1>2, <2>7, <2>8, AppendGrows
  <2>10. line.id = NextId /\ line.by = p
    BY DEF line
  <2>11. /\ Used \subseteq Used'
         /\ \A k \in DOMAIN log' : log'[k].id \in Used'
         /\ \A k \in DOMAIN log' : Proposed(k)' => log'[k].by \in Proposals
    BY <2>1, <2>3, <2>4, <2>9, <2>10, LogStaysTyped
  <2>12. Contenders(p) \subseteq Ids
    BY DEF Contenders, Pending, Known
  <2>13. named' \in [Proposals -> SUBSET Ids]
    BY <1>2, <2>12 DEF Typed, TypeOK
  <2>14. ragged' \in BOOLEAN /\ faults' = faults
    BY <1>2 DEF Appended
  <2>15. log' \in Seq(Line)
    BY <2>9 DEF Grows
  <2>16. TypeOK'
    BY <1>1, <2>4, <2>13, <2>14, <2>15 DEF Typed, TypeOK
  <2>17. \A r \in Ratifiers : InFlight(r)' => found'[r].id \in Used' /\ found'[r].of \in Proposals
    BY <1>1, <2>11 DEF Typed, InFlight
  <2>18. QED
    BY <2>11, <2>16, <2>17 DEF Typed
<1>3. CASE stage' = [stage EXCEPT ![p] = "failed"] /\ AppendFails /\ UNCHANGED named
  <2>1. Staged' = Staged
    BY <1>1, <1>3 DEF Staged, Typed, TypeOK
  <2>2. Used' = Used
    BY <2>1 DEF Used
  <2>3. TypeOK'
    BY <1>1, <1>3, FailTyped DEF Typed, TypeOK, StagePlaces
  <2>4. QED
    BY <1>1, <1>3, <2>2, <2>3 DEF Typed, InFlight, Proposed, AppendFails
<1>4. QED
  BY <1>2, <1>3 DEF Stage

LEMMA LookTyped ==
  ASSUME Typed, NEW r \in Ratifiers, Look(r)
  PROVE  Typed'
<1>1. UNCHANGED <<log, ragged, faults, stage, kind, target, base, version, named, overdue,
                  doc, applied, newer, load>>
  BY DEF Look, Judge, queueVars, stageVars, docVars
<1>2. Used' = Used
  BY <1>1 DEF Used, Staged
<1>3. CASE \E i \in Pending : Judge(r, i)
  <2>1. PICK i \in Pending : Judge(r, i)
    BY <1>3
  <2>2. i \in Used /\ Row(i) \in Proposals
    BY PendingIsOpen
  <2>3. i \in Nat
    BY <2>2, UsedIsIds DEF Used, Typed
  <2>4. Len(log) \in Nat
    BY DEF Typed, TypeOK
  <2>5. found' = [found EXCEPT ![r] = [id |-> i, of |-> Row(i)]]
        /\ looked' = [looked EXCEPT ![r] = Len(log)]
        /\ \E place \in {"approve", "reject"} : ratify' = [ratify EXCEPT ![r] = place]
    BY <2>1 DEF Judge, RatifyGoes
  <2>6. TypeOK'
    BY <1>1, <2>2, <2>3, <2>4, <2>5 DEF Typed, TypeOK, RatifyPlaces
  <2>7. \A x \in Ratifiers : InFlight(x)' => found'[x].id \in Used /\ found'[x].of \in Proposals
    BY <2>2, <2>5 DEF Typed, TypeOK, InFlight
  <2>8. QED
    BY <1>1, <1>2, <2>6, <2>7 DEF Typed, Proposed
<1>4. CASE RatifyGoes(r, "answered") /\ UNCHANGED <<found, load, looked>>
  BY <1>1, <1>2, <1>4 DEF Typed, TypeOK, RatifyPlaces, RatifyGoes, InFlight, Proposed
<1>5. QED
  BY <1>3, <1>4 DEF Look

LEMMA DecisionTyped ==
  ASSUME Typed, NEW r \in Ratifiers, NEW what \in {"ratified", "rejected"}, InFlight(r),
         RecordDecision(r, what), UNCHANGED <<found, load, looked, stageVars, overdue, docVars>>
  PROVE  Typed'
<1> DEFINE line == Decision(r, what)
<1>1. Used' = Used
  BY DEF Used, Staged, stageVars
<1>2. ratify' = [ratify EXCEPT ![r] = "answered"]
  BY DEF RecordDecision, RatifyGoes
<1>3. ratify' \in [Ratifiers -> RatifyPlaces]
  BY <1>2 DEF Typed, TypeOK, RatifyPlaces
<1>4. \A x \in Ratifiers : InFlight(x)' => found'[x].id \in Used' /\ found'[x].of \in Proposals
  BY <1>1, <1>2 DEF Typed, TypeOK, InFlight
<1>5. CASE Appended(line)
  <2>1. found[r].id \in Used
    BY DEF Typed
  <2>2. line \in Line /\ line.id \in Used /\ line.what # "proposed"
    BY <2>1, UsedIsIds DEF Decision, Line, Typed
  <2>3. log \in Seq(Line)
    BY DEF Typed, TypeOK
  <2>4. Staged \subseteq Staged' /\ stage' \in [Proposals -> StagePlaces]
    BY DEF Staged, stageVars, Typed, TypeOK
  <2> HIDE DEF line
  <2>5. Grows({line})
    BY <1>5, <2>2, <2>3, AppendGrows
  <2>6. /\ \A k \in DOMAIN log' : log'[k].id \in Used'
        /\ \A k \in DOMAIN log' : Proposed(k)' => log'[k].by \in Proposals
    BY <1>1, <2>2, <2>4, <2>5, LogStaysTyped
  <2>7. log' \in Seq(Line) /\ ragged' \in BOOLEAN /\ faults' = faults
    BY <1>5, <2>5 DEF Appended, Grows
  <2>8. TypeOK'
    BY <1>3, <2>7 DEF Typed, TypeOK, stageVars, docVars
  <2>9. QED
    BY <1>4, <2>6, <2>8 DEF Typed
<1>6. CASE AppendFails
  BY <1>1, <1>3, <1>4, <1>6, FailTyped DEF Typed, TypeOK, Proposed, stageVars, docVars
<1>7. QED
  BY <1>5, <1>6 DEF RecordDecision, Decision

LEMMA SweepTyped ==
  ASSUME Typed, Sweep \/ SweepFails
  PROVE  Typed'
<1>1. UNCHANGED <<stageVars, ratifyVars, overdue, docVars>>
  BY DEF Sweep, SweepFails
<1>2. Grows(Expiries)
  BY SweepGrows DEF Typed
<1>3. Staged' = Staged /\ Used' = Used /\ stage' \in [Proposals -> StagePlaces]
  BY <1>1 DEF Used, Staged, stageVars, Typed, TypeOK
<1>4. \A line \in Expiries : line.id \in Used /\ line.what # "proposed"
  BY PendingIsOpen DEF Expiries
<1>5. /\ \A k \in DOMAIN log' : log'[k].id \in Used'
      /\ \A k \in DOMAIN log' : Proposed(k)' => log'[k].by \in Proposals
  BY <1>2, <1>3, <1>4, LogStaysTyped
<1>6. ragged' \in BOOLEAN /\ faults' \in 0 .. MaxFaults
  <2>1. ragged' \in BOOLEAN
    BY Zenon DEF Sweep, SweepFails, Typed, TypeOK
  <2>2. faults' = faults \/ (faults < MaxFaults /\ faults' = faults + 1)
    BY Zenon DEF Sweep, SweepFails
  <2>3. faults' \in 0 .. MaxFaults
    BY <2>2, StagedAssumption DEF Typed, TypeOK
  <2>4. QED
    BY <2>1, <2>3
<1>7. TypeOK'
  BY <1>1, <1>2, <1>6 DEF Typed, TypeOK, Grows, stageVars, ratifyVars, docVars
<1>8. QED
  BY <1>1, <1>3, <1>5, <1>7 DEF Typed, InFlight, ratifyVars

LEMMA DispatchTyped ==
  ASSUME Typed, NEW r \in Ratifiers, Dispatch(r)
  PROVE  Typed'
<1> DEFINE p == found[r].of
<1>1. p \in Proposals
  BY DEF Typed, InFlight, Dispatch
<1>2. /\ doc' = [doc EXCEPT ![target[p]] = NewText(r)]
      /\ applied' = applied \cup {p}
      /\ \E place \in {"landed", "answered"} : ratify' = [ratify EXCEPT ![r] = place]
      /\ InFlight(r)
      /\ UNCHANGED <<newer, found, load, looked, queueVars, stageVars, overdue>>
  BY DEF Dispatch, RatifyGoes, InFlight
<1> HIDE DEF p
<1>3. NewText(r) \in SUBSET Changes
  <2>1. p \in Changes
    BY <1>1 DEF Changes
  <2>2. doc[target[p]] \in SUBSET Changes /\ load[r] \in SUBSET Changes /\ base[p] \in SUBSET Changes
    BY <1>1 DEF Typed, TypeOK
  <2>3. kind[p] \in Kinds
    BY <1>1 DEF Typed, TypeOK
  <2>4. NewText(r) = {p} \cup CASE kind[p] = "fresh" -> doc[target[p]]
                             [] kind[p] = "blind" -> load[r]
                             [] OTHER -> base[p]
    BY DEF NewText, p
  <2>5. QED
    BY <2>1, <2>2, <2>4
<1>4. TypeOK'
  BY <1>1, <1>2, <1>3 DEF Typed, TypeOK, RatifyPlaces, queueVars, stageVars
<1>5. Used' = Used
  BY <1>2 DEF Used, Staged, stageVars
<1>6. QED
  BY <1>2, <1>4, <1>5 DEF Typed, TypeOK, InFlight, Proposed, queueVars

LEMMA TypedStep == Typed /\ [Next]_vars => Typed'
<1> SUFFICES ASSUME Typed, [Next]_vars
             PROVE  Typed'
  OBVIOUS
<1>1. ASSUME NEW p \in Proposals, Compose(p) \/ Anchor(p) PROVE Typed'
  <2>1. /\ stage[p] \in {"idle", "composed"}
        /\ \E place \in {"composed", "anchored"} : stage' = [stage EXCEPT ![p] = place]
        /\ UNCHANGED <<target, named, queueVars, ratifyVars, overdue, docVars>>
    BY <1>1 DEF Compose, Anchor
  <2>2. Staged' = Staged
    BY <2>1 DEF Staged, Typed, TypeOK
  <2>3. doc[target[p]] \in SUBSET Changes
    BY DEF Typed, TypeOK
  <2>4. base' \in [Proposals -> SUBSET Changes] /\ kind' \in [Proposals -> Kinds]
    BY <1>1, <2>3 DEF Compose, Composed, Anchor, Typed, TypeOK
  <2>5. version' \in [Proposals -> SUBSET Changes]
    BY <1>1, <2>3 DEF Compose, Anchor, Typed, TypeOK
  <2>6. stage' \in [Proposals -> StagePlaces]
    BY <2>1 DEF Typed, TypeOK, StagePlaces
  <2>7. /\ UNCHANGED <<target, named, log, ragged, faults, ratify, found, load, looked>>
        /\ UNCHANGED <<overdue, doc, applied, newer>>
    BY <2>1 DEF queueVars, ratifyVars, docVars
  <2>8. TypeOK'
    BY <2>4, <2>5, <2>6, <2>7 DEF Typed, TypeOK
  <2>9. QED
    BY <2>1, <2>2, <2>8 DEF Typed, InFlight, Proposed, Used, queueVars, ratifyVars
<1>2. ASSUME NEW p \in Proposals, Stage(p) PROVE Typed'
  BY <1>2, StageTyped
<1>3. ASSUME NEW r \in Ratifiers, Look(r) PROVE Typed'
  BY <1>3, LookTyped
<1>4. ASSUME NEW r \in Ratifiers, Reject(r) PROVE Typed'
  <2>1. InFlight(r)
    BY <1>4 DEF Reject, InFlight
  <2>2. QED
    BY <1>4, <2>1, DecisionTyped DEF Reject
<1>5. ASSUME NEW r \in Ratifiers, Record(r) PROVE Typed'
  <2>1. InFlight(r)
    BY <1>5 DEF Record, InFlight
  <2>2. QED
    BY <1>5, <2>1, DecisionTyped DEF Record
<1>6. ASSUME NEW r \in Ratifiers, Keep(r) PROVE Typed'
  BY <1>6 DEF Keep, RatifyGoes, Typed, TypeOK, RatifyPlaces, InFlight, Proposed, Used, Staged,
     queueVars, stageVars, docVars
<1>7. ASSUME NEW r \in Ratifiers, Load(r) PROVE Typed'
  <2>1. found[r].of \in Proposals
    BY <1>7 DEF Load, Typed, InFlight
  <2>2. doc[target[found[r].of]] \in SUBSET Changes
    BY <2>1 DEF Typed, TypeOK
  <2>3. QED
    BY <1>7, <2>2 DEF Load, RatifyGoes, Typed, TypeOK, RatifyPlaces, InFlight, Proposed, Used,
       Staged, queueVars, stageVars, docVars
<1>8. ASSUME NEW r \in Ratifiers, Dispatch(r) PROVE Typed'
  BY <1>8, DispatchTyped
<1>9. ASSUME NEW e \in Edits, NEW d \in Docs, Edit(e, d) PROVE Typed'
  <2>1. doc' \in [Docs -> SUBSET Changes] /\ newer' \in [Proposals -> SUBSET Edits]
    BY <1>9 DEF Edit, Typed, TypeOK, Changes
  <2>2. QED
    BY <1>9, <2>1 DEF Edit, Typed, TypeOK, InFlight, Proposed, Used, Staged,
       queueVars, stageVars, ratifyVars
<1>10. ASSUME NEW i \in Ids, Expire(i) PROVE Typed'
  BY <1>10 DEF Expire, Typed, TypeOK, InFlight, Proposed, Used, Staged,
     queueVars, stageVars, ratifyVars, docVars
<1>11. CASE Sweep \/ SweepFails
  BY <1>11, SweepTyped
<1>12. CASE UNCHANGED vars
  BY <1>12 DEF vars, Typed, TypeOK, InFlight, Proposed, Used, Staged,
     queueVars, stageVars, ratifyVars, docVars
<1>13. QED
  BY <1>1, <1>2, <1>3, <1>4, <1>5, <1>6, <1>7, <1>8, <1>9, <1>10, <1>11, <1>12 DEF Next

LEMMA TypedInvariant == Spec => []Typed
<1>1. Init => Typed
  <2> SUFFICES ASSUME Init PROVE Typed
    OBVIOUS
  <2>1. log \in Seq(Line) /\ DOMAIN log = {}
    BY DEF Init
  <2>2. ragged \in BOOLEAN
    BY Zenon DEF Init
  <2>3. TypeOK
    BY <2>1, <2>2, StagedAssumption DEF Init, TypeOK, Kinds, StagePlaces, RatifyPlaces
  <2>4. QED
    BY <2>1, <2>3 DEF Init, Typed, InFlight
<1>2. QED
  BY <1>1, TypedStep, PTL DEF Spec

\* Type correctness; that ids stay within 1 .. Cardinality(Proposals) says
\* that no decision, expiry or failed append makes nextStagedId skip one.
THEOREM TypeCorrect == Spec => []TypeOK
BY TypedInvariant, PTL DEF Typed

------------------------------------------------------------------------------
(***************************************************************************)
(* What the lines of the log mean.  First is what makes the rest           *)
(* inductive: a proposal is the first line of its id, so an open id has    *)
(* that line only.                                                         *)
(***************************************************************************)
First == \A j, k \in DOMAIN log : j < k /\ Proposed(k) => log[j].id # log[k].id

\* Who has written a line has nothing left to write.
Settled ==
  \A k \in DOMAIN log :
    /\ Proposed(k) => stage[log[k].by] = "staged"
    /\ log[k].what \in {"ratified", "rejected"} =>
         log[k].by \in Ratifiers /\ ratify[log[k].by] = "answered"

\* A call that is about to decide found no decision when it looked.
Watched ==
  \A r \in Ratifiers : InFlight(r) =>
    /\ looked[r] <= Len(log)
    /\ \A j \in DOMAIN log :
         log[j].id = found[r].id /\ log[j].what # "proposed" => looked[r] < j

Landed == \A r \in Ratifiers : ratify[r] = "landed" => found[r].of \in applied

QueueInv ==
  /\ First
  /\ Settled
  /\ Watched
  /\ Landed
  /\ ContestsNamed
  /\ RatifiedWasApplied
  /\ DecidedOnOpen

\* An id with a proposal that no later line is about is open, and its row is
\* that proposal.
LEMMA OpenIsPending ==
  ASSUME Typed, First, NEW j \in DOMAIN log, Proposed(j),
         \A l \in DOMAIN log : j < l => log[l].id # log[j].id
  PROVE  log[j].id \in Pending /\ Row(log[j].id) = log[j].by
<1> DEFINE i == log[j].id
<1>1. Len(log) \in Nat /\ DOMAIN log = 1 .. Len(log)
  BY DEF Typed, TypeOK
<1>2. LinesOf(i) = {j}
  <2>1. \A l \in LinesOf(i) : l = j
    BY <1>1 DEF LinesOf, First
  <2>2. QED
    BY <2>1 DEF LinesOf
<1>3. {k \in LinesOf(i) : Proposed(k)} = {j}
  BY <1>2
<1>4. Last({j}) = j
  BY <1>1 DEF Last
<1>5. i \in Ids
  BY UsedIsIds DEF Typed
<1>6. QED
  BY <1>2, <1>3, <1>4, <1>5 DEF Pending, Known, Status, Row, Proposed

\* An open id has no line but its proposal.
LEMMA PendingHasOneLine ==
  ASSUME Typed, First, NEW i \in Pending, NEW j \in DOMAIN log, log[j].id = i
  PROVE  Proposed(j)
<1>1. PICK k \in LinesOf(i) : Proposed(k) /\ \A l \in LinesOf(i) : l <= k
  BY PendingIsOpen
<1>2. k \in DOMAIN log /\ log[k].id = i /\ j <= k
  BY <1>1 DEF LinesOf
<1>3. DOMAIN log \subseteq Nat
  BY DEF Typed, TypeOK
<1>4. QED
  BY <1>1, <1>2, <1>3 DEF First

\* A step that leaves the log and its writers alone.
LEMMA QuietStep ==
  ASSUME Typed, QueueInv, UNCHANGED <<log, stage, target, named>>,
         applied \subseteq applied',
         \A r \in Ratifiers :
           /\ ratify[r] # "idle" => found'[r] = found[r] /\ looked'[r] = looked[r]
           /\ ratify[r] = "answered" => ratify'[r] = "answered"
           /\ InFlight(r)' => InFlight(r)
           /\ ratify'[r] = "landed" => ratify[r] = "landed" \/ found'[r].of \in applied'
  PROVE  QueueInv'
<1>1. First' /\ Settled'
  BY DEF QueueInv, First, Settled, Proposed
<1>2. Watched' /\ Landed'
  BY DEF QueueInv, Watched, Landed, InFlight
<1>3. ContestsNamed'
  BY DEF QueueInv, ContestsNamed, StagedAt, Proposed
<1>4. RatifiedWasApplied' /\ DecidedOnOpen'
  BY DEF QueueInv, RatifiedWasApplied, DecidedOnOpen, Settled
<1>5. QED
  BY <1>1, <1>2, <1>3, <1>4 DEF QueueInv

LEMMA StageQueue ==
  ASSUME Typed, QueueInv, NEW p \in Proposals, Stage(p)
  PROVE  QueueInv'
<1> DEFINE line == [id |-> NextId, what |-> "proposed", by |-> p]
<1>1. /\ stage[p] \in {"composed", "anchored"}
      /\ UNCHANGED <<target, ratify, found, looked, applied>>
  BY DEF Stage, ratifyVars, docVars
<1>2. \A k \in DOMAIN log : Proposed(k) => log[k].by \in Proposals /\ log[k].by # p
  BY <1>1 DEF Typed, QueueInv, Settled
<1>3. Len(log) \in Nat /\ DOMAIN log = 1 .. Len(log)
  BY DEF Typed, TypeOK
<1>4. CASE stage' = [stage EXCEPT ![p] = "failed"] /\ AppendFails /\ UNCHANGED named
  <2>1. log' = log
    BY <1>4 DEF AppendFails
  <2>2. Settled'
    BY <1>1, <1>2, <1>4, <2>1 DEF Typed, TypeOK, QueueInv, Settled, Proposed
  <2>3. First' /\ Watched' /\ Landed'
    BY <1>1, <2>1 DEF QueueInv, First, Watched, Landed, Proposed, InFlight
  <2>4. ContestsNamed' /\ RatifiedWasApplied' /\ DecidedOnOpen'
    BY <1>1, <1>4, <2>1
    DEF QueueInv, ContestsNamed, StagedAt, Proposed, RatifiedWasApplied, DecidedOnOpen
  <2>5. QED
    BY <2>2, <2>3, <2>4 DEF QueueInv
<1>5. CASE stage' = [stage EXCEPT ![p] = "staged"] /\ Appended(line)
           /\ named' = [named EXCEPT ![p] = Contenders(p)]
  <2>1. \A k \in DOMAIN log : log[k].id < NextId /\ log[k].id \in Nat
    BY NextIdIsNew, UsedIsIds DEF Typed, Used
  <2>2. NextId \in Nat
    BY NextIdIsNew
  <2>3. log' = log \/ log' = Append(log, line)
    BY <1>5 DEF Appended
  <2>4. log \in Seq(Line)
    BY DEF Typed, TypeOK
  <2>5. line.what = "proposed" /\ line.id = NextId /\ line.by = p
    OBVIOUS
  <2> HIDE DEF line
  <2>6. /\ DOMAIN log' \subseteq Nat
        /\ \A k \in DOMAIN log : k \in DOMAIN log' /\ log'[k] = log[k]
        /\ \A k \in DOMAIN log' : k \notin DOMAIN log => k = Len(log) + 1 /\ log'[k] = line
        /\ Len(log) <= Len(log')
    BY <1>3, <2>3, <2>4
  <2>7. \A j, k \in DOMAIN log' : j < k => j \in DOMAIN log
    BY <1>3, <2>6
  <2>8. First'
    BY <2>1, <2>2, <2>5, <2>6, <2>7 DEF QueueInv, First, Proposed
  <2>9. Settled'
    BY <1>1, <1>2, <1>5, <2>5, <2>6 DEF Typed, TypeOK, QueueInv, Settled, Proposed
  <2>10. Watched' /\ Landed'
    <3> SUFFICES ASSUME NEW r \in Ratifiers, InFlight(r)'
                 PROVE  /\ looked'[r] <= Len(log')
                        /\ \A j \in DOMAIN log' :
                             log'[j].id = found'[r].id /\ log'[j].what # "proposed"
                               => looked'[r] < j
      BY <1>1 DEF QueueInv, Watched, Landed
    <3>1. InFlight(r) /\ looked'[r] = looked[r] /\ found'[r] = found[r] /\ looked[r] \in Nat
      BY <1>1 DEF InFlight, Typed, TypeOK
    <3>2. looked[r] <= Len(log)
      BY <3>1 DEF QueueInv, Watched
    <3>3. Len(log') = Len(log) \/ Len(log') = Len(log) + 1
      BY <1>3, <2>3, <2>4
    <3>4. looked'[r] <= Len(log')
      BY <1>3, <3>1, <3>2, <3>3
    <3>5. \A j \in DOMAIN log' : log'[j].what # "proposed" => j \in DOMAIN log /\ log'[j] = log[j]
      BY <2>5, <2>6
    <3>6. QED
      BY <3>1, <3>4, <3>5 DEF QueueInv, Watched
  <2>11. ContestsNamed'
    <3> SUFFICES ASSUME NEW a \in Proposals, NEW b \in Proposals,
                        NEW j \in StagedAt(a)', NEW k \in StagedAt(b)',
                        j < k, target[a] = target[b],
                        \A l \in j + 1 .. k : log'[l].id # log'[j].id
                 PROVE  log'[j].id \in named'[b]
      BY <1>1 DEF ContestsNamed
    <3>1. /\ j \in DOMAIN log' /\ log'[j].what = "proposed" /\ log'[j].by = a
          /\ k \in DOMAIN log' /\ log'[k].what = "proposed" /\ log'[k].by = b
      BY DEF StagedAt, Proposed
    <3>2. j \in DOMAIN log /\ log'[j] = log[j]
      BY <2>6, <2>7, <3>1
    <3>3. j \in StagedAt(a)
      BY <3>1, <3>2 DEF StagedAt, Proposed
    <3>4. CASE k \in DOMAIN log
      <4>1. k \in StagedAt(b) /\ b # p
        BY <1>2, <2>6, <3>1, <3>4 DEF StagedAt, Proposed
      <4>2. named'[b] = named[b]
        BY <1>5, <4>1 DEF Typed, TypeOK
      <4>3. \A l \in j + 1 .. k : l \in DOMAIN log /\ log'[l] = log[l]
        BY <1>3, <2>6, <3>2, <3>4
      <4>4. QED
        BY <3>2, <3>3, <4>1, <4>2, <4>3 DEF QueueInv, ContestsNamed
    <3>5. CASE k \notin DOMAIN log
      <4>1. b = p /\ k = Len(log) + 1
        BY <2>5, <2>6, <3>1, <3>5
      <4>2. \A l \in DOMAIN log : j < l => log[l].id # log[j].id
        BY <1>3, <2>6, <3>2, <4>1
      <4>3. log[j].id \in Pending /\ Row(log[j].id) = a
        BY <3>1, <3>2, <4>2, OpenIsPending DEF QueueInv, Proposed
      <4>4. log[j].id \in Contenders(p)
        BY <4>1, <4>3 DEF Contenders
      <4>5. QED
        BY <1>5, <3>2, <4>1, <4>4 DEF Typed, TypeOK
    <3>6. QED
      BY <3>4, <3>5
  <2>12. RatifiedWasApplied' /\ DecidedOnOpen'
    BY <1>1, <2>5, <2>6, <2>7 DEF QueueInv, RatifiedWasApplied, DecidedOnOpen
  <2>13. QED
    BY <2>8, <2>9, <2>10, <2>11, <2>12 DEF QueueInv
<1>6. QED
  BY <1>4, <1>5 DEF Stage

\* A step that adds lines which stage nothing, and ends some calls.
LEMMA DecidingStep ==
  ASSUME Typed, QueueInv, NEW S, Grows(S), \A line \in S : line.what # "proposed",
         UNCHANGED <<stage, target, named, found, looked, applied>>,
         \A r \in Ratifiers : ratify'[r] = ratify[r] \/ ratify'[r] = "answered"
  PROVE  First' /\ Watched' /\ Landed' /\ ContestsNamed'
<1>1. /\ DOMAIN log = 1 .. Len(log) /\ Len(log) \in Nat
      /\ DOMAIN log' = 1 .. Len(log') /\ Len(log') \in Nat
  BY DEF Typed, TypeOK, Grows
<1>2. \A k \in DOMAIN log : k \in DOMAIN log' /\ log'[k] = log[k]
  BY <1>1 DEF Grows
<1>3. \A k \in DOMAIN log' : log'[k].what = "proposed" => k \in DOMAIN log
  BY DEF Grows
<1>4. \A j, k \in DOMAIN log' : j < k /\ k \in DOMAIN log => j \in DOMAIN log
  BY <1>1
<1>5. First'
  BY <1>2, <1>3, <1>4 DEF QueueInv, First, Proposed
<1>6. Watched'
  <2> SUFFICES ASSUME NEW r \in Ratifiers, InFlight(r)'
               PROVE  /\ looked'[r] <= Len(log')
                      /\ \A j \in DOMAIN log' :
                           log'[j].id = found'[r].id /\ log'[j].what # "proposed"
                             => looked'[r] < j
    BY DEF Watched
  <2>1. InFlight(r) /\ looked'[r] = looked[r] /\ found'[r] = found[r] /\ looked[r] \in Nat
    BY DEF InFlight, Typed, TypeOK
  <2>2. looked[r] <= Len(log)
    BY <2>1 DEF QueueInv, Watched
  <2>3. Len(log) <= Len(log')
    BY DEF Grows
  <2>4. \A j \in DOMAIN log' : j \notin DOMAIN log => looked[r] < j
    BY <1>1, <2>1, <2>2
  <2>5. QED
    BY <1>1, <1>2, <2>1, <2>2, <2>3, <2>4 DEF QueueInv, Watched
<1>7. Landed'
  BY DEF QueueInv, Landed
<1>8. ContestsNamed'
  <2> SUFFICES ASSUME NEW a \in Proposals, NEW b \in Proposals,
                      NEW j \in StagedAt(a)', NEW k \in StagedAt(b)',
                      j < k, target[a] = target[b],
                      \A l \in j + 1 .. k : log'[l].id # log'[j].id
               PROVE  log'[j].id \in named[b]
    BY DEF ContestsNamed
  <2>1. j \in StagedAt(a) /\ k \in StagedAt(b) /\ log'[j] = log[j]
    BY <1>2, <1>3 DEF StagedAt, Proposed
  <2>2. \A l \in j + 1 .. k : log'[l] = log[l]
    BY <1>1, <1>2, <2>1 DEF StagedAt
  <2>3. QED
    BY <2>1, <2>2 DEF QueueInv, ContestsNamed
<1>9. QED
  BY <1>5, <1>6, <1>7, <1>8

LEMMA DecisionQueue ==
  ASSUME Typed, QueueInv, NEW r \in Ratifiers, NEW what \in {"ratified", "rejected"},
         InFlight(r), what = "ratified" => ratify[r] = "landed",
         RecordDecision(r, what), UNCHANGED <<found, load, looked, stageVars, overdue, docVars>>
  PROVE  QueueInv'
<1> DEFINE line == Decision(r, what)
<1>1. ratify' = [ratify EXCEPT ![r] = "answered"]
  BY DEF RecordDecision, RatifyGoes
<1>2. UNCHANGED <<stage, target, named, found, looked, applied>>
  BY DEF stageVars, docVars
<1>3. CASE AppendFails
  BY <1>1, <1>2, <1>3, QuietStep DEF AppendFails, Typed, TypeOK, InFlight
<1>4. CASE Appended(line)
  <2>1. line \in Line
    BY UsedIsIds DEF Decision, Line, Typed
  <2>2. line.what = what /\ line.id = found[r].id /\ line.by = r
    BY DEF Decision
  <2> HIDE DEF line
  <2>3. Grows({line}) /\ Len(log') <= Len(log) + 1
    BY <1>4, <2>1, AppendGrows DEF Typed, TypeOK
  <2>4. First' /\ Watched' /\ Landed' /\ ContestsNamed'
    <3>1. \A x \in Ratifiers : ratify'[x] = ratify[x] \/ ratify'[x] = "answered"
      BY <1>1 DEF Typed, TypeOK
    <3>2. \A l \in {line} : l.what # "proposed"
      BY <2>2
    <3>3. QED
      BY <1>2, <2>3, <3>1, <3>2, DecidingStep
  <2>5. /\ \A k \in DOMAIN log : log'[k] = log[k]
        /\ \A k \in DOMAIN log' : k \notin DOMAIN log => log'[k] = line
    BY <2>3 DEF Grows
  <2>6. Settled'
    BY <1>1, <1>2, <2>2, <2>5 DEF Typed, TypeOK, QueueInv, Settled, Proposed
  <2>7. RatifiedWasApplied'
    BY <1>2, <2>2, <2>5 DEF QueueInv, RatifiedWasApplied, Landed
  <2>8. DecidedOnOpen'
    <3>1. DOMAIN log = 1 .. Len(log) /\ Len(log) \in Nat
          /\ DOMAIN log' = 1 .. Len(log') /\ Len(log') \in Nat
      BY <2>3 DEF Grows, Typed, TypeOK
    <3>2. \A j, k \in DOMAIN log' : j < k => j \in DOMAIN log
      BY <2>3, <3>1
    <3>3. QED
      BY <1>2, <2>2, <2>5, <3>2 DEF QueueInv, DecidedOnOpen, Watched
  <2>9. QED
    BY <2>4, <2>6, <2>7, <2>8 DEF QueueInv
<1>5. QED
  BY <1>3, <1>4 DEF RecordDecision, Decision

LEMMA SweepQueue ==
  ASSUME Typed, QueueInv, Sweep \/ SweepFails
  PROVE  QueueInv'
<1>1. UNCHANGED <<stage, target, named, ratify, found, looked, applied>>
  BY DEF Sweep, SweepFails, stageVars, ratifyVars, docVars
<1>2. Grows(Expiries)
  BY SweepGrows DEF Typed
<1>3. \A line \in Expiries : line.what = "expired"
  BY DEF Expiries
<1>4. First' /\ Watched' /\ Landed' /\ ContestsNamed'
  BY <1>1, <1>2, <1>3, DecidingStep
<1>5. /\ \A k \in DOMAIN log : log'[k] = log[k]
      /\ \A k \in DOMAIN log' : k \notin DOMAIN log => log'[k].what = "expired"
      /\ DOMAIN log = 1 .. Len(log) /\ Len(log) \in Nat
      /\ DOMAIN log' = 1 .. Len(log') /\ Len(log') \in Nat
  BY <1>2, <1>3 DEF Grows, Typed, TypeOK
<1>6. Settled' /\ RatifiedWasApplied'
  BY <1>1, <1>5 DEF QueueInv, Settled, RatifiedWasApplied, Proposed
<1>7. DecidedOnOpen'
  BY <1>1, <1>5 DEF QueueInv, DecidedOnOpen
<1>8. QED
  BY <1>4, <1>6, <1>7 DEF QueueInv

LEMMA LookQueue ==
  ASSUME Typed, QueueInv, NEW r \in Ratifiers, Look(r)
  PROVE  QueueInv'
<1>1. UNCHANGED <<log, stage, target, named, applied>> /\ ratify[r] = "idle"
  BY DEF Look, queueVars, stageVars, docVars
<1>2. CASE RatifyGoes(r, "answered") /\ UNCHANGED <<found, load, looked>>
  BY <1>1, <1>2, QuietStep DEF RatifyGoes, InFlight, Typed, TypeOK
<1>3. CASE \E i \in Pending : Judge(r, i)
  <2>1. PICK i \in Pending : Judge(r, i)
    BY <1>3
  <2>2. /\ found' = [found EXCEPT ![r] = [id |-> i, of |-> Row(i)]]
        /\ looked' = [looked EXCEPT ![r] = Len(log)]
        /\ \E place \in {"approve", "reject"} : ratify' = [ratify EXCEPT ![r] = place]
    BY <2>1 DEF Judge, RatifyGoes
  <2>3. \A j \in DOMAIN log : log[j].id = i => log[j].what = "proposed"
    BY PendingHasOneLine DEF QueueInv, Proposed
  <2>4. \A k \in DOMAIN log : log[k].what \in {"ratified", "rejected"} =>
          log[k].by \in Ratifiers /\ log[k].by # r
    BY <1>1 DEF QueueInv, Settled
  <2>5. \A x \in Ratifiers : x # r =>
          found'[x] = found[x] /\ looked'[x] = looked[x] /\ ratify'[x] = ratify[x]
    BY <2>2 DEF Typed, TypeOK
  <2>6. First' /\ Settled' /\ ContestsNamed'
    BY <1>1, <2>4, <2>5 DEF QueueInv, First, Settled, ContestsNamed, StagedAt, Proposed
  <2>7. Watched'
    <3>1. found'[r].id = i /\ looked'[r] = Len(log) /\ Len(log) \in Nat
      BY <2>2 DEF Typed, TypeOK
    <3>2. QED
      BY <1>1, <2>3, <2>5, <3>1 DEF QueueInv, Watched, InFlight
  <2>8. Landed'
    BY <1>1, <2>2, <2>5 DEF QueueInv, Landed, Typed, TypeOK
  <2>9. RatifiedWasApplied' /\ DecidedOnOpen'
    BY <1>1, <2>4, <2>5 DEF QueueInv, RatifiedWasApplied, DecidedOnOpen
  <2>10. QED
    BY <2>6, <2>7, <2>8, <2>9 DEF QueueInv
<1>4. QED
  BY <1>2, <1>3 DEF Look

LEMMA QueueStep == Typed /\ QueueInv /\ [Next]_vars => QueueInv'
<1> SUFFICES ASSUME Typed, QueueInv, [Next]_vars
             PROVE  QueueInv'
  OBVIOUS
<1>1. ASSUME NEW p \in Proposals, Compose(p) \/ Anchor(p) PROVE QueueInv'
  <2>1. /\ UNCHANGED <<log, target, named, ratify, found, looked, applied>>
        /\ stage[p] \in {"idle", "composed"}
        /\ \E place \in {"composed", "anchored"} : stage' = [stage EXCEPT ![p] = place]
    BY <1>1 DEF Compose, Anchor, queueVars, ratifyVars, docVars
  <2>2. First' /\ Watched' /\ Landed' /\ ContestsNamed'
    BY <2>1 DEF QueueInv, First, Watched, Landed, ContestsNamed, StagedAt, Proposed, InFlight
  <2>3. Settled' /\ RatifiedWasApplied' /\ DecidedOnOpen'
    BY <2>1 DEF Typed, TypeOK, QueueInv, Settled, RatifiedWasApplied, DecidedOnOpen, Proposed
  <2>4. QED
    BY <2>2, <2>3 DEF QueueInv
<1>2. ASSUME NEW p \in Proposals, Stage(p) PROVE QueueInv'
  BY <1>2, StageQueue
<1>3. ASSUME NEW r \in Ratifiers, Look(r) PROVE QueueInv'
  BY <1>3, LookQueue
<1>4. ASSUME NEW r \in Ratifiers, Reject(r) PROVE QueueInv'
  <2>1. InFlight(r)
    BY <1>4 DEF Reject, InFlight
  <2>2. QED
    BY <1>4, <2>1, DecisionQueue DEF Reject
<1>5. ASSUME NEW r \in Ratifiers, Record(r) PROVE QueueInv'
  <2>1. InFlight(r)
    BY <1>5 DEF Record, InFlight
  <2>2. QED
    BY <1>5, <2>1, DecisionQueue DEF Record
<1>6. ASSUME NEW r \in Ratifiers, Keep(r) PROVE QueueInv'
  BY <1>6, QuietStep DEF Keep, RatifyGoes, InFlight, Typed, TypeOK, queueVars, stageVars, docVars
<1>7. ASSUME NEW r \in Ratifiers, Load(r) PROVE QueueInv'
  BY <1>7, QuietStep DEF Load, RatifyGoes, InFlight, Typed, TypeOK, queueVars, stageVars, docVars
<1>8. ASSUME NEW r \in Ratifiers, Dispatch(r) PROVE QueueInv'
  <2>1. /\ applied' = applied \cup {found[r].of}
        /\ \E place \in {"landed", "answered"} : ratify' = [ratify EXCEPT ![r] = place]
        /\ InFlight(r)
        /\ UNCHANGED <<log, stage, target, named, found, looked>>
    BY <1>8 DEF Dispatch, RatifyGoes, InFlight, queueVars, stageVars
  <2>2. QED
    BY <2>1, QuietStep DEF InFlight, Typed, TypeOK
<1>9. ASSUME NEW e \in Edits, NEW d \in Docs, Edit(e, d) PROVE QueueInv'
  BY <1>9, QuietStep DEF Edit, InFlight, queueVars, stageVars, ratifyVars
<1>10. ASSUME NEW i \in Ids, Expire(i) PROVE QueueInv'
  BY <1>10, QuietStep DEF Expire, InFlight, queueVars, stageVars, ratifyVars, docVars
<1>11. CASE Sweep \/ SweepFails
  BY <1>11, SweepQueue
<1>12. CASE UNCHANGED vars
  BY <1>12, QuietStep DEF vars, InFlight, queueVars, stageVars, ratifyVars, docVars
<1>13. QED
  BY <1>1, <1>2, <1>3, <1>4, <1>5, <1>6, <1>7, <1>8, <1>9, <1>10, <1>11, <1>12 DEF Next

LEMMA QueueInvariant == Spec => [](Typed /\ QueueInv)
<1>1. Init => QueueInv
  BY DEF Init, QueueInv, First, Settled, Watched, Landed, InFlight, ContestsNamed, StagedAt,
     RatifiedWasApplied, DecidedOnOpen
<1>2. QED
  BY <1>1, QueueStep, TypedInvariant, PTL DEF Spec

------------------------------------------------------------------------------
(***************************************************************************)
(* The theorems.                                                           *)
(***************************************************************************)
\* nextStagedId never hands out the id of another proposal in the queue,
\* however many have been decided, expired or torn.
THEOREM IdsDistinctHolds == Spec => []IdsDistinct
<1>1. Typed /\ QueueInv => IdsDistinct
  <2> SUFFICES ASSUME Typed, QueueInv, NEW j \in DOMAIN log, NEW k \in DOMAIN log,
                      Proposed(j), Proposed(k), log[j].id = log[k].id
               PROVE  j = k
    BY DEF IdsDistinct
  <2>1. j \in Nat /\ k \in Nat
    BY DEF Typed, TypeOK
  <2>2. ~(j < k) /\ ~(k < j)
    BY DEF QueueInv, First
  <2>3. QED
    BY <2>1, <2>2
<1>2. QED
  BY <1>1, QueueInvariant, PTL

\* stageActionWithConflictCheck: of two open proposals on one target the
\* later names the earlier, whatever else happens to the queue.
THEOREM ContestsNamedHolds == Spec => []ContestsNamed
BY QueueInvariant, PTL DEF QueueInv

\* vault_ratify records no ratification of a change that did not reach its
\* document.
THEOREM RatifiedWasAppliedHolds == Spec => []RatifiedWasApplied
BY QueueInvariant, PTL DEF QueueInv

\* vault_ratify decides only what it has seen open, whoever else decides.
THEOREM DecidedOnOpenHolds == Spec => []DecidedOnOpen
BY QueueInvariant, PTL DEF QueueInv

------------------------------------------------------------------------------
(***************************************************************************)
(* No change is lost but in the known ways.  The excuse must not rest      *)
(* on a load that is still to come: Waived asks for a ratifier that has    *)
(* dispatched, or has given up.                                            *)
(***************************************************************************)
Through(r) == ratify[r] \in {"landed", "answered"}

Waived(p, x) ==
  \E q \in applied :
    /\ target[q] = target[p]
    /\ \/ kind[q] \in {"snapshot", "merge"} /\ x \notin base[q] \cup {q}
       \/ kind[q] = "guarded" /\ x \in version[q] \ base[q]
       \/ /\ kind[q] = "blind"
          /\ \E r \in Ratifiers : found[r].of = q /\ Through(r) /\ x \notin load[r] \cup {q}

\* What a ratifier has looked up was staged, and it looks once.
Chosen ==
  /\ \A r \in Ratifiers : ratify[r] = "idle" => found[r].of = Nobody
  /\ \A r \in Ratifiers : found[r].of \in Proposals => stage[found[r].of] = "staged"
  /\ \A q \in applied : stage[q] = "staged"

Owed(p) == newer[p] \cup (applied \cap {p})

Survive == \A p \in Proposals : \A x \in Owed(p) : x \in doc[target[p]] \/ Waived(p, x)

SurviveInv == Chosen /\ Survive

LEMMA WaivedStays ==
  ASSUME applied \subseteq applied', target' = target,
         \A q \in applied : kind'[q] = kind[q] /\ base'[q] = base[q] /\ version'[q] = version[q],
         \A r \in Ratifiers :
           Through(r) => Through(r)' /\ found'[r] = found[r] /\ load'[r] = load[r],
         NEW p, NEW x, Waived(p, x)
  PROVE  Waived(p, x)'
BY DEF Waived

\* A step that loses nothing of a document, or is waived for what it loses.
LEMMA SurviveStep ==
  ASSUME Survive, applied \subseteq applied', target' = target,
         \A q \in applied : kind'[q] = kind[q] /\ base'[q] = base[q] /\ version'[q] = version[q],
         \A r \in Ratifiers :
           Through(r) => Through(r)' /\ found'[r] = found[r] /\ load'[r] = load[r],
         \A p \in Proposals : \A x :
           x \in Owed(p)' => \/ x \in doc'[target[p]]
                             \/ Waived(p, x)'
                             \/ x \in Owed(p) /\ x \notin doc[target[p]]
  PROVE  Survive'
<1> SUFFICES ASSUME NEW p \in Proposals, NEW x, x \in Owed(p)'
             PROVE  x \in doc'[target[p]] \/ Waived(p, x)'
  BY DEF Survive
<1>1. Waived(p, x) => Waived(p, x)'
  BY WaivedStays
<1>2. QED
  BY <1>1 DEF Survive

\* A step that leaves the documents alone, and the ratifiers that are through.
LEMMA StillStep ==
  ASSUME SurviveInv, UNCHANGED docVars, target' = target,
         \A q \in applied : kind'[q] = kind[q] /\ base'[q] = base[q] /\ version'[q] = version[q],
         \A p \in Proposals : stage[p] = "staged" => stage'[p] = "staged",
         \A r \in Ratifiers :
           /\ Through(r) => Through(r)' /\ found'[r] = found[r] /\ load'[r] = load[r]
           /\ ratify'[r] = "idle" => ratify[r] = "idle"
           /\ found'[r] = found[r] \/ (/\ ratify'[r] # "idle"
                                       /\ found'[r].of \in Proposals
                                       /\ stage[found'[r].of] = "staged"),
         applied \subseteq Proposals
  PROVE  SurviveInv'
<1>1. Chosen'
  BY DEF SurviveInv, Chosen, docVars
<1>2. Survive'
  BY SurviveStep DEF SurviveInv, Owed, docVars
<1>3. QED
  BY <1>1, <1>2 DEF SurviveInv

LEMMA RowIsStaged ==
  ASSUME Typed, QueueInv, NEW i \in Pending
  PROVE  Row(i) \in Proposals /\ stage[Row(i)] = "staged"
<1>1. Len(log) \in Nat /\ DOMAIN log = 1 .. Len(log)
  BY DEF Typed, TypeOK
<1> DEFINE S == {k \in LinesOf(i) : Proposed(k)}
<1>2. S \in SUBSET (1 .. Len(log)) /\ S # {}
  BY <1>1, PendingIsOpen DEF LinesOf
<1>3. Last(S) \in S
  BY <1>1, <1>2, LastIsGreatest
<1>4. QED
  BY <1>3, PendingIsOpen DEF Row, LinesOf, QueueInv, Settled

LEMMA DispatchSurvives ==
  ASSUME Typed, SurviveInv, NEW r \in Ratifiers, Dispatch(r)
  PROVE  SurviveInv'
<1> DEFINE p == found[r].of
<1>1. p \in Proposals /\ target[p] \in Docs
  BY DEF Typed, TypeOK, InFlight, Dispatch
<1>2. /\ doc' = [doc EXCEPT ![target[p]] = NewText(r)]
      /\ applied' = applied \cup {p}
      /\ \E place \in {"landed", "answered"} : ratify' = [ratify EXCEPT ![r] = place]
      /\ ~Through(r)
      /\ Admits(p)
      /\ UNCHANGED <<newer, found, load, stage, kind, target, base, version>>
  BY DEF Dispatch, RatifyGoes, Through, stageVars
<1>3. Through(r)' /\ \A s \in Ratifiers : s # r => ratify'[s] = ratify[s]
  BY <1>2 DEF Typed, TypeOK, Through
<1>4. \A s \in Ratifiers : Through(s) => Through(s)'
  BY <1>3 DEF Through
<1>5. NewText(r) = {p} \cup CASE kind[p] = "fresh" -> doc[target[p]]
                             [] kind[p] = "blind" -> load[r]
                             [] OTHER -> base[p]
  BY DEF NewText
<1>6. stage[p] = "staged"
  BY <1>1 DEF SurviveInv, Chosen
<1> HIDE DEF p
<1>7. Chosen'
  BY <1>2, <1>3, <1>6 DEF SurviveInv, Chosen
<1>8. ASSUME NEW q \in Proposals, NEW x, x \in Owed(q)', x \notin doc'[target[q]],
             x \in doc[target[q]] \/ x \notin Owed(q)
      PROVE  Waived(q, x)'
  <2>1. target[q] \in Docs /\ doc' \in [Docs -> SUBSET Changes]
    BY TypedStep, <1>1 DEF Typed, TypeOK, Next
  <2>2. target[q] = target[p]
    BY <1>1, <1>2, <1>8, <2>1 DEF Owed, Typed, TypeOK
  <2>3. doc'[target[p]] = NewText(r)
    BY <1>1, <1>2 DEF Typed, TypeOK
  <2>4. x \notin NewText(r) /\ x # p
    BY <1>5, <1>8, <2>2, <2>3
  <2>5. x \in doc[target[p]]
    BY <1>2, <1>8, <2>2, <2>4 DEF Owed
  <2>6. p \in applied' /\ target'[p] = target'[q] /\ kind'[p] = kind[p]
    BY <1>2, <2>2
  <2>7. CASE kind[p] = "fresh"
    BY <1>5, <2>4, <2>5, <2>7
  <2>8. CASE kind[p] = "guarded"
    <3>1. x \in version'[p] /\ x \notin base'[p]
      BY <1>2, <1>5, <2>4, <2>5, <2>8 DEF Admits
    <3>2. QED
      BY <2>6, <2>8, <3>1 DEF Waived
  <2>9. CASE kind[p] \in {"snapshot", "merge"}
    <3>1. x \notin base'[p] \cup {p}
      BY <1>2, <1>5, <2>4, <2>9
    <3>2. QED
      BY <2>6, <2>9, <3>1 DEF Waived
  <2>10. CASE kind[p] = "blind"
    <3>1. x \notin load'[r] \cup {p} /\ found'[r].of = p
      BY <1>2, <1>5, <2>4, <2>10 DEF p
    <3>2. QED
      BY <1>3, <2>6, <2>10, <3>1 DEF Waived
  <2>11. QED
    BY <1>1, <2>7, <2>8, <2>9, <2>10 DEF Typed, TypeOK, Kinds
<1>9. QED
  BY <1>2, <1>3, <1>4, <1>7, <1>8, SurviveStep DEF SurviveInv

LEMMA LookSurvives ==
  ASSUME Typed, QueueInv, SurviveInv, NEW r \in Ratifiers, Look(r)
  PROVE  SurviveInv'
<1>1. /\ UNCHANGED <<stage, kind, target, base, version, load>> /\ UNCHANGED docVars
      /\ ~Through(r) /\ applied \subseteq Proposals
  BY DEF Look, Judge, stageVars, Through, Typed, TypeOK
<1>2. CASE RatifyGoes(r, "answered") /\ UNCHANGED found
  <2>1. ratify' = [ratify EXCEPT ![r] = "answered"]
    BY <1>2 DEF RatifyGoes
  <2>2. ASSUME NEW s \in Ratifiers
        PROVE  (Through(s) => Through(s)') /\ (ratify'[s] = "idle" => ratify[s] = "idle")
    BY <2>1 DEF Through, Typed, TypeOK
  <2>3. QED
    BY <1>1, <1>2, <2>2, StillStep
<1>3. CASE \E i \in Pending : Judge(r, i)
  <2>1. PICK i \in Pending : Judge(r, i)
    BY <1>3
  <2>2. /\ found' = [found EXCEPT ![r] = [id |-> i, of |-> Row(i)]]
        /\ \E place \in {"approve", "reject"} : ratify' = [ratify EXCEPT ![r] = place]
    BY <2>1 DEF Judge, RatifyGoes
  <2>3. found'[r].of = Row(i) /\ ratify'[r] # "idle"
    BY <2>2 DEF Typed, TypeOK
  <2>4. \A s \in Ratifiers : s # r => found'[s] = found[s] /\ ratify'[s] = ratify[s]
    BY <2>2 DEF Typed, TypeOK
  <2>5. ASSUME NEW s \in Ratifiers
        PROVE  /\ Through(s) => Through(s)' /\ found'[s] = found[s] /\ load'[s] = load[s]
               /\ ratify'[s] = "idle" => ratify[s] = "idle"
               /\ found'[s] = found[s] \/ (/\ ratify'[s] # "idle"
                                           /\ found'[s].of \in Proposals
                                           /\ stage[found'[s].of] = "staged")
    BY <1>1, <2>3, <2>4, RowIsStaged DEF Through
  <2>6. QED
    BY <1>1, <2>5, StillStep
<1>4. QED
  BY <1>2, <1>3 DEF Look

LEMMA SurviveKept == Typed /\ QueueInv /\ SurviveInv /\ [Next]_vars => SurviveInv'
<1> SUFFICES ASSUME Typed, QueueInv, SurviveInv, [Next]_vars
             PROVE  SurviveInv'
  OBVIOUS
<1>0. applied \subseteq Proposals
  BY DEF Typed, TypeOK
\* What is left for a step that changes neither documents nor proposals.
<1>1. ASSUME UNCHANGED <<kind, target, base, version, found>>, UNCHANGED docVars,
             \A p \in Proposals : stage[p] = "staged" => stage'[p] = "staged",
             \A r \in Ratifiers :
               /\ Through(r) => Through(r)' /\ load'[r] = load[r]
               /\ ratify'[r] = "idle" => ratify[r] = "idle"
      PROVE  SurviveInv'
  BY <1>0, <1>1, StillStep
<1>2. ASSUME NEW r \in Ratifiers, NEW place \in {"loaded", "answered"}, RatifyGoes(r, place),
             ~Through(r) \/ place = "answered", UNCHANGED <<stageVars, docVars, found>>,
             \A s \in Ratifiers : s # r \/ Through(r) => load'[s] = load[s]
      PROVE  SurviveInv'
  <2>1. ratify' = [ratify EXCEPT ![r] = place]
    BY <1>2 DEF RatifyGoes
  <2>2. ASSUME NEW s \in Ratifiers
        PROVE  /\ Through(s) => Through(s)' /\ load'[s] = load[s]
               /\ ratify'[s] = "idle" => ratify[s] = "idle"
    <3>1. CASE s = r
      BY <1>2, <2>1, <3>1 DEF Through, Typed, TypeOK
    <3>2. CASE s # r
      BY <1>2, <2>1, <3>2 DEF Through, Typed, TypeOK
    <3>3. QED
      BY <3>1, <3>2
  <2>3. UNCHANGED <<stage, kind, target, base, version, found>> /\ UNCHANGED docVars
    BY <1>2 DEF stageVars
  <2>4. QED
    BY <1>1, <2>2, <2>3
<1>3. ASSUME NEW p \in Proposals, Compose(p) \/ Anchor(p) PROVE SurviveInv'
  <2>1. /\ UNCHANGED <<target, ratify, found, load>> /\ UNCHANGED docVars
        /\ stage[p] \in {"idle", "composed"}
        /\ \E place \in {"composed", "anchored"} : stage' = [stage EXCEPT ![p] = place]
    BY <1>3 DEF Compose, Anchor, ratifyVars
  <2>2. \A q \in Proposals :
          q # p => kind'[q] = kind[q] /\ base'[q] = base[q] /\ version'[q] = version[q]
    BY <1>3 DEF Compose, Composed, Anchor, Typed, TypeOK
  <2>3. p \notin applied
    BY <2>1 DEF SurviveInv, Chosen
  <2>4. \A q \in Proposals : stage[q] = "staged" => stage'[q] = "staged"
    BY <2>1 DEF Typed, TypeOK
  <2>5. \A r \in Ratifiers : Through(r) => Through(r)'
    BY <2>1 DEF Through
  <2>6. QED
    BY <1>0, <2>1, <2>2, <2>3, <2>4, <2>5, StillStep
<1>4. ASSUME NEW p \in Proposals, Stage(p) PROVE SurviveInv'
  <2>1. /\ UNCHANGED <<kind, target, base, version, ratify, found, load>> /\ UNCHANGED docVars
        /\ stage[p] \in {"composed", "anchored"}
        /\ \E place \in {"staged", "failed"} : stage' = [stage EXCEPT ![p] = place]
    BY <1>4 DEF Stage, ratifyVars
  <2>2. \A q \in Proposals : stage[q] = "staged" => stage'[q] = "staged"
    BY <2>1 DEF Typed, TypeOK
  <2>3. QED
    BY <1>1, <2>1, <2>2 DEF Through
<1>5. ASSUME NEW r \in Ratifiers, Look(r) PROVE SurviveInv'
  BY <1>5, LookSurvives
<1>6. ASSUME NEW r \in Ratifiers, Reject(r) \/ Record(r) \/ Keep(r) PROVE SurviveInv'
  <2>1. RatifyGoes(r, "answered") /\ UNCHANGED <<load, stageVars, docVars, found>>
    BY <1>6 DEF Reject, Record, Keep, RecordDecision
  <2>2. QED
    BY <1>2, <2>1
<1>7. ASSUME NEW r \in Ratifiers, Load(r) PROVE SurviveInv'
  <2>1. RatifyGoes(r, "loaded") /\ ~Through(r) /\ UNCHANGED <<stageVars, docVars, found>>
    BY <1>7 DEF Load, Through
  <2>2. \A s \in Ratifiers : s # r => load'[s] = load[s]
    BY <1>7 DEF Load, Typed, TypeOK
  <2>3. QED
    BY <1>2, <2>1, <2>2
<1>8. ASSUME NEW r \in Ratifiers, Dispatch(r) PROVE SurviveInv'
  BY <1>8, DispatchSurvives
<1>9. ASSUME NEW e \in Edits, NEW d \in Docs, Edit(e, d) PROVE SurviveInv'
  <2>1. /\ UNCHANGED <<applied, stage, kind, target, base, version, ratify, found, load>>
        /\ doc' = [doc EXCEPT ![d] = @ \cup {e}]
        /\ \A p \in Proposals : newer'[p] \subseteq newer[p] \cup {e}
        /\ \A p \in Proposals : target[p] # d => newer'[p] = newer[p]
    BY <1>9 DEF Edit, stageVars, ratifyVars
  <2>2. Chosen'
    BY <2>1 DEF SurviveInv, Chosen
  <2>3. ASSUME NEW p \in Proposals, NEW x, x \in Owed(p)', x \notin doc'[target[p]]
        PROVE  x \in Owed(p) /\ x \notin doc[target[p]]
    <3>1. doc'[target[p]] = IF target[p] = d THEN doc[target[p]] \cup {e} ELSE doc[target[p]]
      BY <2>1 DEF Typed, TypeOK
    <3>2. QED
      BY <2>1, <2>3, <3>1 DEF Owed
  <2>4. \A r \in Ratifiers : Through(r) => Through(r)'
    BY <2>1 DEF Through
  <2>5. QED
    BY <2>1, <2>2, <2>3, <2>4, SurviveStep DEF SurviveInv
<1>10. CASE (\E i \in Ids : Expire(i)) \/ Sweep \/ SweepFails \/ UNCHANGED vars
  <2>1. UNCHANGED <<stage, kind, target, base, version, ratify, found, load>> /\ UNCHANGED docVars
    BY <1>10 DEF Expire, Sweep, SweepFails, vars, stageVars, ratifyVars
  <2>2. QED
    BY <1>1, <2>1 DEF Through
<1>11. QED
  BY <1>3, <1>4, <1>5, <1>6, <1>7, <1>8, <1>9, <1>10 DEF Next

\* Ratifying drops no change from a document, neither an edit made since the
\* proposal was staged nor the change of another proposal, but for what Excused
\* names.  A text with a base_version drops nothing that came after it was staged,
\* and what is computed at dispatch under the write path's check nothing at all.
THEOREM ChangesSurviveHolds == Spec => []ChangesSurvive
<1>1. Init => SurviveInv
  BY StagedAssumption DEF Init, SurviveInv, Chosen, Survive, Owed
<1>2. Typed /\ QueueInv /\ SurviveInv /\ [Next]_vars => SurviveInv'
  BY SurviveKept
<1>3. SurviveInv => ChangesSurvive
  BY DEF SurviveInv, Survive, Waived, Owed, ChangesSurvive, Excused
<1>4. QED
  BY <1>1, <1>2, <1>3, QueueInvariant, PTL DEF Spec
==============================================================================
