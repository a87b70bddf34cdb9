---------------------------- MODULE PositionsProofs ----------------------------
(***************************************************************************)
(* Theorems about Positions for any number of calls and principals, and    *)
(* any number of lapsed leases and faults.                                 *)
(***************************************************************************)
EXTENDS Positions, Integers, FiniteSetTheorems, FunctionTheorems, SequenceTheorems,
        WellFoundedInduction, TLAPS

(***************************************************************************)
(* The shape of a document: ids are consecutive, from 0 where the first    *)
(* assert took a snapshot and from 1 otherwise.                            *)
(***************************************************************************)
UpTo(pos, n) == DOMAIN pos = 0 .. n \/ DOMAIN pos = 1 .. n

IsPositions(pos) ==
  /\ pos = [i \in DOMAIN pos |-> pos[i]]
  /\ \A i \in DOMAIN pos :
       pos[i] = [by |-> pos[i].by, stance |-> pos[i].stance, next |-> pos[i].next,
                 of |-> pos[i].of]
  /\ \E n \in Nat : UpTo(pos, n)

Shape ==
  /\ doc = [typed |-> doc.typed, pos |-> doc.pos, contested |-> doc.contested,
            org |-> doc.org, conf |-> doc.conf]
  /\ doc.typed \in BOOLEAN
  /\ ~ doc.typed => DOMAIN doc.pos = {}
  /\ IsPositions(doc.pos)

\* At most one live position of each principal.
OneEach(pos) == \A i, j \in Live(pos) : pos[i].by = pos[j].by => i = j

\* nextPositionId is one past the last.
LEMMA NextIsLast ==
  ASSUME NEW pos, NEW n \in Nat, UpTo(pos, n)
  PROVE  NextPositionId(pos) = n + 1
<1>1. CASE DOMAIN pos = {}
  <2>1. n = 0
    <3>1. 0 \notin 0 .. n => n < 0
      OBVIOUS
    <3>2. 1 \notin 1 .. n => n < 1
      OBVIOUS
    <3>3. QED
      BY <1>1, <3>1, <3>2 DEF UpTo
  <2>2. QED
    BY <1>1, <2>1 DEF NextPositionId
<1>2. CASE DOMAIN pos # {}
  <2>1. n \in DOMAIN pos /\ \A j \in DOMAIN pos : j <= n /\ j \in Nat
    BY <1>2 DEF UpTo
  <2>2. \A m \in DOMAIN pos : (\A j \in DOMAIN pos : j <= m) => m = n
    BY <2>1
  <2> DEFINE last == CHOOSE i \in DOMAIN pos : \A j \in DOMAIN pos : j <= i
  <2>3. last = n
    BY <2>1, <2>2
  <2>4. NextPositionId(pos) = 1 + last
    BY <1>2, Zenon DEF NextPositionId
  <2> HIDE DEF last
  <2>5. QED
    BY <2>3, <2>4
<1>3. QED
  BY <1>1, <1>2

\* What applyAssert makes of a set of positions.
LEMMA ApplyAssertShape ==
  ASSUME NEW c, NEW pos, IsPositions(pos), OneEach(pos),
         NEW new, new = ApplyAssert(c, pos), NEW id, id = NextPositionId(pos)
  PROVE  /\ IsPositions(new) /\ OneEach(new)
         /\ id \in Nat \ {0} /\ id \notin DOMAIN pos /\ DOMAIN new = DOMAIN pos \cup {id}
         /\ new[id].by = ask[c].by
         /\ \A i \in DOMAIN pos :
              \/ new[i] = pos[i] /\ ~ (pos[i].by = ask[c].by /\ pos[i].next = 0)
              \/ /\ pos[i].by = ask[c].by /\ pos[i].next = 0
                 /\ new[i] = [pos[i] EXCEPT !.next = id]
<1> DEFINE item == [by |-> ask[c].by, stance |-> ask[c].stance, next |-> 0, of |-> c]
<1>1. PICK n \in Nat : UpTo(pos, n)
  BY DEF IsPositions
<1>2. id = n + 1
  BY <1>1, NextIsLast
<1>3. id \in Nat \ {0} /\ id \notin DOMAIN pos
  BY <1>1, <1>2 DEF UpTo
<1>4. DOMAIN new = DOMAIN pos \cup {id}
  BY DEF ApplyAssert
<1>5. new[id] = item
  BY DEF ApplyAssert
<1>6. \A i \in DOMAIN pos :
        new[i] = IF pos[i].by = ask[c].by /\ pos[i].next = 0
                 THEN [pos[i] EXCEPT !.next = id] ELSE pos[i]
  BY <1>3 DEF ApplyAssert
<1>7. new = [i \in DOMAIN new |-> new[i]]
  BY DEF ApplyAssert
<1>8. \A i \in DOMAIN pos :
        [pos[i] EXCEPT !.next = id]
          = [by |-> pos[i].by, stance |-> pos[i].stance, next |-> id, of |-> pos[i].of]
  BY DEF IsPositions
<1>9. UpTo(new, n + 1)
  <2>1. 0 .. n \cup {n + 1} = 0 .. n + 1 /\ 1 .. n \cup {n + 1} = 1 .. n + 1
    OBVIOUS
  <2>2. QED
    BY <1>1, <1>2, <1>4, <2>1 DEF UpTo
<1>10. IsPositions(new)
  <2>1. \A i \in DOMAIN new :
          new[i] = [by |-> new[i].by, stance |-> new[i].stance, next |-> new[i].next,
                    of |-> new[i].of]
    <3> SUFFICES ASSUME NEW i \in DOMAIN new
                 PROVE  new[i] = [by |-> new[i].by, stance |-> new[i].stance,
                                  next |-> new[i].next, of |-> new[i].of]
      OBVIOUS
    <3>1. CASE i = id
      BY <1>5, <3>1
    <3>2. CASE i \in DOMAIN pos /\ pos[i].by = ask[c].by /\ pos[i].next = 0
      BY <1>6, <1>8, <3>2
    <3>3. CASE i \in DOMAIN pos /\ ~ (pos[i].by = ask[c].by /\ pos[i].next = 0)
      BY <1>6, <3>3 DEF IsPositions
    <3>4. QED
      BY <1>4, <3>1, <3>2, <3>3
  <2>2. QED
    BY <1>7, <1>9, <2>1 DEF IsPositions
<1>11. OneEach(new)
  <2>1. \A i \in Live(new) : 
          \/ i = id
          \/ i \in Live(pos) /\ pos[i].by # ask[c].by /\ new[i] = pos[i]
    BY <1>3, <1>4, <1>6, <1>8 DEF Live
  <2>2. new[id].by = ask[c].by
    BY <1>5
  <2> HIDE DEF item
  <2>3. QED
    BY <2>1, <2>2 DEF OneEach
<1>12. QED
  BY <1>3, <1>4, <1>5, <1>6, <1>10, <1>11

Integrity == Shape /\ PositionIntegrity

\* vault_assert, directly or when a staged one lands.
LEMMA AssertStep ==
  ASSUME Integrity, NEW c \in Asserts, doc' = Asserted(c, doc)
  PROVE  Integrity' /\ \A i \in DOMAIN doc.pos :
    /\ i \in DOMAIN doc'.pos
    /\ \/ doc'.pos[i] = doc.pos[i]
       \/ \E n \in DOMAIN doc'.pos \ DOMAIN doc.pos :
            /\ doc.pos[i].next = 0
            /\ doc'.pos[i] = [doc.pos[i] EXCEPT !.next = n]
            /\ doc'.pos[n].by = doc.pos[i].by
<1> DEFINE base == BasePositions(doc)
           new == ApplyAssert(c, base)
           id == NextPositionId(base)
<1>1. IsPositions(base) /\ OneEach(base) /\ (doc.typed => base = doc.pos)
  <2>1. CASE doc.typed
    BY <2>1 DEF Integrity, Shape, PositionIntegrity, OneEach, BasePositions
  <2>2. CASE ~ doc.typed
    <3>1. base = [i \in {0} |-> LegacySnapshot]
      BY <2>2 DEF BasePositions
    <3>2. UpTo(base, 0)
      BY <3>1 DEF UpTo
    <3>3. QED
      BY <2>2, <3>1, <3>2 DEF IsPositions, OneEach, Live, LegacySnapshot
  <2>3. QED
    BY <2>1, <2>2
<1> HIDE DEF base
<1>2. /\ IsPositions(new) /\ OneEach(new)
      /\ id \notin DOMAIN base /\ DOMAIN new = DOMAIN base \cup {id}
      /\ new[id].by = ask[c].by
      /\ \A i \in DOMAIN base :
           \/ new[i] = base[i]
           \/ /\ base[i].by = ask[c].by /\ base[i].next = 0
              /\ new[i] = [base[i] EXCEPT !.next = id]
  BY <1>1, ApplyAssertShape
<1>3. doc' = [typed |-> TRUE, pos |-> new, contested |-> IsContested(new), org |-> doc.org,
              conf |-> Confidence(new, doc)]
  <2>1. doc' = [doc EXCEPT !.typed = TRUE, !.pos = new, !.contested = IsContested(new),
                           !.conf = Confidence(new, doc)]
    BY DEF Asserted, base
  <2> HIDE DEF new
  <2>2. QED
    BY <2>1 DEF Integrity, Shape
<1> HIDE DEF new, id
<1>4. Shape'
  BY <1>2, <1>3 DEF Shape
<1>5. DOMAIN doc.pos \subseteq DOMAIN new
  BY <1>1, <1>2 DEF Integrity, Shape
<1>6. PositionIntegrity'
  <2>1. (\A i, j \in Live(doc.pos) : doc.pos[i].by = doc.pos[j].by => i = j)'
    BY <1>2, <1>3 DEF OneEach
  <2>2. (doc.contested = IsContested(doc.pos))'
    BY <1>3
  <2>3. doc'.conf = IF IsContested(new) /\ doc.org = NoOrg THEN "low" ELSE doc.conf
    BY <1>3 DEF Confidence
  <2>4. doc'.org = doc.org /\ NoOrg' = NoOrg /\ doc'.pos = new /\ doc'.contested = IsContested(new)
    BY <1>3 DEF NoOrg
  <2>5. (doc.org = NoOrg /\ doc.contested => doc.conf = "low")'
    BY <2>3, <2>4
  <2>6. (doc.org # NoOrg => doc.conf = "ratified")'
    BY <2>3, <2>4 DEF Integrity, PositionIntegrity
  <2>7. (doc.org.dissent \subseteq DOMAIN doc.pos)'
    BY <1>5, <2>4 DEF Integrity, PositionIntegrity
  <2>8. QED
    BY <2>1, <2>2, <2>5, <2>6, <2>7 DEF PositionIntegrity
<1>7. CASE doc.typed
  BY <1>1, <1>2, <1>3, <1>4, <1>6, <1>7 DEF Integrity
<1>8. CASE ~ doc.typed
  BY <1>4, <1>6, <1>8 DEF Integrity, Shape
<1>9. QED
  BY <1>7, <1>8 DEF Integrity, Shape

LEMMA ConsolidateStep ==
  ASSUME Integrity, NEW k \in Consolidations, doc' = Consolidated(k, doc)
  PROVE  Integrity' /\ doc'.pos = doc.pos
<1>1. doc' = [typed |-> doc.typed, pos |-> doc.pos,
              contested |-> doc.typed /\ IsContested(doc.pos),
              org |-> [by |-> k, stance |-> ask[k].stance,
                       dissent |-> Opposing(doc.pos, ask[k].stance)],
              conf |-> "ratified"]
  BY DEF Consolidated, Integrity, Shape
<1>2. Shape'
  BY <1>1 DEF Integrity, Shape
<1>3. IsContested(doc.pos) => doc.typed
  BY DEF Integrity, Shape, IsContested, LiveWith, Live
<1>4. (doc.contested = IsContested(doc.pos))'
  BY <1>1, <1>3 DEF Integrity, Shape, IsContested
<1>5. doc'.org # NoOrg
  BY <1>1, PositionsAssumption DEF NoOrg, Calls
<1>6. Opposing(doc.pos, ask[k].stance) \subseteq DOMAIN doc.pos
  BY DEF Opposing, LiveWith, Live
<1>7. PositionIntegrity'
  BY <1>1, <1>4, <1>5, <1>6 DEF Integrity, PositionIntegrity, NoOrg
<1>8. QED
  BY <1>1, <1>2, <1>7 DEF Integrity

\* Only three steps write the document.
LEMMA DocSteps ==
  ASSUME [Next]_vars
  PROVE  \/ UNCHANGED doc
         \/ \E c \in Asserts : doc' = Asserted(c, doc)
         \/ \E k \in Consolidations : doc' = Consolidated(k, doc)
<1> USE DEF writeVars
<1>1. CASE \E c \in Asserts \cup Consolidations : Load(c) \/ Stale(c) \/ Refuse(c)
  BY <1>1 DEF Load, Stale, Refuse
<1>2. CASE \E c \in Asserts : WriteAssert(c) \/ LandStaged(c)
  BY <1>2 DEF WriteAssert, LandStaged, Fresh
<1>3. CASE \E c \in Asserts : \/ StageAssert(c) \/ ListForPair(c)
                             \/ AddTension(c) \/ AddFails(c) \/ AddContended(c)
  BY <1>3 DEF StageAssert, ListForPair, AddTension, AddFails, AddContended
<1>4. CASE \E k \in Consolidations : Weigh(k)
  BY <1>4 DEF Weigh
<1>5. CASE \E k \in Consolidations : WriteConsolidation(k)
  BY <1>5 DEF WriteConsolidation, Fresh
<1>6. CASE \E r \in Rulings : BeginRuling(r)
  BY <1>6 DEF BeginRuling
<1>7. CASE \E x \in Resolvers : \/ TakeLease(x) \/ LeaseContended(x) \/ ReadLog(x)
                               \/ TruncateLog(x) \/ RewriteLog(x) \/ RewriteFails(x)
  BY <1>7 DEF TakeLease, LeaseContended, ReadLog, TruncateLog, RewriteLog, RewriteFails
<1>8. CASE Lapse
  BY <1>8 DEF Lapse
<1>9. CASE UNCHANGED vars
  BY <1>9 DEF vars
<1>10. QED
  BY <1>1, <1>2, <1>3, <1>4, <1>5, <1>6, <1>7, <1>8, <1>9 DEF Next

LEMMA IntegrityInit ==
  ASSUME Init
  PROVE  Integrity
<1>1. PICK typed \in BOOLEAN :
        doc = [typed |-> typed, pos |-> <<>>, contested |-> FALSE, org |-> NoOrg, conf |-> "own"]
  BY DEF Init
<1>2. DOMAIN doc.pos = {} /\ UpTo(doc.pos, 0)
  BY <1>1 DEF UpTo
<1>3. Shape
  BY <1>1, <1>2 DEF Shape, IsPositions
<1>4. PositionIntegrity
  BY <1>1, <1>2 DEF PositionIntegrity, Live, LiveWith, IsContested, NoOrg
<1>5. QED
  BY <1>3, <1>4 DEF Integrity

LEMMA IntegrityStep ==
  ASSUME Integrity, [Next]_vars
  PROVE  Integrity'
<1>1. CASE UNCHANGED doc
  BY <1>1 DEF Integrity, Shape, PositionIntegrity, NoOrg
<1>2. QED
  BY <1>1, DocSteps, AssertStep, ConsolidateStep

LEMMA IntegrityInvariant == Spec => []Integrity
BY IntegrityInit, IntegrityStep, PTL DEF Spec

------------------------------------------------------------------------------
(***************************************************************************)
(* What the document promises by itself.                                   *)
(***************************************************************************)
\* vault_lint's position checks never fire on what vault_assert,
\* vault_consolidate and the ratification of staged asserts have written.
THEOREM PositionIntegrityHolds == Spec => []PositionIntegrity
BY IntegrityInvariant, PTL DEF Integrity

\* applyAssert under the hash comparison: no position is dropped or altered,
\* except that its principal supersedes it.
THEOREM PositionsKeptHolds == Spec => PositionsKept
<1> DEFINE Kept ==
      \A i \in DOMAIN doc.pos :
        /\ i \in DOMAIN doc'.pos
        /\ \/ doc'.pos[i] = doc.pos[i]
           \/ \E n \in DOMAIN doc'.pos \ DOMAIN doc.pos :
                /\ doc.pos[i].next = 0
                /\ doc'.pos[i] = [doc.pos[i] EXCEPT !.next = n]
                /\ doc'.pos[n].by = doc.pos[i].by
<1>1. Integrity /\ [Next]_vars => [Kept]_doc
  <2> SUFFICES ASSUME Integrity, [Next]_vars, ~ UNCHANGED doc PROVE Kept
    OBVIOUS
  <2>1. CASE \E c \in Asserts : doc' = Asserted(c, doc)
    BY <2>1, AssertStep
  <2>2. CASE \E k \in Consolidations : doc' = Consolidated(k, doc)
    BY <2>2, ConsolidateStep
  <2>3. QED
    BY <2>1, <2>2, DocSteps
<1>2. QED
  BY <1>1, IntegrityInvariant, PTL DEF Spec, PositionsKept
------------------------------------------------------------------------------
(***************************************************************************)
(* Typing, with the places of a call and what is known of it there.        *)
(***************************************************************************)
Verdicts == {"accepted", "corrected", "consolidated", "ruled"}
Item     == [id : Nat, state : Verdicts]
Entry    == [id : Nat, a : Nat, b : Nat, state : Verdicts \cup {"open"}, by : Calls]
Tension  == [id : Nat, a : Nat, b : Nat]
Ask      == [by : Principals \cup {Unknown}, stance : Stances \cup {"none"},
             mode : {"direct", "propose", "alone", "dissent", "none"}, single : Seq(Item)]

AssertPlaces  == {"idle", "loaded", "staged", "landed", "listing", "adding", "done", "failed"}
ResolvePlaces == {"idle", "loaded", "weighed", "resolving", "done", "failed"} \cup AtWork

Typed ==
  /\ log \in Seq(Entry) /\ raw \in [Resolvers -> Seq(Entry)]
  /\ todo \in [Resolvers -> Seq(Item)]
  /\ minted \in SUBSET Tension /\ ruled \in SUBSET Item
  /\ mine \in [Asserts -> Nat] /\ against \in [Asserts -> SUBSET Nat]
  /\ ask \in [Calls -> Ask]
  /\ load = [c \in Asserts \cup Consolidations |-> load[c]]

Placed ==
  /\ pc \in [Calls -> AssertPlaces \cup ResolvePlaces]
  /\ \A c \in Asserts : pc[c] \in AssertPlaces
  /\ \A x \in Resolvers : pc[x] \in ResolvePlaces

\* The conjuncts of TypeOK but the one on the log, and the positions.
Bounded ==
  /\ doc.conf \in {"own", "low", "ratified"}
  /\ lease \in Resolvers \cup {Free}
  /\ lease # Free => pc[lease] \in AtWork
  /\ again \subseteq Calls /\ waited \subseteq Calls
  /\ unlogged \subseteq Asserts
  /\ faults \in 0 .. MaxFaults /\ lapses \in 0 .. MaxLapses
  /\ damaged \in BOOLEAN

\* What a call has in hand where it is.
InHand ==
  /\ \A c \in Asserts : pc[c] \in {"loaded", "staged"} \/ c \in again => ask[c].stance \in Stances
  /\ \A c \in Asserts : pc[c] \in {"idle", "loaded", "staged"} => mine[c] = 0
  /\ \A c \in Asserts : pc[c] \in {"listing", "adding"} => against[c] # {}
  /\ \A c \in Asserts : pc[c] = "done" => against[c] = {}
  /\ \A x \in Resolvers : pc[x] \in AtWork \cup {"resolving"} => todo[x] # <<>>

Types == Typed /\ Placed /\ Bounded /\ InHand

(***************************************************************************)
(* Numbering.  A position has the number of asserts written up to it; a    *)
(* tension has at most the number of pairs that have been given one, for   *)
(* no pair gets two.                                                       *)
(***************************************************************************)
Written == {c \in Asserts : mine[c] # 0}
Total   == Cardinality(Written)
Pairs   == {<<m.a, m.b>> : m \in minted}
Numbers(s) == \A k \in DOMAIN s : s[k].id \in 1 .. Cardinality(Pairs)

Numbered ==
  /\ UpTo(doc.pos, Total)
  /\ \A c \in Asserts : mine[c] <= Total
  /\ \A c, d \in Written : mine[c] = mine[d] => c = d
  /\ \A j \in DOMAIN doc.pos : j # 0 => /\ doc.pos[j].of \in Asserts
                                        /\ mine[doc.pos[j].of] = j
  /\ \A m \in minted : m.a < m.b /\ m.b <= Total
  /\ \A c \in Asserts : \A i \in against[c] : i < mine[c] /\ <<i, mine[c]>> \notin Pairs
  /\ Numbers(log) /\ \A x \in Resolvers : Numbers(raw[x])

(***************************************************************************)
(* The log, while nothing has gone wrong with it: whole, but where the     *)
(* holder of the lease has emptied it, and then whole in that one's hands. *)
(***************************************************************************)
Whole(s) ==
  /\ \A m \in minted : \E k \in DOMAIN s : s[k].id = m.id /\ s[k].a = m.a /\ s[k].b = m.b
  /\ \A j, k \in DOMAIN s : s[j].id = s[k].id => j = k
  /\ \A r \in ruled : \E k \in DOMAIN s : s[k].id = r.id /\ s[k].state = r.state

Target(x) == First(raw[x], Head(todo[x]).id) \cap Open(raw[x])

Ledger ==
  ~ damaged =>
    /\ (\A x \in Resolvers : pc[x] # "truncated") => Whole(log)
    /\ \A x \in Resolvers : pc[x] = "rewriting" /\ lease = x => raw[x] = log /\ Target(x) # {}
    /\ \A x \in Resolvers : pc[x] = "truncated" => lease = x /\ Whole(raw[x]) /\ Target(x) # {}

(***************************************************************************)
(* What an assert owes: a tension for each conflict with an earlier one.   *)
(***************************************************************************)
Minted(s) == \A k \in DOMAIN s : [id |-> s[k].id, a |-> s[k].a, b |-> s[k].b] \in minted

Owing ==
  /\ Minted(log) /\ \A x \in Resolvers : Minted(raw[x])
  /\ \A c \in Asserts : pc[c] \in {"listing", "adding", "done"} =>
       /\ mine[c] \in DOMAIN doc.pos
       /\ \A i \in Live(doc.pos) :
            Conflict(i, mine[c]) => i \in against[c] \/ c \in unlogged \/ <<i, mine[c]>> \in Pairs

(***************************************************************************)
(* What a consolidation carries: of each tension it resolves as            *)
(* consolidated one of the two positions is in the dissent it ratified.    *)
(***************************************************************************)
Dissents(pos, dissent, i, j) ==
  /\ {i, j} \subseteq DOMAIN pos
  /\ \E d \in dissent : ChainEnd(pos, d) \in {ChainEnd(pos, i), ChainEnd(pos, j)}

\* The tensions that items name.
Named(items) ==
  {m \in minted : \E n \in DOMAIN items : items[n].id = m.id /\ items[n].state = "consolidated"}

CarriedIn(s) ==
  \A n \in DOMAIN s : s[n].state = "consolidated" /\ s[n].by = doc.org.by =>
    Dissents(doc.pos, doc.org.dissent, s[n].a, s[n].b)

Linked(pos) == \A i \in DOMAIN pos : pos[i].next = 0 \/ pos[i].next \in {j \in DOMAIN pos : i < j}
Chained(pos) == Linked(pos) /\ \E n \in Nat : DOMAIN pos \subseteq 0 .. n
Early == {"idle", "loaded", "weighed"}

Chains == Chained(doc.pos) /\ \A c \in Asserts \cup Consolidations : Chained(load[c].pos)

\* Nobody has resolved before it has written.
Unsigned(s) == \A n \in DOMAIN s : s[n].by \in Resolvers => pc[s[n].by] \notin Early

Signing ==
  /\ Unsigned(log) /\ \A x \in Resolvers : Unsigned(raw[x])
  /\ doc.org.by \in Consolidations \cup {Unknown}
  /\ doc.org.by \in Consolidations => pc[doc.org.by] \notin Early

\* Only what has been logged is ever named.
Known(id) == \E m \in minted : m.id = id

Naming ==
  /\ \A x \in Resolvers : \A n \in DOMAIN todo[x] : Known(todo[x][n].id)
  /\ \A k \in Consolidations : \A n \in DOMAIN ask[k].single :
       Known(ask[k].single[n].id) /\ ask[k].single[n].state # "consolidated"

Carries ==
  /\ CarriedIn(log) /\ \A x \in Resolvers : CarriedIn(raw[x])
  /\ \A k \in Consolidations : doc.org.by = k =>
       \A m \in Named(todo[k]) : Dissents(doc.pos, doc.org.dissent, m.a, m.b)
  /\ \A k \in Consolidations : pc[k] = "weighed" =>
       \A m \in Named(todo[k]) :
         Dissents(load[k].pos, Opposing(load[k].pos, ask[k].stance), m.a, m.b)

Carrying == Chains /\ Signing /\ Naming /\ (~ damaged => Carries)

------------------------------------------------------------------------------
(***************************************************************************)
(* Numbers and sequences.                                                  *)
(***************************************************************************)
LEMMA LeastExists ==
  ASSUME NEW S \in SUBSET Nat, S # {}
  PROVE  \E k \in S : \A j \in S : k <= j
<1>1. PICK k \in S : \A j \in S : <<j, k>> \notin OpToRel(<, Nat)
  <2>1. IsWellFoundedOn(OpToRel(<, Nat), Nat)
    BY NatLessThanWellFounded
  <2>2. QED
    BY <2>1, WFMin
<1>2. \A j \in S : ~ (j < k)
  BY <1>1 DEF OpToRel
<1>3. QED
  BY <1>2

\* The bound of TensionIds: as many as there are pairs i < j up to n.
LEMMA PairCount ==
  ASSUME NEW n \in Nat, NEW P, P \subseteq {p \in (0 .. n) \X (0 .. n) : p[1] < p[2]}
  PROVE  /\ IsFiniteSet(P) /\ Cardinality(P) \in Nat
         /\ Cardinality(P) <= (n * (n + 1)) \div 2
<1> DEFINE Q == (0 .. n) \X (0 .. n)
           A == {p \in Q : p[1] < p[2]}
           B == {p \in Q : p[2] < p[1]}
           D == {p \in Q : p[1] = p[2]}
<1>1. IsFiniteSet(0 .. n) /\ Cardinality(0 .. n) = n + 1
  BY FS_Interval
<1>2. IsFiniteSet(Q) /\ Cardinality(Q) = (n + 1) * (n + 1)
  BY <1>1, FS_Product
<1>3. A \subseteq Q /\ B \subseteq Q /\ D \subseteq Q
  OBVIOUS
<1>4. /\ IsFiniteSet(A) /\ IsFiniteSet(B) /\ IsFiniteSet(D)
      /\ Cardinality(A) \in Nat /\ Cardinality(B) \in Nat /\ Cardinality(D) \in Nat
  BY <1>2, <1>3, FS_Subset, FS_CardinalityType
<1>5. Cardinality(A) <= Cardinality(B)
  <2> DEFINE f == [p \in A |-> <<p[2], p[1]>>]
  <2>1. f \in [A -> B]
    OBVIOUS
  <2>2. \A p, q \in A : f[p] = f[q] => p = q
    OBVIOUS
  <2>3. f \in Injection(A, B)
    BY <2>1, <2>2 DEF Injection, IsInjective
  <2>4. QED
    BY <1>4, <2>3, FS_Injection
<1>6. n + 1 <= Cardinality(D)
  <2> DEFINE f == [i \in 0 .. n |-> <<i, i>>]
  <2>1. f \in [0 .. n -> D]
    OBVIOUS
  <2>2. \A i, j \in 0 .. n : f[i] = f[j] => i = j
    OBVIOUS
  <2>3. f \in Injection(0 .. n, D)
    BY <2>1, <2>2 DEF Injection, IsInjective
  <2>4. QED
    BY <1>1, <1>4, <2>3, FS_Injection
<1>7. A \cap B = {} /\ (A \cup B) \cap D = {} /\ (A \cup B) \cup D \subseteq Q
  OBVIOUS
<1> HIDE DEF Q, A, B, D
<1>8. /\ IsFiniteSet(A \cup B)
      /\ Cardinality(A \cup B) = Cardinality(A) + Cardinality(B)
  <2>1. Cardinality(A \cap B) = 0
    BY <1>7, FS_EmptySet
  <2>2. Cardinality(A \cup B) = Cardinality(A) + Cardinality(B) - Cardinality(A \cap B)
    BY <1>4, FS_Union
  <2>3. IsFiniteSet(A \cup B)
    BY <1>4, FS_Union
  <2>4. QED
    BY <1>4, <2>1, <2>2, <2>3
<1>9. /\ IsFiniteSet((A \cup B) \cup D)
      /\ Cardinality((A \cup B) \cup D) = Cardinality(A) + Cardinality(B) + Cardinality(D)
  <2>1. Cardinality((A \cup B) \cap D) = 0
    BY <1>7, FS_EmptySet
  <2>2. Cardinality((A \cup B) \cup D)
          = Cardinality(A \cup B) + Cardinality(D) - Cardinality((A \cup B) \cap D)
    BY <1>4, <1>8, FS_Union
  <2>3. IsFiniteSet((A \cup B) \cup D)
    BY <1>4, <1>8, FS_Union
  <2>4. QED
    BY <1>4, <1>8, <2>1, <2>2, <2>3
<1>10. Cardinality(A) + Cardinality(B) + Cardinality(D) <= (n + 1) * (n + 1)
  BY <1>2, <1>7, <1>9, FS_Subset
<1>11. (n + 1) * (n + 1) = n * (n + 1) + (n + 1)
  OBVIOUS
<1>12. 2 * Cardinality(A) <= n * (n + 1) /\ n * (n + 1) \in Nat
  BY <1>4, <1>5, <1>6, <1>10, <1>11
<1>13. \A a, m \in Nat : 2 * a <= m => a <= m \div 2
  OBVIOUS
<1>14. Cardinality(A) <= (n * (n + 1)) \div 2
  BY <1>4, <1>12, <1>13
<1>15. P \subseteq A
  BY DEF A, Q
<1>16. IsFiniteSet(P) /\ Cardinality(P) <= Cardinality(A) /\ Cardinality(P) \in Nat
  BY <1>4, <1>15, FS_Subset, FS_CardinalityType
<1>17. (n * (n + 1)) \div 2 \in Int
  BY <1>12
<1>18. QED
  BY <1>4, <1>14, <1>16, <1>17

\* What makes an entry of the log one of the batch.
Chosen(k, e) ==
  /\ ask[k].mode = "dissent" /\ e.id \notin {ask[k].single[n].id : n \in DOMAIN ask[k].single}
  /\ {e.a, e.b} \subseteq DOMAIN load[k].pos
  /\ Adjudicates(load[k].pos, ask[k].stance, e)

Picked(k, entries) ==
  {[id |-> entries[n].id, state |-> "consolidated"] : n \in {m \in 1 .. Len(entries) : Chosen(k, entries[m])}}

\* The batch is a sequence of resolutions of chosen entries.
LEMMA BatchPicks ==
  ASSUME NEW k, NEW entries, Len(entries) \in Nat
  PROVE  Batch(k, entries) \in Seq(Picked(k, entries))
<1> DEFINE last == Len(entries)
           item(n) == [id |-> entries[n].id, state |-> "consolidated"]
           Step(g, n) == IF n = 0 THEN <<>>
                         ELSE IF Chosen(k, entries[n]) THEN Append(g[n - 1], item(n))
                         ELSE g[n - 1]
           IsUpTo(g, n) == g = [m \in 0 .. n |-> Step(g, m)]
           upTo == CHOOSE g : IsUpTo(g, last)
<1>1. Batch(k, entries) = upTo[last]
  BY DEF Batch, Chosen
<1> HIDE DEF last, item
<1>2. last \in Nat
  BY DEF last
<1>3. \A n \in 0 .. last : \E g : IsUpTo(g, n)
  <2> DEFINE Without == {n \in 0 .. last : ~ \E g : IsUpTo(g, n)}
  <2> SUFFICES ASSUME Without # {} PROVE FALSE
    OBVIOUS
  <2> HIDE DEF IsUpTo
  <2>1. Without \in SUBSET Nat
    BY <1>2
  <2>2. PICK n \in Without : \A m \in Without : n <= m
    BY <2>1, LeastExists, Zenon
  <2>3. CASE n = 0
    <3> DEFINE g == [m \in 0 .. 0 |-> <<>>]
    <3>1. IsUpTo(g, 0)
      BY DEF IsUpTo
    <3>2. QED
      BY <2>2, <2>3, <3>1, Zenon
  <2>4. CASE n # 0
    <3>1. n \in Nat /\ n - 1 \in 0 .. last /\ n - 1 \notin Without
      BY <1>2, <2>1, <2>2, <2>4
    <3>2. PICK h : IsUpTo(h, n - 1)
      BY <3>1
    <3> DEFINE g == [m \in 0 .. n |-> IF m = n THEN Step(h, n) ELSE h[m]]
    <3>3. \A m \in 0 .. n : g[m] = Step(g, m)
      <4> SUFFICES ASSUME NEW m \in 0 .. n PROVE g[m] = Step(g, m)
        OBVIOUS
      <4>1. m # 0 => g[m - 1] = h[m - 1]
        BY <3>1
      <4>2. m # n => g[m] = h[m] /\ h[m] = Step(h, m)
        <5> SUFFICES ASSUME m # n PROVE g[m] = h[m] /\ h[m] = Step(h, m)
          OBVIOUS
        <5>1. m \in 0 .. n - 1
          BY <3>1
        <5> HIDE DEF Step
        <5>2. h[m] = Step(h, m)
          BY <3>2, <5>1, Zenon DEF IsUpTo
        <5>3. QED
          BY <5>2, Zenon
      <4>3. QED
        BY <4>1, <4>2
    <3>4. IsUpTo(g, n)
      BY <3>3 DEF IsUpTo
    <3>5. QED
      BY <2>2, <3>4, Zenon
  <2>5. QED
    BY <2>3, <2>4
<1>4. IsUpTo(upTo, last)
  <2> HIDE DEF IsUpTo
  <2>1. \E g : IsUpTo(g, last)
    BY <1>2, <1>3
  <2>2. QED
    BY <2>1, Zenon
<1> HIDE DEF upTo
<1>5. \A n \in 0 .. last : upTo[n] = Step(upTo, n)
  BY <1>4
<1>6. \A n \in 1 .. last : Chosen(k, entries[n]) => item(n) \in Picked(k, entries)
  BY DEF Picked, item, last
<1>7. \A n \in 0 .. last : upTo[n] \in Seq(Picked(k, entries))
  <2> DEFINE Bad == {n \in 0 .. last : upTo[n] \notin Seq(Picked(k, entries))}
  <2> SUFFICES ASSUME Bad # {} PROVE FALSE
    OBVIOUS
  <2>1. Bad \in SUBSET Nat
    BY <1>2
  <2>2. PICK n \in Bad : \A m \in Bad : n <= m
    BY <2>1, LeastExists, Zenon
  <2>3. n # 0
    <3>1. upTo[0] = <<>>
      BY <1>2, <1>5
    <3>2. <<>> \in Seq(Picked(k, entries))
      BY EmptySeq
    <3>3. upTo[n] \notin Seq(Picked(k, entries))
      BY <2>2, Zenon
    <3>4. QED
      BY <3>1, <3>2, <3>3, Zenon
  <2>4. n - 1 \in 0 .. last /\ upTo[n - 1] \in Seq(Picked(k, entries)) /\ n \in 1 .. last
    BY <1>2, <2>2, <2>3
  <2>5. \A s \in Seq(Picked(k, entries)) : \A p \in Picked(k, entries) :
          Append(s, p) \in Seq(Picked(k, entries))
    BY AppendProperties
  <2>6. upTo[n] \in Seq(Picked(k, entries))
    <3> HIDE DEF Bad
    <3>1. CASE Chosen(k, entries[n])
      <4>1. upTo[n] = Append(upTo[n - 1], item(n))
        <5>1. n \in 0 .. last
          BY <2>2 DEF Bad
        <5>2. upTo[n] = Step(upTo, n)
          BY <1>5, <5>1, Zenon
        <5>3. QED
          BY <2>3, <3>1, <5>2, Zenon
      <4>2. QED
        BY <1>6, <2>4, <2>5, <3>1, <4>1
    <3>2. CASE ~ Chosen(k, entries[n])
      <4>1. upTo[n] = upTo[n - 1]
        BY <1>5, <2>3, <2>4, <3>2
      <4>2. QED
        BY <2>4, <4>1
    <3>3. QED
      BY <3>1, <3>2
  <2>7. QED
    BY <2>2, <2>6
<1>8. QED
  BY <1>1, <1>2, <1>7

\* A set of numbers up to n has a greatest one.
LEMMA GreatestExists ==
  ASSUME NEW n \in Nat, NEW S \in SUBSET (0 .. n), S # {}
  PROVE  \E k \in S : \A j \in S : j <= k
<1> DEFINE T == {n - k : k \in S}
<1>1. T \in SUBSET Nat /\ T # {}
  <2>1. \A k \in S : n - k \in Nat
    OBVIOUS
  <2>2. PICK k \in S : TRUE
    OBVIOUS
  <2>3. QED
    BY <2>1, <2>2, Zenon
<1>2. PICK x \in T : \A y \in T : x <= y
  <2> HIDE DEF T
  <2>1. QED
    BY <1>1, LeastExists
<1>3. PICK k \in S : x = n - k
  OBVIOUS
<1>4. \A j \in S : n - k <= n - j
  BY <1>2, <1>3
<1> HIDE DEF T
<1>5. \A j \in S : j <= k
  <2>1. n \in Int /\ k \in Int /\ \A j \in S : j \in Int
    OBVIOUS
  <2>2. QED
    BY <1>4, <2>1
<1>6. QED
  BY <1>5

------------------------------------------------------------------------------
(***************************************************************************)
(* Typing.                                                                 *)
(***************************************************************************)
LEMMA Sorts ==
  /\ Calls = Asserts \cup Resolvers /\ Resolvers = Consolidations \cup Rulings
  /\ Asserts \cap Resolvers = {} /\ Consolidations \cap Rulings = {}
  /\ Free \notin Calls /\ Unknown \notin Calls
BY PositionsAssumption DEF Calls, Resolvers

\* Written, Total and Pairs are finite.
LEMMA Counts ==
  ASSUME Numbered, Typed
  PROVE  /\ IsFiniteSet(Written) /\ Total \in Nat /\ Total <= Cardinality(Asserts)
         /\ Cardinality(Asserts) \in Nat
         /\ IsFiniteSet(Pairs) /\ Cardinality(Pairs) \in Nat
         /\ 1 .. Cardinality(Pairs) \subseteq TensionIds
<1>1. /\ IsFiniteSet(Written) /\ Total \in Nat /\ Total <= Cardinality(Asserts)
      /\ Cardinality(Asserts) \in Nat
  <2>1. IsFiniteSet(Asserts) /\ Written \subseteq Asserts
    BY PositionsAssumption DEF Written
  <2>2. QED
    BY <2>1, FS_Subset, FS_CardinalityType DEF Total
<1> DEFINE n == Cardinality(Asserts)
<1>2. Pairs \subseteq {p \in (0 .. n) \X (0 .. n) : p[1] < p[2]}
  <2> SUFFICES ASSUME NEW m \in minted
               PROVE  /\ m.a \in 0 .. n /\ m.b \in 0 .. n /\ m.a < m.b
    BY DEF Pairs
  <2>1. m.a \in Nat /\ m.b \in Nat
    BY DEF Typed, Tension
  <2>2. m.a < m.b /\ m.b <= Total
    BY DEF Numbered
  <2>3. QED
    BY <1>1, <2>1, <2>2
<1>3. /\ IsFiniteSet(Pairs) /\ Cardinality(Pairs) \in Nat
      /\ Cardinality(Pairs) <= (n * (n + 1)) \div 2
  BY <1>1, <1>2, PairCount
<1>4. n * (n + 1) \in Nat
  BY <1>1
<1>5. \A m \in Nat : m \div 2 \in Nat
  OBVIOUS
<1>6. TensionIds = 1 .. (n * (n + 1)) \div 2 /\ (n * (n + 1)) \div 2 \in Nat
  BY <1>4, <1>5 DEF TensionIds
<1> HIDE DEF n
<1>7. QED
  BY <1>1, <1>3, <1>6 DEF n

\* The id of addTension is larger than any in the log.
LEMMA FreshId ==
  ASSUME Numbered, Typed
  PROVE  /\ NextTensionId \in 1 .. Cardinality(Pairs) + 1
         /\ \A k \in DOMAIN log : log[k].id < NextTensionId
<1> DEFINE used == {log[k].id : k \in DOMAIN log}
           last == CHOOSE i \in used : \A j \in used : j <= i
<1>1. used \in SUBSET (1 .. Cardinality(Pairs)) /\ Cardinality(Pairs) \in Nat
  BY Counts DEF Numbered, Numbers
<1>2. CASE used = {}
  BY <1>1, <1>2 DEF NextTensionId
<1>3. CASE used # {}
  <2>1. \E i \in used : \A j \in used : j <= i
    <3> HIDE DEF used
    <3>1. QED
      <4>1. used \in SUBSET (0 .. Cardinality(Pairs))
        BY <1>1
      <4>2. QED
        BY <1>1, <1>3, <4>1, GreatestExists
  <2>2. last \in used /\ \A j \in used : j <= last
    BY <2>1
  <2>3. NextTensionId = 1 + last
    BY <1>3, Zenon DEF NextTensionId
  <2> HIDE DEF last
  <2>4. \A k \in DOMAIN log : log[k].id <= last /\ log[k].id \in Nat
    BY <1>1, <2>2
  <2>5. last \in 1 .. Cardinality(Pairs)
    BY <1>1, <2>2
  <2>6. QED
    BY <1>1, <2>3, <2>4, <2>5
<1>4. QED
  BY <1>2, <1>3

\* A call moves on.
LEMMA Moves ==
  ASSUME Placed, NEW c \in Calls, NEW p, Goes(c, p),
         c \in Asserts => p \in AssertPlaces, c \in Resolvers => p \in ResolvePlaces
  PROVE  /\ Placed' /\ pc'[c] = p
         /\ \A d \in Calls \ {c} : pc'[d] = pc[d]
BY Sorts DEF Placed, Goes

LEMMA PairStep ==
  ASSUME Types, NEW c \in Asserts, pc[c] \in {"listing", "adding"},
         NEW logged, NextPair(c, logged)
  PROVE  /\ Rival(c) \in against[c]
         /\ against' = [against EXCEPT ![c] = @ \ {Rival(c)}]
         /\ against' \in [Asserts -> SUBSET Nat]
         /\ unlogged \subseteq unlogged' /\ unlogged' \subseteq Asserts
         /\ logged \/ c \in unlogged'
         /\ waited' \subseteq Calls
         /\ pc'[c] \in {"listing", "done"} /\ Placed'
         /\ \A d \in Calls \ {c} : pc'[d] = pc[d]
         /\ pc'[c] = "done" <=> against'[c] = {}
         /\ mine' = mine
<1>1. against[c] \in SUBSET Nat /\ against[c] # {}
  BY DEF Types, Typed, InHand
<1>2. Rival(c) \in against[c]
  <2>1. \E i \in against[c] : \A j \in against[c] : i <= j
    BY <1>1, LeastExists
  <2>2. QED
    BY <2>1 DEF Rival
<1>3. /\ against' = [against EXCEPT ![c] = @ \ {Rival(c)}]
      /\ against'[c] = against[c] \ {Rival(c)} /\ against' \in [Asserts -> SUBSET Nat]
  BY <1>1 DEF NextPair, Types, Typed
<1>4. /\ unlogged \subseteq unlogged' /\ unlogged' \subseteq Asserts
      /\ logged \/ c \in unlogged'
      /\ waited' \subseteq Calls
      /\ mine' = mine
  BY DEF NextPair, Types, Bounded
<1>5. Goes(c, IF against'[c] = {} THEN "done" ELSE "listing")
  BY <1>3 DEF NextPair
<1>6. /\ Placed' /\ pc'[c] = IF against'[c] = {} THEN "done" ELSE "listing"
      /\ \A d \in Calls \ {c} : pc'[d] = pc[d]
  BY <1>5, Moves, Sorts DEF Types, AssertPlaces
<1>7. QED
  BY <1>2, <1>3, <1>4, <1>6

LEMMA ResolutionStep ==
  ASSUME Types, NEW x \in Resolvers, pc[x] \in AtWork \cup {"resolving"}, NextResolution(x)
  PROVE  /\ todo[x] # <<>> /\ todo' = [todo EXCEPT ![x] = Tail(@)]
         /\ Head(todo[x]) \in Item /\ todo' \in [Resolvers -> Seq(Item)]
         /\ raw' = [raw EXCEPT ![x] = <<>>] /\ raw' \in [Resolvers -> Seq(Entry)]
         /\ waited' \subseteq Calls
         /\ Placed' /\ pc'[x] \in {"done", "resolving"}
         /\ pc'[x] = "resolving" => todo'[x] # <<>>
         /\ \A d \in Calls \ {x} : pc'[d] = pc[d]
<1>1. todo[x] \in Seq(Item) /\ todo[x] # <<>>
  BY DEF Types, Typed, InHand
<1>2. Head(todo[x]) \in Item /\ Tail(todo[x]) \in Seq(Item)
  BY <1>1, HeadTailProperties
<1>3. /\ todo' = [todo EXCEPT ![x] = Tail(@)] /\ todo'[x] = Tail(todo[x])
      /\ todo' \in [Resolvers -> Seq(Item)]
  BY <1>2 DEF NextResolution, Types, Typed
<1>4. raw' = [raw EXCEPT ![x] = <<>>] /\ raw' \in [Resolvers -> Seq(Entry)]
  BY DEF NextResolution, Types, Typed
<1>5. waited' \subseteq Calls
  BY DEF NextResolution, Types, Bounded
<1>6. Goes(x, IF Tail(todo[x]) = <<>> THEN "done" ELSE "resolving")
  BY DEF NextResolution
<1>7. /\ Placed' /\ pc'[x] = IF Tail(todo[x]) = <<>> THEN "done" ELSE "resolving"
      /\ \A d \in Calls \ {x} : pc'[d] = pc[d]
  BY <1>6, Moves, Sorts DEF Types, ResolvePlaces
<1>8. QED
  BY <1>1, <1>2, <1>3, <1>4, <1>5, <1>7

\* What an assert writes: the next position, and its own earlier one superseded.
LEMMA AssertWrites ==
  ASSUME Integrity, Numbered, Typed, NEW c \in Asserts, doc' = Asserted(c, doc),
         NEW id, id = NextPositionId(BasePositions(doc))
  PROVE  /\ id = Total + 1 /\ id \in Nat \ {0} /\ id \notin DOMAIN doc.pos
         /\ UpTo(doc'.pos, id) /\ DOMAIN doc'.pos \subseteq Nat
         /\ DOMAIN doc.pos \subseteq DOMAIN doc'.pos /\ id \in DOMAIN doc'.pos
         /\ doc'.pos[id] = [by |-> ask[c].by, stance |-> ask[c].stance, next |-> 0, of |-> c]
         /\ \A i \in DOMAIN doc.pos :
              /\ doc'.pos[i].of = doc.pos[i].of /\ doc'.pos[i].stance = doc.pos[i].stance
              /\ doc'.pos[i].next = doc.pos[i].next \/ (doc.pos[i].next = 0 /\ doc'.pos[i].next = id)
         /\ \A i \in DOMAIN doc'.pos \ (DOMAIN doc.pos \cup {id}) :
              DOMAIN doc.pos = {} /\ i = 0 /\ doc'.pos[i].next \in {0, id}
         /\ doc'.org = doc.org /\ doc'.conf \in {"low", doc.conf}
<1> DEFINE base == BasePositions(doc)
           new == ApplyAssert(c, base)
<1>1. Shape /\ OneEach(doc.pos) /\ UpTo(doc.pos, Total) /\ Total \in Nat
  BY Counts DEF Integrity, PositionIntegrity, OneEach, Numbered
<1>2. /\ IsPositions(base) /\ OneEach(base) /\ UpTo(base, Total)
      /\ DOMAIN doc.pos = {} \/ base = doc.pos
      /\ DOMAIN doc.pos = {} => DOMAIN base \subseteq {0}
      /\ \A i \in DOMAIN base : DOMAIN doc.pos = {} => base[i].next = 0
  <2>1. CASE doc.typed
    <3>1. base = doc.pos
      BY <2>1 DEF BasePositions
    <3>2. QED
      BY <1>1, <3>1 DEF Shape
  <2>2. CASE ~ doc.typed
    <3>1. base = [i \in {0} |-> LegacySnapshot]
      BY <2>2 DEF BasePositions
    <3>2. UpTo(base, 0)
      BY <3>1 DEF UpTo
    <3>3. Total = 0
      <4>1. DOMAIN doc.pos = {}
        BY <1>1, <2>2 DEF Shape
      <4>2. 0 \in 0 .. Total /\ (Total > 0 => 1 \in 1 .. Total)
        BY <1>1
      <4>3. QED
        BY <1>1, <4>1, <4>2 DEF UpTo
    <3>4. IsPositions(base) /\ OneEach(base)
      BY <3>1, <3>2 DEF IsPositions, OneEach, Live, LegacySnapshot
    <3>5. DOMAIN doc.pos = {}
      BY <1>1, <2>2 DEF Shape
    <3>6. QED
      BY <3>1, <3>2, <3>3, <3>4, <3>5 DEF LegacySnapshot
  <2>3. QED
    BY <1>1, <2>1, <2>2 DEF Shape
<1> HIDE DEF base
<1>3. id = Total + 1
  BY <1>1, <1>2, NextIsLast DEF base
<1>4. /\ IsPositions(new) /\ id \notin DOMAIN base /\ DOMAIN new = DOMAIN base \cup {id}
      /\ \A i \in DOMAIN base :
           \/ new[i] = base[i]
           \/ base[i].next = 0 /\ new[i] = [base[i] EXCEPT !.next = id]
  BY <1>2, ApplyAssertShape DEF base
<1>5. new[id] = [by |-> ask[c].by, stance |-> ask[c].stance, next |-> 0, of |-> c]
  BY <1>4 DEF ApplyAssert, base
<1>6. /\ doc'.pos = new /\ doc'.org = doc.org /\ doc'.conf \in {"low", doc.conf}
  <2>1. doc' = [doc EXCEPT !.typed = TRUE, !.pos = new, !.contested = IsContested(new),
                           !.conf = Confidence(new, doc)]
    BY DEF Asserted, base
  <2>2. Confidence(new, doc) \in {"low", doc.conf}
    BY DEF Confidence
  <2> HIDE DEF new
  <2>3. QED
    BY <1>1, <2>1, <2>2 DEF Shape
<1>7. UpTo(new, id)
  <2>1. 0 .. Total \cup {Total + 1} = 0 .. Total + 1 /\ 1 .. Total \cup {Total + 1} = 1 .. Total + 1
    BY <1>1
  <2>2. QED
    BY <1>2, <1>3, <1>4, <2>1 DEF UpTo
<1> HIDE DEF new
<1>8. DOMAIN new \subseteq Nat
  BY <1>1, <1>3, <1>7 DEF UpTo
<1>9. \A i \in DOMAIN base :
        /\ new[i].of = base[i].of /\ new[i].stance = base[i].stance
        /\ new[i].next = base[i].next \/ (base[i].next = 0 /\ new[i].next = id)
  BY <1>2, <1>4 DEF IsPositions
<1>10. DOMAIN doc.pos \subseteq DOMAIN base
  BY <1>2
<1>11. \A i \in DOMAIN doc.pos :
        /\ new[i].of = doc.pos[i].of /\ new[i].stance = doc.pos[i].stance
        /\ new[i].next = doc.pos[i].next \/ (doc.pos[i].next = 0 /\ new[i].next = id)
  BY <1>2, <1>9
<1>12. \A i \in DOMAIN new \ (DOMAIN doc.pos \cup {id}) :
         DOMAIN doc.pos = {} /\ i = 0 /\ new[i].next \in {0, id}
  BY <1>2, <1>4, <1>9
<1>13. id \in Nat \ {0} /\ id \notin DOMAIN doc.pos
  BY <1>1, <1>3, <1>4, <1>10
<1>14. QED
  BY <1>3, <1>4, <1>5, <1>6, <1>7, <1>8, <1>10, <1>11, <1>12, <1>13

LEMMA EntryTyped ==
  ASSUME NEW s \in Seq(Entry)
  PROVE  /\ Len(s) \in Nat /\ DOMAIN s = 1 .. Len(s)
         /\ \A n \in DOMAIN s : s[n] \in Entry /\ s[n].id \in Nat
<1>1. Len(s) \in Nat /\ DOMAIN s = 1 .. Len(s)
  BY LenProperties
<1>2. \A n \in 1 .. Len(s) : s[n] \in Entry
  BY ElementOfSeq
<1>3. \A e \in Entry : e.id \in Nat
  BY DEF Entry
<1>4. QED
  BY <1>1, <1>2, <1>3

LEMMA AskTyped ==
  ASSUME Typed, NEW c \in Asserts \cup Consolidations, NEW a \in AskFor(c)
  PROVE  a \in Ask /\ a.stance \in Stances
<1>1. <<>> \in Seq(Item)
  OBVIOUS
<1>2. \A i \in LoggedIds : i \in Nat
  BY EntryTyped DEF LoggedIds, Typed
<1>3. \A i \in Nat, s \in Verdicts : <<[id |-> i, state |-> s]>> \in Seq(Item)
  BY DEF Item
<1>4. Singles \subseteq Seq(Item)
  <2> SUFFICES ASSUME NEW q \in Singles PROVE q \in Seq(Item)
    OBVIOUS
  <2>1. CASE q = <<>>
    BY <1>1, <2>1
  <2>2. CASE q # <<>>
    <3>1. PICK i \in LoggedIds, s \in {"accepted", "corrected"} : q = <<[id |-> i, state |-> s]>>
      BY <2>2 DEF Singles
    <3>2. s \in Verdicts
      BY DEF Verdicts
    <3>3. QED
      BY <1>2, <1>3, <3>1, <3>2
  <2>3. QED
    BY <2>1, <2>2
<1>5. CASE c \in Asserts
  <2>1. a \in [by : Principals, stance : Stances, mode : {"direct", "propose"}, single : {<<>>}]
    BY <1>5 DEF AskFor
  <2>2. QED
    BY <1>1, <2>1 DEF Ask
<1>6. CASE c \notin Asserts
  <2>1. a \in [by : {Unknown}, stance : Stances, mode : {"alone", "dissent"}, single : Singles]
    BY <1>6 DEF AskFor
  <2>2. QED
    BY <1>4, <2>1 DEF Ask
<1>7. QED
  BY <1>5, <1>6

LEMMA BatchTyped ==
  ASSUME Typed, NEW k \in Consolidations
  PROVE  ask[k].single \o Batch(k, log) \in Seq(Item)
<1>1. Len(log) \in Nat
  BY DEF Typed
<1>2. Picked(k, log) \subseteq Item
  <2>1. \A n \in 1 .. Len(log) : log[n].id \in Nat
    BY EntryTyped DEF Typed
  <2>2. QED
    BY <2>1 DEF Picked, Item, Verdicts
<1>3. Batch(k, log) \in Seq(Item)
  BY <1>1, <1>2, BatchPicks, SeqMonotonic
<1>4. ask[k].single \in Seq(Item)
  BY Sorts DEF Typed, Ask
<1>5. QED
  BY <1>3, <1>4, ConcatProperties

\* What a step keeps that deals with a pair.
LEMMA PairTypes ==
  ASSUME Types, NEW c \in Asserts, pc[c] \in {"listing", "adding"},
         NEW logged, NextPair(c, logged),
         UNCHANGED <<writeVars, leaseVars, ruleVars, damaged>>,
         log' \in Seq(Entry), minted' \in SUBSET Tension, faults' \in 0 .. MaxFaults
  PROVE  Types'
<1> USE PairStep, Sorts DEF writeVars, leaseVars, ruleVars
<1>1. Typed'
  BY DEF Types, Typed
<1>2. Placed'
  OBVIOUS
<1>3. Bounded'
  <2>1. lease # Free => pc'[lease] = pc[lease]
    BY DEF Types, Bounded, AtWork
  <2>2. QED
    BY <2>1 DEF Types, Bounded
<1>4. InHand'
  <2>1. /\ pc'[c] \in {"listing", "done"}
        /\ pc'[c] = "done" <=> against'[c] = {}
        /\ \A d \in Calls \ {c} : pc'[d] = pc[d]
        /\ \A d \in Asserts \ {c} : against'[d] = against[d]
        /\ UNCHANGED <<mine, ask, again, todo>>
    BY DEF Types, Typed
  <2>2. \A d \in Asserts : d # c => pc'[d] = pc[d] /\ against'[d] = against[d]
    BY <2>1
  <2>3. \A x \in Resolvers : pc'[x] = pc[x]
    BY <2>1
  <2>4. \A x \in Resolvers : pc'[x] \in AtWork \cup {"resolving"} => todo'[x] # <<>>
    BY <2>1, <2>3 DEF Types, InHand
  <2>5. /\ \A d \in Asserts : pc'[d] \in {"loaded", "staged"} \/ d \in again' => ask'[d].stance \in Stances
        /\ \A d \in Asserts : pc'[d] \in {"idle", "loaded", "staged"} => mine'[d] = 0
    BY <2>1, <2>2 DEF Types, InHand
  <2>6. /\ \A d \in Asserts : pc'[d] \in {"listing", "adding"} => against'[d] # {}
        /\ \A d \in Asserts : pc'[d] = "done" => against'[d] = {}
    BY <2>1, <2>2 DEF Types, InHand
  <2>7. QED
    BY <2>4, <2>5, <2>6 DEF InHand
<1>5. QED
  BY <1>1, <1>2, <1>3, <1>4 DEF Types

\* What a step keeps that deals with a resolution.
LEMMA ResolutionTypes ==
  ASSUME Types, NEW x \in Resolvers, pc[x] \in AtWork \cup {"resolving"}, NextResolution(x),
         UNCHANGED <<writeVars, assertVars>>,
         log' \in Seq(Entry), minted' \in SUBSET Tension, ruled' \in SUBSET Item,
         \/ lease' = lease /\ lease # x
         \/ Release(x),
         faults' \in 0 .. MaxFaults, lapses' = lapses, damaged' \in BOOLEAN
  PROVE  Types'
<1> USE ResolutionStep, Sorts DEF writeVars, assertVars
<1>1. Typed'
  BY DEF Types, Typed
<1>2. Placed'
  OBVIOUS
<1>3. Bounded'
  <2>1. lease' # Free => lease' = lease /\ lease # x
    BY DEF Release
  <2>2. lease' \in Resolvers \cup {Free}
    BY DEF Release, Types, Bounded
  <2>3. lease' # Free => pc'[lease'] \in AtWork
    BY <2>1, <2>2 DEF Types, Bounded
  <2>4. QED
    BY <2>2, <2>3 DEF Types, Bounded
<1>4. InHand'
  <2>1. /\ pc'[x] \in {"done", "resolving"}
        /\ pc'[x] = "resolving" => todo'[x] # <<>>
        /\ \A d \in Calls \ {x} : pc'[d] = pc[d]
        /\ \A d \in Resolvers \ {x} : todo'[d] = todo[d]
        /\ UNCHANGED <<mine, ask, again, against>>
    BY DEF Types, Typed
  <2>2. \A d \in Resolvers : d # x => pc'[d] = pc[d] /\ todo'[d] = todo[d]
    BY <2>1
  <2>3. \A d \in Asserts : pc'[d] = pc[d]
    BY <2>1
  <2>4. \A d \in Resolvers : pc'[d] \in AtWork \cup {"resolving"} => todo'[d] # <<>>
    <3>1. pc'[x] \in AtWork \cup {"resolving"} => todo'[x] # <<>>
      BY <2>1 DEF AtWork
    <3>2. QED
      BY <2>2, <3>1 DEF Types, InHand
  <2>5. \A d \in Asserts : /\ ask'[d] = ask[d] /\ mine'[d] = mine[d] /\ against'[d] = against[d]
                            /\ pc'[d] = pc[d] /\ again' = again
    BY <2>1, <2>3
  <2>6. /\ \A d \in Asserts : pc[d] \in {"loaded", "staged"} \/ d \in again => ask[d].stance \in Stances
        /\ \A d \in Asserts : pc[d] \in {"idle", "loaded", "staged"} => mine[d] = 0
        /\ \A d \in Asserts : pc[d] \in {"listing", "adding"} => against[d] # {}
        /\ \A d \in Asserts : pc[d] = "done" => against[d] = {}
    BY DEF Types, InHand
  <2>7. /\ \A d \in Asserts : pc'[d] \in {"loaded", "staged"} \/ d \in again' => ask'[d].stance \in Stances
        /\ \A d \in Asserts : pc'[d] \in {"idle", "loaded", "staged"} => mine'[d] = 0
    BY <2>5, <2>6
  <2>8. /\ \A d \in Asserts : pc'[d] \in {"listing", "adding"} => against'[d] # {}
        /\ \A d \in Asserts : pc'[d] = "done" => against'[d] = {}
    BY <2>5, <2>6
  <2>9. QED
    BY <2>4, <2>7, <2>8 DEF InHand
<1>5. QED
  BY <1>1, <1>2, <1>3, <1>4 DEF Types

LEMMA ExceptOutside ==
  ASSUME NEW S, NEW s \in Seq(S), NEW n, n \notin DOMAIN s, NEW e
  PROVE  [s EXCEPT ![n] = e] = s
<1>1. s = [i \in DOMAIN s |-> s[i]]
  BY LenProperties
<1>2. [s EXCEPT ![n] = e] = [i \in DOMAIN s |-> IF i = n THEN e ELSE s[i]]
  OBVIOUS
<1>3. [i \in DOMAIN s |-> IF i = n THEN e ELSE s[i]] = [i \in DOMAIN s |-> s[i]]
  OBVIOUS
<1>4. QED
  BY <1>1, <1>2, <1>3

\* What is written back is a log again.
LEMMA RewriteTyped ==
  ASSUME Types, NEW x \in Resolvers, RewriteLog(x)
  PROVE  log' \in Seq(Entry)
<1> DEFINE item == Head(todo[x])
           hit == CHOOSE n \in First(raw[x], item.id) : TRUE
<1>1. item \in Item /\ raw[x] \in Seq(Entry)
  BY ResolutionStep DEF RewriteLog, AtWork, Types, Typed
<1>2. log' = [raw[x] EXCEPT ![hit].state = item.state, ![hit].by = x]
  BY DEF RewriteLog
<1> HIDE DEF item, hit
<1>3. Len(raw[x]) \in Nat /\ DOMAIN raw[x] = 1 .. Len(raw[x])
  BY <1>1, EntryTyped
<1>4. CASE hit \in DOMAIN raw[x]
  <2>1. log' = [raw[x] EXCEPT ![hit] = [raw[x][hit] EXCEPT !.state = item.state, !.by = x]]
    BY <1>2, <1>3, <1>4
  <2>2. raw[x][hit] \in Entry
    BY <1>1, <1>4, EntryTyped
  <2> DEFINE e == [raw[x][hit] EXCEPT !.state = item.state, !.by = x]
  <2>3. e \in Entry
    BY <1>1, <2>2, Sorts DEF Entry, Item
  <2> HIDE DEF e
  <2>4. log' = [raw[x] EXCEPT ![hit] = e]
    BY <2>1 DEF e
  <2>5. QED
    BY <1>1, <1>3, <1>4, <2>3, <2>4, ExceptSeq
<1>5. CASE hit \notin DOMAIN raw[x]
  <2>1. \A e : [raw[x] EXCEPT ![hit] = e] = raw[x]
    BY <1>1, <1>5, ExceptOutside
  <2> DEFINE one == [raw[x] EXCEPT ![hit].state = item.state]
  <2>2. one = raw[x]
    BY <2>1
  <2>3. log' = [one EXCEPT ![hit].by = x]
    BY <1>2
  <2> HIDE DEF one
  <2>4. log' = raw[x]
    BY <2>1, <2>2, <2>3
  <2>5. QED
    BY <1>1, <2>4
<1>6. QED
  BY <1>4, <1>5

LEMMA TypesStep ==
  ASSUME Integrity, Numbered, Types, [Next]_vars
  PROVE  Types'
<1> USE Sorts DEF Types
<1>1. ASSUME NEW c \in Asserts \cup Consolidations, Load(c) PROVE Types'
  <2> USE <1>1 DEF Load, writeVars, assertVars, logVars, leaseVars, ruleVars, Goes
  <2>1. Typed'
    <3>1. PICK a \in Ask : /\ ask' = [ask EXCEPT ![c] = a] \/ ask' = ask
                           /\ c \notin again => ask' = [ask EXCEPT ![c] = a]
      BY AskTyped DEF Typed
    <3>2. ask' \in [Calls -> Ask]
      <4>1. ask \in [Calls -> Ask]
        BY DEF Typed
      <4>2. [ask EXCEPT ![c] = a] \in [Calls -> Ask]
        BY <4>1
      <4>3. QED
        BY <3>1, <4>1, <4>2, Zenon
    <3>3. load' = [d \in Asserts \cup Consolidations |-> load'[d]]
      BY DEF Typed
    <3>4. QED
      BY <3>2, <3>3 DEF Typed
  <2>2. Placed'
    BY DEF Placed, AssertPlaces, ResolvePlaces, AtWork
  <2>3. Bounded'
    BY DEF Placed, AssertPlaces, Bounded, AtWork
  <2>4. InHand'
    <3>1. \A d \in Asserts : d # c => ask'[d].stance = ask[d].stance /\ pc'[d] = pc[d]
      BY DEF Typed, Placed
    <3>2. c \in Asserts => ask'[c].stance \in Stances
      <4>1. CASE c \in again
        BY <4>1 DEF InHand
      <4>2. CASE c \notin again
        <5>1. PICK a \in AskFor(c) : ask' = [ask EXCEPT ![c] = a]
          BY <4>2
        <5>2. ask'[c] = a /\ a.stance \in Stances
          BY <5>1, AskTyped DEF Typed
        <5>3. QED
          BY <5>2
      <4>3. QED
        BY <4>1, <4>2
    <3>3. pc'[c] = "loaded"
      BY DEF Placed
    <3>4. \A d \in Calls \ {c} : pc'[d] = pc[d]
      BY DEF Placed
    <3>5. again' = again /\ mine' = mine /\ against' = against /\ todo' = todo /\ pc[c] = "idle"
      OBVIOUS
    <3>6. QED
      BY <3>1, <3>2, <3>3, <3>4, <3>5 DEF InHand, AtWork
  <2>5. QED
    BY <2>1, <2>2, <2>3, <2>4
<1>2. ASSUME NEW c \in Asserts \cup Consolidations, Stale(c) PROVE Types'
  <2> USE <1>2 DEF Stale, writeVars, assertVars, logVars, leaseVars, ruleVars, Goes
  <2>1. Typed'
    BY DEF Typed
  <2>2. Placed'
    BY DEF Placed, AssertPlaces, ResolvePlaces, AtWork
  <2>3. Bounded'
    BY DEF Placed, Bounded, AtWork, Composed
  <2>4. InHand'
    <3>1. /\ \A d \in Calls \ {c} : pc'[d] = pc[d]
          /\ pc'[c] \in {"idle", "failed"} /\ again' \subseteq again \cup {c}
      BY DEF Placed
    <3>2. c \in Asserts => pc[c] = "loaded"
      BY DEF Composed
    <3>3. QED
      BY <3>1, <3>2 DEF InHand, AtWork
  <2>5. QED
    BY <2>1, <2>2, <2>3, <2>4
<1>3. ASSUME NEW c \in Asserts \cup Consolidations, Refuse(c) PROVE Types'
  <2> USE <1>3 DEF Refuse, writeVars, assertVars, logVars, leaseVars, ruleVars, Goes
  <2>1. Typed'
    BY DEF Typed
  <2>2. Placed'
    BY DEF Placed, AssertPlaces, ResolvePlaces, AtWork
  <2>3. Bounded'
    BY DEF Placed, AssertPlaces, Bounded, AtWork
  <2>4. InHand'
    BY DEF Placed, AssertPlaces, ResolvePlaces, Typed, InHand, AtWork
  <2>5. QED
    BY <2>1, <2>2, <2>3, <2>4
<1>4. ASSUME NEW c \in Asserts, WriteAssert(c) PROVE Types'
  <2> USE <1>4 DEF WriteAssert, writeVars, assertVars, logVars, leaseVars, ruleVars, Goes
  <2>1. Typed'
    <3>1. NextPositionId(BasePositions(doc)) = Total + 1 /\ Total \in Nat
      BY AssertWrites, Counts DEF Fresh
    <3>2. mine' \in [Asserts -> Nat]
      BY <3>1 DEF Typed, Fresh
    <3> DEFINE conflicts == Opposing(Asserted(c, load[c]).pos, ask[c].stance)
    <3>3. conflicts \subseteq Nat
      BY AssertWrites DEF Fresh, Opposing, LiveWith, Live
    <3>4. against' = [against EXCEPT ![c] = conflicts] \/ against' = against
      OBVIOUS
    <3> HIDE DEF conflicts
    <3>5. against' \in [Asserts -> SUBSET Nat]
      BY <3>3, <3>4 DEF Typed
    <3>6. QED
      BY <3>2, <3>5 DEF Typed
  <2>2. Placed'
    BY DEF Placed, AssertPlaces, ResolvePlaces, AtWork
  <2>3. Bounded'
    <3>1. doc'.conf \in {"low", doc.conf}
      BY AssertWrites DEF Fresh
    <3>2. QED
      BY <3>1 DEF Placed, Bounded, AtWork
  <2>4. InHand'
    <3> DEFINE conflicts == Opposing(Asserted(c, load[c]).pos, ask[c].stance)
    <3>1. /\ \A d \in Calls \ {c} : pc'[d] = pc[d]
          /\ \/ pc'[c] = "failed" /\ against' = against
             \/ /\ pc'[c] = (IF conflicts = {} THEN "done" ELSE "listing")
                /\ against' = [against EXCEPT ![c] = conflicts]
      BY DEF Placed
    <3> HIDE DEF conflicts
    <3>2. \A d \in Asserts \ {c} : mine'[d] = mine[d] /\ against'[d] = against[d]
      BY <3>1 DEF Typed
    <3>3. pc'[c] # "failed" => against'[c] = conflicts
      BY <3>1 DEF Typed
    <3>4. ask' = ask /\ again' = again /\ todo' = todo /\ pc[c] = "loaded"
      OBVIOUS
    <3>5. QED
      BY <3>1, <3>2, <3>3, <3>4 DEF InHand, AtWork
  <2>5. QED
    BY <2>1, <2>2, <2>3, <2>4
<1>5. ASSUME NEW c \in Asserts, StageAssert(c) PROVE Types'
  <2> USE <1>5 DEF StageAssert, writeVars, assertVars, logVars, leaseVars, ruleVars, Goes
  <2>1. Typed'
    BY DEF Typed
  <2>2. Placed'
    BY DEF Placed, AssertPlaces, ResolvePlaces, AtWork
  <2>3. Bounded'
    BY DEF Placed, AssertPlaces, Bounded, AtWork
  <2>4. InHand'
    BY DEF Placed, AssertPlaces, ResolvePlaces, Typed, InHand, AtWork
  <2>5. QED
    BY <2>1, <2>2, <2>3, <2>4
<1>6. ASSUME NEW c \in Asserts, LandStaged(c) PROVE Types'
  <2> USE <1>6 DEF LandStaged, writeVars, assertVars, logVars, leaseVars, ruleVars, Goes
  <2>1. Typed'
    <3>1. NextPositionId(BasePositions(doc)) = Total + 1 /\ Total \in Nat
      BY AssertWrites, Counts DEF Fresh
    <3>2. mine' \in [Asserts -> Nat]
      BY <3>1 DEF Typed, Fresh
    <3>3. QED
      BY <3>2 DEF Typed
  <2>2. Placed'
    BY DEF Placed, AssertPlaces, ResolvePlaces, AtWork
  <2>3. Bounded'
    <3>1. doc'.conf \in {"low", doc.conf}
      BY AssertWrites DEF Fresh
    <3>2. QED
      BY <3>1 DEF Placed, Bounded, AtWork
  <2>4. InHand'
    BY DEF Placed, AssertPlaces, ResolvePlaces, Typed, InHand, AtWork
  <2>5. QED
    BY <2>1, <2>2, <2>3, <2>4
<1>7. ASSUME NEW c \in Asserts, ListForPair(c) PROVE Types'
  <2> USE <1>7 DEF ListForPair, writeVars, assertVars, logVars, leaseVars, ruleVars
  <2>1. CASE NextPair(c, TRUE)
    BY <2>1, PairTypes DEF Typed, Bounded
  <2>2. CASE Goes(c, "adding") /\ UNCHANGED <<assertVars, waited>>
    <3>1. /\ Placed' /\ pc'[c] = "adding" /\ \A d \in Calls \ {c} : pc'[d] = pc[d]
      BY <2>2, Moves DEF AssertPlaces
    <3>2. Typed'
      BY <2>2 DEF Typed
    <3>3. Bounded'
      BY <2>2, <3>1 DEF Bounded, AtWork
    <3>4. InHand'
      BY <2>2, <3>1 DEF InHand, AtWork
    <3>5. QED
      BY <3>1, <3>2, <3>3, <3>4
  <2>3. QED
    BY <2>1, <2>2
<1>8. ASSUME NEW c \in Asserts, AddTension(c) PROVE Types'
  <2> USE <1>8 DEF AddTension
  <2> DEFINE e == [id |-> NextTensionId, a |-> Rival(c), b |-> mine[c], state |-> "open", by |-> c]
             m == [id |-> NextTensionId, a |-> Rival(c), b |-> mine[c]]
  <2>1. NextTensionId \in Nat /\ Rival(c) \in Nat /\ mine[c] \in Nat
    <3>1. NextTensionId \in Nat
      BY FreshId, Counts
    <3>2. Rival(c) \in against[c]
      BY PairStep
    <3>3. QED
      BY <3>1, <3>2 DEF Typed
  <2>2. e \in Entry /\ m \in Tension
    BY <2>1 DEF Entry, Tension
  <2>3. log' = Append(log, e) /\ minted' = minted \cup {m}
    BY DEF Appends
  <2> HIDE DEF e, m
  <2>4. log' \in Seq(Entry) /\ minted' \in SUBSET Tension
    BY <2>2, <2>3, AppendProperties DEF Typed
  <2>5. QED
    BY <2>4, PairTypes DEF Bounded
<1>9. ASSUME NEW c \in Asserts, AddFails(c) PROVE Types'
  <2> USE <1>9 DEF AddFails, logVars
  <2>1. faults' \in 0 .. MaxFaults
    BY PositionsAssumption DEF Bounded
  <2>2. QED
    BY <2>1, PairTypes DEF Typed
<1>10. ASSUME NEW c \in Asserts, AddContended(c) PROVE Types'
  <2> USE <1>10 DEF AddContended, writeVars, assertVars, logVars, leaseVars, ruleVars
  <2>1. CASE NextPair(c, FALSE)
    BY <2>1, PairTypes DEF Typed, Bounded
  <2>2. CASE waited' = waited \cup {c} /\ Goes(c, "listing") /\ UNCHANGED assertVars
    <3>1. /\ Placed' /\ pc'[c] = "listing" /\ \A d \in Calls \ {c} : pc'[d] = pc[d]
      BY <2>2, Moves DEF AssertPlaces
    <3>2. Typed'
      BY <2>2 DEF Typed
    <3>3. Bounded'
      BY <2>2, <3>1 DEF Bounded, AtWork
    <3>4. InHand'
      BY <2>2, <3>1 DEF InHand, AtWork
    <3>5. QED
      BY <3>1, <3>2, <3>3, <3>4
  <2>3. QED
    BY <2>1, <2>2
<1>11. ASSUME NEW k \in Consolidations, Weigh(k) PROVE Types'
  <2> USE <1>11 DEF Weigh, writeVars, assertVars, logVars, leaseVars, ruleVars, Goes
  <2>1. Typed'
    <3>1. todo' \in [Resolvers -> Seq(Item)]
      BY BatchTyped DEF Typed
    <3>2. QED
      BY <3>1 DEF Typed
  <2>2. Placed'
    BY DEF Placed, AssertPlaces, ResolvePlaces, AtWork
  <2>3. Bounded'
    BY DEF Placed, AssertPlaces, Bounded, AtWork
  <2>4. InHand'
    BY DEF Placed, AssertPlaces, ResolvePlaces, Typed, InHand, AtWork
  <2>5. QED
    BY <2>1, <2>2, <2>3, <2>4
<1>12. ASSUME NEW k \in Consolidations, WriteConsolidation(k) PROVE Types'
  <2> USE <1>12 DEF WriteConsolidation, writeVars, assertVars, logVars, leaseVars, ruleVars, Goes
  <2>1. Typed'
    BY DEF Typed
  <2>2. Placed'
    BY DEF Placed, AssertPlaces, ResolvePlaces, AtWork
  <2>3. Bounded'
    <3>1. doc'.conf = "ratified"
      BY DEF Integrity, Shape, Consolidated, Fresh
    <3>2. QED
      BY <3>1 DEF Placed, Bounded, AtWork
  <2>4. InHand'
    BY DEF Placed, AssertPlaces, ResolvePlaces, Typed, InHand, AtWork
  <2>5. QED
    BY <2>1, <2>2, <2>3, <2>4
<1>13. ASSUME NEW r \in Rulings, BeginRuling(r) PROVE Types'
  <2> USE <1>13 DEF BeginRuling, writeVars, assertVars, logVars, leaseVars, ruleVars, Goes
  <2>1. Typed'
    <3>1. \A i \in LoggedIds : i \in Nat
      BY EntryTyped DEF LoggedIds, Typed
    <3>2. \A i \in Nat : <<[id |-> i, state |-> "ruled"]>> \in Seq(Item)
      BY DEF Item, Verdicts
    <3>3. todo' \in [Resolvers -> Seq(Item)]
      BY <3>1, <3>2 DEF Typed
    <3>4. QED
      BY <3>3 DEF Typed
  <2>2. Placed'
    BY DEF Placed, AssertPlaces, ResolvePlaces, AtWork
  <2>3. Bounded'
    BY DEF Placed, AssertPlaces, Bounded, AtWork
  <2>4. InHand'
    BY DEF Placed, AssertPlaces, ResolvePlaces, Typed, InHand, AtWork
  <2>5. QED
    BY <2>1, <2>2, <2>3, <2>4
<1>14. ASSUME NEW x \in Resolvers, TakeLease(x) PROVE Types'
  <2> USE <1>14 DEF TakeLease, writeVars, assertVars, logVars, leaseVars, ruleVars, Goes
  <2>1. Typed'
    BY DEF Typed
  <2>2. Placed'
    BY DEF Placed, AssertPlaces, ResolvePlaces, AtWork
  <2>3. Bounded'
    BY DEF Placed, AssertPlaces, Bounded, AtWork
  <2>4. InHand'
    BY DEF Placed, AssertPlaces, ResolvePlaces, Typed, InHand, AtWork
  <2>5. QED
    BY <2>1, <2>2, <2>3, <2>4
<1>15. ASSUME NEW x \in Resolvers, LeaseContended(x) PROVE Types'
  <2> USE <1>15 DEF LeaseContended, writeVars, assertVars, logVars, leaseVars, ruleVars
  <2>1. CASE NextResolution(x)
    <3>1. lease # x
      BY DEF Bounded, AtWork
    <3>2. QED
      BY <2>1, <3>1, ResolutionTypes DEF Typed, Bounded
  <2>2. CASE waited' = waited \cup {x} /\ UNCHANGED <<todo, raw, pc>>
    BY <2>2 DEF Typed, Placed, Bounded, InHand
  <2>3. QED
    BY <2>1, <2>2
<1>16. ASSUME NEW x \in Resolvers, ReadLog(x) PROVE Types'
  <2> USE <1>16 DEF ReadLog, writeVars, assertVars, logVars, leaseVars, ruleVars
  <2>1. CASE NextResolution(x) /\ Release(x)
    BY <2>1, ResolutionTypes DEF Typed, Bounded, AtWork
  <2>2. CASE raw' = [raw EXCEPT ![x] = log] /\ Goes(x, "rewriting") /\ UNCHANGED <<lease, todo, waited>>
    <3>1. /\ Placed' /\ pc'[x] = "rewriting" /\ \A d \in Calls \ {x} : pc'[d] = pc[d]
      BY <2>2, Moves DEF ResolvePlaces, AtWork
    <3>2. Typed'
      BY <2>2 DEF Typed
    <3>3. Bounded'
      BY <2>2, <3>1 DEF Bounded, AtWork
    <3>4. InHand'
      BY <2>2, <3>1 DEF InHand, AtWork
    <3>5. QED
      BY <3>1, <3>2, <3>3, <3>4
  <2>3. QED
    BY <2>1, <2>2
<1>17. ASSUME NEW x \in Resolvers, TruncateLog(x) PROVE Types'
  <2> USE <1>17 DEF TruncateLog, writeVars, assertVars, logVars, leaseVars, ruleVars, Goes
  <2>1. Typed'
    BY DEF Typed
  <2>2. Placed'
    BY DEF Placed, AssertPlaces, ResolvePlaces, AtWork
  <2>3. Bounded'
    BY DEF Placed, AssertPlaces, Bounded, AtWork
  <2>4. InHand'
    BY DEF Placed, AssertPlaces, ResolvePlaces, Typed, InHand, AtWork
  <2>5. QED
    BY <2>1, <2>2, <2>3, <2>4
<1>18. ASSUME NEW x \in Resolvers, RewriteLog(x) PROVE Types'
  <2> USE <1>18 DEF RewriteLog
  <2> DEFINE item == Head(todo[x])
  <2>1. item \in Item
    BY ResolutionStep DEF AtWork
  <2>2. log' \in Seq(Entry)
    BY <2>1, RewriteTyped
  <2>3. QED
    BY <2>1, <2>2, ResolutionTypes DEF AtWork, Typed, Bounded
<1>19. ASSUME NEW x \in Resolvers, RewriteFails(x) PROVE Types'
  <2> USE <1>19 DEF RewriteFails, logVars
  <2>1. faults' \in 0 .. MaxFaults
    BY PositionsAssumption DEF Bounded
  <2>2. QED
    BY <2>1, ResolutionTypes DEF Typed, AtWork
<1>20. CASE Lapse
  <2> USE <1>20 DEF Lapse, writeVars, assertVars, logVars, ruleVars
  <2>1. Typed' /\ Placed' /\ InHand'
    BY DEF Typed, Placed, InHand
  <2>2. Bounded'
    BY PositionsAssumption DEF Bounded
  <2>3. QED
    BY <2>1, <2>2
<1>21. CASE UNCHANGED vars
  BY <1>21 DEF vars, Typed, Placed, Bounded, InHand, writeVars, assertVars, logVars, leaseVars, ruleVars
<1>22. QED
  BY <1>1, <1>2, <1>3, <1>4, <1>5, <1>6, <1>7, <1>8, <1>9, <1>10, <1>11, <1>12, <1>13, <1>14, <1>15, <1>16, <1>17, <1>18, <1>19, <1>20, <1>21 DEF Next

------------------------------------------------------------------------------
(***************************************************************************)
(* The steps that write the log.                                           *)
(***************************************************************************)
\* A rewrite alters one entry, and of that one the state and the signature.
LEMMA RewriteKeeps ==
  ASSUME Types, NEW x \in Resolvers, RewriteLog(x), NEW item, item = Head(todo[x])
  PROVE  /\ DOMAIN log' = DOMAIN raw[x]
         /\ \A n \in DOMAIN log' :
              log'[n].id = raw[x][n].id /\ log'[n].a = raw[x][n].a /\ log'[n].b = raw[x][n].b
         /\ \E h : /\ First(raw[x], item.id) # {} => h \in First(raw[x], item.id)
                   /\ h \in DOMAIN log' => log'[h].state = item.state /\ log'[h].by = x
                   /\ \A n \in DOMAIN log' : n # h => log'[n] = raw[x][n]
<1> DEFINE hit == CHOOSE n \in First(raw[x], item.id) : TRUE
<1>1. raw[x] \in Seq(Entry)
  BY DEF Types, Typed
<1>2. log' = [raw[x] EXCEPT ![hit].state = item.state, ![hit].by = x]
  BY DEF RewriteLog
<1>3. First(raw[x], item.id) # {} => hit \in First(raw[x], item.id)
  OBVIOUS
<1> HIDE DEF hit
<1> DEFINE e == [raw[x][hit] EXCEPT !.state = item.state, !.by = x]
<1>4. DOMAIN raw[x] = 1 .. Len(raw[x]) /\ \A n \in DOMAIN raw[x] : raw[x][n] \in Entry
  BY <1>1, EntryTyped
<1>5. CASE hit \in DOMAIN raw[x]
  <2>1. log' = [raw[x] EXCEPT ![hit] = e]
    BY <1>2, <1>4, <1>5
  <2>2. raw[x][hit] \in Entry
    BY <1>4, <1>5
  <2>3. /\ e.id = raw[x][hit].id /\ e.a = raw[x][hit].a /\ e.b = raw[x][hit].b
        /\ e.state = item.state /\ e.by = x
    BY <2>2 DEF Entry
  <2> HIDE DEF e
  <2>4. /\ DOMAIN log' = DOMAIN raw[x] /\ log'[hit] = e
        /\ \A n \in DOMAIN log' : n # hit => log'[n] = raw[x][n]
    BY <1>4, <1>5, <2>1
  <2>5. QED
    BY <1>3, <2>3, <2>4
<1>6. CASE hit \notin DOMAIN raw[x]
  <2>1. \A f : [raw[x] EXCEPT ![hit] = f] = raw[x]
    BY <1>1, <1>6, ExceptOutside
  <2> DEFINE one == [raw[x] EXCEPT ![hit].state = item.state]
  <2>2. one = raw[x]
    BY <2>1
  <2>3. log' = [one EXCEPT ![hit].by = x]
    BY <1>2
  <2> HIDE DEF one
  <2>4. log' = raw[x]
    BY <2>1, <2>2, <2>3
  <2> HIDE DEF e
  <2>5. QED
    BY <1>3, <1>6, <2>4
<1>7. QED
  BY <1>5, <1>6

\* addTension adds one entry.
LEMMA AppendKeeps ==
  ASSUME Types, Numbered, NEW c \in Asserts, AddTension(c)
  PROVE  \E e : /\ e = [id |-> NextTensionId, a |-> Rival(c), b |-> mine[c], state |-> "open", by |-> c]
                /\ DOMAIN log' = DOMAIN log \cup {Len(log) + 1} /\ Len(log) + 1 \notin DOMAIN log
                /\ log'[Len(log) + 1] = e
                /\ \A n \in DOMAIN log : log'[n] = log[n]
                /\ minted' = minted \cup {[id |-> e.id, a |-> e.a, b |-> e.b]}
                /\ Pairs' = Pairs \cup {<<e.a, e.b>>}
                /\ e.id \in 1 .. Cardinality(Pairs) + 1 /\ \A k \in DOMAIN log : log[k].id < e.id
<1> DEFINE e == [id |-> NextTensionId, a |-> Rival(c), b |-> mine[c], state |-> "open", by |-> c]
<1>1. log' = Append(log, e) /\ minted' = minted \cup {[id |-> e.id, a |-> e.a, b |-> e.b]}
  BY DEF AddTension, Appends
<1>2. e.id = NextTensionId
  OBVIOUS
<1>3. e.id \in 1 .. Cardinality(Pairs) + 1 /\ \A k \in DOMAIN log : log[k].id < e.id
  BY <1>2, FreshId DEF Types
<1>4. e = [id |-> NextTensionId, a |-> Rival(c), b |-> mine[c], state |-> "open", by |-> c]
  OBVIOUS
<1> HIDE DEF e
<1>5. log \in Seq(Entry) /\ Len(log) \in Nat /\ DOMAIN log = 1 .. Len(log)
  BY EntryTyped DEF Types, Typed
<1>6. /\ DOMAIN log' = DOMAIN log \cup {Len(log) + 1} /\ Len(log) + 1 \notin DOMAIN log
      /\ log'[Len(log) + 1] = e
      /\ \A n \in DOMAIN log : log'[n] = log[n]
  <2>1. log \in Seq(Entry \cup {e}) /\ e \in Entry \cup {e}
    BY <1>5, SeqMonotonic
  <2>2. /\ Len(log') = Len(log) + 1 /\ log' \in Seq(Entry \cup {e})
        /\ \A i \in 1 .. Len(log) : log'[i] = log[i]
        /\ log'[Len(log) + 1] = e
    BY <1>1, <2>1, AppendProperties
  <2>3. DOMAIN log' = 1 .. Len(log) + 1
    BY <2>2, LenProperties
  <2>4. QED
    BY <1>5, <2>2, <2>3
<1>7. Pairs' = Pairs \cup {<<e.a, e.b>>}
  <2> DEFINE t == [id |-> e.id, a |-> e.a, b |-> e.b]
  <2>1. t.a = e.a /\ t.b = e.b /\ minted' = minted \cup {t}
    BY <1>1
  <2> HIDE DEF t
  <2>2. QED
    BY <2>1 DEF Pairs
<1>8. QED
  BY <1>1, <1>3, <1>4, <1>6, <1>7

------------------------------------------------------------------------------
(***************************************************************************)
(* Numbering.                                                              *)
(***************************************************************************)
\* Nobody opposes itself.
LEMMA OppositeDiffers ==
  ASSUME NEW s \in Stances
  PROVE  Opposite(s) # s /\ \A t \in Stances : Opposite(t) = s => t = Opposite(s)
BY DEF Stances, Opposite

\* The two steps that write an assert.
LEMMA NumberedWrite ==
  ASSUME Integrity, Types, Numbered, NEW c \in Asserts, WriteAssert(c) \/ LandStaged(c)
  PROVE  Numbered'
<1> DEFINE id == NextPositionId(BasePositions(doc))
<1>1. /\ doc' = Asserted(c, doc) /\ mine' = [mine EXCEPT ![c] = id]
      /\ \/ against' = against
         \/ against' = [against EXCEPT ![c] = Opposing(doc'.pos, ask[c].stance)]
      /\ UNCHANGED <<log, minted, raw>> /\ pc[c] \in {"loaded", "staged"}
  BY DEF WriteAssert, LandStaged, Fresh, logVars, ruleVars
<1>2. /\ id = Total + 1 /\ id \in Nat \ {0} /\ id \notin DOMAIN doc.pos
      /\ UpTo(doc'.pos, id) /\ DOMAIN doc'.pos \subseteq Nat
      /\ doc'.pos[id].stance = ask[c].stance /\ doc'.pos[id].of = c
      /\ \A i \in DOMAIN doc.pos : doc'.pos[i].of = doc.pos[i].of
      /\ \A i \in DOMAIN doc'.pos : i = id \/ i \in DOMAIN doc.pos \/ i = 0
  <2>1. id = NextPositionId(BasePositions(doc)) /\ doc' = Asserted(c, doc)
    BY <1>1
  <2> HIDE DEF id
  <2>2. /\ id = Total + 1 /\ id \in Nat \ {0} /\ id \notin DOMAIN doc.pos
        /\ UpTo(doc'.pos, id) /\ DOMAIN doc'.pos \subseteq Nat
        /\ doc'.pos[id] = [by |-> ask[c].by, stance |-> ask[c].stance, next |-> 0, of |-> c]
        /\ \A i \in DOMAIN doc.pos : doc'.pos[i].of = doc.pos[i].of
        /\ \A i \in DOMAIN doc'.pos \ (DOMAIN doc.pos \cup {id}) : i = 0
    BY <2>1, AssertWrites DEF Types
  <2>3. QED
    BY <2>2
<1> HIDE DEF id
<1>3. mine[c] = 0 /\ ask[c].stance \in Stances /\ mine \in [Asserts -> Nat]
  BY <1>1 DEF Types, InHand, Typed
<1>4. Total \in Nat /\ IsFiniteSet(Written)
  BY Counts DEF Types
<1>5. mine'[c] = id /\ \A d \in Asserts : d # c => mine'[d] = mine[d]
  BY <1>1, <1>3
<1>6. Total' = id
  <2>1. Written' = Written \cup {c} /\ c \notin Written
    BY <1>2, <1>3, <1>5 DEF Written
  <2>2. QED
    BY <1>2, <1>4, <2>1, FS_AddElement DEF Total
<1>7. UpTo(doc.pos, Total)'
  BY <1>2, <1>6
<1>8. (\A d \in Asserts : mine[d] <= Total)'
  BY <1>2, <1>3, <1>4, <1>5, <1>6 DEF Numbered
<1>9. (\A d, e \in Written : mine[d] = mine[e] => d = e)'
  BY <1>2, <1>3, <1>4, <1>5 DEF Numbered, Written
<1>10. (\A j \in DOMAIN doc.pos : j # 0 => doc.pos[j].of \in Asserts /\ mine[doc.pos[j].of] = j)'
  <2> SUFFICES ASSUME NEW j \in DOMAIN doc'.pos, j # 0
               PROVE  doc'.pos[j].of \in Asserts /\ mine'[doc'.pos[j].of] = j
    OBVIOUS
  <2>1. CASE j = id
    BY <1>2, <1>5, <2>1
  <2>2. CASE j # id
    <3>1. j \in DOMAIN doc.pos /\ doc'.pos[j].of = doc.pos[j].of
      BY <1>2, <2>2
    <3>2. doc.pos[j].of \in Asserts /\ mine[doc.pos[j].of] = j
      BY <3>1 DEF Numbered
    <3>3. QED
      BY <1>3, <1>5, <3>1, <3>2
  <2>3. QED
    BY <2>1, <2>2
<1>11. \A m \in minted : m.a < m.b /\ m.b <= Total /\ m.a \in Nat /\ m.b \in Nat
  BY DEF Numbered, Types, Typed, Tension
<1>12. (\A m \in minted : m.a < m.b /\ m.b <= Total)'
  BY <1>1, <1>2, <1>4, <1>6, <1>11
<1>13. Pairs' = Pairs /\ \A p \in Pairs : p[2] <= Total
  BY <1>1, <1>11 DEF Pairs
<1>14. (\A d \in Asserts : \A i \in against[d] : i < mine[d] /\ <<i, mine[d]>> \notin Pairs)'
  <2> SUFFICES ASSUME NEW d \in Asserts, NEW i \in against'[d]
               PROVE  i < mine'[d] /\ <<i, mine'[d]>> \notin Pairs
    BY <1>13
  <2>1. CASE i \in against[d]
    <3>1. i \in Nat /\ i < mine[d] /\ <<i, mine[d]>> \notin Pairs
      BY <2>1 DEF Numbered, Types, Typed
    <3>2. d # c
      BY <1>3, <3>1
    <3>3. QED
      BY <1>5, <3>1, <3>2
  <2>2. CASE i \notin against[d]
    <3>1. d = c /\ i \in Opposing(doc'.pos, ask[c].stance)
      BY <1>1, <2>2 DEF Types, Typed
    <3>2. i \in DOMAIN doc'.pos /\ doc'.pos[i].stance = Opposite(ask[c].stance)
      BY <3>1 DEF Opposing, LiveWith, Live
    <3>3. i # id
      BY <1>2, <1>3, <3>2, OppositeDiffers
    <3>4. i < id
      BY <1>2, <3>2, <3>3 DEF UpTo
    <3>5. <<i, id>> \notin Pairs
      BY <1>2, <1>4, <1>13
    <3>6. QED
      BY <1>5, <3>1, <3>4, <3>5
  <2>3. QED
    BY <2>1, <2>2
<1>15. (Numbers(log) /\ \A x \in Resolvers : Numbers(raw[x]))'
  BY <1>1, <1>13 DEF Numbered, Numbers
<1>16. QED
  BY <1>7, <1>8, <1>9, <1>10, <1>12, <1>14, <1>15 DEF Numbered

LEMMA NumberedAdd ==
  ASSUME Types, Numbered, NEW c \in Asserts, AddTension(c)
  PROVE  Numbered'
<1>1. PICK e : /\ e = [id |-> NextTensionId, a |-> Rival(c), b |-> mine[c], state |-> "open", by |-> c]
               /\ DOMAIN log' = DOMAIN log \cup {Len(log) + 1} /\ Len(log) + 1 \notin DOMAIN log
               /\ log'[Len(log) + 1] = e
               /\ \A n \in DOMAIN log : log'[n] = log[n]
               /\ minted' = minted \cup {[id |-> e.id, a |-> e.a, b |-> e.b]}
               /\ Pairs' = Pairs \cup {<<e.a, e.b>>}
               /\ e.id \in 1 .. Cardinality(Pairs) + 1
  BY AppendKeeps
<1>2. /\ Rival(c) \in against[c] /\ UNCHANGED <<mine, doc, raw>>
      /\ against' = [against EXCEPT ![c] = @ \ {Rival(c)}]
  BY PairStep DEF AddTension, writeVars, ruleVars
<1>3. /\ e.a \in Nat /\ e.b \in Nat /\ e.a < e.b /\ e.b <= Total /\ <<e.a, e.b>> \notin Pairs
      /\ e.a = Rival(c) /\ e.b = mine[c]
  BY <1>1, <1>2 DEF Numbered, Types, Typed
<1>4. Written' = Written /\ Total' = Total /\ Total \in Nat
  BY <1>2, Counts DEF Written, Total, Types
<1>5. Cardinality(Pairs') = Cardinality(Pairs) + 1 /\ Cardinality(Pairs) \in Nat
  BY <1>1, <1>3, Counts, FS_AddElement DEF Types
<1>6. (\A m \in minted : m.a < m.b /\ m.b <= Total)'
  BY <1>1, <1>3, <1>4 DEF Numbered
<1>7. (\A d \in Asserts : \A i \in against[d] : i < mine[d] /\ <<i, mine[d]>> \notin Pairs)'
  <2> SUFFICES ASSUME NEW d \in Asserts, NEW i \in against'[d]
               PROVE  i < mine[d] /\ <<i, mine[d]>> \notin Pairs \cup {<<e.a, e.b>>}
    BY <1>1, <1>2
  <2>1. i \in against[d] /\ (d = c => i # e.a)
    BY <1>2, <1>3 DEF Types, Typed
  <2>2. i \in Nat /\ i < mine[d] /\ <<i, mine[d]>> \notin Pairs
    BY <2>1 DEF Numbered, Types, Typed
  <2>3. mine[d] = mine[c] => d = c
    <3>1. mine[c] # 0
      BY <1>3
    <3>2. QED
      BY <3>1 DEF Numbered, Written
  <2>4. QED
    BY <1>3, <2>1, <2>2, <2>3
<1>8. Numbers(log)' /\ \A x \in Resolvers : Numbers(raw[x])'
  <2>1. 1 .. Cardinality(Pairs) \subseteq 1 .. Cardinality(Pairs')
        /\ 1 .. Cardinality(Pairs) + 1 = 1 .. Cardinality(Pairs')
    BY <1>5
  <2>2. QED
    BY <1>1, <1>2, <2>1 DEF Numbered, Numbers
<1>9. QED
  BY <1>2, <1>4, <1>6, <1>7, <1>8 DEF Numbered

\* A step that moves, reads or empties logs.
LEMMA NumberedKept ==
  ASSUME Types, Numbered, doc'.pos = doc.pos, UNCHANGED <<mine, minted>>,
         \A c \in Asserts : against'[c] \subseteq against[c],
         Numbers(log'), \A x \in Resolvers : raw'[x] \in {raw[x], log, <<>>}
  PROVE  Numbered'
<1>1. Pairs' = Pairs /\ Written' = Written /\ Total' = Total
  BY DEF Pairs, Written, Total
<1>2. Numbers(log)'
  BY <1>1 DEF Numbers
<1>3. (\A x \in Resolvers : Numbers(raw[x]))'
  BY <1>1 DEF Numbers, Numbered
<1>4. QED
  BY <1>1, <1>2, <1>3 DEF Numbered, UpTo

LEMMA NumberedStep ==
  ASSUME Integrity, Types, Numbered, [Next]_vars
  PROVE  Numbered'
<1> USE Sorts
<1>1. /\ Numbers(log) /\ \A x \in Resolvers : raw[x] \in Seq(Entry)
      /\ raw \in [Resolvers -> Seq(Entry)] /\ against \in [Asserts -> SUBSET Nat]
  BY DEF Numbered, Types, Typed
<1>2. CASE \E c \in Asserts \cup Consolidations : Load(c) \/ Stale(c) \/ Refuse(c)
  BY <1>1, <1>2, NumberedKept DEF Load, Stale, Refuse, writeVars, assertVars, logVars, ruleVars
<1>3. CASE \E c \in Asserts : WriteAssert(c) \/ LandStaged(c)
  BY <1>3, NumberedWrite
<1>4. CASE \E c \in Asserts : AddTension(c)
  BY <1>4, NumberedAdd
<1>5. CASE \E c \in Asserts : StageAssert(c)
  BY <1>1, <1>5, NumberedKept DEF StageAssert, writeVars, assertVars, logVars, ruleVars
<1>6. CASE \E c \in Asserts : ListForPair(c) \/ AddFails(c) \/ AddContended(c)
  <2>1. PICK c \in Asserts : ListForPair(c) \/ AddFails(c) \/ AddContended(c)
    BY <1>6
  <2>2. pc[c] \in {"listing", "adding"} /\ UNCHANGED <<doc, minted, log, raw>>
    BY <2>1 DEF ListForPair, AddFails, AddContended, writeVars, logVars, ruleVars
  <2>3. mine' = mine /\ \A d \in Asserts : against'[d] \subseteq against[d]
    <3>1. CASE NextPair(c, TRUE) \/ NextPair(c, FALSE)
      <4>1. mine' = mine /\ against' = [against EXCEPT ![c] = @ \ {Rival(c)}]
        BY <3>1 DEF NextPair
      <4>2. QED
        BY <1>1, <4>1
    <3>2. CASE UNCHANGED assertVars
      BY <3>2 DEF assertVars
    <3>3. QED
      BY <2>1, <3>1, <3>2 DEF ListForPair, AddFails, AddContended
  <2>4. QED
    BY <1>1, <2>2, <2>3, NumberedKept
<1>7. CASE \E k \in Consolidations : Weigh(k)
  BY <1>1, <1>7, NumberedKept DEF Weigh, writeVars, assertVars, logVars
<1>8. CASE \E k \in Consolidations : WriteConsolidation(k)
  <2>1. doc'.pos = doc.pos
    BY <1>8, ConsolidateStep DEF WriteConsolidation, Fresh
  <2>2. QED
    BY <1>1, <1>8, <2>1, NumberedKept DEF WriteConsolidation, assertVars, logVars, ruleVars
<1>9. CASE \E r \in Rulings : BeginRuling(r)
  BY <1>1, <1>9, NumberedKept DEF BeginRuling, writeVars, assertVars, logVars
<1>10. CASE \E x \in Resolvers : TakeLease(x)
  BY <1>1, <1>10, NumberedKept DEF TakeLease, writeVars, assertVars, logVars, ruleVars
<1>11. CASE \E x \in Resolvers : LeaseContended(x) \/ ReadLog(x) \/ RewriteFails(x)
  <2>1. PICK x \in Resolvers : LeaseContended(x) \/ ReadLog(x) \/ RewriteFails(x)
    BY <1>11
  <2>2. UNCHANGED <<doc, minted, log, mine, against>>
    BY <2>1 DEF LeaseContended, ReadLog, RewriteFails, writeVars, logVars, assertVars
  <2>3. raw' \in {raw, [raw EXCEPT ![x] = log], [raw EXCEPT ![x] = <<>>]}
    BY <2>1 DEF LeaseContended, ReadLog, RewriteFails, NextResolution
  <2>4. \A y \in Resolvers : raw'[y] \in {raw[y], log, <<>>}
    BY <1>1, <2>3
  <2>5. QED
    BY <1>1, <2>2, <2>4, NumberedKept
<1>12. CASE \E x \in Resolvers : TruncateLog(x)
  <2>1. log' = <<>> /\ UNCHANGED <<doc, minted, mine, against, raw>>
    BY <1>12 DEF TruncateLog, writeVars, assertVars, ruleVars
  <2>2. Numbers(log')
    BY <2>1 DEF Numbers
  <2>3. QED
    BY <1>1, <2>1, <2>2, NumberedKept
<1>13. CASE \E x \in Resolvers : RewriteLog(x)
  <2>1. PICK x \in Resolvers : RewriteLog(x)
    BY <1>13
  <2>2. UNCHANGED <<doc, minted, mine, against>> /\ raw' = [raw EXCEPT ![x] = <<>>]
    BY <2>1 DEF RewriteLog, NextResolution, writeVars, assertVars
  <2>3. Numbers(log')
    BY <2>1, RewriteKeeps DEF Numbered, Numbers
  <2>4. \A y \in Resolvers : raw'[y] \in {raw[y], log, <<>>}
    BY <1>1, <2>2
  <2>5. QED
    BY <1>1, <2>2, <2>3, <2>4, NumberedKept
<1>14. CASE Lapse
  BY <1>1, <1>14, NumberedKept DEF Lapse, writeVars, assertVars, logVars, ruleVars
<1>15. CASE UNCHANGED vars
  BY <1>1, <1>15, NumberedKept DEF vars, writeVars, assertVars, logVars, ruleVars
<1>16. QED
  BY <1>2, <1>3, <1>4, <1>5, <1>6, <1>7, <1>8, <1>9, <1>10, <1>11, <1>12, <1>13, <1>14, <1>15 DEF Next

------------------------------------------------------------------------------
(***************************************************************************)
(* The log stays whole.                                                    *)
(***************************************************************************)
LEMMA RewriteWhole ==
  ASSUME Types, NEW x \in Resolvers, RewriteLog(x), Whole(raw[x]), Target(x) # {}
  PROVE  Whole(log)'
<1>1. PICK item \in Item : item = Head(todo[x])
  BY ResolutionStep DEF RewriteLog, AtWork
<1>2. PICK h : /\ DOMAIN log' = DOMAIN raw[x]
               /\ \A n \in DOMAIN log' : /\ log'[n].id = raw[x][n].id
                                         /\ log'[n].a = raw[x][n].a /\ log'[n].b = raw[x][n].b
               /\ First(raw[x], item.id) # {} => h \in First(raw[x], item.id)
               /\ h \in DOMAIN log' => log'[h].state = item.state
               /\ \A n \in DOMAIN log' : n # h => log'[n] = raw[x][n]
  BY <1>1, RewriteKeeps
<1>3. h \in DOMAIN raw[x] /\ raw[x][h].id = item.id
  BY <1>1, <1>2 DEF Target, First
<1>4. raw[x][h].state = "open"
  <2>1. PICK n \in Target(x) : TRUE
    OBVIOUS
  <2>2. /\ n \in DOMAIN raw[x] /\ raw[x][n].id = item.id /\ raw[x][n].state = "open"
    BY <1>1, <2>1 DEF Target, First, Open
  <2>3. n = h
    BY <1>3, <2>2 DEF Whole
  <2>4. QED
    BY <2>2, <2>3
<1>5. minted' = minted /\ ruled' = ruled \cup {item}
  BY <1>1 DEF RewriteLog
<1>6. (\A m \in minted : \E k \in DOMAIN log : log[k].id = m.id /\ log[k].a = m.a /\ log[k].b = m.b)'
  <2> SUFFICES ASSUME NEW m \in minted
               PROVE  \E k \in DOMAIN log' : log'[k].id = m.id /\ log'[k].a = m.a /\ log'[k].b = m.b
    BY <1>5
  <2>1. PICK k \in DOMAIN raw[x] : raw[x][k].id = m.id /\ raw[x][k].a = m.a /\ raw[x][k].b = m.b
    BY DEF Whole
  <2>2. QED
    BY <1>2, <2>1
<1>7. (\A j, k \in DOMAIN log : log[j].id = log[k].id => j = k)'
  BY <1>2 DEF Whole
<1>8. (\A r \in ruled : \E k \in DOMAIN log : log[k].id = r.id /\ log[k].state = r.state)'
  <2> SUFFICES ASSUME NEW r \in ruled \cup {item}
               PROVE  \E k \in DOMAIN log' : log'[k].id = r.id /\ log'[k].state = r.state
    BY <1>5
  <2>1. CASE r = item
    BY <1>2, <1>3, <2>1
  <2>2. CASE r \in ruled
    <3>1. PICK k \in DOMAIN raw[x] : raw[x][k].id = r.id /\ raw[x][k].state = r.state
      BY <2>2 DEF Whole
    <3>2. r.state # "open"
      BY <2>2 DEF Types, Typed, Item, Verdicts
    <3>3. log'[k] = raw[x][k]
      BY <1>2, <1>4, <3>1, <3>2
    <3>4. QED
      BY <1>2, <3>1, <3>3
  <2>3. QED
    BY <2>1, <2>2
<1>9. QED
  BY <1>6, <1>7, <1>8 DEF Whole

LEMMA AddWhole ==
  ASSUME Types, Numbered, NEW c \in Asserts, AddTension(c), Whole(log)
  PROVE  Whole(log)'
<1>1. PICK e : /\ DOMAIN log' = DOMAIN log \cup {Len(log) + 1} /\ Len(log) + 1 \notin DOMAIN log
               /\ log'[Len(log) + 1] = e
               /\ \A n \in DOMAIN log : log'[n] = log[n]
               /\ minted' = minted \cup {[id |-> e.id, a |-> e.a, b |-> e.b]}
               /\ \A k \in DOMAIN log : log[k].id < e.id
               /\ e.id \in Nat
  <2>1. Cardinality(Pairs) \in Nat
    BY Counts DEF Types
  <2>2. 1 .. Cardinality(Pairs) + 1 \subseteq Nat
    BY <2>1
  <2>3. QED
    BY <2>2, AppendKeeps
<1> DEFINE t == [id |-> e.id, a |-> e.a, b |-> e.b]
<1>2. t.id = e.id /\ t.a = e.a /\ t.b = e.b /\ minted' = minted \cup {t}
  BY <1>1
<1> HIDE DEF t
<1>3. ruled' = ruled
  BY DEF AddTension, ruleVars
<1>4. \A k \in DOMAIN log : log[k].id \in Nat
  BY EntryTyped DEF Types, Typed
<1>5. (\A m \in minted : \E k \in DOMAIN log : log[k].id = m.id /\ log[k].a = m.a /\ log[k].b = m.b)'
  BY <1>1, <1>2 DEF Whole
<1>6. (\A j, k \in DOMAIN log : log[j].id = log[k].id => j = k)'
  BY <1>1, <1>4 DEF Whole
<1>7. (\A r \in ruled : \E k \in DOMAIN log : log[k].id = r.id /\ log[k].state = r.state)'
  BY <1>1, <1>3 DEF Whole
<1>8. QED
  BY <1>5, <1>6, <1>7 DEF Whole

\* A step that does not touch the log, nor the hands of the one that has emptied it.
LEMMA LedgerKept ==
  ASSUME Ledger, UNCHANGED <<log, minted, ruled, damaged>>,
         \A x \in Resolvers :
           \/ /\ pc'[x] = pc[x] /\ raw'[x] = raw[x] /\ todo'[x] = todo[x]
              /\ lease' = x <=> lease = x
           \/ pc'[x] \notin {"rewriting", "truncated"} /\ pc[x] # "truncated"
  PROVE  Ledger'
<1> SUFFICES ASSUME ~ damaged
             PROVE  /\ (\A x \in Resolvers : pc'[x] # "truncated") => Whole(log)'
                    /\ \A x \in Resolvers : pc'[x] = "rewriting" /\ lease' = x => raw'[x] = log' /\ Target(x)' # {}
                    /\ \A x \in Resolvers : pc'[x] = "truncated" => lease' = x /\ Whole(raw[x])' /\ Target(x)' # {}
  BY DEF Ledger
<1>1. \A x \in Resolvers : pc'[x] = "truncated" <=> pc[x] = "truncated"
  OBVIOUS
<1>2. (\A x \in Resolvers : pc'[x] # "truncated") => Whole(log)'
  BY <1>1 DEF Ledger, Whole
<1>3. ASSUME NEW x \in Resolvers, pc'[x] = "rewriting", lease' = x
      PROVE  raw'[x] = log' /\ Target(x)' # {}
  BY <1>3 DEF Ledger, Target
<1>4. ASSUME NEW x \in Resolvers, pc'[x] = "truncated"
      PROVE  lease' = x /\ Whole(raw[x])' /\ Target(x)' # {}
  BY <1>4 DEF Ledger, Target, Whole
<1>5. QED
  BY <1>2, <1>3, <1>4

LEMMA LedgerStep ==
  ASSUME Types, Numbered, Ledger, [Next]_vars
  PROVE  Ledger'
<1> USE Sorts
<1>1. /\ pc \in [Calls -> AssertPlaces \cup ResolvePlaces]
      /\ todo \in [Resolvers -> Seq(Item)] /\ raw \in [Resolvers -> Seq(Entry)]
      /\ lease \in Resolvers \cup {Free} /\ lease # Free => pc[lease] \in AtWork
      /\ damaged \in BOOLEAN
  BY DEF Types, Typed, Placed, Bounded
<1>2. CASE \E c \in Asserts : \/ WriteAssert(c) \/ StageAssert(c) \/ LandStaged(c)
                              \/ ListForPair(c) \/ AddFails(c) \/ AddContended(c)
  <2>1. PICK c \in Asserts : \/ WriteAssert(c) \/ StageAssert(c) \/ LandStaged(c)
                             \/ ListForPair(c) \/ AddFails(c) \/ AddContended(c)
    BY <1>2
  <2>2. UNCHANGED <<log, minted, ruled, damaged, lease, raw, todo>>
    BY <2>1 DEF WriteAssert, StageAssert, LandStaged, ListForPair, AddFails, AddContended,
                logVars, leaseVars, ruleVars
  <2>3. \E p : pc' = [pc EXCEPT ![c] = p]
    BY <2>1 DEF WriteAssert, StageAssert, LandStaged, ListForPair, AddFails, AddContended,
                NextPair, Goes
  <2>4. \A x \in Resolvers : pc'[x] = pc[x]
    BY <1>1, <2>3
  <2>5. QED
    BY <2>2, <2>4, LedgerKept
<1>3. CASE \E c \in Asserts \cup Consolidations : Load(c) \/ Stale(c) \/ Refuse(c)
  <2>1. PICK c \in Asserts \cup Consolidations : Load(c) \/ Stale(c) \/ Refuse(c)
    BY <1>3
  <2>2. UNCHANGED <<log, minted, ruled, damaged, lease, raw, todo>>
    BY <2>1 DEF Load, Stale, Refuse, logVars, leaseVars, ruleVars
  <2>3. /\ pc[c] \in {"idle", "loaded", "weighed"}
        /\ \E p \in {"loaded", "idle", "failed"} : pc' = [pc EXCEPT ![c] = p]
    BY <2>1 DEF Load, Stale, Refuse, Composed, Goes
  <2>4. pc'[c] \in {"loaded", "idle", "failed"} /\ \A x \in Resolvers : x # c => pc'[x] = pc[x]
    BY <1>1, <2>3
  <2>5. QED
    BY <2>2, <2>3, <2>4, LedgerKept
<1>4. CASE \E k \in Resolvers : \/ k \in Consolidations /\ (Weigh(k) \/ WriteConsolidation(k))
                                \/ k \in Rulings /\ BeginRuling(k)
  <2>1. PICK k \in Resolvers : \/ k \in Consolidations /\ (Weigh(k) \/ WriteConsolidation(k))
                               \/ k \in Rulings /\ BeginRuling(k)
    BY <1>4
  <2>2. UNCHANGED <<log, minted, ruled, damaged, lease, raw>>
    BY <2>1 DEF Weigh, WriteConsolidation, BeginRuling, logVars, leaseVars, ruleVars
  <2>3. /\ pc[k] \in {"idle", "loaded", "weighed"}
        /\ \E p \in {"weighed", "resolving", "done", "failed"} : pc' = [pc EXCEPT ![k] = p]
        /\ \E t : todo' = [todo EXCEPT ![k] = t] \/ todo' = todo
    BY <2>1 DEF Weigh, WriteConsolidation, BeginRuling, Goes, ruleVars
  <2>4. /\ pc'[k] \in {"weighed", "resolving", "done", "failed"}
        /\ \A x \in Resolvers : x # k => pc'[x] = pc[x] /\ todo'[x] = todo[x]
    BY <1>1, <2>3
  <2>5. QED
    BY <2>2, <2>3, <2>4, LedgerKept
<1>5. CASE \E c \in Asserts : AddTension(c)
  <2>1. PICK c \in Asserts : AddTension(c)
    BY <1>5
  <2>2. /\ UNCHANGED <<damaged, lease, raw, todo>> /\ lease = Free
        /\ \E p : pc' = [pc EXCEPT ![c] = p]
    BY <2>1 DEF AddTension, leaseVars, ruleVars, NextPair, Goes
  <2>3. \A x \in Resolvers : pc'[x] = pc[x] /\ x # Free
    BY <1>1, <2>2
  <2>4. Whole(log) => Whole(log)'
    BY <2>1, AddWhole
  <2>5. QED
    BY <2>2, <2>3, <2>4 DEF Ledger
<1>6. CASE \E x \in Resolvers : TakeLease(x)
  <2>1. PICK x \in Resolvers : TakeLease(x)
    BY <1>6
  <2>2. /\ UNCHANGED <<log, minted, ruled, damaged, raw, todo>> /\ lease = Free /\ lease' = x
        /\ pc[x] = "resolving" /\ pc' = [pc EXCEPT ![x] = "reading"]
    BY <2>1 DEF TakeLease, logVars, ruleVars, Goes
  <2>3. pc'[x] = "reading" /\ \A y \in Resolvers : y # x => pc'[y] = pc[y]
    BY <1>1, <2>2
  <2>4. \A y \in Resolvers : y # x => (lease' = y <=> lease = y)
    BY <2>2
  <2>5. QED
    BY <2>2, <2>3, <2>4, LedgerKept
<1>7. CASE \E x \in Resolvers : LeaseContended(x)
  <2>1. PICK x \in Resolvers : LeaseContended(x)
    BY <1>7
  <2>2. UNCHANGED <<log, minted, ruled, damaged, lease>> /\ pc[x] = "resolving"
    BY <2>1 DEF LeaseContended, logVars, leaseVars
  <2>3. CASE NextResolution(x)
    <3>1. /\ pc'[x] \notin {"rewriting", "truncated"}
          /\ \A y \in Resolvers : y # x => pc'[y] = pc[y] /\ raw'[y] = raw[y] /\ todo'[y] = todo[y]
      BY <1>1, <2>3 DEF NextResolution, Goes
    <3>2. QED
      BY <2>2, <3>1, LedgerKept
  <2>4. CASE UNCHANGED <<todo, raw, pc>>
    BY <2>2, <2>4, LedgerKept
  <2>5. QED
    BY <2>1, <2>3, <2>4 DEF LeaseContended
<1>8. CASE \E x \in Resolvers : ReadLog(x)
  <2>1. PICK x \in Resolvers : ReadLog(x)
    BY <1>8
  <2>2. UNCHANGED <<log, minted, ruled, damaged>> /\ pc[x] = "reading"
    BY <2>1 DEF ReadLog, logVars
  <2>3. CASE NextResolution(x) /\ Release(x)
    <3>1. /\ pc'[x] \notin {"rewriting", "truncated"}
          /\ \A y \in Resolvers : y # x => pc'[y] = pc[y] /\ raw'[y] = raw[y] /\ todo'[y] = todo[y]
      BY <1>1, <2>3 DEF NextResolution, Goes
    <3>2. \A y \in Resolvers : y # x => (lease' = y <=> lease = y)
      BY <2>3 DEF Release
    <3>3. QED
      BY <2>2, <3>1, <3>2, LedgerKept
  <2>4. CASE /\ Resolvable(Head(todo[x]).id)
             /\ raw' = [raw EXCEPT ![x] = log] /\ Goes(x, "rewriting") /\ UNCHANGED <<lease, todo, waited>>
    <3>1. /\ pc'[x] = "rewriting" /\ raw'[x] = log
          /\ \A y \in Resolvers : y # x => pc'[y] = pc[y] /\ raw'[y] = raw[y]
      BY <1>1, <2>4 DEF Goes
    <3>2. Target(x)' # {}
      BY <2>2, <2>4, <3>1 DEF Target, Resolvable, First, Open
    <3>3. Whole(log)' <=> Whole(log)
      BY <2>2 DEF Whole
    <3>4. \A y \in Resolvers : y # x => (Target(y)' = Target(y) /\ (Whole(raw[y])' <=> Whole(raw[y])))
      BY <2>2, <2>4, <3>1 DEF Target, Whole
    <3>5. QED
      BY <2>2, <2>4, <3>1, <3>2, <3>3, <3>4 DEF Ledger
  <2>5. QED
    BY <2>1, <2>3, <2>4 DEF ReadLog
<1>9. CASE \E x \in Resolvers : TruncateLog(x)
  <2>1. PICK x \in Resolvers : TruncateLog(x)
    BY <1>9
  <2>2. /\ UNCHANGED <<minted, ruled, lease, raw, todo>> /\ pc[x] = "rewriting"
        /\ pc' = [pc EXCEPT ![x] = "truncated"]
        /\ damaged' = (damaged \/ lease # x)
    BY <2>1 DEF TruncateLog, leaseVars, ruleVars, Goes
  <2>3. pc'[x] = "truncated" /\ \A y \in Resolvers : y # x => pc'[y] = pc[y]
    BY <1>1, <2>2
  <2> SUFFICES ASSUME ~ damaged' PROVE Ledger'
    BY DEF Ledger
  <2>4. ~ damaged /\ lease = x
    BY <2>2
  <2>5. \A y \in Resolvers : y # x => pc[y] # "truncated" /\ lease # y
    BY <2>4 DEF Ledger
  <2>6. Whole(raw[x]) /\ Target(x) # {}
    BY <2>2, <2>4, <2>5 DEF Ledger
  <2>7. Whole(raw[x])' /\ Target(x)' # {}
    BY <2>2, <2>6 DEF Whole, Target
  <2>8. QED
    BY <2>2, <2>3, <2>4, <2>5, <2>7 DEF Ledger
<1>10. CASE \E x \in Resolvers : RewriteLog(x)
  <2>1. PICK x \in Resolvers : RewriteLog(x)
    BY <1>10
  <2>2. /\ pc[x] = "truncated" /\ Release(x) /\ NextResolution(x)
        /\ damaged' = (damaged \/ lease # x)
    BY <2>1 DEF RewriteLog
  <2>3. pc'[x] # "truncated" /\ \A y \in Resolvers : y # x => pc'[y] = pc[y]
    BY <1>1, <2>2 DEF NextResolution, Goes
  <2> SUFFICES ASSUME ~ damaged' PROVE Ledger'
    BY DEF Ledger
  <2>4. ~ damaged /\ lease = x /\ lease' = Free
    BY <2>2 DEF Release
  <2>5. \A y \in Resolvers : y # x => pc[y] # "truncated"
    BY <2>4 DEF Ledger
  <2>6. Whole(raw[x]) /\ Target(x) # {}
    BY <2>2, <2>4 DEF Ledger
  <2>7. Whole(log)'
    BY <2>1, <2>6, RewriteWhole
  <2>8. \A y \in Resolvers : pc'[y] # "truncated" /\ lease' # y
    BY <2>3, <2>4, <2>5
  <2>9. QED
    BY <2>7, <2>8 DEF Ledger
<1>11. CASE \E x \in Resolvers : RewriteFails(x)
  BY <1>11 DEF RewriteFails, Ledger
<1>12. CASE Lapse
  <2> SUFFICES ASSUME ~ damaged' PROVE Ledger'
    BY DEF Ledger
  <2>1. /\ UNCHANGED <<log, minted, ruled, raw, todo, pc>> /\ lease # Free /\ lease' = Free
        /\ damaged' = (damaged \/ pc[lease] = "truncated")
    BY <1>12 DEF Lapse, logVars, ruleVars
  <2>2. ~ damaged /\ pc[lease] # "truncated"
    BY <2>1
  <2>3. \A y \in Resolvers : pc[y] # "truncated" /\ lease' # y
    BY <2>1, <2>2 DEF Ledger
  <2>4. Whole(log)'
    BY <2>1, <2>2, <2>3 DEF Ledger, Whole
  <2>5. QED
    BY <2>1, <2>3, <2>4 DEF Ledger
<1>13. CASE UNCHANGED vars
  <2>1. UNCHANGED <<log, minted, ruled, damaged, lease, raw, todo, pc>>
    BY <1>13 DEF vars, logVars, leaseVars, ruleVars
  <2>2. QED
    BY <2>1, LedgerKept
<1>14. QED
  BY <1>2, <1>3, <1>4, <1>5, <1>6, <1>7, <1>8, <1>9, <1>10, <1>11, <1>12, <1>13 DEF Next

------------------------------------------------------------------------------
(***************************************************************************)
(* An assert owes no more than it has said.                                *)
(***************************************************************************)
Heard == {"listing", "adding", "done"}

\* A step that is not an assert's write.
LEMMA OwingKept ==
  ASSUME Owing, mine' = mine, doc'.pos = doc.pos,
         minted \subseteq minted', unlogged \subseteq unlogged',
         Minted(log)', \A x \in Resolvers : Minted(raw[x])',
         \A c \in Asserts : pc'[c] \in Heard =>
           /\ pc[c] \in Heard
           /\ \A i \in against[c] : i \in against'[c] \/ c \in unlogged' \/ <<i, mine[c]>> \in Pairs'
  PROVE  Owing'
<1>1. Pairs \subseteq Pairs'
  BY DEF Pairs
<1>2. Live(doc.pos)' = Live(doc.pos)
  BY DEF Live
<1>3. \A i, j : Conflict(i, j)' <=> Conflict(i, j)
  BY DEF Conflict
<1>4. ASSUME NEW c \in Asserts, pc'[c] \in Heard
      PROVE  /\ mine'[c] \in DOMAIN doc'.pos
             /\ \A i \in Live(doc.pos)' : Conflict(i, mine[c])' =>
                  i \in against'[c] \/ c \in unlogged' \/ <<i, mine'[c]>> \in Pairs'
  <2>1. pc[c] \in Heard
    BY <1>4
  <2>2. /\ mine[c] \in DOMAIN doc.pos
        /\ \A i \in Live(doc.pos) : Conflict(i, mine[c]) =>
             i \in against[c] \/ c \in unlogged \/ <<i, mine[c]>> \in Pairs
    BY <2>1 DEF Owing, Heard
  <2> SUFFICES ASSUME NEW i \in Live(doc.pos)', Conflict(i, mine[c])'
               PROVE  i \in against'[c] \/ c \in unlogged' \/ <<i, mine'[c]>> \in Pairs'
    BY <2>2
  <2>3. i \in Live(doc.pos) /\ Conflict(i, mine[c])
    BY <1>2, <1>3
  <2>4. i \in against[c] \/ c \in unlogged \/ <<i, mine[c]>> \in Pairs
    BY <2>2, <2>3
  <2>5. QED
    BY <1>1, <1>4, <2>4
<1>5. QED
  BY <1>4 DEF Owing, Heard

\* The steps that write the text of an assert.
LEMMA OwingWrite ==
  ASSUME Integrity, Types, Numbered, Owing, NEW c \in Asserts, WriteAssert(c) \/ LandStaged(c)
  PROVE  Owing'
<1> DEFINE id == NextPositionId(BasePositions(doc))
           conflicts == Opposing(doc'.pos, ask[c].stance)
<1>1. /\ doc' = Asserted(c, doc) /\ mine' = [mine EXCEPT ![c] = id]
      /\ \/ /\ against' = [against EXCEPT ![c] = conflicts]
            /\ Goes(c, IF conflicts = {} THEN "done" ELSE "listing")
         \/ against' = against /\ (Goes(c, "failed") \/ Goes(c, "landed"))
      /\ UNCHANGED <<log, minted, raw, unlogged>> /\ pc[c] \in {"loaded", "staged"}
  BY DEF WriteAssert, LandStaged, Fresh, logVars, ruleVars
<1>2. id = NextPositionId(BasePositions(doc))
  OBVIOUS
<1> HIDE DEF id
<1>3. /\ id = Total + 1 /\ id \notin DOMAIN doc.pos /\ id \in DOMAIN doc'.pos
      /\ DOMAIN doc.pos \subseteq DOMAIN doc'.pos
      /\ doc'.pos[id] = [by |-> ask[c].by, stance |-> ask[c].stance, next |-> 0, of |-> c]
      /\ \A i \in DOMAIN doc.pos :
           /\ doc'.pos[i].stance = doc.pos[i].stance
           /\ doc'.pos[i].next = doc.pos[i].next \/ (doc.pos[i].next = 0 /\ doc'.pos[i].next = id)
      /\ \A i \in DOMAIN doc'.pos \ (DOMAIN doc.pos \cup {id}) : DOMAIN doc.pos = {}
      /\ DOMAIN doc'.pos \subseteq Nat
  BY <1>1, <1>2, AssertWrites DEF Types
<1>4. Pairs' = Pairs /\ Minted(log)' /\ \A x \in Resolvers : Minted(raw[x])'
  BY <1>1 DEF Pairs, Minted, Owing
<1>5. /\ mine \in [Asserts -> Nat] /\ against \in [Asserts -> SUBSET Nat]
      /\ pc \in [Calls -> AssertPlaces \cup ResolvePlaces] /\ ask[c].stance \in Stances
  BY <1>1 DEF Types, Typed, Placed, InHand
<1>6. ASSUME NEW d \in Asserts, pc'[d] \in Heard
      PROVE  /\ mine'[d] \in DOMAIN doc'.pos
             /\ \A i \in Live(doc.pos)' : Conflict(i, mine[d])' =>
                  i \in against'[d] \/ d \in unlogged' \/ <<i, mine'[d]>> \in Pairs'
  <2>1. CASE d = c
    <3>1. pc'[c] \notin {"failed", "landed"}
      BY <1>6, <2>1 DEF Heard
    <3>2. against'[c] = conflicts /\ mine'[c] = id
      BY <1>1, <1>5, <3>1, Sorts DEF Goes
    <3>3. ASSUME NEW i \in Live(doc'.pos), doc'.pos[id].stance = Opposite(doc'.pos[i].stance), i \in Nat
          PROVE  i \in conflicts
      <4>1. doc'.pos[i].stance = Opposite(ask[c].stance)
        <5>1. Opposite(doc'.pos[i].stance) \in Stances /\ Opposite(doc'.pos[i].stance) = ask[c].stance
          BY <1>3, <1>5, <3>3
        <5>2. QED
          BY <5>1 DEF Opposite, Stances
      <4>2. QED
        BY <3>3, <4>1 DEF Opposing, LiveWith
    <3>4. \A i \in Live(doc.pos)' : Conflict(i, mine[c])' => i \in conflicts
      BY <1>3, <3>2, <3>3 DEF Live, Conflict
    <3>5. QED
      BY <1>3, <2>1, <3>2, <3>4
  <2>2. CASE d # c
    <3>1. pc'[d] = pc[d] /\ against'[d] = against[d] /\ mine'[d] = mine[d]
      BY <1>1, <1>5, <2>2, Sorts DEF Goes
    <3>2. /\ mine[d] \in DOMAIN doc.pos
          /\ \A i \in Live(doc.pos) : Conflict(i, mine[d]) =>
               i \in against[d] \/ d \in unlogged \/ <<i, mine[d]>> \in Pairs
      BY <1>6, <3>1 DEF Owing, Heard
    <3>3. ASSUME NEW i \in Live(doc'.pos), i < mine[d], doc'.pos[mine[d]].stance = Opposite(doc'.pos[i].stance)
          PROVE  i \in Live(doc.pos) /\ Conflict(i, mine[d])
      <4>1. i \in DOMAIN doc'.pos /\ i \in Nat /\ doc'.pos[i].next = 0
        BY <1>3, <3>3 DEF Live
      <4>2. mine[d] <= Total /\ Total \in Nat /\ mine[d] \in Nat
        BY <1>5, Counts DEF Numbered, Types
      <4>3. i # id /\ id # 0
        BY <1>3, <3>3, <4>1, <4>2
      <4>4. i \in DOMAIN doc.pos
        BY <1>3, <3>2, <4>1, <4>3
      <4>5. doc.pos[i].next = 0
        BY <1>3, <4>1, <4>3, <4>4
      <4>6. QED
        BY <1>3, <3>2, <3>3, <4>4, <4>5 DEF Live, Conflict
    <3>4. \A i \in Live(doc.pos)' : Conflict(i, mine[d])' => i \in Live(doc.pos) /\ Conflict(i, mine[d])
      BY <3>1, <3>3 DEF Live, Conflict
    <3>5. QED
      BY <1>1, <1>3, <1>4, <3>1, <3>2, <3>4
  <2>3. QED
    BY <2>1, <2>2
<1>7. QED
  BY <1>4, <1>6 DEF Owing, Heard

LEMMA OwingStep ==
  ASSUME Integrity, Types, Numbered, Owing, [Next]_vars
  PROVE  Owing'
<1> USE Sorts
<1>1. /\ pc \in [Calls -> AssertPlaces \cup ResolvePlaces]
      /\ mine \in [Asserts -> Nat] /\ against \in [Asserts -> SUBSET Nat]
      /\ raw \in [Resolvers -> Seq(Entry)] /\ unlogged \subseteq Asserts
      /\ \A c \in Asserts : pc[c] \in AssertPlaces
      /\ \A x \in Resolvers : pc[x] \in ResolvePlaces
      /\ Minted(log) /\ \A x \in Resolvers : Minted(raw[x])
  BY DEF Types, Typed, Placed, Bounded, Owing
<1>2. CASE \E c \in Asserts : WriteAssert(c) \/ LandStaged(c)
  BY <1>2, OwingWrite
<1>3. CASE \E c \in Asserts : NextPair(c, TRUE) /\ ListForPair(c)
  <2>1. PICK c \in Asserts : NextPair(c, TRUE) /\ ListForPair(c)
    BY <1>3
  <2>2. pc[c] = "listing" /\ UNCHANGED <<doc, mine, log, minted, raw>>
    BY <2>1 DEF ListForPair, NextPair, writeVars, logVars, ruleVars
  <2>3. /\ Rival(c) \in against[c] /\ against' = [against EXCEPT ![c] = @ \ {Rival(c)}]
        /\ unlogged \subseteq unlogged' /\ \A d \in Calls \ {c} : pc'[d] = pc[d]
    BY <2>1, <2>2, PairStep
  <2>4. <<Rival(c), mine[c]>> \in Pairs
    <3>1. pc'[c] # "adding"
      BY <1>1, <2>1 DEF NextPair, Goes
    <3>2. PICK k \in DOMAIN log : Names(log[k], Rival(c), mine[c])
      <4>1. (\E k \in Open(log) : Names(log[k], Rival(c), mine[c])) \/ Goes(c, "adding")
        BY <2>1 DEF ListForPair
      <4>2. QED
        BY <1>1, <3>1, <4>1 DEF Goes, Open
    <3> DEFINE m == [id |-> log[k].id, a |-> log[k].a, b |-> log[k].b]
    <3>3. m \in minted /\ m.a = log[k].a /\ m.b = log[k].b
      BY <1>1 DEF Minted
    <3> HIDE DEF m
    <3>4. m.a \in Nat /\ m.b \in Nat /\ m.a < m.b /\ Rival(c) \in Nat /\ mine[c] \in Nat /\ Rival(c) < mine[c]
      BY <1>1, <2>3, <3>3 DEF Numbered, Types, Typed, Tension
    <3>5. {m.a, m.b} = {Rival(c), mine[c]}
      BY <3>2, <3>3 DEF Names
    <3>6. m.a = Rival(c) /\ m.b = mine[c]
      <4>1. m.a \in {Rival(c), mine[c]} /\ m.b \in {Rival(c), mine[c]}
        BY <3>5
      <4>2. QED
        BY <3>4, <4>1
    <3>7. QED
      BY <3>3, <3>6 DEF Pairs
  <2>5. ASSUME NEW d \in Asserts, pc'[d] \in Heard
        PROVE  /\ pc[d] \in Heard
               /\ \A i \in against[d] : i \in against'[d] \/ d \in unlogged' \/ <<i, mine[d]>> \in Pairs'
    <3>1. Pairs' = Pairs
      BY <2>2 DEF Pairs
    <3>2. QED
      BY <1>1, <2>2, <2>3, <2>4, <2>5, <3>1 DEF Heard
  <2>6. Minted(log)' /\ \A x \in Resolvers : Minted(raw[x])'
    BY <1>1, <2>2 DEF Minted
  <2>7. QED
    BY <2>2, <2>3, <2>5, <2>6, OwingKept
<1>4. CASE \E c \in Asserts : AddTension(c)
  <2>1. PICK c \in Asserts : AddTension(c)
    BY <1>4
  <2>2. NextPair(c, TRUE) /\ pc[c] = "adding" /\ UNCHANGED <<doc, mine, raw>>
    BY <2>1 DEF AddTension, NextPair, writeVars, ruleVars
  <2>3. /\ Rival(c) \in against[c] /\ against' = [against EXCEPT ![c] = @ \ {Rival(c)}]
        /\ unlogged \subseteq unlogged' /\ \A d \in Calls \ {c} : pc'[d] = pc[d]
    BY <2>2, PairStep
  <2>4. PICK e : /\ e = [id |-> NextTensionId, a |-> Rival(c), b |-> mine[c], state |-> "open", by |-> c]
                 /\ DOMAIN log' = DOMAIN log \cup {Len(log) + 1}
                 /\ log'[Len(log) + 1] = e
                 /\ \A n \in DOMAIN log : log'[n] = log[n]
                 /\ minted' = minted \cup {[id |-> e.id, a |-> e.a, b |-> e.b]}
                 /\ Pairs' = Pairs \cup {<<e.a, e.b>>}
    BY <2>1, AppendKeeps
  <2>5. e.a = Rival(c) /\ e.b = mine[c]
    BY <2>4
  <2>6. ASSUME NEW d \in Asserts, pc'[d] \in Heard
        PROVE  /\ pc[d] \in Heard
               /\ \A i \in against[d] : i \in against'[d] \/ d \in unlogged' \/ <<i, mine[d]>> \in Pairs'
    BY <1>1, <2>2, <2>3, <2>4, <2>5, <2>6 DEF Heard
  <2>7. Minted(log)' /\ \A x \in Resolvers : Minted(raw[x])'
    BY <1>1, <2>2, <2>4 DEF Minted
  <2>8. QED
    BY <2>2, <2>3, <2>4, <2>6, <2>7, OwingKept
<1>5. CASE \E c \in Asserts : NextPair(c, FALSE) /\ (AddFails(c) \/ AddContended(c))
  <2>1. PICK c \in Asserts : NextPair(c, FALSE) /\ (AddFails(c) \/ AddContended(c))
    BY <1>5
  <2>2. pc[c] = "adding" /\ UNCHANGED <<doc, mine, log, minted, raw>>
    BY <2>1 DEF AddFails, AddContended, NextPair, writeVars, logVars, ruleVars
  <2>3. /\ against' = [against EXCEPT ![c] = @ \ {Rival(c)}] /\ c \in unlogged'
        /\ unlogged \subseteq unlogged' /\ \A d \in Calls \ {c} : pc'[d] = pc[d]
    BY <2>1, <2>2, PairStep
  <2>4. ASSUME NEW d \in Asserts, pc'[d] \in Heard
        PROVE  /\ pc[d] \in Heard
               /\ \A i \in against[d] : i \in against'[d] \/ d \in unlogged' \/ <<i, mine[d]>> \in Pairs'
    BY <1>1, <2>2, <2>3, <2>4 DEF Heard
  <2>5. Minted(log)' /\ \A x \in Resolvers : Minted(raw[x])'
    BY <1>1, <2>2 DEF Minted
  <2>6. QED
    BY <2>2, <2>3, <2>4, <2>5, OwingKept
<1>6. CASE \E c \in Asserts : UNCHANGED assertVars /\ (StageAssert(c) \/ ListForPair(c) \/ AddContended(c))
  <2>1. PICK c \in Asserts : UNCHANGED assertVars /\ (StageAssert(c) \/ ListForPair(c) \/ AddContended(c))
    BY <1>6
  <2>2. UNCHANGED <<doc, mine, against, unlogged, log, minted, raw>>
    BY <2>1 DEF StageAssert, ListForPair, AddContended, assertVars, writeVars, logVars, ruleVars
  <2>3. \/ pc[c] \in Heard
        \/ pc' = [pc EXCEPT ![c] = "staged"]
    BY <2>1 DEF StageAssert, ListForPair, AddContended, Goes, Heard
  <2>4. \E p : pc' = [pc EXCEPT ![c] = p]
    BY <2>1 DEF StageAssert, ListForPair, AddContended, Goes, NextPair
  <2>5. ASSUME NEW d \in Asserts, pc'[d] \in Heard PROVE pc[d] \in Heard
    BY <1>1, <2>3, <2>4, <2>5 DEF Heard
  <2>6. Minted(log)' /\ \A x \in Resolvers : Minted(raw[x])'
    BY <1>1, <2>2 DEF Minted
  <2>7. QED
    BY <2>2, <2>5, <2>6, OwingKept
<1>7. CASE \/ \E c \in Asserts \cup Consolidations : Load(c) \/ Stale(c) \/ Refuse(c)
           \/ \E k \in Consolidations : Weigh(k) \/ WriteConsolidation(k)
           \/ \E r \in Rulings : BeginRuling(r)
           \/ \E x \in Resolvers : TakeLease(x)
           \/ Lapse \/ UNCHANGED vars
  <2>1. UNCHANGED <<mine, against, unlogged, log, minted, raw>>
    BY <1>7 DEF Load, Stale, Refuse, Weigh, WriteConsolidation, BeginRuling, TakeLease, Lapse,
                vars, assertVars, logVars, ruleVars
  <2>2. doc'.pos = doc.pos
    <3>1. CASE \E k \in Consolidations : WriteConsolidation(k)
      BY <3>1, ConsolidateStep DEF WriteConsolidation, Fresh
    <3>2. CASE doc' = doc
      BY <3>2
    <3>3. QED
      BY <1>7, <3>1, <3>2 DEF Load, Stale, Refuse, Weigh, BeginRuling, TakeLease, Lapse, vars, writeVars
  <2>3. \A c \in Asserts : pc'[c] = pc[c] \/ pc'[c] \in {"loaded", "idle", "failed"}
    <3>1. CASE \E c \in Calls, p \in {"loaded", "idle", "failed"} : pc' = [pc EXCEPT ![c] = p]
      BY <1>1, <3>1
    <3>2. CASE \E x \in Resolvers : \E p : pc' = [pc EXCEPT ![x] = p]
      BY <1>1, <3>2
    <3>3. CASE pc' = pc
      BY <3>3
    <3>4. CASE \E c \in Asserts \cup Consolidations : Load(c) \/ Stale(c) \/ Refuse(c)
      BY <3>1, <3>4 DEF Load, Stale, Refuse, Goes
    <3>5. CASE \E x \in Resolvers : Weigh(x) \/ WriteConsolidation(x) \/ BeginRuling(x) \/ TakeLease(x)
      BY <3>2, <3>5 DEF Weigh, WriteConsolidation, BeginRuling, TakeLease, Goes
    <3>6. QED
      BY <1>7, <3>3, <3>4, <3>5 DEF Lapse, vars
  <2>4. Minted(log)' /\ \A x \in Resolvers : Minted(raw[x])'
    BY <1>1, <2>1 DEF Minted
  <2>5. QED
    BY <2>1, <2>2, <2>3, <2>4, OwingKept DEF Heard
<1>8. CASE \E x \in Resolvers : \/ LeaseContended(x) \/ ReadLog(x) \/ TruncateLog(x)
                                \/ RewriteLog(x) \/ RewriteFails(x)
  <2>1. PICK x \in Resolvers : \/ LeaseContended(x) \/ ReadLog(x) \/ TruncateLog(x)
                               \/ RewriteLog(x) \/ RewriteFails(x)
    BY <1>8
  <2>2. UNCHANGED <<doc, mine, against, unlogged, minted>>
    BY <2>1 DEF LeaseContended, ReadLog, TruncateLog, RewriteLog, RewriteFails, writeVars, assertVars, logVars
  <2>3. \E p : pc' = [pc EXCEPT ![x] = p] \/ pc' = pc
    BY <2>1 DEF LeaseContended, ReadLog, TruncateLog, RewriteLog, RewriteFails, NextResolution, Goes
  <2>4. \A c \in Asserts : pc'[c] = pc[c]
    BY <1>1, <2>3
  <2>5. raw' \in {raw, [raw EXCEPT ![x] = log], [raw EXCEPT ![x] = <<>>]}
    BY <2>1 DEF LeaseContended, ReadLog, TruncateLog, RewriteLog, RewriteFails, NextResolution, ruleVars
  <2>6. Minted(<<>>)
    BY DEF Minted
  <2>7. \A y \in Resolvers : Minted(raw'[y])
    BY <1>1, <2>5, <2>6
  <2>8. Minted(log')
    <3>1. CASE RewriteLog(x)
      <4>1. /\ DOMAIN log' = DOMAIN raw[x]
            /\ \A n \in DOMAIN log' :
                 log'[n].id = raw[x][n].id /\ log'[n].a = raw[x][n].a /\ log'[n].b = raw[x][n].b
        BY <3>1, RewriteKeeps
      <4>2. \A n \in DOMAIN raw[x] : [id |-> raw[x][n].id, a |-> raw[x][n].a, b |-> raw[x][n].b] \in minted
        BY <1>1 DEF Minted
      <4>3. QED
        BY <4>1, <4>2 DEF Minted
    <3>2. CASE log' = <<>> \/ log' = log
      BY <1>1, <2>6, <3>2
    <3>3. QED
      BY <2>1, <3>1, <3>2 DEF LeaseContended, ReadLog, TruncateLog, RewriteFails, logVars
  <2>9. Minted(log)' /\ \A y \in Resolvers : Minted(raw[y])'
    BY <2>2, <2>7, <2>8 DEF Minted
  <2>10. QED
    BY <2>2, <2>4, <2>9, OwingKept
<1>9. QED
  BY <1>2, <1>3, <1>4, <1>5, <1>6, <1>7, <1>8 DEF Next, StageAssert, ListForPair, AddFails, AddContended

------------------------------------------------------------------------------
(***************************************************************************)
(* What a principal has come to hold: chainEnd, whose links lead to later  *)
(* ids.                                                                    *)
(***************************************************************************)
LEMMA ChainEndIs ==
  ASSUME NEW n \in Nat, NEW pos, DOMAIN pos \subseteq 0 .. n, Linked(pos), NEW i \in DOMAIN pos
  PROVE  ChainEnd(pos, i) = IF pos[i].next = 0 THEN i ELSE ChainEnd(pos, pos[i].next)
<1> DEFINE D(m) == {j \in DOMAIN pos : n + 1 - m <= j}
           Step(g, j) == IF pos[j].next = 0 THEN j ELSE g[pos[j].next]
           IsEnd(g, m) == g = [j \in D(m) |-> Step(g, j)]
           end == CHOOSE g : g = [j \in DOMAIN pos |-> Step(g, j)]
<1>1. \A m \in 0 .. n + 1 : \E g : IsEnd(g, m)
  <2> DEFINE Without == {m \in 0 .. n + 1 : ~ \E g : IsEnd(g, m)}
  <2> SUFFICES ASSUME Without # {} PROVE FALSE
    OBVIOUS
  <2> HIDE DEF IsEnd
  <2>1. Without \in SUBSET Nat
    OBVIOUS
  <2>2. PICK m \in Without : \A k \in Without : m <= k
    BY <2>1, LeastExists, Zenon
  <2>3. CASE m = 0
    <3>1. D(0) = {}
      OBVIOUS
    <3> DEFINE g == [j \in D(0) |-> 0]
    <3>2. g = [j \in D(0) |-> Step(g, j)]
      BY <3>1
    <3>3. IsEnd(g, 0)
      BY <3>2, Zenon DEF IsEnd
    <3>4. QED
      BY <2>2, <2>3, <3>3, Zenon
  <2>4. CASE m # 0
    <3>1. m \in Nat /\ m <= n + 1 /\ m - 1 \in 0 .. n + 1 /\ m - 1 \notin Without
      BY <2>1, <2>2, <2>4
    <3>2. PICK h : IsEnd(h, m - 1)
      BY <3>1
    <3> DEFINE g == [j \in D(m) |-> IF j = n + 1 - m THEN Step(h, j) ELSE h[j]]
    <3>3. ASSUME NEW j \in D(m) PROVE g[j] = Step(g, j)
      <4>1. j \in DOMAIN pos /\ j \in Nat /\ n + 1 - m <= j
        BY <3>3
      <4>2. pos[j].next # 0 => /\ pos[j].next \in D(m) /\ pos[j].next # n + 1 - m
                               /\ pos[j].next \in DOMAIN pos
        BY <3>1, <4>1 DEF Linked
      <4>3. pos[j].next # 0 => g[pos[j].next] = h[pos[j].next]
        BY <4>2
      <4>4. j # n + 1 - m => h[j] = Step(h, j)
        <5> SUFFICES ASSUME j # n + 1 - m PROVE h[j] = Step(h, j)
          OBVIOUS
        <5>1. j \in D(m - 1)
          BY <3>1, <4>1
        <5> HIDE DEF D, Step
        <5>2. QED
          BY <3>2, <5>1, Zenon DEF IsEnd
      <4>5. g[j] = Step(h, j)
        <5>1. g[j] = IF j = n + 1 - m THEN Step(h, j) ELSE h[j]
          BY <3>3, Zenon
        <5> HIDE DEF g, Step, D
        <5>2. QED
          BY <4>4, <5>1, Zenon
      <4> HIDE DEF g, D
      <4>6. QED
        BY <4>3, <4>5
    <3>4. g = [j \in D(m) |-> Step(g, j)]
      <4>1. g = [j \in D(m) |-> g[j]]
        BY Zenon
      <4> HIDE DEF g, D, Step
      <4>2. QED
        BY <3>3, <4>1, Zenon
    <3>5. IsEnd(g, m)
      <4> HIDE DEF g, D, Step
      <4>1. QED
        BY <3>4, Zenon DEF IsEnd
    <3>6. QED
      <4> HIDE DEF g
      <4>1. QED
        BY <2>2, <3>5, Zenon
  <2>5. QED
    BY <2>3, <2>4
<1>2. D(n + 1) = DOMAIN pos
  <2>1. n + 1 - (n + 1) = 0 /\ \A j \in DOMAIN pos : 0 <= j
    OBVIOUS
  <2>2. QED
    BY <2>1
<1>3. \E g : g = [j \in DOMAIN pos |-> Step(g, j)]
  <2>1. PICK g : IsEnd(g, n + 1)
    <3> HIDE DEF IsEnd
    <3>1. n + 1 \in 0 .. n + 1
      OBVIOUS
    <3>2. QED
      BY <1>1, <3>1, Zenon
  <2> HIDE DEF D, Step
  <2>2. QED
    BY <1>2, <2>1, Zenon DEF IsEnd
<1>4. end = [j \in DOMAIN pos |-> Step(end, j)]
  <2> HIDE DEF Step
  <2>1. QED
    BY <1>3, Zenon
<1>5. \A j : ChainEnd(pos, j) = end[j]
  BY DEF ChainEnd
<1> HIDE DEF end
<1>6. end[i] = Step(end, i)
  BY <1>4
<1>7. QED
  BY <1>5, <1>6

\* It is live, ...
LEMMA ChainEndLive ==
  ASSUME NEW n \in Nat, NEW pos, DOMAIN pos \subseteq 0 .. n, Linked(pos)
  PROVE  \A i \in DOMAIN pos : ChainEnd(pos, i) \in Live(pos)
<1> DEFINE Bad == {i \in DOMAIN pos : ChainEnd(pos, i) \notin Live(pos)}
<1> SUFFICES ASSUME Bad # {} PROVE FALSE
  OBVIOUS
<1>1. Bad \in SUBSET (0 .. n)
  OBVIOUS
<1>2. PICK i \in Bad : \A j \in Bad : j <= i
  <2> HIDE DEF Bad
  <2>1. QED
    BY <1>1, GreatestExists
<1>3. i \in DOMAIN pos /\ i \in Nat /\ ChainEnd(pos, i) \notin Live(pos)
  OBVIOUS
<1>4. CASE pos[i].next = 0
  BY <1>3, <1>4, ChainEndIs DEF Live
<1>5. CASE pos[i].next # 0
  <2>1. pos[i].next \in DOMAIN pos /\ i < pos[i].next
    BY <1>3, <1>5 DEF Linked
  <2>2. pos[i].next \notin Bad
    BY <1>1, <1>2, <1>3, <2>1
  <2>3. ChainEnd(pos, i) = ChainEnd(pos, pos[i].next)
    BY <1>3, <1>5, ChainEndIs
  <2>4. QED
    BY <1>3, <2>1, <2>2, <2>3
<1>6. QED
  BY <1>4, <1>5

\* ... and what two had come to hold together they still do when more of them
\* have been superseded.
LEMMA ChainEndMoves ==
  ASSUME NEW n \in Nat, NEW pos, DOMAIN pos \subseteq 0 .. n, Linked(pos),
         NEW m \in Nat, NEW new, DOMAIN new \subseteq 0 .. m, Linked(new),
         DOMAIN pos \subseteq DOMAIN new,
         \A i \in DOMAIN pos : pos[i].next # 0 => new[i].next = pos[i].next
  PROVE  \A i \in DOMAIN pos : ChainEnd(new, i) = ChainEnd(new, ChainEnd(pos, i))
<1> DEFINE Bad == {i \in DOMAIN pos : ChainEnd(new, i) # ChainEnd(new, ChainEnd(pos, i))}
<1> SUFFICES ASSUME Bad # {} PROVE FALSE
  OBVIOUS
<1>1. Bad \in SUBSET (0 .. n)
  OBVIOUS
<1>2. PICK i \in Bad : \A j \in Bad : j <= i
  <2> HIDE DEF Bad
  <2>1. QED
    BY <1>1, GreatestExists
<1>3. i \in DOMAIN pos /\ i \in Nat /\ ChainEnd(new, i) # ChainEnd(new, ChainEnd(pos, i))
  OBVIOUS
<1>4. CASE pos[i].next = 0
  BY <1>3, <1>4, ChainEndIs
<1>5. CASE pos[i].next # 0
  <2>1. pos[i].next \in DOMAIN pos /\ i < pos[i].next /\ new[i].next = pos[i].next
    BY <1>3, <1>5 DEF Linked
  <2>2. pos[i].next \notin Bad
    BY <1>1, <1>2, <1>3, <2>1
  <2>3. ChainEnd(pos, i) = ChainEnd(pos, pos[i].next)
    BY <1>3, <1>5, ChainEndIs
  <2>4. ChainEnd(new, i) = ChainEnd(new, pos[i].next)
    BY <1>3, <1>5, <2>1, ChainEndIs
  <2>5. QED
    BY <1>3, <2>1, <2>2, <2>3, <2>4
<1>6. QED
  BY <1>4, <1>5

------------------------------------------------------------------------------
(***************************************************************************)
(* What a consolidation resolves stays in its dissent.                     *)
(***************************************************************************)
\* Writing an assert: links lead to later ids, and dissent is kept.
LEMMA AssertCarries ==
  ASSUME Integrity, Types, Numbered, Chained(doc.pos), NEW c \in Asserts, doc' = Asserted(c, doc)
  PROVE  /\ Chained(doc'.pos) /\ doc'.org = doc.org
         /\ \A i, j : Dissents(doc.pos, doc.org.dissent, i, j) =>
              Dissents(doc'.pos, doc.org.dissent, i, j)
<1> DEFINE id == NextPositionId(BasePositions(doc))
<1>1. id = NextPositionId(BasePositions(doc))
  OBVIOUS
<1> HIDE DEF id
<1>2. /\ id = Total + 1 /\ id \in Nat \ {0} /\ id \notin DOMAIN doc.pos
      /\ UpTo(doc'.pos, id) /\ DOMAIN doc'.pos \subseteq Nat
      /\ DOMAIN doc.pos \subseteq DOMAIN doc'.pos /\ id \in DOMAIN doc'.pos
      /\ doc'.pos[id] = [by |-> ask[c].by, stance |-> ask[c].stance, next |-> 0, of |-> c]
      /\ \A i \in DOMAIN doc.pos :
           doc'.pos[i].next = doc.pos[i].next \/ (doc.pos[i].next = 0 /\ doc'.pos[i].next = id)
      /\ \A i \in DOMAIN doc'.pos \ (DOMAIN doc.pos \cup {id}) : i = 0 /\ doc'.pos[i].next \in {0, id}
      /\ doc'.org = doc.org
  BY <1>1, AssertWrites DEF Types
<1>3. DOMAIN doc'.pos \subseteq 0 .. id
  BY <1>2 DEF UpTo
<1>4. \A i \in DOMAIN doc'.pos : i # id => i < id
  BY <1>2, <1>3
<1>5. Linked(doc'.pos)
  <2> SUFFICES ASSUME NEW i \in DOMAIN doc'.pos, doc'.pos[i].next # 0
               PROVE  doc'.pos[i].next \in DOMAIN doc'.pos /\ i < doc'.pos[i].next
    BY DEF Linked
  <2>1. i # id
    BY <1>2
  <2>2. CASE doc'.pos[i].next = id
    BY <1>2, <1>4, <2>1, <2>2
  <2>3. CASE doc'.pos[i].next # id
    <3>1. i \in DOMAIN doc.pos /\ doc'.pos[i].next = doc.pos[i].next
      BY <1>2, <2>1, <2>3
    <3>2. doc.pos[i].next \in DOMAIN doc.pos /\ i < doc.pos[i].next
      BY <3>1 DEF Chained, Linked
    <3>3. QED
      BY <1>2, <3>1, <3>2
  <2>4. QED
    BY <2>2, <2>3
<1>6. Chained(doc'.pos)
  BY <1>2, <1>3, <1>5 DEF Chained
<1>7. PICK n \in Nat : DOMAIN doc.pos \subseteq 0 .. n
  BY DEF Chained
<1>8. \A i \in DOMAIN doc.pos : ChainEnd(doc'.pos, i) = ChainEnd(doc'.pos, ChainEnd(doc.pos, i))
  <2>1. PICK pos, new : pos = doc.pos /\ new = doc'.pos
    OBVIOUS
  <2>2. Linked(pos) /\ Linked(new) /\ DOMAIN pos \subseteq 0 .. n /\ DOMAIN new \subseteq 0 .. id
    BY <1>3, <1>5, <1>7, <2>1 DEF Chained
  <2>3. DOMAIN pos \subseteq DOMAIN new /\ \A i \in DOMAIN pos : pos[i].next # 0 => new[i].next = pos[i].next
    BY <1>2, <2>1
  <2>4. id \in Nat
    BY <1>2
  <2>5. \A i \in DOMAIN pos : ChainEnd(new, i) = ChainEnd(new, ChainEnd(pos, i))
    BY <2>2, <2>3, <2>4, ChainEndMoves
  <2>6. QED
    BY <2>1, <2>5
<1>9. ASSUME NEW i, NEW j, Dissents(doc.pos, doc.org.dissent, i, j)
      PROVE  Dissents(doc'.pos, doc.org.dissent, i, j)
  <2>1. {i, j} \subseteq DOMAIN doc.pos
    BY <1>9 DEF Dissents
  <2>2. PICK d \in doc.org.dissent : ChainEnd(doc.pos, d) \in {ChainEnd(doc.pos, i), ChainEnd(doc.pos, j)}
    BY <1>9 DEF Dissents
  <2>3. d \in DOMAIN doc.pos
    BY DEF Integrity, PositionIntegrity
  <2>4. ChainEnd(doc'.pos, d) \in {ChainEnd(doc'.pos, i), ChainEnd(doc'.pos, j)}
    BY <1>8, <2>1, <2>2, <2>3
  <2>5. QED
    BY <1>2, <2>1, <2>4 DEF Dissents
<1>10. QED
  BY <1>2, <1>6, <1>9

LEMMA ChainsStep ==
  ASSUME Integrity, Types, Numbered, Chains, [Next]_vars
  PROVE  Chains'
<1>1. Chained(doc.pos)'
  <2>1. CASE doc' = doc
    BY <2>1 DEF Chains
  <2>2. CASE \E c \in Asserts : doc' = Asserted(c, doc)
    BY <2>2, AssertCarries DEF Chains
  <2>3. CASE \E k \in Consolidations : doc' = Consolidated(k, doc)
    BY <2>3, ConsolidateStep DEF Chains
  <2>4. QED
    BY <2>1, <2>2, <2>3, DocSteps
<1>2. load' = load \/ \E c \in Asserts \cup Consolidations : load' = [load EXCEPT ![c] = doc]
  <2>1. CASE \E c \in Asserts \cup Consolidations : Load(c) \/ Stale(c) \/ Refuse(c)
    BY <2>1 DEF Load, Stale, Refuse, writeVars
  <2>2. CASE load' = load
    BY <2>2
  <2>3. QED
    BY <2>1, <2>2 DEF Next, vars, writeVars, WriteAssert, StageAssert, LandStaged, ListForPair,
         AddTension, AddFails, AddContended, Weigh, WriteConsolidation, BeginRuling, TakeLease,
         LeaseContended, ReadLog, TruncateLog, RewriteLog, RewriteFails, Lapse
<1>3. (\A c \in Asserts \cup Consolidations : Chained(load[c].pos))'
  BY <1>2 DEF Chains, Types, Typed
<1>4. QED
  BY <1>1, <1>3 DEF Chains

\* Nobody who has written goes back to before.
LEMMA EarlyStep ==
  ASSUME Types, [Next]_vars, NEW x \in Resolvers, pc'[x] \in Early
  PROVE  pc[x] \in Early
<1> USE Sorts
<1>1. pc \in [Calls -> AssertPlaces \cup ResolvePlaces]
  BY DEF Types, Placed
<1>2. CASE \E c \in Asserts \cup Consolidations : Load(c) \/ Stale(c) \/ Refuse(c)
  <2>1. PICK c \in Asserts \cup Consolidations : Load(c) \/ Stale(c) \/ Refuse(c)
    BY <1>2
  <2>2. \E p : pc[c] \in Early /\ pc' = [pc EXCEPT ![c] = p]
    BY <2>1 DEF Load, Stale, Refuse, Composed, Goes, Early
  <2>3. QED
    BY <1>1, <2>2
<1>3. CASE \E c \in Asserts : \E p : pc' = [pc EXCEPT ![c] = p]
  BY <1>1, <1>3
<1>4. CASE \E k \in Consolidations : Weigh(k) \/ WriteConsolidation(k)
  <2>1. PICK k \in Consolidations : Weigh(k) \/ WriteConsolidation(k)
    BY <1>4
  <2>2. \E p : pc[k] \in Early /\ pc' = [pc EXCEPT ![k] = p]
    BY <2>1 DEF Weigh, WriteConsolidation, Goes, Early
  <2>3. QED
    BY <1>1, <2>2
<1>5. CASE \E y \in Resolvers : \E p \in ResolvePlaces \ Early : pc' = [pc EXCEPT ![y] = p]
  BY <1>1, <1>5
<1>6. CASE pc' = pc
  BY <1>6
<1>7. CASE \E c \in Asserts : \/ WriteAssert(c) \/ StageAssert(c) \/ LandStaged(c)
                              \/ ListForPair(c)
                              \/ AddTension(c) \/ AddFails(c) \/ AddContended(c)
  BY <1>3, <1>7 DEF WriteAssert, StageAssert, LandStaged, ListForPair, AddTension, AddFails,
                    AddContended, NextPair, Goes
<1>8. CASE \E y \in Resolvers : NextResolution(y)
  <2>1. \E y \in Resolvers : \E p \in {"done", "resolving"} : pc' = [pc EXCEPT ![y] = p]
    BY <1>8 DEF NextResolution, Goes
  <2>2. QED
    BY <1>5, <2>1 DEF ResolvePlaces, Early
<1>9. CASE \E r \in Rulings : BeginRuling(r)
  <2>1. PICK r \in Rulings : pc' = [pc EXCEPT ![r] = "resolving"]
    BY <1>9 DEF BeginRuling, Goes
  <2>2. QED
    BY <1>5, <2>1 DEF ResolvePlaces, Early
<1>10. CASE \E y \in Resolvers : \/ TakeLease(y) \/ LeaseContended(y) \/ ReadLog(y)
                                 \/ TruncateLog(y) \/ RewriteLog(y) \/ RewriteFails(y)
  <2>1. PICK y \in Resolvers : \/ TakeLease(y) \/ LeaseContended(y) \/ ReadLog(y)
                               \/ TruncateLog(y) \/ RewriteLog(y) \/ RewriteFails(y)
    BY <1>10
  <2>2. \/ NextResolution(y) \/ pc' = pc
        \/ \E p \in {"reading", "rewriting", "truncated"} : pc' = [pc EXCEPT ![y] = p]
    BY <2>1 DEF TakeLease, LeaseContended, ReadLog, TruncateLog, RewriteLog, RewriteFails, Goes
  <2>3. QED
    BY <1>5, <1>6, <1>8, <2>2 DEF ResolvePlaces, Early, AtWork
<1>11. QED
  BY <1>2, <1>4, <1>6, <1>7, <1>9, <1>10 DEF Next, Lapse, vars

LEMMA SigningStep ==
  ASSUME Integrity, Types, Numbered, Signing, [Next]_vars
  PROVE  Signing'
<1> USE Sorts
<1>1. \A x \in Resolvers : pc[x] \notin Early => pc'[x] \notin Early
  BY EarlyStep
<1>2. ASSUME NEW s, Unsigned(s)
      PROVE  \A n \in DOMAIN s : s[n].by \in Resolvers => pc'[s[n].by] \notin Early
  BY <1>1, <1>2 DEF Unsigned
<1> DEFINE Quiet(s) == \A n \in DOMAIN s : s[n].by \in Resolvers => pc'[s[n].by] \notin Early
<1>3. Quiet(log) /\ (\A x \in Resolvers : Quiet(raw[x])) /\ Quiet(<<>>)
  BY <1>2 DEF Signing
<1>4. Quiet(log')
  <2>1. CASE log' = log \/ log' = <<>>
    BY <1>3, <2>1
  <2>2. CASE \E c \in Asserts : AddTension(c)
    <3>1. PICK c \in Asserts : AddTension(c)
      BY <2>2
    <3>2. PICK e : /\ e = [id |-> NextTensionId, a |-> Rival(c), b |-> mine[c], state |-> "open", by |-> c]
                   /\ DOMAIN log' = DOMAIN log \cup {Len(log) + 1}
                   /\ log'[Len(log) + 1] = e
                   /\ \A n \in DOMAIN log : log'[n] = log[n]
      BY <3>1, AppendKeeps
    <3>3. e.by \notin Resolvers
      BY <3>2
    <3>4. QED
      BY <1>3, <3>2, <3>3
  <2>3. CASE \E x \in Resolvers : RewriteLog(x)
    <3>1. PICK x \in Resolvers : RewriteLog(x)
      BY <2>3
    <3>2. pc'[x] \notin Early
      BY <3>1, ResolutionStep DEF RewriteLog, AtWork, Early
    <3>3. PICK h : /\ DOMAIN log' = DOMAIN raw[x]
                   /\ h \in DOMAIN log' => log'[h].by = x
                   /\ \A n \in DOMAIN log' : n # h => log'[n] = raw[x][n]
      BY <3>1, RewriteKeeps
    <3>4. QED
      BY <1>3, <3>2, <3>3
  <2>4. QED
    BY <2>1, <2>2, <2>3 DEF Next, vars, logVars, Load, Stale, Refuse, WriteAssert, StageAssert,
         LandStaged, ListForPair, AddFails, AddContended, Weigh, WriteConsolidation, BeginRuling,
         TakeLease, LeaseContended, ReadLog, TruncateLog, RewriteFails, Lapse
<1>5. \A x \in Resolvers : Quiet(raw'[x])
  <2>1. raw' = raw \/ \E x \in Resolvers : raw' \in {[raw EXCEPT ![x] = log], [raw EXCEPT ![x] = <<>>]}
    BY DEF Next, vars, ruleVars, Load, Stale, Refuse, WriteAssert, StageAssert, LandStaged,
         ListForPair, AddTension, AddFails, AddContended, Weigh, WriteConsolidation, BeginRuling,
         TakeLease, LeaseContended, ReadLog, TruncateLog, RewriteLog, RewriteFails, Lapse,
         NextResolution
  <2>2. raw \in [Resolvers -> Seq(Entry)]
    BY DEF Types, Typed
  <2> HIDE DEF Quiet
  <2>3. QED
    BY <1>3, <2>1, <2>2
<1>6. /\ doc'.org.by \in Consolidations \cup {Unknown}
      /\ doc'.org.by \in Consolidations => pc'[doc'.org.by] \notin Early
  <2>1. CASE doc'.org = doc.org
    BY <1>1, <2>1 DEF Signing
  <2>2. CASE \E k \in Consolidations : WriteConsolidation(k)
    <3>1. PICK k \in Consolidations : WriteConsolidation(k)
      BY <2>2
    <3>2. doc'.org.by = k
      BY <3>1 DEF WriteConsolidation, Consolidated, Fresh, Integrity, Shape
    <3>3. \E p \in {"done", "resolving", "failed"} : pc' = [pc EXCEPT ![k] = p]
      BY <3>1 DEF WriteConsolidation, Goes
    <3>4. pc'[k] \notin Early
      BY <3>3 DEF Types, Placed, Early
    <3>5. QED
      BY <3>2, <3>4
  <2>3. doc'.org = doc.org \/ \E k \in Consolidations : WriteConsolidation(k)
    <3>1. CASE \E c \in Asserts : WriteAssert(c) \/ LandStaged(c)
      BY <3>1, AssertWrites DEF WriteAssert, LandStaged, Fresh, Types
    <3>2. CASE doc' = doc
      BY <3>2
    <3>3. QED
      BY <3>1, <3>2 DEF Next, vars, writeVars, Load, Stale, Refuse, StageAssert,
         ListForPair, AddTension, AddFails, AddContended, Weigh, BeginRuling,
         TakeLease, LeaseContended, ReadLog, TruncateLog, RewriteLog, RewriteFails, Lapse
  <2>4. QED
    BY <2>1, <2>2, <2>3
<1>7. QED
  BY <1>4, <1>5, <1>6 DEF Signing, Unsigned

\* What is still to be resolved was so before, or is being weighed, or is an
\* entry of the log that a ruling takes up.
LEMMA TodoStep ==
  ASSUME Types, [Next]_vars, NEW x \in Resolvers, ~ (x \in Consolidations /\ Weigh(x)),
         NEW n \in DOMAIN todo'[x]
  PROVE  \/ \E i \in DOMAIN todo[x] : todo'[x][n] = todo[x][i]
         \/ todo'[x][n].id \in LoggedIds /\ todo'[x][n].state = "ruled"
<1> USE Sorts
<1>1. todo \in [Resolvers -> Seq(Item)]
  BY DEF Types, Typed
<1>2. CASE todo'[x] = todo[x]
  BY <1>2
<1>3. CASE \E k \in Consolidations : Weigh(k)
  <2>1. PICK k \in Consolidations : Weigh(k)
    BY <1>3
  <2>2. x # k
    BY <2>1
  <2>3. todo'[x] = todo[x]
    BY <1>1, <2>1, <2>2 DEF Weigh
  <2>4. QED
    BY <1>2, <2>3
<1>4. CASE \E r \in Rulings : BeginRuling(r)
  <2>1. PICK r \in Rulings, i \in LoggedIds : todo' = [todo EXCEPT ![r] = <<[id |-> i, state |-> "ruled"]>>]
    BY <1>4 DEF BeginRuling
  <2>2. CASE x = r
    <3>1. todo'[x] = <<[id |-> i, state |-> "ruled"]>>
      BY <1>1, <2>1, <2>2
    <3>2. n = 1
      BY <3>1
    <3>3. QED
      BY <3>1, <3>2
  <2>3. CASE x # r
    BY <1>1, <1>2, <2>1, <2>3
  <2>4. QED
    BY <2>2, <2>3
<1>5. CASE \E y \in Resolvers : pc[y] \in AtWork \cup {"resolving"} /\ NextResolution(y)
  <2>1. PICK y \in Resolvers : pc[y] \in AtWork \cup {"resolving"} /\ NextResolution(y)
    BY <1>5
  <2>2. todo[y] # <<>> /\ todo' = [todo EXCEPT ![y] = Tail(@)]
    BY <2>1, ResolutionStep
  <2>3. CASE x = y
    <3>1. todo[x] \in Seq(Item) /\ todo[x] # <<>> /\ todo'[x] = Tail(todo[x])
      BY <1>1, <2>2, <2>3
    <3>2. /\ Len(todo[x]) \in Nat /\ DOMAIN todo[x] = 1 .. Len(todo[x])
          /\ DOMAIN todo'[x] = 1 .. Len(todo[x]) - 1
      BY <3>1, LenProperties, HeadTailProperties
    <3>3. n + 1 \in DOMAIN todo[x] /\ todo'[x][n] = todo[x][n + 1]
      BY <3>1, <3>2
    <3>4. QED
      BY <3>3
  <2>4. CASE x # y
    BY <1>1, <1>2, <2>2, <2>4
  <2>5. QED
    BY <2>3, <2>4
<1>6. CASE todo' = todo
  BY <1>2, <1>6
<1>7. QED
  BY <1>3, <1>4, <1>5, <1>6 DEF Next, vars, ruleVars, Load, Stale, Refuse, WriteAssert, StageAssert,
     LandStaged, ListForPair, AddTension, AddFails, AddContended, WriteConsolidation, TakeLease,
     LeaseContended, ReadLog, TruncateLog, RewriteLog, RewriteFails, Lapse, AtWork

\* What is being weighed was named by the caller or is in the batch.
LEMMA WeighedItems ==
  ASSUME Types, NEW k \in Consolidations, Weigh(k), NEW n \in DOMAIN todo'[k]
  PROVE  \/ \E i \in DOMAIN ask[k].single : todo'[k][n] = ask[k].single[i]
         \/ \E j \in DOMAIN log : Chosen(k, log[j]) /\ todo'[k][n] = [id |-> log[j].id, state |-> "consolidated"]
<1> DEFINE one == ask[k].single
           batch == Batch(k, log)
<1>1. todo'[k] = one \o batch
  BY Sorts DEF Weigh, Types, Typed
<1>2. Len(log) \in Nat /\ DOMAIN log = 1 .. Len(log)
  BY EntryTyped DEF Types, Typed
<1>3. batch \in Seq(Picked(k, log))
  BY <1>2, BatchPicks
<1>4. one \in Seq(Item)
  BY Sorts DEF Types, Typed, Ask
<1>5. one = ask[k].single
  OBVIOUS
<1> HIDE DEF one, batch
<1>6. /\ Len(one) \in Nat /\ DOMAIN one = 1 .. Len(one)
      /\ Len(batch) \in Nat /\ DOMAIN batch = 1 .. Len(batch)
      /\ \A i \in 1 .. Len(batch) : batch[i] \in Picked(k, log)
  BY <1>3, <1>4, LenProperties, ElementOfSeq
<1>7. DOMAIN (one \o batch) = 1 .. Len(one) + Len(batch)
  BY <1>6
<1>8. n \in Nat /\ 1 <= n /\ n <= Len(one) + Len(batch)
  BY <1>1, <1>6, <1>7
<1>9. CASE n <= Len(one)
  <2>1. (one \o batch)[n] = one[n] /\ n \in DOMAIN one
    BY <1>6, <1>8, <1>9
  <2>2. todo'[k][n] = one[n]
    BY <1>1, <2>1
  <2>3. QED
    BY <1>5, <2>1, <2>2
<1>10. CASE n > Len(one)
  <2>1. (one \o batch)[n] = batch[n - Len(one)] /\ n - Len(one) \in 1 .. Len(batch)
    BY <1>6, <1>8, <1>10
  <2>2. todo'[k][n] \in Picked(k, log)
    BY <1>1, <1>6, <2>1
  <2>3. QED
    BY <1>2, <2>2 DEF Picked
<1>11. QED
  BY <1>6, <1>8, <1>9, <1>10

\* Tensions are never forgotten.
LEMMA MintedGrows ==
  ASSUME [Next]_vars
  PROVE  minted \subseteq minted' /\ (minted' = minted \/ \E c \in Asserts : AddTension(c))
BY DEF Next, vars, logVars, Load, Stale, Refuse, WriteAssert, StageAssert, LandStaged, ListForPair,
   AddTension, Appends, AddFails, AddContended, Weigh, WriteConsolidation, BeginRuling, TakeLease,
   LeaseContended, ReadLog, TruncateLog, RewriteLog, RewriteFails, Lapse

LEMMA NamingStep ==
  ASSUME Types, Owing, Naming, [Next]_vars
  PROVE  Naming'
<1> USE Sorts
<1>1. \A id : Known(id) => Known(id)'
  BY MintedGrows DEF Known
<1>2. \A n \in DOMAIN log : Known(log[n].id)
  BY DEF Owing, Minted, Known
<1>3. ASSUME NEW x \in Resolvers, NEW n \in DOMAIN todo'[x]
      PROVE  Known(todo'[x][n].id)
  <2>1. CASE x \in Consolidations /\ Weigh(x)
    <3>1. \/ \E i \in DOMAIN ask[x].single : todo'[x][n] = ask[x].single[i]
          \/ \E j \in DOMAIN log : todo'[x][n] = [id |-> log[j].id, state |-> "consolidated"]
      BY <1>3, <2>1, WeighedItems
    <3>2. CASE \E i \in DOMAIN ask[x].single : todo'[x][n] = ask[x].single[i]
      BY <2>1, <3>2 DEF Naming
    <3>3. CASE \E j \in DOMAIN log : todo'[x][n] = [id |-> log[j].id, state |-> "consolidated"]
      BY <1>2, <3>3
    <3>4. QED
      BY <3>1, <3>2, <3>3
  <2>2. CASE ~ (x \in Consolidations /\ Weigh(x))
    <3>1. \/ \E i \in DOMAIN todo[x] : todo'[x][n] = todo[x][i]
          \/ todo'[x][n].id \in LoggedIds
      BY <1>3, <2>2, TodoStep
    <3>2. QED
      BY <1>2, <3>1 DEF Naming, LoggedIds
  <2>3. QED
    BY <2>1, <2>2
<1>4. ASSUME NEW k \in Consolidations, NEW n \in DOMAIN ask'[k].single
      PROVE  Known(ask'[k].single[n].id) /\ ask'[k].single[n].state # "consolidated"
  <2>1. CASE ask'[k] = ask[k]
    BY <1>4, <2>1 DEF Naming
  <2>2. CASE \E a \in AskFor(k) : ask'[k] = a
    <3>1. k \notin Asserts
      OBVIOUS
    <3>2. ask'[k].single \in Singles
      BY <2>2, <3>1 DEF AskFor
    <3>3. \A s \in {"accepted", "corrected"} : s # "consolidated"
      OBVIOUS
    <3>4. PICK i \in LoggedIds, s \in {"accepted", "corrected"} :
            ask'[k].single = <<[id |-> i, state |-> s]>>
      BY <1>4, <3>2 DEF Singles
    <3>5. n = 1
      BY <1>4, <3>4
    <3>6. QED
      BY <1>2, <3>3, <3>4, <3>5 DEF LoggedIds
  <2>3. ask' = ask \/ \E c \in Asserts \cup Consolidations : Load(c)
    BY DEF Next, vars, writeVars, Stale, Refuse, WriteAssert, StageAssert, LandStaged, ListForPair,
       AddTension, AddFails, AddContended, Weigh, WriteConsolidation, BeginRuling, TakeLease,
       LeaseContended, ReadLog, TruncateLog, RewriteLog, RewriteFails, Lapse
  <2>4. CASE \E c \in Asserts \cup Consolidations : Load(c)
    <3>1. PICK c \in Asserts \cup Consolidations : Load(c)
      BY <2>4
    <3>2. ask' = ask \/ \E a \in AskFor(c) : ask' = [ask EXCEPT ![c] = a]
      BY <3>1 DEF Load
    <3>3. QED
      BY <2>1, <2>2, <3>2 DEF Types, Typed
  <2>5. QED
    BY <2>1, <2>3, <2>4
<1>5. QED
  BY <1>1, <1>3, <1>4 DEF Naming

\* A step that leaves the document alone.
LEMMA CarriesKept ==
  ASSUME Carries, UNCHANGED doc, CarriedIn(log)',
         \A x \in Resolvers : raw'[x] \in {raw[x], log, <<>>},
         \A k \in Consolidations :
           doc.org.by = k \/ (pc'[k] = "weighed" /\ pc[k] = "weighed") =>
             Named(todo[k])' \subseteq Named(todo[k]),
         \A k \in Consolidations : pc'[k] = "weighed" =>
           \/ pc[k] = "weighed" /\ load'[k] = load[k] /\ ask'[k] = ask[k]
           \/ \A m \in Named(todo[k])' :
                Dissents(load[k].pos, Opposing(load[k].pos, ask[k].stance), m.a, m.b)'
  PROVE  Carries'
<1>1. \A x \in Resolvers : CarriedIn(raw[x])'
  <2>1. CarriedIn(<<>>)
    BY DEF CarriedIn
  <2>2. \A x \in Resolvers : CarriedIn(raw'[x])
    BY <2>1 DEF Carries
  <2>3. QED
    BY <2>2 DEF CarriedIn
<1>2. ASSUME NEW k \in Consolidations, doc'.org.by = k, NEW m \in Named(todo[k])'
      PROVE  Dissents(doc.pos, doc.org.dissent, m.a, m.b)'
  BY <1>2 DEF Carries, Dissents
<1>3. ASSUME NEW k \in Consolidations, pc'[k] = "weighed", NEW m \in Named(todo[k])'
      PROVE  Dissents(load[k].pos, Opposing(load[k].pos, ask[k].stance), m.a, m.b)'
  <2>1. CASE pc[k] = "weighed" /\ load'[k] = load[k] /\ ask'[k] = ask[k]
    <3>1. Dissents(load[k].pos, Opposing(load[k].pos, ask[k].stance), m.a, m.b)
      BY <1>3, <2>1 DEF Carries
    <3>2. QED
      BY <2>1, <3>1 DEF Dissents, Opposing, LiveWith, Live
  <2>2. QED
    BY <1>3, <2>1
<1>4. QED
  BY <1>1, <1>2, <1>3 DEF Carries

\* A consolidation that has been weighed was so before, as it was, or is now.
LEMMA WeighedStep ==
  ASSUME Types, [Next]_vars, NEW k \in Consolidations, pc'[k] = "weighed", ~ Weigh(k)
  PROVE  pc[k] = "weighed" /\ load'[k] = load[k] /\ ask'[k] = ask[k]
<1> USE Sorts
<1>1. /\ pc \in [Calls -> AssertPlaces \cup ResolvePlaces]
      /\ ask \in [Calls -> Ask]
      /\ load = [c \in Asserts \cup Consolidations |-> load[c]]
  BY DEF Types, Placed, Typed
<1>2. pc[k] = "weighed"
  <2>1. CASE \E j \in Consolidations : Weigh(j)
    BY <1>1, <2>1 DEF Weigh, Goes
  <2>2. CASE pc' = pc \/ \E c \in Calls : \E p : p # "weighed" /\ pc' = [pc EXCEPT ![c] = p]
    BY <1>1, <2>2
  <2>3. CASE \E c \in Asserts \cup Consolidations : Load(c) \/ Stale(c) \/ Refuse(c)
    BY <2>2, <2>3 DEF Load, Stale, Refuse, Goes
  <2>4. CASE \E c \in Asserts : \/ WriteAssert(c) \/ StageAssert(c) \/ LandStaged(c)
                                \/ ListForPair(c)
                                \/ AddTension(c) \/ AddFails(c) \/ AddContended(c)
    <3>1. PICK c \in Asserts : \E p : pc' = [pc EXCEPT ![c] = p]
      BY <2>4 DEF WriteAssert, StageAssert, LandStaged, ListForPair, AddTension, AddFails,
                  AddContended, NextPair, Goes
    <3>2. QED
      BY <1>1, <3>1
  <2>5. CASE \E x \in Resolvers : NextResolution(x)
    <3>1. PICK x \in Resolvers, p \in {"done", "resolving"} : pc' = [pc EXCEPT ![x] = p]
      BY <2>5 DEF NextResolution, Goes
    <3>2. QED
      BY <2>2, <3>1
  <2>6. CASE \E j \in Consolidations : WriteConsolidation(j)
    <3>1. PICK j \in Consolidations, p \in {"done", "resolving", "failed"} : pc' = [pc EXCEPT ![j] = p]
      BY <2>6 DEF WriteConsolidation, Goes
    <3>2. QED
      BY <2>2, <3>1
  <2>7. CASE \E r \in Rulings : BeginRuling(r)
    BY <2>2, <2>7 DEF BeginRuling, Goes
  <2>8. CASE \E x \in Resolvers : \/ TakeLease(x) \/ LeaseContended(x) \/ ReadLog(x)
                                  \/ TruncateLog(x) \/ RewriteLog(x) \/ RewriteFails(x)
    <3>1. \/ pc' = pc
          \/ \E x \in Resolvers : NextResolution(x)
          \/ \E x \in Resolvers, p \in {"reading", "rewriting", "truncated"} : pc' = [pc EXCEPT ![x] = p]
      BY <2>8 DEF TakeLease, LeaseContended, ReadLog, TruncateLog, RewriteLog, RewriteFails, Goes
    <3>2. QED
      BY <2>2, <2>5, <3>1
  <2>9. QED
    BY <2>1, <2>2, <2>3, <2>4, <2>6, <2>7, <2>8 DEF Next, Lapse, vars
<1>3. load'[k] = load[k] /\ ask'[k] = ask[k]
  <2>1. CASE \E c \in Asserts \cup Consolidations : Load(c)
    <3>1. PICK c \in Asserts \cup Consolidations : Load(c)
      BY <2>1
    <3>2. k # c
      BY <1>1, <3>1 DEF Load, Goes
    <3>3. /\ load' = [load EXCEPT ![c] = doc]
          /\ ask' = ask \/ \E a : ask' = [ask EXCEPT ![c] = a]
      BY <3>1 DEF Load
    <3>4. QED
      BY <1>1, <3>2, <3>3
  <2>2. CASE load' = load /\ ask' = ask
    BY <2>2
  <2>3. QED
    BY <2>1, <2>2 DEF Next, vars, writeVars, Stale, Refuse, WriteAssert, StageAssert, LandStaged, ListForPair,
       AddTension, AddFails, AddContended, Weigh, WriteConsolidation, BeginRuling, TakeLease,
       LeaseContended, ReadLog, TruncateLog, RewriteLog, RewriteFails, Lapse
<1>4. QED
  BY <1>2, <1>3

\* While nothing has gone wrong with the log a tension gets an id of its own, ...
LEMMA MintedOnce ==
  ASSUME Types, Ledger, ~ damaged, NEW m \in minted, NEW o \in minted, m.id = o.id
  PROVE  m = o
<1>1. \E s : Whole(s)
  BY DEF Ledger
<1>2. PICK s : Whole(s)
  BY <1>1
<1>3. m.a = o.a /\ m.b = o.b
  BY <1>2 DEF Whole
<1>4. m \in Tension /\ o \in Tension
  BY DEF Types, Typed
<1>5. QED
  BY <1>3, <1>4 DEF Tension

\* ... that nothing named before.
LEMMA MintedNew ==
  ASSUME Types, Numbered, Ledger, ~ damaged, [Next]_vars, NEW m \in minted', Known(m.id)
  PROVE  m \in minted
<1>1. CASE minted' = minted
  BY <1>1
<1>2. CASE \E c \in Asserts : AddTension(c)
  <2>1. PICK c \in Asserts : AddTension(c)
    BY <1>2
  <2>2. PICK e : /\ minted' = minted \cup {[id |-> e.id, a |-> e.a, b |-> e.b]}
                 /\ \A k \in DOMAIN log : log[k].id < e.id
    BY <2>1, AppendKeeps
  <2>3. \A x \in Resolvers : pc[x] # "truncated"
    BY <2>1, Sorts DEF AddTension, Ledger
  <2>4. Whole(log)
    BY <2>3 DEF Ledger
  <2>5. PICK k \in DOMAIN log : log[k].id = m.id
    BY <2>4 DEF Known, Whole
  <2>6. log[k].id \in Nat /\ log[k].id < e.id
    BY <2>2, EntryTyped DEF Types, Typed
  <2>7. m.id # e.id
    BY <2>5, <2>6
  <2>8. QED
    BY <2>2, <2>7
<1>3. QED
  BY <1>1, <1>2, MintedGrows

\* What is named stays named at most.
LEMMA NamedStep ==
  ASSUME Types, Numbered, Ledger, Naming, ~ damaged, [Next]_vars,
         NEW k \in Consolidations, ~ Weigh(k)
  PROVE  Named(todo[k])' \subseteq Named(todo[k])
<1> SUFFICES ASSUME NEW m \in Named(todo[k])'
             PROVE  m \in Named(todo[k])
  OBVIOUS
<1>1. PICK n \in DOMAIN todo'[k] : todo'[k][n].id = m.id /\ todo'[k][n].state = "consolidated"
  BY DEF Named
<1>2. m \in minted'
  BY DEF Named
<1>3. k \in Resolvers
  BY Sorts
<1>4. PICK i \in DOMAIN todo[k] : todo'[k][n] = todo[k][i]
  BY <1>1, <1>3, TodoStep
<1>5. todo[k][i].id = m.id /\ todo[k][i].state = "consolidated"
  BY <1>1, <1>4
<1>6. Known(m.id)
  BY <1>3, <1>5 DEF Naming
<1>7. QED
  BY <1>2, <1>5, <1>6, MintedNew DEF Named

\* What a consolidation weighs is in the dissent of what it read.
LEMMA WeighCarries ==
  ASSUME Types, Ledger, Owing, Chains, Naming, ~ damaged,
         NEW k \in Consolidations, Weigh(k), NEW m \in Named(todo[k])'
  PROVE  Dissents(load[k].pos, Opposing(load[k].pos, ask[k].stance), m.a, m.b)'
<1> DEFINE pos == load[k].pos
<1>1. UNCHANGED <<load, ask, minted>>
  BY DEF Weigh, writeVars, logVars
<1>2. PICK n \in DOMAIN todo'[k] : todo'[k][n].id = m.id /\ todo'[k][n].state = "consolidated"
  BY DEF Named
<1>3. m \in minted
  BY <1>1 DEF Named
<1>4. PICK j \in DOMAIN log : Chosen(k, log[j]) /\ log[j].id = m.id
  <2>1. \A i \in DOMAIN ask[k].single : ask[k].single[i].state # "consolidated"
    BY DEF Naming
  <2>2. PICK j \in DOMAIN log : /\ Chosen(k, log[j])
                                /\ todo'[k][n] = [id |-> log[j].id, state |-> "consolidated"]
    BY <1>2, <2>1, WeighedItems
  <2>3. QED
    BY <1>2, <2>2
<1>5. log[j].a = m.a /\ log[j].b = m.b
  <2> DEFINE o == [id |-> log[j].id, a |-> log[j].a, b |-> log[j].b]
  <2>1. o \in minted /\ o.id = m.id /\ o.a = log[j].a /\ o.b = log[j].b
    BY <1>4 DEF Owing, Minted
  <2> HIDE DEF o
  <2>2. o = m
    BY <1>3, <2>1, MintedOnce
  <2>3. QED
    BY <2>1, <2>2
<1>6. {m.a, m.b} \subseteq DOMAIN pos
  BY <1>4, <1>5 DEF Chosen
<1>7. PICK i \in {m.a, m.b} : ChainEnd(pos, i) \in Opposing(pos, ask[k].stance)
  BY <1>4, <1>5 DEF Chosen, Adjudicates
<1>8. ChainEnd(pos, ChainEnd(pos, i)) = ChainEnd(pos, i)
  <2>1. PICK p, e : p = pos /\ e = ChainEnd(pos, i)
    OBVIOUS
  <2>2. PICK l \in Nat : DOMAIN p \subseteq 0 .. l
    BY <2>1 DEF Chains, Chained
  <2>3. Linked(p)
    BY <2>1 DEF Chains, Chained
  <2>4. e \in DOMAIN p /\ p[e].next = 0
    BY <1>7, <2>1 DEF Opposing, LiveWith, Live
  <2>5. ChainEnd(p, e) = e
    BY <2>2, <2>3, <2>4, ChainEndIs
  <2>6. QED
    BY <2>1, <2>5
<1>9. Dissents(pos, Opposing(pos, ask[k].stance), m.a, m.b)
  BY <1>6, <1>7, <1>8 DEF Dissents
<1>10. QED
  BY <1>1, <1>9 DEF Dissents, Opposing, LiveWith, Live

\* What a consolidation resolves is in the dissent it ratified.
LEMMA RewriteCarries ==
  ASSUME Types, Ledger, Owing, Signing, Carries, ~ damaged',
         NEW x \in Resolvers, RewriteLog(x)
  PROVE  CarriedIn(log)'
<1>1. UNCHANGED doc /\ lease = x /\ ~ damaged /\ pc[x] = "truncated"
  BY DEF RewriteLog, writeVars
<1>2. PICK item \in Item : item = Head(todo[x])
  BY <1>1, ResolutionStep DEF RewriteLog, AtWork
<1>3. /\ DOMAIN log' = DOMAIN raw[x]
      /\ \A n \in DOMAIN log' :
           log'[n].id = raw[x][n].id /\ log'[n].a = raw[x][n].a /\ log'[n].b = raw[x][n].b
  BY <1>2, RewriteKeeps
<1>4. PICK h : /\ First(raw[x], item.id) # {} => h \in First(raw[x], item.id)
               /\ h \in DOMAIN log' => log'[h].state = item.state /\ log'[h].by = x
               /\ \A n \in DOMAIN log' : n # h => log'[n] = raw[x][n]
  BY <1>2, RewriteKeeps
<1>5. h \in DOMAIN raw[x] /\ raw[x][h].id = item.id
  BY <1>1, <1>2, <1>4 DEF Ledger, Target, First
<1>6. SUFFICES ASSUME NEW n \in DOMAIN log', log'[n].state = "consolidated", log'[n].by = doc.org.by
               PROVE  Dissents(doc.pos, doc.org.dissent, log'[n].a, log'[n].b)
  BY <1>1 DEF CarriedIn, Dissents
<1>7. CASE n # h
  BY <1>3, <1>4, <1>6, <1>7 DEF Carries, CarriedIn
<1>8. CASE n = h
  <2>1. doc.org.by = x /\ item.state = "consolidated"
    BY <1>4, <1>6, <1>8
  <2>2. x \in Consolidations
    BY <2>1, Sorts DEF Signing
  <2> DEFINE m == [id |-> raw[x][h].id, a |-> raw[x][h].a, b |-> raw[x][h].b]
  <2>3. m \in minted /\ m.id = item.id /\ m.a = log'[n].a /\ m.b = log'[n].b
    BY <1>3, <1>5, <1>8 DEF Owing, Minted
  <2> HIDE DEF m
  <2>4. 1 \in DOMAIN todo[x] /\ todo[x][1] = item
    <3>1. todo[x] \in Seq(Item) /\ todo[x] # <<>>
      BY <1>1 DEF Types, Typed, InHand, AtWork
    <3>2. QED
      BY <1>2, <3>1
  <2>5. m \in Named(todo[x])
    BY <2>1, <2>3, <2>4 DEF Named
  <2>6. Dissents(doc.pos, doc.org.dissent, m.a, m.b)
    BY <2>1, <2>2, <2>5 DEF Carries
  <2>7. QED
    BY <2>3, <2>6
<1>9. QED
  BY <1>7, <1>8

\* Writing an assert ...
LEMMA WriteCarries ==
  ASSUME Integrity, Types, Numbered, Chains, Carries, NEW c \in Asserts,
         WriteAssert(c) \/ LandStaged(c)
  PROVE  Carries'
<1>1. /\ doc' = Asserted(c, doc) /\ UNCHANGED <<log, minted, raw, todo, load, ask>>
      /\ \E p : pc' = [pc EXCEPT ![c] = p]
  BY DEF WriteAssert, LandStaged, Fresh, logVars, ruleVars, Goes
<1>2. /\ doc'.org = doc.org
      /\ \A i, j : Dissents(doc.pos, doc.org.dissent, i, j) =>
           Dissents(doc'.pos, doc'.org.dissent, i, j)
  BY <1>1, AssertCarries DEF Chains
<1>3. \A k \in Consolidations : pc'[k] = pc[k]
  BY <1>1, Sorts DEF Types, Placed
<1>4. \A s : CarriedIn(s) =>
        \A n \in DOMAIN s : s[n].state = "consolidated" /\ s[n].by = doc'.org.by =>
          Dissents(doc'.pos, doc'.org.dissent, s[n].a, s[n].b)
  BY <1>2 DEF CarriedIn
<1>5. CarriedIn(log)' /\ \A x \in Resolvers : CarriedIn(raw[x])'
  BY <1>1, <1>4 DEF Carries, CarriedIn, Dissents
<1>6. ASSUME NEW k \in Consolidations, doc'.org.by = k, NEW m \in Named(todo[k])'
      PROVE  Dissents(doc.pos, doc.org.dissent, m.a, m.b)'
  <2>1. m \in Named(todo[k])
    BY <1>1, <1>6 DEF Named
  <2>2. Dissents(doc'.pos, doc'.org.dissent, m.a, m.b)
    BY <1>2, <1>6, <2>1 DEF Carries
  <2>3. QED
    BY <2>2 DEF Dissents
<1>7. ASSUME NEW k \in Consolidations, pc'[k] = "weighed", NEW m \in Named(todo[k])'
      PROVE  Dissents(load[k].pos, Opposing(load[k].pos, ask[k].stance), m.a, m.b)'
  <2>1. m \in Named(todo[k])
    BY <1>1, <1>7 DEF Named
  <2>2. Dissents(load[k].pos, Opposing(load[k].pos, ask[k].stance), m.a, m.b)
    BY <1>3, <1>7, <2>1 DEF Carries
  <2>3. QED
    BY <1>1, <2>2 DEF Dissents, Opposing, LiveWith, Live
<1>8. QED
  BY <1>5, <1>6, <1>7 DEF Carries

\* ... and writing a consolidation.
LEMMA RatifyCarries ==
  ASSUME Integrity, Types, Signing, Carries, NEW k \in Consolidations, WriteConsolidation(k)
  PROVE  Carries'
<1> USE Sorts
<1>1. /\ doc' = Consolidated(k, doc) /\ load[k] = doc /\ pc[k] = "weighed"
      /\ UNCHANGED <<log, minted, raw, todo, load, ask>>
      /\ \E p \in {"done", "resolving", "failed"} : pc' = [pc EXCEPT ![k] = p]
  BY DEF WriteConsolidation, Fresh, logVars, ruleVars, Goes
<1>2. /\ doc'.pos = doc.pos /\ doc'.org.by = k
      /\ doc'.org.dissent = Opposing(doc.pos, ask[k].stance)
  BY <1>1 DEF Consolidated, Integrity, Shape
<1>3. /\ pc'[k] # "weighed"
      /\ \A j \in Consolidations : j # k => pc'[j] = pc[j]
  BY <1>1 DEF Types, Placed
<1>4. \A s : Unsigned(s) => \A n \in DOMAIN s : s[n].by # k
  BY <1>1 DEF Unsigned, Early
<1>5. CarriedIn(log)' /\ \A x \in Resolvers : CarriedIn(raw[x])'
  BY <1>1, <1>2, <1>4 DEF Signing, CarriedIn
<1>6. ASSUME NEW m \in Named(todo[k])'
      PROVE  Dissents(doc.pos, doc.org.dissent, m.a, m.b)'
  <2>1. m \in Named(todo[k])
    BY <1>1, <1>6 DEF Named
  <2>2. Dissents(load[k].pos, Opposing(load[k].pos, ask[k].stance), m.a, m.b)
    BY <1>1, <2>1 DEF Carries
  <2>3. Dissents(doc'.pos, doc'.org.dissent, m.a, m.b)
    BY <1>1, <1>2, <2>2
  <2>4. QED
    BY <2>3 DEF Dissents
<1>7. ASSUME NEW j \in Consolidations, pc'[j] = "weighed", NEW m \in Named(todo[j])'
      PROVE  Dissents(load[j].pos, Opposing(load[j].pos, ask[j].stance), m.a, m.b)'
  <2>1. m \in Named(todo[j]) /\ pc[j] = "weighed"
    BY <1>1, <1>3, <1>7 DEF Named
  <2>2. Dissents(load[j].pos, Opposing(load[j].pos, ask[j].stance), m.a, m.b)
    BY <2>1 DEF Carries
  <2>3. QED
    BY <1>1, <2>2 DEF Dissents, Opposing, LiveWith, Live
<1>8. QED
  BY <1>2, <1>5, <1>6, <1>7 DEF Carries

LEMMA CarriesStep ==
  ASSUME Integrity, Types, Numbered, Ledger, Owing, Carrying, [Next]_vars, ~ damaged'
  PROVE  Carries'
<1> USE Sorts
<1>1. ~ damaged
  BY DEF Next, vars, Load, Stale, Refuse, WriteAssert, StageAssert, LandStaged, ListForPair,
     AddTension, AddFails, AddContended, Weigh, WriteConsolidation, BeginRuling, TakeLease,
     LeaseContended, ReadLog, TruncateLog, RewriteLog, RewriteFails, Lapse
<1>2. Chains /\ Signing /\ Naming /\ Carries
  BY <1>1 DEF Carrying
<1>3. CASE \E c \in Asserts : WriteAssert(c) \/ LandStaged(c)
  BY <1>2, <1>3, WriteCarries
<1>4. CASE \E k \in Consolidations : WriteConsolidation(k)
  BY <1>2, <1>4, RatifyCarries
<1>5. CASE UNCHANGED doc
  <2>1. CarriedIn(log)'
    <3>1. CASE log' = log
      BY <1>2, <1>5, <3>1 DEF Carries, CarriedIn, Dissents
    <3>2. CASE log' = <<>>
      BY <3>2 DEF CarriedIn
    <3>3. CASE \E c \in Asserts : AddTension(c)
      <4>1. PICK c \in Asserts : AddTension(c)
        BY <3>3
      <4>2. PICK e : /\ e.state = "open"
                     /\ DOMAIN log' = DOMAIN log \cup {Len(log) + 1}
                     /\ log'[Len(log) + 1] = e
                     /\ \A n \in DOMAIN log : log'[n] = log[n]
        <5>1. PICK e : /\ e = [id |-> NextTensionId, a |-> Rival(c), b |-> mine[c], state |-> "open", by |-> c]
                       /\ DOMAIN log' = DOMAIN log \cup {Len(log) + 1}
                       /\ log'[Len(log) + 1] = e
                       /\ \A n \in DOMAIN log : log'[n] = log[n]
          BY <4>1, AppendKeeps
        <5>2. e.state = "open"
          BY <5>1
        <5>3. QED
          BY <5>1, <5>2
      <4>3. \A n \in DOMAIN log' : log'[n].state = "consolidated" => n \in DOMAIN log /\ log'[n] = log[n]
        BY <4>2
      <4>4. QED
        BY <1>2, <1>5, <4>3 DEF Carries, CarriedIn, Dissents
    <3>4. CASE \E x \in Resolvers : RewriteLog(x)
      BY <1>2, <3>4, RewriteCarries
    <3>5. QED
      BY <3>1, <3>2, <3>3, <3>4 DEF Next, vars, logVars, Load, Stale, Refuse, WriteAssert, StageAssert,
         LandStaged, ListForPair, AddFails, AddContended, Weigh, WriteConsolidation, BeginRuling,
         TakeLease, LeaseContended, ReadLog, TruncateLog, RewriteFails, Lapse
  <2>2. \A x \in Resolvers : raw'[x] \in {raw[x], log, <<>>}
    <3>1. raw' = raw \/ \E x \in Resolvers : raw' \in {[raw EXCEPT ![x] = log], [raw EXCEPT ![x] = <<>>]}
      BY DEF Next, vars, ruleVars, Load, Stale, Refuse, WriteAssert, StageAssert, LandStaged,
         ListForPair, AddTension, AddFails, AddContended, Weigh, WriteConsolidation, BeginRuling,
         TakeLease, LeaseContended, ReadLog, TruncateLog, RewriteLog, RewriteFails, Lapse,
         NextResolution
    <3>2. QED
      BY <3>1 DEF Types, Typed
  <2>3. ASSUME NEW k \in Consolidations, doc.org.by = k \/ (pc'[k] = "weighed" /\ pc[k] = "weighed")
        PROVE  Named(todo[k])' \subseteq Named(todo[k])
    <3>1. ~ Weigh(k)
      <4>1. Weigh(k) => pc[k] = "loaded" /\ pc[k] \in Early
        BY DEF Weigh, Early
      <4>2. QED
        BY <1>2, <2>3, <4>1 DEF Signing
    <3>2. QED
      BY <1>1, <1>2, <3>1, NamedStep
  <2>4. ASSUME NEW k \in Consolidations, pc'[k] = "weighed"
        PROVE  \/ pc[k] = "weighed" /\ load'[k] = load[k] /\ ask'[k] = ask[k]
               \/ \A m \in Named(todo[k])' :
                    Dissents(load[k].pos, Opposing(load[k].pos, ask[k].stance), m.a, m.b)'
    <3>1. CASE Weigh(k)
      BY <1>1, <1>2, <3>1, WeighCarries
    <3>2. CASE ~ Weigh(k)
      BY <2>4, <3>2, WeighedStep
    <3>3. QED
      BY <3>1, <3>2
  <2>5. QED
    BY <1>2, <1>5, <2>1, <2>2, <2>3, <2>4, CarriesKept
<1>6. QED
  BY <1>3, <1>4, <1>5 DEF Next, vars, writeVars, Load, Stale, Refuse, StageAssert, ListForPair,
     AddTension, AddFails, AddContended, Weigh, BeginRuling, TakeLease,
     LeaseContended, ReadLog, TruncateLog, RewriteLog, RewriteFails, Lapse

------------------------------------------------------------------------------
(***************************************************************************)
(* The invariant, and what it says of the log.                             *)
(***************************************************************************)
Core == Integrity /\ Types /\ Numbered /\ Ledger /\ Owing

LEMMA CoreInit ==
  ASSUME Init
  PROVE  Core
<1> USE Sorts
<1>1. PICK typed \in BOOLEAN :
        doc = [typed |-> typed, pos |-> <<>>, contested |-> FALSE, org |-> NoOrg, conf |-> "own"]
  BY DEF Init
<1>2. Integrity
  BY IntegrityInit
<1>3. Types
  <2>1. Typed
    <3>1. <<>> \in Seq(Entry) /\ <<>> \in Seq(Item)
      OBVIOUS
    <3>2. NoAsk \in Ask
      BY <3>1 DEF NoAsk, Ask
    <3>3. QED
      BY <3>1, <3>2 DEF Init, Typed
  <2>2. Placed
    BY DEF Init, Placed, AssertPlaces, ResolvePlaces
  <2>3. Bounded
    <3>1. doc.conf = "own"
      BY <1>1
    <3>2. 0 \in 0 .. MaxFaults /\ 0 \in 0 .. MaxLapses
      BY PositionsAssumption
    <3>3. QED
      BY <3>1, <3>2 DEF Init, Bounded
  <2>4. InHand
    BY DEF Init, InHand, AtWork
  <2>5. QED
    BY <2>1, <2>2, <2>3, <2>4 DEF Types
<1>4. Numbered
  <2>1. Written = {} /\ Total = 0
    BY FS_EmptySet DEF Init, Written, Total
  <2>2. UpTo(doc.pos, Total)
    BY <1>1, <2>1 DEF UpTo
  <2>3. \A c \in Asserts : mine[c] = 0 /\ against[c] = {}
    BY DEF Init
  <2>4. DOMAIN doc.pos = {} /\ minted = {} /\ log = <<>> /\ \A x \in Resolvers : raw[x] = <<>>
    BY <1>1 DEF Init
  <2>5. Numbers(<<>>)
    BY DEF Numbers
  <2>6. QED
    BY <2>1, <2>2, <2>3, <2>4, <2>5 DEF Numbered
<1>5. Ledger
  <2>1. Whole(log) /\ \A x \in Resolvers : pc[x] = "idle"
    BY DEF Init, Whole
  <2>2. QED
    BY <2>1 DEF Ledger
<1>6. Owing
  BY DEF Init, Owing, Minted
<1>7. QED
  BY <1>2, <1>3, <1>4, <1>5, <1>6 DEF Core

LEMMA CarryingInit ==
  ASSUME Init
  PROVE  Carrying
<1> USE Sorts
<1>1. doc.pos = <<>> /\ doc.org.by = Unknown
  BY DEF Init, NoOrg
<1>2. \A c \in Asserts \cup Consolidations : load[c].pos = <<>>
  BY <1>1 DEF Init
<1>3. Chained(<<>>)
  BY DEF Chained, Linked
<1>4. Chains
  BY <1>1, <1>2, <1>3 DEF Chains
<1>5. Signing
  BY <1>1 DEF Init, Signing, Unsigned
<1>6. Naming
  BY DEF Init, Naming, NoAsk
<1>7. Carries
  <2>1. CarriedIn(log) /\ \A x \in Resolvers : CarriedIn(raw[x])
    BY DEF Init, CarriedIn
  <2>2. \A k \in Consolidations : doc.org.by # k /\ pc[k] # "weighed"
    BY <1>1 DEF Init
  <2>3. QED
    BY <2>1, <2>2 DEF Carries
<1>8. QED
  BY <1>4, <1>5, <1>6, <1>7 DEF Carrying

LEMMA CarryingStep ==
  ASSUME Core, Carrying, [Next]_vars
  PROVE  Carrying'
BY ChainsStep, SigningStep, NamingStep, CarriesStep DEF Core, Carrying

\* The invariant of the log and the document together.
LEMMA Invariant == Spec => [](Core /\ Carrying)
<1>1. Init => Core /\ Carrying
  BY CoreInit, CarryingInit
<1>2. Core /\ Carrying /\ [Next]_vars => (Core /\ Carrying)'
  BY IntegrityStep, TypesStep, NumberedStep, LedgerStep, OwingStep, CarryingStep DEF Core
<1>3. QED
  BY <1>1, <1>2, PTL DEF Spec

\* The lease "__tensions__" and the synchronous append: as long as no rewrite
\* has failed, died or outlived its lease, the log has every tension that was
\* ever logged, each under an id of its own, and every resolution stands.
THEOREM LedgerKeepsHolds == Spec => []LedgerKeeps
<1>1. Core => LedgerKeeps
  <2> SUFFICES ASSUME Core PROVE LedgerKeeps
    OBVIOUS
  <2>1. TypeOK
    <3>1. /\ doc.typed \in BOOLEAN /\ doc.contested \in BOOLEAN
      BY DEF Core, Integrity, Shape, PositionIntegrity, IsContested
    <3>2. DOMAIN doc.pos \subseteq 0 .. Cardinality(Asserts)
      BY Counts DEF Core, Types, Numbered, UpTo
    <3>3. \A k \in DOMAIN log : log[k].id \in TensionIds
      BY Counts DEF Core, Types, Numbered, Numbers
    <3>4. QED
      BY <3>1, <3>2, <3>3, Sorts DEF Core, Types, Bounded, TypeOK
  <2>2. LogWhole => Whole(log)
    BY DEF Core, Ledger, LogWhole
  <2>3. QED
    BY <2>1, <2>2 DEF LedgerKeeps, Whole
<1>2. QED
  BY <1>1, Invariant, PTL

\* vault_assert: of two live positions in conflict there is a tension in the
\* log, or the later assert answered with a tension_error.
THEOREM ConflictsRecordedHolds == Spec => []ConflictsRecorded
<1>1. Core => ConflictsRecorded
  <2> SUFFICES ASSUME Core, LogWhole, NEW i \in Live(doc.pos), NEW j \in Live(doc.pos),
                      Conflict(i, j), pc[doc.pos[j].of] = "done", doc.pos[j].of \notin unlogged
               PROVE  Recorded(i, j)
    BY DEF ConflictsRecorded
  <2>1. i \in Nat /\ j \in Nat /\ i < j /\ j \in DOMAIN doc.pos
    <3>1. DOMAIN doc.pos \subseteq 0 .. Cardinality(Asserts) /\ Cardinality(Asserts) \in Nat
      BY Counts DEF Core, Types, Numbered, UpTo
    <3>2. QED
      BY <3>1 DEF Live, Conflict
  <2>2. PICK c \in Asserts : c = doc.pos[j].of /\ mine[c] = j
    BY <2>1 DEF Core, Numbered
  <2>3. against[c] = {}
    BY <2>2 DEF Core, Types, InHand
  <2>4. <<i, j>> \in Pairs
    BY <2>2, <2>3 DEF Core, Owing
  <2>5. PICK m \in minted : m.a = i /\ m.b = j
    BY <2>4 DEF Pairs
  <2>6. Whole(log)
    BY DEF Core, Ledger, LogWhole
  <2>7. PICK k \in DOMAIN log : log[k].a = i /\ log[k].b = j
    BY <2>5, <2>6 DEF Whole
  <2>8. QED
    BY <2>7 DEF Recorded, Names
<1>2. QED
  BY <1>1, Invariant, PTL

\* vault_consolidate, resolve_tensions "dissent": of each tension that the
\* ratified consolidation has resolved as consolidated, one of the positions is
\* in the dissent it recorded, by what their principals have come to hold.
THEOREM DissentCarriedHolds == Spec => []DissentCarried
<1>1. Core /\ Carrying => DissentCarried
  <2> SUFFICES ASSUME Carrying, ~ damaged,
                      NEW n \in DOMAIN log, log[n].state = "consolidated", doc.org.by = log[n].by
               PROVE  \E i \in doc.org.dissent :
                        ChainEnd(doc.pos, i) \in {ChainEnd(doc.pos, log[n].a), ChainEnd(doc.pos, log[n].b)}
    BY DEF DissentCarried
  <2>1. Dissents(doc.pos, doc.org.dissent, log[n].a, log[n].b)
    BY DEF Carrying, Carries, CarriedIn
  <2>2. QED
    BY <2>1 DEF Dissents
<1>2. QED
  BY <1>1, Invariant, PTL

================================================================================
