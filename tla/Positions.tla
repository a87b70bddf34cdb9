------------------------------- MODULE Positions -------------------------------
(***************************************************************************)
(* Contested beliefs: the positions principals take on one claim document  *)
(* (vault_assert, vault_consolidate, src/src/tools/positions.ts) and the   *)
(* tension log that records their conflicts (.daftari/tensions.md,         *)
(* src/src/curation/tension.ts), which others resolve meanwhile            *)
(* (vault_tension_resolve, daftari court).                                 *)
(*                                                                         *)
(* A write of the document is one step, or two where it fails after the    *)
(* text has landed: AtomicStore is what WritePath implements.  Appending   *)
(* to the log is synchronous; resolving reads it, truncates it and writes  *)
(* it back under the lease "__tensions__".  Entries of other kinds than    *)
(* "positional" are left out: they only use up numbers.                    *)
(***************************************************************************)
EXTENDS Naturals, Sequences, FiniteSets

CONSTANTS
  Asserts,         \* the calls of vault_assert, each made at most once
  Consolidations,  \* the calls of vault_consolidate
  Rulings,         \* the calls of vault_tension_resolve and daftari court
  Principals,      \* who may assert
  Unknown,         \* the principal of a legacy snapshot
  Free,            \* nobody holds the lease
  MaxLapses,       \* bound: how many leases lapse under their holder
  MaxFaults        \* bound: how many rewrites and appends of the log fail

Calls     == Asserts \cup Consolidations \cup Rulings
Resolvers == Consolidations \cup Rulings

ASSUME PositionsAssumption ==
  /\ Asserts \cap Resolvers = {} /\ Consolidations \cap Rulings = {}
  /\ IsFiniteSet(Asserts)
  /\ Unknown \notin Principals \cup Calls
  /\ Free \notin Calls
  /\ MaxLapses \in Nat /\ MaxFaults \in Nat

Stances == {"assert", "dispute", "qualify"}

VARIABLES
  doc,      \* the document: positions, ratified stance, flags
  log,      \* the entries of tensions.md, [id, a, b, state, by]
  lease,    \* who holds "__tensions__"
  pc,       \* where each call is
  ask,      \* what each call of a positions tool asks for
  load,     \* the document as it has last loaded it
  again,    \* the calls that have retried a stale write
  waited,   \* the calls that have retried the lease of the log
  mine,     \* the id of the position each assert has written
  against,  \* the positions it has still to log a conflict with
  unlogged, \* the asserts that answer with a tension_error
  todo,     \* the resolutions each resolver has still to record, in order
  raw,      \* the log as it has read it
  faults,   \* how many appends and rewrites have failed
  lapses,   \* how many leases have lapsed
  \* History variables, read by properties only:
  damaged,  \* has a rewrite of the log failed, died or outlived its lease?
  minted,   \* the tensions ever logged, [id, a, b]
  ruled     \* the resolutions ever written back, [id, state]

writeVars  == <<doc, load, ask, again>>
assertVars == <<mine, against, unlogged>>
logVars    == <<log, minted>>
leaseVars  == <<lease, lapses>>
ruleVars   == <<todo, raw, ruled>>
vars == <<writeVars, assertVars, logVars, leaseVars, ruleVars, pc, waited, faults, damaged>>

------------------------------------------------------------------------------
(***************************************************************************)
(* Positions.  doc.pos is a function from ids to positions; .typed is      *)
(* FALSE on a legacy document that has none.  A position names its         *)
(* principal, its stance, the id that supersedes it (0 while it is live)   *)
(* and the call that took it, which stands for its statement and date.     *)
(***************************************************************************)
Opposite(s) == CASE s = "assert" -> "dispute" [] s = "dispute" -> "assert"
                 [] OTHER -> "none"

Live(pos) == {i \in DOMAIN pos : pos[i].next = 0}
LiveWith(pos, s) == {i \in Live(pos) : pos[i].stance = s}
IsContested(pos) == LiveWith(pos, "assert") # {} /\ LiveWith(pos, "dispute") # {}

\* dissentIds, conflictPairs: the live positions that oppose a stance.
Opposing(pos, s) == LiveWith(pos, Opposite(s))

NextPositionId(pos) ==
  IF DOMAIN pos = {} THEN 1
  ELSE 1 + CHOOSE i \in DOMAIN pos : \A j \in DOMAIN pos : j <= i

\* chainEnd: the position a principal has come to hold since.
ChainEnd(pos, i) ==
  LET end[j \in DOMAIN pos] == IF pos[j].next = 0 THEN j ELSE end[pos[j].next]
  IN  end[i]

LegacySnapshot == [by |-> Unknown, stance |-> "assert", next |-> 0, of |-> Unknown]
BasePositions(d) == IF d.typed THEN d.pos ELSE [i \in {0} |-> LegacySnapshot]

\* applyAssert.
ApplyAssert(c, pos) ==
  LET id == NextPositionId(pos)
      new == [by |-> ask[c].by, stance |-> ask[c].stance, next |-> 0, of |-> c]
  IN  [i \in DOMAIN pos \cup {id} |->
         IF i = id THEN new
         ELSE IF pos[i].by = ask[c].by /\ pos[i].next = 0
              THEN [pos[i] EXCEPT !.next = id]
              ELSE pos[i]]

NoOrg == [by |-> Unknown, stance |-> "none", dissent |-> {}]

\* The cap, whether or not the organisation has ratified a stance.
Confidence_Bug(pos, d) == IF IsContested(pos) THEN "low" ELSE d.conf

Confidence(pos, d) == IF IsContested(pos) /\ d.org = NoOrg THEN "low" ELSE d.conf

\* The document vault_assert composes from d.
Asserted(c, d) ==
  LET pos == ApplyAssert(c, BasePositions(d))
  IN  [d EXCEPT !.typed = TRUE, !.pos = pos, !.contested = IsContested(pos),
                !.conf = Confidence(pos, d)]

\* The document vault_consolidate composes: the confidence mirrors the
\* ratified one.
Consolidated(k, d) ==
  [d EXCEPT !.org = [by |-> k, stance |-> ask[k].stance,
                     dissent |-> Opposing(d.pos, ask[k].stance)],
            !.conf = "ratified",
            !.contested = d.typed /\ IsContested(d.pos)]

------------------------------------------------------------------------------
(***************************************************************************)
(* The log.                                                                *)
(***************************************************************************)
NextTensionId ==
  LET used == {log[k].id : k \in DOMAIN log}
  IN  IF used = {} THEN 1 ELSE 1 + CHOOSE i \in used : \A j \in used : j <= i

\* An assert has a conflict with the snapshot and with each earlier assert.
TensionIds == 1 .. (Cardinality(Asserts) * (Cardinality(Asserts) + 1)) \div 2

Names(e, i, j) == {e.a, e.b} = {i, j}
Open(entries) == {k \in DOMAIN entries : entries[k].state = "open"}
First(entries, id) ==
  {n \in DOMAIN entries : entries[n].id = id /\ \A m \in 1 .. n - 1 : entries[m].id # id}
Resolvable(id) == First(log, id) \cap Open(log) # {}
AtWork == {"reading", "rewriting", "truncated"}

TypeOK ==
  /\ doc.typed \in BOOLEAN /\ doc.contested \in BOOLEAN
  /\ DOMAIN doc.pos \subseteq 0 .. Cardinality(Asserts)
  /\ doc.conf \in {"own", "low", "ratified"}
  /\ \A k \in DOMAIN log : log[k].id \in TensionIds
  /\ lease \in Calls \cup {Free}
  /\ lease # Free => pc[lease] \in AtWork
  /\ again \cup waited \subseteq Calls
  /\ unlogged \subseteq Asserts
  /\ faults \in 0 .. MaxFaults /\ lapses \in 0 .. MaxLapses
  /\ damaged \in BOOLEAN

NoAsk == [by |-> Unknown, stance |-> "none", mode |-> "none", single |-> <<>>]

Init ==
  /\ \E typed \in BOOLEAN :
       doc = [typed |-> typed, pos |-> <<>>, contested |-> FALSE, org |-> NoOrg, conf |-> "own"]
  /\ log = <<>> /\ lease = Free
  /\ pc = [c \in Calls |-> "idle"]
  /\ ask = [c \in Calls |-> NoAsk]
  /\ load = [c \in Asserts \cup Consolidations |-> doc]
  /\ again = {} /\ waited = {}
  /\ mine = [c \in Asserts |-> 0]
  /\ against = [c \in Asserts |-> {}]
  /\ unlogged = {}
  /\ todo = [x \in Resolvers |-> <<>>]
  /\ raw = [x \in Resolvers |-> <<>>]
  /\ faults = 0 /\ lapses = 0 /\ damaged = FALSE
  /\ minted = {} /\ ruled = {}

Goes(c, place) == pc' = [pc EXCEPT ![c] = place]

------------------------------------------------------------------------------
(***************************************************************************)
(* The write both tools do.                                                *)
(***************************************************************************)
\* What may be asked: an assert directly or by a propose-only role, a
\* consolidation with or without the batch, and with or without a resolution of
\* a tension that is in the log by then.
LoggedIds == {log[n].id : n \in DOMAIN log}
Singles == {<<>>} \cup {<<[id |-> i, state |-> s]>> : i \in LoggedIds, s \in {"accepted", "corrected"}}
AskFor(c) ==
  IF c \in Asserts
  THEN [by : Principals, stance : Stances, mode : {"direct", "propose"}, single : {<<>>}]
  ELSE {a \in [by : {Unknown}, stance : Stances, mode : {"alone", "dissent"}, single : Singles] :
          a.stance = "qualify" => a.mode = "alone"}

\* loadTargetDocument, the first time or for the retry.
Load(c) ==
  /\ pc[c] = "idle"
  /\ \/ c \notin again /\ \E a \in AskFor(c) : ask' = [ask EXCEPT ![c] = a]
     \/ c \in again /\ UNCHANGED ask
  /\ load' = [load EXCEPT ![c] = doc]
  /\ Goes(c, "loaded")
  /\ UNCHANGED <<doc, again, assertVars, logVars, leaseVars, ruleVars, waited, faults, damaged>>

\* No base_version is given.
Fresh_Bug(c) == TRUE

\* The hash comparison under the document's lease.
Fresh(c) == doc = load[c]

Composed(c) == pc[c] = (IF c \in Asserts THEN "loaded" ELSE "weighed")

\* retryOnStale: once.
Stale(c) ==
  /\ Composed(c) /\ ~ Fresh(c)
  /\ ask[c].mode # "propose"
  /\ \/ c \notin again /\ again' = again \cup {c} /\ Goes(c, "idle")
     \/ c \in again /\ UNCHANGED again /\ Goes(c, "failed")
  /\ UNCHANGED <<doc, load, ask, assertVars, logVars, leaseVars, ruleVars, waited, faults, damaged>>

\* Everything else that makes the call an error before it has written.
Refuse(c) ==
  /\ pc[c] \in {"loaded", "weighed"}
  /\ Goes(c, "failed")
  /\ UNCHANGED <<writeVars, assertVars, logVars, leaseVars, ruleVars, waited, faults, damaged>>

------------------------------------------------------------------------------
(***************************************************************************)
(* vault_assert.                                                           *)
(***************************************************************************)
\* The text lands, and either the call goes on to its conflicts or the commit
\* fails and the call is an error.
WriteAssert(c) ==
  LET d == Asserted(c, load[c])
      id == NextPositionId(BasePositions(load[c]))
      conflicts == Opposing(d.pos, ask[c].stance)
  IN  /\ pc[c] = "loaded" /\ ask[c].mode = "direct" /\ Fresh(c)
      /\ doc' = d
      /\ mine' = [mine EXCEPT ![c] = id]
      /\ \/ /\ against' = [against EXCEPT ![c] = conflicts]
            /\ Goes(c, IF conflicts = {} THEN "done" ELSE "listing")
         \/ /\ UNCHANGED against
            /\ Goes(c, "failed")
      /\ UNCHANGED <<load, ask, again, unlogged, logVars, leaseVars, ruleVars, waited,
                     faults, damaged>>

\* A propose-only role: the composed text becomes a staged write.
StageAssert(c) ==
  /\ pc[c] = "loaded" /\ ask[c].mode = "propose"
  /\ Goes(c, "staged")
  /\ UNCHANGED <<writeVars, assertVars, logVars, leaseVars, ruleVars, waited, faults, damaged>>

\* vault_ratify dispatches it through vault_write, with its base_version; the
\* commit may fail here as well.
LandStaged(c) ==
  /\ pc[c] = "staged" /\ Fresh(c)
  /\ doc' = Asserted(c, load[c])
  /\ mine' = [mine EXCEPT ![c] = NextPositionId(BasePositions(load[c]))]
  /\ Goes(c, "landed") \/ Goes(c, "failed")
  /\ UNCHANGED <<load, ask, again, against, unlogged, logVars, leaseVars, ruleVars, waited,
                 faults, damaged>>

\* The pairs are taken in the order of the positions.
Rival(c) == CHOOSE i \in against[c] : \A j \in against[c] : i <= j

\* The pair at hand has been dealt with, well or not.
NextPair(c, logged) ==
  LET left == against[c] \ {Rival(c)} IN
  /\ against' = [against EXCEPT ![c] = left]
  /\ unlogged' = IF logged THEN unlogged ELSE unlogged \cup {c}
  /\ waited' = waited \ {c}
  /\ Goes(c, IF left = {} THEN "done" ELSE "listing")
  /\ UNCHANGED mine

\* listTensions, which takes no lease; a pair that has an open tension needs
\* no other.
ListForPair(c) ==
  /\ pc[c] = "listing"
  /\ IF \E k \in Open(log) : Names(log[k], Rival(c), mine[c])
     THEN NextPair(c, TRUE)
     ELSE Goes(c, "adding") /\ UNCHANGED <<assertVars, waited>>
  /\ UNCHANGED <<writeVars, logVars, leaseVars, ruleVars, faults, damaged>>

Appends(c) ==
  LET id == NextTensionId IN
  /\ log' = Append(log, [id |-> id, a |-> Rival(c), b |-> mine[c], state |-> "open", by |-> c])
  /\ minted' = minted \cup {[id |-> id, a |-> Rival(c), b |-> mine[c]]}

\* The read, the id and the append without the lease.
AddTension_Bug(c) ==
  /\ pc[c] = "adding"
  /\ Appends(c) /\ NextPair(c, TRUE)
  /\ UNCHANGED <<writeVars, leaseVars, ruleVars, faults, damaged>>

\* addTension: from taking the lease to giving it back there is no await.
AddTension(c) ==
  /\ pc[c] = "adding" /\ lease = Free
  /\ Appends(c) /\ NextPair(c, TRUE)
  /\ UNCHANGED <<writeVars, leaseVars, ruleVars, faults, damaged>>

\* The append throws.
AddFails(c) ==
  /\ pc[c] = "adding" /\ lease = Free
  /\ faults < MaxFaults /\ faults' = faults + 1
  /\ NextPair(c, FALSE)
  /\ UNCHANGED <<writeVars, logVars, leaseVars, ruleVars, damaged>>

\* The second refusal is not mentioned.
AddContended_Bug(c) ==
  /\ pc[c] = "adding" /\ lease # Free
  /\ IF c \in waited THEN NextPair(c, TRUE)
     ELSE waited' = waited \cup {c} /\ Goes(c, "listing") /\ UNCHANGED assertVars
  /\ UNCHANGED <<writeVars, logVars, leaseVars, ruleVars, faults, damaged>>

\* retryOnTensionLease: once, listing again first.
AddContended(c) ==
  /\ pc[c] = "adding" /\ lease # Free
  /\ IF c \in waited THEN NextPair(c, FALSE)
     ELSE waited' = waited \cup {c} /\ Goes(c, "listing") /\ UNCHANGED assertVars
  /\ UNCHANGED <<writeVars, logVars, leaseVars, ruleVars, faults, damaged>>

------------------------------------------------------------------------------
(***************************************************************************)
(* vault_consolidate.                                                      *)
(***************************************************************************)
\* Every open tension, also one whose conflict is gone.
Adjudicates_Bug(pos, s, e) == e.state = "open"

\* qualifyingDissentTensions: of what the two have come to hold, one is the
\* ratified stance and the other is in the dissent.
Adjudicates(pos, s, e) ==
  /\ e.state = "open"
  /\ \E i, j \in {e.a, e.b} :
       pos[ChainEnd(pos, i)].stance = s /\ ChainEnd(pos, j) \in Opposing(pos, s)

\* The ids of the batch, in the order of the log.
Batch(k, entries) ==
  LET chosen(e) == /\ ask[k].mode = "dissent" /\ e.id \notin {ask[k].single[n].id : n \in DOMAIN ask[k].single}
                   /\ {e.a, e.b} \subseteq DOMAIN load[k].pos
                   /\ Adjudicates(load[k].pos, ask[k].stance, e)
      upTo[n \in 0 .. Len(entries)] ==
        IF n = 0 THEN <<>>
        ELSE IF chosen(entries[n])
             THEN Append(upTo[n - 1], [id |-> entries[n].id, state |-> "consolidated"])
             ELSE upTo[n - 1]
  IN  upTo[Len(entries)]

\* The tension named is open, and is accepted only where there is dissent.
SingleAllowed(k) ==
  \A n \in DOMAIN ask[k].single : LET item == ask[k].single[n] IN
    /\ Resolvable(item.id)
    /\ item.state = "accepted" => Opposing(load[k].pos, ask[k].stance) # {}

\* listTensions, and what is to be resolved once the document is written.
\* Where SingleAllowed does not hold the call is an error (Refuse).
Weigh(k) ==
  /\ pc[k] = "loaded" /\ SingleAllowed(k)
  /\ todo' = [todo EXCEPT ![k] = ask[k].single \o Batch(k, log)]
  /\ Goes(k, "weighed")
  /\ UNCHANGED <<writeVars, assertVars, logVars, leaseVars, raw, ruled, waited, faults, damaged>>

WriteConsolidation(k) ==
  /\ pc[k] = "weighed" /\ Fresh(k)
  /\ doc' = Consolidated(k, load[k])
  /\ \/ Goes(k, IF todo[k] = <<>> THEN "done" ELSE "resolving")
     \/ Goes(k, "failed")
  /\ UNCHANGED <<load, ask, again, assertVars, logVars, leaseVars, ruleVars, waited,
                 faults, damaged>>

------------------------------------------------------------------------------
(***************************************************************************)
(* resolveTension, for a consolidation or for a ruling.                    *)
(***************************************************************************)
BeginRuling(r) ==
  /\ pc[r] = "idle"
  /\ \E i \in LoggedIds : todo' = [todo EXCEPT ![r] = <<[id |-> i, state |-> "ruled"]>>]
  /\ Goes(r, "resolving")
  /\ UNCHANGED <<writeVars, assertVars, logVars, leaseVars, raw, ruled, waited, faults, damaged>>

\* The resolution at hand has been dealt with: a consolidation goes on with
\* the next one also after a resolve_error.
NextResolution(x) ==
  /\ todo' = [todo EXCEPT ![x] = Tail(@)]
  /\ raw' = [raw EXCEPT ![x] = <<>>]
  /\ waited' = waited \ {x}
  /\ Goes(x, IF Tail(todo[x]) = <<>> THEN "done" ELSE "resolving")

\* releaseLock, in the finally.
Release(x) == lease' = IF lease = x THEN Free ELSE lease

TakeLease(x) ==
  /\ pc[x] = "resolving" /\ lease = Free
  /\ lease' = x
  /\ Goes(x, "reading")
  /\ UNCHANGED <<writeVars, assertVars, logVars, lapses, ruleVars, waited, faults, damaged>>

\* A consolidation tries once more, a ruling does not.
LeaseContended(x) ==
  /\ pc[x] = "resolving" /\ lease # Free
  /\ IF x \in Consolidations \ waited
     THEN waited' = waited \cup {x} /\ UNCHANGED <<todo, raw, pc>>
     ELSE NextResolution(x)
  /\ UNCHANGED <<writeVars, assertVars, logVars, leaseVars, ruled, faults, damaged>>

\* readFile; not found, or resolved already, is an error.
ReadLog(x) ==
  /\ pc[x] = "reading"
  /\ IF Resolvable(Head(todo[x]).id)
     THEN /\ raw' = [raw EXCEPT ![x] = log]
          /\ Goes(x, "rewriting")
          /\ UNCHANGED <<lease, todo, waited>>
     ELSE NextResolution(x) /\ Release(x)
  /\ UNCHANGED <<writeVars, assertVars, logVars, lapses, ruled, faults, damaged>>

\* writeFile opens the file, ...
TruncateLog(x) ==
  /\ pc[x] = "rewriting"
  /\ log' = <<>>
  /\ Goes(x, "truncated")
  /\ damaged' = (damaged \/ lease # x)
  /\ UNCHANGED <<writeVars, assertVars, minted, leaseVars, ruleVars, waited, faults>>

\* ... and fills it; the lease is given back.
RewriteLog(x) ==
  LET item == Head(todo[x])
      hit == CHOOSE n \in First(raw[x], item.id) : TRUE
  IN  /\ pc[x] = "truncated"
      /\ log' = [raw[x] EXCEPT ![hit].state = item.state, ![hit].by = x]
      /\ ruled' = ruled \cup {item}
      /\ NextResolution(x) /\ Release(x)
      /\ damaged' = (damaged \/ lease # x)
      /\ UNCHANGED <<writeVars, assertVars, minted, lapses, faults>>

\* It throws half way: the log stays empty.
RewriteFails(x) ==
  /\ pc[x] = "truncated"
  /\ faults < MaxFaults /\ faults' = faults + 1
  /\ NextResolution(x) /\ Release(x)
  /\ damaged' = TRUE
  /\ UNCHANGED <<writeVars, assertVars, logVars, lapses, ruled>>

\* The TTL of the lease elapses.  A holder that takes no further step is one
\* that has died.
Lapse ==
  /\ lease # Free
  /\ lapses < MaxLapses /\ lapses' = lapses + 1
  /\ lease' = Free
  /\ damaged' = (damaged \/ pc[lease] = "truncated")
  /\ UNCHANGED <<writeVars, assertVars, logVars, ruleVars, pc, waited, faults>>

Next ==
  \/ \E c \in Asserts \cup Consolidations : Load(c) \/ Stale(c) \/ Refuse(c)
  \/ \E c \in Asserts : \/ WriteAssert(c) \/ StageAssert(c) \/ LandStaged(c)
                        \/ ListForPair(c)
                        \/ AddTension(c) \/ AddFails(c) \/ AddContended(c)
  \/ \E k \in Consolidations : Weigh(k) \/ WriteConsolidation(k)
  \/ \E r \in Rulings : BeginRuling(r)
  \/ \E x \in Resolvers : \/ TakeLease(x) \/ LeaseContended(x) \/ ReadLog(x)
                          \/ TruncateLog(x) \/ RewriteLog(x) \/ RewriteFails(x)
  \/ Lapse

\* No call needs to go on.
Spec == Init /\ [][Next]_vars

------------------------------------------------------------------------------
(***************************************************************************)
(* Properties.                                                             *)
(***************************************************************************)
\* applyAssert under the hash comparison ("no position is ever silently
\* overwritten"): whoever asserts, consolidates and ratifies at once, a
\* position stays as it is, but that its own principal may supersede it.
PositionsKept == [][
  \A i \in DOMAIN doc.pos :
    /\ i \in DOMAIN doc'.pos
    /\ \/ doc'.pos[i] = doc.pos[i]
       \/ \E n \in DOMAIN doc'.pos \ DOMAIN doc.pos :
            /\ doc.pos[i].next = 0
            /\ doc'.pos[i] = [doc.pos[i] EXCEPT !.next = n]
            /\ doc'.pos[n].by = doc.pos[i].by ]_doc

\* What the position checks of vault_lint look for is never brought about by
\* the tools: two live positions of one principal, a contested flag or a cap
\* that does not follow from the positions, a confidence that has drifted from
\* the ratified one, dissent by nobody.
PositionIntegrity ==
  /\ \A i, j \in Live(doc.pos) : doc.pos[i].by = doc.pos[j].by => i = j
  /\ doc.contested = IsContested(doc.pos)
  /\ doc.org = NoOrg /\ doc.contested => doc.conf = "low"
  /\ doc.org # NoOrg => doc.conf = "ratified"
  /\ doc.org.dissent \subseteq DOMAIN doc.pos

\* Nobody is in the middle of a rewrite, and none went wrong.
LogWhole == ~ damaged /\ \A x \in Resolvers : pc[x] # "truncated"

Recorded(i, j) == \E k \in DOMAIN log : Names(log[k], i, j)
Conflict(i, j) == i < j /\ doc.pos[j].stance = Opposite(doc.pos[i].stance)

\* vault_assert: of two live positions in conflict there is a tension, unless
\* the later assert has said that it could not log it.
ConflictsRecorded ==
  LogWhole =>
    \A i, j \in Live(doc.pos) : LET c == doc.pos[j].of IN
      Conflict(i, j) /\ pc[c] = "done" /\ c \notin unlogged => Recorded(i, j)

\* The lease "__tensions__" and the synchronous append: no tension is lost to
\* a rewrite, two never get one id, and what has been resolved stays so.
LedgerKeeps ==
  /\ TypeOK
  /\ LogWhole =>
       /\ \A m \in minted : \E k \in DOMAIN log :
            log[k].id = m.id /\ log[k].a = m.a /\ log[k].b = m.b
       /\ \A j, k \in DOMAIN log : log[j].id = log[k].id => j = k
       /\ \A r \in ruled : \E k \in DOMAIN log : log[k].id = r.id /\ log[k].state = r.state

\* vault_consolidate, resolve_tensions "dissent": what is resolved as
\* consolidated is in the dissent of the stance that was ratified, although
\* positions change, tensions are logged and others rule between the snapshot
\* the batch was taken from and its last resolution.
DissentCarried ==
  ~ damaged =>
    \A n \in DOMAIN log : LET e == log[n] IN
      e.state = "consolidated" /\ doc.org.by = e.by =>
        \E i \in doc.org.dissent :
          ChainEnd(doc.pos, i) \in {ChainEnd(doc.pos, e.a), ChainEnd(doc.pos, e.b)}

================================================================================
