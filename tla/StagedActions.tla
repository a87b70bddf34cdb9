----------------------------- MODULE StagedActions -----------------------------
(***************************************************************************)
(* The staged-action queue: proposals that wait in                         *)
(* .daftari/staged-actions.jsonl (src/src/curation/staged-actions.ts) until *)
(* vault_ratify (src/src/tools/staged-actions.ts) approves one by running  *)
(* its write tool, rejects it, or the housekeeping sweep expires it.       *)
(*                                                                         *)
(* The log is append-only; its lines that do not parse are left out, since *)
(* every reader skips them, except that a torn last line (ragged) swallows *)
(* the next one appended.  A document's text is the set of changes it      *)
(* carries, as in WritePath, whose calls are one step here: AtomicStore is *)
(* what they implement.                                                    *)
(***************************************************************************)
EXTENDS Naturals, Sequences, FiniteSets

CONSTANTS
  Proposals,  \* the calls that stage an action, each made at most once
  Ratifiers,  \* the calls of vault_ratify, each made at most once
  Edits,      \* the changes direct writes make meanwhile
  Docs,       \* the documents
  Sweeper,    \* SWEEP_PRINCIPAL
  Nobody,     \* no proposal has been looked up yet
  MaxFaults   \* bound: how many appends to the log fail

ASSUME StagedAssumption ==
  /\ Proposals \cap (Ratifiers \cup Edits) = {}
  /\ Sweeper \notin Proposals \cup Ratifiers
  /\ Nobody \notin Proposals
  /\ IsFiniteSet(Proposals)
  /\ MaxFaults \in Nat

(***************************************************************************)
(* What a proposal is.  Three kinds bring the text that will replace the   *)
(* target's.  "guarded": a write with a base_version (the propose-only     *)
(* branches of vault_write, vault_patch and vault_assert, on a document    *)
(* that exists).  "snapshot": a write without one (vault_stage_action,     *)
(* distill, a propose-only create).  "merge": vault_ratify hands the       *)
(* staged body to vaultMerge, which compares only what it has read itself. *)
(* The other types are computed from the document as it is when they are   *)
(* dispatched: "fresh" under the write path's own check (promote,          *)
(* deprecate, unsupersede, confidence-up), "blind" without one (supersede, *)
(* repin).                                                                 *)
(***************************************************************************)
Kinds == {"guarded", "snapshot", "merge", "fresh", "blind"}
Texts == {"guarded", "snapshot", "merge"}

VARIABLES
  log,       \* the readable lines of staged-actions.jsonl
  ragged,    \* does the file end in half a line?
  stage,     \* where each proposing call is
  kind,      \* what each proposal is
  target,    \* the document it is about
  base,      \* the text its caller composed it from
  version,   \* the text its base_version is the hash of
  named,     \* the contenders its answer names
  ratify,    \* where each call of vault_ratify is
  found,     \* the id and the proposal it has read, [id, of]
  load,      \* the text its write tool has loaded
  overdue,   \* the ids whose expires_at has passed
  doc,       \* the text of each document
  faults,    \* how many appends have failed
  \* History variables, read by properties only:
  looked,    \* how long the log was when each ratifier read it
  applied,   \* the proposals whose change reached its document
  newer      \* the edits of each proposal's target made since it was staged

queueVars  == <<log, ragged, faults>>
stageVars  == <<stage, kind, target, base, version, named>>
ratifyVars == <<ratify, found, load, looked>>
docVars    == <<doc, applied, newer>>
vars == <<queueVars, stageVars, ratifyVars, overdue, docVars>>

Changes  == Proposals \cup Edits
Ids      == 1 .. Cardinality(Proposals)
Line     == [id : Ids, what : {"proposed", "ratified", "rejected", "expired"},
             by : Proposals \cup Ratifiers \cup {Sweeper}]

StagePlaces  == {"idle", "composed", "anchored", "staged", "failed"}
RatifyPlaces == {"idle", "approve", "reject", "loaded", "landed",
                 "answered"}

TypeOK ==
  /\ log \in Seq(Line)
  /\ ragged \in BOOLEAN
  /\ stage \in [Proposals -> StagePlaces]
  /\ kind \in [Proposals -> Kinds]
  /\ target \in [Proposals -> Docs]
  /\ base \in [Proposals -> SUBSET Changes]
  /\ version \in [Proposals -> SUBSET Changes]
  /\ named \in [Proposals -> SUBSET Ids]
  /\ ratify \in [Ratifiers -> RatifyPlaces]
  /\ found \in [Ratifiers -> [id : Nat, of : Proposals \cup {Nobody}]]
  /\ load \in [Ratifiers -> SUBSET Changes]
  /\ overdue \in SUBSET Ids
  /\ doc \in [Docs -> SUBSET Changes]
  /\ faults \in 0 .. MaxFaults
  /\ looked \in [Ratifiers -> Nat]
  /\ applied \in SUBSET Proposals
  /\ newer \in [Proposals -> SUBSET Edits]

Init ==
  /\ log = <<>> /\ ragged = FALSE /\ faults = 0
  /\ stage = [p \in Proposals |-> "idle"]
  /\ kind = [p \in Proposals |-> "fresh"]
  /\ target \in [Proposals -> Docs]
  /\ base = [p \in Proposals |-> {}]
  /\ version = [p \in Proposals |-> {}]
  /\ named = [p \in Proposals |-> {}]
  /\ ratify = [r \in Ratifiers |-> "idle"]
  /\ found = [r \in Ratifiers |-> [id |-> 0, of |-> Nobody]]
  /\ load = [r \in Ratifiers |-> {}]
  /\ overdue = {}
  /\ doc = [d \in Docs |-> {}]
  /\ looked = [r \in Ratifiers |-> 0]
  /\ applied = {}
  /\ newer = [p \in Proposals |-> {}]

------------------------------------------------------------------------------
(***************************************************************************)
(* The log.                                                                *)
(***************************************************************************)
LinesOf(i) == {k \in DOMAIN log : log[k].id = i}
Proposed(k) == log[k].what = "proposed"
Known == {i \in Ids : \E k \in LinesOf(i) : Proposed(k)}
Last(S) == CHOOSE k \in S : \A j \in S : j <= k

\* collapse: the last line about an id says what it is, whatever it was.
Status(i) == log[Last(LinesOf(i))].what
Row(i)    == log[Last({k \in LinesOf(i) : Proposed(k)})].by
Pending   == {i \in Known : Status(i) = "proposed"}

\* The highest id of the rows that are still open, plus one.
NextId_Bug == IF Pending = {} THEN 1 ELSE Last(Pending) + 1

\* nextStagedId: the highest id of any line plus one.
NextId ==
  LET used == {log[k].id : k \in DOMAIN log}
  IN  IF used = {} THEN 1 ELSE Last(used) + 1

\* appendFileSync: a line added to half a line makes one that does not parse.
Appended(line) ==
  /\ log' = IF ragged THEN log ELSE Append(log, line)
  /\ ragged' = FALSE
  /\ UNCHANGED faults

\* It throws (disk full), and may leave half a line behind.
AppendFails ==
  /\ faults < MaxFaults
  /\ faults' = faults + 1
  /\ ragged' \in {ragged, TRUE}
  /\ UNCHANGED log

------------------------------------------------------------------------------
(***************************************************************************)
(* Staging.  A definition whose name ends in _Bug is no part of the        *)
(* specification, as in WritePath.                                         *)
(***************************************************************************)
\* Only proposals of the same kind are in each other's way.
Contenders_Bug(p) ==
  {i \in Pending : target[Row(i)] = target[p] /\ kind[Row(i)] = kind[p]}

Contenders(p) == {i \in Pending : target[Row(i)] = target[p]}

Composed(p) ==
  \E k \in Kinds :
    /\ kind' = [kind EXCEPT ![p] = k]
    /\ base' = IF k \in Texts THEN [base EXCEPT ![p] = doc[target[p]]] ELSE base

\* The caller reads the target and makes up what to propose.
Compose(p) ==
  /\ stage[p] = "idle"
  /\ stage' = [stage EXCEPT ![p] = "composed"]
  /\ Composed(p)
  /\ UNCHANGED <<target, version, named, queueVars, ratifyVars, overdue, docVars>>

\* The tool that stages reads the target again, and the base_version is the hash
\* of these bytes, whatever its caller has passed.  The body is the caller's in
\* vault_write, and made from these bytes in vault_patch and vault_assert.
Anchor(p) ==
  /\ stage[p] = "composed"
  /\ kind[p] = "guarded"
  /\ stage' = [stage EXCEPT ![p] = "anchored"]
  /\ version' = [version EXCEPT ![p] = doc[target[p]]]
  /\ base' \in {base, [base EXCEPT ![p] = doc[target[p]]]}
  /\ UNCHANGED <<kind, target, named, queueVars, ratifyVars, overdue, docVars>>

\* stageActionWithConflictCheck: one synchronous read of the log serves the
\* contender snapshot and the id, and the proposal is appended in the same
\* breath.  The tension that is logged next leaves the queue as it is, also
\* when it cannot be.
Stage(p) ==
  /\ stage[p] = IF kind[p] = "guarded" THEN "anchored" ELSE "composed"
  /\ \/ /\ Appended([id |-> NextId, what |-> "proposed", by |-> p])
        /\ named' = [named EXCEPT ![p] = Contenders(p)]
        /\ stage' = [stage EXCEPT ![p] = "staged"]
     \/ /\ AppendFails
        /\ stage' = [stage EXCEPT ![p] = "failed"]
        /\ UNCHANGED named
  /\ UNCHANGED <<kind, target, base, version, ratifyVars, overdue, docVars>>

------------------------------------------------------------------------------
(***************************************************************************)
(* Ratification.                                                           *)
(***************************************************************************)
RatifyGoes(r, place) == ratify' = [ratify EXCEPT ![r] = place]

Judge(r, i) ==
  /\ found' = [found EXCEPT ![r] = [id |-> i, of |-> Row(i)]]
  /\ looked' = [looked EXCEPT ![r] = Len(log)]
  /\ UNCHANGED load
  /\ RatifyGoes(r, "approve") \/ RatifyGoes(r, "reject")

\* What has been decided is looked up like anything else.
Look_Bug(r) ==
  /\ ratify[r] = "idle"
  /\ \E i \in Known : Judge(r, i)
  /\ UNCHANGED <<queueVars, stageVars, overdue, docVars>>

\* getStagedActionById: only a pending action can be ratified.  Its expiry is
\* not asked about.
Look(r) ==
  /\ ratify[r] = "idle"
  /\ \/ \E i \in Pending : Judge(r, i)
     \/ /\ Known \ Pending # {}
        /\ RatifyGoes(r, "answered")
        /\ UNCHANGED <<found, load, looked>>
  /\ UNCHANGED <<queueVars, stageVars, overdue, docVars>>

\* recordDecision appends to the log without asking what it says by now.
RecordDecision(r, what) ==
  /\ Appended([id |-> found[r].id, what |-> what, by |-> r]) \/ AppendFails
  /\ RatifyGoes(r, "answered")

Reject(r) ==
  /\ ratify[r] = "reject"
  /\ RecordDecision(r, "rejected")
  /\ UNCHANGED <<found, load, looked, stageVars, overdue, docVars>>

\* The dispatch in a vault in shadow mode counts as a write.
Keep_Bug(r) ==
  /\ ratify[r] = "approve"
  /\ RatifyGoes(r, "landed") \/ RatifyGoes(r, "answered")
  /\ UNCHANGED <<found, load, looked, queueVars, stageVars, overdue, docVars>>

\* The tier-0 gate blocks the approval, the write tool refuses it, or the
\* vault is in shadow mode: nothing was written, and the action stays pending.
Keep(r) ==
  /\ ratify[r] = "approve"
  /\ RatifyGoes(r, "answered")
  /\ UNCHANGED <<found, load, looked, queueVars, stageVars, overdue, docVars>>

\* The write tool of a blind type reads its target some time before it writes.
Load(r) ==
  /\ ratify[r] = "approve"
  /\ kind[found[r].of] = "blind"
  /\ load' = [load EXCEPT ![r] = doc[target[found[r].of]]]
  /\ RatifyGoes(r, "loaded")
  /\ UNCHANGED <<found, looked, queueVars, stageVars, overdue, docVars>>

\* What the write tool writes, and when it agrees to: base_version reaches it
\* only with a guarded proposal.
NewText(r) ==
  LET p == found[r].of IN
  {p} \cup CASE kind[p] = "fresh" -> doc[target[p]]
             [] kind[p] = "blind" -> load[r]
             [] OTHER -> base[p]

Admits_Bug(p) == TRUE

Admits(p) == kind[p] = "guarded" => doc[target[p]] = version[p]

\* The write tool.  A commit that fails makes it an error, though the text is
\* there: the action stays pending.
Dispatch(r) ==
  LET p == found[r].of IN
  /\ \/ ratify[r] = "approve" /\ kind[p] # "blind"
     \/ ratify[r] = "loaded"
  /\ Admits(p)
  /\ doc' = [doc EXCEPT ![target[p]] = NewText(r)]
  /\ applied' = applied \cup {p}
  /\ RatifyGoes(r, "landed") \/ RatifyGoes(r, "answered")
  /\ UNCHANGED <<newer, found, load, looked, queueVars, stageVars, overdue>>

Record(r) ==
  /\ ratify[r] = "landed"
  /\ RecordDecision(r, "ratified")
  /\ UNCHANGED <<found, load, looked, stageVars, overdue, docVars>>

------------------------------------------------------------------------------
\* A direct write of a document.
Edit(e, d) ==
  /\ e \notin doc[d]
  /\ doc' = [doc EXCEPT ![d] = @ \cup {e}]
  /\ newer' = [p \in Proposals |->
       IF target[p] = d /\ stage[p] = "staged" THEN newer[p] \cup {e}
       ELSE newer[p]]
  /\ UNCHANGED <<applied, queueVars, stageVars, ratifyVars, overdue>>

\* The clock passes an action's expires_at.
Expire(i) ==
  /\ i \in Known \ overdue
  /\ overdue' = overdue \cup {i}
  /\ UNCHANGED <<queueVars, stageVars, ratifyVars, docVars>>

\* The orders in which the sweep may take a set of ids: soonest expired first.
Orders(S) == {f \in [1 .. Cardinality(S) -> S] : \A j, k \in DOMAIN f : f[j] = f[k] => j = k}
Expiry(i) == [id |-> i, what |-> "expired", by |-> Sweeper]
Stale == Pending \cap overdue

\* sweepExpiredActions (vault_lint, the sleep cycle): one synchronous pass.
Sweep ==
  /\ Stale # {}
  /\ \E order \in Orders(Stale) :
       LET lines == [k \in DOMAIN order |-> Expiry(order[k])]
       IN  log' = log \o (IF ragged THEN Tail(lines) ELSE lines)
  /\ ragged' = FALSE
  /\ UNCHANGED <<faults, stageVars, ratifyVars, overdue, docVars>>

\* An append throws half way: what was appended before it stays.
SweepFails ==
  /\ Stale # {}
  /\ faults < MaxFaults /\ faults' = faults + 1
  /\ \E order \in Orders(Stale), n \in 0 .. Cardinality(Stale) - 1 :
       LET lines == [k \in 1 .. n |-> Expiry(order[k])]
       IN  /\ log' = log \o (IF ragged /\ n > 0 THEN Tail(lines) ELSE lines)
           /\ ragged' \in (IF n > 0 THEN BOOLEAN ELSE {ragged, TRUE})
  /\ UNCHANGED <<stageVars, ratifyVars, overdue, docVars>>

Next ==
  \/ \E p \in Proposals : Compose(p) \/ Anchor(p) \/ Stage(p)
  \/ \E r \in Ratifiers : Look(r) \/ Reject(r) \/ Keep(r)
                          \/ Load(r) \/ Dispatch(r) \/ Record(r)
  \/ \E e \in Edits, d \in Docs : Edit(e, d)
  \/ \E i \in Ids : Expire(i)
  \/ Sweep \/ SweepFails

\* No call needs to go on: a process that dies is one whose calls in flight
\* take no further step.
Spec == Init /\ [][Next]_vars

------------------------------------------------------------------------------
(***************************************************************************)
(* Properties.                                                             *)
(***************************************************************************)
\* The lines on which p was staged (one, or none).
StagedAt(p) == {k \in DOMAIN log : Proposed(k) /\ log[k].by = p}

\* nextStagedId: no two proposals in the queue share an id, whoever has been
\* decided or expired since, and whichever appends have failed.
IdsDistinct ==
  \A j, k \in DOMAIN log : Proposed(j) /\ Proposed(k) /\ log[j].id = log[k].id => j = k

\* stageActionWithConflictCheck: of two proposals open on one target the later
\* names the earlier, "never silent".  Open means that the log has no decision
\* between the two lines.
ContestsNamed ==
  \A p, q \in Proposals : \A j \in StagedAt(p), k \in StagedAt(q) :
    /\ j < k
    /\ target[p] = target[q]
    /\ \A l \in j + 1 .. k : log[l].id # log[j].id
    => log[j].id \in named[q]

\* vault_ratify: a "ratified" line is no false history, the change it speaks
\* of reached its document, whatever failed, crashed or ran in shadow mode.
RatifiedWasApplied ==
  \A k \in DOMAIN log :
    log[k].what = "ratified" =>
      /\ found[log[k].by].of \in applied
      /\ found[log[k].by].id = log[k].id

\* Who decides has seen the proposal open: an id is decided twice only by calls
\* that overlapped, never by one that came after the decision.
DecidedOnOpen ==
  \A j, k \in DOMAIN log :
    /\ log[j].id = log[k].id
    /\ j < k
    /\ log[j].what # "proposed"
    /\ log[k].what \in {"ratified", "rejected"}
    => looked[log[k].by] < j

\* What took x from the target of p: a text without a version, or a merge, that
\* was composed without it; a guarded text composed without it by a caller that
\* staged it only after x; a blind type that had loaded the document before x.
Excused(p, x) ==
  \E q \in applied :
    /\ target[q] = target[p]
    /\ \/ kind[q] \in {"snapshot", "merge"} /\ x \notin base[q] \cup {q}
       \/ kind[q] = "guarded" /\ x \in version[q] \ base[q]
       \/ kind[q] = "blind" /\ \E r \in Ratifiers : found[r].of = q /\ x \notin load[r] \cup {q}

\* vault_ratify: an edit made since a proposal was staged, and the change of a
\* proposal once applied, stay in the document but for Excused: the base_version
\* stops a guarded text over what came after it was staged, and what is computed
\* at dispatch, under the write path's check, drops nothing.
ChangesSurvive ==
  \A p \in Proposals : \A x \in newer[p] \cup (applied \cap {p}) :
    x \in doc[target[p]] \/ Excused(p, x)

\* vault_ratify, of a write: the stale-write check "reject[s] a replay against a
\* document that changed since staging, instead of silently overwriting the
\* change" (seen where nothing else has been ratified).
ReplayRejected ==
  \A p \in applied :
    kind[p] \in {"guarded", "snapshot"} /\ applied = {p} => newer[p] \subseteq doc[target[p]]
==============================================================================
