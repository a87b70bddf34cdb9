------------------------------- MODULE Supersede -------------------------------
(***************************************************************************)
(* The tools that set a document's superseded_by (src/src/tools/write.ts): *)
(* vault_supersede, vault_deprecate, vault_unsupersede and vault_merge,    *)
(* beside vault_write and vault_patch, which write any pointer unchecked.  *)
(* WritePath has one file per call; here a merge writes up to three under  *)
(* one commit, and what a call checks spans documents it does not lease.   *)
(*                                                                         *)
(* Every action is the code between two awaits of one call, on a path of   *)
(* its own or of performWrite.  A document is its pointer, its status and  *)
(* the call that wrote it last, which stands for the rest of its bytes;    *)
(* pointers are canonical paths.  A file that writeFile has truncated and  *)
(* not yet filled is Torn.  loadDocuments is one step: that a caller may   *)
(* join a scan begun before it asked is left out.                          *)
(***************************************************************************)
EXTENDS Chains, Sequences

CONSTANTS
  Calls,      \* the tool calls of a behaviour, each made at most once
  MaxCrashes  \* bound: how often the process may die

Kinds    == {"supersede", "deprecate", "unsupersede", "merge", "write"}
Statuses == {"live", "draft", "superseded", "deprecated", "torn"}
Content  == [status : Statuses, by : Docs \cup {None}, rev : Calls \cup {None}]
Torn     == [status |-> "torn", by |-> None, rev |-> None]

ASSUME SupersedeAssumption == None \notin Calls /\ Absent \notin Content /\ MaxCrashes \in Nat

\* What a call was asked: the document a, for a merge the second source b, and
\* the successor or merge target t.  keeps: does a merge target inherit the
\* pointer of a?  hides: the documents its role cannot read, other than those it
\* writes; at most one.
Request == [kind : Kinds, a : Docs, b : Docs, t : Docs \cup {None},
            keeps : BOOLEAN, hides : SUBSET Docs]

VARIABLES
  pc,       \* where each call is
  req,      \* what it was asked
  todo,     \* the documents it has still to read, then to write
  snap,     \* what it has read
  retried,  \* has it used its one transparent retry?
  disk,     \* the working tree
  lease,    \* .daftari/locks.db: the call that holds each path, or None
  crashes,  \* how often the process has died
  \* History variables, read by properties only:
  unseen,    \* documents whose pointer a call's loop check could not see as it is
  opened,    \* the documents a call has truncated or written
  overwrote, \* the calls that overwrote what they had not read
  committed, \* <<c, d>>: what c wrote to d has reached git, whoever committed it
  broken     \* the calls whose writing or commit failed or died

files   == <<disk, lease>>
outcome == <<opened, overwrote, committed, broken>>
history == <<unseen, outcome>>
vars    == <<pc, req, todo, snap, retried, files, crashes, history>>

Kind(c)    == req[c].kind
Checking(r) == r.kind \in {"supersede", "deprecate", "merge"} /\ r.t # None
Guarded(c) == Kind(c) \in {"deprecate", "unsupersede", "merge"}

\* The sources before the target.
FilesOf_Bug(r) ==
  CASE r.kind # "merge"               -> <<r.a>>
    [] r.kind = "merge" /\ r.t = r.a  -> <<r.b, r.t>>
    [] r.kind = "merge" /\ r.t = r.b  -> <<r.a, r.t>>
    [] OTHER                          -> <<r.a, r.b, r.t>>

\* The documents a call writes: a merge its target first, then each source that
\* is not the target.
FilesOf(r) ==
  CASE r.kind # "merge"               -> <<r.a>>
    [] r.kind = "merge" /\ r.t = r.a  -> <<r.t, r.b>>
    [] r.kind = "merge" /\ r.t = r.b  -> <<r.t, r.a>>
    [] OTHER                          -> <<r.t, r.a, r.b>>

Files(c)   == FilesOf(req[c])
FileSet(c) == Range(Files(c))

\* The documents it reads first.
Reads(r) ==
  CASE r.kind = "supersede" -> <<r.a, r.t>>
    [] r.kind = "merge"     -> IF r.t \in {r.a, r.b} THEN <<r.a, r.b>> ELSE <<r.a, r.b, r.t>>
    [] r.kind = "write"     -> <<>>
    [] OTHER                -> <<r.a>>

Running == {"read", "check", "lease", "verify", "open", "fill", "commit"}
Ended   == {"refused", "done", "failed", "dead"}

Nothing == [d \in Docs |-> None]

Goto(c, place) == pc' = [pc EXCEPT ![c] = place]

locals == <<req, todo, snap, retried>>

\* The call is over and its local state gone; req stays for the properties.
End(c, how) ==
  /\ Goto(c, how)
  /\ todo' = [todo EXCEPT ![c] = <<>>]
  /\ snap' = [snap EXCEPT ![c] = Nothing]
  /\ retried' = [retried EXCEPT ![c] = FALSE]

\* releaseLock on every path held.
Release(c) == lease' = [d \in Docs |-> IF lease[d] = c THEN None ELSE lease[d]]

TypeOK ==
  /\ pc \in [Calls -> {"off"} \cup Running \cup Ended]
  /\ \A c \in Calls : pc[c] # "off" => req[c] \in Request
  /\ \A c \in Calls : pc[c] \in {"open", "fill"} => todo[c] # <<>>
  /\ disk \in [Docs -> Content \cup {Absent}]
  /\ lease \in [Docs -> Calls \cup {None}]
  /\ \A d \in Docs : lease[d] # None =>
        pc[lease[d]] \in {"verify", "open", "fill", "commit", "dead"}

Blank == [kind |-> "write", a |-> CHOOSE d \in Docs : TRUE, b |-> CHOOSE d \in Docs : TRUE,
          t |-> None, keeps |-> FALSE, hides |-> {}]

\* A refused call leaves nothing, not even what it was asked.
Refuse(c) ==
  /\ End(c, "refused")
  /\ req' = [req EXCEPT ![c] = Blank]
  /\ unseen' = [unseen EXCEPT ![c] = {}]

\* A vault no call has touched, with at most one document superseded or missing.
Init ==
  /\ pc = [c \in Calls |-> "off"]
  /\ req = [c \in Calls |-> Blank]
  /\ todo = [c \in Calls |-> <<>>]
  /\ snap = [c \in Calls |-> Nothing]
  /\ retried = [c \in Calls |-> FALSE]
  /\ \E next \in PointerMap, present \in SUBSET Docs :
       /\ Cardinality(Docs \ present) + Cardinality({d \in Docs : next[d] # None}) <= 1
       /\ \A d \in Docs : next[d] # None => d \in present /\ next[d] # d
       /\ disk = [d \in Docs |->
            IF d \notin present THEN Absent
            ELSE [status |-> IF next[d] = None THEN "live" ELSE "superseded",
                  by |-> next[d], rev |-> None]]
  /\ lease = [d \in Docs |-> None]
  /\ crashes = 0
  /\ unseen = [c \in Calls |-> {}]
  /\ opened = [c \in Calls |-> {}]
  /\ overwrote = {} /\ committed = {} /\ broken = {}

------------------------------------------------------------------------------
(***************************************************************************)
(* What a call composes, and what its loop check sees.                     *)
(***************************************************************************)
\* The pointer a document gets.
NewPointer(c, d) ==
  CASE Kind(c) = "unsupersede"               -> None
    [] Kind(c) = "merge" /\ d = req[c].t     ->
         IF req[c].keeps THEN snap[c][req[c].a].by ELSE None
    [] OTHER                                 -> req[c].t

NewStatus(c, d) ==
  CASE Kind(c) = "deprecate"                 -> "deprecated"
    [] Kind(c) = "unsupersede"               -> "draft"
    [] Kind(c) = "write"                     -> "live"
    [] Kind(c) = "merge" /\ d = req[c].t     -> snap[c][req[c].a].status
    [] OTHER                                 -> "superseded"

Composed(c, d) == [status |-> NewStatus(c, d), by |-> NewPointer(c, d), rev |-> c]

Pointer(d) == IF disk[d] = Absent THEN None ELSE disk[d].by

\* A pointer to what is not there is no edge.
Pointers == [d \in Docs |-> IF Pointer(d) = None \/ disk[Pointer(d)] = Absent
                            THEN None ELSE Pointer(d)]

\* The pointers as a caller sees them that cannot read hidden; the documents it
\* is about to write count as there.
SeenPointers(hidden, edited) ==
  LET known == {d \in Docs : disk[d] # Absent /\ d \notin hidden}
  IN  [d \in Docs |-> IF d \in known /\ Pointer(d) \in known \cup edited
                      THEN Pointer(d) ELSE None]

\* The edits of a merge without its target's.
SeenEdits_Bug(c) ==
  LET known == {d \in Docs : disk[d] # Absent /\ d \notin req[c].hides} \cup FileSet(c)
  IN  [d \in FileSet(c) \ {req[c].t} |->
         IF NewPointer(c, d) \in known THEN NewPointer(c, d) ELSE None]

\* The edits its loop check applies.
SeenEdits(c) ==
  LET known == {d \in Docs : disk[d] # Absent /\ d \notin req[c].hides} \cup FileSet(c)
  IN  [d \in FileSet(c) |-> IF NewPointer(c, d) \in known THEN NewPointer(c, d) ELSE None]

------------------------------------------------------------------------------
(***************************************************************************)
(* Actions.  A definition whose name ends in Bug is no part of the         *)
(* specification.                                                          *)
(***************************************************************************)
\* The requests the argument checks let through: a document never supersedes
\* itself, and the sources of a merge differ.
Proper(r) ==
  /\ r.kind \in {"supersede", "merge"} => r.t # None
  /\ r.kind = "merge" => r.a # r.b
  /\ r.kind # "merge" => r.b = r.a /\ ~r.keeps
  /\ r.kind = "supersede" => r.a # r.t
  /\ r.kind = "unsupersede" => r.t = None
  /\ r.kind \in {"write", "unsupersede"} \/ r.t = None => r.hides = {}
  /\ Cardinality(r.hides) <= 1 /\ r.hides \cap Range(FilesOf(r)) = {}

\* One more readFile of a call asked r.  What is missing ends the call, the
\* target of a merge aside; a document that is not superseded cannot be
\* unsuperseded.
ReadNext(c, r, list) ==
  LET d == Head(list)
      missing == disk[d] = Absent /\ ~(r.kind = "merge" /\ d \notin {r.a, r.b})
      unfit == r.kind = "unsupersede" /\ disk[d] # Absent /\ disk[d].status # "superseded"
  IN  \/ /\ missing \/ unfit
         /\ Refuse(c)
      \/ /\ ~missing /\ ~unfit
         /\ snap' = [snap EXCEPT ![c][d] = disk[d]]
         /\ todo' = [todo EXCEPT ![c] = Tail(list)]
         /\ Goto(c, IF Tail(list) # <<>> THEN "read"
                    ELSE IF Checking(r) THEN "check" ELSE "lease")
         /\ req' = [req EXCEPT ![c] = r]
         /\ UNCHANGED <<retried, unseen>>

\* A tool is called, up to its first readFile.
Call(c) ==
  /\ pc[c] = "off"
  /\ \E r \in Request :
       /\ Proper(r)
       /\ IF r.kind = "write"
          THEN /\ Goto(c, "lease")
               /\ req' = [req EXCEPT ![c] = r]
               /\ UNCHANGED <<todo, snap, retried, unseen>>
          ELSE ReadNext(c, r, Reads(r))
  /\ UNCHANGED <<files, crashes, outcome>>

Read(c) ==
  /\ pc[c] = "read"
  /\ ReadNext(c, req[c], todo[c])
  /\ UNCHANGED <<files, crashes, outcome>>

\* refuseSupersedeLoop, over the documents as they are now.
CheckLoop(c) ==
  /\ pc[c] = "check"
  /\ IF ClosesLoop(SeenPointers(req[c].hides, FileSet(c)), SeenEdits(c))
     THEN Refuse(c)
     ELSE /\ Goto(c, "lease")
          /\ unseen' = [unseen EXCEPT ![c] = req[c].hides]
          /\ UNCHANGED locals
  /\ UNCHANGED <<files, crashes, outcome>>

\* Any of the refusals that depend on none of this: access, tier guard, schema,
\* validity windows, shadow mode.
Decline(c) ==
  /\ pc[c] = "lease"
  /\ Refuse(c)
  /\ UNCHANGED <<files, crashes, outcome>>

\* All leases or none, under one holder; there is no await between them.
TakeLeases(c) ==
  /\ pc[c] = "lease"
  /\ \/ /\ \A d \in FileSet(c) : lease[d] = None
        /\ lease' = [d \in Docs |-> IF d \in FileSet(c) THEN c ELSE lease[d]]
        /\ Goto(c, "verify")
        /\ UNCHANGED <<locals, unseen>>
     \/ /\ \E d \in FileSet(c) : lease[d] # None
        /\ Refuse(c)
        /\ UNCHANGED lease
  /\ UNCHANGED <<disk, crashes, outcome>>

\* The documents whose bytes must still be those the call has read.
Sworn(c) ==
  IF Kind(c) = "merge" THEN {req[c].a, req[c].b, req[c].t}
  ELSE IF Guarded(c) THEN {req[c].a} ELSE {}

\* A target that was not there is not compared.
Stale_Bug(c) == \E d \in Sworn(c) : snap[c][d] # Absent /\ disk[d] # snap[c][d]

Stale(c) == \E d \in Sworn(c) : disk[d] # snap[c][d]

StartWriting(c) ==
  /\ todo' = [todo EXCEPT ![c] = Files(c)]
  /\ Goto(c, "open")

\* Under the leases: a stale call is turned down, or starts over once.
Verify(c) ==
  /\ pc[c] = "verify"
  /\ \/ /\ ~Stale(c)
        /\ StartWriting(c)
        /\ UNCHANGED <<req, snap, retried, lease, unseen>>
     \/ /\ Stale(c) /\ Kind(c) # "merge" /\ ~retried[c]
        /\ retried' = [retried EXCEPT ![c] = TRUE]
        /\ todo' = [todo EXCEPT ![c] = Reads(req[c])]
        /\ Goto(c, "read")
        /\ Release(c)
        /\ UNCHANGED <<req, snap, unseen>>
     \/ /\ Stale(c) /\ (Kind(c) = "merge" \/ retried[c])
        /\ Refuse(c)
        /\ Release(c)
  /\ UNCHANGED <<disk, crashes, outcome>>

\* The leak gate refuses under the leases.
LeakRefused(c) ==
  /\ pc[c] = "verify"
  /\ Refuse(c)
  /\ Release(c)
  /\ UNCHANGED <<disk, crashes, outcome>>

\* What other calls have checked and not yet written is no longer as they saw it.
Overtakes(c, d) ==
  unseen' = [x \in Calls |->
    IF x # c /\ pc[x] \in {"lease", "verify", "open", "fill"} THEN unseen[x] \cup {d} ELSE unseen[x]]

\* writeFile truncates the next file ...
Open(c) ==
  /\ pc[c] = "open"
  /\ LET d == Head(todo[c])
     IN  /\ disk' = [disk EXCEPT ![d] = Torn]
         /\ opened' = [opened EXCEPT ![c] = @ \cup {d}]
         /\ overwrote' = IF disk[d] # snap[c][d] THEN overwrote \cup {c} ELSE overwrote
         /\ Overtakes(c, d)
  /\ Goto(c, "fill")
  /\ UNCHANGED <<locals, lease, crashes, committed, broken>>

\* ... and fills it.
Fill(c) ==
  /\ pc[c] = "fill"
  /\ LET d == Head(todo[c])
     IN  /\ disk' = [disk EXCEPT ![d] = Composed(c, d)]
         /\ Overtakes(c, d)
  /\ todo' = [todo EXCEPT ![c] = Tail(@)]
  /\ Goto(c, IF Tail(todo[c]) = <<>> THEN "commit" ELSE "open")
  /\ UNCHANGED <<req, snap, retried, lease, crashes, opened, overwrote, committed, broken>>

\* A mkdir or writeFile throws: no rollback.
WriteThrows(c) ==
  /\ pc[c] \in {"open", "fill"}
  /\ End(c, "failed")
  /\ Release(c)
  /\ broken' = broken \cup {c}
  /\ UNCHANGED <<req, disk, crashes, unseen, opened, overwrote, committed>>

\* One commit of what the files hold now, which may fail; then index rows and
\* provenance entries file by file, the leases, and the answer.
Commit(c) ==
  /\ pc[c] = "commit"
  /\ \/ /\ committed' = committed \cup {<<disk[d].rev, d>> : d \in FileSet(c)}
        /\ End(c, "done")
        /\ UNCHANGED broken
     \/ /\ broken' = broken \cup {c}
        /\ End(c, "failed")
        /\ UNCHANGED committed
  /\ Release(c)
  /\ UNCHANGED <<req, disk, crashes, unseen, opened, overwrote>>

Crash ==
  /\ crashes < MaxCrashes
  /\ \E c \in Calls : pc[c] \in Running
  /\ crashes' = crashes + 1
  /\ pc' = [c \in Calls |-> IF pc[c] \in Running THEN "dead" ELSE pc[c]]
  /\ broken' = broken \cup {c \in Calls : pc[c] \in Running}
  /\ LET gone == {c \in Calls : pc[c] \in Running /\ opened[c] = {}}
     IN  /\ req' = [c \in Calls |-> IF c \in gone THEN Blank ELSE req[c]]
         /\ unseen' = [c \in Calls |-> IF c \in gone THEN {} ELSE unseen[c]]
  /\ todo' = [c \in Calls |-> <<>>]
  /\ snap' = [c \in Calls |-> Nothing]
  /\ retried' = [c \in Calls |-> FALSE]
  /\ UNCHANGED <<files, opened, overwrote, committed>>

\* The TTL of a dead call's lease is over.
Lapse(d) ==
  /\ lease[d] # None /\ pc[lease[d]] = "dead"
  /\ lease' = [lease EXCEPT ![d] = None]
  /\ UNCHANGED <<pc, locals, disk, crashes, history>>

Step(c) ==
  \/ Call(c) \/ Read(c) \/ CheckLoop(c) \/ Decline(c) \/ TakeLeases(c) \/ Verify(c)
  \/ LeakRefused(c) \/ Open(c) \/ Fill(c) \/ WriteThrows(c) \/ Commit(c)

Next == (\E c \in Calls : Step(c)) \/ Crash \/ (\E d \in Docs : Lapse(d))

Spec == Init /\ [][Next]_vars

------------------------------------------------------------------------------
(***************************************************************************)
(* Properties.                                                             *)
(***************************************************************************)
Merges == {c \in Calls : pc[c] # "off" /\ Kind(c) = "merge"}

\* Does the pointer of d come from a call that did not check it, or could not
\* see all of this loop when it did?
Excused(d, loop) ==
  LET w == disk[d].rev
  IN  w # None /\ (Kind(w) = "write" \/ unseen[w] \cap loop # {})

\* refuseSupersedeLoop: the lifecycle tools leave no superseded_by loop behind,
\* unless one of its pointers was written unchecked, or its call could not read
\* a document of the loop, or that document changed between its check and its write.
ChainsEnd ==
  \A s \in Docs :
    OnLoop(Pointers, s) => LET loop == Visited(Pointers, s) IN \E d \in loop : Excused(d, loop)

\* vaultMerge, "Nothing was written": a refusal, also one that comes under the
\* leases or after a retry, has left every file alone.
RefusalsWriteNothing == \A c \in Calls : pc[c] = "refused" => opened[c] = {}

\* vaultMerge: "Preserve one snapshot per canonical path so the locked section
\* can reject that non-overlapping stale-read race": a merge and the guarded tools
\* write over nothing they have not read.
NothingOverwritten == \A c \in overwrote : ~Guarded(c)

\* vaultMerge, the order of its writes: whatever fails or dies, a source says it
\* is superseded by the merge only once the target holds the merge.
TargetFirst ==
  \A m \in Merges : \A d \in FileSet(m) \ {req[m].t} :
    disk[d] # Absent /\ disk[d].rev = m => req[m].t \in opened[m] /\ ~(pc[m] = "fill" /\ Head(todo[m]) = req[m].t)

\* vaultMerge, "The git commit itself is atomic": history never shows half a
\* merge, whoever committed it, unless its own writing or commit failed; and all
\* of it once the merge is answered.
HistoryWhole ==
  \A m \in Merges \ broken :
    {d \in FileSet(m) : <<m, d>> \in committed} = IF pc[m] = "done" THEN FileSet(m) ELSE {}

\* vaultMerge, over several files: nothing of it when it is refused, no source of
\* it on disk without its target, and in git all of it or nothing.
MergeWhole == TypeOK /\ RefusalsWriteNothing /\ TargetFirst /\ HistoryWhole
================================================================================
