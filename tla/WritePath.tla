------------------------------ MODULE WritePath ------------------------------
(***************************************************************************)
(* The write path of one vault: what happens between a write tool being    *)
(* called and its answer (src/src/tools/write.ts), with the file lease it  *)
(* takes (src/src/access/locks.ts), the per-vault commit chain             *)
(* (src/src/utils/git.ts), the provenance ledger, and a process that may   *)
(* die at any await.                                                       *)
(*                                                                         *)
(* Every action is the code between two awaits of one call.  A document's  *)
(* bytes are abstracted to the set of contributions they carry: Seed is    *)
(* what was there first, and each call that composes a new text adds its   *)
(* own name to the text it loaded.  Two texts have one sha256 exactly when *)
(* they are the same set, and {} is the file that writeFile has truncated  *)
(* and not yet filled.                                                     *)
(***************************************************************************)
EXTENDS Naturals, Sequences, FiniteSets

CONSTANTS
  Calls,         \* the tool calls of a behaviour, each made at most once
  Docs,          \* the documents (canonical vault-relative paths)
  Seed,          \* the contribution a document starts with
  Free,          \* no lease row, or one whose TTL has passed
  MaxCrashes,    \* bound: how often the process may die
  LeaseMayLapse  \* may a lease reach its TTL while its call is still working?

ASSUME WritePathAssumption ==
  /\ Seed \notin Calls
  /\ Free \notin Calls
  /\ MaxCrashes \in Nat
  /\ LeaseMayLapse \in BOOLEAN

(***************************************************************************)
(* How a call protects the document it read.  "defaulted": the tools that  *)
(* take the hash of their own load as base_version (patch, append,         *)
(* promote, deprecate, set_confidence, set_tier, unsupersede, assert,      *)
(* consolidate) and try once more when it is stale.  "explicit": a caller  *)
(* passed the version of an earlier vault_read.  "unchecked": vault_write  *)
(* and vault_supersede without base_version.                               *)
(***************************************************************************)
Kinds == {"defaulted", "explicit", "unchecked"}

Contribution == Calls \cup {Seed}
Text == SUBSET Contribution

VARIABLES
  pc,       \* where each call is
  kind,     \* how each call protects what it read
  target,   \* the document each call writes
  base,     \* the base_version each call holds: a hash, that is, a text
  text,     \* the file text each call has composed
  retried,  \* has the call used its one transparent retry?
  answer,   \* what the caller is told
  disk,     \* the working tree
  index,    \* the text of each document the search index was last fed
  head,     \* the text of each document at git HEAD
  lease,    \* .daftari/locks.db: the call holding each path, or Free
  queue,    \* the commit chain of withCommitLock
  ledger,   \* the provenance entries each call has appended
  \* History variables, read by properties only:
  commits,  \* the texts that were committed in a call's name
  landed,   \* the calls that have opened their target for writing
  torn,     \* the calls that truncated their target and never filled it
  overran,  \* the calls whose lease lapsed under them
  crashes   \* how often the process has died

callVars == <<pc, kind, target, base, text, retried, answer>>
docVars  == <<disk, index, head>>
logVars  == <<ledger, commits>>
ghosts   == <<landed, torn, overran>>
vars == <<callVars, docVars, lease, queue, logVars, ghosts, crashes>>

Holding == {"leased", "checked", "writing", "written", "indexed", "queued",
            "logging", "releasing"}
Running == Holding \cup {"loaded", "again"}
Places  == Running \cup {"idle", "armed", "done", "dead"}
Answers == {"none", "ok", "commit_failed", "stale", "locked", "refused",
            "failed", "shadow"}
Entries == {"write", "rejected_stale", "rejected_leak"}

TypeOK ==
  /\ pc \in [Calls -> Places]
  /\ kind \in [Calls -> Kinds]
  /\ target \in [Calls -> Docs]
  /\ base \in [Calls -> Text]
  /\ text \in [Calls -> Text]
  /\ retried \in [Calls -> BOOLEAN]
  /\ answer \in [Calls -> Answers]
  /\ disk \in [Docs -> Text]
  /\ index \in [Docs -> Text]
  /\ head \in [Docs -> Text]
  /\ lease \in [Docs -> Calls \cup {Free}]
  /\ queue \in Seq(Calls)
  /\ ledger \in [Calls -> SUBSET Entries]
  /\ commits \in [Calls -> SUBSET Text]
  /\ landed \in SUBSET Calls
  /\ torn \in SUBSET Calls
  /\ overran \in SUBSET Calls
  /\ crashes \in Nat

Init ==
  /\ pc = [c \in Calls |-> "idle"]
  /\ kind = [c \in Calls |-> "unchecked"]
  /\ target \in [Calls -> Docs]
  /\ base = [c \in Calls |-> {}]
  /\ text = [c \in Calls |-> {}]
  /\ retried = [c \in Calls |-> FALSE]
  /\ answer = [c \in Calls |-> "none"]
  /\ disk = [d \in Docs |-> {Seed}]
  /\ index = disk
  /\ head = disk
  /\ lease = [d \in Docs |-> Free]
  /\ queue = <<>>
  /\ ledger = [c \in Calls |-> {}]
  /\ commits = [c \in Calls |-> {}]
  /\ landed = {} /\ torn = {} /\ overran = {}
  /\ crashes = 0

------------------------------------------------------------------------------
(***************************************************************************)
(* Actions.  A definition whose name ends in _Bug is no part of the        *)
(* specification: it is the definition after it with a plausible mistake,  *)
(* kept to show that the properties notice.                                *)
(***************************************************************************)
Goto(c, place) == pc' = [pc EXCEPT ![c] = place]
Finish(c, a)   == Goto(c, "done") /\ answer' = [answer EXCEPT ![c] = a]
Append1(c, e)  == ledger' = [ledger EXCEPT ![c] = @ \cup {e}]

\* vault_read: the caller keeps the version token of the bytes it was shown.
\* Reads take no lease, so they may see a file another call has truncated.
Read(c) ==
  /\ pc[c] = "idle"
  /\ kind' = [kind EXCEPT ![c] = "explicit"]
  /\ base' = [base EXCEPT ![c] = disk[target[c]]]
  /\ Goto(c, "armed")
  /\ UNCHANGED <<target, text, retried, answer, docVars, lease, queue, logVars,
                 ghosts, crashes>>

\* The tool reads its target and composes the new text from it.  A retry is
\* a fresh load.
Compose(c) ==
  /\ text' = [text EXCEPT ![c] = disk[target[c]] \cup {c}]
  /\ Goto(c, "loaded")
  /\ UNCHANGED <<target, retried, answer, docVars, lease, queue, logVars,
                 ghosts, crashes>>

LoadExplicit(c) ==
  /\ pc[c] = "armed"
  /\ Compose(c)
  /\ UNCHANGED <<kind, base>>

\* The retry resubmits the text of the first attempt under a fresh hash.
LoadDefaulted_Bug(c) ==
  /\ pc[c] \in {"idle", "again"}
  /\ kind' = [kind EXCEPT ![c] = "defaulted"]
  /\ base' = [base EXCEPT ![c] = disk[target[c]]]
  /\ text' = IF pc[c] = "idle"
             THEN [text EXCEPT ![c] = disk[target[c]] \cup {c}] ELSE text
  /\ Goto(c, "loaded")
  /\ UNCHANGED <<target, retried, answer, docVars, lease, queue, logVars,
                 ghosts, crashes>>

LoadDefaulted(c) ==
  /\ \/ pc[c] = "idle"
     \/ pc[c] = "again"
  /\ kind' = [kind EXCEPT ![c] = "defaulted"]
  /\ base' = [base EXCEPT ![c] = disk[target[c]]]
  /\ Compose(c)

LoadUnchecked(c) ==
  /\ pc[c] = "idle"
  /\ kind' = [kind EXCEPT ![c] = "unchecked"]
  /\ Compose(c)
  /\ UNCHANGED base

\* The tool's own preconditions, RBAC, the tier guard or validation refuse,
\* or the vault is in shadow mode, where the write is logged and stops there.
Decline(c) ==
  /\ pc[c] = "loaded"
  /\ \E a \in {"refused", "shadow"} : Finish(c, a)
  /\ UNCHANGED <<kind, target, base, text, retried, docVars, lease, queue,
                 logVars, ghosts, crashes>>

\* vault_patch compares the caller's version with its own load before it
\* applies the edits, outside any lease.
PatchStale(c) ==
  /\ pc[c] = "loaded"
  /\ kind[c] = "explicit"
  /\ text[c] # base[c] \cup {c}
  /\ Append1(c, "rejected_stale")
  /\ Finish(c, "stale")
  /\ UNCHANGED <<kind, target, base, text, retried, docVars, lease, queue,
                 commits, ghosts, crashes>>

\* acquireLock fails at once when another live holder has the path ...
Contend(c) ==
  /\ pc[c] = "loaded"
  /\ lease[target[c]] # Free
  /\ Finish(c, "locked")
  /\ UNCHANGED <<kind, target, base, text, retried, docVars, lease, queue,
                 logVars, ghosts, crashes>>

\* Holders named after the agent alone: a second call re-acquires the lease.
Acquire_Bug(c) ==
  /\ pc[c] = "loaded"
  /\ lease' = [lease EXCEPT ![target[c]] = c]
  /\ Goto(c, "leased")
  /\ UNCHANGED <<kind, target, base, text, retried, answer, docVars, queue,
                 logVars, ghosts, crashes>>

\* ... and otherwise inserts the row (a lapsed one is purged first).
Acquire(c) ==
  /\ pc[c] = "loaded"
  /\ lease[target[c]] = Free
  /\ lease' = [lease EXCEPT ![target[c]] = c]
  /\ Goto(c, "leased")
  /\ UNCHANGED <<kind, target, base, text, retried, answer, docVars, queue,
                 logVars, ghosts, crashes>>

\* The hash covers the head of the file only.
BaseHolds_Bug(c) ==
  \/ kind[c] = "unchecked"
  \/ (Seed \in base[c]) = (Seed \in disk[target[c]])

\* The comparison of base_version with the hash of the file, under the lease.
BaseHolds(c) == kind[c] = "unchecked" \/ disk[target[c]] = base[c]

Check(c) ==
  /\ pc[c] = "leased"
  /\ BaseHolds(c)
  /\ Goto(c, "checked")
  /\ UNCHANGED <<kind, target, base, text, retried, answer, docVars, lease,
                 queue, logVars, ghosts, crashes>>

Abandon(c, a) == Goto(c, "releasing") /\ answer' = [answer EXCEPT ![c] = a]

RejectStale(c) ==
  /\ pc[c] = "leased"
  /\ ~BaseHolds(c)
  /\ Append1(c, "rejected_stale")
  /\ Abandon(c, "stale")
  /\ UNCHANGED <<kind, target, base, text, retried, docVars, lease, queue,
                 commits, ghosts, crashes>>

RejectLeak(c) ==
  /\ pc[c] = "checked"
  /\ Append1(c, "rejected_leak")
  /\ Abandon(c, "refused")
  /\ UNCHANGED <<kind, target, base, text, retried, docVars, lease, queue,
                 commits, ghosts, crashes>>

------------------------------------------------------------------------------
\* fs.writeFile opens with O_TRUNC and then writes: two observable steps.
\* Nothing re-reads the lease between the check and here.
Truncate(c) ==
  /\ pc[c] = "checked"
  /\ disk' = [disk EXCEPT ![target[c]] = {}]
  /\ landed' = landed \cup {c}
  /\ Goto(c, "writing")
  /\ UNCHANGED <<kind, target, base, text, retried, answer, index, head, lease,
                 queue, logVars, torn, overran, crashes>>

Fill(c) ==
  /\ pc[c] = "writing"
  /\ disk' = [disk EXCEPT ![target[c]] = text[c]]
  /\ Goto(c, "written")
  /\ UNCHANGED <<kind, target, base, text, retried, answer, index, head, lease,
                 queue, logVars, ghosts, crashes>>

\* The error is noted, and the call goes on.
WriteFails_Bug(c) ==
  /\ pc[c] \in {"checked", "writing"}
  /\ torn' = IF pc[c] = "writing" THEN torn \cup {c} ELSE torn
  /\ Goto(c, "written")
  /\ UNCHANGED <<kind, target, base, text, retried, answer, docVars, lease, queue,
                 logVars, landed, overran, crashes>>

\* writeFile throws: before it truncates, or after (disk full).
WriteFails(c) ==
  /\ pc[c] \in {"checked", "writing"}
  /\ torn' = IF pc[c] = "writing" THEN torn \cup {c} ELSE torn
  /\ Abandon(c, "failed")
  /\ UNCHANGED <<kind, target, base, text, retried, docVars, lease, queue,
                 logVars, landed, overran, crashes>>

\* indexDocument re-reads the file; its failure is not fatal.
IndexDoc(c) ==
  /\ pc[c] = "written"
  /\ \/ index' = [index EXCEPT ![target[c]] = disk[target[c]]]
     \/ UNCHANGED index
  /\ Goto(c, "indexed")
  /\ UNCHANGED <<kind, target, base, text, retried, answer, disk, head, lease,
                 queue, logVars, ghosts, crashes>>

\* With auto_commit the call joins the chain, still holding its lease.
Enqueue(c) ==
  /\ pc[c] = "indexed"
  /\ queue' = Append(queue, c)
  /\ Goto(c, "queued")
  /\ UNCHANGED <<kind, target, base, text, retried, answer, docVars, lease,
                 logVars, ghosts, crashes>>

SkipCommit(c) ==
  /\ pc[c] = "indexed"
  /\ answer' = [answer EXCEPT ![c] = "ok"]
  /\ Goto(c, "logging")
  /\ UNCHANGED <<kind, target, base, text, retried, docVars, lease, queue,
                 logVars, ghosts, crashes>>

\* git add and git commit, both scoped to the call's path: what is committed
\* is what the file holds now.
Committed(c) ==
  /\ disk[target[c]] # head[target[c]]
  /\ head' = [head EXCEPT ![target[c]] = disk[target[c]]]
  /\ commits' = [commits EXCEPT ![c] = @ \cup {disk[target[c]]}]

\* A failed commit never settles its link of the chain.
Commit_WedgeBug(c) ==
  /\ pc[c] = "queued"
  /\ queue # <<>> /\ Head(queue) = c
  /\ \/ /\ Committed(c) /\ queue' = Tail(queue)
        /\ answer' = [answer EXCEPT ![c] = "ok"]
     \/ /\ UNCHANGED <<head, commits, queue>>
        /\ answer' = [answer EXCEPT ![c] = "commit_failed"]
  /\ Goto(c, "logging")
  /\ UNCHANGED <<kind, target, base, text, retried, disk, index, lease, ledger,
                 ghosts, crashes>>

\* A failed commit returns at once, past the provenance entry.
Commit_HoleBug(c) ==
  /\ pc[c] = "queued"
  /\ queue # <<>> /\ Head(queue) = c
  /\ queue' = Tail(queue)
  /\ \/ /\ Committed(c) /\ Goto(c, "logging")
        /\ answer' = [answer EXCEPT ![c] = "ok"]
     \/ UNCHANGED <<head, commits>> /\ Abandon(c, "commit_failed")
  /\ UNCHANGED <<kind, target, base, text, retried, disk, index, lease, ledger,
                 ghosts, crashes>>

\* The head of the chain runs.  It fails without a commit (a hook, a timeout,
\* nothing to commit), or after one (the rev-parse that follows), and the
\* chain moves on in every case.
Commit(c) ==
  /\ pc[c] = "queued"
  /\ queue # <<>> /\ Head(queue) = c
  /\ queue' = Tail(queue)
  /\ \/ Committed(c) /\ answer' = [answer EXCEPT ![c] = "ok"]
     \/ Committed(c) /\ answer' = [answer EXCEPT ![c] = "commit_failed"]
     \/ UNCHANGED <<head, commits>> /\ answer' = [answer EXCEPT ![c] = "commit_failed"]
  /\ Goto(c, "logging")
  /\ UNCHANGED <<kind, target, base, text, retried, disk, index, lease, ledger,
                 ghosts, crashes>>

\* The provenance entry is appended whether or not the commit succeeded.
LogWrite(c) ==
  /\ pc[c] = "logging"
  /\ Append1(c, "write")
  /\ Goto(c, "releasing")
  /\ UNCHANGED <<kind, target, base, text, retried, answer, docVars, lease,
                 queue, commits, ghosts, crashes>>

\* The finally block, and then the caller's answer or the one retry.
MayRetry(c) == answer[c] = "stale" /\ kind[c] = "defaulted" /\ ~retried[c]

ReleaseLease(c) ==
  lease' = IF lease[target[c]] = c THEN [lease EXCEPT ![target[c]] = Free] ELSE lease

Release(c) ==
  /\ pc[c] = "releasing"
  /\ ReleaseLease(c)
  /\ \/ /\ MayRetry(c)
        /\ Goto(c, "again")
        /\ retried' = [retried EXCEPT ![c] = TRUE]
        /\ answer' = [answer EXCEPT ![c] = "none"]
     \/ /\ ~MayRetry(c)
        /\ Goto(c, "done")
        /\ UNCHANGED <<retried, answer>>
  /\ UNCHANGED <<kind, target, base, text, docVars, queue, logVars, ghosts,
                 crashes>>

------------------------------------------------------------------------------
\* The TTL of the lease on d passes.
Lapse(d) ==
  /\ lease[d] # Free
  /\ LeaseMayLapse \/ pc[lease[d]] \notin Holding
  /\ lease' = [lease EXCEPT ![d] = Free]
  /\ overran' = IF pc[lease[d]] \in Holding THEN overran \cup {lease[d]} ELSE overran
  /\ UNCHANGED <<callVars, docVars, queue, logVars, landed, torn, crashes>>

\* The process dies: calls in flight and the commit chain are gone, the files
\* and the lease rows stay.
Crash ==
  /\ crashes < MaxCrashes
  /\ \E c \in Calls : pc[c] \in Running
  /\ crashes' = crashes + 1
  /\ pc' = [c \in Calls |-> IF pc[c] \in Running THEN "dead" ELSE pc[c]]
  /\ torn' = torn \cup {c \in Calls : pc[c] = "writing"}
  /\ queue' = <<>>
  /\ UNCHANGED <<kind, target, base, text, retried, answer, docVars, lease,
                 logVars, landed, overran>>

Step(c) ==
  \/ LoadExplicit(c) \/ LoadDefaulted(c) \/ Decline(c) \/ PatchStale(c)
  \/ Contend(c) \/ Acquire(c) \/ Check(c) \/ RejectStale(c) \/ RejectLeak(c)
  \/ Truncate(c) \/ Fill(c) \/ WriteFails(c) \/ IndexDoc(c)
  \/ Enqueue(c) \/ SkipCommit(c) \/ Commit(c) \/ LogWrite(c) \/ Release(c)

Next ==
  \/ \E c \in Calls : Read(c) \/ LoadUnchecked(c) \/ Step(c)
  \/ \E d \in Docs : Lapse(d)
  \/ Crash

Spec == Init /\ [][Next]_vars

\* A call that has begun keeps going: every await settles (git is bounded by
\* a timeout).  A caller need not begin, or use the version it read.  The
\* clock reaches the TTL of a lease nobody releases.
Fairness ==
  /\ \A c \in Calls : WF_vars(pc[c] \in Running /\ Step(c))
  /\ \A d \in Docs : WF_vars(Lapse(d))

FairSpec == Spec /\ Fairness

------------------------------------------------------------------------------
(***************************************************************************)
(* Properties.                                                             *)
(***************************************************************************)
Settled(c) == pc[c] = "done"
InWrite(c) == pc[c] \in Holding /\ c \notin overran

\* The file lease (acquireLock, releaseLock, mintLeaseHolder): of the calls
\* working on one document at most one still has a live lease, and it is the
\* one in the table; a call that has answered holds none, so no error path
\* leaves the path locked behind it.
LeaseDiscipline ==
  /\ \A c \in Calls : InWrite(c) => lease[target[c]] = c
  /\ \A c, e \in Calls :
       InWrite(c) /\ InWrite(e) /\ target[c] = target[e] => c = e
  /\ \A c \in Calls : pc[c] \in {"done", "again"} => \A d \in Docs : lease[d] # c

\* What may have cost call c its change: some write of the document outlived
\* its own lease or died half way, or was blind and composed without it.
Excused(c) ==
  \E e \in landed :
    /\ target[e] = target[c]
    /\ \/ e \in overran \cup torn
       \/ kind[e] = "unchecked" /\ c \notin text[e]

Carried(c) ==
  \/ c \in disk[target[c]]
  \/ \E e \in Calls : pc[e] = "writing" /\ target[e] = target[c] /\ c \in text[e]

\* Optimistic concurrency (performWrite's check under the lease,
\* retryOnStaleIfDefaulted): a change that has reached its document is never
\* dropped by a later guarded write, whatever the interleaving of loads,
\* checks, retries and commits.
NoLostUpdate == \A c \in landed : Carried(c) \/ Excused(c)

\* The answer is the truth and the ledger agrees: "ok" and "commit failed"
\* mean the text landed and has its provenance entry (a commit failure must
\* not leave a hole in the ledger); every refusal means no trace of the
\* call in any file, index row or commit, and no write entry.
AnswerTruthful ==
  \A c \in Calls : Settled(c) =>
    CASE answer[c] \in {"ok", "commit_failed"} ->
           c \in landed \ torn /\ "write" \in ledger[c]
      [] answer[c] = "failed" -> "write" \notin ledger[c]
      [] OTHER ->
           /\ "write" \notin ledger[c]
           /\ \A d \in Docs : c \notin disk[d] \cup index[d] \cup head[d]

\* Attribution: a commit made in a call's name holds exactly the text that
\* call composed, unless some lease on the document lapsed.
CommitsExact ==
  \A c \in Calls :
    commits[c] \subseteq {text[c]} \/ \E e \in overran : target[e] = target[c]

\* Every call that has begun is answered, or dies with the process: no
\* failed commit wedges the chain, no stale retry goes round for ever.
EveryCallAnswers ==
  \A c \in Calls : pc[c] \in Running ~> pc[c] \in {"done", "dead"}

\* A crashed or hung writer never wedges a file: whoever holds a path, it
\* becomes free again.
PathsUnwedge == \A d \in Docs : lease[d] # Free ~> lease[d] = Free

\* performWrite's error paths and finally blocks: both of these.
NothingHangs == EveryCallAnswers /\ PathsUnwedge

\* The write path implements AtomicStore, which promises nothing once a lease
\* has lapsed under a working call: a write takes effect when it opens the file.
Filling(d) == {c \in Calls : pc[c] = "writing" /\ target[c] = d}

Store == INSTANCE AtomicStore WITH
  doc <- [d \in Docs |-> IF Filling(d) = {} THEN disk[d]
                         ELSE text[CHOOSE c \in Filling(d) : TRUE]],
  blind <- {c \in Calls : kind[c] = "unchecked"},
  applied <- landed,
  told <- [c \in Calls |-> IF Settled(c) THEN answer[c] ELSE "none"],
  late <- overran # {}

ImplementsStore == Store!SSpec
==============================================================================
