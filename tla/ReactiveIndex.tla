--------------------------- MODULE ReactiveIndex ---------------------------
(***************************************************************************)
(* The search index of a running server and the three writers of it: the   *)
(* index call at the end of every write tool, the file watcher             *)
(* (src/search/watcher.ts) and the full pass (src/search/reindex.ts), which *)
(* the start of the server, vault_reindex and a search on an empty index   *)
(* set off.  They share one status cell (src/search/index-state.ts), one    *)
(* set of self-write notes (src/search/self-write.ts), the index rows and   *)
(* the freshness manifest that the next start trusts.                      *)
(*                                                                         *)
(* A file is its version number and whether it is there; a version stands  *)
(* both for the content and for the modification time.  The rows of a path *)
(* carry the version they were made from; an evicted path carries the      *)
(* version at which it was found absent, so that "older than" has a        *)
(* meaning for deletions too.                                              *)
(***************************************************************************)
EXTENDS Naturals, FiniteSets

CONSTANTS
    Paths,        \* the markdown files of the vault
    WatchJobs,    \* index calls the watcher may have in flight (a bound)
    OwnJobs,      \* write tools that may be running (a bound)
    PassJobs,     \* full passes that may be running or waiting (a bound)
    NoPath,       \* what an idle job works on
    NoManifest,   \* the manifest before the first full pass
    MaxVersion,   \* bound on the changes of one file
    MaxStarts     \* bound on the starts of the server

ASSUME SlotsAssumption ==
    /\ WatchJobs \cap OwnJobs = {}
    /\ WatchJobs \cap PassJobs = {}
    /\ OwnJobs \cap PassJobs = {}
ASSUME BoundsAssumption == MaxVersion \in Nat \ {0} /\ MaxStarts \in Nat
ASSUME NoPathAssumption == NoPath \notin Paths
ASSUME NoManifestAssumption == NoManifest \notin [Paths -> Nat]

VARIABLES
    file,      \* the vault on disk
    rows,      \* the index rows, durable
    manifest,  \* the freshness manifest, durable
    up,        \* a server runs
    watching,  \* its watcher has been started
    status,    \* the index status every tool consults
    pending,   \* per path: the event whose debounce timer runs
    deferred,  \* per path: the event parked during a full pass
    drain,     \* drainScheduled: the one-shot drain is registered
    note,      \* paths with a live self-write note
    job,       \* every index call and full pass in flight
    starts,    \* number of starts so far (bounds the model)
    ownAt,     \* history: the last version a write tool wrote
    excuse     \* history: why the rows of a path may be out of date

vars == <<file, rows, manifest, up, watching, status, pending, deferred,
          drain, note, job, starts, ownAt, excuse>>

Jobs      == WatchJobs \cup OwnJobs \cup PassJobs
Version   == 0 .. MaxVersion
FileState == [at : Version, here : BOOLEAN]
Event     == {"none", "change", "unlink"}

\* The phases of a job.  An index call: the tool has passed the readiness
\* check (admitted), the watcher re-stats an unlinked path (restat), the file
\* is read and embedded (read), the rows are replaced (rows), the manifest
\* entry is patched (stat).  A full pass: it waits for the pass under way
\* (wait), lists (list), reads file by file (stage), replaces all the rows
\* (commit), writes the manifest (manifest).
CallPhase == {"restat", "read", "rows", "stat"}
PassPhase == {"list", "stage", "commit", "manifest"}
Phase     == {"idle", "admitted", "wait"} \cup CallPhase \cup PassPhase

Absent == [at |-> 0, here |-> FALSE]
Idle   == [ph |-> "idle", path |-> NoPath, todo |-> {},
           seen |-> [p \in Paths |-> Absent], snap |-> NoManifest]

\* The rows of p are what an index made from the file now would hold.
Same(p) == /\ rows[p].here = file[p].here
           /\ file[p].here => rows[p].at = file[p].at

IndexEmpty == \A p \in Paths : ~rows[p].here

\* buildManifest: path to modification time, of the files that are there.
OnDisk == [p \in Paths |-> IF file[p].here THEN file[p].at ELSE 0]

\* isIndexFresh: rows exist, and the stored manifest is the one of the disk.
Fresh == ~IndexEmpty /\ manifest = OnDisk

Busy(j)    == job[j].ph # "idle"
InPass(j)  == job[j].ph \in PassPhase
Passing    == \E j \in Jobs : InPass(j)
Waiting    == {j \in PassJobs : job[j].ph = "wait"}
FreeWatch  == {j \in WatchJobs : ~Busy(j)}
Parked     == {p \in Paths : deferred[p] # "none"}

-----------------------------------------------------------------------------
(* The start and the end of a server.                                      *)

Init ==
    /\ file \in [Paths -> {[at |-> 1, here |-> TRUE], Absent}]
    /\ \/ rows = [p \in Paths |-> Absent] /\ manifest = NoManifest
       \/ rows = file /\ manifest = OnDisk
    /\ up = FALSE /\ watching = FALSE /\ status = "ready"
    /\ pending = [p \in Paths |-> "none"]
    /\ deferred = [p \in Paths |-> "none"]
    /\ drain = FALSE
    /\ note = {}
    /\ job = [j \in Jobs |-> Idle]
    /\ starts = 0
    /\ ownAt = [p \in Paths |-> 0]
    /\ excuse = [p \in Paths |-> {}]

\* startVaultServices: a fresh index is served as it is and watched at once;
\* otherwise a background pass runs, and the watcher starts when it ends.
Start ==
    /\ ~up /\ starts < MaxStarts
    /\ up' = TRUE /\ starts' = starts + 1
    /\ \/ /\ Fresh
          /\ status' = "ready" /\ watching' = TRUE
          /\ excuse' = [p \in Paths |->
                          IF Same(p) THEN excuse[p] ELSE excuse[p] \cup {"trusted"}]
          /\ UNCHANGED job
       \/ /\ ~Fresh
          /\ status' = "indexing"
          /\ \E j \in PassJobs : job' = [job EXCEPT ![j] = [Idle EXCEPT !.ph = "list"]]
          /\ UNCHANGED <<watching, excuse>>
    /\ UNCHANGED <<file, rows, manifest, pending, deferred, drain, note, ownAt>>

\* A shutdown or the death of the process: timers, parked events, notes and
\* calls in flight are gone; files, rows and manifest stay.
Stop ==
    /\ up
    /\ up' = FALSE /\ watching' = FALSE /\ status' = "ready"
    /\ pending' = [p \in Paths |-> "none"]
    /\ deferred' = [p \in Paths |-> "none"]
    /\ drain' = FALSE
    /\ note' = {}
    /\ job' = [j \in Jobs |-> Idle]
    /\ UNCHANGED <<file, rows, manifest, starts, ownAt, excuse>>

-----------------------------------------------------------------------------
(* Changes of the files.                                                   *)

\* A pass that has yet to read p will see what p is then.
YetToRead(p) ==
    \E j \in Jobs : \/ job[j].ph = "list"
                    \/ job[j].ph = "stage" /\ p \in job[j].todo

\* The watcher's schedule(): the debounce timer of the path starts again and
\* the latest event wins.  Without a watcher the change emits nothing.
Emit(p, here) ==
    IF watching
    THEN /\ pending' = [pending EXCEPT ![p] = IF here THEN "change" ELSE "unlink"]
         /\ excuse' = [excuse EXCEPT ![p] = {}]
    ELSE /\ excuse' = IF up /\ ~YetToRead(p)
                      THEN [excuse EXCEPT ![p] = @ \cup {"unwatched"}] ELSE excuse
         /\ UNCHANGED pending

\* An editor, a sync engine or a script creates, saves or deletes a file.
ForeignChange(p) ==
    /\ file[p].at < MaxVersion
    /\ \E here \in BOOLEAN :
         /\ here \/ file[p].here
         /\ file' = [file EXCEPT ![p] = [at |-> @.at + 1, here |-> here]]
         /\ Emit(p, here)
    /\ UNCHANGED <<rows, manifest, up, watching, status, deferred, drain, note,
                   job, starts, ownAt>>

-----------------------------------------------------------------------------
(* The steps of indexDocument.                                             *)

\* indexDocument up to its first await: an empty index turns the call into a
\* full pass, which marks nothing.
Opened(j, p) ==
    [job[j] EXCEPT !.path = p, !.ph = IF IndexEmpty THEN "list" ELSE "read"]

\* A file is read once and embedded; a file that is gone ends the call.
ReadFile(j) ==
    /\ job[j].ph = "read"
    /\ file[job[j].path].here
    /\ job' = [job EXCEPT ![j].ph = "rows",
                          ![j].seen[job[j].path] = file[job[j].path]]
    /\ UNCHANGED <<file, rows, manifest, up, watching, status, pending, deferred,
                   drain, note, starts, ownAt, excuse>>

\* What every replacement of rows records: it put an older state of the path
\* over a newer one.
Overtaken(Q, new) ==
    [p \in Paths |-> IF p \in Q /\ new[p].at < rows[p].at
                     THEN excuse[p] \cup {"overtaken"} ELSE excuse[p]]

\* The rows of the document are replaced in one transaction and the manifest
\* is read, before the stat of the file is awaited.
ReplaceRows(j) ==
    /\ job[j].ph = "rows"
    /\ rows' = [rows EXCEPT ![job[j].path] = job[j].seen[job[j].path]]
    /\ excuse' = Overtaken({job[j].path}, job[j].seen)
    /\ job' = [job EXCEPT ![j].ph = "stat", ![j].snap = manifest]
    /\ UNCHANGED <<file, manifest, up, watching, status, pending, deferred, drain,
                   note, starts, ownAt>>

\* A call ends: a write tool notes its write, the watcher forgets the path.
Finish(j) ==
    /\ job' = [job EXCEPT ![j] = Idle]
    /\ note' = IF j \in OwnJobs THEN note \cup {job[j].path} ELSE note

\* The manifest read before the await is written back, patched with the
\* modification time the file has now.
PatchManifest(j) ==
    /\ job[j].ph = "stat"
    /\ manifest' = IF job[j].snap # NoManifest /\ file[job[j].path].here
                   THEN [job[j].snap EXCEPT ![job[j].path] = file[job[j].path].at]
                   ELSE manifest
    /\ Finish(j)
    /\ UNCHANGED <<file, rows, up, watching, status, pending, deferred, drain,
                   starts, ownAt, excuse>>

\* The file is gone when the call reads it.
FileGone(j) ==
    /\ job[j].ph = "read"
    /\ ~file[job[j].path].here
    /\ Finish(j)
    /\ UNCHANGED <<file, rows, manifest, up, watching, status, pending, deferred,
                   drain, starts, ownAt, excuse>>

-----------------------------------------------------------------------------
(* The write tools.                                                        *)

\* requireIndexReady is asked once, when the tool is called.
OwnAdmitted(j, p) ==
    /\ up /\ j \in OwnJobs /\ ~Busy(j)
    /\ status = "ready"
    /\ job' = [job EXCEPT ![j] = [Idle EXCEPT !.ph = "admitted", !.path = p]]
    /\ UNCHANGED <<file, rows, manifest, up, watching, status, pending, deferred,
                   drain, note, starts, ownAt, excuse>>

\* performWrite under the lease of the path: the file, then the index call.
OwnWrite(j) ==
    /\ job[j].ph = "admitted"
    /\ \A k \in OwnJobs : job[k].path = job[j].path => job[k].ph \in {"idle", "admitted"}
    /\ file[job[j].path].at < MaxVersion
    /\ LET p == job[j].path IN
         /\ file' = [file EXCEPT ![p] = [at |-> @.at + 1, here |-> TRUE]]
         /\ ownAt' = [ownAt EXCEPT ![p] = file[p].at + 1]
         /\ Emit(p, TRUE)
         /\ job' = [job EXCEPT ![j] = Opened(j, p)]
    /\ UNCHANGED <<rows, manifest, up, watching, status, deferred, drain, note,
                   starts>>

\* The write of an admitted tool may be refused (stale base, lease, gate).
OwnRefused(j) ==
    /\ job[j].ph = "admitted"
    /\ job' = [job EXCEPT ![j] = Idle]
    /\ UNCHANGED <<file, rows, manifest, up, watching, status, pending, deferred,
                   drain, note, starts, ownAt, excuse>>

\* The second of a note is over.
NoteExpires(p) ==
    /\ p \in note
    /\ note' = note \ {p}
    /\ UNCHANGED <<file, rows, manifest, up, watching, status, pending, deferred,
                   drain, job, starts, ownAt, excuse>>

-----------------------------------------------------------------------------
(* The watcher.                                                            *)

\* A job has read p already and will write what it read.
Holds(j, p) ==
    \/ job[j].ph = "rows" /\ job[j].path = p
    \/ job[j].ph = "stage" /\ p \notin job[j].todo

\* A consumed note drops the event, whoever caused it: history records it
\* when the last change was not Daftari's own, and the rows, or a read on its
\* way to them, are not what the file is.
Swallowed(Q) ==
    [p \in Paths |->
       IF /\ p \in Q
          /\ file[p].at # ownAt[p]
          /\ \/ ~Same(p)
             \/ \E j \in Jobs : Holds(j, p) /\ job[j].seen[p] # file[p]
       THEN excuse[p] \cup {"swallowed"} ELSE excuse[p]]

\* dispatch() past its early returns: an unlinked path is re-stat'ed first.
Dispatched(j, p, event) ==
    IF event = "unlink" THEN [Idle EXCEPT !.ph = "restat", !.path = p]
    ELSE Opened(j, p)

\* Mutant: an event that finds a pass under way is dropped.
TimerFires_Dropped(p) ==
    /\ up /\ pending[p] # "none"
    /\ pending' = [pending EXCEPT ![p] = "none"]
    /\ \/ /\ p \in note
          /\ note' = note \ {p}
          /\ excuse' = Swallowed({p})
          /\ UNCHANGED job
       \/ /\ p \notin note /\ status = "indexing"
          /\ UNCHANGED <<note, job, excuse>>
       \/ /\ p \notin note /\ status # "indexing"
          /\ \E j \in FreeWatch :
               job' = [job EXCEPT ![j] = Dispatched(j, p, pending[p])]
          /\ UNCHANGED <<note, excuse>>
    /\ UNCHANGED <<file, rows, manifest, up, watching, status, deferred, drain,
                   starts, ownAt>>

\* Mutant: the timer is set again and again until the pass is over.
TimerFires_Polls(p) ==
    /\ up /\ pending[p] # "none"
    /\ pending' = [pending EXCEPT ![p] = "none"]
    /\ \/ /\ p \in note
          /\ note' = note \ {p}
          /\ excuse' = Swallowed({p})
          /\ UNCHANGED job
       \/ /\ p \notin note /\ status # "indexing"
          /\ \E j \in FreeWatch :
               job' = [job EXCEPT ![j] = Dispatched(j, p, pending[p])]
          /\ UNCHANGED <<note, excuse>>
    /\ UNCHANGED <<file, rows, manifest, up, watching, status, deferred, drain,
                   starts, ownAt>>

\* The debounce timer of p fires: the event is dropped for a note, parked
\* while the status says indexing, or handed to an index call.
TimerFires(p) ==
    /\ up /\ pending[p] # "none"
    /\ pending' = [pending EXCEPT ![p] = "none"]
    /\ \/ /\ p \in note
          /\ note' = note \ {p}
          /\ excuse' = Swallowed({p})
          /\ UNCHANGED <<deferred, drain, job>>
       \/ /\ p \notin note /\ status = "indexing"
          /\ deferred' = [deferred EXCEPT ![p] = pending[p]]
          /\ drain' = TRUE
          /\ UNCHANGED <<note, job, excuse>>
       \/ /\ p \notin note /\ status # "indexing"
          /\ \E j \in FreeWatch :
               job' = [job EXCEPT ![j] = Dispatched(j, p, pending[p])]
          /\ UNCHANGED <<deferred, drain, note, excuse>>
    /\ UNCHANGED <<file, rows, manifest, up, watching, status, starts, ownAt>>

\* The re-stat of an unlinked path: a file that is back is indexed, one that
\* is gone is evicted from the rows and from the manifest.
Restat(j) ==
    /\ job[j].ph = "restat"
    /\ LET p == job[j].path IN
         \/ /\ file[p].here
            /\ job' = [job EXCEPT ![j] = Opened(j, p)]
            /\ UNCHANGED <<rows, manifest>>
         \/ /\ ~file[p].here
            /\ rows' = [rows EXCEPT ![p] = file[p]]
            /\ manifest' = IF manifest = NoManifest THEN manifest
                           ELSE [manifest EXCEPT ![p] = 0]
            /\ job' = [job EXCEPT ![j] = Idle]
    /\ UNCHANGED <<file, up, watching, status, pending, deferred, drain, note,
                   starts, ownAt, excuse>>

-----------------------------------------------------------------------------
(* The full pass.                                                          *)

\* vault_reindex, and a search on an empty index: a caller that finds a pass
\* under way waits for the status to change.
ReindexCalled(j) ==
    /\ up /\ j \in PassJobs /\ ~Busy(j)
    /\ \/ /\ status = "indexing"
          /\ job' = [job EXCEPT ![j] = [Idle EXCEPT !.ph = "wait"]]
          /\ UNCHANGED status
       \/ /\ status # "indexing"
          /\ status' = "indexing"
          /\ job' = [job EXCEPT ![j] = [Idle EXCEPT !.ph = "list"]]
    /\ UNCHANGED <<file, rows, manifest, up, watching, pending, deferred, drain,
                   note, starts, ownAt, excuse>>

\* listFiles: from here on the pass owes every path a read.
ListFiles(j) ==
    /\ job[j].ph = "list"
    /\ job' = [job EXCEPT ![j].ph = "stage",
                          ![j].todo = {p \in Paths : file[p].here},
                          ![j].seen = [p \in Paths |-> [file[p] EXCEPT !.here = FALSE]]]
    /\ excuse' = [p \in Paths |-> {}]
    /\ UNCHANGED <<file, rows, manifest, up, watching, status, pending, deferred,
                   drain, note, starts, ownAt>>

\* stageOne: a file that has gone since the listing is skipped.
StageFile(j, p) ==
    /\ job[j].ph = "stage" /\ p \in job[j].todo
    /\ job' = [job EXCEPT ![j].todo = @ \ {p}, ![j].seen[p] = file[p]]
    /\ UNCHANGED <<file, rows, manifest, up, watching, status, pending, deferred,
                   drain, note, starts, ownAt, excuse>>

\* writeChunkRows, after the embedding batches: the whole index is replaced
\* in one transaction.
CommitRows(j) ==
    /\ job[j].ph = "stage" /\ job[j].todo = {}
    /\ rows' = job[j].seen
    /\ excuse' = Overtaken(Paths, job[j].seen)
    /\ job' = [job EXCEPT ![j].ph = "manifest"]
    /\ UNCHANGED <<file, manifest, up, watching, status, pending, deferred, drain,
                   note, starts, ownAt>>

\* Mutant: a pass that failed leaves the status without running the callbacks.
Leave_Bug(j, st) ==
    LET due  == IF drain /\ st = "ready" THEN Parked ELSE {}
        runs == due \ note
    IN  /\ \E at \in [runs -> FreeWatch] :
             /\ \A p, q \in runs : at[p] = at[q] => p = q
             /\ job' = [k \in Jobs |->
                          IF k = j THEN Idle
                          ELSE IF k \in Waiting THEN [Idle EXCEPT !.ph = "list"]
                          ELSE IF \E p \in runs : at[p] = k
                          THEN LET p == CHOOSE q \in runs : at[q] = k
                               IN  Dispatched(k, p, deferred[p])
                          ELSE job[k]]
        /\ deferred' = [p \in Paths |-> IF p \in due THEN "none" ELSE deferred[p]]
        /\ drain' = (drain /\ st # "ready")
        /\ status' = IF Waiting = {} THEN st ELSE "indexing"
        /\ watching' = TRUE

\* markIndexReady or markIndexError: the status leaves "indexing" and the
\* registered callbacks run.  The drain dispatches every parked event in the
\* same turn; the waiting callers resume after it and mark again.
Leave(j, st) ==
    LET due  == IF drain THEN Parked ELSE {}
        runs == due \ note
    IN  /\ \E at \in [runs -> FreeWatch] :
             /\ \A p, q \in runs : at[p] = at[q] => p = q
             /\ job' = [k \in Jobs |->
                          IF k = j THEN Idle
                          ELSE IF k \in Waiting THEN [Idle EXCEPT !.ph = "list"]
                          ELSE IF \E p \in runs : at[p] = k
                          THEN LET p == CHOOSE q \in runs : at[q] = k
                               IN  Dispatched(k, p, deferred[p])
                          ELSE job[k]]
        /\ deferred' = [p \in Paths |-> IF p \in due THEN "none" ELSE deferred[p]]
        /\ drain' = FALSE
        /\ status' = IF Waiting = {} THEN st ELSE "indexing"
        /\ watching' = TRUE

\* The manifest of the disk as it is now is stored, and the pass ends: one
\* the status announces leaves "indexing", one that an index call turned
\* into ends the call.
WriteManifest(j) ==
    /\ job[j].ph = "manifest"
    /\ manifest' = OnDisk
    /\ \/ /\ j \in PassJobs
          /\ excuse' = Swallowed((IF drain THEN Parked ELSE {}) \cap note)
          /\ note' = note \ (IF drain THEN Parked ELSE {})
          /\ Leave(j, "ready")
       \/ /\ j \notin PassJobs
          /\ Finish(j)
          /\ UNCHANGED <<deferred, drain, status, watching, excuse>>
    /\ UNCHANGED <<file, rows, up, pending, starts, ownAt>>

\* An index call or a full pass fails (a listing or a database error).
Fails(j) ==
    /\ \/ /\ j \notin PassJobs
          /\ job[j].ph \in {"read", "rows"} \cup PassPhase
          /\ excuse' = [p \in Paths |-> IF InPass(j) \/ p = job[j].path
                                        THEN excuse[p] \cup {"failed"} ELSE excuse[p]]
          /\ Finish(j)
          /\ UNCHANGED <<deferred, drain, status, watching>>
       \/ /\ j \in PassJobs /\ InPass(j)
          /\ excuse' = [p \in Paths |-> excuse[p] \cup {"failed"}]
          /\ note' = note \ (IF drain THEN Parked ELSE {})
          /\ Leave(j, "error")
    /\ UNCHANGED <<file, rows, manifest, up, pending, starts, ownAt>>

-----------------------------------------------------------------------------
JobStep(j) ==
    \/ ReadFile(j) \/ ReplaceRows(j) \/ PatchManifest(j) \/ FileGone(j)
    \/ OwnWrite(j) \/ OwnRefused(j) \/ Restat(j)
    \/ ListFiles(j) \/ (\E p \in Paths : StageFile(j, p))
    \/ CommitRows(j) \/ WriteManifest(j)

Next ==
    \/ Start \/ Stop
    \/ \E p \in Paths : ForeignChange(p) \/ NoteExpires(p) \/ TimerFires(p)
    \/ \E j \in Jobs : JobStep(j) \/ Fails(j) \/ ReindexCalled(j)
    \/ \E j \in Jobs, p \in Paths : OwnAdmitted(j, p)

\* Timers fire, awaited reads and transactions complete.  Nothing obliges
\* anyone to change a file, to call a tool or to start a server.
Spec ==
    /\ Init /\ [][Next]_vars
    /\ \A p \in Paths : WF_vars(TimerFires(p))
    /\ \A j \in Jobs : WF_vars(JobStep(j))
-----------------------------------------------------------------------------
(* Properties.                                                             *)

TypeOK ==
    /\ file \in [Paths -> FileState]
    /\ rows \in [Paths -> FileState]
    /\ manifest \in {NoManifest} \cup [Paths -> Version]
    /\ up \in BOOLEAN /\ watching \in BOOLEAN /\ drain \in BOOLEAN
    /\ status \in {"ready", "indexing", "error"}
    /\ pending \in [Paths -> Event] /\ deferred \in [Paths -> Event]
    /\ note \subseteq Paths
    /\ job \in [Jobs -> [ph : Phase, path : Paths \cup {NoPath}, todo : SUBSET Paths,
                         seen : [Paths -> FileState],
                         snap : {NoManifest} \cup [Paths -> Version]]]
    /\ starts \in 0 .. MaxStarts
    /\ ownAt \in [Paths -> Version]
    /\ excuse \in [Paths -> SUBSET {"trusted", "unwatched", "overtaken", "swallowed",
                                    "failed"}]

\* Nothing is under way for p: no timer, no parked event, no job that may
\* still read or write its rows.
Quiet(p) ==
    /\ up /\ watching
    /\ pending[p] = "none" /\ deferred[p] = "none"
    /\ \A j \in Jobs : job[j].ph = "idle" \/ (job[j].ph \in CallPhase /\ job[j].path # p)

\* watcher.ts, reindex.ts, write.ts:627-637.  When nothing is under way for a
\* path, its rows are what the file holds, whatever interleaving of edits,
\* deletions, write tools, watcher calls and full passes came before, save for
\* the five cases the history names: a call or pass that failed, an edit no
\* watcher saw, a foreign event a self-write note swallowed, an older read
\* committed after a newer one, a start that trusted its manifest.
IndexSettles == \A p \in Paths : Quiet(p) /\ excuse[p] = {} => Same(p)

\* watcher.ts:237-269, index-state.ts:83-121.  An event is only ever parked
\* behind a pass that is still running and whose end will drain it: no
\* overlap of passes and waiting callers strands one.
DrainArmed ==
    Parked # {} => /\ drain
                   /\ status = "indexing"
                   /\ \E j \in PassJobs : InPass(j)

\* watcher.ts:226-345, index-state.ts:83-121.  A change the watcher was told
\* of is always disposed of: its timer fires, and a parked event is drained
\* by the end of a pass, successful or not, unless the server stops.
EventsSettle ==
    \A p \in Paths :
        (pending[p] # "none" \/ deferred[p] # "none")
            ~> (pending[p] = "none" /\ deferred[p] = "none")

=============================================================================
