------------------------ MODULE ReactiveIndexProofs ------------------------
(***************************************************************************)
(* No event is stranded: what the watcher parks is always behind a running *)
(* pass whose end drains it.  The strengthening says why: the status says  *)
(* "indexing" only while a pass that a caller marked is running, so that   *)
(* every way out of the status is the end of one of them, and the end of   *)
(* any of them flushes the drain.                                          *)
(***************************************************************************)
EXTENDS ReactiveIndex, TLAPS

JobState == [ph : Phase, path : Paths \cup {NoPath}, todo : SUBSET Paths,
             seen : [Paths -> FileState],
             snap : {NoManifest} \cup [Paths -> Version]]

\* What the argument reads of TypeOK.
Typed ==
    /\ file \in [Paths -> FileState]
    /\ rows \in [Paths -> FileState]
    /\ manifest \in {NoManifest} \cup [Paths -> Version]
    /\ pending \in [Paths -> Event] /\ deferred \in [Paths -> Event]
    /\ job \in [Jobs -> JobState]

\* The status is backed by a marked pass, and parked events by the status.
Backed ==
    /\ (status = "indexing") => \E j \in PassJobs : InPass(j)
    /\ (Parked # {}) => up /\ drain /\ status = "indexing"

IInv == Typed /\ Backed

LEMMA Bounds == 0 \in Version /\ \A n \in Version : n < MaxVersion => n + 1 \in Version
BY BoundsAssumption DEF Version

LEMMA IdleTyped ==
    /\ Idle \in JobState /\ Absent \in FileState
    /\ \A x \in Phase : [Idle EXCEPT !.ph = x] \in JobState
    /\ \A x \in Phase, p \in Paths \cup {NoPath} :
         [Idle EXCEPT !.ph = x, !.path = p] \in JobState
BY Bounds DEF Idle, JobState, Phase, Absent, FileState

LEMMA OnDiskTyped == file \in [Paths -> FileState] => OnDisk \in [Paths -> Version]
BY Bounds DEF OnDisk, FileState

\* An update of the phase and the path of one job keeps the jobs typed.
LEMMA OpenedTyped ==
    ASSUME job \in [Jobs -> JobState], NEW j \in Jobs, NEW p \in Paths \cup {NoPath}
    PROVE  Opened(j, p) \in JobState
BY DEF Opened, JobState, Phase, PassPhase, CallPhase

LEMMA DispatchedTyped ==
    ASSUME job \in [Jobs -> JobState], NEW j \in Jobs, NEW p \in Paths, NEW event
    PROVE  Dispatched(j, p, event) \in JobState
<1>1. "restat" \in Phase  BY DEF Phase, CallPhase
<1> QED  BY <1>1, OpenedTyped, IdleTyped DEF Dispatched

LEMMA PassIsJob == PassJobs \subseteq Jobs  BY DEF Jobs

\* The initial states.
LEMMA InitHolds == Init => IInv
<1> SUFFICES ASSUME Init PROVE IInv  OBVIOUS
<1>0. 1 \in Version  BY BoundsAssumption DEF Version
<1>1. /\ [at |-> 1, here |-> TRUE] \in FileState
      /\ Absent \in FileState /\ Idle \in JobState /\ "none" \in Event
  <2>1. [at |-> 1, here |-> TRUE] \in FileState  BY <1>0 DEF FileState
  <2> QED  BY <2>1, IdleTyped DEF Event
<1>2. file \in [Paths -> FileState]  BY <1>1 DEF Init
<1>3. rows \in [Paths -> FileState]  BY <1>1, <1>2 DEF Init
<1>4. manifest \in {NoManifest} \cup [Paths -> Version]
  BY <1>2, OnDiskTyped DEF Init
<1>5. Typed  BY <1>1, <1>2, <1>3, <1>4 DEF Init, Typed
<1>6. Backed  BY DEF Init, Backed, Parked
<1> QED  BY <1>5, <1>6 DEF IInv

\* A step that leaves the status, the parked events and the phases of the
\* marked passes within a pass keeps them backed.
LEMMA BackedKept ==
    ASSUME Backed, up' = up, status' = status, deferred' = deferred, drain' = drain,
           \A j \in PassJobs : InPass(j) => InPass(j)'
    PROVE  Backed'
BY DEF Backed, Parked

\* The end of a marked pass flushes: nothing stays parked, and the status
\* says "indexing" again only for a waiting caller that resumes as a pass.
LEMMA LeaveHolds ==
    ASSUME IInv, NEW j \in PassJobs, NEW st \in {"ready", "error"}, Leave(j, st),
           InPass(j)
    PROVE  /\ job' \in [Jobs -> JobState]
           /\ deferred' \in [Paths -> Event]
           /\ Backed'
<1> DEFINE due  == IF drain THEN Parked ELSE {}
           runs == due \ note
<1>1. PICK at \in [runs -> FreeWatch] :
         job' = [k \in Jobs |->
                   IF k = j THEN Idle
                   ELSE IF k \in Waiting THEN [Idle EXCEPT !.ph = "list"]
                   ELSE IF \E p \in runs : at[p] = k
                   THEN LET p == CHOOSE q \in runs : at[q] = k
                        IN  Dispatched(k, p, deferred[p])
                   ELSE job[k]]
  BY DEF Leave
<1>2. runs \subseteq Paths  BY DEF Parked
<1>3. ASSUME NEW k \in Jobs PROVE job'[k] \in JobState
  <2>1. CASE k = j  BY <2>1, <1>1, IdleTyped
  <2>2. CASE k # j /\ k \in Waiting
    BY <2>2, <1>1, IdleTyped DEF Phase, PassPhase
  <2>3. CASE k # j /\ k \notin Waiting /\ \E p \in runs : at[p] = k
    <3> DEFINE p == CHOOSE q \in runs : at[q] = k
    <3>1. p \in runs  BY <2>3
    <3>2. job'[k] = Dispatched(k, p, deferred[p])  BY <2>3, <1>1
    <3> QED  BY <3>1, <3>2, <1>2, DispatchedTyped DEF IInv, Typed
  <2>4. CASE k # j /\ k \notin Waiting /\ ~\E p \in runs : at[p] = k
    BY <2>4, <1>1 DEF IInv, Typed
  <2> QED  BY <2>1, <2>2, <2>3, <2>4
<1>4. job' \in [Jobs -> JobState]
  <2>1. job' = [k \in Jobs |-> job'[k]]  BY <1>1
  <2> QED  BY <2>1, <1>3
<1>5. deferred' = [p \in Paths |-> IF p \in due THEN "none" ELSE deferred[p]]
  BY DEF Leave
<1>6. deferred' \in [Paths -> Event]  BY <1>5 DEF IInv, Typed, Event
<1>7. Parked' = {}
  <2>1. \A p \in Paths : p \notin due => deferred[p] = "none"
    BY DEF IInv, Backed, Parked
  <2> QED  BY <2>1, <1>5 DEF Parked
<1>8. ASSUME status' = "indexing" PROVE \E k \in PassJobs : InPass(k)'
  <2>1. PICK k \in Waiting : TRUE  BY <1>8 DEF Leave
  <2>2. k \in PassJobs /\ k # j /\ job[k].ph = "wait"
    BY <2>1 DEF Waiting, InPass, PassPhase
  <2>3. job'[k] = [Idle EXCEPT !.ph = "list"]  BY <2>1, <2>2, <1>1, PassIsJob
  <2>4. InPass(k)'  BY <2>3 DEF InPass, PassPhase, Idle
  <2> QED  BY <2>2, <2>4
<1> QED  BY <1>4, <1>6, <1>7, <1>8 DEF Backed

-----------------------------------------------------------------------------
(* The steps of a server that starts and stops, and of the files.          *)

LEMMA StartKeeps == ASSUME IInv, Start PROVE IInv'
<1>1. CASE job' = job /\ status' = "ready"
  <2>1. Typed'  BY <1>1 DEF Start, IInv, Typed
  <2>2. Parked' = {}
    BY DEF Start, IInv, Backed, Parked
  <2> QED  BY <1>1, <2>1, <2>2 DEF IInv, Backed
<1>2. CASE status' = "indexing" /\ \E j \in PassJobs :
               job' = [job EXCEPT ![j] = [Idle EXCEPT !.ph = "list"]]
  <2>1. PICK j \in PassJobs : job' = [job EXCEPT ![j] = [Idle EXCEPT !.ph = "list"]]
    BY <1>2
  <2>2. job'[j] = [Idle EXCEPT !.ph = "list"]
    BY <2>1, PassIsJob DEF IInv, Typed
  <2>3. [Idle EXCEPT !.ph = "list"] \in JobState
    BY IdleTyped DEF Phase, PassPhase
  <2>4. Typed'  BY <2>1, <2>3 DEF Start, IInv, Typed
  <2>5. InPass(j)'  BY <2>2 DEF InPass, PassPhase, Idle
  <2> QED  BY <1>2, <2>4, <2>5 DEF Start, IInv, Backed, Parked
<1> QED  BY <1>1, <1>2 DEF Start

LEMMA StopKeeps == ASSUME IInv, Stop PROVE IInv'
<1>1. Typed'
  BY IdleTyped DEF Stop, IInv, Typed, Event
<1>2. Parked' = {}  BY DEF Stop, Parked
<1> QED  BY <1>1, <1>2 DEF Stop, IInv, Backed

LEMMA ForeignChangeKeeps ==
    ASSUME IInv, NEW p \in Paths, ForeignChange(p) PROVE IInv'
<1>1. file' \in [Paths -> FileState]
  BY Bounds DEF ForeignChange, IInv, Typed, FileState
<1>2. pending' \in [Paths -> Event]
  BY DEF ForeignChange, Emit, IInv, Typed, Event
<1>3. Typed'  BY <1>1, <1>2 DEF ForeignChange, IInv, Typed
<1>4. Backed'  BY BackedKept DEF ForeignChange, IInv, InPass
<1> QED  BY <1>3, <1>4 DEF IInv

LEMMA NoteExpiresKeeps ==
    ASSUME IInv, NEW p \in Paths, NoteExpires(p) PROVE IInv'
<1>1. Typed'  BY DEF NoteExpires, IInv, Typed
<1>2. Backed'  BY BackedKept DEF NoteExpires, IInv, InPass
<1> QED  BY <1>1, <1>2 DEF IInv

LEMMA TimerFiresKeeps ==
    ASSUME IInv, NEW p \in Paths, TimerFires(p) PROVE IInv'
<1>1. pending' \in [Paths -> Event]
  BY DEF TimerFires, IInv, Typed, Event
<1>2. CASE UNCHANGED <<deferred, drain, job>>
  <2>1. Typed'  BY <1>1, <1>2 DEF TimerFires, IInv, Typed
  <2>2. Backed'  BY <1>2, BackedKept DEF TimerFires, IInv, InPass
  <2> QED  BY <2>1, <2>2 DEF IInv
<1>3. CASE /\ status = "indexing"
           /\ deferred' = [deferred EXCEPT ![p] = pending[p]]
           /\ drain' = TRUE
           /\ UNCHANGED job
  <2>1. deferred' \in [Paths -> Event]  BY <1>3 DEF IInv, Typed
  <2>2. Typed'  BY <1>1, <1>3, <2>1 DEF TimerFires, IInv, Typed
  <2>3. status' = "indexing" /\ up'  BY <1>3 DEF TimerFires
  <2>4. \E j \in PassJobs : InPass(j)'  BY <1>3 DEF IInv, Backed, InPass
  <2> QED  BY <1>3, <2>2, <2>3, <2>4 DEF IInv, Backed
<1>4. CASE /\ status # "indexing"
           /\ \E j \in FreeWatch : job' = [job EXCEPT ![j] = Dispatched(j, p, pending[p])]
           /\ UNCHANGED <<deferred, drain>>
  <2>1. PICK j \in FreeWatch : job' = [job EXCEPT ![j] = Dispatched(j, p, pending[p])]
    BY <1>4
  <2>2. j \in Jobs  BY DEF FreeWatch, Jobs
  <2>3. Dispatched(j, p, pending[p]) \in JobState
    BY <2>2, DispatchedTyped DEF IInv, Typed
  <2>4. job' \in [Jobs -> JobState]  BY <2>1, <2>3 DEF IInv, Typed
  <2>5. Typed'  BY <1>1, <1>4, <2>4 DEF TimerFires, IInv, Typed
  <2>6. Backed'  BY <1>4 DEF TimerFires, IInv, Backed, Parked
  <2> QED  BY <2>5, <2>6 DEF IInv
<1> QED  BY <1>2, <1>3, <1>4 DEF TimerFires

-----------------------------------------------------------------------------
(* The steps of index calls and full passes.                               *)

\* A step that only moves one job to another typed state, and a marked pass
\* to another phase of a pass, keeps the invariant.
LEMMA JobOnly ==
    ASSUME IInv, NEW j \in Jobs, NEW r \in JobState,
           job' = [job EXCEPT ![j] = r],
           j \in PassJobs /\ InPass(j) => r.ph \in PassPhase,
           UNCHANGED <<pending, deferred, drain, status, up>>,
           file' \in [Paths -> FileState], rows' \in [Paths -> FileState],
           manifest' \in {NoManifest} \cup [Paths -> Version]
    PROVE  IInv'
<1>1. job' \in [Jobs -> JobState]  BY DEF IInv, Typed
<1>2. Typed'  BY <1>1 DEF IInv, Typed
<1>3. ASSUME NEW k \in PassJobs, InPass(k) PROVE InPass(k)'
  BY <1>3, PassIsJob DEF IInv, Typed, InPass
<1>4. Backed'  BY <1>3, BackedKept DEF IInv
<1> QED  BY <1>2, <1>4 DEF IInv

LEMMA PhaseSets ==
    /\ CallPhase \cap PassPhase = {}
    /\ "idle" \notin PassPhase /\ "admitted" \notin PassPhase /\ "wait" \notin PassPhase
    /\ CallPhase \subseteq Phase /\ PassPhase \subseteq Phase
    /\ "idle" \in Phase /\ "admitted" \in Phase /\ "wait" \in Phase
BY DEF CallPhase, PassPhase, Phase

LEMMA ReadFileKeeps == ASSUME IInv, NEW j \in Jobs, ReadFile(j) PROVE IInv'
<1> DEFINE r == [job[j] EXCEPT !.ph = "rows",
                     !.seen = [@ EXCEPT ![job[j].path] = file[job[j].path]]]
<1>1. r \in JobState
  <2>1. job[j] \in JobState /\ "rows" \in Phase  BY DEF IInv, Typed, Phase, CallPhase
  <2>2. [job[j].seen EXCEPT ![job[j].path] = file[job[j].path]] \in [Paths -> FileState]
    BY <2>1 DEF IInv, Typed, JobState
  <2> QED  BY <2>1, <2>2 DEF JobState
<1>2. job' = [job EXCEPT ![j] = r]  BY DEF ReadFile, IInv, Typed, JobState
<1>3. ~InPass(j)  BY DEF ReadFile, InPass, PassPhase
<1> QED  BY <1>1, <1>2, <1>3, JobOnly DEF ReadFile, IInv, Typed

LEMMA ReplaceRowsKeeps == ASSUME IInv, NEW j \in Jobs, ReplaceRows(j) PROVE IInv'
<1> DEFINE r == [job[j] EXCEPT !.ph = "stat", !.snap = manifest]
<1>1. r \in JobState  BY DEF IInv, Typed, JobState, Phase, CallPhase
<1>2. job' = [job EXCEPT ![j] = r]  BY DEF ReplaceRows, IInv, Typed, JobState
<1>3. ~InPass(j)  BY DEF ReplaceRows, InPass, PassPhase
<1>4. rows' \in [Paths -> FileState]
  BY DEF ReplaceRows, IInv, Typed, JobState
<1> QED  BY <1>1, <1>2, <1>3, <1>4, JobOnly DEF ReplaceRows, IInv, Typed

\* A call that ends leaves every marked pass where it was.
LEMMA FinishKeeps ==
    ASSUME IInv, NEW j \in Jobs, Finish(j), j \in PassJobs => ~InPass(j),
           UNCHANGED <<file, rows, pending, deferred, drain, status, up>>,
           manifest' \in {NoManifest} \cup [Paths -> Version]
    PROVE  IInv'
<1>1. Idle \in JobState  BY IdleTyped
<1> QED  BY <1>1, JobOnly DEF Finish, IInv, Typed

LEMMA PatchManifestKeeps == ASSUME IInv, NEW j \in Jobs, PatchManifest(j) PROVE IInv'
<1>1. ~InPass(j)  BY DEF PatchManifest, InPass, PassPhase
<1>2. manifest' \in {NoManifest} \cup [Paths -> Version]
  <2>1. CASE manifest' = manifest  BY <2>1 DEF IInv, Typed
  <2>2. CASE /\ job[j].snap # NoManifest
             /\ manifest' = [job[j].snap EXCEPT ![job[j].path] = file[job[j].path].at]
    <3>1. job[j].snap \in [Paths -> Version]  BY <2>2 DEF IInv, Typed, JobState
    <3>2. \A p \in Paths : file[p].at \in Version  BY DEF IInv, Typed, FileState
    <3> QED  BY <2>2, <3>1, <3>2
  <2> QED  BY <2>1, <2>2 DEF PatchManifest
<1> QED  BY <1>1, <1>2, FinishKeeps DEF PatchManifest

LEMMA FileGoneKeeps == ASSUME IInv, NEW j \in Jobs, FileGone(j) PROVE IInv'
<1>1. ~InPass(j)  BY DEF FileGone, InPass, PassPhase
<1> QED  BY <1>1, FinishKeeps DEF FileGone, IInv, Typed

LEMMA OwnAdmittedKeeps ==
    ASSUME IInv, NEW j \in Jobs, NEW p \in Paths, OwnAdmitted(j, p) PROVE IInv'
<1> DEFINE r == [Idle EXCEPT !.ph = "admitted", !.path = p]
<1>1. r \in JobState  BY IdleTyped, PhaseSets
<1>2. ~InPass(j)  BY DEF OwnAdmitted, Busy, InPass, PassPhase
<1> QED  BY <1>1, <1>2, JobOnly DEF OwnAdmitted, IInv, Typed

LEMMA OwnWriteKeeps == ASSUME IInv, NEW j \in Jobs, OwnWrite(j) PROVE IInv'
<1> DEFINE p == job[j].path
<1>1. p \in Paths \cup {NoPath}  BY DEF IInv, Typed, JobState
<1>2. Opened(j, p) \in JobState  BY <1>1, OpenedTyped DEF IInv, Typed
<1>3. job' \in [Jobs -> JobState]  BY <1>2 DEF OwnWrite, IInv, Typed
<1>4. ~InPass(j)  BY DEF OwnWrite, InPass, PassPhase
<1>5. file' \in [Paths -> FileState]
  BY Bounds DEF OwnWrite, IInv, Typed, FileState
<1>6. pending' \in [Paths -> Event]
  BY DEF OwnWrite, Emit, IInv, Typed, Event
<1>7. Typed'  BY <1>3, <1>5, <1>6 DEF OwnWrite, IInv, Typed
<1>8. \A k \in PassJobs : InPass(k) => InPass(k)'
  BY <1>4, PassIsJob DEF OwnWrite, IInv, Typed, InPass
<1>9. Backed'  BY <1>8, BackedKept DEF OwnWrite, IInv
<1> QED  BY <1>7, <1>9 DEF IInv

LEMMA OwnRefusedKeeps == ASSUME IInv, NEW j \in Jobs, OwnRefused(j) PROVE IInv'
<1>1. ~InPass(j)  BY DEF OwnRefused, InPass, PassPhase
<1> QED  BY <1>1, IdleTyped, JobOnly DEF OwnRefused, IInv, Typed

LEMMA RestatKeeps == ASSUME IInv, NEW j \in Jobs, Restat(j) PROVE IInv'
<1> DEFINE p == job[j].path
<1>1. p \in Paths \cup {NoPath}  BY DEF IInv, Typed, JobState
<1>2. ~InPass(j)  BY DEF Restat, InPass, PassPhase
<1>3. Opened(j, p) \in JobState /\ Idle \in JobState
  BY <1>1, OpenedTyped, IdleTyped DEF IInv, Typed
<1>4. rows' \in [Paths -> FileState]  BY DEF Restat, IInv, Typed
<1>5. manifest' \in {NoManifest} \cup [Paths -> Version]
  BY Bounds DEF Restat, IInv, Typed
<1> QED  BY <1>2, <1>3, <1>4, <1>5, JobOnly DEF Restat, IInv, Typed

LEMMA ReindexCalledKeeps == ASSUME IInv, NEW j \in Jobs, ReindexCalled(j) PROVE IInv'
<1>1. ~InPass(j)  BY DEF ReindexCalled, Busy, InPass, PassPhase
<1>2. CASE status = "indexing"
  <2>1. [Idle EXCEPT !.ph = "wait"] \in JobState  BY IdleTyped, PhaseSets
  <2> QED  BY <1>1, <1>2, <2>1, JobOnly DEF ReindexCalled, IInv, Typed
<1>3. CASE status # "indexing"
  <2>1. [Idle EXCEPT !.ph = "list"] \in JobState  BY IdleTyped, PhaseSets DEF PassPhase
  <2>2. job' = [job EXCEPT ![j] = [Idle EXCEPT !.ph = "list"]]
    BY <1>3 DEF ReindexCalled
  <2>3. job' \in [Jobs -> JobState]  BY <2>1, <2>2 DEF IInv, Typed
  <2>4. Typed'  BY <2>3 DEF ReindexCalled, IInv, Typed
  <2>5. Parked = {} /\ deferred' = deferred
    BY <1>3 DEF ReindexCalled, IInv, Backed
  <2>6. j \in PassJobs /\ InPass(j)'
    BY <2>2 DEF ReindexCalled, IInv, Typed, InPass, PassPhase, Idle
  <2> QED  BY <2>4, <2>5, <2>6 DEF IInv, Backed, Parked
<1> QED  BY <1>2, <1>3

LEMMA ListFilesKeeps == ASSUME IInv, NEW j \in Jobs, ListFiles(j) PROVE IInv'
<1> DEFINE r == [job[j] EXCEPT !.ph = "stage", !.todo = {p \in Paths : file[p].here},
                     !.seen = [p \in Paths |-> [file[p] EXCEPT !.here = FALSE]]]
<1>1. [p \in Paths |-> [file[p] EXCEPT !.here = FALSE]] \in [Paths -> FileState]
  BY DEF IInv, Typed, FileState
<1>2. r \in JobState  BY <1>1 DEF IInv, Typed, JobState, Phase, PassPhase
<1>3. job' = [job EXCEPT ![j] = r]  BY DEF ListFiles, IInv, Typed, JobState
<1>4. r.ph \in PassPhase  BY DEF PassPhase, IInv, Typed, JobState
<1> QED  BY <1>2, <1>3, <1>4, JobOnly DEF ListFiles, IInv, Typed

LEMMA StageFileKeeps ==
    ASSUME IInv, NEW j \in Jobs, NEW p \in Paths, StageFile(j, p) PROVE IInv'
<1> DEFINE r == [job[j] EXCEPT !.todo = @ \ {p}, !.seen = [@ EXCEPT ![p] = file[p]]]
<1>1. r \in JobState  BY DEF IInv, Typed, JobState
<1>2. job' = [job EXCEPT ![j] = r]  BY DEF StageFile, IInv, Typed, JobState
<1>3. r.ph \in PassPhase  BY DEF StageFile, PassPhase, IInv, Typed, JobState
<1> QED  BY <1>1, <1>2, <1>3, JobOnly DEF StageFile, IInv, Typed

LEMMA CommitRowsKeeps == ASSUME IInv, NEW j \in Jobs, CommitRows(j) PROVE IInv'
<1> DEFINE r == [job[j] EXCEPT !.ph = "manifest"]
<1>1. r \in JobState  BY DEF IInv, Typed, JobState, Phase, PassPhase
<1>2. job' = [job EXCEPT ![j] = r]  BY DEF CommitRows, IInv, Typed, JobState
<1>3. r.ph \in PassPhase  BY DEF PassPhase, IInv, Typed, JobState
<1>4. rows' \in [Paths -> FileState]  BY DEF CommitRows, IInv, Typed, JobState
<1> QED  BY <1>1, <1>2, <1>3, <1>4, JobOnly DEF CommitRows, IInv, Typed

LEMMA WriteManifestKeeps == ASSUME IInv, NEW j \in Jobs, WriteManifest(j) PROVE IInv'
<1>1. manifest' \in {NoManifest} \cup [Paths -> Version]
  BY OnDiskTyped DEF WriteManifest, IInv, Typed
<1>2. InPass(j)  BY DEF WriteManifest, InPass, PassPhase
<1>3. CASE j \in PassJobs
  <2>1. Leave(j, "ready")  BY <1>3 DEF WriteManifest
  <2>2. /\ job' \in [Jobs -> JobState] /\ deferred' \in [Paths -> Event] /\ Backed'
    BY <1>2, <1>3, <2>1, LeaveHolds
  <2> QED  BY <1>1, <2>2 DEF WriteManifest, IInv, Typed
<1>4. CASE j \notin PassJobs  BY <1>1, <1>4, FinishKeeps DEF WriteManifest
<1> QED  BY <1>3, <1>4

LEMMA FailsKeeps == ASSUME IInv, NEW j \in Jobs, Fails(j) PROVE IInv'
<1>1. CASE j \in PassJobs
  <2>1. Leave(j, "error") /\ InPass(j)  BY <1>1 DEF Fails
  <2>2. /\ job' \in [Jobs -> JobState] /\ deferred' \in [Paths -> Event] /\ Backed'
    BY <1>1, <2>1, LeaveHolds
  <2> QED  BY <2>2 DEF Fails, IInv, Typed
<1>2. CASE j \notin PassJobs  BY <1>2, FinishKeeps DEF Fails, IInv, Typed
<1> QED  BY <1>1, <1>2

-----------------------------------------------------------------------------
LEMMA NextKeeps == ASSUME IInv, [Next]_vars PROVE IInv'
<1>1. CASE Start  BY <1>1, StartKeeps
<1>2. CASE Stop  BY <1>2, StopKeeps
<1>3. CASE \E p \in Paths : ForeignChange(p) \/ NoteExpires(p) \/ TimerFires(p)
  BY <1>3, ForeignChangeKeeps, NoteExpiresKeeps, TimerFiresKeeps
<1>4. CASE \E j \in Jobs : JobStep(j)
  BY <1>4, ReadFileKeeps, ReplaceRowsKeeps, PatchManifestKeeps, FileGoneKeeps,
     OwnWriteKeeps, OwnRefusedKeeps, RestatKeeps, ListFilesKeeps, StageFileKeeps,
     CommitRowsKeeps, WriteManifestKeeps DEF JobStep
<1>5. CASE \E j \in Jobs : Fails(j) \/ ReindexCalled(j)
  BY <1>5, FailsKeeps, ReindexCalledKeeps
<1>6. CASE \E j \in Jobs, p \in Paths : OwnAdmitted(j, p)
  BY <1>6, OwnAdmittedKeeps
<1>7. CASE UNCHANGED vars
  BY <1>7 DEF vars, IInv, Typed, Backed, Parked, InPass
<1> QED  BY <1>1, <1>2, <1>3, <1>4, <1>5, <1>6, <1>7 DEF Next

\* For every number of files, of concurrent index calls and of overlapping
\* full passes, an event is parked only behind a running pass that will drain
\* it (watcher.ts:237-269, index-state.ts:83-121).
THEOREM ParkedIsArmed == Spec => []DrainArmed
<1>1. IInv => DrainArmed  BY DEF IInv, Backed, DrainArmed
<1> QED  BY InitHolds, NextKeeps, <1>1, PTL DEF Spec

-----------------------------------------------------------------------------
(* Type correctness: the variables the argument above does not read, and the *)
(* write tools' jobs, which keep the path they were admitted with.           *)
Reasons == {"trusted", "unwatched", "overtaken", "swallowed", "failed"}

Marks ==
    /\ up \in BOOLEAN /\ watching \in BOOLEAN /\ drain \in BOOLEAN
    /\ status \in {"ready", "indexing", "error"}
    /\ note \subseteq Paths
    /\ starts \in 0 .. MaxStarts
    /\ ownAt \in [Paths -> Version]
    /\ excuse \in [Paths -> SUBSET Reasons]

Sited == \A j \in OwnJobs : job[j].ph # "idle" => job[j].path \in Paths

Whole == IInv /\ Marks /\ Sited

LEMMA SwallowedTyped ==
    ASSUME excuse \in [Paths -> SUBSET Reasons], NEW Q
    PROVE  Swallowed(Q) \in [Paths -> SUBSET Reasons]
BY DEF Swallowed, Reasons

LEMMA OvertakenTyped ==
    ASSUME excuse \in [Paths -> SUBSET Reasons], NEW Q, NEW new
    PROVE  Overtaken(Q, new) \in [Paths -> SUBSET Reasons]
BY DEF Overtaken, Reasons

LEMMA EmitTyped ==
    ASSUME excuse \in [Paths -> SUBSET Reasons], NEW p \in Paths, NEW here, Emit(p, here)
    PROVE  excuse' \in [Paths -> SUBSET Reasons]
BY DEF Emit, Reasons

LEMMA FinishNote ==
    ASSUME Whole, NEW j \in Jobs, job[j].ph # "idle", Finish(j)
    PROVE  note' \subseteq Paths
BY DEF Whole, Marks, Sited, Finish

LEMMA LeaveMarks ==
    ASSUME NEW j, NEW st \in {"ready", "error"}, Leave(j, st)
    PROVE  watching' \in BOOLEAN /\ drain' \in BOOLEAN
           /\ status' \in {"ready", "indexing", "error"}
BY DEF Leave

LEMMA MarksKept == ASSUME Whole, [Next]_vars PROVE Marks'
<1> USE DEF Whole, Marks
<1>1. CASE Start
  <2>1. starts' \in 0 .. MaxStarts  BY <1>1, BoundsAssumption DEF Start
  <2>2. excuse' \in [Paths -> SUBSET Reasons]  BY <1>1 DEF Start, Reasons
  <2> QED  BY <1>1, <2>1, <2>2 DEF Start
<1>2. CASE Stop  BY <1>2 DEF Stop
<1>3. ASSUME NEW p \in Paths, ForeignChange(p) PROVE Marks'
  BY <1>3, EmitTyped DEF ForeignChange
<1>4. ASSUME NEW p \in Paths, NoteExpires(p) PROVE Marks'
  BY <1>4 DEF NoteExpires
<1>5. ASSUME NEW p \in Paths, TimerFires(p) PROVE Marks'
  BY <1>5, SwallowedTyped DEF TimerFires
<1>6. ASSUME NEW j \in Jobs, ReadFile(j) \/ OwnRefused(j) \/ Restat(j)
                             \/ (\E p \in Paths : StageFile(j, p))
      PROVE  Marks'
  BY <1>6 DEF ReadFile, OwnRefused, Restat, StageFile
<1>7. ASSUME NEW j \in Jobs, ReplaceRows(j) \/ CommitRows(j) PROVE Marks'
  BY <1>7, OvertakenTyped DEF ReplaceRows, CommitRows
<1>8. ASSUME NEW j \in Jobs, PatchManifest(j) \/ FileGone(j) PROVE Marks'
  <2>1. job[j].ph # "idle" /\ Finish(j)  BY <1>8 DEF PatchManifest, FileGone
  <2>2. note' \subseteq Paths  BY <2>1, FinishNote
  <2> QED  BY <1>8, <2>2 DEF PatchManifest, FileGone
<1>9. ASSUME NEW j \in Jobs, OwnWrite(j) PROVE Marks'
  <2> DEFINE p == job[j].path
  <2>0. job[j] \in JobState /\ file \in [Paths -> FileState]  BY DEF IInv, Typed
  <2>1. PICK here : Emit(p, here)  BY <1>9 DEF OwnWrite
  <2>2. CASE p \in Paths
    <3>1. file[p].at \in Version /\ file[p].at < MaxVersion
      BY <1>9, <2>0, <2>2 DEF OwnWrite, FileState
    <3>2. ownAt' = [ownAt EXCEPT ![p] = file[p].at + 1]  BY <1>9 DEF OwnWrite
    <3>3. ownAt' \in [Paths -> Version]  BY <2>2, <3>1, <3>2, Bounds
    <3>4. excuse' \in [Paths -> SUBSET Reasons]  BY <2>1, <2>2, EmitTyped
    <3> QED  BY <1>9, <3>3, <3>4 DEF OwnWrite
  <2>3. CASE p \notin Paths
    <3>1. ownAt' = ownAt  BY <1>9, <2>3 DEF OwnWrite
    <3>2. excuse' \in [Paths -> SUBSET Reasons]  BY <2>1, <2>3 DEF Emit
    <3> QED  BY <1>9, <3>1, <3>2 DEF OwnWrite
  <2> QED  BY <2>2, <2>3
<1>10. ASSUME NEW j \in Jobs, ListFiles(j) PROVE Marks'
  BY <1>10 DEF ListFiles
<1>11. ASSUME NEW j \in Jobs, WriteManifest(j) PROVE Marks'
  <2>1. CASE j \in PassJobs
    BY <1>11, <2>1, SwallowedTyped, LeaveMarks DEF WriteManifest
  <2>2. CASE j \notin PassJobs
    BY <1>11, <2>2, FinishNote DEF WriteManifest
  <2> QED  BY <2>1, <2>2
<1>12. ASSUME NEW j \in Jobs, Fails(j) PROVE Marks'
  <2>1. CASE j \in PassJobs
    BY <1>12, <2>1, LeaveMarks DEF Fails, Reasons
  <2>2. CASE j \notin PassJobs
    <3>1. job[j].ph # "idle" /\ Finish(j)
      BY <1>12, <2>2, PhaseSets DEF Fails
    <3>2. note' \subseteq Paths  BY <3>1, FinishNote
    <3>3. excuse' \in [Paths -> SUBSET Reasons]  BY <1>12, <2>2 DEF Fails, Reasons
    <3> QED  BY <1>12, <2>2, <3>2, <3>3 DEF Fails
  <2> QED  BY <2>1, <2>2
<1>13. ASSUME NEW j \in Jobs, ReindexCalled(j) PROVE Marks'
  BY <1>13 DEF ReindexCalled
<1>14. ASSUME NEW j \in Jobs, NEW p \in Paths, OwnAdmitted(j, p) PROVE Marks'
  BY <1>14 DEF OwnAdmitted
<1>15. CASE UNCHANGED vars  BY <1>15 DEF vars
<1> QED
  BY <1>1, <1>2, <1>3, <1>4, <1>5, <1>6, <1>7, <1>8, <1>9, <1>10, <1>11, <1>12,
     <1>13, <1>14, <1>15 DEF Next, JobStep

\* A step that gives every write tool's job either an idle state or its path
\* keeps them sited.
LEMMA SitedByPath ==
    ASSUME Whole,
           \A j \in OwnJobs : \/ job'[j].ph = "idle"
                              \/ job'[j].path \in Paths
                              \/ job'[j].path = job[j].path /\ job[j].ph # "idle"
    PROVE  Sited'
BY DEF Whole, Sited

LEMMA LeaveSited ==
    ASSUME Whole, NEW j \in Jobs, NEW st, Leave(j, st)
    PROVE  Sited'
<1> DEFINE due  == IF drain THEN Parked ELSE {}
           runs == due \ note
<1>1. PICK at \in [runs -> FreeWatch] :
        job' = [k \in Jobs |->
                  IF k = j THEN Idle
                  ELSE IF k \in Waiting THEN [Idle EXCEPT !.ph = "list"]
                  ELSE IF \E p \in runs : at[p] = k
                       THEN LET p == CHOOSE q \in runs : at[q] = k
                            IN  Dispatched(k, p, deferred[p])
                       ELSE job[k]]
  BY Zenon DEF Leave
<1>2. ASSUME NEW k \in OwnJobs PROVE job'[k] = job[k] \/ job'[k] = Idle
  <2>1. k \in Jobs /\ k \notin Waiting /\ k \notin FreeWatch
    BY SlotsAssumption DEF Jobs, Waiting, FreeWatch
  <2>2. ~ \E p \in runs : at[p] = k  BY <2>1, <1>1
  <2> QED  BY <1>1, <2>1, <2>2
<1> QED  BY <1>2, SitedByPath DEF Idle, Whole, Sited

LEMMA PathKeptSited ==
    ASSUME Whole, NEW j \in Jobs, NEW r, job' = [job EXCEPT ![j] = r],
           job[j].ph # "idle", r.path = job[j].path
    PROVE  Sited'
<1>1. job \in [Jobs -> JobState] /\ OwnJobs \subseteq Jobs
  BY DEF Whole, IInv, Typed, Jobs
<1>2. job'[j] = r /\ \A k \in OwnJobs : k # j => job'[k] = job[k]  BY <1>1
<1> QED  BY <1>2, SitedByPath DEF Whole, Sited

LEMMA SitedKept == ASSUME Whole, [Next]_vars PROVE Sited'
<1>0. job \in [Jobs -> JobState] /\ OwnJobs \subseteq Jobs
  BY DEF Whole, IInv, Typed, Jobs
<1>1. CASE UNCHANGED job  BY <1>1 DEF Whole, Sited
<1>2. ASSUME NEW j \in Jobs,
             job' = [job EXCEPT ![j] = job'[j]],
             j \in OwnJobs => \/ job'[j].ph = "idle"
                              \/ job'[j].path \in Paths
                              \/ job'[j].path = job[j].path /\ job[j].ph # "idle"
      PROVE  Sited'
  <2>1. \A k \in OwnJobs : k # j => job'[k] = job[k]  BY <1>0, <1>2
  <2> QED  BY <2>1, <1>2, SitedByPath DEF Whole, Sited
<1>3. CASE Start  BY <1>3, <1>2, <1>0, PassIsJob, SlotsAssumption, <1>1 DEF Start
<1>4. CASE Stop  BY <1>4, <1>0 DEF Stop, Sited, Idle
<1>5. ASSUME NEW p \in Paths, ForeignChange(p) \/ NoteExpires(p) PROVE Sited'
  BY <1>5, <1>1 DEF ForeignChange, NoteExpires
<1>6. ASSUME NEW p \in Paths, TimerFires(p) PROVE Sited'
  <2>1. CASE UNCHANGED job  BY <2>1, <1>1
  <2>2. CASE \E j \in FreeWatch : job' = [job EXCEPT ![j] = Dispatched(j, p, pending[p])]
    <3>1. PICK j \in FreeWatch : job' = [job EXCEPT ![j] = Dispatched(j, p, pending[p])]
      BY <2>2
    <3>2. j \in Jobs /\ j \notin OwnJobs  BY SlotsAssumption DEF FreeWatch, Jobs
    <3> QED  BY <3>1, <3>2, <1>0, <1>2
  <2> QED  BY <1>6, <2>1, <2>2 DEF TimerFires
<1>7. ASSUME NEW j \in Jobs, ReadFile(j) \/ ReplaceRows(j) PROVE Sited'
  <2>1. CASE ReadFile(j)
    <3> DEFINE r == [job[j] EXCEPT !.ph = "rows", !.seen[job[j].path] = file[job[j].path]]
    <3>1. r.path = job[j].path  BY <1>0 DEF JobState
    <3>2. job' = [job EXCEPT ![j] = r] /\ job[j].ph # "idle"  BY <2>1 DEF ReadFile
    <3> HIDE DEF r
    <3> QED  BY <3>1, <3>2, PathKeptSited
  <2>2. CASE ReplaceRows(j)
    <3> DEFINE r == [job[j] EXCEPT !.ph = "stat", !.snap = manifest]
    <3>1. r.path = job[j].path  BY <1>0 DEF JobState
    <3>2. job' = [job EXCEPT ![j] = r] /\ job[j].ph # "idle"  BY <2>2 DEF ReplaceRows
    <3> HIDE DEF r
    <3> QED  BY <3>1, <3>2, PathKeptSited
  <2> QED  BY <1>7, <2>1, <2>2
<1>8. ASSUME NEW j \in Jobs, Finish(j) PROVE Sited'
  BY <1>8, <1>0, <1>2 DEF Finish, Idle
<1>9. ASSUME NEW j \in Jobs, OwnWrite(j) PROVE Sited'
  <2> DEFINE r == Opened(j, job[j].path)
  <2>1. job' = [job EXCEPT ![j] = r] /\ job[j].ph = "admitted"  BY <1>9 DEF OwnWrite
  <2>2. r.path = job[j].path  BY <1>0 DEF Opened, JobState
  <2> HIDE DEF r
  <2> QED  BY <2>1, <2>2, PathKeptSited
<1>10. ASSUME NEW j \in Jobs, OwnRefused(j) PROVE Sited'
  BY <1>10, <1>0, <1>2 DEF OwnRefused, Idle
<1>11. ASSUME NEW j \in Jobs, Restat(j) PROVE Sited'
  <2>1. CASE job' = [job EXCEPT ![j] = Opened(j, job[j].path)]
    <3> DEFINE r == Opened(j, job[j].path)
    <3>1. job[j].ph # "idle" /\ job' = [job EXCEPT ![j] = r]  BY <1>11, <2>1 DEF Restat
    <3>2. r.path = job[j].path  BY <1>0 DEF Opened, JobState
    <3> HIDE DEF r
    <3> QED  BY <3>1, <3>2, PathKeptSited
  <2>2. CASE job' = [job EXCEPT ![j] = Idle]
    BY <2>2, <1>0, <1>2 DEF Idle
  <2> QED  BY <1>11, <2>1, <2>2 DEF Restat
<1>12. ASSUME NEW j \in Jobs, ListFiles(j) PROVE Sited'
  <2> DEFINE r == [job[j] EXCEPT !.ph = "stage", !.todo = {p \in Paths : file[p].here},
                                 !.seen = [p \in Paths |-> [file[p] EXCEPT !.here = FALSE]]]
  <2>0. DOMAIN job[j] = {"ph", "path", "todo", "seen", "snap"}  BY <1>0 DEF JobState
  <2>1. job' = [job EXCEPT ![j] = r] /\ job[j].ph # "idle"  BY <1>12 DEF ListFiles
  <2>2. r.path = job[j].path  BY <2>0
  <2> HIDE DEF r
  <2> QED  BY <2>1, <2>2, PathKeptSited
<1>13. ASSUME NEW j \in Jobs, NEW p \in Paths, StageFile(j, p) PROVE Sited'
  <2> DEFINE r == [job[j] EXCEPT !.todo = @ \ {p}, !.seen[p] = file[p]]
  <2>1. job' = [job EXCEPT ![j] = r] /\ job[j].ph # "idle"  BY <1>13 DEF StageFile
  <2>2. r.path = job[j].path  BY <1>0 DEF JobState
  <2> HIDE DEF r
  <2> QED  BY <2>1, <2>2, PathKeptSited
<1>14. ASSUME NEW j \in Jobs, CommitRows(j) PROVE Sited'
  <2> DEFINE r == [job[j] EXCEPT !.ph = "manifest"]
  <2>1. job' = [job EXCEPT ![j] = r] /\ job[j].ph = "stage"  BY <1>14 DEF CommitRows
  <2>2. r.path = job[j].path  BY <1>0 DEF JobState
  <2> HIDE DEF r
  <2> QED  BY <2>1, <2>2, PathKeptSited
<1>15. ASSUME NEW j \in Jobs, WriteManifest(j) \/ Fails(j) PROVE Sited'
  BY <1>15, <1>8, LeaveSited DEF WriteManifest, Fails
<1>16. ASSUME NEW j \in Jobs, ReindexCalled(j) PROVE Sited'
  BY <1>16, <1>0, <1>2, SlotsAssumption DEF ReindexCalled, Idle
<1>17. ASSUME NEW j \in Jobs, NEW p \in Paths, OwnAdmitted(j, p) PROVE Sited'
  BY <1>17, <1>0, <1>2 DEF OwnAdmitted, Idle
<1>18. CASE UNCHANGED vars  BY <1>18, <1>1 DEF vars
<1> QED
  BY <1>3, <1>4, <1>5, <1>6, <1>7, <1>8, <1>9, <1>10, <1>11, <1>12, <1>13, <1>14,
     <1>15, <1>16, <1>17, <1>18 DEF Next, JobStep, PatchManifest, FileGone

LEMMA WholeInit == Init => Whole
<1>1. ASSUME Init PROVE Marks
  <2>1. starts \in 0 .. MaxStarts  BY <1>1, BoundsAssumption DEF Init
  <2>2. ownAt \in [Paths -> Version]  BY <1>1, Bounds DEF Init
  <2>3. excuse \in [Paths -> SUBSET Reasons]  BY <1>1 DEF Init
  <2>4. /\ up = FALSE /\ watching = FALSE /\ drain = FALSE
        /\ status = "ready" /\ note = {}
    BY <1>1, Zenon DEF Init
  <2> QED  BY <2>1, <2>2, <2>3, <2>4 DEF Marks
<1>2. ASSUME Init PROVE Sited
  BY <1>2 DEF Init, Sited, Jobs, Idle
<1> QED  BY <1>1, <1>2, InitHolds DEF Whole

\* Every variable keeps its type, the reasons recorded for stale rows and the
\* notes of the write tools included, for every number of files and of jobs
\* (watcher.ts, reindex.ts, index-state.ts, self-write.ts).
THEOREM TypeCorrect == Spec => []TypeOK
<1>1. Whole /\ [Next]_vars => Whole'
  BY NextKeeps, MarksKept, SitedKept DEF Whole
<1>2. Whole => TypeOK
  BY DEF Whole, IInv, Typed, Marks, Reasons, TypeOK, JobState
<1> QED  BY WholeInit, <1>1, <1>2, PTL DEF Spec

-----------------------------------------------------------------------------
(* The index settles: what may happen to the rows of a path.  Either they    *)
(* are what the file holds and no job is about to spoil them unseen, or some *)
(* job will yet read the file or has read it as it is, or the event of the   *)
(* last change, one that is not a write tool's own, is still under way; or   *)
(* the history says which of the five known cases has happened.  Version     *)
(* numbers make "unseen" precise: an older state put over a newer one is     *)
(* recorded, so a current state may be overwritten only by itself.           *)

\* What a change of p that left the file as it is now announces.
Kind(p) == IF file[p].here THEN "change" ELSE "unlink"

\* An event is under way for p that says so.
Announced(p) == pending[p] = Kind(p) \/ deferred[p] = Kind(p)

\* Some job has read p as it was.
Outdated(p) == \E j \in Jobs : Holds(j, p) /\ job[j].seen[p] # file[p]

\* A server that is down holds nothing.
Down ==
    /\ ~up => ~watching /\ \A j \in Jobs : ~Busy(j)
    /\ ~watching => \A p \in Paths : pending[p] = "none"

\* The event whose timer runs says whether the file is there.
Told(p) == pending[p] \in {"none", Kind(p)}

\* A version number that is the one of the file stands for what the file is.
Current(s, p) == s.at <= file[p].at /\ (s.at = file[p].at => s = file[p])

Dated(p) ==
    /\ ownAt[p] <= file[p].at
    /\ Current(rows[p], p)
    /\ \A j \in Jobs : Holds(j, p) => Current(job[j].seen[p], p)

\* A job will yet read p, or has read it as it is now.
Reads(j, p) ==
    \/ job[j].ph = "restat" /\ job[j].path = p
    \/ job[j].ph = "read" /\ job[j].path = p /\ file[p].here
    \/ job[j].ph = "list"
    \/ job[j].ph = "stage" /\ p \in job[j].todo
    \/ Holds(j, p) /\ job[j].seen[p] = file[p]
Read(p) == \E j \in Jobs : Reads(j, p)

\* The rows are those of the file and no job is about to spoil them unseen.
Stands(p) == rows[p] = file[p] \/ (Same(p) /\ ~Outdated(p))

\* Why the rows of p are right, or will be.
Cared(p) ==
    up /\ excuse[p] = {} =>
        \/ Stands(p)
        \/ Read(p)
        \/ Announced(p) /\ file[p].at # ownAt[p]

Kept(p) == Told(p) /\ Dated(p) /\ Cared(p)

SettleInv == Down /\ \A p \in Paths : Kept(p)

Settled == Whole /\ SettleInv

LEMMA Typing ==
    ASSUME Settled, NEW p \in Paths
    PROVE  /\ file[p] \in FileState /\ file[p].at \in Nat /\ file[p].here \in BOOLEAN
           /\ rows[p] \in FileState /\ rows[p].at \in Nat
           /\ ownAt[p] \in Nat
           /\ \A j \in Jobs : job[j].seen[p] \in FileState /\ job[j].seen[p].at \in Nat
<1>1. \A f \in FileState : f.at \in Nat /\ f.here \in BOOLEAN
  BY BoundsAssumption DEF FileState, Version
<1>2. ownAt[p] \in Nat
  BY BoundsAssumption DEF Settled, Whole, Marks, Version
<1>3. \A j \in Jobs : job[j].seen[p] \in FileState
  BY DEF Settled, Whole, IInv, Typed, JobState
<1> QED  BY <1>1, <1>2, <1>3 DEF Settled, Whole, IInv, Typed

\* No job that comes to hold p holds what p no longer is, unless it did.
Faithful(p) ==
    \A k \in Jobs : Holds(k, p)' =>
        \/ job'[k].seen[p] = file[p]
        \/ Holds(k, p) /\ job'[k].seen[p] = job[k].seen[p]

LEMMA FaithfulDated ==
    ASSUME Settled, NEW p \in Paths, Faithful(p), file'[p] = file[p], ownAt'[p] = ownAt[p],
           Current(rows'[p], p)
    PROVE  Dated(p)'
<1>1. Current(file[p], p)
  BY Typing DEF Current
<1>2. \A k \in Jobs : Holds(k, p)' => Current(job'[k].seen[p], p)
  BY <1>1 DEF Faithful, Settled, SettleInv, Kept, Dated
<1>3. \A s : Current(s, p) <=> Current(s, p)'
  BY DEF Current
<1> QED  BY <1>2, <1>3 DEF Settled, SettleInv, Kept, Dated

LEMMA FaithfulStands ==
    ASSUME Settled, NEW p \in Paths, Faithful(p), file'[p] = file[p], rows'[p] = rows[p],
           Stands(p)
    PROVE  Stands(p)'
<1>1. ~Outdated(p) => ~Outdated(p)'
  BY DEF Outdated, Faithful
<1> QED  BY <1>1 DEF Stands, Same

\* A step that leaves the file and the rows of p alone, and no job that would
\* have brought them together without a successor.
LEMMA KeepCare ==
    ASSUME Settled, NEW p \in Paths, Faithful(p),
           file'[p] = file[p], rows'[p] = rows[p], ownAt'[p] = ownAt[p],
           pending'[p] \in {"none", pending[p]},
           up' => up,
           excuse'[p] = {} => excuse[p] = {} \/ Read(p)',
           Read(p) /\ excuse'[p] = {} => Read(p)',
           up /\ Announced(p) /\ file[p].at # ownAt[p] /\ excuse'[p] = {}
             => Announced(p)' \/ Stands(p) \/ Read(p)'
    PROVE  Kept(p)'
<1>1. Told(p)'
  BY DEF Settled, SettleInv, Kept, Told, Kind
<1>2. Dated(p)'
  BY FaithfulDated DEF Settled, SettleInv, Kept, Dated
<1>3. Stands(p) => Stands(p)'
  BY FaithfulStands
<1>4. Cared(p)'
  BY <1>3 DEF Settled, SettleInv, Kept, Cared
<1> QED  BY <1>1, <1>2, <1>4 DEF Kept

\* A step that replaces the rows of p by what job j holds: an older state of
\* the file is recorded, or the file is cared for by something else.
LEMMA RowsCare ==
    ASSUME Settled, NEW p \in Paths, NEW j \in Jobs, Holds(j, p),
           file'[p] = file[p], ownAt'[p] = ownAt[p], pending' = pending,
           deferred' = deferred, up' = up,
           rows'[p] = job[j].seen[p],
           job[j].ph = "rows" \/ job[j].todo = {},
           job'[j].ph \in {"stat", "manifest"},
           \A k \in Jobs : k # j => job'[k] = job[k],
           excuse'[p] = {} => excuse[p] = {} /\ ~(job[j].seen[p].at < rows[p].at)
    PROVE  Kept(p)'
<1>1. Told(p)'
  BY DEF Settled, SettleInv, Kept, Told, Kind
<1>2. ~Holds(j, p)' /\ \A k \in Jobs : k # j => (Holds(k, p)' <=> Holds(k, p))
  BY DEF Holds
<1>3. Faithful(p)
  BY <1>2 DEF Faithful
<1>4. Current(job[j].seen[p], p)
  BY DEF Settled, SettleInv, Kept, Dated
<1>5. Dated(p)'
  BY <1>3, <1>4, FaithfulDated
<1>6. ASSUME job[j].seen[p] = file[p] PROVE Cared(p)'
  BY <1>6 DEF Cared, Stands
<1>7. ASSUME job[j].seen[p] # file[p], up, excuse'[p] = {}
      PROVE  Read(p)' \/ (Announced(p)' /\ file'[p].at # ownAt'[p])
  <2>1. Outdated(p)
    BY <1>7 DEF Outdated
  <2>2. job[j].seen[p].at < file[p].at
    BY <1>4, <1>7, Typing DEF Current
  <2>3. rows[p] # file[p]
    BY <2>2, <1>7, Typing
  <2>4. Read(p) \/ (Announced(p) /\ file[p].at # ownAt[p])
    BY <2>1, <2>3, <1>7 DEF Settled, SettleInv, Kept, Cared, Stands
  <2>5. Announced(p) => Announced(p)'
    BY DEF Announced, Kind
  <2>6. ASSUME NEW k \in Jobs, Reads(k, p) PROVE Reads(k, p)'
    <3>1. k # j
      BY <2>6, <1>7 DEF Reads, Holds
    <3> QED  BY <3>1, <2>6, <1>2 DEF Reads
  <2> QED  BY <2>4, <2>5, <2>6 DEF Read
<1> QED  BY <1>1, <1>5, <1>6, <1>7 DEF Kept, Cared

\* A step that changes the file of p, and by which its change is announced,
\* or a job reads it, or the history says that nobody will.
LEMMA FileCare ==
    ASSUME Settled, NEW p \in Paths,
           file'[p].at = file[p].at + 1, ownAt'[p] \in {ownAt[p], file'[p].at},
           rows'[p] = rows[p],
           pending'[p] \in {"none", Kind(p)'},
           \A k \in Jobs : Holds(k, p)' => Holds(k, p) /\ job'[k].seen[p] = job[k].seen[p],
           up' /\ excuse'[p] = {} => Read(p)' \/ (Announced(p)' /\ file'[p].at # ownAt'[p])
    PROVE  Kept(p)'
<1>1. Current(rows[p], p) /\ \A k \in Jobs : Holds(k, p) => Current(job[k].seen[p], p)
  BY DEF Settled, SettleInv, Kept, Dated
<1>2. Current(rows[p], p)'
  BY <1>1, Typing DEF Current
<1>3. \A k \in Jobs : Holds(k, p)' => Current(job[k].seen[p], p)'
  BY <1>1, Typing DEF Current
<1>4. ownAt'[p] <= file'[p].at
  BY Typing DEF Settled, SettleInv, Kept, Dated
<1>5. Dated(p)'
  BY <1>2, <1>3, <1>4 DEF Dated
<1> QED  BY <1>5 DEF Kept, Told, Cared

\* The steps of one job that leave the file and the rows of p alone.
LEMMA OneJobCare ==
    ASSUME Settled, NEW p \in Paths, NEW j \in Jobs,
           \A k \in Jobs : k # j => job'[k] = job[k],
           Holds(j, p)' => \/ job'[j].seen[p] = file[p]
                           \/ Holds(j, p) /\ job'[j].seen[p] = job[j].seen[p],
           file'[p] = file[p], rows'[p] = rows[p], ownAt'[p] = ownAt[p],
           pending' = pending, deferred' = deferred, up' = up,
           excuse'[p] = {} => excuse[p] = {},
           Reads(j, p) /\ excuse'[p] = {} => Reads(j, p)'
    PROVE  Kept(p)'
<1>1. \A k \in Jobs : k # j => (Holds(k, p)' <=> Holds(k, p))
  BY DEF Holds
<1>2. Faithful(p)
  BY <1>1 DEF Faithful
<1>3. ASSUME NEW k \in Jobs, Reads(k, p), excuse'[p] = {} PROVE Reads(k, p)'
  BY <1>1, <1>3 DEF Reads
<1>4. Read(p) /\ excuse'[p] = {} => Read(p)'
  BY <1>3 DEF Read
<1>5. Announced(p) => Announced(p)'
  BY DEF Announced, Kind
<1> QED  BY <1>2, <1>4, <1>5, KeepCare

LEMMA JobsTyped == ASSUME Settled PROVE job \in [Jobs -> JobState]
BY DEF Settled, Whole, IInv, Typed

\* The update of one job.
LEMMA OneJob ==
    ASSUME Settled, NEW j \in Jobs, NEW r, job' = [job EXCEPT ![j] = r]
    PROVE  job'[j] = r /\ \A k \in Jobs : k # j => job'[k] = job[k]
BY JobsTyped

LEMMA IdleIs == Idle.ph = "idle" /\ Idle.path = NoPath
BY DEF Idle

LEMMA OpenedIs ==
    ASSUME Settled, NEW j \in Jobs, NEW p
    PROVE  /\ Opened(j, p).path = p
           /\ Opened(j, p).ph \in {"list", "read"}
<1>1. job[j] \in JobState
  BY JobsTyped
<1> QED  BY <1>1 DEF Opened, JobState

\* A job that gives up: it neither owed p a read nor held what p is, or the
\* history names p.
LEMMA EndCare ==
    ASSUME Settled, NEW p \in Paths, NEW j \in Jobs, job' = [job EXCEPT ![j] = Idle],
           file' = file, rows' = rows, ownAt' = ownAt, pending' = pending,
           deferred' = deferred, up' = up,
           excuse'[p] = {} => excuse[p] = {},
           Reads(j, p) => excuse'[p] # {}
    PROVE  Kept(p)'
<1>1. job'[j].ph = "idle" /\ \A k \in Jobs : k # j => job'[k] = job[k]
  BY OneJob, IdleIs
<1>2. ~Holds(j, p)'
  BY <1>1 DEF Holds
<1> QED  BY <1>1, <1>2, OneJobCare

LEMMA ReadFileSettles ==
    ASSUME Settled, NEW j \in Jobs, ReadFile(j), NEW p \in Paths PROVE Kept(p)'
<1> DEFINE r == [job[j] EXCEPT !.ph = "rows", !.seen[job[j].path] = file[job[j].path]]
<1>0. job[j] \in JobState
  BY JobsTyped
<1>1. /\ r.ph = "rows" /\ r.path = job[j].path
      /\ r.seen = [job[j].seen EXCEPT ![job[j].path] = file[job[j].path]]
  BY <1>0 DEF JobState
<1>2. job[j].seen \in [Paths -> FileState]
  BY <1>0 DEF JobState
<1>3. job' = [job EXCEPT ![j] = r] /\ job[j].ph = "read" /\ file[job[j].path].here
  BY DEF ReadFile
<1> HIDE DEF r
<1>4. job'[j] = r /\ \A k \in Jobs : k # j => job'[k] = job[k]
  BY <1>3, OneJob
<1>5. r.path = p => r.seen[p] = file[p]
  BY <1>1, <1>2
<1>6. Holds(j, p)' => job'[j].seen[p] = file[p]
  BY <1>1, <1>4, <1>5 DEF Holds
<1>7. UNCHANGED <<file, rows, ownAt, pending, deferred, up, excuse>>
  BY DEF ReadFile
<1>8. Reads(j, p) => Reads(j, p)'
  BY <1>1, <1>3, <1>4, <1>5, <1>7 DEF Reads, Holds
<1> QED  BY <1>4, <1>6, <1>7, <1>8, OneJobCare

LEMMA StageFileSettles ==
    ASSUME Settled, NEW j \in Jobs, NEW q \in Paths, StageFile(j, q), NEW p \in Paths
    PROVE  Kept(p)'
<1> DEFINE r == [job[j] EXCEPT !.todo = @ \ {q}, !.seen[q] = file[q]]
<1>0. job[j] \in JobState
  BY JobsTyped
<1>1. /\ r.ph = job[j].ph /\ r.path = job[j].path /\ r.todo = job[j].todo \ {q}
      /\ r.seen = [job[j].seen EXCEPT ![q] = file[q]]
  BY <1>0 DEF JobState
<1>2. job[j].seen \in [Paths -> FileState]
  BY <1>0 DEF JobState
<1>3. job' = [job EXCEPT ![j] = r] /\ job[j].ph = "stage" /\ q \in job[j].todo
  BY DEF StageFile
<1> HIDE DEF r
<1>4. job'[j] = r /\ \A k \in Jobs : k # j => job'[k] = job[k]
  BY <1>3, OneJob
<1>5. r.seen[p] = IF p = q THEN file[p] ELSE job[j].seen[p]
  BY <1>1, <1>2
<1>6. Holds(j, p)' => \/ job'[j].seen[p] = file[p]
                      \/ Holds(j, p) /\ job'[j].seen[p] = job[j].seen[p]
  BY <1>1, <1>3, <1>4, <1>5 DEF Holds
<1>7. UNCHANGED <<file, rows, ownAt, pending, deferred, up, excuse>>
  BY DEF StageFile
<1>8. Reads(j, p) => Reads(j, p)'
  BY <1>1, <1>3, <1>4, <1>5, <1>7 DEF Reads, Holds
<1> QED  BY <1>4, <1>6, <1>7, <1>8, OneJobCare

LEMMA ListFilesSettles ==
    ASSUME Settled, NEW j \in Jobs, ListFiles(j), NEW p \in Paths PROVE Kept(p)'
<1> DEFINE s == [q \in Paths |-> [file[q] EXCEPT !.here = FALSE]]
           t == {q \in Paths : file[q].here}
           r == [job[j] EXCEPT !.ph = "stage", !.todo = t, !.seen = s]
<1>0. job[j] \in JobState
  BY JobsTyped
<1>1. ~file[p].here => s[p] = file[p]
  <2>1. file[p] \in FileState
    BY Typing
  <2>2. \A f \in FileState : ~f.here => [f EXCEPT !.here = FALSE] = f
    BY Zenon DEF FileState
  <2> QED  BY <2>1, <2>2
<1>2. p \in t <=> file[p].here
  OBVIOUS
<1> HIDE DEF s, t
<1>3. r.ph = "stage" /\ r.todo = t /\ r.seen = s
  BY <1>0 DEF JobState
<1>4. job' = [job EXCEPT ![j] = r] /\ job[j].ph = "list"
  BY DEF ListFiles, s, t
<1> HIDE DEF r
<1>5. job'[j] = r /\ \A k \in Jobs : k # j => job'[k] = job[k]
  BY <1>4, OneJob
<1>6. UNCHANGED <<file, rows, ownAt, pending, deferred, up>>
  BY DEF ListFiles
<1>7. Holds(j, p)' => job'[j].seen[p] = file[p]
  BY <1>1, <1>2, <1>3, <1>5 DEF Holds
<1>8. Reads(j, p)'
  BY <1>1, <1>2, <1>3, <1>5, <1>6 DEF Reads, Holds
<1>9. Faithful(p)
  BY <1>5, <1>7 DEF Faithful, Holds
<1> QED  BY <1>6, <1>8, <1>9, KeepCare DEF Read

LEMMA ReplaceRowsSettles ==
    ASSUME Settled, NEW j \in Jobs, ReplaceRows(j), NEW p \in Paths PROVE Kept(p)'
<1> DEFINE r == [job[j] EXCEPT !.ph = "stat", !.snap = manifest]
<1>0. job[j] \in JobState
  BY JobsTyped
<1>1. r.ph = "stat" /\ r.path = job[j].path
  BY <1>0 DEF JobState
<1>2. job' = [job EXCEPT ![j] = r] /\ job[j].ph = "rows"
  BY DEF ReplaceRows
<1> HIDE DEF r
<1>3. job'[j] = r /\ \A k \in Jobs : k # j => job'[k] = job[k]
  BY <1>2, OneJob
<1>4. UNCHANGED <<file, ownAt, pending, deferred, up>>
  BY DEF ReplaceRows
<1>5. rows' = [rows EXCEPT ![job[j].path] = job[j].seen[job[j].path]]
  BY DEF ReplaceRows
<1>6. rows \in [Paths -> FileState]
  BY DEF Settled, Whole, IInv, Typed
<1>7. excuse'[p] = IF p = job[j].path /\ job[j].seen[p].at < rows[p].at
                   THEN excuse[p] \cup {"overtaken"} ELSE excuse[p]
  BY DEF ReplaceRows, Overtaken
<1>8. CASE p = job[j].path
  <2>1. Holds(j, p)
    BY <1>2, <1>8 DEF Holds
  <2>2. rows'[p] = job[j].seen[p]
    BY <1>5, <1>6, <1>8
  <2>3. excuse'[p] = {} => excuse[p] = {} /\ ~(job[j].seen[p].at < rows[p].at)
    BY <1>7, <1>8
  <2> QED  BY <1>1, <1>2, <1>3, <1>4, <2>1, <2>2, <2>3, RowsCare
<1>9. CASE p # job[j].path
  <2>1. rows'[p] = rows[p] /\ excuse'[p] = excuse[p]
    BY <1>5, <1>6, <1>7, <1>9
  <2>2. ~Reads(j, p) /\ ~Holds(j, p)'
    BY <1>1, <1>2, <1>3, <1>9 DEF Reads, Holds
  <2> QED  BY <1>3, <1>4, <2>1, <2>2, OneJobCare
<1> QED  BY <1>8, <1>9

LEMMA CommitRowsSettles ==
    ASSUME Settled, NEW j \in Jobs, CommitRows(j), NEW p \in Paths PROVE Kept(p)'
<1> DEFINE r == [job[j] EXCEPT !.ph = "manifest"]
<1>0. job[j] \in JobState
  BY JobsTyped
<1>1. r.ph = "manifest"
  BY <1>0 DEF JobState
<1>2. job' = [job EXCEPT ![j] = r] /\ job[j].ph = "stage" /\ job[j].todo = {}
  BY DEF CommitRows
<1> HIDE DEF r
<1>3. job'[j] = r /\ \A k \in Jobs : k # j => job'[k] = job[k]
  BY <1>2, OneJob
<1>4. UNCHANGED <<file, ownAt, pending, deferred, up>> /\ rows'[p] = job[j].seen[p]
  BY DEF CommitRows
<1>5. excuse'[p] = IF job[j].seen[p].at < rows[p].at
                   THEN excuse[p] \cup {"overtaken"} ELSE excuse[p]
  BY DEF CommitRows, Overtaken
<1>6. excuse'[p] = {} => excuse[p] = {} /\ ~(job[j].seen[p].at < rows[p].at)
  BY <1>5
<1>7. Holds(j, p)
  BY <1>2 DEF Holds
<1> QED  BY <1>1, <1>2, <1>3, <1>4, <1>6, <1>7, RowsCare

LEMMA RestatSettles ==
    ASSUME Settled, NEW j \in Jobs, Restat(j), NEW p \in Paths PROVE Kept(p)'
<1> DEFINE q == job[j].path
<1>1. job[j].ph = "restat" /\ UNCHANGED <<file, ownAt, pending, deferred, up, excuse>>
  BY DEF Restat
<1>2. CASE file[q].here /\ job' = [job EXCEPT ![j] = Opened(j, q)] /\ rows' = rows
  <2>1. /\ job'[j] = Opened(j, q) /\ \A k \in Jobs : k # j => job'[k] = job[k]
    BY <1>2, OneJob
  <2>2. job'[j].path = q /\ job'[j].ph \in {"list", "read"}
    BY <2>1, OpenedIs
  <2>3. ~Holds(j, p)' /\ (Reads(j, p) => Reads(j, p)')
    BY <1>1, <1>2, <2>2 DEF Reads, Holds
  <2> QED  BY <1>1, <1>2, <2>1, <2>3, OneJobCare
<1>3. CASE /\ ~file[q].here /\ rows' = [rows EXCEPT ![q] = file[q]]
           /\ job' = [job EXCEPT ![j] = Idle]
  <2>1. job'[j].ph = "idle" /\ \A k \in Jobs : k # j => job'[k] = job[k]
    BY <1>3, OneJob, IdleIs
  <2>2. ~Holds(j, p)' /\ \A k \in Jobs : k # j => (Holds(k, p)' <=> Holds(k, p))
    BY <2>1 DEF Holds
  <2>3. Faithful(p)
    BY <2>1, <2>2 DEF Faithful
  <2>4. rows \in [Paths -> FileState]
    BY DEF Settled, Whole, IInv, Typed
  <2>5. CASE p = q
    <3>1. rows'[p] = file[p]
      BY <1>3, <2>4, <2>5
    <3>2. Current(file[p], p)
      BY Typing DEF Current
    <3>3. Dated(p)'
      BY <1>1, <2>3, <3>1, <3>2, FaithfulDated
    <3>4. Told(p)' /\ Cared(p)'
      BY <1>1, <3>1 DEF Settled, SettleInv, Kept, Told, Kind, Cared, Stands
    <3> QED  BY <3>3, <3>4 DEF Kept
  <2>6. CASE p # q
    <3>1. rows'[p] = rows[p] /\ ~Reads(j, p)
      BY <1>1, <1>3, <2>4, <2>6 DEF Reads, Holds
    <3> QED  BY <1>1, <2>1, <2>2, <3>1, OneJobCare
  <2> QED  BY <2>5, <2>6
<1> QED  BY <1>2, <1>3 DEF Restat

LEMMA CallEndsSettles ==
    ASSUME Settled, NEW j \in Jobs, PatchManifest(j) \/ FileGone(j) \/ OwnRefused(j),
           NEW p \in Paths
    PROVE  Kept(p)'
<1>1. /\ UNCHANGED <<file, rows, ownAt, pending, deferred, up, excuse>>
      /\ job' = [job EXCEPT ![j] = Idle]
  BY DEF PatchManifest, FileGone, OwnRefused, Finish
<1>2. ~Reads(j, p)
  BY DEF PatchManifest, FileGone, OwnRefused, Reads, Holds
<1> QED  BY <1>1, <1>2, EndCare

LEMMA OwnAdmittedSettles ==
    ASSUME Settled, NEW j \in Jobs, NEW q \in Paths, OwnAdmitted(j, q), NEW p \in Paths
    PROVE  Kept(p)'
<1> DEFINE r == [Idle EXCEPT !.ph = "admitted", !.path = q]
<1>0. r.ph = "admitted"
  BY DEF Idle
<1> HIDE DEF r
<1>1. /\ job' = [job EXCEPT ![j] = r] /\ job[j].ph = "idle"
      /\ UNCHANGED <<file, rows, ownAt, pending, deferred, up, excuse>>
  BY DEF OwnAdmitted, Busy, r
<1>2. job'[j].ph = "admitted" /\ \A k \in Jobs : k # j => job'[k] = job[k]
  BY <1>0, <1>1, OneJob
<1>3. ~Holds(j, p)' /\ ~Reads(j, p)
  BY <1>1, <1>2 DEF Holds, Reads
<1> QED  BY <1>1, <1>2, <1>3, OneJobCare

LEMMA ReindexCalledSettles ==
    ASSUME Settled, NEW j \in Jobs, ReindexCalled(j), NEW p \in Paths PROVE Kept(p)'
<1>1. /\ job[j].ph = "idle"
      /\ UNCHANGED <<file, rows, ownAt, pending, deferred, up, excuse>>
      /\ \E x \in {"wait", "list"} : job' = [job EXCEPT ![j] = [Idle EXCEPT !.ph = x]]
  BY DEF ReindexCalled, Busy
<1>2. PICK x \in {"wait", "list"} : job' = [job EXCEPT ![j] = [Idle EXCEPT !.ph = x]]
  BY <1>1
<1> DEFINE r == [Idle EXCEPT !.ph = x]
<1>0. r.ph = x
  BY DEF Idle
<1> HIDE DEF r
<1>3. job'[j].ph = x /\ \A k \in Jobs : k # j => job'[k] = job[k]
  BY <1>0, <1>2, OneJob DEF r
<1>4. ~Holds(j, p)' /\ ~Reads(j, p)
  BY <1>1, <1>3 DEF Holds, Reads
<1> QED  BY <1>1, <1>3, <1>4, OneJobCare

\* A change of a file: announced to the watcher, or recorded as unwatched
\* unless a pass has yet to read the file.
LEMMA EmitIs ==
    ASSUME Settled, NEW p \in Paths, NEW here \in BOOLEAN, Emit(p, here)
    PROVE  /\ watching => pending'[p] = IF here THEN "change" ELSE "unlink"
           /\ ~watching => pending'[p] = "none"
           /\ up /\ excuse'[p] = {} => watching \/ YetToRead(p)
<1>1. pending \in [Paths -> Event] /\ excuse \in [Paths -> SUBSET Reasons]
  BY DEF Settled, Whole, IInv, Typed, Marks
<1>2. ~watching => pending[p] = "none"
  BY DEF Settled, SettleInv, Down
<1>3. CASE watching
  BY <1>1, <1>3 DEF Emit
<1>4. CASE ~watching
  BY <1>1, <1>2, <1>4 DEF Emit
<1> QED  BY <1>3, <1>4

LEMMA EmitOther ==
    ASSUME Settled, NEW q, NEW here, Emit(q, here), NEW p \in Paths, p # q
    PROVE  pending'[p] = pending[p] /\ excuse'[p] = excuse[p]
<1>1. pending \in [Paths -> Event] /\ excuse \in [Paths -> SUBSET Reasons]
  BY DEF Settled, Whole, IInv, Typed, Marks
<1> QED  BY <1>1 DEF Emit

\* A path whose file, rows, event and history do not change, while the jobs
\* that hold it or owe it a read stay as they are.
LEMMA OtherPath ==
    ASSUME Settled, NEW p \in Paths,
           file'[p] = file[p], rows'[p] = rows[p], ownAt'[p] = ownAt[p],
           pending'[p] = pending[p], deferred'[p] = deferred[p], up' = up,
           excuse'[p] = excuse[p], Faithful(p), Read(p) => Read(p)'
    PROVE  Kept(p)'
<1>1. Announced(p) => Announced(p)'
  BY DEF Announced, Kind
<1> QED  BY <1>1, KeepCare

LEMMA ForeignChangeSettles ==
    ASSUME Settled, NEW q \in Paths, ForeignChange(q), NEW p \in Paths PROVE Kept(p)'
<1>1. PICK here \in BOOLEAN :
         /\ file' = [file EXCEPT ![q] = [at |-> @.at + 1, here |-> here]]
         /\ Emit(q, here)
  BY DEF ForeignChange
<1>2. UNCHANGED <<rows, up, deferred, job, ownAt>>
  BY DEF ForeignChange
<1>3. file \in [Paths -> FileState]
  BY DEF Settled, Whole, IInv, Typed
<1>4. \A k \in Jobs : Holds(k, p)' <=> Holds(k, p)
  BY <1>2 DEF Holds
<1>5. CASE p # q
  <2>1. file'[p] = file[p] /\ pending'[p] = pending[p] /\ excuse'[p] = excuse[p]
    BY <1>1, <1>3, <1>5, EmitOther
  <2>2. Faithful(p)
    BY <1>2, <1>4 DEF Faithful
  <2>3. Read(p) => Read(p)'
    BY <1>2, <1>4, <2>1 DEF Read, Reads
  <2> QED  BY <1>2, <2>1, <2>2, <2>3, OtherPath
<1>6. CASE p = q
  <2>1. file'[p].at = file[p].at + 1 /\ file'[p].here = here
    BY <1>1, <1>3, <1>6
  <2>2. pending'[p] \in {"none", Kind(p)'}
    BY <1>1, <1>6, <2>1, EmitIs DEF Kind
  <2>3. file'[p].at # ownAt'[p]
    BY <1>2, <2>1, Typing DEF Settled, SettleInv, Kept, Dated
  <2>4. ASSUME up', excuse'[p] = {}
        PROVE  Read(p)' \/ (Announced(p)' /\ file'[p].at # ownAt'[p])
    <3>1. CASE watching
      BY <1>1, <1>6, <2>1, <2>3, <3>1, EmitIs DEF Announced, Kind
    <3>2. CASE YetToRead(p)
      BY <1>2, <3>2 DEF YetToRead, Read, Reads
    <3> QED  BY <1>1, <1>2, <1>6, <2>4, <3>1, <3>2, EmitIs
  <2> QED  BY <1>2, <1>4, <2>1, <2>2, <2>4, FileCare
<1> QED  BY <1>5, <1>6

LEMMA OwnWriteSettles ==
    ASSUME Settled, NEW j \in Jobs, OwnWrite(j), NEW p \in Paths PROVE Kept(p)'
<1> DEFINE q == job[j].path
<1>0. /\ job[j].ph = "admitted" /\ UNCHANGED <<rows, up, deferred>>
      /\ file' = [file EXCEPT ![q] = [at |-> @.at + 1, here |-> TRUE]]
      /\ ownAt' = [ownAt EXCEPT ![q] = file[q].at + 1]
      /\ Emit(q, TRUE) /\ job' = [job EXCEPT ![j] = Opened(j, q)]
  BY DEF OwnWrite
<1>1. /\ file \in [Paths -> FileState] /\ ownAt \in [Paths -> Version]
      /\ pending \in [Paths -> Event] /\ excuse \in [Paths -> SUBSET Reasons]
  BY DEF Settled, Whole, IInv, Typed, Marks
<1>2. job'[j] = Opened(j, q) /\ \A k \in Jobs : k # j => job'[k] = job[k]
  BY <1>0, OneJob
<1>3. job'[j].path = q /\ job'[j].ph \in {"list", "read"}
  BY <1>2, OpenedIs
<1>4. ~Reads(j, p) /\ ~Holds(j, p) /\ ~Holds(j, p)'
  BY <1>0, <1>3 DEF Reads, Holds
<1>5. \A k \in Jobs : k # j => (Holds(k, p)' <=> Holds(k, p))
  BY <1>2 DEF Holds
<1>6. CASE p # q
  <2>1. file'[p] = file[p] /\ ownAt'[p] = ownAt[p]
    BY <1>0, <1>1, <1>6
  <2>2. pending'[p] = pending[p] /\ excuse'[p] = excuse[p]
    BY <1>0, <1>1, <1>6 DEF Emit
  <2>3. Faithful(p)
    BY <1>2, <1>4, <1>5 DEF Faithful
  <2>4. Read(p) => Read(p)'
    BY <1>2, <1>4, <1>5, <2>1 DEF Read, Reads
  <2> QED  BY <1>0, <2>1, <2>2, <2>3, <2>4, OtherPath
<1>7. CASE p = q
  <2>1. file'[p].at = file[p].at + 1 /\ file'[p].here = TRUE /\ ownAt'[p] = file'[p].at
    BY <1>0, <1>1, <1>7
  <2>2. pending'[p] \in {"none", Kind(p)'}
    <3>1. Emit(p, TRUE)
      BY <1>0, <1>7
    <3>2. Kind(p)' = "change"
      BY <2>1 DEF Kind
    <3> QED  BY <3>1, <3>2, EmitIs
  <2>3. Reads(j, p)'
    BY <1>3, <1>7, <2>1 DEF Reads
  <2>4. \A k \in Jobs : Holds(k, p)' => Holds(k, p) /\ job'[k].seen[p] = job[k].seen[p]
    BY <1>2, <1>4, <1>5
  <2> QED  BY <1>0, <2>1, <2>2, <2>3, <2>4, FileCare DEF Read
<1> QED  BY <1>6, <1>7

LEMMA NoteExpiresSettles ==
    ASSUME Settled, NEW q \in Paths, NoteExpires(q), NEW p \in Paths PROVE Kept(p)'
<1>1. UNCHANGED <<file, rows, up, pending, deferred, job, ownAt, excuse>>
  BY DEF NoteExpires
<1>2. Faithful(p) /\ (Read(p) => Read(p)')
  BY <1>1 DEF Faithful, Read, Reads, Holds
<1> QED  BY <1>1, <1>2, OtherPath

\* A consumed note: what the watcher drops unseen is no loss, or is recorded.
LEMMA SwallowedIs ==
    ASSUME Settled, NEW Q, NEW p \in Paths
    PROVE  /\ Swallowed(Q)[p] = {} => excuse[p] = {}
           /\ p \in Q /\ file[p].at # ownAt[p] /\ Swallowed(Q)[p] = {} => Stands(p)
<1>1. Swallowed(Q)[p] = IF p \in Q /\ file[p].at # ownAt[p] /\ (~Same(p) \/ Outdated(p))
                        THEN excuse[p] \cup {"swallowed"} ELSE excuse[p]
  BY DEF Swallowed, Outdated
<1> QED  BY <1>1 DEF Stands

\* An event of p handed to an index call is a read that p is owed.
LEMMA DispatchedReads ==
    ASSUME Settled, NEW j \in Jobs, NEW p \in Paths, file' = file,
           job'[j] = Dispatched(j, p, Kind(p))
    PROVE  Reads(j, p)'
<1>1. CASE file[p].here
  <2>1. job'[j] = Opened(j, p)
    BY <1>1 DEF Dispatched, Kind
  <2>2. job'[j].path = p /\ job'[j].ph \in {"list", "read"}
    BY <2>1, OpenedIs
  <2> QED  BY <1>1, <2>2 DEF Reads
<1>2. CASE ~file[p].here
  <2> DEFINE r == [Idle EXCEPT !.ph = "restat", !.path = p]
  <2>1. r.ph = "restat" /\ r.path = p
    BY DEF Idle
  <2>2. job'[j] = r
    BY <1>2 DEF Dispatched, Kind
  <2> HIDE DEF r
  <2> QED  BY <2>1, <2>2 DEF Reads
<1> QED  BY <1>1, <1>2

\* A job the watcher hands an event holds nothing yet.
LEMMA DispatchedHolds ==
    ASSUME Settled, NEW j \in Jobs, NEW q, NEW event
    PROVE  Dispatched(j, q, event).ph \in {"restat", "list", "read"}
<1> DEFINE r == [Idle EXCEPT !.ph = "restat", !.path = q]
<1>1. r.ph = "restat"
  BY DEF Idle
<1>2. Dispatched(j, q, event) = IF event = "unlink" THEN r ELSE Opened(j, q)
  BY DEF Dispatched
<1> HIDE DEF r
<1> QED  BY <1>1, <1>2, OpenedIs

LEMMA TimerFiresSettles ==
    ASSUME Settled, NEW q \in Paths, TimerFires(q), NEW p \in Paths PROVE Kept(p)'
<1>1. /\ pending' = [pending EXCEPT ![q] = "none"] /\ pending[q] # "none"
      /\ UNCHANGED <<file, rows, up, ownAt>>
  BY DEF TimerFires
<1>2. pending \in [Paths -> Event] /\ deferred \in [Paths -> Event]
  BY DEF Settled, Whole, IInv, Typed
<1>3. pending'[p] = IF p = q THEN "none" ELSE pending[p]
  BY <1>1, <1>2
<1>4. Kind(p)' = Kind(p) /\ Told(p) /\ Kind(p) # "none"
  BY <1>1 DEF Kind, Settled, SettleInv, Kept
<1>5. CASE q \in note /\ excuse' = Swallowed({q}) /\ UNCHANGED <<deferred, job>>
  <2>1. excuse'[p] = {} => excuse[p] = {}
    BY <1>5, SwallowedIs
  <2>2. Faithful(p) /\ (Read(p) => Read(p)')
    BY <1>1, <1>5 DEF Faithful, Read, Reads, Holds
  <2>3. Announced(p) /\ file[p].at # ownAt[p] /\ excuse'[p] = {} => Announced(p)' \/ Stands(p)
    BY <1>3, <1>4, <1>5, SwallowedIs DEF Announced
  <2> QED  BY <1>1, <1>3, <2>1, <2>2, <2>3, KeepCare
<1>6. CASE deferred' = [deferred EXCEPT ![q] = pending[q]] /\ UNCHANGED <<job, excuse>>
  <2>1. Faithful(p) /\ (Read(p) => Read(p)')
    BY <1>1, <1>6 DEF Faithful, Read, Reads, Holds
  <2>2. deferred'[p] = IF p = q THEN pending[p] ELSE deferred[p]
    BY <1>2, <1>6
  <2>3. Announced(p) => Announced(p)'
    BY <1>1, <1>3, <1>4, <2>2 DEF Announced, Told
  <2> QED  BY <1>1, <1>3, <1>6, <2>1, <2>3, KeepCare
<1>7. CASE /\ status # "indexing" /\ UNCHANGED <<deferred, excuse>>
           /\ \E j \in FreeWatch : job' = [job EXCEPT ![j] = Dispatched(j, q, pending[q])]
  <2>1. PICK j \in FreeWatch : job' = [job EXCEPT ![j] = Dispatched(j, q, pending[q])]
    BY <1>7
  <2>2. j \in Jobs /\ job[j].ph = "idle"
    BY DEF FreeWatch, Jobs, Busy
  <2>3. job'[j] = Dispatched(j, q, pending[q]) /\ \A k \in Jobs : k # j => job'[k] = job[k]
    BY <2>1, <2>2, OneJob
  <2>4. ~Holds(j, p)' /\ ~Reads(j, p)
    BY <2>2, <2>3, DispatchedHolds DEF Holds, Reads
  <2>5. \A k \in Jobs : k # j => (Holds(k, p)' <=> Holds(k, p)) /\ (Reads(k, p) => Reads(k, p)')
    BY <1>1, <2>3 DEF Holds, Reads
  <2>6. Faithful(p) /\ (Read(p) => Read(p)')
    BY <2>2, <2>3, <2>4, <2>5 DEF Faithful, Read
  <2>7. ASSUME Announced(p) PROVE Announced(p)' \/ Read(p)'
    <3>1. deferred[p] = "none"
      BY <1>2, <1>7 DEF Settled, Whole, IInv, Backed, Parked
    <3>2. pending[p] = Kind(p)
      BY <1>4, <2>7, <3>1 DEF Announced
    <3>3. CASE p = q
      BY <1>1, <2>2, <2>3, <3>2, <3>3, DispatchedReads DEF Read
    <3>4. CASE p # q
      BY <1>3, <1>4, <3>2, <3>4 DEF Announced
    <3> QED  BY <3>3, <3>4
  <2> QED  BY <1>1, <1>3, <1>7, <2>6, <2>7, KeepCare
<1> QED  BY <1>5, <1>6, <1>7 DEF TimerFires

\* The end of a marked pass: parked events go to index calls, or to a note.
LEMMA LeaveSettles ==
    ASSUME Settled, NEW j \in PassJobs, NEW st, Leave(j, st), InPass(j), NEW p \in Paths,
           UNCHANGED <<file, rows, ownAt, pending, up>>,
           excuse'[p] = {} => excuse[p] = {},
           Reads(j, p) => excuse'[p] # {},
           excuse'[p] = {} /\ file[p].at # ownAt[p] /\ drain /\ p \in Parked \cap note
             => Stands(p)
    PROVE  Kept(p)'
<1> DEFINE due  == IF drain THEN Parked ELSE {}
           runs == due \ note
<1>1. PICK at \in [runs -> FreeWatch] :
        /\ \A x, y \in runs : at[x] = at[y] => x = y
        /\ job' = [k \in Jobs |->
                  IF k = j THEN Idle
                  ELSE IF k \in Waiting THEN [Idle EXCEPT !.ph = "list"]
                  ELSE IF \E x \in runs : at[x] = k
                       THEN LET x == CHOOSE y \in runs : at[y] = k
                            IN  Dispatched(k, x, deferred[x])
                       ELSE job[k]]
  BY Zenon DEF Leave
<1>2. deferred' = [x \in Paths |-> IF x \in due THEN "none" ELSE deferred[x]]
  BY DEF Leave
<1>3. runs \subseteq Paths /\ due \subseteq Parked
  BY DEF Parked
<1> HIDE DEF runs
<1>4. job'[j].ph = "idle"
  BY <1>1, PassIsJob, IdleIs
<1>5. ASSUME NEW k \in Jobs, k # j PROVE job'[k] = job[k] \/ (~Holds(k, p)' /\ ~Reads(k, p))
  <2>1. CASE k \in Waiting
    <3> DEFINE r == [Idle EXCEPT !.ph = "list"]
    <3>1. r.ph = "list"
      BY DEF Idle
    <3>2. job'[k] = r
      BY <1>1, <1>5, <2>1
    <3> HIDE DEF r
    <3> QED  BY <2>1, <3>1, <3>2 DEF Waiting, Holds, Reads
  <2>2. CASE k \notin Waiting /\ \E x \in runs : at[x] = k
    <3> DEFINE x == CHOOSE y \in runs : at[y] = k
    <3>1. job'[k] = Dispatched(k, x, deferred[x])
      BY <1>1, <1>5, <2>2
    <3>2. k \in FreeWatch
      BY <1>1, <2>2
    <3> HIDE DEF x
    <3>3. job'[k].ph \in {"restat", "list", "read"} /\ job[k].ph = "idle"
      BY <3>1, <3>2, DispatchedHolds DEF FreeWatch, Busy
    <3> QED  BY <3>3 DEF Holds, Reads
  <2>3. CASE k \notin Waiting /\ ~ \E x \in runs : at[x] = k
    <3>1. job'[k] = job[k]
      BY <1>1, <1>5, <2>3, Zenon
    <3> QED  BY <3>1
  <2> QED  BY <2>1, <2>2, <2>3
<1>6. Faithful(p)
  BY <1>4, <1>5 DEF Faithful, Holds
<1>7. ASSUME Read(p), excuse'[p] = {} PROVE Read(p)'
  <2>1. PICK k \in Jobs : Reads(k, p)
    BY <1>7 DEF Read
  <2>2. k # j /\ job'[k] = job[k]
    BY <1>5, <1>7, <2>1
  <2>3. Reads(k, p)'
    BY <2>1, <2>2 DEF Reads, Holds
  <2> QED  BY <2>3 DEF Read
<1>8. ASSUME Announced(p), file[p].at # ownAt[p], excuse'[p] = {}
      PROVE  Announced(p)' \/ Stands(p) \/ Read(p)'
  <2>1. CASE pending[p] = Kind(p)
    BY <2>1 DEF Announced, Kind
  <2>2. CASE deferred[p] = Kind(p)
    <3>1. p \in Parked /\ drain
      BY <2>2 DEF Kind, Parked, Settled, Whole, IInv, Backed
    <3>2. CASE p \in note
      BY <1>8, <3>1, <3>2
    <3>3. CASE p \notin note
      <4>1. p \in runs
        BY <3>1, <3>3 DEF runs
      <4> DEFINE k == at[p]
      <4>2. k \in WatchJobs /\ k \in Jobs /\ k # j /\ k \notin Waiting
        BY <1>1, <4>1, SlotsAssumption DEF FreeWatch, Jobs, Waiting
      <4>3. p = CHOOSE y \in runs : at[y] = k
        BY <1>1, <4>1
      <4>4. job'[k] = Dispatched(k, p, deferred[p])
        BY <1>1, <4>1, <4>2, <4>3
      <4> QED  BY <2>2, <4>2, <4>4, DispatchedReads DEF Read
    <3> QED  BY <3>2, <3>3
  <2> QED  BY <1>8, <2>1, <2>2 DEF Announced
<1> QED  BY <1>6, <1>7, <1>8, KeepCare

LEMMA WriteManifestSettles ==
    ASSUME Settled, NEW j \in Jobs, WriteManifest(j), NEW p \in Paths PROVE Kept(p)'
<1>1. job[j].ph = "manifest" /\ UNCHANGED <<file, rows, up, pending, ownAt>>
  BY DEF WriteManifest
<1>2. ~Reads(j, p) /\ InPass(j)
  BY <1>1 DEF Reads, Holds, InPass, PassPhase
<1>3. CASE j \in PassJobs
  <2>1. /\ excuse' = Swallowed((IF drain THEN Parked ELSE {}) \cap note)
        /\ Leave(j, "ready")
    BY <1>3, Zenon DEF WriteManifest
  <2>2. excuse'[p] = {} => excuse[p] = {}
    BY <2>1, SwallowedIs
  <2>3. ASSUME excuse'[p] = {}, file[p].at # ownAt[p], drain, p \in Parked \cap note
        PROVE  Stands(p)
    <3>1. p \in (IF drain THEN Parked ELSE {}) \cap note
      BY <2>3
    <3> QED  BY <2>1, <2>3, <3>1, SwallowedIs
  <2> QED  BY <1>1, <1>2, <1>3, <2>1, <2>2, <2>3, LeaveSettles
<1>4. CASE j \notin PassJobs
  <2>1. job' = [job EXCEPT ![j] = Idle] /\ UNCHANGED <<deferred, excuse>>
    BY <1>4 DEF WriteManifest, Finish
  <2> QED  BY <1>1, <1>2, <2>1, EndCare
<1> QED  BY <1>3, <1>4

LEMMA FailsSettles ==
    ASSUME Settled, NEW j \in Jobs, Fails(j), NEW p \in Paths PROVE Kept(p)'
<1>1. UNCHANGED <<file, rows, up, pending, ownAt>>
  BY DEF Fails
<1>2. CASE j \in PassJobs
  <2>1. Leave(j, "error") /\ InPass(j)
    BY <1>2 DEF Fails
  <2>2. excuse'[p] # {}
    BY <1>2 DEF Fails
  <2> QED  BY <1>1, <1>2, <2>1, <2>2, LeaveSettles
<1>3. CASE j \notin PassJobs
  <2>1. job' = [job EXCEPT ![j] = Idle] /\ UNCHANGED deferred
    BY <1>3 DEF Fails, Finish
  <2>2. excuse'[p] = IF InPass(j) \/ p = job[j].path
                     THEN excuse[p] \cup {"failed"} ELSE excuse[p]
    BY <1>3 DEF Fails
  <2>3. job[j].ph \in {"read", "rows"} \cup PassPhase
    BY <1>3 DEF Fails
  <2>4. Reads(j, p) => InPass(j) \/ p = job[j].path
    BY <2>3 DEF Reads, Holds, InPass, PassPhase
  <2> QED  BY <1>1, <2>1, <2>2, <2>4, EndCare
<1> QED  BY <1>2, <1>3

LEMMA StartSettles ==
    ASSUME Settled, Start, NEW p \in Paths PROVE Kept(p)'
<1>1. ~up /\ UNCHANGED <<file, rows, pending, deferred, ownAt>>
  BY DEF Start
<1>2. \A k \in Jobs : ~Holds(k, p)
  BY <1>1 DEF Settled, SettleInv, Down, Busy, Holds
<1>3. Told(p)'
  BY <1>1 DEF Settled, SettleInv, Kept, Told, Kind
<1>4. Current(rows[p], p) /\ ownAt[p] <= file[p].at
  BY DEF Settled, SettleInv, Kept, Dated
<1>5. ASSUME \A k \in Jobs : ~Holds(k, p)' PROVE Dated(p)'
  BY <1>1, <1>4, <1>5 DEF Dated, Current
<1>6. CASE /\ job' = job
           /\ excuse' = [q \in Paths |->
                           IF Same(q) THEN excuse[q] ELSE excuse[q] \cup {"trusted"}]
  <2>1. \A k \in Jobs : ~Holds(k, p)'
    BY <1>2, <1>6 DEF Holds
  <2>2. excuse'[p] = {} => Stands(p)'
    BY <1>1, <1>6, <2>1 DEF Stands, Same, Outdated
  <2> QED  BY <1>3, <1>5, <2>1, <2>2 DEF Kept, Cared
<1>7. CASE \E j \in PassJobs : job' = [job EXCEPT ![j] = [Idle EXCEPT !.ph = "list"]]
  <2> DEFINE r == [Idle EXCEPT !.ph = "list"]
  <2>1. r.ph = "list"
    BY DEF Idle
  <2> HIDE DEF r
  <2>2. PICK j \in PassJobs : job' = [job EXCEPT ![j] = r]
    BY <1>7 DEF r
  <2>3. j \in Jobs /\ job'[j].ph = "list" /\ \A k \in Jobs : k # j => job'[k] = job[k]
    BY <2>1, <2>2, PassIsJob, OneJob
  <2>4. \A k \in Jobs : ~Holds(k, p)'
    BY <1>2, <2>3 DEF Holds
  <2>5. Read(p)'
    BY <2>3 DEF Read, Reads
  <2> QED  BY <1>3, <1>5, <2>4, <2>5 DEF Kept, Cared
<1> QED  BY <1>6, <1>7 DEF Start

LEMMA StopSettles ==
    ASSUME Settled, Stop, NEW p \in Paths PROVE Kept(p)'
<1>1. /\ ~up' /\ UNCHANGED <<file, rows, ownAt>>
      /\ pending' = [q \in Paths |-> "none"] /\ job' = [k \in Jobs |-> Idle]
  BY Zenon DEF Stop
<1>2. \A k \in Jobs : ~Holds(k, p)'
  BY <1>1, IdleIs DEF Holds
<1>3. Dated(p)'
  BY <1>1, <1>2 DEF Dated, Current, Settled, SettleInv, Kept
<1> QED  BY <1>1, <1>3 DEF Kept, Told, Cared

\* What a server that is down holds, and a watcher that has not started.
LEMMA DownKept == ASSUME Settled, [Next]_vars PROVE Down'
<1> USE DEF Settled, SettleInv
<1>0. job \in [Jobs -> JobState] /\ pending \in [Paths -> Event]
  BY DEF Whole, IInv, Typed
<1>1. ASSUME up', watching' = watching, UNCHANGED pending PROVE Down'
  BY <1>1 DEF Down
<1>2. ASSUME NEW j \in Jobs, job[j].ph # "idle" PROVE up
  BY <1>2 DEF Down, Busy
<1>3. CASE Start
  BY <1>3 DEF Start, Down
<1>4. CASE Stop
  <2>1. ~watching' /\ pending' = [q \in Paths |-> "none"] /\ job' = [k \in Jobs |-> Idle]
    BY <1>4, Zenon DEF Stop
  <2> QED  BY <2>1, IdleIs DEF Down, Busy
<1>5. ASSUME NEW p \in Paths, ForeignChange(p) PROVE Down'
  <2>1. UNCHANGED <<up, watching, job>>
    BY <1>5 DEF ForeignChange
  <2>2. PICK here \in BOOLEAN : Emit(p, here)
    BY <1>5 DEF ForeignChange
  <2>3. ~watching => pending' = pending
    BY <2>2 DEF Emit
  <2> QED  BY <2>1, <2>3 DEF Down, Busy
<1>6. ASSUME NEW p \in Paths, TimerFires(p) PROVE Down'
  <2>1. up' /\ watching' = watching /\ pending' = [pending EXCEPT ![p] = "none"]
    BY <1>6 DEF TimerFires, Down
  <2> QED  BY <1>0, <2>1 DEF Down
<1>7. ASSUME NEW p \in Paths, NoteExpires(p) PROVE Down'
  BY <1>7 DEF NoteExpires, Down, Busy
<1>8. ASSUME NEW j \in Jobs, OwnWrite(j) PROVE Down'
  <2>1. up' /\ watching' = watching
    BY <1>2, <1>8 DEF OwnWrite
  <2>2. ~watching => pending' = pending
    BY <1>8 DEF OwnWrite, Emit
  <2> QED  BY <2>1, <2>2 DEF Down
<1>9. ASSUME NEW j \in Jobs, WriteManifest(j) \/ Fails(j) PROVE Down'
  <2>1. job[j].ph # "idle" /\ up' = up /\ pending' = pending
    BY <1>9, PhaseSets DEF WriteManifest, Fails, InPass, PassPhase
  <2>2. watching' = watching \/ watching'
    BY <1>9 DEF WriteManifest, Fails, Leave
  <2> QED  BY <1>2, <2>1, <2>2 DEF Down
<1>10. ASSUME NEW j \in Jobs, ReadFile(j) \/ ReplaceRows(j) \/ PatchManifest(j) \/ FileGone(j)
                              \/ OwnRefused(j) \/ Restat(j) \/ ListFiles(j)
                              \/ (\E p \in Paths : StageFile(j, p)) \/ CommitRows(j)
       PROVE Down'
  <2>1. job[j].ph # "idle" /\ up' = up /\ watching' = watching /\ pending' = pending
    BY <1>10 DEF ReadFile, ReplaceRows, PatchManifest, FileGone, OwnRefused, Restat,
       ListFiles, StageFile, CommitRows
  <2> QED  BY <1>1, <1>2, <2>1
<1>11. ASSUME NEW j \in Jobs, ReindexCalled(j) PROVE Down'
  BY <1>1, <1>11 DEF ReindexCalled
<1>12. ASSUME NEW j \in Jobs, NEW p \in Paths, OwnAdmitted(j, p) PROVE Down'
  BY <1>1, <1>12 DEF OwnAdmitted
<1>13. CASE UNCHANGED vars
  BY <1>13 DEF vars, Down, Busy
<1> QED
  BY <1>3, <1>4, <1>5, <1>6, <1>7, <1>8, <1>9, <1>10, <1>11, <1>12, <1>13
  DEF Next, JobStep

LEMMA SettleKept == ASSUME Settled, [Next]_vars PROVE SettleInv'
<1>1. ASSUME NEW p \in Paths PROVE Kept(p)'
  <2>1. CASE UNCHANGED vars
    <3>1. UNCHANGED <<file, rows, up, pending, deferred, job, ownAt, excuse>>
      BY <2>1 DEF vars
    <3>2. Faithful(p) /\ (Read(p) => Read(p)')
      BY <3>1 DEF Faithful, Read, Reads, Holds
    <3> QED  BY <3>1, <3>2, OtherPath
  <2> QED
    BY <2>1, StartSettles, StopSettles, ForeignChangeSettles, NoteExpiresSettles,
       TimerFiresSettles, ReadFileSettles, ReplaceRowsSettles, CallEndsSettles,
       OwnWriteSettles, RestatSettles, ListFilesSettles, StageFileSettles,
       CommitRowsSettles, WriteManifestSettles, FailsSettles, ReindexCalledSettles,
       OwnAdmittedSettles
    DEF Next, JobStep
<1> QED  BY <1>1, DownKept DEF SettleInv

LEMMA SettleInit == Init => SettleInv
<1> SUFFICES ASSUME Init PROVE SettleInv  OBVIOUS
<1>1. /\ ~up /\ ~watching /\ pending = [p \in Paths |-> "none"]
      /\ job = [j \in Jobs |-> Idle] /\ ownAt = [p \in Paths |-> 0]
  BY Zenon DEF Init
<1>2. \A j \in Jobs : job[j].ph = "idle"
  BY <1>1, IdleIs
<1>3. Down
  BY <1>1, <1>2 DEF Down, Busy
<1>4. ASSUME NEW p \in Paths PROVE Kept(p)
  <2> DEFINE one == [at |-> 1, here |-> TRUE]
  <2>1. file[p] \in {one, Absent} /\ rows[p] \in {file[p], Absent}
    BY DEF Init
  <2>2. one.at = 1
    OBVIOUS
  <2> HIDE DEF one
  <2>3. Absent.at = 0
    BY DEF Absent
  <2>4. Current(rows[p], p) /\ ownAt[p] <= file[p].at
    BY <1>1, <2>1, <2>2, <2>3 DEF Current
  <2>5. \A j \in Jobs : ~Holds(j, p)
    BY <1>2 DEF Holds
  <2> QED  BY <1>1, <2>4, <2>5 DEF Kept, Told, Dated, Cared
<1> QED  BY <1>3, <1>4 DEF SettleInv

\* The index settles: for any number of files, watcher calls, write tools and
\* full passes, once nothing is under way for a path its rows are what the
\* file holds, but for the five recorded cases (watcher.ts, reindex.ts,
\* self-write.ts, write.ts:627-637).
THEOREM IndexSettlesHolds == Spec => []IndexSettles
<1>1. Init => Settled
  BY WholeInit, SettleInit DEF Settled
<1>2. Settled /\ [Next]_vars => Settled'
  BY NextKeeps, MarksKept, SitedKept, SettleKept DEF Settled, Whole
<1>3. Settled => IndexSettles
  <2> SUFFICES ASSUME Settled, NEW p \in Paths, Quiet(p), excuse[p] = {} PROVE Same(p)
    BY DEF IndexSettles
  <2>1. up /\ pending[p] = "none" /\ deferred[p] = "none"
    BY DEF Quiet
  <2>2. ~Announced(p)
    BY <2>1 DEF Announced, Kind
  <2>3. ~Read(p)
    BY DEF Quiet, Read, Reads, Holds, CallPhase
  <2>4. Stands(p)
    BY <2>1, <2>2, <2>3 DEF Settled, SettleInv, Kept, Cared
  <2> QED  BY <2>4, Typing DEF Stands, Same
<1> QED  BY <1>1, <1>2, <1>3, PTL DEF Spec
=============================================================================
