----------------------------- MODULE ProcessLock -----------------------------
(***************************************************************************)
(* .daftari/process.lock (src/src/lifecycle/lock.ts): which daftari        *)
(* process may hold a vault, how a new one takes over from a live or a     *)
(* dead one, and how a holder gives the vault up (installShutdownHandlers  *)
(* in src/src/index.ts).                                                   *)
(*                                                                         *)
(* A member of Procs is one incarnation of a daftari process on the vault; *)
(* it starts at most once.  Its lockfile carries its pid and its startedAt, *)
(* so a lockfile is named after the incarnation that created it.  Every    *)
(* action is one system call, with the code up to the next.                *)
(***************************************************************************)
EXTENDS Naturals

CONSTANTS
  Procs,        \* incarnations of daftari on this vault
  Pids,         \* process ids the operating system hands out, and reuses
  Absent,       \* there is no lockfile
  MaxAttempts,  \* MAX_ACQUIRE_ATTEMPTS
  MayOverstay   \* may a signalled holder outlive SIGTERM_GRACE_MS?

ASSUME ProcessLockAssumption ==
  /\ Absent \notin Procs
  /\ MaxAttempts \in Nat \ {0}
  /\ MayOverstay \in BOOLEAN

VARIABLES
  pc,        \* where each incarnation is
  pid,       \* its process id
  mode,      \* how it serves
  takeover,  \* was it started with --takeover?
  attempt,   \* how many rounds of acquireLock it has used up
  seen,      \* the lockfile it has read
  file,      \* the lockfile on disk, by who created it
  filled,    \* the lockfiles whose content has been written
  signalled, \* the incarnations with a SIGTERM on its way
  \* History variables, read by properties only:
  overstayed, \* the holders a taker stopped waiting for
  usurped,    \* the incarnations whose lockfile was unlinked in mistake for another
  alone       \* the incarnations that have had the vault to themselves

settings == <<pid, mode, takeover>>
history  == <<overstayed, usurped>>
vars == <<pc, settings, attempt, seen, file, filled, signalled, history, alone>>

Modes      == {"stdio", "serve"}
Acquiring  == {"create", "fill", "inspect", "judge", "wait", "compare", "unlink"}
Owning     == {"serving", "draining", "leaving", "erase"}
Ended      == {"refused", "gave_up", "failed", "exited", "dead"}
Places     == {"off"} \cup Acquiring \cup Owning \cup Ended

Live(p) == pc[p] \in Acquiring \cup Owning

TypeOK ==
  /\ pc \in [Procs -> Places]
  /\ pid \in [Procs -> Pids]
  /\ mode \in [Procs -> Modes]
  /\ takeover \in [Procs -> BOOLEAN]
  /\ attempt \in [Procs -> 0 .. MaxAttempts]
  /\ seen \in [Procs -> Procs \cup {Absent}]
  /\ file \in Procs \cup {Absent}
  /\ filled \in SUBSET Procs
  /\ signalled \in SUBSET Procs
  /\ overstayed \in SUBSET Procs
  /\ usurped \in SUBSET Procs
  /\ alone \in SUBSET Procs

Init ==
  /\ pc = [p \in Procs |-> "off"]
  /\ pid \in [Procs -> Pids]
  /\ mode \in [Procs -> Modes]
  /\ takeover \in {f \in [Procs -> BOOLEAN] : \A p \in Procs : f[p] => mode[p] = "serve"}
  /\ attempt = [p \in Procs |-> 0]
  /\ seen = [p \in Procs |-> Absent]
  /\ file = Absent
  /\ filled = {} /\ signalled = {}
  /\ overstayed = {} /\ usurped = {} /\ alone = {}

Goto(p, place) == pc' = [pc EXCEPT ![p] = place]

\* No bound.
NextAttempt_LoopBug(p) == Goto(p, "create") /\ UNCHANGED attempt

\* A round of the loop that did not settle anything.
NextAttempt(p) ==
  /\ attempt' = [attempt EXCEPT ![p] = @ + 1]
  /\ Goto(p, IF attempt[p] + 1 < MaxAttempts THEN "create" ELSE "gave_up")

\* The file as readLockfile returns it: one without content is no lockfile.
Readable == IF file \in filled THEN file ELSE Absent

------------------------------------------------------------------------------
(***************************************************************************)
(* Actions.  As in WritePath, a definition whose name ends in Bug is no    *)
(* part of the specification.                                              *)
(***************************************************************************)
\* A process is started; no live process has its pid.
Start(p) ==
  /\ pc[p] = "off"
  /\ \A q \in Procs : Live(q) => pid[q] # pid[p]
  /\ Goto(p, "create")
  /\ alone' = IF \E q \in Procs : Live(q) THEN {} ELSE {p}
  /\ UNCHANGED <<settings, attempt, seen, file, filled, signalled, history>>

\* openSync without O_EXCL.
Create_Bug(p) ==
  /\ pc[p] = "create"
  /\ file' = p
  /\ Goto(p, "fill")
  /\ UNCHANGED <<settings, attempt, seen, filled, signalled, history, alone>>

\* tryCreateExclusive: openSync with O_EXCL ...
Create(p) ==
  /\ pc[p] = "create"
  /\ \/ /\ file = Absent
        /\ file' = p
        /\ Goto(p, "fill")
     \/ /\ file # Absent
        /\ Goto(p, "inspect")
        /\ UNCHANGED file
  /\ UNCHANGED <<settings, attempt, seen, filled, signalled, history, alone>>

\* ... and writeSync to what it opened, which may be unlinked by now.
Fill(p) ==
  /\ pc[p] = "fill"
  /\ filled' = filled \cup {p}
  /\ Goto(p, "serving")
  /\ UNCHANGED <<settings, attempt, seen, file, signalled, history, alone>>

\* The disk is full.
FillFails(p) ==
  /\ pc[p] = "fill"
  /\ Goto(p, "failed")
  /\ UNCHANGED <<settings, attempt, seen, file, filled, signalled, history, alone>>

\* EEXIST: read who holds it.  Nothing to read is taken for a lock that has
\* just vanished.
Inspect(p) ==
  /\ pc[p] = "inspect"
  /\ \/ /\ Readable = Absent
        /\ NextAttempt(p)
        /\ UNCHANGED seen
     \/ /\ Readable # Absent
        /\ seen' = [seen EXCEPT ![p] = file]
        /\ Goto(p, "judge")
        /\ UNCHANGED attempt
  /\ UNCHANGED <<settings, file, filled, signalled, history, alone>>

\* A leftover lockfile with the reader's own pid is taken for a live holder.
Suspects_Bug(p) == {q \in Procs : Live(q) /\ pid[q] = pid[seen[p]]}

\* isDaftariProcess: the live incarnations that have the pid in the lockfile,
\* unless it is the reader's own.
Suspects(p) ==
  {q \in Procs : Live(q) /\ pid[q] = pid[seen[p]] /\ pid[q] # pid[p]}

\* The precedence of deployments over desktop sessions.
MustRefuse(p) ==
  \/ mode[p] = "stdio" /\ mode[seen[p]] = "serve"
  \/ mode[p] = "serve" /\ ~takeover[p]

Refuse(p) ==
  /\ pc[p] = "judge"
  /\ Suspects(p) # {}
  /\ MustRefuse(p)
  /\ Goto(p, "refused")
  /\ UNCHANGED <<settings, attempt, seen, file, filled, signalled, history, alone>>

Signal(p) ==
  /\ pc[p] = "judge"
  /\ Suspects(p) # {}
  /\ ~MustRefuse(p)
  /\ signalled' = signalled \cup Suspects(p)
  /\ Goto(p, "wait")
  /\ UNCHANGED <<settings, attempt, seen, file, filled, history, alone>>

\* The lock is a leftover.
Dismiss(p) ==
  /\ pc[p] = "judge"
  /\ Suspects(p) = {}
  /\ Goto(p, "compare")
  /\ UNCHANGED <<settings, attempt, seen, file, filled, signalled, history, alone>>

\* waitForExit: the holder is gone, or the grace period is over and the taker
\* proceeds anyway.
Wait(p) ==
  /\ pc[p] = "wait"
  /\ Suspects(p) = {} \/ MayOverstay
  /\ overstayed' = overstayed \cup Suspects(p)
  /\ Goto(p, "compare")
  /\ UNCHANGED <<settings, attempt, seen, file, filled, signalled, usurped, alone>>

\* removeLockIfUnchanged: read again ...
Compare(p) ==
  /\ pc[p] = "compare"
  /\ \/ /\ Readable = seen[p]
        /\ Goto(p, "unlink")
        /\ UNCHANGED attempt
     \/ /\ Readable # seen[p]
        /\ NextAttempt(p)
  /\ UNCHANGED <<settings, seen, file, filled, signalled, history, alone>>

\* ... and unlink whatever is there now.
Unlink(p) ==
  /\ pc[p] = "unlink"
  /\ file' = Absent
  /\ usurped' = IF file \in {seen[p], Absent} THEN usurped ELSE usurped \cup {file}
  /\ NextAttempt(p)
  /\ UNCHANGED <<settings, seen, filled, signalled, overstayed, alone>>

------------------------------------------------------------------------------
\* A SIGTERM arrives.  The handlers are installed once acquireLock has
\* returned; before that the process just dies.
Terminate(p) ==
  /\ p \in signalled
  /\ Live(p)
  /\ signalled' = signalled \ {p}
  /\ Goto(p, IF pc[p] = "serving" THEN "draining"
             ELSE IF pc[p] \in Owning THEN pc[p] ELSE "dead")
  /\ UNCHANGED <<settings, attempt, seen, file, filled, history, alone>>

\* SIGINT, or the client closes its end.
Shutdown(p) ==
  /\ pc[p] = "serving"
  /\ Goto(p, "draining")
  /\ UNCHANGED <<settings, attempt, seen, file, filled, signalled, history, alone>>

\* The drain is over or has taken SHUTDOWN_DRAIN_TIMEOUT_MS.
Drained(p) ==
  /\ pc[p] = "draining"
  /\ Goto(p, "leaving")
  /\ UNCHANGED <<settings, attempt, seen, file, filled, signalled, history, alone>>

\* releaseLock: read, and go on only if the pid is ours ...
ReleaseCheck(p) ==
  /\ pc[p] = "leaving"
  /\ Goto(p, IF Readable # Absent /\ pid[Readable] = pid[p] THEN "erase" ELSE "exited")
  /\ UNCHANGED <<settings, attempt, seen, file, filled, signalled, history, alone>>

\* ... unlink what is there now, and exit.
ReleaseUnlink(p) ==
  /\ pc[p] = "erase"
  /\ file' = Absent
  /\ usurped' = IF file \in {p, Absent} THEN usurped ELSE usurped \cup {file}
  /\ Goto(p, "exited")
  /\ UNCHANGED <<settings, attempt, seen, filled, signalled, overstayed, alone>>

Crash(p) ==
  /\ Live(p)
  /\ Goto(p, "dead")
  /\ UNCHANGED <<settings, attempt, seen, file, filled, signalled, history, alone>>

Step(p) ==
  \/ Create(p) \/ Fill(p) \/ Inspect(p) \/ Refuse(p) \/ Signal(p) \/ Dismiss(p)
  \/ Wait(p) \/ Compare(p) \/ Unlink(p)
  \/ Terminate(p) \/ Drained(p) \/ ReleaseCheck(p) \/ ReleaseUnlink(p)

Next == \E p \in Procs : Start(p) \/ Step(p) \/ FillFails(p) \/ Shutdown(p) \/ Crash(p)

Spec == Init /\ [][Next]_vars

\* A running process keeps running, and a signal arrives.
FairSpec == Spec /\ \A p \in Procs : WF_vars(Step(p))

------------------------------------------------------------------------------
(***************************************************************************)
(* Properties.                                                             *)
(***************************************************************************)
Working(p) == pc[p] \in {"serving", "draining"}

\* Who works on the vault is who the lockfile names, unless a taker stopped
\* waiting for it or unlinked its lockfile in mistake for an older one.  So
\* acquireLock lets two processes in on no other way.
HolderRecorded ==
  \A p \in Procs : Working(p) => file = p \/ p \in overstayed \cup usurped

\* acquireLock: "now only one can win the exclusive create", which "closes the
\* stale-takeover TOCTOU".
OneHolder ==
  \A p, q \in Procs : Working(p) /\ Working(q) => p = q \/ {p, q} \cap overstayed # {}

\* A process that has had the vault to itself gets it, whatever dead or
\* foreign lockfile it finds, but for one without content.
LoneStarterServes ==
  \A p \in alone : pc[p] \in {"refused", "gave_up"} => file # Absent /\ file \notin filled

\* acquireLock comes to an end: takers do not go round for ever, on one
\* another's lockfiles or on a torn one.
AcquireSettles == \A p \in Procs : pc[p] \in Acquiring ~> pc[p] \in Owning \cup Ended
==============================================================================
