-------------------------- MODULE ProcessLockProofs --------------------------
(***************************************************************************)
(* Theorems about ProcessLock for any number of processes, process ids and *)
(* attempts, whether or not holders outlive their grace period.            *)
(***************************************************************************)
EXTENDS ProcessLock, TLAPS

\* Whoever is still trying has an attempt left.
AttemptLeft == \A p \in Procs : pc[p] \in Acquiring \cup {"off"} => attempt[p] < MaxAttempts

Typed == TypeOK /\ AttemptLeft

LEMMA TypedStep == Typed /\ [Next]_vars => Typed'
<1> SUFFICES ASSUME Typed, [Next]_vars
             PROVE  Typed'
  OBVIOUS
<1> USE ProcessLockAssumption DEF Typed, TypeOK, AttemptLeft, Places, Acquiring, Owning, Ended,
        settings, history, Goto
<1>1. ASSUME NEW p \in Procs, Start(p) PROVE Typed'
  BY <1>1 DEF Start
<1>2. ASSUME NEW p \in Procs, Create(p) PROVE Typed'
  BY <1>2 DEF Create
<1>3. ASSUME NEW p \in Procs, Fill(p) PROVE Typed'
  BY <1>3 DEF Fill
<1>4. ASSUME NEW p \in Procs, FillFails(p) PROVE Typed'
  BY <1>4 DEF FillFails
<1>5. ASSUME NEW p \in Procs, Inspect(p) PROVE Typed'
  BY <1>5 DEF Inspect, NextAttempt, Readable
<1>6. ASSUME NEW p \in Procs, Refuse(p) PROVE Typed'
  BY <1>6 DEF Refuse
<1>7. ASSUME NEW p \in Procs, Signal(p) PROVE Typed'
  BY <1>7 DEF Signal, Suspects
<1>8. ASSUME NEW p \in Procs, Dismiss(p) PROVE Typed'
  BY <1>8 DEF Dismiss
<1>9. ASSUME NEW p \in Procs, Wait(p) PROVE Typed'
  BY <1>9 DEF Wait, Suspects
<1>10. ASSUME NEW p \in Procs, Compare(p) PROVE Typed'
  BY <1>10 DEF Compare, NextAttempt
<1>11. ASSUME NEW p \in Procs, Unlink(p) PROVE Typed'
  BY <1>11 DEF Unlink, NextAttempt
<1>12. ASSUME NEW p \in Procs, Terminate(p) PROVE Typed'
  BY <1>12 DEF Terminate
<1>13. ASSUME NEW p \in Procs, Shutdown(p) PROVE Typed'
  BY <1>13 DEF Shutdown
<1>14. ASSUME NEW p \in Procs, Drained(p) PROVE Typed'
  BY <1>14 DEF Drained
<1>15. ASSUME NEW p \in Procs, ReleaseCheck(p) PROVE Typed'
  BY <1>15 DEF ReleaseCheck
<1>16. ASSUME NEW p \in Procs, ReleaseUnlink(p) PROVE Typed'
  BY <1>16 DEF ReleaseUnlink
<1>17. ASSUME NEW p \in Procs, Crash(p) PROVE Typed'
  BY <1>17 DEF Crash
<1>18. CASE UNCHANGED vars
  BY <1>18 DEF vars
<1>19. QED
  BY <1>1, <1>2, <1>3, <1>4, <1>5, <1>6, <1>7, <1>8, <1>9, <1>10, <1>11, <1>12, <1>13, <1>14, <1>15, <1>16, <1>17, <1>18 DEF Next, Step

LEMMA TypedInvariant == Spec => []Typed
<1>1. Init => Typed
  BY ProcessLockAssumption DEF Init, Typed, TypeOK, AttemptLeft, Places, Acquiring
<1>2. QED
  BY <1>1, TypedStep, PTL DEF Spec

\* Type correctness: in particular no process uses up more attempts than
\* acquireLock grants.
THEOREM TypeCorrect == Spec => []TypeOK
BY TypedInvariant, PTL DEF Typed

------------------------------------------------------------------------------
(***************************************************************************)
(* Who holds the vault.                                                    *)
(***************************************************************************)
Created(p) == pc[p] \in {"fill"} \cup Owning \cup Ended

Excusable(p) == p \in overstayed \cup usurped

\* Two live processes have two pids.
OwnPids == \A p, q \in Procs : Live(p) /\ Live(q) /\ pid[p] = pid[q] => p = q

\* A lockfile is there only once its creator has come past the create.
FileCreated == file # Absent => Created(file)

\* What a process has read was a lockfile of another one, and by the time it
\* is about to remove it, its creator is gone or is not waited for any more.
Read(p) == pc[p] \in {"judge", "wait", "compare", "unlink"} =>
  /\ seen[p] \in Procs
  /\ Created(seen[p])
  /\ pc[p] \in {"compare", "unlink"} => ~Live(seen[p]) \/ seen[p] \in overstayed

\* HolderRecorded, from the exclusive create on.
Recorded(p) == pc[p] = "fill" \/ Working(p) => file = p \/ Excusable(p)

HolderInv ==
  /\ OwnPids
  /\ FileCreated
  /\ \A p \in Procs : Read(p) /\ Recorded(p)

LEMMA HolderStep == TypeOK /\ HolderInv /\ [Next]_vars => HolderInv'
<1> SUFFICES ASSUME TypeOK, HolderInv, [Next]_vars
             PROVE  HolderInv'
  OBVIOUS
<1> USE ProcessLockAssumption DEF TypeOK, HolderInv, OwnPids, FileCreated, Read, Recorded,
        Created, Excusable, Working, Live, Acquiring, Owning, Ended, settings, history, Goto
<1>1. ASSUME NEW p \in Procs, Start(p) PROVE HolderInv'
  BY <1>1 DEF Start
<1>2. ASSUME NEW p \in Procs, Create(p) PROVE HolderInv'
  BY <1>2 DEF Create
<1>3. ASSUME NEW p \in Procs, Fill(p) PROVE HolderInv'
  BY <1>3 DEF Fill
<1>4. ASSUME NEW p \in Procs, FillFails(p) PROVE HolderInv'
  BY <1>4 DEF FillFails
<1>5. ASSUME NEW p \in Procs, Inspect(p) PROVE HolderInv'
  BY <1>5 DEF Inspect, NextAttempt, Readable
<1>6. ASSUME NEW p \in Procs, Refuse(p) PROVE HolderInv'
  BY <1>6 DEF Refuse, Suspects
<1>7. ASSUME NEW p \in Procs, Signal(p) PROVE HolderInv'
  BY <1>7 DEF Signal, Suspects
<1>8. ASSUME NEW p \in Procs, Dismiss(p) PROVE HolderInv'
  BY <1>8 DEF Dismiss, Suspects
<1>9. ASSUME NEW p \in Procs, Wait(p) PROVE HolderInv'
  BY <1>9 DEF Wait, Suspects
<1>10. ASSUME NEW p \in Procs, Compare(p) PROVE HolderInv'
  BY <1>10 DEF Compare, NextAttempt
<1>11. ASSUME NEW p \in Procs, Unlink(p) PROVE HolderInv'
  BY <1>11 DEF Unlink, NextAttempt
<1>12. ASSUME NEW p \in Procs, Terminate(p) PROVE HolderInv'
  BY <1>12 DEF Terminate
<1>13. ASSUME NEW p \in Procs, Shutdown(p) PROVE HolderInv'
  BY <1>13 DEF Shutdown
<1>14. ASSUME NEW p \in Procs, Drained(p) PROVE HolderInv'
  BY <1>14 DEF Drained
<1>15. ASSUME NEW p \in Procs, ReleaseCheck(p) PROVE HolderInv'
  BY <1>15 DEF ReleaseCheck
<1>16. ASSUME NEW p \in Procs, ReleaseUnlink(p) PROVE HolderInv'
  BY <1>16 DEF ReleaseUnlink
<1>17. ASSUME NEW p \in Procs, Crash(p) PROVE HolderInv'
  BY <1>17 DEF Crash
<1>18. CASE UNCHANGED vars
  BY <1>18 DEF vars
<1>19. QED
  BY <1>1, <1>2, <1>3, <1>4, <1>5, <1>6, <1>7, <1>8, <1>9, <1>10, <1>11, <1>12, <1>13, <1>14, <1>15, <1>16, <1>17, <1>18 DEF Next, Step

\* Admission: a process works on the vault only while the lockfile names it,
\* unless it was overtaken after its grace period or its lockfile was unlinked
\* by a process that had read another one.
THEOREM HolderRecordedHolds == Spec => []HolderRecorded
<1>1. Init => HolderInv
  BY ProcessLockAssumption DEF Init, HolderInv, OwnPids, FileCreated, Read, Recorded,
     Working, Live, Acquiring, Owning
<1>2. HolderInv => HolderRecorded
  BY DEF HolderInv, HolderRecorded, Recorded, Excusable
<1>3. QED
  BY <1>1, <1>2, HolderStep, TypeCorrect, PTL DEF Spec

------------------------------------------------------------------------------
(***************************************************************************)
(* A process that has the vault to itself.                                 *)
(***************************************************************************)
\* A lockfile without content, as a holder that died between the create and
\* the write leaves it.
Torn == file # Absent /\ file \notin filled

\* A process that has not been started has used up no attempt.
Unstarted(p) == pc[p] = "off" => attempt[p] = 0

\* Where a process alone on the vault can be, and the attempts it has used:
\* the first removes what it found, the second creates.
Unhindered(p) ==
  /\ pc[p] \notin {"off", "wait", "refused"}
  /\ pc[p] = "create" => Torn \/ attempt[p] = 0 \/ (attempt[p] = 1 /\ file = Absent)
  /\ pc[p] = "inspect" => Torn \/ (attempt[p] = 0 /\ file # Absent)
  /\ pc[p] \in {"judge", "compare", "unlink"} =>
       attempt[p] = 0 /\ file = seen[p] /\ file # Absent /\ file \in filled
  /\ pc[p] = "gave_up" => Torn

LoneInv ==
  /\ \A p \in Procs : Unstarted(p)
  /\ \A p \in alone : Unhindered(p) /\ \A q \in Procs : Live(q) => q = p

LEMMA LoneStep == Typed /\ LoneInv /\ MaxAttempts > 1 /\ [Next]_vars => LoneInv'
<1> SUFFICES ASSUME Typed, LoneInv, MaxAttempts > 1, [Next]_vars
             PROVE  LoneInv'
  OBVIOUS
<1> USE ProcessLockAssumption DEF Typed, TypeOK, LoneInv, Unstarted, Unhindered, Torn, Live,
        Acquiring, Owning, Ended, Places, Readable, settings, history, Goto
<1>1. ASSUME NEW p \in Procs, Start(p) PROVE LoneInv'
  <2>1. /\ pc' = [pc EXCEPT ![p] = "create"] /\ attempt[p] = 0
        /\ alone' = IF \E q \in Procs : Live(q) THEN {} ELSE {p}
        /\ attempt' = attempt
    BY <1>1 DEF Start
  <2>2. \A q \in Procs : Unstarted(q)'
    BY <2>1
  <2>3. ASSUME NEW q \in alone' PROVE Unhindered(q)' /\ \A r \in Procs : Live(r)' => r = q
    <3>1. q = p /\ \A r \in Procs : ~Live(r)
      BY <2>1, <2>3
    <3>2. pc'[p] = "create" /\ \A r \in Procs : r # p => pc'[r] = pc[r]
      BY <2>1
    <3>3. attempt'[p] = 0
      BY <2>1
    <3>4. Unhindered(p)'
      BY <3>2, <3>3
    <3>5. ASSUME NEW r \in Procs, Live(r)' PROVE r = p
      BY <3>1, <3>2, <3>5
    <3>6. QED
      BY <3>1, <3>4, <3>5
  <2>4. QED
    BY <2>2, <2>3
<1>2. ASSUME NEW p \in Procs, Create(p) PROVE LoneInv'
  BY <1>2 DEF Create
<1>3. ASSUME NEW p \in Procs, Fill(p) PROVE LoneInv'
  BY <1>3 DEF Fill
<1>4. ASSUME NEW p \in Procs, FillFails(p) PROVE LoneInv'
  BY <1>4 DEF FillFails
<1>5. ASSUME NEW p \in Procs, Inspect(p) PROVE LoneInv'
  <2>1. CASE Readable = Absent
    <3>1. pc[p] = "inspect" /\ NextAttempt(p) /\ UNCHANGED <<file, filled, seen, alone>>
      BY <1>5, <2>1 DEF Inspect
    <3>2. p \in alone => Torn
      BY <2>1, <3>1
    <3>3. /\ attempt' = [attempt EXCEPT ![p] = @ + 1]
          /\ pc' = [pc EXCEPT ![p] = IF attempt[p] + 1 < MaxAttempts THEN "create" ELSE "gave_up"]
      BY <3>1 DEF NextAttempt
    <3>4. \A q \in Procs : Unstarted(q)'
      BY <3>1, <3>3
    <3>5. ASSUME NEW q \in alone PROVE q = p
      BY <3>1
    <3>6. p \in alone => Unhindered(p)'
      BY <3>1, <3>2, <3>3
    <3>7. ASSUME NEW q \in alone, NEW r \in Procs, Live(r)' PROVE r = q
      BY <3>1, <3>3, <3>5, <3>7
    <3>8. QED
      BY <3>1, <3>4, <3>5, <3>6, <3>7
  <2>2. CASE Readable # Absent
    <3>1. /\ pc[p] = "inspect" /\ seen' = [seen EXCEPT ![p] = file] /\ Goto(p, "judge")
          /\ UNCHANGED <<attempt, file, filled, alone>>
      BY <1>5, <2>2 DEF Inspect
    <3>2. file # Absent /\ file \in filled
      BY <2>2
    <3>3. QED
      BY <3>1, <3>2
  <2>3. QED
    BY <2>1, <2>2
<1>6. ASSUME NEW p \in Procs, Refuse(p) PROVE LoneInv'
  BY <1>6 DEF Refuse, Suspects
<1>7. ASSUME NEW p \in Procs, Signal(p) PROVE LoneInv'
  BY <1>7 DEF Signal, Suspects
<1>8. ASSUME NEW p \in Procs, Dismiss(p) PROVE LoneInv'
  BY <1>8 DEF Dismiss, Suspects
<1>9. ASSUME NEW p \in Procs, Wait(p) PROVE LoneInv'
  BY <1>9 DEF Wait, Suspects
<1>10. ASSUME NEW p \in Procs, Compare(p) PROVE LoneInv'
  BY <1>10 DEF Compare, NextAttempt
<1>11. ASSUME NEW p \in Procs, Unlink(p) PROVE LoneInv'
  BY <1>11 DEF Unlink, NextAttempt
<1>12. ASSUME NEW p \in Procs, Terminate(p) PROVE LoneInv'
  BY <1>12 DEF Terminate
<1>13. ASSUME NEW p \in Procs, Shutdown(p) PROVE LoneInv'
  BY <1>13 DEF Shutdown
<1>14. ASSUME NEW p \in Procs, Drained(p) PROVE LoneInv'
  BY <1>14 DEF Drained
<1>15. ASSUME NEW p \in Procs, ReleaseCheck(p) PROVE LoneInv'
  BY <1>15 DEF ReleaseCheck
<1>16. ASSUME NEW p \in Procs, ReleaseUnlink(p) PROVE LoneInv'
  BY <1>16 DEF ReleaseUnlink
<1>17. ASSUME NEW p \in Procs, Crash(p) PROVE LoneInv'
  BY <1>17 DEF Crash
<1>18. CASE UNCHANGED vars
  BY <1>18 DEF vars
<1>19. QED
  BY <1>1, <1>2, <1>3, <1>4, <1>5, <1>6, <1>7, <1>8, <1>9, <1>10, <1>11, <1>12, <1>13, <1>14, <1>15, <1>16, <1>17, <1>18 DEF Next, Step

\* A process that finds nobody else alive is neither refused nor does it give
\* up, whatever lockfile it finds and whatever process id that carries, but
\* for one without content.  It takes two attempts: the code grants five, and
\* one would not be enough.
THEOREM LoneStarterServesHolds ==
  ASSUME MaxAttempts > 1
  PROVE  Spec => []LoneStarterServes
<1>1. Init => LoneInv
  BY ProcessLockAssumption DEF Init, LoneInv, Unstarted
<1>2. LoneInv => LoneStarterServes
  BY DEF LoneInv, LoneStarterServes, Unhindered, Torn
<1>3. Typed /\ LoneInv /\ [Next]_vars => LoneInv'
  BY LoneStep
<1>4. QED
  BY <1>1, <1>2, <1>3, TypedInvariant, PTL DEF Spec
==============================================================================
