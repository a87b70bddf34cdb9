--------------------------- MODULE WritePathProofs ---------------------------
(***************************************************************************)
(* Theorems about WritePath for any number of calls, documents and         *)
(* crashes, with leases that may or may not lapse under a working call.    *)
(***************************************************************************)
EXTENDS WritePath, TLAPS

\* What a call composes from the file it loaded is a text.
LEMMA ComposedIsText ==
  ASSUME TypeOK, NEW c \in Calls
  PROVE  /\ disk[target[c]] \in Text
         /\ disk[target[c]] \cup {c} \in Text
         /\ text[c] \in Text
         /\ {} \in Text
<1>1. disk[target[c]] \in Text /\ text[c] \in Text
  BY DEF TypeOK
<1>2. QED
  BY <1>1 DEF Text, Contribution

\* Type correctness.
THEOREM TypeCorrect == Spec => []TypeOK
<1> USE WritePathAssumption DEF TypeOK
<1>1. Init => TypeOK
  BY DEF Init, Places, Running, Holding, Kinds, Answers, Text, Contribution
<1>2. TypeOK /\ [Next]_vars => TypeOK'
  <2> SUFFICES ASSUME TypeOK, [Next]_vars
               PROVE  TypeOK'
    OBVIOUS
  <2> USE DEF Places, Running, Holding, callVars, docVars, logVars, ghosts,
              Goto, Finish, Abandon, Append1
  <2>1. ASSUME NEW c \in Calls, Read(c) PROVE TypeOK'
    BY <2>1, ComposedIsText DEF Read, Kinds
  <2>2. ASSUME NEW c \in Calls, LoadUnchecked(c) PROVE TypeOK'
    BY <2>2, ComposedIsText DEF LoadUnchecked, Compose, Kinds
  <2>3. ASSUME NEW c \in Calls, LoadExplicit(c) PROVE TypeOK'
    BY <2>3, ComposedIsText DEF LoadExplicit, Compose
  <2>4. ASSUME NEW c \in Calls, LoadDefaulted(c) PROVE TypeOK'
    BY <2>4, ComposedIsText DEF LoadDefaulted, Compose, Kinds
  <2>5. ASSUME NEW c \in Calls, Decline(c) PROVE TypeOK'
    BY <2>5, ComposedIsText DEF Decline, Answers
  <2>6. ASSUME NEW c \in Calls, PatchStale(c) PROVE TypeOK'
    BY <2>6, ComposedIsText DEF PatchStale, Answers, Entries
  <2>7. ASSUME NEW c \in Calls, Contend(c) PROVE TypeOK'
    BY <2>7, ComposedIsText DEF Contend, Answers
  <2>8. ASSUME NEW c \in Calls, Acquire(c) PROVE TypeOK'
    BY <2>8, ComposedIsText DEF Acquire
  <2>9. ASSUME NEW c \in Calls, Check(c) PROVE TypeOK'
    BY <2>9, ComposedIsText DEF Check
  <2>10. ASSUME NEW c \in Calls, RejectStale(c) PROVE TypeOK'
    BY <2>10, ComposedIsText DEF RejectStale, Answers, Entries
  <2>11. ASSUME NEW c \in Calls, RejectLeak(c) PROVE TypeOK'
    BY <2>11, ComposedIsText DEF RejectLeak, Answers, Entries
  <2>12. ASSUME NEW c \in Calls, Truncate(c) PROVE TypeOK'
    BY <2>12, ComposedIsText DEF Truncate
  <2>13. ASSUME NEW c \in Calls, Fill(c) PROVE TypeOK'
    BY <2>13, ComposedIsText DEF Fill
  <2>14. ASSUME NEW c \in Calls, WriteFails(c) PROVE TypeOK'
    BY <2>14, ComposedIsText DEF WriteFails, Answers
  <2>15. ASSUME NEW c \in Calls, IndexDoc(c) PROVE TypeOK'
    BY <2>15, ComposedIsText DEF IndexDoc
  <2>16. ASSUME NEW c \in Calls, Enqueue(c) PROVE TypeOK'
    BY <2>16, ComposedIsText DEF Enqueue
  <2>17. ASSUME NEW c \in Calls, SkipCommit(c) PROVE TypeOK'
    BY <2>17, ComposedIsText DEF SkipCommit, Answers
  <2>18. ASSUME NEW c \in Calls, Commit(c) PROVE TypeOK'
    <3>1. queue' \in Seq(Calls)
      BY <2>18 DEF Commit
    <3>2. head' \in [Docs -> Text] /\ commits' \in [Calls -> SUBSET Text]
      <4>1. CASE Committed(c)
        <5>1. head' = [head EXCEPT ![target[c]] = disk[target[c]]]
          BY <4>1 DEF Committed
        <5>2. commits' = [commits EXCEPT ![c] = commits[c] \cup {disk[target[c]]}]
          BY <4>1 DEF Committed
        <5>3. disk[target[c]] \in Text
          BY ComposedIsText
        <5>4. head' \in [Docs -> Text]
          BY <5>1, <5>3
        <5>5. commits' \in [Calls -> SUBSET Text]
          BY <5>2, <5>3
        <5>6. QED
          BY <5>4, <5>5
      <4>2. CASE UNCHANGED <<head, commits>>
        BY <4>2
      <4>3. QED
        BY <2>18, <4>1, <4>2 DEF Commit
    <3>3. pc' \in [Calls -> Places] /\ answer' \in [Calls -> Answers]
      BY <2>18 DEF Commit, Answers
    <3>4. UNCHANGED <<kind, target, base, text, retried, disk, index, lease,
                      ledger, ghosts, crashes>>
      BY <2>18 DEF Commit
    <3>5. QED
      BY <3>1, <3>2, <3>3, <3>4
  <2>19. ASSUME NEW c \in Calls, LogWrite(c) PROVE TypeOK'
    BY <2>19, ComposedIsText DEF LogWrite, Entries
  <2>20. ASSUME NEW c \in Calls, Release(c) PROVE TypeOK'
    BY <2>20, ComposedIsText DEF Release, ReleaseLease, Answers
  <2>21. ASSUME NEW d \in Docs, Lapse(d) PROVE TypeOK'
    BY <2>21 DEF Lapse
  <2>22. CASE Crash
    BY <2>22 DEF Crash
  <2>23. CASE UNCHANGED vars
    BY <2>23 DEF vars
  <2>24. QED
    BY <2>1, <2>2, <2>3, <2>4, <2>5, <2>6, <2>7, <2>8, <2>9, <2>10, <2>11, <2>12, <2>13, <2>14, <2>15, <2>16, <2>17, <2>18, <2>19, <2>20, <2>21, <2>22, <2>23 DEF Next, Step
<1>3. QED
  BY <1>1, <1>2, PTL DEF Spec

------------------------------------------------------------------------------
(***************************************************************************)
(* The lease.  Whoever works on a document with a lease that has not       *)
(* lapsed is in the table, and whoever is in the table is at work or died  *)
(* at it.                                                                  *)
(***************************************************************************)
LeaseInv ==
  /\ \A c \in Calls : InWrite(c) => lease[target[c]] = c
  /\ \A c \in Calls, d \in Docs :
       lease[d] = c => target[c] = d /\ pc[c] \in Holding \cup {"dead"}

\* A step that leaves the lease table alone, and moves calls only between
\* places where they hold a lease or only between places where they do not.
LEMMA QuietStep ==
  ASSUME TypeOK, LeaseInv, NEW c \in Calls, NEW p,
         pc' = [pc EXCEPT ![c] = p],
         p \in Holding <=> pc[c] \in Holding, pc[c] # "dead",
         UNCHANGED <<target, lease, overran>>
  PROVE  LeaseInv'
BY DEF TypeOK, LeaseInv, InWrite

LEMMA LeaseStep == TypeOK /\ LeaseInv /\ [Next]_vars => LeaseInv'
<1> SUFFICES ASSUME TypeOK, LeaseInv, [Next]_vars
             PROVE  LeaseInv'
  OBVIOUS
<1> USE DEF Holding
<1>1. ASSUME NEW c \in Calls, Read(c) PROVE LeaseInv'
  BY <1>1, QuietStep DEF Read, Goto, ghosts
<1>2. ASSUME NEW c \in Calls, LoadUnchecked(c) PROVE LeaseInv'
  BY <1>2, QuietStep DEF LoadUnchecked, Compose, Goto, ghosts
<1>3. ASSUME NEW c \in Calls, LoadExplicit(c) PROVE LeaseInv'
  BY <1>3, QuietStep DEF LoadExplicit, Compose, Goto, ghosts
<1>4. ASSUME NEW c \in Calls, LoadDefaulted(c) PROVE LeaseInv'
  BY <1>4, QuietStep DEF LoadDefaulted, Compose, Goto, ghosts
<1>5. ASSUME NEW c \in Calls, Decline(c) PROVE LeaseInv'
  BY <1>5, QuietStep DEF Decline, Finish, Goto, ghosts
<1>6. ASSUME NEW c \in Calls, PatchStale(c) PROVE LeaseInv'
  BY <1>6, QuietStep DEF PatchStale, Finish, Goto, ghosts
<1>7. ASSUME NEW c \in Calls, Contend(c) PROVE LeaseInv'
  BY <1>7, QuietStep DEF Contend, Finish, Goto, ghosts
<1>8. ASSUME NEW c \in Calls, Acquire(c) PROVE LeaseInv'
  <2>1. /\ pc[c] = "loaded" /\ lease[target[c]] = Free
        /\ lease' = [lease EXCEPT ![target[c]] = c]
        /\ pc' = [pc EXCEPT ![c] = "leased"]
        /\ UNCHANGED <<target, overran>>
    BY <1>8 DEF Acquire, Goto, ghosts
  <2>2. ASSUME NEW e \in Calls, InWrite(e)' PROVE lease'[target'[e]] = e
    BY <2>1, <2>2, WritePathAssumption DEF TypeOK, LeaseInv, InWrite
  <2>3. ASSUME NEW e \in Calls, NEW d \in Docs, lease'[d] = e
        PROVE  target'[e] = d /\ pc'[e] \in Holding \cup {"dead"}
    BY <2>1, <2>3 DEF TypeOK, LeaseInv
  <2>4. QED
    BY <2>2, <2>3 DEF LeaseInv
<1>9. ASSUME NEW c \in Calls, Check(c) PROVE LeaseInv'
  BY <1>9, QuietStep DEF Check, Goto, ghosts
<1>10. ASSUME NEW c \in Calls, RejectStale(c) PROVE LeaseInv'
  BY <1>10, QuietStep DEF RejectStale, Abandon, Goto, ghosts
<1>11. ASSUME NEW c \in Calls, RejectLeak(c) PROVE LeaseInv'
  BY <1>11, QuietStep DEF RejectLeak, Abandon, Goto, ghosts
<1>12. ASSUME NEW c \in Calls, Truncate(c) PROVE LeaseInv'
  BY <1>12, QuietStep DEF Truncate, Goto
<1>13. ASSUME NEW c \in Calls, Fill(c) PROVE LeaseInv'
  BY <1>13, QuietStep DEF Fill, Goto, ghosts
<1>14. ASSUME NEW c \in Calls, WriteFails(c) PROVE LeaseInv'
  BY <1>14, QuietStep DEF WriteFails, Abandon, Goto
<1>15. ASSUME NEW c \in Calls, IndexDoc(c) PROVE LeaseInv'
  BY <1>15, QuietStep DEF IndexDoc, Goto, ghosts
<1>16. ASSUME NEW c \in Calls, Enqueue(c) PROVE LeaseInv'
  BY <1>16, QuietStep DEF Enqueue, Goto, ghosts
<1>17. ASSUME NEW c \in Calls, SkipCommit(c) PROVE LeaseInv'
  BY <1>17, QuietStep DEF SkipCommit, Goto, ghosts
<1>18. ASSUME NEW c \in Calls, Commit(c) PROVE LeaseInv'
  BY <1>18, QuietStep DEF Commit, Goto, ghosts
<1>19. ASSUME NEW c \in Calls, LogWrite(c) PROVE LeaseInv'
  BY <1>19, QuietStep DEF LogWrite, Goto, ghosts
<1>20. ASSUME NEW c \in Calls, Release(c) PROVE LeaseInv'
  <2>1. PICK p \in {"again", "done"} :
          /\ pc[c] = "releasing" /\ pc' = [pc EXCEPT ![c] = p]
          /\ UNCHANGED <<target, overran>>
    BY <1>20 DEF Release, Goto, ghosts
  <2>2. ReleaseLease(c)
    BY <1>20 DEF Release
  <2>3. ASSUME NEW e \in Calls, InWrite(e)' PROVE lease'[target'[e]] = e
    BY <2>1, <2>2, <2>3 DEF TypeOK, LeaseInv, InWrite, ReleaseLease
  <2>4. ASSUME NEW e \in Calls, NEW d \in Docs, lease'[d] = e
        PROVE  target'[e] = d /\ pc'[e] \in Holding \cup {"dead"}
    BY <2>1, <2>2, <2>4, WritePathAssumption DEF TypeOK, LeaseInv, ReleaseLease
  <2>5. QED
    BY <2>3, <2>4 DEF LeaseInv
<1>21. ASSUME NEW d \in Docs, Lapse(d) PROVE LeaseInv'
  BY <1>21, WritePathAssumption DEF Lapse, callVars, TypeOK, LeaseInv, InWrite
<1>22. CASE Crash
  BY <1>22 DEF Crash, Running, TypeOK, LeaseInv, InWrite
<1>23. CASE UNCHANGED vars
  BY <1>23 DEF vars, callVars, ghosts, LeaseInv, InWrite
<1>24. QED
  BY <1>1, <1>2, <1>3, <1>4, <1>5, <1>6, <1>7, <1>8, <1>9, <1>10, <1>11, <1>12, <1>13, <1>14, <1>15, <1>16, <1>17, <1>18, <1>19, <1>20, <1>21, <1>22, <1>23 DEF Next, Step

LEMMA LeaseInvariant == Spec => []LeaseInv
<1>1. Init => LeaseInv
  BY WritePathAssumption DEF Init, LeaseInv, InWrite, Holding
<1>2. QED
  BY <1>1, LeaseStep, TypeCorrect, PTL DEF Spec

\* The file lease: at most one live writer of a document, the one in the
\* table, and no answered call left in it.
THEOREM LeaseDisciplineHolds == Spec => []LeaseDiscipline
<1>1. TypeOK /\ LeaseInv => LeaseDiscipline
  BY DEF LeaseInv, LeaseDiscipline, Holding
<1>2. QED
  BY <1>1, LeaseInvariant, TypeCorrect, PTL

(***************************************************************************)
(* The strengthening of NoLostUpdate.                                      *)
(***************************************************************************)
\* Where a call is tells what it has done so far.
Protocol(c) ==
  /\ pc[c] \in {"idle", "armed", "loaded", "again", "leased", "checked"} => c \notin landed
  /\ answer[c] = "stale" => c \notin landed /\ pc[c] \in {"releasing", "done", "dead"}
  /\ pc[c] = "writing" => c \in landed \ torn
  /\ c \in torn => c \in landed /\ pc[c] \in {"releasing", "done", "dead"}
  /\ pc[c] \notin {"idle", "armed"} => c \in text[c]

\* A change that has not been written out is in no file, so nobody else can
\* have read it.
Unwritten(c) == c \notin landed \/ pc[c] = "writing" \/ c \in torn

Fresh(c) == Unwritten(c) =>
  /\ \A d \in Docs : c \notin disk[d]
  /\ \A e \in Calls : c \notin base[e] /\ (e # c => c \notin text[e])

\* A guarded call whose base is still what the file holds kept all of it.
Based(c) ==
  pc[c] \in {"loaded", "leased"} /\ kind[c] # "unchecked" /\ disk[target[c]] = base[c]
    => base[c] \subseteq text[c]

\* From its check on, a guarded call under its lease carries every change.
Guarding(c) ==
  pc[c] \in {"checked", "writing"} /\ kind[c] # "unchecked" /\ c \notin overran
    => \A e \in landed : target[e] = target[c] => e \in text[c] \/ Excused(e)

UpdateInv ==
  /\ \A c \in Calls : Protocol(c) /\ Fresh(c) /\ Based(c) /\ Guarding(c)
  /\ NoLostUpdate

\* Two calls that work on one document with live leases are the same call.
LEMMA OneWriter ==
  ASSUME TypeOK, LeaseInv, NEW c \in Calls, NEW e \in Calls,
         InWrite(c), InWrite(e), target[c] = target[e]
  PROVE  c = e
BY DEF LeaseInv

\* An excuse outlives every step that rewrites no landed call's history.
LEMMA ExcusedStays ==
  ASSUME NEW c \in Calls, Excused(c),
         landed \subseteq landed', torn \subseteq torn', overran \subseteq overran',
         target' = target,
         \A e \in landed : kind'[e] = kind[e] /\ text'[e] = text[e]
  PROVE  Excused(c)'
BY DEF Excused

\* A call that moves on without touching a file, from any place but the
\* middle of its write.
LEMMA MoveStep ==
  ASSUME TypeOK, UpdateInv, NEW c \in Calls, NEW p, NEW a,
         pc' = [pc EXCEPT ![c] = p], answer' = [answer EXCEPT ![c] = a],
         UNCHANGED <<kind, target, base, text, disk, landed, torn, overran>>,
         pc[c] \notin {"idle", "armed", "writing"},
         p \notin {"idle", "armed", "loaded", "checked", "writing"},
         p \in {"leased", "again"} => c \notin landed,
         p = "leased" => pc[c] = "loaded",
         a = "stale" => c \notin landed /\ p \in {"releasing", "done", "dead"},
         c \in torn => p \in {"releasing", "done", "dead"}
  PROVE  UpdateInv'
<1> USE DEF TypeOK
<1>1. ASSUME NEW e \in Calls PROVE Protocol(e)'
  BY <1>1 DEF UpdateInv, Protocol
<1>2. ASSUME NEW e \in Calls PROVE Fresh(e)'
  BY <1>2 DEF UpdateInv, Protocol, Fresh, Unwritten
<1>3. ASSUME NEW e \in Calls PROVE Based(e)'
  BY <1>3 DEF UpdateInv, Based
<1>4. ASSUME NEW e \in Calls PROVE Excused(e)' <=> Excused(e)
  BY DEF Excused
<1>5. ASSUME NEW e \in Calls PROVE Guarding(e)'
  BY <1>4, <1>5 DEF UpdateInv, Guarding
<1>6. ASSUME NEW e \in Calls PROVE Carried(e)' <=> Carried(e)
  BY DEF Carried
<1>7. NoLostUpdate'
  BY <1>4, <1>6 DEF UpdateInv, NoLostUpdate
<1>8. QED
  BY <1>1, <1>2, <1>3, <1>5, <1>7 DEF UpdateInv

\* A call that has not reached its document reads it, and composes a text
\* from what it read or does not yet.
LEMMA ReadStep ==
  ASSUME TypeOK, UpdateInv, NEW c \in Calls,
         pc[c] \in {"idle", "armed", "again"},
         \A e \in Calls \ {c} : pc'[e] = pc[e] /\ kind'[e] = kind[e]
                             /\ base'[e] = base[e] /\ text'[e] = text[e],
         base'[c] \in {base[c], disk[target[c]]},
         \/ pc'[c] = "loaded" /\ text'[c] = disk[target[c]] \cup {c}
         \/ pc'[c] = "armed" /\ text'[c] = text[c],
         UNCHANGED <<target, answer, disk, landed, torn, overran>>
  PROVE  UpdateInv'
<1> USE DEF TypeOK
<1>1. c \notin landed /\ c \notin torn
  BY DEF UpdateInv, Protocol
<1>2. ASSUME NEW e \in Calls PROVE Protocol(e)'
  BY <1>2 DEF UpdateInv, Protocol
<1>3. ASSUME NEW e \in Calls PROVE Fresh(e)'
  <2>1. Unwritten(e)' => Unwritten(e)
    BY DEF Unwritten
  <2>2. QED
    BY <2>1 DEF UpdateInv, Fresh
<1>4. ASSUME NEW e \in Calls PROVE Based(e)'
  BY <1>4 DEF UpdateInv, Based
<1>5. ASSUME NEW e \in Calls PROVE Excused(e)' <=> Excused(e)
  BY <1>1 DEF Excused
<1>6. ASSUME NEW e \in Calls PROVE Guarding(e)'
  BY <1>5, <1>6 DEF UpdateInv, Guarding
<1>7. ASSUME NEW e \in Calls PROVE Carried(e)' <=> Carried(e)
  BY DEF Carried
<1>8. NoLostUpdate'
  BY <1>5, <1>7 DEF UpdateInv, NoLostUpdate
<1>9. QED
  BY <1>2, <1>3, <1>4, <1>6, <1>8 DEF UpdateInv

\* The check under the lease: the file is what the call composed from, and
\* nobody else is half way through writing it.
LEMMA CheckStep ==
  ASSUME TypeOK, LeaseInv, UpdateInv, NEW c \in Calls, Check(c)
  PROVE  UpdateInv'
<1> USE DEF TypeOK
<1>1. /\ pc[c] = "leased" /\ BaseHolds(c) /\ pc' = [pc EXCEPT ![c] = "checked"]
      /\ UNCHANGED <<kind, target, base, text, answer, disk, landed, torn, overran>>
  BY DEF Check, Goto, docVars, ghosts
<1>2. ASSUME NEW e \in Calls PROVE Protocol(e)' /\ Based(e)' /\ Fresh(e)'
  <2>1. Protocol(e)'
    BY <1>1 DEF UpdateInv, Protocol
  <2>2. Based(e)'
    BY <1>1 DEF UpdateInv, Based
  <2>3. Fresh(e)'
    BY <1>1 DEF UpdateInv, Fresh, Unwritten, Protocol
  <2>4. QED
    BY <2>1, <2>2, <2>3
<1>3. ASSUME NEW e \in Calls PROVE Excused(e)' <=> Excused(e)
  BY <1>1 DEF Excused
<1>4. ASSUME NEW e \in Calls PROVE Carried(e)' <=> Carried(e)
  BY <1>1 DEF Carried
<1>5. ASSUME kind[c] # "unchecked", c \notin overran,
             NEW e \in landed, target[e] = target[c]
      PROVE  e \in text[c] \/ Excused(e)
  <2>1. e \in Calls /\ (Carried(e) \/ Excused(e))
    BY <1>5 DEF UpdateInv, NoLostUpdate
  <2>2. CASE e \in disk[target[e]]
    BY <1>1, <1>5, <2>2 DEF BaseHolds, UpdateInv, Based
  <2>3. ASSUME NEW w \in Calls, pc[w] = "writing", target[w] = target[e]
        PROVE  Excused(e)
    <3>1. w # c
      BY <1>1, <2>3
    <3>2. w \in landed
      BY <2>3 DEF UpdateInv, Protocol
    <3>3. CASE w \in overran
      BY <2>3, <3>2, <3>3 DEF Excused
    <3>4. CASE w \notin overran
      <4>1. InWrite(w) /\ InWrite(c)
        BY <1>1, <1>5, <2>3, <3>4 DEF InWrite, Holding
      <4>2. QED
        BY <1>5, <2>3, <3>1, <4>1, OneWriter
    <3>5. QED
      BY <3>3, <3>4
  <2>4. QED
    BY <2>1, <2>2, <2>3 DEF Carried
<1>6. ASSUME NEW e \in Calls PROVE Guarding(e)'
  <2>1. CASE e = c
    BY <1>1, <1>3, <1>5, <2>1 DEF Guarding
  <2>2. CASE e # c
    BY <1>1, <1>3, <2>2 DEF UpdateInv, Guarding
  <2>3. QED
    BY <2>1, <2>2
<1>7. NoLostUpdate'
  BY <1>1, <1>3, <1>4 DEF UpdateInv, NoLostUpdate
<1>8. QED
  BY <1>2, <1>6, <1>7 DEF UpdateInv

\* Opening the file loses what it held, but the text in hand carries it.
LEMMA TruncateStep ==
  ASSUME TypeOK, LeaseInv, UpdateInv, NEW c \in Calls, Truncate(c)
  PROVE  UpdateInv'
<1> USE DEF TypeOK
<1>1. /\ pc[c] = "checked" /\ pc' = [pc EXCEPT ![c] = "writing"]
      /\ disk' = [disk EXCEPT ![target[c]] = {}] /\ landed' = landed \cup {c}
      /\ UNCHANGED <<kind, target, base, text, answer, torn, overran>>
  BY DEF Truncate, Goto
<1>2. ASSUME NEW e \in Calls PROVE Protocol(e)' /\ Based(e)' /\ Fresh(e)'
  <2>1. Protocol(e)'
    BY <1>1 DEF UpdateInv, Protocol
  <2>2. Based(e)'
    BY <1>1 DEF UpdateInv, Based
  <2>3. Fresh(e)'
    BY <1>1 DEF UpdateInv, Fresh, Unwritten, Protocol
  <2>4. QED
    BY <2>1, <2>2, <2>3
<1>3. ASSUME NEW e \in Calls, Excused(e) PROVE Excused(e)'
  BY <1>1, <1>3, ExcusedStays
<1>4. c \in text[c]
  BY <1>1 DEF UpdateInv, Protocol
<1>5. ASSUME NEW e \in Calls PROVE Guarding(e)'
  <2>1. SUFFICES ASSUME pc'[e] \in {"checked", "writing"}, kind[e] # "unchecked",
                        e \notin overran, NEW w \in landed', target[w] = target[e]
                 PROVE  w \in text[e] \/ Excused(w)'
    BY <1>1 DEF Guarding
  <2>2. pc[e] \in {"checked", "writing"}
    BY <1>1, <2>1
  <2>3. CASE w \in landed
    BY <1>3, <2>1, <2>2, <2>3 DEF UpdateInv, Guarding
  <2>4. CASE w = c /\ c = e
    BY <1>4, <2>4
  <2>5. CASE w = c /\ c # e
    <3>1. c \in overran
      BY <1>1, <2>1, <2>2, <2>5, OneWriter DEF InWrite, Holding
    <3>2. QED
      BY <1>1, <2>1, <2>5, <3>1 DEF Excused
  <2>6. QED
    BY <1>1, <2>3, <2>4, <2>5
<1>6. ASSUME NEW e \in landed' PROVE Carried(e)' \/ Excused(e)'
  <2>1. CASE target[e] # target[c]
    <3>1. e \in landed /\ e \in Calls
      BY <1>1, <1>6, <2>1
    <3>2. Carried(e) => Carried(e)'
      BY <1>1, <2>1, <3>1 DEF Carried
    <3>3. QED
      BY <1>3, <3>1, <3>2 DEF UpdateInv, NoLostUpdate
  <2>2. CASE target[e] = target[c]
    <3>1. e \in text[c] => Carried(e)'
      BY <1>1, <2>2 DEF Carried
    <3>2. CASE e = c
      BY <1>4, <3>1, <3>2
    <3>3. CASE c \in overran \/ (kind[c] = "unchecked" /\ e \notin text[c])
      BY <1>1, <2>2, <3>3 DEF Excused
    <3>4. CASE e # c /\ c \notin overran /\ kind[c] # "unchecked"
      <4>1. e \in landed /\ e \in Calls
        BY <1>1, <1>6, <3>4
      <4>2. e \in text[c] \/ Excused(e)
        BY <1>1, <2>2, <3>4, <4>1 DEF UpdateInv, Guarding
      <4>3. QED
        BY <1>3, <3>1, <4>1, <4>2
    <3>5. QED
      BY <3>1, <3>2, <3>3, <3>4
  <2>3. QED
    BY <2>1, <2>2
<1>7. QED
  BY <1>2, <1>5, <1>6 DEF UpdateInv, NoLostUpdate

\* Filling the file puts back every change the opening took out of it.
LEMMA FillStep ==
  ASSUME TypeOK, LeaseInv, UpdateInv, NEW c \in Calls, Fill(c)
  PROVE  UpdateInv'
<1> USE DEF TypeOK
<1>1. /\ pc[c] = "writing" /\ pc' = [pc EXCEPT ![c] = "written"]
      /\ disk' = [disk EXCEPT ![target[c]] = text[c]]
      /\ UNCHANGED <<kind, target, base, text, answer, landed, torn, overran>>
  BY DEF Fill, Goto, ghosts
<1>2. c \in landed /\ c \notin torn /\ c \in text[c]
  BY <1>1 DEF UpdateInv, Protocol
<1>3. \A e \in Calls : c \notin base[e]
  BY <1>1 DEF UpdateInv, Fresh, Unwritten
<1>4. ASSUME NEW e \in Calls PROVE Protocol(e)' /\ Based(e)' /\ Fresh(e)'
  <2>1. Protocol(e)'
    BY <1>1 DEF UpdateInv, Protocol
  <2>2. Based(e)'
    BY <1>1, <1>2, <1>3 DEF UpdateInv, Based
  <2>3. Fresh(e)'
    BY <1>1, <1>2 DEF UpdateInv, Fresh, Unwritten
  <2>4. QED
    BY <2>1, <2>2, <2>3
<1>5. ASSUME NEW e \in Calls PROVE Excused(e)' <=> Excused(e)
  BY <1>1 DEF Excused
<1>6. ASSUME NEW e \in Calls PROVE Guarding(e)'
  BY <1>1, <1>5 DEF UpdateInv, Guarding
<1>7. ASSUME NEW e \in landed PROVE Carried(e)' \/ Excused(e)
  <2>1. CASE target[e] # target[c]
    <3>1. Carried(e) => Carried(e)'
      BY <1>1, <2>1 DEF Carried
    <3>2. QED
      BY <3>1 DEF UpdateInv, NoLostUpdate
  <2>2. CASE target[e] = target[c]
    <3>1. e \in text[c] => Carried(e)'
      BY <1>1, <2>2 DEF Carried
    <3>2. CASE c \in overran \/ kind[c] = "unchecked"
      BY <1>2, <2>2, <3>1, <3>2 DEF Excused
    <3>3. CASE c \notin overran /\ kind[c] # "unchecked"
      BY <1>1, <2>2, <3>1, <3>3 DEF UpdateInv, Guarding
    <3>4. QED
      BY <3>2, <3>3
  <2>3. QED
    BY <2>1, <2>2
<1>8. QED
  BY <1>1, <1>4, <1>5, <1>6, <1>7 DEF UpdateInv, NoLostUpdate

\* A write that dies half way: every change of its document is excused.
LEMMA TornStep ==
  ASSUME TypeOK, UpdateInv,
         NEW Dying \in SUBSET Calls, NEW p,
         p \in {"releasing", "dead"},
         pc' = [c \in Calls |-> IF c \in Dying THEN p ELSE pc[c]],
         \A c \in Dying : pc[c] \in Running,
         \A c \in Dying : p = "releasing" => pc[c] = "writing",
         torn' = torn \cup {c \in Dying : pc[c] = "writing"},
         \A c \in Calls \ Dying : answer'[c] = answer[c],
         \A c \in Dying : answer'[c] \in {answer[c], "failed"},
         UNCHANGED <<kind, target, base, text, disk, landed, overran>>
  PROVE  UpdateInv'
<1> USE DEF TypeOK
<1>1. \A c \in torn' \ torn : c \in landed /\ c \in Dying /\ pc[c] = "writing"
  BY DEF UpdateInv, Protocol
<1>2. ASSUME NEW e \in Calls PROVE Protocol(e)' /\ Based(e)' /\ Fresh(e)'
  <2>1. Protocol(e)'
    BY <1>1, <1>2 DEF UpdateInv, Protocol, Running, Holding
  <2>2. Based(e)'
    BY <1>2 DEF UpdateInv, Based
  <2>3. Fresh(e)'
    BY <1>1, <1>2 DEF UpdateInv, Fresh, Unwritten
  <2>4. QED
    BY <2>1, <2>2, <2>3
<1>3. ASSUME NEW e \in Calls, Excused(e) PROVE Excused(e)'
  BY <1>3, ExcusedStays
<1>4. ASSUME NEW e \in Calls PROVE Guarding(e)'
  BY <1>3, <1>4 DEF UpdateInv, Guarding
<1>5. ASSUME NEW e \in landed PROVE Carried(e)' \/ Excused(e)'
  <2>1. e \in Calls /\ (Carried(e) \/ Excused(e))
    BY DEF UpdateInv, NoLostUpdate
  <2>2. CASE e \in disk[target[e]]
    BY <2>2 DEF Carried
  <2>3. ASSUME NEW w \in Calls, pc[w] = "writing", target[w] = target[e], e \in text[w]
        PROVE  Carried(e)' \/ Excused(e)'
    <3>1. CASE w \in Dying
      <4>1. w \in landed /\ w \in torn'
        BY <2>3, <3>1 DEF UpdateInv, Protocol
      <4>2. QED
        BY <2>3, <4>1 DEF Excused
    <3>2. CASE w \notin Dying
      BY <2>3, <3>2 DEF Carried
    <3>3. QED
      BY <3>1, <3>2
  <2>4. QED
    BY <1>3, <2>1, <2>2, <2>3 DEF Carried
<1>6. QED
  BY <1>2, <1>4, <1>5 DEF UpdateInv, NoLostUpdate

\* A lease that lapses under its call excuses what that call goes on to do.
LEMMA LapseStep ==
  ASSUME TypeOK, UpdateInv, overran \subseteq overran',
         UNCHANGED <<pc, kind, target, base, text, answer, disk, landed, torn>>
  PROVE  UpdateInv'
<1>1. ASSUME NEW e \in Calls PROVE Protocol(e)' /\ Based(e)' /\ Fresh(e)'
  BY DEF UpdateInv, Protocol, Based, Fresh, Unwritten
<1>2. ASSUME NEW e \in Calls, Excused(e) PROVE Excused(e)'
  BY <1>2, ExcusedStays
<1>3. ASSUME NEW e \in Calls PROVE Guarding(e)'
  BY <1>2 DEF UpdateInv, Guarding, TypeOK
<1>4. ASSUME NEW e \in Calls PROVE Carried(e)' <=> Carried(e)
  BY DEF Carried
<1>5. NoLostUpdate'
  BY <1>2, <1>4 DEF UpdateInv, NoLostUpdate, TypeOK
<1>6. QED
  BY <1>1, <1>3, <1>5 DEF UpdateInv

LEMMA UpdateStep == TypeOK /\ LeaseInv /\ UpdateInv /\ [Next]_vars => UpdateInv'
<1> SUFFICES ASSUME TypeOK, LeaseInv, UpdateInv, [Next]_vars
             PROVE  UpdateInv'
  OBVIOUS
<1>1. ASSUME NEW c \in Calls, Read(c) PROVE UpdateInv'
  <2>1. /\ pc[c] = "idle" /\ pc' = [pc EXCEPT ![c] = "armed"]
        /\ kind' = [kind EXCEPT ![c] = "explicit"]
        /\ base' = [base EXCEPT ![c] = disk[target[c]]]
        /\ text' = [text EXCEPT ![c] = text[c]]
        /\ UNCHANGED <<target, answer, disk, landed, torn, overran>>
    BY <1>1 DEF Read, Goto, docVars, ghosts, TypeOK
  <2>2. QED
    BY <2>1, ReadStep DEF TypeOK
<1>2. ASSUME NEW c \in Calls, LoadUnchecked(c) PROVE UpdateInv'
  <2>1. /\ pc[c] = "idle" /\ pc' = [pc EXCEPT ![c] = "loaded"]
        /\ kind' = [kind EXCEPT ![c] = "unchecked"]
        /\ base' = [base EXCEPT ![c] = base[c]]
        /\ text' = [text EXCEPT ![c] = disk[target[c]] \cup {c}]
        /\ UNCHANGED <<target, answer, disk, landed, torn, overran>>
    BY <1>2 DEF LoadUnchecked, Compose, Goto, docVars, ghosts, TypeOK
  <2>2. QED
    BY <2>1, ReadStep DEF TypeOK
<1>3. ASSUME NEW c \in Calls, LoadExplicit(c) PROVE UpdateInv'
  <2>1. /\ pc[c] = "armed" /\ pc' = [pc EXCEPT ![c] = "loaded"]
        /\ kind' = [kind EXCEPT ![c] = kind[c]]
        /\ base' = [base EXCEPT ![c] = base[c]]
        /\ text' = [text EXCEPT ![c] = disk[target[c]] \cup {c}]
        /\ UNCHANGED <<target, answer, disk, landed, torn, overran>>
    BY <1>3 DEF LoadExplicit, Compose, Goto, docVars, ghosts, TypeOK
  <2>2. QED
    BY <2>1, ReadStep DEF TypeOK
<1>4. ASSUME NEW c \in Calls, LoadDefaulted(c) PROVE UpdateInv'
  <2>1. /\ pc[c] \in {"idle", "again"} /\ pc' = [pc EXCEPT ![c] = "loaded"]
        /\ kind' = [kind EXCEPT ![c] = "defaulted"]
        /\ base' = [base EXCEPT ![c] = disk[target[c]]]
        /\ text' = [text EXCEPT ![c] = disk[target[c]] \cup {c}]
        /\ UNCHANGED <<target, answer, disk, landed, torn, overran>>
    BY <1>4 DEF LoadDefaulted, Compose, Goto, docVars, ghosts
  <2>2. QED
    BY <2>1, ReadStep DEF TypeOK
<1>5. ASSUME NEW c \in Calls, Decline(c) PROVE UpdateInv'
  <2>1. PICK a \in {"refused", "shadow"} :
          /\ pc[c] = "loaded" /\ pc' = [pc EXCEPT ![c] = "done"]
          /\ answer' = [answer EXCEPT ![c] = a]
          /\ UNCHANGED <<kind, target, base, text, disk, landed, torn, overran>>
    BY <1>5 DEF Decline, Finish, Goto, docVars, ghosts
  <2>2. QED
    BY <2>1, MoveStep DEF UpdateInv, Protocol
<1>6. ASSUME NEW c \in Calls, PatchStale(c) PROVE UpdateInv'
  <2>1. /\ pc[c] = "loaded" /\ pc' = [pc EXCEPT ![c] = "done"]
        /\ answer' = [answer EXCEPT ![c] = "stale"]
        /\ UNCHANGED <<kind, target, base, text, disk, landed, torn, overran>>
    BY <1>6 DEF PatchStale, Finish, Goto, docVars, ghosts
  <2>2. QED
    BY <2>1, MoveStep DEF UpdateInv, Protocol
<1>7. ASSUME NEW c \in Calls, Contend(c) PROVE UpdateInv'
  <2>1. /\ pc[c] = "loaded" /\ pc' = [pc EXCEPT ![c] = "done"]
        /\ answer' = [answer EXCEPT ![c] = "locked"]
        /\ UNCHANGED <<kind, target, base, text, disk, landed, torn, overran>>
    BY <1>7 DEF Contend, Finish, Goto, docVars, ghosts
  <2>2. QED
    BY <2>1, MoveStep DEF UpdateInv, Protocol
<1>8. ASSUME NEW c \in Calls, Acquire(c) PROVE UpdateInv'
  <2>1. /\ pc[c] = "loaded" /\ pc' = [pc EXCEPT ![c] = "leased"]
        /\ answer' = [answer EXCEPT ![c] = answer[c]]
        /\ UNCHANGED <<kind, target, base, text, disk, landed, torn, overran>>
    BY <1>8 DEF Acquire, Goto, docVars, ghosts, TypeOK
  <2>2. QED
    BY <2>1, MoveStep DEF UpdateInv, Protocol
<1>9. ASSUME NEW c \in Calls, Check(c) PROVE UpdateInv'
  BY <1>9, CheckStep
<1>10. ASSUME NEW c \in Calls, RejectStale(c) PROVE UpdateInv'
  <2>1. /\ pc[c] = "leased" /\ pc' = [pc EXCEPT ![c] = "releasing"]
        /\ answer' = [answer EXCEPT ![c] = "stale"]
        /\ UNCHANGED <<kind, target, base, text, disk, landed, torn, overran>>
    BY <1>10 DEF RejectStale, Abandon, Goto, docVars, ghosts
  <2>2. QED
    BY <2>1, MoveStep DEF UpdateInv, Protocol
<1>11. ASSUME NEW c \in Calls, RejectLeak(c) PROVE UpdateInv'
  <2>1. /\ pc[c] = "checked" /\ pc' = [pc EXCEPT ![c] = "releasing"]
        /\ answer' = [answer EXCEPT ![c] = "refused"]
        /\ UNCHANGED <<kind, target, base, text, disk, landed, torn, overran>>
    BY <1>11 DEF RejectLeak, Abandon, Goto, docVars, ghosts
  <2>2. QED
    BY <2>1, MoveStep DEF UpdateInv, Protocol
<1>12. ASSUME NEW c \in Calls, Truncate(c) PROVE UpdateInv'
  BY <1>12, TruncateStep
<1>13. ASSUME NEW c \in Calls, Fill(c) PROVE UpdateInv'
  BY <1>13, FillStep
<1>14. ASSUME NEW c \in Calls, WriteFails(c) PROVE UpdateInv'
  <2>1. /\ pc' = [pc EXCEPT ![c] = "releasing"]
        /\ answer' = [answer EXCEPT ![c] = "failed"]
        /\ torn' = IF pc[c] = "writing" THEN torn \cup {c} ELSE torn
        /\ UNCHANGED <<kind, target, base, text, disk, landed, overran>>
    BY <1>14 DEF WriteFails, Abandon, Goto, docVars
  <2>2. CASE pc[c] = "checked"
    BY <2>1, <2>2, MoveStep DEF UpdateInv, Protocol
  <2>3. CASE pc[c] = "writing"
    <3>1. /\ pc' = [e \in Calls |-> IF e \in {c} THEN "releasing" ELSE pc[e]]
          /\ torn' = torn \cup {e \in {c} : pc[e] = "writing"}
          /\ \A e \in Calls \ {c} : answer'[e] = answer[e]
          /\ answer'[c] = "failed"
      BY <2>1, <2>3 DEF TypeOK
    <3>2. QED
      BY <2>1, <2>3, <3>1, TornStep DEF Running, Holding
  <2>4. QED
    BY <1>14, <2>2, <2>3 DEF WriteFails
<1>15. ASSUME NEW c \in Calls, IndexDoc(c) PROVE UpdateInv'
  <2>1. /\ pc[c] = "written" /\ pc' = [pc EXCEPT ![c] = "indexed"]
        /\ answer' = [answer EXCEPT ![c] = answer[c]]
        /\ UNCHANGED <<kind, target, base, text, disk, landed, torn, overran>>
    BY <1>15 DEF IndexDoc, Goto, docVars, ghosts, TypeOK
  <2>2. QED
    BY <2>1, MoveStep DEF UpdateInv, Protocol
<1>16. ASSUME NEW c \in Calls, Enqueue(c) PROVE UpdateInv'
  <2>1. /\ pc[c] = "indexed" /\ pc' = [pc EXCEPT ![c] = "queued"]
        /\ answer' = [answer EXCEPT ![c] = answer[c]]
        /\ UNCHANGED <<kind, target, base, text, disk, landed, torn, overran>>
    BY <1>16 DEF Enqueue, Goto, docVars, ghosts, TypeOK
  <2>2. QED
    BY <2>1, MoveStep DEF UpdateInv, Protocol
<1>17. ASSUME NEW c \in Calls, SkipCommit(c) PROVE UpdateInv'
  <2>1. /\ pc[c] = "indexed" /\ pc' = [pc EXCEPT ![c] = "logging"]
        /\ answer' = [answer EXCEPT ![c] = "ok"]
        /\ UNCHANGED <<kind, target, base, text, disk, landed, torn, overran>>
    BY <1>17 DEF SkipCommit, Goto, docVars, ghosts
  <2>2. QED
    BY <2>1, MoveStep DEF UpdateInv, Protocol
<1>18. ASSUME NEW c \in Calls, Commit(c) PROVE UpdateInv'
  <2>1. PICK a \in {"ok", "commit_failed"} :
          /\ pc[c] = "queued" /\ pc' = [pc EXCEPT ![c] = "logging"]
          /\ answer' = [answer EXCEPT ![c] = a]
          /\ UNCHANGED <<kind, target, base, text, disk, landed, torn, overran>>
    BY <1>18 DEF Commit, Goto, ghosts
  <2>2. QED
    BY <2>1, MoveStep DEF UpdateInv, Protocol
<1>19. ASSUME NEW c \in Calls, LogWrite(c) PROVE UpdateInv'
  <2>1. /\ pc[c] = "logging" /\ pc' = [pc EXCEPT ![c] = "releasing"]
        /\ answer' = [answer EXCEPT ![c] = answer[c]]
        /\ UNCHANGED <<kind, target, base, text, disk, landed, torn, overran>>
    BY <1>19 DEF LogWrite, Goto, docVars, ghosts, TypeOK
  <2>2. QED
    BY <2>1, MoveStep DEF UpdateInv, Protocol
<1>20. ASSUME NEW c \in Calls, Release(c) PROVE UpdateInv'
  <2>1. PICK p \in {"again", "done"}, a \in {"none", answer[c]} :
          /\ pc[c] = "releasing" /\ pc' = [pc EXCEPT ![c] = p]
          /\ answer' = [answer EXCEPT ![c] = a]
          /\ p = "again" => answer[c] = "stale" /\ a = "none"
          /\ UNCHANGED <<kind, target, base, text, disk, landed, torn, overran>>
    BY <1>20 DEF Release, MayRetry, Goto, docVars, ghosts, TypeOK
  <2>2. c \in torn => p = "done"
    BY <2>1 DEF UpdateInv, Protocol
  <2>3. QED
    BY <2>1, <2>2, MoveStep DEF UpdateInv, Protocol
<1>21. ASSUME NEW d \in Docs, Lapse(d) PROVE UpdateInv'
  BY <1>21, LapseStep DEF Lapse, callVars, docVars
<1>22. CASE Crash
  <2> DEFINE Dying == {c \in Calls : pc[c] \in Running}
  <2>1. /\ Dying \in SUBSET Calls
        /\ \A c \in Dying : pc[c] \in Running
        /\ pc' = [c \in Calls |-> IF c \in Dying THEN "dead" ELSE pc[c]]
        /\ torn' = torn \cup {c \in Dying : pc[c] = "writing"}
        /\ UNCHANGED <<kind, target, base, text, answer, disk, landed, overran>>
    BY <1>22 DEF Crash, Running, Holding, docVars
  <2> HIDE DEF Dying
  <2>2. QED
    BY <2>1, TornStep
<1>23. CASE UNCHANGED vars
  BY <1>23, LapseStep DEF vars, callVars, docVars, ghosts
<1>24. QED
  BY <1>1, <1>2, <1>3, <1>4, <1>5, <1>6, <1>7, <1>8, <1>9, <1>10, <1>11, <1>12, <1>13, <1>14, <1>15, <1>16, <1>17, <1>18, <1>19, <1>20, <1>21, <1>22, <1>23 DEF Next, Step

LEMMA UpdateInvariant == Spec => []UpdateInv
<1>1. Init => UpdateInv
  BY WritePathAssumption DEF Init, UpdateInv, Protocol, Fresh, Based, Guarding,
     NoLostUpdate, Unwritten
<1>2. QED
  BY <1>1, UpdateStep, TypeCorrect, LeaseInvariant, PTL DEF Spec

\* Lost updates: a change that has reached its document is dropped by no
\* guarded write, whatever the number of calls, documents and crashes.
THEOREM NoLostUpdateHolds == Spec => []NoLostUpdate
<1>1. UpdateInv => NoLostUpdate
  BY DEF UpdateInv
<1>2. QED
  BY <1>1, UpdateInvariant, PTL

------------------------------------------------------------------------------
(***************************************************************************)
(* The strengthening of AnswerTruthful: what a call has done to the file   *)
(* and to the ledger, and what it will answer, can be told from where it   *)
(* is.                                                                     *)
(***************************************************************************)
Unanswered == {"idle", "armed", "loaded", "again", "leased", "checked",
               "writing", "written", "indexed", "queued"}
Landing == {"written", "indexed", "queued", "logging"}

Outcome(c) ==
  /\ pc[c] \in Unanswered => answer[c] = "none"
  /\ pc[c] \in Landing => c \in landed \ torn
  /\ pc[c] = "logging" => answer[c] \in {"ok", "commit_failed"}
  /\ pc[c] \in {"releasing", "done"} => answer[c] # "none"
  /\ pc[c] \in {"releasing", "done"} /\ answer[c] \in {"ok", "commit_failed"}
       => c \in landed \ torn /\ "write" \in ledger[c]
  /\ answer[c] \in {"stale", "locked", "refused", "shadow"} => c \notin landed
  /\ "write" \in ledger[c] => /\ pc[c] \in {"releasing", "done", "dead"}
                              /\ answer[c] \in {"ok", "commit_failed"}

Traceless(c) ==
  c \notin landed => \A d \in Docs : c \notin disk[d] \cup index[d] \cup head[d]

AnswerInv == \A c \in Calls : Outcome(c) /\ Traceless(c)

\* The index and the commits are copied from the files, and an unlanded
\* change is in none.
LEMMA TracelessStep ==
  ASSUME TypeOK, UpdateInv, UpdateInv', AnswerInv, landed \subseteq landed',
         \A d \in Docs : index'[d] = index[d] \/ index'[d] = disk[d],
         \A d \in Docs : head'[d] = head[d] \/ head'[d] = disk[d]
  PROVE  \A c \in Calls : Traceless(c)'
<1> SUFFICES ASSUME NEW c \in Calls, c \notin landed', NEW d \in Docs
             PROVE  c \notin disk'[d] \cup index'[d] \cup head'[d]
  BY DEF Traceless
<1>1. c \notin disk'[d]
  BY DEF UpdateInv, Fresh, Unwritten
<1>2. c \notin disk[d]
  BY DEF UpdateInv, Fresh, Unwritten
<1>3. c \notin index[d] \cup head[d]
  BY DEF AnswerInv, Traceless
<1>4. QED
  BY <1>1, <1>2, <1>3

\* Calls other than the one that moves keep what they have done.
LEMMA OutcomeStep ==
  ASSUME TypeOK, AnswerInv, NEW c \in Calls, Outcome(c)',
         \A e \in Calls \ {c} : /\ pc'[e] = pc[e] /\ answer'[e] = answer[e]
                                /\ ledger'[e] = ledger[e]
                                /\ e \in landed' <=> e \in landed
                                /\ e \in torn' <=> e \in torn
  PROVE  \A e \in Calls : Outcome(e)'
BY DEF AnswerInv, Outcome

LEMMA AnswerStep ==
  TypeOK /\ UpdateInv /\ UpdateInv' /\ AnswerInv /\ [Next]_vars => AnswerInv'
<1> SUFFICES ASSUME TypeOK, UpdateInv, UpdateInv', AnswerInv, [Next]_vars
             PROVE  AnswerInv'
  OBVIOUS
<1> DEFINE Copied == /\ landed \subseteq landed'
                     /\ \A d \in Docs : index'[d] = index[d] \/ index'[d] = disk[d]
                     /\ \A d \in Docs : head'[d] = head[d] \/ head'[d] = disk[d]
           Others(c) == \A e \in Calls \ {c} :
                          /\ pc'[e] = pc[e] /\ answer'[e] = answer[e]
                          /\ ledger'[e] = ledger[e]
                          /\ e \in landed' <=> e \in landed
                          /\ e \in torn' <=> e \in torn
<1>0. ASSUME NEW c \in Calls, Copied, Others(c), Outcome(c)' PROVE AnswerInv'
  BY <1>0, TracelessStep, OutcomeStep DEF AnswerInv
<1> USE DEF Goto, Finish, Abandon, Append1, docVars, logVars, ghosts, Outcome,
            Unanswered, Landing
<1>1. ASSUME NEW c \in Calls, Read(c) PROVE AnswerInv'
  <2>1. Copied /\ Others(c)
    BY <1>1 DEF TypeOK, Read
  <2>2. Outcome(c)'
    BY <1>1 DEF TypeOK, AnswerInv, UpdateInv, Protocol, Read
  <2>3. QED
    BY <1>0, <2>1, <2>2
<1>2. ASSUME NEW c \in Calls, LoadUnchecked(c) PROVE AnswerInv'
  <2>1. Copied /\ Others(c)
    BY <1>2 DEF TypeOK, LoadUnchecked, Compose
  <2>2. Outcome(c)'
    BY <1>2 DEF TypeOK, AnswerInv, UpdateInv, Protocol, LoadUnchecked, Compose
  <2>3. QED
    BY <1>0, <2>1, <2>2
<1>3. ASSUME NEW c \in Calls, LoadExplicit(c) PROVE AnswerInv'
  <2>1. Copied /\ Others(c)
    BY <1>3 DEF TypeOK, LoadExplicit, Compose
  <2>2. Outcome(c)'
    BY <1>3 DEF TypeOK, AnswerInv, UpdateInv, Protocol, LoadExplicit, Compose
  <2>3. QED
    BY <1>0, <2>1, <2>2
<1>4. ASSUME NEW c \in Calls, LoadDefaulted(c) PROVE AnswerInv'
  <2>1. Copied /\ Others(c)
    BY <1>4 DEF TypeOK, LoadDefaulted, Compose
  <2>2. Outcome(c)'
    BY <1>4 DEF TypeOK, AnswerInv, UpdateInv, Protocol, LoadDefaulted, Compose
  <2>3. QED
    BY <1>0, <2>1, <2>2
<1>5. ASSUME NEW c \in Calls, Decline(c) PROVE AnswerInv'
  <2>1. Copied /\ Others(c)
    BY <1>5 DEF TypeOK, Decline
  <2>2. Outcome(c)'
    BY <1>5 DEF TypeOK, AnswerInv, UpdateInv, Protocol, Decline
  <2>3. QED
    BY <1>0, <2>1, <2>2
<1>6. ASSUME NEW c \in Calls, PatchStale(c) PROVE AnswerInv'
  <2>1. Copied /\ Others(c)
    BY <1>6 DEF TypeOK, PatchStale
  <2>2. Outcome(c)'
    BY <1>6 DEF TypeOK, AnswerInv, UpdateInv, Protocol, PatchStale
  <2>3. QED
    BY <1>0, <2>1, <2>2
<1>7. ASSUME NEW c \in Calls, Contend(c) PROVE AnswerInv'
  <2>1. Copied /\ Others(c)
    BY <1>7 DEF TypeOK, Contend
  <2>2. Outcome(c)'
    BY <1>7 DEF TypeOK, AnswerInv, UpdateInv, Protocol, Contend
  <2>3. QED
    BY <1>0, <2>1, <2>2
<1>8. ASSUME NEW c \in Calls, Acquire(c) PROVE AnswerInv'
  <2>1. Copied /\ Others(c)
    BY <1>8 DEF TypeOK, Acquire
  <2>2. Outcome(c)'
    BY <1>8 DEF TypeOK, AnswerInv, UpdateInv, Protocol, Acquire
  <2>3. QED
    BY <1>0, <2>1, <2>2
<1>9. ASSUME NEW c \in Calls, Check(c) PROVE AnswerInv'
  <2>1. Copied /\ Others(c)
    BY <1>9 DEF TypeOK, Check
  <2>2. Outcome(c)'
    BY <1>9 DEF TypeOK, AnswerInv, UpdateInv, Protocol, Check
  <2>3. QED
    BY <1>0, <2>1, <2>2
<1>10. ASSUME NEW c \in Calls, RejectStale(c) PROVE AnswerInv'
  <2>1. Copied /\ Others(c)
    BY <1>10 DEF TypeOK, RejectStale
  <2>2. Outcome(c)'
    BY <1>10 DEF TypeOK, AnswerInv, UpdateInv, Protocol, RejectStale
  <2>3. QED
    BY <1>0, <2>1, <2>2
<1>11. ASSUME NEW c \in Calls, RejectLeak(c) PROVE AnswerInv'
  <2>1. Copied /\ Others(c)
    BY <1>11 DEF TypeOK, RejectLeak
  <2>2. Outcome(c)'
    BY <1>11 DEF TypeOK, AnswerInv, UpdateInv, Protocol, RejectLeak
  <2>3. QED
    BY <1>0, <2>1, <2>2
<1>12. ASSUME NEW c \in Calls, Truncate(c) PROVE AnswerInv'
  <2>1. Copied /\ Others(c)
    BY <1>12 DEF TypeOK, Truncate
  <2>2. Outcome(c)'
    BY <1>12 DEF TypeOK, AnswerInv, UpdateInv, Protocol, Truncate
  <2>3. QED
    BY <1>0, <2>1, <2>2
<1>13. ASSUME NEW c \in Calls, Fill(c) PROVE AnswerInv'
  <2>1. Copied /\ Others(c)
    BY <1>13 DEF TypeOK, Fill
  <2>2. Outcome(c)'
    BY <1>13 DEF TypeOK, AnswerInv, UpdateInv, Protocol, Fill
  <2>3. QED
    BY <1>0, <2>1, <2>2
<1>14. ASSUME NEW c \in Calls, WriteFails(c) PROVE AnswerInv'
  <2>1. Copied /\ Others(c)
    BY <1>14 DEF TypeOK, WriteFails
  <2>2. Outcome(c)'
    BY <1>14 DEF TypeOK, AnswerInv, UpdateInv, Protocol, WriteFails
  <2>3. QED
    BY <1>0, <2>1, <2>2
<1>15. ASSUME NEW c \in Calls, IndexDoc(c) PROVE AnswerInv'
  <2>1. Copied /\ Others(c)
    BY <1>15 DEF TypeOK, IndexDoc
  <2>2. Outcome(c)'
    BY <1>15 DEF TypeOK, AnswerInv, UpdateInv, Protocol, IndexDoc
  <2>3. QED
    BY <1>0, <2>1, <2>2
<1>16. ASSUME NEW c \in Calls, Enqueue(c) PROVE AnswerInv'
  <2>1. Copied /\ Others(c)
    BY <1>16 DEF TypeOK, Enqueue
  <2>2. Outcome(c)'
    BY <1>16 DEF TypeOK, AnswerInv, UpdateInv, Protocol, Enqueue
  <2>3. QED
    BY <1>0, <2>1, <2>2
<1>17. ASSUME NEW c \in Calls, SkipCommit(c) PROVE AnswerInv'
  <2>1. Copied /\ Others(c)
    BY <1>17 DEF TypeOK, SkipCommit
  <2>2. Outcome(c)'
    BY <1>17 DEF TypeOK, AnswerInv, UpdateInv, Protocol, SkipCommit
  <2>3. QED
    BY <1>0, <2>1, <2>2
<1>18. ASSUME NEW c \in Calls, Commit(c) PROVE AnswerInv'
  <2>1. Copied /\ Others(c)
    BY <1>18 DEF TypeOK, Commit, Committed
  <2>2. Outcome(c)'
    BY <1>18 DEF TypeOK, AnswerInv, UpdateInv, Protocol, Commit, Committed
  <2>3. QED
    BY <1>0, <2>1, <2>2
<1>19. ASSUME NEW c \in Calls, LogWrite(c) PROVE AnswerInv'
  <2>1. Copied /\ Others(c)
    BY <1>19 DEF TypeOK, LogWrite
  <2>2. Outcome(c)'
    BY <1>19 DEF TypeOK, AnswerInv, UpdateInv, Protocol, LogWrite
  <2>3. QED
    BY <1>0, <2>1, <2>2
<1>20. ASSUME NEW c \in Calls, Release(c) PROVE AnswerInv'
  <2>1. Copied /\ Others(c)
    BY <1>20 DEF TypeOK, Release, MayRetry
  <2>2. Outcome(c)'
    BY <1>20 DEF TypeOK, AnswerInv, UpdateInv, Protocol, Release, MayRetry
  <2>3. QED
    BY <1>0, <2>1, <2>2
<1>21. ASSUME NEW d \in Docs, Lapse(d) PROVE AnswerInv'
  <2>1. Copied
    BY <1>21 DEF Lapse
  <2>2. \A c \in Calls : Outcome(c)'
    BY <1>21 DEF Lapse, callVars, AnswerInv
  <2>3. QED
    BY <2>1, <2>2, TracelessStep DEF AnswerInv
<1>22. CASE Crash
  <2>1. Copied
    BY <1>22 DEF Crash
  <2>2. \A c \in Calls : Outcome(c)'
    BY <1>22 DEF Crash, AnswerInv, TypeOK, Running, Holding
  <2>3. QED
    BY <2>1, <2>2, TracelessStep DEF AnswerInv
<1>23. CASE UNCHANGED vars
  <2>1. Copied
    BY <1>23 DEF vars
  <2>2. \A c \in Calls : Outcome(c)'
    BY <1>23 DEF vars, callVars, AnswerInv
  <2>3. QED
    BY <2>1, <2>2, TracelessStep DEF AnswerInv
<1>24. QED
  BY <1>1, <1>2, <1>3, <1>4, <1>5, <1>6, <1>7, <1>8, <1>9, <1>10, <1>11, <1>12, <1>13, <1>14, <1>15, <1>16, <1>17, <1>18, <1>19, <1>20, <1>21, <1>22, <1>23 DEF Next, Step

LEMMA AnswerInvariant == Spec => []AnswerInv
<1>1. Init => AnswerInv
  BY WritePathAssumption DEF Init, AnswerInv, Outcome, Traceless, Unanswered, Landing
<1>2. QED
  BY <1>1, AnswerStep, TypeCorrect, UpdateInvariant, PTL DEF Spec

\* The answer is the truth and the ledger agrees with it, through every
\* refusal, failed write, failed commit and crash.
THEOREM AnswerTruthfulHolds == Spec => []AnswerTruthful
<1>1. TypeOK /\ AnswerInv => AnswerTruthful
  <2> SUFFICES ASSUME TypeOK, AnswerInv, NEW c \in Calls, Settled(c)
               PROVE  CASE answer[c] \in {"ok", "commit_failed"} ->
                             c \in landed \ torn /\ "write" \in ledger[c]
                        [] answer[c] = "failed" -> "write" \notin ledger[c]
                        [] OTHER ->
                             /\ "write" \notin ledger[c]
                             /\ \A d \in Docs : c \notin disk[d] \cup index[d] \cup head[d]
    BY DEF AnswerTruthful
  <2>1. Outcome(c) /\ Traceless(c) /\ answer[c] \in Answers /\ pc[c] = "done"
    BY DEF AnswerInv, TypeOK, Settled
  <2>2. CASE answer[c] \in {"ok", "commit_failed"}
    BY <2>1, <2>2 DEF Outcome
  <2>3. CASE answer[c] = "failed"
    BY <2>1, <2>3 DEF Outcome
  <2>4. CASE answer[c] \in {"stale", "locked", "refused", "shadow"}
    <3>1. "write" \notin ledger[c] /\ c \notin landed
      BY <2>1, <2>4 DEF Outcome
    <3>2. QED
      BY <2>1, <2>4, <3>1 DEF Traceless
  <2>5. QED
    BY <2>1, <2>2, <2>3, <2>4 DEF Outcome, Answers
<1>2. QED
  BY <1>1, AnswerInvariant, TypeCorrect, PTL

------------------------------------------------------------------------------
(***************************************************************************)
(* The strengthening of CommitsExact, and what the refinement needs to     *)
(* know about a file.  As long as no lease on it has lapsed, a file holds  *)
(* nothing while it is being written, and from then until the commit just  *)
(* what its writer composed.                                               *)
(***************************************************************************)
Undisturbed(c) == \A e \in overran : target[e] # target[c]

\* A guarded call composed from the bytes its base names, unless those are
\* the empty file, which many an interrupted write leaves behind.
Exact(c) ==
  /\ pc[c] \in {"loaded", "leased"} /\ kind[c] # "unchecked"
     /\ disk[target[c]] = base[c] /\ base[c] # {}
       => text[c] = base[c] \cup {c}
  /\ pc[c] = "checked" /\ kind[c] # "unchecked" /\ Undisturbed(c)
     /\ disk[target[c]] # {}
       => text[c] = disk[target[c]] \cup {c}

InFile(c) ==
  /\ pc[c] = "writing" /\ Undisturbed(c) => disk[target[c]] = {}
  /\ pc[c] \in {"written", "indexed", "queued"} /\ Undisturbed(c)
       => disk[target[c]] = text[c]

InName(c) ==
  /\ commits[c] # {} => /\ pc[c] \in {"logging", "releasing", "done", "dead"}
                        /\ answer[c] \in {"ok", "commit_failed"}
  /\ Undisturbed(c) => commits[c] \subseteq {text[c]}

FileInv == \A c \in Calls : Exact(c) /\ InFile(c) /\ InName(c)

\* Nobody writes the file of a call at work on it, as long as it is
\* undisturbed.
LEMMA SoleWriter ==
  ASSUME TypeOK, LeaseInv, NEW c \in Calls, NEW e \in Calls, Undisturbed(c),
         target[c] = target[e], pc[c] \in Holding, pc[e] \in Holding
  PROVE  c = e
<1>1. c \notin overran /\ e \notin overran
  BY DEF Undisturbed
<1>2. QED
  BY <1>1, OneWriter DEF InWrite

\* A step that leaves the files alone and moves one call.
LEMMA FileKeptStep ==
  ASSUME TypeOK, FileInv, NEW c \in Calls,
         Exact(c)', InFile(c)', InName(c)',
         \A e \in Calls \ {c} : /\ pc'[e] = pc[e] /\ kind'[e] = kind[e]
                                /\ base'[e] = base[e] /\ text'[e] = text[e]
                                /\ answer'[e] = answer[e] /\ commits'[e] = commits[e],
         UNCHANGED <<target, disk, overran>>
  PROVE  FileInv'
<1> SUFFICES ASSUME NEW e \in Calls, e # c
             PROVE  Exact(e)' /\ InFile(e)' /\ InName(e)'
  BY DEF FileInv
<1>1. Undisturbed(e)' <=> Undisturbed(e)
  BY DEF Undisturbed
<1>2. Exact(e)'
  BY <1>1 DEF FileInv, Exact
<1>3. InFile(e)'
  BY <1>1 DEF FileInv, InFile
<1>4. InName(e)'
  BY <1>1 DEF FileInv, InName
<1>5. QED
  BY <1>2, <1>3, <1>4

\* A step of the writer of a file.  What it leaves there is empty or holds
\* its own change, and nobody took such a file for the base of a text.
LEMMA FileWrittenStep ==
  ASSUME TypeOK, LeaseInv, UpdateInv, FileInv, NEW c \in Calls,
         pc[c] \in {"checked", "writing"}, NEW p, NEW bytes,
         \/ p = "writing" /\ bytes = {}
         \/ pc[c] = "writing" /\ p = "written" /\ bytes = text[c],
         pc' = [pc EXCEPT ![c] = p],
         disk' = [disk EXCEPT ![target[c]] = bytes],
         UNCHANGED <<kind, target, base, text, answer, overran, commits>>
  PROVE  FileInv'
<1> USE DEF TypeOK
<1>1. ASSUME NEW e \in Calls PROVE Undisturbed(e)' <=> Undisturbed(e)
  BY DEF Undisturbed
<1>2. ASSUME NEW e \in Calls, e # c, target[e] = target[c], Undisturbed(e)
      PROVE  pc[e] \notin Holding
  BY <1>2, SoleWriter DEF Holding
<1>3. ASSUME NEW e \in Calls, target[e] = target[c] PROVE bytes # base[e] \/ base[e] = {}
  <2>1. CASE bytes = {}
    BY <2>1
  <2>2. CASE pc[c] = "writing" /\ bytes = text[c]
    <3>1. c \in text[c] /\ c \notin base[e]
      BY <2>2 DEF UpdateInv, Protocol, Fresh, Unwritten
    <3>2. QED
      BY <2>2, <3>1
  <2>3. QED
    BY <2>1, <2>2
<1>4. ASSUME NEW e \in Calls PROVE Exact(e)'
  <2>1. CASE target[e] # target[c]
    BY <1>1, <2>1 DEF FileInv, Exact
  <2>2. CASE target[e] = target[c]
    <3>1. disk'[target'[e]] = bytes /\ base'[e] = base[e] /\ kind'[e] = kind[e]
      BY <2>2
    <3>2. pc'[e] = "checked" => ~Undisturbed(e)'
      BY <1>1, <1>2, <2>2 DEF Holding
    <3>3. QED
      BY <1>3, <2>2, <3>1, <3>2 DEF Exact
  <2>3. QED
    BY <2>1, <2>2
<1>5. ASSUME NEW e \in Calls PROVE InFile(e)'
  <2>1. CASE target[e] # target[c]
    BY <1>1, <2>1 DEF FileInv, InFile
  <2>2. CASE e = c
    BY <2>2 DEF InFile
  <2>3. CASE target[e] = target[c] /\ e # c
    BY <1>1, <1>2, <2>3 DEF InFile, Holding
  <2>4. QED
    BY <2>1, <2>2, <2>3
<1>6. ASSUME NEW e \in Calls PROVE InName(e)'
  BY <1>1 DEF FileInv, InName
<1>7. QED
  BY <1>4, <1>5, <1>6 DEF FileInv

LEMMA FileStep ==
  TypeOK /\ LeaseInv /\ UpdateInv /\ AnswerInv /\ FileInv /\ [Next]_vars => FileInv'
<1> SUFFICES ASSUME TypeOK, LeaseInv, UpdateInv, AnswerInv, FileInv, [Next]_vars
             PROVE  FileInv'
  OBVIOUS
<1> USE DEF TypeOK
<1> DEFINE Quiet(c) ==
      /\ \A e \in Calls \ {c} : /\ pc'[e] = pc[e] /\ kind'[e] = kind[e]
                                /\ base'[e] = base[e] /\ text'[e] = text[e]
                                /\ answer'[e] = answer[e] /\ commits'[e] = commits[e]
      /\ UNCHANGED <<target, disk, overran>>
<1>0. ASSUME NEW c \in Calls, Quiet(c), Exact(c)', InFile(c)', InName(c)'
      PROVE  FileInv'
  BY <1>0, FileKeptStep
<1>1. ASSUME NEW c \in Calls, Read(c) PROVE FileInv'
  <2>1. Quiet(c)
    BY <1>1 DEF Read, Goto, docVars, logVars, ghosts
  <2>2. Undisturbed(c)' <=> Undisturbed(c)
    BY <2>1 DEF Undisturbed
  <2>3. Exact(c)'
    BY <1>1, <2>2 DEF FileInv, Exact, Read, Goto, docVars, logVars, ghosts
  <2>4. InFile(c)' /\ InName(c)'
    BY <1>1, <2>2 DEF FileInv, InFile, InName, Read, Goto, docVars, logVars, ghosts
  <2>5. QED
    BY <1>0, <2>1, <2>3, <2>4
<1>2. ASSUME NEW c \in Calls, LoadUnchecked(c) PROVE FileInv'
  <2>1. Quiet(c)
    BY <1>2 DEF LoadUnchecked, Compose, Goto, docVars, logVars, ghosts
  <2>2. Undisturbed(c)' <=> Undisturbed(c)
    BY <2>1 DEF Undisturbed
  <2>3. Exact(c)'
    BY <1>2, <2>2 DEF FileInv, Exact, LoadUnchecked, Compose, Goto, docVars, logVars, ghosts
  <2>4. InFile(c)' /\ InName(c)'
    BY <1>2, <2>2 DEF FileInv, InFile, InName, LoadUnchecked, Compose, Goto, docVars, logVars, ghosts
  <2>5. QED
    BY <1>0, <2>1, <2>3, <2>4
<1>3. ASSUME NEW c \in Calls, LoadExplicit(c) PROVE FileInv'
  <2>1. Quiet(c)
    BY <1>3 DEF LoadExplicit, Compose, Goto, docVars, logVars, ghosts
  <2>2. Undisturbed(c)' <=> Undisturbed(c)
    BY <2>1 DEF Undisturbed
  <2>3. Exact(c)'
    BY <1>3, <2>2 DEF FileInv, Exact, LoadExplicit, Compose, Goto, docVars, logVars, ghosts
  <2>4. InFile(c)' /\ InName(c)'
    BY <1>3, <2>2 DEF FileInv, InFile, InName, LoadExplicit, Compose, Goto, docVars, logVars, ghosts
  <2>5. QED
    BY <1>0, <2>1, <2>3, <2>4
<1>4. ASSUME NEW c \in Calls, LoadDefaulted(c) PROVE FileInv'
  <2>1. Quiet(c)
    BY <1>4 DEF LoadDefaulted, Compose, Goto, docVars, logVars, ghosts
  <2>2. Undisturbed(c)' <=> Undisturbed(c)
    BY <2>1 DEF Undisturbed
  <2>3. Exact(c)'
    BY <1>4, <2>2 DEF FileInv, Exact, LoadDefaulted, Compose, Goto, docVars, logVars, ghosts
  <2>4. InFile(c)' /\ InName(c)'
    BY <1>4, <2>2 DEF FileInv, InFile, InName, LoadDefaulted, Compose, Goto, docVars, logVars, ghosts
  <2>5. QED
    BY <1>0, <2>1, <2>3, <2>4
<1>5. ASSUME NEW c \in Calls, Decline(c) PROVE FileInv'
  <2>1. Quiet(c)
    BY <1>5 DEF Decline, Finish, Goto, docVars, logVars, ghosts
  <2>2. Undisturbed(c)' <=> Undisturbed(c)
    BY <2>1 DEF Undisturbed
  <2>3. Exact(c)'
    BY <1>5, <2>2 DEF FileInv, Exact, Decline, Finish, Goto, docVars, logVars, ghosts
  <2>4. InFile(c)' /\ InName(c)'
    BY <1>5, <2>2 DEF FileInv, InFile, InName, Decline, Finish, Goto, docVars, logVars, ghosts
  <2>5. QED
    BY <1>0, <2>1, <2>3, <2>4
<1>6. ASSUME NEW c \in Calls, PatchStale(c) PROVE FileInv'
  <2>1. Quiet(c)
    BY <1>6 DEF PatchStale, Finish, Goto, docVars, logVars, ghosts
  <2>2. Undisturbed(c)' <=> Undisturbed(c)
    BY <2>1 DEF Undisturbed
  <2>3. Exact(c)'
    BY <1>6, <2>2 DEF FileInv, Exact, PatchStale, Finish, Goto, docVars, logVars, ghosts
  <2>4. InFile(c)' /\ InName(c)'
    BY <1>6, <2>2 DEF FileInv, InFile, InName, PatchStale, Finish, Goto, docVars, logVars, ghosts
  <2>5. QED
    BY <1>0, <2>1, <2>3, <2>4
<1>7. ASSUME NEW c \in Calls, Contend(c) PROVE FileInv'
  <2>1. Quiet(c)
    BY <1>7 DEF Contend, Finish, Goto, docVars, logVars, ghosts
  <2>2. Undisturbed(c)' <=> Undisturbed(c)
    BY <2>1 DEF Undisturbed
  <2>3. Exact(c)'
    BY <1>7, <2>2 DEF FileInv, Exact, Contend, Finish, Goto, docVars, logVars, ghosts
  <2>4. InFile(c)' /\ InName(c)'
    BY <1>7, <2>2 DEF FileInv, InFile, InName, Contend, Finish, Goto, docVars, logVars, ghosts
  <2>5. QED
    BY <1>0, <2>1, <2>3, <2>4
<1>8. ASSUME NEW c \in Calls, Acquire(c) PROVE FileInv'
  <2>1. Quiet(c)
    BY <1>8 DEF Acquire, Goto, docVars, logVars, ghosts
  <2>2. Undisturbed(c)' <=> Undisturbed(c)
    BY <2>1 DEF Undisturbed
  <2>3. Exact(c)'
    BY <1>8, <2>2 DEF FileInv, Exact, Acquire, Goto, docVars, logVars, ghosts
  <2>4. InFile(c)' /\ InName(c)'
    BY <1>8, <2>2 DEF FileInv, InFile, InName, Acquire, Goto, docVars, logVars, ghosts
  <2>5. QED
    BY <1>0, <2>1, <2>3, <2>4
<1>9. ASSUME NEW c \in Calls, Check(c) PROVE FileInv'
  <2>1. Quiet(c)
    BY <1>9 DEF Check, BaseHolds, Goto, docVars, logVars, ghosts
  <2>2. Undisturbed(c)' <=> Undisturbed(c)
    BY <2>1 DEF Undisturbed
  <2>3. Exact(c)'
    BY <1>9, <2>2 DEF FileInv, Exact, Check, BaseHolds, Goto, docVars, logVars, ghosts
  <2>4. InFile(c)' /\ InName(c)'
    BY <1>9, <2>2 DEF FileInv, InFile, InName, Check, BaseHolds, Goto, docVars, logVars, ghosts
  <2>5. QED
    BY <1>0, <2>1, <2>3, <2>4
<1>10. ASSUME NEW c \in Calls, RejectStale(c) PROVE FileInv'
  <2>1. Quiet(c)
    BY <1>10 DEF RejectStale, Abandon, Goto, docVars, logVars, ghosts
  <2>2. Undisturbed(c)' <=> Undisturbed(c)
    BY <2>1 DEF Undisturbed
  <2>3. Exact(c)'
    BY <1>10, <2>2 DEF FileInv, Exact, RejectStale, Abandon, Goto, docVars, logVars, ghosts
  <2>4. InFile(c)' /\ InName(c)'
    BY <1>10, <2>2 DEF FileInv, InFile, InName, RejectStale, Abandon, Goto, docVars, logVars, ghosts
  <2>5. QED
    BY <1>0, <2>1, <2>3, <2>4
<1>11. ASSUME NEW c \in Calls, RejectLeak(c) PROVE FileInv'
  <2>1. Quiet(c)
    BY <1>11 DEF RejectLeak, Abandon, Goto, docVars, logVars, ghosts
  <2>2. Undisturbed(c)' <=> Undisturbed(c)
    BY <2>1 DEF Undisturbed
  <2>3. Exact(c)'
    BY <1>11, <2>2 DEF FileInv, Exact, RejectLeak, Abandon, Goto, docVars, logVars, ghosts
  <2>4. InFile(c)' /\ InName(c)'
    BY <1>11, <2>2 DEF FileInv, InFile, InName, RejectLeak, Abandon, Goto, docVars, logVars, ghosts
  <2>5. QED
    BY <1>0, <2>1, <2>3, <2>4
<1>12. ASSUME NEW c \in Calls, Truncate(c) PROVE FileInv'
  <2>1. /\ pc[c] = "checked" /\ pc' = [pc EXCEPT ![c] = "writing"]
        /\ disk' = [disk EXCEPT ![target[c]] = {}]
        /\ UNCHANGED <<kind, target, base, text, answer, overran, commits>>
    BY <1>12 DEF Truncate, Goto, logVars, ghosts
  <2>2. QED
    BY <2>1, FileWrittenStep
<1>13. ASSUME NEW c \in Calls, Fill(c) PROVE FileInv'
  <2>1. /\ pc[c] = "writing" /\ pc' = [pc EXCEPT ![c] = "written"]
        /\ disk' = [disk EXCEPT ![target[c]] = text[c]]
        /\ UNCHANGED <<kind, target, base, text, answer, overran, commits>>
    BY <1>13 DEF Fill, Goto, logVars, ghosts
  <2>2. QED
    BY <2>1, FileWrittenStep
<1>14. ASSUME NEW c \in Calls, WriteFails(c) PROVE FileInv'
  <2>1. Quiet(c)
    BY <1>14 DEF WriteFails, Abandon, Goto, docVars, logVars, ghosts
  <2>2. Undisturbed(c)' <=> Undisturbed(c)
    BY <2>1 DEF Undisturbed
  <2>3. Exact(c)'
    BY <1>14, <2>2 DEF FileInv, Exact, WriteFails, Abandon, Goto, docVars, logVars, ghosts
  <2>4. InFile(c)' /\ InName(c)'
    BY <1>14, <2>2 DEF FileInv, InFile, InName, WriteFails, Abandon, Goto, docVars, logVars, ghosts
  <2>5. QED
    BY <1>0, <2>1, <2>3, <2>4
<1>15. ASSUME NEW c \in Calls, IndexDoc(c) PROVE FileInv'
  <2>1. Quiet(c)
    BY <1>15 DEF IndexDoc, Goto, docVars, logVars, ghosts
  <2>2. Undisturbed(c)' <=> Undisturbed(c)
    BY <2>1 DEF Undisturbed
  <2>3. Exact(c)'
    BY <1>15, <2>2 DEF FileInv, Exact, IndexDoc, Goto, docVars, logVars, ghosts
  <2>4. InFile(c)' /\ InName(c)'
    BY <1>15, <2>2 DEF FileInv, InFile, InName, IndexDoc, Goto, docVars, logVars, ghosts
  <2>5. QED
    BY <1>0, <2>1, <2>3, <2>4
<1>16. ASSUME NEW c \in Calls, Enqueue(c) PROVE FileInv'
  <2>1. Quiet(c)
    BY <1>16 DEF Enqueue, Goto, docVars, logVars, ghosts
  <2>2. Undisturbed(c)' <=> Undisturbed(c)
    BY <2>1 DEF Undisturbed
  <2>3. Exact(c)'
    BY <1>16, <2>2 DEF FileInv, Exact, Enqueue, Goto, docVars, logVars, ghosts
  <2>4. InFile(c)' /\ InName(c)'
    BY <1>16, <2>2 DEF FileInv, InFile, InName, Enqueue, Goto, docVars, logVars, ghosts
  <2>5. QED
    BY <1>0, <2>1, <2>3, <2>4
<1>17. ASSUME NEW c \in Calls, SkipCommit(c) PROVE FileInv'
  <2>1. Quiet(c)
    BY <1>17 DEF SkipCommit, Goto, docVars, logVars, ghosts
  <2>2. Undisturbed(c)' <=> Undisturbed(c)
    BY <2>1 DEF Undisturbed
  <2>3. Exact(c)'
    BY <1>17, <2>2 DEF FileInv, Exact, SkipCommit, Goto, docVars, logVars, ghosts
  <2>4. InFile(c)' /\ InName(c)'
    BY <1>17, <2>2 DEF FileInv, InFile, InName, SkipCommit, Goto, docVars, logVars, ghosts
  <2>5. QED
    BY <1>0, <2>1, <2>3, <2>4
<1>18. ASSUME NEW c \in Calls, Commit(c) PROVE FileInv'
  <2>1. Quiet(c)
    BY <1>18 DEF Commit, Committed, Goto, docVars, logVars, ghosts
  <2>2. Undisturbed(c)' <=> Undisturbed(c)
    BY <2>1 DEF Undisturbed
  <2>3. Exact(c)'
    BY <1>18, <2>2 DEF FileInv, Exact, Commit, Committed, Goto, docVars, logVars, ghosts
  <2>4. InFile(c)' /\ InName(c)'
    BY <1>18, <2>2 DEF FileInv, InFile, InName, Commit, Committed, Goto, docVars, logVars, ghosts
  <2>5. QED
    BY <1>0, <2>1, <2>3, <2>4
<1>19. ASSUME NEW c \in Calls, LogWrite(c) PROVE FileInv'
  <2>1. Quiet(c)
    BY <1>19 DEF LogWrite, Goto, docVars, logVars, ghosts
  <2>2. Undisturbed(c)' <=> Undisturbed(c)
    BY <2>1 DEF Undisturbed
  <2>3. Exact(c)'
    BY <1>19, <2>2 DEF FileInv, Exact, LogWrite, Goto, docVars, logVars, ghosts
  <2>4. InFile(c)' /\ InName(c)'
    BY <1>19, <2>2 DEF FileInv, InFile, InName, LogWrite, Goto, docVars, logVars, ghosts
  <2>5. QED
    BY <1>0, <2>1, <2>3, <2>4
<1>20. ASSUME NEW c \in Calls, Release(c) PROVE FileInv'
  <2>1. Quiet(c)
    BY <1>20 DEF Release, MayRetry, Goto, docVars, logVars, ghosts
  <2>2. Undisturbed(c)' <=> Undisturbed(c)
    BY <2>1 DEF Undisturbed
  <2>3. Exact(c)'
    BY <1>20, <2>2 DEF FileInv, Exact, Release, MayRetry, Goto, docVars, logVars, ghosts
  <2>4. InFile(c)' /\ InName(c)'
    BY <1>20, <2>2 DEF FileInv, InFile, InName, Release, MayRetry, Goto, docVars, logVars, ghosts
  <2>5. QED
    BY <1>0, <2>1, <2>3, <2>4
<1>21. ASSUME NEW d \in Docs, Lapse(d) PROVE FileInv'
  <2>1. /\ overran \subseteq overran'
        /\ UNCHANGED <<pc, kind, target, base, text, answer, disk, commits>>
    BY <1>21 DEF Lapse, callVars, docVars, logVars
  <2>2. ASSUME NEW e \in Calls, Undisturbed(e)' PROVE Undisturbed(e)
    BY <2>1, <2>2 DEF Undisturbed
  <2>3. QED
    BY <2>1, <2>2 DEF FileInv, Exact, InFile, InName
<1>22. CASE Crash
  <2>1. /\ \A e \in Calls : pc'[e] = pc[e] \/ pc'[e] = "dead"
        /\ UNCHANGED <<kind, target, base, text, answer, disk, commits, overran>>
    BY <1>22 DEF Crash, docVars, logVars
  <2>2. ASSUME NEW e \in Calls PROVE Undisturbed(e)' <=> Undisturbed(e)
    BY <2>1 DEF Undisturbed
  <2>3. QED
    BY <2>1, <2>2 DEF FileInv, Exact, InFile, InName
<1>23. CASE UNCHANGED vars
  <2>1. UNCHANGED <<pc, kind, target, base, text, answer, disk, commits, overran>>
    BY <1>23 DEF vars, callVars, docVars, logVars, ghosts
  <2>2. ASSUME NEW e \in Calls PROVE Undisturbed(e)' <=> Undisturbed(e)
    BY <2>1 DEF Undisturbed
  <2>3. QED
    BY <2>1, <2>2 DEF FileInv, Exact, InFile, InName
<1>24. QED
  BY <1>1, <1>2, <1>3, <1>4, <1>5, <1>6, <1>7, <1>8, <1>9, <1>10, <1>11, <1>12, <1>13, <1>14, <1>15, <1>16, <1>17, <1>18, <1>19, <1>20, <1>21, <1>22, <1>23 DEF Next, Step

LEMMA FileInvariant == Spec => []FileInv
<1>1. Init => FileInv
  BY DEF Init, FileInv, Exact, InFile, InName
<1>2. QED
  BY <1>1, FileStep, TypeCorrect, LeaseInvariant, UpdateInvariant,
     AnswerInvariant, PTL DEF Spec

\* Attribution: what is committed in a call's name is the text that call
\* composed, unless a lease on its document lapsed.
THEOREM CommitsExactHolds == Spec => []CommitsExact
<1>1. TypeOK /\ FileInv => CommitsExact
  BY DEF TypeOK, FileInv, InName, Undisturbed, CommitsExact
<1>2. QED
  BY <1>1, FileInvariant, TypeCorrect, PTL

------------------------------------------------------------------------------
(***************************************************************************)
(* The refinement of AtomicStore, step by step.  Once a lease has lapsed   *)
(* under a working call the store promises nothing, so the steps to look   *)
(* at are those with overran' = {}.                                        *)
(***************************************************************************)
DocView == [d \in Docs |-> IF Filling(d) = {} THEN disk[d]
                           ELSE text[CHOOSE c \in Filling(d) : TRUE]]
Blind   == {c \in Calls : kind[c] = "unchecked"}
Told    == [c \in Calls |-> IF Settled(c) THEN answer[c] ELSE "none"]

StoreInv == TypeOK /\ LeaseInv /\ UpdateInv /\ AnswerInv /\ FileInv

\* A document is filled by one call at a time.
LEMMA OneFilling ==
  ASSUME TypeOK, LeaseInv, overran = {}, NEW c \in Calls, pc[c] = "writing"
  PROVE  Filling(target[c]) = {c}
BY DEF LeaseInv, InWrite, Holding, Filling

\* A document looks as it did when its file is, and the same call fills it.
LEMMA ViewSame ==
  ASSUME NEW d \in Docs, disk'[d] = disk[d], Filling(d)' = Filling(d),
         \A e \in Filling(d) : text'[e] = text[e]
  PROVE  DocView'[d] = DocView[d]
<1> SUFFICES (IF Filling(d)' = {} THEN disk'[d]
              ELSE text'[CHOOSE c \in Filling(d)' : TRUE])
             = (IF Filling(d) = {} THEN disk[d]
                ELSE text[CHOOSE c \in Filling(d) : TRUE])
  BY DEF DocView
<1>1. CASE Filling(d) = {}
  BY <1>1
<1>2. CASE Filling(d) # {}
  <2> DEFINE w == CHOOSE c \in Filling(d) : TRUE
  <2>1. w \in Filling(d)
    BY <1>2
  <2>2. text'[w] = text[w]
    BY <2>1
  <2>3. QED
    BY <1>2, <2>2
<1>3. QED
  BY <1>1, <1>2

LEMMA ViewIsFunction ==
  DocView = [d \in Docs |-> DocView[d]] /\ DocView' = [d \in Docs |-> DocView'[d]]
BY DEF DocView

\* A step of one call between places where it fills nothing.
LEMMA ViewMove ==
  ASSUME TypeOK, NEW c \in Calls, NEW p,
         pc[c] # "writing", p # "writing", pc' = [pc EXCEPT ![c] = p],
         \A e \in Calls \ {c} : text'[e] = text[e],
         UNCHANGED <<target, disk>>
  PROVE  DocView' = DocView
<1>1. ASSUME NEW d \in Docs PROVE Filling(d)' = Filling(d)
  BY DEF TypeOK, Filling
<1>2. ASSUME NEW d \in Docs, NEW e \in Filling(d) PROVE text'[e] = text[e]
  BY DEF Filling
<1>3. \A d \in Docs : DocView'[d] = DocView[d]
  BY <1>1, <1>2, ViewSame
<1>4. QED
  BY <1>3, ViewIsFunction

\* A step the store does not see.
LEMMA StutterStep ==
  ASSUME TypeOK, NEW c \in Calls, NEW p,
         pc[c] \notin {"writing", "done"}, p \notin {"writing", "done"},
         pc' = [pc EXCEPT ![c] = p],
         \A e \in Calls \ {c} : text'[e] = text[e] /\ answer'[e] = answer[e],
         UNCHANGED <<kind, target, disk, landed, overran>>
  PROVE  UNCHANGED Store!svars
<1>1. DocView' = DocView
  BY ViewMove
<1>2. Told' = Told
  BY DEF TypeOK, Told, Settled
<1>3. QED
  BY <1>1, <1>2 DEF Store!svars, DocView, Told

\* A call is answered.
LEMMA TellStep ==
  ASSUME TypeOK, NEW c \in Calls, NEW a,
         pc[c] \notin {"writing", "done"}, pc' = [pc EXCEPT ![c] = "done"],
         answer' = [answer EXCEPT ![c] = a],
         \/ a \in {"ok", "commit_failed"} /\ c \in landed
         \/ a \in {"stale", "locked", "refused", "shadow"} /\ c \notin landed
         \/ a = "failed",
         UNCHANGED <<kind, target, text, disk, landed, overran>>
  PROVE  Store!Tell(c)
<1>1. DocView' = DocView
  BY ViewMove
<1>2. Told[c] = "none" /\ Told' = [Told EXCEPT ![c] = a]
  BY DEF TypeOK, Told, Settled
<1>3. a \in Store!Applied \cup Store!Refused \cup {"failed"}
  BY DEF Store!Applied, Store!Refused
<1>4. (a \in Store!Applied => c \in landed) /\ (a \in Store!Refused => c \notin landed)
  BY DEF Store!Applied, Store!Refused
<1>5. QED
  BY <1>1, <1>2, <1>3, <1>4 DEF Store!Tell, DocView, Told

\* A call settles how it protects its write.
LEMMA ChooseStep ==
  ASSUME TypeOK, NEW c \in Calls, NEW p, NEW k,
         pc[c] \notin {"writing", "done"}, p \notin {"writing", "done"},
         pc' = [pc EXCEPT ![c] = p], kind' = [kind EXCEPT ![c] = k],
         c \notin landed,
         \A e \in Calls \ {c} : text'[e] = text[e],
         UNCHANGED <<target, answer, disk, landed, overran>>
  PROVE  Store!Choose(c)
<1>1. DocView' = DocView
  BY ViewMove
<1>2. Told' = Told
  BY DEF TypeOK, Told, Settled
<1>3. Blind' \in {Blind \cup {c}, Blind \ {c}}
  BY DEF TypeOK, Blind
<1>4. QED
  BY <1>1, <1>2, <1>3 DEF Store!Choose, DocView, Told, Blind

\* A write takes effect: the store's document takes the text of the call
\* that opens the file.
LEMMA TakeEffect ==
  ASSUME StoreInv, overran = {}, NEW c \in Calls, Truncate(c)
  PROVE  Store!Update(c, target[c]) \/ Store!Overwrite(c, target[c])
<1> USE DEF StoreInv, TypeOK
<1> DEFINE d == target[c]
<1>1. /\ pc[c] = "checked" /\ pc' = [pc EXCEPT ![c] = "writing"]
      /\ disk' = [disk EXCEPT ![d] = {}] /\ landed' = landed \cup {c}
      /\ UNCHANGED <<kind, target, text, answer, overran>>
  BY DEF Truncate, Goto
<1>2. c \notin landed /\ c \in text[c]
  BY <1>1 DEF UpdateInv, Protocol
<1>3. Filling(d) = {}
  BY <1>1, SoleWriter DEF Undisturbed, Holding, Filling
<1>4. DocView[d] = disk[d]
  BY <1>3 DEF DocView
<1>5. Filling(d)' = {c}
  BY <1>1, <1>3 DEF Filling
<1>6. DocView' = [DocView EXCEPT ![d] = text[c]]
  <2>1. \A f \in Docs \ {d} : Filling(f)' = Filling(f) /\ disk'[f] = disk[f]
    BY <1>1 DEF Filling
  <2>2. (CHOOSE e \in Filling(d)' : TRUE) = c
    BY <1>5
  <2>3. DocView'[d] = text[c]
    BY <1>1, <1>5, <2>2 DEF DocView
  <2>4. ASSUME NEW f \in Docs \ {d} PROVE DocView'[f] = DocView[f]
    BY <1>1, <2>1, ViewSame
  <2>5. QED
    BY <2>3, <2>4, ViewIsFunction
<1>7. text[c] \ {c} \in SUBSET (landed \cup {Seed})
  <2>1. \A e \in Calls \ {c} : e \notin landed => e \notin text[c]
    BY DEF UpdateInv, Fresh, Unwritten
  <2>2. text[c] \subseteq Calls \cup {Seed}
    BY DEF Text, Contribution
  <2>3. QED
    BY <2>1, <2>2
<1>8. PICK seen \in SUBSET (landed \cup {Seed}) : seen = text[c] \ {c}
  BY <1>7
<1>9. Told[c] = "none" /\ Told' = Told
  BY <1>1 DEF Told, Settled
<1>10. Store!Apply(c, d, seen \cup {c})
  <2>1. text[c] = seen \cup {c}
    BY <1>2, <1>8
  <2>2. QED
    BY <1>1, <1>2, <1>6, <1>9, <2>1 DEF Store!Apply, DocView, Told
<1>11. CASE kind[c] = "unchecked"
  <2>1. Store!Overwrite(c, d)
    BY <1>10, <1>11 DEF Store!Overwrite
  <2>2. QED
    BY <2>1
<1>12. CASE kind[c] # "unchecked"
  <2>1. disk[d] # {} => seen = disk[d]
    <3>1. Undisturbed(c)
      BY DEF Undisturbed
    <3>2. disk[d] # {} => text[c] = disk[d] \cup {c}
      BY <1>1, <1>12, <3>1 DEF FileInv, Exact
    <3>3. c \notin disk[d]
      BY <1>2 DEF UpdateInv, Fresh, Unwritten
    <3>4. QED
      BY <1>8, <3>2, <3>3
  <2>2. Store!Update(c, d)
    BY <1>4, <1>10, <1>12, <2>1 DEF Store!Update, DocView
  <2>3. QED
    BY <2>2
<1>13. QED
  BY <1>11, <1>12

\* Filling the file is no step of the store: it already has the text.
LEMMA FillUnseen ==
  ASSUME StoreInv, overran = {}, NEW c \in Calls, Fill(c)
  PROVE  UNCHANGED Store!svars
<1> USE DEF StoreInv, TypeOK
<1> DEFINE d == target[c]
<1>1. /\ pc[c] = "writing" /\ pc' = [pc EXCEPT ![c] = "written"]
      /\ disk' = [disk EXCEPT ![d] = text[c]]
      /\ UNCHANGED <<kind, target, text, answer, landed, overran>>
  BY DEF Fill, Goto, ghosts
<1>2. Filling(d) = {c}
  BY <1>1, OneFilling
<1>3. Filling(d)' = {}
  BY <1>1, <1>2 DEF Filling
<1>4. DocView' = DocView
  <2>1. \A f \in Docs \ {d} : Filling(f)' = Filling(f) /\ disk'[f] = disk[f]
    BY <1>1 DEF Filling
  <2>2. DocView[d] = text[c]
    BY <1>2 DEF DocView
  <2>3. DocView'[d] = text[c]
    BY <1>1, <1>3 DEF DocView
  <2>4. ASSUME NEW f \in Docs \ {d} PROVE DocView'[f] = DocView[f]
    BY <1>1, <2>1, ViewSame
  <2>5. QED
    BY <2>2, <2>3, <2>4, ViewIsFunction
<1>5. Told' = Told
  BY <1>1 DEF Told, Settled
<1>6. QED
  BY <1>1, <1>4, <1>5 DEF Store!svars, DocView, Told

\* Writes that end half way lose the text of their targets.
LEMMA LoseStep ==
  ASSUME StoreInv, overran = {}, NEW Dying \in SUBSET Calls, NEW p,
         p \in {"releasing", "dead"},
         pc' = [c \in Calls |-> IF c \in Dying THEN p ELSE pc[c]],
         \A c \in Dying : pc[c] # "done",
         \A c \in Calls \ Dying : answer'[c] = answer[c],
         UNCHANGED <<kind, target, text, disk, landed, overran>>
  PROVE  Store!Lose
<1> USE DEF StoreInv, TypeOK
<1> DEFINE lost == {d \in Docs : \E c \in Dying : pc[c] = "writing" /\ target[c] = d}
<1>1. ASSUME NEW d \in Docs
      PROVE  DocView'[d] = IF d \in lost THEN {} ELSE DocView[d]
  <2>1. CASE d \in lost
    <3>1. PICK c \in Dying : pc[c] = "writing" /\ target[c] = d
      BY <2>1
    <3>2. Filling(d) = {c}
      BY <3>1, OneFilling
    <3>3. Filling(d)' = {}
      BY <3>1, <3>2 DEF Filling
    <3>4. disk[d] = {}
      BY <3>1 DEF FileInv, InFile, Undisturbed
    <3>5. QED
      BY <2>1, <3>3, <3>4 DEF DocView
  <2>2. CASE d \notin lost
    <3>1. Filling(d)' = Filling(d)
      BY <2>2 DEF Filling
    <3>2. QED
      BY <2>2, <3>1, ViewSame
  <2>3. QED
    BY <2>1, <2>2
<1>2. DocView' = [d \in Docs |-> IF d \in lost THEN {} ELSE DocView[d]]
  BY <1>1, ViewIsFunction
<1>3. Told' = Told
  BY DEF Told, Settled
<1>4. lost \in SUBSET Docs
  OBVIOUS
<1> HIDE DEF lost
<1>5. QED
  BY <1>2, <1>3, <1>4 DEF Store!Lose, DocView, Told

\* Every step is one of the store's, or none.
LEMMA StoreStep == StoreInv /\ [Next]_vars => [Store!SNext]_Store!svars
<1> SUFFICES ASSUME StoreInv, [Next]_vars
             PROVE  Store!SNext \/ UNCHANGED Store!svars
  OBVIOUS
<1> DEFINE Seen == Store!SNext \/ UNCHANGED Store!svars
<1>0. CASE overran' # {}
  <2>1. Store!Overstay
    BY <1>0 DEF Store!Overstay
  <2>2. QED
    BY <2>1 DEF Store!SNext
<1> SUFFICES ASSUME overran' = {} PROVE Seen
  BY <1>0
<1>a. overran = {}
  BY DEF StoreInv, Next, Step, Read, LoadUnchecked, LoadExplicit, LoadDefaulted,
     Compose, Decline, PatchStale, Contend, Acquire, Check, RejectStale,
     RejectLeak, Truncate, Fill, WriteFails, IndexDoc, Enqueue, SkipCommit,
     Commit, LogWrite, Release, Lapse, Crash, vars, ghosts
<1>b. ASSUME NEW c \in Calls, Store!Tell(c) \/ Store!Choose(c) PROVE Seen
  BY <1>b DEF Store!SNext
<1> USE DEF Goto, docVars, ghosts
<1>1. ASSUME NEW c \in Calls, Read(c) PROVE Seen
  <2>1. c \notin landed
    BY <1>1 DEF StoreInv, UpdateInv, Protocol, Read
  <2>2. Store!Choose(c)
    BY <1>1, <2>1, ChooseStep DEF StoreInv, Read
  <2>3. QED
    BY <1>b, <2>2
<1>2. ASSUME NEW c \in Calls, LoadUnchecked(c) PROVE Seen
  <2>1. c \notin landed
    BY <1>2 DEF StoreInv, UpdateInv, Protocol, LoadUnchecked
  <2>2. Store!Choose(c)
    BY <1>2, <2>1, ChooseStep DEF StoreInv, LoadUnchecked, Compose, TypeOK
  <2>3. QED
    BY <1>b, <2>2
<1>3. ASSUME NEW c \in Calls, LoadExplicit(c) PROVE Seen
  BY <1>3, StutterStep DEF StoreInv, LoadExplicit, Compose, TypeOK
<1>4. ASSUME NEW c \in Calls, LoadDefaulted(c) PROVE Seen
  <2>1. c \notin landed
    BY <1>4 DEF StoreInv, UpdateInv, Protocol, LoadDefaulted
  <2>2. Store!Choose(c)
    BY <1>4, <2>1, ChooseStep DEF StoreInv, LoadDefaulted, Compose, TypeOK
  <2>3. QED
    BY <1>b, <2>2
<1>5. ASSUME NEW c \in Calls, Decline(c) PROVE Seen
  <2>1. PICK a \in {"refused", "shadow"} : Finish(c, a)
    BY <1>5 DEF Decline
  <2>2. c \notin landed
    BY <1>5 DEF StoreInv, UpdateInv, Protocol, Decline
  <2>3. Store!Tell(c)
    BY <1>5, <2>1, <2>2, TellStep DEF StoreInv, Decline, Finish
  <2>4. QED
    BY <1>b, <2>3
<1>6. ASSUME NEW c \in Calls, PatchStale(c) PROVE Seen
  <2>1. c \notin landed
    BY <1>6 DEF StoreInv, UpdateInv, Protocol, PatchStale
  <2>2. Store!Tell(c)
    BY <1>6, <2>1, TellStep DEF StoreInv, PatchStale, Finish
  <2>3. QED
    BY <1>b, <2>2
<1>7. ASSUME NEW c \in Calls, Contend(c) PROVE Seen
  <2>1. c \notin landed
    BY <1>7 DEF StoreInv, UpdateInv, Protocol, Contend
  <2>2. Store!Tell(c)
    BY <1>7, <2>1, TellStep DEF StoreInv, Contend, Finish
  <2>3. QED
    BY <1>b, <2>2
<1>8. ASSUME NEW c \in Calls, Acquire(c) PROVE Seen
  BY <1>8, StutterStep DEF StoreInv, Acquire
<1>9. ASSUME NEW c \in Calls, Check(c) PROVE Seen
  BY <1>9, StutterStep DEF StoreInv, Check
<1>10. ASSUME NEW c \in Calls, RejectStale(c) PROVE Seen
  BY <1>10, StutterStep DEF StoreInv, RejectStale, Abandon, TypeOK
<1>11. ASSUME NEW c \in Calls, RejectLeak(c) PROVE Seen
  BY <1>11, StutterStep DEF StoreInv, RejectLeak, Abandon, TypeOK
<1>12. ASSUME NEW c \in Calls, Truncate(c) PROVE Seen
  <2>1. target[c] \in Docs
    BY DEF StoreInv, TypeOK
  <2>2. QED
    BY <1>a, <1>12, <2>1, TakeEffect DEF Store!SNext
<1>13. ASSUME NEW c \in Calls, Fill(c) PROVE Seen
  BY <1>a, <1>13, FillUnseen
<1>14. ASSUME NEW c \in Calls, WriteFails(c) PROVE Seen
  <2>1. CASE pc[c] = "checked"
    BY <1>14, <2>1, StutterStep DEF StoreInv, WriteFails, Abandon, TypeOK
  <2>2. CASE pc[c] = "writing"
    <3>1. /\ pc' = [e \in Calls |-> IF e \in {c} THEN "releasing" ELSE pc[e]]
          /\ \A e \in Calls \ {c} : answer'[e] = answer[e]
          /\ UNCHANGED <<kind, target, text, disk, landed, overran>>
      BY <1>14 DEF StoreInv, WriteFails, Abandon, TypeOK
    <3>2. Store!Lose
      BY <1>a, <2>2, <3>1, LoseStep
    <3>3. QED
      BY <3>2 DEF Store!SNext
  <2>3. QED
    BY <1>14, <2>1, <2>2 DEF WriteFails
<1>15. ASSUME NEW c \in Calls, IndexDoc(c) PROVE Seen
  BY <1>15, StutterStep DEF StoreInv, IndexDoc
<1>16. ASSUME NEW c \in Calls, Enqueue(c) PROVE Seen
  BY <1>16, StutterStep DEF StoreInv, Enqueue
<1>17. ASSUME NEW c \in Calls, SkipCommit(c) PROVE Seen
  BY <1>17, StutterStep DEF StoreInv, SkipCommit, TypeOK
<1>18. ASSUME NEW c \in Calls, Commit(c) PROVE Seen
  <2>1. /\ pc[c] = "queued" /\ pc' = [pc EXCEPT ![c] = "logging"]
        /\ \A e \in Calls \ {c} : answer'[e] = answer[e]
        /\ UNCHANGED <<kind, target, text, disk, landed, overran>>
    BY <1>18 DEF StoreInv, TypeOK, Commit
  <2>2. QED
    BY <2>1, StutterStep DEF StoreInv
<1>19. ASSUME NEW c \in Calls, LogWrite(c) PROVE Seen
  BY <1>19, StutterStep DEF StoreInv, LogWrite
<1>20. ASSUME NEW c \in Calls, Release(c) PROVE Seen
  <2>1. CASE MayRetry(c)
    BY <1>20, <2>1, StutterStep DEF StoreInv, Release, TypeOK
  <2>2. CASE ~MayRetry(c)
    <3>1. /\ pc[c] = "releasing" /\ pc' = [pc EXCEPT ![c] = "done"]
          /\ answer' = [answer EXCEPT ![c] = answer[c]]
          /\ UNCHANGED <<kind, target, text, disk, landed, overran>>
      BY <1>20, <2>2 DEF StoreInv, TypeOK, Release
    <3>2. \/ answer[c] \in {"ok", "commit_failed"} /\ c \in landed
          \/ answer[c] \in {"stale", "locked", "refused", "shadow"} /\ c \notin landed
          \/ answer[c] = "failed"
      BY <3>1 DEF StoreInv, AnswerInv, Outcome, TypeOK, Answers
    <3>3. Store!Tell(c)
      BY <3>1, <3>2, TellStep DEF StoreInv
    <3>4. QED
      BY <1>b, <3>3
  <2>3. QED
    BY <2>1, <2>2
<1>21. ASSUME NEW d \in Docs, Lapse(d) PROVE Seen
  <2>1. UNCHANGED <<pc, kind, target, text, answer, disk, landed>>
    BY <1>21 DEF Lapse, callVars
  <2>2. DocView' = DocView /\ Told' = Told
    BY <2>1 DEF DocView, Told, Filling, Settled
  <2>3. QED
    BY <1>a, <2>1, <2>2 DEF Store!svars, DocView, Told
<1>22. CASE Crash
  <2> DEFINE Dying == {c \in Calls : pc[c] \in Running}
  <2>1. /\ Dying \in SUBSET Calls
        /\ \A c \in Dying : pc[c] # "done"
        /\ pc' = [c \in Calls |-> IF c \in Dying THEN "dead" ELSE pc[c]]
        /\ UNCHANGED <<kind, target, text, answer, disk, landed, overran>>
    BY <1>22 DEF Crash, Running, Holding
  <2> HIDE DEF Dying
  <2>2. Store!Lose
    BY <1>a, <2>1, LoseStep
  <2>3. QED
    BY <2>2 DEF Store!SNext
<1>23. CASE UNCHANGED vars
  <2>1. UNCHANGED <<pc, kind, target, text, answer, disk, landed, overran>>
    BY <1>23 DEF vars, callVars
  <2>2. DocView' = DocView /\ Told' = Told
    BY <2>1 DEF DocView, Told, Filling, Settled
  <2>3. QED
    BY <2>1, <2>2 DEF Store!svars, DocView, Told
<1>24. QED
  BY <1>1, <1>2, <1>3, <1>4, <1>5, <1>6, <1>7, <1>8, <1>9, <1>10, <1>11, <1>12, <1>13, <1>14, <1>15, <1>16, <1>17, <1>18, <1>19, <1>20, <1>21, <1>22, <1>23 DEF Next, Step

\* The write path implements the atomic store: each call takes effect in one
\* step or not at all, and is told which.
THEOREM ImplementsStoreHolds == Spec => ImplementsStore
<1>1. Init => Store!SInit
  BY DEF Init, Store!SInit, Filling, Settled
<1>2. QED
  BY <1>1, StoreStep, TypeCorrect, LeaseInvariant, UpdateInvariant,
     AnswerInvariant, FileInvariant, PTL
     DEF Spec, ImplementsStore, Store!SSpec, StoreInv
==============================================================================
