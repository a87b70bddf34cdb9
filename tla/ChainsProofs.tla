------------------------------ MODULE ChainsProofs ------------------------------
(***************************************************************************)
(* Chains of superseded_by pointers, from both ends.  What the tools of    *)
(* Supersede promise of the files they write, for any number of calls,     *)
(* documents and deaths of the process; and what the readers of Readers    *)
(* make of a vault, whatever it holds.  Both rest on the same walks.       *)
(***************************************************************************)
EXTENDS Supersede, Readers, FiniteSetTheorems, WellFoundedInduction, TLAPS


Snapshot == [Docs -> Content \cup {Absent, None}]

Typed ==
  /\ pc \in [Calls -> {"off"} \cup Running \cup Ended]
  /\ req \in [Calls -> Request \cup {Blank}]
  /\ todo \in [Calls -> Seq(Docs)]
  /\ snap \in [Calls -> Snapshot]
  /\ retried \in [Calls -> BOOLEAN]
  /\ disk \in [Docs -> Content \cup {Absent}]
  /\ lease \in [Docs -> Calls \cup {None}]
  /\ opened \in [Calls -> SUBSET Docs]

Distinct(s) == \A i, j \in DOMAIN s : s[i] = s[j] => i = j

Leased  == {"verify", "open", "fill", "commit"}
Writing == {"open", "fill"}
Early   == {"off", "read", "check", "lease", "verify", "refused"}
Late    == {"open", "fill", "commit", "done", "failed", "dead"}

SaneRequest(r) == r \in Request /\ (r.kind = "merge" => r.t \in Docs /\ r.a # r.b)

Sane(c) == pc[c] # "off" => SaneRequest(req[c])

\* A merge has its first source in hand when it composes.
Source(c) ==
  Kind(c) = "merge" /\ pc[c] \in {"read", "check", "lease"} \cup Leased =>
    snap[c][req[c].a] \in Content

\* What is still to be written: each file once, a merge's target before all else.
Plan(c) ==
  /\ pc[c] \in Writing \cup {"read"} => todo[c] # <<>>
  /\ pc[c] \in Writing =>
       /\ Distinct(todo[c]) /\ Range(todo[c]) \subseteq FileSet(c)
       /\ Kind(c) = "merge" /\ req[c].t \in Range(todo[c]) => Head(todo[c]) = req[c].t

\* The leases of what it writes are its own, and who is in the table is at work.
Owns(c) ==
  /\ pc[c] \in Leased => \A d \in FileSet(c) : lease[d] = c
  /\ \A d \in Docs : lease[d] = c => pc[c] \in Leased \cup {"dead"}

\* What a guarded call has yet to open is what it read.
Untouched(c) ==
  pc[c] \in Writing /\ Guarded(c) =>
    \A d \in Range(todo[c]) : (pc[c] = "fill" /\ d = Head(todo[c])) \/ disk[d] = snap[c][d]

\* What it has filled is still as it filled it.
Filled(c) ==
  /\ pc[c] = "fill" => Head(todo[c]) \in opened[c]
  /\ pc[c] \in Writing \cup {"commit"} =>
       \A d \in FileSet(c) :
         \/ pc[c] # "commit" /\ d \in Range(todo[c])
         \/ disk[d] # Absent /\ disk[d].rev = c /\ d \in opened[c]

\* A document that bears the name of c.
Signed(c) ==
  \A d \in Docs : disk[d] # Absent /\ disk[d].rev = c =>
    /\ pc[c] \in Late /\ opened[c] # {}
    /\ (Kind(c) = "merge" /\ d \in FileSet(c) /\ d # req[c].t) =>
         req[c].t \in opened[c] /\ (pc[c] \in Writing => req[c].t \notin Range(todo[c]))

Recorded(c) ==
  /\ pc[c] \in Early => opened[c] = {}
  /\ \A d \in Docs : <<c, d>> \in committed => pc[c] = "done"
  /\ pc[c] = "done" => \A d \in FileSet(c) : <<c, d>> \in committed
  /\ c \in overwrote => ~Guarded(c) /\ pc[c] \in Late

Local(c) ==
  /\ Sane(c) /\ Source(c) /\ Plan(c) /\ Owns(c) /\ Untouched(c)
  /\ Filled(c) /\ Signed(c) /\ Recorded(c)

IInv == Typed /\ overwrote \subseteq Calls /\ \A c \in Calls : Local(c)

(***************************************************************************)
(* Sequences.                                                              *)
(***************************************************************************)
\* One element is taken from the front of a sequence without repetitions.
LEMMA Front ==
  ASSUME NEW S, NEW s \in Seq(S), s # <<>>
  PROVE  /\ Head(s) \in Range(s) /\ Head(s) \in S
         /\ Tail(s) \in Seq(S)
         /\ Range(Tail(s)) \subseteq Range(s)
         /\ Range(s) \subseteq S
         /\ Distinct(s) => Distinct(Tail(s)) /\ Range(Tail(s)) = Range(s) \ {Head(s)}
<1>1. Len(s) \in Nat /\ Len(s) > 0 /\ 1 \in DOMAIN s /\ Head(s) = s[1]
  OBVIOUS
<1>2. /\ Tail(s) \in Seq(S) /\ Len(Tail(s)) = Len(s) - 1
      /\ \A i \in 1 .. Len(s) - 1 : Tail(s)[i] = s[i + 1]
      /\ DOMAIN Tail(s) = 1 .. Len(s) - 1 /\ DOMAIN s = 1 .. Len(s)
  OBVIOUS
<1>3. \A i \in DOMAIN Tail(s) : i + 1 \in DOMAIN s /\ i + 1 # 1
  BY <1>1, <1>2
<1>4. \A j \in DOMAIN s : j # 1 => j - 1 \in DOMAIN Tail(s) /\ Tail(s)[j - 1] = s[j]
  BY <1>1, <1>2
<1>5. Range(Tail(s)) \subseteq Range(s)
  BY <1>2, <1>3 DEF Range
<1>6. ASSUME Distinct(s)
      PROVE  Distinct(Tail(s)) /\ Range(Tail(s)) = Range(s) \ {Head(s)}
  <2>1. Distinct(Tail(s))
    BY <1>2, <1>3, <1>6 DEF Distinct
  <2>2. Head(s) \notin Range(Tail(s))
    BY <1>1, <1>2, <1>3, <1>6 DEF Distinct, Range
  <2>3. Range(s) \ {Head(s)} \subseteq Range(Tail(s))
    BY <1>1, <1>4 DEF Range
  <2> QED  BY <2>1, <2>2, <2>3, <1>5
<1>7. Range(s) \subseteq S
  BY <1>1, <1>2 DEF Range
<1> QED  BY <1>1, <1>2, <1>5, <1>6, <1>7 DEF Range

\* FilesOf: a merge writes its target and its sources, its target first; every
\* other tool the document it is asked about.
LEMMA FilesOfMerge ==
  ASSUME NEW r, SaneRequest(r), r.kind = "merge"
  PROVE  /\ FilesOf(r) \in Seq(Docs) /\ FilesOf(r) # <<>> /\ Distinct(FilesOf(r))
         /\ Range(FilesOf(r)) = {r.a, r.b, r.t} /\ Head(FilesOf(r)) = r.t
<1>1. r.a \in Docs /\ r.b \in Docs /\ r.t \in Docs /\ r.a # r.b
  BY DEF SaneRequest, Request
<1>2. CASE r.t = r.a
  <2>1. FilesOf(r) = <<r.t, r.b>>  BY <1>1, <1>2 DEF FilesOf
  <2> QED  BY <1>1, <1>2, <2>1 DEF Range, Distinct
<1>3. CASE r.t = r.b
  <2>1. FilesOf(r) = <<r.t, r.a>>  BY <1>1, <1>3 DEF FilesOf
  <2> QED  BY <1>1, <1>3, <2>1 DEF Range, Distinct
<1>4. CASE r.t # r.a /\ r.t # r.b
  <2>1. FilesOf(r) = <<r.t, r.a, r.b>>  BY <1>4 DEF FilesOf
  <2> QED  BY <1>1, <1>4, <2>1 DEF Range, Distinct
<1> QED  BY <1>2, <1>3, <1>4

LEMMA FilesOfOther ==
  ASSUME NEW r, SaneRequest(r), r.kind # "merge"
  PROVE  /\ FilesOf(r) \in Seq(Docs) /\ FilesOf(r) # <<>> /\ Distinct(FilesOf(r))
         /\ Range(FilesOf(r)) = {r.a}
<1>1. FilesOf(r) = <<r.a>> /\ r.a \in Docs
  BY DEF FilesOf, SaneRequest, Request
<1> QED  BY <1>1 DEF Range, Distinct

LEMMA FileFacts ==
  ASSUME NEW c \in Calls, SaneRequest(req[c])
  PROVE  /\ Files(c) \in Seq(Docs) /\ Files(c) # <<>> /\ Distinct(Files(c))
         /\ FileSet(c) \subseteq Docs /\ FileSet(c) = Range(Files(c))
         /\ Kind(c) = "merge" => Head(Files(c)) = req[c].t
         /\ Guarded(c) => FileSet(c) \subseteq Sworn(c)
<1>1. CASE Kind(c) = "merge"
  <2>1. /\ FilesOf(req[c]) \in Seq(Docs) /\ FilesOf(req[c]) # <<>> /\ Distinct(FilesOf(req[c]))
        /\ Range(FilesOf(req[c])) = {req[c].a, req[c].b, req[c].t}
        /\ Head(FilesOf(req[c])) = req[c].t
    BY <1>1, FilesOfMerge DEF Kind
  <2>2. req[c].a \in Docs /\ req[c].b \in Docs /\ req[c].t \in Docs
    BY <1>1 DEF Kind, SaneRequest, Request
  <2> QED  BY <1>1, <2>1, <2>2, Zenon DEF Files, FileSet, Sworn
<1>2. CASE Kind(c) # "merge"
  <2>1. /\ FilesOf(req[c]) \in Seq(Docs) /\ FilesOf(req[c]) # <<>> /\ Distinct(FilesOf(req[c]))
        /\ Range(FilesOf(req[c])) = {req[c].a} /\ req[c].a \in Docs
    BY <1>2, FilesOfOther DEF Kind, SaneRequest, Request
  <2> QED  BY <1>2, <2>1, Zenon DEF Files, FileSet, Sworn, Guarded
<1> QED  BY <1>1, <1>2

(***************************************************************************)
(* What a step of one call leaves of another's.                            *)
(***************************************************************************)
LEMMA Others ==
  ASSUME IInv, NEW c \in Calls, NEW x \in Calls, x # c,
         pc'[x] = pc[x], req'[x] = req[x], todo'[x] = todo[x], snap'[x] = snap[x],
         opened'[x] = opened[x],
         \A d \in Docs : \/ disk'[d] = disk[d]
                         \/ lease[d] = c /\ disk'[d] # Absent /\ disk'[d].rev # x,
         \A d \in Docs : lease'[d] = x <=> lease[d] = x,
         \A d \in Docs : <<x, d>> \in committed' <=> <<x, d>> \in committed,
         x \in overwrote' <=> x \in overwrote
  PROVE  Local(x)'
<1>0. Local(x) /\ FileSet(x)' = FileSet(x) /\ Kind(x)' = Kind(x) /\ (Guarded(x)' <=> Guarded(x))
  BY DEF IInv, FileSet, Files, Kind, Guarded
<1>1. Sane(x)'  BY <1>0 DEF Local, Sane
<1>2. Source(x)'  BY <1>0 DEF Local, Source
<1>3. Plan(x)'  BY <1>0 DEF Local, Plan
<1>4. FileSet(x) \subseteq Docs \/ pc[x] = "off"
  BY <1>0, FileFacts DEF Local, Sane
<1>5. Owns(x)'  BY <1>0, <1>4 DEF Local, Owns, Leased
<1>6. pc[x] \in Leased => \A d \in FileSet(x) : disk'[d] = disk[d]
  <2> SUFFICES ASSUME pc[x] \in Leased, NEW d \in FileSet(x)  PROVE disk'[d] = disk[d]
    OBVIOUS
  <2>1. lease[d] = x /\ d \in Docs
    BY <1>0, <1>4 DEF Local, Owns, Leased
  <2> QED  BY <2>1
<1>7. Untouched(x)'
  BY <1>0, <1>6 DEF Local, Untouched, Plan, Writing, Leased
<1>8. Filled(x)'
  BY <1>0, <1>6 DEF Local, Filled, Writing, Leased
<1>9. Signed(x)'
  BY <1>0 DEF Local, Signed
<1>10. Recorded(x)'
  BY <1>0, <1>4 DEF Local, Recorded, Early
<1> QED  BY <1>1, <1>2, <1>3, <1>5, <1>7, <1>8, <1>9, <1>10 DEF Local

LEMMA Apart == Early \cap Late = {} /\ Writing \subseteq Leased /\ Writing \subseteq Late
BY DEF Early, Late, Writing, Leased

LEMMA BlankSane == ASSUME NEW d \in Docs PROVE SaneRequest(Blank)
<1>1. (CHOOSE e \in Docs : TRUE) \in Docs  OBVIOUS
<1>2. {} \in SUBSET Docs /\ "write" \in Kinds  BY DEF Kinds
<1> QED  BY <1>1, <1>2 DEF SaneRequest, Request, Blank

LEMMA NothingIsSnapshot == Nothing \in Snapshot
BY DEF Nothing, Snapshot

\* A call is refused, from wherever it may be.
LEMMA RefuseKeeps ==
  ASSUME IInv, NEW c \in Calls, NEW e \in Docs,
         pc[c] \in {"off", "read", "check", "lease", "verify"}, Refuse(c),
         Release(c) \/ (lease' = lease /\ pc[c] # "verify"),
         UNCHANGED <<disk, opened, overwrote, committed>>
  PROVE  IInv'
<1>0. Typed /\ Local(c)  BY DEF IInv
<1>1. /\ pc' = [pc EXCEPT ![c] = "refused"] /\ todo' = [todo EXCEPT ![c] = <<>>]
      /\ snap' = [snap EXCEPT ![c] = Nothing] /\ retried' = [retried EXCEPT ![c] = FALSE]
      /\ req' = [req EXCEPT ![c] = Blank]
  BY DEF Refuse, End, Goto
<1>2. \A d \in Docs : lease'[d] # c /\ (lease'[d] = lease[d] \/ (lease'[d] = None /\ lease[d] = c))
  <2>1. CASE Release(c)
    <3>1. c # None  BY SupersedeAssumption
    <3> QED  BY <2>1, <3>1 DEF Release
  <2>2. CASE lease' = lease /\ pc[c] # "verify"
    <3>1. \A d \in Docs : lease[d] = c => pc[c] \in Leased \cup {"dead"}
      BY <1>0 DEF Local, Owns
    <3>2. pc[c] \notin Leased \cup {"dead"}  BY <2>2 DEF Leased
    <3> QED  BY <2>2, <3>1, <3>2
  <2> QED  BY <2>1, <2>2
<1>3. lease' \in [Docs -> Calls \cup {None}]
  BY <1>0 DEF Typed, Release
<1>4. Typed'
  BY <1>0, <1>1, <1>3, NothingIsSnapshot DEF Typed, Ended
<1>5. /\ pc'[c] = "refused" /\ req'[c] = Blank
  BY <1>0, <1>1 DEF Typed
<1>6. Local(c)'
  <2>1. Sane(c)'  BY <1>5, BlankSane DEF Sane
  <2>2. Source(c)' /\ Plan(c)' /\ Untouched(c)' /\ Filled(c)'
    BY <1>5 DEF Source, Plan, Untouched, Filled, Kind, Blank, Writing
  <2>3. Owns(c)'  BY <1>2, <1>5 DEF Owns, Leased
  <2>4. pc[c] \in Early /\ pc[c] \notin Late /\ pc[c] # "done"  BY DEF Early, Late
  <2>5. Signed(c)' /\ Recorded(c)'
    BY <1>0, <1>5, <2>4 DEF Local, Signed, Recorded, Early
  <2> QED  BY <2>1, <2>2, <2>3, <2>5 DEF Local
<1>7. ASSUME NEW x \in Calls, x # c  PROVE Local(x)'
  <2>1. /\ pc'[x] = pc[x] /\ req'[x] = req[x] /\ todo'[x] = todo[x] /\ snap'[x] = snap[x]
    BY <1>0, <1>1, <1>7 DEF Typed
  <2>2. None \notin Calls  BY SupersedeAssumption
  <2>3. \A d \in Docs : lease'[d] = x <=> lease[d] = x
    BY <1>2, <1>7, <2>2
  <2> QED  BY <1>7, <2>1, <2>3, Others
<1> QED  BY <1>4, <1>6, <1>7 DEF IInv

\* A call that has written nothing goes on, holding no lease.
LEMMA StaysIdle ==
  ASSUME IInv, NEW c \in Calls,
         pc[c] \in Early, pc'[c] \in {"read", "check", "lease"},
         SaneRequest(req'[c]), Source(c)', pc'[c] = "read" => todo'[c] # <<>>,
         \A d \in Docs : lease'[d] # c,
         UNCHANGED <<disk, opened, overwrote, committed>>
  PROVE  Local(c)'
<1>0. Local(c) /\ pc[c] \notin Late /\ pc[c] # "done"
  BY DEF IInv, Early, Late
<1>1. Sane(c)' /\ Plan(c)' /\ Untouched(c)' /\ Filled(c)'
  BY DEF Sane, Plan, Untouched, Filled, Writing
<1>2. Owns(c)'  BY DEF Owns, Leased
<1>3. Signed(c)' /\ Recorded(c)'
  BY <1>0 DEF Local, Signed, Recorded, Early
<1> QED  BY <1>1, <1>2, <1>3 DEF Local

\* Read: one more document, or a refusal.
LEMMA ReadKeeps ==
  ASSUME IInv, NEW c \in Calls, pc[c] \in {"off", "read"},
         NEW r, SaneRequest(r), NEW list \in Seq(Docs), list # <<>>,
         r.kind = "merge" => Head(list) = r.a \/ snap[c][r.a] \in Content,
         ReadNext(c, r, list), UNCHANGED <<files, outcome>>
  PROVE  IInv'
<1>0. /\ Typed /\ Local(c)
      /\ UNCHANGED <<disk, lease, opened, overwrote, committed>>
  BY DEF IInv, files, outcome
<1>1. r.a \in Docs /\ r \in Request  BY DEF SaneRequest, Request
<1>2. CASE Refuse(c)
  BY <1>0, <1>1, <1>2, RefuseKeeps
<1>3. ASSUME ~Refuse(c)  PROVE IInv'
  <2> DEFINE d == Head(list)
             place == IF Tail(list) # <<>> THEN "read" ELSE IF Checking(r) THEN "check" ELSE "lease"
  <2>1. /\ snap' = [snap EXCEPT ![c][d] = disk[d]] /\ todo' = [todo EXCEPT ![c] = Tail(list)]
        /\ pc' = [pc EXCEPT ![c] = place] /\ req' = [req EXCEPT ![c] = r] /\ retried' = retried
        /\ ~(disk[d] = Absent /\ ~(r.kind = "merge" /\ d \notin {r.a, r.b}))
    BY <1>3, Zenon DEF ReadNext, Goto
  <2>2. d \in Docs /\ Tail(list) \in Seq(Docs)  BY Front
  <2>3. disk[d] \in Content \cup {Absent}  BY <1>0, <2>2 DEF Typed
  <2>4. snap' \in [Calls -> Snapshot]
    <3>1. snap[c] \in Snapshot  BY <1>0 DEF Typed
    <3>2. [snap[c] EXCEPT ![d] = disk[d]] \in Snapshot
      BY <2>2, <2>3, <3>1 DEF Snapshot
    <3> QED  BY <1>0, <2>1, <3>2 DEF Typed
  <2>5. place \in Running  BY DEF Running
  <2>6. Typed'
    BY <1>0, <1>1, <2>1, <2>2, <2>4, <2>5 DEF Typed
  <2>7. pc'[c] = place /\ req'[c] = r /\ todo'[c] = Tail(list)
    BY <1>0, <2>1 DEF Typed
  <2>8. ASSUME r.kind = "merge"  PROVE snap'[c][r.a] \in Content
    <3>1. snap[c] \in [Docs -> Content \cup {Absent, None}]  BY <1>0 DEF Typed, Snapshot
    <3>2. snap'[c] = [snap[c] EXCEPT ![d] = disk[d]]  BY <1>0, <2>1 DEF Typed
    <3>3. CASE d = r.a
      BY <1>1, <2>1, <2>3, <2>8, <3>1, <3>2, <3>3
    <3>4. CASE d # r.a
      BY <1>1, <2>8, <3>1, <3>2, <3>4
    <3> QED  BY <3>3, <3>4
  <2>9. Source(c)'  BY <2>7, <2>8 DEF Source, Kind
  <2>10. \A e \in Docs : lease'[e] # c
    BY <1>0 DEF Local, Owns, Leased
  <2>11. Local(c)'
    BY <1>0, <2>7, <2>9, <2>10, StaysIdle DEF Early
  <2>12. ASSUME NEW x \in Calls, x # c  PROVE Local(x)'
    <3>1. pc'[x] = pc[x] /\ req'[x] = req[x] /\ todo'[x] = todo[x] /\ snap'[x] = snap[x]
      BY <1>0, <2>1, <2>12 DEF Typed
    <3> QED  BY <1>0, <2>12, <3>1, Others
  <2> QED  BY <1>0, <2>6, <2>11, <2>12 DEF IInv
<1> QED  BY <1>2, <1>3

(***************************************************************************)
(* The steps, one lemma each.                                              *)
(***************************************************************************)
LEMMA CallKeeps ==
  ASSUME IInv, NEW c \in Calls, Call(c)  PROVE IInv'
<1>0. Typed /\ Local(c) /\ pc[c] = "off"  BY DEF IInv, Call
<1>1. PICK r \in Request :
        /\ Proper(r)
        /\ IF r.kind = "write"
           THEN /\ Goto(c, "lease")
                /\ req' = [req EXCEPT ![c] = r]
                /\ UNCHANGED <<todo, snap, retried, unseen>>
           ELSE ReadNext(c, r, Reads(r))
  BY Zenon DEF Call
<1>2. UNCHANGED <<files, outcome>>  BY DEF Call
<1>3. r.a \in Docs /\ r.b \in Docs /\ r.t \in Docs \cup {None}  BY DEF Request
<1>4. SaneRequest(r)  BY <1>1, <1>3 DEF SaneRequest, Proper
<1>5. CASE r.kind = "write"
  <2>1. /\ pc' = [pc EXCEPT ![c] = "lease"] /\ req' = [req EXCEPT ![c] = r]
        /\ UNCHANGED <<todo, snap, retried, disk, lease, opened, overwrote, committed>>
    BY <1>1, <1>2, <1>5 DEF Goto, files, outcome
  <2>2. Typed'  BY <1>0, <2>1 DEF Typed, Running
  <2>3. pc'[c] = "lease" /\ req'[c] = r  BY <1>0, <2>1 DEF Typed
  <2>4. Source(c)'  BY <1>5, <2>3 DEF Source, Kind
  <2>5. \A d \in Docs : lease'[d] # c
    BY <1>0, <2>1 DEF Local, Owns, Leased
  <2>6. Local(c)'
    BY <1>0, <1>4, <2>1, <2>3, <2>4, <2>5, StaysIdle DEF Early
  <2>7. ASSUME NEW x \in Calls, x # c  PROVE Local(x)'
    <3>1. pc'[x] = pc[x] /\ req'[x] = req[x]  BY <1>0, <2>1, <2>7 DEF Typed
    <3> QED  BY <2>1, <2>7, <3>1, Others
  <2> QED  BY <2>1, <2>2, <2>6, <2>7 DEF IInv
<1>6. CASE r.kind # "write"
  <2>1. r.kind \in {"supersede", "merge"} => r.t \in Docs
    BY <1>1, <1>3 DEF Proper
  <2>2. Reads(r) \in Seq(Docs) /\ Reads(r) # <<>> /\ Head(Reads(r)) = r.a
    <3>1. CASE r.kind = "supersede"
      <4>1. Reads(r) = <<r.a, r.t>>  BY <3>1 DEF Reads
      <4> QED  BY <1>3, <2>1, <3>1, <4>1
    <3>2. CASE r.kind = "merge" /\ r.t \in {r.a, r.b}
      <4>1. Reads(r) = <<r.a, r.b>>  BY <3>2 DEF Reads
      <4> QED  BY <1>3, <4>1
    <3>3. CASE r.kind = "merge" /\ r.t \notin {r.a, r.b}
      <4>1. Reads(r) = <<r.a, r.b, r.t>>  BY <3>3 DEF Reads
      <4> QED  BY <1>3, <2>1, <3>3, <4>1
    <3>4. CASE r.kind \notin {"supersede", "merge"}
      <4>1. Reads(r) = <<r.a>>  BY <1>6, <3>4 DEF Reads
      <4> QED  BY <1>3, <4>1
    <3> QED  BY <3>1, <3>2, <3>3, <3>4
  <2> QED  BY <1>0, <1>1, <1>2, <1>4, <1>6, <2>2, ReadKeeps
<1> QED  BY <1>5, <1>6

LEMMA ReadStepKeeps ==
  ASSUME IInv, NEW c \in Calls, Read(c)  PROVE IInv'
<1>1. /\ Typed /\ Local(c) /\ pc[c] = "read"
      /\ ReadNext(c, req[c], todo[c]) /\ UNCHANGED <<files, outcome>>
  BY DEF IInv, Read
<1>2. SaneRequest(req[c]) /\ todo[c] # <<>> /\ todo[c] \in Seq(Docs)
  BY <1>1 DEF Local, Sane, Plan, Typed
<1>3. Kind(c) = "merge" => snap[c][req[c].a] \in Content
  BY <1>1 DEF Local, Source
<1> QED  BY <1>1, <1>2, <1>3, ReadKeeps DEF Kind

LEMMA CheckLoopKeeps ==
  ASSUME IInv, NEW c \in Calls, CheckLoop(c)  PROVE IInv'
<1>1. /\ Typed /\ Local(c) /\ pc[c] = "check"
      /\ UNCHANGED <<disk, lease, opened, overwrote, committed>>
  BY DEF IInv, CheckLoop, files, outcome
<1>2. SaneRequest(req[c])  BY <1>1 DEF Local, Sane
<1>3. CASE Refuse(c)
  BY <1>1, <1>2, <1>3, RefuseKeeps DEF SaneRequest, Request
<1>4. CASE ~Refuse(c)
  <2>1. pc' = [pc EXCEPT ![c] = "lease"] /\ UNCHANGED <<req, todo, snap, retried>>
    BY <1>4 DEF CheckLoop, Goto, locals
  <2>2. Typed'  BY <1>1, <2>1 DEF Typed, Running
  <2>3. pc'[c] = "lease"  BY <1>1, <2>1 DEF Typed
  <2>4. Source(c)'  BY <1>1, <2>1, <2>3 DEF Local, Source, Kind
  <2>5. \A d \in Docs : lease'[d] # c  BY <1>1 DEF Local, Owns, Leased
  <2>6. Local(c)'
    BY <1>1, <1>2, <2>1, <2>3, <2>4, <2>5, StaysIdle DEF Early
  <2>7. ASSUME NEW x \in Calls, x # c  PROVE Local(x)'
    <3>1. pc'[x] = pc[x]  BY <1>1, <2>1, <2>7 DEF Typed
    <3> QED  BY <1>1, <2>1, <2>7, <3>1, Others
  <2> QED  BY <1>1, <2>2, <2>6, <2>7 DEF IInv
<1> QED  BY <1>3, <1>4

LEMMA DeclineKeeps ==
  ASSUME IInv, NEW c \in Calls, Decline(c) \/ LeakRefused(c)  PROVE IInv'
<1>1. SaneRequest(req[c])
  BY DEF IInv, Decline, LeakRefused, Local, Sane
<1>2. req[c].a \in Docs  BY <1>1 DEF SaneRequest, Request
<1>3. CASE Decline(c)
  BY <1>2, <1>3, RefuseKeeps DEF Decline, files, outcome
<1>4. CASE LeakRefused(c)
  BY <1>2, <1>4, RefuseKeeps DEF LeakRefused, outcome
<1> QED  BY <1>3, <1>4

LEMMA TakeLeasesKeeps ==
  ASSUME IInv, NEW c \in Calls, TakeLeases(c)  PROVE IInv'
<1>1. /\ Typed /\ Local(c) /\ pc[c] = "lease"
      /\ UNCHANGED <<disk, opened, overwrote, committed>>
  BY DEF IInv, TakeLeases, outcome
<1>2. SaneRequest(req[c])  BY <1>1 DEF Local, Sane
<1>3. CASE Refuse(c) /\ lease' = lease
  BY <1>1, <1>2, <1>3, RefuseKeeps DEF SaneRequest, Request
<1>4. ASSUME ~(Refuse(c) /\ lease' = lease)  PROVE IInv'
  <2>1. /\ \A d \in FileSet(c) : lease[d] = None
        /\ lease' = [d \in Docs |-> IF d \in FileSet(c) THEN c ELSE lease[d]]
        /\ pc' = [pc EXCEPT ![c] = "verify"] /\ UNCHANGED <<req, todo, snap, retried>>
    BY <1>4, Zenon DEF TakeLeases, Goto, locals
  <2>2. lease' \in [Docs -> Calls \cup {None}]  BY <1>1, <2>1 DEF Typed
  <2>3. Typed'  BY <1>1, <2>1, <2>2 DEF Typed, Running
  <2>4. pc'[c] = "verify" /\ pc[c] \notin Late /\ pc[c] \in Early
    BY <1>1, <2>1 DEF Typed, Early, Late
  <2>5. FileSet(c) \subseteq Docs  BY <1>2, FileFacts
  <2>6. FileSet(c)' = FileSet(c)  BY <2>1 DEF FileSet, Files
  <2>7. Sane(c)' /\ Source(c)' /\ Plan(c)' /\ Untouched(c)' /\ Filled(c)'
    BY <1>1, <1>2, <2>1, <2>4 DEF Local, Sane, Source, Plan, Untouched, Filled, Kind, Writing
  <2>8. Owns(c)'
    BY <2>1, <2>4, <2>5, <2>6 DEF Owns, Leased
  <2>9. Signed(c)' /\ Recorded(c)'
    BY <1>1, <2>4 DEF Local, Signed, Recorded, Early
  <2>10. Local(c)'  BY <2>7, <2>8, <2>9 DEF Local
  <2>11. ASSUME NEW x \in Calls, x # c  PROVE Local(x)'
    <3>1. pc'[x] = pc[x]  BY <1>1, <2>1, <2>11 DEF Typed
    <3>2. None # x /\ None # c  BY SupersedeAssumption
    <3>3. \A d \in Docs : lease'[d] = x <=> lease[d] = x
      BY <2>1, <2>11, <3>2
    <3> QED  BY <1>1, <2>1, <2>11, <3>1, <3>3, Others
  <2> QED  BY <1>1, <2>3, <2>10, <2>11 DEF IInv
<1> QED  BY <1>3, <1>4

\* The leases of a call go, and with them nobody else's.
LEMMA ReleaseFacts ==
  ASSUME Typed, NEW c \in Calls, Release(c)
  PROVE  /\ lease' \in [Docs -> Calls \cup {None}]
         /\ \A d \in Docs : lease'[d] # c
         /\ \A x \in Calls \ {c}, d \in Docs : lease'[d] = x <=> lease[d] = x
<1>1. c # None /\ \A x \in Calls : x # None  BY SupersedeAssumption
<1>2. lease \in [Docs -> Calls \cup {None}]  BY DEF Typed
<1> QED  BY <1>1, <1>2 DEF Release

LEMMA VerifyKeeps ==
  ASSUME IInv, NEW c \in Calls, Verify(c)  PROVE IInv'
<1>1. /\ Typed /\ Local(c) /\ pc[c] = "verify"
      /\ UNCHANGED <<disk, opened, overwrote, committed>>
  BY DEF IInv, Verify, outcome
<1>2. SaneRequest(req[c])  BY <1>1 DEF Local, Sane
<1>3. /\ Files(c) \in Seq(Docs) /\ Files(c) # <<>> /\ Distinct(Files(c))
      /\ FileSet(c) \subseteq Docs /\ FileSet(c) = Range(Files(c))
      /\ Kind(c) = "merge" => Head(Files(c)) = req[c].t
      /\ Guarded(c) => FileSet(c) \subseteq Sworn(c)
  BY <1>2, FileFacts
<1>4. pc[c] \in Early /\ pc[c] \notin Late  BY <1>1 DEF Early, Late
<1>5. CASE Refuse(c) /\ Release(c)
  BY <1>1, <1>2, <1>5, RefuseKeeps DEF SaneRequest, Request
<1>6. CASE ~Stale(c) /\ StartWriting(c) /\ UNCHANGED <<req, snap, retried, lease, unseen>>
  <2>1. /\ todo' = [todo EXCEPT ![c] = Files(c)] /\ pc' = [pc EXCEPT ![c] = "open"]
        /\ UNCHANGED <<req, snap, retried, lease>>
    BY <1>6 DEF StartWriting, Goto
  <2>2. Typed'  BY <1>1, <1>3, <2>1 DEF Typed, Running
  <2>3. pc'[c] = "open" /\ todo'[c] = Files(c)  BY <1>1, <2>1 DEF Typed
  <2>4. /\ FileSet(c)' = FileSet(c) /\ Kind(c)' = Kind(c) /\ (Guarded(c)' <=> Guarded(c))
    BY <2>1 DEF FileSet, Files, Kind, Guarded
  <2>5. Sane(c)' /\ Source(c)'
    BY <1>1, <1>2, <2>1, <2>3, <2>4 DEF Sane, Local, Source, Leased
  <2>6. Plan(c)'  BY <1>3, <2>1, <2>3, <2>4 DEF Plan
  <2>7. Owns(c)'  BY <1>1, <2>1, <2>3, <2>4 DEF Local, Owns, Leased
  <2>8. Guarded(c) => \A d \in FileSet(c) : disk[d] = snap[c][d]
    BY <1>3, <1>6 DEF Stale
  <2>9. Untouched(c)'  BY <1>1, <1>3, <2>1, <2>3, <2>4, <2>8 DEF Untouched
  <2>10. Filled(c)'  BY <1>3, <2>3, <2>4 DEF Filled
  <2>11. Signed(c)' /\ Recorded(c)'
    BY <1>1, <1>4, <2>3 DEF Local, Signed, Recorded, Early, Late
  <2>12. Local(c)'  BY <2>5, <2>6, <2>7, <2>9, <2>10, <2>11 DEF Local
  <2>13. ASSUME NEW x \in Calls, x # c  PROVE Local(x)'
    <3>1. pc'[x] = pc[x] /\ todo'[x] = todo[x]  BY <1>1, <2>1, <2>13 DEF Typed
    <3> QED  BY <1>1, <2>1, <2>13, <3>1, Others
  <2> QED  BY <1>1, <2>2, <2>12, <2>13 DEF IInv
<1>7. CASE /\ Stale(c) /\ Kind(c) # "merge"
           /\ retried' = [retried EXCEPT ![c] = TRUE]
           /\ todo' = [todo EXCEPT ![c] = Reads(req[c])]
           /\ Goto(c, "read") /\ Release(c) /\ UNCHANGED <<req, snap, unseen>>
  <2>1. pc' = [pc EXCEPT ![c] = "read"]  BY <1>7 DEF Goto
  <2>2. req[c].a \in Docs  BY <1>2 DEF SaneRequest, Request
  <2>3. Guarded(c)  BY <1>7 DEF Stale, Sworn
  <2>4. Reads(req[c]) = <<req[c].a>>  BY <1>7, <2>3 DEF Guarded, Kind, Reads
  <2>5. Reads(req[c]) \in Seq(Docs) /\ Reads(req[c]) # <<>>  BY <2>2, <2>4
  <2>6. lease' \in [Docs -> Calls \cup {None}] /\ \A d \in Docs : lease'[d] # c
    BY <1>1, <1>7, ReleaseFacts
  <2>7. Typed'  BY <1>1, <1>7, <2>1, <2>5, <2>6 DEF Typed, Running
  <2>8. pc'[c] = "read" /\ todo'[c] = Reads(req[c])  BY <1>1, <1>7, <2>1 DEF Typed
  <2>9. Source(c)'  BY <1>7 DEF Source, Kind
  <2>10. Local(c)'
    BY <1>1, <1>2, <1>4, <1>7, <2>5, <2>6, <2>8, <2>9, StaysIdle
  <2>11. ASSUME NEW x \in Calls, x # c  PROVE Local(x)'
    <3>1. pc'[x] = pc[x] /\ todo'[x] = todo[x]  BY <1>1, <1>7, <2>1, <2>11 DEF Typed
    <3>2. \A d \in Docs : lease'[d] = x <=> lease[d] = x
      BY <1>1, <1>7, <2>11, ReleaseFacts
    <3> QED  BY <1>1, <1>7, <2>11, <3>1, <3>2, Others
  <2> QED  BY <1>1, <2>7, <2>10, <2>11 DEF IInv
<1> QED  BY <1>5, <1>6, <1>7, Zenon DEF Verify

LEMMA OpenKeeps ==
  ASSUME IInv, NEW c \in Calls, Open(c)  PROVE IInv'
<1> DEFINE d == Head(todo[c])
<1>1. /\ Typed /\ Local(c) /\ pc[c] = "open"
      /\ disk' = [disk EXCEPT ![d] = Torn]
      /\ opened' = [opened EXCEPT ![c] = @ \cup {d}]
      /\ overwrote' = IF disk[d] # snap[c][d] THEN overwrote \cup {c} ELSE overwrote
      /\ pc' = [pc EXCEPT ![c] = "fill"]
      /\ UNCHANGED <<req, todo, snap, retried, lease, committed>>
  BY DEF IInv, Open, Goto, locals
<1>2. SaneRequest(req[c])  BY <1>1 DEF Local, Sane
<1>3. todo[c] # <<>> /\ todo[c] \in Seq(Docs)
  BY <1>1 DEF Local, Plan, Writing, Typed
<1>4. d \in Range(todo[c]) /\ d \in Docs  BY <1>3, Front
<1>5. d \in FileSet(c) /\ lease[d] = c
  BY <1>1, <1>4 DEF Local, Plan, Owns, Writing, Leased
<1>6. Torn \in Content /\ Torn # Absent /\ Torn.rev = None
  BY SupersedeAssumption DEF Torn, Content, Statuses
<1>7. \A x \in Calls : x # None  BY SupersedeAssumption
<1>8. /\ disk' \in [Docs -> Content \cup {Absent}] /\ disk'[d] = Torn
      /\ \A e \in Docs : e # d => disk'[e] = disk[e]
  BY <1>1, <1>4, <1>6 DEF Typed
<1>9. Typed'
  BY <1>1, <1>4, <1>8 DEF Typed, Running
<1>10. pc'[c] = "fill" /\ opened'[c] = opened[c] \cup {d}
  BY <1>1 DEF Typed
<1>11. /\ FileSet(c)' = FileSet(c) /\ Kind(c)' = Kind(c) /\ (Guarded(c)' <=> Guarded(c))
  BY <1>1 DEF FileSet, Files, Kind, Guarded
<1>12. FileSet(c) \subseteq Docs /\ Range(todo[c]) \subseteq FileSet(c)
  BY <1>1, <1>2, FileFacts DEF Local, Plan, Writing
<1>13. Local(c)'
  <2>1. Sane(c)' /\ Source(c)' /\ Plan(c)' /\ Owns(c)'
    BY <1>1, <1>2, <1>10, <1>11 DEF Local, Sane, Source, Plan, Owns, Leased, Writing
  <2>2. Untouched(c)'
    BY <1>1, <1>8, <1>10, <1>11, <1>12 DEF Local, Untouched, Writing
  <2>3. Filled(c)'
    BY <1>1, <1>4, <1>8, <1>10, <1>11, <1>12 DEF Local, Filled, Writing
  <2>4. Signed(c)'
    BY <1>1, <1>6, <1>7, <1>8, <1>10, <1>11 DEF Local, Signed, Late, Writing
  <2>5. Guarded(c) => disk[d] = snap[c][d]
    BY <1>1, <1>4 DEF Local, Untouched, Writing
  <2>6. Recorded(c)'
    BY <1>1, <1>10, <1>11, <2>5 DEF Local, Recorded, Early, Late
  <2> QED  BY <2>1, <2>2, <2>3, <2>4, <2>6 DEF Local
<1>14. ASSUME NEW x \in Calls, x # c  PROVE Local(x)'
  <2>1. pc'[x] = pc[x] /\ opened'[x] = opened[x] /\ (x \in overwrote' <=> x \in overwrote)
    BY <1>1, <1>14 DEF Typed
  <2>2. \A e \in Docs : \/ disk'[e] = disk[e]
                        \/ lease[e] = c /\ disk'[e] # Absent /\ disk'[e].rev # x
    BY <1>5, <1>6, <1>7, <1>8
  <2> QED  BY <1>1, <1>14, <2>1, <2>2, Others
<1>15. overwrote' \subseteq Calls  BY <1>1 DEF IInv
<1> QED  BY <1>9, <1>13, <1>14, <1>15 DEF IInv

\* What a call writes is a document, and bears its name.
LEMMA ComposedIsContent ==
  ASSUME IInv, NEW c \in Calls, pc[c] = "fill", NEW d
  PROVE  Composed(c, d) \in Content /\ Composed(c, d).rev = c
<1>1. Local(c)  BY DEF IInv
<1>2. req[c].t \in Docs \cup {None}
  BY <1>1 DEF Local, Sane, SaneRequest, Request
<1>3. Kind(c) = "merge" => snap[c][req[c].a] \in Content
  BY <1>1 DEF Local, Source, Leased
<1>4. NewPointer(c, d) \in Docs \cup {None}
  BY <1>2, <1>3 DEF NewPointer, Content
<1>5. NewStatus(c, d) \in Statuses
  BY <1>3 DEF NewStatus, Content, Statuses
<1> QED  BY <1>4, <1>5 DEF Composed, Content

LEMMA FillKeeps ==
  ASSUME IInv, NEW c \in Calls, Fill(c)  PROVE IInv'
<1> DEFINE d == Head(todo[c])
           rest == Tail(todo[c])
           place == IF rest = <<>> THEN "commit" ELSE "open"
<1>1. /\ Typed /\ Local(c) /\ pc[c] = "fill"
      /\ disk' = [disk EXCEPT ![d] = Composed(c, d)]
      /\ todo' = [todo EXCEPT ![c] = rest]
      /\ pc' = [pc EXCEPT ![c] = place]
      /\ UNCHANGED <<req, snap, retried, lease, opened, overwrote, committed>>
  BY Zenon DEF IInv, Fill, Goto
<1>2. SaneRequest(req[c])  BY <1>1 DEF Local, Sane
<1>3. todo[c] # <<>> /\ todo[c] \in Seq(Docs) /\ Distinct(todo[c])
  BY <1>1 DEF Local, Plan, Writing, Typed
<1>4. /\ d \in Range(todo[c]) /\ d \in Docs /\ rest \in Seq(Docs) /\ Distinct(rest)
      /\ Range(rest) = Range(todo[c]) \ {d}
  BY <1>3, Front
<1>5. Range(<<>>) = {}  BY DEF Range
<1>6. place \in {"commit", "open"} /\ (place = "commit" <=> rest = <<>>)  OBVIOUS
<1>7. FileSet(c) \subseteq Docs /\ Range(todo[c]) \subseteq FileSet(c)
  BY <1>1, <1>2, FileFacts DEF Local, Plan, Writing
<1>8. lease[d] = c
  BY <1>1, <1>4, <1>7 DEF Local, Owns, Leased
<1>9. Composed(c, d) \in Content /\ Composed(c, d).rev = c /\ Composed(c, d) # Absent
  BY <1>1, ComposedIsContent, SupersedeAssumption
<1>10. /\ disk' \in [Docs -> Content \cup {Absent}] /\ disk'[d] = Composed(c, d)
       /\ \A e \in Docs : e # d => disk'[e] = disk[e]
  BY <1>1, <1>4, <1>9 DEF Typed
<1>11. Typed'
  <2>1. pc' \in [Calls -> {"off"} \cup Running \cup Ended]
    BY <1>1, <1>6 DEF Typed, Running
  <2> QED  BY <1>1, <1>4, <1>10, <2>1 DEF Typed
<1>12. pc'[c] = place /\ todo'[c] = rest  BY <1>1 DEF Typed
<1>13. /\ FileSet(c)' = FileSet(c) /\ Kind(c)' = Kind(c) /\ (Guarded(c)' <=> Guarded(c))
  BY <1>1 DEF FileSet, Files, Kind, Guarded
<1>14. d \in opened[c]  BY <1>1 DEF Local, Filled
<1>15. Kind(c) = "merge" => req[c].t \in FileSet(c)
  <2>1. Kind(c) = "merge" => Range(FilesOf(req[c])) = {req[c].a, req[c].b, req[c].t}
    BY <1>2, FilesOfMerge DEF Kind
  <2> QED  BY <2>1 DEF FileSet, Files
<1>16. Local(c)'
  <2>1. Sane(c)' /\ Source(c)'
    BY <1>1, <1>2, <1>6, <1>12, <1>13 DEF Local, Sane, Source, Leased
  <2>2. Plan(c)'
    BY <1>1, <1>4, <1>6, <1>7, <1>12, <1>13 DEF Local, Plan, Writing
  <2>3. Owns(c)'
    BY <1>1, <1>6, <1>12, <1>13 DEF Local, Owns, Leased
  <2>4. Untouched(c)'
    BY <1>1, <1>4, <1>6, <1>7, <1>10, <1>12, <1>13 DEF Local, Untouched, Writing
  <2>5. Filled(c)'
    <3> SUFFICES ASSUME NEW e \in FileSet(c)
                 PROVE  \/ pc'[c] # "commit" /\ e \in Range(todo'[c])
                        \/ disk'[e] # Absent /\ disk'[e].rev = c /\ e \in opened'[c]
      BY <1>6, <1>12, <1>13 DEF Filled
    <3>1. CASE e = d
      BY <1>1, <1>9, <1>10, <1>14, <3>1
    <3>2. CASE e # d /\ e \in Range(todo[c])
      BY <1>4, <1>5, <1>6, <1>12, <3>2
    <3>3. CASE e \notin Range(todo[c])
      BY <1>1, <1>4, <1>7, <1>10, <3>3 DEF Local, Filled, Writing
    <3> QED  BY <3>1, <3>2, <3>3
  <2>6. Kind(c) = "merge" /\ d # req[c].t => req[c].t \in opened[c] /\ req[c].t \notin Range(rest)
    <3>1. Kind(c) = "merge" /\ d # req[c].t => req[c].t \notin Range(todo[c])
      BY <1>1 DEF Local, Plan, Writing
    <3> QED  BY <1>1, <1>4, <1>15, <3>1 DEF Local, Filled, Writing
  <2>7. Signed(c)'
    <3> SUFFICES ASSUME NEW e \in Docs, disk'[e] # Absent, disk'[e].rev = c
                 PROVE  /\ pc'[c] \in Late /\ opened'[c] # {}
                        /\ (Kind(c) = "merge" /\ e \in FileSet(c) /\ e # req[c].t) =>
                             req[c].t \in opened'[c] /\ req[c].t \notin Range(todo'[c])
      BY <1>1, <1>13 DEF Signed
    <3>1. pc'[c] \in Late /\ opened'[c] # {}
      BY <1>1, <1>6, <1>12, <1>14 DEF Late
    <3>2. CASE e = d
      BY <1>1, <1>12, <2>6, <3>1, <3>2
    <3>3. CASE e # d
      BY <1>1, <1>4, <1>10, <1>12, <3>1, <3>3 DEF Local, Signed, Writing
    <3> QED  BY <3>2, <3>3
  <2>8. Recorded(c)'
    BY <1>1, <1>6, <1>12, <1>13 DEF Local, Recorded, Early, Late
  <2> QED  BY <2>1, <2>2, <2>3, <2>4, <2>5, <2>7, <2>8 DEF Local
<1>17. ASSUME NEW x \in Calls, x # c  PROVE Local(x)'
  <2>1. pc'[x] = pc[x] /\ todo'[x] = todo[x]  BY <1>1, <1>17 DEF Typed
  <2>2. \A e \in Docs : \/ disk'[e] = disk[e]
                        \/ lease[e] = c /\ disk'[e] # Absent /\ disk'[e].rev # x
    BY <1>8, <1>9, <1>10, <1>17
  <2> QED  BY <1>1, <1>17, <2>1, <2>2, Others
<1> QED  BY <1>1, <1>11, <1>16, <1>17 DEF IInv

\* WriteThrows, and both outcomes of Commit: the call ends and lets its leases go.
LEMMA EndKeeps ==
  ASSUME IInv, NEW c \in Calls, WriteThrows(c) \/ Commit(c)  PROVE IInv'
<1>1. /\ Typed /\ Local(c) /\ pc[c] \in {"open", "fill", "commit"} /\ Release(c)
      /\ UNCHANGED <<req, disk, opened, overwrote>>
  BY DEF IInv, WriteThrows, Commit
<1>2. \/ pc[c] = "commit" /\ End(c, "done")
         /\ committed' = committed \cup {<<disk[d].rev, d>> : d \in FileSet(c)}
      \/ End(c, "failed") /\ committed' = committed
  BY Zenon DEF WriteThrows, Commit
<1>3. /\ \/ pc[c] = "commit" /\ pc' = [pc EXCEPT ![c] = "done"]
            /\ committed' = committed \cup {<<disk[d].rev, d>> : d \in FileSet(c)}
         \/ pc' = [pc EXCEPT ![c] = "failed"] /\ committed' = committed
      /\ todo' = [todo EXCEPT ![c] = <<>>]
      /\ snap' = [snap EXCEPT ![c] = Nothing] /\ retried' = [retried EXCEPT ![c] = FALSE]
  BY <1>2 DEF End, Goto
<1>4. lease' \in [Docs -> Calls \cup {None}] /\ \A d \in Docs : lease'[d] # c
  BY <1>1, ReleaseFacts
<1>5. Typed'
  <2>1. pc' \in [Calls -> {"off"} \cup Running \cup Ended]
    BY <1>1, <1>3 DEF Typed, Ended
  <2> QED  BY <1>1, <1>3, <1>4, <2>1, NothingIsSnapshot DEF Typed
<1>6. pc'[c] \in {"done", "failed"}  BY <1>1, <1>3 DEF Typed
<1>7. /\ FileSet(c)' = FileSet(c) /\ Kind(c)' = Kind(c) /\ (Guarded(c)' <=> Guarded(c))
  BY <1>1 DEF FileSet, Files, Kind, Guarded
<1>8. SaneRequest(req[c])  BY <1>1 DEF Local, Sane
<1>9. FileSet(c) \subseteq Docs  BY <1>8, FileFacts
<1>10. pc[c] = "commit" => \A d \in FileSet(c) : disk[d].rev = c
  BY <1>1 DEF Local, Filled
<1>11. pc[c] \in Late /\ pc[c] # "done"  BY <1>1 DEF Late
<1>12. Local(c)'
  <2>1. Sane(c)'  BY <1>1, <1>8 DEF Sane
  <2>2. Source(c)' /\ Plan(c)' /\ Untouched(c)' /\ Filled(c)'
    BY <1>6 DEF Source, Plan, Untouched, Filled, Writing, Leased
  <2>3. Owns(c)'  BY <1>4, <1>6 DEF Owns, Leased
  <2>4. Signed(c)'
    BY <1>1, <1>6, <1>7 DEF Local, Signed, Writing, Late
  <2>5. \A d \in Docs : <<c, d>> \notin committed
    BY <1>1, <1>11 DEF Local, Recorded
  <2>6. pc'[c] = "done" => pc[c] = "commit" /\ \A d \in FileSet(c) : <<c, d>> \in committed'
    BY <1>1, <1>3, <1>10 DEF Typed
  <2>7. \A d \in Docs : <<c, d>> \in committed' => pc'[c] = "done"
    BY <1>1, <1>3, <2>5 DEF Typed
  <2>8. pc'[c] \notin Early /\ pc'[c] \in Late  BY <1>6 DEF Early, Late
  <2>9. Recorded(c)'
    BY <1>1, <1>7, <2>6, <2>7, <2>8 DEF Local, Recorded
  <2> QED  BY <2>1, <2>2, <2>3, <2>4, <2>9 DEF Local
<1>13. ASSUME NEW x \in Calls, x # c  PROVE Local(x)'
  <2>1. pc'[x] = pc[x] /\ todo'[x] = todo[x] /\ snap'[x] = snap[x]
    BY <1>1, <1>3, <1>13 DEF Typed
  <2>2. \A d \in Docs : lease'[d] = x <=> lease[d] = x
    BY <1>1, <1>13, ReleaseFacts
  <2>3. \A d \in Docs : <<x, d>> \in committed' <=> <<x, d>> \in committed
    BY <1>3, <1>10, <1>13
  <2> QED  BY <1>1, <1>13, <2>1, <2>2, <2>3, Others
<1> QED  BY <1>1, <1>5, <1>12, <1>13 DEF IInv

LEMMA CrashKeeps ==
  ASSUME IInv, Crash  PROVE IInv'
<1> DEFINE gone == {x \in Calls : pc[x] \in Running /\ opened[x] = {}}
<1>1. /\ Typed
      /\ pc' = [x \in Calls |-> IF pc[x] \in Running THEN "dead" ELSE pc[x]]
      /\ req' = [x \in Calls |-> IF x \in gone THEN Blank ELSE req[x]]
      /\ todo' = [x \in Calls |-> <<>>] /\ snap' = [x \in Calls |-> Nothing]
      /\ retried' = [x \in Calls |-> FALSE]
      /\ UNCHANGED <<disk, lease, opened, overwrote, committed>>
  BY DEF IInv, Crash, files
<1>2. Typed'
  <2>1. pc' \in [Calls -> {"off"} \cup Running \cup Ended]  BY <1>1 DEF Typed, Ended
  <2>2. req' \in [Calls -> Request \cup {Blank}]  BY <1>1 DEF Typed
  <2>3. todo' \in [Calls -> Seq(Docs)]  BY <1>1
  <2> QED  BY <1>1, <2>1, <2>2, <2>3, NothingIsSnapshot DEF Typed
<1>3. ASSUME NEW c \in Calls  PROVE Local(c)'
  <2>1. Local(c)  BY DEF IInv
  <2>2. CASE pc[c] \in Running
    <3>1. pc'[c] = "dead" /\ pc[c] # "off" /\ pc[c] # "done"  BY <1>1, <2>2 DEF Running
    <3>2. SaneRequest(req[c])  BY <2>1, <3>1 DEF Local, Sane
    <3>3. SaneRequest(Blank)  BY <3>2, BlankSane DEF SaneRequest, Request
    <3>4. (opened[c] = {} /\ req'[c] = Blank) \/ (opened[c] # {} /\ req'[c] = req[c])
      BY <1>1, <2>2
    <3>5. Sane(c)'  BY <3>2, <3>3, <3>4 DEF Sane
    <3>6. Source(c)' /\ Plan(c)' /\ Untouched(c)' /\ Filled(c)' /\ Owns(c)'
      BY <3>1 DEF Source, Plan, Untouched, Filled, Owns, Writing, Leased
    <3>7. Signed(c)'
      <4> SUFFICES ASSUME NEW d \in Docs, disk[d] # Absent, disk[d].rev = c
                   PROVE  /\ pc'[c] \in Late /\ opened[c] # {}
                          /\ (Kind(c)' = "merge" /\ d \in FileSet(c)' /\ d # req'[c].t) =>
                               req'[c].t \in opened[c]
        BY <1>1, <3>1 DEF Signed, Writing
      <4>1. opened[c] # {} /\ req'[c] = req[c]  BY <2>1, <3>4 DEF Local, Signed
      <4>2. FileSet(c)' = FileSet(c) /\ Kind(c)' = Kind(c)
        BY <4>1 DEF FileSet, Files, Kind
      <4> QED  BY <2>1, <3>1, <4>1, <4>2 DEF Local, Signed, Late
    <3>8. Guarded(c)' => Guarded(c)
      BY <3>4 DEF Guarded, Kind, Blank
    <3>9. Recorded(c)'
      BY <1>1, <2>1, <3>1, <3>8 DEF Local, Recorded, Early, Late
    <3> QED  BY <3>5, <3>6, <3>7, <3>9 DEF Local
  <2>3. CASE pc[c] \notin Running
    <3>1. pc'[c] = pc[c] /\ req'[c] = req[c] /\ pc[c] \notin Leased \cup {"read", "check", "lease"}
      BY <1>1, <2>3 DEF Running, Leased
    <3>2. /\ FileSet(c)' = FileSet(c) /\ Kind(c)' = Kind(c) /\ (Guarded(c)' <=> Guarded(c))
      BY <3>1 DEF FileSet, Files, Kind, Guarded
    <3>3. pc'[c] \notin Writing /\ pc'[c] \notin Leased  BY <3>1 DEF Writing, Leased
    <3>4. Sane(c)'  BY <2>1, <3>1 DEF Local, Sane
    <3>5. Source(c)' /\ Plan(c)' /\ Untouched(c)' /\ Filled(c)'
      BY <3>1, <3>3 DEF Source, Plan, Untouched, Filled, Leased
    <3>6. Owns(c)'  BY <1>1, <2>1, <3>1, <3>3 DEF Local, Owns
    <3>7. Signed(c)'  BY <1>1, <2>1, <3>1, <3>2, <3>3 DEF Local, Signed
    <3>8. Recorded(c)'  BY <1>1, <2>1, <3>1, <3>2 DEF Local, Recorded
    <3> QED  BY <3>4, <3>5, <3>6, <3>7, <3>8 DEF Local
  <2> QED  BY <2>2, <2>3
<1> QED  BY <1>1, <1>2, <1>3 DEF IInv

LEMMA LapseKeeps ==
  ASSUME IInv, NEW d \in Docs, Lapse(d)  PROVE IInv'
<1>0. PICK holder \in Calls : holder = lease[d]
  BY DEF IInv, Typed, Lapse
<1>1. /\ Typed /\ pc[holder] = "dead" /\ lease' = [lease EXCEPT ![d] = None]
      /\ UNCHANGED <<pc, req, todo, snap, retried, disk, opened, overwrote, committed>>
  BY <1>0 DEF IInv, Lapse, locals, history, outcome
<1>2. \A x \in Calls : x # None
  BY SupersedeAssumption
<1>3. Typed'  BY <1>1 DEF Typed
<1>4. \A x \in Calls \ {holder}, e \in Docs : lease'[e] = x <=> lease[e] = x
  BY <1>0, <1>1, <1>2 DEF Typed
<1>5. \A e \in Docs : lease'[e] = holder => lease[e] = holder
  BY <1>1, <1>2 DEF Typed
<1>6. Local(holder)'
  <2>1. Local(holder)  BY DEF IInv
  <2>2. Owns(holder)'  BY <1>1, <1>5, <2>1 DEF Local, Owns, Leased
  <2>3. /\ FileSet(holder)' = FileSet(holder) /\ Kind(holder)' = Kind(holder)
        /\ (Guarded(holder)' <=> Guarded(holder))
    BY <1>1 DEF FileSet, Files, Kind, Guarded
  <2> QED
    BY <1>1, <2>1, <2>2, <2>3
    DEF Local, Sane, Source, Plan, Untouched, Filled, Signed, Recorded
<1>7. ASSUME NEW x \in Calls, x # holder  PROVE Local(x)'
  BY <1>1, <1>2, <1>4, <1>7, Others
<1> QED  BY <1>1, <1>3, <1>6, <1>7 DEF IInv

LEMMA InitEstablishes == Init => IInv
<1> SUFFICES ASSUME Init  PROVE IInv
  OBVIOUS
<1>1. PICK next \in PointerMap, present \in SUBSET Docs :
        disk = [d \in Docs |->
          IF d \notin present THEN Absent
          ELSE [status |-> IF next[d] = None THEN "live" ELSE "superseded",
                by |-> next[d], rev |-> None]]
  BY DEF Init
<1>2. \A d \in Docs : disk[d] \in Content \cup {Absent}
  BY <1>1 DEF PointerMap, Content, Statuses
<1>3. \A d \in Docs : disk[d] # Absent => disk[d].rev = None
  BY <1>1
<1>4. todo \in [Calls -> Seq(Docs)]  BY DEF Init
<1>5. disk \in [Docs -> Content \cup {Absent}]  BY <1>1, <1>2
<1>6. Typed
  BY <1>4, <1>5, NothingIsSnapshot DEF Init, Typed
<1>7. ASSUME NEW c \in Calls  PROVE Local(c)
  <2>1. pc[c] = "off" /\ c # None /\ opened[c] = {} /\ overwrote = {} /\ committed = {}
    BY SupersedeAssumption DEF Init
  <2>2. Sane(c) /\ Source(c) /\ Plan(c) /\ Untouched(c) /\ Filled(c)
    BY <2>1 DEF Sane, Source, Plan, Untouched, Filled, Writing, Leased
  <2>3. Owns(c)  BY <2>1 DEF Init, Owns, Leased
  <2>4. Signed(c)  BY <1>3, <2>1 DEF Signed
  <2>5. Recorded(c)  BY <2>1 DEF Recorded
  <2> QED  BY <2>2, <2>3, <2>4, <2>5 DEF Local
<1> QED  BY <1>6, <1>7 DEF IInv, Init

LEMMA NextKeeps == IInv /\ [Next]_vars => IInv'
<1> SUFFICES ASSUME IInv, [Next]_vars  PROVE IInv'
  OBVIOUS
<1>1. ASSUME NEW c \in Calls, Step(c)  PROVE IInv'
  BY <1>1, CallKeeps, ReadStepKeeps, CheckLoopKeeps, DeclineKeeps, TakeLeasesKeeps, VerifyKeeps,
     OpenKeeps, FillKeeps, EndKeeps
  DEF Step
<1>2. CASE UNCHANGED vars
  <2>1. UNCHANGED <<pc, req, todo, snap, retried, disk, lease, opened, overwrote, committed>>
    BY <1>2 DEF vars, files, history, outcome
  <2> QED
    BY <2>1
    DEF IInv, Typed, Local, Sane, Source, Plan, Owns, Untouched, Filled, Signed, Recorded,
        Kind, Guarded, FileSet, Files
<1> QED  BY <1>1, <1>2, CrashKeeps, LapseKeeps DEF Next

LEMMA Inductive == Spec => []IInv
BY InitEstablishes, NextKeeps, PTL DEF Spec

(***************************************************************************)
(* Theorems.                                                               *)
(***************************************************************************)
LEMMA TypeFollows == IInv => TypeOK
<1> SUFFICES ASSUME IInv  PROVE TypeOK
  OBVIOUS
<1>1. \A c \in Calls : pc[c] # "off" => req[c] \in Request
  BY DEF IInv, Local, Sane, SaneRequest
<1>2. \A c \in Calls : pc[c] \in {"open", "fill"} => todo[c] # <<>>
  BY DEF IInv, Local, Plan, Writing
<1>3. \A d \in Docs : lease[d] # None =>
        pc[lease[d]] \in {"verify", "open", "fill", "commit", "dead"}
  BY DEF IInv, Typed, Local, Owns, Leased
<1> QED  BY <1>1, <1>2, <1>3 DEF IInv, Typed, TypeOK

\* The states of Supersede are those its variables are meant for: among others,
\* a lease is held only by a call that is past leasePaths and not yet over, or dead.
THEOREM TypeCorrect == Spec => []TypeOK
BY Inductive, TypeFollows, PTL

\* The compare under the leases of performWrite and vaultMerge is enough: between
\* it and the writes nobody else can come, so a merge, a deprecation and an
\* unsupersede never replace bytes they have not read.
THEOREM NothingOverwrittenHolds == Spec => []NothingOverwritten
<1>1. IInv => NothingOverwritten
  BY DEF IInv, Local, Recorded, NothingOverwritten
<1> QED  BY <1>1, Inductive, PTL

LEMMA TargetIsFirst == IInv => TargetFirst
<1> SUFFICES ASSUME IInv, NEW m \in Merges, NEW d \in FileSet(m) \ {req[m].t},
                    disk[d] # Absent, disk[d].rev = m
             PROVE  req[m].t \in opened[m] /\ ~(pc[m] = "fill" /\ Head(todo[m]) = req[m].t)
  BY DEF TargetFirst
<1>1. m \in Calls /\ pc[m] # "off" /\ Kind(m) = "merge" /\ Local(m) /\ Typed
  BY DEF Merges, IInv
<1>2. SaneRequest(req[m])  BY <1>1 DEF Local, Sane
<1>3. d \in Docs  BY <1>1, <1>2, FileFacts
<1>4. req[m].t \in opened[m] /\ (pc[m] \in Writing => req[m].t \notin Range(todo[m]))
  BY <1>1, <1>3 DEF Local, Signed
<1>5. pc[m] = "fill" => Head(todo[m]) \in Range(todo[m])
  BY <1>1, Front DEF Local, Plan, Typed, Writing
<1> QED  BY <1>4, <1>5 DEF Writing

LEMMA HistoryIsWhole == IInv => HistoryWhole
<1> SUFFICES ASSUME IInv, NEW m \in Merges
             PROVE  {d \in FileSet(m) : <<m, d>> \in committed} =
                      IF pc[m] = "done" THEN FileSet(m) ELSE {}
  BY DEF HistoryWhole
<1>1. m \in Calls /\ pc[m] # "off" /\ Local(m)  BY DEF Merges, IInv
<1>2. FileSet(m) \subseteq Docs  BY <1>1, FileFacts DEF Local, Sane
<1> QED  BY <1>1, <1>2 DEF Local, Recorded

\* vaultMerge over its files: however calls interleave, throw or die, a refused
\* merge has written nothing, no source names a target that does not hold the
\* merge, and git holds all of an answered merge and nothing of any other.
THEOREM MergeWholeHolds == Spec => []MergeWhole
<1>1. IInv => RefusalsWriteNothing
  BY DEF IInv, Local, Recorded, Early, RefusalsWriteNothing
<1>2. IInv => MergeWhole
  BY <1>1, TypeFollows, TargetIsFirst, HistoryIsWhole DEF MergeWhole
<1> QED  BY <1>2, Inductive, PTL
------------------------------------------------------------------------------
(***************************************************************************)
(* Walks along the pointers.                                               *)
(***************************************************************************)
\* A set of numbers has a least.
LEMMA LeastExists ==
  ASSUME NEW S \in SUBSET Nat, S # {}
  PROVE  \E k \in S : \A j \in S : k <= j
<1>1. PICK k \in S : \A j \in S : <<j, k>> \notin OpToRel(<, Nat)
  <2>1. IsWellFoundedOn(OpToRel(<, Nat), Nat)
    BY NatLessThanWellFounded
  <2> QED  BY <2>1, WFMin
<1>2. \A j \in S : ~ (j < k)
  BY <1>1 DEF OpToRel
<1> QED  BY <1>2

\* How far a walk goes: past every document once.
Hops == Cardinality(Docs)

\* The walk is what its recursion says.
LEMMA WalkIs ==
  ASSUME NEW next, NEW s, NEW w, w = Walk(next, s)
  PROVE  /\ Hops \in Nat
         /\ w[0] = s
         /\ \A n \in 1 .. Hops : w[n] = IF w[n - 1] = None THEN None ELSE next[w[n - 1]]
         /\ DOMAIN w = 0 .. Hops
<1> DEFINE Hop(g, n) == IF n = 0 THEN s ELSE IF g[n - 1] = None THEN None ELSE next[g[n - 1]]
           IsWalk(g, n) == g = [m \in 0 .. n |-> Hop(g, m)]
           at == CHOOSE g : IsWalk(g, Hops)
<1>1. Walk(next, s) = at
  BY DEF Walk, Hops
<1>2. Hops \in Nat
  BY ChainsAssumption, FS_CardinalityType DEF Hops
<1>3. \A n \in 0 .. Hops : \E g : IsWalk(g, n)
  <2> DEFINE Without == {n \in 0 .. Hops : ~ \E g : IsWalk(g, n)}
  <2> SUFFICES ASSUME Without # {}  PROVE FALSE
    OBVIOUS
  <2> HIDE DEF IsWalk
  <2>1. Without \in SUBSET Nat  BY <1>2
  <2>2. PICK n \in Without : \A m \in Without : n <= m
    BY <2>1, LeastExists, Zenon
  <2>3. CASE n = 0
    <3> DEFINE g == [m \in 0 .. 0 |-> s]
    <3>1. IsWalk(g, 0)  BY DEF IsWalk
    <3> QED  BY <2>2, <2>3, <3>1, Zenon
  <2>4. CASE n # 0
    <3>1. n \in Nat /\ n - 1 \in 0 .. Hops /\ n - 1 \notin Without
      BY <1>2, <2>1, <2>2, <2>4
    <3>2. PICK h : IsWalk(h, n - 1)
      BY <3>1
    <3> DEFINE g == [m \in 0 .. n |-> IF m = n THEN Hop(h, n) ELSE h[m]]
    <3>3. \A m \in 0 .. n : g[m] = Hop(g, m)
      <4> SUFFICES ASSUME NEW m \in 0 .. n  PROVE g[m] = Hop(g, m)
        OBVIOUS
      <4>1. m # 0 => g[m - 1] = h[m - 1]
        BY <3>1
      <4>2. m # n => g[m] = h[m] /\ h[m] = Hop(h, m)
        <5> SUFFICES ASSUME m # n  PROVE g[m] = h[m] /\ h[m] = Hop(h, m)
          OBVIOUS
        <5>1. m \in 0 .. n - 1  BY <3>1
        <5> HIDE DEF Hop
        <5>2. h[m] = Hop(h, m)
          BY <3>2, <5>1, Zenon DEF IsWalk
        <5> QED  BY <5>2, Zenon
      <4> QED  BY <4>1, <4>2
    <3>4. IsWalk(g, n)
      BY <3>3 DEF IsWalk
    <3> QED  BY <2>2, <3>4, Zenon
  <2> QED  BY <2>3, <2>4
<1>4. IsWalk(at, Hops)
  <2> HIDE DEF IsWalk
  <2>1. \E g : IsWalk(g, Hops)  BY <1>2, <1>3
  <2> QED  BY <2>1, Zenon
<1> HIDE DEF at
<1>5. w = at  BY <1>1
<1>6. \A n \in 0 .. Hops : w[n] = Hop(w, n)
  BY <1>4, <1>5
<1>7. DOMAIN w = 0 .. Hops
  BY <1>4, <1>5
<1> QED  BY <1>2, <1>6, <1>7

\* A loop: it is entered again, at a first hop that comes back, and from each of
\* its documents the pointer leads on along it.
LEMMA LoopFacts ==
  ASSUME NEW next \in PointerMap, NEW s \in Docs, OnLoop(next, s),
         NEW w, w = Walk(next, s)
  PROVE  \E m \in 1 .. Hops :
           /\ w[0] = s /\ w[m] = s
           /\ \A n \in 0 .. m : w[n] \in Docs
           /\ \A n \in 0 .. m - 1 : w[n + 1] = next[w[n]]
           /\ Visited(next, s) = {w[n] : n \in 0 .. m - 1}
<1>1. /\ Hops \in Nat /\ w[0] = s /\ DOMAIN w = 0 .. Hops
      /\ \A n \in 1 .. Hops : w[n] = IF w[n - 1] = None THEN None ELSE next[w[n - 1]]
  BY WalkIs
<1>2. PICK m \in 1 .. Hops : w[m] = s
  BY DEF OnLoop, Hops
<1>3. None \notin Docs  BY ChainsAssumption
<1>4. \A n \in 0 .. m : w[n] \in Docs
  <2> DEFINE Bad == {n \in 0 .. m : w[m - n] \notin Docs}
  <2> SUFFICES ASSUME Bad # {}  PROVE FALSE
    <3>1. \A n \in 0 .. m : m - n \in 0 .. m /\ m - (m - n) = n
      BY <1>1
    <3> QED  BY <3>1
  <2>1. Bad \in SUBSET Nat  BY <1>1
  <2>2. PICK n \in Bad : \A k \in Bad : n <= k
    BY <2>1, LeastExists, Zenon
  <2>3. n # 0  BY <1>1, <1>2, <2>2
  <2>4. n \in 1 .. m /\ n - 1 \in 0 .. m /\ n - 1 \notin Bad
    <3>1. n \in 0 .. m /\ n \in Nat /\ m \in Nat  BY <1>1
    <3>2. n \in 1 .. m /\ n - 1 \in 0 .. m /\ ~ (n <= n - 1)  BY <2>3, <3>1
    <3> HIDE DEF Bad
    <3> QED  BY <2>2, <3>2
  <2>5. w[m - (n - 1)] \in Docs /\ m - (n - 1) = m - n + 1 /\ m - n + 1 \in 1 .. Hops
    BY <1>1, <2>4
  <2>6. w[m - n + 1] = IF w[m - n] = None THEN None ELSE next[w[m - n]]
    BY <1>1, <2>5
  <2>7. w[m - n] \in Docs \cup {None}
    <3>1. \A k \in 0 .. Hops : w[k] \in Docs \cup {None}
      <4> DEFINE Off == {k \in 0 .. Hops : w[k] \notin Docs \cup {None}}
      <4> SUFFICES ASSUME Off # {}  PROVE FALSE
        OBVIOUS
      <4>1. Off \in SUBSET Nat  BY <1>1
      <4>2. PICK k \in Off : \A j \in Off : k <= j
        BY <4>1, LeastExists, Zenon
      <4>3. k # 0  BY <1>1, <4>2
      <4>4. k \in 1 .. Hops /\ k - 1 \in 0 .. Hops /\ k - 1 \notin Off
        BY <1>1, <4>1, <4>2, <4>3
      <4>5. w[k - 1] \in Docs \cup {None}  BY <4>4
      <4>6. w[k] \in Docs \cup {None}  BY <1>1, <4>4, <4>5 DEF PointerMap
      <4> QED  BY <4>2, <4>6
    <3> QED  BY <1>1, <2>4, <3>1
  <2>8. w[m - n] \in Docs
    BY <1>3, <2>5, <2>6, <2>7
  <2> QED  BY <2>2, <2>8
<1>5. \A n \in 0 .. m - 1 : w[n + 1] = next[w[n]]
  <2> SUFFICES ASSUME NEW n \in 0 .. m - 1  PROVE w[n + 1] = next[w[n]]
    OBVIOUS
  <2>1. n + 1 \in 1 .. Hops /\ n + 1 - 1 = n /\ n \in 0 .. m  BY <1>1
  <2> QED  BY <1>1, <1>3, <1>4, <2>1
<1>6. \A k \in 0 .. Hops : w[k] \in {w[n] : n \in 0 .. m - 1}
  <2> DEFINE On == {w[n] : n \in 0 .. m - 1}
             Off == {k \in 0 .. Hops : w[k] \notin On}
  <2> SUFFICES ASSUME Off # {}  PROVE FALSE
    OBVIOUS
  <2>0. s \in On  BY <1>1
  <2>1. Off \in SUBSET Nat  BY <1>1
  <2>2. PICK k \in Off : \A j \in Off : k <= j
    BY <2>1, LeastExists, Zenon
  <2>3. k # 0  BY <1>1, <2>0, <2>2
  <2>4. k \in 1 .. Hops /\ k - 1 \in 0 .. Hops /\ k - 1 \notin Off
    BY <1>1, <2>1, <2>2, <2>3
  <2>5. PICK n \in 0 .. m - 1 : w[k - 1] = w[n]  BY <2>4
  <2>6. w[k] = w[n + 1]
    BY <1>1, <1>3, <1>4, <1>5, <2>4, <2>5
  <2>7. w[n + 1] \in On
    <3>1. CASE n = m - 1
      BY <1>1, <1>2, <2>0, <3>1
    <3>2. CASE n # m - 1
      BY <1>1, <3>2
    <3> QED  BY <3>1, <3>2
  <2> QED  BY <2>2, <2>6, <2>7
<1>7. Visited(next, s) = {w[n] : n \in 0 .. m - 1}
  <2>1. Range(w) = {w[n] : n \in 0 .. Hops}  BY <1>1 DEF Range
  <2>2. \A n \in 0 .. m - 1 : w[n] # None /\ n \in 0 .. Hops
    BY <1>1, <1>3, <1>4
  <2> QED  BY <1>6, <2>1, <2>2 DEF Visited
<1> QED  BY <1>1, <1>2, <1>4, <1>5, <1>7

\* The next document of one on a loop is on it as well.
LEMMA LoopClosed ==
  ASSUME NEW next \in PointerMap, NEW s \in Docs, OnLoop(next, s)
  PROVE  /\ s \in Visited(next, s) /\ Visited(next, s) \subseteq Docs
         /\ \A d \in Visited(next, s) : next[d] \in Visited(next, s)
<1>1. PICK w : w = Walk(next, s)  OBVIOUS
<1>2. PICK m \in 1 .. Hops :
        /\ w[0] = s /\ w[m] = s
        /\ \A n \in 0 .. m : w[n] \in Docs
        /\ \A n \in 0 .. m - 1 : w[n + 1] = next[w[n]]
        /\ Visited(next, s) = {w[n] : n \in 0 .. m - 1}
  BY <1>1, LoopFacts
<1>3. m \in Nat /\ 1 <= m  BY <1>1, WalkIs
<1>4. s \in Visited(next, s) /\ Visited(next, s) \subseteq Docs
  BY <1>2, <1>3
<1>5. ASSUME NEW n \in 0 .. m - 1  PROVE next[w[n]] \in Visited(next, s)
  <2>1. next[w[n]] = w[n + 1]  BY <1>2
  <2>2. CASE n = m - 1
    BY <1>2, <1>3, <1>4, <2>1, <2>2
  <2>3. CASE n # m - 1
    <3>1. n + 1 \in 0 .. m - 1  BY <1>3, <2>3
    <3> QED  BY <1>2, <2>1, <3>1
  <2> QED  BY <2>2, <2>3
<1> QED  BY <1>2, <1>4, <1>5

\* A walk stays in what it cannot leave.
LEMMA WalkStays ==
  ASSUME NEW next, NEW L \in SUBSET Docs, NEW s \in L, \A d \in L : next[d] \in L
  PROVE  Visited(next, s) \subseteq L /\ \A n \in 0 .. Hops : Walk(next, s)[n] \in L
<1>1. PICK w : w = Walk(next, s)  OBVIOUS
<1>2. /\ Hops \in Nat /\ w[0] = s /\ DOMAIN w = 0 .. Hops
      /\ \A n \in 1 .. Hops : w[n] = IF w[n - 1] = None THEN None ELSE next[w[n - 1]]
  BY <1>1, WalkIs
<1>3. None \notin Docs  BY ChainsAssumption
<1>4. \A n \in 0 .. Hops : w[n] \in L
  <2> DEFINE Off == {k \in 0 .. Hops : w[k] \notin L}
  <2> SUFFICES ASSUME Off # {}  PROVE FALSE
    OBVIOUS
  <2>1. Off \in SUBSET Nat  BY <1>2
  <2>2. PICK k \in Off : \A j \in Off : k <= j
    BY <2>1, LeastExists, Zenon
  <2>3. k # 0  BY <1>2, <2>2
  <2>4. k \in 1 .. Hops /\ k - 1 \in 0 .. Hops /\ k - 1 \notin Off
    BY <1>2, <2>1, <2>2, <2>3
  <2>5. w[k - 1] \in L  BY <2>4
  <2>6. w[k] \in L  BY <1>2, <1>3, <2>4, <2>5
  <2> QED  BY <2>2, <2>6
<1> QED  BY <1>1, <1>2, <1>4 DEF Visited, Range

\* A loop may be entered at any of its documents.
LEMMA LoopTurns ==
  ASSUME NEW next \in PointerMap, NEW s \in Docs, OnLoop(next, s), NEW d \in Visited(next, s)
  PROVE  d \in Docs /\ OnLoop(next, d) /\ Visited(next, d) \subseteq Visited(next, s)
<1>1. PICK w, v : w = Walk(next, s) /\ v = Walk(next, d)  OBVIOUS
<1>2. PICK m \in 1 .. Hops :
        /\ w[0] = s /\ w[m] = s
        /\ \A n \in 0 .. m : w[n] \in Docs
        /\ \A n \in 0 .. m - 1 : w[n + 1] = next[w[n]]
        /\ Visited(next, s) = {w[n] : n \in 0 .. m - 1}
  BY <1>1, LoopFacts
<1>3. /\ Hops \in Nat /\ v[0] = d
      /\ \A n \in 1 .. Hops : v[n] = IF v[n - 1] = None THEN None ELSE next[v[n - 1]]
  BY <1>1, WalkIs
<1>4. PICK i \in 0 .. m - 1 : d = w[i]  BY <1>2
<1>5. d \in Docs /\ Visited(next, d) \subseteq Visited(next, s)
  BY LoopClosed, WalkStays
<1>6. None \notin Docs  BY ChainsAssumption
<1>7. i \in Nat /\ m \in Nat /\ i < m /\ m <= Hops  BY <1>3
<1>8. \A k \in 0 .. m - i : v[k] = w[i + k]
  <2> DEFINE Off == {k \in 0 .. m - i : v[k] # w[i + k]}
  <2> SUFFICES ASSUME Off # {}  PROVE FALSE
    OBVIOUS
  <2>1. Off \in SUBSET Nat  BY <1>7
  <2>2. PICK k \in Off : \A j \in Off : k <= j
    BY <2>1, LeastExists, Zenon
  <2>3. k # 0  BY <1>3, <1>4, <1>7, <2>2
  <2>4. k \in 1 .. m - i /\ k - 1 \in 0 .. m - i /\ k - 1 \notin Off
    BY <1>7, <2>1, <2>2, <2>3
  <2>5. v[k - 1] = w[i + (k - 1)]  BY <2>4
  <2>6. k \in 1 .. Hops /\ i + (k - 1) \in 0 .. m - 1 /\ i + (k - 1) + 1 = i + k
        /\ i + (k - 1) \in 0 .. m
    <3>1. k \in Nat /\ 1 <= k /\ k <= m - i  BY <1>7, <2>4
    <3> HIDE DEF Off
    <3> QED  BY <1>3, <1>7, <3>1
  <2>7. v[k] = w[i + k]
    BY <1>2, <1>3, <1>6, <2>5, <2>6
  <2> QED  BY <2>2, <2>7
<1>9. \A k \in 0 .. i : v[m - i + k] = w[k]
  <2> DEFINE Off == {k \in 0 .. i : v[m - i + k] # w[k]}
  <2> SUFFICES ASSUME Off # {}  PROVE FALSE
    OBVIOUS
  <2>1. Off \in SUBSET Nat  BY <1>7
  <2>2. PICK k \in Off : \A j \in Off : k <= j
    BY <2>1, LeastExists, Zenon
  <2>3. k # 0
    <3>1. m - i + 0 = m - i /\ m - i \in 0 .. m - i /\ i + (m - i) = m  BY <1>7
    <3>2. v[m - i + 0] = w[0]  BY <1>2, <1>8, <3>1
    <3> QED  BY <2>2, <3>2
  <2>4. k \in 1 .. i /\ k - 1 \in 0 .. i /\ k - 1 \notin Off
    BY <1>7, <2>1, <2>2, <2>3
  <2>5. v[m - i + (k - 1)] = w[k - 1]  BY <2>4
  <2>6. /\ m - i + k \in 1 .. Hops /\ m - i + k - 1 = m - i + (k - 1)
        /\ k - 1 \in 0 .. m - 1 /\ k - 1 + 1 = k /\ k - 1 \in 0 .. m
    <3>1. k \in Nat /\ 1 <= k /\ k <= i  BY <1>7, <2>4
    <3> HIDE DEF Off
    <3> QED  BY <1>3, <1>7, <3>1
  <2>7. v[m - i + k] = w[k]
    BY <1>2, <1>3, <1>6, <2>5, <2>6
  <2> QED  BY <2>2, <2>7
<1>10. v[m] = d
  <2>1. i \in 0 .. i /\ m - i + i = m  BY <1>7
  <2> QED  BY <1>4, <1>9, <2>1
<1> QED  BY <1>1, <1>2, <1>5, <1>10 DEF OnLoop, Hops

\* A loop is still one when some of its documents point straight back to its
\* first.
LEMMA LoopShortens ==
  ASSUME NEW next \in PointerMap, NEW s \in Docs, OnLoop(next, s), NEW new \in PointerMap,
         \A d \in Visited(next, s) : new[d] = next[d] \/ new[d] = s
  PROVE  OnLoop(new, s) /\ Visited(new, s) \subseteq Visited(next, s)
<1>1. PICK w, v : w = Walk(next, s) /\ v = Walk(new, s)  OBVIOUS
<1>2. PICK m \in 1 .. Hops :
        /\ w[0] = s /\ w[m] = s
        /\ \A n \in 0 .. m : w[n] \in Docs
        /\ \A n \in 0 .. m - 1 : w[n + 1] = next[w[n]]
        /\ Visited(next, s) = {w[n] : n \in 0 .. m - 1}
  BY <1>1, LoopFacts
<1>3. /\ Hops \in Nat /\ v[0] = s
      /\ \A n \in 1 .. Hops : v[n] = IF v[n - 1] = None THEN None ELSE new[v[n - 1]]
  BY <1>1, WalkIs
<1>4. None \notin Docs  BY ChainsAssumption
<1>5. Visited(new, s) \subseteq Visited(next, s)
  <2>1. \A d \in Visited(next, s) : new[d] \in Visited(next, s)
    BY LoopClosed
  <2>2. s \in Visited(next, s) /\ Visited(next, s) \subseteq Docs
    BY LoopClosed
  <2> QED  BY <2>1, <2>2, WalkStays
<1>6. m \in Nat /\ 1 <= m /\ m <= Hops  BY <1>3
<1>7. \E n \in 1 .. m : v[n] = s
  <2> DEFINE Off == {k \in 1 .. m : v[k] # w[k]}
  <2>1. CASE Off = {}
    <3>1. m \in 1 .. m  BY <1>6
    <3> QED  BY <1>2, <2>1, <3>1
  <2>2. CASE Off # {}
    <3>1. Off \in SUBSET Nat  BY <1>6
    <3>2. PICK k \in Off : \A j \in Off : k <= j
      BY <2>2, <3>1, LeastExists, Zenon
    <3>3. k \in 1 .. m /\ k \in Nat  BY <1>6
    <3>4. v[k - 1] = w[k - 1]
      <4>1. CASE k = 1
        BY <1>2, <1>3, <4>1
      <4>2. CASE k # 1
        <5>1. k - 1 \in 1 .. m /\ ~ (k <= k - 1)  BY <3>3, <4>2
        <5>2. k - 1 \notin Off  BY <3>2, <5>1
        <5> QED  BY <5>1, <5>2
      <4> QED  BY <4>1, <4>2
    <3>5. k - 1 \in 0 .. m - 1 /\ k - 1 \in 0 .. m /\ k - 1 + 1 = k /\ k \in 1 .. Hops
      <4>1. 1 <= k /\ k <= m  BY <3>3
      <4> HIDE DEF Off
      <4> QED  BY <1>3, <1>6, <3>3, <4>1
    <3>6. w[k - 1] \in Docs /\ w[k - 1] \in Visited(next, s) /\ w[k] = next[w[k - 1]]
      BY <1>2, <3>5
    <3>7. v[k] = new[w[k - 1]]
      BY <1>3, <1>4, <3>4, <3>5, <3>6
    <3>8. v[k] = s
      BY <3>2, <3>6, <3>7
    <3> QED  BY <3>3, <3>8
  <2> QED  BY <2>1, <2>2
<1>8. \E n \in 1 .. Hops : v[n] = s  BY <1>3, <1>6, <1>7
<1> QED  BY <1>1, <1>5, <1>8 DEF OnLoop, Hops

------------------------------------------------------------------------------
(***************************************************************************)
(* The loop check.  As long as a call that has passed it has not written,  *)
(* no loop of what it is about to leave avoids the documents whose pointer *)
(* it did not see as it is.                                                *)
(***************************************************************************)
\* The pointers as they will be when c has written all its files.
Aim(c) ==
  LET known == {d \in Docs : disk[d] # Absent} \cup FileSet(c)
      says(d) == IF d \in FileSet(c) THEN NewPointer(c, d) ELSE Pointer(d)
  IN  [d \in Docs |-> IF says(d) \in known THEN says(d) ELSE None]

Pending == {"lease", "verify", "open", "fill"}

Cleared(c) ==
  pc[c] \in Pending /\ Checking(req[c]) =>
    \A s \in FileSet(c) : OnLoop(Aim(c), s) => Visited(Aim(c), s) \cap unseen[c] # {}

\* What it has filled points where it meant to.
AsMeant(c) ==
  /\ pc[c] = "fill" => disk[Head(todo[c])] = Torn
  /\ pc[c] \in Writing \cup {"commit"} =>
       \A d \in FileSet(c) : disk[d] # Absent /\ disk[d].rev = c => disk[d].by = NewPointer(c, d)

Loops == unseen \in [Calls -> SUBSET Docs] /\ ChainsEnd /\ \A c \in Calls : Cleared(c) /\ AsMeant(c)

\* Pointers and aims are pointer maps.
LEMMA MapsTyped ==
  ASSUME Typed, Typed'
  PROVE  Pointers \in PointerMap /\ Pointers' \in PointerMap
<1>1. \A x \in Content : x.by \in Docs \cup {None}  BY DEF Content
<1>2. \A d \in Docs : Pointer(d) \in Docs \cup {None} /\ Pointer(d)' \in Docs \cup {None}
  BY <1>1 DEF Typed, Pointer
<1> QED  BY <1>2 DEF Pointers, PointerMap

LEMMA AimTyped ==
  ASSUME NEW c, FileSet(c) \subseteq Docs
  PROVE  Aim(c) \in PointerMap
BY DEF Aim, PointerMap

\* A document with a pointer is there, and who wrote it has written.
LEMMA Signatory ==
  ASSUME IInv, NEW d \in Docs, Pointer(d) # None, disk[d].rev # None
  PROVE  /\ disk[d] # Absent /\ disk[d].rev \in Calls
         /\ opened[disk[d].rev] # {}
<1>1. disk[d] # Absent /\ disk[d] \in Content  BY DEF Pointer, IInv, Typed
<1>2. disk[d].rev \in Calls  BY <1>1 DEF Content
<1>3. Local(disk[d].rev)  BY <1>2 DEF IInv
<1> QED  BY <1>1, <1>2, <1>3 DEF Local, Signed

\* A loop that was there before is excused as it was.
LEMMA ExcuseStays ==
  ASSUME IInv, IInv', ChainsEnd, NEW s \in Docs, OnLoop(Pointers', s),
         NEW L, L = Visited(Pointers', s), \A e \in L : disk'[e] = disk[e],
         \A c \in Calls : opened[c] # {} => req'[c] = req[c] /\ unseen[c] \subseteq unseen'[c]
  PROVE  \E e \in L : Excused(e, L)'
<1> DEFINE K == Visited(Pointers, s)
<1>1. Pointers \in PointerMap /\ Pointers' \in PointerMap
  BY MapsTyped DEF IInv
<1>2. L \subseteq Docs /\ \A e \in L : Pointers'[e] \in L
  <2>1. PICK p : p = Pointers'  OBVIOUS
  <2> QED  BY <1>1, <2>1, LoopClosed
<1>3. None \notin Docs  BY ChainsAssumption
<1>4. ASSUME NEW e \in L  PROVE Pointers[e] = Pointers'[e]
  <2> DEFINE f == Pointers'[e]
  <2>1. f \in L /\ e \in Docs /\ f \in Docs /\ f # None  BY <1>2, <1>3
  <2>2. Pointer(e)' = f /\ disk'[f] # Absent
    BY <2>1 DEF Pointers
  <2>3. disk'[e] = disk[e] /\ disk'[f] = disk[f]  BY <1>4, <2>1
  <2>4. Pointer(e) = f /\ disk[f] # Absent
    BY <2>2, <2>3 DEF Pointer
  <2> QED  BY <2>1, <2>4 DEF Pointers
<1>5. OnLoop(Pointers, s) /\ K \subseteq L
  <2>1. PICK p, q : p = Pointers' /\ q = Pointers  OBVIOUS
  <2>2. p \in PointerMap /\ q \in PointerMap /\ OnLoop(p, s) /\ \A e \in Visited(p, s) : q[e] = p[e]
    BY <1>1, <1>4, <2>1
  <2>3. OnLoop(q, s) /\ Visited(q, s) \subseteq Visited(p, s)
    BY <2>2, LoopShortens
  <2> QED  BY <2>1, <2>3
<1>6. PICK e \in K : Excused(e, K)
  BY <1>5 DEF ChainsEnd
<1>7. e \in L /\ e \in Docs /\ disk'[e] = disk[e]  BY <1>2, <1>5
<1>8. Pointer(e) # None
  BY <1>2, <1>3, <1>4, <1>7 DEF Pointers
<1> DEFINE w == disk[e].rev
<1>9. w # None /\ (Kind(w) = "write" \/ unseen[w] \cap K # {})
  BY <1>6 DEF Excused
<1>10. w \in Calls /\ opened[w] # {}
  BY <1>7, <1>8, <1>9, Signatory
<1>11. req'[w] = req[w] /\ unseen[w] \subseteq unseen'[w]  BY <1>10
<1>12. Kind(w) = "write" \/ unseen'[w] \cap L # {}
  BY <1>5, <1>9, <1>11
<1>13. w = disk'[e].rev  BY <1>7
<1> HIDE DEF w, K
<1>14. Excused(e, L)'
  <2>1. w # None /\ (req'[w].kind = "write" \/ unseen'[w] \cap L # {})
    BY <1>9, <1>11, <1>12 DEF Kind
  <2> QED  BY <1>13, <2>1 DEF Excused, Kind
<1> QED  BY <1>7, <1>14

\* Who writes nothing, and sees no more than it saw, stays clear of loops.
LEMMA ClearedKept ==
  ASSUME NEW c \in Calls, FileSet(c) \subseteq Docs, Cleared(c),
         pc'[c] \in Pending => pc[c] \in Pending,
         req'[c] = req[c], snap'[c] = snap[c], unseen[c] \subseteq unseen'[c],
         \A d \in Docs \ FileSet(c) : disk'[d] = disk[d] \/ d \in unseen'[c]
  PROVE  Cleared(c)'
<1>1. FileSet(c)' = FileSet(c) /\ \A d : NewPointer(c, d)' = NewPointer(c, d)
  BY DEF FileSet, Files, NewPointer, Kind
<1> SUFFICES ASSUME pc[c] \in Pending, Checking(req[c]), NEW s \in FileSet(c), OnLoop(Aim(c)', s),
                    Visited(Aim(c)', s) \cap unseen'[c] = {}
             PROVE  FALSE
  BY <1>1 DEF Cleared
<1> DEFINE L == Visited(Aim(c)', s)
<1>2. PICK p, q : p = Aim(c)' /\ q = Aim(c)  OBVIOUS
<1>3. p \in PointerMap /\ q \in PointerMap
  <2>1. q \in PointerMap  BY <1>2, AimTyped
  <2>2. p \in PointerMap  BY <1>1, <1>2 DEF Aim, PointerMap
  <2> QED  BY <2>1, <2>2
<1>4. OnLoop(p, s) /\ L = Visited(p, s) /\ s \in Docs  BY <1>2
<1>5. L \subseteq Docs /\ \A e \in L : p[e] \in L  BY <1>3, <1>4, LoopClosed
<1>6. None \notin Docs  BY ChainsAssumption
<1> HIDE DEF L
<1>7. ASSUME NEW e \in L  PROVE q[e] = p[e]
  <2>1. p[e] \in L /\ p[e] \in Docs /\ e \in Docs /\ p[e] # None  BY <1>5, <1>6
  <2>2. \A d \in L \ FileSet(c) : disk'[d] = disk[d]
    BY <1>2, <1>4, <1>5
  <2> DEFINE known == {d \in Docs : disk[d] # Absent} \cup FileSet(c)
             says == IF e \in FileSet(c) THEN NewPointer(c, e) ELSE Pointer(e)
             known2 == {d \in Docs : disk'[d] # Absent} \cup FileSet(c)
             says2 == IF e \in FileSet(c) THEN NewPointer(c, e) ELSE Pointer(e)'
  <2>3. q[e] = IF says \in known THEN says ELSE None
    BY <1>2, <2>1 DEF Aim
  <2>4. p[e] = IF says2 \in known2 THEN says2 ELSE None
    BY <1>1, <1>2, <2>1 DEF Aim
  <2>5. says2 = p[e] /\ p[e] \in known2  BY <2>1, <2>4
  <2>6. says = says2  BY <2>2 DEF Pointer
  <2>7. p[e] \in known  BY <2>1, <2>2, <2>5
  <2> QED  BY <2>3, <2>5, <2>6, <2>7
<1>8. OnLoop(q, s) /\ Visited(q, s) \subseteq L
  BY <1>3, <1>4, <1>7, LoopShortens
<1>9. Visited(q, s) \cap unseen[c] # {}
  BY <1>2, <1>8 DEF Cleared
<1> QED  BY <1>8, <1>9 DEF L

\* Nobody else touches what a call writes.
LEMMA MeantKept ==
  ASSUME IInv, NEW x \in Calls, AsMeant(x),
         pc'[x] = pc[x], req'[x] = req[x], snap'[x] = snap[x], todo'[x] = todo[x],
         \A d \in Docs : disk'[d] = disk[d] \/ lease[d] # x
  PROVE  AsMeant(x)'
<1>1. FileSet(x)' = FileSet(x) /\ \A d : NewPointer(x, d)' = NewPointer(x, d)
  BY DEF FileSet, Files, NewPointer, Kind
<1> SUFFICES ASSUME pc[x] \in Writing \cup {"commit"}  PROVE AsMeant(x)'
  BY DEF AsMeant, Writing
<1>2. Local(x) /\ SaneRequest(req[x])  BY DEF IInv, Local, Sane, Writing
<1>3. FileSet(x) \subseteq Docs  BY <1>2, FileFacts
<1>4. \A d \in FileSet(x) : lease[d] = x
  BY <1>2 DEF Local, Owns, Leased, Writing
<1>5. \A d \in FileSet(x) : disk'[d] = disk[d]  BY <1>3, <1>4
<1>6. pc[x] = "fill" => Head(todo[x]) \in FileSet(x)
  BY <1>2, Front DEF IInv, Typed, Local, Plan, Writing
<1> QED  BY <1>1, <1>5, <1>6 DEF AsMeant

\* A step that leaves the files alone.
LEMMA QuietKeeps ==
  ASSUME IInv, IInv', Loops, UNCHANGED disk, unseen' \in [Calls -> SUBSET Docs],
         \A x \in Calls : opened[x] # {} => req'[x] = req[x] /\ unseen[x] \subseteq unseen'[x],
         \A x \in Calls :
           \/ pc'[x] \notin Pending \cup {"commit"}
           \/ /\ pc'[x] = pc[x] /\ req'[x] = req[x] /\ snap'[x] = snap[x] /\ todo'[x] = todo[x]
              /\ unseen'[x] = unseen[x]
           \/ Cleared(x)' /\ AsMeant(x)'
  PROVE  Loops'
<1>1. ChainsEnd'
  <2> SUFFICES ASSUME NEW s \in Docs, OnLoop(Pointers', s), NEW L, L = Visited(Pointers', s)
               PROVE  \E e \in L : Excused(e, L)'
    BY DEF ChainsEnd, Excused
  <2>1. L \subseteq Docs
    <3>1. PICK p : p = Pointers'  OBVIOUS
    <3> QED  BY <3>1, MapsTyped, LoopClosed DEF IInv
  <2> QED  BY <2>1, ExcuseStays DEF Loops
<1>2. ASSUME NEW x \in Calls  PROVE Cleared(x)' /\ AsMeant(x)'
  <2>1. CASE pc'[x] \notin Pending \cup {"commit"}
    BY <2>1 DEF Cleared, AsMeant, Pending, Writing
  <2>2. CASE /\ pc'[x] = pc[x] /\ req'[x] = req[x] /\ snap'[x] = snap[x] /\ todo'[x] = todo[x]
             /\ unseen'[x] = unseen[x]
    <3>1. AsMeant(x)'  BY <2>2, MeantKept DEF Loops
    <3>2. CASE pc[x] = "off"
      BY <2>2, <3>1, <3>2 DEF Cleared, Pending
    <3>3. CASE pc[x] # "off"
      <4>1. FileSet(x) \subseteq Docs  BY <3>3, FileFacts DEF IInv, Local, Sane
      <4> QED  BY <2>2, <3>1, <4>1, ClearedKept DEF Loops
    <3> QED  BY <3>2, <3>3
  <2> QED  BY <1>2, <2>1, <2>2
<1> QED  BY <1>1, <1>2 DEF Loops

\* Where a document will point, and what it says when it does.
LEMMA AimIs ==
  ASSUME NEW c, NEW e \in Docs, NEW f \in Docs,
         e \in FileSet(c) => NewPointer(c, e) = f,
         e \notin FileSet(c) => Pointer(e) = f,
         disk[f] # Absent \/ f \in FileSet(c)
  PROVE  Aim(c)[e] = f
<1> DEFINE known == {d \in Docs : disk[d] # Absent} \cup FileSet(c)
           says == IF e \in FileSet(c) THEN NewPointer(c, e) ELSE Pointer(e)
<1>1. says = f /\ f \in known  OBVIOUS
<1>2. Aim(c)[e] = IF says \in known THEN says ELSE None  BY DEF Aim
<1> QED  BY <1>1, <1>2

LEMMA AimSays ==
  ASSUME NEW c, NEW e \in Docs, NEW f, Aim(c)[e] = f, f # None
  PROVE  /\ e \in FileSet(c) => NewPointer(c, e) = f
         /\ e \notin FileSet(c) => Pointer(e) = f
         /\ f \in FileSet(c) \/ disk[f] # Absent
<1> DEFINE known == {d \in Docs : disk[d] # Absent} \cup FileSet(c)
           says == IF e \in FileSet(c) THEN NewPointer(c, e) ELSE Pointer(e)
<1>1. Aim(c)[e] = IF says \in known THEN says ELSE None  BY DEF Aim
<1>2. says = f /\ f \in known  BY <1>1
<1> QED  BY <1>2

\* CheckLoop: a loop it lets through is one it could not see.
LEMMA CheckClears ==
  ASSUME IInv, NEW c \in Calls, pc[c] = "check",
         ~ClosesLoop(SeenPointers(req[c].hides, FileSet(c)), SeenEdits(c)),
         NEW s \in FileSet(c), OnLoop(Aim(c), s)
  PROVE  Visited(Aim(c), s) \cap req[c].hides # {}
<1>1. FileSet(c) \subseteq Docs
  BY FileFacts DEF IInv, Local, Sane
<1>2. None \notin Docs  BY ChainsAssumption
<1> SUFFICES ASSUME Visited(Aim(c), s) \cap req[c].hides = {}  PROVE FALSE
  OBVIOUS
<1> DEFINE seen == SeenPointers(req[c].hides, FileSet(c))
           edits == SeenEdits(c)
           edited == [d \in Docs |-> IF d \in DOMAIN edits THEN edits[d] ELSE seen[d]]
           known == {d \in Docs : disk[d] # Absent /\ d \notin req[c].hides}
<1>3. DOMAIN edits = FileSet(c)  BY DEF SeenEdits
<1>4. \A d \in FileSet(c) :
        edits[d] = IF NewPointer(c, d) \in known \cup FileSet(c) THEN NewPointer(c, d) ELSE None
  BY DEF SeenEdits
<1>5. \A d \in Docs :
        seen[d] = IF d \in known /\ Pointer(d) \in known \cup FileSet(c) THEN Pointer(d) ELSE None
  BY DEF SeenPointers
<1>6. known \cup FileSet(c) \subseteq Docs  BY <1>1
<1> HIDE DEF seen, edits
<1>7. edited \in PointerMap
  BY <1>3, <1>4, <1>5, <1>6 DEF PointerMap
<1>8. \A d \in Docs : edited[d] = IF d \in FileSet(c) THEN edits[d] ELSE seen[d]
  BY <1>3
<1>9. ~OnLoop(edited, s)
  BY <1>3 DEF ClosesLoop, seen, edits
<1> HIDE DEF edited
<1>10. PICK p, q : p = Aim(c) /\ q = edited  OBVIOUS
<1>11. p \in PointerMap /\ q \in PointerMap /\ s \in Docs /\ OnLoop(p, s)
  BY <1>1, <1>7, <1>10, AimTyped
<1>12. Visited(p, s) \subseteq Docs /\ \A e \in Visited(p, s) : p[e] \in Visited(p, s)
  BY <1>11, LoopClosed
<1>13. ASSUME NEW e \in Visited(p, s)  PROVE q[e] = p[e]
  <2>1. PICK f : f = p[e]  OBVIOUS
  <2>2. e \in Docs /\ f \in Docs /\ f # None /\ f \in Visited(p, s)  BY <1>2, <1>12, <2>1
  <2>3. e \notin req[c].hides /\ f \notin req[c].hides
    BY <1>10, <2>2
  <2>4. /\ e \in FileSet(c) => NewPointer(c, e) = f
        /\ e \notin FileSet(c) => Pointer(e) = f
        /\ f \in FileSet(c) \/ disk[f] # Absent
    BY <1>10, <2>1, <2>2, AimSays
  <2>5. f \in known \cup FileSet(c)  BY <2>2, <2>3, <2>4
  <2>6. CASE e \in FileSet(c)
    BY <1>4, <1>8, <1>10, <2>1, <2>2, <2>4, <2>5, <2>6
  <2>7. CASE e \notin FileSet(c)
    <3>1. Pointer(e) = f  BY <2>4, <2>7
    <3>2. disk[e] # Absent  BY <3>1, <2>2 DEF Pointer
    <3>3. e \in known  BY <2>2, <2>3, <3>2
    <3>4. seen[e] = f  BY <1>5, <2>2, <2>5, <3>1, <3>3
    <3> QED  BY <1>8, <1>10, <2>1, <2>2, <2>7, <3>4
  <2> QED  BY <2>6, <2>7
<1>14. OnLoop(q, s)
  BY <1>11, <1>13, LoopShortens
<1> QED  BY <1>9, <1>10, <1>14

\* What another call's writing of d does to the rest.
LEMMA OvertakesFacts ==
  ASSUME unseen \in [Calls -> SUBSET Docs], NEW c \in Calls, NEW d \in Docs, Overtakes(c, d)
  PROVE  /\ unseen' \in [Calls -> SUBSET Docs] /\ unseen'[c] = unseen[c]
         /\ \A x \in Calls : unseen[x] \subseteq unseen'[x]
         /\ \A x \in Calls \ {c} : pc[x] \in Pending => d \in unseen'[x]
BY DEF Overtakes, Pending

\* Open and Fill leave the others' checks and files as they were.
LEMMA BystandersKeep ==
  ASSUME IInv, Loops, NEW c \in Calls, NEW d \in Docs, lease[d] = c, Overtakes(c, d),
         NEW x \in Calls \ {c},
         pc'[x] = pc[x], req'[x] = req[x], snap'[x] = snap[x], todo'[x] = todo[x],
         \A e \in Docs : e # d => disk'[e] = disk[e]
  PROVE  Cleared(x)' /\ AsMeant(x)'
<1>1. unseen[x] \subseteq unseen'[x] /\ (pc[x] \in Pending => d \in unseen'[x])
  BY OvertakesFacts DEF Loops
<1>2. AsMeant(x)'
  BY MeantKept DEF Loops
<1>3. CASE pc[x] \notin Pending
  BY <1>2, <1>3 DEF Cleared
<1>4. CASE pc[x] \in Pending
  <2>1. FileSet(x) \subseteq Docs
    BY <1>4, FileFacts DEF IInv, Local, Sane, Pending
  <2> QED  BY <1>1, <1>2, <1>4, <2>1, ClearedKept DEF Loops
<1> QED  BY <1>3, <1>4

\* Open: a torn file points nowhere, so that no loop is new.
LEMMA OpenLoops ==
  ASSUME IInv, IInv', Loops, NEW c \in Calls, Open(c)
  PROVE  Loops'
<1> DEFINE d == Head(todo[c])
<1>1. /\ Typed /\ Local(c) /\ pc[c] = "open"
      /\ disk' = [disk EXCEPT ![d] = Torn]
      /\ pc' = [pc EXCEPT ![c] = "fill"]
      /\ Overtakes(c, d)
      /\ UNCHANGED <<req, todo, snap, retried, lease>>
  BY DEF IInv, Open, Goto, locals
<1>2. SaneRequest(req[c]) /\ todo[c] # <<>> /\ todo[c] \in Seq(Docs)
  BY <1>1 DEF Local, Sane, Plan, Writing, Typed
<1>3. d \in Range(todo[c]) /\ d \in Docs  BY <1>2, Front
<1>4. d \in FileSet(c) /\ lease[d] = c /\ FileSet(c) \subseteq Docs
  BY <1>1, <1>2, <1>3, FileFacts DEF Local, Plan, Owns, Writing, Leased
<1>5. /\ disk'[d] = Torn /\ Torn.by = None /\ Torn.rev = None
      /\ \A e \in Docs : e # d => disk'[e] = disk[e]
  BY <1>1, <1>3 DEF Typed, Torn
<1>6. None \notin Docs /\ c # None  BY ChainsAssumption, SupersedeAssumption
<1>7. /\ unseen' \in [Calls -> SUBSET Docs] /\ unseen'[c] = unseen[c]
      /\ \A x \in Calls : unseen[x] \subseteq unseen'[x]
  BY <1>1, <1>3, OvertakesFacts DEF Loops
<1>8. ChainsEnd'
  <2> SUFFICES ASSUME NEW s \in Docs, OnLoop(Pointers', s), NEW L, L = Visited(Pointers', s)
               PROVE  \E e \in L : Excused(e, L)'
    BY DEF ChainsEnd, Excused
  <2>1. L \subseteq Docs /\ \A e \in L : Pointers'[e] \in L
    <3>1. PICK p : p = Pointers'  OBVIOUS
    <3> QED  BY <3>1, MapsTyped, LoopClosed DEF IInv
  <2>2. d \notin L
    <3>1. PICK e \in Docs : e = d  BY <1>3
    <3>2. Pointer(e)' = None  BY <1>5, <3>1 DEF Pointer
    <3>3. Pointers'[e] = None  BY <3>2 DEF Pointers
    <3> QED  BY <1>6, <2>1, <3>1, <3>3
  <2>3. \A e \in L : disk'[e] = disk[e]  BY <1>5, <2>1, <2>2
  <2>4. \A x \in Calls : opened[x] # {} => req'[x] = req[x] /\ unseen[x] \subseteq unseen'[x]
    BY <1>1, <1>7
  <2> QED  BY <2>3, <2>4, ExcuseStays DEF Loops
<1>9. pc'[c] = "fill"  BY <1>1 DEF Typed
<1>10. Cleared(c)'
  <2>1. \A e \in Docs \ FileSet(c) : disk'[e] = disk[e]  BY <1>4, <1>5
  <2>2. req'[c] = req[c] /\ snap'[c] = snap[c] /\ pc[c] \in Pending
    BY <1>1 DEF Pending
  <2> QED  BY <1>4, <1>7, <2>1, <2>2, ClearedKept DEF Loops
<1>11. AsMeant(c)'
  <2>1. FileSet(c)' = FileSet(c) /\ \A e : NewPointer(c, e)' = NewPointer(c, e)
    BY <1>1 DEF FileSet, Files, NewPointer, Kind
  <2>2. \A e \in FileSet(c) : disk[e] # Absent /\ disk[e].rev = c => disk[e].by = NewPointer(c, e)
    BY <1>1 DEF Loops, AsMeant, Writing
  <2>3. \A e \in FileSet(c) : disk'[e] # Absent /\ disk'[e].rev = c => disk'[e].by = NewPointer(c, e)
    BY <1>4, <1>5, <1>6, <2>2
  <2>4. disk'[Head(todo'[c])] = Torn  BY <1>1, <1>5
  <2> QED  BY <2>1, <2>3, <2>4 DEF AsMeant
<1>12. ASSUME NEW x \in Calls, x # c  PROVE Cleared(x)' /\ AsMeant(x)'
  <2>1. /\ pc'[x] = pc[x] /\ req'[x] = req[x] /\ snap'[x] = snap[x] /\ todo'[x] = todo[x]
    BY <1>1, <1>12 DEF Typed
  <2> QED  BY <1>1, <1>3, <1>4, <1>5, <1>12, <2>1, BystandersKeep
<1> QED  BY <1>7, <1>8, <1>10, <1>11, <1>12 DEF Loops

\* Fill closes a loop through d: a merge has written its target by then, and its
\* other sources will point there too, so that the loop, cut short at the target,
\* is one of what the call set out to leave, and its check was blind to it.
LEMMA FillEnds ==
  ASSUME IInv, IInv', Loops, NEW c \in Calls, pc[c] = "fill", NEW d, d = Head(todo[c]),
         disk' = [disk EXCEPT ![d] = Composed(c, d)],
         NEW s \in Docs, OnLoop(Pointers', s), NEW L, L = Visited(Pointers', s), d \in L,
         Kind(c) # "write"
  PROVE  unseen[c] \cap L # {}
<1>1. Typed /\ Local(c) /\ SaneRequest(req[c]) /\ todo[c] # <<>> /\ todo[c] \in Seq(Docs)
  BY DEF IInv, Local, Sane, Plan, Writing, Typed
<1>2. d \in Range(todo[c]) /\ d \in Docs /\ d \in FileSet(c) /\ FileSet(c) \subseteq Docs
  BY <1>1, Front, FileFacts DEF Local, Plan, Writing
<1>3. None \notin Docs /\ Absent \notin Content  BY ChainsAssumption, SupersedeAssumption
<1>4. Composed(c, d) \in Content /\ Composed(c, d).by = NewPointer(c, d)
  BY ComposedIsContent DEF Composed
<1>5. /\ disk'[d] = Composed(c, d) /\ disk'[d] # Absent /\ disk'[d].by = NewPointer(c, d)
      /\ \A e \in Docs : e # d => disk'[e] = disk[e]
  BY <1>1, <1>2, <1>3, <1>4 DEF Typed
<1>6. PICK p : p = Pointers'  OBVIOUS
<1>7. p \in PointerMap /\ OnLoop(p, s) /\ L = Visited(p, s)
  BY <1>6, MapsTyped DEF IInv
<1>8. s \in L /\ L \subseteq Docs /\ \A e \in L : p[e] \in L
  BY <1>7, LoopClosed
<1>9. \A e \in L : Pointer(e)' = p[e] /\ disk'[p[e]] # Absent /\ p[e] # None
  BY <1>3, <1>6, <1>8 DEF Pointers
<1>10. NewPointer(c, d) = p[d] /\ NewPointer(c, d) # None
  BY <1>5, <1>9 DEF Pointer
<1>11. Kind(c) # "unsupersede"
  BY <1>10 DEF NewPointer
<1>12. Checking(req[c])
  <2>1. CASE Kind(c) = "merge"
    BY <1>1, <1>3, <2>1 DEF Kind, SaneRequest, Checking
  <2>2. CASE Kind(c) # "merge"
    <3>1. req[c].t # None  BY <1>10, <1>11, <2>2 DEF NewPointer
    <3>2. Kind(c) \in Kinds  BY <1>1 DEF Kind, SaneRequest, Request
    <3>3. Kind(c) \in {"supersede", "deprecate"}  BY <1>11, <2>2, <3>2 DEF Kinds
    <3> QED  BY <3>1, <3>3 DEF Kind, Checking
  <2> QED  BY <2>1, <2>2
<1> DEFINE first == IF Kind(c) = "merge" THEN req[c].t ELSE d
<1>13. /\ first \in FileSet(c)
       /\ \A e \in FileSet(c) : e # first => NewPointer(c, e) = first
       /\ disk'[first] # Absent /\ disk'[first].by = NewPointer(c, first)
  <2>1. CASE Kind(c) = "merge"
    <3>1. FileSet(c) = {req[c].a, req[c].b, req[c].t}
      BY <1>1, <2>1, FilesOfMerge DEF Kind, FileSet, Files
    <3>2. \A e \in FileSet(c) : e # first => NewPointer(c, e) = first
      BY <2>1 DEF NewPointer
    <3>3. disk'[first] # Absent /\ disk'[first].by = NewPointer(c, first)
      <4>1. CASE d = req[c].t
        BY <1>5, <2>1, <4>1
      <4>2. CASE d # req[c].t
        <5>1. req[c].t \notin Range(todo[c])
          BY <1>1, <2>1, <4>2 DEF Local, Plan, Writing
        <5>2. disk[first] # Absent /\ disk[first].rev = c
          BY <1>1, <2>1, <3>1, <5>1 DEF Local, Filled, Writing
        <5>3. disk[first].by = NewPointer(c, first)
          BY <2>1, <3>1, <5>2 DEF Loops, AsMeant, Writing
        <5>4. disk'[first] = disk[first]
          BY <1>2, <1>5, <2>1, <3>1, <4>2
        <5> QED  BY <5>2, <5>3, <5>4
      <4> QED  BY <4>1, <4>2
    <3> QED  BY <2>1, <3>1, <3>2, <3>3
  <2>2. CASE Kind(c) # "merge"
    <3>1. FileSet(c) = {req[c].a}
      BY <1>1, <2>2, FilesOfOther DEF Kind, FileSet, Files
    <3> QED  BY <1>2, <1>5, <2>2, <3>1
  <2> QED  BY <2>1, <2>2
<1>14. first \in L
  <2>1. d # first => p[d] = first  BY <1>2, <1>10, <1>13
  <2> QED  BY <1>8, <2>1
<1> HIDE DEF first
<1>15. OnLoop(p, first) /\ Visited(p, first) \subseteq L /\ first \in Docs
  BY <1>7, <1>14, LoopTurns
<1>16. PICK q : q = Aim(c)  OBVIOUS
<1>17. q \in PointerMap  BY <1>2, <1>16, AimTyped
<1>18. ASSUME NEW e \in L  PROVE q[e] = p[e] \/ q[e] = first
  <2>1. e \in Docs /\ p[e] \in Docs  BY <1>8
  <2>2. CASE e \in FileSet(c) /\ e # first
    <3>1. NewPointer(c, e) = first  BY <1>13, <2>2
    <3>2. q[e] = first
      BY <1>13, <1>15, <1>16, <2>1, <2>2, <3>1, AimIs
    <3> QED  BY <3>2
  <2>3. CASE e \notin FileSet(c) \/ e = first
    <3>1. disk[p[e]] # Absent \/ p[e] \in FileSet(c)
      BY <1>2, <1>5, <1>9, <2>1
    <3>2. e \in FileSet(c) => NewPointer(c, e) = p[e]
      <4>1. e = first => NewPointer(c, e) = p[e]
        BY <1>9, <1>13 DEF Pointer
      <4> QED  BY <2>3, <4>1
    <3>3. e \notin FileSet(c) => Pointer(e) = p[e]
      <4> SUFFICES ASSUME e \notin FileSet(c)  PROVE Pointer(e) = p[e]
        OBVIOUS
      <4>1. disk'[e] = disk[e]  BY <1>2, <1>5, <2>1
      <4>2. Pointer(e)' = Pointer(e)  BY <4>1 DEF Pointer
      <4> QED  BY <1>9, <4>2
    <3>4. q[e] = p[e]
      BY <1>16, <2>1, <3>1, <3>2, <3>3, AimIs
    <3> QED  BY <3>4
  <2> QED  BY <2>2, <2>3
<1>19. OnLoop(q, first) /\ Visited(q, first) \subseteq Visited(p, first)
  BY <1>7, <1>15, <1>17, <1>18, LoopShortens
<1>20. Visited(q, first) \cap unseen[c] # {}
  BY <1>12, <1>13, <1>16, <1>19 DEF Loops, Cleared, Pending
<1> QED  BY <1>15, <1>19, <1>20

\* Fill: a loop that is new runs through the file just written.
LEMMA FillLoops ==
  ASSUME IInv, IInv', Loops, NEW c \in Calls, Fill(c)
  PROVE  Loops'
<1>0. PICK d : d = Head(todo[c])  OBVIOUS
<1>1. /\ Typed /\ Local(c) /\ pc[c] = "fill"
      /\ disk' = [disk EXCEPT ![d] = Composed(c, d)]
      /\ pc' = [pc EXCEPT ![c] = IF Tail(todo[c]) = <<>> THEN "commit" ELSE "open"]
      /\ Overtakes(c, d)
      /\ todo' = [todo EXCEPT ![c] = Tail(todo[c])]
      /\ UNCHANGED <<req, snap, retried, lease, opened>>
  BY <1>0, Zenon DEF IInv, Fill, Goto
<1>2. SaneRequest(req[c]) /\ todo[c] # <<>> /\ todo[c] \in Seq(Docs)
  BY <1>1 DEF Local, Sane, Plan, Writing, Typed
<1>3. d \in Range(todo[c]) /\ d \in Docs  BY <1>0, <1>2, Front
<1>4. d \in FileSet(c) /\ lease[d] = c /\ FileSet(c) \subseteq Docs
  BY <1>1, <1>2, <1>3, FileFacts DEF Local, Plan, Owns, Writing, Leased
<1>5. Composed(c, d).rev = c /\ Composed(c, d).by = NewPointer(c, d)
  BY DEF Composed
<1>6. /\ disk'[d] = Composed(c, d) /\ \A e \in Docs : e # d => disk'[e] = disk[e]
  BY <1>1, <1>3 DEF Typed
<1>7. /\ unseen' \in [Calls -> SUBSET Docs] /\ unseen'[c] = unseen[c]
      /\ \A x \in Calls : unseen[x] \subseteq unseen'[x]
  BY <1>1, <1>3, OvertakesFacts DEF Loops
<1>8. c # None  BY SupersedeAssumption
<1>9. ChainsEnd'
  <2> SUFFICES ASSUME NEW s \in Docs, OnLoop(Pointers', s), NEW L, L = Visited(Pointers', s)
               PROVE  \E e \in L : Excused(e, L)'
    BY DEF ChainsEnd, Excused
  <2>1. L \subseteq Docs
    <3>1. PICK p : p = Pointers'  OBVIOUS
    <3> QED  BY <3>1, MapsTyped, LoopClosed DEF IInv
  <2>2. CASE d \notin L
    <3>1. \A e \in L : disk'[e] = disk[e]  BY <1>6, <2>1, <2>2
    <3>2. \A x \in Calls : opened[x] # {} => req'[x] = req[x] /\ unseen[x] \subseteq unseen'[x]
      BY <1>1, <1>7
    <3> QED  BY <3>1, <3>2, ExcuseStays DEF Loops
  <2>3. CASE d \in L
    <3>1. disk'[d].rev = c  BY <1>5, <1>6
    <3>2. Kind(c) = "write" \/ unseen'[c] \cap L # {}
      BY <1>0, <1>1, <1>7, <2>3, FillEnds
    <3>3. req'[c].kind = "write" \/ unseen'[c] \cap L # {}
      BY <1>1, <3>2 DEF Kind
    <3>4. Excused(d, L)'
      BY <1>8, <3>1, <3>3 DEF Excused, Kind
    <3> QED  BY <2>3, <3>4
  <2> QED  BY <2>2, <2>3
<1>10. pc'[c] \in {"commit", "open"}  BY <1>1 DEF Typed
<1>11. Cleared(c)'
  <2>1. \A e \in Docs \ FileSet(c) : disk'[e] = disk[e]  BY <1>4, <1>6
  <2>2. req'[c] = req[c] /\ snap'[c] = snap[c] /\ pc[c] \in Pending
    BY <1>1 DEF Pending
  <2> QED  BY <1>4, <1>7, <2>1, <2>2, ClearedKept DEF Loops
<1>12. AsMeant(c)'
  <2>1. FileSet(c)' = FileSet(c) /\ \A e : NewPointer(c, e)' = NewPointer(c, e)
    BY <1>1 DEF FileSet, Files, NewPointer, Kind
  <2>2. \A e \in FileSet(c) : disk[e] # Absent /\ disk[e].rev = c => disk[e].by = NewPointer(c, e)
    BY <1>1 DEF Loops, AsMeant, Writing
  <2>3. \A e \in FileSet(c) : disk'[e] # Absent /\ disk'[e].rev = c => disk'[e].by = NewPointer(c, e)
    BY <1>4, <1>5, <1>6, <2>2
  <2> QED  BY <1>10, <2>1, <2>3 DEF AsMeant
<1>13. ASSUME NEW x \in Calls, x # c  PROVE Cleared(x)' /\ AsMeant(x)'
  <2>1. /\ pc'[x] = pc[x] /\ req'[x] = req[x] /\ snap'[x] = snap[x] /\ todo'[x] = todo[x]
    BY <1>1, <1>13 DEF Typed
  <2> QED  BY <1>1, <1>3, <1>4, <1>6, <1>13, <2>1, BystandersKeep
<1> QED  BY <1>7, <1>9, <1>11, <1>12, <1>13 DEF Loops

\* A call that has opened nothing moves, or ends, and the files stay as they are.
LEMMA MoveKeeps ==
  ASSUME IInv, IInv', Loops, NEW c \in Calls, UNCHANGED disk,
         opened[c] # {} => req'[c] = req[c] /\ unseen'[c] = unseen[c],
         unseen' \in [Calls -> SUBSET Docs],
         \A x \in Calls \ {c} :
           /\ pc'[x] = pc[x] /\ req'[x] = req[x] /\ snap'[x] = snap[x]
           /\ todo'[x] = todo[x] /\ unseen'[x] = unseen[x],
         pc'[c] \notin Pending \cup {"commit"} \/ (Cleared(c)' /\ AsMeant(c)')
  PROVE  Loops'
<1>1. \A x \in Calls : opened[x] # {} => req'[x] = req[x] /\ unseen[x] \subseteq unseen'[x]
  OBVIOUS
<1> QED  BY <1>1, QuietKeeps

\* Refuse: an end before anything was opened.
LEMMA RefuseLoops ==
  ASSUME IInv, IInv', Loops, NEW c \in Calls, pc[c] \in Early, Refuse(c), UNCHANGED disk
  PROVE  Loops'
<1>1. Typed /\ Local(c) /\ unseen \in [Calls -> SUBSET Docs]  BY DEF IInv, Loops
<1>2. opened[c] = {}  BY <1>1 DEF Local, Recorded
<1>3. /\ pc' = [pc EXCEPT ![c] = "refused"] /\ todo' = [todo EXCEPT ![c] = <<>>]
      /\ snap' = [snap EXCEPT ![c] = Nothing] /\ req' = [req EXCEPT ![c] = Blank]
      /\ unseen' = [unseen EXCEPT ![c] = {}]
  BY DEF Refuse, End, Goto
<1>4. pc'[c] \notin Pending \cup {"commit"}  BY <1>1, <1>3 DEF Typed, Pending
<1>5. unseen' \in [Calls -> SUBSET Docs]  BY <1>1, <1>3
<1>6. \A x \in Calls \ {c} :
        /\ pc'[x] = pc[x] /\ req'[x] = req[x] /\ snap'[x] = snap[x]
        /\ todo'[x] = todo[x] /\ unseen'[x] = unseen[x]
  BY <1>1, <1>3 DEF Typed
<1> QED  BY <1>2, <1>4, <1>5, <1>6, MoveKeeps

\* Who goes for its leases without a loop check has nothing to check.
LEMMA UncheckedClear ==
  ASSUME NEW c, pc'[c] \in {"read", "check", "lease"}, pc'[c] = "lease" => ~Checking(req'[c])
  PROVE  Cleared(c)' /\ AsMeant(c)'
BY DEF Cleared, AsMeant, Pending, Writing, Checking

LEMMA ReadLoops ==
  ASSUME IInv, IInv', Loops, NEW c \in Calls, pc[c] \in {"off", "read"}, NEW r, NEW list,
         ReadNext(c, r, list), UNCHANGED disk
  PROVE  Loops'
<1>1. Typed /\ Local(c) /\ unseen \in [Calls -> SUBSET Docs] /\ pc[c] \in Early
  BY DEF IInv, Loops, Early
<1>2. CASE Refuse(c)  BY <1>1, <1>2, RefuseLoops
<1>3. ASSUME ~Refuse(c)  PROVE Loops'
  <2> DEFINE d == Head(list)
             place == IF Tail(list) # <<>> THEN "read" ELSE IF Checking(r) THEN "check" ELSE "lease"
  <2>1. /\ snap' = [snap EXCEPT ![c][d] = disk[d]] /\ todo' = [todo EXCEPT ![c] = Tail(list)]
        /\ pc' = [pc EXCEPT ![c] = place] /\ req' = [req EXCEPT ![c] = r] /\ unseen' = unseen
    BY <1>3, Zenon DEF ReadNext, Goto
  <2>2. opened[c] = {}  BY <1>1 DEF Local, Recorded
  <2>3. pc'[c] = place /\ req'[c] = r  BY <1>1, <2>1 DEF Typed
  <2>4. pc'[c] \in {"read", "check", "lease"} /\ (pc'[c] = "lease" => ~Checking(req'[c]))
    BY <2>3
  <2>5. Cleared(c)' /\ AsMeant(c)'  BY <2>4, UncheckedClear
  <2>6. \A x \in Calls \ {c} :
          /\ pc'[x] = pc[x] /\ req'[x] = req[x] /\ snap'[x] = snap[x]
          /\ todo'[x] = todo[x] /\ unseen'[x] = unseen[x]
    BY <1>1, <2>1 DEF Typed
  <2>7. unseen' \in [Calls -> SUBSET Docs]  BY <1>1, <2>1
  <2> QED  BY <2>2, <2>5, <2>6, <2>7, MoveKeeps
<1> QED  BY <1>2, <1>3

(***************************************************************************)
(* The steps, one lemma each.                                              *)
(***************************************************************************)
LEMMA CallLoops ==
  ASSUME IInv, IInv', Loops, NEW c \in Calls, Call(c)
  PROVE  Loops'
<1>1. Typed /\ Local(c) /\ unseen \in [Calls -> SUBSET Docs] /\ pc[c] = "off" /\ UNCHANGED disk
  BY DEF IInv, Loops, Call, files
<1>2. PICK r \in Request :
        IF r.kind = "write"
        THEN /\ Goto(c, "lease")
             /\ req' = [req EXCEPT ![c] = r]
             /\ UNCHANGED <<todo, snap, retried, unseen>>
        ELSE ReadNext(c, r, Reads(r))
  BY Zenon DEF Call
<1>3. CASE r.kind # "write"
  BY <1>1, <1>2, <1>3, ReadLoops
<1>4. CASE r.kind = "write"
  <2>1. /\ pc' = [pc EXCEPT ![c] = "lease"] /\ req' = [req EXCEPT ![c] = r]
        /\ UNCHANGED <<todo, snap, unseen>>
    BY <1>2, <1>4 DEF Goto
  <2>2. opened[c] = {}  BY <1>1 DEF Local, Recorded, Early
  <2>3. pc'[c] = "lease" /\ req'[c] = r  BY <1>1, <2>1 DEF Typed
  <2>4. Cleared(c)' /\ AsMeant(c)'
    BY <1>4, <2>3, UncheckedClear DEF Checking
  <2>5. \A x \in Calls \ {c} :
          /\ pc'[x] = pc[x] /\ req'[x] = req[x] /\ snap'[x] = snap[x]
          /\ todo'[x] = todo[x] /\ unseen'[x] = unseen[x]
    BY <1>1, <2>1 DEF Typed
  <2> QED  BY <1>1, <2>1, <2>2, <2>4, <2>5, MoveKeeps
<1> QED  BY <1>3, <1>4

\* CheckLoop: what it lets through closes no loop it can see.
LEMMA CheckLoops ==
  ASSUME IInv, IInv', Loops, NEW c \in Calls, CheckLoop(c)
  PROVE  Loops'
<1>1. Typed /\ Local(c) /\ unseen \in [Calls -> SUBSET Docs] /\ pc[c] = "check" /\ UNCHANGED disk
  BY DEF IInv, Loops, CheckLoop, files
<1>2. CASE Refuse(c)  BY <1>1, <1>2, RefuseLoops DEF Early
<1>3. ASSUME ~Refuse(c)  PROVE Loops'
  <2>1. /\ ~ClosesLoop(SeenPointers(req[c].hides, FileSet(c)), SeenEdits(c))
        /\ pc' = [pc EXCEPT ![c] = "lease"] /\ unseen' = [unseen EXCEPT ![c] = req[c].hides]
        /\ UNCHANGED <<req, todo, snap>>
    BY <1>3 DEF CheckLoop, Goto, locals
  <2>2. opened[c] = {}  BY <1>1 DEF Local, Recorded, Early
  <2>3. pc'[c] = "lease" /\ unseen'[c] = req[c].hides  BY <1>1, <2>1 DEF Typed
  <2>4. req[c].hides \in SUBSET Docs  BY <1>1 DEF Local, Sane, SaneRequest, Request
  <2>5. unseen' \in [Calls -> SUBSET Docs]  BY <1>1, <2>1, <2>4
  <2>6. FileSet(c)' = FileSet(c) /\ Aim(c)' = Aim(c)
    BY <1>1, <2>1 DEF FileSet, Files, Aim, NewPointer, Kind, Pointer
  <2>7. \A s \in FileSet(c) : OnLoop(Aim(c), s) => Visited(Aim(c), s) \cap req[c].hides # {}
    BY <1>1, <2>1, CheckClears
  <2>8. Cleared(c)' /\ AsMeant(c)'
    BY <2>3, <2>6, <2>7 DEF Cleared, AsMeant, Writing
  <2>9. \A x \in Calls \ {c} :
          /\ pc'[x] = pc[x] /\ req'[x] = req[x] /\ snap'[x] = snap[x]
          /\ todo'[x] = todo[x] /\ unseen'[x] = unseen[x]
    BY <1>1, <2>1 DEF Typed
  <2> QED  BY <1>1, <2>2, <2>5, <2>8, <2>9, MoveKeeps
<1> QED  BY <1>2, <1>3

\* Under way to its files, a call stays clear of loops.
LEMMA ApproachKeeps ==
  ASSUME IInv, IInv', Loops, NEW c \in Calls, pc[c] \in {"lease", "verify"}, NEW place,
         pc' = [pc EXCEPT ![c] = place], place \in {"verify", "open"},
         \A x \in Calls \ {c} : todo'[x] = todo[x],
         UNCHANGED <<req, snap, disk, unseen>>
  PROVE  Loops'
<1>1. Typed /\ Local(c) /\ unseen \in [Calls -> SUBSET Docs] /\ SaneRequest(req[c])
  BY DEF IInv, Loops, Local, Sane
<1>2. opened[c] = {}  BY <1>1 DEF Local, Recorded, Early
<1>3. pc'[c] = place /\ \A x \in Calls \ {c} : pc'[x] = pc[x]  BY <1>1 DEF Typed
<1>4. FileSet(c) \subseteq Docs  BY <1>1, FileFacts
<1>5. Cleared(c)'
  BY <1>4, ClearedKept DEF Loops, Pending
<1>6. AsMeant(c)'
  <2>1. \A d \in Docs : ~(disk[d] # Absent /\ disk[d].rev = c)
    BY <1>1 DEF Local, Signed, Late
  <2>2. FileSet(c)' = FileSet(c)  BY DEF FileSet, Files
  <2> QED  BY <1>3, <1>4, <2>1, <2>2 DEF AsMeant
<1> QED  BY <1>1, <1>2, <1>3, <1>5, <1>6, MoveKeeps

LEMMA LeaseLoops ==
  ASSUME IInv, IInv', Loops, NEW c \in Calls, Decline(c) \/ LeakRefused(c) \/ TakeLeases(c)
  PROVE  Loops'
<1>1. pc[c] \in {"lease", "verify"} /\ pc[c] \in Early /\ UNCHANGED disk
  BY DEF Decline, LeakRefused, TakeLeases, files, Early
<1>2. CASE Refuse(c)  BY <1>1, <1>2, RefuseLoops
<1>3. CASE ~Refuse(c)
  <2>1. pc' = [pc EXCEPT ![c] = "verify"] /\ UNCHANGED <<req, todo, snap, unseen>>
    BY <1>3, Zenon DEF Decline, LeakRefused, TakeLeases, Goto, locals
  <2> QED  BY <1>1, <2>1, ApproachKeeps
<1> QED  BY <1>2, <1>3

LEMMA VerifyLoops ==
  ASSUME IInv, IInv', Loops, NEW c \in Calls, Verify(c)
  PROVE  Loops'
<1>1. /\ Typed /\ Local(c) /\ unseen \in [Calls -> SUBSET Docs]
      /\ pc[c] = "verify" /\ pc[c] \in Early /\ UNCHANGED disk
  BY DEF IInv, Loops, Verify, Early
<1>2. CASE Refuse(c)  BY <1>1, <1>2, RefuseLoops
<1>3. CASE StartWriting(c) /\ UNCHANGED <<req, snap, unseen>>
  <2>1. pc' = [pc EXCEPT ![c] = "open"] /\ todo' = [todo EXCEPT ![c] = Files(c)]
    BY <1>3 DEF StartWriting, Goto
  <2>2. \A x \in Calls \ {c} : todo'[x] = todo[x]  BY <1>1, <2>1 DEF Typed
  <2> QED  BY <1>1, <1>3, <2>1, <2>2, ApproachKeeps
<1>4. CASE /\ todo' = [todo EXCEPT ![c] = Reads(req[c])]
           /\ Goto(c, "read") /\ UNCHANGED <<req, snap, unseen>>
  <2>1. pc' = [pc EXCEPT ![c] = "read"]  BY <1>4 DEF Goto
  <2>2. pc'[c] = "read"  BY <1>1, <2>1 DEF Typed
  <2>3. pc'[c] \notin Pending \cup {"commit"}  BY <2>2 DEF Pending
  <2>4. \A x \in Calls \ {c} :
          /\ pc'[x] = pc[x] /\ req'[x] = req[x] /\ snap'[x] = snap[x]
          /\ todo'[x] = todo[x] /\ unseen'[x] = unseen[x]
    BY <1>1, <1>4, <2>1 DEF Typed
  <2> QED  BY <1>1, <1>4, <2>3, <2>4, MoveKeeps
<1> QED  BY <1>2, <1>3, <1>4, Zenon DEF Verify

LEMMA EndLoops ==
  ASSUME IInv, IInv', Loops, NEW c \in Calls, WriteThrows(c) \/ Commit(c)
  PROVE  Loops'
<1>1. Typed /\ unseen \in [Calls -> SUBSET Docs] /\ UNCHANGED <<disk, req, unseen>>
  BY DEF IInv, Loops, WriteThrows, Commit
<1>2. PICK how \in {"done", "failed"} : End(c, how)
  BY Zenon DEF WriteThrows, Commit
<1>3. /\ pc' = [pc EXCEPT ![c] = how] /\ todo' = [todo EXCEPT ![c] = <<>>]
      /\ snap' = [snap EXCEPT ![c] = Nothing]
  BY <1>2 DEF End, Goto
<1>4. pc'[c] = how  BY <1>1, <1>3 DEF Typed
<1>5. pc'[c] \notin Pending \cup {"commit"}  BY <1>2, <1>4 DEF Pending
<1>6. \A x \in Calls \ {c} :
        /\ pc'[x] = pc[x] /\ req'[x] = req[x] /\ snap'[x] = snap[x]
        /\ todo'[x] = todo[x] /\ unseen'[x] = unseen[x]
  BY <1>1, <1>3 DEF Typed
<1> QED  BY <1>1, <1>5, <1>6, MoveKeeps

LEMMA CrashLoops ==
  ASSUME IInv, IInv', Loops, Crash
  PROVE  Loops'
<1>1. Typed /\ unseen \in [Calls -> SUBSET Docs] /\ UNCHANGED disk
  BY DEF IInv, Loops, Crash, files
<1> DEFINE gone == {c \in Calls : pc[c] \in Running /\ opened[c] = {}}
<1>2. /\ pc' = [c \in Calls |-> IF pc[c] \in Running THEN "dead" ELSE pc[c]]
      /\ req' = [c \in Calls |-> IF c \in gone THEN Blank ELSE req[c]]
      /\ unseen' = [c \in Calls |-> IF c \in gone THEN {} ELSE unseen[c]]
  BY DEF Crash
<1>3. unseen' \in [Calls -> SUBSET Docs]  BY <1>1, <1>2
<1>4. \A x \in Calls : pc'[x] \notin Pending \cup {"commit"}
  BY <1>2 DEF Pending, Running
<1>5. \A x \in Calls : opened[x] # {} => req'[x] = req[x] /\ unseen[x] \subseteq unseen'[x]
  BY <1>2
<1> QED  BY <1>1, <1>3, <1>4, <1>5, QuietKeeps

\* Lapse, and steps of nobody.
LEMMA StillLoops ==
  ASSUME IInv, IInv', Loops, UNCHANGED <<pc, req, todo, snap, disk, unseen>>
  PROVE  Loops'
<1>1. unseen' \in [Calls -> SUBSET Docs]  BY DEF Loops
<1> QED  BY <1>1, QuietKeeps

\* Where at most one document is superseded, and none by itself, chains end.
LEMMA InitLoops == Init => Loops
<1> SUFFICES ASSUME Init  PROVE Loops
  OBVIOUS
<1>1. unseen \in [Calls -> SUBSET Docs] /\ \A c \in Calls : pc[c] = "off"
  BY DEF Init
<1>2. \A c \in Calls : Cleared(c) /\ AsMeant(c)
  BY <1>1 DEF Cleared, AsMeant, Pending, Writing
<1>3. PICK next \in PointerMap, present \in SUBSET Docs :
        /\ Cardinality(Docs \ present) + Cardinality({d \in Docs : next[d] # None}) <= 1
        /\ \A d \in Docs : next[d] # None => d \in present /\ next[d] # d
        /\ disk = [d \in Docs |->
             IF d \notin present THEN Absent
             ELSE [status |-> IF next[d] = None THEN "live" ELSE "superseded",
                   by |-> next[d], rev |-> None]]
  BY Zenon DEF Init
<1>4. None \notin Docs /\ IsFiniteSet(Docs)  BY ChainsAssumption
<1> DEFINE chained == {d \in Docs : next[d] # None}
<1>5. IsFiniteSet(chained) /\ Cardinality(chained) <= 1
  <2>1. IsFiniteSet(chained) /\ IsFiniteSet(Docs \ present)
    BY <1>4, FS_Subset
  <2>2. Cardinality(chained) \in Nat /\ Cardinality(Docs \ present) \in Nat
    BY <2>1, FS_CardinalityType
  <2> QED  BY <1>3, <2>1, <2>2
<1>6. Typed  BY InitEstablishes DEF IInv
<1>7. ChainsEnd
  <2> SUFFICES ASSUME NEW s \in Docs, OnLoop(Pointers, s)  PROVE FALSE
    BY DEF ChainsEnd
  <2>1. PICK p : p = Pointers  OBVIOUS
  <2>2. p \in PointerMap
    <3>1. \A x \in Content : x.by \in Docs \cup {None}  BY DEF Content
    <3>2. \A d \in Docs : Pointer(d) \in Docs \cup {None}
      BY <1>6, <3>1 DEF Typed, Pointer
    <3> QED  BY <2>1, <3>2 DEF Pointers, PointerMap
  <2>3. PICK L : L = Visited(p, s)  OBVIOUS
  <2>4. s \in L /\ L \subseteq Docs /\ \A e \in L : p[e] \in L
    BY <2>1, <2>2, <2>3, LoopClosed
  <2>5. \A e \in L : next[e] = p[e]
    <3> SUFFICES ASSUME NEW e \in L  PROVE next[e] = p[e]
      OBVIOUS
    <3>1. e \in Docs /\ p[e] \in Docs /\ p[e] # None  BY <1>4, <2>4
    <3>2. Pointer(e) = p[e]  BY <2>1, <3>1 DEF Pointers
    <3>3. disk[e] # Absent /\ disk[e].by = p[e]  BY <3>1, <3>2 DEF Pointer
    <3> QED  BY <1>3, <3>1, <3>3
  <2>6. PICK f : f = p[s]  OBVIOUS
  <2>7. f \in L /\ f # s /\ s \in chained /\ f \in chained
    BY <1>3, <1>4, <2>4, <2>5, <2>6
  <2>8. IsFiniteSet({s}) /\ Cardinality({s}) = 1  BY FS_Singleton
  <2>9. IsFiniteSet({s} \cup {f}) /\ Cardinality({s} \cup {f}) = 2
    BY <2>7, <2>8, FS_AddElement
  <2>10. Cardinality({s} \cup {f}) <= Cardinality(chained)
    BY <1>5, <2>7, FS_Subset
  <2>11. Cardinality(chained) \in Nat  BY <1>5, FS_CardinalityType
  <2> QED  BY <1>5, <2>9, <2>10, <2>11
<1> QED  BY <1>1, <1>2, <1>7 DEF Loops

LEMMA LoopsKept == IInv /\ IInv' /\ Loops /\ [Next]_vars => Loops'
<1> SUFFICES ASSUME IInv, IInv', Loops, [Next]_vars  PROVE Loops'
  OBVIOUS
<1>1. ASSUME NEW c \in Calls, Step(c)  PROVE Loops'
  <2>1. CASE Call(c)  BY <2>1, CallLoops
  <2>2. CASE Read(c)  BY <2>2, ReadLoops DEF Read, files
  <2>3. CASE CheckLoop(c)  BY <2>3, CheckLoops
  <2>4. CASE Decline(c) \/ TakeLeases(c) \/ LeakRefused(c)  BY <2>4, LeaseLoops
  <2>5. CASE Verify(c)  BY <2>5, VerifyLoops
  <2>6. CASE Open(c)  BY <2>6, OpenLoops
  <2>7. CASE Fill(c)  BY <2>7, FillLoops
  <2>8. CASE WriteThrows(c) \/ Commit(c)  BY <2>8, EndLoops
  <2> QED  BY <1>1, <2>1, <2>2, <2>3, <2>4, <2>5, <2>6, <2>7, <2>8 DEF Step
<1>2. CASE Crash  BY <1>2, CrashLoops
<1>3. ASSUME NEW d \in Docs, Lapse(d)  PROVE Loops'
  BY <1>3, StillLoops DEF Lapse, locals, history
<1>4. CASE UNCHANGED vars
  BY <1>4, StillLoops DEF vars, files, history
<1> QED  BY <1>1, <1>2, <1>3, <1>4 DEF Next

LEMMA LoopsInvariant == Spec => [](IInv /\ Loops)
<1>1. Init => IInv /\ Loops  BY InitEstablishes, InitLoops
<1>2. (IInv /\ Loops) /\ [Next]_vars => (IInv /\ Loops)'
  BY NextKeeps, LoopsKept
<1> QED  BY <1>1, <1>2, PTL DEF Spec

\* ChainsEnd: refuseSupersedeLoop checks before the leases are taken, over the
\* documents its caller can read; still, whatever the calls, their order and
\* their ends, every loop of superseded_by has a pointer that was written
\* unchecked, or whose call could not see the loop as it is when it checked.
THEOREM ChainsEndHolds == Spec => []ChainsEnd
<1>1. Loops => ChainsEnd  BY DEF Loops
<1> QED  BY <1>1, LoopsInvariant, PTL

------------------------------------------------------------------------------
(***************************************************************************)
(* Ways: what the walk of a pointer map comes to.                          *)
(***************************************************************************)
\* What a walk does at one hop.
LEMMA WalkStep ==
  ASSUME NEW next, NEW s, NEW n \in 0 .. Hops - 1, Walk(next, s)[n] # None
  PROVE  n + 1 \in 0 .. Hops /\ Walk(next, s)[n + 1] = next[Walk(next, s)[n]]
<1>1. n + 1 \in 1 .. Hops /\ n + 1 - 1 = n  BY WalkIs
<1>2. PICK w : w = Walk(next, s)  OBVIOUS
<1>3. w[n + 1] = IF w[n + 1 - 1] = None THEN None ELSE next[w[n + 1 - 1]]
  BY <1>1, <1>2, WalkIs
<1> QED  BY <1>1, <1>2, <1>3, WalkIs

\* What is met is visited.
LEMMA WalkMeets ==
  ASSUME NEW next, NEW s, NEW n \in 0 .. Hops, Walk(next, s)[n] # None
  PROVE  Walk(next, s)[n] \in Visited(next, s)
<1>1. DOMAIN Walk(next, s) = 0 .. Hops  BY WalkIs
<1> QED  BY <1>1 DEF Visited, Range

\* A walk that has come to an end does not go on.
LEMMA WalkEnds ==
  ASSUME NEW next, NEW s, NEW i \in 0 .. Hops, Walk(next, s)[i] = None, NEW n \in i .. Hops
  PROVE  Walk(next, s)[n] = None
<1>1. PICK w : w = Walk(next, s)  OBVIOUS
<1>2. /\ Hops \in Nat
      /\ \A m \in 1 .. Hops : w[m] = IF w[m - 1] = None THEN None ELSE next[w[m - 1]]
  BY <1>1, WalkIs
<1> DEFINE Off == {m \in i .. Hops : w[m] # None}
<1> SUFFICES ASSUME Off # {}  PROVE FALSE
  BY <1>1
<1>3. Off \in SUBSET Nat  BY <1>2
<1>4. PICK m \in Off : \A j \in Off : m <= j
  BY <1>3, LeastExists, Zenon
<1>5. m \in i .. Hops /\ m # i  BY <1>1, <1>4
<1>6. m - 1 \in i .. Hops /\ m \in 1 .. Hops /\ ~ (m <= m - 1)  BY <1>2, <1>5
<1>7. w[m - 1] = None  BY <1>4, <1>6
<1> QED  BY <1>2, <1>4, <1>6, <1>7

\* A walk goes on from where it has come to as a walk from there.
LEMMA WalkOn ==
  ASSUME NEW next, NEW s, NEW i \in 0 .. Hops, NEW k \in 0 .. Hops, i + k \in 0 .. Hops
  PROVE  Walk(next, Walk(next, s)[i])[k] = Walk(next, s)[i + k]
<1>1. PICK w, v : w = Walk(next, s) /\ v = Walk(next, w[i])  OBVIOUS
<1>2. /\ Hops \in Nat /\ v[0] = w[i]
      /\ \A m \in 1 .. Hops : w[m] = IF w[m - 1] = None THEN None ELSE next[w[m - 1]]
      /\ \A m \in 1 .. Hops : v[m] = IF v[m - 1] = None THEN None ELSE next[v[m - 1]]
  BY <1>1, WalkIs
<1> DEFINE Off == {m \in 0 .. k : v[m] # w[i + m]}
<1> SUFFICES ASSUME Off # {}  PROVE FALSE
  BY <1>1, <1>2
<1>3. Off \in SUBSET Nat  BY <1>2
<1>4. PICK m \in Off : \A j \in Off : m <= j
  BY <1>3, LeastExists, Zenon
<1>5. m \in 0 .. k /\ m # 0
  <2>1. i + 0 = i  BY <1>2
  <2> QED  BY <1>2, <1>4, <2>1
<1>6. /\ m - 1 \in 0 .. k /\ m \in 1 .. Hops /\ ~ (m <= m - 1)
      /\ i + m \in 1 .. Hops /\ i + m - 1 = i + (m - 1)
  BY <1>2, <1>5
<1>7. v[m - 1] = w[i + (m - 1)]  BY <1>4, <1>6
<1> QED  BY <1>2, <1>4, <1>6, <1>7

\* The walk of a pointer map stays among the documents until it ends.
LEMMA WalkTyped ==
  ASSUME NEW next \in PointerMap, NEW s \in Docs, NEW n \in 0 .. Hops
  PROVE  Walk(next, s)[n] \in Docs \cup {None}
<1>1. PICK w : w = Walk(next, s)  OBVIOUS
<1>2. /\ Hops \in Nat /\ w[0] = s
      /\ \A m \in 1 .. Hops : w[m] = IF w[m - 1] = None THEN None ELSE next[w[m - 1]]
  BY <1>1, WalkIs
<1> DEFINE Off == {m \in 0 .. Hops : w[m] \notin Docs \cup {None}}
<1> SUFFICES ASSUME Off # {}  PROVE FALSE
  BY <1>1
<1>3. Off \in SUBSET Nat  BY <1>2
<1>4. PICK m \in Off : \A j \in Off : m <= j
  BY <1>3, LeastExists, Zenon
<1>5. m \in 0 .. Hops /\ m # 0  BY <1>2, <1>4
<1>6. m - 1 \in 0 .. Hops /\ m \in 1 .. Hops /\ ~ (m <= m - 1)  BY <1>2, <1>5
<1>7. w[m - 1] \in Docs \cup {None}  BY <1>4, <1>6
<1>8. w[m] \in Docs \cup {None}  BY <1>2, <1>6, <1>7 DEF PointerMap
<1> QED  BY <1>4, <1>8

\* As many hops as there are documents come back to one of them.
LEMMA Returns ==
  ASSUME NEW w, \A n \in 0 .. Hops : w[n] \in Docs
  PROVE  \E h \in 1 .. Hops : \E i \in 0 .. h - 1 : w[i] = w[h]
<1>1. Hops \in Nat /\ IsFiniteSet(Docs)
  BY ChainsAssumption, FS_CardinalityType DEF Hops
<1>2. IsFiniteSet(0 .. Hops) /\ Cardinality(0 .. Hops) = Hops + 1
  BY <1>1, FS_Interval
<1> DEFINE f == [n \in 0 .. Hops |-> w[n]]
<1>3. f \in [0 .. Hops -> Docs]  OBVIOUS
<1>4. PICK x, y \in 0 .. Hops : x # y /\ f[x] = f[y]
  <2>1. Cardinality(Docs) < Cardinality(0 .. Hops)  BY <1>1, <1>2 DEF Hops
  <2> HIDE DEF f
  <2> QED  BY <1>1, <1>2, <1>3, <2>1, FS_PigeonHole
<1>5. w[x] = w[y]  BY <1>4
<1>6. CASE x < y
  <2>1. y \in 1 .. Hops /\ x \in 0 .. y - 1  BY <1>1, <1>6
  <2> QED  BY <1>5, <2>1
<1>7. CASE y < x
  <2>1. x \in 1 .. Hops /\ y \in 0 .. x - 1  BY <1>1, <1>7
  <2> QED  BY <1>5, <2>1
<1> QED  BY <1>1, <1>4, <1>6, <1>7

\* What is on a loop never comes to an end.
LEMMA LoopGoesOn ==
  ASSUME NEW next \in PointerMap, NEW s \in Docs, NEW i \in 0 .. Hops,
         Walk(next, s)[i] \in Docs, OnLoop(next, Walk(next, s)[i]), NEW k \in i .. Hops
  PROVE  Walk(next, s)[k] \in Visited(next, Walk(next, s)[i]) /\ Walk(next, s)[k] \in Docs
<1>1. PICK w : w = Walk(next, s)  OBVIOUS
<1>2. PICK L \in SUBSET Docs : L = Visited(next, w[i]) /\ w[i] \in L /\ \A d \in L : next[d] \in L
  BY <1>1, LoopClosed
<1>3. Hops \in Nat /\ None \notin Docs  BY WalkIs, ChainsAssumption
<1>4. k - i \in 0 .. Hops /\ i + (k - i) = k /\ i + (k - i) \in 0 .. Hops  BY <1>3
<1>5. Walk(next, w[i])[k - i] \in L  BY <1>2, <1>4, WalkStays
<1>6. Walk(next, w[i])[k - i] = w[k]  BY <1>1, <1>4, WalkOn
<1> QED  BY <1>1, <1>2, <1>5, <1>6

\* The way from s: n hops to as many other documents, and then either past the
\* end or back to one of those already met.
Way(next, s, n) ==
  LET w == Walk(next, s)
  IN  /\ n \in 0 .. Hops - 1
      /\ \A i \in 0 .. n : w[i] \in Docs /\ w[i + 1] = next[w[i]]
      /\ \A i, j \in 0 .. n : w[i] = w[j] => i = j
      /\ w[n + 1] = None \/ \E j \in 0 .. n : w[n + 1] = w[j]

\* Every document has one.
LEMMA WayExists ==
  ASSUME NEW next \in PointerMap, NEW s \in Docs
  PROVE  \E n : Way(next, s, n)
<1>1. PICK w : w = Walk(next, s)  OBVIOUS
<1>2. Hops \in Nat /\ w[0] = s /\ None \notin Docs  BY <1>1, WalkIs, ChainsAssumption
<1>3. \A n \in 0 .. Hops : w[n] \in Docs \cup {None}  BY <1>1, WalkTyped
<1> DEFINE Stops == {h \in 1 .. Hops : w[h] = None \/ \E i \in 0 .. h - 1 : w[i] = w[h]}
<1>4. Stops # {}
  <2>1. CASE \A n \in 0 .. Hops : w[n] \in Docs
    BY <2>1, Returns
  <2>2. CASE \E n \in 0 .. Hops : w[n] = None
    <3>1. PICK n \in 0 .. Hops : w[n] = None  BY <2>2
    <3>2. n \in 1 .. Hops  BY <1>2, <3>1
    <3> QED  BY <3>1, <3>2
  <2> QED  BY <1>3, <2>1, <2>2
<1>5. Stops \in SUBSET Nat  BY <1>2
<1>6. PICK h \in Stops : \A j \in Stops : h <= j
  BY <1>4, <1>5, LeastExists, Zenon
<1>7. h \in 1 .. Hops /\ h - 1 \in 0 .. Hops - 1 /\ h - 1 + 1 = h  BY <1>2
<1>8. \A k \in 1 .. h - 1 : w[k] # None /\ \A i \in 0 .. k - 1 : w[i] # w[k]
  <2> SUFFICES ASSUME NEW k \in 1 .. h - 1
               PROVE  w[k] # None /\ \A i \in 0 .. k - 1 : w[i] # w[k]
    OBVIOUS
  <2>1. k \in 1 .. Hops /\ ~ (h <= k)  BY <1>2, <1>7
  <2> QED  BY <1>6, <2>1
<1>9. \A i \in 0 .. h - 1 : w[i] \in Docs /\ w[i + 1] = next[w[i]]
  <2> SUFFICES ASSUME NEW i \in 0 .. h - 1  PROVE w[i] \in Docs /\ w[i + 1] = next[w[i]]
    OBVIOUS
  <2>1. i \in 0 .. Hops /\ i \in 0 .. Hops - 1 /\ (i = 0 \/ i \in 1 .. h - 1)  BY <1>2, <1>7
  <2>2. w[i] \in Docs  BY <1>2, <1>3, <1>8, <2>1
  <2> QED  BY <1>1, <1>2, <2>1, <2>2, WalkStep
<1>10. \A i, j \in 0 .. h - 1 : w[i] = w[j] => i = j
  <2> SUFFICES ASSUME NEW i \in 0 .. h - 1, NEW j \in 0 .. h - 1, i < j  PROVE w[i] # w[j]
    BY <1>7
  <2>1. j \in 1 .. h - 1 /\ i \in 0 .. j - 1  BY <1>7
  <2> QED  BY <1>8, <2>1
<1>11. w[h] = None \/ \E j \in 0 .. h - 1 : w[h] = w[j]  BY <1>6
<1> QED
  <2>1. Way(next, s, h - 1)  BY <1>1, <1>7, <1>9, <1>10, <1>11 DEF Way
  <2> QED  BY <2>1

\* Its parts, and the hops it takes up.
LEMMA WayOpens ==
  ASSUME NEW next, NEW s, NEW n, Way(next, s, n), NEW w, w = Walk(next, s)
  PROVE  /\ Hops \in Nat /\ n \in Nat /\ n + 1 \in 0 .. Hops /\ 0 .. n \subseteq 0 .. Hops
         /\ w[0] = s /\ s \in Docs
         /\ \A i \in 0 .. n : w[i] \in Docs /\ w[i + 1] = next[w[i]]
         /\ \A i, j \in 0 .. n : w[i] = w[j] => i = j
         /\ w[n + 1] = None \/ \E j \in 0 .. n : w[n + 1] = w[j]
<1>1. Hops \in Nat /\ w[0] = s  BY WalkIs
<1>2. n \in 0 .. Hops - 1  BY DEF Way
<1>3. n \in Nat /\ n + 1 \in 0 .. Hops /\ 0 .. n \subseteq 0 .. Hops /\ 0 \in 0 .. n
  BY <1>1, <1>2
<1>4. \A i \in 0 .. n : w[i] \in Docs /\ w[i + 1] = next[w[i]]
  BY DEF Way
<1> QED  BY <1>1, <1>3, <1>4 DEF Way

\* Nothing else is visited.
LEMMA WayVisits ==
  ASSUME NEW next, NEW s, NEW n, Way(next, s, n), NEW w, w = Walk(next, s)
  PROVE  Visited(next, s) = {w[i] : i \in 0 .. n}
<1>1. /\ Hops \in Nat /\ DOMAIN w = 0 .. Hops /\ None \notin Docs
      /\ \A k \in 1 .. Hops : w[k] = IF w[k - 1] = None THEN None ELSE next[w[k - 1]]
  BY WalkIs, ChainsAssumption
<1>2. /\ n \in Nat /\ n + 1 \in 0 .. Hops /\ 0 .. n \subseteq 0 .. Hops
      /\ \A i \in 0 .. n : w[i] \in Docs /\ w[i + 1] = next[w[i]]
      /\ w[n + 1] = None \/ \E j \in 0 .. n : w[n + 1] = w[j]
  BY WayOpens
<1> DEFINE On  == {w[i] : i \in 0 .. n}
           Off == {k \in 0 .. Hops : w[k] \notin On \cup {None}}
<1>3. Off = {}
  <2> SUFFICES ASSUME Off # {}  PROVE FALSE
    OBVIOUS
  <2>1. Off \in SUBSET Nat  BY <1>1
  <2>2. PICK k \in Off : \A j \in Off : k <= j
    BY <2>1, LeastExists, Zenon
  <2>3. k \in 0 .. Hops /\ k # 0  BY <1>2, <2>2
  <2>4. k - 1 \in 0 .. Hops /\ k \in 1 .. Hops /\ ~ (k <= k - 1)  BY <1>1, <2>3
  <2>5. w[k - 1] \in On \cup {None}  BY <2>2, <2>4
  <2>6. w[k - 1] # None  BY <1>1, <2>2, <2>4
  <2>7. PICK i \in 0 .. n : w[k - 1] = w[i]  BY <2>5, <2>6
  <2>8. w[k] = w[i + 1]
    <3>1. w[k] = next[w[k - 1]]  BY <1>1, <2>4, <2>6
    <3>2. w[i + 1] = next[w[i]]  BY <1>2
    <3> QED  BY <2>7, <3>1, <3>2
  <2>9. i + 1 \in 0 .. n \/ i + 1 = n + 1  BY <1>2
  <2>10. w[i + 1] \in On \cup {None}  BY <1>2, <2>9
  <2> QED  BY <2>2, <2>8, <2>10
<1>4. Range(w) = {w[k] : k \in 0 .. Hops}  BY <1>1 DEF Range
<1>5. \A k \in 0 .. Hops : w[k] \in On \cup {None}  BY <1>3
<1>6. \A i \in 0 .. n : w[i] # None /\ i \in 0 .. Hops  BY <1>1, <1>2
<1> QED  BY <1>4, <1>5, <1>6 DEF Visited

\* A way that comes to an end: it is on no loop, and its last document is the one
\* without a successor.
LEMMA WayEnds ==
  ASSUME NEW next \in PointerMap, NEW s, NEW n, Way(next, s, n), NEW w, w = Walk(next, s),
         w[n + 1] = None
  PROVE  ~ Endless(next, s) /\ LastOf(next, s) = w[n] /\ next[w[n]] = None
<1>1. /\ Hops \in Nat /\ n \in Nat /\ n + 1 \in 0 .. Hops /\ 0 .. n \subseteq 0 .. Hops
      /\ s \in Docs /\ \A i \in 0 .. n : w[i] \in Docs /\ w[i + 1] = next[w[i]]
  BY WayOpens
<1>2. None \notin Docs  BY ChainsAssumption
<1>3. Visited(next, s) = {w[i] : i \in 0 .. n}  BY WayVisits
<1>4. ASSUME NEW e \in Visited(next, s), OnLoop(next, e)  PROVE FALSE
  <2>1. PICK i \in 0 .. n : e = w[i]  BY <1>3
  <2>2. n + 1 \in i .. Hops  BY <1>1
  <2>3. w[n + 1] \in Docs  BY <1>1, <1>4, <2>1, <2>2, LoopGoesOn
  <2> QED  BY <1>2, <2>3
<1>5. n \in 0 .. n /\ next[w[n]] = None  BY <1>1
<1>6. \A e \in Visited(next, s) : next[e] = None => e = w[n]
  <2> SUFFICES ASSUME NEW i \in 0 .. n, next[w[i]] = None  PROVE i = n
    BY <1>3
  <2>1. i # n => i + 1 \in 0 .. n  BY <1>1
  <2>2. w[i + 1] = None  BY <1>1
  <2> QED  BY <1>1, <1>2, <2>1, <2>2
<1>7. w[n] \in Visited(next, s)  BY <1>3, <1>5
<1> QED  BY <1>4, <1>5, <1>6, <1>7 DEF Endless, LastOf

\* A way that comes back: from there on it is a loop.
LEMMA WayTurns ==
  ASSUME NEW next \in PointerMap, NEW s, NEW n, Way(next, s, n), NEW w, w = Walk(next, s),
         NEW j \in 0 .. n, w[n + 1] = w[j]
  PROVE  /\ Endless(next, s)
         /\ OnLoop(next, w[j]) /\ Visited(next, w[j]) = {w[i] : i \in j .. n}
         /\ \A i \in 0 .. n : OnLoop(next, w[i]) => i \in j .. n
<1>1. /\ Hops \in Nat /\ n \in Nat /\ n + 1 \in 0 .. Hops /\ 0 .. n \subseteq 0 .. Hops
      /\ s \in Docs /\ \A i \in 0 .. n : w[i] \in Docs /\ w[i + 1] = next[w[i]]
      /\ \A i, k \in 0 .. n : w[i] = w[k] => i = k
  BY WayOpens
<1>2. None \notin Docs  BY ChainsAssumption
<1>3. Visited(next, s) = {w[i] : i \in 0 .. n}  BY WayVisits
<1>4. OnLoop(next, w[j])
  <2>1. n + 1 - j \in 1 .. Hops /\ j + (n + 1 - j) = n + 1 /\ j \in 0 .. Hops
        /\ n + 1 - j \in 0 .. Hops
    BY <1>1
  <2>2. Walk(next, w[j])[n + 1 - j] = w[n + 1]  BY <1>1, <2>1, WalkOn
  <2> QED  BY <2>1, <2>2 DEF OnLoop, Hops
<1>5. w[j] \in Visited(next, s) /\ w[j] \in Docs  BY <1>1, <1>3
<1>6. \A i \in j .. n : w[i] \in Visited(next, w[j])
  <2> SUFFICES ASSUME NEW i \in j .. n  PROVE w[i] \in Visited(next, w[j])
    OBVIOUS
  <2>1. i \in j .. Hops /\ j \in 0 .. Hops  BY <1>1
  <2> QED  BY <1>1, <1>4, <1>5, <2>1, LoopGoesOn
<1>7. Visited(next, w[j]) \subseteq {w[i] : i \in j .. n}
  <2> DEFINE L == {w[i] : i \in j .. n}
  <2>1. L \in SUBSET Docs /\ w[j] \in L  BY <1>1
  <2>2. \A d \in L : next[d] \in L
    <3> SUFFICES ASSUME NEW i \in j .. n  PROVE next[w[i]] \in L
      OBVIOUS
    <3>1. i \in 0 .. n /\ (i + 1 \in j .. n \/ i + 1 = n + 1)  BY <1>1
    <3>2. next[w[i]] = w[i + 1]  BY <1>1, <3>1
    <3> QED  BY <2>1, <3>1, <3>2
  <2> QED  BY <2>1, <2>2, WalkStays
<1>8. ASSUME NEW i \in 0 .. n, OnLoop(next, w[i])  PROVE i \in j .. n
  <2>1. n + 1 \in i .. Hops /\ i \in 0 .. Hops  BY <1>1
  <2>2. w[j] \in Visited(next, w[i])  BY <1>1, <1>8, <2>1, LoopGoesOn
  <2>3. OnLoop(next, w[i]) /\ w[i] \in Docs  BY <1>1, <1>8
  <2>4. w[i] \in Visited(next, w[j])
    <3>1. PICK v : v = Walk(next, w[i])  OBVIOUS
    <3>2. PICK m \in 1 .. Hops :
             /\ v[0] = w[i] /\ v[m] = w[i]
             /\ \A k \in 0 .. m : v[k] \in Docs
             /\ \A k \in 0 .. m - 1 : v[k + 1] = next[v[k]]
             /\ Visited(next, w[i]) = {v[k] : k \in 0 .. m - 1}
      BY <2>3, <3>1, LoopFacts
    <3>3. PICK k \in 0 .. m - 1 : w[j] = v[k]  BY <2>2, <3>2
    <3>4. /\ k \in 0 .. Hops /\ m - k \in 0 .. Hops /\ k + (m - k) = m /\ m \in 0 .. Hops
      BY <1>1
    <3>5. Walk(next, w[j])[m - k] = w[i]  BY <3>1, <3>2, <3>3, <3>4, WalkOn
    <3>6. DOMAIN Walk(next, w[j]) = 0 .. Hops  BY WalkIs
    <3>7. w[i] # None  BY <1>2, <2>3
    <3> QED  BY <3>4, <3>5, <3>6, <3>7 DEF Visited, Range
  <2>5. PICK k \in j .. n : w[i] = w[k]  BY <1>7, <2>4
  <2>6. k \in 0 .. n  BY <1>1
  <2> QED  BY <1>1, <2>5, <2>6
<1> QED  BY <1>4, <1>5, <1>6, <1>7, <1>8 DEF Endless

\* All of a loop visit the same.
LEMMA LoopIsOne ==
  ASSUME NEW next \in PointerMap, NEW s \in Docs, OnLoop(next, s), NEW d \in Visited(next, s)
  PROVE  d \in Docs /\ OnLoop(next, d) /\ Visited(next, d) = Visited(next, s)
<1>1. d \in Docs /\ OnLoop(next, d) /\ Visited(next, d) \subseteq Visited(next, s)
  BY LoopTurns
<1>2. s \in Visited(next, d)
  <2>1. PICK v : v = Walk(next, s)  OBVIOUS
  <2>2. PICK m \in 1 .. Hops :
           /\ v[0] = s /\ v[m] = s
           /\ \A k \in 0 .. m : v[k] \in Docs
           /\ \A k \in 0 .. m - 1 : v[k + 1] = next[v[k]]
           /\ Visited(next, s) = {v[k] : k \in 0 .. m - 1}
    BY <2>1, LoopFacts
  <2>3. PICK k \in 0 .. m - 1 : d = v[k]  BY <2>2
  <2>4. Hops \in Nat  BY WalkIs
  <2>5. k \in 0 .. Hops /\ m - k \in 0 .. Hops /\ k + (m - k) = m /\ m \in 0 .. Hops  BY <2>4
  <2>6. Walk(next, d)[m - k] = s  BY <2>1, <2>2, <2>3, <2>5, WalkOn
  <2>7. DOMAIN Walk(next, d) = 0 .. Hops  BY WalkIs
  <2> QED  BY <2>5, <2>6, <2>7, ChainsAssumption DEF Visited, Range
<1>3. Visited(next, s) \subseteq Visited(next, d)  BY <1>1, <1>2, LoopTurns
<1> QED  BY <1>1, <1>3

\* The loop a way runs into.
LEMMA LoopAtIs ==
  ASSUME NEW next \in PointerMap, NEW s \in Docs, NEW e \in Visited(next, s), OnLoop(next, e)
  PROVE  LoopAt(next, s) = Visited(next, e) /\ e \in Docs
<1>1. PICK n : Way(next, s, n)  BY WayExists
<1>2. PICK w : w = Walk(next, s)  OBVIOUS
<1>3. /\ n \in Nat /\ n + 1 \in 0 .. Hops
      /\ \A i \in 0 .. n : w[i] \in Docs
      /\ w[n + 1] = None \/ \E j \in 0 .. n : w[n + 1] = w[j]
  BY <1>1, <1>2, WayOpens
<1>4. Endless(next, s)  BY DEF Endless
<1>5. PICK j \in 0 .. n : w[n + 1] = w[j]  BY <1>1, <1>2, <1>3, <1>4, WayEnds
<1>6. Visited(next, s) = {w[i] : i \in 0 .. n}  BY <1>1, <1>2, WayVisits
<1>7. /\ OnLoop(next, w[j]) /\ Visited(next, w[j]) = {w[i] : i \in j .. n}
      /\ \A i \in 0 .. n : OnLoop(next, w[i]) => i \in j .. n
  BY <1>1, <1>2, <1>5, WayTurns
<1>8. ASSUME NEW c \in Visited(next, s), OnLoop(next, c)
      PROVE  c \in Docs /\ Visited(next, c) = Visited(next, w[j])
  <2>1. PICK i \in 0 .. n : c = w[i]  BY <1>6
  <2>2. c \in Visited(next, w[j])  BY <1>7, <1>8, <2>1
  <2> QED  BY <1>3, <1>7, <2>2, LoopIsOne
<1> QED
  <2> DEFINE c == CHOOSE x \in Visited(next, s) : OnLoop(next, x)
  <2>1. c \in Visited(next, s) /\ OnLoop(next, c)  OBVIOUS
  <2>2. LoopAt(next, s) = Visited(next, c)  BY DEF LoopAt
  <2> HIDE DEF c
  <2> QED  BY <1>8, <2>1, <2>2

------------------------------------------------------------------------------
(***************************************************************************)
(* vault_lint.                                                             *)
(***************************************************************************)
\* The edges of vault_lint lead to documents of the vault.
LEMMA EdgesTyped ==
  ASSUME VaultTypeOK
  PROVE  /\ Edges \in PointerMap
         /\ \A d \in Docs : Edges[d] # None => vault[Edges[d]] # Absent
<1>1. \A d \in Docs : vault[d] # Absent => vault[d].by \in Docs \cup {None}
  BY ReadersAssumption DEF VaultTypeOK, Document
<1> QED  BY <1>1 DEF Edges, EdgesOf, PointerMap

\* Every chain that ends hangs from a head.
LEMMA HeadExists ==
  ASSUME NEW next \in PointerMap, NEW d \in Docs, next[d] # None, ~ Endless(next, d)
  PROVE  \E h \in Docs : h \in HeadsByEnd(next, LastOf(next, d)) /\ d \in Visited(next, h)
<1>1. Hops \in Nat /\ None \notin Docs  BY WalkIs, ChainsAssumption
<1> DEFINE Reach(k) == \E x \in Docs : Walk(next, x)[k] = d
           Near == {m \in 0 .. Hops : Reach(Hops - m)}
<1>2. Near # {}
  <2>1. Walk(next, d)[0] = d /\ Hops \in 0 .. Hops /\ Hops - Hops = 0  BY <1>1, WalkIs
  <2> QED  BY <2>1
<1>3. PICK m \in Near : \A j \in Near : m <= j
  <2>1. Near \in SUBSET Nat  BY <1>1
  <2> QED  BY <1>2, <2>1, LeastExists, Zenon
<1>4. PICK k \in 0 .. Hops : k = Hops - m  BY <1>1
<1>5. PICK x \in Docs : Walk(next, x)[k] = d  BY <1>3, <1>4
<1>6. PICK w : w = Walk(next, x)  OBVIOUS
<1>7. DOMAIN w = 0 .. Hops /\ w[0] = x  BY <1>6, WalkIs
<1>8. PICK n : Way(next, x, n)  BY WayExists
<1>9. /\ n \in Nat /\ n + 1 \in 0 .. Hops /\ 0 .. n \subseteq 0 .. Hops
      /\ \A i \in 0 .. n : w[i] \in Docs /\ w[i + 1] = next[w[i]]
      /\ \A i, j \in 0 .. n : w[i] = w[j] => i = j
      /\ w[n + 1] = None \/ \E j \in 0 .. n : w[n + 1] = w[j]
  BY <1>6, <1>8, WayOpens
<1>10. Visited(next, x) = {w[i] : i \in 0 .. n}  BY <1>6, <1>8, WayVisits
<1>11. d \in Visited(next, x)
  BY <1>1, <1>5, <1>6, <1>7 DEF Visited, Range
<1>12. PICK i \in 0 .. n : d = w[i]  BY <1>10, <1>11
<1>13. w[n + 1] = None
  <2> SUFFICES ASSUME NEW j \in 0 .. n, w[n + 1] = w[j]  PROVE FALSE
    BY <1>9
  <2>1. OnLoop(next, w[j])  BY <1>6, <1>8, WayTurns
  <2>2. /\ i \in 0 .. Hops /\ n + 1 - i \in 0 .. Hops /\ i + (n + 1 - i) = n + 1
    BY <1>1, <1>9
  <2>3. Walk(next, d)[n + 1 - i] = w[j]  BY <1>6, <1>9, <1>12, <2>2, WalkOn
  <2>4. w[j] # None  BY <1>1, <1>9
  <2>5. w[j] \in Visited(next, d)  BY <2>2, <2>3, <2>4, WalkMeets
  <2> QED  BY <2>1, <2>5 DEF Endless
<1>14. ~ Endless(next, x) /\ LastOf(next, x) = w[n] /\ next[w[n]] = None
  BY <1>6, <1>8, <1>13, WayEnds
<1>15. LastOf(next, d) = w[n]
  <2>1. PICK v : v = Walk(next, d)  OBVIOUS
  <2>2. PICK l : Way(next, d, l)  BY WayExists
  <2>3. /\ l \in Nat /\ 0 .. l \subseteq 0 .. Hops
        /\ v[l + 1] = None \/ \E j \in 0 .. l : v[l + 1] = v[j]
    BY <2>1, <2>2, WayOpens
  <2>4. v[l + 1] = None  BY <2>1, <2>2, <2>3, WayTurns
  <2>5. LastOf(next, d) = v[l] /\ next[v[l]] = None  BY <2>1, <2>2, <2>4, WayEnds
  <2>6. Visited(next, d) = {v[j] : j \in 0 .. l}  BY <2>1, <2>2, WayVisits
  <2>7. v[l] \in Visited(next, d)  BY <2>3, <2>6
  <2>8. Visited(next, d) \subseteq {w[j] : j \in 0 .. n}
    <3> DEFINE L == {w[j] : j \in i .. n}
    <3>1. \A j \in 0 .. l : v[j] \in L
      <4> SUFFICES ASSUME {j \in 0 .. l : v[j] \notin L} # {}  PROVE FALSE
        OBVIOUS
      <4> DEFINE Off == {j \in 0 .. l : v[j] \notin L}
      <4>1. Off \in SUBSET Nat /\ Off # {}  BY <2>3
      <4>2. PICK j \in Off : \A g \in Off : j <= g
        BY <4>1, LeastExists, Zenon
      <4>3. v[0] = d /\ i \in i .. n  BY <1>9, <2>1, WalkIs
      <4>4. j \in 0 .. l /\ j # 0  BY <1>12, <4>2, <4>3
      <4>5. j - 1 \in 0 .. l /\ ~ (j <= j - 1) /\ j - 1 + 1 = j  BY <2>3, <4>4
      <4>6. PICK g \in i .. n : v[j - 1] = w[g]  BY <4>2, <4>5
      <4>7. v[j] = next[v[j - 1]] /\ v[j] \in Docs  BY <2>1, <2>2, <4>4, <4>5, WayOpens
      <4>8. g \in 0 .. n /\ (g + 1 \in i .. n \/ g + 1 = n + 1)  BY <1>9
      <4>9. v[j] = w[g + 1]  BY <1>9, <4>6, <4>7, <4>8
      <4>10. g + 1 \in i .. n  BY <1>1, <1>13, <4>7, <4>8, <4>9
      <4> QED  BY <4>2, <4>9, <4>10
    <3>2. \A j \in i .. n : j \in 0 .. n  BY <1>9
    <3> QED  BY <2>6, <3>1, <3>2
  <2>9. PICK j \in 0 .. n : v[l] = w[j]  BY <2>7, <2>8
  <2>10. j = n
    <3>1. w[j + 1] = None  BY <1>9, <2>5, <2>9
    <3>2. j # n => j + 1 \in 0 .. n  BY <1>9
    <3> QED  BY <1>1, <1>9, <3>1, <3>2
  <2> QED  BY <2>5, <2>9, <2>10
<1>16. x \notin Range(next)
  <2> SUFFICES ASSUME x \in Range(next)  PROVE FALSE
    OBVIOUS
  <2>1. PICK y \in Docs : next[y] = x  BY DEF Range, PointerMap
  <2>2. k < Hops
    <3>1. k # Hops
      <4> SUFFICES ASSUME k = Hops  PROVE FALSE
        OBVIOUS
      <4>1. n + 1 \in 0 .. Hops /\ Hops \in n + 1 .. Hops  BY <1>1, <1>9
      <4>2. w[Hops] = None  BY <1>6, <1>13, <4>1, WalkEnds
      <4> QED  BY <1>1, <1>5, <1>6, <4>2
    <3> QED  BY <1>1, <3>1
  <2>3. /\ 0 \in 0 .. Hops - 1 /\ 1 \in 0 .. Hops /\ k \in 0 .. Hops /\ 1 + k \in 0 .. Hops
        /\ 0 + 1 = 1 /\ m - 1 \in 0 .. Hops /\ Hops - (m - 1) = 1 + k /\ ~ (m <= m - 1)
    BY <1>1, <1>4, <2>2
  <2>4. Walk(next, y)[0] = y  BY WalkIs
  <2>5. Walk(next, y)[1] = x
    <3>1. Walk(next, y)[0] # None  BY <1>1, <2>4
    <3>2. Walk(next, y)[0 + 1] = next[Walk(next, y)[0]]  BY <2>3, <3>1, WalkStep
    <3> QED  BY <2>1, <2>3, <2>4, <3>2
  <2>6. Walk(next, y)[1 + k] = d
    <3>1. Walk(next, Walk(next, y)[1])[k] = Walk(next, y)[1 + k]  BY <2>3, WalkOn
    <3> QED  BY <1>5, <2>5, <3>1
  <2>7. m - 1 \in Near  BY <2>3, <2>6
  <2> QED  BY <1>3, <2>3, <2>7
<1>17. next[x] # None
  <2>1. CASE i = 0
    BY <1>7, <1>12, <2>1
  <2>2. CASE i # 0
    <3>1. 0 \in 0 .. n /\ 1 \in 0 .. n /\ 0 + 1 = 1  BY <1>9, <2>2
    <3>2. w[1] = next[x] /\ w[1] \in Docs
      <4>1. w[0 + 1] = next[w[0]] /\ w[1] \in Docs  BY <1>9, <3>1
      <4> QED  BY <1>7, <3>1, <4>1
    <3> QED  BY <1>1, <3>2
  <2> QED  BY <2>1, <2>2
<1>18. x \in HeadsByEnd(next, LastOf(next, d))
  BY <1>14, <1>15, <1>16, <1>17 DEF HeadsByEnd
<1> QED  BY <1>11, <1>18

\* Every superseded document is told of.
LEMMA LintTells ==
  ASSUME VaultTypeOK
  PROVE  LintTellsAll
<1>1. /\ Edges \in PointerMap
      /\ \A d \in Docs : Edges[d] # None => vault[Edges[d]] # Absent
  BY EdgesTyped
<1>2. PICK next \in PointerMap : next = Edges  BY <1>1
<1> SUFFICES ASSUME NEW d \in Docs, next[d] # None
             PROVE  IF Endless(next, d)
                    THEN /\ Cardinality({f \in LoopFindings(next) : f.loop = LoopAt(next, d)}) = 1
                         /\ \A f \in EndFindings : d \notin f.heads
                    ELSE LET e == LastOf(next, d)
                         IN  (vault[e].status # "canonical" /\ vault[e].by = None) =>
                               \E f \in EndFindings :
                                 f.path = e /\ \E h \in f.heads : d \in Visited(next, h)
  BY <1>2 DEF LintTellsAll
<1>3. CASE Endless(next, d)
  <2> DEFINE L == LoopAt(next, d)
             x == [path |-> Min(L), loop |-> L]
             F == {f \in LoopFindings(next) : f.loop = L}
  <2>1. F = {x}
    <3> HIDE DEF L
    <3>1. \A f \in LoopFindings(next) : f.loop = L => f = x
      BY DEF LoopFindings
    <3>2. x \in LoopFindings(next)
      BY <1>3 DEF LoopFindings, L
    <3> QED  BY <3>1, <3>2
  <2>2. Cardinality(F) = 1
    <3> HIDE DEF F, x
    <3> QED  BY <2>1, FS_Singleton
  <2>3. \A e : d \notin HeadsByEnd(next, e)  BY <1>3 DEF HeadsByEnd
  <2>4. \A f \in EndFindings : d \notin f.heads
    BY <1>2, <2>3 DEF EndFindings
  <2> QED  BY <1>3, <2>2, <2>4
<1>4. CASE ~ Endless(next, d)
  <2> DEFINE e == LastOf(next, d)
  <2> SUFFICES ASSUME vault[e].status # "canonical", vault[e].by = None
               PROVE  \E f \in EndFindings : f.path = e /\ \E h \in f.heads : d \in Visited(next, h)
    BY <1>4
  <2>1. PICK h \in Docs : h \in HeadsByEnd(next, e) /\ d \in Visited(next, h)
    BY <1>4, HeadExists
  <2>2. e \in Present
    <3>1. PICK v : v = Walk(next, d)  OBVIOUS
    <3>2. PICK l : Way(next, d, l)  BY WayExists
    <3>3. /\ Hops \in Nat /\ l \in Nat /\ v[0] = d
          /\ \A j \in 0 .. l : v[j] \in Docs /\ v[j + 1] = next[v[j]]
          /\ v[l + 1] = None \/ \E j \in 0 .. l : v[l + 1] = v[j]
      BY <3>1, <3>2, WayOpens
    <3>4. v[l + 1] = None  BY <1>4, <3>1, <3>2, <3>3, WayTurns
    <3>5. e = v[l] /\ next[v[l]] = None  BY <3>1, <3>2, <3>4, WayEnds
    <3>6. l # 0  BY <3>3, <3>5
    <3>7. l - 1 \in 0 .. l /\ l \in 0 .. l /\ l - 1 + 1 = l  BY <3>3, <3>6
    <3>8. e = next[v[l - 1]] /\ v[l - 1] \in Docs /\ e \in Docs  BY <3>3, <3>5, <3>7
    <3>9. e # None  BY <3>8, ChainsAssumption
    <3> QED  BY <1>1, <1>2, <3>8, <3>9 DEF Present
  <2>3. [path |-> e, heads |-> HeadsByEnd(Edges, e)] \in EndFindings
    <3> HIDE DEF e
    <3> QED  BY <1>2, <2>1, <2>2 DEF EndFindings
  <2> HIDE DEF e
  <2> QED  BY <1>2, <2>1, <2>3
<1> QED  BY <1>3, <1>4

\* A loop that avoids the one document whose pointer changes was there before.
LEMMA LoopWithout ==
  ASSUME NEW next \in PointerMap, NEW new \in PointerMap, NEW d,
         \A x \in Docs \ {d} : new[x] = next[x],
         NEW s \in Docs, OnLoop(new, s), ~ OnLoop(new, d)
  PROVE  OnLoop(next, s) /\ Visited(next, s) = Visited(new, s)
<1>1. d \notin Visited(new, s)  BY LoopTurns
<1>2. PICK v, w : v = Walk(new, s) /\ w = Walk(next, s)  OBVIOUS
<1>3. /\ Hops \in Nat /\ v[0] = s /\ w[0] = s
      /\ DOMAIN v = 0 .. Hops /\ DOMAIN w = 0 .. Hops
      /\ \A m \in 1 .. Hops : v[m] = IF v[m - 1] = None THEN None ELSE new[v[m - 1]]
      /\ \A m \in 1 .. Hops : w[m] = IF w[m - 1] = None THEN None ELSE next[w[m - 1]]
  BY <1>2, WalkIs
<1>4. PICK L \in SUBSET Docs : L = Visited(new, s) /\ s \in L /\ \A x \in L : new[x] \in L
  BY LoopClosed
<1>5. \A m \in 0 .. Hops : v[m] \in L  BY <1>2, <1>4, WalkStays
<1>6. None \notin Docs  BY ChainsAssumption
<1>7. \A m \in 0 .. Hops : v[m] = w[m]
  <2> DEFINE Off == {m \in 0 .. Hops : v[m] # w[m]}
  <2> SUFFICES ASSUME Off # {}  PROVE FALSE
    OBVIOUS
  <2>1. Off \in SUBSET Nat  BY <1>3
  <2>2. PICK m \in Off : \A j \in Off : m <= j
    BY <2>1, LeastExists, Zenon
  <2>3. m \in 0 .. Hops /\ m # 0  BY <1>3, <2>2
  <2>4. m - 1 \in 0 .. Hops /\ m \in 1 .. Hops /\ ~ (m <= m - 1)  BY <1>3, <2>3
  <2>5. v[m - 1] = w[m - 1] /\ v[m - 1] \in L  BY <1>5, <2>2, <2>4
  <2>6. new[v[m - 1]] = next[v[m - 1]]  BY <1>1, <1>4, <2>5
  <2> QED  BY <1>3, <2>2, <2>4, <2>5, <2>6
<1>8. PICK m \in 1 .. Hops : v[m] = s  BY <1>2 DEF OnLoop, Hops
<1>9. w[m] = s  BY <1>3, <1>7, <1>8
<1>10. OnLoop(next, s)  BY <1>2, <1>9 DEF OnLoop, Hops
<1>11. Range(v) = Range(w)  BY <1>3, <1>7 DEF Range
<1> QED  BY <1>2, <1>10, <1>11 DEF Visited

\* A pointer that the guard lets through makes no loop that lint would report.
LEMMA GuardAgrees ==
  ASSUME VaultTypeOK
  PROVE  GuardAgreesWithLint
<1>1. PICK next \in PointerMap : next = Edges  BY EdgesTyped
<1> SUFFICES ASSUME NEW d \in Present, NEW t \in Present,
                    ~ ClosesLoop(next, [e \in {d} |-> t])
             PROVE  LoopFindings([next EXCEPT ![d] = t]) \subseteq LoopFindings(next)
  BY <1>1 DEF GuardAgreesWithLint
<1>2. d \in Docs /\ t \in Docs  BY DEF Present
<1>3. PICK new \in PointerMap : new = [next EXCEPT ![d] = t]
  BY <1>2 DEF PointerMap
<1>4. \A x \in Docs \ {d} : new[x] = next[x]  BY <1>3 DEF PointerMap
<1>5. ~ OnLoop(new, d)
  <2>1. new = [e \in Docs |-> IF e \in DOMAIN [x \in {d} |-> t]
                              THEN [x \in {d} |-> t][e] ELSE next[e]]
    BY <1>2, <1>3 DEF PointerMap
  <2> QED  BY <2>1 DEF ClosesLoop
<1>6. ASSUME NEW x \in Docs, Endless(new, x)
      PROVE  \E y \in Docs : Endless(next, y) /\ LoopAt(next, y) = LoopAt(new, x)
  <2>1. PICK e \in Visited(new, x) : OnLoop(new, e)  BY <1>6 DEF Endless
  <2>2. LoopAt(new, x) = Visited(new, e) /\ e \in Docs  BY <2>1, LoopAtIs
  <2>3. OnLoop(next, e) /\ Visited(next, e) = Visited(new, e)
    BY <1>4, <1>5, <2>1, <2>2, LoopWithout
  <2>4. e \in Visited(next, e)  BY <2>2, <2>3, LoopClosed
  <2>5. Endless(next, e) /\ LoopAt(next, e) = Visited(next, e)
    BY <2>2, <2>3, <2>4, LoopAtIs DEF Endless
  <2> QED  BY <2>2, <2>3, <2>5
<1> QED  BY <1>3, <1>6 DEF LoopFindings

\* Windows a document hands on.
LEMMA HandoffsTell ==
  ASSUME VaultTypeOK
  PROVE  HandoffsAudited
<1> SUFFICES ASSUME NEW d \in Present, Rows(vault)[d] \in Present \ {d}, PairFindings(d) = {},
                    NEW w, w = vault[d].window, NEW s, s = vault[Rows(vault)[d]].window,
                    w.until \in Int, s.from \in Int, ~ Malformed(w), ~ Inverted(w)
             PROVE  w.until = s.from /\ \A day \in Days : ~ (InWindow(w, day) /\ InWindow(s, day))
  BY DEF HandoffsAudited
<1>1. w.until # None  BY ReadersAssumption
<1>2. {f \in {"overlap", "gap"} : IF f = "overlap" THEN s.from < w.until ELSE s.from > w.until} = {}
  BY <1>1 DEF PairFindings
<1>3. ~ (s.from < w.until) /\ ~ (s.from > w.until)  BY <1>2
<1>4. w.until = s.from  BY <1>3
<1>5. ASSUME NEW day \in Days, InWindow(w, day), InWindow(s, day)  PROVE FALSE
  <2>1. day \in Int /\ s.from # None  BY ReadersAssumption
  <2>2. day < w.until /\ s.from <= day  BY <1>1, <1>5, <2>1 DEF InWindow
  <2> QED  BY <1>4, <2>1, <2>2
<1> QED  BY <1>4, <1>5

\* Every vault the readers meet is one.
LEMMA Documents == Vaults => []VaultTypeOK
<1>1. Empty => VaultTypeOK  BY DEF Empty, VaultTypeOK
<1>2. VaultTypeOK /\ [Grow]_vaultVars => VaultTypeOK'
  <2> SUFFICES ASSUME VaultTypeOK, [Grow]_vaultVars  PROVE VaultTypeOK'
    OBVIOUS
  <2>1. CASE UNCHANGED vaultVars  BY <2>1 DEF VaultTypeOK, vaultVars
  <2>2. ASSUME NEW d \in Docs, Create(d)  PROVE VaultTypeOK'
    BY <2>2 DEF Create, VaultTypeOK
  <2> QED  BY <2>1, <2>2 DEF Grow
<1> QED  BY <1>1, <1>2, PTL DEF Vaults

\* vault_lint, of every vault: each superseded document is told of, by its loop's one
\* finding or by one on its chain's end; a pointer that refuseSupersedeLoop lets
\* through adds no loop; and a hand-off it is silent about leaves no day to both
\* documents, nor one between them.
THEOREM LintSoundHolds == Vaults => []LintSound
<1>1. VaultTypeOK => LintSound
  BY LintTells, GuardAgrees, HandoffsTell DEF LintSound
<1> QED  BY <1>1, Documents, PTL

------------------------------------------------------------------------------
(***************************************************************************)
(* The trail of a document a caller may read: the rows a walk along exact  *)
(* paths passes before it ends, is cut short, or comes back.               *)
(***************************************************************************)
IsVault(v) == v \in [Docs -> Document \cup {Absent}]

\* The vault and its blanked copy show the same.
LEMMA VaultIs ==
  ASSUME VaultTypeOK
  PROVE  /\ IsVault(vault) /\ IsVault(Blanked(vault)) /\ readable \subseteq Docs
         /\ \A d \in Docs : Blanked(vault)[d] = Absent <=> vault[d] = Absent
         /\ Shown(Blanked(vault)) = Shown(vault)
         /\ \A d \in readable : Blanked(vault)[d] = vault[d]
<1>1. readable \subseteq Docs /\ vault \in [Docs -> Contents \cup {Absent}]  BY DEF VaultTypeOK
<1>2. IsVault(vault)  BY <1>1, ReadersAssumption DEF IsVault
<1> DEFINE none == [status |-> "canonical", by |-> None, exact |-> TRUE,
                    window |-> [from |-> None, until |-> None]]
<1>3. none \in Document  BY DEF Document, DocStatuses, Window, Endpoint
<1>4. none # Absent  BY <1>3, ReadersAssumption
<1>5. \A d \in Docs : Blanked(vault)[d] = IF d \in readable \/ vault[d] = Absent THEN vault[d] ELSE none
  BY DEF Blanked
<1>6. Blanked(vault) = [d \in Docs |-> IF d \in readable \/ vault[d] = Absent THEN vault[d] ELSE none]
  BY DEF Blanked
<1>7. IsVault(Blanked(vault))
  <2> HIDE DEF none
  <2> QED  BY <1>2, <1>3, <1>6 DEF IsVault
<1> HIDE DEF none
<1> QED  BY <1>1, <1>2, <1>4, <1>5, <1>7 DEF Shown

\* What the index says of a document.
LEMMA RowsAre ==
  ASSUME NEW v, IsVault(v)
  PROVE  /\ DOMAIN Rows(v) = Docs \cup {Elsewhere}
         /\ \A d \in Docs \cup {Elsewhere} : Rows(v)[d] \in Docs \cup {None, Elsewhere}
         /\ \A d \in Docs \cup {Elsewhere} : d \notin Docs \/ v[d] = Absent => Rows(v)[d] = None
         /\ \A d \in Docs : v[d] # Absent => Rows(v)[d] = Spelt(v, d)
         /\ \A d \in Docs : v[d] # Absent => (Rows(v)[d] = None <=> v[d].by = None)
<1>1. \A d \in Docs : v[d] # Absent => v[d].by \in Docs \cup {None}
  BY DEF IsVault, Document
<1>2. \A d \in Docs : v[d] # Absent => Spelt(v, d) \in Docs \cup {None, Elsewhere}
                                       /\ (Spelt(v, d) = None <=> v[d].by = None)
  BY <1>1, ReadersAssumption, ChainsAssumption DEF Spelt
<1> QED  BY <1>1, <1>2 DEF Rows

\* The rows of what a caller may read, as a graph of its own.
ShownNext(v) ==
  [e \in Docs |-> IF Rows(v)[e] \in Shown(v) THEN Rows(v)[e] ELSE None]

Trail(v, d, n) ==
  LET p == Walk(Rows(v), d)
  IN  /\ n \in 0 .. Hops - 1
      /\ \A i \in 0 .. n : p[i] \in Shown(v) /\ p[i + 1] = Rows(v)[p[i]]
      /\ \A i, j \in 0 .. n : p[i] = p[j] => i = j
      /\ p[n + 1] \notin Shown(v) \/ \E j \in 0 .. n : p[n + 1] = p[j]

\* Its parts, and what is known of the documents on it.
LEMMA TrailOpens ==
  ASSUME readable \subseteq Docs, NEW v, NEW d, NEW n, Trail(v, d, n), NEW p, p = Walk(Rows(v), d)
  PROVE  /\ Hops \in Nat /\ n \in Nat /\ n + 1 \in 1 .. Hops /\ 0 .. n + 1 \subseteq 0 .. Hops
         /\ p[0] = d /\ n \in 0 .. n /\ 0 \in 0 .. n
         /\ \A i \in 0 .. n : p[i] \in Shown(v) /\ p[i] \in Docs /\ p[i] \in readable
                              /\ v[p[i]] # Absent /\ p[i + 1] = Rows(v)[p[i]]
         /\ \A i, j \in 0 .. n : p[i] = p[j] => i = j
         /\ p[n + 1] \notin Shown(v) \/ \E j \in 0 .. n : p[n + 1] = p[j]
<1>1. Hops \in Nat /\ p[0] = d  BY WalkIs
<1>2. n \in 0 .. Hops - 1  BY DEF Trail
<1>3. n \in Nat /\ n + 1 \in 1 .. Hops /\ 0 .. n + 1 \subseteq 0 .. Hops /\ n \in 0 .. n /\ 0 \in 0 .. n
  BY <1>1, <1>2
<1>4. \A i \in 0 .. n : p[i] \in Shown(v) /\ p[i + 1] = Rows(v)[p[i]]
  BY DEF Trail
<1>5. \A x \in Shown(v) : x \in Docs /\ x \in readable /\ v[x] # Absent  BY DEF Shown
<1>6. \A i, j \in 0 .. n : p[i] = p[j] => i = j  BY DEF Trail
<1>7. p[n + 1] \notin Shown(v) \/ \E j \in 0 .. n : p[n + 1] = p[j]  BY DEF Trail
<1> QED  BY <1>1, <1>3, <1>4, <1>5, <1>6, <1>7

\* They are a pointer map.
LEMMA ShownNextIs ==
  ASSUME readable \subseteq Docs, NEW v
  PROVE  ShownNext(v) \in PointerMap /\ Shown(v) \subseteq Docs
BY DEF ShownNext, PointerMap, Shown

\* The trail is the way along the shown rows, one hop short of what it is not
\* shown.
LEMMA TrailIsWay ==
  ASSUME readable \subseteq Docs, NEW v, NEW d, NEW n, Trail(v, d, n),
         NEW p, p = Walk(Rows(v), d), NEW q, q = Walk(ShownNext(v), d)
  PROVE  /\ Way(ShownNext(v), d, n)
         /\ \A i \in 0 .. n : q[i] = p[i]
         /\ q[n + 1] = IF p[n + 1] \in Shown(v) THEN p[n + 1] ELSE None
<1>1. /\ Hops \in Nat /\ n \in Nat /\ n + 1 \in 1 .. Hops /\ 0 .. n + 1 \subseteq 0 .. Hops
      /\ p[0] = d /\ n \in 0 .. n
      /\ \A i \in 0 .. n : p[i] \in Shown(v) /\ p[i] \in Docs /\ p[i + 1] = Rows(v)[p[i]]
      /\ \A i, j \in 0 .. n : p[i] = p[j] => i = j
      /\ p[n + 1] \notin Shown(v) \/ \E j \in 0 .. n : p[n + 1] = p[j]
  BY TrailOpens
<1>2. /\ q[0] = d
      /\ \A m \in 1 .. Hops : q[m] = IF q[m - 1] = None THEN None ELSE ShownNext(v)[q[m - 1]]
  BY WalkIs
<1>3. None \notin Docs  BY ChainsAssumption
<1>4. \A x \in Docs : ShownNext(v)[x] = IF Rows(v)[x] \in Shown(v) THEN Rows(v)[x] ELSE None
  BY DEF ShownNext
<1>5. \A i \in 0 .. n : q[i] = p[i]
  <2> DEFINE Off == {i \in 0 .. n : q[i] # p[i]}
  <2> SUFFICES ASSUME Off # {}  PROVE FALSE
    OBVIOUS
  <2>1. Off \in SUBSET Nat  BY <1>1
  <2>2. PICK i \in Off : \A j \in Off : i <= j
    BY <2>1, LeastExists, Zenon
  <2>3. i \in 0 .. n /\ i # 0  BY <1>1, <1>2, <2>2
  <2>4. i - 1 \in 0 .. n /\ i \in 1 .. Hops /\ ~ (i <= i - 1) /\ i - 1 + 1 = i  BY <1>1, <2>3
  <2>5. q[i - 1] = p[i - 1]  BY <2>2, <2>4
  <2>6. p[i - 1] \in Docs /\ p[i] \in Shown(v) /\ p[i] = Rows(v)[p[i - 1]]
    BY <1>1, <2>3, <2>4
  <2>7. q[i] = p[i]  BY <1>2, <1>3, <1>4, <2>4, <2>5, <2>6
  <2> QED  BY <2>2, <2>7
<1>6. n + 1 - 1 = n /\ q[n] = p[n] /\ p[n] \in Docs  BY <1>1, <1>5
<1>7. q[n + 1] = ShownNext(v)[p[n]]  BY <1>1, <1>2, <1>3, <1>6
<1>8. q[n + 1] = IF p[n + 1] \in Shown(v) THEN p[n + 1] ELSE None
  BY <1>1, <1>4, <1>6, <1>7
<1>9. \A i \in 0 .. n : q[i] \in Docs /\ q[i + 1] = ShownNext(v)[q[i]]
  <2> SUFFICES ASSUME NEW i \in 0 .. n  PROVE q[i + 1] = ShownNext(v)[q[i]]
    BY <1>1, <1>5
  <2>1. i + 1 \in 1 .. Hops /\ i + 1 - 1 = i /\ q[i] \in Docs  BY <1>1, <1>5
  <2> QED  BY <1>2, <1>3, <2>1
<1>10. q[n + 1] = None \/ \E j \in 0 .. n : q[n + 1] = q[j]
  BY <1>1, <1>5, <1>8
<1>11. \A i, j \in 0 .. n : q[i] = q[j] => i = j  BY <1>1, <1>5
<1>12. n \in 0 .. Hops - 1  BY <1>1
<1> QED  BY <1>5, <1>8, <1>9, <1>10, <1>11, <1>12 DEF Way

\* Every document a caller may read has one.
LEMMA TrailExists ==
  ASSUME readable \subseteq Docs, NEW v, NEW d \in Shown(v)
  PROVE  \E n : Trail(v, d, n)
<1>1. PICK p, q : p = Walk(Rows(v), d) /\ q = Walk(ShownNext(v), d)  OBVIOUS
<1>2. d \in Docs /\ None \notin Docs /\ Shown(v) \subseteq Docs
  BY ChainsAssumption DEF Shown
<1>3. PICK n : Way(ShownNext(v), d, n)  BY <1>2, ShownNextIs, WayExists
<1>4. /\ Hops \in Nat /\ n \in Nat /\ n + 1 \in 0 .. Hops /\ 0 .. n \subseteq 0 .. Hops
      /\ q[0] = d
      /\ \A i \in 0 .. n : q[i] \in Docs /\ q[i + 1] = ShownNext(v)[q[i]]
      /\ \A i, j \in 0 .. n : q[i] = q[j] => i = j
      /\ q[n + 1] = None \/ \E j \in 0 .. n : q[n + 1] = q[j]
  BY <1>1, <1>3, WayOpens
<1>5. /\ p[0] = d
      /\ \A m \in 1 .. Hops : p[m] = IF p[m - 1] = None THEN None ELSE Rows(v)[p[m - 1]]
  BY <1>1, WalkIs
<1>6. \A x \in Docs : ShownNext(v)[x] = IF Rows(v)[x] \in Shown(v) THEN Rows(v)[x] ELSE None
  BY DEF ShownNext
<1>7. \A i \in 0 .. n : q[i] = p[i] /\ q[i] \in Shown(v)
  <2> DEFINE Off == {i \in 0 .. n : ~ (q[i] = p[i] /\ q[i] \in Shown(v))}
  <2> SUFFICES ASSUME Off # {}  PROVE FALSE
    OBVIOUS
  <2>1. Off \in SUBSET Nat  BY <1>4
  <2>2. PICK i \in Off : \A j \in Off : i <= j
    BY <2>1, LeastExists, Zenon
  <2>3. i \in 0 .. n /\ i # 0  BY <1>4, <1>5, <2>2
  <2>4. i - 1 \in 0 .. n /\ i \in 1 .. Hops /\ ~ (i <= i - 1) /\ i - 1 + 1 = i  BY <1>4, <2>3
  <2>5. q[i - 1] = p[i - 1] /\ q[i - 1] \in Docs  BY <1>4, <2>2, <2>4
  <2>6. q[i] = ShownNext(v)[q[i - 1]] /\ q[i] \in Docs  BY <1>4, <2>3, <2>4
  <2>7. q[i] \in Shown(v) /\ q[i] = Rows(v)[q[i - 1]]  BY <1>2, <1>6, <2>5, <2>6
  <2>8. p[i] = Rows(v)[p[i - 1]]  BY <1>2, <1>5, <2>4, <2>5
  <2> QED  BY <2>2, <2>5, <2>7, <2>8
<1>8. \A i \in 0 .. n : p[i] \in Shown(v) /\ p[i + 1] = Rows(v)[p[i]]
  <2> SUFFICES ASSUME NEW i \in 0 .. n  PROVE p[i + 1] = Rows(v)[p[i]]
    BY <1>7
  <2>1. i + 1 \in 1 .. Hops /\ i + 1 - 1 = i /\ p[i] \in Docs  BY <1>2, <1>4, <1>7
  <2> QED  BY <1>2, <1>5, <2>1
<1>9. n \in 0 .. n /\ p[n] = q[n] /\ q[n] \in Docs  BY <1>4, <1>7
<1>10. q[n + 1] = IF p[n + 1] \in Shown(v) THEN p[n + 1] ELSE None
  BY <1>4, <1>6, <1>8, <1>9
<1>11. p[n + 1] \notin Shown(v) \/ \E j \in 0 .. n : p[n + 1] = p[j]
  BY <1>2, <1>4, <1>7, <1>10
<1>12. n \in 0 .. Hops - 1 /\ \A i, j \in 0 .. n : p[i] = p[j] => i = j  BY <1>4, <1>7
<1> QED
  <2>1. Trail(v, d, n)  BY <1>1, <1>8, <1>11, <1>12 DEF Trail
  <2> QED  BY <2>1

\* The least of a set of numbers, once it is known.
LEMMA MinIs ==
  ASSUME NEW S \in SUBSET Nat, NEW m \in S, \A k \in S : m <= k
  PROVE  Min(S) = m
<1>1. \A k \in S : (\A j \in S : k <= j) => k = m
  <2> SUFFICES ASSUME NEW k \in S, \A j \in S : k <= j  PROVE k = m
    OBVIOUS
  <2>1. k <= m /\ m <= k /\ k \in Nat /\ m \in Nat  OBVIOUS
  <2> QED  BY <2>1
<1> QED  BY <1>1 DEF Min

\* A set of numbers has its Min.
LEMMA MinOf ==
  ASSUME NEW S \in SUBSET Nat, S # {}
  PROVE  Min(S) \in S /\ \A k \in S : Min(S) <= k
<1>1. PICK m \in S : \A k \in S : m <= k  BY LeastExists, Zenon
<1>2. Min(S) = m  BY <1>1, MinIs
<1> QED  BY <1>1, <1>2

\* What lies at the end of a trail.
Turns(v, x)  == x \in Shown(v)
Hidden(v, x) == x \in Docs /\ v[x] # Absent /\ x \notin readable
Gone(v, x)   == x \notin Docs \/ v[x] = Absent

\* A trail ends in one of three ways.
LEMMA EndCases ==
  ASSUME NEW v, NEW x
  PROVE  /\ Turns(v, x) \/ Hidden(v, x) \/ Gone(v, x)
         /\ Turns(v, x) => ~ Hidden(v, x) /\ (readable \subseteq Docs => ~ Gone(v, x))
         /\ Hidden(v, x) => ~ Gone(v, x)
BY DEF Turns, Hidden, Gone, Shown

\* A stretch of a walk.
Stretch(p, j, n) == {p[i] : i \in j .. n}

EndsInLoop(v, d, loop) == WalkEnd(v, d) = [kind |-> "loop", at |-> loop, dangling |-> FALSE]

\* vault_chains: what the walk of a document ends at.
LEMMA TrailEnd ==
  ASSUME readable \subseteq Docs, NEW v, IsVault(v), NEW d \in Shown(v), NEW n, Trail(v, d, n),
         NEW p, p = Walk(Rows(v), d), NEW x, x = p[n + 1]
  PROVE  /\ Gone(v, x) =>
              WalkEnd(v, d) = [kind |-> "head", at |-> {p[n]}, dangling |-> x # None]
         /\ Hidden(v, x) =>
              WalkEnd(v, d) = [kind |-> "restricted", at |-> {x}, dangling |-> FALSE]
         /\ \A j \in 0 .. n : x = p[j] => EndsInLoop(v, d, Stretch(p, j, n))
<1> DEFINE onward == [e \in Docs |-> LET r == Rows(v)[e]
                                     IN IF r \in Docs /\ v[r] # Absent THEN r ELSE None]
           shown  == [e \in Docs |-> IF onward[e] \in readable THEN onward[e] ELSE None]
           last   == LastOf(shown, d)
<1>1. WalkEnd(v, d) =
        IF Endless(shown, d)
        THEN [kind |-> "loop", at |-> LoopAt(shown, d), dangling |-> FALSE]
        ELSE IF onward[last] # None
        THEN [kind |-> "restricted", at |-> {onward[last]}, dangling |-> FALSE]
        ELSE [kind |-> "head", at |-> {last}, dangling |-> Rows(v)[last] # None]
  BY DEF WalkEnd
<1>2. None \notin Docs /\ d \in Docs  BY ChainsAssumption DEF Shown
<1>3. shown = ShownNext(v)
  <2>1. \A e \in Docs : shown[e] = ShownNext(v)[e]
    BY <1>2 DEF ShownNext, Shown
  <2>2. shown = [e \in Docs |-> shown[e]] /\ ShownNext(v) = [e \in Docs |-> ShownNext(v)[e]]
    BY DEF ShownNext
  <2> HIDE DEF shown
  <2> QED  BY <2>1, <2>2
<1>4. \A e \in Docs : onward[e] = LET r == Rows(v)[e]
                                  IN IF r \in Docs /\ v[r] # Absent THEN r ELSE None
  OBVIOUS
<1> HIDE DEF onward, shown
<1>5. PICK next \in PointerMap : next = ShownNext(v)  BY ShownNextIs
<1>6. PICK q : q = Walk(next, d)  OBVIOUS
<1>7. /\ Way(next, d, n)
      /\ \A i \in 0 .. n : q[i] = p[i]
      /\ q[n + 1] = IF x \in Shown(v) THEN x ELSE None
  BY <1>5, <1>6, TrailIsWay
<1>8. /\ n \in Nat /\ n \in 0 .. n
      /\ \A i \in 0 .. n : p[i] \in Shown(v) /\ p[i] \in Docs /\ p[i + 1] = Rows(v)[p[i]]
  BY TrailOpens
<1>9. ASSUME x \notin Shown(v)  PROVE ~ Endless(shown, d) /\ last = p[n] /\ Rows(v)[last] = x
  <2>1. q[n + 1] = None  BY <1>7, <1>9
  <2>2. ~ Endless(next, d) /\ LastOf(next, d) = q[n]  BY <1>6, <1>7, <2>1, WayEnds
  <2> QED  BY <1>3, <1>5, <1>7, <1>8, <2>2
<1>10. ASSUME Gone(v, x)
       PROVE  WalkEnd(v, d) = [kind |-> "head", at |-> {p[n]}, dangling |-> x # None]
  <2>1. x \notin Shown(v)  BY <1>10 DEF Gone, Shown
  <2>2. ~ Endless(shown, d) /\ last = p[n] /\ Rows(v)[last] = x  BY <1>9, <2>1
  <2>3. onward[last] = None  BY <1>4, <1>8, <1>10, <2>2 DEF Gone
  <2> QED  BY <1>1, <2>2, <2>3
<1>11. ASSUME Hidden(v, x)
       PROVE  WalkEnd(v, d) = [kind |-> "restricted", at |-> {x}, dangling |-> FALSE]
  <2>1. x \notin Shown(v)  BY <1>11 DEF Hidden, Shown
  <2>2. ~ Endless(shown, d) /\ last = p[n] /\ Rows(v)[last] = x  BY <1>9, <2>1
  <2>3. onward[last] = x /\ x # None  BY <1>2, <1>4, <1>8, <1>11, <2>2 DEF Hidden
  <2> QED  BY <1>1, <2>2, <2>3
<1>12. ASSUME NEW j \in 0 .. n, x = p[j]
       PROVE  EndsInLoop(v, d, Stretch(p, j, n))
  <2>1. q[n + 1] = q[j] /\ q[j] = p[j]  BY <1>7, <1>8, <1>12
  <2>2. /\ Endless(next, d) /\ OnLoop(next, q[j])
        /\ Visited(next, q[j]) = {q[i] : i \in j .. n}
    BY <1>6, <1>7, <2>1, WayTurns
  <2>3. q[j] \in Visited(next, d)  BY <1>6, <1>7, WayVisits
  <2>4. LoopAt(next, d) = {q[i] : i \in j .. n}  BY <1>2, <2>2, <2>3, LoopAtIs
  <2>5. \A i \in j .. n : q[i] = p[i]  BY <1>7, <1>8
  <2>6. LoopAt(next, d) = {p[i] : i \in j .. n}  BY <2>4, <2>5
  <2>7. LoopAt(next, d) = Stretch(p, j, n)  BY <2>6 DEF Stretch
  <2> QED  BY <1>1, <1>3, <1>5, <2>2, <2>7 DEF EndsInLoop
<1> QED  BY <1>10, <1>11, <1>12

\* search: what the walk of a document resolves to.
LEMMA TrailSource ==
  ASSUME readable \subseteq Docs, NEW v, IsVault(v), NEW d \in Shown(v), NEW n, Trail(v, d, n),
         NEW p, p = Walk(Rows(v), d), NEW x, x = p[n + 1]
  PROVE  /\ x = None /\ n = 0 => CurrentSource(v, d) = [kind |-> "current"]
         /\ x = None /\ n # 0 => CurrentSource(v, d) = [kind |-> "resolved", path |-> p[n], hops |-> n]
         /\ x # None /\ Gone(v, x) => CurrentSource(v, d) = [kind |-> "dangling", path |-> p[n]]
         /\ Hidden(v, x) => CurrentSource(v, d) = [kind |-> "restricted"]
         /\ Turns(v, x) => CurrentSource(v, d) = [kind |-> "cycle"]
<1> DEFINE Stops(h) == p[h] = None \/ Seen(p, h) \/ Missing(v, p[h]) \/ p[h] \notin readable
           S == {i \in HopNumbers : Stops(i)}
<1>1. /\ Hops \in Nat /\ n \in Nat /\ n + 1 \in 1 .. Hops /\ p[0] = d /\ n \in 0 .. n /\ 0 \in 0 .. n
      /\ \A i \in 0 .. n : p[i] \in Docs /\ p[i] \in readable /\ v[p[i]] # Absent
                           /\ p[i + 1] = Rows(v)[p[i]]
      /\ \A i, j \in 0 .. n : p[i] = p[j] => i = j
      /\ x \notin Shown(v) \/ \E j \in 0 .. n : x = p[j]
  BY TrailOpens
<1>2. None \notin Docs /\ Elsewhere \notin Docs /\ None # Elsewhere
  BY ChainsAssumption, ReadersAssumption
<1>3. x \in Docs \cup {None, Elsewhere}  BY <1>1, RowsAre
<1>4. n + 1 - 1 = n /\ 0 .. n + 1 - 1 = 0 .. n  BY <1>1
<1>5. Seen(p, n + 1) <=> \E j \in 0 .. n : x = p[j]
  <2>1. \A i : i \in 0 .. (n + 1) - 1 <=> i \in 0 .. n  BY <1>1
  <2>2. Seen(p, n + 1) <=> \E i \in 0 .. (n + 1) - 1 : p[i] = p[n + 1]  BY DEF Seen
  <2> QED  BY <2>1, <2>2
<1>6. Missing(v, x) <=> x = Elsewhere \/ v[x] = Absent  BY DEF Missing
<1>7. HopNumbers = 1 .. Hops  BY DEF HopNumbers, Hops
<1>8. \A i \in 1 .. n : ~ Stops(i)
  <2> SUFFICES ASSUME NEW i \in 1 .. n  PROVE ~ Stops(i)
    OBVIOUS
  <2>1. i \in 0 .. n  BY <1>1
  <2>2. p[i] \in Docs /\ p[i] \in readable /\ v[p[i]] # Absent  BY <1>1, <2>1
  <2>3. ~ Missing(v, p[i])  BY <1>2, <2>2 DEF Missing
  <2>4. ~ Seen(p, i)
    <3>1. \A j \in 0 .. i - 1 : j \in 0 .. n /\ j # i  BY <1>1
    <3> QED  BY <1>1, <2>1, <3>1 DEF Seen
  <2> QED  BY <1>2, <2>2, <2>3, <2>4
<1>9. Stops(n + 1)
  <2>1. x \in Shown(v) => Seen(p, n + 1)  BY <1>1, <1>5
  <2>2. x \notin Shown(v) => x = None \/ Missing(v, x) \/ x \notin readable
    BY <1>3, <1>6 DEF Shown
  <2> QED  BY <2>1, <2>2
<1>10. Min(S) = n + 1
  <2>1. S \in SUBSET Nat  BY <1>1, <1>7
  <2>2. n + 1 \in S  BY <1>1, <1>7, <1>9
  <2>3. \A k \in S : n + 1 <= k
    <3> SUFFICES ASSUME NEW k \in S, ~ (n + 1 <= k)  PROVE FALSE
      OBVIOUS
    <3>1. k \in 1 .. n  BY <1>1, <1>7
    <3> QED  BY <1>8, <3>1
  <2> HIDE DEF S
  <2> QED  BY <2>1, <2>2, <2>3, MinIs
<1>11. PICK h : h = Min(S)  OBVIOUS
<1>12. CurrentSource(v, d) =
         CASE p[1] = None                     -> [kind |-> "current"]
           [] h > 1 /\ p[h] = None            -> [kind |-> "resolved", path |-> p[h - 1], hops |-> h - 1]
           [] p[h] # None /\ Seen(p, h)       -> [kind |-> "cycle"]
           [] p[h] # None /\ ~Seen(p, h) /\ Missing(v, p[h]) -> [kind |-> "dangling", path |-> p[h - 1]]
           [] OTHER                           -> [kind |-> "restricted"]
  BY <1>11 DEF CurrentSource
<1>13. h = n + 1 /\ p[h] = x /\ h - 1 = n  <2>1. h = n + 1  BY <1>10, <1>11
  <2>2. h - 1 = n  BY <1>1, <2>1
  <2> QED  BY <2>1, <2>2
<1>14. p[1] = None <=> n = 0 /\ x = None
  <2>1. CASE n = 0
    BY <2>1
  <2>2. CASE n # 0
    <3>1. 1 \in 0 .. n  BY <1>1, <2>2
    <3> QED  BY <1>1, <1>2, <2>2, <3>1
  <2> QED  BY <2>1, <2>2
<1>15. h > 1 <=> n # 0  BY <1>1, <1>13
<1> HIDE DEF Stops, S
<1>16. CASE x = None
  <2>1. ~ Hidden(v, x) /\ ~ Turns(v, x)  BY <1>2, <1>16 DEF Hidden, Turns, Shown
  <2> QED  BY <1>12, <1>13, <1>14, <1>15, <1>16, <2>1
<1>17. CASE x # None /\ Gone(v, x)
  <2>1. ~ Hidden(v, x) /\ ~ Turns(v, x)  BY <1>17 DEF Hidden, Turns, Gone, Shown
  <2>2. ~ Seen(p, h)
    <3>1. \A j \in 0 .. n : p[j] # x  BY <1>1, <1>17 DEF Gone
    <3> QED  BY <1>5, <1>13, <3>1
  <2>3. Missing(v, x)  BY <1>3, <1>6, <1>17 DEF Gone
  <2> QED  BY <1>12, <1>13, <1>14, <1>17, <2>1, <2>2, <2>3
<1>18. CASE Hidden(v, x)
  <2>1. ~ Gone(v, x) /\ ~ Turns(v, x) /\ x # None
    BY <1>2, <1>18 DEF Hidden, Turns, Gone, Shown
  <2>2. ~ Seen(p, h)
    <3>1. \A j \in 0 .. n : p[j] # x  BY <1>1, <1>18 DEF Hidden
    <3> QED  BY <1>5, <1>13, <3>1
  <2>3. ~ Missing(v, x)  BY <1>2, <1>6, <1>18 DEF Hidden
  <2> QED  BY <1>12, <1>13, <1>14, <2>1, <2>2, <2>3
<1>19. CASE Turns(v, x)
  <2>1. ~ Gone(v, x) /\ ~ Hidden(v, x) /\ x # None
    BY <1>2, <1>19 DEF Hidden, Turns, Gone, Shown
  <2>2. Seen(p, h)  BY <1>1, <1>5, <1>13, <1>19 DEF Turns
  <2> QED  BY <1>12, <1>13, <1>14, <2>1, <2>2
<1> QED  BY <1>16, <1>17, <1>18, <1>19, EndCases

\* How far it is to what a chain is known by: where that is first met.
LEMMA DepthIs ==
  ASSUME NEW v, NEW d, NEW h \in 0 .. Hops,
         Walk(Rows(v), d)[h] \in WalkEnd(v, d).at,
         \A i \in 0 .. h - 1 : Walk(Rows(v), d)[i] \notin WalkEnd(v, d).at
  PROVE  Depth(v, d) = h
<1> DEFINE P(k) == /\ Walk(Rows(v), d)[k] \in WalkEnd(v, d).at
                   /\ \A i \in 0 .. k - 1 : Walk(Rows(v), d)[i] \notin WalkEnd(v, d).at
<1>1. Hops \in Nat  BY WalkIs
<1>2. ASSUME NEW k \in 0 .. Hops, P(k), k # h  PROVE FALSE
  <2>1. CASE k < h
    <3>1. k \in 0 .. h - 1  BY <1>1, <2>1
    <3> QED  BY <1>2, <3>1
  <2>2. CASE h < k
    <3>1. h \in 0 .. k - 1  BY <1>1, <2>2
    <3> QED  BY <1>2, <3>1
  <2> QED  BY <1>1, <1>2, <2>1, <2>2
<1>3. P(h)  OBVIOUS
<1>4. Depth(v, d) = CHOOSE k \in 0 .. Hops : P(k)  BY DEF Depth, Hops
<1> HIDE DEF P
<1> QED  BY <1>2, <1>3, <1>4

\* How far down its trail a document meets what its chain is known by.
LEMMA TrailDepth ==
  ASSUME readable \subseteq Docs, NEW v, IsVault(v), NEW d \in Shown(v), NEW n, Trail(v, d, n),
         NEW p, p = Walk(Rows(v), d), NEW x, x = p[n + 1]
  PROVE  /\ Gone(v, x) => Depth(v, d) = n
         /\ Hidden(v, x) => Depth(v, d) = n + 1
         /\ \A j \in 0 .. n : x = p[j] => Depth(v, d) = j
<1>1. /\ Hops \in Nat /\ n \in Nat /\ n + 1 \in 1 .. Hops /\ 0 .. n + 1 \subseteq 0 .. Hops
      /\ n \in 0 .. n
      /\ \A i \in 0 .. n : p[i] \in Docs /\ p[i] \in readable
      /\ \A i, j \in 0 .. n : p[i] = p[j] => i = j
  BY TrailOpens
<1>2. ASSUME Gone(v, x)  PROVE Depth(v, d) = n
  <2>1. WalkEnd(v, d).at = {p[n]}  BY <1>2, TrailEnd
  <2>2. n \in 0 .. Hops /\ \A i \in 0 .. n - 1 : i \in 0 .. n /\ i # n  BY <1>1
  <2>3. \A i \in 0 .. n - 1 : p[i] # p[n]  BY <1>1, <2>2
  <2> QED  BY <2>1, <2>2, <2>3, DepthIs
<1>3. ASSUME Hidden(v, x)  PROVE Depth(v, d) = n + 1
  <2>1. WalkEnd(v, d) = [kind |-> "restricted", at |-> {x}, dangling |-> FALSE]  BY <1>3, TrailEnd
  <2>2. PICK h : h = n + 1  OBVIOUS
  <2>3. h \in 0 .. Hops /\ \A i \in 0 .. h - 1 : i \in 0 .. n  BY <1>1, <2>2
  <2>4. p[h] \in WalkEnd(v, d).at  BY <2>1, <2>2
  <2>5. \A i \in 0 .. h - 1 : p[i] # x  BY <1>1, <1>3, <2>3 DEF Hidden
  <2>6. \A i \in 0 .. h - 1 : p[i] \notin WalkEnd(v, d).at  BY <2>1, <2>5
  <2>7. Depth(v, d) = h  BY <2>3, <2>4, <2>6, DepthIs
  <2> QED  BY <2>2, <2>7
<1>4. ASSUME NEW j \in 0 .. n, x = p[j]  PROVE Depth(v, d) = j
  <2>0. WalkEnd(v, d) = [kind |-> "loop", at |-> Stretch(p, j, n), dangling |-> FALSE]
    <3>1. \A k \in 0 .. n : x = p[k] => EndsInLoop(v, d, Stretch(p, k, n))
      BY TrailEnd
    <3> QED  BY <1>4, <3>1 DEF EndsInLoop
  <2>1. WalkEnd(v, d).at = {p[i] : i \in j .. n}  BY <2>0 DEF Stretch
  <2>2. /\ j \in 0 .. Hops /\ j \in j .. n
        /\ \A i \in 0 .. j - 1 : i \in 0 .. n /\ i \notin j .. n
        /\ \A i \in j .. n : i \in 0 .. n
    BY <1>1
  <2>3. \A i \in 0 .. j - 1 : p[i] \notin {p[k] : k \in j .. n}  BY <1>1, <2>2
  <2> QED  BY <2>1, <2>2, <2>3, DepthIs
<1> QED  BY <1>2, <1>3, <1>4

\* A trail that comes back ends in the loop it closes.
LEMMA TrailTurns ==
  ASSUME readable \subseteq Docs, NEW v, IsVault(v), NEW d \in Shown(v), NEW n, Trail(v, d, n),
         NEW p, p = Walk(Rows(v), d), NEW j \in 0 .. n, p[n + 1] = p[j]
  PROVE  EndsInLoop(v, d, Stretch(p, j, n)) /\ Depth(v, d) = j
<1>1. PICK x : x = p[n + 1]  OBVIOUS
<1>2. \A k \in 0 .. n : x = p[k] => EndsInLoop(v, d, Stretch(p, k, n))  BY <1>1, TrailEnd
<1>3. \A k \in 0 .. n : x = p[k] => Depth(v, d) = k  BY <1>1, TrailDepth
<1> QED  BY <1>1, <1>2, <1>3

\* A head can be read.
LEMMA HeadShown ==
  ASSUME readable \subseteq Docs, NEW v, IsVault(v), NEW d \in Shown(v)
  PROVE  WalkEnd(v, d).kind = "head" => WalkEnd(v, d).at \subseteq Shown(v)
<1>1. PICK n : Trail(v, d, n)  BY TrailExists
<1>2. PICK p, x : p = Walk(Rows(v), d) /\ x = p[n + 1]  OBVIOUS
<1>3. /\ n \in 0 .. n
      /\ \A i \in 0 .. n : p[i] \in Shown(v)
      /\ x \notin Shown(v) \/ \E j \in 0 .. n : x = p[j]
  BY <1>1, <1>2, TrailOpens
<1>4. CASE Gone(v, x)
  <2>1. WalkEnd(v, d) = [kind |-> "head", at |-> {p[n]}, dangling |-> x # None]
    BY <1>1, <1>2, <1>4, TrailEnd
  <2> QED  BY <1>3, <2>1
<1>5. CASE Hidden(v, x)
  <2>1. WalkEnd(v, d) = [kind |-> "restricted", at |-> {x}, dangling |-> FALSE]
    BY <1>1, <1>2, <1>5, TrailEnd
  <2> QED  BY <2>1
<1>6. CASE Turns(v, x)
  <2>1. PICK j \in 0 .. n : x = p[j]  BY <1>3, <1>6 DEF Turns
  <2>2. EndsInLoop(v, d, Stretch(p, j, n))  BY <1>1, <1>2, <2>1, TrailTurns
  <2> QED  BY <2>2 DEF EndsInLoop
<1> QED  BY <1>4, <1>5, <1>6, EndCases

------------------------------------------------------------------------------
(***************************************************************************)
(* Two vaults that say the same of what a caller may read.                 *)
(***************************************************************************)
Alike(v, w) ==
  /\ IsVault(v) /\ IsVault(w)
  /\ \A d \in Docs : v[d] = Absent <=> w[d] = Absent
  /\ \A d \in readable : v[d] = w[d]

\* What is shown of two such vaults is the same.
LEMMA AlikeIs ==
  ASSUME readable \subseteq Docs, NEW v, NEW w, Alike(v, w)
  PROVE  /\ IsVault(v) /\ IsVault(w) /\ Alike(w, v) /\ Shown(v) = Shown(w)
         /\ \A d \in Shown(v) : v[d] = w[d] /\ Rows(v)[d] = Rows(w)[d]
         /\ \A x : /\ Gone(v, x) <=> Gone(w, x)
                   /\ Hidden(v, x) <=> Hidden(w, x)
                   /\ Turns(v, x) <=> Turns(w, x)
<1>1. IsVault(v) /\ IsVault(w) /\ Alike(w, v) /\ Shown(v) = Shown(w)
  BY DEF Alike, Shown
<1>2. \A d \in Shown(v) : d \in Docs /\ v[d] = w[d] /\ v[d] # Absent /\ w[d] # Absent
  BY DEF Alike, Shown
<1>3. \A d \in Shown(v) : Rows(v)[d] = Spelt(v, d) /\ Rows(w)[d] = Spelt(w, d)
  BY <1>1, <1>2, RowsAre
<1>4. \A d \in Shown(v) : Spelt(v, d) = Spelt(w, d)  BY <1>2 DEF Spelt
<1>5. \A x : /\ Gone(v, x) <=> Gone(w, x)
             /\ Hidden(v, x) <=> Hidden(w, x)
             /\ Turns(v, x) <=> Turns(w, x)
  BY <1>1 DEF Alike, Gone, Hidden, Turns
<1> QED  BY <1>1, <1>2, <1>3, <1>4, <1>5

\* So are the trails.
LEMMA TrailAlike ==
  ASSUME readable \subseteq Docs, NEW v, NEW w, Alike(v, w), NEW d \in Shown(v),
         NEW n, Trail(v, d, n)
  PROVE  /\ Trail(w, d, n)
         /\ \A i \in 0 .. n + 1 : Walk(Rows(w), d)[i] = Walk(Rows(v), d)[i]
<1>1. PICK p, q : p = Walk(Rows(v), d) /\ q = Walk(Rows(w), d)  OBVIOUS
<1>2. /\ Hops \in Nat /\ n \in Nat /\ n + 1 \in 1 .. Hops /\ 0 .. n + 1 \subseteq 0 .. Hops
      /\ p[0] = d /\ n \in 0 .. n
      /\ \A i \in 0 .. n : p[i] \in Shown(v) /\ p[i] \in Docs /\ p[i + 1] = Rows(v)[p[i]]
      /\ \A i, j \in 0 .. n : p[i] = p[j] => i = j
      /\ p[n + 1] \notin Shown(v) \/ \E j \in 0 .. n : p[n + 1] = p[j]
  BY <1>1, TrailOpens
<1>3. q[0] = d /\ \A m \in 1 .. Hops : q[m] = IF q[m - 1] = None THEN None ELSE Rows(w)[q[m - 1]]
  BY <1>1, WalkIs
<1>4. None \notin Docs  BY ChainsAssumption
<1>5. Shown(v) = Shown(w) /\ \A e \in Shown(v) : Rows(v)[e] = Rows(w)[e]  BY AlikeIs
<1>6. \A i \in 0 .. n + 1 : q[i] = p[i]
  <2> DEFINE Off == {i \in 0 .. n + 1 : q[i] # p[i]}
  <2> SUFFICES ASSUME Off # {}  PROVE FALSE
    OBVIOUS
  <2>1. Off \in SUBSET Nat  BY <1>2
  <2>2. PICK i \in Off : \A j \in Off : i <= j
    BY <2>1, LeastExists, Zenon
  <2>3. i \in 0 .. n + 1 /\ i # 0  BY <1>2, <1>3, <2>2
  <2>4. i - 1 \in 0 .. n /\ i - 1 \in 0 .. n + 1 /\ i \in 1 .. Hops /\ ~ (i <= i - 1) /\ i - 1 + 1 = i
    BY <1>2, <2>3
  <2>5. q[i - 1] = p[i - 1]  BY <2>2, <2>4
  <2>6. p[i - 1] \in Shown(v) /\ p[i - 1] \in Docs /\ p[i] = Rows(v)[p[i - 1]]
    BY <1>2, <2>4
  <2>7. q[i] = p[i]  BY <1>3, <1>4, <1>5, <2>4, <2>5, <2>6
  <2> QED  BY <2>2, <2>7
<1>7. /\ n + 1 \in 0 .. n + 1 /\ n \in 0 .. Hops - 1
      /\ \A i \in 0 .. n : i \in 0 .. n + 1 /\ i + 1 \in 0 .. n + 1
  BY <1>2
<1>8. \A i \in 0 .. n : q[i] = p[i] /\ q[i + 1] = p[i + 1]  BY <1>6, <1>7
<1>9. \A i \in 0 .. n : q[i] \in Shown(w) /\ q[i + 1] = Rows(w)[q[i]]
  BY <1>2, <1>5, <1>8
<1>10. \A i, j \in 0 .. n : q[i] = q[j] => i = j  BY <1>2, <1>8
<1>11. q[n + 1] \notin Shown(w) \/ \E j \in 0 .. n : q[n + 1] = q[j]
  <2>1. q[n + 1] = p[n + 1]  BY <1>6, <1>7
  <2> QED  BY <1>2, <1>5, <1>8, <2>1
<1>12. Trail(w, d, n)  BY <1>1, <1>7, <1>9, <1>10, <1>11 DEF Trail
<1> QED  BY <1>1, <1>6, <1>12

\* Each walk ends alike in both.
LEMMA EndsAlike ==
  ASSUME readable \subseteq Docs, NEW v, NEW w, Alike(v, w), NEW d \in Shown(v)
  PROVE  /\ WalkEnd(v, d) = WalkEnd(w, d)
         /\ Depth(v, d) = Depth(w, d)
         /\ CurrentSource(v, d) = CurrentSource(w, d)
<1>1. PICK n : Trail(v, d, n)  BY TrailExists
<1>2. PICK p, q : p = Walk(Rows(v), d) /\ q = Walk(Rows(w), d)  OBVIOUS
<1>3. Trail(w, d, n) /\ \A i \in 0 .. n + 1 : q[i] = p[i]  BY <1>1, <1>2, TrailAlike
<1>4. IsVault(v) /\ IsVault(w) /\ d \in Shown(w)  BY AlikeIs
<1>5. PICK x : x = p[n + 1]  OBVIOUS
<1>6. /\ n \in Nat /\ n \in 0 .. n
      /\ x \notin Shown(v) \/ \E j \in 0 .. n : x = p[j]
  BY <1>1, <1>2, <1>5, TrailOpens
<1>7. q[n] = p[n] /\ q[n + 1] = x /\ \A i \in 0 .. n : q[i] = p[i]
  <2>1. n \in 0 .. n + 1 /\ n + 1 \in 0 .. n + 1 /\ \A i \in 0 .. n : i \in 0 .. n + 1  BY <1>6
  <2> QED  BY <1>3, <1>5, <2>1
<1>8. Gone(v, x) <=> Gone(w, x)  BY AlikeIs
<1>9. Hidden(v, x) <=> Hidden(w, x)  BY AlikeIs
<1>10. Turns(v, x) <=> Turns(w, x)  BY AlikeIs
<1>11. WalkEnd(v, d) = WalkEnd(w, d) /\ Depth(v, d) = Depth(w, d)
  <2>1. CASE Gone(v, x)
    <3>1. WalkEnd(v, d) = [kind |-> "head", at |-> {p[n]}, dangling |-> x # None] /\ Depth(v, d) = n
      BY <1>1, <1>2, <1>4, <1>5, <2>1, TrailEnd, TrailDepth
    <3>2. WalkEnd(w, d) = [kind |-> "head", at |-> {q[n]}, dangling |-> x # None] /\ Depth(w, d) = n
      BY <1>2, <1>3, <1>4, <1>7, <1>8, <2>1, TrailEnd, TrailDepth
    <3> QED  BY <1>7, <3>1, <3>2
  <2>2. CASE Hidden(v, x)
    <3>1. WalkEnd(v, d) = [kind |-> "restricted", at |-> {x}, dangling |-> FALSE] /\ Depth(v, d) = n + 1
      BY <1>1, <1>2, <1>4, <1>5, <2>2, TrailEnd, TrailDepth
    <3>2. WalkEnd(w, d) = [kind |-> "restricted", at |-> {x}, dangling |-> FALSE] /\ Depth(w, d) = n + 1
      BY <1>2, <1>3, <1>4, <1>7, <1>9, <2>2, TrailEnd, TrailDepth
    <3> QED  BY <3>1, <3>2
  <2>3. CASE Turns(v, x)
    <3>1. PICK j \in 0 .. n : x = p[j]  BY <1>6, <2>3 DEF Turns
    <3>2. EndsInLoop(v, d, Stretch(p, j, n)) /\ Depth(v, d) = j
      BY <1>1, <1>2, <1>4, <1>5, <3>1, TrailTurns
    <3>3. x = q[j]  BY <1>7, <3>1
    <3>4. EndsInLoop(w, d, Stretch(q, j, n)) /\ Depth(w, d) = j
      BY <1>2, <1>3, <1>4, <1>7, <3>3, TrailTurns
    <3>5. \A i \in j .. n : i \in 0 .. n  BY <1>6
    <3>6. Stretch(q, j, n) = Stretch(p, j, n)  BY <1>7, <3>5 DEF Stretch
    <3> QED  BY <3>2, <3>4, <3>6 DEF EndsInLoop
  <2> QED  BY <2>1, <2>2, <2>3, EndCases
<1>12. CurrentSource(v, d) = CurrentSource(w, d)
  <2>1. CASE x = None /\ n = 0
    <3>1. CurrentSource(v, d) = [kind |-> "current"]
      BY <1>1, <1>2, <1>4, <1>5, <2>1, TrailSource
    <3>2. CurrentSource(w, d) = [kind |-> "current"]
      BY <1>2, <1>3, <1>4, <1>7, <2>1, TrailSource
    <3> QED  BY <3>1, <3>2
  <2>2. CASE x = None /\ n # 0
    <3>1. CurrentSource(v, d) = [kind |-> "resolved", path |-> p[n], hops |-> n]
      BY <1>1, <1>2, <1>4, <1>5, <2>2, TrailSource
    <3>2. CurrentSource(w, d) = [kind |-> "resolved", path |-> q[n], hops |-> n]
      BY <1>2, <1>3, <1>4, <1>7, <2>2, TrailSource
    <3> QED  BY <1>7, <3>1, <3>2
  <2>3. CASE x # None /\ Gone(v, x)
    <3>1. CurrentSource(v, d) = [kind |-> "dangling", path |-> p[n]]
      BY <1>1, <1>2, <1>4, <1>5, <2>3, TrailSource
    <3>2. CurrentSource(w, d) = [kind |-> "dangling", path |-> q[n]]
      BY <1>2, <1>3, <1>4, <1>7, <1>8, <2>3, TrailSource
    <3> QED  BY <1>7, <3>1, <3>2
  <2>4. CASE Hidden(v, x)
    <3>1. CurrentSource(v, d) = [kind |-> "restricted"]
      BY <1>1, <1>2, <1>4, <1>5, <2>4, TrailSource
    <3>2. CurrentSource(w, d) = [kind |-> "restricted"]
      BY <1>2, <1>3, <1>4, <1>7, <1>9, <2>4, TrailSource
    <3> QED  BY <3>1, <3>2
  <2>5. CASE Turns(v, x)
    <3>1. CurrentSource(v, d) = [kind |-> "cycle"]
      BY <1>1, <1>2, <1>4, <1>5, <2>5, TrailSource
    <3>2. CurrentSource(w, d) = [kind |-> "cycle"]
      BY <1>2, <1>3, <1>4, <1>7, <1>10, <2>5, TrailSource
    <3> QED  BY <3>1, <3>2
  <2> QED  BY <2>1, <2>2, <2>3, <2>4, <2>5, EndCases
<1> QED  BY <1>11, <1>12

\* What a chain with a readable predecessor tells of readable documents.
LEMMA ChainsAlike ==
  ASSUME readable \subseteq Docs, NEW v, NEW w, Alike(v, w)
  PROVE  SeenChains(v) \subseteq SeenChains(w)
<1> SUFFICES ASSUME NEW c \in ChainsOf(v), c.replaced # {}
             PROVE  <<c.head, c.flags, c.replaced>> \in SeenChains(w)
  BY DEF SeenChains
<1>1. /\ IsVault(v) /\ Shown(v) = Shown(w)
      /\ \A d \in Shown(v) : v[d] = w[d]
  BY AlikeIs
<1>2. \A d \in Shown(v) : WalkEnd(v, d) = WalkEnd(w, d) /\ Depth(v, d) = Depth(w, d)
  BY EndsAlike
<1>3. PICK end : c = ChainAt(v, end)  BY DEF ChainsOf
<1>4. PICK d \in Shown(v) : WalkEnd(v, d) = end /\ (end.kind # "head" \/ d \notin end.at)
  BY <1>3 DEF ChainAt
<1>5. end.kind = "head" => end.at \subseteq Shown(v)  BY <1>1, <1>4, HeadShown
<1>6. end \in Ends(w)
  <2>1. WalkEnd(w, d) = end /\ d \in Shown(w)  BY <1>1, <1>2, <1>4
  <2>2. Chained(w, d)  BY <1>4, <2>1 DEF Chained
  <2> QED  BY <2>1, <2>2 DEF Ends
<1>7. ChainAt(w, end).head = c.head  BY <1>3 DEF ChainAt
<1>8. ChainAt(w, end).flags = c.flags
  <2>1. CASE end.kind = "head"
    <3>1. \A e \in end.at : StatusFlags(v, e, end.dangling) = StatusFlags(w, e, end.dangling)
      BY <1>1, <1>5, <2>1 DEF StatusFlags
    <3>2. {StatusFlags(v, e, end.dangling) : e \in end.at} = {StatusFlags(w, e, end.dangling) : e \in end.at}
      BY <3>1
    <3>3. c.flags = UNION {StatusFlags(v, e, end.dangling) : e \in end.at}  BY <1>3, <2>1 DEF ChainAt
    <3>4. ChainAt(w, end).flags = UNION {StatusFlags(w, e, end.dangling) : e \in end.at}
      BY <2>1 DEF ChainAt
    <3> QED  BY <3>2, <3>3, <3>4
  <2>2. CASE end.kind # "head"
    BY <1>3, <2>2 DEF ChainAt
  <2> QED  BY <2>1, <2>2
<1>9. ChainAt(w, end).replaced = c.replaced
  <2> DEFINE Old(u) == {e \in Shown(u) : WalkEnd(u, e) = end /\ (end.kind # "head" \/ e \notin end.at)}
  <2>1. Old(v) = Old(w)  BY <1>1, <1>2
  <2>2. \A e \in Old(v) : Depth(v, e) = Depth(w, e)  BY <1>2
  <2>3. c.replaced = {<<e, Depth(v, e)>> : e \in Old(v)}  BY <1>3 DEF ChainAt
  <2>4. ChainAt(w, end).replaced = {<<e, Depth(w, e)>> : e \in Old(w)}  BY DEF ChainAt
  <2> HIDE DEF Old
  <2> QED  BY <2>1, <2>2, <2>3, <2>4
<1>10. PICK k : k = ChainAt(w, end)  OBVIOUS
<1>11. k \in ChainsOf(w)  BY <1>6, <1>10 DEF ChainsOf
<1>12. k.head = c.head /\ k.flags = c.flags /\ k.replaced = c.replaced
  BY <1>7, <1>8, <1>9, <1>10
<1> QED  BY <1>11, <1>12 DEF SeenChains

\* What is told of readable documents does not depend on what hidden ones say.
LEMMA HiddenStaysUnseen ==
  ASSUME VaultTypeOK
  PROVE  HiddenUnseen
<1>1. readable \subseteq Docs /\ Shown(Blanked(vault)) = Shown(vault)  BY VaultIs
<1>2. PICK w : w = Blanked(vault)  OBVIOUS
<1>3. Alike(vault, w)  BY <1>2, VaultIs DEF Alike
<1>4. Alike(w, vault)  BY <1>1, <1>3, AlikeIs
<1>5. SeenChains(vault) = SeenChains(w)
  <2>1. SeenChains(vault) \subseteq SeenChains(w)  BY <1>1, <1>3, ChainsAlike
  <2>2. SeenChains(w) \subseteq SeenChains(vault)  BY <1>1, <1>4, ChainsAlike
  <2> QED  BY <2>1, <2>2
<1>6. \A d \in Shown(vault) : CurrentSource(vault, d) = CurrentSource(w, d)
  BY <1>1, <1>3, EndsAlike
<1>7. Sources(vault) = Sources(w)  BY <1>1, <1>2, <1>6 DEF Sources
<1> QED  BY <1>2, <1>5, <1>7 DEF HiddenUnseen

\* vault_chains and search, of every vault and role: what they tell of documents the
\* role may read does not depend on what those it may not read say.
THEOREM HiddenUnseenHolds == Vaults => []HiddenUnseen
BY Documents, HiddenStaysUnseen, PTL

\* A superseded document a caller may read is in the chain it ends in, and no other.
InChain(c, d) == d \in c.head \/ \E h \in 0 .. Cardinality(Docs) : <<d, h>> \in c.replaced

\* It is in the one chain its walk ends in.
LEMMA ChainIsOne ==
  ASSUME readable \subseteq Docs, NEW v, IsVault(v), NEW d \in Shown(v), v[d].by # None
  PROVE  {c \in ChainsOf(v) : InChain(c, d)} = {ChainAt(v, WalkEnd(v, d))}
<1>1. PICK n : Trail(v, d, n)  BY TrailExists
<1>2. PICK p, x : p = Walk(Rows(v), d) /\ x = p[n + 1]  OBVIOUS
<1>3. /\ Hops \in Nat /\ n \in Nat /\ n + 1 \in 1 .. Hops /\ n \in 0 .. n /\ 0 \in 0 .. n /\ p[0] = d
      /\ \A i \in 0 .. n : p[i] \in Shown(v) /\ p[i + 1] = Rows(v)[p[i]]
      /\ \A i, j \in 0 .. n : p[i] = p[j] => i = j
      /\ x \notin Shown(v) \/ \E j \in 0 .. n : x = p[j]
  BY <1>1, <1>2, TrailOpens
<1>4. d \in Docs /\ v[d] # Absent  BY DEF Shown
<1>5. Rows(v)[d] # None  BY <1>4, RowsAre
<1>6. PICK end : end = WalkEnd(v, d)  OBVIOUS
<1>7. p[1] = Rows(v)[d]
  <2>1. 0 + 1 = 1  OBVIOUS
  <2> QED  BY <1>3, <2>1
<1>8. /\ end.kind = "head" => Gone(v, x) /\ end = [kind |-> "head", at |-> {p[n]}, dangling |-> x # None]
      /\ Depth(v, d) \in 0 .. Hops
  <2>1. CASE Gone(v, x)
    <3>1. end = [kind |-> "head", at |-> {p[n]}, dangling |-> x # None]
      BY <1>1, <1>2, <1>6, <2>1, TrailEnd
    <3>2. Depth(v, d) = n  BY <1>1, <1>2, <2>1, TrailDepth
    <3> QED  BY <1>3, <2>1, <3>1, <3>2
  <2>2. CASE Hidden(v, x)
    <3>1. end = [kind |-> "restricted", at |-> {x}, dangling |-> FALSE]
      BY <1>1, <1>2, <1>6, <2>2, TrailEnd
    <3>2. Depth(v, d) = n + 1  BY <1>1, <1>2, <2>2, TrailDepth
    <3> QED  BY <1>3, <3>1, <3>2
  <2>3. CASE Turns(v, x)
    <3>1. PICK j \in 0 .. n : x = p[j]  BY <1>3, <2>3 DEF Turns
    <3>2. EndsInLoop(v, d, Stretch(p, j, n)) /\ Depth(v, d) = j
      BY <1>1, <1>2, <3>1, TrailTurns
    <3>3. end.kind = "loop"  BY <1>6, <3>2 DEF EndsInLoop
    <3> QED  BY <1>3, <3>2, <3>3
  <2> QED  BY <2>1, <2>2, <2>3, EndCases
<1>9. end.kind = "head" /\ n # 0 => d \notin end.at  BY <1>3, <1>8
<1>10. ChainAt(v, end) \in ChainsOf(v)
  <2>1. Chained(v, d)
    <3>1. CASE end.kind # "head"
      BY <1>6, <3>1 DEF Chained
    <3>2. CASE end.kind = "head" /\ n # 0
      BY <1>6, <1>9, <3>2 DEF Chained
    <3>3. CASE end.kind = "head" /\ n = 0
      <4>1. end.dangling
        <5>1. n + 1 = 1  BY <3>3
        <5>2. x # None  BY <1>2, <1>5, <1>7, <5>1
        <5>3. end = [kind |-> "head", at |-> {p[n]}, dangling |-> TRUE]  BY <1>8, <3>3, <5>2
        <5> QED  BY <5>3
      <4> QED  BY <1>6, <4>1 DEF Chained
    <3> QED  BY <3>1, <3>2, <3>3
  <2> QED  BY <1>6, <2>1 DEF Ends, ChainsOf
<1>11. InChain(ChainAt(v, end), d)
  <2>1. CASE end.kind = "head" /\ d \in end.at
    BY <2>1 DEF ChainAt, InChain
  <2>2. CASE end.kind # "head" \/ d \notin end.at
    <3>1. <<d, Depth(v, d)>> \in ChainAt(v, end).replaced  BY <1>6, <2>2 DEF ChainAt
    <3> QED  BY <1>8, <3>1 DEF InChain, Hops
  <2> QED  BY <2>1, <2>2
<1>12. ASSUME NEW c \in ChainsOf(v), InChain(c, d)  PROVE c = ChainAt(v, end)
  <2>1. PICK far : far \in Ends(v) /\ c = ChainAt(v, far)  BY DEF ChainsOf
  <2>2. CASE \E h \in 0 .. Cardinality(Docs) : <<d, h>> \in c.replaced
    <3>1. PICK h : <<d, h>> \in c.replaced  BY <2>2
    <3>2. PICK e \in Shown(v) : WalkEnd(v, e) = far /\ <<d, h>> = <<e, Depth(v, e)>>
      BY <2>1, <3>1 DEF ChainAt
    <3>3. d = e  BY <3>2
    <3> QED  BY <1>6, <2>1, <3>2, <3>3
  <2>3. CASE d \in c.head
    <3>1. far.kind = "head" /\ d \in far.at  BY <2>1, <2>3 DEF ChainAt
    <3>2. PICK e \in Shown(v) : far = WalkEnd(v, e)  BY <2>1 DEF Ends
    <3>3. PICK m : Trail(v, e, m)  BY TrailExists
    <3>4. PICK q, y : q = Walk(Rows(v), e) /\ y = q[m + 1]  OBVIOUS
    <3>5. /\ m \in 0 .. m /\ y = Rows(v)[q[m]]
          /\ y \notin Shown(v) \/ \E j \in 0 .. m : y = q[j]
      BY <3>3, <3>4, TrailOpens
    <3>6. Gone(v, y) /\ far = [kind |-> "head", at |-> {q[m]}, dangling |-> y # None]
      <4>1. CASE Gone(v, y)
        BY <3>2, <3>3, <3>4, <4>1, TrailEnd
      <4>2. CASE Hidden(v, y)
        <5>1. far = [kind |-> "restricted", at |-> {y}, dangling |-> FALSE]
          BY <3>2, <3>3, <3>4, <4>2, TrailEnd
        <5> QED  BY <3>1, <5>1
      <4>3. CASE Turns(v, y)
        <5>1. PICK j \in 0 .. m : y = q[j]  BY <3>5, <4>3 DEF Turns
        <5>2. EndsInLoop(v, e, Stretch(q, j, m))  BY <3>3, <3>4, <5>1, TrailTurns
        <5> QED  BY <3>1, <3>2, <5>2 DEF EndsInLoop
      <4> QED  BY <4>1, <4>2, <4>3, EndCases
    <3>7. d = q[m] /\ y = p[1]  BY <1>7, <3>1, <3>5, <3>6
    <3>8. n = 0
      <4> SUFFICES ASSUME n # 0  PROVE FALSE
        OBVIOUS
      <4>1. 1 \in 0 .. n  BY <1>3
      <4>2. p[1] \in Shown(v)  BY <1>3, <4>1
      <4> QED  BY <3>6, <3>7, <4>2 DEF Gone, Shown
    <3>9. x = y /\ p[n] = d  BY <1>2, <1>3, <3>7, <3>8
    <3>10. Gone(v, x)  BY <3>6, <3>9
    <3>11. end = [kind |-> "head", at |-> {p[n]}, dangling |-> x # None]
      BY <1>1, <1>2, <1>6, <3>10, TrailEnd
    <3> QED  BY <2>1, <3>6, <3>7, <3>9, <3>11
  <2> QED  BY <1>12, <2>2, <2>3 DEF InChain
<1> QED  BY <1>6, <1>10, <1>11, <1>12

\* Its chain says of it what its currentSource says.
Matches(c, d, source) ==
  CASE source.kind = "resolved"   -> /\ c.head = {source.path} /\ "dangling" \notin c.flags
                                     /\ <<d, source.hops>> \in c.replaced
    [] source.kind = "dangling"   -> c.head = {source.path} /\ "dangling" \in c.flags
    [] source.kind = "cycle"      -> c.head = {} /\ c.flags = {"loop"}
    [] source.kind = "restricted" -> c.head = {} /\ c.flags = {"restricted"}

\* Its kind of end, head, hops and flags are those its currentSource names.
LEMMA ChainMatches ==
  ASSUME readable \subseteq Docs, NEW v, IsVault(v), NEW d \in Shown(v), v[d].by # None
  PROVE  Matches(ChainAt(v, WalkEnd(v, d)), d, CurrentSource(v, d))
<1>1. PICK n : Trail(v, d, n)  BY TrailExists
<1>2. PICK p, x : p = Walk(Rows(v), d) /\ x = p[n + 1]  OBVIOUS
<1>3. /\ n \in Nat /\ n \in 0 .. n /\ 0 \in 0 .. n /\ p[0] = d
      /\ \A i \in 0 .. n : p[i] \in Shown(v) /\ p[i + 1] = Rows(v)[p[i]]
      /\ \A i, j \in 0 .. n : p[i] = p[j] => i = j
      /\ x \notin Shown(v) \/ \E j \in 0 .. n : x = p[j]
  BY <1>1, <1>2, TrailOpens
<1>4. d \in Docs /\ v[d] # Absent  BY DEF Shown
<1>5. Rows(v)[d] # None  BY <1>4, RowsAre
<1>6. x # None \/ n # 0
  <2>1. n = 0 => x = Rows(v)[d]  BY <1>2, <1>3
  <2> QED  BY <1>5, <2>1
<1>7. PICK end, source, c : end = WalkEnd(v, d) /\ source = CurrentSource(v, d) /\ c = ChainAt(v, end)
  OBVIOUS
<1>8. CASE x = None
  <2>1. Gone(v, x) /\ n # 0  BY <1>6, <1>8, ChainsAssumption DEF Gone
  <2>2. source = [kind |-> "resolved", path |-> p[n], hops |-> n]
    BY <1>1, <1>2, <1>7, <1>8, <2>1, TrailSource
  <2>3. end = [kind |-> "head", at |-> {p[n]}, dangling |-> x # None]
    BY <1>1, <1>2, <1>7, <2>1, TrailEnd
  <2>4. Depth(v, d) = n  BY <1>1, <1>2, <2>1, TrailDepth
  <2>5. c.head = {p[n]}  BY <1>7, <2>3 DEF ChainAt
  <2>6. "dangling" \notin c.flags
    <3>1. c.flags = UNION {StatusFlags(v, e, end.dangling) : e \in end.at}  BY <1>7, <2>3 DEF ChainAt
    <3>2. \A e : "dangling" \notin StatusFlags(v, e, FALSE)  BY DEF StatusFlags
    <3>3. end.dangling = FALSE  BY <1>8, <2>3
    <3> QED  BY <3>1, <3>2, <3>3
  <2>7. <<d, n>> \in c.replaced
    <3>1. d \notin end.at  BY <1>3, <2>1, <2>3
    <3> QED  BY <1>7, <2>4, <3>1 DEF ChainAt
  <2>8. source.kind = "resolved" /\ source.path = p[n] /\ source.hops = n  BY <2>2
  <2> QED  BY <1>7, <2>5, <2>6, <2>7, <2>8 DEF Matches
<1>9. CASE x # None /\ Gone(v, x)
  <2>1. source = [kind |-> "dangling", path |-> p[n]]
    BY <1>1, <1>2, <1>7, <1>9, TrailSource
  <2>2. end = [kind |-> "head", at |-> {p[n]}, dangling |-> x # None]
    BY <1>1, <1>2, <1>7, <1>9, TrailEnd
  <2>3. c.head = {p[n]}  BY <1>7, <2>2 DEF ChainAt
  <2>4. "dangling" \in c.flags
    <3>1. c.flags = UNION {StatusFlags(v, e, end.dangling) : e \in end.at}  BY <1>7, <2>2 DEF ChainAt
    <3>2. end = [kind |-> "head", at |-> {p[n]}, dangling |-> TRUE]  BY <1>9, <2>2
    <3>3. end.dangling = TRUE /\ p[n] \in end.at  BY <3>2
    <3>4. "dangling" \in StatusFlags(v, p[n], end.dangling)  BY <3>3 DEF StatusFlags
    <3> QED  BY <3>1, <3>3, <3>4
  <2> QED  BY <1>7, <2>1, <2>3, <2>4 DEF Matches
<1>10. CASE Hidden(v, x)
  <2>1. source = [kind |-> "restricted"]  BY <1>1, <1>2, <1>7, <1>10, TrailSource
  <2>2. end = [kind |-> "restricted", at |-> {x}, dangling |-> FALSE]
    BY <1>1, <1>2, <1>7, <1>10, TrailEnd
  <2>3. c.head = {} /\ c.flags = {"restricted"}  BY <1>7, <2>2 DEF ChainAt
  <2> QED  BY <1>7, <2>1, <2>3 DEF Matches
<1>11. CASE Turns(v, x)
  <2>1. source = [kind |-> "cycle"]  BY <1>1, <1>2, <1>7, <1>11, TrailSource
  <2>2. PICK j \in 0 .. n : x = p[j]  BY <1>3, <1>11 DEF Turns
  <2>3. EndsInLoop(v, d, Stretch(p, j, n))  BY <1>1, <1>2, <2>2, TrailTurns
  <2>4. end.kind = "loop"  BY <1>7, <2>3 DEF EndsInLoop
  <2>5. c.head = {} /\ c.flags = {"loop"}  BY <1>7, <2>4 DEF ChainAt
  <2> QED  BY <1>7, <2>1, <2>5 DEF Matches
<1> QED  BY <1>8, <1>9, <1>10, <1>11, EndCases

\* vault_chains and search tell of one and the same end.
LEMMA ChainsMatch ==
  ASSUME VaultTypeOK
  PROVE  ChainsMatchSearch
<1>1. readable \subseteq Docs /\ IsVault(vault)  BY VaultIs
<1> SUFFICES ASSUME NEW d \in Shown(vault), vault[d].by # None
             PROVE  /\ Cardinality({c \in ChainsOf(vault) : InChain(c, d)}) = 1
                    /\ \A c \in {e \in ChainsOf(vault) : InChain(e, d)} :
                         Matches(c, d, CurrentSource(vault, d))
  BY DEF ChainsMatchSearch, InChain, Matches
<1>2. PICK c : c = ChainAt(vault, WalkEnd(vault, d))  OBVIOUS
<1>3. {e \in ChainsOf(vault) : InChain(e, d)} = {c}  BY <1>1, <1>2, ChainIsOne
<1>4. Matches(c, d, CurrentSource(vault, d))  BY <1>1, <1>2, ChainMatches
<1>5. Cardinality({c}) = 1  BY FS_Singleton
<1> QED  BY <1>3, <1>4, <1>5

\* computeChains and resolveCurrentSource, which walk by different rules, agree in
\* every vault: a readable superseded document is in one chain, whose end, length
\* and flags are those search annotates its hit with.
THEOREM ChainsMatchSearchHolds == Vaults => []ChainsMatchSearch
BY Documents, ChainsMatch, PTL

\* What solves a recursion up to n, from a on, by a table of its steps.
Solves(f, n, S, a, step) ==
  f \in [0 .. n -> S] /\ f[0] = a /\ \A m \in 1 .. n : f[m] = step[m][f[m - 1]]

\* Every recursion by a table of steps within a set has a solution.
LEMMA Recursion ==
  ASSUME NEW n \in Nat, NEW S, NEW a \in S, NEW step \in [1 .. n -> [S -> S]]
  PROVE  \E f : Solves(f, n, S, a, step)
<1> DEFINE Without == {k \in 0 .. n : ~ \E f : Solves(f, k, S, a, step)}
<1>1. Without = {}
  <2> SUFFICES ASSUME Without # {}  PROVE FALSE
    OBVIOUS
  <2>1. Without \in SUBSET Nat  OBVIOUS
  <2>2. PICK k \in Without : \A m \in Without : k <= m
    BY <2>1, LeastExists, Zenon
  <2>3. CASE k = 0
    <3> DEFINE g == [m \in 0 .. 0 |-> a]
    <3>1. Solves(g, 0, S, a, step)  BY DEF Solves
    <3> QED  BY <2>2, <2>3, <3>1, Zenon
  <2>4. CASE k # 0
    <3>1. k \in 1 .. n /\ k - 1 \in 0 .. n /\ k - 1 \notin Without /\ k - 1 \in 0 .. k - 1
      BY <2>1, <2>2, <2>4
    <3>2. PICK h : Solves(h, k - 1, S, a, step)
      BY <3>1
    <3>3. h \in [0 .. k - 1 -> S] /\ h[0] = a /\ \A m \in 1 .. k - 1 : h[m] = step[m][h[m - 1]]
      BY <3>2 DEF Solves
    <3>4. step[k] \in [S -> S] /\ h[k - 1] \in S  BY <3>1, <3>3
    <3>5. PICK last : last = step[k][h[k - 1]] /\ last \in S  BY <3>4
    <3> DEFINE g == [m \in 0 .. k |-> IF m = k THEN last ELSE h[m]]
    <3>6. \A m \in 0 .. k : m # k => m \in 0 .. k - 1  BY <3>1
    <3>7. g \in [0 .. k -> S]  BY <3>3, <3>5, <3>6
    <3>8. g[0] = a  BY <3>1, <3>3
    <3>9. \A m \in 1 .. k : g[m] = step[m][g[m - 1]]
      <4> SUFFICES ASSUME NEW m \in 1 .. k  PROVE g[m] = step[m][g[m - 1]]
        OBVIOUS
      <4>1. g[m - 1] = h[m - 1] /\ m \in 0 .. k  BY <3>1
      <4>2. CASE m = k
        BY <3>5, <4>1, <4>2
      <4>3. CASE m # k
        <5>1. m \in 1 .. k - 1  BY <3>1, <4>3
        <5> QED  BY <3>3, <4>1, <4>3, <5>1
      <4> QED  BY <4>2, <4>3
    <3> HIDE DEF g
    <3>10. Solves(g, k, S, a, step)  BY <3>7, <3>8, <3>9 DEF Solves
    <3> QED  BY <2>2, <3>10, Zenon
  <2> QED  BY <2>3, <2>4
<1>2. n \in 0 .. n /\ n \notin Without  BY <1>1
<1> QED  BY <1>2

------------------------------------------------------------------------------
(***************************************************************************)
(* search, valid_at.                                                       *)
(***************************************************************************)
\* The walk of a row: past what it comes to there is a row.
LEMMA RowWalk ==
  ASSUME NEW v, IsVault(v), NEW d \in Docs \cup {Elsewhere}, NEW k \in 0 .. Hops
  PROVE  /\ Walk(Rows(v), d)[k] \in Docs \cup {None, Elsewhere}
         /\ \A i \in 0 .. k - 1 : Walk(Rows(v), d)[k] # None =>
              Walk(Rows(v), d)[i] \in Docs /\ v[Walk(Rows(v), d)[i]] # Absent
<1>1. PICK w : w = Walk(Rows(v), d)  OBVIOUS
<1>2. /\ Hops \in Nat /\ w[0] = d
      /\ \A m \in 1 .. Hops : w[m] = IF w[m - 1] = None THEN None ELSE Rows(v)[w[m - 1]]
  BY <1>1, WalkIs
<1>3. \A e \in Docs \cup {Elsewhere} :
        /\ Rows(v)[e] \in Docs \cup {None, Elsewhere}
        /\ e \notin Docs \/ v[e] = Absent => Rows(v)[e] = None
  BY RowsAre
<1>4. \A m \in 0 .. Hops : w[m] \in Docs \cup {None, Elsewhere}
  <2> DEFINE Off == {m \in 0 .. Hops : w[m] \notin Docs \cup {None, Elsewhere}}
  <2> SUFFICES ASSUME Off # {}  PROVE FALSE
    OBVIOUS
  <2>1. Off \in SUBSET Nat  BY <1>2
  <2>2. PICK m \in Off : \A j \in Off : m <= j
    BY <2>1, LeastExists, Zenon
  <2>3. m \in 0 .. Hops /\ m # 0  BY <1>2, <2>2
  <2>4. m - 1 \in 0 .. Hops /\ m \in 1 .. Hops /\ ~ (m <= m - 1)  BY <1>2, <2>3
  <2>5. w[m - 1] \in Docs \cup {None, Elsewhere}  BY <2>2, <2>4
  <2>6. w[m] \in Docs \cup {None, Elsewhere}  BY <1>2, <1>3, <2>4, <2>5
  <2> QED  BY <2>2, <2>6
<1>5. ASSUME NEW i \in 0 .. k - 1, w[k] # None
      PROVE  w[i] \in Docs /\ v[w[i]] # Absent
  <2>1. i \in 0 .. Hops /\ i + 1 \in 1 .. Hops /\ i + 1 - 1 = i /\ k \in i .. Hops /\ k \in i + 1 .. Hops
        /\ i + 1 \in 0 .. Hops
    BY <1>2
  <2>2. w[i] # None /\ w[i + 1] # None  BY <1>1, <1>5, <2>1, WalkEnds
  <2>3. w[i + 1] = Rows(v)[w[i]]  BY <1>2, <2>1, <2>2
  <2> QED  BY <1>3, <1>4, <2>1, <2>2, <2>3
<1> QED  BY <1>1, <1>4, <1>5

\* Where a walk comes to a document, it first does so before it has made as many
\* hops as there are documents.
LEMMA RowMeets ==
  ASSUME NEW v, IsVault(v), NEW d \in Docs, NEW k \in 0 .. Hops,
         NEW s \in Docs, Walk(Rows(v), d)[k] = s
  PROVE  \E i \in 0 .. Hops - 1 : i <= k /\ Walk(Rows(v), d)[i] = s
<1>1. PICK w : w = Walk(Rows(v), d)  OBVIOUS
<1>2. Hops \in Nat /\ None \notin Docs  BY WalkIs, ChainsAssumption
<1>3. CASE k # Hops
  <2>1. k \in 0 .. Hops - 1 /\ k <= k  BY <1>2, <1>3
  <2> QED  BY <2>1
<1>4. CASE k = Hops
  <2>1. \A n \in 0 .. Hops : w[n] \in Docs
    <3> SUFFICES ASSUME NEW n \in 0 .. Hops  PROVE w[n] \in Docs
      OBVIOUS
    <3>1. CASE n = Hops
      BY <1>1, <1>4, <3>1
    <3>2. CASE n # Hops
      <4>1. n \in 0 .. k - 1  BY <1>2, <1>4, <3>2
      <4> QED  BY <1>1, <1>2, <4>1, RowWalk
    <3> QED  BY <3>1, <3>2
  <2>2. PICK h \in 1 .. Hops : \E i \in 0 .. h - 1 : w[i] = w[h]  BY <2>1, Returns
  <2>3. PICK i \in 0 .. h - 1 : w[i] = w[h]  BY <2>2
  <2>4. PICK m : m = Hops - h  OBVIOUS
  <2>5. /\ m \in 0 .. Hops /\ i \in 0 .. Hops /\ h \in 0 .. Hops
        /\ i + m \in 0 .. Hops /\ h + m = Hops /\ h + m \in 0 .. Hops
        /\ i + m \in 0 .. Hops - 1 /\ i + m <= k
    BY <1>2, <1>4, <2>4
  <2>6. Walk(Rows(v), w[h])[m] = w[h + m]
    <3>1. PICK j \in 0 .. Hops : j = h  BY <2>5
    <3>2. j + m \in 0 .. Hops  BY <2>5, <3>1
    <3>3. m \in 0 .. Hops  BY <2>5
    <3>4. Walk(Rows(v), Walk(Rows(v), d)[j])[m] = Walk(Rows(v), d)[j + m]
      BY <3>2, <3>3, WalkOn
    <3> QED  BY <1>1, <3>1, <3>4
  <2>7. Walk(Rows(v), w[i])[m] = w[i + m]
    <3>1. Walk(Rows(v), Walk(Rows(v), d)[i])[m] = Walk(Rows(v), d)[i + m]  BY <2>5, WalkOn
    <3> QED  BY <1>1, <3>1
  <2>8. w[i + m] = s  BY <1>1, <1>4, <2>3, <2>5, <2>6, <2>7
  <2> QED  BY <1>1, <2>5, <2>8
<1> QED  BY <1>3, <1>4

\* The documents a caller may read whose windows hold the day.
Fits(day) == {d \in Shown(vault) : Covers(d, day)}

\* How far ahead of s one of them is.
Ahead(s, day) == {h \in HopNumbers : h <= MaxHops /\ Walk(Rows(vault), s)[h] \in Fits(day)}

\* walkForward finds nothing, reports why it stopped, or finds the nearest ahead.
LEMMA ForwardIs ==
  ASSUME VaultTypeOK, NEW s \in Shown(vault), NEW day
  PROVE  \/ Forward(s, day) = NoAnswer /\ Ahead(s, day) = {}
         \/ Forward(s, day).kind \in {"cycle", "dangling", "restricted"}
         \/ /\ Ahead(s, day) # {}
            /\ Forward(s, day) = [kind |-> "resolved",
                                  path |-> Walk(Rows(vault), s)[Min(Ahead(s, day))],
                                  hops |-> Min(Ahead(s, day))]
<1> DEFINE at == Walk(Rows(vault), s)
           Stops(h) == \/ at[h] = None \/ Seen(at, h) \/ Missing(vault, at[h])
                       \/ at[h] \notin readable \/ Covers(at[h], day)
           stopping == {i \in HopNumbers : i <= MaxHops /\ Stops(i)}
           near == Ahead(s, day)
<1>1. readable \subseteq Docs /\ IsVault(vault) /\ s \in Docs  BY VaultIs DEF Shown
<1>2. Hops \in Nat /\ HopNumbers = 1 .. Hops  BY WalkIs DEF HopNumbers, Hops
<1>3. None \notin Docs /\ Elsewhere \notin Docs  BY ChainsAssumption, ReadersAssumption
<1>4. stopping \in SUBSET Nat /\ near \subseteq stopping
  BY <1>2 DEF Ahead, Fits
<1>5. PICK h : h = Min(stopping)  OBVIOUS
<1>6. Forward(s, day) =
        IF stopping = {} \/ at[h] = None THEN NoAnswer
        ELSE IF Seen(at, h) THEN [kind |-> "cycle"]
        ELSE IF Missing(vault, at[h]) THEN [kind |-> "dangling", path |-> at[h - 1]]
        ELSE IF at[h] \notin readable THEN [kind |-> "restricted"]
        ELSE [kind |-> "resolved", path |-> at[h], hops |-> h]
  BY <1>5 DEF Forward
<1>7. CASE stopping = {}
  <2>1. near = {}  BY <1>4, <1>7
  <2>2. Forward(s, day) = NoAnswer  BY <1>6, <1>7
  <2> QED  BY <2>1, <2>2
<1>8. CASE stopping # {}
  <2> HIDE DEF stopping
  <2>1. h \in stopping /\ \A k \in stopping : h <= k  BY <1>4, <1>5, <1>8, MinOf
  <2> USE DEF stopping
  <2>2. h \in 1 .. Hops /\ h <= MaxHops /\ Stops(h)  BY <1>2, <2>1
  <2>3. at[h] \in Docs \cup {None, Elsewhere}
    <3>1. h \in 0 .. Hops  BY <1>2, <2>2
    <3> QED  BY <1>1, <3>1, RowWalk
  <2>4. CASE at[h] = None
    <3>1. near = {}
      <4> SUFFICES ASSUME NEW k \in near  PROVE FALSE
        OBVIOUS
      <4>1. k \in stopping /\ k \in 1 .. Hops /\ at[k] \in Docs
        BY <1>1, <1>2, <1>4 DEF Ahead, Fits, Shown
      <4>2. h \in 0 .. Hops /\ k \in h .. Hops  BY <1>2, <2>1, <2>2, <4>1
      <4>3. at[k] = None  BY <2>4, <4>2, WalkEnds
      <4> QED  BY <1>3, <4>1, <4>3
    <3>2. Forward(s, day) = NoAnswer  BY <1>6, <2>4
    <3> QED  BY <3>1, <3>2
  <2> HIDE DEF Stops, stopping
  <2>5. CASE at[h] # None /\ Seen(at, h)
    <3>1. Forward(s, day) = [kind |-> "cycle"]  BY <1>6, <1>8, <2>5
    <3> QED  BY <3>1
  <2>6. CASE at[h] # None /\ ~ Seen(at, h) /\ Missing(vault, at[h])
    <3>1. Forward(s, day) = [kind |-> "dangling", path |-> at[h - 1]]  BY <1>6, <1>8, <2>6
    <3> QED  BY <3>1
  <2>7. CASE at[h] # None /\ ~ Seen(at, h) /\ ~ Missing(vault, at[h]) /\ at[h] \notin readable
    <3>1. Forward(s, day) = [kind |-> "restricted"]  BY <1>6, <1>8, <2>7
    <3> QED  BY <3>1
  <2>8. CASE at[h] # None /\ ~ Seen(at, h) /\ ~ Missing(vault, at[h]) /\ at[h] \in readable
    <3>1. Forward(s, day) = [kind |-> "resolved", path |-> at[h], hops |-> h]  BY <1>6, <1>8, <2>8
    <3>2. Covers(at[h], day)  BY <2>2, <2>8 DEF Stops
    <3>3. at[h] \in Shown(vault)  BY <2>3, <2>8 DEF Missing, Shown
    <3>4. h \in near  BY <1>2, <2>2, <3>2, <3>3 DEF Ahead, Fits
    <3>5. Min(near) = h
      <4>1. near \in SUBSET Nat /\ \A k \in near : h <= k  BY <1>4, <2>1
      <4> HIDE DEF near
      <4> QED  BY <3>4, <4>1, MinIs
    <3> QED  BY <3>1, <3>4, <3>5
  <2> QED  BY <2>4, <2>5, <2>6, <2>7, <2>8
<1> QED  BY <1>7, <1>8

\* The documents of the vault whose walks come to s within n hops.
Reaching(s, n) ==
  {d \in Present : \E k \in 0 .. n : k <= Hops /\ Walk(Rows(vault), d)[k] = s}

\* One more hop back adds the documents that point at those already met.
LEMMA ReachingOpens ==
  ASSUME VaultTypeOK, NEW s \in Shown(vault), NEW n \in Nat \ {0}
  PROVE  /\ Reaching(s, 0) = {s}
         /\ Reaching(s, n) = Reaching(s, n - 1) \cup {d \in Present : Rows(vault)[d] \in Reaching(s, n - 1)}
<1>1. /\ readable \subseteq Docs /\ IsVault(vault) /\ s \in Docs /\ s \in Present
      /\ Present \subseteq Docs
  BY VaultIs DEF Shown, Present
<1>2. Hops \in Nat /\ None \notin Docs  BY WalkIs, ChainsAssumption
<1>3. \A d : Walk(Rows(vault), d)[0] = d  BY WalkIs
<1>4. Reaching(s, 0) = {s}
  <2>1. \A d : d \in Reaching(s, 0) <=> d \in Present /\ Walk(Rows(vault), d)[0] = s
    BY <1>2 DEF Reaching
  <2> QED  BY <1>1, <1>3, <2>1
<1>5. ASSUME NEW d \in Present, 1 \in 0 .. Hops
      PROVE  Walk(Rows(vault), d)[1] = Rows(vault)[d]
  <2>1. 0 \in 0 .. Hops - 1 /\ Walk(Rows(vault), d)[0] # None /\ 0 + 1 = 1  BY <1>1, <1>2, <1>3, <1>5
  <2>2. Walk(Rows(vault), d)[0 + 1] = Rows(vault)[Walk(Rows(vault), d)[0]]
    BY <2>1, WalkStep
  <2> QED  BY <1>3, <2>1, <2>2
<1>6. ASSUME NEW d \in Reaching(s, n)
      PROVE  d \in Reaching(s, n - 1) \/ Rows(vault)[d] \in Reaching(s, n - 1)
  <2>1. PICK k \in 0 .. n : k <= Hops /\ Walk(Rows(vault), d)[k] = s  BY <1>6 DEF Reaching
  <2>2. d \in Present /\ d \in Docs  BY <1>1 DEF Reaching
  <2>3. CASE k = 0
    <3>1. 0 \in 0 .. n - 1 /\ 0 <= Hops  BY <1>2
    <3> QED  BY <2>1, <2>2, <2>3, <3>1 DEF Reaching
  <2>4. CASE k # 0
    <3>1. PICK m : m = k - 1  OBVIOUS
    <3>2. /\ m \in 0 .. n - 1 /\ m <= Hops /\ m \in 0 .. Hops /\ 1 \in 0 .. Hops
          /\ 1 + m = k /\ 1 + m \in 0 .. Hops /\ k \in 0 .. Hops
      BY <1>2, <2>1, <2>4, <3>1
    <3>3. PICK e : e = Rows(vault)[d] /\ Walk(Rows(vault), d)[1] = e  BY <1>5, <2>2, <3>2
    <3>4. Walk(Rows(vault), Walk(Rows(vault), d)[1])[m] = Walk(Rows(vault), d)[1 + m]
      BY <3>2, WalkOn
    <3>5. Walk(Rows(vault), e)[m] = s  BY <2>1, <3>2, <3>3, <3>4
    <3>6. e \in Present
      <4>1. CASE m = 0
        <5>1. Walk(Rows(vault), e)[0] = e  BY <1>3
        <5> QED  BY <1>1, <3>5, <4>1, <5>1
      <4>2. CASE m # 0
        <5>1. 1 \in 0 .. k - 1  BY <3>2, <4>2
        <5>2. Walk(Rows(vault), d)[k] # None  BY <1>1, <1>2, <2>1
        <5>3. e \in Docs /\ vault[e] # Absent  BY <1>1, <2>2, <3>2, <3>3, <5>1, <5>2, RowWalk
        <5> QED  BY <5>3 DEF Present
      <4> QED  BY <4>1, <4>2
    <3>7. e \in Reaching(s, n - 1)  BY <3>2, <3>5, <3>6 DEF Reaching
    <3> QED  BY <3>3, <3>7
  <2> QED  BY <2>3, <2>4
<1>7. ASSUME NEW d \in Reaching(s, n - 1)  PROVE d \in Reaching(s, n)
  <2>1. PICK k \in 0 .. n - 1 : k <= Hops /\ Walk(Rows(vault), d)[k] = s  BY <1>7 DEF Reaching
  <2>2. k \in 0 .. n /\ d \in Present  BY <1>7 DEF Reaching
  <2> QED  BY <2>1, <2>2 DEF Reaching
<1>8. ASSUME NEW d \in Present, Rows(vault)[d] \in Reaching(s, n - 1)  PROVE d \in Reaching(s, n)
  <2>1. PICK e : e = Rows(vault)[d]  OBVIOUS
  <2>2. PICK k \in 0 .. n - 1 : k <= Hops /\ Walk(Rows(vault), e)[k] = s
    BY <1>8, <2>1 DEF Reaching
  <2>3. e \in Docs  BY <1>1, <1>8, <2>1 DEF Reaching
  <2>4. k \in 0 .. Hops  BY <1>2, <2>2
  <2>5. PICK i \in 0 .. Hops - 1 : i <= k /\ Walk(Rows(vault), e)[i] = s
    BY <1>1, <2>2, <2>3, <2>4, RowMeets
  <2>6. i \in 0 .. Hops /\ 1 \in 0 .. Hops /\ 1 + i \in 0 .. Hops /\ 1 + i \in 0 .. n /\ 1 + i <= Hops
    BY <1>2, <2>2, <2>5
  <2>7. Walk(Rows(vault), d)[1] = e  BY <1>5, <2>1, <2>6
  <2>8. Walk(Rows(vault), Walk(Rows(vault), d)[1])[i] = Walk(Rows(vault), d)[1 + i]
    BY <2>6, WalkOn
  <2>9. Walk(Rows(vault), d)[1 + i] = s  BY <2>5, <2>7, <2>8
  <2> QED  BY <2>6, <2>9 DEF Reaching
<1>9. Reaching(s, n) \subseteq Present  BY DEF Reaching
<1>10. Reaching(s, n) = Reaching(s, n - 1) \cup {d \in Present : Rows(vault)[d] \in Reaching(s, n - 1)}
  <2> DEFINE R == Reaching(s, n)
             Q == Reaching(s, n - 1)
  <2>1. \A d \in R : d \in Q \/ Rows(vault)[d] \in Q  BY <1>6
  <2>2. Q \subseteq R /\ \A d \in Present : Rows(vault)[d] \in Q => d \in R  BY <1>7, <1>8
  <2>3. R \subseteq Present  BY <1>9
  <2> HIDE DEF R, Q
  <2>4. R = Q \cup {d \in Present : Rows(vault)[d] \in Q}  BY <2>1, <2>2, <2>3
  <2> QED  BY <2>4 DEF R, Q
<1> QED  BY <1>4, <1>10

\* Breadth first finds, at each hop, those that first come to s by it.
LEMMA FrontierIs ==
  ASSUME VaultTypeOK, NEW s \in Shown(vault), NEW n \in 1 .. MaxHops
  PROVE  Frontier(s)[n] = Reaching(s, n) \ Reaching(s, n - 1)
<1> DEFINE Back(S) == S \cup {d \in Present : Rows(vault)[d] \in S}
           IsUpto(g) == g = [m \in 0 .. MaxHops |-> IF m = 0 THEN {s} ELSE Back(g[m - 1])]
           upto == CHOOSE g : IsUpto(g)
<1>1. MaxHops \in Nat /\ s \in Present  BY ReadersAssumption, VaultIs DEF Shown, Present
<1>2. \A S \in SUBSET Present : Back(S) \in SUBSET Present  OBVIOUS
<1>3. Frontier(s) = [m \in 1 .. MaxHops |-> upto[m] \ upto[m - 1]]
  BY DEF Frontier
<1> HIDE DEF Back
<1>4. \E g : IsUpto(g)
  <2> DEFINE step == [m \in 1 .. MaxHops |-> [S \in SUBSET Present |-> Back(S)]]
  <2>1. {s} \in SUBSET Present /\ step \in [1 .. MaxHops -> [SUBSET Present -> SUBSET Present]]
    BY <1>1, <1>2
  <2>2. \A m \in 1 .. MaxHops : \A S \in SUBSET Present : step[m][S] = Back(S)  OBVIOUS
  <2> HIDE DEF step
  <2>3. PICK f \in [0 .. MaxHops -> SUBSET Present] :
          f[0] = {s} /\ \A m \in 1 .. MaxHops : f[m] = step[m][f[m - 1]]
    <3>1. PICK T, a : T = SUBSET Present /\ a = {s}  OBVIOUS
    <3>2. a \in T /\ step \in [1 .. MaxHops -> [T -> T]]  BY <2>1, <3>1
    <3>3. PICK f : Solves(f, MaxHops, T, a, step)  BY <1>1, <3>2, Recursion
    <3> QED  BY <3>1, <3>3 DEF Solves
  <2>4. \A m \in 0 .. MaxHops : f[m] = IF m = 0 THEN {s} ELSE Back(f[m - 1])
    <3> SUFFICES ASSUME NEW m \in 0 .. MaxHops, m # 0  PROVE f[m] = Back(f[m - 1])
      BY <2>3
    <3>1. m \in 1 .. MaxHops /\ m - 1 \in 0 .. MaxHops  BY <1>1
    <3> QED  BY <2>2, <2>3, <3>1
  <2>5. IsUpto(f)  BY <2>3, <2>4
  <2> QED  BY <2>5
<1>5. IsUpto(upto)
  <2> HIDE DEF IsUpto
  <2> QED  BY <1>4, Zenon
<1> HIDE DEF upto
<1>6. \A m \in 0 .. MaxHops : upto[m] = IF m = 0 THEN {s} ELSE Back(upto[m - 1])  BY <1>5
<1> HIDE DEF IsUpto
<1>7. \A m \in 0 .. MaxHops : upto[m] = Reaching(s, m)
  <2> DEFINE Off == {m \in 0 .. MaxHops : upto[m] # Reaching(s, m)}
  <2> SUFFICES ASSUME Off # {}  PROVE FALSE
    OBVIOUS
  <2>1. Off \in SUBSET Nat  BY <1>1
  <2>2. PICK m \in Off : \A j \in Off : m <= j
    BY <2>1, LeastExists, Zenon
  <2>3. m # 0
    <3>1. Reaching(s, 0) = {s} /\ upto[0] = {s}
      <4>1. 1 \in Nat \ {0} /\ 0 \in 0 .. MaxHops  BY <1>1
      <4> QED  BY <1>6, <4>1, ReachingOpens
    <3> QED  BY <2>2, <3>1
  <2>4. m \in 0 .. MaxHops /\ m - 1 \in 0 .. MaxHops /\ m \in Nat \ {0} /\ ~ (m <= m - 1)
    BY <1>1, <2>2, <2>3
  <2>5. upto[m - 1] = Reaching(s, m - 1)  BY <2>2, <2>4
  <2>6. Reaching(s, m) = Back(Reaching(s, m - 1))  BY <2>4, ReachingOpens DEF Back
  <2> QED  BY <1>6, <2>2, <2>3, <2>4, <2>5, <2>6
<1>8. n \in 0 .. MaxHops /\ n - 1 \in 0 .. MaxHops  BY <1>1
<1> QED  BY <1>3, <1>7, <1>8

\* The documents the day fits, first to come to s by h hops.
Behind(s, day, h) ==
  {d \in Fits(day) : Walk(Rows(vault), d)[h] = s /\ \A i \in 0 .. h - 1 : Walk(Rows(vault), d)[i] # s}

Past(s, day) == {h \in HopNumbers : h <= MaxHops /\ Behind(s, day, h) # {}}

\* walkBackward finds nothing, the one nearest, or how many are as near.
LEMMA BackwardIs ==
  ASSUME VaultTypeOK, NEW s \in Shown(vault), NEW day
  PROVE  \/ Past(s, day) = {} /\ Backward(s, day) = NoAnswer
         \/ /\ Past(s, day) # {}
            /\ \E path : /\ Behind(s, day, Min(Past(s, day))) = {path}
                         /\ Backward(s, day) = [kind |-> "resolved", path |-> path, hops |-> Min(Past(s, day))]
         \/ /\ Past(s, day) # {}
            /\ Backward(s, day) = [kind |-> "ambiguous",
                                   count |-> Cardinality(Behind(s, day, Min(Past(s, day))))]
<1> DEFINE covering(n) == {d \in Frontier(s)[n] \cap readable : Covers(d, day)}
           hits == {n \in 1 .. MaxHops : covering(n) # {}}
           past == Past(s, day)
<1>1. Hops \in Nat /\ HopNumbers = 1 .. Hops /\ MaxHops \in Nat
  BY WalkIs, ReadersAssumption DEF HopNumbers, Hops
<1>2. readable \subseteq Docs  BY VaultIs
<1>3. \A n \in 1 .. MaxHops : covering(n) = IF n <= Hops THEN Behind(s, day, n) ELSE {}
  <2> SUFFICES ASSUME NEW n \in 1 .. MaxHops
               PROVE  covering(n) = IF n <= Hops THEN Behind(s, day, n) ELSE {}
    OBVIOUS
  <2>1. Frontier(s)[n] = Reaching(s, n) \ Reaching(s, n - 1)  BY FrontierIs
  <2>2. \A d : d \in Frontier(s)[n] <=>
                 /\ d \in Present /\ n <= Hops /\ Walk(Rows(vault), d)[n] = s
                 /\ \A i \in 0 .. n - 1 : Walk(Rows(vault), d)[i] # s
    <3> SUFFICES ASSUME NEW d \in Present
                 PROVE  d \in Frontier(s)[n] <=>
                          /\ n <= Hops /\ Walk(Rows(vault), d)[n] = s
                          /\ \A i \in 0 .. n - 1 : Walk(Rows(vault), d)[i] # s
      BY <2>1 DEF Reaching
    <3> DEFINE At(k) == k <= Hops /\ Walk(Rows(vault), d)[k] = s
    <3>1. d \in Frontier(s)[n] <=> (\E k \in 0 .. n : At(k)) /\ ~ (\E k \in 0 .. n - 1 : At(k))
      BY <2>1 DEF Reaching
    <3>2. \A k \in 0 .. n : k = n \/ k \in 0 .. n - 1  BY <1>1
    <3>3. n \in 0 .. n /\ \A k \in 0 .. n - 1 : k \in 0 .. n /\ (n <= Hops => k <= Hops)
      BY <1>1
    <3>4. (\E k \in 0 .. n : At(k)) /\ ~ (\E k \in 0 .. n - 1 : At(k))
            <=> At(n) /\ \A k \in 0 .. n - 1 : ~ At(k)
      <4> HIDE DEF At
      <4> QED  BY <3>2, <3>3
    <3>5. ASSUME n <= Hops
          PROVE  (\A k \in 0 .. n - 1 : ~ At(k)) <=> \A i \in 0 .. n - 1 : Walk(Rows(vault), d)[i] # s
      BY <3>3, <3>5
    <3> QED  BY <3>1, <3>4, <3>5
  <2>3. \A d : d \in covering(n) <=> d \in Frontier(s)[n] /\ d \in readable /\ Covers(d, day)
    OBVIOUS
  <2>4. \A d : d \in Behind(s, day, n) <=>
                 /\ d \in Present /\ d \in readable /\ Covers(d, day) /\ Walk(Rows(vault), d)[n] = s
                 /\ \A i \in 0 .. n - 1 : Walk(Rows(vault), d)[i] # s
    BY <1>2 DEF Behind, Fits, Shown, Present
  <2> HIDE DEF covering
  <2>5. CASE n <= Hops
    <3>1. \A d : d \in covering(n) <=> d \in Behind(s, day, n)  BY <2>2, <2>3, <2>4, <2>5
    <3>2. covering(n) = Behind(s, day, n)  BY <3>1
    <3> QED  BY <2>5, <3>2
  <2>6. CASE ~ (n <= Hops)
    <3>1. \A d : d \notin covering(n)  BY <2>2, <2>3, <2>6
    <3> QED  BY <2>6, <3>1
  <2> QED  BY <2>5, <2>6
<1>4. Backward(s, day) =
        IF hits = {} THEN NoAnswer
        ELSE IF Cardinality(covering(Min(hits))) = 1
        THEN [kind |-> "resolved", path |-> CHOOSE d \in covering(Min(hits)) : TRUE, hops |-> Min(hits)]
        ELSE [kind |-> "ambiguous", count |-> Cardinality(covering(Min(hits)))]
  BY DEF Backward
<1> HIDE DEF covering
<1>5. hits = past /\ past \in SUBSET Nat
  <2>1. \A n : n \in hits <=> n \in 1 .. MaxHops /\ n <= Hops /\ Behind(s, day, n) # {}
    BY <1>3
  <2>2. \A n : n \in past <=> n \in 1 .. Hops /\ n <= MaxHops /\ Behind(s, day, n) # {}
    BY <1>1 DEF Past
  <2>3. \A n : n \in 1 .. MaxHops /\ n <= Hops <=> n \in 1 .. Hops /\ n <= MaxHops
    BY <1>1
  <2>4. \A n : n \in hits <=> n \in past  BY <2>1, <2>2, <2>3
  <2>5. past \subseteq 1 .. Hops  BY <2>2
  <2> HIDE DEF hits, past
  <2> QED  BY <1>1, <2>4, <2>5
<1>6. CASE past = {}
  BY <1>4, <1>5, <1>6
<1>7. CASE past # {}
  <2>1. PICK n : n = Min(past)  OBVIOUS
  <2>2. n \in past  BY <1>5, <1>7, <2>1, MinOf
  <2>3. n \in 1 .. MaxHops /\ n <= Hops  BY <1>1, <2>2 DEF Past
  <2>4. covering(n) = Behind(s, day, n)  BY <1>3, <2>3
  <2>5. IsFiniteSet(Behind(s, day, n))
    <3>1. Behind(s, day, n) \subseteq Docs  BY <1>2 DEF Behind, Fits, Shown
    <3> QED  BY <3>1, ChainsAssumption, FS_Subset
  <2>6. CASE Cardinality(Behind(s, day, n)) = 1
    <3>1. PICK path : Behind(s, day, n) = {path}  BY <2>5, <2>6, FS_Singleton
    <3>2. (CHOOSE d \in covering(n) : TRUE) = path  BY <2>4, <3>1
    <3>3. Backward(s, day) = [kind |-> "resolved", path |-> path, hops |-> n]
      BY <1>4, <1>5, <1>7, <2>1, <2>4, <2>6, <3>2
    <3> QED  BY <1>7, <2>1, <3>1, <3>3
  <2>7. CASE Cardinality(Behind(s, day, n)) # 1
    <3>1. Backward(s, day) = [kind |-> "ambiguous", count |-> Cardinality(Behind(s, day, n))]
      BY <1>4, <1>5, <1>7, <2>1, <2>4, <2>7
    <3> QED  BY <1>7, <2>1, <3>1
  <2> QED  BY <2>6, <2>7
<1> QED  BY <1>6, <1>7

\* What is offered for a day was valid then, may be read, and is the nearest.
LEMMA ValidAtIsHonest ==
  ASSUME VaultTypeOK
  PROVE  ValidAtHonest
<1> SUFFICES ASSUME NEW s \in Shown(vault), NEW day \in Days,
                    NEW source, source = ValidAtSource(s, day)
             PROVE  CASE source.kind = "resolved"  ->
                           \/ /\ Ahead(s, day) # {} /\ source.hops = Min(Ahead(s, day))
                              /\ source.path = Walk(Rows(vault), s)[source.hops]
                           \/ /\ Past(s, day) # {} /\ source.hops = Min(Past(s, day))
                              /\ Behind(s, day, source.hops) = {source.path}
                      [] source.kind = "ambiguous" ->
                           /\ Past(s, day) # {}
                           /\ Cardinality(Behind(s, day, Min(Past(s, day)))) = source.count
                      [] source.kind = "no-cover"  -> Past(s, day) = {} /\ Ahead(s, day) = {}
                      [] OTHER -> source.kind \in {"cycle", "dangling", "restricted"} => s \notin Fits(day)
  BY DEF ValidAtHonest, Ahead, Past, Behind, Fits
<1>1. CASE Covers(s, day)
  <2>1. source.kind = "covered"  BY <1>1 DEF ValidAtSource
  <2> QED  BY <2>1
<1>2. CASE ~ Covers(s, day) /\ Forward(s, day) # NoAnswer
  <2>1. source = Forward(s, day)  BY <1>2 DEF ValidAtSource
  <2>2. CASE Forward(s, day).kind \in {"cycle", "dangling", "restricted"}
    <3>1. s \notin Fits(day)  BY <1>2 DEF Fits
    <3> QED  BY <2>1, <2>2, <3>1
  <2>3. CASE /\ Ahead(s, day) # {}
             /\ Forward(s, day) = [kind |-> "resolved",
                                   path |-> Walk(Rows(vault), s)[Min(Ahead(s, day))],
                                   hops |-> Min(Ahead(s, day))]
    BY <2>1, <2>3
  <2> QED  BY <1>2, <2>2, <2>3, ForwardIs
<1>3. CASE ~ Covers(s, day) /\ Forward(s, day) = NoAnswer
  <2>1. Ahead(s, day) = {}
    <3>1. NoAnswer.kind = "nothing"  BY DEF NoAnswer
    <3> QED  BY <1>3, <3>1, ForwardIs
  <2>2. source = IF Backward(s, day) # NoAnswer THEN Backward(s, day) ELSE [kind |-> "no-cover"]
    BY <1>3 DEF ValidAtSource
  <2>3. CASE Past(s, day) = {} /\ Backward(s, day) = NoAnswer
    <3>1. source = [kind |-> "no-cover"]  BY <2>2, <2>3
    <3> QED  BY <2>1, <2>3, <3>1
  <2>4. CASE Past(s, day) # {} /\ \E path : /\ Behind(s, day, Min(Past(s, day))) = {path}
                         /\ Backward(s, day) = [kind |-> "resolved", path |-> path, hops |-> Min(Past(s, day))]
    <3>1. PICK path : /\ Behind(s, day, Min(Past(s, day))) = {path}
                      /\ Backward(s, day) = [kind |-> "resolved", path |-> path, hops |-> Min(Past(s, day))]
      BY <2>4
    <3>2. Backward(s, day) # NoAnswer  BY <3>1 DEF NoAnswer
    <3>3. source = [kind |-> "resolved", path |-> path, hops |-> Min(Past(s, day))]  BY <2>2, <3>1, <3>2
    <3> QED  BY <2>4, <3>1, <3>3
  <2>5. CASE /\ Past(s, day) # {}
             /\ Backward(s, day) = [kind |-> "ambiguous",
                                    count |-> Cardinality(Behind(s, day, Min(Past(s, day))))]
    <3>1. Backward(s, day) # NoAnswer  BY <2>5 DEF NoAnswer
    <3>2. source = [kind |-> "ambiguous", count |-> Cardinality(Behind(s, day, Min(Past(s, day))))]
      BY <2>2, <2>5, <3>1
    <3> QED  BY <2>5, <3>2
  <2> QED  BY <2>3, <2>4, <2>5, BackwardIs
<1> QED  BY <1>1, <1>2, <1>3

\* resolveValidAtSource, of every vault, day and MAX_HOPS: what it offers held on that
\* day, may be read, and is the nearest ahead or the nearest behind; it says there
\* is none only when neither walk has one within reach.
THEOREM ValidAtHonestHolds == Vaults => []ValidAtHonest
BY Documents, ValidAtIsHonest, PTL

------------------------------------------------------------------------------
(***************************************************************************)
(* search: what applySupersededSuppression keeps and demotes.              *)
(***************************************************************************)
\* A recursion whose step is one of S is what it says.
LEMMA SolvesIs ==
  ASSUME NEW n \in Nat, NEW S, NEW a, NEW step, NEW f, Solves(f, n, S, a, step)
  PROVE  /\ f = [m \in 0 .. n |-> f[m]]
         /\ \A m \in 0 .. n : f[m] \in S
         /\ f[0] = a /\ \A m \in 1 .. n : f[m] = step[m][f[m - 1]]
BY DEF Solves

\* Where a resolved document's chain ends is shown and itself current.
LEMMA HeadIsCurrent ==
  ASSUME VaultTypeOK, NEW d \in Shown(vault), Sources(vault)[d].kind = "resolved"
  PROVE  /\ Sources(vault)[d].path \in Shown(vault)
         /\ Sources(vault)[Sources(vault)[d].path].kind = "current"
<1>1. readable \subseteq Docs /\ IsVault(vault)  BY VaultIs
<1>2. PICK n : Trail(vault, d, n)  BY <1>1, TrailExists
<1>3. PICK p, x : p = Walk(Rows(vault), d) /\ x = p[n + 1]  OBVIOUS
<1>4. /\ n \in 0 .. n /\ p[n] \in Shown(vault) /\ p[n] \in Docs /\ x = Rows(vault)[p[n]]
  BY <1>1, <1>2, <1>3, TrailOpens
<1>5. Sources(vault)[d] = CurrentSource(vault, d)  BY DEF Sources
<1>6. PICK source : source = CurrentSource(vault, d)  OBVIOUS
<1>7. x = None /\ source = [kind |-> "resolved", path |-> p[n], hops |-> n]
  <2>1. CASE x = None /\ n = 0
    <3>1. source = [kind |-> "current"]  BY <1>1, <1>2, <1>3, <1>6, <2>1, TrailSource
    <3> QED  BY <1>5, <1>6, <3>1
  <2>2. CASE x = None /\ n # 0
    BY <1>1, <1>2, <1>3, <1>6, <2>2, TrailSource
  <2>3. CASE x # None /\ Gone(vault, x)
    <3>1. source = [kind |-> "dangling", path |-> p[n]]  BY <1>1, <1>2, <1>3, <1>6, <2>3, TrailSource
    <3> QED  BY <1>5, <1>6, <3>1
  <2>4. CASE Hidden(vault, x)
    <3>1. source = [kind |-> "restricted"]  BY <1>1, <1>2, <1>3, <1>6, <2>4, TrailSource
    <3> QED  BY <1>5, <1>6, <3>1
  <2>5. CASE Turns(vault, x)
    <3>1. source = [kind |-> "cycle"]  BY <1>1, <1>2, <1>3, <1>6, <2>5, TrailSource
    <3> QED  BY <1>5, <1>6, <3>1
  <2> QED  BY <2>1, <2>2, <2>3, <2>4, <2>5, EndCases
<1>8. PICK e : e = p[n]  OBVIOUS
<1>9. Sources(vault)[e].kind = "current"
  <2>1. PICK m : Trail(vault, e, m)  BY <1>1, <1>4, <1>8, TrailExists
  <2>2. PICK q : q = Walk(Rows(vault), e)  OBVIOUS
  <2>3. /\ Hops \in Nat /\ m \in Nat /\ q[0] = e /\ 0 \in 0 .. m
        /\ \A i \in 0 .. m : q[i] \in Docs /\ q[i + 1] = Rows(vault)[q[i]]
    BY <1>1, <2>1, <2>2, TrailOpens
  <2>4. q[1] = None
    <3>1. 0 + 1 = 1  OBVIOUS
    <3> QED  BY <1>4, <1>7, <1>8, <2>3, <3>1
  <2>5. m = 0
    <3> SUFFICES ASSUME m # 0  PROVE FALSE
      OBVIOUS
    <3>1. 1 \in 0 .. m  BY <2>3
    <3> QED  BY <2>3, <2>4, <3>1, ChainsAssumption
  <2>6. q[m + 1] = None  BY <2>4, <2>5
  <2>7. CurrentSource(vault, e) = [kind |-> "current"]
    BY <1>1, <1>4, <1>8, <2>1, <2>2, <2>5, <2>6, TrailSource
  <2> QED  BY <1>4, <1>8, <2>7 DEF Sources
<1> QED  BY <1>4, <1>5, <1>6, <1>7, <1>8, <1>9

\* A hit list: sequences of distinct documents.
LEMMA HitsAre ==
  ASSUME VaultTypeOK, NEW hits \in HitLists
  PROVE  /\ Len(hits) \in Nat /\ DOMAIN hits = 1 .. Len(hits) /\ hits \in Seq(Shown(vault))
         /\ \A i \in 1 .. Len(hits) : hits[i] \in Shown(vault)
         /\ \A i, j \in 1 .. Len(hits) : hits[i] = hits[j] => i = j
         /\ Range(hits) = {hits[i] : i \in 1 .. Len(hits)}
<1>1. PICK n \in 1 .. Cardinality(Docs) : hits \in [1 .. n -> Shown(vault)]
  BY DEF HitLists
<1>2. n \in Nat  BY <1>1
<1>3. hits \in Seq(Shown(vault)) /\ Len(hits) = n /\ DOMAIN hits = 1 .. n  BY <1>1, <1>2
<1>4. IsInjective(hits)  BY DEF HitLists
<1>5. \A i, j \in 1 .. n : hits[i] = hits[j] => i = j  BY <1>3, <1>4 DEF IsInjective
<1>6. Range(hits) = {hits[i] : i \in 1 .. n}  BY <1>3 DEF Range
<1> QED  BY <1>1, <1>2, <1>3, <1>5, <1>6

\* What Append does to what a sequence holds.
LEMMA Appended ==
  ASSUME NEW D, NEW q \in Seq(D), NEW x \in D
  PROVE  /\ Append(q, x) \in Seq(D)
         /\ Range(Append(q, x)) = Range(q) \cup {x}
         /\ IsInjective(q) /\ x \notin Range(q) => IsInjective(Append(q, x))
<1>1. PICK r : r = Append(q, x)  OBVIOUS
<1>2. /\ Len(q) \in Nat /\ DOMAIN q = 1 .. Len(q)
      /\ r \in Seq(D) /\ Len(r) = Len(q) + 1 /\ DOMAIN r = 1 .. Len(q) + 1
      /\ r[Len(q) + 1] = x /\ \A i \in 1 .. Len(q) : r[i] = q[i]
  BY <1>1
<1>3. \A i : i \in DOMAIN r <=> i \in DOMAIN q \/ i = Len(q) + 1  BY <1>2
<1>4. Range(r) = Range(q) \cup {x}  BY <1>2, <1>3 DEF Range
<1>5. IsInjective(q) /\ x \notin Range(q) => IsInjective(r)
  <2> SUFFICES ASSUME IsInjective(q), x \notin Range(q), NEW i \in DOMAIN r, NEW j \in DOMAIN r, r[i] = r[j]
               PROVE  i = j
    BY DEF IsInjective
  <2>1. \A k \in DOMAIN q : r[k] = q[k] /\ q[k] # x  BY <1>2 DEF Range
  <2> QED  BY <1>2, <1>3, <2>1 DEF IsInjective
<1> QED  BY <1>1, <1>2, <1>4, <1>5

Outdated(source, d) == source[d].kind = "resolved"

\* What is kept of a hit list: the hits that are not stale, and heads besides.
LEMMA KeptIs ==
  ASSUME VaultTypeOK, NEW hits \in HitLists, NEW source, source = Sources(vault)
  PROVE  /\ Kept(hits, source) \in Seq(Shown(vault)) /\ IsInjective(Kept(hits, source))
         /\ \A d \in Range(Kept(hits, source)) : ~ Outdated(source, d)
         /\ \A d \in Range(hits) : ~ Outdated(source, d) => d \in Range(Kept(hits, source))
         /\ \A d \in Range(hits) : Outdated(source, d) => source[d].path \in Range(Kept(hits, source))
<1> DEFINE N == Len(hits)
           D == Shown(vault)
           Adds(m, q) == IF ~ Outdated(source, hits[m]) THEN Append(q, hits[m])
                         ELSE IF source[hits[m]].path \in Range(hits) \cup Range(q) THEN q
                         ELSE Append(q, source[hits[m]].path)
           IsKept(g) == g = [m \in 0 .. N |-> IF m = 0 THEN <<>> ELSE Adds(m, g[m - 1])]
           kept == CHOOSE g : IsKept(g)
<1>1. /\ N \in Nat /\ hits \in Seq(D)
      /\ \A i \in 1 .. N : hits[i] \in D
      /\ \A i, j \in 1 .. N : hits[i] = hits[j] => i = j
      /\ Range(hits) = {hits[i] : i \in 1 .. N}
  BY HitsAre
<1>2. \A d \in D : Outdated(source, d) => source[d].path \in D /\ ~ Outdated(source, source[d].path)
  BY HeadIsCurrent DEF Outdated
<1>3. Kept(hits, source) = kept[N]
  BY DEF Kept, Outdated
<1>4. \A m \in 1 .. N : \A q \in Seq(D) : Adds(m, q) \in Seq(D)
  BY <1>1, <1>2
<1> HIDE DEF Adds, D, N
<1>5. \E g : IsKept(g) /\ \A m \in 0 .. N : g[m] \in Seq(D)
  <2> DEFINE step == [m \in 1 .. N |-> [q \in Seq(D) |-> Adds(m, q)]]
  <2>1. step \in [1 .. N -> [Seq(D) -> Seq(D)]]  BY <1>4
  <2>2. \A m \in 1 .. N : \A q \in Seq(D) : step[m][q] = Adds(m, q)  OBVIOUS
  <2> HIDE DEF step
  <2>3. PICK T, a : T = Seq(D) /\ a = <<>>  OBVIOUS
  <2>4. a \in T /\ step \in [1 .. N -> [T -> T]]  BY <2>1, <2>3
  <2>5. PICK f : Solves(f, N, T, a, step)  BY <1>1, <2>4, Recursion
  <2>6. /\ f = [m \in 0 .. N |-> f[m]] /\ \A m \in 0 .. N : f[m] \in Seq(D)
        /\ f[0] = <<>> /\ \A m \in 1 .. N : f[m] = step[m][f[m - 1]]
    BY <1>1, <2>3, <2>5, SolvesIs
  <2>7. \A m \in 0 .. N : f[m] = IF m = 0 THEN <<>> ELSE Adds(m, f[m - 1])
    <3> SUFFICES ASSUME NEW m \in 0 .. N, m # 0  PROVE f[m] = Adds(m, f[m - 1])
      BY <2>6
    <3>1. m \in 1 .. N /\ m - 1 \in 0 .. N  BY <1>1
    <3> QED  BY <2>2, <2>6, <3>1
  <2>8. IsKept(f)  BY <2>6, <2>7
  <2> QED  BY <2>6, <2>8
<1>6. IsKept(kept)
  <2> HIDE DEF IsKept
  <2> QED  BY <1>5, Zenon
<1> HIDE DEF kept
<1>7. \A m \in 0 .. N : kept[m] = IF m = 0 THEN <<>> ELSE Adds(m, kept[m - 1])  BY <1>6
<1> HIDE DEF IsKept
\* Up to m, and of what is kept beyond the hits: it is none of them.
<1> DEFINE Good(m) ==
             /\ kept[m] \in Seq(D) /\ IsInjective(kept[m])
             /\ \A d \in Range(kept[m]) : ~ Outdated(source, d)
             /\ \A i \in 1 .. m : ~ Outdated(source, hits[i]) => hits[i] \in Range(kept[m])
             /\ \A i \in 1 .. m : Outdated(source, hits[i]) =>
                  source[hits[i]].path \in Range(hits) \cup Range(kept[m])
             /\ \A d \in Range(kept[m]) : d \in Range(hits) => \E i \in 1 .. m : d = hits[i]
<1>8. \A m \in 0 .. N : Good(m)
  <2> DEFINE Off == {m \in 0 .. N : ~ Good(m)}
  <2> SUFFICES ASSUME Off # {}  PROVE FALSE
    OBVIOUS
  <2> HIDE DEF Good
  <2>1. Off \in SUBSET Nat  BY <1>1
  <2>2. PICK m \in Off : \A j \in Off : m <= j
    BY <2>1, LeastExists, Zenon
  <2>3. m # 0
    <3>1. kept[0] = <<>>  BY <1>1, <1>7
    <3>2. Range(<<>>) = {} /\ IsInjective(<<>>) /\ <<>> \in Seq(D)  BY DEF Range, IsInjective
    <3>3. Good(0)  BY <3>1, <3>2 DEF Good
    <3> QED  BY <2>2, <3>3
  <2>4. m \in 1 .. N /\ m \in 0 .. N /\ m - 1 \in 0 .. N /\ ~ (m <= m - 1)
    BY <1>1, <2>2, <2>3
  <2>5. Good(m - 1)  BY <2>2, <2>4
  <2>6. PICK q, r, x : q = kept[m - 1] /\ r = kept[m] /\ x = hits[m]  OBVIOUS
  <2>7. /\ q \in Seq(D) /\ IsInjective(q)
        /\ \A d \in Range(q) : ~ Outdated(source, d)
        /\ \A i \in 1 .. m - 1 : ~ Outdated(source, hits[i]) => hits[i] \in Range(q)
        /\ \A i \in 1 .. m - 1 : Outdated(source, hits[i]) => source[hits[i]].path \in Range(hits) \cup Range(q)
        /\ \A d \in Range(q) : d \in Range(hits) => \E i \in 1 .. m - 1 : d = hits[i]
    BY <2>5, <2>6 DEF Good
  <2>8. r = Adds(m, q)  BY <1>7, <2>3, <2>4, <2>6
  <2>9. x \in D /\ x \in Range(hits)  BY <1>1, <2>4, <2>6
  <2>10. \A i \in 1 .. m : i = m \/ i \in 1 .. m - 1  BY <2>4
  <2>11. \A i \in 1 .. m - 1 : i \in 1 .. m /\ i # m /\ i \in 1 .. N  BY <1>1, <2>4
  <2>12. m \in 1 .. m  BY <2>4
  <2>13. CASE ~ Outdated(source, x)
    <3>1. r = Append(q, x)  BY <2>6, <2>8, <2>13 DEF Adds
    <3>2. x \notin Range(q)
      <4> SUFFICES ASSUME x \in Range(q)  PROVE FALSE
        OBVIOUS
      <4>1. PICK i \in 1 .. m - 1 : x = hits[i]  BY <2>7, <2>9
      <4> QED  BY <1>1, <2>4, <2>6, <2>11, <4>1
    <3>3. r \in Seq(D) /\ Range(r) = Range(q) \cup {x} /\ IsInjective(r)
      BY <2>7, <2>9, <3>1, <3>2, Appended
    <3>4. Good(m)
      <4>1. \A d \in Range(r) : ~ Outdated(source, d)  BY <2>7, <2>13, <3>3
      <4>2. \A i \in 1 .. m : ~ Outdated(source, hits[i]) => hits[i] \in Range(r)
        BY <2>6, <2>7, <2>10, <3>3
      <4>3. \A i \in 1 .. m : Outdated(source, hits[i]) => source[hits[i]].path \in Range(hits) \cup Range(r)
        BY <2>6, <2>7, <2>10, <2>13, <3>3
      <4>4. \A d \in Range(r) : d \in Range(hits) => \E i \in 1 .. m : d = hits[i]
        BY <2>6, <2>7, <2>11, <2>12, <3>3
      <4> QED  BY <2>6, <3>3, <4>1, <4>2, <4>3, <4>4 DEF Good
    <3> QED  BY <2>2, <3>4
  <2>14. CASE Outdated(source, x) /\ source[x].path \in Range(hits) \cup Range(q)
    <3>1. r = q  BY <2>6, <2>8, <2>14 DEF Adds
    <3>2. Good(m)
      <4>1. \A i \in 1 .. m : ~ Outdated(source, hits[i]) => hits[i] \in Range(r)
        BY <2>6, <2>7, <2>10, <2>14, <3>1
      <4>2. \A i \in 1 .. m : Outdated(source, hits[i]) => source[hits[i]].path \in Range(hits) \cup Range(r)
        BY <2>6, <2>7, <2>10, <2>14, <3>1
      <4>3. \A d \in Range(r) : d \in Range(hits) => \E i \in 1 .. m : d = hits[i]
        BY <2>7, <2>11, <3>1
      <4> QED  BY <2>6, <2>7, <3>1, <4>1, <4>2, <4>3 DEF Good
    <3> QED  BY <2>2, <3>2
  <2>15. CASE Outdated(source, x) /\ source[x].path \notin Range(hits) \cup Range(q)
    <3>1. PICK h : h = source[x].path  OBVIOUS
    <3>2. r = Append(q, h) /\ h \notin Range(q) /\ h \notin Range(hits)
      BY <2>6, <2>8, <2>15, <3>1 DEF Adds
    <3>3. h \in D /\ ~ Outdated(source, h)  BY <1>2, <2>9, <2>15, <3>1
    <3>4. r \in Seq(D) /\ Range(r) = Range(q) \cup {h} /\ IsInjective(r)
      BY <2>7, <3>2, <3>3, Appended
    <3>5. Good(m)
      <4>1. \A d \in Range(r) : ~ Outdated(source, d)  BY <2>7, <3>3, <3>4
      <4>2. \A i \in 1 .. m : ~ Outdated(source, hits[i]) => hits[i] \in Range(r)
        BY <2>6, <2>7, <2>10, <2>15, <3>4
      <4>3. \A i \in 1 .. m : Outdated(source, hits[i]) => source[hits[i]].path \in Range(hits) \cup Range(r)
        BY <2>6, <2>7, <2>10, <3>1, <3>4
      <4>4. \A d \in Range(r) : d \in Range(hits) => \E i \in 1 .. m : d = hits[i]
        BY <2>7, <2>11, <3>2, <3>4
      <4> QED  BY <2>6, <3>4, <4>1, <4>2, <4>3, <4>4 DEF Good
    <3> QED  BY <2>2, <3>5
  <2> QED  BY <2>13, <2>14, <2>15
<1>9. Good(N)
  <2> HIDE DEF Good
  <2>1. N \in 0 .. N  BY <1>1
  <2> QED  BY <1>8, <2>1
<1>10. \A d \in Range(hits) : ~ Outdated(source, d) => d \in Range(kept[N])  BY <1>1, <1>9
<1>11. \A d \in Range(hits) : Outdated(source, d) => source[d].path \in Range(kept[N])
  <2> SUFFICES ASSUME NEW d \in Range(hits), Outdated(source, d)  PROVE source[d].path \in Range(kept[N])
    OBVIOUS
  <2>1. d \in D /\ source[d].path \in Range(hits) \cup Range(kept[N])  BY <1>1, <1>9
  <2>2. ~ Outdated(source, source[d].path)  BY <1>2, <2>1
  <2> QED  BY <1>10, <2>1, <2>2
<1> QED  BY <1>3, <1>9, <1>10, <1>11 DEF D

\* What is demoted: the stale hits, each once.
LEMMA DemotedIs ==
  ASSUME VaultTypeOK, NEW hits \in HitLists, NEW source
  PROVE  /\ Demoted(hits, source) \in Seq(Shown(vault)) /\ IsInjective(Demoted(hits, source))
         /\ \A d : d \in Range(Demoted(hits, source)) <=> d \in Range(hits) /\ Outdated(source, d)
<1> DEFINE N == Len(hits)
           D == Shown(vault)
           Adds(m, q) == IF Outdated(source, hits[m]) THEN Append(q, hits[m]) ELSE q
           IsDemoted(g) == g = [m \in 0 .. N |-> IF m = 0 THEN <<>> ELSE Adds(m, g[m - 1])]
           stale == CHOOSE g : IsDemoted(g)
<1>1. /\ N \in Nat /\ \A i \in 1 .. N : hits[i] \in D
      /\ \A i, j \in 1 .. N : hits[i] = hits[j] => i = j
      /\ Range(hits) = {hits[i] : i \in 1 .. N}
  BY HitsAre
<1>2. Demoted(hits, source) = stale[N]
  BY DEF Demoted, Outdated
<1>3. \A m \in 1 .. N : \A q \in Seq(D) : Adds(m, q) \in Seq(D)
  BY <1>1
<1> HIDE DEF Adds, D, N
<1>4. \E g : IsDemoted(g)
  <2> DEFINE step == [m \in 1 .. N |-> [q \in Seq(D) |-> Adds(m, q)]]
  <2>1. step \in [1 .. N -> [Seq(D) -> Seq(D)]]  BY <1>3
  <2>2. \A m \in 1 .. N : \A q \in Seq(D) : step[m][q] = Adds(m, q)  OBVIOUS
  <2> HIDE DEF step
  <2>3. PICK T, a : T = Seq(D) /\ a = <<>>  OBVIOUS
  <2>4. a \in T /\ step \in [1 .. N -> [T -> T]]  BY <2>1, <2>3
  <2>5. PICK f : Solves(f, N, T, a, step)  BY <1>1, <2>4, Recursion
  <2>6. /\ f = [m \in 0 .. N |-> f[m]] /\ \A m \in 0 .. N : f[m] \in Seq(D)
        /\ f[0] = <<>> /\ \A m \in 1 .. N : f[m] = step[m][f[m - 1]]
    BY <1>1, <2>3, <2>5, SolvesIs
  <2>7. \A m \in 0 .. N : f[m] = IF m = 0 THEN <<>> ELSE Adds(m, f[m - 1])
    <3> SUFFICES ASSUME NEW m \in 0 .. N, m # 0  PROVE f[m] = Adds(m, f[m - 1])
      BY <2>6
    <3>1. m \in 1 .. N /\ m - 1 \in 0 .. N  BY <1>1
    <3> QED  BY <2>2, <2>6, <3>1
  <2>8. IsDemoted(f)  BY <2>6, <2>7
  <2> QED  BY <2>8
<1>5. IsDemoted(stale)
  <2> HIDE DEF IsDemoted
  <2> QED  BY <1>4, Zenon
<1> HIDE DEF stale
<1>6. \A m \in 0 .. N : stale[m] = IF m = 0 THEN <<>> ELSE Adds(m, stale[m - 1])  BY <1>5
<1> HIDE DEF IsDemoted
<1> DEFINE Good(m) ==
             /\ stale[m] \in Seq(D) /\ IsInjective(stale[m])
             /\ \A d \in Range(stale[m]) : Outdated(source, d) /\ \E i \in 1 .. m : d = hits[i]
             /\ \A i \in 1 .. m : Outdated(source, hits[i]) => hits[i] \in Range(stale[m])
<1>7. \A m \in 0 .. N : Good(m)
  <2> DEFINE Off == {m \in 0 .. N : ~ Good(m)}
  <2> SUFFICES ASSUME Off # {}  PROVE FALSE
    OBVIOUS
  <2> HIDE DEF Good
  <2>1. Off \in SUBSET Nat  BY <1>1
  <2>2. PICK m \in Off : \A j \in Off : m <= j
    BY <2>1, LeastExists, Zenon
  <2>3. m # 0
    <3>1. stale[0] = <<>>  BY <1>1, <1>6
    <3>2. Range(<<>>) = {} /\ IsInjective(<<>>) /\ <<>> \in Seq(D)  BY DEF Range, IsInjective
    <3>3. Good(0)  BY <3>1, <3>2 DEF Good
    <3> QED  BY <2>2, <3>3
  <2>4. m \in 1 .. N /\ m \in 0 .. N /\ m - 1 \in 0 .. N /\ ~ (m <= m - 1)
    BY <1>1, <2>2, <2>3
  <2>5. Good(m - 1)  BY <2>2, <2>4
  <2>6. PICK q, r, x : q = stale[m - 1] /\ r = stale[m] /\ x = hits[m]  OBVIOUS
  <2>7. /\ q \in Seq(D) /\ IsInjective(q)
        /\ \A d \in Range(q) : Outdated(source, d) /\ \E i \in 1 .. m - 1 : d = hits[i]
        /\ \A i \in 1 .. m - 1 : Outdated(source, hits[i]) => hits[i] \in Range(q)
    BY <2>5, <2>6 DEF Good
  <2>8. r = Adds(m, q)  BY <1>6, <2>3, <2>4, <2>6
  <2>9. x \in D  BY <1>1, <2>4, <2>6
  <2>10. \A i \in 1 .. m : i = m \/ i \in 1 .. m - 1  BY <2>4
  <2>11. \A i \in 1 .. m - 1 : i \in 1 .. m /\ i # m /\ i \in 1 .. N  BY <1>1, <2>4
  <2>12. m \in 1 .. m  BY <2>4
  <2>13. CASE Outdated(source, x)
    <3>1. r = Append(q, x)  BY <2>6, <2>8, <2>13 DEF Adds
    <3>2. x \notin Range(q)
      <4> SUFFICES ASSUME x \in Range(q)  PROVE FALSE
        OBVIOUS
      <4>1. PICK i \in 1 .. m - 1 : x = hits[i]  BY <2>7
      <4> QED  BY <1>1, <2>4, <2>6, <2>11, <4>1
    <3>3. r \in Seq(D) /\ Range(r) = Range(q) \cup {x} /\ IsInjective(r)
      BY <2>7, <2>9, <3>1, <3>2, Appended
    <3>4. Good(m)
      <4>1. \A i \in 1 .. m : Outdated(source, hits[i]) => hits[i] \in Range(r)
        BY <2>6, <2>7, <2>10, <3>3
      <4>2. \A d \in Range(r) : Outdated(source, d) /\ \E i \in 1 .. m : d = hits[i]
        BY <2>6, <2>7, <2>11, <2>12, <2>13, <3>3
      <4> QED  BY <2>6, <3>3, <4>1, <4>2 DEF Good
    <3> QED  BY <2>2, <3>4
  <2>14. CASE ~ Outdated(source, x)
    <3>1. r = q  BY <2>6, <2>8, <2>14 DEF Adds
    <3>2. Good(m)
      <4>1. \A i \in 1 .. m : Outdated(source, hits[i]) => hits[i] \in Range(r)
        BY <2>6, <2>7, <2>10, <2>14, <3>1
      <4>2. \A d \in Range(r) : Outdated(source, d) /\ \E i \in 1 .. m : d = hits[i]
        BY <2>7, <2>11, <3>1
      <4> QED  BY <2>6, <2>7, <3>1, <4>1, <4>2 DEF Good
    <3> QED  BY <2>2, <3>2
  <2> QED  BY <2>13, <2>14
<1>8. Good(N)
  <2> HIDE DEF Good
  <2>1. N \in 0 .. N  BY <1>1
  <2> QED  BY <1>7, <2>1
<1>9. \A d : d \in Range(stale[N]) <=> d \in Range(hits) /\ Outdated(source, d)  BY <1>1, <1>8
<1> QED  BY <1>2, <1>8, <1>9 DEF D

\* What joining two sequences does to what they hold.
LEMMA Joined ==
  ASSUME NEW D, NEW q \in Seq(D), NEW r \in Seq(D)
  PROVE  /\ q \o r \in Seq(D) /\ DOMAIN (q \o r) = 1 .. Len(q) + Len(r)
         /\ \A i \in 1 .. Len(q) : (q \o r)[i] = q[i]
         /\ \A i \in 1 .. Len(q) + Len(r) : i \notin 1 .. Len(q) => i - Len(q) \in 1 .. Len(r)
                                            /\ (q \o r)[i] = r[i - Len(q)]
         /\ Range(q \o r) = Range(q) \cup Range(r)
         /\ IsInjective(q) /\ IsInjective(r) /\ Range(q) \cap Range(r) = {} => IsInjective(q \o r)
<1>1. PICK l, a, b : l = q \o r /\ a = Len(q) /\ b = Len(r)  OBVIOUS
<1>2. /\ a \in Nat /\ b \in Nat /\ DOMAIN q = 1 .. a /\ DOMAIN r = 1 .. b
      /\ l \in Seq(D) /\ DOMAIN l = 1 .. a + b
      /\ \A i \in 1 .. a : l[i] = q[i]
      /\ \A i \in 1 .. a + b : i \notin 1 .. a => i - a \in 1 .. b /\ l[i] = r[i - a]
  BY <1>1
<1>3. \A i \in 1 .. a : i \in 1 .. a + b  BY <1>2
<1>4. \A j \in 1 .. b : j + a \in 1 .. a + b /\ j + a \notin 1 .. a /\ j + a - a = j  BY <1>2
<1>5. Range(l) = Range(q) \cup Range(r)
  <2>1. \A x \in Range(l) : x \in Range(q) \cup Range(r)  BY <1>2 DEF Range
  <2>2. \A x \in Range(q) : x \in Range(l)  BY <1>2, <1>3 DEF Range
  <2>3. \A x \in Range(r) : x \in Range(l)
    <3> SUFFICES ASSUME NEW j \in 1 .. b  PROVE r[j] \in Range(l)
      BY <1>2 DEF Range
    <3>1. l[j + a] = r[j]  BY <1>2, <1>4
    <3> QED  BY <1>2, <1>4, <3>1 DEF Range
  <2> QED  BY <2>1, <2>2, <2>3
<1>6. IsInjective(q) /\ IsInjective(r) /\ Range(q) \cap Range(r) = {} => IsInjective(l)
  <2> SUFFICES ASSUME IsInjective(q), IsInjective(r), Range(q) \cap Range(r) = {},
                      NEW i \in 1 .. a + b, NEW j \in 1 .. a + b, l[i] = l[j]
               PROVE  i = j
    BY <1>2 DEF IsInjective
  <2>1. \A x \in 1 .. a, y \in 1 .. b : q[x] # r[y]  BY <1>2 DEF Range
  <2>2. CASE i \in 1 .. a /\ j \in 1 .. a
    BY <1>2, <2>2 DEF IsInjective
  <2>3. CASE i \notin 1 .. a /\ j \notin 1 .. a
    <3>1. PICK m, n : m = i - a /\ n = j - a  OBVIOUS
    <3>2. m \in DOMAIN r /\ n \in DOMAIN r /\ r[m] = r[n]  BY <1>2, <2>3, <3>1
    <3>3. m = n  BY <3>2 DEF IsInjective
    <3> QED  BY <1>2, <3>1, <3>3
  <2>4. CASE i \in 1 .. a /\ j \notin 1 .. a
    BY <1>2, <2>1, <2>4
  <2>5. CASE i \notin 1 .. a /\ j \in 1 .. a
    BY <1>2, <2>1, <2>5
  <2> QED  BY <2>2, <2>3, <2>4, <2>5
<1> QED  BY <1>1, <1>2, <1>5, <1>6

\* Nothing is dropped, doubled or shown that may not be, and heads come first.
LEMMA SuppressionKeeps ==
  ASSUME VaultTypeOK
  PROVE  SuppressionKeepsAll
<1> SUFFICES ASSUME NEW hits \in HitLists, NEW source, source = Sources(vault),
                    NEW list, list = Suppressed(hits, source)
             PROVE  /\ Range(hits) \subseteq Range(list) /\ Range(list) \subseteq Shown(vault)
                    /\ IsInjective(list)
                    /\ \A i \in DOMAIN list : source[list[i]].kind = "resolved" =>
                         \E j \in 1 .. i - 1 : list[j] = source[list[i]].path
  BY DEF SuppressionKeepsAll
<1>1. PICK q, r : q = Kept(hits, source) /\ r = Demoted(hits, source)  OBVIOUS
<1>2. list = q \o r  BY <1>1 DEF Suppressed
<1>3. /\ q \in Seq(Shown(vault)) /\ IsInjective(q)
      /\ \A d \in Range(q) : ~ Outdated(source, d)
      /\ \A d \in Range(hits) : ~ Outdated(source, d) => d \in Range(q)
      /\ \A d \in Range(hits) : Outdated(source, d) => source[d].path \in Range(q)
  BY <1>1, KeptIs
<1>4. /\ r \in Seq(Shown(vault)) /\ IsInjective(r)
      /\ \A d : d \in Range(r) <=> d \in Range(hits) /\ Outdated(source, d)
  BY <1>1, DemotedIs
<1>5. PICK a, b : a = Len(q) /\ b = Len(r)  OBVIOUS
<1>6. /\ a \in Nat /\ b \in Nat /\ DOMAIN q = 1 .. a /\ DOMAIN r = 1 .. b
      /\ list \in Seq(Shown(vault)) /\ DOMAIN list = 1 .. a + b
      /\ \A i \in 1 .. a : list[i] = q[i]
      /\ \A i \in 1 .. a + b : i \notin 1 .. a => i - a \in 1 .. b /\ list[i] = r[i - a]
      /\ Range(list) = Range(q) \cup Range(r)
      /\ IsInjective(q) /\ IsInjective(r) /\ Range(q) \cap Range(r) = {} => IsInjective(list)
  BY <1>2, <1>3, <1>4, <1>5, Joined
<1>7. IsInjective(list)
  <2>1. Range(q) \cap Range(r) = {}  BY <1>3, <1>4
  <2> QED  BY <1>3, <1>4, <1>6, <2>1
<1>8. Range(hits) \subseteq Range(list)  BY <1>3, <1>4, <1>6
<1>9. Range(list) \subseteq Shown(vault)  BY <1>6 DEF Range
<1>10. ASSUME NEW i \in DOMAIN list, source[list[i]].kind = "resolved"
       PROVE  \E j \in 1 .. i - 1 : list[j] = source[list[i]].path
  <2>1. Outdated(source, list[i]) /\ i \in 1 .. a + b  BY <1>6, <1>10 DEF Outdated
  <2>2. i \notin 1 .. a  BY <1>3, <1>6, <2>1 DEF Range
  <2>3. list[i] \in Range(r)  BY <1>6, <2>1, <2>2 DEF Range
  <2>4. source[list[i]].path \in Range(q)  BY <1>3, <1>4, <2>3
  <2>5. PICK j \in 1 .. a : q[j] = source[list[i]].path  BY <1>6, <2>4 DEF Range
  <2>6. j \in 1 .. i - 1 /\ list[j] = q[j]  BY <1>6, <2>1, <2>2
  <2> QED  BY <2>5, <2>6
<1> QED  BY <1>7, <1>8, <1>9, <1>10

\* applySupersededSuppression, of every list of hits: nothing is dropped, doubled or
\* shown that may not be, and each stale hit comes after its head.
THEOREM SuppressionKeepsAllHolds == Vaults => []SuppressionKeepsAll
BY Documents, SuppressionKeeps, PTL

------------------------------------------------------------------------------
(***************************************************************************)
(* Both together.                                                          *)
(***************************************************************************)
\* refuseSupersedeLoop and vault_lint: however the tools of Supersede interleave,
\* every loop that vault_lint finds in what they leave holds a pointer that was
\* written unchecked, or by a call that could not see all of that loop.
THEOREM LintedLoopsExcused ==
  Spec => [](\A f \in LoopFindings(Pointers) : \E d \in f.loop : Excused(d, f.loop))
<1>1. IInv /\ ChainsEnd => \A f \in LoopFindings(Pointers) : \E d \in f.loop : Excused(d, f.loop)
  <2> SUFFICES ASSUME IInv, ChainsEnd, NEW d \in Docs, Endless(Pointers, d)
               PROVE  \E e \in LoopAt(Pointers, d) : Excused(e, LoopAt(Pointers, d))
    BY DEF LoopFindings
  <2>1. PICK next \in PointerMap : next = Pointers
    <3>1. \A x \in Content : x.by \in Docs \cup {None}  BY DEF Content
    <3>2. \A e \in Docs : Pointer(e) \in Docs \cup {None}  BY <3>1 DEF IInv, Typed, Pointer
    <3> QED  BY <3>2 DEF Pointers, PointerMap
  <2>2. PICK s \in Visited(next, d) : OnLoop(next, s)  BY <2>1 DEF Endless
  <2>3. LoopAt(next, d) = Visited(next, s) /\ s \in Docs  BY <2>2, LoopAtIs
  <2> QED  BY <2>1, <2>2, <2>3 DEF ChainsEnd
<1> QED  BY <1>1, Inductive, ChainsEndHolds, PTL
================================================================================
