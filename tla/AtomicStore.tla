----------------------------- MODULE AtomicStore -----------------------------
(***************************************************************************)
(* What the write path promises its callers, as docs/architecture.md and   *)
(* the comments of performWrite state it: a vault is a set of documents, a *)
(* guarded call adds its change to the current text in one step or does    *)
(* nothing at all, a blind call (no base_version) replaces the text by one *)
(* composed from some earlier state, and the answer says which of the two  *)
(* happened.  A write that dies half way may lose the text of its target   *)
(* in the working tree, and nothing else does; the empty file it leaves    *)
(* has the hash of every other empty file, so a guarded call that began    *)
(* from one may bring back a text it saw in between.  All of this holds as *)
(* long as no lease of 60 s runs out under a call that still works.        *)
(***************************************************************************)
CONSTANTS Calls, Docs, Seed

VARIABLES
  doc,      \* the text of each document
  blind,    \* the calls that write without a base_version
  applied,  \* the calls whose change took effect
  told,     \* what each caller has been told
  late      \* whether some call has worked on past the end of its lease

svars == <<doc, blind, applied, told, late>>

Applied == {"ok", "commit_failed"}
Refused == {"stale", "locked", "refused", "shadow"}

SInit ==
  /\ doc = [d \in Docs |-> {Seed}]
  /\ blind = Calls
  /\ applied = {}
  /\ told = [c \in Calls |-> "none"]
  /\ late = FALSE

\* A caller settles how it protects its write.
Choose(c) ==
  /\ c \notin applied
  /\ blind' \in {blind \cup {c}, blind \ {c}}
  /\ UNCHANGED <<doc, applied, told, late>>

Apply(c, d, new) ==
  /\ c \notin applied
  /\ told[c] = "none"
  /\ doc' = [doc EXCEPT ![d] = new]
  /\ applied' = applied \cup {c}
  /\ UNCHANGED <<blind, told, late>>

\* A guarded change keeps everything the document holds, and no more; only
\* over a text that was lost, and so has the hash of any other lost text, may
\* its caller bring back one it saw before.
Update(c, d) ==
  /\ c \notin blind
  /\ \E seen \in SUBSET (applied \cup {Seed}) :
       /\ doc[d] # {} => seen = doc[d]
       /\ Apply(c, d, seen \cup {c})

\* A blind one keeps what its caller happened to have seen.
Overwrite(c, d) ==
  /\ c \in blind
  /\ \E seen \in SUBSET (applied \cup {Seed}) : Apply(c, d, seen \cup {c})

\* Writes that die half way lose the working copy of their targets.
Lose ==
  /\ \E lost \in SUBSET Docs : doc' = [d \in Docs |-> IF d \in lost THEN {} ELSE doc[d]]
  /\ UNCHANGED <<blind, applied, told, late>>

Tell(c) ==
  /\ told[c] = "none"
  /\ \E a \in Applied \cup Refused \cup {"failed"} :
       /\ a \in Applied => c \in applied
       /\ a \in Refused => c \notin applied
       /\ told' = [told EXCEPT ![c] = a]
  /\ UNCHANGED <<doc, blind, applied, late>>

\* From then on nothing is promised.
Overstay == late'

SNext ==
  \/ \E c \in Calls : Choose(c) \/ Tell(c)
  \/ \E c \in Calls, d \in Docs : Update(c, d) \/ Overwrite(c, d)
  \/ Lose
  \/ Overstay

SSpec == SInit /\ [][SNext]_svars
==============================================================================
