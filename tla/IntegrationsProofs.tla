--------------------------- MODULE IntegrationsProofs ---------------------------
(***************************************************************************)
(* Theorems about Integrations for any number of documents, events,        *)
(* changes, failures and deaths of the process, and adapters of both kinds.*)
(***************************************************************************)
EXTENDS Integrations, TLAPS

JobFields == {"pc", "targeted", "page", "todo", "at", "rev", "text", "token", "failed"}
Fetching  == {"fetch", "read", "distill", "landed"}

\* The reconciliation under way has all its parts, and works on its page.
JobOK ==
  /\ DOMAIN job = JobFields
  /\ \A d \in DOMAIN job.page : job.page[d] \in Revs
  /\ job.todo \subseteq DOMAIN job.page
  /\ job.pc \in Fetching => job.at \in DOMAIN job.page
  /\ job.pc # "off" => loop.pc = "job"

\* The queue file keeps count: the attempts on record are the batches that
\* failed, no event is forgotten between them, and what the cycle serves is
\* still in the file.
QueueOK ==
  /\ \A i \in pending : i.attempts = tries[i.id]
  /\ \A e \in Events : tries[e] # 0 => e \in processed \cup Ids(pending)
  /\ loop.pc \in {"job", "ack"} => loop.batch \subseteq Ids(pending)
  /\ loop.pc = "ack" /\ loop.ok => loop.batch \subseteq served
  /\ processed \subseteq served \cup {e \in Events : tries[e] = MaxAttempts}
  /\ feed => (\A i \in pending : i.hint = All) /\ ~job.targeted

TypeInv == TypeOK /\ JobOK /\ QueueOK

(***************************************************************************)
(* The strengthening of CertifiedUnlessHidden.                             *)
(***************************************************************************)
\* A revision in the vault is never newer than the provider's.
Revisions ==
  /\ \A d \in Docs : remote[d].rev <= changes
  /\ \A d \in Docs : remote[d].there \/ remote[d].rev > 0 => remote[d].text # NoText
  /\ \A d \in DOMAIN job.page : job.page[d] <= remote[d].rev
  /\ job.pc \in {"read", "distill", "landed"} => job.rev <= remote[job.at].rev

\* The text in hand is that of the revision in hand, if the provider still
\* shows it: the revision was read before the text.
InHand ==
  /\ job.pc \in {"distill", "landed"} =>
       /\ mem.src[job.at].rev = job.rev /\ mem.src[job.at].available
       /\ job.text # NoText
       /\ remote[job.at].rev = job.rev => job.text = remote[job.at].text
  /\ job.pc = "landed" => job.text \in learned[job.at]

Certified(s) == \A d \in Docs :
  /\ s.src[d].rev <= remote[d].rev
  /\ s.src[d].hash # NoText => s.src[d].hash \in learned[d]
  /\ remote[d].there /\ s.src[d].rev = remote[d].rev /\ s.src[d].hash # NoText
       => s.src[d].hash = remote[d].text \/ d \in hidden

CertInv == Revisions /\ InHand /\ Certified(state) /\ Certified(mem)

(***************************************************************************)
(* The strengthening of CursorHonest.  Of a change at or before the cursor *)
(* the file knows the revision and some hash, hidden or not: then it is    *)
(* never fetched again, and Certified says whose hash that is.             *)
(***************************************************************************)
Reflects(s, d) ==
  IF remote[d].there
  THEN s.src[d].available /\ s.src[d].rev = remote[d].rev /\ s.src[d].hash # NoText
  ELSE ~s.src[d].available

UpTo(s) ==
  s.cursor > 0 => \A d \in Docs : remote[d].rev <= s.cursor => Reflects(s, d)

\* The page of a feed is what the provider showed at the token, and what has
\* been ticked off it without a failure is reflected.
Paged ==
  feed /\ job.pc \in Fetching \cup {"page"} =>
    \A d \in Docs : remote[d].rev <= job.token =>
      /\ d \in DOMAIN job.page <=> remote[d].there
      /\ d \in DOMAIN job.page => job.page[d] = remote[d].rev
      /\ d \in DOMAIN job.page \ job.todo /\ ~job.failed
         /\ ~(job.pc \in Fetching /\ d = job.at) => Reflects(mem, d)

\* What is being fetched has changed since the cursor.
Ahead ==
  feed =>
    /\ job.pc \in Fetching /\ mem.cursor > 0 => remote[job.at].rev > mem.cursor
    /\ job.pc \in {"read", "distill", "landed"} => job.rev = job.page[job.at]
    /\ job.pc \in Fetching \cup {"page", "list"} => mem.cursor <= job.token

Cursors ==
  /\ mem.cursor = state.cursor
  /\ {state.cursor, job.token} \subseteq 0 .. changes
  /\ ~feed => state.cursor = 0 /\ job.token = 0

CursorInv == Cursors /\ Paged /\ Ahead /\ UpTo(state) /\ UpTo(mem)

(***************************************************************************)
(* Types.                                                                  *)
(***************************************************************************)
LEMMA NoJobParts ==
  /\ DOMAIN NoJob = JobFields /\ NoJob.pc = "off" /\ NoJob.targeted = FALSE
  /\ DOMAIN NoJob.page = {} /\ NoJob.todo = {} /\ NoJob.at = None
  /\ NoJob.rev = 0 /\ NoJob.text = NoText /\ NoJob.token = 0 /\ NoJob.failed = FALSE
BY DEF NoJob, JobFields

LEMMA RevsParts == NoText \in Revs /\ 0 \in Revs /\ Revs \subseteq Nat
BY IntegrationsAssumption DEF NoText, Revs

LEMMA UnknownIsSource == Unknown \in Source
BY RevsParts DEF Unknown, Source

\* What the two memories consist of.
LEMMA MemoryParts ==
  ASSUME TypeOK, NEW d \in Docs
  PROVE  /\ mem.src \in [Docs -> Source] /\ state.src \in [Docs -> Source]
         /\ mem.cursor \in Revs /\ state.cursor \in Revs
         /\ mem.src[d] \in Source /\ state.src[d] \in Source
         /\ mem.src[d].rev \in Revs /\ mem.src[d].hash \in Revs
         /\ mem.src[d].available \in BOOLEAN
         /\ state.src[d].rev \in Revs /\ state.src[d].hash \in Revs
         /\ state.src[d].available \in BOOLEAN
         /\ remote[d].rev \in Revs /\ remote[d].text \in Revs
         /\ remote[d].there \in BOOLEAN
BY DEF TypeOK, Memory, Source

\* A memory with other sources.
LEMMA NewSources ==
  ASSUME TypeOK, NEW src \in [Docs -> Source], mem' = [mem EXCEPT !.src = src]
  PROVE  mem' \in Memory /\ mem'.src = src /\ mem'.cursor = mem.cursor
BY DEF TypeOK, Memory

------------------------------------------------------------------------------
(***************************************************************************)
(* What the actions do to the parts of the records.                        *)
(***************************************************************************)
Kept(fields) == \A f \in fields : job'[f] = job[f]

Loops == [pc : {"idle", "start", "job", "ack"}, batch : SUBSET Events,
          ok : BOOLEAN, rerun : BOOLEAN]

LEMMA WokenParts ==
  ASSUME TypeOK, loop' = Woken
  PROVE  /\ loop' \in Loops /\ loop'.batch = loop.batch /\ loop'.ok = loop.ok
         /\ loop'.pc = IF loop.pc = "idle" THEN "start" ELSE loop.pc
<1>1. CASE loop.pc = "idle"
  BY <1>1 DEF Woken, TypeOK, Loops
<1>2. CASE loop.pc # "idle"
  BY <1>2 DEF Woken, TypeOK, Loops
<1>3. QED
  BY <1>1, <1>2

LEMMA EndsParts ==
  ASSUME TypeOK, NEW ok \in BOOLEAN, Ends(ok)
  PROVE  /\ job' = NoJob /\ loop' \in Loops
         /\ loop'.pc = "ack" /\ loop'.ok = ok /\ loop'.batch = loop.batch
         /\ served' = IF ok THEN served \cup loop.batch ELSE served
BY Zenon DEF Ends, TypeOK, Loops

LEMMA FoundParts ==
  ASSUME TypeOK, JobOK, NEW page, NEW token, Found(page, token),
         \A d \in DOMAIN page : page[d] \in Revs
  PROVE  /\ DOMAIN job' = JobFields /\ job'.pc = "page" /\ job'.page = page
         /\ job'.todo = DOMAIN page /\ job'.token = token
         /\ Kept({"targeted", "at", "rev", "text", "failed"})
         /\ mem' \in Memory /\ mem'.cursor = mem.cursor
         /\ \A d \in Docs :
              mem'.src[d] = IF feed /\ d \in DOMAIN page /\ mem.src[d] = Unknown
                            THEN [rev |-> page[d], hash |-> NoText, available |-> TRUE]
                            ELSE mem.src[d]
         /\ UNCHANGED <<files, loop, served, failures>>
<1> DEFINE src == [d \in Docs |->
               IF feed /\ d \in DOMAIN page /\ mem.src[d] = Unknown
               THEN [rev |-> page[d], hash |-> NoText, available |-> TRUE] ELSE mem.src[d]]
<1>1. job' = [job EXCEPT !.pc = "page", !.page = page, !.todo = DOMAIN page, !.token = token]
  BY DEF Found
<1>2. /\ DOMAIN job' = JobFields /\ job'.pc = "page" /\ job'.page = page
      /\ job'.todo = DOMAIN page /\ job'.token = token
  BY <1>1, Zenon DEF JobOK, JobFields
<1>3. Kept({"targeted", "at", "rev", "text", "failed"})
  BY <1>1, Zenon DEF JobOK, JobFields, Kept
<1>4. src \in [Docs -> Source]
  <2>1. ASSUME NEW d \in Docs PROVE src[d] \in Source
    BY <2>1, MemoryParts, RevsParts DEF Source
  <2>2. QED
    BY <2>1
<1>5. mem' = [mem EXCEPT !.src = src]
  BY DEF Found
<1>6. mem' \in Memory /\ mem'.src = src /\ mem'.cursor = mem.cursor
  BY <1>4, <1>5, NewSources
<1>7. UNCHANGED <<files, loop, served, failures>>
  BY DEF Found
<1>8. QED
  BY <1>2, <1>3, <1>6, <1>7

LEMMA SaveParts ==
  ASSUME TypeOK, NEW src \in [Docs -> Source], Save(src)
  PROVE  /\ mem' \in Memory /\ mem'.src = src /\ mem'.cursor = mem.cursor
         /\ state' = mem'
BY NewSources DEF Save

\* A page that is a list of all documents, and one of what has changed.
LEMMA ListedParts ==
  ASSUME TypeOK
  PROVE  /\ DOMAIN Listed = {d \in Docs : remote[d].there}
         /\ \A d \in DOMAIN Listed : Listed[d] = remote[d].rev /\ Listed[d] \in Revs
BY DEF Listed, TypeOK

LEMMA ChangedParts ==
  ASSUME TypeOK
  PROVE  /\ DOMAIN Changed = {d \in Docs : IF remote[d].rev > mem.cursor THEN remote[d].there
                                           ELSE mem.src[d].available}
         /\ \A d \in DOMAIN Changed :
              /\ Changed[d] = IF remote[d].rev > mem.cursor THEN remote[d].rev ELSE mem.src[d].rev
              /\ Changed[d] \in Revs
<1> DEFINE touched    == {d \in Docs : remote[d].rev > mem.cursor}
           remembered == {d \in Docs : mem.src[d].available}
           dom == (remembered \ touched) \cup {e \in touched : remote[e].there}
<1>1. Changed = [d \in dom |-> IF d \in touched THEN remote[d].rev ELSE mem.src[d].rev]
  BY DEF Changed
<1>2. dom = {d \in Docs : IF remote[d].rev > mem.cursor THEN remote[d].there
                          ELSE mem.src[d].available}
  BY MemoryParts
<1>3. \A d \in dom : Changed[d] = IF remote[d].rev > mem.cursor THEN remote[d].rev ELSE mem.src[d].rev
  BY <1>1
<1>4. QED
  BY <1>1, <1>2, <1>3, MemoryParts

\* Sources that fail.
LEMMA FailedParts ==
  ASSUME TypeOK, JobOK, NEW d \in Docs, d \in DOMAIN job.page
  PROVE  /\ Failed(mem.src, d)[d] \in Source
         /\ Failed(mem.src, d)[d].rev = job.page[d]
         /\ Failed(mem.src, d)[d].hash = mem.src[d].hash
         /\ mem.src[d] # Unknown =>
              Failed(mem.src, d)[d].available = mem.src[d].available
<1> DEFINE new == IF mem.src[d] = Unknown
                  THEN [Unknown EXCEPT !.rev = job.page[d], !.available = TRUE]
                  ELSE [mem.src[d] EXCEPT !.rev = job.page[d]]
<1>1. mem.src \in [Docs -> Source] /\ mem.src[d] \in Source /\ job.page[d] \in Revs
  BY MemoryParts DEF JobOK
<1>2. Failed(mem.src, d)[d] = new
  BY <1>1, Zenon DEF Failed
<1>3. CASE mem.src[d] = Unknown
  <2>1. new = [rev |-> job.page[d], hash |-> NoText, available |-> TRUE]
    BY <1>3, Zenon DEF Unknown
  <2>2. mem.src[d].hash = NoText
    BY <1>3 DEF Unknown
  <2>3. QED
    BY <1>1, <1>2, <1>3, <2>1, <2>2, RevsParts DEF Source
<1>4. CASE mem.src[d] # Unknown
  <2>1. new = [mem.src[d] EXCEPT !.rev = job.page[d]]
    BY <1>4
  <2>2. /\ new \in Source /\ new.rev = job.page[d] /\ new.hash = mem.src[d].hash
        /\ new.available = mem.src[d].available
    BY <1>1, <2>1, Zenon DEF Source
  <2>3. QED
    BY <1>2, <1>4, <2>2
<1>5. QED
  BY <1>3, <1>4

LEMMA FetchFailsParts ==
  ASSUME TypeOK, JobOK, NEW ds \in SUBSET DOMAIN job.page, FetchFails(ds)
  PROVE  /\ DOMAIN job' = JobFields /\ job'.pc = "page" /\ job'.failed = TRUE
         /\ job'.todo = job.todo \ ds
         /\ Kept({"targeted", "page", "at", "rev", "text", "token"})
         /\ mem' \in Memory /\ mem'.cursor = mem.cursor
         /\ \A d \in Docs : d \notin ds => mem'.src[d] = mem.src[d]
         /\ \A d \in ds : /\ mem'.src[d].rev = job.page[d]
                          /\ mem'.src[d].hash = mem.src[d].hash
                          /\ mem.src[d] # Unknown =>
                               mem'.src[d].available = mem.src[d].available
         /\ hidden' = hidden \cup {d \in ds : Hides(d)}
         /\ UNCHANGED <<state, learned>>
<1> DEFINE src == [d \in Docs |-> IF d \in ds THEN Failed(mem.src, d)[d] ELSE mem.src[d]]
<1>1. job' = [job EXCEPT !.pc = "page", !.failed = TRUE, !.todo = @ \ ds]
  BY DEF FetchFails
<1>2. /\ DOMAIN job' = JobFields /\ job'.pc = "page" /\ job'.failed = TRUE
      /\ job'.todo = job.todo \ ds
  BY <1>1, Zenon DEF JobOK, JobFields
<1>3. Kept({"targeted", "page", "at", "rev", "text", "token"})
  BY <1>1, Zenon DEF JobOK, JobFields, Kept
<1>4. ds \subseteq Docs
  BY DEF TypeOK
<1>5. src \in [Docs -> Source]
  <2>1. ASSUME NEW d \in Docs PROVE src[d] \in Source
    <3>1. CASE d \in ds
      BY <3>1, FailedParts
    <3>2. CASE d \notin ds
      BY <3>2, MemoryParts
    <3>3. QED
      BY <3>1, <3>2
  <2>2. QED
    BY <2>1
<1>6. mem' = [mem EXCEPT !.src = src]
  BY DEF FetchFails
<1>7. mem' \in Memory /\ mem'.src = src /\ mem'.cursor = mem.cursor
  BY <1>5, <1>6, NewSources
<1>8. \A d \in ds : mem'.src[d] = Failed(mem.src, d)[d]
  BY <1>4, <1>7
<1>9. \A d \in Docs : d \notin ds => mem'.src[d] = mem.src[d]
  BY <1>7
<1>10. \A d \in ds : /\ mem'.src[d].rev = job.page[d]
                     /\ mem'.src[d].hash = mem.src[d].hash
                     /\ mem.src[d] # Unknown =>
                          mem'.src[d].available = mem.src[d].available
  BY <1>4, <1>8, FailedParts
<1>11. hidden' = hidden \cup {d \in ds : Hides(d)} /\ UNCHANGED <<state, learned>>
  BY DEF FetchFails
<1>12. QED
  BY <1>2, <1>3, <1>7, <1>9, <1>10, <1>11

LEMMA CycleStartsParts ==
  ASSUME TypeOK, CycleStarts
  PROVE  /\ DOMAIN job' = JobFields /\ job'.targeted \in BOOLEAN
         /\ job'.pc = IF job'.targeted THEN "page" ELSE "discover"
         /\ job'.targeted => \E i \in pending : i.hint # All
         /\ DOMAIN job'.page \subseteq Docs
         /\ \A d \in DOMAIN job'.page :
              job'.page[d] = IF job'.targeted THEN state.src[d].rev ELSE 0
         /\ job'.todo \subseteq DOMAIN job'.page
         /\ job'.at = None /\ job'.rev = 0 /\ job'.text = NoText /\ job'.token = 0
         /\ job'.failed = FALSE
         /\ loop' \in Loops /\ loop'.pc = "job" /\ loop'.batch = Ids(pending)
         /\ mem' = state
         /\ UNCHANGED <<provider, queue, files, closing, ghosts, budgets>>
<1> DEFINE hints == {i.hint : i \in pending}
           targeted == hints # {} /\ All \notin hints
           page == [d \in hints \ {All} |-> IF targeted THEN state.src[d].rev ELSE 0]
           todo == IF targeted THEN hints ELSE {}
<1>1. job' = [NoJob EXCEPT !.pc = IF targeted THEN "page" ELSE "discover",
                           !.targeted = targeted, !.page = page, !.todo = todo]
  BY DEF CycleStarts, Due
<1>2. hints \subseteq Docs \cup {All}
  BY DEF TypeOK
<1>3. DOMAIN page = hints \ {All} /\ todo \subseteq DOMAIN page
  OBVIOUS
<1>4. /\ \A d \in DOMAIN page : page[d] = IF targeted THEN state.src[d].rev ELSE 0
      /\ targeted \in BOOLEAN
  OBVIOUS
<1>5. targeted => \E i \in pending : i.hint # All
  OBVIOUS
<1> HIDE DEF targeted, page, todo
<1>6. /\ DOMAIN job' = JobFields /\ job'.pc = (IF targeted THEN "page" ELSE "discover")
      /\ job'.targeted = targeted /\ job'.page = page /\ job'.todo = todo
      /\ job'.at = None /\ job'.rev = 0 /\ job'.text = NoText /\ job'.token = 0
      /\ job'.failed = FALSE
  BY <1>1, Zenon DEF NoJob, JobFields
<1>7. loop' = [Idle EXCEPT !.pc = "job", !.batch = Ids(pending)]
  BY DEF CycleStarts, Due
<1>8. Ids(pending) \subseteq Events
  BY DEF Ids, TypeOK
<1>9. loop' \in Loops /\ loop'.pc = "job" /\ loop'.batch = Ids(pending)
  BY <1>7, <1>8, Zenon DEF Idle, Loops
<1>10. mem' = state /\ UNCHANGED <<provider, queue, files, closing, ghosts, budgets>>
  BY DEF CycleStarts
<1>11. QED
  BY <1>2, <1>3, <1>4, <1>5, <1>6, <1>9, <1>10

LEMMA RunsOutParts ==
  ASSUME JobOK, RunsOut
  PROVE  /\ DOMAIN job' = JobFields /\ job.pc = "page" /\ job'.todo = {}
         /\ job'.failed = TRUE
         /\ Kept({"pc", "targeted", "page", "at", "rev", "text", "token"})
         /\ UNCHANGED <<provider, queue, files, mem, loop, closing, ghosts, crashes>>
<1>1. job' = [job EXCEPT !.todo = {}, !.failed = TRUE]
  BY DEF RunsOut
<1>2. DOMAIN job' = JobFields /\ job'.todo = {} /\ job'.failed = TRUE
  BY <1>1, Zenon DEF JobOK, JobFields
<1>3. Kept({"pc", "targeted", "page", "at", "rev", "text", "token"})
  BY <1>1, Zenon DEF JobOK, JobFields, Kept
<1>4. QED
  BY <1>2, <1>3 DEF RunsOut

\* Ticking a source off, or turning to it.
LEMMA ConsiderParts ==
  ASSUME TypeOK, JobOK, NEW d \in Docs, Consider(d)
  PROVE  /\ DOMAIN job' = JobFields /\ job.pc = "page" /\ d \in job.todo
         /\ job'.todo = job.todo \ {d}
         /\ Kept({"targeted", "page", "rev", "text", "token", "failed"})
         /\ mem' = mem
         /\ \/ /\ Current(d) /\ job'.pc = "page" /\ job'.at = job.at
               /\ state' = mem
            \/ /\ ~Current(d) /\ job'.pc = "fetch" /\ job'.at = d
               /\ state' = state
         /\ UNCHANGED <<provider, queue, review, loop, closing, ghosts, budgets>>
<1>1. CASE Current(d)
  <2>1. job' = [job EXCEPT !.todo = @ \ {d}] /\ Save(mem.src)
    BY <1>1 DEF Consider
  <2>2. DOMAIN job' = JobFields /\ job'.todo = job.todo \ {d}
    BY <2>1, Zenon DEF JobOK, JobFields
  <2>3. Kept({"pc", "targeted", "page", "at", "rev", "text", "token", "failed"})
    BY <2>1, Zenon DEF JobOK, JobFields, Kept
  <2>4. mem' = mem
    BY <2>1, Zenon DEF Save, TypeOK, Memory
  <2>5. state' = mem
    BY <2>1, <2>4 DEF Save
  <2>6. QED
    BY <1>1, <2>2, <2>3, <2>4, <2>5 DEF Consider, Kept
<1>2. CASE ~Current(d)
  <2>1. job' = [job EXCEPT !.todo = @ \ {d}, !.at = d, !.pc = "fetch"]
    BY <1>2 DEF Consider
  <2>2. /\ DOMAIN job' = JobFields /\ job'.todo = job.todo \ {d}
        /\ job'.at = d /\ job'.pc = "fetch"
    BY <2>1, Zenon DEF JobOK, JobFields
  <2>3. Kept({"targeted", "page", "rev", "text", "token", "failed"})
    BY <2>1, Zenon DEF JobOK, JobFields, Kept
  <2>4. QED
    BY <1>2, <2>2, <2>3 DEF Consider
<1>3. QED
  BY <1>1, <1>2

LEMMA FetchPageParts ==
  ASSUME JobOK, FetchPage
  PROVE  /\ DOMAIN job' = JobFields /\ job.pc = "fetch" /\ job'.pc = "read"
         /\ job'.rev = IF feed THEN job.page[job.at] ELSE remote[job.at].rev
         /\ Kept({"targeted", "page", "todo", "at", "text", "token", "failed"})
         /\ UNCHANGED <<provider, queue, files, mem, loop, closing, ghosts, budgets>>
<1>1. job' = [job EXCEPT !.pc = "read",
                         !.rev = IF feed THEN job.page[job.at] ELSE remote[job.at].rev]
  BY DEF FetchPage
<1>2. /\ DOMAIN job' = JobFields /\ job'.pc = "read"
      /\ job'.rev = IF feed THEN job.page[job.at] ELSE remote[job.at].rev
  BY <1>1, Zenon DEF JobOK, JobFields
<1>3. Kept({"targeted", "page", "todo", "at", "text", "token", "failed"})
  BY <1>1, Zenon DEF JobOK, JobFields, Kept
<1>4. QED
  BY <1>2, <1>3 DEF FetchPage

\* The text read is the one on record, or goes on to the distiller.
Took(d) ==
  /\ DOMAIN job' = JobFields
  /\ Kept({"targeted", "page", "todo", "at", "rev", "token", "failed"})
  /\ mem' \in Memory /\ mem'.cursor = mem.cursor /\ state' = mem'
  /\ \A e \in Docs \ {d} : mem'.src[e] = mem.src[e]
  /\ mem'.src[d].rev = job.rev /\ mem'.src[d].available = TRUE
  /\ hidden' = hidden \ {d} /\ learned' = learned
  /\ \/ /\ job'.pc = "page" /\ job'.text = job.text
        /\ remote[d].text = mem.src[d].hash /\ mem'.src[d].hash = remote[d].text
     \/ /\ job'.pc = "distill" /\ job'.text = remote[d].text
        /\ remote[d].text # mem.src[d].hash /\ mem'.src[d].hash = NoText

LEMMA FetchedParts ==
  ASSUME TypeOK, JobOK, Fetched
  PROVE  /\ job.pc = "read" /\ remote[job.at].rev > 0 /\ job.at \in Docs
         /\ \/ ~job.targeted /\ job.rev # job.page[job.at] /\ FetchFails({job.at})
            \/ (job.targeted \/ job.rev = job.page[job.at]) /\ Took(job.at)
         /\ UNCHANGED <<provider, queue, review, loop, closing, served, tries, budgets>>
<1> DEFINE d    == job.at
           old  == [rev |-> job.rev, hash |-> mem.src[d].hash, available |-> TRUE]
           none == [old EXCEPT !.hash = NoText]
<1>1. /\ job.pc = "read" /\ remote[d].rev > 0
      /\ UNCHANGED <<provider, queue, review, loop, closing, served, tries, budgets>>
  BY DEF Fetched
<1>2. d \in Docs
  BY <1>1 DEF JobOK, TypeOK, Fetching
<1>3. job.rev \in Revs /\ mem.src[d] \in Source /\ old \in Source
  BY <1>2, MemoryParts, RevsParts DEF TypeOK, Source
<1>a. old.rev = job.rev /\ old.hash = mem.src[d].hash /\ old.available = TRUE
  OBVIOUS
<1> HIDE DEF old
<1>b. /\ none \in Source /\ none.rev = job.rev /\ none.hash = NoText
      /\ none.available = TRUE
  BY <1>3, <1>a, RevsParts, Zenon DEF Source
<1>4. CASE ~job.targeted /\ job.rev # job.page[d]
  <2>1. FetchFails({d})
    BY <1>4 DEF Fetched
  <2>2. QED
    BY <1>1, <1>2, <1>4, <2>1
<1>5. CASE ~(~job.targeted /\ job.rev # job.page[d])
  <2>1. hidden' = hidden \ {d} /\ learned' = learned
    BY <1>5 DEF Fetched
  <2>2. CASE remote[d].text = mem.src[d].hash
    <3>1. Save([mem.src EXCEPT ![d] = old]) /\ job' = [job EXCEPT !.pc = "page"]
      BY <1>5, <2>2 DEF Fetched, old
    <3>2. [mem.src EXCEPT ![d] = old] \in [Docs -> Source]
      BY <1>2, <1>3, MemoryParts
    <3>3. /\ mem' \in Memory /\ mem'.cursor = mem.cursor /\ state' = mem'
          /\ mem'.src = [mem.src EXCEPT ![d] = old]
      BY <3>1, <3>2, SaveParts
    <3>4. (\A e \in Docs \ {d} : mem'.src[e] = mem.src[e]) /\ mem'.src[d] = old
      BY <1>2, <3>3, MemoryParts
    <3>5. DOMAIN job' = JobFields /\ job'.pc = "page" /\ job'.text = job.text
      BY <3>1, Zenon DEF JobOK, JobFields
    <3>6. Kept({"targeted", "page", "todo", "at", "rev", "token", "failed"})
      BY <3>1, Zenon DEF JobOK, JobFields, Kept
    <3>7. Took(d)
      BY <1>a, <2>1, <2>2, <3>3, <3>4, <3>5, <3>6 DEF Took
    <3>8. QED
      BY <1>1, <1>2, <1>5, <3>7
  <2>3. CASE remote[d].text # mem.src[d].hash
    <3>1. /\ Save([mem.src EXCEPT ![d] = none])
          /\ job' = [job EXCEPT !.pc = "distill", !.text = remote[d].text]
      BY <1>5, <2>3 DEF Fetched, old
    <3> HIDE DEF none
    <3>2. [mem.src EXCEPT ![d] = none] \in [Docs -> Source]
      BY <1>2, <1>b, MemoryParts
    <3>3. /\ mem' \in Memory /\ mem'.cursor = mem.cursor /\ state' = mem'
          /\ mem'.src = [mem.src EXCEPT ![d] = none]
      BY <3>1, <3>2, SaveParts
    <3>4. (\A e \in Docs \ {d} : mem'.src[e] = mem.src[e]) /\ mem'.src[d] = none
      BY <1>2, <3>3, MemoryParts
    <3>5. DOMAIN job' = JobFields /\ job'.pc = "distill" /\ job'.text = remote[d].text
      BY <3>1, Zenon DEF JobOK, JobFields
    <3>6. Kept({"targeted", "page", "todo", "at", "rev", "token", "failed"})
      BY <3>1, Zenon DEF JobOK, JobFields, Kept
    <3>7. Took(d)
      BY <1>b, <2>1, <2>3, <3>3, <3>4, <3>5, <3>6 DEF Took
    <3>8. QED
      BY <1>1, <1>2, <1>5, <3>7
  <2>4. QED
    BY <2>2, <2>3
<1>6. QED
  BY <1>4, <1>5

LEMMA DistillParts ==
  ASSUME TypeOK, JobOK, Distill
  PROVE  /\ DOMAIN job' = JobFields /\ job.pc = "distill" /\ job.at \in Docs
         /\ Kept({"targeted", "page", "todo", "at", "rev", "text", "token"})
         /\ \/ /\ job'.pc = "landed" /\ job'.failed = job.failed
               /\ learned' = [learned EXCEPT ![job.at] = @ \cup {job.text}]
               /\ failures' = failures
            \/ /\ job'.pc = "page" /\ job'.failed = TRUE /\ learned' = learned
               /\ Fails
         /\ UNCHANGED <<provider, queue, files, mem, loop, closing, served, tries,
                        hidden, crashes>>
<1>1. job.pc = "distill" /\ job.at \in Docs
  BY DEF Distill, JobOK, TypeOK, Fetching
<1>2. CASE job' = [job EXCEPT !.pc = "landed"]
           /\ learned' = [learned EXCEPT ![job.at] = @ \cup {job.text}]
           /\ failures' = failures
  <2>1. DOMAIN job' = JobFields /\ job'.pc = "landed" /\ job'.failed = job.failed
    BY <1>2, Zenon DEF JobOK, JobFields
  <2>2. Kept({"targeted", "page", "todo", "at", "rev", "text", "token"})
    BY <1>2, Zenon DEF JobOK, JobFields, Kept
  <2>3. QED
    BY <1>1, <1>2, <2>1, <2>2 DEF Distill
<1>3. CASE job' = [job EXCEPT !.pc = "page", !.failed = TRUE] /\ learned' = learned /\ Fails
  <2>1. DOMAIN job' = JobFields /\ job'.pc = "page" /\ job'.failed = TRUE
    BY <1>3, Zenon DEF JobOK, JobFields
  <2>2. Kept({"targeted", "page", "todo", "at", "rev", "text", "token"})
    BY <1>3, Zenon DEF JobOK, JobFields, Kept
  <2>3. QED
    BY <1>1, <1>3, <2>1, <2>2 DEF Distill
<1>4. QED
  BY <1>2, <1>3 DEF Distill

LEMMA DistilledParts ==
  ASSUME TypeOK, JobOK, Distilled
  PROVE  /\ DOMAIN job' = JobFields /\ job.pc = "landed" /\ job.at \in Docs
         /\ job'.pc = "page"
         /\ Kept({"targeted", "page", "todo", "at", "rev", "text", "token", "failed"})
         /\ mem' \in Memory /\ mem'.cursor = mem.cursor /\ state' = mem'
         /\ \A e \in Docs \ {job.at} : mem'.src[e] = mem.src[e]
         /\ mem'.src[job.at].hash = job.text
         /\ mem'.src[job.at].rev = mem.src[job.at].rev
         /\ mem'.src[job.at].available = mem.src[job.at].available
         /\ UNCHANGED <<provider, queue, review, loop, closing, ghosts, budgets>>
<1> DEFINE d   == job.at
           new == [mem.src[d] EXCEPT !.hash = job.text]
<1>1. /\ job.pc = "landed" /\ job' = [job EXCEPT !.pc = "page"]
      /\ Save([mem.src EXCEPT ![d] = new])
      /\ UNCHANGED <<provider, queue, review, loop, closing, ghosts, budgets>>
  <2>1. [mem.src EXCEPT ![d].hash = job.text] = [mem.src EXCEPT ![d] = new]
    BY Zenon
  <2>2. QED
    BY <2>1 DEF Distilled
<1>2. d \in Docs
  BY <1>1 DEF JobOK, TypeOK, Fetching
<1>3. mem.src[d] \in Source /\ job.text \in Revs
  BY <1>2, MemoryParts DEF TypeOK
<1>4. /\ new \in Source /\ new.hash = job.text /\ new.rev = mem.src[d].rev
      /\ new.available = mem.src[d].available
  BY <1>3, Zenon DEF Source
<1> HIDE DEF new
<1>5. [mem.src EXCEPT ![d] = new] \in [Docs -> Source]
  BY <1>2, <1>4, MemoryParts
<1>6. /\ mem' \in Memory /\ mem'.cursor = mem.cursor /\ state' = mem'
      /\ mem'.src = [mem.src EXCEPT ![d] = new]
  BY <1>1, <1>5, SaveParts
<1>7. (\A e \in Docs \ {d} : mem'.src[e] = mem.src[e]) /\ mem'.src[d] = new
  BY <1>2, <1>6, MemoryParts
<1>8. DOMAIN job' = JobFields /\ job'.pc = "page"
  BY <1>1, Zenon DEF JobOK, JobFields
<1>9. Kept({"targeted", "page", "todo", "at", "rev", "text", "token", "failed"})
  BY <1>1, Zenon DEF JobOK, JobFields, Kept
<1>10. QED
  BY <1>1, <1>2, <1>4, <1>6, <1>7, <1>8, <1>9

LEMMA MarkUnavailableParts ==
  ASSUME TypeOK, NEW d \in Docs, MarkUnavailable(d)
  PROVE  /\ job.pc = "page" /\ d \in Gone
         /\ mem' \in Memory /\ mem'.cursor = mem.cursor /\ state' = mem'
         /\ \A e \in Docs \ {d} : mem'.src[e] = mem.src[e]
         /\ mem'.src[d].hash = mem.src[d].hash /\ mem'.src[d].rev = mem.src[d].rev
         /\ mem'.src[d].available = FALSE
         /\ UNCHANGED <<provider, queue, review, job, loop, closing, ghosts, budgets>>
<1> DEFINE new == [mem.src[d] EXCEPT !.available = FALSE]
<1>1. Save([mem.src EXCEPT ![d] = new])
  <2>1. [mem.src EXCEPT ![d].available = FALSE] = [mem.src EXCEPT ![d] = new]
    BY Zenon
  <2>2. QED
    BY <2>1 DEF MarkUnavailable
<1>2. mem.src[d] \in Source
  BY MemoryParts
<1>3. /\ new \in Source /\ new.hash = mem.src[d].hash /\ new.rev = mem.src[d].rev
      /\ new.available = FALSE
  BY <1>2, Zenon DEF Source
<1> HIDE DEF new
<1>4. [mem.src EXCEPT ![d] = new] \in [Docs -> Source]
  BY <1>3, MemoryParts
<1>5. /\ mem' \in Memory /\ mem'.cursor = mem.cursor /\ state' = mem'
      /\ mem'.src = [mem.src EXCEPT ![d] = new]
  BY <1>1, <1>4, SaveParts
<1>6. (\A e \in Docs \ {d} : mem'.src[e] = mem.src[e]) /\ mem'.src[d] = new
  BY <1>5, MemoryParts
<1>7. QED
  BY <1>3, <1>5, <1>6 DEF MarkUnavailable

LEMMA FinishParts ==
  ASSUME TypeOK, Finish
  PROVE  /\ job.pc = "page" /\ Gone = {} /\ job.todo = {}
         /\ mem' \in Memory /\ mem'.src = mem.src /\ state' = mem'
         /\ mem'.cursor = IF job.targeted \/ job.failed THEN mem.cursor ELSE job.token
         /\ Ends(TRUE)
         /\ UNCHANGED <<provider, queue, review, closing, tries, learned, hidden, budgets>>
<1>1. CASE job.targeted \/ job.failed
  BY <1>1 DEF Finish, TypeOK
<1>2. CASE ~(job.targeted \/ job.failed)
  <2>1. mem' = [mem EXCEPT !.cursor = job.token] /\ job.token \in Revs /\ mem \in Memory
    BY <1>2 DEF Finish, TypeOK
  <2>2. mem' \in Memory /\ mem'.src = mem.src /\ mem'.cursor = job.token
    BY <2>1, Zenon DEF Memory
  <2>3. QED
    BY <1>2, <2>2 DEF Finish
<1>3. QED
  BY <1>1, <1>2

------------------------------------------------------------------------------
LEMMA FailsParts == ASSUME TypeOK, Fails PROVE failures' \in 0 .. MaxFailures
BY IntegrationsAssumption DEF TypeOK, Fails

\* A step of a reconciliation that goes on.
LEMMA JobGoesOn ==
  ASSUME TypeInv, job.pc # "off",
         DOMAIN job' = JobFields,
         job'.pc \in {"discover", "list", "page"} \cup Fetching,
         job'.targeted = job.targeted, job'.failed \in BOOLEAN,
         DOMAIN job'.page \subseteq Docs,
         \A d \in DOMAIN job'.page : job'.page[d] \in Revs,
         job'.todo \subseteq DOMAIN job'.page,
         job'.at \in Docs \cup {None},
         job'.pc \in Fetching => job'.at \in DOMAIN job'.page,
         {job'.rev, job'.text, job'.token} \subseteq Revs,
         mem' \in Memory, state' \in Memory, review' \subseteq Docs \X Revs,
         hidden' \subseteq Docs, learned' \in [Docs -> SUBSET Revs],
         failures' \in 0 .. MaxFailures,
         UNCHANGED <<provider, queue, loop, closing, served, tries, crashes>>
  PROVE  TypeInv'
<1>1. TypeOK'
  BY DEF TypeInv, TypeOK, provider, queue, Fetching
<1>2. JobOK'
  BY DEF TypeInv, JobOK, Fetching
<1>3. QueueOK'
  BY DEF TypeInv, QueueOK, provider, queue, Ids
<1>4. QED
  BY <1>1, <1>2, <1>3 DEF TypeInv

\* The last step of a reconciliation.
LEMMA JobEnds ==
  ASSUME TypeInv, job.pc # "off", NEW ok \in BOOLEAN, Ends(ok),
         mem' \in Memory, state' \in Memory, review' = review,
         failures' \in 0 .. MaxFailures,
         UNCHANGED <<provider, queue, closing, tries, learned, hidden, crashes>>
  PROVE  TypeInv'
<1>1. /\ job' = NoJob /\ loop' \in Loops
      /\ loop'.pc = "ack" /\ loop'.ok = ok /\ loop'.batch = loop.batch
      /\ served' = IF ok THEN served \cup loop.batch ELSE served
  BY EndsParts DEF TypeInv
<1>2. TypeOK'
  BY <1>1, NoJobParts, RevsParts DEF TypeInv, TypeOK, provider, queue, Loops
<1>3. JobOK'
  BY <1>1, NoJobParts DEF JobOK, Fetching
<1>4. loop.batch \subseteq Ids(pending)
  BY DEF TypeInv, JobOK, QueueOK
<1>5. QueueOK'
  BY <1>1, <1>4, NoJobParts DEF TypeInv, QueueOK, provider, queue, Ids
<1>6. QED
  BY <1>2, <1>3, <1>5 DEF TypeInv

LEMMA AbortsKeepTypes ==
  ASSUME TypeInv, job.pc # "off", Aborts,
         UNCHANGED <<provider, queue, closing, tries, learned, hidden, crashes>>
  PROVE  TypeInv'
<1>1. Ends(FALSE) /\ mem' = state /\ UNCHANGED files /\ failures' \in 0 .. MaxFailures
  BY FailsParts DEF Aborts, TypeInv
<1>2. QED
  BY <1>1, JobEnds DEF TypeInv, TypeOK, files

LEMMA FoundKeepsTypes ==
  ASSUME TypeInv, job.pc # "off", NEW page, NEW token \in Revs, Found(page, token),
         DOMAIN page \subseteq Docs, \A d \in DOMAIN page : page[d] \in Revs,
         UNCHANGED <<provider, queue, closing, tries, learned, hidden, crashes>>
  PROVE  TypeInv'
<1>1. /\ DOMAIN job' = JobFields /\ job'.pc = "page" /\ job'.page = page
      /\ job'.todo = DOMAIN page /\ job'.token = token
      /\ Kept({"targeted", "at", "rev", "text", "failed"})
      /\ mem' \in Memory /\ UNCHANGED <<files, loop, served, failures>>
  BY FoundParts DEF TypeInv
<1>2. QED
  BY <1>1, JobGoesOn DEF TypeInv, TypeOK, Kept, files, Fetching

LEMMA TypeStep == TypeInv /\ [Next]_vars => TypeInv'
<1> SUFFICES ASSUME TypeInv, [Next]_vars
             PROVE  TypeInv'
  OBVIOUS
<1>a. TypeOK /\ JobOK /\ QueueOK
  BY DEF TypeInv
<1>1. ASSUME NEW d \in Docs, Change(d) PROVE TypeInv'
  <2>1. /\ changes' \in Revs
        /\ UNCHANGED <<feed, queue, files, mem, job, loop, closing, ghosts, budgets>>
    BY <1>a, <1>1, IntegrationsAssumption DEF Change, TypeOK, Revs
  <2>2. remote' \in [Docs -> [rev : Revs, text : Revs, there : BOOLEAN]]
    <3>1. CASE \E text \in {remote[d].text, changes'} \ {NoText} :
                 remote' = [remote EXCEPT ![d] = [rev |-> changes', text |-> text, there |-> TRUE]]
      BY <1>a, <2>1, <3>1 DEF TypeOK
    <3>2. CASE remote' = [remote EXCEPT ![d].rev = changes', ![d].there = FALSE]
      BY <1>a, <2>1, <3>2, Zenon DEF TypeOK
    <3>3. QED
      BY <1>1, <3>1, <3>2 DEF Change
  <2>3. TypeOK'
    BY <1>a, <2>1, <2>2 DEF TypeOK, queue, files, ghosts, budgets
  <2>4. JobOK' /\ QueueOK'
    BY <1>a, <2>1 DEF JobOK, QueueOK, queue, ghosts, Ids
  <2>5. QED
    BY <2>3, <2>4 DEF TypeInv
<1>2. ASSUME NEW e \in Events, Accept(e) PROVE TypeInv'
  <2>1. PICK hint \in IF feed THEN {All} ELSE Docs \cup {All} :
          pending' = IF e \in processed \cup Ids(pending) THEN pending
                     ELSE pending \cup {[id |-> e, hint |-> hint, attempts |-> 0]}
    BY <1>2 DEF Accept
  <2>2. /\ loop' = Woken
        /\ UNCHANGED <<provider, processed, files, mem, job, closing, ghosts, budgets>>
    BY <1>2 DEF Accept
  <2>3. /\ loop' \in Loops /\ loop'.batch = loop.batch /\ loop'.ok = loop.ok
        /\ loop'.pc = IF loop.pc = "idle" THEN "start" ELSE loop.pc
    BY <1>a, <2>2, WokenParts
  <2>4. hint \in Docs \cup {All} /\ (feed => hint = All)
    OBVIOUS
  <2>5. TypeOK'
    <3>1. pending' \subseteq [id : Events, hint : Docs \cup {All}, attempts : 0 .. MaxAttempts - 1]
      BY <1>a, <2>1, <2>4, IntegrationsAssumption DEF TypeOK
    <3>2. QED
      BY <1>a, <2>2, <2>3, <3>1 DEF TypeOK, Loops, provider, files, ghosts, budgets
  <2>6. JobOK'
    BY <1>a, <2>2, <2>3 DEF JobOK
  <2>7. QueueOK'
    <3>1. CASE e \in processed \cup Ids(pending)
      BY <1>a, <2>1, <2>2, <2>3, <3>1 DEF QueueOK, provider, ghosts, Ids
    <3>2. CASE e \notin processed \cup Ids(pending)
      <4>1. pending' = pending \cup {[id |-> e, hint |-> hint, attempts |-> 0]}
        BY <2>1, <3>2
      <4>2. tries[e] = 0
        BY <1>a, <3>2 DEF QueueOK
      <4>3. \A i \in pending' : i.attempts = tries'[i.id]
        BY <1>a, <2>2, <4>1, <4>2 DEF QueueOK, ghosts
      <4>4. Ids(pending) \subseteq Ids(pending')
        BY <4>1 DEF Ids
      <4>5. feed => \A i \in pending' : i.hint = All
        BY <1>a, <2>4, <4>1 DEF QueueOK
      <4>6. QED
        BY <1>a, <2>2, <2>3, <4>3, <4>4, <4>5 DEF QueueOK, provider, ghosts, Ids
    <3>3. QED
      BY <3>1, <3>2
  <2>8. QED
    BY <2>5, <2>6, <2>7 DEF TypeInv
<1>3. CASE Poll
  <2>1. /\ loop' = Woken
        /\ UNCHANGED <<provider, queue, files, mem, job, closing, ghosts, budgets>>
    BY <1>3 DEF Poll
  <2>2. /\ loop' \in Loops /\ loop'.batch = loop.batch /\ loop'.ok = loop.ok
        /\ loop'.pc = IF loop.pc = "idle" THEN "start" ELSE loop.pc
    BY <1>a, <2>1, WokenParts
  <2>3. TypeOK'
    BY <1>a, <2>1, <2>2 DEF TypeOK, Loops, provider, queue, files, ghosts, budgets
  <2>4. JobOK' /\ QueueOK'
    BY <1>a, <2>1, <2>2 DEF JobOK, QueueOK, provider, queue, ghosts, Ids
  <2>5. QED
    BY <2>3, <2>4 DEF TypeInv
<1>4. CASE CycleStarts
  <2>1. /\ DOMAIN job' = JobFields /\ job'.targeted \in BOOLEAN
        /\ job'.pc = IF job'.targeted THEN "page" ELSE "discover"
        /\ job'.targeted => \E i \in pending : i.hint # All
        /\ DOMAIN job'.page \subseteq Docs
        /\ \A d \in DOMAIN job'.page :
             job'.page[d] = IF job'.targeted THEN state.src[d].rev ELSE 0
        /\ job'.todo \subseteq DOMAIN job'.page
        /\ job'.at = None /\ job'.rev = 0 /\ job'.text = NoText /\ job'.token = 0
        /\ job'.failed = FALSE
        /\ loop' \in Loops /\ loop'.pc = "job" /\ loop'.batch = Ids(pending)
        /\ mem' = state
        /\ UNCHANGED <<provider, queue, files, closing, ghosts, budgets>>
    BY <1>4, <1>a, CycleStartsParts
  <2>2. \A d \in DOMAIN job'.page : job'.page[d] \in Revs
    BY <1>a, <2>1, MemoryParts, RevsParts
  <2>3. TypeOK'
    BY <1>a, <2>1, RevsParts DEF TypeOK, Loops, provider, queue, files, ghosts, budgets
  <2>4. JobOK'
    BY <2>1, <2>2 DEF JobOK, Fetching
  <2>5. QueueOK'
    BY <1>a, <2>1 DEF QueueOK, provider, queue, ghosts, Ids
  <2>6. QED
    BY <2>3, <2>4, <2>5 DEF TypeInv
<1>5. CASE Acknowledge
  <2>1. /\ loop.pc = "ack" /\ loop' = NextCycle
        /\ UNCHANGED <<provider, files, mem, job, closing, served, learned, hidden, budgets>>
    BY <1>5 DEF Acknowledge
  <2>2. loop' \in Loops /\ loop'.pc \in {"idle", "start"}
    BY <2>1, Zenon DEF NextCycle, Idle, Loops
  <2>3. job.pc = "off"
    BY <1>a, <2>1 DEF JobOK
  <2>4. JobOK'
    BY <1>a, <2>1, <2>3 DEF JobOK
  <2>5. \A i \in Struck : i \in pending /\ i.id \in loop.batch
    BY DEF Struck
  <2>6. CASE loop.ok
    <3>1. /\ pending' = pending \ Struck /\ processed' = processed \cup Ids(Struck)
          /\ tries' = tries
      BY <1>5, <2>6 DEF Acknowledge
    <3>2. Ids(Struck) \subseteq Events /\ Ids(Struck) \subseteq loop.batch
      BY <1>a, <2>5 DEF Ids, TypeOK
    <3>3. TypeOK'
      BY <1>a, <2>1, <2>2, <3>1, <3>2 DEF TypeOK, Loops, provider, files, budgets
    <3>4. processed' \subseteq served' \cup {e \in Events : tries'[e] = MaxAttempts}
      BY <1>a, <2>1, <2>6, <3>1, <3>2 DEF QueueOK
    <3>5. \A e \in Events : tries'[e] # 0 => e \in processed' \cup Ids(pending')
      BY <1>a, <3>1 DEF QueueOK, Ids
    <3>6. QueueOK'
      BY <1>a, <2>1, <2>2, <3>1, <3>4, <3>5 DEF QueueOK, provider
    <3>7. QED
      BY <2>4, <3>3, <3>6 DEF TypeInv
  <2>7. CASE ~loop.ok
    <3>1. /\ pending' = (pending \ Struck) \cup Retried
          /\ processed' = processed \cup Ids(Exhausted)
          /\ tries' = [e \in Events |-> IF e \in loop.batch THEN tries[e] + 1 ELSE tries[e]]
      BY <1>5, <2>7 DEF Acknowledge
    <3>2. ASSUME NEW i \in pending
          PROVE  /\ i.id \in Events /\ i.hint \in Docs \cup {All}
                 /\ i.attempts \in 0 .. MaxAttempts - 1 /\ i.attempts = tries[i.id]
      BY <1>a DEF TypeOK, QueueOK
    <3>3. ASSUME NEW i \in pending
          PROVE  LET j == [i EXCEPT !.attempts = @ + 1]
                 IN  j.id = i.id /\ j.hint = i.hint /\ j.attempts = i.attempts + 1
      BY <1>a, Zenon DEF TypeOK
    <3>4. \A j \in Retried : \E i \in Struck \ Exhausted :
            j = [i EXCEPT !.attempts = @ + 1]
      BY DEF Retried
    <3>5. ASSUME NEW j \in Retried
          PROVE  /\ j \in [id : Events, hint : Docs \cup {All}, attempts : 0 .. MaxAttempts - 1]
                 /\ j.attempts = tries[j.id] + 1 /\ j.id \in loop.batch
                 /\ feed => j.hint = All
      <4>1. PICK i \in Struck \ Exhausted : j = [i EXCEPT !.attempts = @ + 1]
        BY <3>4
      <4>2. i \in pending /\ i.id \in loop.batch /\ i.attempts + 1 < MaxAttempts
        BY <2>5, <3>2, <4>1, IntegrationsAssumption DEF Exhausted
      <4>3. j.id = i.id /\ j.hint = i.hint /\ j.attempts = i.attempts + 1
        BY <3>3, <4>1, <4>2
      <4>4. i.attempts + 1 \in 0 .. MaxAttempts - 1
        BY <3>2, <4>2, IntegrationsAssumption
      <4>5. j \in [id : Events, hint : Docs \cup {All}, attempts : 0 .. MaxAttempts - 1]
        <5>1. i \in [id : Events, hint : Docs \cup {All}, attempts : 0 .. MaxAttempts - 1]
          BY <1>a, <4>2 DEF TypeOK
        <5>2. QED
          BY <4>1, <4>4, <5>1, Zenon
      <4>6. QED
        BY <1>a, <3>2, <4>2, <4>3, <4>5 DEF QueueOK
    <3>6. ASSUME NEW e \in loop.batch
          PROVE  /\ e \in Events /\ tries[e] + 1 \in 0 .. MaxAttempts
                 /\ e \in Ids(Struck)
      <4>1. PICK i \in pending : i.id = e
        BY <1>a, <2>1 DEF QueueOK, Ids
      <4>2. i \in Struck
        BY <4>1 DEF Struck
      <4>3. QED
        BY <3>2, <4>1, <4>2, IntegrationsAssumption DEF Ids
    <3>7. \A i \in Exhausted : i \in pending /\ i.id \in loop.batch /\ i.attempts + 1 >= MaxAttempts
      BY <2>5 DEF Exhausted
    <3>8. \A e \in Ids(Exhausted) : e \in Events /\ tries'[e] = MaxAttempts
      BY <3>1, <3>2, <3>7, IntegrationsAssumption DEF Ids
    <3>9. tries' \in [Events -> 0 .. MaxAttempts]
      BY <1>a, <3>1, <3>6 DEF TypeOK
    <3>10. TypeOK'
      <4>1. pending' \subseteq [id : Events, hint : Docs \cup {All}, attempts : 0 .. MaxAttempts - 1]
        BY <1>a, <3>1, <3>5 DEF TypeOK
      <4>2. processed' \subseteq Events
        BY <1>a, <3>1, <3>8 DEF TypeOK
      <4>3. QED
        BY <1>a, <2>1, <2>2, <3>9, <4>1, <4>2 DEF TypeOK, Loops, provider, files, budgets
    <3>11. \A i \in pending' : i.attempts = tries'[i.id]
      <4>1. ASSUME NEW i \in pending \ Struck PROVE i.attempts = tries'[i.id]
        BY <3>1, <3>2 DEF Struck
      <4>2. ASSUME NEW i \in Retried PROVE i.attempts = tries'[i.id]
        BY <3>1, <3>5
      <4>3. QED
        BY <3>1, <4>1, <4>2
    <3>12. ASSUME NEW e \in Events, tries'[e] # 0
           PROVE  e \in processed' \cup Ids(pending')
      <4>1. CASE e \in loop.batch
        <5>1. PICK i \in Struck : i.id = e
          BY <3>6, <4>1 DEF Ids
        <5>2. CASE i \in Exhausted
          BY <3>1, <5>1, <5>2 DEF Ids
        <5>3. CASE i \notin Exhausted
          <6>1. [i EXCEPT !.attempts = @ + 1] \in Retried
            BY <5>1, <5>3, Zenon DEF Retried
          <6>2. [i EXCEPT !.attempts = @ + 1].id = e
            BY <2>5, <3>3, <5>1
          <6>3. QED
            BY <3>1, <6>1, <6>2, Zenon DEF Ids
        <5>4. QED
          BY <5>2, <5>3
      <4>2. CASE e \notin loop.batch
        <5>1. tries[e] # 0
          BY <3>1, <3>12, <4>2
        <5>2. CASE e \in processed
          BY <3>1, <5>2
        <5>3. CASE e \in Ids(pending)
          BY <2>5, <3>1, <4>2, <5>3 DEF Ids
        <5>4. QED
          BY <1>a, <5>1, <5>2, <5>3 DEF QueueOK
      <4>3. QED
        BY <4>1, <4>2
    <3>13. processed' \subseteq served' \cup {e \in Events : tries'[e] = MaxAttempts}
      <4>1. ASSUME NEW e \in Events, tries[e] = MaxAttempts, e \notin Ids(pending)
            PROVE  tries'[e] = MaxAttempts
        BY <1>a, <2>1, <3>1, <4>1 DEF QueueOK
      <4>2. ASSUME NEW e \in Events, tries[e] = MaxAttempts PROVE e \notin Ids(pending)
        BY <3>2, <4>2, IntegrationsAssumption DEF Ids
      <4>3. QED
        BY <1>a, <2>1, <3>1, <3>8, <4>1, <4>2 DEF QueueOK
    <3>14. QueueOK'
      <4>1. feed' => (\A i \in pending' : i.hint = All) /\ ~job'.targeted
        BY <1>a, <2>1, <3>1, <3>5 DEF QueueOK, provider
      <4>2. QED
        BY <2>2, <3>11, <3>12, <3>13, <4>1 DEF QueueOK
    <3>15. QED
      BY <2>4, <3>10, <3>14 DEF TypeInv
  <2>8. QED
    BY <2>6, <2>7
<1>6. CASE Close
  <2>1. /\ closing' = TRUE /\ loop' = [loop EXCEPT !.rerun = FALSE]
        /\ UNCHANGED <<provider, queue, files, mem, job, ghosts, budgets>>
    BY <1>6 DEF Close
  <2>2. /\ loop' \in Loops /\ loop'.batch = loop.batch /\ loop'.ok = loop.ok
        /\ loop'.pc = loop.pc
    BY <1>a, <2>1, Zenon DEF TypeOK, Loops
  <2>3. TypeOK'
    BY <1>a, <2>1, <2>2 DEF TypeOK, Loops, provider, queue, files, ghosts, budgets
  <2>4. JobOK' /\ QueueOK'
    BY <1>a, <2>1, <2>2 DEF JobOK, QueueOK, provider, queue, ghosts, Ids
  <2>5. QED
    BY <2>3, <2>4 DEF TypeInv
<1>7. CASE Crash
  <2>1. /\ crashes' \in 0 .. MaxCrashes /\ job' = NoJob /\ mem' = state
        /\ loop' = [Idle EXCEPT !.pc = "start"] /\ closing' = FALSE
        /\ UNCHANGED <<provider, queue, files, ghosts, failures>>
    BY <1>7, <1>a, IntegrationsAssumption DEF Crash, TypeOK
  <2>2. loop' \in Loops /\ loop'.pc = "start"
    BY <2>1, Zenon DEF Idle, Loops
  <2>3. TypeOK'
    BY <1>a, <2>1, <2>2, NoJobParts, RevsParts DEF TypeOK, Loops, provider, queue, files, ghosts
  <2>4. JobOK' /\ QueueOK'
    BY <1>a, <2>1, <2>2, NoJobParts DEF JobOK, QueueOK, provider, queue, ghosts, Ids, Fetching
  <2>5. QED
    BY <2>3, <2>4 DEF TypeInv
<1>8. CASE Discover
  <2>1. /\ job.pc = "discover"
        /\ UNCHANGED <<provider, queue, closing, tries, learned, hidden, crashes>>
    BY <1>8 DEF Discover
  <2>2. CASE Aborts
    BY <2>1, <2>2, AbortsKeepTypes
  <2>3. CASE Found(Listed, 0)
    BY <1>a, <2>1, <2>3, FoundKeepsTypes, ListedParts, RevsParts
  <2>4. CASE Found(Changed, changes)
    <3>1. changes \in Revs
      BY <1>a DEF TypeOK
    <3>2. QED
      BY <1>a, <2>1, <2>4, <3>1, FoundKeepsTypes, ChangedParts
  <2>5. CASE /\ job' = [job EXCEPT !.pc = "list", !.token = changes]
             /\ UNCHANGED <<files, mem, loop, served, failures>>
    <3>1. DOMAIN job' = JobFields /\ job'.pc = "list" /\ job'.token = changes
      BY <1>a, <2>5, Zenon DEF JobOK, JobFields
    <3>2. Kept({"targeted", "page", "todo", "at", "rev", "text", "failed"})
      BY <1>a, <2>5, Zenon DEF JobOK, JobFields, Kept
    <3>3. QED
      BY <1>a, <2>1, <2>5, <3>1, <3>2, JobGoesOn DEF TypeOK, JobOK, Kept, files, Fetching
  <2>6. QED
    BY <1>8, <2>2, <2>3, <2>4, <2>5 DEF Discover
<1>9. CASE List
  <2>1. /\ job.pc = "list" /\ job.token \in Revs
        /\ UNCHANGED <<provider, queue, closing, tries, learned, hidden, crashes>>
    BY <1>9, <1>a DEF List, TypeOK
  <2>2. CASE Aborts
    BY <2>1, <2>2, AbortsKeepTypes
  <2>3. CASE Found(Listed, job.token)
    BY <1>a, <2>1, <2>3, FoundKeepsTypes, ListedParts
  <2>4. QED
    BY <1>9, <2>2, <2>3 DEF List
<1>10. ASSUME NEW d \in Docs, RecordUnavailable(d) PROVE TypeInv'
  <2>1. /\ job.pc = "page"
        /\ UNCHANGED <<provider, queue, closing, tries, learned, hidden, crashes>>
    BY <1>10 DEF RecordUnavailable
  <2>2. CASE Aborts
    BY <2>1, <2>2, AbortsKeepTypes
  <2>3. CASE /\ review' = review \cup {<<d, mem.src[d].rev>>}
             /\ UNCHANGED <<state, mem, job, loop, served, failures>>
    <3>1. mem.src[d].rev \in Revs
      BY <1>a, MemoryParts
    <3>2. review' \subseteq Docs \X Revs
      BY <1>a, <2>3, <3>1 DEF TypeOK
    <3>3. QED
      BY <1>a, <2>1, <2>3, <3>2, JobGoesOn DEF TypeOK, JobOK, Fetching
  <2>4. QED
    BY <1>10, <2>2, <2>3 DEF RecordUnavailable
<1>11. ASSUME NEW d \in Docs, MarkUnavailable(d) PROVE TypeInv'
  <2>1. /\ job.pc = "page" /\ mem' \in Memory /\ state' = mem'
        /\ UNCHANGED <<provider, queue, review, job, loop, closing, ghosts, budgets>>
    BY <1>11, <1>a, MarkUnavailableParts
  <2>2. QED
    BY <1>a, <2>1, JobGoesOn DEF TypeOK, JobOK, Fetching, ghosts, budgets
<1>12. CASE RunsOut
  <2>1. /\ DOMAIN job' = JobFields /\ job.pc = "page" /\ job'.todo = {}
        /\ job'.failed = TRUE
        /\ Kept({"pc", "targeted", "page", "at", "rev", "text", "token"})
        /\ UNCHANGED <<provider, queue, files, mem, loop, closing, ghosts, crashes>>
    BY <1>12, <1>a, RunsOutParts
  <2>2. failures' \in 0 .. MaxFailures
    BY <1>12, <1>a, FailsParts DEF RunsOut
  <2>3. QED
    BY <1>a, <2>1, <2>2, JobGoesOn DEF TypeOK, JobOK, Fetching, Kept, files, ghosts
<1>13. ASSUME NEW d \in Docs, Consider(d) PROVE TypeInv'
  <2>1. /\ DOMAIN job' = JobFields /\ job.pc = "page" /\ d \in job.todo
        /\ job'.todo = job.todo \ {d}
        /\ Kept({"targeted", "page", "rev", "text", "token", "failed"})
        /\ mem' = mem /\ state' \in {mem, state}
        /\ \/ job'.pc = "page" /\ job'.at = job.at
           \/ job'.pc = "fetch" /\ job'.at = d
        /\ UNCHANGED <<provider, queue, review, loop, closing, ghosts, budgets>>
    BY <1>13, <1>a, ConsiderParts
  <2>2. QED
    BY <1>a, <2>1, JobGoesOn DEF TypeOK, JobOK, Fetching, Kept, ghosts, budgets
<1>14. CASE FetchPage
  <2>1. /\ DOMAIN job' = JobFields /\ job.pc = "fetch" /\ job'.pc = "read"
        /\ job'.rev = IF feed THEN job.page[job.at] ELSE remote[job.at].rev
        /\ Kept({"targeted", "page", "todo", "at", "text", "token", "failed"})
        /\ UNCHANGED <<provider, queue, files, mem, loop, closing, ghosts, budgets>>
    BY <1>14, <1>a, FetchPageParts
  <2>2. job.at \in DOMAIN job.page /\ job.at \in Docs
    BY <1>a, <2>1 DEF JobOK, TypeOK, Fetching
  <2>3. job'.rev \in Revs
    BY <1>a, <2>1, <2>2 DEF TypeOK, JobOK
  <2>4. QED
    BY <1>a, <2>1, <2>2, <2>3, JobGoesOn DEF TypeOK, JobOK, Fetching, Kept, files, ghosts, budgets
<1>15. ASSUME NEW ds \in SUBSET DOMAIN job.page, FetchFails(ds), job.pc \in Fetching,
              failures' \in 0 .. MaxFailures,
              UNCHANGED <<provider, queue, review, loop, closing, served, tries, crashes>>
       PROVE  TypeInv'
  <2>1. /\ DOMAIN job' = JobFields /\ job'.pc = "page" /\ job'.failed = TRUE
        /\ job'.todo = job.todo \ ds
        /\ Kept({"targeted", "page", "at", "rev", "text", "token"})
        /\ mem' \in Memory
        /\ hidden' = hidden \cup {d \in ds : Hides(d)}
        /\ UNCHANGED <<state, learned>>
    BY <1>15, <1>a, FetchFailsParts
  <2>2. hidden' \subseteq Docs
    BY <1>a, <2>1 DEF TypeOK
  <2>3. job.pc # "off"
    BY <1>15 DEF Fetching
  <2>4. QED
    BY <1>15, <1>a, <2>1, <2>2, <2>3, JobGoesOn DEF TypeOK, JobOK, Fetching, Kept
<1>16. CASE FetchFailed
  <2>1. /\ job.pc \in Fetching
        /\ UNCHANGED <<provider, queue, review, loop, closing, served, tries, crashes>>
    BY <1>16 DEF FetchFailed, Fetching
  <2>2. PICK ds \in {{job.at}, {job.at} \cup job.todo} :
          FetchFails(ds) /\ (Fails \/ UNCHANGED failures)
    BY <1>16 DEF FetchFailed
  <2>3. ds \in SUBSET DOMAIN job.page
    BY <1>a, <2>1 DEF JobOK
  <2>4. failures' \in 0 .. MaxFailures
    BY <1>a, <2>2, FailsParts DEF TypeOK
  <2>5. QED
    BY <1>15, <2>1, <2>2, <2>3, <2>4
<1>17. CASE Fetched
  <2>1. /\ job.pc = "read" /\ job.at \in Docs
        /\ \/ FetchFails({job.at})
           \/ Took(job.at)
        /\ UNCHANGED <<provider, queue, review, loop, closing, served, tries, budgets>>
    BY <1>17, <1>a, FetchedParts
  <2>2. job.at \in DOMAIN job.page
    BY <1>a, <2>1 DEF JobOK, Fetching
  <2>3. CASE FetchFails({job.at})
    <3>1. {job.at} \in SUBSET DOMAIN job.page /\ job.pc \in Fetching
      BY <2>1, <2>2 DEF Fetching
    <3>2. QED
      BY <1>15, <1>a, <2>1, <2>3, <3>1 DEF budgets, TypeOK
  <2>4. CASE Took(job.at)
    <3>1. remote[job.at].text \in Revs
      BY <1>a, <2>1, MemoryParts
    <3>2. hidden' \subseteq Docs /\ learned' \in [Docs -> SUBSET Revs]
      BY <1>a, <2>4 DEF Took, TypeOK
    <3>3. QED
      BY <1>a, <2>1, <2>2, <2>4, <3>1, <3>2, JobGoesOn
         DEF TypeOK, JobOK, Fetching, Kept, Took, budgets
  <2>5. QED
    BY <2>1, <2>3, <2>4
<1>18. CASE Distill
  <2>1. /\ DOMAIN job' = JobFields /\ job.pc = "distill" /\ job.at \in Docs
        /\ Kept({"targeted", "page", "todo", "at", "rev", "text", "token"})
        /\ UNCHANGED <<provider, queue, files, mem, loop, closing, served, tries,
                       hidden, crashes>>
        /\ job'.pc \in {"landed", "page"} /\ job'.failed \in {job.failed, TRUE}
        /\ \/ learned' = [learned EXCEPT ![job.at] = @ \cup {job.text}]
           \/ learned' = learned
        /\ Fails \/ failures' = failures
    BY <1>18, <1>a, DistillParts
  <2>2. failures' \in 0 .. MaxFailures
    BY <1>a, <2>1, FailsParts DEF TypeOK
  <2>3. learned' \in [Docs -> SUBSET Revs]
    BY <1>a, <2>1 DEF TypeOK
  <2>4. QED
    BY <1>a, <2>1, <2>2, <2>3, JobGoesOn DEF TypeOK, JobOK, Fetching, Kept, files
<1>19. CASE Distilled
  <2>1. /\ DOMAIN job' = JobFields /\ job.pc = "landed" /\ job.at \in Docs
        /\ job'.pc = "page"
        /\ Kept({"targeted", "page", "todo", "at", "rev", "text", "token", "failed"})
        /\ mem' \in Memory /\ state' = mem'
        /\ UNCHANGED <<provider, queue, review, loop, closing, ghosts, budgets>>
    BY <1>19, <1>a, DistilledParts
  <2>2. QED
    BY <1>a, <2>1, JobGoesOn DEF TypeOK, JobOK, Fetching, Kept, ghosts, budgets
<1>20. CASE Finish
  <2>1. /\ job.pc = "page" /\ mem' \in Memory /\ state' = mem' /\ Ends(TRUE)
        /\ UNCHANGED <<provider, queue, review, closing, tries, learned, hidden, budgets>>
    BY <1>20, <1>a, FinishParts
  <2>2. QED
    BY <1>a, <2>1, JobEnds DEF TypeOK, budgets
<1>21. CASE UNCHANGED vars
  <2>1. TypeOK'
    BY <1>a, <1>21 DEF TypeOK, vars, provider, queue, files, ghosts, budgets
  <2>2. JobOK' /\ QueueOK'
    BY <1>a, <1>21 DEF JobOK, QueueOK, vars, provider, queue, ghosts, Ids
  <2>3. QED
    BY <2>1, <2>2 DEF TypeInv
<1>22. QED
  BY <1>1, <1>2, <1>3, <1>4, <1>5, <1>6, <1>7, <1>8, <1>9, <1>10, <1>11, <1>12, <1>13, <1>14, <1>16, <1>17, <1>18, <1>19, <1>20, <1>21 DEF Next, Run, Reconcile

LEMMA TypeInvariant == Spec => []TypeInv
<1>1. Init => TypeInv
  <2> SUFFICES ASSUME Init PROVE TypeInv
    OBVIOUS
  <2>1. state \in Memory
    BY UnknownIsSource, RevsParts DEF Init, Memory
  <2>2. loop \in Loops /\ loop.pc = "start"
    BY Zenon DEF Init, Idle, Loops
  <2>3. TypeOK
    <3>1. remote \in [Docs -> [rev : Revs, text : Revs, there : BOOLEAN]]
      BY RevsParts DEF Init
    <3>2. changes \in Revs /\ failures \in 0 .. MaxFailures /\ crashes \in 0 .. MaxCrashes
      BY IntegrationsAssumption DEF Init, Revs
    <3>3. tries \in [Events -> 0 .. MaxAttempts] /\ learned \in [Docs -> SUBSET Revs]
      BY IntegrationsAssumption DEF Init
    <3>4. /\ mem = state /\ pending = {} /\ processed = {} /\ review = {} /\ served = {}
          /\ hidden = {} /\ job = NoJob /\ closing = FALSE /\ feed \in BOOLEAN
      BY Zenon DEF Init
    <3>5. QED
      BY <2>1, <2>2, <3>1, <3>2, <3>3, <3>4, NoJobParts, RevsParts DEF TypeOK, Loops
  <2>4. JobOK /\ QueueOK
    BY <2>2, NoJobParts DEF Init, JobOK, QueueOK, Fetching
  <2>5. QED
    BY <2>3, <2>4 DEF TypeInv
<1>2. QED
  BY <1>1, TypeStep, PTL DEF Spec

\* The queue: an event leaves it by a reconciliation that began when it was in
\* the queue and ended well, or by its last failed attempt.
THEOREM EventsServedHolds == Spec => []EventsServed
<1>1. TypeInv => EventsServed
  BY DEF TypeInv, QueueOK, EventsServed
<1>2. QED
  BY <1>1, TypeInvariant, PTL

------------------------------------------------------------------------------
(***************************************************************************)
(* Certificates.                                                           *)
(***************************************************************************)
LEMMA ChangeParts ==
  ASSUME TypeOK, Revisions, NEW d \in Docs, Change(d)
  PROVE  /\ changes' = changes + 1 /\ changes \in Nat
         /\ remote'[d].rev = changes' /\ remote'[d].text # NoText
         /\ \A e \in Docs \ {d} : remote'[e] = remote[e]
         /\ UNCHANGED <<feed, queue, files, mem, job, loop, closing, ghosts, budgets>>
<1>1. /\ changes' = changes + 1 /\ changes \in Nat
      /\ UNCHANGED <<feed, queue, files, mem, job, loop, closing, ghosts, budgets>>
  BY RevsParts DEF Change, TypeOK
<1>2. CASE \E text \in {remote[d].text, changes'} \ {NoText} :
             remote' = [remote EXCEPT ![d] = [rev |-> changes', text |-> text, there |-> TRUE]]
  <2>1. PICK text \in {remote[d].text, changes'} \ {NoText} :
          remote' = [remote EXCEPT ![d] = [rev |-> changes', text |-> text, there |-> TRUE]]
    BY <1>2
  <2>2. remote'[d].rev = changes' /\ remote'[d].text = text
    BY <2>1 DEF TypeOK
  <2>3. \A e \in Docs \ {d} : remote'[e] = remote[e]
    BY <2>1 DEF TypeOK
  <2>4. QED
    BY <1>1, <2>1, <2>2, <2>3
<1>3. CASE /\ remote[d].there
           /\ remote' = [remote EXCEPT ![d].rev = changes', ![d].there = FALSE]
  <2>1. remote'[d].rev = changes' /\ remote'[d].text = remote[d].text
    BY <1>3, Zenon DEF TypeOK
  <2>2. \A e \in Docs \ {d} : remote'[e] = remote[e]
    BY <1>3, Zenon DEF TypeOK
  <2>3. QED
    BY <1>1, <1>3, <2>1, <2>2 DEF Revisions
<1>4. QED
  BY <1>2, <1>3 DEF Change

LEMMA RevisionsAreNumbers ==
  ASSUME TypeOK
  PROVE  \A d \in Docs : /\ remote[d].rev \in Nat /\ remote[d].rev <= remote[d].rev
                         /\ 0 <= remote[d].rev
                         /\ state.src[d].rev \in Nat /\ mem.src[d].rev \in Nat
<1>1. \A d \in Docs : /\ remote[d].rev \in Nat
                      /\ state.src[d].rev \in Nat /\ mem.src[d].rev \in Nat
  BY MemoryParts, RevsParts
<1>2. QED
  BY <1>1

LEMMA AbortsCertified ==
  ASSUME TypeInv, CertInv, Aborts, UNCHANGED <<provider, learned, hidden>>
  PROVE  CertInv'
<1>1. job' = NoJob /\ mem' = state /\ state' = state
  BY DEF Aborts, Ends, files
<1>2. Revisions' /\ InHand'
  BY <1>1, NoJobParts DEF CertInv, Revisions, InHand, provider
<1>3. Certified(state)' /\ Certified(mem)'
  BY <1>1 DEF CertInv, Certified, provider
<1>4. QED
  BY <1>2, <1>3 DEF CertInv

LEMMA FoundCertified ==
  ASSUME TypeInv, CertInv, NEW page, NEW token, Found(page, token),
         DOMAIN page \subseteq Docs,
         \A d \in DOMAIN page : page[d] \in Revs /\ page[d] <= remote[d].rev,
         UNCHANGED <<provider, learned, hidden>>
  PROVE  CertInv'
<1>1. /\ job'.pc = "page" /\ job'.page = page
      /\ \A d \in Docs :
           mem'.src[d] = IF feed /\ d \in DOMAIN page /\ mem.src[d] = Unknown
                         THEN [rev |-> page[d], hash |-> NoText, available |-> TRUE]
                         ELSE mem.src[d]
      /\ state' = state
  BY FoundParts DEF TypeInv, files
<1>2. Revisions' /\ InHand'
  BY <1>1 DEF CertInv, Revisions, InHand, provider
<1>3. Certified(state)'
  BY <1>1 DEF CertInv, Certified, provider
<1>4. Certified(mem)'
  <2> SUFFICES ASSUME NEW d \in Docs
               PROVE  /\ mem'.src[d].rev <= remote'[d].rev
                      /\ mem'.src[d].hash # NoText => mem'.src[d].hash \in learned'[d]
                      /\ remote'[d].there /\ mem'.src[d].rev = remote'[d].rev
                         /\ mem'.src[d].hash # NoText
                           => mem'.src[d].hash = remote'[d].text \/ d \in hidden'
    BY DEF Certified
  <2>1. CASE mem'.src[d] = mem.src[d]
    BY <2>1 DEF CertInv, Certified, provider
  <2>2. CASE /\ d \in DOMAIN page
             /\ mem'.src[d] = [rev |-> page[d], hash |-> NoText, available |-> TRUE]
    <3>1. mem'.src[d].rev = page[d] /\ mem'.src[d].hash = NoText
      BY <2>2
    <3>2. page[d] <= remote[d].rev
      BY <2>2
    <3>3. QED
      BY <3>1, <3>2 DEF provider
  <2>3. QED
    BY <1>1, <2>1, <2>2
<1>5. QED
  BY <1>2, <1>3, <1>4 DEF CertInv

\* A failed fetch hides what it leaves half told.
LEMMA FetchFailsCertified ==
  ASSUME TypeInv, CertInv, NEW ds \in SUBSET DOMAIN job.page, FetchFails(ds),
         UNCHANGED provider
  PROVE  CertInv'
<1>1. /\ job'.pc = "page" /\ job'.page = job.page
      /\ \A d \in Docs : d \notin ds => mem'.src[d] = mem.src[d]
      /\ \A d \in ds : /\ mem'.src[d].rev = job.page[d]
                       /\ mem'.src[d].hash = mem.src[d].hash
      /\ hidden' = hidden \cup {d \in ds : Hides(d)}
      /\ UNCHANGED <<state, learned>>
  BY FetchFailsParts DEF TypeInv, Kept
<1>2. Revisions' /\ InHand'
  BY <1>1 DEF CertInv, Revisions, InHand, provider
<1>3. Certified(state)'
  BY <1>1 DEF CertInv, Certified, provider
<1>4. Certified(mem)'
  <2> SUFFICES ASSUME NEW d \in Docs
               PROVE  /\ mem'.src[d].rev <= remote'[d].rev
                      /\ mem'.src[d].hash # NoText => mem'.src[d].hash \in learned'[d]
                      /\ remote'[d].there /\ mem'.src[d].rev = remote'[d].rev
                         /\ mem'.src[d].hash # NoText
                           => mem'.src[d].hash = remote'[d].text \/ d \in hidden'
    BY DEF Certified
  <2>1. CASE d \notin ds
    BY <1>1, <2>1 DEF CertInv, Certified, provider
  <2>2. CASE d \in ds
    <3>1. job.page[d] <= remote[d].rev
      BY <2>2 DEF CertInv, Revisions
    <3>2. mem.src[d].hash # NoText /\ d \notin hidden' => mem.src[d].rev = job.page[d]
      BY <1>1, <2>2 DEF Hides
    <3>3. QED
      BY <1>1, <2>2, <3>1, <3>2 DEF CertInv, Certified, provider
  <2>3. QED
    BY <2>1, <2>2
<1>5. QED
  BY <1>2, <1>3, <1>4 DEF CertInv

LEMMA CertStep == TypeInv /\ CertInv /\ [Next]_vars => CertInv'
<1> SUFFICES ASSUME TypeInv, CertInv, [Next]_vars
             PROVE  CertInv'
  OBVIOUS
<1>a. TypeOK /\ JobOK
  BY DEF TypeInv
<1>b. Revisions /\ InHand /\ Certified(state) /\ Certified(mem)
  BY DEF CertInv
<1>c. ASSUME UNCHANGED <<provider, state, mem, job, learned, hidden>> PROVE CertInv'
  BY <1>b, <1>c DEF CertInv, Revisions, InHand, Certified, provider
<1>1. ASSUME NEW d \in Docs, Change(d) PROVE CertInv'
  <2>1. /\ changes' = changes + 1 /\ changes \in Nat
        /\ remote'[d].rev = changes' /\ remote'[d].text # NoText
        /\ \A e \in Docs \ {d} : remote'[e] = remote[e]
        /\ UNCHANGED <<feed, queue, files, mem, job, loop, closing, ghosts, budgets>>
    BY <1>1, <1>a, <1>b, ChangeParts
  <2>2. \A e \in Docs : remote[e].rev \in Nat /\ remote[e].rev <= changes
    BY <1>a, <1>b, MemoryParts, RevsParts DEF Revisions
  <2>3. Revisions'
    <3>1. \A e \in Docs : remote'[e].rev <= changes'
      BY <2>1, <2>2
    <3>2. \A e \in Docs : remote'[e].there \/ remote'[e].rev > 0 => remote'[e].text # NoText
      BY <1>b, <2>1 DEF Revisions
    <3>3. \A e \in DOMAIN job'.page : job'.page[e] <= remote'[e].rev
      <4>1. \A e \in DOMAIN job.page : e \in Docs /\ job.page[e] \in Nat /\ job.page[e] <= remote[e].rev
        BY <1>a, <1>b, RevsParts DEF TypeOK, JobOK, Revisions
      <4>2. QED
        BY <2>1, <2>2, <4>1
    <3>4. job'.pc \in {"read", "distill", "landed"} => job'.rev <= remote'[job'.at].rev
      <4>1. job.pc \in {"read", "distill", "landed"} =>
              job.at \in Docs /\ job.rev \in Nat /\ job.rev <= remote[job.at].rev
        BY <1>a, <1>b, RevsParts DEF TypeOK, JobOK, Revisions, Fetching
      <4>2. QED
        BY <2>1, <2>2, <4>1
    <3>5. QED
      BY <3>1, <3>2, <3>3, <3>4 DEF Revisions
  <2>4. InHand'
    <3>1. job.pc \in {"distill", "landed"} =>
            job.at \in Docs /\ job.rev \in Nat /\ job.rev <= remote[job.at].rev
      BY <1>a, <1>b, RevsParts DEF TypeOK, JobOK, Revisions, Fetching
    <3>2. QED
      BY <1>b, <2>1, <2>2, <3>1 DEF InHand, ghosts
  <2>5. Certified(state)' /\ Certified(mem)'
    <3>1. \A e \in Docs : state.src[e].rev \in Nat /\ mem.src[e].rev \in Nat
      BY <1>a, MemoryParts, RevsParts
    <3>2. QED
      BY <1>b, <2>1, <2>2, <3>1 DEF Certified, files, ghosts
  <2>6. QED
    BY <2>3, <2>4, <2>5 DEF CertInv
<1>2. ASSUME NEW e \in Events, Accept(e) PROVE CertInv'
  BY <1>2, <1>c DEF Accept, files, ghosts
<1>3. CASE Poll
  BY <1>3, <1>c DEF Poll, files, ghosts
<1>4. CASE CycleStarts
  <2>1. /\ job'.pc \in {"page", "discover"}
        /\ DOMAIN job'.page \subseteq Docs
        /\ \A d \in DOMAIN job'.page : job'.page[d] \in {state.src[d].rev, 0}
        /\ mem' = state
        /\ UNCHANGED <<provider, files, ghosts>>
    BY <1>4, <1>a, CycleStartsParts
  <2>2. \A d \in DOMAIN job'.page : job'.page[d] <= remote[d].rev
    BY <1>a, <1>b, <2>1, RevisionsAreNumbers DEF Certified
  <2>3. Revisions' /\ InHand'
    BY <1>b, <2>1, <2>2 DEF Revisions, InHand, provider
  <2>4. Certified(state)' /\ Certified(mem)'
    BY <1>b, <2>1 DEF Certified, provider, files, ghosts
  <2>5. QED
    BY <2>3, <2>4 DEF CertInv
<1>5. CASE Acknowledge
  BY <1>5, <1>c DEF Acknowledge, files
<1>6. CASE Close
  BY <1>6, <1>c DEF Close, files, ghosts
<1>7. CASE Crash
  <2>1. job' = NoJob /\ mem' = state /\ UNCHANGED <<provider, state, learned, hidden>>
    BY <1>7 DEF Crash, files, ghosts
  <2>2. Revisions' /\ InHand'
    BY <1>b, <2>1, NoJobParts DEF Revisions, InHand, provider
  <2>3. Certified(state)' /\ Certified(mem)'
    BY <1>b, <2>1 DEF Certified, provider
  <2>4. QED
    BY <2>2, <2>3 DEF CertInv
<1>8. CASE Discover
  <2>1. job.pc = "discover" /\ UNCHANGED <<provider, learned, hidden>>
    BY <1>8 DEF Discover
  <2>2. CASE Aborts
    BY <2>1, <2>2, AbortsCertified
  <2>3. CASE Found(Listed, 0)
    <3>1. \A d \in DOMAIN Listed : Listed[d] <= remote[d].rev
      BY <1>a, ListedParts, RevisionsAreNumbers
    <3>2. QED
      BY <1>a, <2>1, <2>3, <3>1, ListedParts, FoundCertified
  <2>4. CASE Found(Changed, changes)
    <3>1. \A d \in DOMAIN Changed : Changed[d] <= remote[d].rev
      BY <1>a, <1>b, ChangedParts, RevisionsAreNumbers DEF Certified
    <3>2. QED
      BY <1>a, <2>1, <2>4, <3>1, ChangedParts, FoundCertified
  <2>5. CASE /\ job' = [job EXCEPT !.pc = "list", !.token = changes]
             /\ UNCHANGED <<files, mem, loop, served, failures>>
    <3>1. job'.pc = "list" /\ job'.page = job.page
      BY <1>a, <2>5, Zenon DEF JobOK, JobFields
    <3>2. Revisions' /\ InHand'
      BY <1>b, <2>1, <3>1 DEF Revisions, InHand, provider
    <3>3. Certified(state)' /\ Certified(mem)'
      BY <1>b, <2>1, <2>5 DEF Certified, provider, files
    <3>4. QED
      BY <3>2, <3>3 DEF CertInv
  <2>6. QED
    BY <1>8, <2>2, <2>3, <2>4, <2>5 DEF Discover
<1>9. CASE List
  <2>1. job.pc = "list" /\ UNCHANGED <<provider, learned, hidden>>
    BY <1>9 DEF List
  <2>2. CASE Aborts
    BY <2>1, <2>2, AbortsCertified
  <2>3. CASE Found(Listed, job.token)
    <3>1. \A d \in DOMAIN Listed : Listed[d] <= remote[d].rev
      BY <1>a, ListedParts, RevisionsAreNumbers
    <3>2. QED
      BY <1>a, <2>1, <2>3, <3>1, ListedParts, FoundCertified
  <2>4. QED
    BY <1>9, <2>2, <2>3 DEF List
<1>10. ASSUME NEW d \in Docs, RecordUnavailable(d) PROVE CertInv'
  <2>1. UNCHANGED <<provider, learned, hidden>>
    BY <1>10 DEF RecordUnavailable
  <2>2. CASE Aborts
    BY <2>1, <2>2, AbortsCertified
  <2>3. CASE UNCHANGED <<state, mem, job>>
    BY <1>c, <2>1, <2>3
  <2>4. QED
    BY <1>10, <2>2, <2>3 DEF RecordUnavailable
<1>11. ASSUME NEW d \in Docs, MarkUnavailable(d) PROVE CertInv'
  <2>1. /\ state' = mem' /\ job' = job /\ job.pc = "page"
        /\ \A e \in Docs : mem'.src[e].rev = mem.src[e].rev /\ mem'.src[e].hash = mem.src[e].hash
        /\ UNCHANGED <<provider, ghosts>>
    BY <1>11, <1>a, MarkUnavailableParts
  <2>2. Revisions' /\ InHand'
    BY <1>b, <2>1 DEF Revisions, InHand, provider
  <2>3. Certified(state)' /\ Certified(mem)'
    BY <1>b, <2>1 DEF Certified, provider, ghosts
  <2>4. QED
    BY <2>2, <2>3 DEF CertInv
<1>12. CASE RunsOut
  <2>1. /\ job.pc = "page" /\ job'.pc = "page" /\ job'.page = job.page
        /\ UNCHANGED <<provider, files, mem, ghosts>>
    BY <1>12, <1>a, RunsOutParts DEF Kept
  <2>2. Revisions' /\ InHand'
    BY <1>b, <2>1 DEF Revisions, InHand, provider
  <2>3. Certified(state)' /\ Certified(mem)'
    BY <1>b, <2>1 DEF Certified, provider, files, ghosts
  <2>4. QED
    BY <2>2, <2>3 DEF CertInv
<1>13. ASSUME NEW d \in Docs, Consider(d) PROVE CertInv'
  <2>1. /\ job'.pc \in {"page", "fetch"} /\ job'.page = job.page
        /\ mem' = mem /\ state' \in {mem, state}
        /\ UNCHANGED <<provider, ghosts>>
    BY <1>13, <1>a, ConsiderParts DEF Kept
  <2>2. Revisions' /\ InHand'
    BY <1>b, <2>1 DEF Revisions, InHand, provider
  <2>3. Certified(state)' /\ Certified(mem)'
    BY <1>b, <2>1 DEF Certified, provider, ghosts
  <2>4. QED
    BY <2>2, <2>3 DEF CertInv
<1>14. CASE FetchPage
  <2>1. /\ job.pc = "fetch" /\ job'.pc = "read" /\ job'.page = job.page /\ job'.at = job.at
        /\ job'.rev = IF feed THEN job.page[job.at] ELSE remote[job.at].rev
        /\ UNCHANGED <<provider, files, mem, ghosts>>
    BY <1>14, <1>a, FetchPageParts DEF Kept
  <2>2. job.at \in DOMAIN job.page /\ job.at \in Docs
    BY <1>a, <2>1 DEF JobOK, TypeOK, Fetching
  <2>3. job'.rev <= remote[job.at].rev
    BY <1>a, <1>b, <2>1, <2>2, RevisionsAreNumbers DEF Revisions
  <2>4. Revisions' /\ InHand'
    BY <1>b, <2>1, <2>3 DEF Revisions, InHand, provider
  <2>5. Certified(state)' /\ Certified(mem)'
    BY <1>b, <2>1 DEF Certified, provider, files, ghosts
  <2>6. QED
    BY <2>4, <2>5 DEF CertInv
<1>15. CASE FetchFailed
  <2>1. job.pc \in Fetching /\ UNCHANGED provider
    BY <1>15 DEF FetchFailed, Fetching
  <2>2. PICK ds \in {{job.at}, {job.at} \cup job.todo} : FetchFails(ds)
    BY <1>15 DEF FetchFailed
  <2>3. ds \in SUBSET DOMAIN job.page
    BY <1>a, <2>1 DEF JobOK
  <2>4. QED
    BY <2>1, <2>2, <2>3, FetchFailsCertified
<1>16. CASE Fetched
  <2>1. /\ job.pc = "read" /\ remote[job.at].rev > 0 /\ job.at \in Docs
        /\ \/ FetchFails({job.at})
           \/ Took(job.at)
        /\ UNCHANGED provider
    BY <1>16, <1>a, FetchedParts
  <2>2. CASE FetchFails({job.at})
    <3>1. {job.at} \in SUBSET DOMAIN job.page
      BY <1>a, <2>1 DEF JobOK, Fetching
    <3>2. QED
      BY <2>1, <2>2, <3>1, FetchFailsCertified
  <2>3. CASE Took(job.at)
    <3> DEFINE d == job.at
    <3>1. /\ job'.page = job.page /\ job'.at = d /\ job'.rev = job.rev
          /\ state' = mem' /\ \A e \in Docs \ {d} : mem'.src[e] = mem.src[e]
          /\ mem'.src[d].rev = job.rev /\ mem'.src[d].available = TRUE
          /\ hidden' = hidden \ {d} /\ learned' = learned
      BY <2>3 DEF Took, Kept
    <3>2. \/ /\ job'.pc = "page" /\ mem.src[d].hash = remote[d].text
             /\ mem'.src[d].hash = remote[d].text
          \/ /\ job'.pc = "distill" /\ job'.text = remote[d].text
             /\ mem'.src[d].hash = NoText
      BY <2>3 DEF Took
    <3>3. Revisions'
      BY <1>b, <2>1, <3>1, <3>2 DEF Revisions, provider
    <3>4. InHand'
      BY <1>b, <2>1, <3>1, <3>2 DEF InHand, Revisions, provider
    <3>5. job.rev <= remote[d].rev
      BY <1>b, <2>1 DEF Revisions
    <3>6. Certified(mem)'
      <4> SUFFICES ASSUME NEW e \in Docs
                   PROVE  /\ mem'.src[e].rev <= remote'[e].rev
                          /\ mem'.src[e].hash # NoText => mem'.src[e].hash \in learned'[e]
                          /\ remote'[e].there /\ mem'.src[e].rev = remote'[e].rev
                             /\ mem'.src[e].hash # NoText
                               => mem'.src[e].hash = remote'[e].text \/ e \in hidden'
        BY DEF Certified
      <4>1. CASE e # d
        BY <1>b, <2>1, <3>1, <4>1 DEF Certified, provider
      <4>2. CASE e = d
        BY <1>b, <2>1, <3>1, <3>2, <3>5, <4>2 DEF Certified, provider
      <4>3. QED
        BY <4>1, <4>2
    <3>7. Certified(state)'
      BY <3>1, <3>6 DEF Certified
    <3>8. QED
      BY <3>3, <3>4, <3>6, <3>7 DEF CertInv
  <2>4. QED
    BY <2>1, <2>2, <2>3
<1>17. CASE Distill
  <2>1. /\ job.pc = "distill" /\ job.at \in Docs
        /\ job'.page = job.page /\ job'.at = job.at /\ job'.rev = job.rev /\ job'.text = job.text
        /\ \/ /\ job'.pc = "landed"
              /\ learned' = [learned EXCEPT ![job.at] = @ \cup {job.text}]
           \/ job'.pc = "page" /\ learned' = learned
        /\ UNCHANGED <<provider, files, mem, hidden>>
    BY <1>17, <1>a, DistillParts DEF Kept
  <2>2. \A d \in Docs : learned[d] \subseteq learned'[d]
    BY <1>a, <2>1 DEF TypeOK
  <2>3. job'.pc = "landed" => job.text \in learned'[job.at]
    BY <1>a, <2>1 DEF TypeOK
  <2>4. Revisions'
    BY <1>b, <2>1 DEF Revisions, provider
  <2>5. InHand'
    BY <1>b, <2>1, <2>3 DEF InHand, provider
  <2>6. Certified(state)' /\ Certified(mem)'
    BY <1>b, <2>1, <2>2 DEF Certified, provider, files
  <2>7. QED
    BY <2>4, <2>5, <2>6 DEF CertInv
<1>18. CASE Distilled
  <2> DEFINE d == job.at
  <2>1. /\ job.pc = "landed" /\ d \in Docs /\ job'.pc = "page" /\ job'.page = job.page
        /\ state' = mem' /\ \A e \in Docs \ {d} : mem'.src[e] = mem.src[e]
        /\ mem'.src[d].hash = job.text /\ mem'.src[d].rev = mem.src[d].rev
        /\ UNCHANGED <<provider, ghosts>>
    BY <1>18, <1>a, DistilledParts DEF Kept
  <2>2. /\ mem.src[d].rev = job.rev /\ job.text \in learned[d]
        /\ remote[d].rev = job.rev => job.text = remote[d].text
    BY <1>b, <2>1 DEF InHand
  <2>3. Revisions' /\ InHand'
    BY <1>b, <2>1 DEF Revisions, InHand, provider
  <2>4. Certified(mem)'
    <3> SUFFICES ASSUME NEW e \in Docs
                 PROVE  /\ mem'.src[e].rev <= remote'[e].rev
                        /\ mem'.src[e].hash # NoText => mem'.src[e].hash \in learned'[e]
                        /\ remote'[e].there /\ mem'.src[e].rev = remote'[e].rev
                           /\ mem'.src[e].hash # NoText
                             => mem'.src[e].hash = remote'[e].text \/ e \in hidden'
      BY DEF Certified
    <3>1. CASE e # d
      BY <1>b, <2>1, <3>1 DEF Certified, provider, ghosts
    <3>2. CASE e = d
      BY <1>b, <2>1, <2>2, <3>2 DEF Certified, provider, ghosts
    <3>3. QED
      BY <3>1, <3>2
  <2>5. Certified(state)'
    BY <2>1, <2>4 DEF Certified
  <2>6. QED
    BY <2>3, <2>4, <2>5 DEF CertInv
<1>19. CASE Finish
  <2>1. /\ mem'.src = mem.src /\ state' = mem' /\ job' = NoJob
        /\ UNCHANGED <<provider, learned, hidden>>
    BY <1>19, <1>a, FinishParts DEF Ends
  <2>2. Revisions' /\ InHand'
    BY <1>b, <2>1, NoJobParts DEF Revisions, InHand, provider
  <2>3. Certified(state)' /\ Certified(mem)'
    BY <1>b, <2>1 DEF Certified, provider
  <2>4. QED
    BY <2>2, <2>3 DEF CertInv
<1>20. CASE UNCHANGED vars
  BY <1>20, <1>c DEF vars, files, ghosts
<1>21. QED
  BY <1>1, <1>2, <1>3, <1>4, <1>5, <1>6, <1>7, <1>8, <1>9, <1>10, <1>11, <1>12, <1>13, <1>14, <1>15, <1>16, <1>17, <1>18, <1>19, <1>20 DEF Next, Run, Reconcile

LEMMA CertInvariant == Spec => []CertInv
<1>1. Init => CertInv
  <2> SUFFICES ASSUME Init PROVE CertInv
    OBVIOUS
  <2>1. /\ \A d \in Docs : state.src[d] = Unknown /\ mem.src[d] = Unknown
        /\ \A d \in Docs : remote[d].rev = 0 /\ remote[d].there = FALSE
        /\ changes = 0 /\ job = NoJob
    BY DEF Init
  <2>2. Unknown.rev = 0 /\ Unknown.hash = NoText
    BY DEF Unknown
  <2>3. QED
    BY <2>1, <2>2, NoJobParts DEF CertInv, Revisions, InHand, Certified
<1>2. QED
  BY <1>1, CertStep, TypeInvariant, PTL DEF Spec

\* A hash on record is of a text that was distilled, and at the provider's own
\* revision it is that of the provider's own text, unless the source is hidden.
THEOREM CertifiedUnlessHiddenHolds == Spec => []CertifiedUnlessHidden
<1>1. CertInv => CertifiedUnlessHidden
  BY DEF CertInv, Certified, CertifiedUnlessHidden
<1>2. QED
  BY <1>1, CertInvariant, PTL

------------------------------------------------------------------------------
(***************************************************************************)
(* The cursor.                                                             *)
(***************************************************************************)
LEMMA CursorsAreNumbers ==
  ASSUME TypeOK
  PROVE  /\ {mem.cursor, state.cursor, job.token, changes, job.rev} \subseteq Nat
         /\ \A d \in Docs : remote[d].rev \in Nat
<1>1. \A d \in Docs : remote[d].rev \in Nat
  BY RevisionsAreNumbers
<1>2. {mem.cursor, state.cursor, job.token, changes, job.rev} \subseteq Nat
  BY RevsParts DEF TypeOK, Memory
<1>3. QED
  BY <1>1, <1>2

\* A cursor is that of a feed, and such a reconciliation serves no single document.
LEMMA OnlyFeeds ==
  ASSUME TypeInv, CursorInv, mem.cursor > 0 \/ state.cursor > 0 \/ job.token > 0
  PROVE  feed /\ ~job.targeted
BY CursorsAreNumbers DEF TypeInv, TypeOK, QueueOK, CursorInv, Cursors

\* What changed up to the cursor is on the page as it is in the file.
LEMMA UpToPage ==
  ASSUME TypeInv, CursorInv, job.pc \in Fetching \cup {"page"}, mem.cursor > 0,
         NEW d \in Docs, remote[d].rev <= mem.cursor
  PROVE  /\ feed /\ remote[d].rev <= job.token /\ Reflects(mem, d)
         /\ d \in DOMAIN job.page <=> remote[d].there
         /\ d \in DOMAIN job.page => job.page[d] = remote[d].rev
<1>1. feed
  BY OnlyFeeds
<1>2. mem.cursor <= job.token
  BY <1>1 DEF CursorInv, Ahead
<1>3. remote[d].rev <= job.token
  BY <1>2, CursorsAreNumbers DEF TypeInv
<1>4. QED
  BY <1>1, <1>3 DEF CursorInv, Paged, UpTo

\* A reconciliation that is over leaves nothing to show but the file.
LEMMA OverHonest ==
  ASSUME TypeInv, CursorInv, job' = NoJob, mem' = state, state' = state,
         UNCHANGED provider
  PROVE  CursorInv'
<1>1. Paged' /\ Ahead'
  BY NoJobParts DEF Paged, Ahead, Fetching
<1>2. Cursors'
  <2>1. 0 \in 0 .. changes
    BY CursorsAreNumbers DEF TypeInv
  <2>2. QED
    BY <2>1, NoJobParts DEF CursorInv, Cursors, provider
<1>3. UpTo(state)' /\ UpTo(mem)'
  BY DEF CursorInv, UpTo, Reflects, provider
<1>4. QED
  BY <1>1, <1>2, <1>3 DEF CursorInv

\* A page is honest that shows what the provider showed at its token.
LEMMA FoundHonest ==
  ASSUME TypeInv, CursorInv, NEW page, NEW token \in 0 .. changes, Found(page, token),
         \A d \in DOMAIN page : page[d] \in Revs,
         ~feed => token = 0,
         feed => mem.cursor <= token,
         feed => \A d \in Docs : remote[d].rev <= token =>
                   /\ d \in DOMAIN page <=> remote[d].there
                   /\ d \in DOMAIN page => page[d] = remote[d].rev,
         UNCHANGED provider
  PROVE  CursorInv'
<1>1. /\ job'.pc = "page" /\ job'.page = page /\ job'.todo = DOMAIN page
      /\ job'.token = token /\ mem'.cursor = mem.cursor
      /\ \A d \in Docs :
           mem'.src[d] = IF feed /\ d \in DOMAIN page /\ mem.src[d] = Unknown
                         THEN [rev |-> page[d], hash |-> NoText, available |-> TRUE]
                         ELSE mem.src[d]
      /\ state' = state
  BY FoundParts DEF TypeInv, files
<1>2. Cursors'
  BY <1>1 DEF CursorInv, Cursors, provider
<1>3. Paged'
  BY <1>1 DEF Paged, provider
<1>4. Ahead'
  BY <1>1 DEF Ahead, Fetching, provider
<1>5. UpTo(state)'
  BY <1>1 DEF CursorInv, UpTo, Reflects, provider
<1>6. UpTo(mem)'
  <2> SUFFICES ASSUME mem'.cursor > 0, NEW d \in Docs, remote'[d].rev <= mem'.cursor
               PROVE  Reflects(mem, d)'
    BY DEF UpTo
  <2>1. mem.cursor > 0 /\ remote[d].rev <= mem.cursor /\ feed
    BY <1>1, OnlyFeeds DEF provider
  <2>2. Reflects(mem, d)
    BY <2>1 DEF CursorInv, UpTo
  <2>3. remote[d].rev <= token
    BY <2>1, CursorsAreNumbers DEF TypeInv
  <2>4. mem.src[d] = Unknown => d \notin DOMAIN page
    BY <2>1, <2>2, <2>3 DEF Reflects, Unknown
  <2>5. mem'.src[d] = mem.src[d]
    BY <1>1, <2>4
  <2>6. QED
    BY <2>2, <2>5 DEF Reflects, provider
<1>7. QED
  BY <1>2, <1>3, <1>4, <1>5, <1>6 DEF CursorInv

\* A failed fetch takes nothing from what is known up to the cursor.
LEMMA FetchFailsHonest ==
  ASSUME TypeInv, CursorInv, NEW ds \in SUBSET DOMAIN job.page, FetchFails(ds),
         job.pc \in Fetching, UNCHANGED provider
  PROVE  CursorInv'
<1>1. /\ job'.pc = "page" /\ job'.page = job.page /\ job'.token = job.token
      /\ job'.failed = TRUE /\ mem'.cursor = mem.cursor /\ state' = state
      /\ \A d \in Docs : d \notin ds => mem'.src[d] = mem.src[d]
      /\ \A d \in ds : /\ mem'.src[d].rev = job.page[d]
                       /\ mem'.src[d].hash = mem.src[d].hash
                       /\ mem.src[d] # Unknown =>
                            mem'.src[d].available = mem.src[d].available
  BY FetchFailsParts DEF TypeInv, Kept
<1>2. Cursors'
  BY <1>1 DEF CursorInv, Cursors, provider
<1>3. Paged'
  BY <1>1 DEF CursorInv, Paged, provider
<1>4. Ahead'
  BY <1>1 DEF CursorInv, Ahead, Fetching, provider
<1>5. UpTo(state)'
  BY <1>1 DEF CursorInv, UpTo, Reflects, provider
<1>6. UpTo(mem)'
  <2> SUFFICES ASSUME mem'.cursor > 0, NEW d \in Docs, remote'[d].rev <= mem'.cursor
               PROVE  Reflects(mem, d)'
    BY DEF UpTo
  <2>1. /\ Reflects(mem, d)
        /\ d \in DOMAIN job.page <=> remote[d].there
        /\ d \in DOMAIN job.page => job.page[d] = remote[d].rev
    BY <1>1, UpToPage DEF provider
  <2>2. CASE d \notin ds
    BY <1>1, <2>1, <2>2 DEF Reflects, provider
  <2>3. CASE d \in ds
    <3>1. mem.src[d].hash # NoText
      BY <2>1, <2>3 DEF Reflects
    <3>2. mem.src[d] # Unknown
      BY <3>1 DEF Unknown
    <3>3. QED
      BY <1>1, <2>1, <2>3, <3>2 DEF Reflects, provider
  <2>4. QED
    BY <2>2, <2>3
<1>7. QED
  BY <1>2, <1>3, <1>4, <1>5, <1>6 DEF CursorInv

\* Of the source in hand the cursor says nothing, and of the others nothing new
\* is told: so the file that is written is honest, if the page is.
LEMMA HandledHonest ==
  ASSUME TypeInv, CursorInv, job.pc \in {"read", "landed"}, UNCHANGED provider,
         mem'.cursor = mem.cursor, state' = mem',
         \A d \in Docs \ {job.at} : mem'.src[d] = mem.src[d],
         Kept({"page", "todo", "at", "rev", "token", "failed"}),
         job'.pc \in {"distill", "page"},
         job'.pc = "page" /\ feed /\ remote[job.at].rev <= job.token => Reflects(mem, job.at)'
  PROVE  CursorInv'
<1>1. /\ job'.page = job.page /\ job'.todo = job.todo /\ job'.at = job.at
      /\ job'.rev = job.rev /\ job'.token = job.token /\ job'.failed = job.failed
  BY DEF Kept
<1>2. Cursors'
  BY <1>1 DEF CursorInv, Cursors, provider
<1>3. job.at \in Docs
  BY DEF TypeInv, TypeOK, JobOK, Fetching
<1>4. Paged'
  <2> SUFFICES ASSUME feed', NEW d \in Docs, remote'[d].rev <= job'.token
               PROVE  /\ d \in DOMAIN job'.page <=> remote'[d].there
                      /\ d \in DOMAIN job'.page => job'.page[d] = remote'[d].rev
                      /\ d \in DOMAIN job'.page \ job'.todo /\ ~job'.failed
                         /\ ~(job'.pc \in Fetching /\ d = job'.at) => Reflects(mem, d)'
    BY DEF Paged
  <2>1. /\ d \in DOMAIN job.page <=> remote[d].there
        /\ d \in DOMAIN job.page => job.page[d] = remote[d].rev
        /\ d \in DOMAIN job.page \ job.todo /\ ~job.failed /\ d # job.at => Reflects(mem, d)
    BY <1>1 DEF CursorInv, Paged, Fetching, provider
  <2>2. d # job.at /\ Reflects(mem, d) => Reflects(mem, d)'
    BY DEF Reflects, provider
  <2>3. d = job.at /\ ~(job'.pc \in Fetching) => Reflects(mem, d)'
    BY <1>1, Zenon DEF Fetching, provider
  <2>4. QED
    BY <1>1, <2>1, <2>2, <2>3 DEF provider
<1>5. Ahead'
  BY <1>1 DEF CursorInv, Ahead, Fetching, provider
<1>6. UpTo(mem)'
  <2> SUFFICES ASSUME mem'.cursor > 0, NEW d \in Docs, remote'[d].rev <= mem'.cursor
               PROVE  Reflects(mem, d)'
    BY DEF UpTo
  <2>1. mem.cursor > 0 /\ remote[d].rev <= mem.cursor /\ Reflects(mem, d) /\ feed
    BY OnlyFeeds DEF CursorInv, UpTo, provider
  <2>2. remote[job.at].rev > mem.cursor
    BY <2>1 DEF CursorInv, Ahead, Fetching
  <2>3. d # job.at
    BY <2>1, <2>2, <1>3, CursorsAreNumbers DEF TypeInv
  <2>4. QED
    BY <2>1, <2>3 DEF Reflects, provider
<1>7. UpTo(state)'
  BY <1>6 DEF UpTo, Reflects
<1>8. QED
  BY <1>2, <1>4, <1>5, <1>6, <1>7 DEF CursorInv

LEMMA CursorStep == TypeInv /\ CertInv /\ CursorInv /\ [Next]_vars => CursorInv'
<1> SUFFICES ASSUME TypeInv, CertInv, CursorInv, [Next]_vars
             PROVE  CursorInv'
  OBVIOUS
<1>a. TypeOK /\ JobOK /\ QueueOK
  BY DEF TypeInv
<1>b. Cursors /\ Paged /\ Ahead /\ UpTo(state) /\ UpTo(mem)
  BY DEF CursorInv
<1>c. ASSUME UNCHANGED <<provider, state, mem, job>> PROVE CursorInv'
  BY <1>b, <1>c DEF CursorInv, Cursors, Paged, Ahead, UpTo, Reflects, provider
<1>d. /\ {mem.cursor, state.cursor, job.token, changes, job.rev} \subseteq Nat
      /\ \A d \in Docs : remote[d].rev \in Nat
  BY <1>a, CursorsAreNumbers
<1>1. ASSUME NEW d \in Docs, Change(d) PROVE CursorInv'
  <2>1. /\ changes' = changes + 1 /\ remote'[d].rev = changes'
        /\ \A e \in Docs \ {d} : remote'[e] = remote[e]
        /\ UNCHANGED <<feed, files, mem, job>>
    BY <1>1, <1>a, ChangeParts DEF CertInv
  <2>2. Cursors'
    BY <1>b, <1>d, <2>1 DEF Cursors, files
  <2>3. \A n \in 0 .. changes : ~(remote'[d].rev <= n) /\ remote'[d].rev > n
    BY <1>d, <2>1
  <2>4. job.token \in 0 .. changes /\ mem.cursor \in 0 .. changes /\ state.cursor \in 0 .. changes
    BY <1>b DEF Cursors
  <2>5. Paged'
    BY <1>b, <2>1, <2>3, <2>4 DEF Paged, Reflects
  <2>6. Ahead'
    BY <1>a, <1>b, <2>1, <2>3, <2>4 DEF Ahead, Fetching, TypeOK, JobOK
  <2>7. UpTo(state)' /\ UpTo(mem)'
    BY <1>b, <2>1, <2>3, <2>4 DEF UpTo, Reflects, files
  <2>8. QED
    BY <2>2, <2>5, <2>6, <2>7 DEF CursorInv
<1>2. ASSUME NEW e \in Events, Accept(e) PROVE CursorInv'
  BY <1>2, <1>c DEF Accept, files
<1>3. CASE Poll
  BY <1>3, <1>c DEF Poll, files
<1>4. CASE CycleStarts
  <2>1. /\ job'.pc = IF job'.targeted THEN "page" ELSE "discover"
        /\ job'.targeted => \E i \in pending : i.hint # All
        /\ job'.token = 0 /\ mem' = state
        /\ UNCHANGED <<provider, files>>
    BY <1>4, <1>a, CycleStartsParts
  <2>2. feed' => job'.pc = "discover"
    BY <1>a, <2>1 DEF QueueOK, provider
  <2>3. Paged' /\ Ahead'
    BY <2>2 DEF Paged, Ahead, Fetching
  <2>4. Cursors'
    BY <1>b, <1>d, <2>1 DEF Cursors, files, provider
  <2>5. UpTo(state)' /\ UpTo(mem)'
    BY <1>b, <2>1 DEF UpTo, Reflects, files, provider
  <2>6. QED
    BY <2>3, <2>4, <2>5 DEF CursorInv
<1>5. CASE Acknowledge
  BY <1>5, <1>c DEF Acknowledge, files
<1>6. CASE Close
  BY <1>6, <1>c DEF Close, files
<1>7. CASE Crash
  BY <1>7, OverHonest DEF Crash, files
<1>8. ASSUME Aborts, UNCHANGED provider PROVE CursorInv'
  BY <1>8, OverHonest DEF Aborts, Ends, files
<1>9. \A n : feed => \A d \in Docs : remote[d].rev <= n =>
                /\ d \in DOMAIN Listed <=> remote[d].there
                /\ d \in DOMAIN Listed => Listed[d] = remote[d].rev
  BY <1>a, ListedParts
<1>10. CASE Discover
  <2>1. job.pc = "discover" /\ UNCHANGED provider
    BY <1>10 DEF Discover
  <2>2. CASE Aborts
    BY <1>8, <2>1, <2>2
  <2>3. CASE ~feed /\ Found(Listed, 0)
    <3>1. 0 \in 0 .. changes /\ \A d \in DOMAIN Listed : Listed[d] \in Revs
      BY <1>a, <1>d, ListedParts
    <3>2. QED
      BY <2>1, <2>3, <3>1, FoundHonest
  <2>4. CASE feed /\ mem.cursor > 0 /\ Found(Changed, changes)
    <3>1. \A d \in Docs : remote[d].rev <= changes =>
            /\ d \in DOMAIN Changed <=> remote[d].there
            /\ d \in DOMAIN Changed => Changed[d] = remote[d].rev
      <4> SUFFICES ASSUME NEW d \in Docs
                   PROVE  /\ d \in DOMAIN Changed <=> remote[d].there
                          /\ d \in DOMAIN Changed => Changed[d] = remote[d].rev
        OBVIOUS
      <4>1. CASE remote[d].rev > mem.cursor
        BY <1>a, <4>1, ChangedParts
      <4>2. CASE ~(remote[d].rev > mem.cursor)
        <5>1. Reflects(mem, d)
          BY <1>b, <1>d, <2>4, <4>2 DEF UpTo
        <5>2. d \in DOMAIN Changed <=> mem.src[d].available
          BY <1>a, <4>2, ChangedParts
        <5>3. d \in DOMAIN Changed => Changed[d] = mem.src[d].rev
          BY <1>a, <4>2, ChangedParts
        <5>4. QED
          BY <5>1, <5>2, <5>3 DEF Reflects
      <4>3. QED
        BY <4>1, <4>2
    <3>2. changes \in 0 .. changes /\ mem.cursor <= changes
      BY <1>b, <1>d DEF Cursors
    <3>3. \A d \in DOMAIN Changed : Changed[d] \in Revs
      BY <1>a, ChangedParts
    <3>4. QED
      BY <2>1, <2>4, <3>1, <3>2, <3>3, FoundHonest
  <2>5. CASE /\ feed
             /\ job' = [job EXCEPT !.pc = "list", !.token = changes]
             /\ UNCHANGED <<files, mem, loop, served, failures>>
    <3>1. job'.pc = "list" /\ job'.token = changes
      BY <1>a, <2>5, Zenon DEF JobOK, JobFields
    <3>2. Paged' /\ Ahead'
      BY <1>b, <1>d, <2>1, <2>5, <3>1 DEF Paged, Ahead, Fetching, Cursors
    <3>3. Cursors'
      BY <1>b, <1>d, <2>1, <2>5, <3>1 DEF Cursors, files, provider
    <3>4. UpTo(state)' /\ UpTo(mem)'
      BY <1>b, <2>1, <2>5 DEF UpTo, Reflects, files, provider
    <3>5. QED
      BY <3>2, <3>3, <3>4 DEF CursorInv
  <2>6. QED
    BY <1>10, <2>2, <2>3, <2>4, <2>5 DEF Discover
<1>11. CASE List
  <2>1. job.pc = "list" /\ UNCHANGED provider
    BY <1>11 DEF List
  <2>2. CASE Aborts
    BY <1>8, <2>1, <2>2
  <2>3. CASE Found(Listed, job.token)
    <3>1. /\ job.token \in 0 .. changes /\ \A d \in DOMAIN Listed : Listed[d] \in Revs
          /\ ~feed => job.token = 0
      BY <1>a, <1>b, ListedParts DEF Cursors
    <3>2. feed => mem.cursor <= job.token
      BY <1>b, <2>1 DEF Ahead
    <3>3. QED
      BY <1>9, <2>1, <2>3, <3>1, <3>2, FoundHonest
  <2>4. QED
    BY <1>11, <2>2, <2>3 DEF List
<1>12. ASSUME NEW d \in Docs, RecordUnavailable(d) PROVE CursorInv'
  <2>1. UNCHANGED provider
    BY <1>12 DEF RecordUnavailable
  <2>2. CASE Aborts
    BY <1>8, <2>1, <2>2
  <2>3. CASE UNCHANGED <<state, mem, job>>
    BY <1>c, <2>1, <2>3
  <2>4. QED
    BY <1>12, <2>2, <2>3 DEF RecordUnavailable
<1>13. ASSUME NEW d \in Docs, MarkUnavailable(d) PROVE CursorInv'
  <2>1. /\ job.pc = "page" /\ d \in Gone /\ state' = mem' /\ job' = job
        /\ mem'.cursor = mem.cursor
        /\ \A e \in Docs \ {d} : mem'.src[e] = mem.src[e]
        /\ mem'.src[d].available = FALSE
        /\ UNCHANGED provider
    BY <1>13, <1>a, MarkUnavailableParts
  <2>2. d \notin DOMAIN job.page
    BY <2>1 DEF Gone
  <2>3. Cursors'
    BY <1>b, <2>1 DEF Cursors, provider
  <2>4. Paged' /\ Ahead'
    BY <1>b, <2>1, <2>2 DEF Paged, Ahead, Reflects, provider
  <2>5. UpTo(mem)'
    <3> SUFFICES ASSUME mem'.cursor > 0, NEW e \in Docs, remote'[e].rev <= mem'.cursor
                 PROVE  Reflects(mem, e)'
      BY DEF UpTo
    <3>1. Reflects(mem, e) /\ (e \in DOMAIN job.page <=> remote[e].there)
      BY <2>1, UpToPage DEF provider
    <3>2. QED
      BY <2>1, <2>2, <3>1 DEF Reflects, provider
  <2>6. UpTo(state)'
    BY <2>1, <2>5 DEF UpTo, Reflects
  <2>7. QED
    BY <2>3, <2>4, <2>5, <2>6 DEF CursorInv
<1>14. CASE RunsOut
  <2>1. /\ job.pc = "page" /\ job'.pc = "page" /\ job'.failed = TRUE
        /\ job'.page = job.page /\ job'.token = job.token
        /\ UNCHANGED <<provider, files, mem>>
    BY <1>14, <1>a, RunsOutParts DEF Kept
  <2>2. Cursors' /\ Paged' /\ Ahead'
    BY <1>b, <2>1 DEF Cursors, Paged, Ahead, Fetching, files, provider
  <2>3. UpTo(state)' /\ UpTo(mem)'
    BY <1>b, <2>1 DEF UpTo, Reflects, files, provider
  <2>4. QED
    BY <2>2, <2>3 DEF CursorInv
<1>15. ASSUME NEW d \in Docs, Consider(d) PROVE CursorInv'
  <2>1. /\ job.pc = "page" /\ d \in job.todo /\ job'.todo = job.todo \ {d}
        /\ job'.page = job.page /\ job'.token = job.token /\ job'.failed = job.failed
        /\ mem' = mem
        /\ \/ /\ Current(d) /\ job'.pc = "page" /\ state' = mem
           \/ /\ ~Current(d) /\ job'.pc = "fetch" /\ job'.at = d
              /\ state' = state
        /\ UNCHANGED provider
    BY <1>15, <1>a, ConsiderParts DEF Kept
  <2>2. d \in DOMAIN job.page
    BY <1>a, <2>1 DEF JobOK
  <2>3. Cursors'
    BY <1>b, <2>1 DEF Cursors, provider
  <2>4. Paged'
    <3> SUFFICES ASSUME feed', NEW e \in Docs, remote'[e].rev <= job'.token
                 PROVE  /\ e \in DOMAIN job'.page <=> remote'[e].there
                        /\ e \in DOMAIN job'.page => job'.page[e] = remote'[e].rev
                        /\ e \in DOMAIN job'.page \ job'.todo /\ ~job'.failed
                           /\ ~(job'.pc \in Fetching /\ e = job'.at) => Reflects(mem, e)'
      BY DEF Paged
    <3>1. /\ e \in DOMAIN job.page <=> remote[e].there
          /\ e \in DOMAIN job.page => job.page[e] = remote[e].rev
          /\ e \in DOMAIN job.page \ job.todo /\ ~job.failed => Reflects(mem, e)
      BY <1>b, <2>1 DEF Paged, Fetching, provider
    <3>2. Current(e) /\ e \in DOMAIN job.page => Reflects(mem, e)
      BY <3>1 DEF Current, Reflects
    <3>3. Reflects(mem, e) => Reflects(mem, e)'
      BY <2>1 DEF Reflects, provider
    <3>4. CASE e # d
      BY <2>1, <3>1, <3>3, <3>4 DEF provider
    <3>5. CASE e = d
      BY <2>1, <2>2, <3>1, <3>2, <3>3, <3>5 DEF provider, Fetching
    <3>6. QED
      BY <3>4, <3>5
  <2>5. Ahead'
    <3>1. ASSUME feed, ~Current(d), mem.cursor > 0 PROVE remote[d].rev > mem.cursor
      <4> SUFFICES ASSUME ~(remote[d].rev > mem.cursor) PROVE FALSE
        OBVIOUS
      <4>1. remote[d].rev <= mem.cursor
        BY <1>d
      <4>2. /\ Reflects(mem, d)
            /\ d \in DOMAIN job.page <=> remote[d].there
            /\ d \in DOMAIN job.page => job.page[d] = remote[d].rev
        BY <2>1, <3>1, <4>1, UpToPage
      <4>3. QED
        BY <1>a, <2>2, <3>1, <4>2 DEF Reflects, Current, QueueOK
    <3>2. mem.cursor <= job.token \/ ~feed
      BY <1>b, <2>1 DEF Ahead
    <3>3. QED
      BY <2>1, <3>1, <3>2 DEF Ahead, Fetching, provider
  <2>6. UpTo(state)' /\ UpTo(mem)'
    BY <1>b, <2>1 DEF UpTo, Reflects, provider
  <2>7. QED
    BY <2>3, <2>4, <2>5, <2>6 DEF CursorInv
<1>16. CASE FetchPage
  <2>1. /\ job.pc = "fetch" /\ job'.pc = "read"
        /\ job'.rev = IF feed THEN job.page[job.at] ELSE remote[job.at].rev
        /\ job'.page = job.page /\ job'.at = job.at /\ job'.todo = job.todo
        /\ job'.token = job.token /\ job'.failed = job.failed
        /\ UNCHANGED <<provider, files, mem>>
    BY <1>16, <1>a, FetchPageParts DEF Kept
  <2>2. Cursors' /\ Ahead'
    BY <1>b, <2>1 DEF Cursors, Ahead, Fetching, files, provider
  <2>3. Paged'
    BY <1>b, <2>1 DEF Paged, Fetching, Reflects, provider
  <2>4. UpTo(state)' /\ UpTo(mem)'
    BY <1>b, <2>1 DEF UpTo, Reflects, files, provider
  <2>5. QED
    BY <2>2, <2>3, <2>4 DEF CursorInv
<1>17. CASE FetchFailed
  <2>1. job.pc \in Fetching /\ UNCHANGED provider
    BY <1>17 DEF FetchFailed, Fetching
  <2>2. PICK ds \in {{job.at}, {job.at} \cup job.todo} : FetchFails(ds)
    BY <1>17 DEF FetchFailed
  <2>3. ds \in SUBSET DOMAIN job.page
    BY <1>a, <2>1 DEF JobOK
  <2>4. QED
    BY <2>1, <2>2, <2>3, FetchFailsHonest
<1>18. CASE Fetched
  <2>1. /\ job.pc = "read" /\ job.at \in Docs
        /\ \/ FetchFails({job.at})
           \/ Took(job.at)
        /\ UNCHANGED provider
    BY <1>18, <1>a, FetchedParts
  <2>2. job.pc \in Fetching /\ job.at \in DOMAIN job.page
    BY <1>a, <2>1 DEF JobOK, Fetching
  <2>3. CASE FetchFails({job.at})
    <3>1. {job.at} \in SUBSET DOMAIN job.page
      BY <2>2
    <3>2. QED
      BY <2>1, <2>2, <2>3, <3>1, FetchFailsHonest
  <2>4. CASE Took(job.at)
    <3> DEFINE d == job.at
    <3>1. /\ Kept({"page", "todo", "at", "rev", "token", "failed"}) /\ job'.at = d
          /\ mem'.cursor = mem.cursor /\ state' = mem'
          /\ \A e \in Docs \ {d} : mem'.src[e] = mem.src[e]
          /\ mem'.src[d].rev = job.rev /\ mem'.src[d].available = TRUE
          /\ job'.pc \in {"distill", "page"}
          /\ job'.pc = "page" => mem'.src[d].hash = remote[d].text
      BY <2>4 DEF Took, Kept
    <3>2. ASSUME job'.pc = "page", feed, remote[d].rev <= job.token
          PROVE  Reflects(mem, d)'
      <4>1. job.page[d] = remote[d].rev /\ remote[d].there /\ job.rev = job.page[d]
        BY <1>b, <2>1, <2>2, <3>2 DEF Paged, Ahead
      <4>2. remote[d].text # NoText
        BY <2>1, <4>1 DEF CertInv, Revisions
      <4>3. QED
        BY <2>1, <3>1, <3>2, <4>1, <4>2 DEF Reflects, provider
    <3>3. QED
      BY <2>1, <3>1, <3>2, HandledHonest
  <2>5. QED
    BY <2>1, <2>3, <2>4
<1>19. CASE Distill
  <2>1. /\ job.pc = "distill" /\ job'.pc \in {"landed", "page"}
        /\ job'.pc = "page" => job'.failed = TRUE
        /\ job'.pc = "landed" => job'.failed = job.failed
        /\ job'.page = job.page /\ job'.at = job.at /\ job'.todo = job.todo
        /\ job'.token = job.token /\ job'.rev = job.rev
        /\ UNCHANGED <<provider, files, mem>>
    BY <1>19, <1>a, DistillParts DEF Kept
  <2>2. Cursors' /\ Ahead'
    BY <1>b, <2>1 DEF Cursors, Ahead, Fetching, files, provider
  <2>3. Paged'
    BY <1>b, <2>1 DEF Paged, Fetching, Reflects, provider
  <2>4. UpTo(state)' /\ UpTo(mem)'
    BY <1>b, <2>1 DEF UpTo, Reflects, files, provider
  <2>5. QED
    BY <2>2, <2>3, <2>4 DEF CursorInv
<1>20. CASE Distilled
  <2> DEFINE d == job.at
  <2>1. /\ job.pc = "landed" /\ d \in Docs /\ job'.pc = "page"
        /\ Kept({"page", "todo", "at", "rev", "token", "failed"}) /\ job'.at = d
        /\ mem'.cursor = mem.cursor /\ state' = mem'
        /\ \A e \in Docs \ {d} : mem'.src[e] = mem.src[e]
        /\ mem'.src[d].hash = job.text
        /\ mem'.src[d].rev = mem.src[d].rev
        /\ mem'.src[d].available = mem.src[d].available
        /\ UNCHANGED provider
    BY <1>20, <1>a, DistilledParts DEF Kept
  <2>2. d \in DOMAIN job.page
    BY <1>a, <2>1 DEF JobOK, Fetching
  <2>3. ASSUME feed, remote[d].rev <= job.token PROVE Reflects(mem, d)'
    <3>1. job.page[d] = remote[d].rev /\ remote[d].there /\ job.rev = job.page[d]
      BY <1>b, <2>1, <2>2, <2>3 DEF Paged, Ahead, Fetching
    <3>2. mem.src[d].rev = job.rev /\ mem.src[d].available /\ job.text # NoText
      BY <2>1 DEF CertInv, InHand
    <3>3. QED
      BY <2>1, <3>1, <3>2 DEF Reflects, provider
  <2>4. QED
    BY <2>1, <2>3, HandledHonest
<1>21. CASE Finish
  <2>1. /\ job.pc = "page" /\ Gone = {} /\ job.todo = {} /\ mem'.src = mem.src
        /\ state' = mem' /\ job' = NoJob
        /\ mem'.cursor = IF job.targeted \/ job.failed THEN mem.cursor ELSE job.token
        /\ UNCHANGED provider
    BY <1>21, <1>a, FinishParts DEF Ends
  <2>2. Paged' /\ Ahead'
    BY <2>1, NoJobParts DEF Paged, Ahead, Fetching
  <2>3. Cursors'
    <3>1. 0 \in 0 .. changes
      BY <1>d
    <3>2. QED
      BY <1>b, <2>1, <3>1, NoJobParts DEF Cursors, provider
  <2>4. UpTo(mem)'
    <3> SUFFICES ASSUME mem'.cursor > 0, NEW e \in Docs, remote'[e].rev <= mem'.cursor
                 PROVE  Reflects(mem, e)'
      BY DEF UpTo
    <3>1. CASE job.targeted \/ job.failed
      BY <1>b, <2>1, <3>1 DEF UpTo, Reflects, provider
    <3>2. CASE ~(job.targeted \/ job.failed)
      <4>1. feed /\ remote[e].rev <= job.token
        BY <1>b, <2>1, <3>2, OnlyFeeds DEF provider
      <4>2. /\ e \in DOMAIN job.page <=> remote[e].there
            /\ e \in DOMAIN job.page => Reflects(mem, e)
        BY <1>b, <2>1, <3>2, <4>1 DEF Paged, Fetching
      <4>3. e \notin DOMAIN job.page => ~mem.src[e].available
        BY <2>1, <3>2 DEF Gone
      <4>4. QED
        BY <2>1, <4>2, <4>3 DEF Reflects, provider
    <3>3. QED
      BY <3>1, <3>2
  <2>5. UpTo(state)'
    BY <2>1, <2>4 DEF UpTo, Reflects
  <2>6. QED
    BY <2>2, <2>3, <2>4, <2>5 DEF CursorInv
<1>22. CASE UNCHANGED vars
  BY <1>22, <1>c DEF vars, files
<1>23. QED
  BY <1>1, <1>2, <1>3, <1>4, <1>5, <1>6, <1>7, <1>10, <1>11, <1>12, <1>13, <1>14, <1>15, <1>16, <1>17, <1>18, <1>19, <1>20, <1>21, <1>22 DEF Next, Run, Reconcile

LEMMA CursorInvariant == Spec => []CursorInv
<1>1. Init => CursorInv
  <2> SUFFICES ASSUME Init PROVE CursorInv
    OBVIOUS
  <2>1. state.cursor = 0 /\ mem = state /\ job = NoJob /\ changes = 0
    BY DEF Init
  <2>2. QED
    BY <2>1, NoJobParts DEF CursorInv, Cursors, Paged, Ahead, UpTo, Fetching
<1>2. QED
  BY <1>1, TypeInvariant, CertInvariant, CursorStep, PTL DEF Spec

\* The cursor: no change at or before the stored one is one the state file does
\* not reflect, whatever changed meanwhile, failed or died.
THEOREM CursorHonestHolds == Spec => []CursorHonest
<1>1. TypeInv /\ CertInv /\ CursorInv => CursorHonest
  <2> SUFFICES ASSUME TypeInv, CertInv, CursorInv, state.cursor > 0,
                      NEW d \in Docs \ hidden, remote[d].rev <= state.cursor
               PROVE  Matches(d)
    BY DEF CursorHonest
  <2>1. Reflects(state, d)
    BY DEF CursorInv, UpTo
  <2>2. CASE ~remote[d].there
    BY <2>1, <2>2 DEF Reflects, Matches
  <2>3. CASE remote[d].there
    <3>1. /\ state.src[d].available /\ state.src[d].rev = remote[d].rev
          /\ state.src[d].hash # NoText
      BY <2>1, <2>3 DEF Reflects
    <3>2. state.src[d].hash = remote[d].text
      BY <2>3, <3>1 DEF CertInv, Certified
    <3>3. state.src[d] \in Source /\ state.src[d].available = TRUE
      BY <3>1, MemoryParts DEF TypeInv
    <3>4. state.src[d] = [rev |-> remote[d].rev, hash |-> remote[d].text, available |-> TRUE]
      BY <3>1, <3>2, <3>3 DEF Source
    <3>5. QED
      BY <2>3, <3>4 DEF Matches
  <2>4. QED
    BY <2>2, <2>3
<1>2. QED
  BY <1>1, TypeInvariant, CertInvariant, CursorInvariant, PTL
==============================================================================
