----------------------------- MODULE Integrations -----------------------------
(***************************************************************************)
(* How a provider's documents reach the vault: the durable queue of webhook*)
(* events (src/src/integrations/queue.ts), the cycle that drains it and    *)
(* polls (runtime.ts), and the reconciliation of one provider against its  *)
(* encrypted state file (engine.ts), with the two ways an adapter finds    *)
(* documents: a list of all of them (notion.ts), or a feed of changes      *)
(* behind a cursor, filled by a list at first (google.ts).  It speaks for  *)
(* these two: the roots of microsoft.ts that are shared as single items    *)
(* start, and start over, at token=latest without such a list.             *)
(*                                                                         *)
(* A document's revision is the number of its last change at the provider, *)
(* and its text, as the hash of it, that of the change that brought it.    *)
(* That every change has a revision of its own is assumed of the provider: *)
(* Google counts versions, but Notion's revision is a time of last edit.   *)
(* Writing a file is one step: each is written beside and renamed.         *)
(***************************************************************************)
EXTENDS Integers, FiniteSets, Functions

CONSTANTS
  Docs,        \* documents of the provider
  Events,      \* ids of webhook events
  None,        \* no document
  All,         \* the hint of an event that names no document
  MaxAttempts, \* MAX_DELIVERY_ATTEMPTS
  MaxChanges,  \* bound: changes at the provider
  MaxFailures, \* bound: calls that fail, and cycles that run out of time
  MaxCrashes   \* bound: deaths of the process

ASSUME IntegrationsAssumption ==
  /\ {None, All} \cap Docs = {}
  /\ MaxAttempts \in Nat \ {0}
  /\ {MaxChanges, MaxFailures, MaxCrashes} \subseteq Nat

VARIABLES
  feed,      \* whether the adapter reads a feed of changes
  remote,    \* the documents at the provider
  changes,   \* how many changes they have seen
  pending,   \* the queue file: events to be served,
  processed, \* and those that were
  state,     \* the state file: the sources and the cursor
  review,    \* the review file: sources that were found gone
  mem,       \* the state in the hands of a reconciliation
  job,       \* the reconciliation
  loop,      \* the runtime's cycle
  closing,   \* whether close() was called
  served,    \* events of a batch that ended well
  tries,     \* failed batches of every event
  learned,   \* the texts distilled from every document
  hidden,    \* sources whose failed fetch stored a revision over an older hash
  failures,
  crashes

provider == <<feed, remote, changes>>
queue    == <<pending, processed>>
files    == <<state, review>>
ghosts   == <<served, tries, learned, hidden>>
budgets  == <<failures, crashes>>
vars     == <<provider, queue, files, mem, job, loop, closing, ghosts, budgets>>

NoText  == 0

Unknown == [rev |-> 0, hash |-> NoText, available |-> FALSE]
NoJob   == [pc |-> "off", targeted |-> FALSE, page |-> <<>>, todo |-> {}, at |-> None,
            rev |-> 0, text |-> NoText, token |-> 0, failed |-> FALSE]
Idle    == [pc |-> "idle", batch |-> {}, ok |-> TRUE, rerun |-> FALSE]

Revs   == 0 .. MaxChanges
Source == [rev : Revs, hash : Revs, available : BOOLEAN]
Memory == [src : [Docs -> Source], cursor : Revs]

TypeOK ==
  /\ feed \in BOOLEAN
  /\ remote \in [Docs -> [rev : Revs, text : Revs, there : BOOLEAN]]
  /\ changes \in Revs
  /\ pending \subseteq [id : Events, hint : Docs \cup {All}, attempts : 0 .. MaxAttempts - 1]
  /\ processed \subseteq Events
  /\ state \in Memory /\ mem \in Memory
  /\ review \subseteq Docs \X Revs
  /\ job.pc \in {"off", "discover", "list", "page", "fetch", "read", "distill", "landed"}
  /\ DOMAIN job.page \subseteq Docs /\ job.todo \subseteq Docs
  /\ job.at \in Docs \cup {None}
  /\ {job.rev, job.text, job.token} \subseteq Revs /\ {job.targeted, job.failed} \subseteq BOOLEAN
  /\ loop \in [pc : {"idle", "start", "job", "ack"}, batch : SUBSET Events,
               ok : BOOLEAN, rerun : BOOLEAN]
  /\ closing \in BOOLEAN
  /\ served \subseteq Events /\ tries \in [Events -> 0 .. MaxAttempts]
  /\ learned \in [Docs -> SUBSET Revs] /\ hidden \subseteq Docs
  /\ failures \in 0 .. MaxFailures /\ crashes \in 0 .. MaxCrashes

Init ==
  /\ feed \in BOOLEAN
  /\ remote = [d \in Docs |-> [rev |-> 0, text |-> NoText, there |-> FALSE]]
  /\ changes = 0
  /\ pending = {} /\ processed = {}
  /\ state = [src |-> [d \in Docs |-> Unknown], cursor |-> 0] /\ mem = state
  /\ review = {}
  /\ job = NoJob /\ loop = [Idle EXCEPT !.pc = "start"] /\ closing = FALSE
  /\ served = {} /\ tries = [e \in Events |-> 0]
  /\ learned = [d \in Docs |-> {}] /\ hidden = {}
  /\ failures = 0 /\ crashes = 0

------------------------------------------------------------------------------
(***************************************************************************)
(* The provider.                                                           *)
(***************************************************************************)
\* A document is written, with a text that may be the old one, or taken away.
Change(d) ==
  /\ changes < MaxChanges
  /\ changes' = changes + 1
  /\ \/ \E text \in {remote[d].text, changes'} \ {NoText} :
          remote' = [remote EXCEPT ![d] = [rev |-> changes', text |-> text, there |-> TRUE]]
     \/ /\ remote[d].there
        /\ remote' = [remote EXCEPT ![d].rev = changes', ![d].there = FALSE]
  /\ UNCHANGED <<feed, queue, files, mem, job, loop, closing, ghosts, budgets>>

Fails == failures < MaxFailures /\ failures' = failures + 1

------------------------------------------------------------------------------
(***************************************************************************)
(* queue.ts and runtime.ts.                                                *)
(***************************************************************************)
Ids(items) == {i.id : i \in items}

\* wake() and the polling interval, both through runOnce(): a cycle, or one more
\* at the end of the cycle under way.
Woken == IF loop.pc = "idle" THEN [loop EXCEPT !.pc = "start"] ELSE [loop EXCEPT !.rerun = TRUE]

\* A webhook is received, perhaps again: 202 once the event is in the queue file.
Accept(e) ==
  /\ ~closing
  /\ \E hint \in IF feed THEN {All} ELSE Docs \cup {All} :
       pending' = IF e \in processed \cup Ids(pending) THEN pending
                  ELSE pending \cup {[id |-> e, hint |-> hint, attempts |-> 0]}
  /\ loop' = Woken
  /\ UNCHANGED <<provider, processed, files, mem, job, closing, ghosts, budgets>>

Poll ==
  /\ ~closing
  /\ loop' = Woken
  /\ UNCHANGED <<provider, queue, files, mem, job, closing, ghosts, budgets>>

\* What has failed before is left out.
Due_Bug == {i \in pending : i.attempts = 0}

\* The snapshot that a batch is made of.
Due == pending

\* Nothing is done without an event.
CycleStarts_Bug ==
  LET hints == {i.hint : i \in Due}
      targeted == hints # {} /\ All \notin hints
  IN  /\ loop.pc = "start"
      /\ loop' = [Idle EXCEPT !.pc = IF hints = {} THEN "ack" ELSE "job", !.batch = Ids(Due)]
      /\ job' = [NoJob EXCEPT
                   !.pc = IF hints = {} THEN "off" ELSE IF targeted THEN "page" ELSE "discover",
                   !.targeted = targeted,
                   !.page = [d \in hints \ {All} |-> IF targeted THEN state.src[d].rev ELSE 0],
                   !.todo = IF targeted THEN hints ELSE {}]
      /\ mem' = state
      /\ UNCHANGED <<provider, queue, files, closing, ghosts, budgets>>

\* One batch of it, the hints merged; without an event the provider is polled.
CycleStarts ==
  LET hints == {i.hint : i \in Due}
      targeted == hints # {} /\ All \notin hints
  IN  /\ loop.pc = "start"
      /\ loop' = [Idle EXCEPT !.pc = "job", !.batch = Ids(Due)]
      /\ job' = [NoJob EXCEPT
                   !.pc = IF targeted THEN "page" ELSE "discover", !.targeted = targeted,
                   !.page = [d \in hints \ {All} |-> IF targeted THEN state.src[d].rev ELSE 0],
                   !.todo = IF targeted THEN hints ELSE {}]
      /\ mem' = state
      /\ UNCHANGED <<provider, queue, files, closing, ghosts, budgets>>

\* All that is in the file by now.
Struck_Bug == pending

\* The queue file as it is now, of which a served event is struck out,
Struck == {i \in pending : i.id \in loop.batch}

\* and a failed one after its last attempt.
Exhausted == {i \in Struck : i.attempts + 1 >= MaxAttempts}

Retried == {[i EXCEPT !.attempts = @ + 1] : i \in Struck \ Exhausted}

NextCycle == IF loop.rerun /\ ~closing THEN [Idle EXCEPT !.pc = "start"] ELSE Idle

\* The worker has answered.
Acknowledge ==
  /\ loop.pc = "ack"
  /\ IF loop.ok
     THEN /\ pending' = pending \ Struck
          /\ processed' = processed \cup Ids(Struck)
          /\ UNCHANGED tries
     ELSE /\ pending' = (pending \ Struck) \cup Retried
          /\ processed' = processed \cup Ids(Exhausted)
          /\ tries' = [e \in Events |-> IF e \in loop.batch THEN tries[e] + 1 ELSE tries[e]]
  /\ loop' = NextCycle
  /\ UNCHANGED <<provider, files, mem, job, closing, served, learned, hidden, budgets>>

\* close(): what is under way goes on, nothing else begins.
Close ==
  /\ ~closing
  /\ closing' = TRUE
  /\ loop' = [loop EXCEPT !.rerun = FALSE]
  /\ UNCHANGED <<provider, queue, files, mem, job, ghosts, budgets>>

\* The process dies, or its shutdown runs out of patience; start() begins a cycle.
Crash ==
  /\ crashes < MaxCrashes /\ crashes' = crashes + 1
  /\ job' = NoJob /\ mem' = state
  /\ loop' = [Idle EXCEPT !.pc = "start"] /\ closing' = FALSE
  /\ UNCHANGED <<provider, queue, files, ghosts, failures>>

------------------------------------------------------------------------------
(***************************************************************************)
(* engine.ts, reconcileProvider.                                           *)
(***************************************************************************)
Ends(ok) ==
  /\ job' = NoJob
  /\ loop' = [loop EXCEPT !.pc = "ack", !.ok = ok]
  /\ served' = IF ok THEN served \cup loop.batch ELSE served

\* A token that cannot be refreshed, a discovery or an append that fails: what
\* was not written is lost.
Aborts ==
  /\ Fails /\ Ends(FALSE)
  /\ mem' = state
  /\ UNCHANGED files

\* What discovery found; a feed notes the sources it has not seen before.
Found(page, token) ==
  /\ job' = [job EXCEPT !.pc = "page", !.page = page, !.todo = DOMAIN page, !.token = token]
  /\ mem' = [mem EXCEPT !.src = [d \in Docs |->
               IF feed /\ d \in DOMAIN page /\ mem.src[d] = Unknown
               THEN [rev |-> page[d], hash |-> NoText, available |-> TRUE] ELSE mem.src[d]]]
  /\ UNCHANGED <<files, loop, served, failures>>

Listed == [d \in {e \in Docs : remote[e].there} |-> remote[d].rev]

\* The available sources, with the changes since the cursor applied to them.
Changed ==
  LET touched    == {d \in Docs : remote[d].rev > mem.cursor}
      remembered == {d \in Docs : mem.src[d].available}
  IN  [d \in (remembered \ touched) \cup {e \in touched : remote[e].there} |->
         IF d \in touched THEN remote[d].rev ELSE mem.src[d].rev]

\* The token of a full discovery is asked for before the list.
Discover ==
  /\ job.pc = "discover"
  /\ \/ Aborts
     \/ ~feed /\ Found(Listed, 0)
     \/ feed /\ mem.cursor > 0 /\ Found(Changed, changes)
     \/ /\ feed
        /\ job' = [job EXCEPT !.pc = "list", !.token = changes]
        /\ UNCHANGED <<files, mem, loop, served, failures>>
  /\ UNCHANGED <<provider, queue, closing, tries, learned, hidden, crashes>>

List ==
  /\ job.pc = "list"
  /\ Aborts \/ Found(Listed, job.token)
  /\ UNCHANGED <<provider, queue, closing, tries, learned, hidden, crashes>>

\* The file is written with all that the reconciliation has in hand.
Save(src) ==
  /\ mem' = [mem EXCEPT !.src = src]
  /\ state' = mem'

Gone == IF job.targeted THEN {} ELSE {d \in Docs \ DOMAIN job.page : mem.src[d].available}

\* A source that is no longer found: a line for the reviewers first.
RecordUnavailable(d) ==
  /\ job.pc = "page" /\ d \in Gone /\ <<d, mem.src[d].rev>> \notin review
  /\ \/ /\ review' = review \cup {<<d, mem.src[d].rev>>}
        /\ UNCHANGED <<state, mem, job, loop, served, failures>>
     \/ Aborts
  /\ UNCHANGED <<provider, queue, closing, tries, learned, hidden, crashes>>

MarkUnavailable(d) ==
  /\ job.pc = "page" /\ d \in Gone /\ <<d, mem.src[d].rev>> \in review
  /\ Save([mem.src EXCEPT ![d].available = FALSE])
  /\ UNCHANGED <<provider, queue, review, job, loop, closing, ghosts, budgets>>

\* maxCycleMs is over: the rest is left as it is.
RunsOut ==
  /\ job.pc = "page" /\ Gone = {} /\ job.todo # {}
  /\ Fails
  /\ job' = [job EXCEPT !.todo = {}, !.failed = TRUE]
  /\ UNCHANGED <<provider, queue, files, mem, loop, closing, ghosts, crashes>>

\* "available", at the discovered revision, with a hash: nothing to do.
Current(d) ==
  /\ ~job.targeted
  /\ mem.src[d].available /\ mem.src[d].rev = job.page[d] /\ mem.src[d].hash # NoText

Consider(d) ==
  /\ job.pc = "page" /\ Gone = {} /\ d \in job.todo
  /\ IF Current(d)
     THEN /\ job' = [job EXCEPT !.todo = @ \ {d}]
          /\ Save(mem.src)
     ELSE /\ job' = [job EXCEPT !.todo = @ \ {d}, !.at = d, !.pc = "fetch"]
          /\ UNCHANGED <<mem, state>>
  /\ UNCHANGED <<provider, queue, review, loop, closing, ghosts, budgets>>

\* markSourceFailure: the revision goes on record, the hash stays.
Failed(src, d) ==
  [src EXCEPT ![d] = IF @ = Unknown THEN [Unknown EXCEPT !.rev = job.page[d], !.available = TRUE]
                     ELSE [@ EXCEPT !.rev = job.page[d]]]

Hides(d) == mem.src[d].hash # NoText /\ mem.src[d].rev # job.page[d]

\* The sources `ds` fail; this is kept in memory.
FetchFails(ds) ==
  /\ mem' = [mem EXCEPT !.src = [d \in Docs |-> IF d \in ds THEN Failed(mem.src, d)[d] ELSE mem.src[d]]]
  /\ hidden' = hidden \cup {d \in ds : Hides(d)}
  /\ job' = [job EXCEPT !.pc = "page", !.failed = TRUE, !.todo = @ \ ds]
  /\ UNCHANGED <<state, learned>>

\* A list adapter reads the page, with its revision, and then the blocks of it;
\* a feed's knows its revision.
FetchPage ==
  /\ job.pc = "fetch"
  /\ job' = [job EXCEPT !.pc = "read", !.rev = IF feed THEN job.page[job.at] ELSE remote[job.at].rev]
  /\ UNCHANGED <<provider, queue, files, mem, loop, closing, ghosts, budgets>>

\* A request fails or an answer is too large, for this source or for the cycle:
\* then for the rest of them too.
FetchFailed ==
  /\ job.pc \in {"fetch", "read"}
  /\ \/ Fails /\ FetchFails({job.at})
     \/ Fails /\ FetchFails({job.at} \cup job.todo)
     \/ ~remote[job.at].there /\ FetchFails({job.at}) /\ UNCHANGED failures
  /\ UNCHANGED <<provider, queue, review, loop, closing, served, tries, crashes>>

\* The pending revision keeps the old hash.
Fetched_Bug ==
  LET d    == job.at
      next == [rev |-> job.rev, hash |-> mem.src[d].hash, available |-> TRUE]
      text == remote[d].text
  IN  /\ job.pc = "read" /\ remote[d].rev > 0
      /\ IF ~job.targeted /\ job.rev # job.page[d]
         THEN FetchFails({d})
         ELSE /\ IF text = next.hash
                 THEN /\ Save([mem.src EXCEPT ![d] = next])
                      /\ job' = [job EXCEPT !.pc = "page"]
                 ELSE /\ Save([mem.src EXCEPT ![d] = next])
                      /\ job' = [job EXCEPT !.pc = "distill", !.text = text]
              /\ hidden' = hidden \ {d}
              /\ UNCHANGED learned
      /\ UNCHANGED <<provider, queue, review, loop, closing, served, tries, budgets>>

\* The text is here.
Fetched ==
  LET d    == job.at
      next == [rev |-> job.rev, hash |-> mem.src[d].hash, available |-> TRUE]
      text == remote[d].text
  IN  /\ job.pc = "read" /\ remote[d].rev > 0
      /\ IF ~job.targeted /\ job.rev # job.page[d]
         THEN FetchFails({d})
         ELSE /\ IF text = next.hash
                 THEN /\ Save([mem.src EXCEPT ![d] = next])
                      /\ job' = [job EXCEPT !.pc = "page"]
                 ELSE /\ Save([mem.src EXCEPT ![d] = [next EXCEPT !.hash = NoText]])
                      /\ job' = [job EXCEPT !.pc = "distill", !.text = text]
              /\ hidden' = hidden \ {d}
              /\ UNCHANGED learned
      /\ UNCHANGED <<provider, queue, review, loop, closing, served, tries, budgets>>

\* distill(): claims are staged, all of them or not.
Distill ==
  /\ job.pc = "distill"
  /\ \/ /\ job' = [job EXCEPT !.pc = "landed"]
        /\ learned' = [learned EXCEPT ![job.at] = @ \cup {job.text}]
        /\ UNCHANGED failures
     \/ /\ Fails
        /\ job' = [job EXCEPT !.pc = "page", !.failed = TRUE]
        /\ UNCHANGED learned
  /\ UNCHANGED <<provider, queue, files, mem, loop, closing, served, tries, hidden, crashes>>

Distilled ==
  /\ job.pc = "landed"
  /\ Save([mem.src EXCEPT ![job.at].hash = job.text])
  /\ job' = [job EXCEPT !.pc = "page"]
  /\ UNCHANGED <<provider, queue, review, loop, closing, ghosts, budgets>>

\* The cursor moves in any case.
Finish_Bug ==
  /\ job.pc = "page" /\ Gone = {} /\ job.todo = {}
  /\ mem' = IF job.targeted THEN mem ELSE [mem EXCEPT !.cursor = job.token]
  /\ state' = mem'
  /\ Ends(TRUE)
  /\ UNCHANGED <<provider, queue, review, closing, tries, learned, hidden, budgets>>

\* Every source was handled: the cursor moves if none failed.
Finish ==
  /\ job.pc = "page" /\ Gone = {} /\ job.todo = {}
  /\ mem' = IF job.targeted \/ job.failed THEN mem ELSE [mem EXCEPT !.cursor = job.token]
  /\ state' = mem'
  /\ Ends(TRUE)
  /\ UNCHANGED <<provider, queue, review, closing, tries, learned, hidden, budgets>>

Reconcile ==
  \/ Discover \/ List \/ RunsOut
  \/ \E d \in Docs : RecordUnavailable(d) \/ MarkUnavailable(d) \/ Consider(d)
  \/ FetchPage \/ FetchFailed \/ Fetched \/ Distill \/ Distilled \/ Finish

Run == CycleStarts \/ Reconcile \/ Acknowledge

Next ==
  \/ \E d \in Docs : Change(d)
  \/ \E e \in Events : Accept(e)
  \/ Poll \/ Run \/ Close \/ Crash

\* A cycle goes on, and the interval comes round.
Fairness == WF_vars(Run) /\ WF_vars(Poll)

Spec == Init /\ [][Next]_vars /\ Fairness

------------------------------------------------------------------------------
(***************************************************************************)
(* Properties.                                                             *)
(***************************************************************************)
Matches(d) ==
  IF remote[d].there
  THEN state.src[d] = [rev |-> remote[d].rev, hash |-> remote[d].text, available |-> TRUE]
  ELSE ~state.src[d].available

\* engine.ts, "a provider change cursor advances only after every source
\* discovered on that change page succeeds": no change at or before the stored
\* cursor is one the state file does not reflect, whatever changed meanwhile,
\* failed or died.
CursorHonest ==
  state.cursor > 0 =>
    \A d \in Docs \ hidden : remote[d].rev <= state.cursor => Matches(d)

\* "A nonempty hash certifies successful processing of this revision": the hash on
\* record is of a text that was distilled, and at the revision the provider shows
\* it is that of the text the provider shows; but for sources whose failed fetch
\* has put a new revision beside the hash of the old one.
CertifiedUnlessHidden ==
  \A d \in Docs :
    LET source == state.src[d]
    IN  /\ source.hash # NoText => source.hash \in learned[d]
        /\ (remote[d].there /\ source.rev = remote[d].rev /\ source.hash # NoText)
             => source.hash = remote[d].text \/ d \in hidden

\* drain(): an event leaves the queue by a reconciliation that began when it was
\* in the queue and ended well, or by its last failed attempt; one that comes
\* while a batch is served is not struck out with it.
EventsServed ==
  /\ TypeOK
  /\ processed \subseteq served \cup {e \in Events : tries[e] = MaxAttempts}

\* Polling: when the provider rests, what it holds is in the end what was learned
\* of it, webhooks or none; but for hidden sources, or after close().
Learns == <>[](closing \/ \A d \in Docs \ hidden : Matches(d))

\* docs/integrations.md, "failed sources remain retryable rather than being marked
\* current": the same of every source, also one whose fetch has failed.
FailuresRetried == <>[](closing \/ \A d \in Docs : Matches(d))

\* An event does not stay in the queue for ever.
EventsLeave == \A e \in Events : e \in Ids(pending) ~> (e \notin Ids(pending) \/ closing)

\* close(): webhooks cannot keep the cycle going round.
CycleEnds == closing ~> (loop.pc = "idle" \/ ~closing)

\* drain(), runOnce() and close(): neither the queue nor the cycle goes on for ever.
QueueSettles == EventsLeave /\ CycleEnds
===============================================================================
