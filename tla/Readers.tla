-------------------------------- MODULE Readers --------------------------------
(***************************************************************************)
(* What the readers of a vault make of its superseded_by pointers and      *)
(* validity windows: vault_lint (src/src/curation/supersede-chains.ts,     *)
(* src/src/curation/validity.ts), vault_chains (src/src/curation/chains.ts)*)
(* and search (src/src/search/current-source.ts, valid-at-source.ts and    *)
(* suppression.ts).  Each walks the same pointers in its own way.          *)
(*                                                                         *)
(* All of them are pure; the one action puts a document into the vault, so *)
(* that a behaviour runs through every vault of Contents.  A path is its   *)
(* document's number, the order of paths that of numbers.  A pointer spells*)
(* its document's path exactly, or as a link that only resolveLink         *)
(* follows; search and vault_chains compare exact paths.                   *)
(***************************************************************************)
EXTENDS Chains, Integers, Sequences, FiniteSetsExt

CONSTANTS
  Elsewhere, \* a path no document has
  Unparsed,  \* an endpoint that is no date
  Contents,  \* bound: what documents are written
  Days,      \* bound: the dates of a valid_at query
  MaxHops    \* MAX_HOPS of valid-at-source.ts

DocStatuses == {"canonical", "draft", "superseded", "deprecated", "archived"}
Endpoint == Int \cup {None, Unparsed}
Window   == [from : Endpoint, until : Endpoint]
Document == [status : DocStatuses, by : Docs \cup {None}, exact : BOOLEAN, window : Window]

ASSUME ReadersAssumption ==
  /\ Docs \subseteq Nat /\ Elsewhere \notin Docs /\ None # Elsewhere
  /\ Contents \subseteq Document /\ Absent \notin Document
  /\ {None, Unparsed} \cap Int = {} /\ None # Unparsed
  /\ Days \subseteq Int /\ MaxHops \in Nat

VARIABLES
  vault,    \* the documents, as files and as rows of the index
  readable  \* those the caller's role may read

vaultVars == <<vault, readable>>

Present == {d \in Docs : vault[d] # Absent}

VaultTypeOK == vault \in [Docs -> Contents \cup {Absent}] /\ readable \subseteq Docs

Empty ==
  /\ vault = [d \in Docs |-> Absent]
  /\ readable \in SUBSET Docs

\* A document comes to be.
Create(d) ==
  /\ vault[d] = Absent
  /\ \E content \in Contents : vault' = [vault EXCEPT ![d] = content]
  /\ UNCHANGED readable

Grow == \E d \in Docs : Create(d)

Vaults == Empty /\ [][Grow]_vaultVars

------------------------------------------------------------------------------
(***************************************************************************)
(* vault_lint: supersedeEdges and supersedeChainFindings.                  *)
(***************************************************************************)
\* Every spelling resolves; a pointer to what is not there is no edge.
EdgesOf(v) ==
  [d \in Docs |-> IF v[d] # Absent /\ v[d].by # None /\ v[v[d].by] # Absent THEN v[d].by ELSE None]

Edges == EdgesOf(vault)

LoopAt(next, d) == Visited(next, CHOOSE e \in Visited(next, d) : OnLoop(next, e))

Endless(next, d) == \E e \in Visited(next, d) : OnLoop(next, e)

LastOf(next, d) == CHOOSE e \in Visited(next, d) : next[e] = None

\* One finding per loop, on its first member.
LoopFindings(next) ==
  {[path |-> Min(LoopAt(next, d)), loop |-> LoopAt(next, d)] : d \in {e \in Docs : Endless(next, e)}}

\* A chain counts from every entry, not only from its heads.
HeadsByEnd_Bug(next, e) ==
  {d \in Docs : next[d] # None /\ next[d] = e}

\* The chains' heads: edges begin there and none ends.
HeadsByEnd(next, e) ==
  {d \in Docs : /\ next[d] # None /\ d \notin Range(next)
                /\ ~Endless(next, d) /\ LastOf(next, d) = e}

\* One finding per last entry that is not canonical and says no more of itself.
EndFindings ==
  {[path |-> e, heads |-> HeadsByEnd(Edges, e)] :
     e \in {d \in Present : /\ HeadsByEnd(Edges, d) # {}
                            /\ vault[d].status # "canonical" /\ vault[d].by = None}}

------------------------------------------------------------------------------
(***************************************************************************)
(* search: resolveCurrentSource.                                           *)
(***************************************************************************)
\* The path a row's superseded_by spells.
Spelt(v, d) == IF v[d].by = None \/ v[d].exact THEN v[d].by ELSE Elsewhere

\* superseded_by by path, for a walk that goes on while there is a row.
Rows(v) ==
  [p \in Docs \cup {Elsewhere} |-> IF p \in Docs /\ v[p] # Absent THEN Spelt(v, p) ELSE None]

HopNumbers == 1 .. Cardinality(Docs)

Seen(at, h) == \E i \in 0 .. h - 1 : at[i] = at[h]

Missing(v, p) == p = Elsewhere \/ v[p] = Absent

\* Only the end of the chain is checked for access.
CurrentSource_Bug(v, s) ==
  LET at == Walk(Rows(v), s)
      stops(h) == at[h] = None \/ Seen(at, h) \/ Missing(v, at[h])
      h == Min({i \in HopNumbers : stops(i)})
  IN  CASE at[1] = None                     -> [kind |-> "current"]
        [] h > 1 /\ at[h] = None            ->
             IF at[h - 1] \in readable THEN [kind |-> "resolved", path |-> at[h - 1], hops |-> h - 1]
             ELSE [kind |-> "restricted"]
        [] at[h] # None /\ Seen(at, h)      -> [kind |-> "cycle"]
        [] OTHER                            -> [kind |-> "dangling", path |-> at[h - 1]]

\* The end of a superseded document's chain, as its hit is annotated with.
CurrentSource(v, s) ==
  LET at == Walk(Rows(v), s)
      stops(h) == at[h] = None \/ Seen(at, h) \/ Missing(v, at[h]) \/ at[h] \notin readable
      h == Min({i \in HopNumbers : stops(i)})
  IN  CASE at[1] = None                     -> [kind |-> "current"]
        [] h > 1 /\ at[h] = None            -> [kind |-> "resolved", path |-> at[h - 1], hops |-> h - 1]
        [] at[h] # None /\ Seen(at, h)      -> [kind |-> "cycle"]
        [] at[h] # None /\ ~Seen(at, h) /\ Missing(v, at[h]) ->
             [kind |-> "dangling", path |-> at[h - 1]]
        [] OTHER                            -> [kind |-> "restricted"]

------------------------------------------------------------------------------
(***************************************************************************)
(* vault_chains: walkForward and computeChains.                            *)
(***************************************************************************)
\* A chain is known by its head, its first hidden hop, or its loop.  A broken
\* chain ends at its last readable document.
WalkEnd_Bug(v, d) ==
  LET next == [e \in Docs |-> LET p == Rows(v)[e] IN IF p \in readable /\ v[p] # Absent THEN p ELSE None]
      last == LastOf(next, d)
  IN  IF Endless(next, d)
      THEN [kind |-> "loop", at |-> LoopAt(next, d), dangling |-> FALSE]
      ELSE [kind |-> "head", at |-> {last}, dangling |-> Rows(v)[last] # None]

\* A chain is known by its head, its first hidden hop, or its loop.
WalkEnd(v, d) ==
  LET onward == [e \in Docs |-> LET p == Rows(v)[e]
                                IN IF p \in Docs /\ v[p] # Absent THEN p ELSE None]
      shown  == [e \in Docs |-> IF onward[e] \in readable THEN onward[e] ELSE None]
      last   == LastOf(shown, d)
  IN  IF Endless(shown, d)
      THEN [kind |-> "loop", at |-> LoopAt(shown, d), dangling |-> FALSE]
      ELSE IF onward[last] # None
      THEN [kind |-> "restricted", at |-> {onward[last]}, dangling |-> FALSE]
      ELSE [kind |-> "head", at |-> {last}, dangling |-> Rows(v)[last] # None]

\* Hops from d to the head, the hidden hop, or the loop.
Depth(v, d) ==
  LET end == WalkEnd(v, d)
  IN  CHOOSE h \in 0 .. Cardinality(Docs) :
        /\ Walk(Rows(v), d)[h] \in end.at
        /\ \A i \in 0 .. h - 1 : Walk(Rows(v), d)[i] \notin end.at

StatusFlags(v, d, dangling) ==
  {f \in {"draft", "retired", "unforwarded", "dangling"} :
    CASE f = "draft"       -> v[d].status = "draft"
      [] f = "retired"     -> v[d].status \in {"deprecated", "archived"}
      [] f = "unforwarded" -> v[d].status = "superseded" /\ ~dangling
      [] f = "dangling"    -> dangling}

Shown(v) == {d \in readable : v[d] # Absent}

\* A document alone that replaced nothing and was not replaced is no chain.
Chained(v, d) ==
  LET end == WalkEnd(v, d)
  IN  \/ end.kind # "head" \/ d \notin end.at \/ end.dangling
      \/ v[d].status = "superseded"
      \/ \E e \in Docs : Rows(v)[e] = d

Ends(v) == {WalkEnd(v, d) : d \in {e \in Shown(v) : Chained(v, e)}}

\* The hidden documents whose own walk, over all documents, meets the chain.
Feeding(v, end) ==
  {u \in Docs \ readable : v[u] # Absent /\ (Visited(Rows(v), u) \ {u}) \cap end.at # {}}

ChainAt(v, end) ==
  [head     |-> IF end.kind = "head" THEN end.at ELSE {},
   flags    |-> IF end.kind = "head"
                THEN UNION {StatusFlags(v, d, end.dangling) : d \in end.at} ELSE {end.kind},
   replaced |-> {<<d, Depth(v, d)>> : d \in
                  {e \in Shown(v) : WalkEnd(v, e) = end /\ (end.kind # "head" \/ e \notin end.at)}},
   hidden   |-> Feeding(v, end) # {}]

ChainsOf(v) == {ChainAt(v, end) : end \in Ends(v)}

------------------------------------------------------------------------------
(***************************************************************************)
(* Validity: computeValidity, the pair checks of validityConflicts, and    *)
(* search's resolveValidAtSource.                                          *)
(***************************************************************************)
Malformed(w) == Unparsed \in {w.from, w.until}

Inverted(w) == ~Malformed(w) /\ None \notin {w.from, w.until} /\ w.until <= w.from

\* Half open: the day a window ends is not in it.
InWindow(w, day) ==
  /\ {w.from, w.until} # {None} /\ ~Malformed(w) /\ ~Inverted(w)
  /\ w.from # None => w.from <= day
  /\ w.until # None => day < w.until

Covers(d, day) == InWindow(vault[d].window, day)

\* supersession-overlap and supersession-gap: the window of d against the start
\* of its successor's.
PairFindings(d) ==
  LET w == vault[d].window
      s == Rows(vault)[d]
  IN  IF s \notin Present \/ Malformed(w) \/ Inverted(w) \/ w.until = None \/ vault[s].window.from \notin Int
      THEN {}
      ELSE {f \in {"overlap", "gap"} :
              IF f = "overlap" THEN vault[s].window.from < w.until ELSE vault[s].window.from > w.until}

NoAnswer == [kind |-> "nothing"]

\* walkForward: along the one successor, up to the first that covers the day.
Forward(s, day) ==
  LET at == Walk(Rows(vault), s)
      stops(h) == \/ at[h] = None \/ Seen(at, h) \/ Missing(vault, at[h])
                  \/ at[h] \notin readable \/ Covers(at[h], day)
      stopping == {i \in HopNumbers : i <= MaxHops /\ stops(i)}
      h == Min(stopping)
  IN  IF stopping = {} \/ at[h] = None THEN NoAnswer
      ELSE IF Seen(at, h) THEN [kind |-> "cycle"]
      ELSE IF Missing(vault, at[h]) THEN [kind |-> "dangling", path |-> at[h - 1]]
      ELSE IF at[h] \notin readable THEN [kind |-> "restricted"]
      ELSE [kind |-> "resolved", path |-> at[h], hops |-> h]

\* The walk stops at hidden documents.
Frontier_Bug(s) ==
  LET upto[n \in 0 .. MaxHops] ==
        IF n = 0 THEN {s}
        ELSE upto[n - 1] \cup {d \in Present \cap readable : Rows(vault)[d] \in upto[n - 1]}
  IN  [n \in 1 .. MaxHops |-> upto[n] \ upto[n - 1]]

\* Breadth first over the predecessors, through the hidden ones too.
Frontier(s) ==
  LET upto[n \in 0 .. MaxHops] ==
        IF n = 0 THEN {s}
        ELSE upto[n - 1] \cup {d \in Present : Rows(vault)[d] \in upto[n - 1]}
  IN  [n \in 1 .. MaxHops |-> upto[n] \ upto[n - 1]]

\* walkBackward: the nearest readable predecessors that cover the day.
Backward(s, day) ==
  LET covering(n) == {d \in Frontier(s)[n] \cap readable : Covers(d, day)}
      hits == {n \in 1 .. MaxHops : covering(n) # {}}
      n == Min(hits)
  IN  IF hits = {} THEN NoAnswer
      ELSE IF Cardinality(covering(n)) = 1
      THEN [kind |-> "resolved", path |-> CHOOSE d \in covering(n) : TRUE, hops |-> n]
      ELSE [kind |-> "ambiguous", count |-> Cardinality(covering(n))]

ValidAtSource(s, day) ==
  IF Covers(s, day) THEN [kind |-> "covered"]
  ELSE IF Forward(s, day) # NoAnswer THEN Forward(s, day)
  ELSE IF Backward(s, day) # NoAnswer THEN Backward(s, day)
  ELSE [kind |-> "no-cover"]

------------------------------------------------------------------------------
(***************************************************************************)
(* search: applySupersededSuppression over a list of hits.                 *)
(***************************************************************************)
\* currentSource of every document, computed once and kept on the hit.
Sources(v) == [d \in Shown(v) |-> CurrentSource(v, d)]

\* Heads are looked up in the hits, not in what is kept so far.
Kept_Bug(hits, source) ==
  LET kept[n \in 0 .. Len(hits)] ==
        IF n = 0 THEN <<>>
        ELSE IF source[hits[n]].kind # "resolved" THEN Append(kept[n - 1], hits[n])
        ELSE IF source[hits[n]].path \in Range(hits) THEN kept[n - 1]
        ELSE Append(kept[n - 1], source[hits[n]].path)
  IN  kept[Len(hits)]

\* In place of a stale hit its head, unless the list has it.
Kept(hits, source) ==
  LET kept[n \in 0 .. Len(hits)] ==
        IF n = 0 THEN <<>>
        ELSE IF source[hits[n]].kind # "resolved" THEN Append(kept[n - 1], hits[n])
        ELSE IF source[hits[n]].path \in Range(hits) \cup Range(kept[n - 1]) THEN kept[n - 1]
        ELSE Append(kept[n - 1], source[hits[n]].path)
  IN  kept[Len(hits)]

\* The stale hits, in their order.
Demoted(hits, source) ==
  LET stale[n \in 0 .. Len(hits)] ==
        IF n = 0 THEN <<>>
        ELSE IF source[hits[n]].kind = "resolved" THEN Append(stale[n - 1], hits[n])
        ELSE stale[n - 1]
  IN  stale[Len(hits)]

Suppressed(hits, source) == Kept(hits, source) \o Demoted(hits, source)

\* What search may have found.
HitLists == {hits \in UNION {[1 .. n -> Shown(vault)] : n \in 1 .. Cardinality(Docs)} : IsInjective(hits)}

------------------------------------------------------------------------------
(***************************************************************************)
(* Properties.                                                             *)
(***************************************************************************)
\* supersedeChainFindings, "One finding per loop ... A doc feeding into a loop is
\* not reported apart from it": every superseded document is accounted for once,
\* by the one finding of its loop, or by a finding on its chain's end that names a
\* head its chain hangs from, unless that end is current or points out of sight.
LintTellsAll ==
  \A d \in Docs : Edges[d] # None =>
    IF Endless(Edges, d)
    THEN /\ Cardinality({f \in LoopFindings(Edges) : f.loop = LoopAt(Edges, d)}) = 1
         /\ \A f \in EndFindings : d \notin f.heads
    ELSE LET e == LastOf(Edges, d)
         IN  (vault[e].status # "canonical" /\ vault[e].by = None) =>
               \E f \in EndFindings : f.path = e /\ \E h \in f.heads : d \in Visited(Edges, h)

\* closesSupersedeLoop and supersedeChainFindings read one graph: a pointer that
\* the guard lets through adds no loop to what vault_lint reports.
GuardAgreesWithLint ==
  \A d, t \in Present : d # t /\ ~ClosesLoop(Edges, [e \in {d} |-> t]) =>
    LoopFindings([Edges EXCEPT ![d] = t]) \subseteq LoopFindings(Edges)

\* computeChains, "a chain's end matches what search forwards a reader to": a
\* readable superseded document is in one chain, and that chain says of it what
\* its currentSource says.
ChainsMatchSearch ==
  LET chains == ChainsOf(vault)
  IN  \A d \in Shown(vault) : vault[d].by # None =>
    LET source == CurrentSource(vault, d)
        mine == {c \in chains : d \in c.head \/ \E h \in 0 .. Cardinality(Docs) : <<d, h>> \in c.replaced}
    IN  /\ Cardinality(mine) = 1
        /\ \A c \in mine :
             CASE source.kind = "resolved"   -> /\ c.head = {source.path} /\ "dangling" \notin c.flags
                                                /\ <<d, source.hops>> \in c.replaced
               [] source.kind = "dangling"   -> c.head = {source.path} /\ "dangling" \in c.flags
               [] source.kind = "cycle"      -> c.head = {} /\ c.flags = {"loop"}
               [] source.kind = "restricted" -> c.head = {} /\ c.flags = {"restricted"}

\* What a vault says of its hidden documents other than that they are there.
Blanked(v) ==
  [d \in Docs |-> IF d \in readable \/ v[d] = Absent THEN v[d]
                  ELSE [status |-> "canonical", by |-> None, exact |-> TRUE,
                        window |-> [from |-> None, until |-> None]]]

\* The chains with a predecessor in them that is readable: one that ends at a
\* readable document and has only hidden ones before it is reported of a hidden
\* document, and its presence is no statement about a readable one.  Whether a
\* chain says that something in it is hidden is left out too.
SeenChains(v) ==
  {<<c.head, c.flags, c.replaced>> : c \in {k \in ChainsOf(v) : k.replaced # {}}}

\* computeChains and resolveCurrentSource, on what a caller cannot read: nothing
\* they tell of readable documents depends on what a hidden one says, of the
\* chains, heads and flags that SeenChains compares.
HiddenUnseen ==
  /\ SeenChains(vault) = SeenChains(Blanked(vault))
  /\ Sources(vault) = Sources(Blanked(vault))

\* resolveValidAtSource, the lineage rule: what it offers was valid on the day,
\* may be read, and is the nearest such ancestor or the nearest such descendant
\* of the seed, never a sibling; it says "no-cover" only if there is none.
ValidAtHonest ==
  \A s \in Shown(vault), day \in Days :
    LET source == ValidAtSource(s, day)
        after  == Walk(Rows(vault), s)
        fit    == {d \in Shown(vault) : Covers(d, day)}
        near   == {h \in HopNumbers : h <= MaxHops /\ after[h] \in fit}
        behind(h) == {d \in fit : Walk(Rows(vault), d)[h] = s /\ \A i \in 0 .. h - 1 : Walk(Rows(vault), d)[i] # s}
        past   == {h \in HopNumbers : h <= MaxHops /\ behind(h) # {}}
    IN  CASE source.kind = "resolved"  ->
               \/ near # {} /\ source.hops = Min(near) /\ source.path = after[source.hops]
               \/ past # {} /\ source.hops = Min(past) /\ behind(source.hops) = {source.path}
          [] source.kind = "ambiguous" -> past # {} /\ Cardinality(behind(Min(past))) = source.count
          [] source.kind = "no-cover"  -> past = {} /\ near = {}
          [] OTHER                     -> source.kind \in {"cycle", "dangling", "restricted"} => s \notin fit

\* validityConflicts, "A superseded_by edge auditable": a document and its
\* successor claim no day both, and leave none between them, unless lint says so,
\* of the pair or of the document's own window, or one of the two ends it compares
\* is not there.
HandoffsAudited ==
  \A d \in Present : Rows(vault)[d] \in Present \ {d} /\ PairFindings(d) = {} =>
    LET w == vault[d].window
        s == vault[Rows(vault)[d]].window
    IN  \/ w.until \notin Int \/ s.from \notin Int \/ Malformed(w) \/ Inverted(w)
        \/ w.until = s.from /\ \A day \in Days : ~(InWindow(w, day) /\ InWindow(s, day))

\* vault_lint's findings on chains and hand-offs, whatever the vault: they miss no
\* superseded document, no loop the guard lets through, no window out of step.
LintSound == VaultTypeOK /\ LintTellsAll /\ GuardAgreesWithLint /\ HandoffsAudited

\* applySupersededSuppression, "Nothing is dropped": every hit is still listed,
\* nothing twice, nothing unreadable, and every stale hit comes after its head.
SuppressionKeepsAll ==
  LET source == Sources(vault)
  IN  \A hits \in HitLists :
        LET list == Suppressed(hits, source)
        IN  /\ Range(hits) \subseteq Range(list) /\ Range(list) \subseteq Shown(vault)
            /\ IsInjective(list)
            /\ \A i \in DOMAIN list : source[list[i]].kind = "resolved" =>
                 \E j \in 1 .. i - 1 : list[j] = source[list[i]].path
================================================================================
