------------------------------- MODULE QueryGraph -------------------------------
(***************************************************************************)
(* The knowledge graph and the lineage of the session index                  *)
(* (src/src/query/engine.ts), with what reads them: the recall block          *)
(* (query/graph-context.ts) and the router (workflow/router.ts).  A text is    *)
(* the set of the words it mentions; tables are sequences in the order of      *)
(* their rowids; no session is open as live.  The widths and limits are        *)
(* scaled down from 50, 10, 40, 20, 5 and 10.                                  *)
(***************************************************************************)
EXTENDS Integers, Sequences, SequencesExt, FiniteSets, FiniteSetsExt, Functions, TLC

CONSTANTS
  Ids, Everywhere,          \* the sessions; a query without a sessionId
  Like,                     \* the pairs of a query and a name it occurs in
  Texts, Extractions,       \* what sessions hold; what the extracting model replies
  LocalWidth, RelatedWidth, RelatedCap, NameRows, HitLimit,  \* limits of the engine
  MaxChanges                \* a bound of the model

VARIABLES
  meta,        \* the sessions in session_meta
  parentOf,    \* session_parent
  entries,     \* entries_fts
  entities, relations

\* Auxiliary: how often the tables changed.
VARIABLE edits

graphVars == << meta, parentOf, entries, entities, relations, edits >>

Terms == {p[1] : p \in Like}
RowsOf(s, texts) == [i \in DOMAIN texts |-> [session |-> s, seq |-> i, words |-> texts[i]]]

\* Every session has been indexed once.
Init ==
  /\ meta = Ids /\ parentOf = << >> /\ entities = << >> /\ relations = << >> /\ edits = 0
  /\ \E texts \in [Ids -> Texts] :
       entries = FlattenSeq(SetToSeq({RowsOf(s, texts[s]) : s \in Ids}))

-------------------------------------------------------------------------------
(* What changes the tables *)

Edit == edits < MaxChanges /\ edits' = edits + 1
Except(table, s) == SelectSeq(table, LAMBDA r : r.session # s)

SyncEntries(s, texts) ==
  /\ Edit /\ meta' = meta \cup {s} /\ entries' = Except(entries, s) \o RowsOf(s, texts)
  /\ UNCHANGED << parentOf, entities, relations >>

\* A slip: the rows of the session's entries stay.
DeleteMetaOnly(s) ==
  /\ Edit /\ s \in meta
  /\ meta' = meta \ {s} /\ parentOf' = [c \in DOMAIN parentOf \ {s} |-> parentOf[c]]
  /\ UNCHANGED << entries, entities, relations >>

\* deleteSession: the row of session_parent goes with its session, the entities and
\* the relations stay.
Delete(s) ==
  /\ Edit /\ s \in meta
  /\ meta' = meta \ {s} /\ entries' = Except(entries, s)
  /\ parentOf' = [c \in DOMAIN parentOf \ {s} |-> parentOf[c]]
  /\ UNCHANGED << entities, relations >>

\* setBranchParent: the foreign key wants the child indexed, not the parent.
SetBranchParent(s, parent) ==
  /\ Edit /\ s \in meta /\ parentOf' = (s :> parent) @@ parentOf
  /\ UNCHANGED << meta, entries, entities, relations >>

\* GraphExtractor.extract: a reply that does not come or does not parse has nothing; an
\* entity without a name and a relation without an end are dropped.
Extracted(reply) ==
  LET named == SelectSeq(reply.entities, LAMBDA e : e.name # "")
      ended == SelectSeq(reply.relations, LAMBDA r : r.source # "" /\ r.target # "")
  IN IF ~ reply.parses THEN [entities |-> << >>, relations |-> << >>]
     ELSE [entities |-> named,
           relations |-> [i \in DOMAIN ended |->
                            [ended[i] EXCEPT !.kind = IF @ = "none" THEN "related" ELSE @]]]

\* setEntities, setRelations: a row with the key of an earlier one only updates it.
Owned(s, items) ==
  LET Upsert(rows, row) == IF row \in ToSet(rows) THEN rows ELSE Append(rows, row)
  IN FoldLeft(Upsert, << >>, [i \in DOMAIN items |-> items[i] @@ [session |-> s]])
Replaced(table, s, items) ==
  IF items = << >> THEN table ELSE Except(table, s) \o Owned(s, items)

\* syncGraph, when the reply has come: an empty part leaves the old one.
SyncGraph(s, reply) ==
  LET graph == Extracted(reply)
  IN /\ Edit
     /\ entities' = Replaced(entities, s, graph.entities)
     /\ relations' = Replaced(relations, s, graph.relations)
     /\ UNCHANGED << meta, parentOf, entries >>

Next ==
  \E s \in Ids :
    \/ \E texts \in Texts : SyncEntries(s, texts)
    \/ Delete(s)
    \/ \E parent \in Ids : SetBranchParent(s, parent)
    \/ \E reply \in Extractions : SyncGraph(s, reply)

Spec == Init /\ [][Next]_graphVars

-------------------------------------------------------------------------------
(* traceSession *)

Rounds == [i \in 1 .. Cardinality(Ids) + 1 |-> i]

Up(st) ==
  IF st.at \notin DOMAIN parentOf \/ st.cycle THEN st
  ELSE LET parent == parentOf[st.at]
       IN IF parent \in st.seen THEN [st EXCEPT !.cycle = TRUE]
          ELSE [st EXCEPT !.at = parent, !.seen = @ \cup {parent},
                          !.ancestors = Append(@, parent)]

Ancestry(s) ==
  FoldLeft(LAMBDA st, i : Up(st),
           [at |-> s, seen |-> {s}, ancestors |-> << >>, cycle |-> FALSE], Rounds)

\* The children of a level are the next one.
Descent(s) ==
  FoldLeft(LAMBDA st, i :
             LET level == {c \in DOMAIN parentOf : parentOf[c] \in st.level}
             IN [level |-> level \ st.visited, visited |-> st.visited \cup level,
                 cycle |-> st.cycle \/ level \cap st.visited # {}],
           [level |-> {s}, visited |-> {s}, cycle |-> FALSE], Rounds)

Trace(s) ==
  [cycle |-> Ancestry(s).cycle \/ Descent(s).cycle,
   ancestors |-> Ancestry(s).ancestors, descendants |-> Descent(s).visited \ {s}]

-------------------------------------------------------------------------------
(* searchGraph and searchRelated *)

InScope(r, scope) == scope = Everywhere \/ r.session = scope
Within(table, scope) == SelectSeq(table, LAMBDA r : InScope(r, scope))
FirstOf(s, n) == SubSeq(s, 1, Min({n, Len(s)}))

\* The names a query occurs in, in the order of the table, a name of two sessions twice.
Seeds(q, scope) ==
  LET found == SelectSeq(Within(entities, scope), LAMBDA e : << q, e.name >> \in Like)
  IN [i \in DOMAIN found |-> found[i].name]

Local   == [width |-> LocalWidth, cap |-> 100, seeds |-> 100, lanes |-> FALSE]
Related == [width |-> RelatedWidth, cap |-> RelatedCap, seeds |-> RelatedWidth, lanes |-> TRUE]

\* A slip: relations are followed from their source only.
OtherForward(r, hops) == r.target
Other(r, hops) == IF r.source \in DOMAIN hops THEN r.target ELSE r.source

\* One hop: a batch of the queue is joined with the relations that touch it.
Hop(st, n, scope, mode) ==
  LET batch == ToSet(FirstOf(st.queue, mode.width))
      touching == SelectSeq(Within(relations, scope),
                            LAMBDA r : r.source \in batch \/ r.target \in batch)
      Visit(acc, r) ==
        LET other == Other(r, acc.hops)
        IN IF other \in DOMAIN acc.hops \/ Cardinality(DOMAIN acc.hops) >= mode.cap THEN acc
           ELSE [hops |-> (other :> n) @@ acc.hops, queue |-> Append(acc.queue, other),
                 names |-> Append(acc.names, other)]
  IN IF st.queue = << >> THEN st
     ELSE FoldLeft(Visit, [st EXCEPT !.queue = SubSeq(@, mode.width + 1, Len(@))], touching)

\* The names that are reached, in that order, and at which hop.
Expand(q, scope, maxHops, mode) ==
  LET seeds == FirstOf(Seeds(q, scope), mode.seeds)
      Fresh(names, name) == IF name \in ToSet(names) THEN names ELSE Append(names, name)
  IN FoldLeft(LAMBDA st, n : Hop(st, n, scope, mode),
              [hops |-> [name \in ToSet(seeds) |-> 0], queue |-> seeds,
               names |-> FoldLeft(Fresh, << >>, seeds)],
              [i \in 1..maxHops |-> i])

\* The first rows, by seq, of those that mention a word.
Mentions(word, scope, limit) ==
  LET at == SelectSeq([i \in DOMAIN entries |-> [id |-> i, row |-> entries[i]]],
                      LAMBDA x : word \in x.row.words /\ InScope(x.row, scope))
      sorted == SortSeq(at, LAMBDA x, y : x.row.seq < y.row.seq
                                          \/ (x.row.seq = y.row.seq /\ x.id < y.id))
  IN [i \in 1 .. Min({limit, Len(sorted)}) |-> sorted[i].row]

\* The rows that mention one of the names, as hits: an event once, or once for
\* every name, at its nearest.
Joined(names, hops, scope, lanes) ==
  LET New(hits, h) == IF \E i \in DOMAIN hits : hits[i].row = h.row /\ (lanes => hits[i].entity = h.entity)
                      THEN hits ELSE Append(hits, h)
      Lane(name) == LET rows == Mentions(name, scope, NameRows)
                    IN [i \in DOMAIN rows |-> [row |-> rows[i], entity |-> name, hop |-> hops[name]]]
  IN FoldLeft(LAMBDA hits, name : FoldLeft(New, hits, Lane(name)), << >>, names)

Nearest(hits) ==
  LET numbered == [i \in DOMAIN hits |-> [id |-> i, hit |-> hits[i]]]
      sorted == SortSeq(numbered, LAMBDA x, y :
                  \/ x.hit.hop < y.hit.hop
                  \/ x.hit.hop = y.hit.hop /\ x.hit.row.seq < y.hit.row.seq
                  \/ x.hit.hop = y.hit.hop /\ x.hit.row.seq = y.hit.row.seq /\ x.id < y.id)
  IN [i \in DOMAIN sorted |-> sorted[i].hit]

\* searchGraphLocal within one session names its parameter @sid next to positional
\* ones and passes a value too many: with a seed, its first hop throws.
Throws(q, scope, mode) == mode = Local /\ scope # Everywhere /\ Seeds(q, scope) # << >>

HitsOf(reached, scope, mode) ==
  FirstOf(Nearest(Joined(reached.names, reached.hops, scope, mode.lanes)), HitLimit)
Search(q, scope, maxHops, mode) == HitsOf(Expand(q, scope, maxHops, mode), scope, mode)

\* searchGraphGlobal: kinds of relations and names of entities, all at hop 0.
SearchGlobal(q, scope) ==
  LET kinds == SelectSeq([i \in DOMAIN relations |-> relations[i]],
                         LAMBDA r : << q, r.kind >> \in Like /\ InScope(r, scope))
      terms == [i \in DOMAIN kinds |-> kinds[i].kind] \o Seeds(q, scope)
  IN FirstOf(Joined(terms, [t \in ToSet(terms) |-> 0], scope, FALSE), HitLimit)

SearchNaive(q, scope) ==
  LET rows == Mentions(q, scope, HitLimit)
  IN [i \in DOMAIN rows |-> [row |-> rows[i], entity |-> q, hop |-> 0]]

-------------------------------------------------------------------------------
(* GraphContextBuilder.build and GraphRouter.route *)

\* What one term brings back unless its local search throws: the first mode with a
\* hit answers.
RecallTerm(q, scope) ==
  LET local == Search(q, scope, 2, Local)
      global == SearchGlobal(q, scope)
  IN IF local # << >> THEN local ELSE IF global # << >> THEN global ELSE SearchNaive(q, scope)

\* The first term with a hit answers for all; build() catches nothing.
RecallThrows(terms, scope) ==
  \E i \in DOMAIN terms : /\ Throws(terms[i], scope, Local)
                          /\ \A j \in 1 .. i - 1 : RecallTerm(terms[j], scope) = << >>
Recall(terms, scope) ==
  LET found == {i \in DOMAIN terms : RecallTerm(terms[i], scope) # << >>}
  IN IF found = {} THEN << >> ELSE RecallTerm(terms[Min(found)], scope)

\* searchSessions: the sessions with a match, by their best one.
MatchingSessions(q) ==
  LET rows == SelectSeq(entries, LAMBDA r : q \in r.words)
  IN FoldLeft(LAMBDA seen, r : IF r.session \in ToSet(seen) THEN seen ELSE Append(seen, r.session),
              << >>, rows)

\* The session route() recommends to continue, if any: in the lineage of the
\* current one and with a hit of the top entity.  A cycle recommends nothing.
Recommended(q, current) ==
  LET hits == Search(q, Everywhere, 2, Local)
      shared == {hits[i].row.session : i \in {j \in DOMAIN hits : hits[j].entity = hits[1].entity}}
      trace == Trace(current)
      lineage == ToSet(trace.ancestors) \cup trace.descendants
  IN IF hits = << >> \/ trace.cycle THEN << >>
     ELSE FirstOf(SelectSeq(MatchingSessions(q),
                          LAMBDA s : s # current /\ s \in lineage /\ s \in shared), 1)

-------------------------------------------------------------------------------
(* Properties *)

\* The tables are of the expected shape: an index row belongs to an indexed session, and
\* no row of the graph is there twice or without its names.
GraphTypeOK ==
  /\ \A r \in ToSet(entries) : r.session \in meta
  /\ IsInjective(entities) /\ IsInjective(relations)
  /\ \A e \in ToSet(entities) : e.name # ""
  /\ \A r \in ToSet(relations) : "" \notin {r.source, r.target} /\ r.kind # "none"
  /\ DOMAIN parentOf \subseteq meta /\ \A c \in DOMAIN parentOf : parentOf[c] \in Ids

\* The sessions k steps above a session: none or one.
Above(s, k) ==
  LET lift[n \in 0..k] == IF n = 0 THEN {s}
                          ELSE {parentOf[c] : c \in lift[n - 1] \cap DOMAIN parentOf}
  IN lift[k]

\* A trace fails exactly if the chain above the session never ends, whatever order
\* parents were set, replaced and deleted in; else it lists that chain, nearest
\* first, and exactly the sessions whose own chain leads here.
TraceExact ==
  \A s \in Ids :
    LET n == Cardinality(Ids)
        endless(t) == Above(t, n) # {}
        below == {t \in Ids \ {s} : \E k \in 1..n : s \in Above(t, k)}
    IN /\ Trace(s).cycle <=> endless(s)
       /\ ~ endless(s) =>
            /\ \A k \in 1..n : Above(s, k) = {Trace(s).ancestors[j] : j \in {k} \cap DOMAIN Trace(s).ancestors}
            /\ Trace(s).descendants = below

\* The names within none, one and two relations of the seeds, in either direction.
Balls(q, scope) ==
  LET links == {{r.source, r.target} : r \in ToSet(Within(relations, scope))}
      Wider(names) == names \cup UNION {l \in links : l \cap names # {}}
      seeds == ToSet(Seeds(q, scope))
  IN 0 :> seeds @@ 1 :> Wider(seeds) @@ 2 :> Wider(Wider(seeds))

\* Nothing is cut off: the seeds and every ring fit the width, all names the cap.
Narrow(q, scope, ball, n, mode) ==
  /\ Len(Seeds(q, scope)) <= mode.width /\ Cardinality(ball[n]) <= mode.cap
  /\ \A k \in 1..n : Cardinality(ball[k] \ ball[k - 1]) <= mode.width

\* A graph search never reports a name as nearer than it is, nor one out of reach,
\* and finds all of them at their distance when no limit cuts the search short.
\* Its hits are events of the scope that mention their entity, once each.  A local
\* search within a session that has a seed throws instead.
RelatedExact ==
  \A q \in Terms, scope \in Ids \cup {Everywhere} :
   LET ball == Balls(q, scope)
   IN \A mode \in {Local, Related}, n \in 1..2 :
    LET expanded == Expand(q, scope, n, mode)
        reached == expanded.hops
        hits == HitsOf(expanded, scope, mode)
    IN Throws(q, scope, mode) \/
       /\ \A name \in DOMAIN reached : reached[name] <= n /\ name \in ball[reached[name]]
       /\ Narrow(q, scope, ball, n, mode) =>
            /\ DOMAIN reached = ball[n]
            /\ \A name \in DOMAIN reached :
                 reached[name] = 0 \/ name \notin ball[reached[name] - 1]
       /\ \A i, j \in DOMAIN hits :
            /\ hits[i].entity \in hits[i].row.words \cap DOMAIN reached /\ InScope(hits[i].row, scope)
            /\ i < j => /\ hits[i].hop <= hits[j].hop
                        /\ hits[i].row = hits[j].row => mode.lanes /\ hits[i].entity # hits[j].entity

\* A term that some event of the scope mentions brings something back, whatever the
\* graph still says of deleted sessions, and only events the index has, unless the
\* recall throws; and
\* route() recommends a relative of the current session that mentions the query.
RecallFound ==
  /\ \A q \in Terms, scope \in Ids \cup {Everywhere} :
       LET hits == Recall(<< q >>, scope)
       IN RecallThrows(<< q >>, scope) \/
          /\ (\E r \in ToSet(entries) : InScope(r, scope) /\ q \in r.words) => hits # << >>
          /\ \A h \in ToSet(hits) : h.row \in ToSet(entries) /\ InScope(h.row, scope)
  /\ \A q \in Terms, s \in Ids : \A t \in ToSet(Recommended(q, s)) :
       /\ t # s /\ \E k \in 1 .. Cardinality(Ids) : t \in Above(s, k) \/ s \in Above(t, k)
       /\ \E r \in ToSet(entries) : r.session = t /\ q \in r.words
=============================================================================
