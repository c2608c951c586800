------------------------------- MODULE QueryIndex -------------------------------
(***************************************************************************)
(* The text search of SessionQueryEngine (src/src/query/engine.ts): the      *)
(* durable rows of the index, which sync() rewrites a session at a time, the  *)
(* live copies that shadow them while a session is open, and the pages of a   *)
(* search, between which anything may change.  A body is a number: 0 does not *)
(* match, the least of the others matches best.  Each session has one live    *)
(* owner at a time and a table of its own, and its log only grows.            *)
(***************************************************************************)
EXTENDS Integers, Sequences, SequencesExt, FiniteSets, TLC

CONSTANTS
  Ids,            \* the sessions
  Everywhere,     \* a search without a sessionId
  Bodies, Limits, \* what entries hold, and the page sizes
  MaxEntries, MaxChanges   \* bounds of the model

VARIABLES
  log,        \* of each session: the bodies of its entries
  durable,    \* the rows of entries_fts, in the order of their rowids
  open,       \* the sessions in liveTables
  live,       \* of each session: the rows of its live table
  search      \* the search under way: its options, its cursor and the hits so far

\* Auxiliary: how often the index changed.
VARIABLE changes

indexVars == << log, durable, open, live, search, changes >>

NoCursor == [score |-> -100, rowid |-> 0]
NoSearch == [at |-> "none", limit |-> 1, scope |-> Everywhere, cursor |-> NoCursor,
             hits |-> << >>, steady |-> TRUE]

Init ==
  /\ log = [s \in Ids |-> << >>] /\ durable = << >>
  /\ open = {} /\ live = [s \in Ids |-> << >>] /\ search = NoSearch /\ changes = 0

Rows(s) == [i \in DOMAIN log[s] |-> [session |-> s, seq |-> i, body |-> log[s][i]]]

-------------------------------------------------------------------------------
(* What changes the index *)

\* Anything that happens while a search is between two pages disturbs it.
Change ==
  /\ changes < MaxChanges /\ changes' = changes + 1
  /\ search' = [search EXCEPT !.steady = FALSE]

Log(s, body) ==
  /\ Len(log[s]) < MaxEntries
  /\ log' = [log EXCEPT ![s] = Append(@, body)]
  /\ UNCHANGED << durable, open, live, search, changes >>

Others(s) == SelectSeq(durable, LAMBDA r : r.session # s)

\* A slip: the session's rows are not deleted first.
SyncAdding(s) ==
  /\ Change /\ durable' = durable \o Rows(s)
  /\ UNCHANGED << log, open, live >>

\* sync(): delete the session's rows and insert its entries anew, in a transaction.
Sync(s) ==
  /\ Change /\ durable' = Others(s) \o Rows(s)
  /\ UNCHANGED << log, open, live >>

DeleteSession(s) ==
  /\ Change /\ durable' = Others(s)
  /\ UNCHANGED << log, open, live >>

OpenLive(s) ==
  /\ s \notin open /\ Change
  /\ open' = open \cup {s} /\ live' = [live EXCEPT ![s] = Rows(s)]
  /\ UNCHANGED << log, durable >>

CloseLive(s) ==
  /\ s \in open /\ Change
  /\ open' = open \ {s} /\ live' = [live EXCEPT ![s] = << >>]
  /\ UNCHANGED << log, durable >>

-------------------------------------------------------------------------------
(* searchEvents *)

Score(row) == row.body - 10
Precedes(h, g) == h.score < g.score \/ (h.score = g.score /\ h.rowid < g.rowid)

\* The matching rows in order of score and rowid, as hits that remember both.
Ranked ==
  LET all == [i \in DOMAIN durable |-> [score |-> Score(durable[i]), rowid |-> i, row |-> durable[i]]]
  IN SortSeq(SelectSeq(all, LAMBDA h : h.row.body # 0), Precedes)

Beyond(h, cursor) == Precedes(cursor, h)

InScope(s, scope) == scope = Everywhere \/ s = scope

\* The rows a query fetches: one more than the page holds.
Fetched(limit, scope, cursor) ==
  LET rows == SelectSeq(Ranked, LAMBDA h : Beyond(h, cursor) /\ InScope(h.row.session, scope))
  IN SubSeq(rows, 1, IF Len(rows) > limit THEN limit + 1 ELSE Len(rows))

First(s, n) == SubSeq(s, 1, IF Len(s) > n THEN n ELSE Len(s))

\* Live rows are added unless the page has their session and seq.
Fold(hits, rows) ==
  hits \o SelectSeq(rows, LAMBDA h : \A i \in DOMAIN hits :
                      << hits[i].row.session, hits[i].row.seq >> # << h.row.session, h.row.seq >>)

LiveHits(s) ==
  SelectSeq([i \in DOMAIN live[s] |-> [score |-> i, rowid |-> i, row |-> live[s][i]]],
            LAMBDA h : h.row.body # 0)

\* A durable row gives way to an equal live one; in the scope of one live session
\* every durable row does.
Shadowed(h, scope) ==
  scope \in open \/ (h.row.session \in open /\ h.row \in ToSet(live[h.row.session]))

\* The hits of a page.  Live rows score by rowid, so they come after the durable
\* ones and are the first to be cut off.
Page(limit, scope, cursor) ==
  LET kept == First(SelectSeq(Fetched(limit, scope, cursor),
                              LAMBDA h : ~ Shadowed(h, scope)), limit)
      shown == SetToSeq({s \in open : InScope(s, scope)})
      folded == FoldLeft(LAMBDA hits, s : Fold(hits, LiveHits(s)), kept, shown)
  IN First(SortSeq(folded, LAMBDA h, g : h.score < g.score), limit)

\* searchSessions: of each session with a hit how many it has and the best; hits come
\* in the order of their scores, so the sessions do too.
SessionHits(limit, scope) ==
  LET hits == Page(10 * limit, scope, NoCursor)
      Of(s) == SelectSeq(hits, LAMBDA h : h.row.session = s)
      names == FoldLeft(LAMBDA seen, h : IF h.row.session \in ToSet(seen) THEN seen
                                         ELSE Append(seen, h.row.session), << >>, hits)
  IN First([i \in DOMAIN names |->
              [session |-> names[i], count |-> Len(Of(names[i])), best |-> Head(Of(names[i])).row]],
           limit)

StartSearch(limit, scope) ==
  /\ search.at # "paging"
  /\ search' = [NoSearch EXCEPT !.at = "paging", !.limit = limit, !.scope = scope]
  /\ UNCHANGED << log, durable, open, live, changes >>

\* A page; the cursor of the next one is the last row of this one.
NextPage ==
  LET rows == Fetched(search.limit, search.scope, search.cursor)
      more == Len(rows) > search.limit
  IN /\ search.at = "paging"
     /\ search' = [search EXCEPT
          !.hits = @ \o Page(search.limit, search.scope, search.cursor),
          !.at = IF more THEN "paging" ELSE "done",
          !.cursor = IF more THEN [score |-> rows[search.limit].score,
                                   rowid |-> rows[search.limit].rowid] ELSE @,
          !.steady = @ /\ open = {}]
     /\ UNCHANGED << log, durable, open, live, changes >>

Next ==
  \/ \E s \in Ids : Sync(s) \/ DeleteSession(s) \/ OpenLive(s) \/ CloseLive(s)
  \/ \E s \in Ids, body \in Bodies : Log(s, body)
  \/ \E limit \in Limits, scope \in Ids \cup {Everywhere} : StartSearch(limit, scope)
  \/ NextPage

Spec == Init /\ [][Next]_indexVars

-------------------------------------------------------------------------------
(* Properties *)

\* The state is of the expected shape.
IndexTypeOK ==
  /\ open \subseteq Ids /\ search.at \in {"none", "paging", "done"}
  /\ \A r \in ToSet(durable) : r.session \in Ids /\ r.seq \in 1..MaxEntries /\ r.body \in Bodies
  /\ \A s \in Ids : \A r \in ToSet(live[s]) : r.session = s

Matches(rows, scope) ==
  {rows[i] : i \in {j \in DOMAIN rows : rows[j].body # 0 /\ InScope(rows[j].session, scope)}}

\* The pages of a search, put together, are its matches, each once and the best
\* first, whatever the page size and the ties in score, if the index stayed as it
\* was and no session was open.
PagesComplete ==
  search.at = "done" /\ search.steady =>
    /\ {h.row : h \in ToSet(search.hits)} = Matches(durable, search.scope)
    /\ \A i, j \in DOMAIN search.hits : i < j =>
         /\ search.hits[i].row # search.hits[j].row
         /\ search.hits[i].score <= search.hits[j].score

\* What a page without a limit shows: open sessions as they are live, and what is
\* durable unless one open session is asked for.
Surface(scope) ==
  UNION {Matches(live[s], scope) : s \in open}
    \cup (IF scope \in open THEN {} ELSE Matches(durable, scope))

\* One page that is large enough shows what an open session has and the index lacks,
\* and shows no event twice: not one that was synced before, while or after the
\* session was opened.
LiveFolded ==
  \A scope \in Ids \cup {Everywhere} :
    LET hits == Page(20, scope, NoCursor)
    IN {h.row : h \in ToSet(hits)} = Surface(scope) /\ Len(hits) = Cardinality(Surface(scope))

\* A search for sessions counts every match of those it lists, each once, leaves one
\* out only for its limit, and, with no session open, only for better ones.
SessionsCounted ==
  \A scope \in Ids \cup {Everywhere}, limit \in Limits :
    LET found == SessionHits(limit, scope)
        rows(s) == {r \in Surface(scope) : r.session = s}
        listed == {f.session : f \in ToSet(found)}
        better(s, t) == \E r \in rows(s) : \A q \in rows(t) : r.body < q.body
    IN /\ Cardinality(listed) = Len(found)
       /\ \A f \in ToSet(found) : f.count = Cardinality(rows(f.session)) /\ f.best \in rows(f.session)
       /\ \A s \in {r.session : r \in Surface(scope)} \ listed :
            /\ Len(found) = limit
            /\ open = {} => \A t \in listed : ~ better(s, t)
=============================================================================
