--------------------------------- MODULE Patches ---------------------------------
(***************************************************************************)
(* PatchLayer (src/src/plugin/patch.ts): the rows of a layer over those of a   *)
(* base, and the rows that override them in one session.  An undefined config   *)
(* is NoConfig.                                                                   *)
(***************************************************************************)
EXTENDS Naturals, Sequences, SequencesExt, FiniteSetsExt, TLC

CONSTANTS
  PatchRows, NoConfig,           \* the rows a patch can have: id, plugin, config, disabled
  Profiles,                 \* pairs of a base and of the rows of a layer
  Overriders, MaxOverrides  \* the sessions; a bound of the model

VARIABLES
  base, rows,           \* the rows apply() starts from; those of the layer
  sessionOverrides      \* of every session that has any: a row of an id

\* Auxiliary: what was asked for in each session since it was last cleared.
VARIABLE applied

patchVars == << base, rows, sessionOverrides, applied >>

Init ==
  /\ \E p \in Profiles : base = p[1] /\ rows = p[2]
  /\ sessionOverrides = << >> /\ applied = [s \in Overriders |-> << >>]

-------------------------------------------------------------------------------
(* The overrides of a session *)

Valid(row) == row.id # "" /\ row.plugin # ""

\* applyForSession(): an invalid row throws; a row replaces the one of its id.
ApplyForSession(s, row) ==
  LET mine == IF s \in DOMAIN sessionOverrides THEN sessionOverrides[s] ELSE << >>
  IN /\ Valid(row) /\ sessionOverrides' = (s :> ((row.id :> row) @@ mine)) @@ sessionOverrides
     /\ SumSet({Len(applied[t]) : t \in Overriders}) < MaxOverrides
     /\ applied' = [applied EXCEPT ![s] = Append(@, row)]
     /\ UNCHANGED << base, rows >>

ClearSession(s) ==
  /\ s \in DOMAIN sessionOverrides
  /\ sessionOverrides' = [t \in DOMAIN sessionOverrides \ {s} |-> sessionOverrides[t]]
  /\ applied' = [applied EXCEPT ![s] = << >>] /\ UNCHANGED << base, rows >>

Next == \E s \in Overriders : ClearSession(s) \/ \E row \in PatchRows : ApplyForSession(s, row)

Spec == Init /\ [][Next]_patchVars

-------------------------------------------------------------------------------
(* apply() *)

\* A row over what is there: it keeps a config unless it has one, and disabling deletes.
Over(merged, row) ==
  IF row.disabled THEN [id \in DOMAIN merged \ {row.id} |-> merged[id]]
  ELSE LET config == IF row.config # NoConfig \/ row.id \notin DOMAIN merged THEN row.config
                     ELSE merged[row.id].config
       IN (row.id :> [row EXCEPT !.config = config]) @@ merged

\* The base is taken as it is, its disabled rows too.
Based == FoldLeft(LAMBDA merged, row : (row.id :> row) @@ merged, << >>, base)

Apply(s) ==
  LET layered == FoldLeft(Over, Based, rows)
  IN IF s \notin DOMAIN sessionOverrides THEN layered
     ELSE FoldLeft(Over, layered, SetToSeq({sessionOverrides[s][id] : id \in DOMAIN sessionOverrides[s]}))

-------------------------------------------------------------------------------
(* Properties *)

\* The state is of the expected shape.
PatchTypeOK ==
  /\ DOMAIN sessionOverrides \subseteq Overriders
  /\ \A s \in DOMAIN sessionOverrides : \A id \in DOMAIN sessionOverrides[s] :
       sessionOverrides[s][id] \in PatchRows /\ sessionOverrides[s][id].id = id

\* What a session sees of a row is what was last said of it: in that session since it
\* was cleared, else in the layer, else in the base.  A disabled row is not there, and
\* a row without a config has the last one below it that disabling did not remove.
\* What other sessions asked for makes no difference.
OverridesExact ==
  \A s \in Overriders :
    LET Of(list, id) == SelectSeq(list, LAMBDA r : r.id = id)
        Last1(list) == IF list = << >> THEN << >> ELSE << Last(list) >>
        Said(id) == Last1(Of(base, id)) \o Of(rows, id) \o Last1(Of(applied[s], id))
        Below(id) == Len(Said(id)) > Len(Of(rows, id)) + Len(Last1(Of(applied[s], id)))
        Live(id) == \* the rows since the last one that disables it
          LET said == Said(id)
              off == {i \in DOMAIN said : said[i].disabled /\ ~ (i = 1 /\ Below(id))}
          IN SubSeq(said, 1 + (IF off = {} THEN 0 ELSE Max(off)), Len(said))
        Config(live) == LET given == {i \in DOMAIN live : live[i].config # NoConfig}
                        IN IF given = {} THEN NoConfig ELSE live[Max(given)].config
        ids == {r.id : r \in ToSet(base \o rows \o applied[s])}
    IN /\ DOMAIN Apply(s) = {id \in ids : Live(id) # << >>}
       /\ \A id \in DOMAIN Apply(s) :
            /\ Apply(s)[id].plugin = Last(Live(id)).plugin /\ Apply(s)[id].config = Config(Live(id))
=============================================================================
