------------------------------ MODULE MCServices ------------------------------
(* Instances of Services for TLC. *)
EXTENDS Services, TLC

CONSTANTS c1, c2, o1, o2, o3

\* Callers are alike and so are operations.
Alike == Permutations(Callers) \cup Permutations(Operations)

-------------------------------------------------------------------------------
(* What the parts meet *)

\* The graph: names of which one occurs in another and one in the type of every
\* relation; two texts of a session; replies of an
\* extraction, with blanks, duplicates and a relation of no kind, and one that is cut off.
MCLike == {<< "a", "a" >>, << "b", "b" >>, << "b", "bd" >>, << "r", "rel" >>, << "r", "related" >>}
MCTexts == {<< {"a"}, {"b"} >>, << {"rel"}, {"c", "bd"} >>}
Ent(n) == [name |-> n]
Rel(a, b) == [source |-> a, target |-> b, kind |-> "rel"]
Reply(ents, rels) == [parses |-> TRUE, entities |-> ents, relations |-> rels]
MCExtractions ==
  {Reply(<< Ent("a"), Ent(""), Ent("b"), Ent("bd"), Ent("a") >>, << Rel("b", "a"), Rel("c", "b") >>),
   Reply(<< Ent("b") >>, << Rel("a", "c"), Rel("", "c"), Rel("d", "c"), Rel("a", "c") >>),
   Reply(<< Ent("") >>, << [Rel("b", "d") EXCEPT !.kind = "none"] >>),
   [Reply(<< Ent("a") >>, << >>) EXCEPT !.parses = FALSE]}

\* Two bodies: text, a tool call in two deltas and a last event without a line break;
\* CRLF line breaks, a line that is no data, a finish reason and one that does not parse.
\* Both texts spell calls: one without a name, and a fenced one that comes first.
CR == [kind |-> "r"]
LF == [kind |-> "n"]
Text(v) == [kind |-> "text", text |-> v]
Tool(i, id, n) == [kind |-> "tool", index |-> i, id |-> id, name |-> n]
MCReplies ==
  {<< Text("a"), LF, CR, LF, Tool(0, "c1", << "f" >>), LF, LF, Tool(0, "none", << "g" >>), LF, LF,
      Text("calls") >>,
   << [kind |-> "other"], CR, LF, Text("calls"), CR, LF, CR, LF, [kind |-> "finish", reason |-> "stop"],
      CR, LF, CR, LF, [kind |-> "junk"], LF, LF >>}

MCOffers ==
  [piece \in {"a", "calls"} |->
     IF piece = "a" THEN << >>
     ELSE << [fenced |-> FALSE, calls |-> << [id |-> "c1", name |-> << >>] >>],
             [fenced |-> FALSE, calls |-> << [id |-> "none", name |-> << "h" >>] >>],
             [fenced |-> TRUE, calls |-> << [id |-> "c2", name |-> << >>], [id |-> "none", name |-> << "f" >>] >>] >>]

\* The hooks, a middleware that ends the chain with allow, one that throws; hooks for
\* one tool and for all of them; a hook that succeeds, with a result, one that is killed
\* while it prints that result, and one that fails as a denial but prints a leave.
MCMiddlewares ==
  {[says |-> "hooks", delegates |-> FALSE], [says |-> "allow", delegates |-> TRUE],
   [says |-> "throw", delegates |-> FALSE]}
Group(matcher, n) == [matcher |-> matcher, hooks |-> n]
MCPreToolUse == << Group({"bash", "edit"}, 1), Group({"*"}, 1) >>
MCPostToolUse == << Group({"bash"}, 2) >>
MCToolNames == {"bash", "ls"}
End(how, code, spells) == [how |-> how, code |-> code, spells |-> spells]
MCEnds == {End("exit", 0, "content"), End("timeout", 0, "content"), End("exit", 2, "allow")}

\* Two of three plugins provide the same service.
MCNames == {"p", "q", "r"}
MCService == [n \in MCNames |-> IF n = "r" THEN "t" ELSE "s"]

\* Two providers of a skill, which the first keeps from the model, a directory whose
\* two files have one name, and a runtime skill that only the model may use.
Skill(n, m, u, from) == [name |-> n, model |-> m, user |-> u, from |-> from]
Provider(n, offers) == [name |-> n, offers |-> offers]
MCDirectory == Provider("dir", << >>)
MCSources ==
  {MCDirectory, Provider("near", << Skill("x", FALSE, TRUE, "near") >>),
   Provider("far", << Skill("x", TRUE, TRUE, "far"), Skill("y", TRUE, FALSE, "far") >>)}
MCEmbedded == {Skill("x", TRUE, FALSE, "runtime")}
MCFiles == {Skill("x", TRUE, TRUE, "x.md"), Skill("x", TRUE, TRUE, "SKILL.md")}

\* Rows of two plugins' configurations, one that disables, one that is invalid; bases and
\* layers that set, disable and set again.
Row(id, plugin, config, disabled) ==
  [id |-> id, plugin |-> plugin, config |-> config, disabled |-> disabled]
MCPatchRows ==
  {Row("m", "p", "old", FALSE), Row("m", "q", NoConfig, FALSE), Row("m", "p", NoConfig, TRUE),
   Row("n", "p", "new", FALSE), Row("", "p", NoConfig, FALSE)}
MCProfiles ==
  LET good == {r \in MCPatchRows : r.id # ""}
      lists == {<< >>} \cup {<< r >> : r \in good}
  IN lists \X (lists \cup {<< x, y >> : x, y \in good})

-------------------------------------------------------------------------------
(* Bounds *)

\* One initial state is enough for a part that rests.
MCInit ==
  /\ Init
  /\ scene # "graph" => \A i \in DOMAIN entries : entries[i].seq = 1 => entries[i].words = {"a"}
  /\ scene # "hooks" => failClosed
  /\ scene # "skills" => directory = {}
  /\ scene # "patches" => base = << >> /\ rows = << >>

MCNext ==
  /\ Next
  \* Three entries in two sessions.
  /\ scene = "index" => \E s \in Sessions : Len(log'[s]) <= 1
  \* Three changes, the last of the lineage.
  /\ scene = "graph" => edits' < MaxChanges \/ parentOf' # parentOf
  \* Two calls of a tool with one hook that exits, or one call of any.
  /\ scene = "dispatch" => \A c \in Callers : /\ run'[c].name # "bash"
                                              /\ \A i \in DOMAIN run'[c].ends : run'[c].ends[i].how = "exit"
  /\ scene = "hooks" => Cardinality({c \in Callers : run'[c].at # "no"}) <= 1
  \* Three operations of one call each, or two of any.
  /\ scene = "cdp" => \A o \in Operations : ops'[o].kind # "history"
  /\ scene = "history" => Cardinality({o \in Operations : ops'[o].kind # "none"}) <= 2

MCSpec == MCInit /\ [][MCNext]_serviceVars
=============================================================================
