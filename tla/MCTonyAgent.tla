------------------------------ MODULE MCTonyAgent ------------------------------
(* Instances of TonyAgent for TLC. *)
EXTENDS TonyAgent

CONSTANTS s1, s2, read, click, ghost, a, b, main, shop

CallOf(t) == [tool |-> t, arg |-> a]
Other(t) == [tool |-> t, arg |-> b]
\* shop is a subdomain of main.
MCUnder == {<< s, s >> : s \in Sites} \cup ({<< shop, main >>} \cap (Sites \X Sites))
MCRisk == [t \in ToolNames |-> IF t = click THEN "risky" ELSE "read"]
MCNoRules == << >>
MCShopRule == << [tool |-> click, site |-> shop, decision |-> "allow"] >>

\* Loop: an answer, a pair of which the first is unknown, two pairs that share a
\* call, and one call too many.
MCLoopLists ==
  {<< >>, << CallOf(ghost), CallOf(click) >>, << CallOf(read), CallOf(click) >>,
   << Other(read), CallOf(click) >>,
   << CallOf(read), CallOf(read), CallOf(read) >>}
\* Permissions: two calls of a tool that needs confirmation.
MCPermissionLists == {<< CallOf(click), Other(click) >>}
=============================================================================
