--------------------------- MODULE PermissionPolicy ---------------------------
(***************************************************************************)
(* PermissionPolicy (src/src/permissions/policy.ts): host rules, a risk    *)
(* default per tool, and the decisions a session has had remembered.       *)
(*                                                                         *)
(* A host name is a model value; Under relates a host to the rule sites    *)
(* that cover it (itself and its parent domains).  NoSite is a page that   *)
(* has no host name, and a rule or grant that names no site.               *)
(***************************************************************************)
EXTENDS Naturals, Sequences, SequencesExt

CONSTANTS
  ToolNames,   \* every name a model may call
  Sites,       \* host names
  NoSite,      \* "undefined": no adapter, or a page without a host name
  Under,       \* << s, r >> \in Under : host s equals r or ends with ".r"
  Rules,       \* the rules the policy is constructed with, in order
  Risk,        \* the risk class each tool declares
  NoSession    \* the session of a grant that has been cleared

AnySite == Sites \cup {NoSite}
Decision == {"allow", "confirm", "deny"}
RiskDecision == [read |-> "allow", light |-> "allow",
                 risky |-> "confirm", blocked |-> "deny"]

ASSUME PolicyAssumption ==
  /\ NoSite \notin Sites
  /\ Under \subseteq Sites \X Sites
  /\ \A s \in Sites : << s, s >> \in Under
  /\ Rules \in Seq([tool : ToolNames, site : AnySite, decision : Decision])
  /\ Risk \in [ToolNames -> DOMAIN RiskDecision]

\* Only these two answers of the host are ever remembered.
Remembered == {"allow-session", "deny"}
Grant(Session) ==
  [session : Session \cup {NoSession}, tool : ToolNames, site : AnySite, decision : Remembered]

MatchesSite(ruleSite, site) ==
  \/ ruleSite = NoSite
  \/ << site, ruleSite >> \in Under

Covers(grant, session, tool, site) ==
  /\ grant.session = session
  /\ grant.tool = tool
  /\ MatchesSite(grant.site, site)

\* Array.prototype.find: the first of the positions that match, or 0.
First(hits) == IF hits = {} THEN 0 ELSE CHOOSE i \in hits : \A j \in hits : i <= j

Covering(grants, session, tool, site) ==
  {i \in DOMAIN grants : Covers(grants[i], session, tool, site)}

\* What the rules say when no remembered decision applies.
RuleCheck(tool, site) ==
  LET matching == {i \in DOMAIN Rules : /\ Rules[i].tool = tool
                                       /\ MatchesSite(Rules[i].site, site)}
      siteSpecific == {i \in matching : Rules[i].site # NoSite}
  IN  CASE siteSpecific # {} -> Rules[First(siteSpecific)].decision
        [] siteSpecific = {} /\ matching # {} -> Rules[First(matching)].decision
        [] OTHER -> RiskDecision[Risk[tool]]

\* A slip: letting the latest grant win instead of the first.
CheckLastGrant(grants, session, tool, site) ==
  LET i == SelectLastInSeq(grants, LAMBDA g : Covers(g, session, tool, site))
  IN  IF i = 0 THEN RuleCheck(tool, site)
      ELSE IF grants[i].decision = "deny" THEN "deny" ELSE "allow"

\* A slip: forgetting that a grant belongs to one session.
CheckAnySession(grants, session, tool, site) ==
  LET i == First({j \in DOMAIN grants :
                    Covers(grants[j], grants[j].session, tool, site)})
  IN  IF i = 0 THEN RuleCheck(tool, site)
      ELSE IF grants[i].decision = "deny" THEN "deny" ELSE "allow"

Check(grants, session, tool, site) ==
  LET i == First(Covering(grants, session, tool, site))
  IN  IF i = 0 THEN RuleCheck(tool, site)
      ELSE IF grants[i].decision = "deny" THEN "deny" ELSE "allow"

\* Keyed by the exact site, unlike Check.
Remember(grants, session, tool, site, resolution) ==
  LET i == First({j \in DOMAIN grants : /\ grants[j].session = session
                                        /\ grants[j].tool = tool
                                        /\ grants[j].site = site})
  IN  IF i = 0
      THEN Append(grants, [session |-> session, tool |-> tool,
                           site |-> site, decision |-> resolution])
      ELSE [grants EXCEPT ![i].decision = resolution]

\* splice() closes the gap that a cleared grant leaves here; only the order of
\* the other grants can be observed.
ClearSession(grants, session) ==
  [i \in DOMAIN grants |->
     IF grants[i].session = session
     THEN [grants[i] EXCEPT !.session = NoSession] ELSE grants[i]]
=============================================================================
