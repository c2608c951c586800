------------------------------ MODULE RegistryProofs ------------------------------
(***************************************************************************)
(* Theorems about the waterfall and the registries of plugins and services: *)
(* what a call was denied by never runs its tool, and the teardown of each   *)
(* leaves nothing behind.                                                    *)
(***************************************************************************)
EXTENDS Services, SequenceLemmas, TLAPS

-------------------------------------------------------------------------------
(* Decisions *)

Decisions == {"allow", "ask", "deny"}
Sayings == Decisions \cup {"none"}

\* A decision that is merged may stay or rise, and never leaves a denial.
LEMMA Merging ==
  ASSUME NEW now \in Decisions, NEW said \in Sayings
  PROVE  /\ D!Merge(now, said) \in Decisions
         /\ "deny" \in {now, said} => D!Merge(now, said) = "deny"
         /\ D!Merge(now, said) = "allow" => now = "allow" /\ said \in {"none", "allow"}
BY DEF D!Merge, D!Rank, Decisions, Sayings

\* A hook that does not deny has ended well or printed a leave.
LEMMA HookDecides ==
  ASSUME NEW end
  PROVE  /\ D!HookSays(end) \in Decisions
         /\ D!HookSays(end) # "deny" =>
              \/ end.how # "unspawned" /\ end.spells \in {"allow", "allowOnce", "ask"}
              \/ end.how = "exit" /\ end.code = 0 /\ end.spells # "deny"
<1>1. CASE D!Spells(end) \in {"allow", "allowOnce"}
  BY <1>1 DEF D!HookSays, D!Spells, D!Exit, Decisions
<1>2. CASE D!Spells(end) \in {"ask", "deny"}
  BY <1>2 DEF D!HookSays, D!Spells, D!Exit, Decisions
<1>3. CASE D!Spells(end) \notin {"allow", "allowOnce", "ask", "deny"}
  BY <1>3 DEF D!HookSays, D!Spells, D!Exit, Decisions
<1> QED
  BY <1>1, <1>2, <1>3

\* Hooks that come to allow have denied nothing, and without hooks they do.
LEMMA HooksDecide ==
  ASSUME NEW ends \in Seq(Ends)
  PROVE  /\ D!HooksSay(ends) \in Decisions
         /\ \A i \in 1 .. Len(ends) : D!HookSays(ends[i]) = "deny" => D!HooksSay(ends) = "deny"
         /\ ends = << >> => D!HooksSay(ends) = "allow"
<1>1. PICK n \in Nat : n = Len(ends)
  BY LenProperties
<1>2. PICK step : step = [i \in 1 .. n |-> [d \in Decisions |-> D!Merge(d, D!HookSays(ends[i]))]]
  OBVIOUS
<1>3. step \in [1 .. n -> [Decisions -> Decisions]]
  <2>1. ASSUME NEW i \in 1 .. n, NEW d \in Decisions
        PROVE  D!Merge(d, D!HookSays(ends[i])) \in Decisions
    BY HookDecides, Merging DEF Sayings
  <2> QED
    BY <1>2, <2>1
<1>4. PICK g : Follows(g, Decisions, "allow", n, step)
  <2>1. "allow" \in Decisions
    BY DEF Decisions
  <2> QED
    BY <1>3, <2>1, RecursionExists DEF Steps
<1>5. \A i \in 1 .. n : g[i] = D!Merge(g[i - 1], D!HookSays(ends[i]))
  BY <1>2, <1>4 DEF Follows
<1>6. g = [i \in 0 .. n |-> IF i = 0 THEN "allow" ELSE D!Merge(g[i - 1], D!HookSays(ends[i]))]
  BY <1>4, <1>5 DEF Follows
<1> DEFINE Body(h) == [i \in 0 .. Len(ends) |-> IF i = 0 THEN "allow" ELSE D!Merge(h[i - 1], D!HookSays(ends[i]))]
           merged == CHOOSE h : h = Body(h)
<1>7. D!HooksSay(ends) = merged[Len(ends)]
  BY DEF D!HooksSay
<1>8. merged = Body(merged)
  BY <1>1, <1>6
<1>9. PICK m : m = merged
  OBVIOUS
<1>10. m[0] = "allow" /\ \A i \in 1 .. n : m[i] = D!Merge(m[i - 1], D!HookSays(ends[i]))
  <2> HIDE DEF merged
  <2>1. m = [i \in 0 .. n |-> IF i = 0 THEN "allow" ELSE D!Merge(m[i - 1], D!HookSays(ends[i]))]
    BY <1>1, <1>8, <1>9
  <2> QED
    BY <2>1
<1> HIDE DEF Body, merged
<1>11. PICK held \in SUBSET Nat :
         held = {k \in Nat : k <= n => /\ m[k] \in Decisions
                                   /\ \A i \in 1 .. k : D!HookSays(ends[i]) = "deny" => m[k] = "deny"}
  OBVIOUS
<1>12. 0 \in held
  BY <1>10, <1>11 DEF Decisions
<1>13. ASSUME NEW k \in held PROVE k + 1 \in held
  <2> SUFFICES ASSUME k + 1 <= n
               PROVE  /\ m[k + 1] \in Decisions
                      /\ \A i \in 1 .. k + 1 : D!HookSays(ends[i]) = "deny" => m[k + 1] = "deny"
    BY <1>11
  <2>1. /\ k \in Nat /\ m[k] \in Decisions
        /\ \A i \in 1 .. k : D!HookSays(ends[i]) = "deny" => m[k] = "deny"
    BY <1>11
  <2>2. k + 1 \in 1 .. n /\ (k + 1) - 1 = k
    BY <2>1
  <2>3. m[k + 1] = D!Merge(m[k], D!HookSays(ends[k + 1]))
    BY <1>10, <2>2
  <2>4. D!HookSays(ends[k + 1]) \in Decisions
    BY HookDecides
  <2>5. /\ m[k + 1] \in Decisions
        /\ m[k] = "deny" \/ D!HookSays(ends[k + 1]) = "deny" => m[k + 1] = "deny"
    BY <2>1, <2>3, <2>4, Merging DEF Sayings
  <2>6. \A i \in 1 .. k + 1 : i \in 1 .. k \/ i = k + 1
    BY <2>1
  <2> QED
    BY <2>1, <2>5, <2>6
<1>14. held = Nat
  BY <1>12, <1>13, Induction
<1>15. n \in held /\ n <= n
  BY <1>14
<1>16. D!HooksSay(ends) = m[n]
  BY <1>1, <1>7, <1>9
<1>17. ends = << >> => n = 0
  BY <1>1
<1> QED
  BY <1>1, <1>10, <1>11, <1>15, <1>16, <1>17

\* The commands of the groups that match are counted.
LEMMA CommandsCounted ==
  ASSUME NEW Groups, NEW groups \in Seq(Groups), \A group \in Groups : group.hooks \in Nat, NEW name
  PROVE  D!Commands(groups, name) \in Nat
<1>1. PICK n \in Nat : n = Len(groups)
  BY LenProperties
<1>2. PICK own : own = [i \in 1 .. n |-> IF D!Matches(groups[i], name) THEN groups[i].hooks ELSE 0]
  OBVIOUS
<1>3. own \in [1 .. n -> Nat]
  <2>1. \A i \in 1 .. n : groups[i].hooks \in Nat
    BY <1>1
  <2> QED
    BY <1>2, <2>1
<1>4. PICK step : step = [i \in 1 .. n |-> [k \in Nat |-> k + own[i]]]
  OBVIOUS
<1>5. step \in [1 .. n -> [Nat -> Nat]]
  BY <1>3, <1>4
<1>6. PICK g : Follows(g, Nat, 0, n, step)
  <2>1. 0 \in Nat
    OBVIOUS
  <2> QED
    BY <1>5, <2>1, RecursionExists DEF Steps
<1>7. \A i \in 1 .. n : g[i] = g[i - 1] + own[i]
  <2> SUFFICES ASSUME NEW i \in 1 .. n PROVE g[i] = g[i - 1] + own[i]
    OBVIOUS
  <2>1. g[i - 1] \in Nat /\ g[i] = step[i][g[i - 1]]
    BY <1>6 DEF Follows
  <2>2. step[i] = [k \in Nat |-> k + own[i]]
    BY <1>4
  <2> QED
    BY <2>1, <2>2
<1>8. g = [i \in 0 .. n |-> IF i = 0 THEN 0
                           ELSE g[i - 1] + (IF D!Matches(groups[i], name) THEN groups[i].hooks ELSE 0)]
  BY <1>2, <1>6, <1>7 DEF Follows
<1> DEFINE Body(h) == [i \in 0 .. Len(groups) |->
                         IF i = 0 THEN 0
                         ELSE h[i - 1] + (IF D!Matches(groups[i], name) THEN groups[i].hooks ELSE 0)]
           sum == CHOOSE h : h = Body(h)
<1>9. D!Commands(groups, name) = sum[Len(groups)]
  BY DEF D!Commands
<1>10. sum = Body(sum)
  BY <1>1, <1>8
<1>11. PICK m : m = sum
  OBVIOUS
<1>12. m[0] = 0 /\ \A i \in 1 .. n : m[i] = m[i - 1] + own[i]
  <2> HIDE DEF sum
  <2>1. m = [i \in 0 .. n |-> IF i = 0 THEN 0
                             ELSE m[i - 1] + (IF D!Matches(groups[i], name) THEN groups[i].hooks ELSE 0)]
    BY <1>1, <1>10, <1>11
  <2> QED
    BY <1>2, <2>1
<1> HIDE DEF Body, sum
<1>13. PICK held \in SUBSET Nat : held = {k \in Nat : k <= n => m[k] \in Nat}
  OBVIOUS
<1>14. 0 \in held
  BY <1>12, <1>13
<1>15. ASSUME NEW k \in held PROVE k + 1 \in held
  <2> SUFFICES ASSUME k + 1 <= n PROVE m[k + 1] \in Nat
    BY <1>13
  <2>1. k \in Nat /\ m[k] \in Nat
    BY <1>13
  <2>2. k + 1 \in 1 .. n /\ (k + 1) - 1 = k
    BY <2>1
  <2>3. m[k + 1] = m[k] + own[k + 1] /\ own[k + 1] \in Nat
    BY <1>3, <1>12, <2>2
  <2> QED
    BY <2>1, <2>3
<1>16. held = Nat
  BY <1>14, <1>15, Induction
<1>17. n \in held /\ n <= n
  BY <1>16
<1>18. D!Commands(groups, name) = m[n]
  BY <1>1, <1>9, <1>11
<1> QED
  BY <1>13, <1>17, <1>18

LEMMA CommandsAreNat == \A name : D!Commands(PreToolUse, name) \in Nat /\ D!Commands(PostToolUse, name) \in Nat
<1>1. PICK Groups : Groups = [matcher : SUBSET STRING, hooks : Nat]
  OBVIOUS
<1>2. PreToolUse \in Seq(Groups) /\ PostToolUse \in Seq(Groups) /\ \A group \in Groups : group.hooks \in Nat
  BY <1>1, HookAssumption
<1> QED
  BY <1>2, CommandsCounted

-------------------------------------------------------------------------------
(* The run of a call *)

CallRuns ==
  [at : {"no", "running", "returning", "settled"}, list : Seq(Middlewares), next : Nat,
   pending : Seq(Sayings), name : {"none"} \cup ToolNames, ends : Seq(Ends),
   decision : Decisions, tool : {"no", "refused", "executed"}, after : Seq(Ends), result : Nat]

SaidWhen(strict, m) == IF m.says = "throw" THEN IF strict THEN "deny" ELSE "none" ELSE m.says

Shuts(r, m) == IF m.says = "hooks" THEN D!HooksSay(r.ends) # "allow" ELSE ~ m.delegates
Asked(r) == Len(r.ends) = D!Commands(PreToolUse, r.name)
Denied(r) == r.decision = "deny" \/ "deny" \in ToSet(r.pending)
Heeds(strict, r, m) == /\ m.says = "hooks" => Asked(r)
                       /\ m.says # "hooks" /\ SaidWhen(strict, m) = "deny" => Denied(r)

\* Nobody before the middleware at work has ended the chain, and whoever denied is heeded.
Passed(strict, r) ==
  \A i \in 1 .. r.next - 1 : ~ Shuts(r, r.list[i]) /\ Heeds(strict, r, r.list[i])

\* Hooks are at work only where the chain has come to them, and all that are asked for are.
Working(r) ==
  r.at = "running" => /\ Len(r.ends) <= D!Commands(PreToolUse, r.name)
                      /\ r.ends # << >> => \E i \in DOMAIN r.list : i <= r.next /\ r.list[i].says = "hooks"

\* A chain that is over was ended by the middleware it is at, or is at none.
Over(strict, r) ==
  r.at \in {"returning", "settled"} =>
    /\ \A i \in DOMAIN r.list : i = r.next => Shuts(r, r.list[i]) /\ Heeds(strict, r, r.list[i])
    /\ \A i \in 1 .. Len(r.ends) : D!HookSays(r.ends[i]) = "deny" => Denied(r)

Applied(r) ==
  /\ r.at = "settled" => r.pending = << >>
  /\ r.tool # "no" => r.at = "settled" /\ (r.tool = "executed" => r.decision # "deny")

Good(after) == {i \in 1 .. Len(after) : after[i].how = "exit" /\ after[i].code = 0
                                          /\ after[i].spells = "content"}
LastOf(good) == IF good = {} THEN 0 ELSE CHOOSE i \in good : \A j \in good : i >= j
Replaced(r) == r.result = LastOf(Good(r.after))

CallOK(strict, r) ==
  /\ r \in CallRuns /\ 1 <= r.next /\ r.next <= Len(r.list) + 1
  /\ Passed(strict, r) /\ Working(r) /\ Over(strict, r) /\ Applied(r) /\ Replaced(r)

LEMMA NoCall ==
  ASSUME NEW strict, NEW r, r \in {D!Unrun, [D!Unrun EXCEPT !.at = "settled", !.decision = "deny"]}
  PROVE  CallOK(strict, r)
<1>1. << >> \in Seq(Middlewares) /\ << >> \in Seq(Sayings) /\ << >> \in Seq(Ends)
  OBVIOUS
<1>2. /\ r \in CallRuns /\ r.at \in {"no", "settled"} /\ r.list = << >> /\ r.next = 1
      /\ r.pending = << >> /\ r.ends = << >> /\ r.tool = "no" /\ r.after = << >> /\ r.result = 0
  <2>1. CASE r = D!Unrun
    BY <1>1, <2>1 DEF D!Unrun, CallRuns, Decisions
  <2>2. CASE r = [D!Unrun EXCEPT !.at = "settled", !.decision = "deny"]
    BY <1>1, <2>2 DEF D!Unrun, CallRuns, Decisions
  <2> QED
    BY <2>1, <2>2
<1>3. Passed(strict, r) /\ Working(r) /\ Over(strict, r) /\ Applied(r)
  BY <1>2 DEF Passed, Working, Over, Applied
<1>4. Good(r.after) = {}
  BY <1>2 DEF Good
<1> QED
  BY <1>2, <1>3, <1>4 DEF CallOK, Replaced, LastOf

LEMMA CallStarts ==
  ASSUME NEW strict, NEW copy \in Seq(Middlewares), NEW name \in ToolNames
  PROVE  CallOK(strict, [D!Unrun EXCEPT !.at = "running", !.list = copy, !.name = name])
<1>1. PICK r : r = [D!Unrun EXCEPT !.at = "running", !.list = copy, !.name = name]
  OBVIOUS
<1>2. << >> \in Seq(Sayings) /\ << >> \in Seq(Ends)
  OBVIOUS
<1>3. /\ r \in CallRuns /\ r.at = "running" /\ r.list = copy /\ r.next = 1 /\ r.name = name
      /\ r.pending = << >> /\ r.ends = << >> /\ r.tool = "no" /\ r.after = << >> /\ r.result = 0
  BY <1>1, <1>2 DEF D!Unrun, CallRuns, Decisions
<1>4. Len(r.list) \in Nat
  BY <1>3
<1>5. D!Commands(PreToolUse, r.name) \in Nat
  BY CommandsAreNat
<1>6. Passed(strict, r) /\ Working(r) /\ Over(strict, r) /\ Applied(r)
  BY <1>3, <1>5 DEF Passed, Working, Over, Applied
<1>7. Good(r.after) = {}
  BY <1>3 DEF Good
<1> QED
  BY <1>1, <1>3, <1>4, <1>6, <1>7 DEF CallOK, Replaced, LastOf

\* A middleware goes on to the next one, and leaves what it says for its return.
LEMMA CallDelegates ==
  ASSUME NEW strict, NEW r, NEW said \in Sayings, CallOK(strict, r),
         r.at = "running", r.next <= Len(r.list), ~ Shuts(r, r.list[r.next]),
         r.list[r.next].says = "hooks" => Asked(r),
         r.list[r.next].says # "hooks" /\ SaidWhen(strict, r.list[r.next]) = "deny" => said = "deny"
  PROVE  CallOK(strict, D!Delegate(r, said))
<1>1. PICK q : q = D!Delegate(r, said)
  OBVIOUS
<1>2. r \in CallRuns /\ r.next \in Nat /\ 1 <= r.next /\ r.pending \in Seq(Sayings)
  BY DEF CallOK, CallRuns
<1>3. Append(r.pending, said) \in Seq(Sayings)
  BY <1>2, AppendProperties
<1>4. /\ q.next = r.next + 1 /\ q.pending = Append(r.pending, said)
      /\ q.at = r.at /\ q.list = r.list /\ q.name = r.name /\ q.ends = r.ends
      /\ q.decision = r.decision /\ q.tool = r.tool /\ q.after = r.after /\ q.result = r.result
  BY <1>1, <1>2 DEF D!Delegate, CallRuns
<1>5. q \in CallRuns
  <2>1. PICK further, more : further = r.next + 1 /\ more = Append(r.pending, said)
    OBVIOUS
  <2>2. further \in Nat /\ more \in Seq(Sayings)
    BY <1>2, <1>3, <2>1
  <2>3. q = [r EXCEPT !.next = further, !.pending = more]
    BY <1>1, <2>1 DEF D!Delegate
  <2> QED
    BY <1>2, <2>2, <2>3 DEF CallRuns
<1>6. ToSet(q.pending) = ToSet(r.pending) \cup {said}
  BY <1>2, <1>4, ElementsOfAppend
<1>7. Denied(r) \/ said = "deny" => Denied(q)
  BY <1>4, <1>6 DEF Denied
<1>8. Asked(q) <=> Asked(r)
  BY <1>4 DEF Asked
<1>9. \A m : Shuts(q, m) <=> Shuts(r, m)
  BY <1>4 DEF Shuts
<1>10. Passed(strict, q)
  <2> SUFFICES ASSUME NEW i \in 1 .. q.next - 1
               PROVE  ~ Shuts(q, q.list[i]) /\ Heeds(strict, q, q.list[i])
    BY DEF Passed
  <2>1. CASE i = r.next
    BY <1>4, <1>7, <1>8, <1>9, <2>1 DEF Heeds
  <2>2. CASE i # r.next
    <3>1. i \in 1 .. r.next - 1
      BY <1>2, <1>4, <2>2
    <3>2. ~ Shuts(r, r.list[i]) /\ Heeds(strict, r, r.list[i])
      BY <3>1 DEF CallOK, Passed
    <3> QED
      BY <1>4, <1>7, <1>8, <1>9, <3>2 DEF Heeds
  <2> QED
    BY <2>1, <2>2
<1>11. Working(q)
  <2>1. \A i \in DOMAIN q.list : i \in Nat
    BY <1>5 DEF CallRuns
  <2> QED
    BY <1>2, <1>4, <2>1 DEF CallOK, Working
<1>12. Over(strict, q) /\ Applied(q) /\ Replaced(q) /\ 1 <= q.next /\ q.next <= Len(q.list) + 1
  <2>1. Len(r.list) \in Nat
    BY <1>2 DEF CallRuns
  <2> QED
    BY <1>2, <1>4, <2>1 DEF CallOK, Over, Applied, Replaced
<1> QED
  BY <1>1, <1>5, <1>10, <1>11, <1>12 DEF CallOK

\* The hooks of a chain that has passed them have denied nothing.
LEMMA HooksPassed ==
  ASSUME NEW strict, NEW r, CallOK(strict, r), r.at = "running",
         ~ (r.next \in DOMAIN r.list /\ r.list[r.next].says = "hooks"),
         NEW i \in 1 .. Len(r.ends)
  PROVE  D!HookSays(r.ends[i]) # "deny"
<1>1. r.ends \in Seq(Ends) /\ r.next \in Nat /\ DOMAIN r.list = 1 .. Len(r.list)
  BY DEF CallOK, CallRuns
<1>2. r.ends # << >>
  BY <1>1
<1>3. PICK j \in DOMAIN r.list : j <= r.next /\ r.list[j].says = "hooks"
  BY <1>2 DEF CallOK, Working
<1>4. j \in 1 .. r.next - 1
  BY <1>1, <1>3
<1>5. D!HooksSay(r.ends) = "allow"
  BY <1>3, <1>4 DEF CallOK, Passed, Shuts
<1> QED
  BY <1>1, <1>5, HooksDecide

\* A middleware ends the chain.
LEMMA CallAnswers ==
  ASSUME NEW strict, NEW r, NEW said \in Sayings, CallOK(strict, r),
         r.at = "running", r.next <= Len(r.list), Shuts(r, r.list[r.next]),
         r.list[r.next].says = "hooks" => Asked(r) /\ said = D!HooksSay(r.ends),
         r.list[r.next].says # "hooks" /\ SaidWhen(strict, r.list[r.next]) = "deny" => said = "deny"
  PROVE  CallOK(strict, D!Answer(r, said))
<1>1. PICK q : q = D!Answer(r, said)
  OBVIOUS
<1>2. /\ r \in CallRuns /\ r.next \in Nat /\ 1 <= r.next /\ r.decision \in Decisions
      /\ r.ends \in Seq(Ends) /\ Len(r.list) \in Nat /\ DOMAIN r.list = 1 .. Len(r.list)
  BY DEF CallOK, CallRuns
<1>3. PICK merged : merged = D!Merge(r.decision, said)
  OBVIOUS
<1>4. /\ merged \in Decisions
      /\ "deny" \in {r.decision, said} => merged = "deny"
  BY <1>2, <1>3, Merging
<1>5. q = [r EXCEPT !.at = "returning", !.decision = merged]
  BY <1>1, <1>3 DEF D!Answer
<1>6. /\ q \in CallRuns /\ q.at = "returning" /\ q.decision = merged
      /\ q.next = r.next /\ q.pending = r.pending /\ q.list = r.list /\ q.name = r.name
      /\ q.ends = r.ends /\ q.tool = r.tool /\ q.after = r.after /\ q.result = r.result
  BY <1>2, <1>4, <1>5 DEF CallRuns
<1>7. Denied(r) \/ said = "deny" => Denied(q)
  BY <1>4, <1>6 DEF Denied
<1>8. (Asked(q) <=> Asked(r)) /\ \A m : Shuts(q, m) <=> Shuts(r, m)
  BY <1>6 DEF Asked, Shuts
<1>9. Passed(strict, q)
  <2> SUFFICES ASSUME NEW i \in 1 .. q.next - 1
               PROVE  ~ Shuts(q, q.list[i]) /\ Heeds(strict, q, q.list[i])
    BY DEF Passed
  <2>1. ~ Shuts(r, r.list[i]) /\ Heeds(strict, r, r.list[i])
    BY <1>6 DEF CallOK, Passed
  <2> QED
    BY <1>6, <1>7, <1>8, <2>1 DEF Heeds
<1>10. Shuts(q, q.list[q.next]) /\ Heeds(strict, q, q.list[q.next])
  BY <1>6, <1>7, <1>8 DEF Heeds
<1>11. ASSUME NEW i \in 1 .. Len(r.ends), D!HookSays(r.ends[i]) = "deny"
       PROVE  said = "deny"
  <2>1. r.next \in DOMAIN r.list /\ r.list[r.next].says = "hooks"
    BY <1>11, HooksPassed
  <2>2. D!HooksSay(r.ends) = "deny"
    BY <1>2, <1>11, HooksDecide
  <2> QED
    BY <2>1, <2>2
<1>12. Over(strict, q)
  <2>1. \A i \in 1 .. Len(q.ends) : D!HookSays(q.ends[i]) = "deny" => Denied(q)
    BY <1>6, <1>7, <1>11
  <2> QED
    BY <1>10, <2>1 DEF Over
<1>13. Working(q) /\ Applied(q) /\ Replaced(q) /\ 1 <= q.next /\ q.next <= Len(q.list) + 1
  BY <1>6 DEF CallOK, Working, Applied, Replaced
<1> QED
  BY <1>1, <1>6, <1>9, <1>12, <1>13 DEF CallOK

\* No middleware is left.
LEMMA CallEnds ==
  ASSUME NEW strict, NEW r, CallOK(strict, r), r.at = "running", r.next > Len(r.list)
  PROVE  CallOK(strict, [r EXCEPT !.at = "returning"])
<1>1. PICK q : q = [r EXCEPT !.at = "returning"]
  OBVIOUS
<1>2. /\ r \in CallRuns /\ r.next \in Nat /\ r.ends \in Seq(Ends) /\ Len(r.list) \in Nat
      /\ DOMAIN r.list = 1 .. Len(r.list)
  BY DEF CallOK, CallRuns
<1>3. /\ q \in CallRuns /\ q.at = "returning" /\ q.decision = r.decision
      /\ q.next = r.next /\ q.pending = r.pending /\ q.list = r.list /\ q.name = r.name
      /\ q.ends = r.ends /\ q.tool = r.tool /\ q.after = r.after /\ q.result = r.result
  BY <1>1, <1>2 DEF CallRuns
<1>4. Passed(strict, q)
  BY <1>3 DEF CallOK, Passed, Shuts, Heeds, Asked, Denied
<1>5. r.next \notin DOMAIN r.list
  BY <1>2
<1>6. \A i \in 1 .. Len(r.ends) : D!HookSays(r.ends[i]) # "deny"
  BY <1>5, HooksPassed
<1>7. Over(strict, q)
  BY <1>3, <1>5, <1>6 DEF Over
<1>8. Working(q) /\ Applied(q) /\ Replaced(q) /\ 1 <= q.next /\ q.next <= Len(q.list) + 1
  BY <1>3 DEF CallOK, Working, Applied, Replaced
<1> QED
  BY <1>1, <1>3, <1>4, <1>7, <1>8 DEF CallOK

\* A middleware that delegated returns: what it left is heeded still.
LEMMA CallReturns ==
  ASSUME NEW strict, NEW r, CallOK(strict, r), r.at = "returning", r.pending # << >>
  PROVE  CallOK(strict, [r EXCEPT !.pending = D!Front(@), !.decision = D!Merge(@, D!Last(r.pending))])
<1>1. PICK q, front, merged :
        /\ front = D!Front(r.pending) /\ merged = D!Merge(r.decision, D!Last(r.pending))
        /\ q = [r EXCEPT !.pending = front, !.decision = merged]
  OBVIOUS
<1>2. /\ r \in CallRuns /\ r.decision \in Decisions /\ r.pending \in Seq(Sayings)
  BY DEF CallOK, CallRuns
<1>3. PICK n \in Nat : n = Len(r.pending) /\ n # 0 /\ DOMAIN r.pending = 1 .. n
  BY <1>2, LenProperties, EmptySeq
<1>4. front = [i \in 1 .. n - 1 |-> r.pending[i]] /\ D!Last(r.pending) = r.pending[n]
  BY <1>1, <1>2, <1>3 DEF D!Front, D!Last
<1>5. \A i \in 1 .. n : r.pending[i] \in Sayings
  BY <1>2, <1>3
<1>6. front \in Seq(Sayings) /\ DOMAIN front = 1 .. n - 1
  BY <1>3, <1>4, <1>5
<1>7. /\ merged \in Decisions
      /\ "deny" \in {r.decision, r.pending[n]} => merged = "deny"
  BY <1>1, <1>2, <1>3, <1>4, <1>5, Merging
<1>8. /\ q \in CallRuns /\ q.at = r.at /\ q.decision = merged
      /\ q.next = r.next /\ q.pending = front /\ q.list = r.list /\ q.name = r.name
      /\ q.ends = r.ends /\ q.tool = r.tool /\ q.after = r.after /\ q.result = r.result
  BY <1>1, <1>2, <1>6, <1>7 DEF CallRuns
<1>9. ASSUME Denied(r) PROVE Denied(q)
  <2>1. CASE "deny" \in {r.decision, r.pending[n]}
    BY <1>7, <1>8, <2>1 DEF Denied
  <2>2. CASE "deny" \notin {r.decision, r.pending[n]}
    <3>1. PICK i \in 1 .. n : r.pending[i] = "deny"
      BY <1>3, <1>9, <2>2 DEF Denied, ToSet
    <3>2. i \in 1 .. n - 1
      BY <1>3, <2>2, <3>1
    <3>3. front[i] = "deny"
      BY <1>4, <3>1, <3>2
    <3> QED
      BY <1>6, <1>8, <3>2, <3>3 DEF Denied, ToSet
  <2> QED
    BY <2>1, <2>2
<1>10. (Asked(q) <=> Asked(r)) /\ \A m : Shuts(q, m) <=> Shuts(r, m)
  BY <1>8 DEF Asked, Shuts
<1>11. \A m : Heeds(strict, r, m) => Heeds(strict, q, m)
  BY <1>9, <1>10 DEF Heeds
<1>12. Passed(strict, q)
  BY <1>8, <1>10, <1>11 DEF CallOK, Passed
<1>13. Over(strict, q)
  BY <1>8, <1>9, <1>10, <1>11 DEF CallOK, Over
<1>14. Working(q) /\ Applied(q) /\ Replaced(q) /\ 1 <= q.next /\ q.next <= Len(q.list) + 1
  BY <1>8 DEF CallOK, Working, Applied, Replaced
<1> QED
  BY <1>1, <1>8, <1>12, <1>13, <1>14 DEF CallOK

LEMMA CallSettles ==
  ASSUME NEW strict, NEW r, CallOK(strict, r), r.at = "returning", r.pending = << >>
  PROVE  CallOK(strict, [r EXCEPT !.at = "settled"])
<1>1. PICK q : q = [r EXCEPT !.at = "settled"]
  OBVIOUS
<1>2. r \in CallRuns
  BY DEF CallOK
<1>3. /\ q \in CallRuns /\ q.at = "settled" /\ q.decision = r.decision
      /\ q.next = r.next /\ q.pending = r.pending /\ q.list = r.list /\ q.name = r.name
      /\ q.ends = r.ends /\ q.tool = r.tool /\ q.after = r.after /\ q.result = r.result
  BY <1>1, <1>2 DEF CallRuns
<1>4. Passed(strict, q)
  BY <1>3 DEF CallOK, Passed, Shuts, Heeds, Asked, Denied
<1>5. Over(strict, q)
  BY <1>3 DEF CallOK, Over, Shuts, Heeds, Asked, Denied
<1>6. Working(q) /\ Applied(q) /\ Replaced(q) /\ 1 <= q.next /\ q.next <= Len(q.list) + 1
  BY <1>3 DEF CallOK, Working, Applied, Replaced
<1> QED
  BY <1>1, <1>3, <1>4, <1>5, <1>6 DEF CallOK

LEMMA CallApplies ==
  ASSUME NEW strict, NEW r, CallOK(strict, r), r.at = "settled"
  PROVE  CallOK(strict, [r EXCEPT !.tool = IF r.decision = "deny" THEN "refused" ELSE "executed"])
<1>1. PICK outcome, q : /\ outcome = IF r.decision = "deny" THEN "refused" ELSE "executed"
                        /\ q = [r EXCEPT !.tool = outcome]
  OBVIOUS
<1>2. r \in CallRuns
  BY DEF CallOK
<1>3. /\ q \in CallRuns /\ q.tool = outcome /\ q.at = r.at /\ q.decision = r.decision
      /\ q.next = r.next /\ q.pending = r.pending /\ q.list = r.list /\ q.name = r.name
      /\ q.ends = r.ends /\ q.after = r.after /\ q.result = r.result
  BY <1>1, <1>2 DEF CallRuns
<1>4. Passed(strict, q)
  BY <1>3 DEF CallOK, Passed, Shuts, Heeds, Asked, Denied
<1>5. Over(strict, q)
  BY <1>3 DEF CallOK, Over, Shuts, Heeds, Asked, Denied
<1>6. Applied(q)
  BY <1>1, <1>3 DEF CallOK, Applied
<1>7. Working(q) /\ Replaced(q) /\ 1 <= q.next /\ q.next <= Len(q.list) + 1
  BY <1>3 DEF CallOK, Working, Replaced
<1> QED
  BY <1>1, <1>3, <1>4, <1>5, <1>6, <1>7 DEF CallOK

\* A hook of the chain is over; those that are left wait.
LEMMA HookEnds ==
  ASSUME NEW strict, NEW r, NEW end \in Ends, CallOK(strict, r), r.at = "running",
         r.next \in DOMAIN r.list, r.list[r.next].says = "hooks",
         Len(r.ends) < D!Commands(PreToolUse, r.name)
  PROVE  CallOK(strict, [r EXCEPT !.ends = Append(@, end)])
<1>1. PICK q, more : more = Append(r.ends, end) /\ q = [r EXCEPT !.ends = more]
  OBVIOUS
<1>2. /\ r \in CallRuns /\ r.next \in Nat /\ r.ends \in Seq(Ends) /\ Len(r.ends) \in Nat
      /\ D!Commands(PreToolUse, r.name) \in Nat
  BY CommandsAreNat DEF CallOK, CallRuns
<1>3. more \in Seq(Ends) /\ Len(more) = Len(r.ends) + 1
  BY <1>1, <1>2, AppendProperties
<1>4. /\ q \in CallRuns /\ q.at = "running" /\ q.decision = r.decision
      /\ q.next = r.next /\ q.pending = r.pending /\ q.list = r.list /\ q.name = r.name
      /\ q.ends = more /\ q.tool = r.tool /\ q.after = r.after /\ q.result = r.result
  BY <1>1, <1>2, <1>3 DEF CallRuns
<1>5. \A i \in 1 .. r.next - 1 : r.list[i].says # "hooks"
  <2>1. ~ Asked(r)
    BY <1>2 DEF Asked
  <2> QED
    BY <2>1 DEF CallOK, Passed, Heeds
<1>6. Passed(strict, q)
  BY <1>4, <1>5 DEF CallOK, Passed, Shuts, Heeds, Denied
<1>7. Working(q)
  <2>1. Len(q.ends) <= D!Commands(PreToolUse, q.name)
    BY <1>2, <1>3, <1>4
  <2>2. r.next \in DOMAIN q.list /\ r.next <= q.next /\ q.list[r.next].says = "hooks"
    BY <1>2, <1>4
  <2> QED
    BY <2>1, <2>2 DEF Working
<1>8. Over(strict, q) /\ Applied(q) /\ Replaced(q) /\ 1 <= q.next /\ q.next <= Len(q.list) + 1
  BY <1>4 DEF CallOK, Over, Applied, Replaced
<1> QED
  BY <1>1, <1>4, <1>6, <1>7, <1>8 DEF CallOK

\* The last one is over.
LEMMA HooksEnd ==
  ASSUME NEW strict, NEW r, CallOK(strict, r), r.at = "running",
         r.next \in DOMAIN r.list, r.list[r.next].says = "hooks", Asked(r)
  PROVE  CallOK(strict, D!HooksOver(r))
<1>1. r.next <= Len(r.list) /\ r.ends \in Seq(Ends)
  BY DEF CallOK, CallRuns
<1>2. D!HooksSay(r.ends) \in Decisions
  BY <1>1, HooksDecide
<1>3. CASE D!HooksSay(r.ends) = "allow"
  <2>1. "none" \in Sayings /\ ~ Shuts(r, r.list[r.next])
    BY <1>3 DEF Sayings, Shuts
  <2>2. CallOK(strict, D!Delegate(r, "none"))
    BY <1>1, <2>1, CallDelegates
  <2> QED
    BY <1>3, <2>2 DEF D!HooksOver
<1>4. CASE D!HooksSay(r.ends) # "allow"
  <2>1. D!HooksSay(r.ends) \in Sayings /\ Shuts(r, r.list[r.next])
    BY <1>2, <1>4 DEF Sayings, Shuts
  <2>2. CallOK(strict, D!Answer(r, D!HooksSay(r.ends)))
    BY <1>1, <2>1, CallAnswers
  <2> QED
    BY <1>4, <2>2 DEF D!HooksOver
<1> QED
  BY <1>3, <1>4

\* A hook after the call is over: the last good one is what the result is of.
LEMMA HookReplaces ==
  ASSUME NEW strict, NEW r, NEW end \in Ends, CallOK(strict, r), r.tool = "executed"
  PROVE  CallOK(strict, D!Mutated(r, end))
<1>1. PICK n : n = Len(r.after)
  OBVIOUS
<1>2. r \in CallRuns /\ r.after \in Seq(Ends) /\ n \in Nat /\ r.result \in Nat
  BY <1>1 DEF CallOK, CallRuns
<1>3. PICK q, more, best :
        /\ more = Append(r.after, end)
        /\ best = IF D!Exit(end) = 0 /\ D!Spells(end) = "content" THEN n + 1 ELSE r.result
        /\ q = [r EXCEPT !.after = more, !.result = best]
  OBVIOUS
<1>4. /\ more \in Seq(Ends) /\ Len(more) = n + 1 /\ more[n + 1] = end
      /\ \A i \in 1 .. n : more[i] = r.after[i]
  BY <1>1, <1>2, <1>3, AppendProperties
<1>5. best \in Nat
  BY <1>2, <1>3
<1>6. /\ q \in CallRuns /\ q.at = r.at /\ q.decision = r.decision /\ q.tool = r.tool
      /\ q.next = r.next /\ q.pending = r.pending /\ q.list = r.list /\ q.name = r.name
      /\ q.ends = r.ends /\ q.after = more /\ q.result = best
  BY <1>2, <1>3, <1>4, <1>5 DEF CallRuns
<1>7. D!Exit(end) = 0 /\ D!Spells(end) = "content" <=>
        end.how = "exit" /\ end.code = 0 /\ end.spells = "content"
  BY DEF D!Exit, D!Spells
<1>8. Good(more) = Good(r.after) \cup {i \in {n + 1} : end.how = "exit" /\ end.code = 0
                                                          /\ end.spells = "content"}
  <2>1. 1 .. n + 1 = 1 .. n \cup {n + 1}
    BY <1>2
  <2> QED
    BY <1>1, <1>4, <2>1 DEF Good
<1>9. \A i \in Good(r.after) : i \in 1 .. n
  BY <1>1 DEF Good
<1>10. ASSUME D!Exit(end) = 0, D!Spells(end) = "content" PROVE Replaced(q)
  <2>1. PICK good : good = Good(more)
    OBVIOUS
  <2>2. n + 1 \in good /\ \A i \in good : i \in 1 .. n + 1
    BY <1>2, <1>7, <1>8, <1>9, <1>10, <2>1
  <2>3. (CHOOSE i \in good : \A j \in good : i >= j) = n + 1
    BY <1>2, <2>2
  <2> QED
    <3>1. q.result = n + 1
      BY <1>3, <1>6, <1>10
    <3>2. Good(q.after) = good /\ good # {}
      BY <1>6, <2>1, <2>2
    <3>3. LastOf(good) = n + 1
      BY <2>3, <3>2 DEF LastOf
    <3> QED
      BY <3>1, <3>2, <3>3 DEF Replaced
<1>11. ASSUME ~ (D!Exit(end) = 0 /\ D!Spells(end) = "content") PROVE Replaced(q)
  <2>1. Good(more) = Good(r.after)
    BY <1>7, <1>8, <1>11
  <2> QED
    <3>1. q.result = r.result
      BY <1>3, <1>6, <1>11
    <3>2. Good(q.after) = Good(r.after)
      BY <1>6, <2>1
    <3>3. Replaced(r)
      BY DEF CallOK
    <3> QED
      BY <3>1, <3>2, <3>3 DEF Replaced
<1>12. Passed(strict, q)
  BY <1>6 DEF CallOK, Passed, Shuts, Heeds, Asked, Denied
<1>13. Over(strict, q)
  BY <1>6 DEF CallOK, Over, Shuts, Heeds, Asked, Denied
<1>14. Working(q) /\ Applied(q) /\ 1 <= q.next /\ q.next <= Len(q.list) + 1
  BY <1>6 DEF CallOK, Working, Applied
<1>15. q = D!Mutated(r, end)
  BY <1>1, <1>3 DEF D!Mutated
<1> QED
  BY <1>6, <1>10, <1>11, <1>12, <1>13, <1>14, <1>15 DEF CallOK

\* A call that is as these lemmas say is as the properties do.
LEMMA CallShown ==
  ASSUME NEW strict, NEW r, CallOK(strict, r), r.tool = "executed"
  PROVE  LET SomePassed(end) == \/ end.how # "unspawned" /\ end.spells \in {"allow", "allowOnce", "ask"}
                                \/ end.how = "exit" /\ end.code = 0 /\ end.spells # "deny"
             hooks == {i \in DOMAIN r.list : r.list[i].says = "hooks"}
             Reached(i) == \A j \in 1 .. i - 1 : ~ Shuts(r, r.list[j])
         IN /\ \A i \in DOMAIN r.list \ hooks : Reached(i) => SaidWhen(strict, r.list[i]) # "deny"
            /\ \A end \in ToSet(r.ends) : SomePassed(end)
            /\ \A i \in hooks : Reached(i) => Len(r.ends) = D!Commands(PreToolUse, r.name)
<1> DEFINE Reached(i) == \A j \in 1 .. i - 1 : ~ Shuts(r, r.list[j])
<1>1. /\ r.next \in Nat /\ 1 <= r.next /\ DOMAIN r.list = 1 .. Len(r.list) /\ Len(r.list) \in Nat
      /\ r.ends \in Seq(Ends)
  BY DEF CallOK, CallRuns
<1>2. r.at = "settled" /\ r.decision # "deny" /\ r.pending = << >>
  BY DEF CallOK, Applied
<1>3. ~ Denied(r)
  BY <1>2 DEF Denied, ToSet
<1>4. ASSUME NEW i \in DOMAIN r.list, Reached(i) PROVE Heeds(strict, r, r.list[i])
  <2>1. CASE i < r.next
    <3>1. i \in 1 .. r.next - 1
      BY <1>1, <2>1
    <3> QED
      BY <3>1 DEF CallOK, Passed
  <2>2. CASE i = r.next
    BY <1>2, <2>2 DEF CallOK, Over
  <2>3. CASE i > r.next
    <3>1. r.next \in DOMAIN r.list /\ r.next \in 1 .. i - 1
      BY <1>1, <2>3
    <3>2. Shuts(r, r.list[r.next])
      BY <1>2, <3>1 DEF CallOK, Over
    <3> QED
      BY <1>4, <3>1, <3>2
  <2> QED
    BY <1>1, <2>1, <2>2, <2>3
<1>5. ASSUME NEW end \in ToSet(r.ends)
      PROVE  \/ end.how # "unspawned" /\ end.spells \in {"allow", "allowOnce", "ask"}
             \/ end.how = "exit" /\ end.code = 0 /\ end.spells # "deny"
  <2>1. PICK i \in 1 .. Len(r.ends) : end = r.ends[i]
    BY <1>1 DEF ToSet
  <2>2. D!HookSays(end) # "deny"
    BY <1>2, <1>3, <2>1 DEF CallOK, Over
  <2> QED
    BY <2>2, HookDecides
<1> QED
  BY <1>3, <1>4, <1>5 DEF Heeds, Asked

-------------------------------------------------------------------------------
(* The waterfall *)

DispatchTyped ==
  /\ chain \in Seq(Middlewares) /\ run \in [Callers -> CallRuns]
  /\ disposals \in [Disposers -> {"no", "waiting", "returned"}]
  /\ disposeRequested \in BOOLEAN /\ released \in BOOLEAN /\ timedOut \in BOOLEAN

CallsOK == \A c \in Callers : CallOK(failClosed, run[c])

\* The promise that dispose() waits for is resolved when no call is in flight, or for want
\* of time, and who returned has waited for it.
Resting ==
  /\ ~ disposeRequested => ~ released /\ \A d \in Disposers : disposals[d] = "no"
  /\ released /\ ~ timedOut => D!InFlight = {}
  /\ \A d \in Disposers : disposals[d] = "returned" => released

LEMMA DispatchSplices == \A s, x : D!Spliced(s, x) = Spliced(s, x)
<1>1. \A s, at : D!ElementsAt(s, at) = ElementsAt(s, at)
  BY DEF D!ElementsAt, ElementsAt, D!Nth, Nth, D!Cardinality, Cardinality, D!IsInjective, IsInjective
<1> QED
  BY <1>1 DEF D!Spliced, Spliced

\* One call is changed.
LEMMA SetCall ==
  ASSUME DispatchTyped, CallsOK, NEW c \in Callers, NEW q, CallOK(failClosed, q),
         run' = [run EXCEPT ![c] = q], UNCHANGED << failClosed, chain >>
  PROVE  /\ run' \in [Callers -> CallRuns] /\ CallsOK' /\ chain' \in Seq(Middlewares)
         /\ run'[c] = q /\ \A d \in Callers : d # c => run'[d] = run[d]
<1>1. q \in CallRuns
  BY DEF CallOK
<1>2. /\ run' \in [Callers -> CallRuns]
      /\ run'[c] = q /\ \A d \in Callers : d # c => run'[d] = run[d]
  BY <1>1 DEF DispatchTyped
<1>3. \A d \in Callers : CallOK(failClosed, run'[d])
  BY <1>2 DEF CallsOK
<1> QED
  BY <1>2, <1>3 DEF CallsOK, DispatchTyped

\* One that is in flight stays so, or one that is not is not afterwards.
LEMMA FlightKept ==
  ASSUME DispatchTyped, CallsOK, Resting, NEW c \in Callers, NEW q, CallOK(failClosed, q),
         run' = [run EXCEPT ![c] = q], UNCHANGED << failClosed, chain >>, UNCHANGED D!teardownVars,
         q.at \in {"running", "returning"} => run[c].at \in {"running", "returning"}
  PROVE  DispatchTyped' /\ CallsOK' /\ Resting'
<1>1. /\ run' \in [Callers -> CallRuns] /\ CallsOK' /\ chain' \in Seq(Middlewares)
      /\ run'[c] = q /\ \A d \in Callers : d # c => run'[d] = run[d]
  BY SetCall
<1>2. DispatchTyped'
  BY <1>1 DEF DispatchTyped, D!teardownVars
<1>3. D!InFlight' \subseteq D!InFlight
  BY <1>1 DEF D!InFlight
<1>4. Resting'
  BY <1>3 DEF Resting, D!teardownVars
<1> QED
  BY <1>1, <1>2, <1>4

LEMMA CallSteps ==
  ASSUME DispatchTyped, CallsOK, Resting, NEW c \in Callers,
         \/ D!Fire(c) \/ D!NoHook(c) \/ D!EndOfChain(c) \/ D!Return(c) \/ D!Apply(c)
         \/ \E end \in Ends : D!Hook(c, end) \/ D!HookAfter(c, end)
  PROVE  DispatchTyped' /\ CallsOK' /\ Resting'
<1>1. PICK r : r = run[c]
  OBVIOUS
<1>2. /\ r \in CallRuns /\ CallOK(failClosed, r) /\ r.next \in Nat /\ 1 <= r.next
      /\ DOMAIN r.list = 1 .. Len(r.list) /\ Len(r.list) \in Nat /\ Len(r.ends) \in Nat
      /\ \A i \in DOMAIN r.list : r.list[i] \in Middlewares
  BY <1>1 DEF DispatchTyped, CallsOK, CallOK, CallRuns
<1> DEFINE Becomes(q) == /\ CallOK(failClosed, q) /\ run' = [run EXCEPT ![c] = q]
                         /\ UNCHANGED << failClosed, chain >> /\ UNCHANGED D!teardownVars
                         /\ q.at \in {"running", "returning"} => r.at \in {"running", "returning"}
<1>3. SUFFICES \E q : Becomes(q)
  BY <1>1, FlightKept
<1>4. CASE D!Fire(c)
  <2>1. PICK m : m = r.list[r.next]
    OBVIOUS
  <2>2. /\ r.at = "running" /\ r.next <= Len(r.list) /\ m.says # "hooks"
        /\ run' = [run EXCEPT ![c] = IF m.delegates THEN D!Delegate(r, D!Said(m))
                                     ELSE D!Answer(r, D!Said(m))]
        /\ UNCHANGED << failClosed, chain >> /\ UNCHANGED D!teardownVars
    BY <1>1, <1>4, <2>1 DEF D!Fire, D!Running, D!Here
  <2>3. m \in [says : {"none", "allow", "ask", "deny", "throw", "hooks"}, delegates : BOOLEAN]
    BY <1>2, <2>1, <2>2, MiddlewareAssumption
  <2>4. D!Said(m) = SaidWhen(failClosed, m) /\ D!Said(m) \in Sayings
    BY <2>2, <2>3 DEF D!Said, SaidWhen, Sayings, Decisions
  <2>5. Shuts(r, m) <=> ~ m.delegates
    BY <2>2 DEF Shuts
  <2>6. CASE m.delegates
    <3>1. CallOK(failClosed, D!Delegate(r, D!Said(m)))
      BY <1>2, <2>1, <2>2, <2>4, <2>5, <2>6, CallDelegates
    <3> QED
      BY <2>2, <2>6, <3>1
  <2>7. CASE ~ m.delegates
    <3>1. CallOK(failClosed, D!Answer(r, D!Said(m)))
      BY <1>2, <2>1, <2>2, <2>4, <2>5, <2>7, CallAnswers
    <3> QED
      BY <2>2, <2>7, <3>1
  <2> QED
    BY <2>6, <2>7
<1>5. CASE D!NoHook(c)
  <2>1. /\ r.at = "running" /\ r.next <= Len(r.list) /\ r.list[r.next].says = "hooks"
        /\ D!Commands(PreToolUse, r.name) = 0 /\ run' = [run EXCEPT ![c] = D!HooksOver(r)]
        /\ UNCHANGED << failClosed, chain >> /\ UNCHANGED D!teardownVars
    BY <1>1, <1>5 DEF D!NoHook, D!Running, D!Here
  <2>2. Asked(r)
    BY <1>2, <2>1 DEF CallOK, Working, Asked
  <2>3. CallOK(failClosed, D!HooksOver(r))
    BY <1>2, <2>1, <2>2, HooksEnd
  <2> QED
    BY <2>1, <2>3
<1>6. CASE D!EndOfChain(c)
  <2>1. /\ r.at = "running" /\ r.next > Len(r.list) /\ run' = [run EXCEPT ![c] = [r EXCEPT !.at = "returning"]]
        /\ UNCHANGED << failClosed, chain >> /\ UNCHANGED D!teardownVars
    BY <1>1, <1>6 DEF D!EndOfChain
  <2>2. CallOK(failClosed, [r EXCEPT !.at = "returning"])
    BY <1>2, <2>1, CallEnds
  <2> QED
    BY <2>1, <2>2
<1>7. CASE D!Return(c)
  <2>1. PICK back : back = [r EXCEPT !.pending = D!Front(@), !.decision = D!Merge(@, D!Last(r.pending))]
    OBVIOUS
  <2>2. /\ r.at = "returning" /\ r.pending # << >> /\ run' = [run EXCEPT ![c] = back]
        /\ UNCHANGED << failClosed, chain >> /\ UNCHANGED D!teardownVars
    BY <1>1, <1>7, <2>1 DEF D!Return
  <2>3. CallOK(failClosed, back)
    BY <1>2, <2>1, <2>2, CallReturns
  <2> QED
    BY <2>2, <2>3
<1>8. CASE D!Apply(c)
  <2>1. PICK done : done = [r EXCEPT !.tool = IF r.decision = "deny" THEN "refused" ELSE "executed"]
    OBVIOUS
  <2>2. /\ r.at = "settled" /\ run' = [run EXCEPT ![c] = done]
        /\ UNCHANGED << failClosed, chain >> /\ UNCHANGED D!teardownVars
    BY <1>1, <1>8, <2>1 DEF D!Apply
  <2>3. CallOK(failClosed, done) /\ done.at = "settled"
    BY <1>2, <2>1, <2>2, CallApplies DEF CallRuns
  <2> QED
    BY <2>2, <2>3
<1>9. ASSUME NEW end \in Ends, D!Hook(c, end)
      PROVE  \E q : Becomes(q)
  <2>1. PICK hooked, asked : hooked = [r EXCEPT !.ends = Append(@, end)] /\ asked = D!Commands(PreToolUse, r.name)
    OBVIOUS
  <2>2. /\ r.at = "running" /\ r.next <= Len(r.list) /\ r.list[r.next].says = "hooks"
        /\ asked - Len(r.ends) > 0
        /\ run' = [run EXCEPT ![c] = IF asked - Len(r.ends) > 1 THEN hooked ELSE D!HooksOver(hooked)]
        /\ UNCHANGED << failClosed, chain >> /\ UNCHANGED D!teardownVars
    BY <1>1, <1>9, <2>1 DEF D!Hook, D!Running, D!Here
  <2>3. asked \in Nat /\ r.next \in DOMAIN r.list /\ Len(r.ends) < asked
    BY <1>2, <2>1, <2>2, CommandsAreNat
  <2>4. CallOK(failClosed, hooked)
    BY <1>2, <2>1, <2>2, <2>3, HookEnds
  <2>5. /\ hooked.at = "running" /\ hooked.next = r.next /\ hooked.list = r.list /\ hooked.name = r.name
        /\ hooked.ends = Append(r.ends, end) /\ r.ends \in Seq(Ends)
    BY <1>2, <2>1, <2>2 DEF CallRuns
  <2>6. CASE asked - Len(r.ends) > 1
    BY <2>2, <2>4, <2>6
  <2>7. CASE ~ asked - Len(r.ends) > 1
    <3>1. Len(hooked.ends) = Len(r.ends) + 1
      BY <2>5, AppendProperties
    <3>2. Asked(hooked)
      BY <1>2, <2>1, <2>3, <2>5, <2>7, <3>1 DEF Asked
    <3>3. CallOK(failClosed, D!HooksOver(hooked))
      BY <2>2, <2>3, <2>4, <2>5, <3>2, HooksEnd
    <3> QED
      BY <2>2, <2>7, <3>3
  <2> QED
    BY <2>6, <2>7
<1>10. ASSUME NEW end \in Ends, D!HookAfter(c, end)
       PROVE  \E q : Becomes(q)
  <2>1. /\ r.tool = "executed" /\ run' = [run EXCEPT ![c] = D!Mutated(r, end)]
        /\ UNCHANGED << failClosed, chain >> /\ UNCHANGED D!teardownVars
    BY <1>1, <1>10 DEF D!HookAfter
  <2>2. CallOK(failClosed, D!Mutated(r, end)) /\ D!Mutated(r, end).at = r.at
    <3>1. CallOK(failClosed, D!Mutated(r, end))
      BY <1>2, <2>1, HookReplaces
    <3>2. PICK more, best : D!Mutated(r, end) = [r EXCEPT !.after = more, !.result = best]
      BY DEF D!Mutated
    <3> QED
      BY <1>2, <3>1, <3>2 DEF CallRuns
  <2> QED
    BY <2>1, <2>2
<1> HIDE DEF Becomes
<1> QED
  BY <1>4, <1>5, <1>6, <1>7, <1>8, <1>9, <1>10

LEMMA DispatchStep ==
  ASSUME DispatchTyped, CallsOK, Resting, [D!Next]_D!dispatchVars
  PROVE  DispatchTyped' /\ CallsOK' /\ Resting'
<1>1. ASSUME NEW m \in Middlewares, D!Use(m) \/ D!Unuse(m)
      PROVE  DispatchTyped' /\ CallsOK' /\ Resting'
  <2>1. UNCHANGED << failClosed, run >> /\ UNCHANGED D!teardownVars
    BY <1>1 DEF D!Use, D!Unuse
  <2>2. chain' \in Seq(Middlewares)
    <3>1. chain \in Seq(Middlewares) /\ chain' \in {Append(chain, m), Spliced(chain, m)}
      BY <1>1, DispatchSplices DEF D!Use, D!Unuse, DispatchTyped
    <3>2. Append(chain, m) \in Seq(Middlewares) /\ Spliced(chain, m) \in Seq(Middlewares)
      BY <3>1, SplicedProperties
    <3> QED
      BY <3>1, <3>2
  <2> QED
    BY <2>1, <2>2 DEF DispatchTyped, CallsOK, Resting, D!teardownVars, D!InFlight
<1>2. ASSUME NEW c \in Callers, NEW name \in ToolNames, D!StartRun(c, name)
      PROVE  DispatchTyped' /\ CallsOK' /\ Resting'
  <2>1. PICK refused, begun : /\ refused = [D!Unrun EXCEPT !.at = "settled", !.decision = "deny"]
                              /\ begun = [D!Unrun EXCEPT !.at = "running", !.list = chain, !.name = name]
    OBVIOUS
  <2>2. /\ run[c].at = "no" /\ run' = [run EXCEPT ![c] = IF disposeRequested THEN refused ELSE begun]
        /\ UNCHANGED << failClosed, chain >> /\ UNCHANGED D!teardownVars
    BY <1>2, <2>1 DEF D!StartRun
  <2>3. CASE disposeRequested
    <3>1. CallOK(failClosed, refused) /\ refused.at = "settled"
      BY <2>1, NoCall DEF D!Unrun
    <3>2. run' = [run EXCEPT ![c] = refused]
      BY <2>2, <2>3
    <3> QED
      BY <2>2, <3>1, <3>2, FlightKept
  <2>4. CASE ~ disposeRequested
    <3>1. CallOK(failClosed, begun)
      BY <2>1, CallStarts DEF DispatchTyped
    <3>2. run' = [run EXCEPT ![c] = begun]
      BY <2>2, <2>4
    <3>3. run' \in [Callers -> CallRuns] /\ CallsOK' /\ chain' \in Seq(Middlewares)
      BY <2>2, <3>1, <3>2, SetCall
    <3>4. DispatchTyped'
      BY <2>2, <3>3 DEF DispatchTyped, D!teardownVars
    <3>5. ~ released
      BY <2>4 DEF Resting
    <3>6. Resting'
      BY <2>2, <2>4, <3>5 DEF Resting, D!teardownVars
    <3> QED
      BY <3>3, <3>4, <3>6
  <2> QED
    BY <2>3, <2>4
<1>3. ASSUME NEW c \in Callers,
             \/ D!Fire(c) \/ D!NoHook(c) \/ D!EndOfChain(c) \/ D!Return(c) \/ D!Apply(c)
             \/ \E end \in Ends : D!Hook(c, end) \/ D!HookAfter(c, end)
      PROVE  DispatchTyped' /\ CallsOK' /\ Resting'
  BY <1>3, CallSteps
<1>4. ASSUME NEW c \in Callers, D!Settle(c)
      PROVE  DispatchTyped' /\ CallsOK' /\ Resting'
  <2>1. PICK q : q = [run[c] EXCEPT !.at = "settled"]
    OBVIOUS
  <2>2. /\ run[c].at = "returning" /\ run[c].pending = << >> /\ run' = [run EXCEPT ![c] = q]
        /\ released' = (released \/ D!Releases(c))
        /\ UNCHANGED << failClosed, chain, disposeRequested, timedOut, disposals >>
    BY <1>4, <2>1 DEF D!Settle
  <2>3. CallOK(failClosed, q)
    BY <2>1, <2>2, CallSettles DEF CallsOK
  <2>4. /\ run' \in [Callers -> CallRuns] /\ CallsOK' /\ chain' \in Seq(Middlewares)
        /\ run'[c] = q /\ \A d \in Callers : d # c => run'[d] = run[d]
    BY <2>2, <2>3, SetCall
  <2>5. released' \in BOOLEAN
    BY <2>2
  <2>6. DispatchTyped'
    BY <2>2, <2>4, <2>5 DEF DispatchTyped
  <2>7. q.at = "settled"
    BY <2>1 DEF DispatchTyped, CallRuns
  <2>8. D!InFlight' = D!InFlight \ {c} /\ c \in D!InFlight
    BY <2>2, <2>4, <2>7 DEF D!InFlight
  <2>9. released' => disposeRequested
    BY <2>2 DEF Resting, D!Releases, DispatchTyped
  <2>10. released' /\ ~ timedOut => D!InFlight' = {}
    BY <2>2, <2>8 DEF Resting, D!Releases
  <2> QED
    BY <2>2, <2>4, <2>6, <2>9, <2>10 DEF Resting
<1>5. ASSUME NEW d \in Disposers, D!Dispose(d)
      PROVE  DispatchTyped' /\ CallsOK' /\ Resting'
  <2>1. disposals[d] = "no" /\ UNCHANGED << failClosed, timedOut, run >> /\ D!InFlight' = D!InFlight
    BY <1>5 DEF D!Dispose, D!InFlight
  <2>2. CallsOK'
    BY <2>1 DEF CallsOK
  <2>3. CASE disposeRequested
    <3>1. /\ disposals' = [disposals EXCEPT ![d] = "waiting"]
          /\ UNCHANGED << disposeRequested, released, chain >>
      BY <1>5, <2>3 DEF D!Dispose
    <3> QED
      BY <2>1, <2>2, <2>3, <3>1 DEF DispatchTyped, Resting
  <2>4. CASE ~ disposeRequested /\ D!InFlight = {}
    <3>1. /\ disposeRequested' = TRUE /\ chain' = << >> /\ released' = TRUE
          /\ disposals' = [disposals EXCEPT ![d] = "returned"]
      BY <1>5, <2>4 DEF D!Dispose
    <3> QED
      BY <2>1, <2>2, <2>4, <3>1 DEF DispatchTyped, Resting
  <2>5. CASE ~ disposeRequested /\ D!InFlight # {}
    <3>1. /\ disposeRequested' = TRUE /\ UNCHANGED << released, chain >>
          /\ disposals' = [disposals EXCEPT ![d] = "waiting"]
      BY <1>5, <2>5 DEF D!Dispose
    <3> QED
      BY <2>1, <2>2, <2>5, <3>1 DEF DispatchTyped, Resting
  <2> QED
    BY <2>3, <2>4, <2>5
<1>6. ASSUME NEW d \in Disposers, D!DisposeReturns(d)
      PROVE  DispatchTyped' /\ CallsOK' /\ Resting'
  BY <1>6 DEF D!DisposeReturns, DispatchTyped, CallsOK, Resting, D!InFlight
<1>7. CASE D!DisposeTimeout
  BY <1>7 DEF D!DisposeTimeout, DispatchTyped, CallsOK, Resting, D!InFlight
<1>8. CASE UNCHANGED D!dispatchVars
  BY <1>8 DEF D!dispatchVars, DispatchTyped, CallsOK, Resting, D!InFlight
<1> QED
  BY <1>1, <1>2, <1>3, <1>4, <1>5, <1>6, <1>7, <1>8 DEF D!Next

LEMMA DispatchBegins ==
  ASSUME D!Init
  PROVE  DispatchTyped /\ CallsOK /\ Resting
<1>1. << >> \in Seq(Middlewares)
  OBVIOUS
<1>2. \A strict : CallOK(strict, D!Unrun)
  BY NoCall
<1>3. D!Unrun \in CallRuns
  BY <1>2 DEF CallOK
<1>4. run = [c \in Callers |-> D!Unrun]
  BY DEF D!Init
<1> QED
  BY <1>1, <1>2, <1>3, <1>4 DEF D!Init, DispatchTyped, CallsOK, Resting

LEMMA DispatchInvariant ==
  Spec => [](DispatchTyped /\ CallsOK /\ Resting)
<1>1. Init => DispatchTyped /\ CallsOK /\ Resting
  BY DispatchBegins DEF Init
<1>2. ASSUME DispatchTyped, CallsOK, Resting, [Next]_serviceVars
      PROVE  DispatchTyped' /\ CallsOK' /\ Resting'
  <2>1. [D!Next]_D!dispatchVars
    BY <1>2 DEF Next, Rest, serviceVars, ofDispatch, D!dispatchVars
  <2> QED
    BY <1>2, <2>1, DispatchStep
<1> QED
  BY <1>1, <1>2, PTL DEF Spec

\* However the calls, the hooks, the registration of middlewares and the teardown
\* interleave, no call that something it reached denied runs its tool, and the result of
\* one is that of the last hook that replaced it (waterfall.ts, run and runWithWaterfall;
\* bridge.ts, runFor and runAfterFor).
THEOREM DenialsHold ==
  Spec => []DeniesHold
<1>1. ASSUME DispatchTyped, CallsOK PROVE D!DeniesHold
  <2> SUFFICES ASSUME NEW c \in Callers, run[c].tool = "executed"
               PROVE  LET SomePassed(end) == \/ end.how # "unspawned" /\ end.spells \in {"allow", "allowOnce", "ask"}
                                             \/ end.how = "exit" /\ end.code = 0 /\ end.spells # "deny"
                          hooks == {i \in DOMAIN run[c].list : run[c].list[i].says = "hooks"}
                          Reached(i) == \A j \in 1 .. i - 1 : ~ Shuts(run[c], run[c].list[j])
                      IN /\ \A i \in DOMAIN run[c].list \ hooks :
                              Reached(i) => SaidWhen(failClosed, run[c].list[i]) # "deny"
                         /\ \A end \in ToSet(run[c].ends) : SomePassed(end)
                         /\ \A i \in hooks : Reached(i) => Len(run[c].ends) = D!Commands(PreToolUse, run[c].name)
    BY DEF D!DeniesHold, D!Said, SaidWhen, Shuts, D!ToSet, ToSet
  <2>1. CallOK(failClosed, run[c])
    BY <1>1 DEF CallsOK
  <2> QED
    BY <2>1, CallShown
<1>2. ASSUME DispatchTyped, CallsOK PROVE D!ResultsByHooks
  <2>1. SUFFICES ASSUME NEW c \in Callers
                 PROVE  LET good == {i \in DOMAIN run[c].after :
                                       run[c].after[i].how = "exit" /\ run[c].after[i].code = 0
                                         /\ run[c].after[i].spells = "content"}
                        IN run[c].result = IF good = {} THEN 0 ELSE D!Max(good)
    BY DEF D!ResultsByHooks
  <2>2. run[c].after \in Seq(Ends) /\ Replaced(run[c])
    BY <1>2 DEF CallsOK, CallOK, CallRuns
  <2>3. DOMAIN run[c].after = 1 .. Len(run[c].after)
    BY <2>2, LenProperties
  <2> QED
    BY <2>2, <2>3 DEF Replaced, Good, LastOf, D!Max
<1>3. DispatchTyped /\ CallsOK => DeniesHold
  BY <1>1, <1>2 DEF DeniesHold
<1> QED
  BY <1>3, DispatchInvariant, PTL

-------------------------------------------------------------------------------
(* Plugins *)

LEMMA PluginsSplice ==
  /\ \A s, x : P!Spliced(s, x) = Spliced(s, x)
  /\ \A s : P!ToSet(s) = ToSet(s)
<1>1. \A s, at : P!ElementsAt(s, at) = ElementsAt(s, at)
  BY DEF P!ElementsAt, ElementsAt, P!Nth, Nth, P!Cardinality, Cardinality, P!IsInjective, IsInjective
<1> QED
  BY <1>1 DEF P!Spliced, Spliced, P!ToSet, ToSet

PluginsTyped ==
  /\ mounts \in Seq(Names) /\ order \in Seq(Names) /\ disposed \in Seq(Nat)
  /\ providers \in [{Service[n] : n \in Names} -> Seq(Nat)]

\* A plugin that is mounted has the number of its last mount, and `order` lists it once.
Mountings ==
  /\ DOMAIN mounted \subseteq Names
  /\ \A n \in DOMAIN mounted :
       /\ mounted[n] \in DOMAIN mounts /\ mounts[mounted[n]] = n
       /\ \A k \in DOMAIN mounts : mounts[k] = n => k <= mounted[n]
  /\ ToSet(order) = DOMAIN mounted /\ IsInjective(order)
  /\ ToSet(disposed) \subseteq DOMAIN mounts

\* A provider is that of a plugin of its service that is not disposed of.
Provided ==
  /\ \A s \in DOMAIN providers :
       /\ Len(providers[s]) <= 1
       /\ \A x \in ToSet(providers[s]) :
            x \in DOMAIN mounts /\ Service[mounts[x]] = s /\ x \notin ToSet(disposed)
  /\ \A n \in DOMAIN mounted :
       mounted[n] \notin ToSet(disposed) => mounted[n] \in ToSet(providers[Service[n]])
  /\ \A n \in Names : n \in DOMAIN shadows /\ n \notin denied =>
       shadows[n] \in ToSet(providers[Service[n]]) /\ mounts[shadows[n]] = n

LEMMA ShortInjective ==
  ASSUME NEW s \in Seq(Nat), Len(s) <= 1
  PROVE  IsInjective(s)
<1>1. Len(s) \in Nat /\ DOMAIN s = 1 .. Len(s)
  BY LenProperties
<1> QED
  BY <1>1 DEF IsInjective

\* An effect is disposed of: its provider goes, and its tool.
LEMMA BeginStep ==
  ASSUME PluginsTyped, Mountings, Provided, NEW n \in DOMAIN mounted, P!Begin(n),
         UNCHANGED << mounted, order, mounts >>
  PROVE  /\ PluginsTyped' /\ Mountings' /\ Provided'
         /\ disposed' = Append(disposed, mounted[n])
<1>1. PICK x, s : x = mounted[n] /\ s = Service[n]
  OBVIOUS
<1>2. /\ n \in Names /\ x \in DOMAIN mounts /\ mounts[x] = n /\ DOMAIN mounts \subseteq Nat
      /\ s \in {Service[m] : m \in Names} /\ DOMAIN providers = {Service[m] : m \in Names}
      /\ x \in Nat
  BY <1>1 DEF Mountings, PluginsTyped
<1>3. PICK stack, rest : stack = providers[s] /\ rest = Spliced(stack, x)
  OBVIOUS
<1>4. stack \in Seq(Nat) /\ Len(stack) <= 1 /\ Len(stack) \in Nat
  BY <1>2, <1>3 DEF PluginsTyped, Provided
<1>5. rest \in Seq(Nat) /\ Len(rest) <= Len(stack) /\ ToSet(rest) = ToSet(stack) \ {x}
  BY <1>3, <1>4, ShortInjective, SplicedProperties
<1>6. Len(rest) <= 1
  <2>1. Len(rest) \in Nat
    BY <1>5, LenProperties
  <2> QED
    BY <1>4, <1>5, <2>1
<1>7. /\ providers' = [providers EXCEPT ![s] = rest] /\ denied' = denied \cup {n} /\ shadows' = shadows
      /\ disposed' = Append(disposed, x)
  BY <1>1, <1>3, PluginsSplice DEF P!Begin, P!Unregister, P!Deny
<1>8. ToSet(disposed') = ToSet(disposed) \cup {x} /\ disposed' \in Seq(Nat)
  <2>1. disposed \in Seq(Nat)
    BY DEF PluginsTyped
  <2>2. ToSet(Append(disposed, x)) = ToSet(disposed) \cup {x}
    BY <1>2, <2>1, ElementsOfAppend
  <2>3. Append(disposed, x) \in Seq(Nat)
    BY <1>2, <2>1
  <2> QED
    BY <1>7, <2>2, <2>3
<1>9. /\ providers' \in [{Service[m] : m \in Names} -> Seq(Nat)] /\ providers'[s] = rest
      /\ DOMAIN providers' = DOMAIN providers
      /\ \A t \in DOMAIN providers : t # s => providers'[t] = providers[t]
  BY <1>2, <1>5, <1>7 DEF PluginsTyped
<1>10. PluginsTyped'
  BY <1>8, <1>9 DEF PluginsTyped
<1>11. Mountings'
  BY <1>2, <1>8 DEF Mountings
<1>12. ASSUME NEW t \in DOMAIN providers
       PROVE  /\ Len(providers'[t]) <= 1
              /\ \A y \in ToSet(providers'[t]) :
                   y \in DOMAIN mounts /\ Service[mounts[y]] = t /\ y \notin ToSet(disposed')
  <2>1. /\ Len(providers[t]) <= 1
        /\ \A y \in ToSet(providers[t]) :
             y \in DOMAIN mounts /\ Service[mounts[y]] = t /\ y \notin ToSet(disposed)
    BY DEF Provided
  <2>2. CASE t = s
    BY <1>3, <1>5, <1>6, <1>8, <1>9, <2>1, <2>2
  <2>3. CASE t # s
    BY <1>1, <1>2, <1>8, <1>9, <2>1, <2>3
  <2> QED
    BY <2>2, <2>3
<1>13. \A y : \A t \in DOMAIN providers :
         y \in ToSet(providers[t]) /\ y # x => y \in ToSet(providers'[t])
  BY <1>3, <1>5, <1>9
<1>14. ASSUME NEW m \in DOMAIN mounted, mounted[m] \notin ToSet(disposed')
       PROVE  mounted[m] \in ToSet(providers'[Service[m]])
  <2>1. mounted[m] \in ToSet(providers[Service[m]]) /\ Service[m] \in DOMAIN providers
    BY <1>2, <1>8, <1>14 DEF Provided, Mountings
  <2> QED
    BY <1>8, <1>13, <1>14, <2>1
<1>15. ASSUME NEW m \in Names, m \in DOMAIN shadows', m \notin denied'
       PROVE  shadows'[m] \in ToSet(providers'[Service[m]]) /\ mounts[shadows'[m]] = m
  <2>1. /\ shadows[m] \in ToSet(providers[Service[m]]) /\ mounts[shadows[m]] = m /\ m # n
        /\ Service[m] \in DOMAIN providers
    BY <1>2, <1>7, <1>15 DEF Provided
  <2> QED
    BY <1>2, <1>7, <1>13, <2>1
<1>16. Provided'
  BY <1>9, <1>12, <1>14, <1>15 DEF Provided
<1> QED
  BY <1>1, <1>7, <1>10, <1>11, <1>16

\* A name is forgotten, whatever has it.
LEMMA ForgetStep ==
  ASSUME PluginsTyped, Mountings, Provided, NEW n, P!Forget(n), UNCHANGED P!registered,
         UNCHANGED << mounts, disposed >>
  PROVE  PluginsTyped' /\ Mountings' /\ Provided'
<1>1. /\ mounted' = [m \in DOMAIN mounted \ {n} |-> mounted[m]] /\ order' = Spliced(order, n)
      /\ UNCHANGED << providers, shadows, denied >>
  BY PluginsSplice DEF P!Forget, P!registered
<1>2. order' \in Seq(Names) /\ IsInjective(order') /\ ToSet(order') = ToSet(order) \ {n}
  BY <1>1, SplicedProperties DEF PluginsTyped, Mountings
<1>3. PluginsTyped'
  BY <1>1, <1>2 DEF PluginsTyped
<1>4. DOMAIN mounted' = DOMAIN mounted \ {n} /\ \A m \in DOMAIN mounted' : mounted'[m] = mounted[m]
  BY <1>1
<1>5. Mountings'
  BY <1>1, <1>2, <1>4 DEF Mountings
<1>6. Provided'
  BY <1>1, <1>4 DEF Provided
<1> QED
  BY <1>3, <1>5, <1>6

LEMMA MountStep ==
  ASSUME PluginsTyped, Mountings, Provided, NEW n \in Names, P!Mount(n)
  PROVE  PluginsTyped' /\ Mountings' /\ Provided' /\ mounts' = Append(mounts, n)
<1>1. PICK x, s : x = Len(mounts) + 1 /\ s = Service[n]
  OBVIOUS
<1>2. /\ Len(mounts) \in Nat /\ x \in Nat /\ x >= 1 /\ DOMAIN mounts = 1 .. x - 1
      /\ s \in {Service[m] : m \in Names} /\ DOMAIN providers = {Service[m] : m \in Names}
  BY <1>1 DEF PluginsTyped
<1>3. PICK one : one = << x >>
  OBVIOUS
<1>4. one \in Seq(Nat) /\ Len(one) = 1 /\ ToSet(one) = {x} /\ Last(one) = x
  BY <1>2, <1>3 DEF ToSet, Last
<1>5. /\ n \notin DOMAIN mounted /\ providers[s] = << >> /\ mounts' = Append(mounts, n)
      /\ mounted' = [m \in DOMAIN mounted \cup {n} |-> IF m = n THEN x ELSE mounted[m]]
      /\ order' = Append(order, n) /\ UNCHANGED << disposed, denied >>
      /\ providers' = [providers EXCEPT ![s] = Append(<< >>, x)]
      /\ shadows' = [m \in DOMAIN shadows \cup {n} |-> IF m = n THEN P!Resolve(providers'[s]) ELSE shadows[m]]
  BY <1>1 DEF P!Mount, P!Setup, P!Shadow, P!Register
<1>6. Append(<< >>, x) = one
  BY <1>3
<1>7. /\ providers' \in [{Service[m] : m \in Names} -> Seq(Nat)] /\ providers'[s] = one
      /\ DOMAIN providers' = DOMAIN providers
      /\ \A t \in DOMAIN providers : t # s => providers'[t] = providers[t]
  BY <1>2, <1>4, <1>5, <1>6 DEF PluginsTyped
<1>8. P!Resolve(providers'[s]) = x
  BY <1>3, <1>7 DEF P!Resolve, P!Last
<1>9. /\ mounts' \in Seq(Names) /\ Len(mounts') = x /\ DOMAIN mounts' = 1 .. x /\ mounts'[x] = n
      /\ \A k \in DOMAIN mounts : mounts'[k] = mounts[k] /\ k < x /\ k \in DOMAIN mounts'
  <2>1. /\ mounts' \in Seq(Names) /\ Len(mounts') = Len(mounts) + 1 /\ mounts'[Len(mounts) + 1] = n
        /\ \A k \in 1 .. Len(mounts) : mounts'[k] = mounts[k]
    BY <1>5, AppendProperties DEF PluginsTyped
  <2>2. DOMAIN mounts' = 1 .. Len(mounts')
    BY <2>1, LenProperties
  <2> QED
    BY <1>1, <1>2, <2>1, <2>2
<1>10. order' \in Seq(Names) /\ ToSet(order') = ToSet(order) \cup {n}
  BY <1>5, ElementsOfAppend, AppendProperties DEF PluginsTyped
<1>11. PluginsTyped'
  BY <1>5, <1>7, <1>9, <1>10 DEF PluginsTyped
<1>12. IsInjective(order')
  <2>1. PICK k \in Nat : k = Len(order) /\ DOMAIN order = 1 .. k
    BY LenProperties DEF PluginsTyped
  <2>2. /\ DOMAIN order' = 1 .. k + 1 /\ order'[k + 1] = n
        /\ \A i \in 1 .. k : order'[i] = order[i] /\ order[i] # n
    <3>1. Len(order') = k + 1 /\ order'[k + 1] = n /\ \A i \in 1 .. k : order'[i] = order[i]
      BY <1>5, <2>1, AppendProperties DEF PluginsTyped
    <3>2. DOMAIN order' = 1 .. k + 1
      BY <1>10, <3>1, LenProperties
    <3>3. \A i \in 1 .. k : order[i] \in DOMAIN mounted
      BY <2>1 DEF Mountings, ToSet
    <3> QED
      BY <1>5, <3>1, <3>2, <3>3
  <2>3. \A i, j \in 1 .. k : order[i] = order[j] => i = j
    BY <2>1 DEF Mountings, IsInjective
  <2>4. \A i \in 1 .. k + 1 : i \in 1 .. k \/ i = k + 1
    BY <2>1
  <2> QED
    BY <2>2, <2>3, <2>4 DEF IsInjective
<1>13. /\ DOMAIN mounted' = DOMAIN mounted \cup {n} /\ mounted'[n] = x
       /\ \A m \in DOMAIN mounted : m # n /\ mounted'[m] = mounted[m]
  BY <1>5
<1>14. \A k \in DOMAIN mounts' : k \in DOMAIN mounts \/ k = x
  BY <1>2, <1>9
<1>15. Mountings'
  <2>1. DOMAIN mounted' \subseteq Names /\ ToSet(order') = DOMAIN mounted'
    BY <1>10, <1>13 DEF Mountings
  <2>2. ToSet(disposed') \subseteq DOMAIN mounts'
    BY <1>5, <1>9 DEF Mountings
  <2>3. ASSUME NEW m \in DOMAIN mounted'
        PROVE  /\ mounted'[m] \in DOMAIN mounts' /\ mounts'[mounted'[m]] = m
               /\ \A k \in DOMAIN mounts' : mounts'[k] = m => k <= mounted'[m]
    <3>1. CASE m = n
      <4>1. mounted'[m] = x /\ x \in DOMAIN mounts' /\ mounts'[x] = m /\ \A k \in DOMAIN mounts' : k <= x
        BY <1>2, <1>9, <1>13, <3>1
      <4> QED
        BY <4>1
    <3>2. CASE m # n
      <4>1. m \in DOMAIN mounted /\ mounted'[m] = mounted[m]
        BY <1>13, <3>2
      <4>2. /\ mounted[m] \in DOMAIN mounts /\ mounts[mounted[m]] = m
            /\ \A k \in DOMAIN mounts : mounts[k] = m => k <= mounted[m]
        BY <4>1 DEF Mountings
      <4> QED
        BY <1>9, <1>14, <3>2, <4>1, <4>2
    <3> QED
      BY <3>1, <3>2
  <2> QED
    BY <1>12, <2>1, <2>2, <2>3 DEF Mountings
<1>16. x \notin ToSet(disposed)
  BY <1>2 DEF Mountings
<1>17. ASSUME NEW t \in DOMAIN providers
       PROVE  /\ Len(providers'[t]) <= 1
              /\ \A y \in ToSet(providers'[t]) :
                   y \in DOMAIN mounts' /\ Service[mounts'[y]] = t /\ y \notin ToSet(disposed)
  <2>1. CASE t = s
    <3>1. providers'[t] = one /\ x \in DOMAIN mounts' /\ Service[mounts'[x]] = t
      BY <1>1, <1>2, <1>7, <1>9, <2>1
    <3>2. Len(one) <= 1 /\ \A y \in ToSet(one) : y = x
      BY <1>4
    <3> QED
      BY <1>16, <3>1, <3>2
  <2>2. CASE t # s
    <3>1. /\ Len(providers[t]) <= 1 /\ providers'[t] = providers[t]
          /\ \A y \in ToSet(providers[t]) :
               y \in DOMAIN mounts /\ Service[mounts[y]] = t /\ y \notin ToSet(disposed)
      BY <1>7, <2>2 DEF Provided
    <3> QED
      BY <1>9, <3>1
  <2> QED
    BY <2>1, <2>2
<1>18. ToSet(providers[s]) = {}
  BY <1>5 DEF ToSet
<1>19. ASSUME NEW m \in DOMAIN mounted', mounted'[m] \notin ToSet(disposed)
       PROVE  mounted'[m] \in ToSet(providers'[Service[m]])
  <2>1. CASE m = n
    BY <1>1, <1>4, <1>7, <1>13, <2>1
  <2>2. CASE m # n
    <3>1. m \in DOMAIN mounted /\ mounted'[m] = mounted[m] /\ Service[m] \in DOMAIN providers
      BY <1>2, <1>13, <2>2 DEF Mountings
    <3>2. mounted[m] \in ToSet(providers[Service[m]])
      BY <1>19, <3>1 DEF Provided
    <3> QED
      BY <1>7, <1>18, <3>1, <3>2
  <2> QED
    BY <2>1, <2>2
<1>20. ASSUME NEW m \in Names, m \in DOMAIN shadows', m \notin denied
       PROVE  shadows'[m] \in ToSet(providers'[Service[m]]) /\ mounts'[shadows'[m]] = m
  <2>1. CASE m = n
    BY <1>1, <1>4, <1>5, <1>7, <1>8, <1>9, <2>1
  <2>2. CASE m # n
    <3>1. m \in DOMAIN shadows /\ shadows'[m] = shadows[m] /\ Service[m] \in DOMAIN providers
      BY <1>2, <1>5, <1>20, <2>2
    <3>2. shadows[m] \in ToSet(providers[Service[m]]) /\ mounts[shadows[m]] = m
      BY <1>20, <3>1 DEF Provided
    <3>3. shadows[m] \in DOMAIN mounts
      BY <3>1, <3>2 DEF Provided
    <3> QED
      BY <1>7, <1>9, <1>18, <3>1, <3>2, <3>3
  <2> QED
    BY <2>1, <2>2
<1>21. Provided'
  BY <1>5, <1>7, <1>17, <1>19, <1>20 DEF Provided
<1> QED
  BY <1>5, <1>11, <1>15, <1>21

-------------------------------------------------------------------------------
(* unmountAll() *)

Sweeps == [at : {"no", "next", "disposing", "done", "failed"}, left : Seq(Names), from : Seq(Nat),
           since : Nat]

\* A plugin that was there when the sweep began has been mounted again since.
Anew(from, all) == \E i \in 1 .. Len(from) : \E k \in from[i] + 1 .. Len(all) : all[k] = all[from[i]]

\* Since the sweep began one plugin has been disposed of before another, or with it.
Before(since, gone, x, y) ==
  \E p, q \in since + 1 .. Len(gone) : p <= q /\ gone[p] = x /\ gone[q] = y

\* What is left are the first of the plugins the sweep began with, and of those all but
\* the first `todo` are disposed of, in reverse.
Sweeping(left, from, since, todo, all, gone) ==
  /\ since <= Len(gone) /\ Len(left) <= Len(from)
  /\ \A i \in 1 .. Len(from) : from[i] \in 1 .. Len(all)
  /\ \A j \in 1 .. Len(left) : left[j] = all[from[Len(left) + 1 - j]]
  /\ ~ Anew(from, all) =>
       \A i, j \in 1 .. Len(from) : i <= j /\ i > todo => Before(since, gone, from[j], from[i])

\* Others may mount and dispose of plugins meanwhile.
LEMMA SweepWaits ==
  ASSUME NEW left \in Seq(Names), NEW from \in Seq(Nat), NEW since \in Nat, NEW todo \in Nat,
         NEW all \in Seq(Names), NEW gone \in Seq(Nat), NEW n \in Names, NEW x \in Nat,
         Sweeping(left, from, since, todo, all, gone)
  PROVE  /\ Sweeping(left, from, since, todo, Append(all, n), gone)
         /\ Sweeping(left, from, since, todo, all, Append(gone, x))
<1>1. PICK more, later : more = Append(all, n) /\ later = Append(gone, x)
  OBVIOUS
<1>2. PICK a, g, f, k : a = Len(all) /\ g = Len(gone) /\ f = Len(from) /\ k = Len(left)
  OBVIOUS
<1>3. {a, g, f, k} \subseteq Nat
  BY <1>2, LenProperties
<1>4. /\ Len(more) = a + 1 /\ \A i \in 1 .. a : more[i] = all[i]
      /\ Len(later) = g + 1 /\ \A i \in 1 .. g : later[i] = gone[i]
  BY <1>1, <1>2, AppendProperties
<1>5. /\ since <= g /\ k <= f /\ \A i \in 1 .. f : from[i] \in 1 .. a
      /\ \A j \in 1 .. k : left[j] = all[from[k + 1 - j]]
  BY <1>2 DEF Sweeping
<1>6. ~ Anew(from, all) => \A i, j \in 1 .. f : i <= j /\ i > todo => Before(since, gone, from[j], from[i])
  BY <1>2 DEF Sweeping
<1>7. Anew(from, all) => Anew(from, more)
  <2> SUFFICES ASSUME NEW i \in 1 .. f, NEW j \in from[i] + 1 .. a, all[j] = all[from[i]]
               PROVE  Anew(from, more)
    BY <1>2 DEF Anew
  <2>1. from[i] \in 1 .. a
    BY <1>5
  <2>2. PICK p : p = from[i]
    OBVIOUS
  <2>3. a \in Nat /\ p \in 1 .. a /\ j \in p + 1 .. a
    BY <1>3, <2>1, <2>2
  <2>4. j \in 1 .. a /\ j \in from[i] + 1 .. a + 1
    <3>1. j \in 1 .. a /\ j \in p + 1 .. a + 1
      BY <2>3
    <3> QED
      BY <2>2, <3>1, Zenon
  <2>5. more[j] = more[from[i]]
    BY <1>4, <2>1, <2>4
  <2> QED
    BY <1>2, <1>4, <2>4, <2>5 DEF Anew
<1>8. \A j \in 1 .. k : left[j] = more[from[k + 1 - j]]
  <2> SUFFICES ASSUME NEW j \in 1 .. k
               PROVE  left[j] = more[from[k + 1 - j]]
    OBVIOUS
  <2>1. k + 1 - j \in 1 .. f
    BY <1>3, <1>5
  <2>2. from[k + 1 - j] \in 1 .. a
    BY <1>5, <2>1
  <2> QED
    BY <1>4, <1>5, <2>2
<1>9. \A i \in 1 .. f : from[i] \in 1 .. a + 1
  BY <1>3, <1>5
<1>10. Sweeping(left, from, since, todo, more, gone)
  BY <1>2, <1>4, <1>5, <1>6, <1>7, <1>8, <1>9 DEF Sweeping
<1>11. ASSUME NEW y, NEW z, Before(since, gone, y, z) PROVE Before(since, later, y, z)
  <2>1. PICK p, q \in since + 1 .. g : p <= q /\ gone[p] = y /\ gone[q] = z
    BY <1>2, <1>11 DEF Before
  <2>2. p \in 1 .. g /\ q \in 1 .. g /\ p \in since + 1 .. g + 1 /\ q \in since + 1 .. g + 1
    BY <1>3
  <2> QED
    BY <1>4, <2>1, <2>2 DEF Before
<1>12. since <= g + 1
  BY <1>3, <1>5
<1>13. Sweeping(left, from, since, todo, all, later)
  BY <1>2, <1>4, <1>5, <1>6, <1>11, <1>12 DEF Sweeping
<1> QED
  BY <1>1, <1>10, <1>13

\* It disposes of the plugin that is next: where none was mounted anew, the one it began
\* with.
LEMMA SweepDisposes ==
  ASSUME NEW left \in Seq(Names), NEW from \in Seq(Nat), NEW since \in Nat, NEW x \in Nat,
         NEW all \in Seq(Names), NEW gone \in Seq(Nat), left # << >>,
         Sweeping(left, from, since, Len(left), all, gone),
         x \in 1 .. Len(all), all[x] = Head(left), \A k \in 1 .. Len(all) : all[k] = all[x] => k <= x
  PROVE  Sweeping(left, from, since, Len(left) - 1, all, Append(gone, x))
<1>1. PICK later : later = Append(gone, x)
  OBVIOUS
<1>2. PICK a, g, f, k : a = Len(all) /\ g = Len(gone) /\ f = Len(from) /\ k = Len(left)
  OBVIOUS
<1>3. {a, g, f, k} \subseteq Nat /\ k >= 1 /\ Head(left) = left[1]
  BY <1>2, LenProperties, EmptySeq
<1>4. Len(later) = g + 1 /\ later[g + 1] = x /\ \A i \in 1 .. g : later[i] = gone[i]
  BY <1>1, <1>2, AppendProperties
<1>5. /\ since <= g /\ k <= f /\ \A i \in 1 .. f : from[i] \in 1 .. a
      /\ \A j \in 1 .. k : left[j] = all[from[k + 1 - j]]
  BY <1>2 DEF Sweeping
<1>6. ~ Anew(from, all) => \A i, j \in 1 .. f : i <= j /\ i > k => Before(since, gone, from[j], from[i])
  BY <1>2 DEF Sweeping
<1>7. from[k] \in 1 .. a /\ all[from[k]] = all[x] /\ k \in 1 .. f
  <2>1. k \in 1 .. f /\ 1 \in 1 .. k /\ k + 1 - 1 = k
    BY <1>3, <1>5
  <2>2. left[1] = all[from[k + 1 - 1]]
    BY <1>5, <2>1
  <2> QED
    BY <1>3, <1>5, <2>1, <2>2
<1>8. g + 1 \in since + 1 .. g + 1
  BY <1>3, <1>5
<1>9. ASSUME NEW y, NEW z, Before(since, gone, y, z)
      PROVE  Before(since, later, y, z) /\ Before(since, later, y, x)
  <2>1. PICK p, q \in since + 1 .. g : p <= q /\ gone[p] = y /\ gone[q] = z
    BY <1>2, <1>9 DEF Before
  <2>2. /\ p \in 1 .. g /\ q \in 1 .. g /\ p \in since + 1 .. g + 1 /\ q \in since + 1 .. g + 1
        /\ p <= g + 1
    BY <1>3
  <2> QED
    BY <1>4, <1>8, <2>1, <2>2 DEF Before
<1>10. ASSUME ~ Anew(from, all), NEW i \in 1 .. f, NEW j \in 1 .. f, i <= j, i > k - 1
       PROVE  Before(since, later, from[j], from[i])
  <2>1. from[k] = x
    <3>1. from[k] <= x
      BY <1>2, <1>7
    <3>2. CASE from[k] < x
      <4>1. x \in from[k] + 1 .. a
        BY <1>2, <1>3, <1>7, <3>2
      <4> QED
        BY <1>2, <1>7, <1>10, <4>1 DEF Anew
    <3> QED
      BY <1>3, <1>7, <3>1, <3>2
  <2>2. CASE i > k
    <3>1. Before(since, gone, from[j], from[i])
      BY <1>6, <1>10, <2>2
    <3> QED
      BY <1>9, <3>1
  <2>3. CASE i = k /\ j > k
    <3>1. j <= j
      OBVIOUS
    <3>2. Before(since, gone, from[j], from[j])
      BY <1>6, <1>10, <2>3, <3>1
    <3> QED
      BY <1>9, <2>1, <2>3, <3>2
  <2>4. CASE i = k /\ j = k
    <3>1. g + 1 <= g + 1
      BY <1>3
    <3> QED
      BY <1>4, <1>8, <2>1, <2>4, <3>1 DEF Before
  <2> QED
    BY <1>3, <1>10, <2>2, <2>3, <2>4
<1>11. since <= g + 1
  BY <1>3, <1>5
<1> QED
  BY <1>1, <1>2, <1>4, <1>5, <1>10, <1>11 DEF Sweeping

\* And goes on.
LEMMA SweepGoesOn ==
  ASSUME NEW left \in Seq(Names), NEW from \in Seq(Nat), NEW since \in Nat,
         NEW all \in Seq(Names), NEW gone \in Seq(Nat), left # << >>,
         Sweeping(left, from, since, Len(left) - 1, all, gone)
  PROVE  /\ Sweeping(Tail(left), from, since, Len(Tail(left)), all, gone)
         /\ Tail(left) \in Seq(Names) /\ (Tail(left) = << >> <=> Len(left) = 1)
<1>1. PICK rest : rest = Tail(left)
  OBVIOUS
<1>2. PICK f, k : f = Len(from) /\ k = Len(left)
  OBVIOUS
<1>3. f \in Nat /\ k \in Nat /\ k >= 1
  BY <1>2, LenProperties, EmptySeq
<1>4. /\ rest \in Seq(Names) /\ Len(rest) = k - 1
      /\ \A j \in 1 .. k - 1 : rest[j] = left[j + 1]
  BY <1>1, <1>2, HeadTailProperties
<1>5. rest = << >> <=> k = 1
  BY <1>3, <1>4, EmptySeq
<1>6. k <= f /\ \A j \in 1 .. k : left[j] = all[from[k + 1 - j]]
  BY <1>2 DEF Sweeping
<1>7. \A j \in 1 .. k - 1 : rest[j] = all[from[(k - 1) + 1 - j]]
  <2> SUFFICES ASSUME NEW j \in 1 .. k - 1
               PROVE  rest[j] = all[from[(k - 1) + 1 - j]]
    OBVIOUS
  <2>1. j + 1 \in 1 .. k /\ (k - 1) + 1 - j = k + 1 - (j + 1)
    BY <1>3
  <2> QED
    BY <1>4, <1>6, <2>1
<1>8. k - 1 <= f
  BY <1>3, <1>6
<1>9. Sweeping(rest, from, since, k - 1, all, gone)
  BY <1>2, <1>4, <1>7, <1>8 DEF Sweeping
<1> QED
  BY <1>1, <1>2, <1>4, <1>5, <1>9

Todo(s) == IF s.at = "disposing" THEN Len(s.left) - 1 ELSE Len(s.left)

SweptSoFar(s, all, gone) ==
  s.at \in {"next", "disposing", "done"} =>
    /\ s.at = "done" <=> s.left = << >>
    /\ Sweeping(s.left, s.from, s.since, Todo(s), all, gone)

SweepKept == sweep \in Sweeps /\ SweptSoFar(sweep, mounts, disposed)

LEMMA SweepStays ==
  ASSUME SweepKept, PluginsTyped, UNCHANGED sweep, NEW n \in Names, NEW x \in Nat,
         mounts' \in {mounts, Append(mounts, n)}, disposed' \in {disposed, Append(disposed, x)}
  PROVE  SweepKept'
<1>1. PICK s, all, gone : s = sweep /\ all = mounts /\ gone = disposed
  OBVIOUS
<1>2. s \in Sweeps /\ SweptSoFar(s, all, gone) /\ all \in Seq(Names) /\ gone \in Seq(Nat)
  BY <1>1 DEF SweepKept, PluginsTyped
<1>3. Append(all, n) \in Seq(Names)
  BY <1>2
<1>4. ASSUME s.at \in {"next", "disposing", "done"}
      PROVE  /\ s.left \in Seq(Names) /\ s.from \in Seq(Nat) /\ s.since \in Nat /\ Todo(s) \in Nat
             /\ Sweeping(s.left, s.from, s.since, Todo(s), all, gone)
  <2>1. s.left \in Seq(Names) /\ s.from \in Seq(Nat) /\ s.since \in Nat
    BY <1>2 DEF Sweeps
  <2>2. (s.at = "done" <=> s.left = << >>) /\ Sweeping(s.left, s.from, s.since, Todo(s), all, gone)
    BY <1>2, <1>4 DEF SweptSoFar
  <2>3. Todo(s) \in Nat
    <3>1. PICK k \in Nat : k = Len(s.left) /\ (s.at = "disposing" => k >= 1)
      BY <2>1, <2>2, LenProperties, EmptySeq
    <3> QED
      BY <3>1 DEF Todo
  <2> QED
    BY <2>1, <2>2, <2>3
<1>5. SweptSoFar(s, Append(all, n), gone)
  BY <1>2, <1>4, SweepWaits DEF SweptSoFar
<1>6. SweptSoFar(s, all, Append(gone, x))
  BY <1>2, <1>4, SweepWaits DEF SweptSoFar
<1>7. SweptSoFar(s, Append(all, n), Append(gone, x))
  <2> SUFFICES ASSUME s.at \in {"next", "disposing", "done"}
               PROVE  Sweeping(s.left, s.from, s.since, Todo(s), Append(all, n), Append(gone, x))
    BY <1>2 DEF SweptSoFar
  <2>1. Sweeping(s.left, s.from, s.since, Todo(s), Append(all, n), gone)
    BY <1>2, <1>4, SweepWaits
  <2> QED
    BY <1>2, <1>3, <1>4, <2>1, SweepWaits
<1>8. /\ sweep' = s /\ mounts' \in {all, Append(all, n)} /\ disposed' \in {gone, Append(gone, x)}
  BY <1>1
<1> QED
  BY <1>2, <1>5, <1>6, <1>7, <1>8 DEF SweepKept

PluginsKept == PluginsTyped /\ Mountings /\ Provided /\ SweepKept

LEMMA ListedOnce ==
  ASSUME PluginsTyped, Mountings
  PROVE  \A i \in 1 .. Len(order) : /\ order[i] \in DOMAIN mounted
                                    /\ mounted[order[i]] \in 1 .. Len(mounts)
                                    /\ mounts[mounted[order[i]]] = order[i]
<1>1. DOMAIN order = 1 .. Len(order) /\ DOMAIN mounts = 1 .. Len(mounts)
  BY DEF PluginsTyped
<1>2. \A i \in 1 .. Len(order) : order[i] \in DOMAIN mounted
  BY <1>1 DEF Mountings, ToSet
<1> QED
  BY <1>1, <1>2 DEF Mountings

\* The sweep begins with what is mounted, and has disposed of nothing.
LEMMA SweepBegins ==
  ASSUME PluginsKept, P!UnmountAll
  PROVE  SweepKept'
<1>1. PICK s : s = sweep'
  OBVIOUS
<1>2. PICK n \in Nat : n = Len(order) /\ DOMAIN order = 1 .. n
  BY LenProperties DEF PluginsKept, PluginsTyped
<1>3. PICK from, left : /\ from = [i \in 1 .. n |-> mounted[order[i]]]
                        /\ left = [i \in 1 .. n |-> order[(n - i) + 1]]
  OBVIOUS
<1>4. \A i \in 1 .. n : /\ order[i] \in Names /\ mounted[order[i]] \in 1 .. Len(mounts)
                        /\ mounts[mounted[order[i]]] = order[i]
  BY <1>2, ListedOnce DEF PluginsKept, PluginsTyped
<1>5. Len(mounts) \in Nat /\ Len(disposed) \in Nat
  BY DEF PluginsKept, PluginsTyped
<1>6. from \in Seq(Nat) /\ Len(from) = n
  <2>1. \A i \in 1 .. n : mounted[order[i]] \in Nat
    BY <1>4, <1>5
  <2> QED
    BY <1>2, <1>3, <2>1
<1>7. left \in Seq(Names) /\ Len(left) = n /\ (left = << >> <=> order = << >>)
  <2>1. \A i \in 1 .. n : (n - i) + 1 \in 1 .. n
    BY <1>2
  <2>2. left \in Seq(Names) /\ Len(left) = n
    BY <1>2, <1>3, <1>4, <2>1
  <2>3. order \in Seq(Names)
    BY DEF PluginsKept, PluginsTyped
  <2> QED
    BY <1>2, <2>2, <2>3, EmptySeq
<1>8. s = [at |-> IF order = << >> THEN "done" ELSE "next", left |-> left, from |-> from, since |-> Len(disposed)]
  BY <1>1, <1>2, <1>3 DEF P!UnmountAll, P!SweepOrder, P!Reverse
<1>9. /\ s.at \in {"next", "done"} /\ (s.at = "done" <=> left = << >>) /\ s.left = left
      /\ s.from = from /\ s.since = Len(disposed) /\ Todo(s) = n /\ s \in Sweeps
  BY <1>5, <1>6, <1>7, <1>8 DEF Todo, Sweeps
<1>10. \A j \in 1 .. n : left[j] = mounts[from[n + 1 - j]]
  <2> SUFFICES ASSUME NEW j \in 1 .. n PROVE left[j] = mounts[from[n + 1 - j]]
    OBVIOUS
  <2>1. PICK i \in 1 .. n : i = n + 1 - j /\ i = (n - j) + 1
    BY <1>2
  <2>2. left[j] = order[i] /\ from[i] = mounted[order[i]]
    BY <1>3, <2>1
  <2> QED
    BY <1>4, <2>1, <2>2
<1>11. \A i \in 1 .. n : from[i] \in 1 .. Len(mounts)
  BY <1>3, <1>4
<1>12. Sweeping(left, from, Len(disposed), n, mounts, disposed)
  <2>1. \A i \in 1 .. n : ~ i > n
    BY <1>2
  <2> QED
    BY <1>2, <1>5, <1>6, <1>7, <1>10, <1>11, <2>1 DEF Sweeping
<1>13. mounts' = mounts /\ disposed' = disposed
  BY DEF P!UnmountAll
<1> QED
  BY <1>1, <1>9, <1>12, <1>13 DEF SweepKept, SweptSoFar

\* The sweep comes to its next plugin.
LEMMA SweepBeginsNext ==
  ASSUME PluginsKept, P!SweepNext
  PROVE  PluginsKept'
<1>1. PICK s : s = sweep
  OBVIOUS
<1>2. /\ s \in Sweeps /\ s.at = "next" /\ s.left \in Seq(Names) /\ s.from \in Seq(Nat) /\ s.since \in Nat
      /\ UNCHANGED << mounted, order, unmounts, mounts >>
  BY <1>1 DEF PluginsKept, SweepKept, Sweeps, P!SweepNext
<1>3. CASE Head(s.left) \in DOMAIN mounted
  <2>1. PICK n \in DOMAIN mounted : n = Head(s.left)
    BY <1>3
  <2>2. P!Begin(n) /\ sweep' = [s EXCEPT !.at = "disposing"]
    BY <1>1, <1>3, <2>1 DEF P!SweepNext
  <2>3. PluginsTyped' /\ Mountings' /\ Provided' /\ disposed' = Append(disposed, mounted[n])
    BY <1>2, <2>2, BeginStep DEF PluginsKept
  <2>4. PICK t, x : t = sweep' /\ x = mounted[n]
    OBVIOUS
  <2>5. /\ t \in Sweeps /\ t.at = "disposing" /\ t.left = s.left /\ t.from = s.from /\ t.since = s.since
        /\ Todo(t) = Len(s.left) - 1
    BY <1>2, <2>2, <2>4 DEF Sweeps, Todo
  <2>6. /\ s.left # << >> /\ Sweeping(s.left, s.from, s.since, Len(s.left), mounts, disposed)
    BY <1>1, <1>2 DEF PluginsKept, SweepKept, SweptSoFar, Todo
  <2>7. /\ mounts \in Seq(Names) /\ disposed \in Seq(Nat) /\ DOMAIN mounts = 1 .. Len(mounts)
    BY DEF PluginsKept, PluginsTyped
  <2>8. /\ x \in 1 .. Len(mounts) /\ x \in Nat /\ mounts[x] = Head(s.left)
        /\ \A k \in 1 .. Len(mounts) : mounts[k] = mounts[x] => k <= x
    BY <2>1, <2>4, <2>7 DEF PluginsKept, Mountings
  <2>9. Sweeping(s.left, s.from, s.since, Len(s.left) - 1, mounts, Append(disposed, x))
    BY <1>2, <2>6, <2>7, <2>8, SweepDisposes
  <2>10. SweptSoFar(t, mounts, Append(disposed, x))
    BY <2>5, <2>6, <2>9 DEF SweptSoFar
  <2>11. SweepKept'
    BY <1>2, <2>3, <2>4, <2>5, <2>10 DEF SweepKept
  <2> QED
    BY <2>3, <2>11 DEF PluginsKept
<1>4. CASE Head(s.left) \notin DOMAIN mounted
  <2>1. sweep' = [s EXCEPT !.at = "failed"] /\ UNCHANGED << P!registered, disposed >>
    BY <1>1, <1>4 DEF P!SweepNext
  <2>2. sweep' \in Sweeps /\ sweep'.at = "failed"
    BY <1>2, <2>1 DEF Sweeps
  <2>3. SweepKept'
    BY <2>2 DEF SweepKept, SweptSoFar
  <2> QED
    BY <1>2, <2>1, <2>3 DEF PluginsKept, PluginsTyped, Mountings, Provided, P!registered
<1> QED
  BY <1>3, <1>4

LEMMA SweepForgetsStep ==
  ASSUME PluginsKept, P!SweepForgets
  PROVE  PluginsKept'
<1>1. PICK s, rest, at : /\ s = sweep /\ rest = Tail(s.left)
                         /\ at = IF Len(s.left) = 1 THEN "done" ELSE "next"
  OBVIOUS
<1>2. /\ s \in Sweeps /\ s.at = "disposing" /\ s.left \in Seq(Names) /\ s.from \in Seq(Nat) /\ s.since \in Nat
      /\ P!Forget(Head(s.left)) /\ sweep' = [s EXCEPT !.left = rest, !.at = at]
      /\ UNCHANGED P!registered /\ UNCHANGED << mounts, disposed >>
  BY <1>1 DEF PluginsKept, SweepKept, Sweeps, P!SweepForgets
<1>3. PluginsTyped' /\ Mountings' /\ Provided'
  BY <1>2, ForgetStep DEF PluginsKept
<1>4. /\ s.left # << >> /\ Sweeping(s.left, s.from, s.since, Len(s.left) - 1, mounts, disposed)
  BY <1>1, <1>2 DEF PluginsKept, SweepKept, SweptSoFar, Todo
<1>5. mounts \in Seq(Names) /\ disposed \in Seq(Nat)
  BY DEF PluginsKept, PluginsTyped
<1>6. /\ Sweeping(rest, s.from, s.since, Len(rest), mounts, disposed)
      /\ rest \in Seq(Names) /\ (rest = << >> <=> at = "done") /\ at \in {"next", "done"}
  BY <1>1, <1>2, <1>4, <1>5, SweepGoesOn
<1>7. PICK t : t = sweep'
  OBVIOUS
<1>8. /\ t \in Sweeps /\ t.at = at /\ t.left = rest /\ t.from = s.from /\ t.since = s.since
      /\ Todo(t) = Len(rest)
  BY <1>2, <1>6, <1>7 DEF Sweeps, Todo
<1>9. SweptSoFar(t, mounts, disposed)
  BY <1>6, <1>8 DEF SweptSoFar
<1>10. SweepKept'
  BY <1>2, <1>7, <1>8, <1>9 DEF SweepKept
<1> QED
  BY <1>3, <1>10 DEF PluginsKept

LEMMA PluginsStep ==
  ASSUME PluginsKept, [P!PluginNext]_P!pluginVars
  PROVE  PluginsKept'
<1>1. mounts \in Seq(Names) /\ disposed \in Seq(Nat) /\ PluginsTyped /\ Mountings /\ Provided /\ SweepKept
  BY DEF PluginsKept, PluginsTyped
<1>2. ASSUME NEW n \in Names, P!Mount(n) PROVE PluginsKept'
  <2>1. PluginsTyped' /\ Mountings' /\ Provided' /\ mounts' = Append(mounts, n)
    BY <1>1, <1>2, MountStep
  <2>2. UNCHANGED << sweep, disposed >>
    BY <1>2 DEF P!Mount
  <2>3. SweepKept'
    BY <1>1, <2>1, <2>2, SweepStays
  <2> QED
    BY <2>1, <2>3 DEF PluginsKept
<1>3. ASSUME NEW u \in Callers, NEW n \in Names, P!Unmount(u, n) PROVE PluginsKept'
  <2>1. n \in DOMAIN mounted /\ P!Begin(n) /\ UNCHANGED << mounted, order, sweep, mounts >>
    BY <1>3 DEF P!Unmount
  <2>2. PluginsTyped' /\ Mountings' /\ Provided' /\ disposed' = Append(disposed, mounted[n])
    BY <1>1, <2>1, BeginStep
  <2>3. mounted[n] \in Nat
    BY <1>1, <2>1 DEF Mountings, PluginsTyped
  <2>4. SweepKept'
    BY <1>1, <2>1, <2>2, <2>3, SweepStays
  <2> QED
    BY <2>2, <2>4 DEF PluginsKept
<1>4. ASSUME NEW u \in Callers, P!Unmounted(u) PROVE PluginsKept'
  <2>1. PICK n : n = unmounts[u].name
    OBVIOUS
  <2>2. /\ P!Forget(n) /\ UNCHANGED P!registered /\ UNCHANGED << sweep, mounts, disposed >>
    BY <1>4, <2>1 DEF P!Unmounted
  <2>3. PluginsTyped' /\ Mountings' /\ Provided'
    BY <1>1, <2>2, ForgetStep
  <2> QED
    BY <1>1, <2>2, <2>3 DEF PluginsKept, SweepKept
<1>5. ASSUME UNCHANGED << mounted, order, P!registered, sweep, mounts, disposed >> PROVE PluginsKept'
  BY <1>1, <1>5 DEF PluginsKept, PluginsTyped, Mountings, Provided, SweepKept, P!registered
<1>6. ASSUME NEW u \in Callers, P!UnmountFails(u) PROVE PluginsKept'
  BY <1>5, <1>6 DEF P!UnmountFails
<1>7. CASE P!UnmountAll
  <2>1. UNCHANGED << mounted, order, P!registered, mounts, disposed >>
    BY <1>7 DEF P!UnmountAll
  <2>2. SweepKept'
    BY <1>7, SweepBegins
  <2> QED
    BY <1>1, <2>1, <2>2 DEF PluginsKept, PluginsTyped, Mountings, Provided, P!registered
<1>8. CASE P!SweepNext
  BY <1>8, SweepBeginsNext
<1>9. CASE P!SweepForgets
  BY <1>9, SweepForgetsStep
<1>10. CASE P!SweepFails
  <2>1. sweep' = [sweep EXCEPT !.at = "failed"] /\ UNCHANGED << mounted, order, P!registered, mounts, disposed >>
    BY <1>10 DEF P!SweepFails
  <2>2. sweep' \in Sweeps /\ sweep'.at = "failed"
    BY <1>1, <2>1 DEF SweepKept, Sweeps
  <2>3. SweepKept'
    BY <2>2 DEF SweepKept, SweptSoFar
  <2> QED
    BY <1>1, <2>1, <2>3 DEF PluginsKept, PluginsTyped, Mountings, Provided, P!registered
<1>11. CASE UNCHANGED P!pluginVars
  BY <1>5, <1>11 DEF P!pluginVars
<1> QED
  BY <1>2, <1>3, <1>4, <1>6, <1>7, <1>8, <1>9, <1>10, <1>11 DEF P!PluginNext

LEMMA PluginsBegin ==
  ASSUME P!Init
  PROVE  PluginsKept
<1>1. << >> \in Seq(Names) /\ << >> \in Seq(Nat) /\ Len(<< >>) = 0
  OBVIOUS
<1>2. ToSet(<< >>) = {} /\ IsInjective(<< >>)
  BY DEF ToSet, IsInjective
<1>3. sweep \in Sweeps /\ sweep.at = "no"
  BY <1>1 DEF P!Init, P!NoSweep, Sweeps
<1>4. SweepKept
  BY <1>3 DEF SweepKept, SweptSoFar
<1>5. /\ mounted = << >> /\ order = << >> /\ providers = [s \in {Service[n] : n \in Names} |-> << >>]
      /\ shadows = << >> /\ mounts = << >> /\ disposed = << >>
  BY DEF P!Init
<1>6. PluginsTyped
  BY <1>1, <1>5 DEF PluginsTyped
<1>7. Mountings
  BY <1>2, <1>5 DEF Mountings
<1>8. Provided
  <2>1. \A s \in DOMAIN providers : providers[s] = << >>
    BY <1>5
  <2> QED
    BY <1>1, <1>2, <1>5, <2>1 DEF Provided
<1> QED
  BY <1>4, <1>6, <1>7, <1>8 DEF PluginsKept

\* What was disposed of since, oldest first, in a sequence of its own.
LEMMA Unwound ==
  ASSUME NEW from \in Seq(Nat), NEW since \in Nat, NEW gone \in Seq(Nat), since <= Len(gone),
         \A i, j \in 1 .. Len(from) : i <= j /\ i > 0 => Before(since, gone, from[j], from[i])
  PROVE  LET during == SubSeq(gone, since + 1, Len(gone))
         IN \A i, j \in DOMAIN from : i <= j =>
              \E k, l \in DOMAIN during : k <= l /\ during[k] = from[j] /\ during[l] = from[i]
<1>1. PICK g \in Nat, low \in Nat : g = Len(gone) /\ low = since + 1
  OBVIOUS
<1>2. PICK part : part = SubSeq(gone, low, g)
  OBVIOUS
<1>3. \A k \in low .. g : gone[k] \in Nat
  BY <1>1
<1>4. /\ part \in Seq(Nat)
      /\ Len(part) = IF low <= g THEN g - low + 1 ELSE 0
      /\ \A k \in 1 .. g - low + 1 : part[k] = gone[low + k - 1]
  BY <1>1, <1>2, <1>3, SubSeqProperties
<1>5. Len(part) = g - since /\ g - low + 1 = g - since
  <2>1. since <= g
    BY <1>1
  <2> QED
    BY <1>1, <1>4, <2>1
<1>6. DOMAIN part = 1 .. g - since
  BY <1>4, <1>5, LenProperties
<1>7. \A k \in 1 .. g - since : part[k] = gone[since + k]
  <2>1. \A k \in 1 .. g - since : low + k - 1 = since + k
    BY <1>1
  <2> QED
    BY <1>4, <1>5, <2>1
<1>8. part = SubSeq(gone, since + 1, Len(gone))
  BY <1>1, <1>2
<1>9. SUFFICES ASSUME NEW i \in DOMAIN from, NEW j \in DOMAIN from, i <= j
               PROVE  \E k, l \in DOMAIN SubSeq(gone, since + 1, Len(gone)) :
                        /\ k <= l /\ SubSeq(gone, since + 1, Len(gone))[k] = from[j]
                        /\ SubSeq(gone, since + 1, Len(gone))[l] = from[i]
  OBVIOUS
<1>10. i \in 1 .. Len(from) /\ j \in 1 .. Len(from) /\ i > 0
  BY LenProperties
<1>11. \E p, q \in since + 1 .. Len(gone) : p <= q /\ gone[p] = from[j] /\ gone[q] = from[i]
  BY <1>9, <1>10 DEF Before
<1>12. PICK p, q \in since + 1 .. g : p <= q /\ gone[p] = from[j] /\ gone[q] = from[i]
  BY <1>1, <1>11
<1>13. /\ p - since \in 1 .. g - since /\ q - since \in 1 .. g - since /\ p - since <= q - since
       /\ since + (p - since) = p /\ since + (q - since) = q
  BY <1>12
<1>14. PICK k, l : k = p - since /\ l = q - since
  OBVIOUS
<1>15. k \in DOMAIN part /\ l \in DOMAIN part /\ k <= l /\ part[k] = from[j] /\ part[l] = from[i]
  BY <1>6, <1>7, <1>12, <1>13, <1>14
<1>16. /\ k \in DOMAIN SubSeq(gone, since + 1, Len(gone)) /\ l \in DOMAIN SubSeq(gone, since + 1, Len(gone))
       /\ k <= l /\ SubSeq(gone, since + 1, Len(gone))[k] = from[j]
       /\ SubSeq(gone, since + 1, Len(gone))[l] = from[i]
  BY <1>8, <1>15, Zenon
<1> QED
  BY <1>16, Zenon

\* What the properties say of the plugins follows.
LEMMA PluginsShown ==
  ASSUME PluginsKept
  PROVE  P!ProvidersHeld /\ P!SweepUnwinds
<1>1. P!ProvidersHeld
  <2>1. \A s \in DOMAIN providers : Len(providers[s]) <= 1 /\ ToSet(providers[s]) \cap ToSet(disposed) = {}
    BY DEF PluginsKept, Provided
  <2>2. \A n \in DOMAIN mounted :
          mounted[n] \notin ToSet(disposed) => mounted[n] \in ToSet(providers[Service[n]])
    BY DEF PluginsKept, Provided
  <2>3. \A n \in Names : P!Shown(n) => shadows[n] \in ToSet(providers[Service[n]])
    BY DEF PluginsKept, Provided, P!Shown
  <2> QED
    BY <2>1, <2>2, <2>3, PluginsSplice DEF P!ProvidersHeld
<1>2. P!SweepUnwinds
  <2>1. SUFFICES ASSUME sweep.at = "done",
                        \A i \in DOMAIN sweep.from :
                          \A k \in sweep.from[i] + 1 .. Len(mounts) : mounts[k] # mounts[sweep.from[i]]
                 PROVE  LET during == SubSeq(disposed, sweep.since + 1, Len(disposed))
                        IN \A i, j \in DOMAIN sweep.from : i <= j =>
                             \E k, l \in DOMAIN during :
                               k <= l /\ during[k] = sweep.from[j] /\ during[l] = sweep.from[i]
    BY DEF P!SweepUnwinds
  <2>2. /\ sweep.from \in Seq(Nat) /\ sweep.since \in Nat /\ disposed \in Seq(Nat)
        /\ DOMAIN sweep.from = 1 .. Len(sweep.from)
    BY DEF PluginsKept, SweepKept, Sweeps, PluginsTyped
  <2>3. /\ sweep.left = << >>
        /\ Sweeping(sweep.left, sweep.from, sweep.since, Len(sweep.left), mounts, disposed)
    BY <2>1 DEF PluginsKept, SweepKept, SweptSoFar, Todo
  <2>4. ~ Anew(sweep.from, mounts)
    BY <2>1, <2>2 DEF Anew
  <2>5. /\ sweep.since <= Len(disposed)
        /\ \A i, j \in 1 .. Len(sweep.from) :
             i <= j /\ i > 0 => Before(sweep.since, disposed, sweep.from[j], sweep.from[i])
    BY <2>3, <2>4 DEF Sweeping
  <2> QED
    BY <2>2, <2>5, Unwound
<1> QED
  BY <1>1, <1>2

LEMMA ServicesStep ==
  ASSUME P!ServicesQuiescent, [P!ServiceNext]_P!serviceVars
  PROVE  P!ServicesQuiescent'
BY DEF P!ServicesQuiescent, P!ServiceNext, P!serviceVars, P!Track, P!CallSettles, P!Close, P!Quiet,
       P!Closed, P!Expire

LEMMA PluginsInvariant ==
  Spec => [](PluginsKept /\ P!ServicesQuiescent)
<1>1. Init => PluginsKept /\ P!ServicesQuiescent
  BY PluginsBegin DEF Init, P!Init, P!ServicesQuiescent
<1>2. ASSUME PluginsKept, P!ServicesQuiescent, [Next]_serviceVars
      PROVE  PluginsKept' /\ P!ServicesQuiescent'
  <2>1. \/ P!PluginNext \/ P!ServiceNext \/ UNCHANGED << P!pluginVars, P!serviceVars >>
    BY <1>2 DEF Next, Rest, serviceVars, ofPlugins, P!pluginVars, P!serviceVars, P!registered
  <2>2. CASE P!PluginNext
    <3>1. UNCHANGED P!serviceVars
      BY <2>2 DEF P!PluginNext, P!Mount, P!Unmount, P!Unmounted, P!UnmountFails, P!UnmountAll, P!SweepNext,
                  P!SweepForgets, P!SweepFails
    <3> QED
      BY <1>2, <2>2, <3>1, PluginsStep, ServicesStep
  <2>3. CASE P!ServiceNext
    <3>1. UNCHANGED P!pluginVars
      BY <2>3 DEF P!ServiceNext, P!Track, P!CallSettles, P!Close, P!Closed, P!Expire
    <3> QED
      BY <1>2, <2>3, <3>1, PluginsStep, ServicesStep
  <2>4. CASE UNCHANGED << P!pluginVars, P!serviceVars >>
    <3>1. UNCHANGED P!pluginVars /\ UNCHANGED P!serviceVars
      BY <2>4
    <3> QED
      BY <1>2, <3>1, PluginsStep, ServicesStep
  <2> QED
    BY <2>1, <2>2, <2>3, <2>4
<1> QED
  BY <1>1, <1>2, PTL DEF Spec

\* However mounts, unmounts, the sweep, calls and teardowns interleave, a dispose() of the
\* waterfall or of the services that is over without having timed out leaves nothing at
\* work, plugins have their providers until their own disposal, and a sweep that is over
\* has disposed of what it began with, the newest first (waterfall.ts, dispose;
\* seams/registry.ts, dispose; plugin/registry.ts, mount, unmount and unmountAll).
THEOREM TeardownComplete ==
  Spec => []TornDown
<1>1. Resting => D!QuiescentDispose
  BY DEF Resting, D!QuiescentDispose
<1>2. Resting /\ PluginsKept /\ P!ServicesQuiescent => TornDown
  BY <1>1, PluginsShown DEF TornDown
<1> QED
  BY <1>2, DispatchInvariant, PluginsInvariant, PTL
=============================================================================
