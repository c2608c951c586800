---------------------------------- MODULE Skills ----------------------------------
(***************************************************************************)
(* SkillRegistry and DirectorySkillProvider (src/src/skills/registry.ts).  A   *)
(* lookup asks one provider after the other and awaits each, while providers,  *)
(* runtime skills and the files of the directory come and go.  The registry     *)
(* does not know that a provider is a directory: it is the source Directory.     *)
(***************************************************************************)
EXTENDS Integers, Sequences, SequencesExt, FiniteSets

CONSTANTS
  Sources,      \* the providers: records of a name and of what they offer
  Directory,    \* the one among them whose skills are files
  Embedded,     \* the runtime skills
  Files,        \* the files there can be: records of a file and of its skill's name
  Lookups, MaxSkillChanges   \* the callers of the model, and a bound

VARIABLES
  skillProviders,   \* the registered ones, in that order
  runtime,          \* the runtime skills, in the order of their registration
  disposers,        \* the names whose registration can be undone, again and again
  directory,        \* the files
  lookups,          \* of each caller: what it asks for and how far it is
  skillChanges

registryVars == << skillProviders, runtime, disposers >>
skillVars == << registryVars, directory, lookups, skillChanges >>

Unasked == [at |-> "no", surface |-> "any", name |-> "", todo |-> << >>, reading |-> << >>,
            read |-> << >>, found |-> << >>, asked |-> << >>, broken |-> {}, steady |-> {}]

Init ==
  /\ skillProviders = << >> /\ runtime = << >> /\ disposers = {} /\ directory \in SUBSET Files
  /\ lookups = [c \in Lookups |-> Unasked] /\ skillChanges = 0

-------------------------------------------------------------------------------
(* Registration *)

Change == skillChanges < MaxSkillChanges /\ skillChanges' = skillChanges + 1
Named(list, name) == SelectSeq(list, LAMBDA x : x.name = name)
Without(list, name) == SelectSeq(list, LAMBDA x : x.name # name)

\* Auxiliary: what a lookup in progress can no longer count on.
Forget(gone) ==
  lookups' = [c \in Lookups |-> IF lookups[c].at = "asking"
                                 THEN [lookups[c] EXCEPT !.steady = @ \ gone] ELSE lookups[c]]

\* registerProvider(): a name that is taken throws.
RegisterProvider(s) ==
  /\ Change /\ Named(skillProviders, s.name) = << >>
  /\ skillProviders' = Append(skillProviders, s) /\ disposers' = disposers \cup {<< "provider", s.name >>}
  /\ UNCHANGED << runtime, directory, lookups >>

\* register(): the first skill of a name stays, the second has nothing to undo.
RegisterSkill(s) ==
  /\ Change /\ Named(runtime, s.name) = << >>
  /\ runtime' = Append(runtime, s) /\ disposers' = disposers \cup {<< "skill", s.name >>}
  /\ UNCHANGED << skillProviders, directory, lookups >>

\* A disposer deletes by name, who ever has it now.
Undo(kind, name) ==
  /\ Change /\ << kind, name >> \in disposers
  /\ IF kind = "provider"
     THEN skillProviders' = Without(skillProviders, name) /\ UNCHANGED << runtime, lookups >>
     ELSE runtime' = Without(runtime, name) /\ Forget(ToSet(Named(runtime, name)))
          /\ UNCHANGED skillProviders
  /\ UNCHANGED << disposers, directory >>

\* Someone else adds or removes a file.
ChangeFile(f) ==
  /\ Change
  /\ IF f \in directory THEN directory' = directory \ {f} /\ Forget({f})
     ELSE directory' = directory \cup {f} /\ UNCHANGED lookups
  /\ UNCHANGED registryVars

-------------------------------------------------------------------------------
(* list(), get(), getForModel(), getForUser() *)

Passes(s, surface) ==
  CASE surface = "model" -> s.model [] surface = "user" -> s.user [] OTHER -> TRUE

\* The first skill of a name that the surface sees.
Added(found, s, surface) ==
  IF Named(found, s.name) # << >> \/ ~ Passes(s, surface) THEN found ELSE Append(found, s)
Collect(found, skills, surface) == FoldLeft(LAMBDA f, s : Added(f, s, surface), found, skills)

Lists(l) == l.name = ""
Steady == directory \cup ToSet(runtime)
Asking(surface, name) ==
  [Unasked EXCEPT !.at = "asking", !.surface = surface, !.name = name, !.todo = skillProviders,
                  !.asked = skillProviders, !.steady = Steady]
Return(l, skills) == [l EXCEPT !.at = "done", !.todo = << >>, !.reading = << >>, !.read = << >>,
                               !.found = skills]
\* A load is given the skill if its surface may invoke it.
Load(l, skill) == Return(l, SelectSeq(<< skill >>, LAMBDA s : Passes(s, l.surface)))
Reject(l) == [l EXCEPT !.at = "failed"]
SetLookup(c, l) ==
  lookups' = [lookups EXCEPT ![c] = l] /\ UNCHANGED << registryVars, directory, skillChanges >>

StartList(c, surface) == lookups[c].at = "no" /\ SetLookup(c, Asking(surface, ""))

\* A runtime skill answers at once.
StartGet(c, surface, name) ==
  /\ lookups[c].at = "no"
  /\ LET l == Asking(surface, name)
     IN SetLookup(c, IF Named(runtime, name) = << >> THEN l ELSE Load(l, Named(runtime, name)[1]))

\* What a provider's answer, a sequence of skills, comes to: a listing collects and
\* goes on, a load is over with the first skill of its name.
Heard(l, skills) ==
  LET next == [l EXCEPT !.todo = Tail(@), !.reading = << >>, !.read = << >>]
      named == Named(skills, l.name)
  IN IF Lists(l) THEN [next EXCEPT !.found = Collect(@, skills, l.surface)]
     ELSE IF named = << >> THEN next ELSE Load(l, named[1])

\* A slip: a provider that fails ends the listing.
UnheardStops(l, aborted) ==
  IF Lists(l) /\ ~ aborted
  THEN [l EXCEPT !.todo = << >>, !.reading = << >>, !.read = << >>, !.broken = @ \cup {Head(l.todo)}]
  ELSE Reject(l)
\* A provider that fails: a listing does without it, unless it is for an abort.
Unheard(l, aborted) ==
  IF Lists(l) /\ ~ aborted
  THEN [l EXCEPT !.todo = Tail(@), !.reading = << >>, !.read = << >>, !.broken = @ \cup {Head(l.todo)}]
  ELSE Reject(l)

Waits(l, onDirectory) == l.at = "asking" /\ l.todo # << >> /\ (Head(l.todo) = Directory) = onDirectory

Answers(c) ==
  /\ Waits(lookups[c], FALSE) /\ SetLookup(c, Heard(lookups[c], Head(lookups[c].todo).offers))
Fails(c, aborted) ==
  /\ lookups[c].at = "asking" /\ lookups[c].todo # << >> /\ SetLookup(c, Unheard(lookups[c], aborted))

\* loadSkillsFromDirectory: the names first, in any order, then file by file; one that
\* is gone by then fails the whole.  No directory, or an empty one, has no skills.
ReadDir(c) ==
  /\ Waits(lookups[c], TRUE) /\ lookups[c].reading = << >> /\ lookups[c].read = << >>
  /\ IF directory = {} THEN SetLookup(c, Heard(lookups[c], << >>))
     ELSE \E files \in SetToSeqs(directory) : SetLookup(c, [lookups[c] EXCEPT !.reading = files])

ReadFile(c) ==
  LET l == lookups[c]
      f == Head(l.reading)
      read == [l EXCEPT !.read = Append(@, f), !.reading = Tail(@)]
  IN /\ Waits(l, TRUE) /\ l.reading # << >>
     /\ SetLookup(c, IF f \notin directory THEN Unheard(l, FALSE)
                     ELSE IF read.reading = << >> THEN Heard(l, read.read) ELSE read)

\* After the last provider: the runtime skills of this moment, or no skill.
LookupEnds(c) ==
  LET l == lookups[c]
  IN /\ l.at = "asking" /\ l.todo = << >>
     /\ SetLookup(c, Return(l, IF Lists(l) THEN Collect(l.found, runtime, l.surface) ELSE << >>))

Next ==
  \/ \E s \in Sources : RegisterProvider(s)
  \/ \E s \in Embedded : RegisterSkill(s)
  \/ \E d \in disposers : Undo(d[1], d[2])
  \/ \E f \in Files : ChangeFile(f)
  \/ \E c \in Lookups, surface \in {"any", "model", "user"} :
       \/ StartList(c, surface)
       \/ \E name \in {s.name : s \in Embedded \cup Files} : StartGet(c, surface, name)
  \/ \E c \in Lookups : \/ Answers(c) \/ ReadDir(c) \/ ReadFile(c) \/ LookupEnds(c)
                        \/ \E aborted \in BOOLEAN : Fails(c, aborted)

Spec == Init /\ [][Next]_skillVars

-------------------------------------------------------------------------------
(* Properties *)

\* The state is of the expected shape: one provider and one runtime skill of a name.
SkillTypeOK ==
  /\ ToSet(skillProviders) \subseteq Sources /\ ToSet(runtime) \subseteq Embedded
  /\ \A i, j \in DOMAIN skillProviders : skillProviders[i].name = skillProviders[j].name => i = j
  /\ \A i, j \in DOMAIN runtime : runtime[i].name = runtime[j].name => i = j

Offered(l, i) == IF l.asked[i] = Directory THEN l.steady \cap Files ELSE ToSet(l.asked[i].offers)

\* A listing that ends names every skill its surface sees that was there all the
\* time, once, though other providers hide the name or broke, and no other.  A load
\* that ends without a skill was refused: each provider that offers the skill to the
\* surface comes after something else of that name that hides it.
LookupsExact ==
  \A c \in Lookups :
    LET l == lookups[c]
        names == {s.name : s \in ToSet(l.found)}
        source(s) == s \in Files \cup Embedded \/ \E i \in DOMAIN l.asked : s \in Offered(l, i)
        hides(i, name) == \E s \in Offered(l, i) : s.name = name /\ ~ Passes(s, l.surface)
    IN l.at = "done" =>
       /\ \A s \in ToSet(l.found) : Passes(s, l.surface) /\ source(s)
       /\ Lists(l) =>
            /\ \A i, j \in DOMAIN l.found : l.found[i].name = l.found[j].name => i = j
            /\ \A i \in DOMAIN l.asked : l.asked[i] \notin l.broken =>
                 \A s \in Offered(l, i) : Passes(s, l.surface) => s.name \in names
            /\ \A s \in l.steady \cap Embedded : Passes(s, l.surface) => s.name \in names
       /\ ~ Lists(l) /\ l.found = << >> =>
            \A i \in DOMAIN l.asked : \A s \in Offered(l, i) :
              s.name = l.name /\ Passes(s, l.surface) =>
                \/ \E j \in 1 .. i - 1 : hides(j, l.name)
                \/ \E r \in l.steady \cap Embedded : r.name = l.name /\ ~ Passes(r, l.surface)
=============================================================================
