-------------------------------- MODULE Credentials --------------------------------
(***************************************************************************)
(* CredentialStore (src/src/llm/auth/credential-store.ts) with one operation at *)
(* a time, and a process that may stop at any point and start again.             *)
(***************************************************************************)
EXTENDS Integers

CONSTANTS
  Providers, Keys, Torn,   \* the provider ids, the keys; a file that was partly written
  MaxUpdates               \* a bound of the model

VARIABLES
  initialized, keys,  \* the store, in memory
  file, temp,         \* credentials.json and its .tmp, Absent before they are written
  update              \* how far set() or delete() is: idle, changed, writing, written, renamed, down

\* Auxiliary: the keys after the last update that returned and after the one under way.
VARIABLES kept, meant, updates

credentialVars == << initialized, keys, file, temp, update, kept, meant, updates >>

None == << >>

Init ==
  /\ initialized = FALSE /\ keys = None /\ file = None /\ temp = None /\ update = "idle"
  /\ kept = None /\ meant = None /\ updates = 0

\* initialize(): a file that does not parse counts as none.
Initialize ==
  /\ ~ initialized /\ update = "idle" /\ initialized' = TRUE
  /\ keys' = IF file = Torn THEN None ELSE file
  /\ UNCHANGED << file, temp, update, kept, meant, updates >>

Change(new) ==
  /\ initialized /\ update = "idle" /\ updates < MaxUpdates /\ updates' = updates + 1
  /\ keys' = new /\ meant' = new /\ update' = "changed"
  /\ UNCHANGED << initialized, file, temp, kept >>

SetKey(p, key) == Change([q \in DOMAIN keys \cup {p} |-> IF q = p THEN key ELSE keys[q]])
DeleteKey(p) == Change([q \in DOMAIN keys \ {p} |-> keys[q]])

\* A slip: the file itself is written.
WriteInPlace ==
  \/ /\ update = "changed" /\ update' = "writing" /\ temp' = temp /\ file' = Torn
     /\ UNCHANGED << initialized, keys, kept, meant, updates >>
  \/ /\ update = "writing" /\ update' = "written" /\ temp' = keys /\ file' = keys
     /\ UNCHANGED << initialized, keys, kept, meant, updates >>

\* persist(): the copy is written, which takes a while, and takes the file's place.
WriteTemp ==
  \/ /\ update = "changed" /\ update' = "writing" /\ temp' = Torn
     /\ UNCHANGED << initialized, keys, file, kept, meant, updates >>
  \/ /\ update = "writing" /\ update' = "written" /\ temp' = keys
     /\ UNCHANGED << initialized, keys, file, kept, meant, updates >>

Rename ==
  /\ update = "written" /\ update' = "renamed" /\ file' = temp /\ temp' = None
  /\ UNCHANGED << initialized, keys, kept, meant, updates >>

UpdateReturns ==
  /\ update = "renamed" /\ update' = "idle" /\ kept' = meant
  /\ UNCHANGED << initialized, keys, file, temp, meant, updates >>

Stop ==
  /\ update # "down" /\ update' = "down" /\ initialized' = FALSE /\ keys' = None
  /\ UNCHANGED << file, temp, kept, meant, updates >>

\* What the process finds when it starts again is what it goes on from.
Restart ==
  /\ update = "down" /\ update' = "idle" /\ kept' = file /\ meant' = file
  /\ UNCHANGED << initialized, keys, file, temp, updates >>

Next ==
  \/ Initialize \/ WriteTemp \/ Rename \/ UpdateReturns \/ Stop \/ Restart
  \/ \E p \in Providers : DeleteKey(p) \/ \E key \in Keys : SetKey(p, key)

Spec == Init /\ [][Next]_credentialVars

\* The state is of the expected shape.
CredentialTypeOK ==
  /\ update \in {"idle", "changed", "writing", "written", "renamed", "down"}
  /\ initialized => DOMAIN keys \subseteq Providers

\* The file never is anything but the keys after the last update that returned or
\* after the one under way, wherever the process stops: no key that was saved is lost
\* and no deleted one comes back; and the store in memory agrees when it is at rest.
KeysDurable ==
  /\ file \in {kept, meant} /\ (update = "idle" => file = kept)
  /\ initialized /\ update = "idle" => keys = kept
=============================================================================
