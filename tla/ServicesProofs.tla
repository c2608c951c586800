------------------------------ MODULE ServicesProofs ------------------------------
(***************************************************************************)
(* Theorems about services whose invariants are short, each for any number *)
(* of callers and any values of its constants.                              *)
(***************************************************************************)
EXTENDS Services, SequenceLemmas, TLAPS

-------------------------------------------------------------------------------
(* Credentials *)

\* What credentials.json may hold: keys of some of the providers.
KeyFiles == UNION {[ids -> Keys] : ids \in SUBSET Providers}

\* Where the file, its copy and the store in memory stand at each point of an update.
Saving ==
  /\ {file, kept, meant} \subseteq KeyFiles
  /\ initialized => keys \in KeyFiles
  /\ update \in {"idle", "changed", "writing", "written", "renamed", "down"}
  /\ update = "idle" => file = kept /\ meant = kept /\ (initialized => keys = kept)
  /\ update \in {"changed", "writing", "written", "renamed"} => initialized /\ keys = meant
  /\ update \in {"changed", "writing", "written"} => file = kept
  /\ update = "written" => temp = keys
  /\ update = "renamed" => file = meant
  /\ update = "down" => file \in {kept, meant} /\ ~ initialized

\* No key is a key file with a key more or less.
LEMMA ChangedKeys ==
  ASSUME NEW old \in KeyFiles, NEW p \in Providers
  PROVE  /\ \A key \in Keys :
              [q \in DOMAIN old \cup {p} |-> IF q = p THEN key ELSE old[q]] \in KeyFiles
         /\ [q \in DOMAIN old \ {p} |-> old[q]] \in KeyFiles
         /\ DOMAIN old \subseteq Providers
<1>1. PICK ids \in SUBSET Providers : old \in [ids -> Keys]
  BY DEF KeyFiles
<1>2. ASSUME NEW key \in Keys
      PROVE  [q \in DOMAIN old \cup {p} |-> IF q = p THEN key ELSE old[q]] \in [ids \cup {p} -> Keys]
  BY <1>1
<1>3. [q \in DOMAIN old \ {p} |-> old[q]] \in [ids \ {p} -> Keys]
  BY <1>1
<1>4. ids \cup {p} \in SUBSET Providers /\ ids \ {p} \in SUBSET Providers
  OBVIOUS
<1>5. DOMAIN old \subseteq Providers
  BY <1>1
<1> QED
  BY <1>2, <1>3, <1>4, <1>5 DEF KeyFiles

\* The empty file is one.
LEMMA NoKeys == << >> \in KeyFiles
<1>1. << >> \in [{} -> Keys]
  OBVIOUS
<1> QED
  BY <1>1 DEF KeyFiles

\* Every step of the store, of its process ending and of its start keeps `Saving`.
LEMMA SavingStep ==
  ASSUME Saving, [K!Next]_K!credentialVars
  PROVE  Saving'
<1>1. CASE K!Initialize
  BY <1>1, NoKeys, TornAssumption DEF Saving, K!Initialize, K!None, KeyFiles
<1>2. CASE K!WriteTemp
  BY <1>2 DEF Saving, K!WriteTemp
<1>3. CASE K!Rename
  BY <1>3 DEF Saving, K!Rename
<1>4. CASE K!UpdateReturns
  BY <1>4 DEF Saving, K!UpdateReturns
<1>5. CASE K!Stop
  BY <1>5 DEF Saving, K!Stop
<1>6. CASE K!Restart
  BY <1>6 DEF Saving, K!Restart
<1>7. ASSUME NEW p \in Providers, K!DeleteKey(p)
      PROVE  Saving'
  <2>1. keys \in KeyFiles
    BY <1>7 DEF Saving, K!DeleteKey, K!Change
  <2>2. [q \in DOMAIN keys \ {p} |-> keys[q]] \in KeyFiles
    BY <2>1, ChangedKeys
  <2> QED
    BY <1>7, <2>2 DEF Saving, K!DeleteKey, K!Change
<1>8. ASSUME NEW p \in Providers, NEW key \in Keys, K!SetKey(p, key)
      PROVE  Saving'
  <2>1. keys \in KeyFiles
    BY <1>8 DEF Saving, K!SetKey, K!Change
  <2>2. [q \in DOMAIN keys \cup {p} |-> IF q = p THEN key ELSE keys[q]] \in KeyFiles
    BY <2>1, ChangedKeys
  <2> QED
    BY <1>8, <2>2 DEF Saving, K!SetKey, K!Change
<1>9. CASE UNCHANGED K!credentialVars
  BY <1>9 DEF Saving, K!credentialVars
<1> QED
  BY <1>1, <1>2, <1>3, <1>4, <1>5, <1>6, <1>7, <1>8, <1>9 DEF K!Next

\* However updates, the end of the process and its start follow each other, the file
\* holds the keys after the last update that returned or after the one under way, and
\* the store in memory agrees with it (credential-store.ts, persist).
THEOREM KeysAlwaysDurable ==
  Spec => []KeysDurable
<1>1. Init => Saving
  BY NoKeys DEF Init, K!Init, K!None, Saving
<1>2. Saving /\ [Next]_serviceVars => Saving'
  BY SavingStep DEF Next, Rest, serviceVars, ofCredentials, K!credentialVars
<1>3. Saving => KeysDurable
  BY DEF Saving, KeysDurable, K!KeysDurable
<1> QED
  BY <1>1, <1>2, <1>3, PTL DEF Spec

-------------------------------------------------------------------------------
(* Code worker *)

Runs == [at : {"no", "importing", "posted", "settled"}, worker : Nat,
         got : Operations \cup {"nothing", "refused", "given up"}]

WorkerTyped ==
  /\ workers \in Seq(Seq(Operations)) /\ nodeWorker \in 0 .. Len(workers)
  /\ codeRuns \in [Operations -> Runs] /\ overlapped \in BOOLEAN /\ abandoned \in BOOLEAN

At(c, w) == codeRuns[c].at = "posted" /\ codeRuns[c].worker = w

\* As long as runs come one after the other, a worker has the snippet of the one run that
\* listens to it, or nothing.
WorkerAlone ==
  ~ overlapped /\ ~ abandoned =>
    /\ \A c, d \in W!Going : c = d
    /\ \A w \in DOMAIN workers : workers[w] = << >> \/ \E c \in Operations : At(c, w)
    /\ \A c \in Operations : codeRuns[c].at = "posted" =>
         codeRuns[c].worker \in DOMAIN workers /\ workers[codeRuns[c].worker] = << c >>
    /\ \A c \in Operations : codeRuns[c].at = "settled" => codeRuns[c].got \in {c, "refused"}

\* A snippet is posted to a worker while nothing else is.
LEMMA Posts ==
  ASSUME NEW all \in Seq(Seq(Operations)), NEW c \in Operations, NEW w \in DOMAIN all,
         WorkerTyped, W!PostTo(c, w, all)
  PROVE  /\ workers' \in Seq(Seq(Operations)) /\ Len(workers') = Len(all)
         /\ codeRuns' \in [Operations -> Runs]
         /\ codeRuns'[c].at = "posted" /\ codeRuns'[c].worker = w
         /\ \A d \in Operations : d # c => codeRuns'[d] = codeRuns[d]
         /\ DOMAIN workers' = DOMAIN all /\ workers'[w] = Append(all[w], c)
         /\ \A v \in DOMAIN all : v # w => workers'[v] = all[v]
<1>1. PICK n \in Nat : n = Len(all) /\ DOMAIN all = 1 .. n
  BY LenProperties
<1>2. w \in Nat /\ w \in 1 .. n
  BY <1>1
<1>3. PICK more : more = Append(all[w], c)
  OBVIOUS
<1>4. more \in Seq(Operations)
  BY <1>3, AppendProperties
<1>5. workers' = [all EXCEPT ![w] = more]
  BY <1>3 DEF W!PostTo
<1>6. workers' \in Seq(Seq(Operations)) /\ Len(workers') = Len(all) /\ DOMAIN workers' = DOMAIN all
      /\ workers'[w] = more /\ \A v \in DOMAIN all : v # w => workers'[v] = all[v]
  BY <1>1, <1>2, <1>4, <1>5
<1>7. /\ codeRuns' \in [Operations -> Runs]
      /\ codeRuns'[c].at = "posted" /\ codeRuns'[c].worker = w
      /\ \A d \in Operations : d # c => codeRuns'[d] = codeRuns[d]
  BY <1>2 DEF W!PostTo, WorkerTyped, Runs
<1> QED
  BY <1>3, <1>6, <1>7

\* And so it is alone.
LEMMA PostsAlone ==
  ASSUME NEW all \in Seq(Seq(Operations)), NEW c \in Operations, NEW w \in DOMAIN all,
         WorkerTyped, W!PostTo(c, w, all), \A v \in DOMAIN all : all[v] = << >>,
         \A d \in Operations : d # c =>
           codeRuns[d].at \in {"no", "settled"}
             /\ (codeRuns[d].at = "settled" => codeRuns[d].got \in {d, "refused"})
  PROVE  WorkerAlone'
<1>1. /\ codeRuns'[c].at = "posted" /\ codeRuns'[c].worker = w
      /\ \A d \in Operations : d # c => codeRuns'[d] = codeRuns[d]
      /\ DOMAIN workers' = DOMAIN all /\ workers'[w] = Append(all[w], c)
      /\ \A v \in DOMAIN all : v # w => workers'[v] = all[v]
  BY Posts
<1>2. Append(<< >>, c) = << c >>
  OBVIOUS
<1>3. workers'[w] = << c >> /\ \A v \in DOMAIN workers' : v # w => workers'[v] = << >>
  BY <1>1, <1>2
<1>4. \A d \in W!Going' : d = c
  BY <1>1 DEF W!Going
<1> QED
  BY <1>1, <1>3, <1>4 DEF WorkerAlone, At

LEMMA WorkerStep ==
  ASSUME WorkerTyped, WorkerAlone, [W!Next]_W!workerVars
  PROVE  WorkerTyped' /\ WorkerAlone'
<1>1. /\ workers \in Seq(Seq(Operations)) /\ nodeWorker \in 0 .. Len(workers)
      /\ codeRuns \in [Operations -> Runs] /\ overlapped \in BOOLEAN /\ abandoned \in BOOLEAN
  BY DEF WorkerTyped
<1>2. PICK n \in Nat : n = Len(workers) /\ DOMAIN workers = 1 .. n
  BY <1>1, LenProperties
<1>3. ASSUME NEW c \in Operations, W!Refuse(c)
      PROVE  WorkerTyped' /\ WorkerAlone'
  <2>1. /\ codeRuns' \in [Operations -> Runs] /\ codeRuns[c].at = "no"
        /\ codeRuns'[c].at = "settled" /\ codeRuns'[c].got = "refused"
        /\ \A d \in Operations : d # c => codeRuns'[d] = codeRuns[d]
    BY <1>1, <1>3 DEF W!Refuse, W!Resolve, Runs
  <2>2. UNCHANGED << workers, nodeWorker, overlapped, abandoned >>
    BY <1>3 DEF W!Refuse
  <2>3. W!Going' = W!Going
    BY <2>1 DEF W!Going
  <2>4. WorkerTyped'
    BY <1>1, <2>1, <2>2 DEF WorkerTyped
  <2>5. \A d \in Operations : codeRuns'[d].at = "posted" \/ codeRuns[d].at = "posted" =>
                              codeRuns'[d] = codeRuns[d]
    BY <2>1
  <2>6. \A d \in Operations : \A w : At(d, w)' <=> At(d, w)
    BY <2>5 DEF At
  <2>7. \A d \in Operations : codeRuns'[d].at = "settled" =>
                              codeRuns'[d].got = "refused" \/ codeRuns'[d] = codeRuns[d]
    BY <2>1
  <2> QED
    BY <2>2, <2>3, <2>4, <2>5, <2>6, <2>7 DEF WorkerAlone
<1>4. ASSUME NEW c \in Operations, W!Begin(c)
      PROVE  WorkerTyped' /\ WorkerAlone'
  <2>1. /\ codeRuns[c].at = "no" /\ nodeWorker' = nodeWorker /\ abandoned' = abandoned
        /\ overlapped' = (overlapped \/ W!Going # {})
    BY <1>4 DEF W!Begin
  <2>2. overlapped' \in BOOLEAN
    BY <2>1
  <2>3. ASSUME ~ overlapped', ~ abandoned'
        PROVE  /\ W!Going = {} /\ \A v \in DOMAIN workers : workers[v] = << >>
               /\ \A d \in Operations :
                    codeRuns[d].at \in {"no", "settled"}
                      /\ (codeRuns[d].at = "settled" => codeRuns[d].got \in {d, "refused"})
    <3>1. ~ overlapped /\ ~ abandoned /\ W!Going = {}
      BY <2>1, <2>3
    <3>2. \A d \in Operations : codeRuns[d].at \in {"no", "settled"}
      BY <1>1, <3>1 DEF W!Going, Runs
    <3> QED
      BY <3>1, <3>2 DEF WorkerAlone, At
  <2>4. CASE nodeWorker # 0
    <3>1. W!PostTo(c, nodeWorker, workers)
      BY <1>4, <2>4 DEF W!Begin
    <3>2. nodeWorker \in DOMAIN workers
      BY <1>1, <1>2, <2>4
    <3>3. workers' \in Seq(Seq(Operations)) /\ Len(workers') = Len(workers)
          /\ codeRuns' \in [Operations -> Runs]
      BY <1>1, <3>1, <3>2, Posts
    <3>4. WorkerTyped'
      BY <1>1, <2>1, <2>2, <3>3 DEF WorkerTyped
    <3>5. ASSUME ~ overlapped', ~ abandoned' PROVE WorkerAlone'
      BY <1>1, <2>3, <3>1, <3>2, <3>5, PostsAlone
    <3> QED
      BY <3>4, <3>5 DEF WorkerAlone
  <2>5. CASE nodeWorker = 0
    <3>1. codeRuns' = [codeRuns EXCEPT ![c].at = "importing"] /\ workers' = workers
      BY <1>4, <2>5 DEF W!Begin
    <3>2. /\ codeRuns' \in [Operations -> Runs] /\ codeRuns'[c].at = "importing"
          /\ \A d \in Operations : d # c => codeRuns'[d] = codeRuns[d]
      BY <1>1, <3>1 DEF Runs
    <3>3. WorkerTyped'
      BY <1>1, <2>1, <2>2, <3>1, <3>2 DEF WorkerTyped
    <3>4. ASSUME ~ overlapped', ~ abandoned' PROVE WorkerAlone'
      <4>1. /\ W!Going = {} /\ \A v \in DOMAIN workers : workers[v] = << >>
            /\ \A d \in Operations :
                 codeRuns[d].at \in {"no", "settled"}
                   /\ (codeRuns[d].at = "settled" => codeRuns[d].got \in {d, "refused"})
        BY <2>3, <3>4
      <4>2. \A d \in W!Going' : d = c
        BY <3>2, <4>1 DEF W!Going
      <4> QED
        BY <3>1, <3>2, <4>1, <4>2 DEF WorkerAlone
    <3> QED
      BY <3>3, <3>4 DEF WorkerAlone
  <2> QED
    BY <2>4, <2>5
<1>5. ASSUME NEW c \in Operations, W!Imported(c)
      PROVE  WorkerTyped' /\ WorkerAlone'
  <2>1. PICK all : all = Append(workers, << >>)
    OBVIOUS
  <2>2. << >> \in Seq(Operations)
    OBVIOUS
  <2>3. /\ all \in Seq(Seq(Operations)) /\ Len(all) = n + 1
        /\ \A v \in 1 .. n : all[v] = workers[v]
        /\ all[n + 1] = << >>
    BY <1>1, <1>2, <2>1, <2>2, AppendProperties
  <2>4. DOMAIN all = 1 .. n + 1
    BY <2>3, LenProperties
  <2>5. /\ codeRuns[c].at = "importing" /\ nodeWorker' = n + 1 /\ W!PostTo(c, nodeWorker', all)
        /\ UNCHANGED << overlapped, abandoned >>
    BY <1>2, <1>5, <2>1 DEF W!Imported
  <2>6. PICK w : w = nodeWorker'
    OBVIOUS
  <2>7. w \in DOMAIN all /\ W!PostTo(c, w, all)
    BY <2>4, <2>5, <2>6
  <2>8. workers' \in Seq(Seq(Operations)) /\ Len(workers') = Len(all)
        /\ codeRuns' \in [Operations -> Runs]
    BY <2>3, <2>7, Posts
  <2>9. WorkerTyped'
    BY <1>1, <2>3, <2>5, <2>8 DEF WorkerTyped
  <2>10. ASSUME ~ overlapped, ~ abandoned PROVE WorkerAlone'
    <3>1. c \in W!Going
      BY <2>5 DEF W!Going
    <3>2. \A d \in W!Going : d = c
      BY <2>10, <3>1 DEF WorkerAlone
    <3>3. \A d \in Operations : d # c => codeRuns[d].at \in {"no", "settled"}
      BY <1>1, <3>2 DEF W!Going, Runs
    <3>4. \A d \in Operations : codeRuns[d].at # "posted"
      BY <2>5, <3>3
    <3>5. \A v \in 1 .. n : workers[v] = << >>
      BY <1>2, <2>10, <3>4 DEF WorkerAlone, At
    <3>6. \A v \in DOMAIN all : all[v] = << >>
      BY <2>3, <2>4, <3>5
    <3>7. \A d \in Operations : codeRuns[d].at = "settled" => codeRuns[d].got \in {d, "refused"}
      BY <2>10 DEF WorkerAlone
    <3> QED
      BY <2>3, <2>7, <3>3, <3>6, <3>7, PostsAlone
  <2> QED
    BY <2>5, <2>9, <2>10 DEF WorkerAlone
<1>6. ASSUME NEW w \in DOMAIN workers, W!Reply(w)
      PROVE  WorkerTyped' /\ WorkerAlone'
  <2>1. workers[w] \in Seq(Operations) /\ workers[w] # << >>
    <3>1. \A v \in DOMAIN workers : workers[v] \in Seq(Operations)
      BY <1>1
    <3> QED
      BY <1>6, <3>1 DEF W!Reply
  <2>2. PICK rest, first : rest = Tail(workers[w]) /\ first = Head(workers[w])
    OBVIOUS
  <2>3. rest \in Seq(Operations) /\ first \in Operations
    BY <2>1, <2>2, HeadTailProperties
  <2>4. workers' = [workers EXCEPT ![w] = rest] /\ UNCHANGED << nodeWorker, overlapped, abandoned >>
    BY <1>6, <2>2 DEF W!Reply
  <2>5. codeRuns' = [d \in Operations |-> IF At(d, w)
                                          THEN [codeRuns[d] EXCEPT !.at = "settled", !.got = first]
                                          ELSE codeRuns[d]]
    BY <1>6, <2>2 DEF W!Reply, At
  <2>6. /\ workers' \in Seq(Seq(Operations)) /\ Len(workers') = n /\ DOMAIN workers' = 1 .. n
        /\ workers'[w] = rest /\ \A v \in 1 .. n : v # w => workers'[v] = workers[v]
    BY <1>1, <1>2, <2>3, <2>4
  <2>7. codeRuns' \in [Operations -> Runs]
    BY <1>1, <2>3, <2>5 DEF Runs
  <2>8. \A d \in Operations : /\ At(d, w) => codeRuns'[d].at = "settled" /\ codeRuns'[d].got = first
                              /\ ~ At(d, w) => codeRuns'[d] = codeRuns[d]
    BY <1>1, <2>5 DEF Runs
  <2>9. WorkerTyped'
    BY <1>1, <1>2, <2>4, <2>6, <2>7 DEF WorkerTyped
  <2>10. ASSUME ~ overlapped, ~ abandoned PROVE WorkerAlone'
    <3>1. PICK c \in Operations : At(c, w)
      BY <1>2, <2>1, <2>10 DEF WorkerAlone
    <3>2. workers[w] = << c >>
      BY <2>10, <3>1 DEF WorkerAlone, At
    <3>3. first = c /\ rest = << >>
      BY <2>2, <3>2
    <3>4. W!Going' \subseteq W!Going /\ \A d \in W!Going : d = c
      BY <2>8, <2>10, <3>1 DEF WorkerAlone, W!Going, At
    <3>5. \A d \in Operations : At(d, w) => d = c
      BY <3>4 DEF W!Going, At
    <3>6. \A d \in Operations : d # c => codeRuns'[d] = codeRuns[d]
      BY <2>8, <3>5
    <3>7. codeRuns'[c].at = "settled" /\ codeRuns'[c].got = c
      BY <2>8, <3>1, <3>3
    <3>8. \A d \in Operations : codeRuns'[d].at # "posted"
      <4> SUFFICES ASSUME NEW d \in Operations, codeRuns'[d].at = "posted" PROVE FALSE
        OBVIOUS
      <4>1. d # c
        BY <3>7
      <4>2. d \in W!Going
        BY <3>6, <4>1 DEF W!Going
      <4> QED
        BY <3>4, <4>1, <4>2
    <3>9. \A v \in 1 .. n : workers'[v] = << >>
      <4> SUFFICES ASSUME NEW v \in 1 .. n, v # w PROVE workers[v] = << >>
        BY <2>6, <3>3
      <4>1. \A d \in Operations : ~ At(d, v)
        <5> SUFFICES ASSUME NEW d \in Operations, At(d, v) PROVE FALSE
          OBVIOUS
        <5>1. d \in W!Going
          BY DEF At, W!Going
        <5> QED
          BY <3>1, <3>4, <5>1 DEF At
      <4> QED
        BY <1>2, <2>10, <4>1 DEF WorkerAlone
    <3>10. \A d \in Operations : codeRuns'[d].at = "settled" => codeRuns'[d].got \in {d, "refused"}
      BY <2>10, <3>6, <3>7 DEF WorkerAlone
    <3> QED
      BY <2>6, <2>10, <3>4, <3>8, <3>9, <3>10 DEF WorkerAlone
  <2> QED
    BY <2>4, <2>9, <2>10 DEF WorkerAlone
<1>7. ASSUME NEW c \in Operations, W!GiveUp(c)
      PROVE  WorkerTyped' /\ WorkerAlone'
  <2>1. codeRuns' \in [Operations -> Runs]
    BY <1>1, <1>7 DEF W!GiveUp, W!Resolve, Runs
  <2> QED
    BY <1>1, <1>7, <2>1 DEF W!GiveUp, WorkerTyped, WorkerAlone
<1>8. CASE UNCHANGED W!workerVars
  BY <1>1, <1>8 DEF W!workerVars, WorkerTyped, WorkerAlone, W!Going, At
<1> QED
  BY <1>3, <1>4, <1>5, <1>6, <1>7, <1>8 DEF W!Next

-------------------------------------------------------------------------------
(* Browser: the shape of its state *)

OpsOn(kinds, where) ==
  [kind : kinds, tab : where,
   at : {"no", "asked", "served", "opening", "sent", "done", "failed"}, listing : SUBSET Tabs,
   socket : Nat, id : Nat, answer : Seq(Operations)]
Op == OpsOn({"none", "page", "history"}, {Nothing}) \cup OpsOn({"select", "open", "close"}, Tabs)
Pending == UNION {[ids -> Operations] : ids \in SUBSET Nat}
Socket == [tab : Tabs, state : {"connecting", "open", "failed", "closed"}, nextId : Nat, pending : Pending]
Request == [socket : Nat, id : Nat, op : Operations]

CdpTyped ==
  /\ tabs \in SUBSET Tabs /\ targets \in Seq(Tabs)
  /\ ops \in [Operations -> Op] /\ sockets \in Seq(Socket) /\ requests \in SUBSET Request
  /\ DOMAIN connections \subseteq Tabs
  /\ \A t \in DOMAIN connections : connections[t] \in DOMAIN sockets
  /\ \A o \in Operations : ops[o].at \in {"opening", "sent"} => ops[o].socket \in DOMAIN sockets
  /\ \A m \in requests : m.socket \in DOMAIN sockets

\* An operation that waits is the one its socket knows by its id, and the other way round; a
\* request that may still be answered is that of the operation waiting under its id, and ids
\* are drawn in order.
PendingWaits ==
  \A s \in DOMAIN sockets : \A i \in DOMAIN sockets[s].pending :
    LET op == ops[sockets[s].pending[i]]
    IN i < sockets[s].nextId /\ op.at = "sent" /\ op.socket = s /\ op.id = i
Pends(o) ==
  LET pending == sockets[ops[o].socket].pending
  IN ops[o].id \in DOMAIN pending /\ pending[ops[o].id] = o
RequestsKnown ==
  \A m \in requests :
    /\ m.id < sockets[m.socket].nextId
    /\ m.id \in DOMAIN sockets[m.socket].pending => sockets[m.socket].pending[m.id] = m.op
AnswersOwn ==
  \A o \in Operations :
    /\ ops[o].kind \in {"page", "history"} /\ ops[o].at = "done" => ops[o].answer = << o >>
    /\ ops[o].at = "sent" => Pends(o)

CdpKept == PendingWaits /\ RequestsKnown /\ AnswersOwn

LEMMA CdpSame ==
  /\ \A s : B!ToSet(s) = ToSet(s)
  /\ \A s, at : B!ElementsAt(s, at) = ElementsAt(s, at)
  /\ \A set : B!SetToSeq(set) = SetToSeq(set)
BY DEF B!ToSet, ToSet, B!ElementsAt, ElementsAt, B!Nth, Nth, B!SetToSeq, SetToSeq, B!Cardinality,
       Cardinality, B!IsInjective, IsInjective

LEMMA NonePending == << >> \in Pending /\ DOMAIN << >> = {}
<1>1. << >> \in [{} -> Operations]
  OBVIOUS
<1> QED
  BY <1>1 DEF Pending

-------------------------------------------------------------------------------
(* Browser: sockets that lose what is pending *)

Fewer(old, new) ==
  /\ new \in Socket /\ new.nextId = old.nextId
  /\ DOMAIN new.pending \subseteq DOMAIN old.pending
  /\ \A i \in DOMAIN new.pending : new.pending[i] = old.pending[i]

\* The sockets stay, with what is pending or less of it; a new one has nothing pending.
SocketsFewer ==
  /\ sockets' \in Seq(Socket) /\ DOMAIN sockets \subseteq DOMAIN sockets'
  /\ \A s \in DOMAIN sockets : Fewer(sockets[s], sockets'[s])
  /\ \A s \in DOMAIN sockets' \ DOMAIN sockets : DOMAIN sockets'[s].pending = {}

\* An operation stays as it is while it is pending, and else does not wait for an answer.
Goes(o) ==
  LET still == ops[o].id \in DOMAIN sockets'[ops[o].socket].pending
  IN \/ ops'[o] = ops[o] /\ (ops[o].at = "sent" => still)
     \/ /\ ops[o].at = "sent" => ~ still
        /\ ops'[o].at # "sent" /\ (ops'[o].at = "opening" => ops'[o].socket \in DOMAIN sockets')
        /\ ops'[o].kind \in {"page", "history"} /\ ops'[o].at = "done" => ops'[o].answer = << o >>

\* What every step but the sending of a message does.
LEMMA FewerKept ==
  ASSUME CdpTyped, CdpKept, SocketsFewer, requests' \subseteq requests,
         ops' \in [Operations -> Op], \A o \in Operations : Goes(o),
         tabs' \in SUBSET Tabs, targets' \in Seq(Tabs), DOMAIN connections' \subseteq Tabs,
         \A t \in DOMAIN connections' : connections'[t] \in DOMAIN sockets'
  PROVE  CdpTyped' /\ CdpKept'
<1>1. \A o \in Operations : ops[o].at = "sent" => ops[o].socket \in DOMAIN sockets /\ Pends(o)
  BY DEF CdpTyped, CdpKept, AnswersOwn
<1>2. \A o \in Operations : ops'[o].at \in {"opening", "sent"} => ops'[o].socket \in DOMAIN sockets'
  BY DEF Goes, SocketsFewer, CdpTyped
<1>3. \A m \in requests' : m.socket \in DOMAIN sockets'
  BY DEF SocketsFewer, CdpTyped
<1>4. CdpTyped'
  BY <1>2, <1>3 DEF CdpTyped, SocketsFewer
<1>5. PendingWaits'
  <2> SUFFICES ASSUME NEW s \in DOMAIN sockets', NEW i \in DOMAIN sockets'[s].pending
               PROVE  /\ i < sockets'[s].nextId /\ ops'[sockets'[s].pending[i]].at = "sent"
                      /\ ops'[sockets'[s].pending[i]].socket = s /\ ops'[sockets'[s].pending[i]].id = i
    BY DEF PendingWaits
  <2>1. s \in DOMAIN sockets /\ Fewer(sockets[s], sockets'[s])
    BY DEF SocketsFewer
  <2>2. i \in DOMAIN sockets[s].pending /\ sockets'[s].pending[i] = sockets[s].pending[i]
    BY <2>1 DEF Fewer
  <2>3. PICK o : o = sockets[s].pending[i]
    OBVIOUS
  <2>4. o \in Operations
    <3>1. sockets'[s].pending \in Pending
      BY <2>1 DEF Fewer, Socket
    <3>2. PICK ids \in SUBSET Nat : sockets'[s].pending \in [ids -> Operations]
      BY <3>1 DEF Pending
    <3> QED
      BY <2>2, <2>3, <3>2
  <2>5. i < sockets[s].nextId /\ ops[o].at = "sent" /\ ops[o].socket = s /\ ops[o].id = i
    <3>1. \A t \in DOMAIN sockets : \A j \in DOMAIN sockets[t].pending :
            /\ j < sockets[t].nextId /\ ops[sockets[t].pending[j]].at = "sent"
            /\ ops[sockets[t].pending[j]].socket = t /\ ops[sockets[t].pending[j]].id = j
      BY DEF CdpKept, PendingWaits
    <3> QED
      BY <2>1, <2>2, <2>3, <3>1
  <2>6. ops'[o] = ops[o]
    BY <2>4, <2>5 DEF Goes
  <2> QED
    BY <2>1, <2>2, <2>3, <2>5, <2>6 DEF Fewer
<1>6. RequestsKnown'
  <2> SUFFICES ASSUME NEW m \in requests'
               PROVE  /\ m.id < sockets'[m.socket].nextId
                      /\ m.id \in DOMAIN sockets'[m.socket].pending => sockets'[m.socket].pending[m.id] = m.op
    BY DEF RequestsKnown
  <2>1. m \in requests /\ m.socket \in DOMAIN sockets
    BY DEF CdpTyped
  <2>2. Fewer(sockets[m.socket], sockets'[m.socket])
    BY <2>1 DEF SocketsFewer
  <2> QED
    BY <2>1, <2>2 DEF Fewer, CdpKept, RequestsKnown
<1>7. AnswersOwn'
  <2> SUFFICES ASSUME NEW o \in Operations
               PROVE  /\ ops'[o].kind \in {"page", "history"} /\ ops'[o].at = "done" => ops'[o].answer = << o >>
                      /\ ops'[o].at = "sent" => Pends(o)'
    BY DEF AnswersOwn
  <2>1. ops'[o].kind \in {"page", "history"} /\ ops'[o].at = "done" => ops'[o].answer = << o >>
    BY DEF Goes, CdpKept, AnswersOwn
  <2>2. ASSUME ops'[o].at = "sent" PROVE Pends(o)'
    <3>1. ops'[o] = ops[o] /\ ops[o].id \in DOMAIN sockets'[ops[o].socket].pending
      BY <2>2 DEF Goes
    <3>2. ops[o].socket \in DOMAIN sockets /\ Pends(o)
      BY <1>1, <2>2, <3>1
    <3>3. Fewer(sockets[ops[o].socket], sockets'[ops[o].socket])
      BY <3>2 DEF SocketsFewer
    <3> QED
      BY <3>1, <3>2, <3>3 DEF Fewer, Pends
  <2> QED
    BY <2>1, <2>2
<1> QED
  BY <1>4, <1>5, <1>6, <1>7 DEF CdpKept

\* Sockets that stay as they are.
LEMMA FewerSelf ==
  ASSUME CdpTyped
  PROVE  \A s \in DOMAIN sockets : sockets[s] \in Socket /\ Fewer(sockets[s], sockets[s])
BY DEF CdpTyped, Fewer

\* A set of sockets is shut, with the operations that wait there; of the others some go on.
LEMMA ShutKeeps ==
  ASSUME CdpTyped, NEW shut
  PROVE  /\ B!Cleared(shut) \in Seq(Socket) /\ DOMAIN B!Cleared(shut) = DOMAIN sockets
         /\ Len(B!Cleared(shut)) = Len(sockets)
         /\ \A s \in DOMAIN sockets :
              /\ s \in shut => /\ Fewer(sockets[s], B!Cleared(shut)[s])
                               /\ DOMAIN B!Cleared(shut)[s].pending = {}
              /\ s \notin shut => B!Cleared(shut)[s] = sockets[s]
         /\ B!Others(shut) \in [Operations -> Op]
         /\ \A p \in Operations :
              IF ops[p].at = "sent" /\ ops[p].socket \in shut
              THEN /\ B!Others(shut)[p].at = "failed" /\ B!Others(shut)[p].kind = ops[p].kind
              ELSE B!Others(shut)[p] = ops[p]
<1>1. PICK n \in Nat : n = Len(sockets) /\ DOMAIN sockets = 1 .. n
  BY LenProperties DEF CdpTyped
<1>2. \A s \in DOMAIN sockets : sockets[s] \in Socket
  BY FewerSelf
<1>3. \A s \in DOMAIN sockets : /\ Fewer(sockets[s], B!Shut(s)) /\ DOMAIN B!Shut(s).pending = {}
                                /\ B!Shut(s) \in Socket
  <2> SUFFICES ASSUME NEW s \in DOMAIN sockets
               PROVE  /\ Fewer(sockets[s], B!Shut(s)) /\ DOMAIN B!Shut(s).pending = {}
                      /\ B!Shut(s) \in Socket
    OBVIOUS
  <2>1. PICK old \in Socket : old = sockets[s]
    BY <1>2
  <2>2. PICK none \in Pending : none = << >> /\ DOMAIN none = {}
    BY NonePending
  <2>3. PICK new : new = [old EXCEPT !.pending = none,
                                     !.state = IF @ = "connecting" THEN "failed" ELSE "closed"]
    OBVIOUS
  <2>4. new \in Socket /\ new.nextId = old.nextId /\ new.pending = none
    BY <2>3 DEF Socket
  <2>5. new = B!Shut(s)
    BY <2>1, <2>2, <2>3 DEF B!Shut
  <2> QED
    BY <2>1, <2>2, <2>4, <2>5 DEF Fewer
<1>4. B!Cleared(shut) = [s \in 1 .. n |-> IF s \in shut THEN B!Shut(s) ELSE sockets[s]]
  BY <1>1 DEF B!Cleared
<1>5. /\ B!Cleared(shut) \in Seq(Socket) /\ DOMAIN B!Cleared(shut) = 1 .. n /\ Len(B!Cleared(shut)) = n
      /\ \A s \in 1 .. n : B!Cleared(shut)[s] = IF s \in shut THEN B!Shut(s) ELSE sockets[s]
  BY <1>1, <1>2, <1>3, <1>4
<1>6. /\ B!Others(shut) \in [Operations -> Op]
      /\ \A p \in Operations :
           IF ops[p].at = "sent" /\ ops[p].socket \in shut
           THEN /\ B!Others(shut)[p].at = "failed" /\ B!Others(shut)[p].kind = ops[p].kind
           ELSE B!Others(shut)[p] = ops[p]
  BY DEF CdpTyped, B!Others, Op, OpsOn
<1> QED
  BY <1>1, <1>3, <1>5, <1>6

\* An operation that does not wait takes a step of its own.
Moves(p) ==
  /\ ops[p].at # "sent" /\ ops'[p].at # "sent"
  /\ ops'[p].at = "opening" => ops'[p].socket \in DOMAIN sockets'
  /\ ops'[p].kind \in {"page", "history"} => ops'[p].at # "done"

LEMMA ShutStep ==
  ASSUME CdpTyped, CdpKept, NEW shut,
         sockets' \in Seq(Socket), DOMAIN sockets \subseteq DOMAIN sockets',
         \A s \in DOMAIN sockets : sockets'[s] = B!Cleared(shut)[s],
         \A s \in DOMAIN sockets' \ DOMAIN sockets : DOMAIN sockets'[s].pending = {},
         \A p \in Operations : ops'[p] = B!Others(shut)[p] \/ Moves(p)
  PROVE  SocketsFewer /\ \A p \in Operations : Goes(p)
<1>1. \A s \in DOMAIN sockets :
        /\ s \in shut => Fewer(sockets[s], sockets'[s]) /\ DOMAIN sockets'[s].pending = {}
        /\ s \notin shut => sockets'[s] = sockets[s]
  BY ShutKeeps
<1>2. SocketsFewer
  BY <1>1, FewerSelf DEF SocketsFewer
<1>3. ASSUME NEW p \in Operations PROVE Goes(p)
  <2>1. ops[p].at = "sent" => ops[p].socket \in DOMAIN sockets /\ Pends(p)
    BY DEF CdpTyped, CdpKept, AnswersOwn
  <2>2. CASE Moves(p)
    BY <2>2 DEF Moves, Goes
  <2>3. CASE ops'[p] = B!Others(shut)[p] /\ ops[p].at = "sent" /\ ops[p].socket \in shut
    <3>1. ops'[p].at = "failed"
      BY <2>3, ShutKeeps
    <3>2. ops[p].id \notin DOMAIN sockets'[ops[p].socket].pending
      BY <1>1, <2>1, <2>3
    <3> QED
      BY <3>1, <3>2 DEF Goes
  <2>4. CASE ops'[p] = B!Others(shut)[p] /\ ~ (ops[p].at = "sent" /\ ops[p].socket \in shut)
    <3>1. ops'[p] = ops[p]
      BY <2>4, ShutKeeps
    <3>2. ops[p].at = "sent" => ops[p].id \in DOMAIN sockets'[ops[p].socket].pending
      BY <1>1, <2>1, <2>4 DEF Pends
    <3> QED
      BY <3>1, <3>2 DEF Goes
  <2> QED
    BY <2>2, <2>3, <2>4
<1> QED
  BY <1>2, <1>3

\* Nothing is shut.
LEMMA StayStep ==
  ASSUME CdpTyped, CdpKept, sockets' \in Seq(Socket), DOMAIN sockets' = DOMAIN sockets,
         \A s \in DOMAIN sockets : /\ sockets'[s].nextId = sockets[s].nextId
                                   /\ sockets'[s].pending = sockets[s].pending,
         \A p \in Operations : ops'[p] = ops[p] \/ Moves(p)
  PROVE  SocketsFewer /\ \A p \in Operations : Goes(p)
<1>1. \A s \in DOMAIN sockets : sockets'[s] \in Socket
  BY LenProperties
<1>2. SocketsFewer
  BY <1>1 DEF SocketsFewer, Fewer
<1>3. ASSUME NEW p \in Operations PROVE Goes(p)
  <2>1. ops[p].at = "sent" => ops[p].socket \in DOMAIN sockets /\ Pends(p)
    BY DEF CdpTyped, CdpKept, AnswersOwn
  <2> QED
    BY <2>1 DEF Moves, Goes, Pends
<1> QED
  BY <1>2, <1>3

\* One operation waits no longer.
LEMMA DropStep ==
  ASSUME CdpTyped, CdpKept, NEW o \in Operations, ops[o].at = "sent",
         sockets' = [sockets EXCEPT ![ops[o].socket].pending = B!Without(@, ops[o].id)],
         ops'[o].at \in {"done", "failed", "asked"},
         ops'[o].kind \in {"page", "history"} /\ ops'[o].at = "done" => ops'[o].answer = << o >>,
         \A p \in Operations : p # o => ops'[p] = ops[p]
  PROVE  SocketsFewer /\ \A p \in Operations : Goes(p)
<1>1. PICK s, id : s = ops[o].socket /\ id = ops[o].id
  OBVIOUS
<1>2. s \in DOMAIN sockets /\ id \in DOMAIN sockets[s].pending /\ sockets[s].pending[id] = o
  BY <1>1 DEF CdpTyped, CdpKept, AnswersOwn, Pends
<1>3. PICK old \in Socket : old = sockets[s]
  BY <1>2, FewerSelf
<1>4. PICK rest : rest = B!Without(old.pending, id)
  OBVIOUS
<1>5. rest \in Pending /\ DOMAIN rest = DOMAIN old.pending \ {id}
      /\ \A i \in DOMAIN rest : rest[i] = old.pending[i]
  <2>1. rest = [i \in DOMAIN old.pending \ {id} |-> old.pending[i]]
    BY <1>4 DEF B!Without
  <2>2. PICK ids \in SUBSET Nat : old.pending \in [ids -> Operations]
    BY <1>3 DEF Socket, Pending
  <2>3. rest \in [ids \ {id} -> Operations]
    BY <2>1, <2>2
  <2>4. ids \ {id} \in SUBSET Nat
    OBVIOUS
  <2> QED
    BY <2>1, <2>3, <2>4 DEF Pending
<1>6. PICK new : new = [old EXCEPT !.pending = rest]
  OBVIOUS
<1>7. new \in Socket /\ new.nextId = old.nextId /\ new.pending = rest
  BY <1>5, <1>6 DEF Socket
<1>8. sockets' = [sockets EXCEPT ![s] = new]
  BY <1>1, <1>3, <1>4, <1>6
<1>9. PICK n \in Nat : DOMAIN sockets = 1 .. n /\ sockets \in Seq(Socket) /\ Len(sockets) = n
  BY LenProperties DEF CdpTyped
<1>10. /\ sockets' \in Seq(Socket) /\ DOMAIN sockets' = DOMAIN sockets /\ sockets'[s] = new
       /\ \A t \in DOMAIN sockets : t # s => sockets'[t] = sockets[t]
  <2>1. sockets \in [1 .. n -> Socket] /\ s \in 1 .. n
    BY <1>2, <1>9
  <2>2. /\ sockets' \in [1 .. n -> Socket] /\ sockets'[s] = new
        /\ \A t \in 1 .. n : t # s => sockets'[t] = sockets[t]
    BY <1>7, <1>8, <2>1
  <2> QED
    BY <1>9, <2>2, SeqDef
<1>11. Fewer(sockets[s], new)
  BY <1>3, <1>5, <1>7 DEF Fewer
<1>12. SocketsFewer
  BY <1>10, <1>11, FewerSelf DEF SocketsFewer
<1>13. Goes(o)
  BY <1>1, <1>5, <1>7, <1>10 DEF Goes
<1>14. ASSUME NEW p \in Operations, p # o PROVE Goes(p)
  <2>1. ops[p].at = "sent" => ops[p].socket \in DOMAIN sockets /\ Pends(p)
    BY DEF CdpTyped, CdpKept, AnswersOwn
  <2>2. ASSUME ops[p].at = "sent" PROVE ops[p].id \in DOMAIN sockets'[ops[p].socket].pending
    <3>1. CASE ops[p].socket # s
      BY <1>10, <2>1, <2>2, <3>1 DEF Pends
    <3>2. CASE ops[p].socket = s
      <4>1. ops[p].id \in DOMAIN old.pending /\ old.pending[ops[p].id] = p
        BY <1>3, <2>1, <2>2, <3>2 DEF Pends
      <4>2. ops[p].id # id
        BY <1>2, <1>3, <1>14, <4>1
      <4> QED
        BY <1>5, <1>7, <1>10, <3>2, <4>1, <4>2
    <3> QED
      BY <3>1, <3>2
  <2> QED
    BY <1>14, <2>2 DEF Goes
<1> QED
  BY <1>12, <1>13, <1>14

-------------------------------------------------------------------------------
(* Browser: the steps *)

\* What an operation may be to begin with, and what may change of it.
LEMMA OpBegins ==
  /\ B!Unused \in Op
  /\ \A kind \in {"page", "history"}, at \in {"no", "asked"} :
       /\ [B!Unused EXCEPT !.kind = kind, !.tab = Nothing, !.at = at] \in Op
       /\ [B!Unused EXCEPT !.kind = kind, !.at = at] \in Op
  /\ \A kind \in {"select", "open", "close"}, t \in Tabs, at \in {"no", "asked"} :
       [B!Unused EXCEPT !.kind = kind, !.tab = t, !.at = at] \in Op
<1>1. << >> \in Seq(Operations)
  OBVIOUS
<1> QED
  BY <1>1 DEF B!Unused, Op, OpsOn

LEMMA OpGoesOn ==
  ASSUME NEW op \in Op, NEW at \in {"no", "asked", "served", "opening", "sent", "done", "failed"}
  PROVE  /\ [op EXCEPT !.at = at] \in Op
         /\ \A listing \in SUBSET Tabs :
              [op EXCEPT !.at = at, !.listing = listing] \in Op
         /\ \A id \in Nat : [op EXCEPT !.at = at, !.id = id] \in Op
         /\ \A answer \in Seq(Operations) : [op EXCEPT !.at = at, !.answer = answer] \in Op
         /\ \A s \in Nat, listing \in SUBSET Tabs :
              [op EXCEPT !.at = at, !.socket = s, !.listing = listing] \in Op
<1>1. [op EXCEPT !.at = at] \in Op
  BY DEF Op, OpsOn
<1>2. ASSUME NEW listing \in SUBSET Tabs PROVE [op EXCEPT !.at = at, !.listing = listing] \in Op
  BY DEF Op, OpsOn
<1>3. ASSUME NEW id \in Nat PROVE [op EXCEPT !.at = at, !.id = id] \in Op
  BY DEF Op, OpsOn
<1>4. ASSUME NEW answer \in Seq(Operations) PROVE [op EXCEPT !.at = at, !.answer = answer] \in Op
  BY DEF Op, OpsOn
<1>5. ASSUME NEW s \in Nat, NEW listing \in SUBSET Tabs
      PROVE  [op EXCEPT !.at = at, !.socket = s, !.listing = listing] \in Op
  BY DEF Op, OpsOn
<1> QED
  BY <1>1, <1>2, <1>3, <1>4, <1>5

\* What a step of one operation makes of the others.
LEMMA SetOp ==
  ASSUME CdpTyped, NEW o \in Operations, NEW op \in Op, ops' = [ops EXCEPT ![o] = op]
  PROVE  ops' \in [Operations -> Op] /\ ops'[o] = op /\ \A p \in Operations : p # o => ops'[p] = ops[p]
BY DEF CdpTyped

\* Steps of the browser, and of operations that leave the sockets alone.
LEMMA QuietStep ==
  ASSUME CdpTyped, CdpKept, UNCHANGED << sockets, connections, requests >>,
         ops' \in [Operations -> Op], tabs' \in SUBSET Tabs, targets' \in Seq(Tabs),
         \A p \in Operations : ops'[p] = ops[p] \/ Moves(p)
  PROVE  CdpTyped' /\ CdpKept'
<1>1. /\ sockets \in Seq(Socket) /\ DOMAIN connections \subseteq Tabs
      /\ \A t \in DOMAIN connections : connections[t] \in DOMAIN sockets
  BY DEF CdpTyped
<1>2. SocketsFewer /\ \A p \in Operations : Goes(p)
  BY <1>1, StayStep
<1> QED
  BY <1>1, <1>2, FewerKept

LEMMA ServeStep ==
  ASSUME CdpTyped, CdpKept, NEW o \in Operations, B!Serve(o)
  PROVE  CdpTyped' /\ CdpKept'
<1>1. /\ tabs \in SUBSET Tabs /\ targets \in Seq(Tabs) /\ ops[o] \in Op
  BY DEF CdpTyped
<1>2. UNCHANGED << sockets, connections, requests, targets >> /\ ops[o].at = "asked"
  BY DEF B!Serve, B!adapterVars
<1>3. PICK op : op = [ops[o] EXCEPT !.at = "served", !.listing = tabs]
  OBVIOUS
<1>4. op \in Op
  BY <1>1, <1>3, OpGoesOn
<1>5. op.at = "served"
  BY <1>1, <1>3 DEF Op, OpsOn
<1>6. ops' = [ops EXCEPT ![o] = op]
  BY <1>3 DEF B!Serve
<1>7. ops[o].kind = "open" => ops[o].tab \in Tabs
  BY <1>1 DEF Op, OpsOn
<1>8. tabs' \in SUBSET Tabs
  BY <1>1, <1>7 DEF B!Serve
<1>9. \A p \in Operations : ops'[p] = ops[p] \/ Moves(p)
  BY <1>2, <1>4, <1>5, <1>6, SetOp DEF Moves
<1> QED
  BY <1>1, <1>2, <1>4, <1>6, <1>8, <1>9, SetOp, QuietStep

LEMMA AskStep ==
  ASSUME CdpTyped, CdpKept, NEW o \in Operations, NEW kind, NEW t,
         \/ kind \in {"page", "history"} /\ t = Nothing
         \/ kind \in {"select", "open", "close"} /\ t \in Tabs,
         B!Ask(o, kind, t)
  PROVE  CdpTyped' /\ CdpKept'
<1>1. tabs \in SUBSET Tabs /\ targets \in Seq(Tabs) /\ ops[o] \in Op
  BY DEF CdpTyped
<1>2. UNCHANGED << sockets, connections, requests, targets, tabs >> /\ ops[o].at = "no"
  BY DEF B!Ask, B!adapterVars, B!browserVars
<1>3. PICK op : op = [B!Unused EXCEPT !.kind = kind, !.tab = t, !.at = "asked"]
  OBVIOUS
<1>4. op \in Op
  BY <1>3, OpBegins
<1>5. op.at = "asked"
  BY <1>3 DEF B!Unused
<1>6. ops' = [ops EXCEPT ![o] = op]
  BY <1>3 DEF B!Ask
<1>7. \A p \in Operations : ops'[p] = ops[p] \/ Moves(p)
  BY <1>2, <1>4, <1>5, <1>6, SetOp DEF Moves
<1> QED
  BY <1>1, <1>2, <1>4, <1>6, <1>7, SetOp, QuietStep

LEMMA NotOpenedStep ==
  ASSUME CdpTyped, CdpKept, NEW o \in Operations, B!NotOpened(o)
  PROVE  CdpTyped' /\ CdpKept'
<1>1. tabs \in SUBSET Tabs /\ targets \in Seq(Tabs) /\ ops[o] \in Op
  BY DEF CdpTyped
<1>2. UNCHANGED << sockets, connections, requests, targets, tabs >> /\ ops[o].at = "opening"
  BY DEF B!NotOpened, B!adapterVars, B!browserVars
<1>3. PICK op : op = [ops[o] EXCEPT !.at = "failed"]
  OBVIOUS
<1>4. op \in Op
  BY <1>1, <1>3, OpGoesOn
<1>5. op.at = "failed"
  BY <1>1, <1>3 DEF Op, OpsOn
<1>6. ops' = [ops EXCEPT ![o] = op]
  BY <1>3 DEF B!NotOpened
<1>7. \A p \in Operations : ops'[p] = ops[p] \/ Moves(p)
  BY <1>2, <1>4, <1>5, <1>6, SetOp DEF Moves
<1> QED
  BY <1>1, <1>2, <1>4, <1>6, <1>7, SetOp, QuietStep

LEMMA TabOpenedStep ==
  ASSUME CdpTyped, CdpKept, NEW o \in Operations, B!TabOpened(o)
  PROVE  CdpTyped' /\ CdpKept'
<1>1. tabs \in SUBSET Tabs /\ targets \in Seq(Tabs) /\ ops[o] \in Op
  BY DEF CdpTyped
<1>2. UNCHANGED << sockets, connections, requests, tabs >> /\ ops[o].at = "served" /\ ops[o].kind = "open"
  BY DEF B!TabOpened, B!adapterVars, B!browserVars
<1>3. PICK op : op = [ops[o] EXCEPT !.at = "done"]
  OBVIOUS
<1>4. op \in Op
  BY <1>1, <1>3, OpGoesOn
<1>5. op.at = "done" /\ op.kind = "open" /\ ops[o].tab \in Tabs
  BY <1>1, <1>2, <1>3 DEF Op, OpsOn
<1>6. ops' = [ops EXCEPT ![o] = op]
  BY <1>3 DEF B!TabOpened
<1>7. \A p \in Operations : ops'[p] = ops[p] \/ Moves(p)
  BY <1>2, <1>4, <1>5, <1>6, SetOp DEF Moves
<1>8. targets' \in Seq(Tabs)
  BY <1>1, <1>5, AppendProperties DEF B!TabOpened
<1> QED
  BY <1>1, <1>2, <1>4, <1>6, <1>7, <1>8, SetOp, QuietStep

\* A socket opens, or it does not.
LEMMA SocketStep ==
  ASSUME CdpTyped, CdpKept, NEW s \in DOMAIN sockets, B!Opened(s) \/ B!OpenFails(s)
  PROVE  CdpTyped' /\ CdpKept'
<1>1. PICK state : state \in {"open", "failed"} /\ B!SetSocket(s, state)
  BY DEF B!Opened, B!OpenFails
<1>2. UNCHANGED << targets, connections, requests, ops, tabs >>
  BY DEF B!Opened, B!OpenFails, B!browserVars
<1>3. PICK n \in Nat : DOMAIN sockets = 1 .. n /\ sockets \in Seq(Socket) /\ Len(sockets) = n
  BY LenProperties DEF CdpTyped
<1>4. PICK old \in Socket : old = sockets[s]
  BY FewerSelf
<1>5. PICK new : new = [old EXCEPT !.state = state]
  OBVIOUS
<1>6. new \in Socket /\ new.nextId = old.nextId /\ new.pending = old.pending
  BY <1>1, <1>5 DEF Socket
<1>7. sockets' = [sockets EXCEPT ![s] = new]
  BY <1>1, <1>4, <1>5 DEF B!SetSocket
<1>8. /\ sockets' \in [1 .. n -> Socket] /\ sockets'[s] = new
      /\ \A t \in 1 .. n : t # s => sockets'[t] = sockets[t]
  <2>1. sockets \in [1 .. n -> Socket] /\ s \in 1 .. n
    BY <1>3
  <2> QED
    BY <1>6, <1>7, <2>1
<1>9. /\ sockets' \in Seq(Socket) /\ DOMAIN sockets' = DOMAIN sockets
      /\ \A t \in DOMAIN sockets : /\ sockets'[t].nextId = sockets[t].nextId
                                   /\ sockets'[t].pending = sockets[t].pending
  BY <1>3, <1>4, <1>6, <1>8, SeqDef
<1>10. SocketsFewer /\ \A p \in Operations : Goes(p)
  BY <1>2, <1>9, StayStep
<1>11. /\ ops' \in [Operations -> Op] /\ tabs' \in SUBSET Tabs /\ targets' \in Seq(Tabs)
       /\ DOMAIN connections' \subseteq Tabs
       /\ \A t \in DOMAIN connections' : connections'[t] \in DOMAIN sockets'
  BY <1>2, <1>9 DEF CdpTyped
<1> QED
  BY <1>2, <1>10, <1>11, FewerKept

\* Whoever waits on a socket is in its list: its rejection reaches them all.
LEMMA RejectedAll ==
  ASSUME CdpTyped, CdpKept, NEW s
  PROVE  B!Rejected(s) = B!Others({s})
<1>1. \A p \in Operations : ops[p].at = "sent" => Pends(p)
  BY DEF CdpKept, AnswersOwn
<1> QED
  BY <1>1 DEF B!Rejected, B!Others, Pends

LEMMA SocketClosesStep ==
  ASSUME CdpTyped, CdpKept, NEW s \in DOMAIN sockets, B!SocketCloses(s)
  PROVE  CdpTyped' /\ CdpKept'
<1> PICK shut : shut = {s}
  OBVIOUS
<1>1. ops' = B!Others(shut) /\ UNCHANGED << targets, connections, requests, tabs >>
  BY RejectedAll DEF B!SocketCloses, B!browserVars
<1>2. PICK n \in Nat : DOMAIN sockets = 1 .. n /\ sockets \in Seq(Socket) /\ Len(sockets) = n
  BY LenProperties DEF CdpTyped
<1>3. sockets' = B!Cleared(shut)
  BY <1>2 DEF B!Cleared, B!SocketCloses
<1>4. /\ sockets' \in Seq(Socket) /\ DOMAIN sockets' = DOMAIN sockets
      /\ ops' \in [Operations -> Op]
  BY <1>1, <1>3, ShutKeeps
<1>5. SocketsFewer /\ \A p \in Operations : Goes(p)
  BY <1>1, <1>3, <1>4, ShutStep
<1>6. /\ tabs' \in SUBSET Tabs /\ targets' \in Seq(Tabs) /\ DOMAIN connections' \subseteq Tabs
      /\ \A t \in DOMAIN connections' : connections'[t] \in DOMAIN sockets'
  BY <1>1, <1>4 DEF CdpTyped
<1> QED
  BY <1>1, <1>4, <1>5, <1>6, FewerKept

LEMMA CloseAdapterStep ==
  ASSUME CdpTyped, CdpKept, B!CloseAdapter
  PROVE  CdpTyped' /\ CdpKept'
<1>1. PICK shut : shut = B!Gone({})
  OBVIOUS
<1>2. /\ sockets' = B!Cleared(shut) /\ ops' = B!Others(shut) /\ DOMAIN connections' = {}
      /\ UNCHANGED << targets, requests, tabs >>
  BY <1>1 DEF B!CloseAdapter, B!browserVars
<1>3. /\ sockets' \in Seq(Socket) /\ DOMAIN sockets' = DOMAIN sockets
      /\ ops' \in [Operations -> Op]
  BY <1>2, ShutKeeps
<1>4. SocketsFewer /\ \A p \in Operations : Goes(p)
  BY <1>2, <1>3, ShutStep
<1>5. tabs' \in SUBSET Tabs /\ targets' \in Seq(Tabs)
  BY <1>2 DEF CdpTyped
<1> QED
  BY <1>2, <1>3, <1>4, <1>5, FewerKept

LEMMA CallTimeoutStep ==
  ASSUME CdpTyped, CdpKept, NEW o \in Operations, B!CallTimeout(o)
  PROVE  CdpTyped' /\ CdpKept'
<1>1. /\ ops[o].at = "sent" /\ sockets' = [sockets EXCEPT ![ops[o].socket].pending = B!Without(@, ops[o].id)]
      /\ UNCHANGED << targets, connections, requests, tabs >> /\ ops[o] \in Op
  BY DEF B!CallTimeout, B!browserVars, CdpTyped
<1>2. PICK op : op = [ops[o] EXCEPT !.at = "failed"]
  OBVIOUS
<1>3. op \in Op
  BY <1>1, <1>2, OpGoesOn
<1>4. op.at = "failed"
  BY <1>1, <1>2 DEF Op, OpsOn
<1>5. ops' = [ops EXCEPT ![o] = op]
  BY <1>2 DEF B!CallTimeout
<1>6. ops' \in [Operations -> Op] /\ ops'[o] = op /\ \A p \in Operations : p # o => ops'[p] = ops[p]
  BY <1>3, <1>5, SetOp
<1>7. SocketsFewer /\ \A p \in Operations : Goes(p)
  BY <1>1, <1>4, <1>6, DropStep
<1>8. /\ tabs' \in SUBSET Tabs /\ targets' \in Seq(Tabs) /\ DOMAIN connections' \subseteq Tabs
      /\ \A t \in DOMAIN connections' : connections'[t] \in DOMAIN sockets'
  BY <1>1, <1>7 DEF CdpTyped, SocketsFewer
<1> QED
  BY <1>1, <1>6, <1>7, <1>8, FewerKept

\* The answer is that to the operation's own request.
LEMMA MessageStep ==
  ASSUME CdpTyped, CdpKept, NEW m \in requests, B!Message(m)
  PROVE  CdpTyped' /\ CdpKept'
<1>1. /\ m.socket \in DOMAIN sockets /\ m \in Request /\ requests' = requests \ {m}
      /\ UNCHANGED << targets, connections, tabs >>
  BY DEF CdpTyped, B!Message, B!browserVars
<1>2. CASE m.id \notin DOMAIN sockets[m.socket].pending
  <2>1. UNCHANGED << sockets, ops >>
    BY <1>2 DEF B!Message
  <2>2. SocketsFewer /\ \A p \in Operations : Goes(p)
    BY <2>1, StayStep DEF CdpTyped
  <2>3. /\ ops' \in [Operations -> Op] /\ tabs' \in SUBSET Tabs /\ targets' \in Seq(Tabs)
        /\ DOMAIN connections' \subseteq Tabs
        /\ \A t \in DOMAIN connections' : connections'[t] \in DOMAIN sockets'
    BY <1>1, <2>1 DEF CdpTyped
  <2> QED
    BY <1>1, <2>2, <2>3, FewerKept
<1>3. CASE m.id \in DOMAIN sockets[m.socket].pending
  <2>1. PICK o : o = sockets[m.socket].pending[m.id]
    OBVIOUS
  <2>2. o = m.op /\ o \in Operations
    BY <1>1, <1>3, <2>1 DEF CdpKept, RequestsKnown, Request
  <2>3. ops[o].at = "sent" /\ ops[o].socket = m.socket /\ ops[o].id = m.id
    <3>1. \A s \in DOMAIN sockets : \A i \in DOMAIN sockets[s].pending :
            /\ ops[sockets[s].pending[i]].at = "sent"
            /\ ops[sockets[s].pending[i]].socket = s /\ ops[sockets[s].pending[i]].id = i
      BY DEF CdpKept, PendingWaits
    <3> QED
      BY <1>1, <1>3, <2>1, <3>1
  <2>4. sockets' = [sockets EXCEPT ![ops[o].socket].pending = B!Without(@, ops[o].id)]
    BY <1>3, <2>3 DEF B!Message
  <2>5. PICK op \in B!Answered(ops[o], o) : ops' = [ops EXCEPT ![o] = op]
    BY <1>3, <2>1, <2>2 DEF B!Message
  <2>6. PICK old \in Op : old = ops[o]
    BY <2>2 DEF CdpTyped
  <2>7. op \in Op /\ op.at \in {"done", "asked"} /\ (op.at = "done" => op.answer = << o >>)
    <3>1. CASE op = [old EXCEPT !.at = "done", !.answer = << o >>]
      <4>1. << o >> \in Seq(Operations)
        BY <2>2
      <4>2. op \in Op
        BY <3>1, <4>1, OpGoesOn
      <4>3. op.at = "done" /\ op.answer = << o >>
        BY <3>1 DEF Op, OpsOn
      <4> QED
        BY <4>2, <4>3
    <3>2. CASE op = [B!Unused EXCEPT !.kind = "page", !.at = "asked"]
      <4>1. op \in Op
        BY <3>2, OpBegins
      <4>2. op.at = "asked"
        BY <3>2 DEF B!Unused
      <4> QED
        BY <4>1, <4>2
    <3> QED
      BY <2>5, <2>6, <3>1, <3>2 DEF B!Answered
  <2>8. ops' \in [Operations -> Op] /\ ops'[o] = op /\ \A p \in Operations : p # o => ops'[p] = ops[p]
    BY <2>2, <2>5, <2>7, SetOp
  <2>9. SocketsFewer /\ \A p \in Operations : Goes(p)
    BY <2>2, <2>3, <2>4, <2>7, <2>8, DropStep
  <2>10. /\ tabs' \in SUBSET Tabs /\ targets' \in Seq(Tabs) /\ DOMAIN connections' \subseteq Tabs
         /\ \A t \in DOMAIN connections' : connections'[t] \in DOMAIN sockets'
    BY <1>1, <2>9 DEF CdpTyped, SocketsFewer
  <2> QED
    BY <1>1, <2>8, <2>9, <2>10, FewerKept
<1> QED
  BY <1>2, <1>3

LEMMA TabClosedStep ==
  ASSUME CdpTyped, CdpKept, NEW o \in Operations, B!TabClosed(o)
  PROVE  CdpTyped' /\ CdpKept'
<1>1. PICK s : s = IF ops[o].tab \in DOMAIN connections THEN connections[ops[o].tab] ELSE 0
  OBVIOUS
<1> PICK shut : shut = {s}
  OBVIOUS
<1>2. /\ sockets' = [x \in DOMAIN sockets |-> IF x = s THEN B!Shut(x) ELSE sockets[x]]
      /\ ops' = [(IF s = 0 THEN ops ELSE B!Rejected(s)) EXCEPT ![o].at = "done"]
      /\ ops[o].at = "served" /\ ops[o].kind = "close" /\ UNCHANGED << requests, tabs >>
      /\ connections' = [x \in DOMAIN connections \ {ops[o].tab} |-> connections[x]]
      /\ targets' = B!ElementsAt(targets, {i \in DOMAIN targets : targets[i] # ops[o].tab})
  BY <1>1 DEF B!TabClosed, B!browserVars
<1>3. sockets' = B!Cleared(shut)
  BY <1>2 DEF B!Cleared
<1>4. PICK all : all = B!Others(shut)
  OBVIOUS
<1>5. all \in [Operations -> Op] /\ all[o] = ops[o]
  BY <1>2, <1>4, ShutKeeps
<1>6. (IF s = 0 THEN ops ELSE B!Rejected(s)) = all
  <2>1. CASE s = 0
    <3>1. 0 \notin DOMAIN sockets
      BY LenProperties DEF CdpTyped
    <3>2. \A p \in Operations : ~ (ops[p].at = "sent" /\ ops[p].socket \in shut)
      BY <2>1, <3>1 DEF CdpTyped
    <3>3. \A p \in Operations : all[p] = ops[p]
      BY <1>4, <3>2 DEF B!Others
    <3>4. ops \in [Operations -> Op]
      BY DEF CdpTyped
    <3>5. ops = all
      BY <1>5, <3>3, <3>4
    <3> QED
      BY <2>1, <3>5
  <2>2. CASE s # 0
    BY <1>4, <2>2, RejectedAll
  <2> QED
    BY <2>1, <2>2
<1>7. PICK op : op = [ops[o] EXCEPT !.at = "done"]
  OBVIOUS
<1>8. ops[o] \in Op
  BY DEF CdpTyped
<1>9. op \in Op
  BY <1>7, <1>8, OpGoesOn
<1>10. op.at = "done" /\ op.kind = "close"
  BY <1>2, <1>7, <1>8 DEF Op, OpsOn
<1>11. ops' = [all EXCEPT ![o] = op]
  BY <1>2, <1>5, <1>6, <1>7
<1>12. ops' \in [Operations -> Op] /\ ops'[o] = op /\ \A p \in Operations : p # o => ops'[p] = all[p]
  BY <1>5, <1>9, <1>11
<1>13. \A p \in Operations : ops'[p] = B!Others(shut)[p] \/ Moves(p)
  BY <1>2, <1>4, <1>10, <1>12 DEF Moves
<1>14. sockets' \in Seq(Socket) /\ DOMAIN sockets' = DOMAIN sockets
  BY <1>3, ShutKeeps
<1>15. SocketsFewer /\ \A p \in Operations : Goes(p)
  BY <1>3, <1>13, <1>14, ShutStep
<1>16. /\ tabs' \in SUBSET Tabs /\ DOMAIN connections' \subseteq Tabs
       /\ \A t \in DOMAIN connections' : connections'[t] \in DOMAIN sockets'
  BY <1>2, <1>14 DEF CdpTyped
<1>17. targets' \in Seq(Tabs)
  <2>1. PICK at : at = {i \in DOMAIN targets : targets[i] # ops[o].tab}
    OBVIOUS
  <2>2. targets' = ElementsAt(targets, at)
    BY <1>2, <2>1, CdpSame
  <2>3. targets \in Seq(Tabs) /\ at \in SUBSET DOMAIN targets
    BY <2>1 DEF CdpTyped
  <2> QED
    BY <2>2, <2>3, ElementsAtProperties
<1> QED
  BY <1>2, <1>12, <1>15, <1>16, <1>17, FewerKept

\* What has become of the operations when refresh() is done.
LEMMA EndsAt ==
  ASSUME CdpTyped, NEW o \in Operations, NEW at \in {"opening", "done", "failed"}, NEW s \in Nat,
         ops[o].at = "served", B!EndAt(o, at, s)
  PROVE  /\ ops' \in [Operations -> Op]
         /\ ops'[o].at = at /\ ops'[o].socket = s /\ ops'[o].kind = ops[o].kind
         /\ \A p \in Operations : p # o => ops'[p] = B!Others(B!Gone(ops[o].listing))[p]
<1>1. PICK shut : shut = B!Gone(ops[o].listing)
  OBVIOUS
<1>2. PICK all : all = B!Others(shut)
  OBVIOUS
<1>3. all \in [Operations -> Op] /\ all[o] = ops[o]
  BY <1>2, ShutKeeps
<1>4. PICK op : op = [ops[o] EXCEPT !.at = at, !.socket = s, !.listing = {}]
  OBVIOUS
<1>5. ops[o] \in Op
  BY DEF CdpTyped
<1>6. {} \in SUBSET Tabs
  OBVIOUS
<1>7. op \in Op
  BY <1>4, <1>5, <1>6, OpGoesOn
<1>8. op.at = at /\ op.socket = s /\ op.kind = ops[o].kind
  BY <1>4, <1>5 DEF Op, OpsOn
<1>9. ops' = [all EXCEPT ![o].at = at, ![o].socket = s, ![o].listing = {}]
  BY <1>1, <1>2 DEF B!EndAt
<1>10. ops' = [all EXCEPT ![o] = op]
  BY <1>3, <1>4, <1>9
<1> QED
  BY <1>1, <1>2, <1>3, <1>7, <1>8, <1>10

\* The list of what was served.
LEMMA ListedTabs ==
  ASSUME CdpTyped, NEW o \in Operations
  PROVE  /\ B!SetToSeq(ops[o].listing) \in Seq(Tabs)
         /\ B!ToSet(B!SetToSeq(ops[o].listing)) = ops[o].listing
         /\ B!ActiveIn(B!SetToSeq(ops[o].listing)) \in ops[o].listing \cup {Nothing}
         /\ ops[o].listing # {} => B!ActiveIn(B!SetToSeq(ops[o].listing)) \in ops[o].listing
         /\ ops[o].listing = {} =>
              B!SetToSeq(ops[o].listing) = << >> /\ B!ActiveIn(B!SetToSeq(ops[o].listing)) = Nothing
<1>1. PICK listing : listing = ops[o].listing
  OBVIOUS
<1>2. listing \in SUBSET Tabs
  <2>1. ops[o] \in Op
    BY DEF CdpTyped
  <2> QED
    BY <1>1, <2>1 DEF Op, OpsOn
<1>3. IsFiniteSet(listing)
  BY <1>2, TabAssumption, FS_Subset
<1>4. PICK list : list = B!SetToSeq(listing)
  OBVIOUS
<1>5. list \in Seq(listing) /\ ToSet(list) = listing
  BY <1>3, <1>4, ListedElements, CdpSame
<1>6. list \in Seq(Tabs)
  BY <1>2, <1>5
<1>7. IF list = << >> THEN listing = {} ELSE list[1] \in listing
  <2>1. PICK n \in Nat : Len(list) = n /\ DOMAIN list = 1 .. n
    BY <1>5, LenProperties
  <2>2. CASE list = << >>
    BY <1>5, <2>2 DEF ToSet
  <2>3. CASE list # << >>
    <3>1. n # 0
      BY <1>5, <2>1, <2>3
    <3> QED
      BY <1>5, <2>1, <2>3, <3>1
  <2> QED
    BY <2>2, <2>3
<1>8. B!ToSet(list) = listing
  BY <1>5, CdpSame
<1>9. B!ActiveIn(list) = IF activeId \in listing THEN activeId
                         ELSE IF list = << >> THEN Nothing ELSE list[1]
  BY <1>8 DEF B!ActiveIn, B!FirstOf
<1>10. list # << >> => listing # {}
  BY <1>7
<1> QED
  BY <1>1, <1>4, <1>6, <1>7, <1>8, <1>9

LEMMA ListedStep ==
  ASSUME CdpTyped, CdpKept, NEW o \in Operations, B!Listed(o)
  PROVE  CdpTyped' /\ CdpKept'
<1>1. PICK listing, list, chosen : /\ listing = ops[o].listing /\ list = B!SetToSeq(listing)
                                   /\ chosen = B!ActiveIn(list)
  OBVIOUS
<1>2. PICK shut : shut = B!Gone(listing)
  OBVIOUS
<1>3. /\ ops[o].at = "served" /\ targets' = list /\ UNCHANGED << requests, tabs >>
      /\ \/ ops[o].kind = "select" /\ B!KeepConnections(listing) /\ B!EndAt(o, "done", 0)
         \/ /\ ops[o].kind \in {"page", "history"}
            /\ IF chosen = Nothing THEN B!KeepConnections(listing) /\ B!EndAt(o, "failed", 0)
               ELSE B!ConnectionFor(o, chosen)
  BY <1>1 DEF B!Listed, B!browserVars
<1>4. list \in Seq(Tabs) /\ chosen \in listing \cup {Nothing} /\ listing \subseteq Tabs
  <2>1. ops[o] \in Op
    BY DEF CdpTyped
  <2> QED
    BY <1>1, <2>1, ListedTabs DEF Op, OpsOn
<1>5. PICK n \in Nat : DOMAIN sockets = 1 .. n /\ sockets \in Seq(Socket) /\ Len(sockets) = n
  BY LenProperties DEF CdpTyped
<1>6. /\ DOMAIN connections \subseteq Tabs
      /\ \A t \in DOMAIN connections : connections[t] \in 1 .. n
      /\ B!Kept(listing) \subseteq DOMAIN connections
  BY <1>5 DEF CdpTyped, B!Kept
<1>7. PICK cleared : cleared = B!Cleared(shut)
  OBVIOUS
<1>8. cleared \in Seq(Socket) /\ DOMAIN cleared = 1 .. n /\ Len(cleared) = n
  BY <1>5, <1>7, ShutKeeps
<1>9. ASSUME NEW at \in {"opening", "done", "failed"}, NEW s \in Nat, B!EndAt(o, at, s),
             at = "done" => ops[o].kind = "select",
             sockets' \in Seq(Socket), 1 .. n \subseteq DOMAIN sockets',
             \A x \in 1 .. n : sockets'[x] = cleared[x],
             \A x \in DOMAIN sockets' \ 1 .. n : DOMAIN sockets'[x].pending = {},
             at = "opening" => s \in DOMAIN sockets',
             DOMAIN connections' \subseteq Tabs,
             \A t \in DOMAIN connections' : connections'[t] \in DOMAIN sockets'
      PROVE  CdpTyped' /\ CdpKept'
  <2>1. /\ ops' \in [Operations -> Op]
        /\ ops'[o].at = at /\ ops'[o].socket = s /\ ops'[o].kind = ops[o].kind
        /\ \A p \in Operations : p # o => ops'[p] = B!Others(shut)[p]
    BY <1>1, <1>2, <1>3, <1>9, EndsAt
  <2>2. Moves(o)
    BY <1>3, <1>9, <2>1 DEF Moves
  <2>3. \A p \in Operations : ops'[p] = B!Others(shut)[p] \/ Moves(p)
    BY <2>1, <2>2
  <2>4. SocketsFewer /\ \A p \in Operations : Goes(p)
    BY <1>5, <1>7, <1>9, <2>3, ShutStep
  <2>5. tabs' \in SUBSET Tabs /\ targets' \in Seq(Tabs)
    BY <1>3, <1>4 DEF CdpTyped
  <2>6. requests' \subseteq requests
    BY <1>3
  <2> QED
    BY <1>9, <2>1, <2>4, <2>5, <2>6, FewerKept
<1>10. ASSUME NEW at \in {"opening", "done", "failed"}, NEW s \in Nat,
              B!KeepConnections(listing), B!EndAt(o, at, s), at = "opening" => s \in 1 .. n,
              at = "done" => ops[o].kind = "select"
       PROVE  CdpTyped' /\ CdpKept'
  <2>1. sockets' = cleared /\ connections' = [t \in B!Kept(listing) |-> connections[t]]
    BY <1>2, <1>7, <1>10 DEF B!KeepConnections
  <2>2. DOMAIN connections' \subseteq Tabs /\ \A t \in DOMAIN connections' : connections'[t] \in 1 .. n
    BY <1>6, <2>1
  <2> QED
    BY <1>8, <1>9, <1>10, <2>1, <2>2
<1>11. ASSUME B!ConnectionFor(o, chosen), chosen \in listing
       PROVE  CdpTyped' /\ CdpKept'
  <2>1. CASE chosen \in B!Kept(listing) /\ B!KeepConnections(listing)
               /\ B!EndAt(o, "opening", connections[chosen])
    BY <1>6, <1>10, <2>1
  <2>2. CASE /\ connections' = [x \in B!Kept(listing) \cup {chosen} |->
                                  IF x = chosen THEN n + 1 ELSE connections[x]]
             /\ sockets' = Append(cleared, [tab |-> chosen, state |-> "connecting", nextId |-> 3,
                                            pending |-> << >>])
             /\ B!EndAt(o, "opening", n + 1)
    <3>1. PICK new : new = [tab |-> chosen, state |-> "connecting", nextId |-> 3, pending |-> << >>]
      OBVIOUS
    <3>2. new \in Socket /\ DOMAIN new.pending = {}
      BY <1>4, <1>11, <3>1, NonePending DEF Socket
    <3>3. sockets' = Append(cleared, new)
      BY <2>2, <3>1
    <3>4. /\ sockets' \in Seq(Socket) /\ Len(sockets') = n + 1 /\ sockets'[n + 1] = new
          /\ \A x \in 1 .. n : sockets'[x] = cleared[x]
      BY <1>8, <3>2, <3>3, AppendProperties
    <3>5. DOMAIN sockets' = 1 .. n + 1
      BY <3>4, LenProperties
    <3>6. \A x \in DOMAIN sockets' \ 1 .. n : DOMAIN sockets'[x].pending = {}
      <4>1. \A x \in DOMAIN sockets' \ 1 .. n : x = n + 1
        BY <3>5
      <4> QED
        BY <3>2, <3>4, <4>1
    <3>7. /\ DOMAIN connections' \subseteq Tabs
          /\ \A t \in DOMAIN connections' : connections'[t] \in DOMAIN sockets'
      BY <1>4, <1>6, <1>11, <2>2, <3>5
    <3>8. n + 1 \in Nat /\ n + 1 \in DOMAIN sockets' /\ 1 .. n \subseteq DOMAIN sockets'
      BY <3>5
    <3> QED
      BY <1>9, <2>2, <3>4, <3>6, <3>7, <3>8
  <2> QED
    BY <1>1, <1>2, <1>5, <1>7, <1>11, <2>1, <2>2 DEF B!ConnectionFor
<1> QED
  BY <1>3, <1>4, <1>10, <1>11

\* A message is sent: the operation waits under an id that nothing on its socket has.
LEMMA SendStep ==
  ASSUME CdpTyped, CdpKept, NEW o \in Operations, B!Send(o)
  PROVE  CdpTyped' /\ CdpKept'
<1>1. PICK s : s = ops[o].socket
  OBVIOUS
<1>2. /\ ops[o].at = "opening" /\ s \in DOMAIN sockets /\ ops[o] \in Op
      /\ UNCHANGED << targets, connections, tabs >>
  BY <1>1 DEF B!Send, CdpTyped, B!browserVars
<1>3. PICK n \in Nat : DOMAIN sockets = 1 .. n /\ sockets \in Seq(Socket) /\ Len(sockets) = n
  BY LenProperties DEF CdpTyped
<1>4. PICK old \in Socket : old = sockets[s]
  BY <1>2, FewerSelf
<1>5. PICK id \in Nat : id = old.nextId
  BY DEF Socket
<1>6. B!NextId(s) = id
  BY <1>4, <1>5 DEF B!NextId
<1>7. PICK more : more = B!With(old.pending, id, o)
  OBVIOUS
<1>8. PICK ids \in SUBSET Nat : old.pending \in [ids -> Operations]
  BY DEF Socket, Pending
<1>9. more \in Pending /\ DOMAIN more = ids \cup {id} /\ more[id] = o
      /\ \A i \in ids : i # id => more[i] = old.pending[i]
  <2>1. more = [i \in ids \cup {id} |-> IF i = id THEN o ELSE old.pending[i]]
    BY <1>7, <1>8 DEF B!With
  <2>2. more \in [ids \cup {id} -> Operations]
    BY <1>8, <2>1
  <2>3. ids \cup {id} \in SUBSET Nat
    OBVIOUS
  <2> QED
    BY <2>1, <2>2, <2>3 DEF Pending
<1>10. PICK new : new = [old EXCEPT !.nextId = id + 1, !.pending = more]
  OBVIOUS
<1>11. new \in Socket /\ new.nextId = id + 1 /\ new.pending = more
  <2>1. PICK next \in Nat : next = id + 1
    OBVIOUS
  <2>2. new = [old EXCEPT !.nextId = next, !.pending = more]
    BY <1>10, <2>1
  <2>3. more \in Pending
    BY <1>9
  <2> QED
    BY <2>1, <2>2, <2>3 DEF Socket
<1>12. sockets' = [sockets EXCEPT ![s] = new]
  <2>1. sockets' = [sockets EXCEPT ![s].nextId = @ + 1, ![s].pending = B!With(@, id, o)]
    BY <1>1, <1>6 DEF B!Send
  <2> QED
    BY <1>2, <1>3, <1>4, <1>5, <1>7, <1>10, <2>1
<1>13. /\ sockets' \in Seq(Socket) /\ DOMAIN sockets' = 1 .. n /\ sockets'[s] = new
       /\ \A t \in 1 .. n : t # s => sockets'[t] = sockets[t]
  <2>1. sockets \in [1 .. n -> Socket] /\ s \in 1 .. n
    BY <1>2, <1>3
  <2>2. /\ sockets' \in [1 .. n -> Socket] /\ sockets'[s] = new
        /\ \A t \in 1 .. n : t # s => sockets'[t] = sockets[t]
    BY <1>11, <1>12, <2>1
  <2> QED
    BY <1>3, <2>2, SeqDef
<1>14. PICK op : op = [ops[o] EXCEPT !.at = "sent", !.id = id]
  OBVIOUS
<1>15. op \in Op
  BY <1>2, <1>5, <1>14, OpGoesOn
<1>16. op.at = "sent" /\ op.id = id /\ op.socket = s
  BY <1>1, <1>2, <1>14 DEF Op, OpsOn
<1>17. ops' = [ops EXCEPT ![o] = op]
  BY <1>1, <1>6, <1>14 DEF B!Send
<1>18. ops' \in [Operations -> Op] /\ ops'[o] = op /\ \A p \in Operations : p # o => ops'[p] = ops[p]
  BY <1>15, <1>17, SetOp
<1>19. PICK m : m = [socket |-> s, id |-> id, op |-> o]
  OBVIOUS
<1>20. m \in Request /\ m.socket = s /\ m.id = id /\ m.op = o
  BY <1>2, <1>3, <1>19 DEF Request
<1>21. requests' \subseteq requests \cup {m}
  BY <1>1, <1>6, <1>19 DEF B!Send
<1>22. \A t \in 1 .. n : \A i \in DOMAIN sockets[t].pending :
         /\ sockets[t].pending[i] \in Operations /\ sockets[t].pending[i] # o
         /\ i < sockets[t].nextId /\ ops[sockets[t].pending[i]].at = "sent"
         /\ ops[sockets[t].pending[i]].socket = t /\ ops[sockets[t].pending[i]].id = i
  <2> SUFFICES ASSUME NEW t \in 1 .. n, NEW i \in DOMAIN sockets[t].pending
               PROVE  /\ sockets[t].pending[i] \in Operations /\ sockets[t].pending[i] # o
                      /\ i < sockets[t].nextId /\ ops[sockets[t].pending[i]].at = "sent"
                      /\ ops[sockets[t].pending[i]].socket = t /\ ops[sockets[t].pending[i]].id = i
    OBVIOUS
  <2>1. /\ i < sockets[t].nextId /\ ops[sockets[t].pending[i]].at = "sent"
        /\ ops[sockets[t].pending[i]].socket = t /\ ops[sockets[t].pending[i]].id = i
    BY <1>3 DEF CdpKept, PendingWaits
  <2>2. sockets[t].pending \in Pending
    BY <1>3, FewerSelf DEF Socket
  <2>3. PICK them \in SUBSET Nat : sockets[t].pending \in [them -> Operations]
    BY <2>2 DEF Pending
  <2> QED
    BY <1>2, <2>1, <2>3
<1>23. \A i \in ids : i < id
  BY <1>2, <1>3, <1>4, <1>5, <1>8, <1>22
<1>24. CdpTyped'
  <2>1. requests' \in SUBSET Request /\ \A r \in requests' : r.socket \in DOMAIN sockets'
    BY <1>2, <1>3, <1>13, <1>20, <1>21 DEF CdpTyped
  <2>2. \A p \in Operations : ops'[p].at \in {"opening", "sent"} => ops'[p].socket \in DOMAIN sockets'
    BY <1>2, <1>3, <1>13, <1>16, <1>18 DEF CdpTyped
  <2> QED
    BY <1>2, <1>3, <1>13, <1>18, <2>1, <2>2 DEF CdpTyped
<1>25. PendingWaits'
  <2> SUFFICES ASSUME NEW t \in 1 .. n, NEW i \in DOMAIN sockets'[t].pending
               PROVE  /\ i < sockets'[t].nextId /\ ops'[sockets'[t].pending[i]].at = "sent"
                      /\ ops'[sockets'[t].pending[i]].socket = t /\ ops'[sockets'[t].pending[i]].id = i
    BY <1>13 DEF PendingWaits
  <2>1. CASE t # s
    BY <1>13, <1>18, <1>22, <2>1
  <2>2. CASE t = s /\ i = id
    BY <1>9, <1>11, <1>13, <1>16, <1>18, <2>2
  <2>3. CASE t = s /\ i # id
    <3>1. i \in ids /\ sockets'[t].pending[i] = old.pending[i] /\ i \in DOMAIN sockets[t].pending
      BY <1>4, <1>8, <1>9, <1>11, <1>13, <2>3
    <3>2. PICK p : p = old.pending[i]
      OBVIOUS
    <3>3. p \in Operations /\ p # o /\ ops[p].at = "sent" /\ ops[p].socket = t /\ ops[p].id = i
      BY <1>4, <1>22, <2>3, <3>1, <3>2
    <3>4. i < id /\ i \in Nat
      BY <1>8, <1>23, <3>1
    <3>5. i < id + 1
      BY <3>4
    <3> QED
      BY <1>11, <1>13, <1>18, <2>3, <3>1, <3>2, <3>3, <3>5
  <2> QED
    BY <2>1, <2>2, <2>3
<1>26. RequestsKnown'
  <2> SUFFICES ASSUME NEW r \in requests'
               PROVE  /\ r.id < sockets'[r.socket].nextId
                      /\ r.id \in DOMAIN sockets'[r.socket].pending => sockets'[r.socket].pending[r.id] = r.op
    BY DEF RequestsKnown
  <2>1. CASE r = m
    BY <1>9, <1>11, <1>13, <1>20, <2>1
  <2>2. CASE r \in requests
    <3>1. /\ r.socket \in 1 .. n /\ r.id \in Nat /\ r.id < sockets[r.socket].nextId
          /\ r.id \in DOMAIN sockets[r.socket].pending => sockets[r.socket].pending[r.id] = r.op
      BY <1>3, <2>2 DEF CdpTyped, CdpKept, RequestsKnown, Request
    <3>2. CASE r.socket # s
      BY <1>13, <3>1, <3>2
    <3>3. CASE r.socket = s
      <4>1. r.id < id /\ (r.id \in ids => old.pending[r.id] = r.op)
        BY <1>4, <1>5, <1>8, <3>1, <3>3
      <4>2. r.id < id + 1 /\ r.id # id
        BY <3>1, <4>1
      <4> QED
        BY <1>9, <1>11, <1>13, <3>3, <4>1, <4>2
    <3> QED
      BY <3>2, <3>3
  <2> QED
    BY <1>21, <2>1, <2>2
<1>27. AnswersOwn'
  <2> SUFFICES ASSUME NEW p \in Operations
               PROVE  /\ ops'[p].kind \in {"page", "history"} /\ ops'[p].at = "done" => ops'[p].answer = << p >>
                      /\ ops'[p].at = "sent" => Pends(p)'
    BY DEF AnswersOwn
  <2>1. CASE p = o
    BY <1>9, <1>11, <1>13, <1>16, <1>18, <2>1 DEF Pends
  <2>2. CASE p # o
    <3>1. /\ ops'[p] = ops[p]
          /\ ops[p].kind \in {"page", "history"} /\ ops[p].at = "done" => ops[p].answer = << p >>
          /\ ops[p].at = "sent" => Pends(p) /\ ops[p].socket \in 1 .. n
      BY <1>3, <1>18, <2>2 DEF CdpKept, AnswersOwn, CdpTyped
    <3>2. ASSUME ops[p].at = "sent" PROVE Pends(p)'
      <4>1. CASE ops[p].socket # s
        BY <1>13, <3>1, <3>2, <4>1 DEF Pends
      <4>2. CASE ops[p].socket = s
        <5>1. ops[p].id \in ids /\ old.pending[ops[p].id] = p
          BY <1>4, <1>8, <3>1, <3>2, <4>2 DEF Pends
        <5>2. ops[p].id # id
          BY <1>23, <5>1
        <5>3. ops[p].id \in DOMAIN more /\ more[ops[p].id] = p
          BY <1>9, <5>1, <5>2
        <5> QED
          BY <1>11, <1>13, <3>1, <4>2, <5>3 DEF Pends
      <4> QED
        BY <4>1, <4>2
    <3> QED
      BY <3>1, <3>2
  <2> QED
    BY <2>1, <2>2
<1> QED
  BY <1>24, <1>25, <1>26, <1>27 DEF CdpKept

LEMMA CdpStep ==
  ASSUME CdpTyped, CdpKept, [B!Next]_B!cdpVars
  PROVE  CdpTyped' /\ CdpKept'
<1>1. ASSUME NEW t \in Tabs, B!ChangeTabs(t) PROVE CdpTyped' /\ CdpKept'
  <2>1. /\ UNCHANGED << sockets, connections, requests, ops, targets >> /\ tabs' \in SUBSET Tabs
    BY <1>1 DEF B!ChangeTabs, B!adapterVars, CdpTyped
  <2>2. ops' \in [Operations -> Op] /\ targets' \in Seq(Tabs)
    BY <2>1 DEF CdpTyped
  <2> QED
    BY <2>1, <2>2, QuietStep
<1>2. ASSUME NEW o \in Operations, NEW t \in Tabs, NEW kind \in {"select", "open", "close"}, B!Ask(o, kind, t)
      PROVE  CdpTyped' /\ CdpKept'
  BY <1>2, AskStep
<1>3. ASSUME B!CloseAdapter PROVE CdpTyped' /\ CdpKept'
  BY <1>3, CloseAdapterStep
<1>4. ASSUME NEW o \in Operations, B!Ask(o, "page", Nothing) \/ B!Ask(o, "history", Nothing)
      PROVE  CdpTyped' /\ CdpKept'
  BY <1>4, AskStep
<1>5. ASSUME NEW o \in Operations,
             \/ B!Serve(o) \/ B!Listed(o) \/ B!TabOpened(o) \/ B!TabClosed(o)
             \/ B!Send(o) \/ B!NotOpened(o) \/ B!CallTimeout(o)
      PROVE  CdpTyped' /\ CdpKept'
  BY <1>5, ServeStep, ListedStep, TabOpenedStep, TabClosedStep, SendStep, NotOpenedStep, CallTimeoutStep
<1>6. ASSUME NEW s \in DOMAIN sockets, B!Opened(s) \/ B!OpenFails(s) \/ B!SocketCloses(s)
      PROVE  CdpTyped' /\ CdpKept'
  BY <1>6, SocketStep, SocketClosesStep
<1>7. ASSUME NEW m \in requests, B!Message(m) PROVE CdpTyped' /\ CdpKept'
  BY <1>7, MessageStep
<1>8. CASE UNCHANGED B!cdpVars
  <2>1. UNCHANGED << tabs, targets, connections, sockets, requests, ops >>
    BY <1>8 DEF B!cdpVars, B!browserVars, B!adapterVars
  <2>2. ops' \in [Operations -> Op] /\ targets' \in Seq(Tabs) /\ tabs' \in SUBSET Tabs
    BY <2>1 DEF CdpTyped
  <2> QED
    BY <2>1, <2>2, QuietStep
<1> QED
  BY <1>1, <1>2, <1>3, <1>4, <1>5, <1>6, <1>7, <1>8 DEF B!Next

\* The targets and the active one change together.
LEMMA ActiveStep ==
  ASSUME CdpTyped, B!ActiveListed, [B!Next]_B!cdpVars
  PROVE  B!ActiveListed'
<1>1. IF targets = << >> THEN activeId = Nothing ELSE activeId \in ToSet(targets)
  BY CdpSame DEF B!ActiveListed
<1>2. SUFFICES IF targets' = << >> THEN activeId' = Nothing ELSE activeId' \in ToSet(targets')
  BY CdpSame DEF B!ActiveListed
<1>3. targets \in Seq(Tabs) /\ ops \in [Operations -> Op]
  BY DEF CdpTyped
<1>4. ASSUME NEW o \in Operations, B!Listed(o)
      PROVE  IF targets' = << >> THEN activeId' = Nothing ELSE activeId' \in ToSet(targets')
  <2>1. PICK listing, list, chosen : /\ listing = ops[o].listing /\ list = B!SetToSeq(listing)
                                     /\ chosen = B!ActiveIn(list)
    OBVIOUS
  <2>2. /\ targets' = list
        /\ \/ activeId' = IF ops[o].tab \in listing THEN ops[o].tab ELSE chosen
           \/ activeId' = chosen
    BY <1>4, <2>1 DEF B!Listed
  <2>3. /\ ToSet(list) = listing /\ (listing # {} => chosen \in listing)
        /\ listing = {} => list = << >> /\ chosen = Nothing
    BY <2>1, ListedTabs, CdpSame
  <2>4. list = << >> => listing = {}
    BY <2>3 DEF ToSet
  <2> QED
    BY <2>2, <2>3, <2>4
<1>5. ASSUME NEW o \in Operations, B!TabOpened(o)
      PROVE  IF targets' = << >> THEN activeId' = Nothing ELSE activeId' \in ToSet(targets')
  <2>1. PICK t : t = ops[o].tab
    OBVIOUS
  <2>2. /\ activeId' = t
        /\ targets' = IF t \in ToSet(targets) THEN targets ELSE Append(targets, t)
    BY <1>5, <2>1, CdpSame DEF B!TabOpened
  <2>3. t \in Tabs
    <3>1. ops[o] \in Op /\ ops[o].kind = "open"
      BY <1>3, <1>5 DEF B!TabOpened
    <3> QED
      BY <2>1, <3>1 DEF Op, OpsOn
  <2>4. t \in ToSet(targets')
    BY <1>3, <2>2, <2>3, ElementsOfAppend
  <2>5. targets' # << >>
    BY <2>4 DEF ToSet
  <2> QED
    BY <2>2, <2>4, <2>5
<1>6. ASSUME NEW o \in Operations, B!TabClosed(o)
      PROVE  IF targets' = << >> THEN activeId' = Nothing ELSE activeId' \in ToSet(targets')
  <2>1. PICK t : t = ops[o].tab
    OBVIOUS
  <2>2. PICK at \in SUBSET DOMAIN targets : at = {i \in DOMAIN targets : targets[i] # t}
    OBVIOUS
  <2>3. PICK rest : rest = ElementsAt(targets, at)
    OBVIOUS
  <2>4. targets' = rest /\ activeId' = IF activeId = t THEN B!FirstOf(rest) ELSE activeId
    BY <1>6, <2>1, <2>2, <2>3, CdpSame DEF B!TabClosed
  <2>5. PICK n \in Nat : n = Cardinality(at)
    BY <1>3, <2>2, ElementsAtProperties
  <2>6. /\ rest \in Seq(Tabs) /\ Len(rest) = n
        /\ \A i \in at : \E k \in 1 .. n : rest[k] = targets[i]
    BY <1>3, <2>2, <2>3, <2>5, ElementsAtProperties
  <2>7. DOMAIN rest = 1 .. n
    BY <2>6, LenProperties
  <2>8. CASE activeId = t
    <3>1. CASE rest = << >>
      BY <2>4, <2>8, <3>1 DEF B!FirstOf
    <3>2. CASE rest # << >>
      <4>1. 1 \in DOMAIN rest
        BY <2>6, <2>7, <3>2
      <4> QED
        BY <2>4, <2>8, <3>2, <4>1 DEF B!FirstOf, ToSet
    <3> QED
      BY <3>1, <3>2
  <2>9. CASE activeId # t /\ targets # << >>
    <3>1. PICK i \in DOMAIN targets : targets[i] = activeId
      BY <1>1, <2>9 DEF ToSet
    <3>2. i \in at
      BY <2>2, <2>9, <3>1
    <3>3. activeId \in ToSet(rest)
      BY <2>6, <2>7, <3>1, <3>2 DEF ToSet
    <3>4. rest # << >>
      BY <3>3 DEF ToSet
    <3> QED
      BY <2>4, <2>9, <3>3, <3>4
  <2>10. CASE activeId # t /\ targets = << >>
    <3>1. \A k \in 1 .. n : Nth(at, k) \in at
      BY <1>3, <2>2, <2>5, ElementsAtProperties
    <3>2. at = {}
      BY <2>2, <2>10
    <3>3. n = 0
      BY <2>5, <3>1, <3>2
    <3>4. rest = << >>
      BY <2>6, <3>3
    <3> QED
      BY <1>1, <2>4, <2>10, <3>4
  <2> QED
    BY <2>8, <2>9, <2>10
<1>7. ASSUME UNCHANGED << targets, activeId >>
      PROVE  IF targets' = << >> THEN activeId' = Nothing ELSE activeId' \in ToSet(targets')
  BY <1>1, <1>7
<1>8. ASSUME NEW o \in Operations,
             \/ B!Serve(o) \/ B!Send(o) \/ B!NotOpened(o) \/ B!CallTimeout(o)
             \/ \E kind, t : B!Ask(o, kind, t)
      PROVE  UNCHANGED << targets, activeId >>
  BY <1>8 DEF B!Serve, B!Send, B!NotOpened, B!CallTimeout, B!Ask, B!adapterVars
<1>9. ASSUME \/ \E t \in Tabs : B!ChangeTabs(t)
             \/ \E s \in DOMAIN sockets : B!Opened(s) \/ B!OpenFails(s) \/ B!SocketCloses(s)
             \/ \E m \in requests : B!Message(m)
             \/ B!CloseAdapter \/ UNCHANGED B!cdpVars
      PROVE  UNCHANGED << targets, activeId >>
  BY <1>9 DEF B!ChangeTabs, B!Opened, B!OpenFails, B!SocketCloses, B!Message, B!CloseAdapter,
              B!adapterVars, B!cdpVars
<1> QED
  BY <1>4, <1>5, <1>6, <1>7, <1>8, <1>9 DEF B!Next

-------------------------------------------------------------------------------
(* Answers *)

\* However answers come in late, calls time out and sockets and tabs open and close, a page
\* operation that succeeds has the answer to its own message, one that waits is known to
\* its socket, and the active tab is one of the targets (cdp.ts, call, refresh, openTab,
\* closeTab); and as long as runs come one after the other and none is given up on, each
\* resolves with the result of its own snippet or is refused (worker-thread.ts, run).
THEOREM AnswersAreOwn ==
  Spec => []OwnAnswers
<1> DEFINE Kept == CdpTyped /\ CdpKept /\ B!ActiveListed /\ WorkerTyped /\ WorkerAlone
<1>1. Init => Kept
  <2> SUFFICES ASSUME B!Init, W!Init PROVE Kept
    BY DEF Init
  <2>1. /\ tabs = Tabs /\ targets = << >> /\ activeId = Nothing /\ DOMAIN connections = {}
        /\ sockets = << >> /\ requests = {} /\ ops = [o \in Operations |-> B!Unused]
    BY NonePending DEF B!Init
  <2>2. /\ ops \in [Operations -> Op]
        /\ \A o \in Operations : ops[o].at = "no" /\ ops[o].kind = "none"
    BY <2>1, OpBegins DEF B!Unused
  <2>3. targets \in Seq(Tabs) /\ sockets \in Seq(Socket) /\ DOMAIN sockets = {}
    BY <2>1
  <2>4. CdpTyped
    BY <2>1, <2>2, <2>3 DEF CdpTyped
  <2>5. CdpKept
    BY <2>1, <2>2, <2>3 DEF CdpKept, PendingWaits, RequestsKnown, AnswersOwn
  <2>6. B!ActiveListed
    BY <2>1 DEF B!ActiveListed
  <2>7. /\ workers = << >> /\ nodeWorker = 0 /\ codeRuns = [c \in Operations |-> W!NotRun]
        /\ overlapped = FALSE /\ abandoned = FALSE
    BY DEF W!Init
  <2>8. codeRuns \in [Operations -> Runs] /\ \A c \in Operations : codeRuns[c].at = "no"
    BY <2>7 DEF W!NotRun, Runs
  <2>9. workers \in Seq(Seq(Operations)) /\ DOMAIN workers = {} /\ Len(workers) = 0
    BY <2>7
  <2>10. WorkerTyped
    <3>1. nodeWorker \in 0 .. Len(workers)
      BY <2>7, <2>9
    <3>2. overlapped \in BOOLEAN /\ abandoned \in BOOLEAN
      BY <2>7
    <3> QED
      BY <2>8, <2>9, <3>1, <3>2 DEF WorkerTyped
  <2>11. WorkerAlone
    BY <2>8, <2>9 DEF WorkerAlone, W!Going
  <2> QED
    BY <2>4, <2>5, <2>6, <2>10, <2>11
<1>2. Kept /\ [Next]_serviceVars => Kept'
  <2> SUFFICES ASSUME Kept, [Next]_serviceVars PROVE Kept'
    OBVIOUS
  <2>1. [B!Next]_B!cdpVars
    BY DEF Next, Rest, serviceVars, ofCdp, B!cdpVars, B!browserVars, B!adapterVars
  <2>2. [W!Next]_W!workerVars
    BY DEF Next, Rest, serviceVars, ofWorker, W!workerVars
  <2> QED
    BY <2>1, <2>2, CdpStep, ActiveStep, WorkerStep
<1>3. Kept => OwnAnswers
  BY DEF OwnAnswers, B!OwnAnswer, CdpKept, AnswersOwn, Pends, WorkerAlone, W!OwnResult
<1> QED
  BY <1>1, <1>2, <1>3, PTL DEF Spec
=============================================================================
