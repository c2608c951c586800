-------------------------------- MODULE CodeWorker --------------------------------
(***************************************************************************)
(* The worker-thread code runtime (src/src/code-runtime/worker-thread.ts) and   *)
(* the policy check before it (code-runtime/runtime.ts).  One worker serves all  *)
(* runs in turn; a message from it settles every run that listens.  What the      *)
(* worker does with a snippet is its number.                                      *)
(***************************************************************************)
EXTENDS Integers, Sequences, SequencesExt, FiniteSets

CONSTANTS Snippets   \* the calls of run()

VARIABLES
  workers,    \* of each worker: the snippets posted to it, in order
  nodeWorker, \* the worker that is reused, 0 before there is one
  codeRuns    \* of each run: how far it is, its worker, what it resolved with

\* Auxiliary: whether two runs overlapped, or one was given up with its snippet posted.
VARIABLES overlapped, abandoned

workerVars == << workers, nodeWorker, codeRuns, overlapped, abandoned >>

NotRun == [at |-> "no", worker |-> 0, got |-> "nothing"]

Init ==
  /\ workers = << >> /\ nodeWorker = 0 /\ codeRuns = [c \in Snippets |-> NotRun]
  /\ overlapped = FALSE /\ abandoned = FALSE

Going == {c \in Snippets : codeRuns[c].at \in {"importing", "posted"}}
Resolve(c, what) == [codeRuns EXCEPT ![c].at = "settled", ![c].got = what]

\* A slip: an aborted run or a blocked snippet is answered, and posted all the same.
RefuseLate(c) ==
  /\ codeRuns[c].at = "no" /\ nodeWorker # 0
  /\ codeRuns' = Resolve(c, "refused") /\ workers' = [workers EXCEPT ![nodeWorker] = Append(@, c)]
  /\ UNCHANGED << nodeWorker, overlapped, abandoned >>

\* The signal is aborted already, or the policy blocks the snippet: nothing is posted.
Refuse(c) ==
  /\ codeRuns[c].at = "no" /\ codeRuns' = Resolve(c, "refused")
  /\ UNCHANGED << workers, nodeWorker, overlapped, abandoned >>

PostTo(c, w, all) ==
  /\ codeRuns' = [codeRuns EXCEPT ![c].at = "posted", ![c].worker = w]
  /\ workers' = [all EXCEPT ![w] = Append(@, c)]

\* ensureWorker() imports its module before the first worker is made, and the runs
\* that wait for it make one each.
Begin(c) ==
  /\ codeRuns[c].at = "no" /\ overlapped' = (overlapped \/ Going # {})
  /\ IF nodeWorker # 0
     THEN PostTo(c, nodeWorker, workers)
     ELSE codeRuns' = [codeRuns EXCEPT ![c].at = "importing"] /\ workers' = workers
  /\ UNCHANGED << nodeWorker, abandoned >>

Imported(c) ==
  /\ codeRuns[c].at = "importing" /\ nodeWorker' = Len(workers) + 1
  /\ PostTo(c, nodeWorker', Append(workers, << >>))
  /\ UNCHANGED << overlapped, abandoned >>

\* The worker is through with a snippet: every run that listens takes the reply.
Reply(w) ==
  /\ workers[w] # << >> /\ workers' = [workers EXCEPT ![w] = Tail(@)]
  /\ codeRuns' = [c \in Snippets |->
       IF codeRuns[c].at = "posted" /\ codeRuns[c].worker = w
       THEN [codeRuns[c] EXCEPT !.at = "settled", !.got = Head(workers[w])] ELSE codeRuns[c]]
  /\ UNCHANGED << nodeWorker, overlapped, abandoned >>

\* The timer or the signal settles a run; the worker goes on with the snippet.
GiveUp(c) ==
  /\ codeRuns[c].at = "posted" /\ codeRuns' = Resolve(c, "given up") /\ abandoned' = TRUE
  /\ UNCHANGED << workers, nodeWorker, overlapped >>

Next ==
  \/ \E c \in Snippets : Refuse(c) \/ Begin(c) \/ Imported(c) \/ GiveUp(c)
  \/ \E w \in DOMAIN workers : Reply(w)

Spec == Init /\ [][Next]_workerVars

\* The state is of the expected shape.
WorkerTypeOK ==
  /\ nodeWorker \in 0 .. Len(workers)
  /\ \A c \in Snippets : codeRuns[c].at \in {"no", "importing", "posted", "settled"}

\* As long as runs come one after the other and none is given up on, each resolves
\* with what the worker made of its own snippet or is refused, whatever was refused
\* in between.
OwnResult ==
  ~ overlapped /\ ~ abandoned =>
    \A c \in Snippets : codeRuns[c].at = "settled" => codeRuns[c].got \in {c, "refused"}
=============================================================================
