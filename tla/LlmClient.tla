-------------------------------- MODULE LlmClient --------------------------------
(***************************************************************************)
(* TonyLLMClient.complete (src/src/llm/client.ts): the attempts of a request,  *)
(* their timeouts, aborts and retries, and the reading of an event stream.      *)
(* A body is a sequence of the tokens chunks are cut between, by kind: "r" and    *)
(* "n" for the characters of a line break, data lines, "other" for any other     *)
(* line.  A data line holds an event: a delta of text or of a tool call, a       *)
(* finish reason, or junk, which stands for [DONE] and for what does not parse.  *)
(***************************************************************************)
EXTENDS Integers, Sequences, SequencesExt, FiniteSets, FiniteSetsExt, TLC

CONSTANTS
  Replies,     \* the bodies a server answers with
  Offers,      \* of every piece of text: the JSON candidates of calls in it
  MaxRetries

VARIABLES
  phase,       \* idle, waiting for the headers, reading, sleeping, done or failed
  attempt,     \* the retries so far
  signalled,   \* request.signal is aborted
  body, wire,  \* the body of this attempt and what of it is still to be read
  buffer, acc, \* what is read and not processed; what is accumulated
  whole,       \* the body is not an event stream by its content type: it is read at once
  result,
  shown        \* the text deltas the callback saw

\* Auxiliary: the attempts, whether the signal was set when they started, how they ended.
VARIABLE attempts

llmVars == << phase, attempt, signalled, body, wire, buffer, acc, whole, result, shown, attempts >>

Fresh == [text |-> << >>, calls |-> << >>, finish |-> "none"]

Init ==
  /\ phase = "idle" /\ attempt = 0 /\ signalled = FALSE /\ body = << >> /\ wire = << >>
  /\ buffer = << >> /\ acc = Fresh /\ whole = FALSE /\ result = Fresh /\ shown = << >>
  /\ attempts = << >>

-------------------------------------------------------------------------------
(* The event stream *)

IsData(token) == token.kind \notin {"r", "n", "other"}

\* The kinds of the tokens of an empty line.
Breaks == {<< "n", "n" >>, << "r", "n", "n" >>, << "n", "r", "n" >>, << "r", "n", "r", "n" >>}
Kinds(text) == [i \in DOMAIN text |-> text[i].kind]

\* Where the leftmost empty line starts and ends, if there is one.
Boundaries(text) ==
  {p \in (DOMAIN text) \X (DOMAIN text) : Kinds(SubSeq(text, p[1], p[2])) \in Breaks}
Boundary(text) == CHOOSE p \in Boundaries(text) : \A q \in Boundaries(text) : p[1] <= q[1]

NoCall == [id |-> "none", name |-> << >>]
Merge(calls, d) ==
  LET current == IF d.index \in DOMAIN calls THEN calls[d.index] ELSE NoCall
  IN (d.index :> [id |-> IF d.id = "none" THEN current.id ELSE d.id,
                  name |-> current.name \o d.name]) @@ calls

\* What a block adds: its data lines are one payload, which two events are not.
Absorb(into, block) ==
  LET payload == SelectSeq(block, IsData)
      event == payload[1]
  IN IF Len(payload) # 1 THEN into
     ELSE CASE event.kind = "text" -> [into EXCEPT !.text = Append(@, event.text)]
            [] event.kind = "tool" -> [into EXCEPT !.calls = Merge(@, event)]
            [] event.kind = "finish" -> [into EXCEPT !.finish = event.reason]
            [] OTHER -> into

\* The blocks that are complete, one for every empty line, and what follows them.
TakeBlock(split, token) ==
  IF Boundaries(split.rest) = {} THEN split
  ELSE LET at == Boundary(split.rest)
       IN [blocks |-> Append(split.blocks, SubSeq(split.rest, 1, at[1] - 1)),
           rest |-> SubSeq(split.rest, at[2] + 1, Len(split.rest))]
Split(text) ==
  FoldLeft(TakeBlock, [blocks |-> << >>, rest |-> text], SelectSeq(text, LAMBDA t : t.kind = "n"))

\* processBuffer: the complete blocks are taken off the buffer.
Drain(text, into) ==
  [buffer |-> Split(text).rest, acc |-> FoldLeft(Absorb, into, Split(text).blocks)]

Blocks(text) == Append(Split(text).blocks, Split(text).rest)

\* parseSseText: the body is split as a whole.
Parsed(text) == FoldLeft(Absorb, Fresh, Blocks(text))

\* An event that follows a line break tells an event stream from a JSON body; what
\* is taken for a JSON body has no message and gives nothing.
Recognized(text) == \E i \in DOMAIN text : i > 1 /\ IsData(text[i]) /\ text[i - 1].kind = "n"

\* toToolCalls: the deltas by index; a call without a name is dropped.
Native(into) ==
  LET order == SetToSortSeq(DOMAIN into.calls, <)
      calls == [i \in DOMAIN order |->
                  LET call == into.calls[order[i]]
                  IN [name |-> call.name,
                      id |-> IF call.id = "none" THEN "tool-call-" \o ToString(order[i] + 1) ELSE call.id]]
  IN SelectSeq(calls, LAMBDA c : c.name # << >>)

\* The calls of a candidate; those without an id are numbered.
Named(offer) ==
  SelectSeq([i \in DOMAIN offer.calls |->
               [name |-> offer.calls[i].name,
                id |-> IF offer.calls[i].id = "none" THEN "json-call-" \o ToString(i) ELSE offer.calls[i].id]],
            LAMBDA c : c.name # << >>)

\* extractJsonToolCalls: the first candidate with a call, fenced ones before all others.
FromText(text) ==
  LET offers == FlattenSeq([i \in DOMAIN text |-> Offers[text[i]]])
      ordered == SelectSeq(offers, LAMBDA o : o.fenced) \o offers
      good == SelectSeq(ordered, LAMBDA o : Named(o) # << >>)
  IN IF good = << >> THEN << >> ELSE Named(good[1])

\* Calls in the text count only if there are no others.
ToolCalls(into) == IF Native(into) # << >> THEN Native(into) ELSE FromText(into.text)

-------------------------------------------------------------------------------
(* complete() and completeOnce() *)

Send ==
  /\ phase' = "waiting" /\ attempts' = Append(attempts, [late |-> signalled, ended |-> "no"])
  /\ buffer' = << >> /\ acc' = Fresh

Start == phase = "idle" /\ Send /\ UNCHANGED << attempt, signalled, body, wire, whole, result, shown >>

Over(how) == [attempts EXCEPT ![Len(attempts)].ended = how]

\* A slip: one retry more.
SpentLate == attempt > MaxRetries
Spent == attempt >= MaxRetries

\* An attempt fails: it is repeated after a pause if the error allows it, the caller
\* has not aborted and retries are left.
Fail(how) ==
  /\ attempts' = Over(how)
  /\ IF signalled \/ Spent \/ how = "fatal"
     THEN phase' = "failed" /\ attempt' = attempt
     ELSE phase' = "sleeping" /\ attempt' = attempt + 1
  /\ UNCHANGED << signalled, body, wire, buffer, acc, whole, result, shown >>

\* The headers: an error status of either class, or a body of either content type.
ErrorStatus == \E how \in {"retryable", "fatal"} : phase = "waiting" /\ Fail(how)

Headers ==
  /\ phase = "waiting" /\ phase' = "reading"
  /\ body' \in Replies /\ wire' = body' /\ whole' \in BOOLEAN
  /\ UNCHANGED << attempt, signalled, buffer, acc, result, shown, attempts >>

\* reader.read(): a chunk of any length.
Chunk(n) ==
  /\ phase = "reading" /\ ~ whole /\ n \in 1 .. Len(wire)
  /\ LET drained == Drain(buffer \o SubSeq(wire, 1, n), acc)
     IN /\ buffer' = drained.buffer /\ acc' = drained.acc
        /\ shown' = shown \o SubSeq(drained.acc.text, Len(acc.text) + 1, Len(drained.acc.text))
  /\ wire' = SubSeq(wire, n + 1, Len(wire))
  /\ UNCHANGED << phase, attempt, signalled, body, whole, result, attempts >>

Return(value, deltas) ==
  /\ phase' = "done" /\ result' = value @@ [toolCalls |-> ToolCalls(value)] /\ shown' = shown \o deltas /\ attempts' = Over("done")
  /\ UNCHANGED << attempt, signalled, body, wire, buffer, acc, whole >>

\* A slip: what the last chunk left in the buffer is forgotten.
EndOfBodyUnflushed == phase = "reading" /\ ~ whole /\ wire = << >> /\ Return(acc, << >>)

\* The body is over: the rest of the buffer is one more block.
EndOfBody ==
  /\ phase = "reading" /\ ~ whole /\ wire = << >>
  /\ LET last == Absorb(acc, buffer)
     IN Return(last, SubSeq(last.text, Len(acc.text) + 1, Len(last.text)))

Whole ==
  /\ phase = "reading" /\ whole
  /\ IF Recognized(body) THEN Return(Parsed(body), Parsed(body).text) ELSE Return(Fresh, << >>)

\* The connection breaks, the timer of the attempt fires.
Break == phase \in {"waiting", "reading"} /\ Fail("retryable")
Timeout == phase \in {"waiting", "reading"} /\ Fail("retryable")

Abort ==
  /\ phase \notin {"done", "failed"} /\ ~ signalled /\ signalled' = TRUE
  /\ UNCHANGED << phase, attempt, body, wire, buffer, acc, whole, result, shown, attempts >>

\* The fetch rejects on a signal that fires during the attempt, not on an older one.
AbortRejects ==
  /\ phase \in {"waiting", "reading"} /\ signalled /\ ~ attempts[Len(attempts)].late
  /\ Fail("fatal")

\* sleep() resolves, or rejects if the signal is set.
Wake ==
  /\ phase = "sleeping"
  /\ IF signalled
     THEN phase' = "failed" /\ UNCHANGED << attempt, signalled, body, wire, buffer, acc, whole, result, shown, attempts >>
     ELSE Send /\ UNCHANGED << attempt, signalled, body, wire, whole, result, shown >>

Next ==
  \/ Start \/ ErrorStatus \/ Headers \/ EndOfBody \/ Whole \/ Break \/ Timeout
  \/ Abort \/ AbortRejects \/ Wake
  \/ \E n \in 1 .. Len(wire) : Chunk(n)

Spec == Init /\ [][Next]_llmVars

-------------------------------------------------------------------------------
(* Properties *)

\* The state is of the expected shape.
LlmTypeOK ==
  /\ phase \in {"idle", "waiting", "reading", "sleeping", "done", "failed"}
  /\ attempt \in 0..MaxRetries /\ Len(attempts) <= MaxRetries + 1
  /\ wire = SubSeq(body, Len(body) - Len(wire) + 1, Len(body))

\* A result is what the body of the last attempt says as a whole, however it was cut
\* into chunks, whatever line breaks separate its events and whether or not the last
\* one ends with any; nothing of an attempt that broke off is in it, and the deltas
\* that were shown end with its text.  Its tool calls are those of the stream, and
\* calls spelled in the text only if the stream has none.
StreamWhole ==
  phase = "done" /\ (whole => Recognized(body)) =>
    LET said == Parsed(body)
        deltas == {t \in ToSet(body) : t.kind = "tool" /\ t.name # << >>}
    IN /\ result.text = said.text /\ result.finish = said.finish /\ result.calls = said.calls
       /\ deltas # {} => Len(result.toolCalls) = Cardinality({d.index : d \in deltas})
       /\ deltas = {} => result.toolCalls = FromText(said.text)
       /\ IsSuffix(said.text, shown)

\* No request is repeated after an answer, after an error that repeating cannot cure
\* or after the caller aborted, and only an abort, such an error or the last retry
\* makes the call fail.
RetriesJustified ==
  /\ \A i \in DOMAIN attempts :
       i > 1 => attempts[i - 1].ended = "retryable" /\ ~ attempts[i].late
  /\ phase = "failed" =>
       signalled \/ attempts[Len(attempts)].ended = "fatal" \/ Len(attempts) = MaxRetries + 1
=============================================================================
