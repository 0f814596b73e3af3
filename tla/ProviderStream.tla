--------------------------- MODULE ProviderStream ---------------------------
(***************************************************************************)
(* One provider call of the runtime: the streaming clients of the four     *)
(* APIs (crates/provider/src/anthropic.rs, openai.rs, gemini.rs,           *)
(* responses.rs), the retries around them (retry.rs), and the runtime,     *)
(* which collects the stream into a response and falls back to a complete  *)
(* request (crates/runtime/src/provider_response.rs, lib.rs).              *)
(*                                                                         *)
(* An answer is a sequence of blocks: a text, or the name of a tool that   *)
(* is called.  The arguments of a call are complete when both halves have  *)
(* arrived, Half[1] and Half[2], once each and in order.  The service may  *)
(* give another answer to every request.                                   *)
(***************************************************************************)
EXTENDS Naturals, Sequences, FiniteSets, SequencesExt

CONSTANTS
    Apis,        \* which of the four APIs
    Answers,     \* answers the service may give: sequences of blocks
    MaxAttempts  \* RetryPolicy.max_attempts, normalized to at least 1

ASSUME AttemptsPositive == MaxAttempts \in Nat \ {0}

TextBlock == "text"
Calls(ans) == SelectSeq(ans, LAMBDA b : b # TextBlock)
Texts(ans) == SelectSeq(ans, LAMBDA b : b = TextBlock)

VARIABLES
    api,        \* the client in use, "none" between calls
    phase,      \* "setup", "open", "complete" or "idle"
    attempt,    \* of the stream or, later, of the complete request
    requests,   \* HTTP requests made for this call, by kind
    answer,     \* what the service answers to the request under way
    wire,       \* events of it not yet read
    ordinals,   \* blocks of tool calls the client has met, in order
    argsSeen,   \* ResponsesToolCallAccumulator.streamed_argument_deltas
    textSeen,   \* ResponsesToolCallAccumulator.streamed_text_deltas
    reconnects, \* connections lost and made again
    text,       \* text_buffer: the text blocks received
    collectedCalls, \* the runtime's ToolCallAccumulator: index -> name, arguments
    result      \* the response or error of the last call

clientVars == <<answer, wire, ordinals, argsSeen, textSeen>>
streamVars == <<api, phase, attempt, requests, clientVars, reconnects, text, collectedCalls, result>>

NoResult == [kind |-> "none"]
Failed == [kind |-> "error"]

StreamInit ==
    /\ api = "none" /\ phase = "idle" /\ attempt = 0
    /\ requests = [stream |-> 0, complete |-> 0]
    /\ answer = <<>> /\ wire = <<>> /\ ordinals = <<>>
    /\ argsSeen = FALSE /\ textSeen = FALSE /\ reconnects = 0
    /\ text = <<>> /\ collectedCalls = <<>> /\ result = NoResult

-----------------------------------------------------------------------------
(* What each service sends for an answer, as its client reads it: blocks    *)
(* are numbered from 1, and index counts what the service counts.           *)

Event(t, b, name, part) == [t |-> t, b |-> b, name |-> name, part |-> part]
CallNr(ans, i) == Cardinality({j \in 1..i : ans[j] # TextBlock})
Flatten(s) == FoldLeft(LAMBDA a, b : a \o b, <<>>, s)

\* content_block_start and deltas carry the number of the block ...
AnthropicWire(ans) ==
    Flatten([i \in DOMAIN ans |->
        IF ans[i] = TextBlock THEN <<Event("text", i, "", i)>>
        ELSE <<Event("start", i, ans[i], 0), Event("args", i, "", 1), Event("args", i, "", 2)>>])
    \o <<Event("stop", 0, "", 0)>>
\* ... as do those of the Responses API, whose last event repeats it all,
\* with the response's id or not, and may be the only one.
ResponsesWire(ans, deltas, withId) ==
    (IF deltas THEN Front(AnthropicWire(ans)) ELSE <<>>)
    \o <<Event(IF withId THEN "completed" ELSE "completedNoId", 0, "", 0)>>
\* OpenAI numbers the tool calls.
OpenAIWire(ans) ==
    Flatten([i \in DOMAIN ans |->
        IF ans[i] = TextBlock THEN <<Event("text", i, "", i)>>
        ELSE <<Event("call", CallNr(ans, i), ans[i], 1), Event("call", CallNr(ans, i), ans[i], 2)>>])
    \o <<Event("stop", 0, "", 0)>>
\* Gemini sends calls whole, all in one chunk or each in its own, b being
\* their place in the chunk; the finish reason comes with the last.
GeminiWire(ans, together) ==
    [i \in DOMAIN ans |->
        IF ans[i] = TextBlock THEN Event("text", i, "", i)
        ELSE Event("whole", IF together THEN CallNr(ans, i) ELSE 1, ans[i], 0)]
    \o <<Event("stop", 0, "", 0)>>

WiresOf(a, ans) ==
    CASE a = "anthropic" -> {AnthropicWire(ans)}
      [] a = "openai" -> {OpenAIWire(ans)}
      [] a = "gemini" -> {GeminiWire(ans, TRUE), GeminiWire(ans, FALSE)}
      [] a = "responses" -> {ResponsesWire(ans, deltas, withId) : deltas, withId \in BOOLEAN}

-----------------------------------------------------------------------------
(* The runtime's collector.                                                 *)

NewCall == [name |-> "", args |-> <<>>]

\* ToolCallAccumulator::merge: a name replaces, arguments are appended.
Merge(acc, index, name, args) ==
    LET grown == [i \in 1..(IF index > Len(acc) THEN index ELSE Len(acc)) |->
                    IF i <= Len(acc) THEN acc[i] ELSE NewCall] IN
    [grown EXCEPT ![index] = [name |-> IF name = "" THEN @.name ELSE name, args |-> @.args \o args]]

Half == <<1, 2>>
\* try_extract_concatenated_json_objects: whole objects, one after the other.
Objects(args) == IF Len(args) % 2 = 0 /\ \A i \in DOMAIN args : args[i] = ((i - 1) % 2) + 1
                 THEN Len(args) \div 2 ELSE 0

\* ToolCallAccumulator::build: one call an index, one for each object when
\* several were put together, one marked invalid otherwise; an index without
\* a name is an error.
BuildCall(c) ==
    CASE c.args = <<>> \/ Objects(c.args) = 1 -> <<[name |-> c.name, valid |-> TRUE]>>
      [] Objects(c.args) > 1 -> [i \in 1..Objects(c.args) |-> [name |-> c.name, valid |-> TRUE]]
      [] OTHER -> <<[name |-> c.name, valid |-> FALSE]>>
Built(acc) == Flatten([i \in DOMAIN acc |-> BuildCall(acc[i])])
Buildable(acc) == \A i \in DOMAIN acc : acc[i].name # ""

-----------------------------------------------------------------------------
(* A call.                                                                  *)

\* request_provider_response with a model that streams and calls tools.
RequestProvider(a) ==
    /\ phase = "idle"
    /\ api' = a /\ phase' = "setup" /\ attempt' = 1
    /\ requests' = [stream |-> 0, complete |-> 0] /\ reconnects' = 0
    /\ text' = <<>> /\ collectedCalls' = <<>> /\ result' = NoResult
    /\ UNCHANGED clientVars

\* The request goes out and its stream opens: new client state each time.
OpenStream(ans) ==
    /\ phase = "setup"
    /\ requests' = [requests EXCEPT !.stream = @ + 1]
    /\ phase' = "open" /\ answer' = ans /\ wire' \in WiresOf(api, ans)
    /\ ordinals' = <<>> /\ argsSeen' = FALSE /\ textSeen' = FALSE
    /\ UNCHANGED <<api, attempt, reconnects, text, collectedCalls, result>>

\* The runtime's fallback: the response is asked for again, as a whole.
FallBack ==
    /\ phase' = "complete" /\ attempt' = 1

\* Transport errors, 429 and 5xx are retried, anything else is not.
SetupFails(retriable) ==
    /\ phase = "setup"
    /\ requests' = [requests EXCEPT !.stream = @ + 1]
    /\ IF retriable /\ attempt < MaxAttempts
       THEN attempt' = attempt + 1 /\ UNCHANGED phase
       ELSE FallBack
    /\ UNCHANGED <<api, clientVars, reconnects, text, collectedCalls, result>>

FinishStream(r) ==
    /\ phase' = "idle" /\ api' = "none" /\ attempt' = 0 /\ result' = r
    /\ answer' = <<>> /\ wire' = <<>> /\ ordinals' = <<>>
    /\ argsSeen' = FALSE /\ textSeen' = FALSE

Position(b) == IF Contains(ordinals, b) THEN CHOOSE i \in DOMAIN ordinals : ordinals[i] = b
               ELSE Len(ordinals) + 1
Meet(b) == ordinals' = IF Contains(ordinals, b) THEN ordinals ELSE Append(ordinals, b)

Read == wire' = Tail(wire) /\ UNCHANGED <<api, phase, attempt, requests, answer, reconnects, result>>
Reading(t) == phase = "open" /\ wire # <<>> /\ Head(wire).t = t

\* A piece of text, passed on as it comes.
TextDelta ==
    /\ Reading("text")
    /\ text' = Append(text, TextBlock)
    /\ textSeen' = TRUE
    /\ UNCHANGED <<collectedCalls, ordinals, argsSeen>>
    /\ Read

\* start_tool: the block gets the next ordinal.
AnthropicStart ==
    /\ Reading("start") /\ api = "anthropic"
    /\ Meet(Head(wire).b)
    /\ collectedCalls' = Merge(collectedCalls, Position(Head(wire).b), Head(wire).name, <<>>)
    /\ UNCHANGED <<text, textSeen, argsSeen>>
    /\ Read

\* append_json.
AnthropicArgs ==
    /\ Reading("args") /\ api = "anthropic"
    /\ Meet(Head(wire).b)
    /\ collectedCalls' = Merge(collectedCalls, Position(Head(wire).b), "", <<Head(wire).part>>)
    /\ UNCHANGED <<text, textSeen, argsSeen>>
    /\ Read

\* register_output_item: nothing is passed on yet.
ResponsesItemAdded ==
    /\ Reading("start") /\ api = "responses"
    /\ Meet(Head(wire).b)
    /\ UNCHANGED <<collectedCalls, text, textSeen, argsSeen>>
    /\ Read

\* append_arguments: id, name and fragment of the registered item.
ResponsesArgs ==
    /\ Reading("args") /\ api = "responses"
    /\ Meet(Head(wire).b) /\ argsSeen' = TRUE
    /\ collectedCalls' = Merge(collectedCalls, Position(Head(wire).b), answer[Head(wire).b], <<Head(wire).part>>)
    /\ UNCHANGED <<text, textSeen>>
    /\ Read

\* normalize_openai_stream_chunk: the service's index is used as it is.
OpenAICall ==
    /\ Reading("call")
    /\ collectedCalls' = Merge(collectedCalls, Head(wire).b, Head(wire).name, <<Head(wire).part>>)
    /\ UNCHANGED <<text, ordinals, textSeen, argsSeen>>
    /\ Read

\* normalize_gemini_stream_chunk: calls are numbered within the chunk.
GeminiCall ==
    /\ Reading("whole")
    /\ collectedCalls' = Merge(collectedCalls, Head(wire).b, Head(wire).name, Half)
    /\ UNCHANGED <<text, ordinals, textSeen, argsSeen>>
    /\ Read

\* The stream has ended and the runtime builds the response.
Collect(acc, txt) ==
    /\ IF Buildable(acc)
       THEN FinishStream([kind |-> "stream", api |-> api, text |-> txt, calls |-> Built(acc),
                    answer |-> answer])
       ELSE FallBack /\ UNCHANGED <<api, result, clientVars>>
    /\ collectedCalls' = acc /\ text' = txt
    /\ UNCHANGED <<requests, reconnects>>

EndsWith(a) ==
    /\ Reading("stop") /\ api = a
    /\ Collect(collectedCalls, text)

\* What each client takes for the end of the answer; a body that ends before
\* it is a lost connection.
AnthropicEnds == EndsWith("anthropic") \* message_stop
OpenAIEnds == EndsWith("openai")       \* [DONE]
GeminiEnds == EndsWith("gemini")       \* the end of the body after a finish reason

\* What response.completed adds: the calls and the text that no delta brought.
CompletedCalls ==
    LET said == Calls(answer) IN
    IF argsSeen THEN collectedCalls
    ELSE FoldLeft(LAMBDA acc, i : Merge(acc, i, said[i], Half), collectedCalls, [i \in DOMAIN said |-> i])
\* Mutant: the last event's text is added to what was streamed.
CompletedTextRepeated == text \o Texts(answer)
CompletedText ==
    IF textSeen THEN text ELSE text \o Texts(answer)

ResponsesCompleted ==
    /\ Reading("completed")
    /\ Collect(CompletedCalls, CompletedText)

\* ConnectionLost: the transport drops, or the body ends too early.
Lose ==
    IF attempt < MaxAttempts
    THEN /\ attempt' = attempt + 1 /\ phase' = "setup" /\ reconnects' = reconnects + 1
         /\ UNCHANGED <<api, result>>
    ELSE /\ FallBack
         /\ UNCHANGED <<api, reconnects, result>>

\* What has been passed on stays with the runtime.
LoseConnection ==
    /\ phase = "open" /\ wire # <<>>
    /\ Lose
    /\ UNCHANGED <<requests, clientVars, text, collectedCalls>>

\* response.completed without an id does not end the stream, the end of the
\* body does, as a loss.
CompletedWithoutId ==
    /\ Reading("completedNoId")
    /\ Lose
    /\ collectedCalls' = CompletedCalls /\ text' = CompletedText
    /\ UNCHANGED <<requests, clientVars>>

\* An error event or a payload that cannot be parsed ends the stream.
StreamError ==
    /\ phase = "open"
    /\ FallBack
    /\ UNCHANGED <<api, requests, clientVars, reconnects, text, collectedCalls, result>>

Joined(parts) == Flatten([i \in DOMAIN parts |-> IF i = 1 THEN <<parts[i]>> ELSE <<"newline", parts[i]>>])

\* The normalize functions: a complete response has its texts and its calls
\* apart; only Anthropic's texts are put on lines of their own.
NormalizeAnthropic(ans) == [text |-> Joined(Texts(ans)), calls |-> Calls(ans)]
NormalizeOpenAI(ans) == [text |-> Texts(ans), calls |-> Calls(ans)]
NormalizeGemini(ans) == [text |-> Texts(ans), calls |-> Calls(ans)]
NormalizeResponses(ans) == [text |-> Texts(ans), calls |-> Calls(ans)]
Normalized(ans) ==
    CASE api = "anthropic" -> NormalizeAnthropic(ans)
      [] api = "openai" -> NormalizeOpenAI(ans)
      [] api = "gemini" -> NormalizeGemini(ans)
      [] api = "responses" -> NormalizeResponses(ans)

\* complete_response, complete_with_retry: nothing streamed is used.
Complete(ans) ==
    /\ phase = "complete"
    /\ requests' = [requests EXCEPT !.complete = @ + 1]
    /\ LET n == Normalized(ans) IN
       FinishStream([kind |-> "complete", api |-> api, text |-> n.text, answer |-> ans,
               calls |-> [i \in DOMAIN n.calls |-> [name |-> n.calls[i], valid |-> TRUE]]])
    /\ UNCHANGED <<reconnects, text, collectedCalls>>

CompleteFails(retriable) ==
    /\ phase = "complete"
    /\ requests' = [requests EXCEPT !.complete = @ + 1]
    /\ IF retriable /\ attempt < MaxAttempts
       THEN attempt' = attempt + 1 /\ UNCHANGED <<api, phase, result, clientVars>>
       ELSE FinishStream(Failed)
    /\ UNCHANGED <<reconnects, text, collectedCalls>>

\* Cancellation and the turn timeout end the call without a fallback.
AbandonCall ==
    /\ phase # "idle"
    /\ FinishStream(Failed)
    /\ UNCHANGED <<requests, reconnects, text, collectedCalls>>

\* One event of each API's stream, read and passed on.
ReadAnthropic == AnthropicStart \/ AnthropicArgs \/ AnthropicEnds
ReadOpenAI == OpenAICall \/ OpenAIEnds
ReadGemini == GeminiCall \/ GeminiEnds
ReadResponses == ResponsesItemAdded \/ ResponsesArgs \/ ResponsesCompleted \/ CompletedWithoutId
ReadEvent == TextDelta \/ ReadAnthropic \/ ReadOpenAI \/ ReadGemini \/ ReadResponses

StreamStep ==
    \/ \E ans \in Answers : OpenStream(ans) \/ Complete(ans)
    \/ \E retriable \in BOOLEAN : SetupFails(retriable) \/ CompleteFails(retriable)
    \/ ReadEvent \/ LoseConnection \/ StreamError

StreamNext ==
    \/ \E a \in Apis : RequestProvider(a)
    \/ StreamStep \/ AbandonCall

StreamSpec == StreamInit /\ [][StreamNext]_streamVars

-----------------------------------------------------------------------------
(* Properties.                                                              *)

\* A response collected from a stream that was never interrupted says what
\* the model said: every text, every call once, in order and with its own
\* arguments, however texts and calls alternate.  Several calls of Gemini are
\* the exception: in chunks of their own they all are number 0.  So does a
\* complete response, of which no part was streamed before.
AnswerExact ==
    LET said == Calls(result.answer) IN
    \/ result.kind = "complete"
    \/ result.kind = "stream" /\ reconnects = 0 /\ (result.api = "gemini" => Len(said) <= 1)
    => /\ result.calls = [i \in DOMAIN said |-> [name |-> said[i], valid |-> TRUE]]
       /\ Texts(result.text) = Texts(result.answer)

\* One call of the runtime makes at most MaxAttempts streaming and MaxAttempts
\* complete requests, setups and reconnections counted together.
RequestsBounded == requests.stream <= MaxAttempts /\ requests.complete <= MaxAttempts

\* One call of the runtime hands on exactly what the model said, for a bounded
\* number of requests.
ProviderAnswerExact == AnswerExact /\ RequestsBounded
=============================================================================
