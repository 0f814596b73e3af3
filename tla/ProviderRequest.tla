-------------------------- MODULE ProviderRequest ---------------------------
(***************************************************************************)
(* What the model is given: the conversion of a context into the request   *)
(* of each API (from_context and friends in crates/provider/src), and the  *)
(* Responses API's chaining, where one client object remembers the last    *)
(* response and the number of messages that led to it                      *)
(* (crates/provider/src/responses.rs), shared by every session it serves.  *)
(***************************************************************************)
EXTENDS Naturals, Sequences, SequencesExt

CONSTANTS
    ChainSessions,  \* sessions that use the client
    MaxMessages,    \* bound: messages of a context
    MaxResponses    \* bound: responses of the service

ASSUME ChainBounds == MaxMessages \in Nat /\ MaxResponses \in Nat

VARIABLES
    contexts,    \* session -> its messages
    turnStart,   \* session -> messages before the turn under way
    previous,    \* previous_response_id, 0 for None
    lastCount,   \* last_input_count
    served,      \* response id -> all that the service has in that conversation
    asking,      \* session -> the request under way
    rolledBack   \* some turn has failed and its messages were dropped

requestVars == <<contexts, turnStart, previous, lastCount, served, asking, rolledBack>>

\* A message: who wrote it, whether it has text, its tool calls or the call it
\* answers, named after the place in the context, and whether an enforced
\* budget ended the turn with it.
ChatMessage(s, role, nr, said, called, last) ==
    [of |-> s, role |-> role, nr |-> nr, text |-> said, calls |-> called, stops |-> last]
NotAsking == [step |-> "none"]

RequestInit ==
    /\ contexts = [s \in ChainSessions |-> <<ChatMessage(s, "system", 1, TRUE, FALSE, FALSE)>>]
    /\ turnStart = [s \in ChainSessions |-> 0]
    /\ previous = 0 /\ lastCount = 0 /\ served = <<>>
    /\ asking = [s \in ChainSessions |-> NotAsking] /\ rolledBack = FALSE

-----------------------------------------------------------------------------
(* Conversions: items of a request, in order.                               *)

Item(m, kind) == [of |-> m.of, nr |-> m.nr, kind |-> kind, stops |-> m.stops]
ItemsOf(msgs, Of(_)) == FoldLeft(LAMBDA acc, m : acc \o Of(m), <<>>, msgs)
BadRequest == <<"error">>

TextItem(m) == IF m.text THEN <<Item(m, m.role)>> ELSE <<>>
CallItem(m) == IF m.calls THEN <<Item(m, "call")>> ELSE <<>>
ResultItem(m) == IF m.role = "tool" THEN <<Item(m, "result")>> ELSE <<>>

\* System messages become the system prompt; an empty user or assistant
\* message is refused, and so is a request without messages.
AnthropicRequest(msgs) ==
    LET Of(m) == IF m.role = "system" THEN <<>>
                 ELSE IF m.role = "tool" THEN ResultItem(m) ELSE TextItem(m) \o CallItem(m)
        empty == \E i \in DOMAIN msgs :
                    msgs[i].role \in {"user", "assistant"} /\ Of(msgs[i]) = <<>> IN
    IF empty \/ ItemsOf(msgs, Of) = <<>> THEN BadRequest ELSE ItemsOf(msgs, Of)

\* Every message, whatever it has.
OpenAIRequest(msgs) ==
    LET Of(m) == IF m.role = "tool" THEN ResultItem(m) ELSE <<Item(m, m.role)>> \o CallItem(m)
    IN ItemsOf(msgs, Of)

\* The text of an assistant message that calls tools is left out, messages
\* without parts too; a request without contents is refused.
GeminiRequest(msgs) ==
    LET Of(m) == CASE m.role = "system" -> <<>>
                   [] m.role = "user" -> TextItem(m)
                   [] m.role = "assistant" -> IF m.calls THEN CallItem(m) ELSE TextItem(m)
                   [] m.role = "tool" -> ResultItem(m) IN
    IF ItemsOf(msgs, Of) = <<>> THEN BadRequest ELSE ItemsOf(msgs, Of)

\* Chained to a response, only what comes after the messages of its request.
ResponsesStart(prev, count, msgs) ==
    IF prev # 0 /\ count > 0 THEN (IF count < Len(msgs) THEN count ELSE Len(msgs)) ELSE 0
ResponsesRequest(prev, count, msgs) ==
    LET Of(m) == IF m.role = "system" THEN <<>>
                 ELSE IF m.role = "tool" THEN ResultItem(m) ELSE TextItem(m) \o CallItem(m)
    IN ItemsOf(SubSeq(msgs, ResponsesStart(prev, count, msgs) + 1, Len(msgs)), Of)

-----------------------------------------------------------------------------
(* Turns, and the chained client.                                           *)

Context(s) == contexts[s]
LastMessage(s) == contexts[s][Len(contexts[s])]
Say(s, message) == contexts' = [contexts EXCEPT ![s] = Append(@, message)]

\* A turn begins with the user's message ...
UserSays(s) ==
    /\ asking[s] = NotAsking /\ turnStart[s] = 0
    /\ Len(Context(s)) < MaxMessages
    /\ turnStart' = [turnStart EXCEPT ![s] = Len(Context(s))]
    /\ Say(s, ChatMessage(s, "user", Len(Context(s)) + 1, TRUE, FALSE, FALSE))
    /\ UNCHANGED <<previous, lastCount, served, asking, rolledBack>>

\* ... and the tools the model called answer.
ToolAnswers(s) ==
    /\ asking[s] = NotAsking /\ turnStart[s] > 0 /\ LastMessage(s).calls
    /\ Len(Context(s)) < MaxMessages
    /\ Say(s, ChatMessage(s, "tool", Len(Context(s)), TRUE, FALSE, FALSE))
    /\ UNCHANGED <<turnStart, previous, lastCount, served, asking, rolledBack>>

\* complete and stream read the two fields under two locks.
ReadPrevious(s) ==
    /\ asking[s] = NotAsking /\ turnStart[s] > 0 /\ LastMessage(s).role \in {"user", "tool"}
    /\ asking' = [asking EXCEPT ![s] = [step |-> "count", prev |-> previous]]
    /\ UNCHANGED <<contexts, turnStart, previous, lastCount, served, rolledBack>>

SendRequest(s) ==
    /\ asking[s].step = "count"
    /\ asking' = [asking EXCEPT ![s] =
         [step |-> "sent", prev |-> asking[s].prev,
          items |-> ResponsesRequest(asking[s].prev, lastCount, Context(s))]]
    /\ UNCHANGED <<contexts, turnStart, previous, lastCount, served, rolledBack>>

\* What the service has before it for the request of s.
View(s) ==
    (IF asking[s].prev = 0 THEN <<>> ELSE served[asking[s].prev]) \o asking[s].items


\* A chained request that gets a 4xx: forget the chain and send everything.
RejectChained(s) ==
    /\ asking[s].step = "sent" /\ asking[s].prev # 0
    /\ previous' = 0 /\ lastCount' = 0
    /\ asking' = [asking EXCEPT ![s] =
         [step |-> "sent", prev |-> 0, items |-> ResponsesRequest(0, 0, Context(s))]]
    /\ UNCHANGED <<contexts, turnStart, served, rolledBack>>

\* Any other failure ends the turn, and the runner drops its messages.
RequestFails(s) ==
    /\ asking[s].step = "sent"
    /\ asking' = [asking EXCEPT ![s] = NotAsking]
    /\ contexts' = [contexts EXCEPT ![s] = SubSeq(@, 1, turnStart[s])]
    /\ turnStart' = [turnStart EXCEPT ![s] = 0]
    /\ rolledBack' = TRUE
    /\ UNCHANGED <<previous, lastCount, served>>

\* The response: chain to it, and remember the messages of the request (the
\* reply itself is not counted, and will be sent back with the next one).  The
\* turn goes on if it calls tools, unless an enforced budget is used up.
ResponseCompleted(s, said, called, stops) ==
    /\ asking[s].step = "sent" /\ Len(served) < MaxResponses
    /\ Len(Context(s)) < MaxMessages
    /\ LET reply == ChatMessage(s, "assistant", Len(Context(s)) + 1, said, called, stops) IN
       /\ served' = Append(served, View(s) \o TextItem(reply) \o CallItem(reply))
       /\ Say(s, reply)
    /\ previous' = Len(served) + 1 /\ lastCount' = Len(Context(s))
    /\ asking' = [asking EXCEPT ![s] = NotAsking]
    /\ turnStart' = IF called /\ ~stops THEN turnStart ELSE [turnStart EXCEPT ![s] = 0]
    /\ UNCHANGED rolledBack

RequestNext ==
    \E s \in ChainSessions :
        \/ UserSays(s) \/ ToolAnswers(s) \/ ReadPrevious(s) \/ SendRequest(s)
        \/ RejectChained(s) \/ RequestFails(s)
        \/ \E said, called, stops \in BOOLEAN :
             (said \/ called) /\ (stops => called) /\ ResponseCompleted(s, said, called, stops)

RequestSpec == RequestInit /\ [][RequestNext]_requestVars

-----------------------------------------------------------------------------
(* Properties.                                                              *)

\* Every result stands behind the call it answers, and every call has its
\* result, but for those with which an enforced budget ended a turn: they are
\* stored, and sent in all later turns, without one.
Paired(items) ==
    \A i \in DOMAIN items :
        /\ items[i].kind = "result" =>
             \E j \in 1..(i - 1) : items[j].kind = "call" /\ items[j].nr = items[i].nr
        /\ items[i].kind = "call" /\ ~items[i].stops =>
             \E j \in (i + 1)..Len(items) : items[j].kind = "result" /\ items[j].nr = items[i].nr

\* In the requests of all four APIs the calls and their results stay paired,
\* whatever the conversion drops, when the request is not chained.
RequestsPairCalls ==
    \A s \in ChainSessions :
        asking[s].step = "sent" =>
            /\ Paired(AnthropicRequest(Context(s))) /\ Paired(OpenAIRequest(Context(s)))
            /\ Paired(GeminiRequest(Context(s)))
            /\ asking[s].prev = 0 => Paired(asking[s].items)

\* A client that serves a single session, none of whose turns was dropped,
\* lets the model see every message of it, chained, cut off or resent.
SoloSessionMissesNothing ==
    \A s \in ChainSessions :
        asking[s].step = "sent" /\ ChainSessions = {s} /\ ~rolledBack =>
            ToSet(ResponsesRequest(0, 0, Context(s))) \subseteq ToSet(View(s))

\* "This persists conversation state server-side": what the model sees for a
\* session is of that session.
ViewIsOwnSession ==
    \A s \in ChainSessions :
        asking[s].step = "sent" => \A i \in DOMAIN View(s) : View(s)[i].of = s

=============================================================================
