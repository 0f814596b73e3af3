--------------------------- MODULE AgentLoopProofs ---------------------------
(***************************************************************************)
(* Proofs about the turn loop: for any number of turns, any replies of the *)
(* provider and any limits, the history of a session stays usable, and a   *)
(* turn that fails leaves it as it was.                                     *)
(*                                                                         *)
(* The argument is an inductive invariant, LoopInv: what a run's context   *)
(* consists of (the history of before, the user's message, what this run   *)
(* generated), which of its tool calls may still be open, and what of it   *)
(* is in memory.                                                           *)
(***************************************************************************)
EXTENDS AgentLoop, SequenceTheorems, TLAPS

-----------------------------------------------------------------------------
(* Messages and sequences of them.                                          *)

\* What the roles say of a message.
LEMMA MessageRoles ==
    ASSUME NEW m \in Messages
    PROVE  /\ m.role = "tool" => m.of \in Nat /\ m.of > 0
           /\ m.role = "assistant" => m.calls \in Replies /\ Len(m.calls) \in Nat
           /\ m.role = "user" => m.nr \in Nat /\ m = User(m.nr)
<1>1. CASE m = System
  BY <1>1 DEF System
<1>2. CASE \E n \in 1..MaxUserTurns : m = User(n)
  BY <1>2, BoundsType DEF User
<1>3. CASE \E calls \in Replies : m = Assistant(calls)
  <2>1. PICK calls \in Replies : m = Assistant(calls)
    BY <1>3
  <2>2. calls \in Seq(Tiers)
    BY RepliesType
  <2>3. m.role = "assistant" /\ m.calls = calls
    BY <2>1 DEF Assistant
  <2>4. Len(calls) \in Nat
    BY <2>2
  <2> QED
    BY <2>3, <2>4
<1>4. CASE \E i \in CallNrs : m = Result(i)
  <2>1. PICK i \in CallNrs : m = Result(i)
    BY <1>4
  <2>2. PICK calls \in Replies : i \in DOMAIN calls
    BY DEF CallNrs
  <2>3. calls \in Seq(Tiers)
    BY RepliesType
  <2>4. i \in Nat /\ i > 0
    BY <2>2, <2>3
  <2>5. m.role = "tool" /\ m.of = i
    BY <2>1 DEF Result
  <2> QED
    BY <2>4, <2>5
<1> QED
  BY <1>1, <1>2, <1>3, <1>4 DEF Messages

\* A sequence answers every call exactly when it does so up to its end and
\* every result is in its place.
LEMMA AnsweredParts ==
    ASSUME NEW s \in Seq(Messages), AnsweredUpTo(s, Len(s)), ResultsPlaced(s)
    PROVE  Answered(s)
<1>1. Len(s) \in Nat /\ DOMAIN s = 1..Len(s)
  OBVIOUS
<1>2. ASSUME NEW i \in DOMAIN s, s[i].role = "assistant",
             NEW k \in 1..Len(s[i].calls)
      PROVE  i + k \in DOMAIN s /\ s[i + k] = Result(k)
  <2>1. i + k <= Len(s) /\ s[i + k] = Result(k)
    BY <1>1, <1>2 DEF AnsweredUpTo
  <2>2. k \in Nat /\ k > 0 /\ i \in Nat /\ i > 0
    <3>1. Len(s[i].calls) \in Nat
      BY <1>2, MessageRoles
    <3> QED
      BY <1>1, <3>1
  <2> QED
    BY <1>1, <2>1, <2>2
<1> QED
  BY <1>1, <1>2 DEF Answered, ResultsPlaced

\* Pushing a message changes nothing before it.
LEMMA Pushed ==
    ASSUME NEW s \in Seq(Messages), NEW m \in Messages
    PROVE  /\ Append(s, m) \in Seq(Messages)
           /\ Len(Append(s, m)) = Len(s) + 1 /\ Len(s) \in Nat
           /\ Append(s, m)[Len(s) + 1] = m
           /\ \A i \in 1..Len(s) : Append(s, m)[i] = s[i] /\ s[i] \in Messages
OBVIOUS

\* Two sequences that agree up to n answer the same calls up to n.
LEMMA AnsweredAgree ==
    ASSUME NEW s \in Seq(Messages), NEW t, NEW n \in Nat, n <= Len(s),
           \A i \in 1..n : t[i] = s[i],
           AnsweredUpTo(s, n)
    PROVE  AnsweredUpTo(t, n)
<1>1. SUFFICES ASSUME NEW i \in 1..n, t[i].role = "assistant",
                      NEW k \in 1..Len(t[i].calls)
               PROVE  i + k <= n /\ t[i + k] = Result(k)
  BY DEF AnsweredUpTo
<1>2. t[i] = s[i] /\ s[i] \in Messages
  OBVIOUS
<1>3. i + k <= n /\ s[i + k] = Result(k)
  BY <1>1, <1>2 DEF AnsweredUpTo
<1>4. k \in Nat /\ k > 0
  <2>1. Len(t[i].calls) \in Nat
    BY <1>1, <1>2, MessageRoles
  <2> QED
    BY <2>1
<1>5. i + k \in 1..n
  BY <1>3, <1>4
<1> QED
  BY <1>3, <1>5

\* Results that are in their place are so in every part the sequence begins
\* with.
LEMMA PlacedAgree ==
    ASSUME NEW s \in Seq(Messages), NEW t, NEW n \in Nat, n <= Len(s), Len(t) = n,
           \A i \in 1..n : t[i] = s[i],
           ResultsPlaced(s)
    PROVE  ResultsPlaced(t)
<1>1. SUFFICES ASSUME NEW i \in 1..n, t[i].role = "tool"
               PROVE  /\ i > t[i].of
                      /\ t[i - t[i].of].role = "assistant"
                      /\ t[i].of <= Len(t[i - t[i].of].calls)
  BY DEF ResultsPlaced
<1>2. t[i] = s[i] /\ s[i] \in Messages /\ i \in 1..Len(s)
  OBVIOUS
<1>3. s[i].of \in Nat /\ s[i].of > 0
  BY <1>1, <1>2, MessageRoles
<1>4. /\ i > s[i].of
      /\ s[i - s[i].of].role = "assistant"
      /\ s[i].of <= Len(s[i - s[i].of].calls)
  BY <1>1, <1>2 DEF ResultsPlaced
<1>5. i - s[i].of \in 1..n
  BY <1>3, <1>4
<1> QED
  BY <1>2, <1>4, <1>5

\* A message that is not a result misplaces none, and one that is not a
\* reply leaves no call open.
LEMMA PlainPushed ==
    ASSUME NEW s \in Seq(Messages), NEW m \in Messages, ResultsPlaced(s)
    PROVE  /\ m.role # "tool" => ResultsPlaced(Append(s, m))
           /\ (m.role # "assistant" /\ AnsweredUpTo(s, Len(s)))
                 => AnsweredUpTo(Append(s, m), Len(s) + 1)
<1> DEFINE t == Append(s, m)
<1>1. /\ t \in Seq(Messages) /\ Len(t) = Len(s) + 1 /\ Len(s) \in Nat
      /\ t[Len(s) + 1] = m
      /\ \A i \in 1..Len(s) : t[i] = s[i] /\ s[i] \in Messages
  BY Pushed
<1> HIDE DEF t
<1>2. ASSUME m.role # "tool"
      PROVE  ResultsPlaced(t)
  <2>1. SUFFICES ASSUME NEW i \in 1..Len(t), t[i].role = "tool"
                 PROVE  /\ i > t[i].of
                        /\ t[i - t[i].of].role = "assistant"
                        /\ t[i].of <= Len(t[i - t[i].of].calls)
    BY DEF ResultsPlaced
  <2>2. i \in 1..Len(s)
    BY <1>1, <1>2, <2>1
  <2>3. t[i] = s[i] /\ s[i] \in Messages
    BY <1>1, <2>2
  <2>4. s[i].of \in Nat /\ s[i].of > 0
    BY <2>1, <2>3, MessageRoles
  <2>5. /\ i > s[i].of
        /\ s[i - s[i].of].role = "assistant"
        /\ s[i].of <= Len(s[i - s[i].of].calls)
    BY <2>1, <2>2, <2>3 DEF ResultsPlaced
  <2>6. i - s[i].of \in 1..Len(s)
    BY <1>1, <2>2, <2>4, <2>5
  <2> QED
    BY <1>1, <2>3, <2>5, <2>6
<1>3. ASSUME AnsweredUpTo(s, Len(s)), m.role # "assistant"
      PROVE  AnsweredUpTo(t, Len(s) + 1)
  <2>1. AnsweredUpTo(t, Len(s))
    BY <1>1, <1>3, AnsweredAgree
  <2>2. SUFFICES ASSUME NEW i \in 1..(Len(s) + 1), t[i].role = "assistant",
                        NEW k \in 1..Len(t[i].calls)
                 PROVE  i + k <= Len(s) + 1 /\ t[i + k] = Result(k)
    BY DEF AnsweredUpTo
  <2>3. i \in 1..Len(s)
    BY <1>1, <1>3, <2>2
  <2>4. i + k <= Len(s) /\ t[i + k] = Result(k)
    BY <2>1, <2>2, <2>3 DEF AnsweredUpTo
  <2>5. k \in Nat
    <3>1. Len(t[i].calls) \in Nat
      BY <1>1, <2>2, <2>3, MessageRoles
    <3> QED
      BY <3>1
  <2> QED
    BY <1>1, <2>3, <2>4, <2>5
<1> QED
  BY <1>2, <1>3 DEF t
-----------------------------------------------------------------------------
(* Types, the limits and the batch of running tools.                        *)

\* The numbers of the calls of a reply.
LEMMA CallNumbers ==
    ASSUME TypeOK
    PROVE  /\ reply \in Seq(Tiers) /\ Len(reply) \in Nat /\ Len(reply) >= 0
           /\ \A i \in 1..Len(reply) : Result(i) \in Messages
           /\ answered \in Nat
<1>1. reply \in Seq(Tiers)
  <2>1. <<>> \in Seq(Tiers)
    OBVIOUS
  <2>2. reply \in Replies \cup {<<>>}
    BY DEF TypeOK
  <2> QED
    BY <2>1, <2>2, RepliesType
<1>2. Len(reply) \in Nat
  BY <1>1
<1>3. ASSUME NEW i \in 1..Len(reply)
      PROVE  Result(i) \in Messages
  <2>1. reply \in Replies /\ i \in DOMAIN reply
    BY <1>1, <1>2, <1>3 DEF TypeOK
  <2>2. i \in CallNrs
    BY <2>1 DEF CallNrs
  <2> QED
    BY <2>2 DEF Messages
<1>4. answered \in Nat
  BY <1>2 DEF TypeOK
<1> QED
  BY <1>1, <1>2, <1>3, <1>4

\* The run's own values after it has ended.
LEMMA IdleTypes ==
    ASSUME TypeOK, Idle, UNCHANGED <<store, sent, mode>>, history' \in Seq(Messages)
    PROVE  TypeOK'
<1>1. ctx' \in Seq(Messages)
  <2>1. <<>> \in Seq(Messages)
    OBVIOUS
  <2> QED
    BY <2>1 DEF Idle
<1>2. answered' \in 0..Len(reply')
  <2>1. 0 \in 0..Len(<<>>)
    OBVIOUS
  <2> QED
    BY <2>1 DEF Idle
<1>3. reply' \in Replies \cup {<<>>}
  BY DEF Idle
<1>4. running' \cup finished' \cup aborted' \subseteq 1..Len(reply')
  BY DEF Idle
<1>5. pre' \in Nat /\ turn' \in Nat /\ remaining' \in Nat
  BY DEF Idle
<1>6. cancelled' \in BOOLEAN
  BY DEF Idle
<1> QED
  BY <1>1, <1>2, <1>3, <1>4, <1>5, <1>6 DEF TypeOK, Idle, store

\* The roll-back is a part of the context.
LEMMA RollBackType ==
    ASSUME TypeOK, pc # "idle" => pre <= Len(ctx)
    PROVE  SubSeq(ctx, 1, pre) \in Seq(Messages) \/ pc = "idle"
BY DEF TypeOK

LEMMA FailTypes ==
    ASSUME TypeOK, pc # "idle", pre <= Len(ctx), Fail
    PROVE  TypeOK'
<1>1. SubSeq(ctx, 1, pre) \in Seq(Messages)
  BY RollBackType
<1> QED
  BY <1>1, IdleTypes DEF Fail

\* Every step keeps the types.
LEMMA TypeStep ==
    ASSUME TypeOK, [Next]_vars, pc # "idle" => pre <= Len(ctx), pc # "tools" => BatchDone
    PROVE  TypeOK'
<1> USE DEF store, batch
<1>0. CASE UNCHANGED vars
  BY <1>0 DEF TypeOK, vars
<1>1. CASE BeginTurn
  <2>1. sent + 1 \in 1..MaxUserTurns
    BY <1>1, BoundsType DEF TypeOK, BeginTurn
  <2>2. User(sent + 1) \in Messages /\ System \in Messages
    BY <2>1 DEF Messages
  <2>3. Append(history, User(sent + 1)) \in Seq(Messages)
    BY <2>2 DEF TypeOK
  <2>4. <<System>> \o Append(history, User(sent + 1)) \in Seq(Messages)
    BY <2>2, <2>3
  <2>5. ctx' \in Seq(Messages)
    BY <1>1, <2>3, <2>4 DEF BeginTurn
  <2>6. pre' \in Nat /\ remaining' \in Nat /\ sent' \in 0..MaxUserTurns
    BY <1>1, <2>1, BoundsType DEF TypeOK, BeginTurn
  <2> QED
    BY <1>1, <2>5, <2>6 DEF TypeOK, BeginTurn
<1>2. CASE Recall
  BY <1>2 DEF TypeOK, Recall
<1>3. CASE PersistTail
  <2>1. mem' \in Seq(Messages)
    <3>1. CASE Len(mem) < Len(ctx) /\ mem' = Append(mem, ctx[Len(mem) + 1])
      <4>1. Len(mem) + 1 \in 1..Len(ctx)
        BY <3>1 DEF TypeOK
      <4>2. ctx[Len(mem) + 1] \in Messages
        BY <4>1 DEF TypeOK
      <4> QED
        BY <3>1, <4>2 DEF TypeOK
    <3>2. CASE mem' = mem
      BY <3>2 DEF TypeOK
    <3> QED
      BY <1>3, <3>1, <3>2 DEF PersistTail
  <2> QED
    BY <1>3, <2>1 DEF TypeOK, PersistTail
<1>4. CASE Top
  <2>1. CASE Fail
    BY <1>4, <2>1, FailTypes DEF Top
  <2>2. CASE ~Fail
    BY <1>4, <2>2 DEF TypeOK, Top
  <2> QED
    BY <2>1, <2>2
<1>5. CASE Prepare
  <2>1. upper' \in Nat
    <3>1. Unsummarized \subseteq Nat
      BY DEF TypeOK, Unsummarized
    <3> QED
      BY <1>5, <3>1 DEF TypeOK, Prepare
  <2> QED
    BY <1>5, <2>1 DEF TypeOK, Prepare
<1>6. CASE \E calls \in Replies, cost \in Costs : Reply(calls, cost)
  <2>1. PICK calls \in Replies, cost \in Costs : Reply(calls, cost)
    BY <1>6
  <2>2. Assistant(calls) \in Messages
    BY DEF Messages
  <2>3. ctx' \in Seq(Messages) /\ mem' \in Seq(Messages)
    BY <2>1, <2>2 DEF TypeOK, Reply, Accept
  <2>4. remaining' \in Nat
    BY <2>1, BoundsType DEF TypeOK, Reply, Settle, Monus
  <2>5. calls \in Seq(Tiers)
    BY RepliesType
  <2>6. answered' \in 0..Len(reply')
    BY <2>1, <2>5 DEF Reply
  <2>7. running' \cup finished' \cup aborted' \subseteq 1..Len(reply')
    BY <2>1 DEF Reply, BatchDone
  <2> QED
    BY <2>1, <2>3, <2>4, <2>6, <2>7 DEF TypeOK, Reply
<1>7. CASE FailHere
  BY <1>7, FailTypes DEF FailHere
<1>8. CASE ToolsDone
  BY <1>8 DEF TypeOK, ToolsDone
<1>9. CASE StartBatch
  <2>1. ReadOnlyRun(NextCall) \subseteq 1..Len(reply)
    BY CallNumbers DEF ReadOnlyRun, NextCall
  <2> QED
    BY <1>9, <2>1 DEF TypeOK, StartBatch
<1>10. CASE StartAlone
  <2>1. CASE Fail
    BY <1>10, <2>1, FailTypes DEF StartAlone
  <2>2. CASE ~Fail
    <3>1. NextCall \in 1..Len(reply)
      BY <1>10, CallNumbers DEF StartAlone, NextCall
    <3> QED
      BY <1>10, <2>2, <3>1 DEF TypeOK, StartAlone
  <2> QED
    BY <2>1, <2>2
<1>11. CASE \E i \in 1..Len(reply) : FinishTool(i)
  BY <1>11 DEF TypeOK, FinishTool
<1>12. CASE PushResult
  <2>1. NextCall \in 1..Len(reply)
    BY <1>12 DEF TypeOK, PushResult
  <2>2. Result(NextCall) \in Messages
    BY <2>1, CallNumbers
  <2>3. ctx' \in Seq(Messages) /\ mem' \in Seq(Messages)
    BY <1>12, <2>2 DEF TypeOK, PushResult
  <2>4. answered' \in 0..Len(reply)
    BY <1>12, <2>1, CallNumbers DEF PushResult
  <2> QED
    BY <1>12, <2>3, <2>4 DEF TypeOK, PushResult
<1>13. CASE AbortBatch
  BY <1>13, FailTypes DEF AbortBatch
<1>14. CASE Finish
  BY <1>14, IdleTypes DEF Finish, TypeOK
<1>15. CASE Panic
  BY <1>15, IdleTypes DEF Panic, TypeOK
<1>16. CASE Cancel
  BY <1>16 DEF TypeOK, Cancel
<1>17. CASE DropSessionContext
  <2>1. <<>> \in Seq(Messages)
    OBVIOUS
  <2> QED
    BY <1>17, <2>1 DEF TypeOK, DropSessionContext
<1>18. CASE Crash
  <2>1. <<>> \in Seq(Messages)
    OBVIOUS
  <2> QED
    BY <1>18, <2>1, IdleTypes DEF Crash
<1> QED
  BY <1>0, <1>1, <1>2, <1>3, <1>4, <1>5, <1>6, <1>7, <1>8, <1>9, <1>10, <1>11, <1>12,
     <1>13, <1>14, <1>15, <1>16, <1>17, <1>18 DEF Next, RunStep

\* Tools with side effects run alone and in order, and the loop stops at its
\* limit.
BatchOK ==
    /\ SideEffectsInOrder /\ ProviderCallsBounded
    /\ pc # "tools" => BatchDone

LEMMA BatchStep ==
    ASSUME TypeOK, BatchOK, [Next]_vars
    PROVE  BatchOK'
<1> USE DEF store, batch
<1>0. CASE UNCHANGED vars
  BY <1>0 DEF BatchOK, SideEffectsInOrder, ProviderCallsBounded, Strict, BatchDone, vars
<1>e. ASSUME Idle
      PROVE  BatchOK'
  <2>1. turn' <= MaxTurns
    BY <1>e, BoundsType DEF Idle
  <2> QED
    BY <1>e, <2>1 DEF BatchOK, SideEffectsInOrder, ProviderCallsBounded, BatchDone, Idle
<1>a. ASSUME UNCHANGED <<reply, batch, answered, turn, mode>>,
             pc = "tools" => BatchDone \/ pc' = "tools"
      PROVE  BatchOK'
  BY <1>a DEF BatchOK, SideEffectsInOrder, ProviderCallsBounded, Strict, BatchDone
<1>1. CASE BeginTurn
  BY <1>a, <1>1 DEF BeginTurn
<1>2. CASE Recall
  BY <1>a, <1>2 DEF Recall
<1>3. CASE PersistTail
  BY <1>a, <1>3 DEF PersistTail
<1>4. CASE Top
  <2>1. CASE Fail
    BY <1>e, <2>1 DEF Fail
  <2>2. CASE ~Fail
    <3>1. Strict => turn' <= MaxTurns
      BY <1>4, <2>2, BoundsType DEF TypeOK, Top
    <3>2. pc = "top" /\ pc' = "prepare" /\ UNCHANGED <<reply, batch, answered, mode>>
      BY <1>4, <2>2 DEF Top
    <3> QED
      BY <3>1, <3>2 DEF BatchOK, SideEffectsInOrder, ProviderCallsBounded, Strict, BatchDone
  <2> QED
    BY <2>1, <2>2
<1>5. CASE Prepare
  BY <1>a, <1>5 DEF Prepare
<1>6. CASE \E calls \in Replies, cost \in Costs : Reply(calls, cost)
  <2>1. PICK calls \in Replies, cost \in Costs : Reply(calls, cost)
    BY <1>6
  <2> QED
    BY <2>1 DEF Reply, BatchOK, SideEffectsInOrder, ProviderCallsBounded, Strict, BatchDone
<1>7. CASE FailHere
  BY <1>e, <1>7 DEF FailHere, Fail
<1>8. CASE ToolsDone
  BY <1>a, <1>8 DEF ToolsDone
<1>9. CASE StartBatch
  <2>1. ASSUME NEW i \in ReadOnlyRun(NextCall)
        PROVE  reply[i] = "readOnly"
    BY CallNumbers DEF ReadOnlyRun, NextCall
  <2> QED
    BY <1>9, <2>1 DEF StartBatch, BatchOK, SideEffectsInOrder, ProviderCallsBounded,
                      Strict, BatchDone
<1>10. CASE StartAlone
  <2>1. CASE Fail
    BY <1>e, <2>1 DEF Fail
  <2>2. CASE ~Fail
    <3>1. answered = NextCall - 1
      BY CallNumbers DEF NextCall
    <3> QED
      BY <1>10, <2>2, <3>1 DEF StartAlone, BatchOK, SideEffectsInOrder,
                               ProviderCallsBounded, Strict, BatchDone
  <2> QED
    BY <2>1, <2>2
<1>11. CASE \E i \in 1..Len(reply) : FinishTool(i)
  <2>1. PICK i \in 1..Len(reply) : FinishTool(i)
    BY <1>11
  <2>2. pc' = "tools"
    BY <2>1 DEF FinishTool, BatchOK, BatchDone
  <2>3. SideEffectsInOrder'
    BY <2>1 DEF FinishTool, BatchOK, SideEffectsInOrder
  <2> QED
    BY <2>1, <2>2, <2>3 DEF FinishTool, BatchOK, ProviderCallsBounded, Strict
<1>12. CASE PushResult
  BY <1>12 DEF PushResult, BatchOK, SideEffectsInOrder, ProviderCallsBounded, Strict
<1>13. CASE AbortBatch
  BY <1>e, <1>13 DEF AbortBatch, Fail
<1>14. CASE Finish
  BY <1>e, <1>14 DEF Finish
<1>15. CASE Panic
  BY <1>e, <1>15 DEF Panic
<1>16. CASE Cancel
  BY <1>a, <1>16 DEF Cancel
<1>17. CASE DropSessionContext
  BY <1>a, <1>17 DEF DropSessionContext
<1>18. CASE Crash
  BY <1>e, <1>18 DEF Crash
<1> QED
  BY <1>0, <1>1, <1>2, <1>3, <1>4, <1>5, <1>6, <1>7, <1>8, <1>9, <1>10, <1>11, <1>12,
     <1>13, <1>14, <1>15, <1>16, <1>17, <1>18 DEF Next, RunStep
-----------------------------------------------------------------------------
(* The context of a run and the history it becomes.                         *)

\* The roll-back gives a history of before the turn.
LEMMA RolledBack ==
    ASSUME TypeOK, ContextOK
    PROVE  Past(SubSeq(ctx, 1, pre))
<1> DEFINE h == SubSeq(ctx, 1, pre)
<1>1. pre \in Nat /\ pre <= Len(ctx) /\ ctx \in Seq(Messages)
  BY DEF TypeOK, ContextOK, UserAt
<1>2. h \in Seq(Messages) /\ Len(h) = pre /\ \A i \in 1..pre : h[i] = ctx[i]
  BY <1>1
<1> HIDE DEF h
<1>3. h # <<>> => h[1] = System
  <2>1. h # <<>> => 1 \in 1..pre
    BY <1>1, <1>2
  <2> QED
    BY <1>2, <2>1 DEF ContextOK
<1>4. \A i \in 1..Len(h) : h[i].role = "user" => h[i].nr <= sent
  <2>1. \A i \in 1..pre : i \in 1..Len(ctx)
    BY <1>1
  <2> QED
    BY <1>2, <2>1 DEF ContextOK
<1>5. ResultsPlaced(h)
  BY <1>1, <1>2, PlacedAgree DEF ContextOK
<1>6. mode # "enforce" => AnsweredUpTo(h, Len(h))
  BY <1>1, <1>2, AnsweredAgree DEF ContextOK
<1>7. Past(h)
  BY <1>3, <1>4, <1>5, <1>6 DEF Past
<1> QED
  BY <1>7 DEF h

\* A context with every call answered is a history.
LEMMA FinishedPast ==
    ASSUME TypeOK, ContextOK, mode # "enforce" => AnsweredUpTo(ctx, Len(ctx))
    PROVE  Past(ctx)
BY DEF ContextOK, Past

LEMMA EmptyPast == Past(<<>>)
<1>1. Len(<<>>) = 0
  OBVIOUS
<1>2. \A i \in 1..Len(<<>>) : FALSE
  BY <1>1
<1> QED
  BY <1>2 DEF Past, ResultsPlaced, AnsweredUpTo

\* The system prompt is inserted into an empty history only.
LEMMA BeginStep ==
    ASSUME TypeOK, Past(history), BeginTurn
    PROVE  ContextOK' /\ PhaseOK' /\ Past(history)'
<1> DEFINE m == User(sent + 1)
           asked == Append(history, m)
<1>0. Len(history) \in Nat /\ sent \in Nat /\ sent' = sent + 1 /\ history' = history
      /\ mode' = mode /\ pre' = Len(history) /\ pc' = "recall" /\ history \in Seq(Messages)
  BY DEF BeginTurn, TypeOK
<1>1. m \in Messages /\ m.role = "user" /\ m.nr = sent + 1
  BY BoundsType DEF TypeOK, BeginTurn, Messages, User
<1>2. /\ asked \in Seq(Messages) /\ Len(asked) = Len(history) + 1
      /\ asked[Len(history) + 1] = m
      /\ \A i \in 1..Len(history) : asked[i] = history[i] /\ history[i] \in Messages
  BY <1>0, <1>1, Pushed
<1>3. ctx' = IF HasSystem(asked) THEN asked ELSE <<System>> \o asked
  BY DEF BeginTurn
<1>p. Past(history)'
  <2>1. \A i \in 1..Len(history) : history[i].role = "user" => history[i].nr <= sent + 1
    <3>1. SUFFICES ASSUME NEW i \in 1..Len(history), history[i].role = "user"
                   PROVE  history[i].nr <= sent + 1
      OBVIOUS
    <3>2. history[i].nr <= sent
      BY <3>1 DEF Past
    <3>3. history[i].nr \in Nat
      BY <1>2, <3>1, MessageRoles
    <3> QED
      BY <1>0, <3>2, <3>3
  <2> QED
    BY <1>0, <2>1 DEF Past
<1>4. CASE history = <<>>
  <2>1. Len(history) = 0
    BY <1>4
  <2>2. asked = <<m>>
    BY <1>4
  <2>3. ~HasSystem(asked)
    <3>1. DOMAIN asked = {1}
      BY <2>2
    <3>2. asked[1].role = "user"
      BY <2>2, <1>1
    <3> QED
      BY <3>1, <3>2 DEF HasSystem
  <2>4. ctx' = <<System>> \o <<m>>
    BY <1>3, <2>2, <2>3
  <2>5. Len(ctx') = 2 /\ ctx'[1] = System /\ ctx'[2] = m
    BY <2>4
  <2>6. UserAt' = 2 /\ pre' = 0
    BY <1>0, <2>1 DEF UserAt
  <2>7. System.role = "system"
    BY DEF System
  <2>8. \A i \in 1..Len(ctx') : ctx'[i].role \notin {"tool", "assistant"}
    BY <1>1, <2>5, <2>7
  <2>9. \A i \in 1..Len(ctx') : ctx'[i].role = "user" => i <= UserAt' /\ ctx'[i].nr <= sent'
    BY <1>0, <1>1, <2>5, <2>6, <2>7
  <2>10. ContextOK'
    <3>1. ResultsPlaced(ctx')
      BY <2>8 DEF ResultsPlaced
    <3>2. AnsweredUpTo(ctx', pre') /\ \A i \in 1..pre' : ctx'[i] # User(sent')
      BY <2>6 DEF AnsweredUpTo
    <3>3. UserAt' <= Len(ctx') /\ ctx'[1] = System /\ ctx'[UserAt'] = User(sent')
      BY <1>0, <2>5, <2>6
    <3> QED
      BY <1>0, <1>4, <2>9, <3>1, <3>2, <3>3 DEF ContextOK
  <2>11. PhaseOK'
    <3>1. AnsweredUpTo(ctx', Len(ctx'))
      BY <2>8 DEF AnsweredUpTo
    <3>2. TailStored'
      <4>1. Len(mem') \in Nat
        BY DEF TypeOK, BeginTurn, store
      <4> QED
        BY <2>5, <2>6, <4>1 DEF TailStored
    <3> QED
      BY <1>0, <2>5, <2>6, <3>1, <3>2 DEF PhaseOK
  <2> QED
    BY <1>p, <2>10, <2>11
<1>5. CASE history # <<>>
  <2>1. Len(history) > 0 /\ history[1] = System
    BY <1>0, <1>5 DEF Past
  <2>2. HasSystem(asked)
    <3>1. 1 \in DOMAIN asked /\ asked[1] = System
      BY <1>0, <1>2, <2>1
    <3> QED
      BY <3>1 DEF HasSystem, System
  <2>3. ctx' = asked
    BY <1>3, <2>2
  <2>4. UserAt' = Len(history) + 1 /\ Len(ctx') = UserAt'
    BY <1>0, <1>2, <2>1, <2>3 DEF UserAt
  <2>5. ResultsPlaced(ctx')
    BY <1>0, <1>1, <2>3, PlainPushed DEF Past
  <2>6. mode # "enforce" => AnsweredUpTo(ctx', Len(ctx'))
    BY <1>0, <1>1, <1>2, <2>3, PlainPushed DEF Past
  <2>7. mode # "enforce" => AnsweredUpTo(ctx', pre')
    <3>1. mode # "enforce" => AnsweredUpTo(history, Len(history))
      BY DEF Past
    <3>2. \A i \in 1..Len(history) : ctx'[i] = history[i]
      BY <1>2, <2>3
    <3>3. mode # "enforce" => AnsweredUpTo(ctx', Len(history))
      BY <1>0, <3>1, <3>2, AnsweredAgree
    <3> QED
      BY <1>0, <3>3
  <2>8. ASSUME NEW i \in 1..Len(ctx'), ctx'[i].role = "user"
        PROVE  i <= UserAt' /\ ctx'[i].nr <= sent'
    <3>1. CASE i = Len(history) + 1
      BY <1>0, <1>1, <1>2, <2>3, <2>4, <3>1
    <3>2. CASE i # Len(history) + 1
      <4>1. i \in 1..Len(history)
        BY <1>0, <2>4, <3>2
      <4>2. ctx'[i] = history[i]
        BY <1>2, <2>3, <4>1
      <4> QED
        BY <1>p, <1>0, <2>4, <2>8, <4>1, <4>2 DEF Past
    <3> QED
      BY <3>1, <3>2
  <2>9. ASSUME NEW i \in 1..pre'
        PROVE  ctx'[i] # User(sent')
    <3>1. i \in 1..Len(history)
      BY <1>0
    <3>2. ctx'[i] = history[i]
      BY <1>2, <2>3, <3>1
    <3>3. history[i].role = "user" => history[i].nr <= sent
      BY <3>1 DEF Past
    <3> QED
      BY <1>0, <1>1, <3>2, <3>3
  <2>10. history = SubSeq(ctx', 1, pre')
    <3> DEFINE p == SubSeq(ctx', 1, pre')
    <3>1. p \in Seq(Messages) /\ Len(p) = Len(history) /\ \A i \in 1..Len(history) : p[i] = ctx'[i]
      BY <1>0, <1>2, <2>3
    <3>2. \A i \in 1..Len(history) : p[i] = history[i]
      BY <1>2, <2>3, <3>1
    <3> HIDE DEF p
    <3>3. p = history
      BY <1>0, <3>1, <3>2, SeqEqual
    <3> QED
      BY <3>3 DEF p
  <2>11. ctx'[1] = System
    BY <1>0, <1>2, <2>1, <2>3
  <2>12. ctx'[UserAt'] = User(sent')
    BY <1>0, <1>2, <2>3, <2>4
  <2>13. UserAt' <= Len(ctx')
    BY <1>0, <2>4
  <2>14. ContextOK'
    BY <1>0, <2>5, <2>7, <2>8, <2>9, <2>10, <2>11, <2>12, <2>13 DEF ContextOK
  <2>15. PhaseOK'
    <3>1. TailStored'
      <4>1. Len(mem') \in Nat
        BY DEF TypeOK, BeginTurn, store
      <4> QED
        BY <1>0, <2>4, <4>1 DEF TailStored
    <3> QED
      BY <1>0, <2>4, <2>6, <3>1 DEF PhaseOK
  <2> QED
    BY <1>p, <2>14, <2>15
<1> QED
  BY <1>4, <1>5
\* What the run generates is pushed onto the context and onto the memory.
LEMMA Generated ==
    ASSUME TypeOK, ContextOK, TailStored,
           NEW m \in Messages, m.role # "user",
           ctx' = Append(ctx, m), mem' = Append(mem, m),
           UNCHANGED <<pre, sent, mode, history>>,
           ResultsPlaced(ctx')
    PROVE  ContextOK' /\ TailStored'
<1>1. /\ ctx' \in Seq(Messages) /\ Len(ctx') = Len(ctx) + 1 /\ Len(ctx) \in Nat
      /\ ctx'[Len(ctx) + 1] = m
      /\ \A i \in 1..Len(ctx) : ctx'[i] = ctx[i] /\ ctx[i] \in Messages
  BY Pushed DEF TypeOK
<1>2. /\ Len(mem') = Len(mem) + 1 /\ Len(mem) \in Nat
      /\ mem'[Len(mem) + 1] = m
      /\ \A i \in 1..Len(mem) : mem'[i] = mem[i]
  BY Pushed DEF TypeOK
<1>3. /\ pre \in Nat /\ UserAt \in Nat /\ UserAt > 1 /\ UserAt > pre
      /\ UserAt <= Len(ctx) /\ UserAt' = UserAt
  BY DEF TypeOK, ContextOK, UserAt
<1>4. ContextOK'
  <2>1. ctx'[1] = System /\ ctx'[UserAt] = User(sent)
    BY <1>1, <1>3 DEF ContextOK
  <2>2. ASSUME NEW i \in 1..Len(ctx'), ctx'[i].role = "user"
        PROVE  i <= UserAt /\ ctx'[i].nr <= sent
    <3>1. i \in 1..Len(ctx)
      BY <1>1, <2>2
    <3> QED
      BY <1>1, <2>2, <3>1 DEF ContextOK
  <2>3. \A i \in 1..pre : ctx'[i] = ctx[i]
    BY <1>1, <1>3
  <2>4. \A i \in 1..pre : ctx'[i] # User(sent)
    BY <2>3 DEF ContextOK
  <2>5. SubSeq(ctx', 1, pre) = SubSeq(ctx, 1, pre)
    <3> DEFINE p == SubSeq(ctx, 1, pre)
               q == SubSeq(ctx', 1, pre)
    <3>1. p \in Seq(Messages) /\ Len(p) = pre /\ \A i \in 1..pre : p[i] = ctx[i]
      BY <1>3 DEF TypeOK
    <3>2. q \in Seq(Messages) /\ Len(q) = pre /\ \A i \in 1..pre : q[i] = ctx'[i]
      BY <1>1, <1>3
    <3>3. \A i \in 1..pre : p[i] = q[i]
      BY <2>3, <3>1, <3>2
    <3> HIDE DEF p, q
    <3>4. p = q
      BY <3>1, <3>2, <3>3, SeqEqual
    <3> QED
      BY <3>4 DEF p, q
  <2>6. mode # "enforce" => AnsweredUpTo(ctx', pre)
    <3>1. pre <= Len(ctx) /\ ctx \in Seq(Messages)
      BY <1>3 DEF TypeOK
    <3>2. mode # "enforce" => AnsweredUpTo(ctx, pre)
      BY DEF ContextOK
    <3> QED
      BY <1>3, <2>3, <3>1, <3>2, AnsweredAgree
  <2>7. UserAt <= Len(ctx')
    BY <1>1, <1>3
  <2>8. history = <<>> \/ history = SubSeq(ctx', 1, pre)
    BY <2>5 DEF ContextOK
  <2> QED
    BY <1>3, <2>1, <2>2, <2>4, <2>6, <2>7, <2>8 DEF ContextOK
<1>5. TailStored'
  <2> DEFINE made == Len(ctx) - UserAt
  <2>1. /\ made \in Nat /\ made <= Len(mem)
        /\ \A k \in 1..made : mem[Len(mem) - made + k] = ctx[UserAt + k]
    BY <1>1, <1>3 DEF TailStored
  <2>2. Len(ctx') - UserAt' = made + 1
    BY <1>1, <1>3
  <2>3. made + 1 <= Len(mem')
    BY <1>2, <2>1
  <2>4. ASSUME NEW k \in 1..(made + 1)
        PROVE  mem'[Len(mem') - (made + 1) + k] = ctx'[UserAt + k]
    <3>1. CASE k = made + 1
      <4>1. Len(mem') - (made + 1) + k = Len(mem) + 1 /\ UserAt + k = Len(ctx) + 1
        BY <1>1, <1>2, <1>3, <2>1, <3>1
      <4> QED
        BY <1>1, <1>2, <4>1
    <3>2. CASE k # made + 1
      <4>1. k \in 1..made
        BY <2>1, <3>2
      <4>2. /\ Len(mem') - (made + 1) + k = Len(mem) - made + k
            /\ Len(mem) - made + k \in 1..Len(mem)
            /\ UserAt + k \in 1..Len(ctx)
        BY <1>1, <1>2, <1>3, <2>1, <4>1
      <4>3. mem[Len(mem) - made + k] = ctx[UserAt + k]
        BY <2>1, <4>1
      <4> HIDE DEF made
      <4> QED
        BY <1>1, <1>2, <4>2, <4>3
    <3> QED
      BY <3>1, <3>2
  <2> HIDE DEF made
  <2> QED
    BY <1>3, <2>2, <2>3, <2>4 DEF TailStored
<1> QED
  BY <1>4, <1>5

\* A reply without tool calls leaves nothing open; one with calls is the
\* open reply, unless the budget it exhausts ends the run.
LEMMA ReplyStep ==
    ASSUME TypeOK, ContextOK, PhaseOK,
           NEW calls \in Replies, NEW cost \in Costs, Reply(calls, cost)
    PROVE  ContextOK' /\ PhaseOK'
<1> DEFINE m == Assistant(calls)
<1>1. m \in Messages /\ m.role = "assistant" /\ m.calls = calls
  BY DEF Messages, Assistant
<1>2. /\ ctx' = Append(ctx, m) /\ mem' = Append(mem, m) /\ reply' = calls /\ answered' = 0
      /\ UNCHANGED <<pre, sent, mode, history>> /\ pc = "provider"
      /\ pc' \in {"finish", "tools"}
      /\ (pc' = "finish" /\ mode # "enforce") => calls = <<>>
  BY DEF Reply, Accept
<1> HIDE DEF m
<1>3. /\ ctx' \in Seq(Messages) /\ Len(ctx') = Len(ctx) + 1 /\ Len(ctx) \in Nat
      /\ ctx'[Len(ctx) + 1] = m
      /\ \A i \in 1..Len(ctx) : ctx'[i] = ctx[i] /\ ctx[i] \in Messages
  BY <1>1, <1>2, Pushed DEF TypeOK
<1>4. ResultsPlaced(ctx')
  BY <1>1, <1>2, PlainPushed DEF TypeOK, ContextOK
<1>5. ContextOK' /\ TailStored'
  BY <1>1, <1>2, <1>4, Generated DEF PhaseOK
<1>6. mode # "enforce" => AnsweredUpTo(ctx', Len(ctx))
  <2>1. mode # "enforce" => AnsweredUpTo(ctx, Len(ctx))
    BY <1>2 DEF PhaseOK
  <2>2. ctx \in Seq(Messages)
    BY DEF TypeOK
  <2> QED
    BY <1>3, <2>1, <2>2, AnsweredAgree
<1>7. pc' = "tools" => ReplyOpen'
  <2>1. Len(ctx') - answered' = Len(ctx) + 1 /\ Len(ctx) + 1 - 1 = Len(ctx)
    BY <1>2, <1>3
  <2>2. Len(ctx) + 1 > UserAt'
    BY <1>2, <1>3 DEF ContextOK, UserAt, TypeOK
  <2>3. ctx'[Len(ctx) + 1] = Assistant(reply')
    BY <1>2, <1>3 DEF m
  <2>4. \A k \in 1..answered' : FALSE
    BY <1>2
  <2> QED
    BY <1>2, <1>6, <2>1, <2>2, <2>3, <2>4 DEF ReplyOpen
<1>8. (pc' # "tools" /\ mode' # "enforce") => AnsweredUpTo(ctx', Len(ctx'))
  <2>1. SUFFICES ASSUME calls = <<>>, AnsweredUpTo(ctx', Len(ctx)),
                        NEW i \in 1..(Len(ctx) + 1), ctx'[i].role = "assistant",
                        NEW k \in 1..Len(ctx'[i].calls)
                 PROVE  i + k <= Len(ctx) + 1 /\ ctx'[i + k] = Result(k)
    BY <1>2, <1>3, <1>6 DEF AnsweredUpTo
  <2>2. CASE i = Len(ctx) + 1
    <3>1. ctx'[i].calls = <<>>
      BY <1>1, <1>3, <2>1, <2>2
    <3>2. Len(ctx'[i].calls) = 0
      BY <3>1
    <3> QED
      BY <3>2
  <2>3. CASE i # Len(ctx) + 1
    <3>1. i \in 1..Len(ctx)
      BY <1>3, <2>3
    <3>2. i + k <= Len(ctx) /\ ctx'[i + k] = Result(k)
      BY <2>1, <3>1 DEF AnsweredUpTo
    <3>3. Len(ctx'[i].calls) \in Nat
      BY <1>3, <2>1, <3>1, MessageRoles
    <3> QED
      BY <1>3, <3>1, <3>2, <3>3
  <2> QED
    BY <2>2, <2>3
<1> QED
  BY <1>2, <1>5, <1>7, <1>8 DEF PhaseOK

\* The next result is pushed right behind the others.
LEMMA ResultStep ==
    ASSUME TypeOK, ContextOK, PhaseOK, PushResult
    PROVE  ContextOK' /\ PhaseOK'
<1> DEFINE n == answered + 1
           at == Len(ctx) - answered
           m == Result(n)
<1>1. /\ ctx' = Append(ctx, m) /\ mem' = Append(mem, m) /\ answered' = n
      /\ UNCHANGED <<pre, sent, mode, history, reply, pc>> /\ pc = "tools"
  BY DEF PushResult, NextCall
<1>2. n \in 1..Len(reply) /\ Len(reply) \in Nat /\ answered \in Nat /\ m \in Messages
  BY CallNumbers DEF TypeOK, PushResult, NextCall
<1>3. m.role = "tool" /\ m.of = n
  BY DEF Result
<1> HIDE DEF m
<1>4. /\ ctx' \in Seq(Messages) /\ Len(ctx') = Len(ctx) + 1 /\ Len(ctx) \in Nat
      /\ ctx'[Len(ctx) + 1] = m
      /\ \A i \in 1..Len(ctx) : ctx'[i] = ctx[i] /\ ctx[i] \in Messages
  BY <1>1, <1>2, Pushed DEF TypeOK
<1>5. /\ at > UserAt /\ ctx[at] = Assistant(reply)
      /\ \A k \in 1..answered : ctx[at + k] = Result(k)
      /\ mode # "enforce" => AnsweredUpTo(ctx, at - 1)
  BY <1>1 DEF PhaseOK, ReplyOpen
<1>6. UserAt \in Nat /\ UserAt > 1 /\ UserAt' = UserAt
  BY <1>1 DEF TypeOK, UserAt
<1>7. at \in 1..Len(ctx) /\ at + answered = Len(ctx)
  BY <1>2, <1>4, <1>5, <1>6
<1>8. ctx'[at] = Assistant(reply)
  BY <1>4, <1>5, <1>7
<1>9. ResultsPlaced(ctx')
  <2>1. SUFFICES ASSUME NEW i \in 1..Len(ctx'), ctx'[i].role = "tool"
                 PROVE  /\ i > ctx'[i].of
                        /\ ctx'[i - ctx'[i].of].role = "assistant"
                        /\ ctx'[i].of <= Len(ctx'[i - ctx'[i].of].calls)
    BY DEF ResultsPlaced
  <2>2. CASE i = Len(ctx) + 1
    <3>1. ctx'[i].of = n
      BY <1>3, <1>4, <2>2
    <3>2. i - n = at /\ i > n
      BY <1>2, <1>4, <1>7, <2>2
    <3>3. ctx'[at].role = "assistant" /\ ctx'[at].calls = reply
      BY <1>8 DEF Assistant
    <3> HIDE DEF n, at
    <3> QED
      BY <1>2, <3>1, <3>2, <3>3
  <2>3. CASE i # Len(ctx) + 1
    <3>1. i \in 1..Len(ctx)
      BY <1>4, <2>3
    <3>2. ctx'[i] = ctx[i] /\ ctx[i] \in Messages
      BY <1>4, <3>1
    <3>3. ctx[i].of \in Nat /\ ctx[i].of > 0
      BY <2>1, <3>2, MessageRoles
    <3>4. /\ i > ctx[i].of
          /\ ctx[i - ctx[i].of].role = "assistant"
          /\ ctx[i].of <= Len(ctx[i - ctx[i].of].calls)
      BY <2>1, <3>1, <3>2 DEF ContextOK, ResultsPlaced
    <3>5. i - ctx[i].of \in 1..Len(ctx)
      BY <1>4, <3>1, <3>3, <3>4
    <3> QED
      BY <1>4, <3>2, <3>4, <3>5
  <2> QED
    BY <2>2, <2>3
<1>10. ContextOK' /\ TailStored'
  BY <1>1, <1>2, <1>3, <1>9, Generated DEF PhaseOK
<1>11. ReplyOpen'
  <2>1. Len(ctx') - answered' = at
    BY <1>1, <1>2, <1>4
  <2>2. ASSUME NEW k \in 1..answered'
        PROVE  ctx'[at + k] = Result(k)
    <3>1. CASE k = n
      <4>1. at + k = Len(ctx) + 1
        BY <1>2, <1>7, <3>1
      <4> HIDE DEF n, at
      <4> QED
        BY <1>4, <3>1, <4>1 DEF m
    <3>2. CASE k # n
      <4>1. k \in 1..answered
        BY <1>1, <1>2, <3>2
      <4>2. at + k \in 1..Len(ctx)
        BY <1>2, <1>4, <1>7, <4>1
      <4> HIDE DEF n, at
      <4> QED
        BY <1>4, <1>5, <4>1, <4>2
    <3> QED
      BY <3>1, <3>2
  <2>3. mode # "enforce" => AnsweredUpTo(ctx', at - 1)
    <3>1. at - 1 \in Nat /\ at - 1 <= Len(ctx) /\ ctx \in Seq(Messages)
      BY <1>7, <1>4 DEF TypeOK
    <3>2. \A i \in 1..(at - 1) : ctx'[i] = ctx[i]
      <4>1. \A i \in 1..(at - 1) : i \in 1..Len(ctx)
        BY <3>1, <1>4
      <4> HIDE DEF at
      <4> QED
        BY <1>4, <4>1
    <3> HIDE DEF at
    <3> QED
      BY <1>5, <3>1, <3>2, AnsweredAgree
  <2> HIDE DEF at, n
  <2> QED
    BY <1>1, <1>5, <1>6, <1>8, <2>1, <2>2, <2>3 DEF ReplyOpen
<1> QED
  BY <1>1, <1>10, <1>11 DEF PhaseOK
\* When the last result is pushed, no call is open.
LEMMA DoneStep ==
    ASSUME TypeOK, ContextOK, PhaseOK, pc = "tools", answered >= Len(reply),
           mode # "enforce"
    PROVE  AnsweredUpTo(ctx, Len(ctx))
<1> DEFINE at == Len(ctx) - answered
<1>1. /\ Len(reply) \in Nat /\ answered \in Nat /\ answered = Len(reply)
      /\ Len(ctx) \in Nat /\ UserAt \in Nat /\ ctx \in Seq(Messages)
  BY CallNumbers DEF TypeOK, UserAt
<1>2. /\ at > UserAt /\ ctx[at] = Assistant(reply)
      /\ \A k \in 1..answered : ctx[at + k] = Result(k)
      /\ AnsweredUpTo(ctx, at - 1)
  BY DEF PhaseOK, ReplyOpen
<1>3. SUFFICES ASSUME NEW i \in 1..Len(ctx), ctx[i].role = "assistant",
                      NEW k \in 1..Len(ctx[i].calls)
               PROVE  i + k <= Len(ctx) /\ ctx[i + k] = Result(k)
  BY DEF AnsweredUpTo
<1>4. CASE i < at
  <2>1. i \in 1..(at - 1)
    BY <1>1, <1>2, <1>4
  <2>2. i + k <= at - 1 /\ ctx[i + k] = Result(k)
    BY <1>2, <1>3, <2>1 DEF AnsweredUpTo
  <2>3. Len(ctx[i].calls) \in Nat
    BY <1>1, <1>3, MessageRoles
  <2> QED
    BY <1>1, <1>2, <2>1, <2>2, <2>3
<1>5. CASE i = at
  <2>1. ctx[i].calls = reply
    BY <1>2, <1>5 DEF Assistant
  <2>2. k \in 1..answered
    BY <1>1, <2>1
  <2>3. i + k <= Len(ctx)
    BY <1>1, <1>5, <2>2
  <2> HIDE DEF at
  <2> QED
    BY <1>2, <1>5, <2>2, <2>3
<1>6. CASE i > at
  <2> DEFINE j == i - at
  <2>1. j \in 1..answered /\ at + j = i
    BY <1>1, <1>2, <1>6
  <2> HIDE DEF at, j
  <2>2. ctx[i] = Result(j)
    BY <1>2, <2>1
  <2> QED
    BY <1>3, <2>2 DEF Result
<1> QED
  BY <1>1, <1>2, <1>4, <1>5, <1>6

\* Steps that leave the context alone.
LEMMA QuietContext ==
    ASSUME ContextOK, UNCHANGED <<ctx, pre, sent, mode>>, history' \in {history, <<>>}
    PROVE  ContextOK'
BY DEF ContextOK, UserAt

LEMMA QuietPhase ==
    ASSUME PhaseOK, UNCHANGED <<ctx, pre, mem, mode, reply, answered>>,
           pc' \in {"recall", "tail"} => pc \in {"recall", "tail"},
           pc' = "tools" => pc = "tools",
           pc = "tools" => pc' = "tools" \/ mode = "enforce" \/ AnsweredUpTo(ctx, Len(ctx))
    PROVE  PhaseOK'
<1>1. TailStored'
  BY DEF PhaseOK, TailStored, UserAt
<1>2. pc' = "tools" => ReplyOpen'
  BY DEF PhaseOK, ReplyOpen, UserAt
<1> QED
  BY <1>1, <1>2 DEF PhaseOK, UserAt

-----------------------------------------------------------------------------
(* The invariant.                                                           *)

\* What a step needs to know of the context, and leaves of it.
RunInv == Past(history) /\ (pc # "idle" => ContextOK /\ PhaseOK)

\* A run that ends leaves a history of its session.
LEMMA EndStep ==
    ASSUME Idle, UNCHANGED <<sent, mode>>, Past(history')
    PROVE  RunInv'
BY DEF Idle, RunInv, Past

LEMMA FailStep ==
    ASSUME TypeOK, RunInv, pc # "idle", Fail
    PROVE  RunInv'
<1>1. Past(SubSeq(ctx, 1, pre))
  BY RolledBack DEF RunInv
<1> QED
  BY <1>1, EndStep DEF Fail

\* A quiet step of the run.
LEMMA QuietStep ==
    ASSUME RunInv, pc # "idle",
           UNCHANGED <<history, mem, sent, mode, ctx, pre, reply, answered>>,
           pc' \in {"recall", "tail"} => pc \in {"recall", "tail"},
           pc' = "tools" => pc = "tools",
           pc = "tools" => pc' = "tools" \/ mode = "enforce" \/ AnsweredUpTo(ctx, Len(ctx))
    PROVE  RunInv'
<1>1. ContextOK' /\ PhaseOK'
  BY QuietContext, QuietPhase DEF RunInv
<1>2. Past(history)'
  BY DEF RunInv, Past
<1> QED
  BY <1>1, <1>2 DEF RunInv

LEMMA RunInvStep ==
    ASSUME TypeOK, BatchOK, RunInv, [Next]_vars
    PROVE  RunInv'
<1> USE DEF store, batch
<1>0. CASE UNCHANGED vars
  BY <1>0 DEF vars, RunInv, Past, ContextOK, PhaseOK, ReplyOpen, TailStored, UserAt
<1>1. CASE BeginTurn
  BY <1>1, BeginStep DEF RunInv
<1>2. CASE Recall
  BY <1>2, QuietStep DEF Recall
<1>3. CASE PersistTail
  <2>1. CASE pc' = "top" /\ UNCHANGED mem
    BY <1>3, <2>1, QuietStep DEF PersistTail
  <2>2. CASE pc' = pc /\ Len(mem) < Len(ctx) /\ mem' = Append(mem, ctx[Len(mem) + 1])
    <3>1. /\ pc = "tail" /\ ContextOK /\ PhaseOK
          /\ UNCHANGED <<history, ctx, pre, sent, mode, reply, answered>>
      BY <1>3 DEF PersistTail, RunInv
    <3>2. Len(ctx) = UserAt /\ UserAt' = UserAt /\ UserAt \in Nat
      BY <3>1 DEF PhaseOK, UserAt, TypeOK
    <3>3. TailStored'
      <4>1. mem' \in Seq(Messages)
        <5>1. Len(mem) + 1 \in 1..Len(ctx)
          BY <2>2 DEF TypeOK
        <5>2. ctx[Len(mem) + 1] \in Messages
          BY <5>1 DEF TypeOK
        <5> QED
          BY <2>2, <5>2 DEF TypeOK
      <4>2. Len(mem') \in Nat
        BY <4>1
      <4> QED
        BY <3>1, <3>2, <4>2 DEF TailStored
    <3>4. ContextOK'
      BY <3>1, QuietContext
    <3>5. PhaseOK'
      BY <2>2, <3>1, <3>2, <3>3 DEF PhaseOK
    <3> QED
      BY <3>1, <3>4, <3>5 DEF RunInv, Past
  <2> QED
    BY <1>3, <2>1, <2>2 DEF PersistTail
<1>4. CASE Top
  <2>1. CASE Fail
    BY <1>4, <2>1, FailStep DEF Top
  <2>2. CASE ~Fail
    BY <1>4, <2>2, QuietStep DEF Top
  <2> QED
    BY <2>1, <2>2
<1>5. CASE Prepare
  BY <1>5, QuietStep DEF Prepare
<1>6. CASE \E calls \in Replies, cost \in Costs : Reply(calls, cost)
  <2>1. PICK calls \in Replies, cost \in Costs : Reply(calls, cost)
    BY <1>6
  <2>2. ContextOK' /\ PhaseOK'
    BY <2>1, ReplyStep DEF RunInv, Reply
  <2>3. Past(history)'
    BY <2>1 DEF RunInv, Past, Reply
  <2> QED
    BY <2>2, <2>3 DEF RunInv
<1>7. CASE FailHere
  BY <1>7, FailStep DEF FailHere
<1>8. CASE ToolsDone
  <2>1. answered >= Len(reply)
    BY <1>8, CallNumbers DEF ToolsDone, NextCall
  <2>2. mode = "enforce" \/ AnsweredUpTo(ctx, Len(ctx))
    BY <1>8, <2>1, DoneStep DEF ToolsDone, RunInv
  <2> QED
    BY <1>8, <2>2, QuietStep DEF ToolsDone
<1>9. CASE StartBatch
  BY <1>9, QuietStep DEF StartBatch
<1>10. CASE StartAlone
  <2>1. CASE Fail
    BY <1>10, <2>1, FailStep DEF StartAlone
  <2>2. CASE ~Fail
    BY <1>10, <2>2, QuietStep DEF StartAlone
  <2> QED
    BY <2>1, <2>2
<1>11. CASE \E i \in 1..Len(reply) : FinishTool(i)
  <2>1. PICK i \in 1..Len(reply) : FinishTool(i)
    BY <1>11
  <2>2. pc = "tools"
    BY <2>1 DEF FinishTool, BatchOK, BatchDone
  <2> QED
    BY <2>1, <2>2, QuietStep DEF FinishTool
<1>12. CASE PushResult
  <2>1. ContextOK' /\ PhaseOK'
    BY <1>12, ResultStep DEF RunInv, PushResult
  <2>2. Past(history)'
    BY <1>12 DEF RunInv, Past, PushResult
  <2> QED
    BY <2>1, <2>2 DEF RunInv
<1>13. CASE AbortBatch
  BY <1>13, FailStep DEF AbortBatch
<1>14. CASE Finish
  <2>1. Past(ctx)
    BY <1>14, FinishedPast DEF Finish, RunInv, PhaseOK
  <2> QED
    BY <1>14, <2>1, EndStep DEF Finish
<1>15. CASE Panic
  BY <1>15, EndStep DEF Panic, RunInv
<1>16. CASE Cancel
  BY <1>16, QuietStep DEF Cancel
<1>17. CASE DropSessionContext
  <2>1. Past(history)'
    BY <1>17, EmptyPast DEF DropSessionContext, Past
  <2>2. CASE pc = "idle"
    BY <1>17, <2>1, <2>2 DEF DropSessionContext, RunInv
  <2>3. CASE pc # "idle"
    BY <1>17, <2>1, <2>3, QuietContext, QuietPhase DEF DropSessionContext, RunInv
  <2> QED
    BY <2>2, <2>3
<1>18. CASE Crash
  BY <1>18, EmptyPast, EndStep DEF Crash
<1> QED
  BY <1>0, <1>1, <1>2, <1>3, <1>4, <1>5, <1>6, <1>7, <1>8, <1>9, <1>10, <1>11, <1>12,
     <1>13, <1>14, <1>15, <1>16, <1>17, <1>18 DEF Next, RunStep

\* LoopInv is an invariant of the turn loop.
THEOREM LoopInvariant == Spec => []LoopInv
<1>1. Init => LoopInv
  <2> SUFFICES ASSUME Init PROVE LoopInv
    OBVIOUS
  <2>1. TypeOK
    <3>1. <<>> \in Seq(Messages) /\ 0 \in 0..Len(<<>>)
      OBVIOUS
    <3>2. history \in Seq(Messages) /\ mem \in Seq(Messages) /\ ctx \in Seq(Messages)
      BY <3>1 DEF Init
    <3>3. answered \in 0..Len(reply)
      BY <3>1 DEF Init
    <3>4. running \cup finished \cup aborted \subseteq 1..Len(reply)
      BY DEF Init
    <3>5. upper \in Nat /\ pre \in Nat /\ turn \in Nat /\ remaining \in Nat
          /\ sent \in 0..MaxUserTurns
      BY BoundsType DEF Init
    <3>6. reply \in Replies \cup {<<>>} /\ cancelled \in BOOLEAN
      BY DEF Init
    <3> QED
      BY <3>2, <3>3, <3>4, <3>5, <3>6 DEF Init, TypeOK
  <2>2. SideEffectsInOrder /\ ProviderCallsBounded /\ BatchDone
    BY BoundsType DEF Init, SideEffectsInOrder, ProviderCallsBounded, BatchDone
  <2>3. Past(history)
    BY EmptyPast DEF Init
  <2> QED
    BY <2>1, <2>2, <2>3 DEF Init, LoopInv
<1>2. LoopInv /\ [Next]_vars => LoopInv'
  <2> SUFFICES ASSUME LoopInv, [Next]_vars PROVE LoopInv'
    OBVIOUS
  <2>1. TypeOK /\ BatchOK /\ RunInv
    BY DEF LoopInv, BatchOK, RunInv
  <2>2. pc # "idle" => pre <= Len(ctx)
    BY DEF LoopInv, TypeOK, ContextOK, UserAt
  <2>3. TypeOK' /\ BatchOK' /\ RunInv'
    BY <2>1, <2>2, TypeStep, BatchStep, RunInvStep DEF BatchOK
  <2> QED
    BY <2>3 DEF LoopInv, BatchOK, RunInv
<1> QED
  BY <1>1, <1>2, PTL DEF Spec
-----------------------------------------------------------------------------
(* What it gives.                                                           *)

\* The message of this turn is the last user message of the context.
LEMMA LastUserAt ==
    ASSUME TypeOK, ContextOK
    PROVE  LastUser = UserAt
<1>1. UserAt \in Nat /\ UserAt > 0 /\ UserAt <= Len(ctx) /\ Len(ctx) \in Nat
      /\ DOMAIN ctx = 1..Len(ctx)
  BY DEF TypeOK, ContextOK, UserAt
<1>2. UserAt \in DOMAIN ctx
  BY <1>1
<1>3. ctx[UserAt].role = "user"
  BY DEF ContextOK, User
<1>4. \A j \in DOMAIN ctx : ctx[j].role = "user" => j <= UserAt
  BY <1>1 DEF ContextOK
<1> DEFINE Last(i) == ctx[i].role = "user" /\ \A j \in DOMAIN ctx : ctx[j].role = "user" => j <= i
<1>5. ASSUME NEW i \in DOMAIN ctx, Last(i)
      PROVE  i = UserAt
  <2>1. i <= UserAt /\ UserAt <= i
    BY <1>2, <1>3, <1>4, <1>5
  <2>2. i \in Nat
    BY <1>1
  <2> QED
    BY <1>1, <2>1, <2>2
<1>6. Last(UserAt)
  BY <1>3, <1>4
<1>7. LastUser = CHOOSE i \in DOMAIN ctx : Last(i)
  BY DEF LastUser
<1> HIDE DEF Last
<1> QED
  BY <1>2, <1>5, <1>6, <1>7

\* The memory ends with what the run has generated.
LEMMA TailIsStored ==
    ASSUME TypeOK, ContextOK, TailStored
    PROVE  GeneratedIsStored
<1> DEFINE made == Len(ctx) - UserAt
           p == SubSeq(mem, Len(mem) - made + 1, Len(mem))
           q == SubSeq(ctx, UserAt + 1, Len(ctx))
<1>1. LastUser = UserAt
  BY LastUserAt
<1>2. /\ UserAt \in Nat /\ UserAt <= Len(ctx) /\ Len(ctx) \in Nat /\ Len(mem) \in Nat
      /\ ctx \in Seq(Messages) /\ mem \in Seq(Messages)
  BY DEF TypeOK, ContextOK, UserAt
<1>3. /\ made \in Nat /\ made <= Len(mem)
      /\ \A k \in 1..made : mem[Len(mem) - made + k] = ctx[UserAt + k]
  BY <1>2 DEF TailStored
<1>4. /\ q \in Seq(Messages) /\ Len(q) = made
      /\ \A k \in 1..made : q[k] = ctx[UserAt + k]
  <2>1. CASE made = 0
    BY <1>2, <2>1
  <2>2. CASE made # 0
    BY <1>2, <1>3, <2>2
  <2> QED
    BY <2>1, <2>2
<1>5. /\ p \in Seq(Messages) /\ Len(p) = made
      /\ \A k \in 1..made : p[k] = mem[Len(mem) - made + k]
  <2> HIDE DEF made
  <2>1. CASE made = 0
    BY <1>2, <1>3, <2>1
  <2>2. CASE made # 0
    BY <1>2, <1>3, <2>2
  <2> QED
    BY <2>1, <2>2
<1> HIDE DEF p, q
<1>6. \A k \in 1..Len(p) : p[k] = q[k]
  BY <1>3, <1>4, <1>5
<1>7. p = q
  BY <1>4, <1>5, <1>6, SeqEqual
<1> QED
  BY <1>1, <1>3, <1>7 DEF GeneratedIsStored, p, q

\* However a run is cancelled, fails, panics or crashes, the history can be
\* sent on: its calls are answered in order, tools with side effects ran
\* alone, what was generated is stored, and the loop stopped at its limit.
THEOREM HistoryIsUsable == Spec => []HistoryUsable
<1>1. LoopInv => HistoryUsable
  <2> SUFFICES ASSUME LoopInv PROVE HistoryUsable
    OBVIOUS
  <2>1. TypeOK /\ SideEffectsInOrder /\ ProviderCallsBounded
    BY DEF LoopInv
  <2>2. GeneratedIsStored
    <3>1. CASE pc = "idle"
      BY <3>1 DEF GeneratedIsStored
    <3>2. CASE pc # "idle"
      BY <3>2, TailIsStored DEF LoopInv, PhaseOK
    <3> QED
      BY <3>1, <3>2
  <2>3. NoDanglingCalls
    <3>1. SUFFICES ASSUME mode # "enforce"
                   PROVE  /\ Answered(history)
                          /\ pc \in {"top", "prepare", "provider"} => Answered(ctx)
      BY DEF NoDanglingCalls
    <3>2. history \in Seq(Messages) /\ ctx \in Seq(Messages)
      BY DEF LoopInv, TypeOK
    <3>3. Answered(history)
      BY <3>1, <3>2, AnsweredParts DEF LoopInv, Past
    <3>4. pc \in {"top", "prepare", "provider"} => Answered(ctx)
      BY <3>1, <3>2, AnsweredParts DEF LoopInv, ContextOK, PhaseOK
    <3> QED
      BY <3>3, <3>4
  <2> QED
    BY <2>1, <2>2, <2>3 DEF HistoryUsable
<1> QED
  BY <1>1, LoopInvariant, PTL

\* A turn that does not finish leaves the history as it was before the turn,
\* or empty, or, when it was dropped meanwhile, without the turn's message.
THEOREM FailedTurnsLeaveHistory == Spec => FailedTurnKeepsHistory
<1>1. LoopInv /\ [Next]_vars =>
        [(pc \notin {"idle", "finish"} /\ pc' = "idle")
            => \/ history' \in {history, <<>>}
               \/ history = <<>> /\ \A i \in DOMAIN history' : history'[i] # User(sent)]_vars
  <2> SUFFICES ASSUME LoopInv, Next, pc \notin {"idle", "finish"}, pc' = "idle"
               PROVE  \/ history' \in {history, <<>>}
                      \/ history = <<>> /\ \A i \in DOMAIN history' : history'[i] # User(sent)
    BY DEF vars
  <2>1. TypeOK /\ ContextOK
    BY DEF LoopInv
  <2>2. ASSUME Fail
        PROVE  \/ history' = history
               \/ history = <<>> /\ \A i \in DOMAIN history' : history'[i] # User(sent)
    <3>1. pre \in Nat /\ pre <= Len(ctx) /\ ctx \in Seq(Messages)
      BY <2>1 DEF TypeOK, ContextOK, UserAt
    <3>2. history' = SubSeq(ctx, 1, pre)
      BY <2>2 DEF Fail
    <3>3. Len(history') = pre /\ DOMAIN history' = 1..pre /\ \A i \in 1..pre : history'[i] = ctx[i]
      BY <3>1, <3>2
    <3> QED
      BY <2>1, <3>2, <3>3 DEF ContextOK
  <2>3. \/ Fail \/ Panic \/ Crash
        \/ pc' # "idle" \/ Finish
    BY DEF Next, RunStep, BeginTurn, Recall, PersistTail, Top, Prepare, Reply, FailHere,
           ToolsDone, StartBatch, StartAlone, FinishTool, PushResult, AbortBatch, Cancel,
           DropSessionContext
  <2> QED
    BY <2>2, <2>3 DEF Panic, Crash, Finish
<1> QED
  BY <1>1, LoopInvariant, PTL DEF Spec, FailedTurnKeepsHistory
=============================================================================
