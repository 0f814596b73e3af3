----------------------------- MODULE TuiScreen ------------------------------
(***************************************************************************)
(* What the terminal client shows (crates/tui/src/ui_model.rs, drawn by    *)
(* widgets.rs): the message history built from the gateway's frames, the   *)
(* scroll position and the input bar.  A message is one line high, a       *)
(* character one or two bytes wide.                                        *)
(***************************************************************************)
EXTENDS Naturals, Sequences, SequencesExt, FiniteSetsExt

CONSTANTS
    MaxParts,   \* bound: deltas of a turn
    MaxEvents2, \* bound: frames and keys
    MaxHistory, \* MAX_HISTORY_MESSAGES
    Visible,    \* bound: the lines of the message pane
    UsizeMax,   \* usize::MAX, "pinned to the bottom"
    MaxInput    \* bound: characters in the input bar

ASSUME ScreenBounds ==
    /\ {MaxParts, MaxEvents2, MaxHistory, Visible, UsizeMax, MaxInput} \subseteq Nat
    /\ UsizeMax > 2 * MaxHistory

VARIABLES
    history,   \* message_history: [who, parts]
    scroll,    \* [offset, auto, last_max_scroll; late: the last frame was not followed]
    typed,     \* input_buffer: the widths of its characters
    caret,    \* input_cursor_position, in bytes
    streaming, \* the turn: [open, parts published, gap] as far as the client is connected
    used       \* frames and keys so far

screenVars == <<history, scroll, typed, caret, streaming, used>>

ScreenInit ==
    /\ history = <<>> /\ typed = <<>> /\ caret = 0 /\ used = 0
    /\ scroll = [offset |-> 0, auto |-> TRUE, max |-> 0, late |-> FALSE]
    /\ streaming = [open |-> FALSE, parts |-> 0, seen |-> {}]

-----------------------------------------------------------------------------
(* The history.                                                             *)

Capped(h) == SubSeq(h, Len(h) - MaxHistory + 1, Len(h))
Monus(a, b) == IF a > b THEN a - b ELSE 0
MaxScroll(h) == Monus(Len(h), Visible)

\* push_message with enforce_history_cap.
Push(state, msgs) ==
    FoldLeft(LAMBDA st, m :
        LET h == Append(st.history, m) IN
        IF Len(h) > MaxHistory THEN [history |-> Capped(h), offset |-> Monus(st.offset, Len(h) - MaxHistory)]
        ELSE [history |-> h, offset |-> st.offset], state, msgs)

Say(who, parts) == [who |-> who, parts |-> parts]
Note == Say("system", <<>>)
Screen == [history |-> history, offset |-> scroll.offset]

\* Mutant: a delta is appended only to a message that is being streamed.
WithDeltaOpen(part) ==
    IF history # <<>> /\ Last(history).who = "assistant"
    THEN [Screen EXCEPT !.history[Len(history)].parts = Append(@, part)] ELSE Screen
\* append_to_last_assistant.
WithDelta(part) ==
    IF history # <<>> /\ Last(history).who = "assistant"
    THEN [Screen EXCEPT !.history[Len(history)].parts = Append(@, part)]
    ELSE Push(Screen, <<Say("assistant", <<part>>)>>)

\* TurnCompleted: the answer replaces an empty message, is appended where
\* none is being streamed, and is left out where deltas were shown.
WithFinal(final) ==
    IF history # <<>> /\ Last(history).who = "assistant"
    THEN IF Last(history).parts = <<>> THEN [Screen EXCEPT !.history[Len(history)].parts = final] ELSE Screen
    ELSE IF final = <<>> THEN Screen ELSE Push(Screen, <<Say("assistant", final)>>)

\* A frame is applied, the pane follows if it is at the bottom, and it is
\* drawn: render_app notes how far it can be scrolled.
Shows(st, follow) ==
    /\ history' = st.history
    /\ scroll' = [offset |-> IF follow /\ scroll.auto THEN UsizeMax ELSE st.offset, auto |-> scroll.auto,
                  max |-> MaxScroll(st.history), late |-> ~follow]
    /\ used < MaxEvents2 /\ used' = used + 1
    /\ UNCHANGED <<typed, caret>>

TurnStartedFrame ==
    /\ ~streaming.open /\ streaming' = [open |-> TRUE, parts |-> 0, seen |-> {}]
    /\ Shows(Push(Screen, <<Say("assistant", <<>>)>>), TRUE)
DeltaFrame ==
    /\ streaming.open /\ streaming.parts < MaxParts
    /\ streaming' = [streaming EXCEPT !.parts = @ + 1, !.seen = @ \union {streaming.parts + 1}]
    /\ Shows(WithDelta(streaming.parts + 1), TRUE)
CompletedFrame ==
    /\ streaming.open /\ streaming' = [streaming EXCEPT !.open = FALSE]
    /\ Shows(WithFinal([i \in 1..streaming.parts |-> i]), TRUE)
\* TurnCancelled, Error, notifications, lists: messages of the system.
NoteFrame ==
    /\ UNCHANGED streaming /\ \E n \in 1..2 : Shows(Push(Screen, [i \in 1..n |-> Note]), TRUE)

\* try_reconnect applies what it reads without following: a turn that is
\* still active gets a message of its own, its deltas meanwhile are lost.
ReconnectFrame ==
    /\ streaming.open /\ \E missed \in 0..(MaxParts - streaming.parts) : streaming' = [streaming EXCEPT !.parts = @ + missed]
    /\ Shows(Push(Screen, <<Note, Say("assistant", <<>>)>>), FALSE)

-----------------------------------------------------------------------------
(* Scrolling.                                                               *)

Resolved == IF scroll.offset = UsizeMax THEN scroll.max ELSE scroll.offset

ScrollUp ==
    /\ used < MaxEvents2 /\ used' = used + 1
    /\ scroll' = IF Resolved > 0 THEN [scroll EXCEPT !.offset = Resolved - 1, !.auto = FALSE]
                 ELSE [scroll EXCEPT !.offset = Resolved]
    /\ UNCHANGED <<history, typed, caret, streaming>>

ScrollDown ==
    /\ used < MaxEvents2 /\ used' = used + 1
    /\ LET o == IF Resolved < scroll.max THEN Resolved + 1 ELSE Resolved IN
         scroll' = [scroll EXCEPT !.offset = o, !.auto = @ \/ o >= scroll.max]
    /\ UNCHANGED <<history, typed, caret, streaming>>

-----------------------------------------------------------------------------
(* The input bar.                                                           *)

Bytes(s) == FoldLeft(LAMBDA a, w : a + w, 0, s)
\* The number of characters before a byte position; none where the position
\* is inside a character.
CharsBefore(at) == CHOOSE n \in 0..Len(typed) : Bytes(SubSeq(typed, 1, n)) = at
Boundaries == {Bytes(SubSeq(typed, 1, n)) : n \in 0..Len(typed)}

InsertChar(w) ==
    LET n == CharsBefore(caret) IN
    /\ Len(typed) < MaxInput /\ typed' = InsertAt(typed, n + 1, w) /\ caret' = caret + w
    /\ UNCHANGED <<history, scroll, streaming, used>>

\* char_indices().next_back().
BeforeCursor == Max({b \in Boundaries : b < caret})

\* delete_char; Delete is MoveRight and then this.
DeleteChar ==
    /\ caret > 0 /\ typed' = RemoveAt(typed, CharsBefore(caret)) /\ caret' = BeforeCursor
    /\ UNCHANGED <<history, scroll, streaming, used>>
MoveLeft ==
    /\ caret > 0 /\ caret' = BeforeCursor
    /\ UNCHANGED <<history, scroll, typed, streaming, used>>
MoveRight ==
    /\ caret < Bytes(typed) /\ caret' = Min({b \in Boundaries : b > caret})
    /\ UNCHANGED <<history, scroll, typed, streaming, used>>
HomeOrEnd ==
    /\ caret' \in {0, Bytes(typed)} /\ UNCHANGED <<history, scroll, typed, streaming, used>>

\* Enter: take_input, and the prompt is a message of the user.
TakeInput ==
    /\ typed # <<>> /\ ~streaming.open /\ typed' = <<>> /\ caret' = 0
    /\ used < MaxEvents2 /\ used' = used + 1
    /\ LET st == Push(Screen, <<Say("user", <<>>)>>) IN
         /\ history' = st.history
         /\ scroll' = [offset |-> IF scroll.auto THEN UsizeMax ELSE st.offset, auto |-> scroll.auto,
                       max |-> MaxScroll(st.history), late |-> FALSE]
    /\ UNCHANGED streaming

ScreenNext ==
    \/ TurnStartedFrame \/ DeltaFrame \/ CompletedFrame \/ NoteFrame \/ ReconnectFrame
    \/ ScrollUp \/ ScrollDown \/ (\E w \in {1, 2} : InsertChar(w)) \/ DeleteChar
    \/ MoveLeft \/ MoveRight \/ HomeOrEnd \/ TakeInput

ScreenSpec == ScreenInit /\ [][ScreenNext]_screenVars

-----------------------------------------------------------------------------
(* Properties.                                                              *)

\* The input bar's byte position is never inside a character, where Rust's
\* string operations panic, whatever is typed, deleted and moved.
CursorOnBoundary == caret \in Boundaries

\* While the pane follows the conversation its last line is shown, also after
\* messages were trimmed from the full history; only what a reconnection adds
\* waits for the next frame.
Displayed == LET o == Resolved IN IF o < scroll.max THEN o ELSE scroll.max
FollowsBottom == scroll.auto /\ ~scroll.late => Displayed = scroll.max

\* Every delta that was received can be read until the history is full, though
\* notices and reconnections come between the deltas of a turn.
DeltasShown ==
    streaming.open /\ Len(history) < MaxHistory
    => \A p \in streaming.seen : \E i \in DOMAIN history :
          history[i].who = "assistant" /\ p \in {history[i].parts[j] : j \in DOMAIN history[i].parts}

\* "TurnCompleted: finalizes the last assistant message with the full response
\* content": the whole answer can be read in the last message.
CompletedShowsAll ==
    [][streaming.open /\ ~streaming'.open /\ streaming.parts > 0
       => Last(history').parts = [i \in 1..streaming.parts |-> i]]_screenVars
=============================================================================
