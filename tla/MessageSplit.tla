---------------------------- MODULE MessageSplit ----------------------------
(***************************************************************************)
(* split_message (crates/channels/src/telegram.rs): the loop that cuts an  *)
(* answer or a notification into messages Telegram takes, one iteration a  *)
(* step.  A text is its bytes: a letter, a space and a newline have one, a *)
(* character outside ASCII has two, "lead" and "cont".                     *)
(***************************************************************************)
EXTENDS Naturals, Sequences, SequencesExt, FiniteSetsExt

CONSTANTS
    MaxText, \* bound: the bytes of a text
    MaxLen   \* max_message_length

ASSUME SplitBounds == {MaxText, MaxLen} \subseteq Nat \ {0}

VARIABLES
    text,      \* what is to be sent
    remaining, \* what is not yet in a chunk
    chunks,    \* the chunks, in order
    splitState \* "splitting", "returned" or "panicked"

splitVars == <<text, remaining, chunks, splitState>>

SplitTexts ==
    {s \in UNION {[1..n -> {"a", " ", "\n", "lead", "cont"}] : n \in 0..MaxText} :
        \A i \in 1..(Len(s) + 1) :
            (i > 1 /\ s[i - 1] = "lead") <=> (i <= Len(s) /\ s[i] = "cont")}

\* A text that fits is its own chunk, even an empty one.
SplitInit ==
    /\ text \in SplitTexts
    /\ splitState = IF Len(text) <= MaxLen THEN "returned" ELSE "splitting"
    /\ chunks = IF Len(text) <= MaxLen THEN <<text>> ELSE <<>>
    /\ remaining = IF Len(text) <= MaxLen THEN <<>> ELSE text

\* A str is sliced between two characters alone.
CharBoundary(s, at) == at < Len(s) => s[at + 1] # "cont"

\* Where pattern begins in the window, counted from 0.
Finds(window, pattern) ==
    {i \in 0..(Len(window) - Len(pattern)) : SubSeq(window, i + 1, i + Len(pattern)) = pattern}

\* rfind of a paragraph's end, a line's end or a space, in that order.
Breaks(window) ==
    LET found == SelectSeq(<< <<"\n", "\n">>, <<"\n">>, <<" ">> >>, LAMBDA p : Finds(window, p) # {})
    IN IF found = <<>> THEN {} ELSE Finds(window, Head(found))

SplitPos == LET at == Breaks(SubSeq(remaining, 1, MaxLen)) IN IF at = {} THEN MaxLen ELSE Max(at)

\* trim_start_matches('\n').
TrimStart(rest) == SubSeq(rest, Min({i \in 1..(Len(rest) + 1) : i > Len(rest) \/ rest[i] # "\n"}), Len(rest))

SplitChunk ==
    /\ splitState = "splitting" /\ Len(remaining) > MaxLen
    /\ CharBoundary(remaining, MaxLen)
    /\ chunks' = Append(chunks, SubSeq(remaining, 1, SplitPos))
    /\ remaining' = TrimStart(SubSeq(remaining, SplitPos + 1, Len(remaining)))
    /\ Len(chunks) <= MaxText \* bound: see SplitProgresses
    /\ UNCHANGED <<text, splitState>>

\* &remaining[..max_len] ends inside a character: the task panics.
SplitPanics ==
    /\ splitState = "splitting" /\ Len(remaining) > MaxLen
    /\ ~CharBoundary(remaining, MaxLen)
    /\ splitState' = "panicked"
    /\ UNCHANGED <<text, remaining, chunks>>

SplitReturns ==
    /\ splitState = "splitting" /\ Len(remaining) <= MaxLen
    /\ chunks' = IF remaining = <<>> THEN chunks ELSE Append(chunks, remaining)
    /\ remaining' = <<>> /\ splitState' = "returned"
    /\ UNCHANGED text

SplitNext == SplitChunk \/ SplitPanics \/ SplitReturns
SplitSpec == SplitInit /\ [][SplitNext]_splitVars

-----------------------------------------------------------------------------
(* Properties.                                                              *)

Letters(s) == SelectSeq(s, LAMBDA c : c # "\n")

\* Every chunk split_message has cut fits in a message and begins and ends
\* between two characters, and nothing but newlines between chunks is lost:
\* what was cut and what remains read as the text.  That all of it is cut is
\* not claimed: see the two promises below.
SplitLossless ==
    /\ \A i \in DOMAIN chunks : Len(chunks[i]) <= MaxLen /\ chunks[i] \in SplitTexts
    /\ Letters(FlattenSeq(chunks) \o remaining) = Letters(text)

\* Every iteration leaves less to split.  What an iteration does depends on
\* what remains alone: one that leaves it as it is, is repeated for ever.
SplitProgresses == [][splitState' = "splitting" => Len(remaining') < Len(remaining)]_splitVars

\* "Split a long message into chunks that fit within Telegram's character
\* limit": split_message takes any text.
SplitNeverPanics == splitState # "panicked"
=============================================================================
