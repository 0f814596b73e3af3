---------------------------- MODULE TelegramHtml ----------------------------
(***************************************************************************)
(* markdown_to_telegram_html (crates/channels/src/telegram.rs): the        *)
(* scanner that turns an answer's Markdown into the HTML Telegram takes,   *)
(* one iteration of its loop a step.  Positions count from 0, as there;    *)
(* the characters that mark something up have names.                       *)
(***************************************************************************)
EXTENDS Naturals, Sequences, SequencesExt, FiniteSetsExt

CONSTANT HtmlInputs \* the texts, sequences of characters

VARIABLES
    chars,   \* the text
    scanned, \* the position i
    html     \* the output: tags, characters and escapes

htmlVars == <<chars, scanned, html>>

HtmlInit == chars \in HtmlInputs /\ scanned = 0 /\ html = <<>>

Size == Len(chars)
Slice(a, b) == SubSeq(chars, a + 1, b)
MatchAt(i, marker) == i + Len(marker) <= Size /\ Slice(i, i + Len(marker)) = marker
\* The first position from i that is the end or a character of the set.
Find(i, cs) == Min({j \in i..Size : j >= Size \/ chars[j + 1] \in cs})

\* html_escape.
Escape(s) == [k \in DOMAIN s |-> IF s[k] = "<" THEN "&lt;" ELSE s[k]]

\* Where the loop for a closing marker stops: at the marker, or where it no
\* longer fits.
Closing(i, marker) == Min({j \in i..(Size + 1) : j + Len(marker) > Size \/ MatchAt(j, marker)})

Emit(tags, s, next) == html' = html \o <<tags[1]>> \o Escape(s) \o <<tags[2]>> /\ scanned' = next

\* What a marker encloses.  Without a closing marker the tags are closed
\* where the search ended, and the last characters follow them.
Span(start, marker, tags) ==
    LET end == Closing(start, marker) IN
    Emit(tags, Slice(start, IF end < Size THEN end ELSE Size),
         IF MatchAt(end, marker) THEN end + Len(marker) ELSE IF end < Size THEN end ELSE Size)

Fence == <<"tick", "tick", "tick">>

\* Three ticks: the rest of the line is taken for the name of a language.
CodeBlock ==
    LET line == Find(scanned + 3, {"\n", "tick"}) IN
    Span(IF line < Size /\ chars[line + 1] = "\n" THEN line + 1 ELSE line, Fence, <<"<pre>", "</pre>">>)

\* [text](url), if all of it is there.
LinkEnds == LET j == Find(scanned + 1, {"close"}) IN
    IF MatchAt(j, <<"close", "paren">>) THEN {k \in {Find(j + 2, {"thesis"})} : k < Size} ELSE {}
Link(k) ==
    LET j == Find(scanned + 1, {"close"}) IN
    html' = html \o <<"<a>">> \o Escape(Slice(j + 2, k)) \o Escape(Slice(scanned + 1, j)) \o <<"</a>">>
    /\ scanned' = k + 1

\* # at the start of a line.
Heading ==
    LET hashes == Min({j \in scanned..Size : j = Size \/ chars[j + 1] # "hash"})
        from == Min({j \in hashes..Size : j = Size \/ chars[j + 1] # " "})
        end == Find(from, {"\n"}) IN
    Emit(<<"<b>", "</b>">>, Slice(from, end), end)

AtLineStart == scanned = 0 \/ chars[scanned] = "\n"

ConvertNext ==
    /\ scanned < Size
    /\ CASE MatchAt(scanned, Fence) -> CodeBlock
         [] MatchAt(scanned, <<"tick">>) /\ ~MatchAt(scanned, Fence) -> Span(scanned + 1, <<"tick">>, <<"<code>", "</code>">>)
         [] MatchAt(scanned, <<"star", "star">>) -> Span(scanned + 2, <<"star", "star">>, <<"<b>", "</b>">>)
         [] MatchAt(scanned, <<"tilde", "tilde">>) -> Span(scanned + 2, <<"tilde", "tilde">>, <<"<s>", "</s>">>)
         [] MatchAt(scanned, <<"star">>) /\ ~MatchAt(scanned, <<"star", "star">>) -> Span(scanned + 1, <<"star">>, <<"<i>", "</i>">>)
         [] MatchAt(scanned, <<"open">>) /\ LinkEnds # {} -> \E k \in LinkEnds : Link(k)
         [] MatchAt(scanned, <<"hash">>) /\ AtLineStart -> Heading
         [] OTHER -> html' = html \o Escape(Slice(scanned, scanned + 1)) /\ scanned' = scanned + 1
    /\ UNCHANGED chars

HtmlSpec == HtmlInit /\ [][ConvertNext]_htmlVars

-----------------------------------------------------------------------------
(* Properties.                                                              *)

WordsOf(s) == SelectSeq(s, LAMBDA c : c \in {"a", "<", "&lt;"})
HasFence == \E i \in 0..Size : MatchAt(i, Fence)

\* Outside of code blocks no letter of the answer is lost or doubled,
\* whatever markers are left open, nested or overlap.
TextKept == scanned = Size /\ ~HasFence => WordsOf(html) = Escape(WordsOf(chars))

\* Code blocks keep their text too.
CodeKept == scanned = Size => WordsOf(html) = Escape(WordsOf(chars))
=============================================================================
