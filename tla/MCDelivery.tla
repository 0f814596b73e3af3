---------------------------- MODULE MCDelivery ------------------------------
\* What clients are sent and shown, by parts that share no state, in one
\* model: `part` says which of them runs.
EXTENDS GatewayConnection, ProactiveDelivery, MessageSplit, TelegramHtml, TuiScreen

VARIABLE part

CONSTANTS t1, t2, s1, s2

MCTurns == {t1, t2}
MCSessions == {s1, s2}
\* Two submissions to one session, a second session to switch to.
MCSessionOf == [t \in MCTurns |-> s1]
MCChunks == <<2, 1, 1>>
MCHtmlInputs ==
    UNION {[1..n -> {"a", "star", "tilde", "tick", "<"}] : n \in 0..5}
    \cup UNION {[1..n -> {"a", "close", "paren", "thesis", "open", "hash", "\n"}] : n \in 0..4}
    \cup {<<"open", "a", "close", "paren", "a", "thesis">>}

MCVars == <<allVars, deliveryVars, splitVars, htmlVars, screenVars, part>>

\* The parts that do not run are in one of their initial states.
MCInit ==
    /\ part \in {"connection", "proactive", "split", "html", "screen"}
    /\ ConnInit
    /\ DeliveryInit
    /\ (part # "proactive" =>
          row.channel = "none" /\ \A s \in TuiSessions : ~screens[s].held /\ ~screens[s].top)
    /\ SplitInit /\ (part # "split" => text = <<>>)
    /\ HtmlInit /\ (part # "html" => chars = <<>>)
    /\ ScreenInit

\* The parts that do not run.
MCRest ==
    /\ UNCHANGED part
    /\ IF part = "connection" THEN TRUE ELSE UNCHANGED allVars
    /\ IF part = "proactive" THEN TRUE ELSE UNCHANGED deliveryVars
    /\ IF part = "split" THEN TRUE ELSE UNCHANGED splitVars
    /\ IF part = "html" THEN TRUE ELSE UNCHANGED htmlVars
    /\ IF part = "screen" THEN TRUE ELSE UNCHANGED screenVars

MCNext ==
    /\ MCRest
    /\ \/ part = "connection" /\ ConnNext
       \/ part = "proactive" /\ DeliveryNext
       \/ part = "split" /\ SplitNext
       \/ part = "html" /\ ConvertNext
       \/ part = "screen" /\ ScreenNext

MCSpec == MCInit /\ [][MCNext]_MCVars

\* What is done to a text on its way to the user: the chunks split_message has
\* cut so far, the HTML of a text without code blocks and the deltas that the
\* terminal received hold what was sent, and the terminal's cursor and pane
\* stay where they can be drawn.  It is not claimed that split_message ends
\* (SplitProgresses, SplitNeverPanics) or that the terminal shows the parts of
\* an answer whose deltas it missed (CompletedShowsAll).
AnswerShown == SplitLossless /\ TextKept /\ CursorOnBoundary /\ FollowsBottom /\ DeltasShown
=============================================================================
