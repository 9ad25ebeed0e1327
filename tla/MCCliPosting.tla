---------------------------- MODULE MCCliPosting ----------------------------
EXTENDS CliPosting, TLC

F(line, body) == [line |-> line, body |-> body]

\* Two commits: the push adds line 2, which was context before it.
MCHeads == {"h1", "h2"}
MCAdded == "h1" :> {1, 3} @@ "h2" :> {1, 2, 3}
MCShown == "h1" :> {1, 2, 3} @@ "h2" :> {1, 2, 3}

\* Nothing, one finding, or two of which the first is off the diff before the push.
MCDrafts == {<<>>, <<F(1, "b1")>>, <<F(2, "b2"), F(1, "b1")>>}

\* Two findings with one text: as_comment names neither path nor line.
TwinDrafts == {<<F(1, "b1"), F(3, "b1")>>}
==============================================================================
