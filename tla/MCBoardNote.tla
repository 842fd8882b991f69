---------------------------- MODULE MCBoardNote ----------------------------
(***************************************************************************)
(* Two columns, a card with a field and a description, one with comments,  *)
(* and a card in the archive.                                              *)
(***************************************************************************)
EXTENDS BoardNote

MCColumns == <<"Ready", "Verify">>
MCKeys == <<"due", "assignee">>

Card(title, n, status) == NewCard(title, <<"k", n>>, status, <<>>)

MCFirstBoard ==
    BoardLines(<<[Card("plan", 1, "Ready") EXCEPT !.fields["due"] = "today",
                                                  !.desc = <<Plain("why"), Blank, Bullet("step")>>],
                 [Card("test", 2, "Verify") EXCEPT !.comments = <<<<Plain("first"), Plain("more")>>>>]>>)
MCFirstDone == DoneLines(<<Card("old", 3, "Done")>>)

\* Headings that would be a column and a card, a field below the first line.
MCDescriptions ==
    {<<>>, <<Heading(1, "Ready", NoId), Plain("how")>>, <<Plain("how"), Heading(2, "plan", NoId)>>,
     <<Blank, Plain("how"), Field("due", "later"), Blank>>}

\* A description whose heading is demoted to the heading of the comments.
CommentsDescription == {<<Heading(1, "Comments", NoId), Bullet("ask")>>}

MCValues == {"", "later"}
MCBodies == {<<Plain("well")>>, <<Plain("see"), Heading(1, "Verify", NoId)>>}

MCHandLines ==
    {Plain("note"), Field("assignee", "ada"), Heading(1, "Verify", NoId), Heading(2, "todo", NoId)}
CardLine == {Heading(2, "todo", NoId)}
TextLine == {Plain("note")}
NoLines == {}

OneCard == BoardLines(<<Card("plan", 1, "Ready")>>)
NoCards == DoneLines(<<>>)
NoDescription == {<<>>}
=============================================================================
