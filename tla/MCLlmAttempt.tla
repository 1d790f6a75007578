--------------------------- MODULE MCLlmAttempt ---------------------------
(***************************************************************************)
(* LlmAttempt on answers of up to three rows: rows that tie or do not,     *)
(* copies and look-alikes, and one field at a time that cannot be read.    *)
(***************************************************************************)
EXTENDS LlmAttempt

Row(cents, text, day) ==
    [cents |-> cents, read |-> TRUE, text |-> text, day |-> day, eitherWay |-> FALSE,
     printed |-> FALSE, bal |-> 0]
Then(row, bal) == [row EXCEPT !.printed = TRUE, !.bal = bal]
Missing == [read |-> FALSE, cents |-> 0]

In == Row(1, "in", 1)
Out == Row(-1, "out", 2)
Plain == {In, Then(In, 1), Then(In, 2), Out, Then(Out, 1), Row(2, "in", 1)}
Odd == {[In EXCEPT !.read = FALSE], [Out EXCEPT !.day = Unread], [In EXCEPT !.eitherWay = TRUE],
        Row(1, "marker", 1), Row(1, "marker", Unread), Row(1, "in", 3), Row(1, "in", 11)}

Doc(closing, txs) ==
    [hasRows |-> TRUE, omitted |-> FALSE, period |-> TRUE, format |-> "MDY", start |-> 1, end |-> 2,
     opening |-> Figure(0), closing |-> closing, rows |-> txs]
Closings == {Figure(0), Figure(1), Figure(2)}

UpTo(n, S) == UNION {[1..k -> S] : k \in 0..n}
Few == {<<r>> : r \in Plain \cup Odd}
        \cup {<<Then(In, 1), r>> : r \in Odd} \cup {<<r, Then(Out, 1)>> : r \in Odd}

\* A header with one field, or two, that cannot be read.
Blurred(doc) ==
    {[doc EXCEPT !.start = Unread], [doc EXCEPT !.end = Unread],
     [doc EXCEPT !.start = Unread, !.end = Unread],
     [doc EXCEPT !.opening = Missing], [doc EXCEPT !.closing = Missing],
     [doc EXCEPT !.opening = Missing, !.closing = Missing],
     [doc EXCEPT !.format = "TEXTUAL"], [doc EXCEPT !.format = "AMBIGUOUS"],
     [doc EXCEPT !.format = "missing"], [doc EXCEPT !.hasRows = FALSE],
     [doc EXCEPT !.hasRows = FALSE, !.omitted = TRUE]}

MCAnswers ==
    {Doc(c, txs) : c \in Closings, txs \in UpTo(3, Plain) \cup Few}
    \cup UNION {Blurred(Doc(Figure(1), txs)) : txs \in Few \cup {<<>>}}

MCRereads ==
    {Doc(Figure(1), txs) : txs \in {<<>>, <<In>>, <<In, Out>>, <<In, In>>} \cup {<<r>> : r \in Odd}}
    \cup Blurred(Doc(Figure(1), <<[In EXCEPT !.day = Unread]>>))

MCPageAnswers ==
    {Doc(Figure(1), txs) : txs \in {<<>>, <<In>>, <<Out>>} \cup {<<r>> : r \in Odd}}
    \cup Blurred(Doc(Figure(0), <<Then(In, 1)>>))
    \cup {[Doc(Missing, txs) EXCEPT !.period = FALSE, !.start = Unread, !.end = Unread,
             !.opening = Missing, !.format = "missing"] : txs \in {<<>>, <<[In EXCEPT !.day = Unread]>>}}

=============================================================================
