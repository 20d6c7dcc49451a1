-------------------------- MODULE MCResponseStream --------------------------
(***************************************************************************)
(* Small instances of ResponseStream: services that send a text in every   *)
(* way the client reads one, alone and after another item.                 *)
(***************************************************************************)
EXTENDS ResponseStream

Response(items) == [items |-> items, completes |-> TRUE]
Bools == {TRUE, FALSE}
Ways == {w \in Bools \X Bools \X Bools : w # <<FALSE, FALSE, FALSE>>}
MessagesOf(contents) == {MessageItem(contents, w[1], w[2], w[3]) : w \in Ways}

\* One reasoning item, whose summary or text is streamed or not, before a message.
AfterReasoning ==
    {Response(<<Reasoning(d, w), m>>) : d \in Bools, w \in Bools, m \in MessagesOf(1)}

\* Two contents of a message; a message after a message; reasoning in between
\* or last.
Longer ==
    {Response(<<m>>) : m \in MessagesOf(2)}
        \cup {Response(<<m, n>>) : m \in MessagesOf(1), n \in MessagesOf(1)}
        \cup {Response(<<m, Reasoning(d, TRUE), m>>) : d \in Bools, m \in MessagesOf(1)}
        \cup {Response(<<Reasoning(TRUE, TRUE), m, Reasoning(d, w)>>) :
                  d \in Bools, w \in Bools, m \in MessagesOf(1)}
        \cup {Response(<<Reasoning(TRUE, FALSE), m, n>>) : m \in MessagesOf(1), n \in MessagesOf(1)}

MCShapes ==
    AfterReasoning \cup Longer \cup {[FakeShape EXCEPT !.completes = FALSE]}

FakeShapes == {FakeShape}

=============================================================================
