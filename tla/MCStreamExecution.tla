------------------------- MODULE MCStreamExecution -------------------------
(***************************************************************************)
(* Small sets of lines and helpers for checking StreamExecution.           *)
(***************************************************************************)
EXTENDS StreamExecution

CONSTANT c1

MCConversations == {c1}

\* Lines with the fields the event switch does not look at filled in.
Blank == [event |-> "junk", conv |-> NoConv, delta |-> "plain",
          status |-> "other", response |-> << >>]

InitLine(c) == [Blank EXCEPT !.event = "init", !.conv = c]
Delta(t) == [Blank EXCEPT !.event = "delta", !.delta = t]
Result(s, r, c) ==
    [Blank EXCEPT !.event = "result", !.status = s, !.response = r, !.conv = c]
ErrorLine == [Blank EXCEPT !.event = "error"]
HugeLine == [Blank EXCEPT !.event = "huge"]

\* Every kind of line, with one delta token: the protocol of a stream.
ProtocolLines ==
    {Blank, InitLine(NoConv), InitLine(c1), Delta("plain"), ErrorLine, HugeLine,
     Result("success", << >>, c1), Result("success", <<"plain">>, NoConv),
     Result("other", << >>, NoConv)}

\* Answers made of every token.
ToolLines ==
    {Delta(t) : t \in Token}
    \union {Result("success", r, NoConv) :
               r \in {<< >>, <<"plain">>, <<"fence", "call">>, <<"json", "call">>}}

\* A tool call, with or without prose before its fence.
ProseLines ==
    {Delta(t) : t \in {"plain", "fence", "call"}} \union {Result("success", << >>, NoConv)}

Pipes == SUBSET {"stdout", "stderr"}

NoHelpers == {}
AnyHelper == [inGroup : BOOLEAN, pipes : Pipes \ {{}}]

=============================================================================
