----------------------- MODULE MCCompletionExecution -----------------------
(***************************************************************************)
(* Results of either status, with and without a conversation, and a        *)
(* response that is a bare array of calls.                                 *)
(***************************************************************************)
EXTENDS CompletionExecution

Says(status, response, conv) == [status |-> status, response |-> response, conv |-> conv]

MCLines ==
    {Junk, Says("other", << >>, NoConv)}
    \union {Says("success", r, c) :
               r \in {<<"plain">>, <<"bracket", "call">>}, c \in Conversations \union {NoConv}}

AnyHelper == [inGroup : BOOLEAN, pipes : SUBSET {"stdout", "stderr"}]
=============================================================================
