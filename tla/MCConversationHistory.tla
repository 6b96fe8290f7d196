----------------------- MODULE MCConversationHistory -----------------------
(***************************************************************************)
(* Every single place that may name the conversation, alone and behind     *)
(* blank ones; a client that rewrites one message, and in the last states  *)
(* a second.                                                               *)
(***************************************************************************)
EXTENDS ConversationHistory, FiniteSets, TLC

Nowhere == [conversationID |-> "none", sessionID |-> "none", headers |-> << >>,
            metadata |-> << >>]

MCShapes ==
    {Nowhere,
     [Nowhere EXCEPT !.conversationID = "named"],
     [Nowhere EXCEPT !.conversationID = "blank", !.sessionID = "named"],
     [Nowhere EXCEPT !.headers = <<"none", "named">>],
     [Nowhere EXCEPT !.headers = <<"blank", "named">>],
     [Nowhere EXCEPT !.headers = <<"blank">>, !.metadata = <<"none", "named">>]}

Symmetric == Permutations(Conversations)

\* Bound: what the client puts before, or as, an answer.
FewRewrites == Cardinality(rewritten) <= 1
=============================================================================
