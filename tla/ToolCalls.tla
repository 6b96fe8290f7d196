----------------------------- MODULE ToolCalls -----------------------------
(***************************************************************************)
(* How a model answer is recognised as a tool call.                        *)
(*                                                                         *)
(* A text is the sequence of the deltas it arrived in.  A delta is one of  *)
(* a few tokens: just the pieces the two recognisers of the code tell      *)
(* apart, the prefix test of executeStream (agy.go) and extractToolCalls   *)
(* (openai.go).                                                            *)
(*                                                                         *)
(*   plain     prose that opens no block                                   *)
(*   fence     ```tool_calls                                               *)
(*   json      ```json                                                     *)
(*   half      ``, the first half of a fence that a delta boundary cuts;   *)
(*             rest (`tool_calls) or jrest (`json) is its other half       *)
(*   bracket   [                                                           *)
(*   brace     {                                                           *)
(*   call      what turns the block opened just before it into a complete, *)
(*             closed and named call                                       *)
(***************************************************************************)
EXTENDS Naturals, Sequences

Token == {"plain", "fence", "json", "half", "rest", "jrest", "bracket", "brace", "call"}

\* The tool_calls fence stands at position i of text, in one delta or in two.
FenceAt(text, i) ==
    \/ text[i] = "fence"
    \/ /\ text[i] = "half"
       /\ i < Len(text)
       /\ text[i + 1] = "rest"

\* The position just after the fence that starts at position i.
AfterFence(text, i) == IF text[i] = "fence" THEN i + 1 ELSE i + 2

FirstFence(text) ==
    CHOOSE i \in DOMAIN text :
        /\ FenceAt(text, i)
        /\ \A j \in 1 .. (i - 1) : ~FenceAt(text, j)

\* The ```json fence opens the text, in one delta or in two.
OpensWithJson(text) ==
    \/ text[1] = "json"
    \/ text[1] = "half" /\ Len(text) > 1 /\ text[2] = "jrest"

\* What the streaming loop holds back: the text so far starts with one of the
\* three openers of the prefix test.
LooksLikeToolCall(text) ==
    /\ text # << >>
    /\ FenceAt(text, 1) \/ OpensWithJson(text) \/ text[1] = "bracket"

\* extractToolCalls: a tool_calls fence anywhere decides alone; else a ```json
\* block, or a bare array or object that is the whole text.
IsToolCall(text) ==
    LET CallAt(i) == i \in DOMAIN text /\ text[i] = "call" IN
    IF \E i \in DOMAIN text : FenceAt(text, i)
    THEN CallAt(AfterFence(text, FirstFence(text)))
    ELSE \/ CallAt(2) /\ text[1] = "json"
         \/ CallAt(3) /\ OpensWithJson(text) /\ text[1] = "half"
         \/ CallAt(2) /\ text[1] \in {"bracket", "brace"} /\ Len(text) = 2
=============================================================================
