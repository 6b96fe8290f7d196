--------------------------- MODULE StreamContract ---------------------------
(***************************************************************************)
(* What a streamed chat completion promises the host, whatever the agy     *)
(* process behind it does: an OpenAI event stream that opens with the role *)
(* delta, carries content, ends once, and in which an error and a finished *)
(* answer exclude each other.                                              *)
(*                                                                         *)
(* A chunk is known here by its kind alone.  The host may refuse a chunk   *)
(* (it answers the emit with an error: the client went away); a refused    *)
(* chunk is lost.                                                          *)
(***************************************************************************)
EXTENDS Naturals, Sequences

VARIABLES
    wire,      \* the kinds of the chunks the host accepted, in order
    lost,      \* the kinds of the chunks it refused
    closed     \* "no", "ok" (closed without an error) or "error"

contractVars == <<wire, lost, closed>>

Kind == {"role", "content", "tool_calls", "finish", "usage", "done"}

\* The kinds the stream has tried to send, accepted or not.
Tried == {wire[i] : i \in DOMAIN wire} \union lost

\* A refusal ends the stream, unless it hit the text of an answer that was
\* buffered, or any chunk of a tool call.
GivenUp == lost \ {"content"} # {} /\ "tool_calls" \notin Tried

ContractTypeOK ==
    /\ wire \in Seq(Kind)
    /\ lost \in SUBSET Kind
    /\ closed \in {"no", "ok", "error"}

ContractInit ==
    /\ wire = << >>
    /\ lost = {}
    /\ closed = "no"

\* A chunk of kind k may be the next one.
MayFollow(k) ==
    CASE k = "role"       -> Tried = {}
      [] k = "content"    -> Tried \subseteq {"role", "content"}
                             /\ "role" \in Tried /\ "content" \notin lost
      [] k = "tool_calls" -> Tried \subseteq {"role", "content"} /\ "role" \in Tried
      [] k = "finish"     -> Tried \subseteq {"role", "content", "tool_calls"}
                             /\ "role" \in Tried
      [] k = "usage"      -> Tried \intersect {"finish", "tool_calls"} # {}
                             /\ Tried \intersect {"usage", "done"} = {}
      [] k = "done"       -> Tried \intersect {"finish", "usage"} # {}
                             /\ "done" \notin Tried

Send(k) ==
    /\ closed = "no"
    /\ ~GivenUp
    /\ MayFollow(k)
    /\ \/ wire' = Append(wire, k) /\ UNCHANGED lost
       \/ lost' = lost \union {k} /\ UNCHANGED wire
    /\ UNCHANGED closed

\* A finished answer is closed after [DONE], and only then.
CloseFinished ==
    /\ closed = "no"
    /\ ~GivenUp
    /\ "done" \in Tried
    /\ closed' = "ok"
    /\ UNCHANGED <<wire, lost>>

\* An error closes a stream that nobody was told is finished, and that lost
\* nothing.
CloseFailed ==
    /\ closed = "no"
    /\ lost = {}
    /\ Tried \subseteq {"role", "content"}
    /\ closed' = "error"
    /\ UNCHANGED <<wire, lost>>

ContractNext == (\E k \in Kind : Send(k)) \/ CloseFinished \/ CloseFailed

ContractSpec == ContractInit /\ [][ContractNext]_contractVars
=============================================================================
