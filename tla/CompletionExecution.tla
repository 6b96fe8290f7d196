------------------------ MODULE CompletionExecution ------------------------
(***************************************************************************)
(* One non-streaming request: runAgyJSON and makeChatCompletion with the   *)
(* agy process, its deadline and what agy leaves behind.                   *)
(*                                                                         *)
(* os/exec copies both stdout and stderr here, so the wait delay bounds    *)
(* every wait.  A line of the model is a line agy prints, or the one       *)
(* object it prints over several lines when it prints nothing else.  The   *)
(* prompt is that of ConversationHistory, the registry ProcessRegistry's.  *)
(***************************************************************************)
EXTENDS ToolCalls

CONSTANTS
    Conversations,  \* the ids agy may name
    NoConv,         \* no id
    Lines,          \* the lines agy may print
    Helpers,        \* the helpers agy may leave behind
    MaxLines        \* bound: the lines agy prints in one run

\* A process agy leaves behind, as in StreamExecution.
Helper == [inGroup : BOOLEAN, pipes : SUBSET {"stdout", "stderr"}]

NoHelper == [inGroup |-> FALSE, pipes |-> {}]

\* "none" is the status of a line that is no result object.
Line == [status : {"none", "success", "other"}, response : Seq(Token),
         conv : Conversations \union {NoConv}]

Junk == [status |-> "none", response |-> << >>, conv |-> NoConv]

ASSUME NoConvAssumption  == NoConv \notin Conversations
ASSUME LinesAssumption   == Lines \subseteq Line
ASSUME HelpersAssumption == Helpers \subseteq Helper
ASSUME BoundAssumption   == MaxLines \in Nat

\* What the client is answered.
Reply == [kind : {"none", "message", "tool_calls", "error"}, response : Seq(Token),
          conv : Conversations \union {NoConv}]

NoReply == [kind |-> "none", response |-> << >>, conv |-> NoConv]
Failure == [NoReply EXCEPT !.kind = "error"]

VARIABLES
    hasTools,   \* the request offers tools
    unix,       \* the build: process_unix.go, or process_windows.go
    pc, errWait, registered,
    proc, exit, helper,
    stdout,     \* the buffer agy's output is copied to
    ctx,        \* the context: "live", or "done" after its deadline
    reply

input   == <<hasTools, unix>>
process == <<proc, exit, helper>>
vars    == <<input, pc, errWait, registered, process, stdout, ctx, reply>>

Init ==
    /\ hasTools \in BOOLEAN /\ unix \in BOOLEAN
    /\ pc = "start" /\ errWait = FALSE /\ registered = FALSE
    /\ proc = "none" /\ exit = "none" /\ helper = NoHelper
    /\ stdout = << >>
    /\ ctx = "live"
    /\ reply = NoReply

-----------------------------------------------------------------------------

\* The binary is not allowed, or Start fails.
StartFails ==
    /\ pc = "start"
    /\ reply' = Failure
    /\ pc' = "done"
    /\ UNCHANGED <<input, errWait, registered, process, stdout, ctx>>

Start ==
    /\ pc = "start"
    /\ proc' = "running"
    /\ pc' = "add"
    /\ UNCHANGED <<input, errWait, registered, exit, helper, stdout, ctx, reply>>

Add ==
    /\ pc = "add"
    /\ registered' = TRUE
    /\ pc' = "wait"
    /\ UNCHANGED <<input, errWait, process, stdout, ctx, reply>>

\* cmd.Wait: the process ends.  An error of the context counts from here.
Reap ==
    /\ pc = "wait"
    /\ proc = "zombie"
    /\ proc' = "reaped"
    /\ errWait' = (exit # "clean" \/ ctx = "done")
    /\ pc' = "drain"
    /\ UNCHANGED <<input, registered, exit, helper, stdout, ctx, reply>>

\* Then the copies of its output end, when nobody holds its pipes ...
Drained ==
    /\ pc = "drain"
    /\ helper.pipes = {}
    /\ pc' = "remove"
    /\ UNCHANGED <<input, errWait, registered, process, stdout, ctx, reply>>

\* Mutant: no wait delay was set.
DelayNeverElapses == FALSE

\* ... or the wait delay is over: exec.ErrWaitDelay.
DelayElapses ==
    /\ pc = "drain"
    /\ helper.pipes # {}
    /\ errWait' = TRUE
    /\ pc' = "remove"
    /\ UNCHANGED <<input, registered, process, stdout, ctx, reply>>

Remove ==
    /\ pc = "remove"
    /\ registered' = FALSE
    /\ pc' = "settle"
    /\ UNCHANGED <<input, errWait, process, stdout, ctx, reply>>

-----------------------------------------------------------------------------
(* Settling the answer. *)

\* parseAgyJSONOutput: the last object with a status counts.
IsLast(i) ==
    /\ stdout[i].status # "none"
    /\ \A j \in (i + 1) .. Len(stdout) : stdout[j].status = "none"

Result ==
    IF \E i \in DOMAIN stdout : IsLast(i)
    THEN stdout[CHOOSE i \in DOMAIN stdout : IsLast(i)]
    ELSE Junk

\* Mutant: a SUCCESS result outweighs the error of cmd.Wait.
RejectedByStatus == Result.status # "success"

\* No result, one that is not a SUCCESS, or a bad end.
Rejected == Result.status # "success" \/ errWait

\* makeChatCompletion looks for tool calls whether or not tools were offered.
Completion ==
    [kind |-> IF IsToolCall(Result.response) THEN "tool_calls" ELSE "message",
     response |-> Result.response, conv |-> Result.conv]

Settle ==
    /\ pc = "settle"
    /\ reply' = IF Rejected THEN Failure ELSE Completion
    /\ pc' = "done"
    /\ UNCHANGED <<input, errWait, registered, process, stdout, ctx>>

-----------------------------------------------------------------------------
(* agy, what it leaves behind, and those who kill it. *)

Write ==
    /\ proc = "running"
    /\ Len(stdout) < MaxLines
    /\ \E line \in Lines : stdout' = Append(stdout, line)
    /\ UNCHANGED <<input, pc, errWait, registered, process, ctx, reply>>

Exit ==
    /\ proc = "running"
    /\ proc' = "zombie"
    /\ exit' \in {"clean", "failed"}
    /\ helper' \in Helpers \union {NoHelper}
    /\ UNCHANGED <<input, pc, errWait, registered, stdout, ctx, reply>>

HelperExits ==
    /\ helper # NoHelper
    /\ helper' = NoHelper
    /\ UNCHANGED <<input, pc, errWait, registered, proc, exit, stdout, ctx, reply>>

\* killProcessTree and cmd.Cancel: the group on Unix, agy alone on Windows.
KillProcessTree ==
    LET Survives(h) == ~(unix /\ h.inGroup) IN
    IF proc = "running"
    THEN /\ proc' = "zombie" /\ exit' = "killed"
         /\ helper' \in {h \in Helpers \union {NoHelper} : Survives(h)}
    ELSE /\ helper' = IF Survives(helper) THEN helper ELSE NoHelper
         /\ UNCHANGED <<proc, exit>>

\* The deadline of the request's own context, while cmd.Wait watches it.
Timeout ==
    /\ ctx = "live"
    /\ proc \in {"running", "zombie"}
    /\ ctx' = "done"
    /\ KillProcessTree
    /\ UNCHANGED <<input, pc, errWait, registered, stdout, reply>>

ShutdownKill ==
    /\ registered
    /\ KillProcessTree
    /\ UNCHANGED <<input, pc, errWait, registered, stdout, ctx, reply>>

-----------------------------------------------------------------------------

Call == \/ StartFails \/ Start \/ Add \/ Reap \/ Drained \/ DelayElapses
        \/ Remove \/ Settle

Environment == Write \/ Exit \/ HelperExits \/ Timeout \/ ShutdownKill

Next == Call \/ Environment

Spec == Init /\ [][Next]_vars

\* The caller's thread runs, and the context expires.
FairSpec == Spec /\ WF_vars(Call) /\ WF_vars(Timeout)

-----------------------------------------------------------------------------
(* Properties. *)

\* Every variable has its type.
TypeOK ==
    /\ hasTools \in BOOLEAN /\ unix \in BOOLEAN
    /\ pc \in {"start", "add", "wait", "drain", "remove", "settle", "done"}
    /\ errWait \in BOOLEAN /\ registered \in BOOLEAN
    /\ proc \in {"none", "running", "zombie", "reaped"}
    /\ exit \in {"none", "clean", "failed", "killed"}
    /\ helper \in Helper
    /\ stdout \in Seq(Line) /\ Len(stdout) <= MaxLines
    /\ ctx \in {"live", "done"}
    /\ reply \in Reply

\* A clean run: agy ended by itself with exit code 0, before the deadline and
\* any kill, let go of its pipes in time, and said SUCCESS last.
Clean ==
    /\ proc = "reaped" /\ exit = "clean" /\ ctx = "live" /\ ~errWait
    /\ stdout # << >>
    /\ \E i \in DOMAIN stdout :
           /\ stdout[i].status = "success"
           /\ \A j \in (i + 1) .. Len(stdout) : stdout[j].status = "none"

Run ==
    IF pc \in {"settle", "done"} THEN (IF Clean THEN "clean" ELSE "bad") ELSE "going"

Told == CASE reply.kind = "none"  -> "nothing"
          [] reply.kind = "error" -> "error"
          [] OTHER -> "answer"

\* A completion is answered when, and only when, its run was clean.
Contract == INSTANCE RunContract WITH run <- Run, told <- Told

ImplementsRunContract == Contract!RunSpec

\* Every request is answered, on either build, whatever agy does and whoever
\* keeps its pipes: the wait delay bounds what the kill does not reach.
EveryCallIsAnswered == <>(pc = "done" /\ reply.kind # "none")

\* The client is given tool calls only when it offered tools (README, "When
\* client applications provide OpenAI tools[], the plugin activates structured
\* tool-calling mode").
ToolCallsWhenOffered == reply.kind = "tool_calls" => hasTools

-----------------------------------------------------------------------------
(* The inductive invariant. *)

\* Where the call is tells how far its process is, and when cmd.Wait returned
\* without an error the process had ended by itself, before the deadline.
CommandFollows ==
    /\ pc = "start" => proc = "none"
    /\ pc \in {"add", "wait"} => proc \in {"running", "zombie"}
    /\ pc \in {"drain", "remove", "settle"} =>
           proc = "reaped" /\ (errWait \/ (exit = "clean" /\ ctx = "live"))
    /\ pc = "done" => proc \in {"none", "reaped"}

\* The client is answered in the last step only.
ReplyFollows == reply.kind = "none" <=> pc # "done"

Inv == TypeOK /\ CommandFollows /\ ReplyFollows
=============================================================================
