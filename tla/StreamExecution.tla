--------------------------- MODULE StreamExecution ---------------------------
(***************************************************************************)
(* One streaming request: the goroutine executeStream (agy.go), the agy    *)
(* process it runs, the pipe between them, the deadline of its context and *)
(* the host that takes its chunks.                                         *)
(*                                                                         *)
(* agy, the helpers it leaves behind and the host are the environment:     *)
(* agy prints any lines, exits or hangs, and may leave a helper that keeps *)
(* its pipes open; the host refuses any chunk.  "stderr" stands for both   *)
(* pipes that goroutines of os/exec copy (stdin and stderr); "stdout" is   *)
(* the pipe the scanner reads itself.                                      *)
(***************************************************************************)
EXTENDS ToolCalls

CONSTANTS
    Conversations,   \* the conversation ids agy or the request may name
    NoConv,          \* no conversation id (the empty string)
    Lines,           \* the lines agy may print
    Helpers,         \* the helpers agy may leave behind
    MaxLines,        \* bound: the lines agy prints in one run
    PipeCap          \* bound: the lines the pipe holds

\* A process agy leaves behind: whether it stayed in agy's process group, and
\* which of agy's pipes it keeps open.
Helper == [inGroup : BOOLEAN, pipes : SUBSET {"stdout", "stderr"}]

NoHelper == [inGroup |-> FALSE, pipes |-> {}]

\* A line as the event switch sees it.  "junk" is every line the loop skips,
\* "huge" a line longer than the scanner's 8 MiB.
Line == [event    : {"junk", "init", "delta", "result", "error", "huge"},
         conv     : Conversations \union {NoConv},
         delta    : Token,
         status   : {"success", "other"},
         response : Seq(Token)]

ASSUME NoConvAssumption == NoConv \notin Conversations
ASSUME LinesAssumption  == Lines \subseteq Line
ASSUME HelpersAssumption == Helpers \subseteq Helper
ASSUME BoundsAssumption == MaxLines \in Nat /\ PipeCap \in Nat \ {0}

VARIABLES
    \* the request, fixed when the stream starts
    hasTools, wantsUsage,
    \* executeStream
    pc, conversationID, text, isToolCallStream, terminal, streamError,
    scanErr, waitErr, registered,
    \* the agy process and what it left behind
    proc, exit, helper, pipe, written,
    \* the context of the command: its deadline and the end of its wait delay
    ctx, pipeClosed,
    \* the stream at the host
    wire, lost, closed

request == <<hasTools, wantsUsage>>
answer  == <<conversationID, text, isToolCallStream, terminal, streamError>>
outcome == <<scanErr, waitErr, registered>>
process == <<proc, exit, helper>>
output  == <<pipe, written>>
timers  == <<ctx, pipeClosed>>
host    == <<wire, lost, closed>>
vars    == <<request, pc, answer, outcome, process, output, timers, host>>

Kinds == {"role", "content", "tool_calls", "finish", "usage", "done"}

\* What a chunk on the wire is made of.
ChunkType == [kind : Kinds,
              text : Seq(Token),
              conv : Conversations \union {NoConv}]

\* agyResult, as far as the stream looks at it.
AgyResult == [status : {"none", "success", "other"}, response : Seq(Token)]

NoResult == [status |-> "none", response |-> << >>]

Control == {"prepare", "register", "role", "scan", "wait", "settle",
            "toolFinish", "toolDone", "finish", "usage", "done", "close",
            "kill", "reap", "return", "end"}

Init ==
    /\ hasTools \in BOOLEAN /\ wantsUsage \in BOOLEAN
    /\ pc = "prepare"
    /\ conversationID \in Conversations \union {NoConv}
    /\ text = << >> /\ isToolCallStream = FALSE
    /\ terminal = NoResult /\ streamError = FALSE
    /\ scanErr = FALSE /\ waitErr = FALSE /\ registered = FALSE
    /\ proc = "none" /\ exit = "none" /\ helper = NoHelper
    /\ pipe = << >> /\ written = 0
    /\ ctx = "live" /\ pipeClosed = FALSE
    /\ wire = << >> /\ lost = {} /\ closed = "no"

-----------------------------------------------------------------------------
(* Talking to the host. *)

\* makeSSEChunk: the conversation id goes with every chunk but [DONE].
Chunk(kind, txt) ==
    [kind |-> kind, text |-> txt,
     conv |-> IF kind = "done" THEN NoConv ELSE conversationID]

\* emitPluginStreamChunk: the host takes the chunk, or the call fails.
Emit(kind, txt, accepted, refused) ==
    /\ \/ wire' = Append(wire, Chunk(kind, txt)) /\ lost' = lost /\ pc' = accepted
       \/ lost' = lost \union {kind} /\ wire' = wire /\ pc' = refused
    /\ UNCHANGED closed

\* closePluginStream, whose own failure nobody looks at.
CloseStream(how, next) ==
    /\ closed' = how
    /\ pc' = next
    /\ UNCHANGED <<wire, lost>>

\* Mutant: the signal goes to agy alone, not to its group.
KillLeaderOnly ==
    /\ IF proc = "running"
       THEN proc' = "zombie" /\ exit' = "killed"
       ELSE UNCHANGED <<proc, exit>>
    /\ UNCHANGED helper

\* killProcessTree and cmd.Cancel: SIGKILL to the group that agy leads.
KillProcessTree ==
    IF proc = "running"
    THEN /\ proc' = "zombie" /\ exit' = "killed"
         /\ helper' \in {h \in Helpers \union {NoHelper} : ~h.inGroup}
    ELSE /\ helper' = IF helper.inGroup THEN NoHelper ELSE helper
         /\ UNCHANGED <<proc, exit>>

-----------------------------------------------------------------------------
(* Starting. *)

\* The prompt, the command, the pipe or Start fails.
PrepareFails ==
    /\ pc = "prepare"
    /\ CloseStream("error", "end")
    /\ UNCHANGED <<request, answer, outcome, process, output, timers>>

Start ==
    /\ pc = "prepare"
    /\ proc' = "running"
    /\ pc' = "register"
    /\ UNCHANGED <<request, answer, outcome, exit, helper, output, timers, host>>

Register ==
    /\ pc = "register"
    /\ registered' = TRUE
    /\ pc' = "role"
    /\ UNCHANGED <<request, answer, scanErr, waitErr, process, output, timers, host>>

EmitRole ==
    /\ pc = "role"
    /\ Emit("role", << >>, "scan", "kill")
    /\ UNCHANGED <<request, answer, outcome, process, output, timers>>

-----------------------------------------------------------------------------
(* The scan loop. *)

ReadLine(event) ==
    /\ pc = "scan"
    /\ pipe # << >>
    /\ Head(pipe).event = event
    /\ pipe' = Tail(pipe)
    /\ UNCHANGED <<request, waitErr, registered, process, written, timers>>

Named(conv) == IF conv # NoConv THEN conv ELSE conversationID

SkipLine ==
    /\ ReadLine("junk")
    /\ UNCHANGED <<pc, answer, scanErr, host>>

\* Mutant: an init event without an id resets the one already known.
ScanInitResets ==
    /\ ReadLine("init")
    /\ conversationID' = Head(pipe).conv
    /\ UNCHANGED <<pc, text, isToolCallStream, terminal, streamError, scanErr, host>>

ScanInit ==
    /\ ReadLine("init")
    /\ conversationID' = Named(Head(pipe).conv)
    /\ UNCHANGED <<pc, text, isToolCallStream, terminal, streamError, scanErr, host>>

TextSoFar == Append(text, Head(pipe).delta)

\* Mutant: each delta is looked at alone.
HeldByDelta == hasTools /\ LooksLikeToolCall(<<Head(pipe).delta>>)

\* Once one prefix of the text looked like a tool call, all of it is held back.
Held == isToolCallStream \/ (hasTools /\ LooksLikeToolCall(TextSoFar))

HoldDelta ==
    /\ ReadLine("delta")
    /\ Held
    /\ text' = TextSoFar
    /\ isToolCallStream' = TRUE
    /\ UNCHANGED <<pc, conversationID, terminal, streamError, scanErr, host>>

StreamDelta ==
    /\ ReadLine("delta")
    /\ ~Held
    /\ text' = TextSoFar
    /\ Emit("content", <<Head(pipe).delta>>, "scan", "kill")
    /\ UNCHANGED <<conversationID, isToolCallStream, terminal, streamError, scanErr>>

\* Mutant: the event itself is kept where its result belongs.
ScanResultEvent ==
    /\ ReadLine("result")
    /\ terminal' = Head(pipe)
    /\ conversationID' = Named(Head(pipe).conv)
    /\ UNCHANGED <<pc, text, isToolCallStream, streamError, scanErr, host>>

\* A result event, or a bare object with a status: the last one counts.
ScanResult ==
    /\ ReadLine("result")
    /\ terminal' = [status |-> Head(pipe).status, response |-> Head(pipe).response]
    /\ conversationID' = Named(Head(pipe).conv)
    /\ UNCHANGED <<pc, text, isToolCallStream, streamError, scanErr, host>>

ScanError ==
    /\ ReadLine("error")
    /\ streamError' = TRUE
    /\ UNCHANGED <<pc, conversationID, text, isToolCallStream, terminal, scanErr, host>>

\* bufio.ErrTooLong: the loop ends and nobody reads the pipe any more.
ScanTooLong ==
    /\ ReadLine("huge")
    /\ scanErr' = TRUE
    /\ pc' = "wait"
    /\ UNCHANGED <<answer, host>>

\* End of file: no process holds the write end any more.
EndOfOutput ==
    /\ pc = "scan"
    /\ pipe = << >>
    /\ proc # "running" /\ "stdout" \notin helper.pipes
    /\ pc' = "wait"
    /\ UNCHANGED <<request, answer, outcome, process, output, timers, host>>

\* The wait delay closed the read end under the scanner.
ReadFails ==
    /\ pc = "scan"
    /\ pipeClosed
    /\ scanErr' = TRUE
    /\ pc' = "wait"
    /\ UNCHANGED <<request, answer, waitErr, registered, process, output, timers, host>>

\* cmd.Wait reports a bad exit, the context's end if that came first, or a
\* stderr that a helper kept open past the wait delay.
Wait ==
    /\ pc = "wait"
    /\ proc = "zombie"
    /\ proc' = "reaped"
    /\ waitErr' = (exit # "clean" \/ ctx = "done" \/ "stderr" \in helper.pipes)
    /\ pc' = "settle"
    /\ UNCHANGED <<request, answer, scanErr, registered, exit, helper, output, timers, host>>

-----------------------------------------------------------------------------
(* Settling the answer. *)

\* Mutant: a SUCCESS result outweighs the error of cmd.Wait.
RejectedByResult == scanErr \/ streamError \/ terminal.status # "success"

\* Mutant: an answer without a text is an error too.
RejectedIfEmpty ==
    \/ scanErr \/ streamError \/ waitErr \/ terminal.status # "success"
    \/ text = << >>

Rejected == scanErr \/ streamError \/ waitErr \/ terminal.status # "success"

FullResponse == IF terminal.response # << >> THEN terminal.response ELSE text

IsToolAnswer == hasTools /\ IsToolCall(FullResponse)

\* Mutant: without a result event the goroutine returns and closes nothing.
CloseUnlessNoResult ==
    /\ pc = "settle"
    /\ Rejected
    /\ IF terminal = NoResult
       THEN pc' = "return" /\ UNCHANGED host
       ELSE CloseStream("error", "return")
    /\ UNCHANGED <<request, answer, outcome, process, output, timers>>

CloseWithError ==
    /\ pc = "settle"
    /\ Rejected
    /\ CloseStream("error", "return")
    /\ UNCHANGED <<request, answer, outcome, process, output, timers>>

\* The chunks of a tool call: a refusal of any of them goes unnoticed.
EmitToolCalls ==
    /\ pc = "settle"
    /\ ~Rejected /\ IsToolAnswer
    /\ Emit("tool_calls", FullResponse, "toolFinish", "toolFinish")
    /\ UNCHANGED <<request, answer, outcome, process, output, timers>>

\* With usage, makeSSEChunk empties the choices and the finish reason is gone.
EmitToolFinish ==
    /\ pc = "toolFinish"
    /\ Emit(IF wantsUsage THEN "usage" ELSE "finish", << >>, "toolDone", "toolDone")
    /\ UNCHANGED <<request, answer, outcome, process, output, timers>>

EmitToolDone ==
    /\ pc = "toolDone"
    /\ Emit("done", << >>, "close", "close")
    /\ UNCHANGED <<request, answer, outcome, process, output, timers>>

\* What was held back and is no tool call after all; a refusal goes unnoticed.
EmitHeldText ==
    /\ pc = "settle"
    /\ ~Rejected /\ ~IsToolAnswer
    /\ isToolCallStream /\ text # << >>
    /\ Emit("content", text, "finish", "finish")
    /\ UNCHANGED <<request, answer, outcome, process, output, timers>>

\* An answer that came without deltas, in the result event alone.
EmitResponse ==
    /\ pc = "settle"
    /\ ~Rejected /\ ~IsToolAnswer
    /\ text = << >> /\ terminal.response # << >>
    /\ Emit("content", terminal.response, "finish", "return")
    /\ UNCHANGED <<request, answer, outcome, process, output, timers>>

\* Mutant: what was held back is not sent after all.
HeldIsDropped ==
    /\ pc = "settle"
    /\ ~Rejected /\ ~IsToolAnswer
    /\ ~(text = << >> /\ terminal.response # << >>)
    /\ pc' = "finish"
    /\ UNCHANGED <<request, answer, outcome, process, output, timers, host>>

\* Everything was streamed already.
NothingHeld ==
    /\ pc = "settle"
    /\ ~Rejected /\ ~IsToolAnswer
    /\ ~(isToolCallStream /\ text # << >>)
    /\ ~(text = << >> /\ terminal.response # << >>)
    /\ pc' = "finish"
    /\ UNCHANGED <<request, answer, outcome, process, output, timers, host>>

\* Mutant: the stream goes on after the host refused its finish reason.
EmitFinishAnyway ==
    /\ pc = "finish"
    /\ LET next == IF wantsUsage THEN "usage" ELSE "done"
       IN  Emit("finish", << >>, next, next)
    /\ UNCHANGED <<request, answer, outcome, process, output, timers>>

EmitFinish ==
    /\ pc = "finish"
    /\ Emit("finish", << >>, IF wantsUsage THEN "usage" ELSE "done", "return")
    /\ UNCHANGED <<request, answer, outcome, process, output, timers>>

EmitUsage ==
    /\ pc = "usage"
    /\ Emit("usage", << >>, "done", "return")
    /\ UNCHANGED <<request, answer, outcome, process, output, timers>>

EmitDone ==
    /\ pc = "done"
    /\ Emit("done", << >>, "close", "return")
    /\ UNCHANGED <<request, answer, outcome, process, output, timers>>

Close ==
    /\ pc = "close"
    /\ CloseStream("ok", "return")
    /\ UNCHANGED <<request, answer, outcome, process, output, timers>>

-----------------------------------------------------------------------------
(* Giving up: the host refused the role or a delta while agy was running. *)

KillOnRefusal ==
    /\ pc = "kill"
    /\ KillProcessTree
    /\ pc' = "reap"
    /\ UNCHANGED <<request, answer, outcome, output, timers, host>>

\* Mutant: the killed process is not waited for.
ReturnWithoutWait ==
    /\ pc = "reap"
    /\ pc' = "return"
    /\ UNCHANGED <<request, answer, outcome, process, output, timers, host>>

ReapOnRefusal ==
    /\ pc = "reap"
    /\ proc = "zombie"
    /\ proc' = "reaped"
    /\ pc' = "return"
    /\ UNCHANGED <<request, answer, outcome, exit, helper, output, timers, host>>

\* The deferred remove.
Return ==
    /\ pc = "return"
    /\ registered' = FALSE
    /\ pc' = "end"
    /\ UNCHANGED <<request, answer, scanErr, waitErr, process, output, timers, host>>

-----------------------------------------------------------------------------
(* agy, its helpers, the context and the plugin's shutdown. *)

Write ==
    /\ proc = "running"
    /\ written < MaxLines /\ Len(pipe) < PipeCap
    /\ \E line \in Lines : pipe' = Append(pipe, line)
    /\ written' = written + 1
    /\ UNCHANGED <<request, pc, answer, outcome, process, timers, host>>

Exit ==
    /\ proc = "running"
    /\ proc' = "zombie"
    /\ exit' \in {"clean", "failed"}
    /\ helper' \in Helpers \union {NoHelper}
    /\ UNCHANGED <<request, pc, answer, outcome, output, timers, host>>

HelperExits ==
    /\ helper # NoHelper
    /\ helper' = NoHelper
    /\ UNCHANGED <<request, pc, answer, outcome, proc, exit, output, timers, host>>

\* The context expires before Wait has reaped agy: cmd.Cancel kills the group.
Timeout ==
    /\ ctx = "live"
    /\ proc \in {"running", "zombie"}
    /\ ctx' = "done"
    /\ KillProcessTree
    /\ UNCHANGED <<request, pc, answer, outcome, output, pipeClosed, host>>

\* WaitDelay after that, os/exec closes its pipes if it still copies from one.
WaitDelayElapses ==
    /\ ctx = "done"
    /\ proc = "zombie" /\ "stderr" \in helper.pipes
    /\ ~pipeClosed
    /\ pipeClosed' = TRUE
    /\ UNCHANGED <<request, pc, answer, outcome, process, output, ctx, host>>

\* cliproxyPluginShutdown reaches this command through the registry.
ShutdownKill ==
    /\ registered
    /\ KillProcessTree
    /\ UNCHANGED <<request, pc, answer, outcome, output, timers, host>>

-----------------------------------------------------------------------------

Scan == \/ SkipLine \/ ScanInit \/ HoldDelta \/ StreamDelta \/ ScanResult
        \/ ScanError \/ ScanTooLong \/ EndOfOutput \/ ReadFails

Settle == \/ CloseWithError \/ EmitToolCalls \/ EmitToolFinish \/ EmitToolDone
          \/ EmitHeldText \/ EmitResponse \/ NothingHeld
          \/ EmitFinish \/ EmitUsage \/ EmitDone \/ Close

Goroutine == \/ PrepareFails \/ Start \/ Register \/ EmitRole
             \/ Scan \/ Wait \/ Settle
             \/ KillOnRefusal \/ ReapOnRefusal \/ Return

Environment == \/ Write \/ Exit \/ HelperExits
               \/ Timeout \/ WaitDelayElapses \/ ShutdownKill

Next == Goroutine \/ Environment

Spec == Init /\ [][Next]_vars

\* The goroutine runs, and timers fire.  Nothing is asked of agy, of its
\* helpers or of the plugin's shutdown.
Fairness ==
    /\ WF_vars(Goroutine)
    /\ WF_vars(Timeout)
    /\ WF_vars(WaitDelayElapses)

FairSpec == Spec /\ Fairness

-----------------------------------------------------------------------------
(* Properties. *)

SentKinds == [i \in DOMAIN wire |-> wire[i].kind]

\* The kinds the host accepted, and those the stream has tried to send.
Sent == {wire[i].kind : i \in DOMAIN wire}
Tried == Sent \union lost

ContentAt == {i \in DOMAIN wire : wire[i].kind = "content"}

FlagsOK ==
    /\ hasTools \in BOOLEAN /\ wantsUsage \in BOOLEAN
    /\ isToolCallStream \in BOOLEAN
    /\ streamError \in BOOLEAN /\ scanErr \in BOOLEAN /\ waitErr \in BOOLEAN
    /\ registered \in BOOLEAN /\ pipeClosed \in BOOLEAN

StateOK ==
    /\ pc \in Control
    /\ conversationID \in Conversations \union {NoConv}
    /\ text \in Seq(Token)
    /\ terminal \in AgyResult
    /\ proc \in {"none", "running", "zombie", "reaped"}
    /\ exit \in {"none", "clean", "failed", "killed"}
    /\ helper \in Helper
    /\ pipe \in Seq(Line) /\ Len(pipe) <= PipeCap
    /\ written \in 0 .. MaxLines
    /\ ctx \in {"live", "done"}
    /\ wire \in Seq(ChunkType)
    /\ lost \in SUBSET Kinds
    /\ closed \in {"no", "ok", "error"}

\* Every variable has its type.
TypeOK == FlagsOK /\ StateOK

\* agy ended by itself with exit code 0, before the deadline and any kill, after
\* a SUCCESS result and without an error event.
CleanRun ==
    /\ proc = "reaped" /\ exit = "clean" /\ ctx = "live"
    /\ terminal.status = "success" /\ ~streamError /\ ~scanErr

\* A client is told that the answer is finished (a finish reason, usage, a
\* tool call, [DONE] or a clean close) only after a clean run of agy.
OnlyCleanRunsFinish ==
    Tried \intersect {"tool_calls", "finish", "usage", "done"} # {} \/ closed = "ok"
    => CleanRun

\* When the goroutine is gone, by whichever return, its agy has been waited
\* for and has left the registry: no zombie, no entry that shutdown would kill.
NothingLeftBehind ==
    pc = "end" => proc \in {"none", "reaped"} /\ ~registered

\* The goroutine never returns in silence: it closed the stream, or the host
\* itself refused a chunk.
HostIsTold ==
    pc = "end" => closed # "no" \/ lost # {}

\* The text of the answer is on the wire as a whole and once: delta by delta, or
\* in one piece when it was held back or came in the result alone.
Delivered ==
    \/ /\ ContentAt = 2 .. (Len(text) + 1)
       /\ \A i \in DOMAIN text : wire[i + 1].text = <<text[i]>>
       /\ text # << >> \/ terminal.response = << >>
    \/ text # << >> /\ ContentAt = {2} /\ wire[2].text = text
    \/ text = << >> /\ ContentAt = {2} /\ wire[2].text = terminal.response

\* The first delta ends within the fence that opens the answer.
FenceCut == text # << >> /\ text[1] = "half"

\* A finished answer without a tool call reached the client as a whole and
\* once, unless its first delta cut a fence in two (that delta then arrives
\* twice); and usage came exactly when it was asked for.
AnswerDelivered ==
    closed = "ok" /\ lost = {} /\ "tool_calls" \notin Sent
    => (~FenceCut => Delivered) /\ ("usage" \in Sent <=> wantsUsage)

\* The first delta is an opener of the prefix test: ```tool_calls, ```json or [.
OpenerFirst == text # << >> /\ LooksLikeToolCall(<<text[1]>>)

\* A tool call that the client was given had no part of it streamed as text
\* before, if it came in the result alone or its first delta was an opener of
\* the prefix test.  Any other was seen as text as well: a bare object, whose
\* brace is a call for extractToolCalls and no opener for the prefix test, a call
\* with prose before its fence, and one whose fence was cut by a delta.
OpenersAreHeld ==
    "tool_calls" \in Sent => (ContentAt = {} <=> (text = << >> \/ OpenerFirst))

\* Once a chunk named a conversation, every later one (but [DONE]) names one:
\* the client can always resume from the last chunk it saw.
ConversationSticks ==
    \A i, j \in DOMAIN wire :
        i < j /\ wire[i].conv # NoConv /\ wire[j].kind # "done" => wire[j].conv # NoConv

\* A tool call that was delivered to the end carries its finish reason.
ToolCallsFinish ==
    closed = "ok" /\ lost = {} /\ "tool_calls" \in Sent => "finish" \in Sent

\* executeStream keeps the stream contract.
Contract == INSTANCE StreamContract WITH wire <- SentKinds

ImplementsContract == Contract!ContractSpec

\* executeStream keeps the contract of every run: an answer for a clean run, an
\* error for any other, or silence when the host does not take the stream.
Run ==
    IF proc = "reaped" THEN (IF CleanRun /\ ~waitErr THEN "clean" ELSE "bad")
    ELSE IF closed = "error" THEN "bad" ELSE "going"

Told ==
    IF closed = "error" THEN "error"
    ELSE IF Tried \intersect {"tool_calls", "finish"} # {} THEN "answer" ELSE "nothing"

RunTold == INSTANCE RunContract WITH run <- Run, told <- Told

ImplementsRunContract == RunTold!RunSpec

\* The inductive invariant: where the goroutine is tells how far the process
\* is, whether it is registered, and what the host has seen.
Finishing == {"toolFinish", "toolDone", "finish", "usage", "done", "close"}

ProcessFollows ==
    /\ pc = "prepare" => proc = "none"
    /\ pc \in {"register", "role", "scan", "wait", "kill"} => proc \in {"running", "zombie"}
    /\ pc = "reap" => proc = "zombie"
    /\ pc \in Finishing \union {"settle", "return"} => proc = "reaped"
    /\ pc = "end" => proc \in {"none", "reaped"}
    /\ pc = "settle" /\ ~waitErr => exit = "clean" /\ ctx = "live"
    /\ pc \in Finishing => CleanRun /\ ~waitErr

RegistryFollows == pc \in {"prepare", "register", "end"} => ~registered

HostFollows ==
    /\ pc \in {"prepare", "register", "role"} => Tried = {}
    /\ pc \in {"scan", "wait", "settle"} =>
          Tried \subseteq {"role", "content"} /\ "role" \in Tried /\ lost = {}
    /\ pc \in {"kill", "reap"} => Tried \subseteq {"role", "content"} /\ lost # {}
    /\ pc = "toolFinish" =>
          /\ Tried \subseteq {"role", "content", "tool_calls"}
          /\ "role" \in Tried /\ "tool_calls" \in Tried
    /\ pc = "toolDone" =>
          /\ "tool_calls" \in Tried /\ "done" \notin Tried
          /\ Tried \intersect {"finish", "usage"} # {}
    /\ pc = "finish" =>
          /\ Tried \subseteq {"role", "content"} /\ "role" \in Tried
          /\ lost \subseteq {"content"}
    /\ pc = "usage" =>
          /\ Tried \subseteq {"role", "content", "finish"} /\ "finish" \in Tried
          /\ lost \subseteq {"content"}
    /\ pc = "done" =>
          "finish" \in Tried /\ "done" \notin Tried /\ lost \subseteq {"content"}
    /\ pc = "close" =>
          "done" \in Tried /\ ("tool_calls" \in Tried \/ lost \subseteq {"content"})
    /\ pc \in {"return", "end"} => closed # "no" \/ lost # {}
    /\ pc \notin {"return", "end"} => closed = "no"

Inv ==
    /\ TypeOK
    /\ ProcessFollows
    /\ RegistryFollows
    /\ HostFollows
    /\ OnlyCleanRunsFinish

-----------------------------------------------------------------------------
(* What is on the wire. *)

\* Until the answer is settled the wire holds the role, and the text as far as
\* it was not held back; what begins like a tool call was held back at once.
WireFollows ==
    /\ pipe \in Seq(Lines)
    /\ pc \in {"prepare", "register", "role"} => text = << >> /\ ~isToolCallStream
    /\ pc \in {"scan", "wait", "settle"} =>
          /\ wire # << >> /\ wire[1].kind = "role"
          /\ isToolCallStream => hasTools /\ text # << >>
          /\ ~isToolCallStream =>
                /\ Len(wire) = Len(text) + 1
                /\ \A i \in DOMAIN text :
                      wire[i + 1].kind = "content" /\ wire[i + 1].text = <<text[i]>>
          /\ hasTools /\ OpenerFirst => isToolCallStream /\ Len(wire) = 1
          /\ text # << >> /\ ~OpenerFirst => Len(wire) > 1 /\ wire[2].kind = "content"
          /\ isToolCallStream /\ ~FenceCut => Len(wire) = 1

\* From then on the whole answer is there, and usage is sent in its place.
AnswerFollows ==
    /\ OpenersAreHeld
    /\ pc = "usage" => wantsUsage
    /\ pc \in {"done", "close"} /\ lost = {} /\ "tool_calls" \notin Sent =>
          ("usage" \in Sent <=> wantsUsage)
    /\ pc \in Finishing /\ lost = {} /\ "tool_calls" \notin Sent /\ ~FenceCut => Delivered
    /\ AnswerDelivered

WireInv == WireFollows /\ AnswerFollows

\* Every stream ends, however agy and the host behave, unless a helper that has
\* left agy's group holds stdout, and nothing else, for ever: the group kill does
\* not reach it, and the wait delay closes the pipe of StdoutPipe only while
\* os/exec still copies another one.
Unreachable == [inGroup |-> FALSE, pipes |-> {"stdout"}]

EveryStreamEnds == <>(pc = "end") \/ <>[](helper = Unreachable)
=============================================================================
