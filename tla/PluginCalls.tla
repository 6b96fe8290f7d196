---------------------------- MODULE PluginCalls ----------------------------
(***************************************************************************)
(* The boundary between the host and the plugin: calls that come in        *)
(* (cliproxyPluginCall, handleMethod), calls that go out (callHost) from   *)
(* the goroutines of streams, and the blocks of memory handed over either  *)
(* way.                                                                    *)
(*                                                                         *)
(* What a stream does between its calls is StreamExecution's, what a       *)
(* reconfiguration does to others ModelCatalog's: here a stream emits a    *)
(* few chunks, waits for the end of its command's output and closes.       *)
(* Blocks come from the allocator of the plugin or of the host; neither    *)
(* runs out of memory.                                                     *)
(***************************************************************************)
EXTENDS Naturals

CONSTANTS
    Calls,      \* the calls the host makes; a stream goes by its call's name
    MaxEmits    \* bound: the chunks of one stream

ASSUME BoundAssumption == MaxEmits \in Nat

VARIABLES
    table,      \* whether cliproxy_plugin_init was given a host
    pc, method, wanted, answer,  \* a call: where it is, its method, whether the
                                 \* host passed a response buffer, its answer
    g,          \* where the stream's goroutine is
    output,     \* the output of its command, with the end of cmd.Wait
    emits, says, verdict,        \* chunks so far, the call to the host, its end
    told,       \* history: the host was told of the end, or refused a chunk
    heard,      \* history: the host was called for this stream
    live,       \* the blocks of each call and its stream
    strayed     \* history: a block was freed twice, or by the wrong allocator

call   == <<pc, method, wanted, answer>>
entry  == <<table, call>>
talk   == <<emits, says, verdict>>
host   == <<told, heard>>
stream == <<g, output, talk, host>>
heap   == <<live, strayed>>
vars   == <<entry, stream, heap>>

\* "other" is every method that does not outlive its call, reconfigurations too.
Methods == {"null", "unknown", "other", "stream"}

\* "response" and the two blocks of callHost are malloc'ed here, "reply" by the
\* host.
Block == {"response", "method", "payload", "reply"}
Allocator(b) == IF b = "reply" THEN "host" ELSE "plugin"

Init ==
    /\ table \in BOOLEAN
    /\ pc = [c \in Calls |-> "idle"]
    /\ method \in [Calls -> Methods] /\ wanted \in [Calls -> BOOLEAN]
    /\ answer = [c \in Calls |-> "none"]
    /\ g = [c \in Calls |-> "none"]
    /\ output = [c \in Calls |-> "none"]
    /\ emits = [c \in Calls |-> 0]
    /\ says = [c \in Calls |-> "none"] /\ verdict = [c \in Calls |-> "none"]
    /\ told = [c \in Calls |-> FALSE] /\ heard = [c \in Calls |-> FALSE]
    /\ live = [c \in Calls |-> {}] /\ strayed = FALSE

Goto(c, from, to) == pc[c] = from /\ pc' = [pc EXCEPT ![c] = to]
Go(c, from, to) == g[c] = from /\ g' = [g EXCEPT ![c] = to]

Allocate(c, blocks) ==
    /\ live' = [live EXCEPT ![c] = @ \union blocks]
    /\ UNCHANGED strayed

Free(c, blocks, by) ==
    /\ live' = [live EXCEPT ![c] = @ \ blocks]
    /\ strayed' = (strayed \/ \E b \in blocks : b \notin live[c] \/ Allocator(b) # by)

-----------------------------------------------------------------------------
(* Calls of the host. *)

\* cliproxyPluginCall: a call without a method is answered at once.
Enter(c) ==
    /\ Goto(c, "idle", IF method[c] = "null" THEN "answer" ELSE "handle")
    /\ answer' = [answer EXCEPT ![c] = IF method[c] = "null" THEN "error" ELSE @]
    /\ UNCHANGED <<table, method, wanted, stream, heap>>

\* handleMethod fails: an unknown method, a request that cannot be decoded, a bad
\* configuration, a stream without an id or with a bad prompt.
HandleFails(c) ==
    /\ Goto(c, "handle", "answer")
    /\ answer' = [answer EXCEPT ![c] = "error"]
    /\ UNCHANGED <<table, method, wanted, stream, heap>>

HandleOther(c) ==
    /\ method[c] = "other"
    /\ Goto(c, "handle", "answer")
    /\ answer' = [answer EXCEPT ![c] = "ok"]
    /\ UNCHANGED <<table, method, wanted, stream, heap>>

\* Mutant: the goroutine is started before the prompt is looked at.
GoFirst(c) ==
    /\ method[c] = "stream" /\ pc[c] = "handle"
    /\ Go(c, "none", "ready")
    /\ UNCHANGED <<entry, output, talk, host, heap>>

\* The prompt was built once, to see that it can be: go executeStream, which runs
\* from now on.
HandleStream(c) ==
    /\ method[c] = "stream"
    /\ Goto(c, "handle", "started")
    /\ Go(c, "none", "ready")
    /\ UNCHANGED <<table, method, wanted, answer, output, talk, host, heap>>

\* The headers of the stream are the answer; they can always be encoded.
AcceptStream(c) ==
    /\ Goto(c, "started", "answer")
    /\ answer' = [answer EXCEPT ![c] = "ok"]
    /\ UNCHANGED <<table, method, wanted, stream, heap>>

\* writeResponse, and the return to the host.
Respond(c) ==
    /\ Goto(c, "answer", "returned")
    /\ Allocate(c, IF wanted[c] THEN {"response"} ELSE {})
    /\ UNCHANGED <<table, method, wanted, answer, stream>>

\* The host has read the response: cliproxyPluginFree.
HostFrees(c) ==
    /\ Goto(c, "returned", "done")
    /\ Free(c, IF wanted[c] THEN {"response"} ELSE {}, "plugin")
    /\ UNCHANGED <<table, method, wanted, answer, stream>>

-----------------------------------------------------------------------------
(* The goroutine of a stream. *)

\* The goroutine reads the configuration and builds the prompt again.
BuildPrompt(c) ==
    /\ Go(c, "ready", "start")
    /\ UNCHANGED <<entry, output, talk, host, heap>>

StartCommand(c) ==
    /\ Go(c, "start", "run")
    /\ output' = [output EXCEPT ![c] = "open"]
    /\ UNCHANGED <<entry, talk, host, heap>>

\* callHost: the method and the payload are copied.
CallHost(c, from, what) ==
    /\ Go(c, from, "calling")
    /\ says' = [says EXCEPT ![c] = what]
    /\ Allocate(c, {"method", "payload"})
    /\ UNCHANGED <<entry, output, verdict, host>>

\* Mutant: a prompt that only fails the second time ends the stream in silence.
GiveUp(c) ==
    /\ \E from \in {"ready", "start"} : Go(c, from, "ended")
    /\ UNCHANGED <<entry, output, talk, host, heap>>

\* The prompt or the command fails, though the handler's prompt did not.
CloseEarly(c) ==
    /\ \E from \in {"ready", "start"} : CallHost(c, from, "close")
    /\ UNCHANGED emits

EmitChunk(c) ==
    /\ emits[c] < MaxEmits
    /\ CallHost(c, "run", "emit")
    /\ emits' = [emits EXCEPT ![c] = @ + 1]

\* The close comes after the scan loop and cmd.Wait.
CloseStream(c) ==
    /\ output[c] = "ended"
    /\ CallHost(c, "run", "close")
    /\ UNCHANGED emits

\* The host answers with a block, an empty block or none; without a table nobody
\* is called.  callHost succeeds if a block decodes, says OK and the code is 0.
HostReplies(c) ==
    /\ Go(c, "calling", "replied")
    /\ \E reply \in IF table THEN {"none", "empty", "bytes"} ELSE {"none"} :
          /\ verdict' \in {[verdict EXCEPT ![c] = v] :
                              v \in IF reply = "bytes" THEN {"ok", "failed"} ELSE {reply}}
          /\ Allocate(c, IF reply = "none" THEN {} ELSE {"reply"})
    /\ heard' = [heard EXCEPT ![c] = @ \/ table]
    /\ UNCHANGED <<entry, output, emits, says, told>>

\* Mutant: an empty block is not given back.
FreeIfRead(c) ==
    /\ Go(c, "replied", "unwind")
    /\ Free(c, IF verdict[c] \in {"ok", "failed"} THEN {"reply"} ELSE {}, "host")
    /\ UNCHANGED <<entry, output, talk, host>>

\* free_host_buffer, once the reply is copied.
FreeReply(c) ==
    /\ Go(c, "replied", "unwind")
    /\ Free(c, IF verdict[c] # "none" THEN {"reply"} ELSE {}, "host")
    /\ UNCHANGED <<entry, output, talk, host>>

\* The deferred frees of callHost, on each of its returns.  The stream ends after
\* its close; after a refused chunk it ends or, in a tool call and after held text,
\* goes on.  While agy runs it ends: agy is killed and waited for.
ReturnFromHost(c) ==
    /\ \E to \in {"run", "ended"} :
          /\ Go(c, "unwind", to)
          /\ says[c] = "close" => to = "ended"
          /\ says[c] = "emit" /\ verdict[c] = "ok" => to = "run"
          /\ says[c] = "emit" /\ verdict[c] # "ok" /\ output[c] = "open" => to = "ended"
    /\ told' = [told EXCEPT ![c] = @ \/ says[c] = "close" \/ verdict[c] # "ok"]
    /\ says' = [says EXCEPT ![c] = "none"] /\ verdict' = [verdict EXCEPT ![c] = "none"]
    /\ Free(c, {"method", "payload"}, "plugin")
    /\ UNCHANGED <<entry, output, emits, heard>>

-----------------------------------------------------------------------------

\* The command's output has ended, the scan loop and cmd.Wait are through.
OutputEnds(c) ==
    /\ output[c] = "open"
    /\ output' = [output EXCEPT ![c] = "ended"]
    /\ UNCHANGED <<entry, g, talk, host, heap>>

Handle(c) == \/ Enter(c) \/ HandleFails(c) \/ HandleOther(c)
             \/ HandleStream(c) \/ AcceptStream(c) \/ Respond(c) \/ HostFrees(c)

Stream(c) == \/ BuildPrompt(c) \/ StartCommand(c) \/ CloseEarly(c)
             \/ EmitChunk(c) \/ CloseStream(c)
             \/ HostReplies(c) \/ FreeReply(c) \/ ReturnFromHost(c)

Next == \E c \in Calls : Handle(c) \/ Stream(c) \/ OutputEnds(c)

Spec == Init /\ [][Next]_vars

\* Goroutines run, a handler that started one answers, and the host returns from
\* its callbacks.  The output of a command need not end.
FairSpec == Spec /\ \A c \in Calls : WF_vars(Stream(c)) /\ WF_vars(AcceptStream(c))

-----------------------------------------------------------------------------
(* Properties. *)

\* Every variable has its type.
TypeOK ==
    /\ table \in BOOLEAN
    /\ pc \in [Calls -> {"idle", "handle", "started", "answer", "returned", "done"}]
    /\ method \in [Calls -> Methods] /\ wanted \in [Calls -> BOOLEAN]
    /\ answer \in [Calls -> {"none", "ok", "error"}]
    /\ g \in [Calls -> {"none", "ready", "start", "run", "calling", "replied",
                        "unwind", "ended"}]
    /\ output \in [Calls -> {"none", "open", "ended"}]
    /\ emits \in [Calls -> 0 .. MaxEmits]
    /\ says \in [Calls -> {"none", "emit", "close"}]
    /\ verdict \in [Calls -> {"none", "empty", "ok", "failed"}]
    /\ told \in [Calls -> BOOLEAN] /\ heard \in [Calls -> BOOLEAN]
    /\ live \in [Calls -> SUBSET Block] /\ strayed \in BOOLEAN

\* Every block is freed once, by the side that allocated it, on whichever return
\* of callHost and of the call: none twice, and none is left when the call is over
\* and its stream, if any, has ended.
BlocksGoBack ==
    /\ ~strayed
    /\ \A c \in Calls : pc[c] = "done" /\ g[c] \in {"none", "ended"} => live[c] = {}

\* A stream whose call failed never calls the host: nothing arrives on a stream
\* the client was told does not exist.
RejectedStreamsAreSilent ==
    \A c \in Calls : answer[c] = "error" => ~heard[c] /\ g[c] = "none"

\* Every stream whose goroutine was started is answered "ok", and ends with a
\* close or because the host refused a chunk, even if the prompt that the handler
\* could build cannot be built again; but for one whose command's output never
\* ends (which outputs those are, EveryStreamEnds of StreamExecution tells).
AcceptedStreamsEnd ==
    \A c \in Calls :
        \/ g[c] = "ready" ~> answer[c] = "ok" /\ g[c] = "ended" /\ told[c]
        \/ <>[](g[c] = "run" /\ output[c] = "open")

-----------------------------------------------------------------------------
(* The inductive invariant. *)

\* A goroutine runs only for a call that is or will be answered "ok", and only it
\* calls the host.
StreamsAreAccepted ==
    \A c \in Calls :
        /\ pc[c] \in {"idle", "handle", "started"} => answer[c] = "none"
        /\ pc[c] \in {"idle", "handle"} => g[c] = "none"
        /\ g[c] # "none" /\ pc[c] # "started" => answer[c] = "ok"
        /\ heard[c] => g[c] # "none"

\* Where call and goroutine are tells which blocks exist.
CallBlocks(c) == IF pc[c] = "returned" /\ wanted[c] THEN {"response"} ELSE {}

StreamBlocks(c) ==
    (IF g[c] \in {"calling", "replied", "unwind"} THEN {"method", "payload"} ELSE {})
      \union (IF g[c] = "replied" /\ verdict[c] # "none" THEN {"reply"} ELSE {})

BlocksFollow ==
    /\ ~strayed
    /\ \A c \in Calls : live[c] = CallBlocks(c) \union StreamBlocks(c)

Inv ==
    /\ TypeOK
    /\ StreamsAreAccepted
    /\ BlocksFollow
=============================================================================
