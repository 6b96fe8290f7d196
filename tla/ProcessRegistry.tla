--------------------------- MODULE ProcessRegistry ---------------------------
(***************************************************************************)
(* The processes of the plugin: every call starts one command in a process *)
(* group of its own, enters it in the registry activeProcesses (agy.go),   *)
(* waits for it and removes it, while deadlines, refused chunks and the    *)
(* plugin's shutdown kill groups by their number (process_unix.go).        *)
(*                                                                         *)
(* The three callers (discoverModels, runAgyJSON, executeStream) take the  *)
(* same steps, so a call is any of them; only a stream kills on a refused  *)
(* chunk, and only a stream reads its command's output by itself: it comes *)
(* to cmd.Wait when the output has ended.  The others have os/exec copy it *)
(* and wait for the copies inside cmd.Wait.  The operating system gives a  *)
(* process number away again when neither the process nor any member of    *)
(* the group it led is left, be it to another call or to a process that is *)
(* none of the plugin's business.                                          *)
(***************************************************************************)
EXTENDS FiniteSets

CONSTANTS
    Calls,      \* the calls that start a command
    Streams,    \* those that are executeStream
    Pids,       \* the process numbers of the system
    NoPid

ASSUME StreamsAssumption == Streams \subseteq Calls
ASSUME PidsAssumption    == NoPid \notin Pids

VARIABLES
    pc,         \* where each call is
    pid,        \* cmd.Process.Pid of each call, never forgotten
    leader,     \* the command itself
    helpers,    \* the calls with processes of their command's making in the group
    output,     \* which of its helpers keep the output of a command open
    expired,    \* the calls whose context expired while os/exec watched it
    registry,   \* activeProcesses.cmds
    others,     \* the groups led by processes of the rest of the system
    down,       \* "up", "killing" (inside killAll), "down"
    cmds,       \* killAll's copy of the registry, what is left of it
    \* history
    killed,     \* calls whose group was killed before the command was reaped
    doomed,     \* what killAll copied
    strays      \* kills that hit a group that was not their call's own

system  == <<leader, helpers, output, others>>
history == <<killed, strays>>
plugin  == <<registry, down, cmds, doomed>>
vars    == <<pc, pid, system, expired, plugin, history>>

\* What keeps the output open beside the command itself: nothing, helpers in its
\* group, a helper out of the group with a pipe that os/exec copies (and closes
\* when the wait delay is over), or one that holds nothing but the pipe of
\* StdoutPipe, which only the scanner of a stream reads.
Holders == {"free", "group", "copied", "stuck"}

\* "started" is the gap between cmd.Start and activeProcesses.add, "reaped" the
\* one between the end of Process.Wait and that of cmd.Wait; a stream is "scanned"
\* when its scan loop is over.
Control == {"idle", "accepted", "started", "working", "scanned", "killed", "reaped",
            "waited", "done"}

Killers == {"expiry", "refusal", "shutdown"}

Init ==
    /\ pc = [c \in Calls |-> "idle"]
    /\ pid = [c \in Calls |-> NoPid]
    /\ leader = [c \in Calls |-> "none"]
    /\ helpers = {}
    /\ output = [c \in Calls |-> "free"]
    /\ expired = {}
    /\ registry = {}
    /\ others = {}
    /\ down = "up" /\ cmds = {} /\ doomed = {}
    /\ killed = {} /\ strays = {}

\* Something of the group that call c started still has its number.
GroupExists(c) == leader[c] \in {"running", "zombie"} \/ c \in helpers

\* Something of it runs.
GroupRuns(c) == leader[c] = "running" \/ c \in helpers

FreePid(p) == p \notin others /\ \A c \in Calls : pid[c] = p => ~GroupExists(c)

\* The number of call c leads a group that call c did not start.
PidReused(c) ==
    \/ pid[c] \in others
    \/ \E d \in Calls \ {c} : pid[d] = pid[c] /\ GroupRuns(d)

\* Mutant: the signal goes to the command alone, not to its group.
KillLeaderOnly(c, killer) ==
    /\ leader' = [d \in Calls |->
                    IF pid[d] = pid[c] /\ leader[d] = "running" THEN "zombie" ELSE leader[d]]
    /\ killed' = killed \union
                    {d \in Calls : pid[d] = pid[c] /\ leader[d] \in {"running", "zombie"}}
    /\ UNCHANGED <<helpers, output, others, strays>>

\* syscall.Kill(-cmd.Process.Pid, SIGKILL), whoever leads that group now.
KillProcessTree(c, killer) ==
    /\ leader' = [d \in Calls |->
                    IF pid[d] = pid[c] /\ leader[d] = "running" THEN "zombie" ELSE leader[d]]
    /\ helpers' = {d \in helpers : pid[d] # pid[c]}
    /\ output' = [d \in Calls |->
                    IF pid[d] = pid[c] /\ output[d] = "group" THEN "free" ELSE output[d]]
    /\ others' = others \ {pid[c]}
    /\ killed' = killed \union
                    {d \in Calls : pid[d] = pid[c] /\ leader[d] \in {"running", "zombie"}}
    /\ strays' = strays \union
                    (IF PidReused(c) THEN {[call |-> c, killer |-> killer]} ELSE {})

Goto(c, from, to) ==
    /\ pc[c] = from
    /\ pc' = [pc EXCEPT ![c] = to]

-----------------------------------------------------------------------------
(* The steps of a call. *)

\* The host makes no new call once it has asked for the shutdown; what it asked
\* for before goes on, a stream in a goroutine of its own.
Accept(c) ==
    /\ down = "up"
    /\ Goto(c, "idle", "accepted")
    /\ UNCHANGED <<pid, system, expired, plugin, history>>

\* cmd.Start with Setpgid: the command leads a group with its own number.
Start(c) ==
    /\ Goto(c, "accepted", "started")
    /\ \E p \in Pids :
          /\ FreePid(p)
          /\ pid' = [pid EXCEPT ![c] = p]
    /\ leader' = [leader EXCEPT ![c] = "running"]
    /\ UNCHANGED <<helpers, output, others, expired, plugin, history>>

StartFails(c) ==
    /\ Goto(c, "accepted", "done")
    /\ UNCHANGED <<pid, system, expired, plugin, history>>

\* Mutant: the registry is given the process number instead of the command.
AddPid(c) ==
    /\ Goto(c, "started", "working")
    /\ registry' = registry \union {pid[c]}
    /\ UNCHANGED <<pid, system, expired, down, cmds, doomed, history>>

Add(c) ==
    /\ Goto(c, "started", "working")
    /\ registry' = registry \union {c}
    /\ UNCHANGED <<pid, system, expired, down, cmds, doomed, history>>

\* Mutant: wait first, kill then.
KillAfterWait(c) ==
    /\ c \in Streams
    /\ Goto(c, "reaped", "waited")
    /\ KillProcessTree(c, "refusal")
    /\ UNCHANGED <<pid, expired, plugin>>

\* A stream whose chunk was refused: killProcessTree, then cmd.Wait.
KillOnRefusal(c) ==
    /\ c \in Streams
    /\ Goto(c, "working", "killed")
    /\ KillProcessTree(c, "refusal")
    /\ UNCHANGED <<pid, expired, plugin>>

\* The scan loop of a stream ends: end of file, for which nobody may hold the
\* output any more, or the wait delay has closed the pipe under the scanner.
ScanEnds(c) ==
    /\ c \in Streams
    /\ Goto(c, "working", "scanned")
    /\ \/ leader[c] # "running" /\ output[c] = "free"
       \/ c \in expired /\ output[c] = "copied"
    /\ UNCHANGED <<pid, system, expired, plugin, history>>

\* It also ends at a line of more than 8 MiB.
ScanTooLong(c) ==
    /\ c \in Streams
    /\ Goto(c, "working", "scanned")
    /\ UNCHANGED <<pid, system, expired, plugin, history>>

\* Process.Wait inside cmd.Wait: from here on the number is up for reuse.
Reap(c) ==
    /\ \/ c \notin Streams /\ Goto(c, "working", "reaped")
       \/ Goto(c, "scanned", "reaped")
       \/ Goto(c, "killed", "reaped")
    /\ leader[c] = "zombie"
    /\ leader' = [leader EXCEPT ![c] = "reaped"]
    /\ UNCHANGED <<pid, helpers, output, others, expired, plugin, history>>

\* cmd.Wait returns: the copies are done or, once the context has expired, given
\* up after the wait delay; the plugin's ends of the pipes are closed, and os/exec
\* no longer watches the context.
WaitReturns(c) ==
    /\ Goto(c, "reaped", "waited")
    /\ output[c] \in {"free", "stuck"} \/ c \in expired
    /\ output' = [output EXCEPT ![c] = "free"]
    /\ expired' = expired \ {c}
    /\ UNCHANGED <<pid, leader, helpers, others, plugin, history>>

Remove(c) ==
    /\ Goto(c, "waited", "done")
    /\ registry' = registry \ {c}
    /\ UNCHANGED <<pid, system, expired, down, cmds, doomed, history>>

\* Mutant: the context expires and nothing is killed.
ExpireQuietly(c) ==
    /\ pc[c] \in {"started", "working", "scanned", "killed", "reaped"}
    /\ c \notin expired
    /\ expired' = expired \union {c}
    /\ UNCHANGED <<pc, pid, system, plugin, history>>

\* The context's deadline: cmd.Cancel kills the group.
Expire(c) ==
    /\ pc[c] \in {"started", "working", "scanned", "killed", "reaped"}
    /\ c \notin expired
    /\ expired' = expired \union {c}
    /\ KillProcessTree(c, "expiry")
    /\ UNCHANGED <<pc, pid, plugin>>

-----------------------------------------------------------------------------
(* cliproxyPluginShutdown: killAll. *)

Snapshot ==
    /\ down = "up"
    /\ down' = "killing"
    /\ cmds' = registry
    /\ doomed' = registry
    /\ UNCHANGED <<pc, pid, system, expired, registry, history>>

KillNext(c) ==
    /\ c \in cmds
    /\ cmds' = cmds \ {c}
    /\ KillProcessTree(c, "shutdown")
    /\ UNCHANGED <<pc, pid, expired, registry, down, doomed>>

\* Mutant: the kills are left to goroutines that nobody waits for.
ShutdownDoesNotWait ==
    /\ down = "killing"
    /\ down' = "down"
    /\ UNCHANGED <<pc, pid, system, expired, registry, cmds, doomed, history>>

ShutdownReturns ==
    /\ down = "killing" /\ cmds = {}
    /\ down' = "down"
    /\ UNCHANGED <<pc, pid, system, expired, registry, cmds, doomed, history>>

-----------------------------------------------------------------------------
(* The commands and the rest of the system. *)

LeaderExits(c) ==
    /\ leader[c] = "running"
    /\ leader' = [leader EXCEPT ![c] = "zombie"]
    /\ UNCHANGED <<pc, pid, helpers, output, others, expired, plugin, history>>

\* The command starts a helper, which may keep the output it inherits.
SpawnHelper(c) ==
    /\ leader[c] = "running"
    /\ helpers' = helpers \union {c}
    /\ \/ output' = output
       \/ output[c] = "free" /\ output' = [output EXCEPT ![c] = "group"]
    /\ UNCHANGED <<pc, pid, leader, others, expired, plugin, history>>

\* A helper that keeps the output leaves the group: no kill reaches it.
HelperLeaves(c) ==
    /\ leader[c] = "running"
    /\ output[c] \in {"free", "group"}
    /\ \/ output' = [output EXCEPT ![c] = "copied"]
       \/ c \in Streams /\ output' = [output EXCEPT ![c] = "stuck"]
    /\ UNCHANGED <<pc, pid, leader, helpers, others, expired, plugin, history>>

HelpersExit(c) ==
    /\ c \in helpers
    /\ helpers' = helpers \ {c}
    /\ output' = [output EXCEPT ![c] = IF @ = "group" THEN "free" ELSE @]
    /\ UNCHANGED <<pc, pid, leader, others, expired, plugin, history>>

\* A helper out of the group exits or closes what it holds.
OutputIsLetGo(c) ==
    /\ output[c] \in {"copied", "stuck"}
    /\ output' = [output EXCEPT ![c] = "free"]
    /\ UNCHANGED <<pc, pid, leader, helpers, others, expired, plugin, history>>

OtherStarts(p) ==
    /\ FreePid(p)
    /\ others' = others \union {p}
    /\ UNCHANGED <<pc, pid, leader, helpers, output, expired, plugin, history>>

OtherExits(p) ==
    /\ p \in others
    /\ others' = others \ {p}
    /\ UNCHANGED <<pc, pid, leader, helpers, output, expired, plugin, history>>

-----------------------------------------------------------------------------

Step(c) == \/ Start(c) \/ StartFails(c) \/ Add(c) \/ ScanEnds(c)
           \/ Reap(c) \/ WaitReturns(c) \/ Remove(c)

Helping(c) == SpawnHelper(c) \/ HelperLeaves(c) \/ HelpersExit(c) \/ OutputIsLetGo(c)

Shutdown == Snapshot \/ (\E c \in Calls : KillNext(c)) \/ ShutdownReturns

Next ==
    \/ \E c \in Calls :
          \/ Accept(c) \/ Step(c) \/ ScanTooLong(c) \/ KillOnRefusal(c) \/ Expire(c)
          \/ LeaderExits(c) \/ Helping(c)
    \/ Shutdown
    \/ \E p \in Pids : OtherStarts(p) \/ OtherExits(p)

Spec == Init /\ [][Next]_vars

\* Goroutines run and contexts expire.  Commands and helpers need not exit nor
\* close their output, and start fails at will: a full process table is a failed
\* start.
Fairness ==
    /\ \A c \in Calls : WF_vars(Step(c)) /\ WF_vars(Expire(c))
    /\ WF_vars(\E c \in Calls : KillNext(c)) /\ WF_vars(ShutdownReturns)

FairSpec == Spec /\ Fairness

-----------------------------------------------------------------------------
(* Properties. *)

\* Every variable has its type.
TypeOK ==
    /\ pc \in [Calls -> Control]
    /\ pid \in [Calls -> Pids \union {NoPid}]
    /\ leader \in [Calls -> {"none", "running", "zombie", "reaped"}]
    /\ output \in [Calls -> Holders]
    /\ helpers \subseteq Calls /\ expired \subseteq Calls
    /\ registry \subseteq Calls /\ cmds \subseteq Calls
    /\ killed \subseteq Calls /\ doomed \subseteq Calls
    /\ others \subseteq Pids
    /\ down \in {"up", "killing", "down"}
    /\ strays \subseteq [call : Calls, killer : Killers]

\* A kill takes the whole tree: once the group of a call was killed (deadline,
\* refusal or shutdown) before its command was reaped, nothing of it runs again.
KilledTreesStayDead == \A c \in killed : ~GroupRuns(c)

\* Whatever was registered when the shutdown began is dead when killAll returns.
ShutdownKillsTheRegistered ==
    down = "down" => \A c \in doomed : ~GroupRuns(c)

\* The registry and a shutdown's copy hold started commands only, so that a kill
\* always has a process number; and a call that is over is in it no more.
RegistryHoldsStarted ==
    /\ \A c \in registry \union cmds : pid[c] # NoPid
    /\ \A c \in registry : pc[c] # "done" /\ leader[c] # "none"

\* A kill can strike a group that its call did not start only when the call's
\* command was reaped; the kill of a refused chunk, which comes before the
\* wait, never does.
StraysAreLateKills ==
    \A s \in strays : s.killer # "refusal" /\ leader[s.call] = "reaped"

\* Every accepted call ends, with its command reaped, though no command exits by
\* itself, but for a stream whose scan loop waits for ever for a helper that has
\* left the group with its stdout alone; and a shutdown that began ends, whatever
\* the calls do meanwhile.
CallsAndShutdownEnd ==
    /\ \A c \in Calls :
          \/ pc[c] = "accepted" ~> pc[c] = "done" /\ leader[c] \in {"none", "reaped"}
          \/ <>[](c \in Streams /\ pc[c] = "working" /\ output[c] = "stuck")
    /\ down = "killing" ~> down = "down"

-----------------------------------------------------------------------------
(* The inductive invariant. *)

\* How far a call is tells how far its command is.
CommandFollows ==
    \A c \in Calls :
        /\ pc[c] \in {"idle", "accepted"} => leader[c] = "none"
        /\ pc[c] \in {"started", "working", "scanned", "killed"} => leader[c] \in {"running", "zombie"}
        /\ pc[c] \in {"reaped", "waited"} => leader[c] = "reaped"
        /\ pc[c] = "done" => leader[c] \in {"none", "reaped"}
        /\ leader[c] = "none" => c \notin helpers
        /\ leader[c] # "none" => pid[c] # NoPid

\* A number leads one group at a time.
OneGroupPerPid ==
    \A c \in Calls :
        GroupExists(c) =>
            /\ pid[c] \notin others
            /\ \A d \in Calls : d # c /\ pid[d] = pid[c] => ~GroupExists(d)

RegistryFollows ==
    /\ \A c \in registry : pc[c] \in {"working", "scanned", "killed", "reaped", "waited"}
    /\ cmds \subseteq doomed
    /\ \A c \in doomed \union killed : leader[c] # "none"
    /\ \A c \in killed \union (doomed \ cmds) : ~GroupRuns(c)
    /\ down = "up" => doomed = {}
    /\ down = "down" => cmds = {}

Inv ==
    /\ TypeOK
    /\ CommandFollows
    /\ OneGroupPerPid
    /\ RegistryFollows
    /\ StraysAreLateKills
=============================================================================
