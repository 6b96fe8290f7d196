----------------------- MODULE ProcessRegistryProofs -----------------------
(***************************************************************************)
(* Proofs about ProcessRegistry, for every set of calls, of streams and of *)
(* process numbers.                                                        *)
(***************************************************************************)
EXTENDS ProcessRegistry, TLAPS

\* A kill changes the leaders, helpers and others of one number only, and keeps
\* their types.
LEMMA KillType ==
    ASSUME TypeOK, NEW c \in Calls, NEW k \in Killers, KillProcessTree(c, k)
    PROVE  /\ leader' \in [Calls -> {"none", "running", "zombie", "reaped"}]
           /\ helpers' \subseteq Calls
           /\ output' \in [Calls -> Holders]
           /\ others' \subseteq Pids
           /\ killed' \subseteq Calls
           /\ strays' \subseteq [call : Calls, killer : Killers]
  BY DEF TypeOK, KillProcessTree, Holders

LEMMA TypeStep == TypeOK /\ [Next]_vars => TypeOK'
<1>. SUFFICES ASSUME TypeOK, [Next]_vars PROVE TypeOK'
  OBVIOUS
<1>. USE DEF system, history, plugin
<1>1. ASSUME NEW c \in Calls, Accept(c) \/ Step(c) \/ ScanTooLong(c) PROVE TypeOK'
  BY <1>1 DEF TypeOK, Control, Holders, Accept, Step, Start, StartFails, Add, ScanEnds,
     ScanTooLong, Reap, WaitReturns, Remove, Goto
<1>2. ASSUME NEW c \in Calls, KillOnRefusal(c) PROVE TypeOK'
  <2>1. KillProcessTree(c, "refusal") /\ "refusal" \in Killers
    BY <1>2 DEF KillOnRefusal, Killers
  <2>2. QED
    BY <1>2, <2>1, KillType DEF TypeOK, Control, KillOnRefusal, Goto
<1>3. ASSUME NEW c \in Calls, Expire(c) PROVE TypeOK'
  <2>1. KillProcessTree(c, "expiry") /\ "expiry" \in Killers
    BY <1>3 DEF Expire, Killers
  <2>2. QED
    BY <1>3, <2>1, KillType DEF TypeOK, Expire
<1>4. ASSUME NEW c \in Calls, KillNext(c) PROVE TypeOK'
  <2>1. KillProcessTree(c, "shutdown") /\ "shutdown" \in Killers
    BY <1>4 DEF KillNext, Killers
  <2>2. QED
    BY <1>4, <2>1, KillType DEF TypeOK, KillNext
<1>5. CASE Snapshot \/ ShutdownReturns
  BY <1>5 DEF TypeOK, Snapshot, ShutdownReturns
<1>6. ASSUME NEW c \in Calls, LeaderExits(c) \/ Helping(c) PROVE TypeOK'
  BY <1>6 DEF TypeOK, Holders, LeaderExits, Helping, SpawnHelper, HelperLeaves, HelpersExit,
     OutputIsLetGo
<1>7. ASSUME NEW p \in Pids, OtherStarts(p) \/ OtherExits(p) PROVE TypeOK'
  BY <1>7 DEF TypeOK, OtherStarts, OtherExits
<1>8. CASE UNCHANGED vars
  BY <1>8 DEF TypeOK, vars
<1>9. QED
  BY <1>1, <1>2, <1>3, <1>4, <1>5, <1>6, <1>7, <1>8 DEF Next, Shutdown

LEMMA TypeInit == Init => TypeOK
  BY DEF Init, TypeOK, Control, Holders

\* Every variable of the registry and its processes keeps its type.
THEOREM TypeCorrect == Spec => []TypeOK
  BY TypeInit, TypeStep, PTL DEF Spec

-----------------------------------------------------------------------------
(* The inductive invariant. *)

LEMMA InvInit == Init => Inv
  BY TypeInit DEF Init, Inv, CommandFollows, OneGroupPerPid, RegistryFollows,
     StraysAreLateKills, GroupExists, GroupRuns

\* What a kill for call c leaves true.  The group it kills is that of c, unless
\* the command of c was reaped.
LEMMA KillInv ==
    ASSUME Inv, NEW c \in Calls, NEW k \in Killers, KillProcessTree(c, k),
           pid' = pid, leader[c] # "none",
           k = "refusal" => leader[c] # "reaped"
    PROVE  /\ \A d \in Calls :
                 /\ leader'[d] = leader[d] \/ (leader[d] = "running" /\ leader'[d] = "zombie")
                 /\ GroupExists(d)' => GroupExists(d)
                 /\ GroupRuns(d)' => GroupRuns(d)
           /\ helpers' \subseteq helpers
           /\ ~GroupRuns(c)'
           /\ OneGroupPerPid'
           /\ \A d \in killed' : leader'[d] # "none" /\ ~GroupRuns(d)'
           /\ StraysAreLateKills'
<1>1. /\ leader' = [d \in Calls |->
                      IF pid[d] = pid[c] /\ leader[d] = "running" THEN "zombie" ELSE leader[d]]
      /\ helpers' = {d \in helpers : pid[d] # pid[c]}
      /\ others' \subseteq others
      /\ killed' = killed \union
                    {d \in Calls : pid[d] = pid[c] /\ leader[d] \in {"running", "zombie"}}
  BY DEF KillProcessTree
<1>2. \A d \in Calls :
         /\ leader'[d] = leader[d] \/ (leader[d] = "running" /\ leader'[d] = "zombie")
         /\ pid[d] = pid[c] => leader'[d] # "running" /\ d \notin helpers'
  BY <1>1 DEF Inv, TypeOK
<1>3. \A d \in Calls :
         /\ GroupExists(d)' => GroupExists(d)
         /\ GroupRuns(d)' => GroupRuns(d)
         /\ pid[d] = pid[c] => ~GroupRuns(d)'
  BY <1>1, <1>2 DEF GroupExists, GroupRuns
<1>4. OneGroupPerPid'
  BY <1>1, <1>3 DEF Inv, OneGroupPerPid
<1>5. \A d \in killed' : leader'[d] # "none" /\ ~GroupRuns(d)'
  <2>. TAKE d \in killed'
  <2>0. d \in Calls
    BY <1>1 DEF Inv, TypeOK
  <2>1. CASE d \in killed
    BY <2>0, <2>1, <1>2, <1>3 DEF Inv, RegistryFollows
  <2>2. CASE pid[d] = pid[c] /\ leader[d] \in {"running", "zombie"}
    BY <2>0, <2>2, <1>2, <1>3
  <2>3. QED
    BY <1>1, <2>1, <2>2
<1>6. PidReused(c) => leader[c] = "reaped" /\ k # "refusal"
  <2>1. PidReused(c) => ~GroupExists(c)
    BY DEF PidReused, Inv, OneGroupPerPid, GroupExists, GroupRuns
  <2>2. ~GroupExists(c) => leader[c] = "reaped"
    BY DEF GroupExists, Inv, TypeOK
  <2>3. QED
    BY <2>1, <2>2
<1>7. StraysAreLateKills'
  <2>1. \A s \in strays : s.killer # "refusal" /\ leader'[s.call] = "reaped"
    BY <1>2 DEF Inv, StraysAreLateKills, TypeOK
  <2>2. strays' \subseteq strays \union {[call |-> c, killer |-> k]}
        /\ (~PidReused(c) => strays' = strays)
    BY DEF KillProcessTree
  <2>3. PidReused(c) => leader'[c] = "reaped"
    BY <1>2, <1>6
  <2>4. QED
    BY <1>6, <2>1, <2>2, <2>3 DEF StraysAreLateKills
<1>8. QED
  BY <1>1, <1>2, <1>3, <1>4, <1>5, <1>7

\* A group that did not run and gets no running leader still does not run.
LEMMA InvCall ==
    ASSUME Inv, NEW c \in Calls, Accept(c) \/ Step(c) \/ ScanTooLong(c)
    PROVE  CommandFollows' /\ OneGroupPerPid' /\ RegistryFollows' /\ StraysAreLateKills'
<1>. DEFINE Moves(d) == \/ Accept(d) \/ StartFails(d) \/ ScanEnds(d) \/ ScanTooLong(d)
                        \/ WaitReturns(d)
<1>. USE DEF system, history, plugin, Goto, GroupExists, GroupRuns
<1>1. CASE Moves(c)
  <2>1. /\ \A d \in Calls : pc'[d] = IF d = c THEN pc'[c] ELSE pc[d]
        /\ UNCHANGED <<pid, leader, helpers, others, registry, down, cmds, doomed, killed, strays>>
    BY <1>1 DEF Accept, StartFails, ScanEnds, ScanTooLong, WaitReturns, Inv, TypeOK
  <2>2. CommandFollows'
    BY <1>1, <2>1 DEF Accept, StartFails, ScanEnds, ScanTooLong, WaitReturns, Inv, CommandFollows, TypeOK
  <2>3. RegistryFollows'
    BY <1>1, <2>1 DEF Accept, StartFails, ScanEnds, ScanTooLong, WaitReturns, Inv, RegistryFollows, TypeOK
  <2>4. QED
    BY <2>1, <2>2, <2>3 DEF Inv, OneGroupPerPid, StraysAreLateKills
<1>2. CASE Start(c)
  <2>1. PICK p \in Pids : FreePid(p) /\ pid' = [pid EXCEPT ![c] = p]
    BY <1>2 DEF Start
  <2>2. /\ pc[c] = "accepted" /\ pc' = [pc EXCEPT ![c] = "started"]
        /\ leader' = [leader EXCEPT ![c] = "running"]
        /\ UNCHANGED <<helpers, others, registry, down, cmds, doomed, killed, strays>>
    BY <1>2 DEF Start
  <2>3. leader[c] = "none" /\ c \notin helpers
    BY <2>2 DEF Inv, CommandFollows
  <2>4. CommandFollows'
    BY <2>1, <2>2, <2>3, PidsAssumption DEF Inv, CommandFollows, TypeOK
  <2>5. OneGroupPerPid'
    BY <2>1, <2>2, <2>3 DEF Inv, OneGroupPerPid, TypeOK, FreePid
  <2>6. RegistryFollows'
    BY <2>2, <2>3 DEF Inv, RegistryFollows, TypeOK
  <2>7. StraysAreLateKills'
    BY <2>2, <2>3 DEF Inv, StraysAreLateKills, TypeOK
  <2>8. QED
    BY <2>4, <2>5, <2>6, <2>7
<1>3. CASE Add(c) \/ Remove(c)
  <2>1. UNCHANGED <<pid, leader, helpers, others, down, cmds, doomed, killed, strays>>
    BY <1>3 DEF Add, Remove
  <2>2. CommandFollows'
    BY <1>3, <2>1 DEF Add, Remove, Inv, CommandFollows, TypeOK
  <2>3. RegistryFollows'
    BY <1>3, <2>1 DEF Add, Remove, Inv, RegistryFollows, TypeOK
  <2>4. QED
    BY <2>1, <2>2, <2>3 DEF Inv, OneGroupPerPid, StraysAreLateKills
<1>4. CASE Reap(c)
  <2>1. /\ leader[c] = "zombie" /\ pc' = [pc EXCEPT ![c] = "reaped"]
        /\ leader' = [leader EXCEPT ![c] = "reaped"]
        /\ UNCHANGED <<pid, helpers, others, registry, down, cmds, doomed, killed, strays>>
    BY <1>4 DEF Reap
  <2>2. \A d \in Calls : (GroupExists(d)' => GroupExists(d)) /\ (GroupRuns(d)' => GroupRuns(d))
    BY <2>1 DEF Inv, TypeOK
  <2>3. CommandFollows'
    BY <2>1 DEF Inv, CommandFollows, TypeOK
  <2>4. OneGroupPerPid'
    BY <2>1, <2>2 DEF Inv, OneGroupPerPid
  <2>5. RegistryFollows'
    BY <2>1 DEF Inv, RegistryFollows, TypeOK
  <2>6. StraysAreLateKills'
    BY <2>1 DEF Inv, StraysAreLateKills, TypeOK
  <2>7. QED
    BY <2>3, <2>4, <2>5, <2>6
<1>5. QED
  BY <1>1, <1>2, <1>3, <1>4 DEF Step

LEMMA InvKill ==
    ASSUME Inv, NEW c \in Calls, KillOnRefusal(c) \/ Expire(c) \/ KillNext(c)
    PROVE  CommandFollows' /\ OneGroupPerPid' /\ RegistryFollows' /\ StraysAreLateKills'
<1>. USE DEF plugin, Goto
<1>1. /\ pid' = pid /\ leader[c] # "none" /\ doomed' = doomed /\ down' = down
      /\ registry' = registry
      /\ cmds' = cmds \/ cmds' = cmds \ {c}
      /\ \E k \in Killers :
            KillProcessTree(c, k) /\ (k = "refusal" => leader[c] # "reaped")
  BY DEF KillOnRefusal, Expire, KillNext, Killers, Inv, CommandFollows, RegistryFollows
<1>2. /\ \A d \in Calls :
            /\ leader'[d] = leader[d] \/ (leader[d] = "running" /\ leader'[d] = "zombie")
            /\ GroupRuns(d)' => GroupRuns(d)
      /\ helpers' \subseteq helpers
      /\ ~GroupRuns(c)'
      /\ OneGroupPerPid' /\ StraysAreLateKills'
      /\ \A d \in killed' : leader'[d] # "none" /\ ~GroupRuns(d)'
  BY <1>1, KillInv
<1>3. \/ pc' = pc
      \/ pc[c] = "working" /\ pc' = [pc EXCEPT ![c] = "killed"]
  BY DEF KillOnRefusal, Expire, KillNext
<1>4. CommandFollows'
  BY <1>1, <1>2, <1>3 DEF Inv, CommandFollows, TypeOK
<1>5. RegistryFollows'
  <2>1. \A d \in registry' : pc'[d] \in {"working", "scanned", "killed", "reaped", "waited"}
    BY <1>1, <1>3 DEF Inv, RegistryFollows, TypeOK
  <2>2. cmds' \subseteq doomed' /\ (down' = "up" => doomed' = {}) /\ (down' = "down" => cmds' = {})
    BY <1>1 DEF Inv, RegistryFollows
  <2>3. \A d \in doomed' : leader'[d] # "none"
    BY <1>1, <1>2 DEF Inv, RegistryFollows, TypeOK
  <2>4. \A d \in doomed' \ cmds' : ~GroupRuns(d)'
    <3>1. \A d \in doomed \ cmds : d \in Calls /\ ~GroupRuns(d)
      BY DEF Inv, RegistryFollows, TypeOK
    <3>2. \A d \in doomed' \ cmds' : d \in doomed \ cmds \/ d = c
      BY <1>1
    <3>3. QED
      BY <1>2, <3>1, <3>2
  <2>5. QED
    BY <1>2, <2>1, <2>2, <2>3, <2>4 DEF RegistryFollows
<1>6. QED
  BY <1>2, <1>4, <1>5

LEMMA InvShutdown ==
    ASSUME Inv, Snapshot \/ ShutdownReturns
    PROVE  CommandFollows' /\ OneGroupPerPid' /\ RegistryFollows' /\ StraysAreLateKills'
<1>. USE DEF system, history
<1>1. UNCHANGED <<pc, pid, leader, helpers, others, registry, killed, strays>>
  BY DEF Snapshot, ShutdownReturns
<1>2. CommandFollows' /\ OneGroupPerPid' /\ StraysAreLateKills'
  BY <1>1 DEF Inv, CommandFollows, OneGroupPerPid, StraysAreLateKills, GroupExists
<1>3. \A c \in Calls : GroupRuns(c)' <=> GroupRuns(c)
  BY <1>1 DEF GroupRuns
<1>4. RegistryFollows'
  <2>1. CASE Snapshot
    BY <2>1, <1>1, <1>3 DEF Snapshot, Inv, RegistryFollows, CommandFollows, TypeOK
  <2>2. CASE ShutdownReturns
    BY <2>2, <1>1, <1>3 DEF ShutdownReturns, Inv, RegistryFollows, TypeOK
  <2>3. QED
    BY <2>1, <2>2
<1>5. QED
  BY <1>2, <1>4

LEMMA InvSystem ==
    ASSUME Inv, NEW c \in Calls, LeaderExits(c) \/ Helping(c)
    PROVE  CommandFollows' /\ OneGroupPerPid' /\ RegistryFollows' /\ StraysAreLateKills'
<1>. USE DEF plugin, history
<1>1. /\ \A d \in Calls : leader'[d] = leader[d] \/ (leader[d] = "running" /\ leader'[d] = "zombie")
      /\ \A d \in helpers' : d \in helpers \/ leader[d] = "running"
      /\ UNCHANGED <<pc, pid, others, registry, down, cmds, doomed, killed, strays>>
  BY DEF LeaderExits, Helping, SpawnHelper, HelperLeaves, HelpersExit, OutputIsLetGo, Inv,
     TypeOK
<1>2. \A d \in Calls : (GroupExists(d)' => GroupExists(d)) /\ (GroupRuns(d)' => GroupRuns(d))
  BY <1>1 DEF GroupExists, GroupRuns
<1>3. CommandFollows'
  BY <1>1 DEF Inv, CommandFollows, TypeOK
<1>4. OneGroupPerPid'
  BY <1>1, <1>2 DEF Inv, OneGroupPerPid
<1>5. RegistryFollows'
  BY <1>1, <1>2 DEF Inv, RegistryFollows, TypeOK
<1>6. StraysAreLateKills'
  BY <1>1 DEF Inv, StraysAreLateKills, TypeOK
<1>7. QED
  BY <1>3, <1>4, <1>5, <1>6

LEMMA InvOthers ==
    ASSUME Inv, NEW p \in Pids, OtherStarts(p) \/ OtherExits(p)
    PROVE  CommandFollows' /\ OneGroupPerPid' /\ RegistryFollows' /\ StraysAreLateKills'
<1>. USE DEF plugin, history, GroupExists, GroupRuns
<1>1. UNCHANGED <<pc, pid, leader, helpers, registry, down, cmds, doomed, killed, strays>>
  BY DEF OtherStarts, OtherExits
<1>2. OneGroupPerPid'
  BY <1>1 DEF OtherStarts, OtherExits, FreePid, Inv, OneGroupPerPid
<1>3. QED
  BY <1>1, <1>2 DEF Inv, CommandFollows, RegistryFollows, StraysAreLateKills

LEMMA InvStep == Inv /\ [Next]_vars => Inv'
<1>. SUFFICES ASSUME Inv, [Next]_vars PROVE Inv'
  OBVIOUS
<1>1. TypeOK'
  BY TypeStep DEF Inv
<1>2. CommandFollows' /\ OneGroupPerPid' /\ RegistryFollows' /\ StraysAreLateKills'
  <2>1. CASE UNCHANGED vars
    BY <2>1 DEF vars, system, plugin, history, Inv, CommandFollows, OneGroupPerPid,
       RegistryFollows, StraysAreLateKills, GroupExists, GroupRuns
  <2>2. CASE Next
    BY <2>2, InvCall, InvKill, InvShutdown, InvSystem, InvOthers DEF Next, Shutdown
  <2>3. QED
    BY <2>1, <2>2
<1>3. QED
  BY <1>1, <1>2 DEF Inv

\* The inductive invariant holds throughout.
THEOREM Invariant == Spec => []Inv
  BY InvInit, InvStep, PTL DEF Spec

\* Nothing of a group that was killed before its command was reaped runs again.
THEOREM KillsAreFinal == Spec => []KilledTreesStayDead
<1>1. Inv => KilledTreesStayDead
  BY DEF Inv, RegistryFollows, KilledTreesStayDead
<1>2. QED
  BY <1>1, Invariant, PTL

\* When killAll returns, all it copied from the registry is dead.
THEOREM ShutdownKills == Spec => []ShutdownKillsTheRegistered
<1>1. Inv => ShutdownKillsTheRegistered
  BY DEF Inv, RegistryFollows, ShutdownKillsTheRegistered
<1>2. QED
  BY <1>1, Invariant, PTL

\* A killer never meets a command without a process number, and a call that is
\* over is in the registry no more.
THEOREM RegistryIsSound == Spec => []RegistryHoldsStarted
<1>1. Inv => RegistryHoldsStarted
  BY DEF Inv, TypeOK, CommandFollows, RegistryFollows, RegistryHoldsStarted
<1>2. QED
  BY <1>1, Invariant, PTL

\* A kill strikes a foreign group only after its own command was reaped.
THEOREM StraysComeLate == Spec => []StraysAreLateKills
<1>1. Inv => StraysAreLateKills
  BY DEF Inv
<1>2. QED
  BY <1>1, Invariant, PTL
=============================================================================
