----------------------- MODULE StreamExecutionProofs -----------------------
(***************************************************************************)
(* Proofs about StreamExecution, for every set of conversations, lines and *)
(* helpers and for every bound.                                            *)
(***************************************************************************)
EXTENDS StreamExecution, TLAPS

LEMMA NoHelperType == NoHelper \in Helper
  BY DEF NoHelper, Helper

LEMMA NoResultType == NoResult \in AgyResult
  BY DEF NoResult, AgyResult

\* A chunk that is emitted extends the wire or is recorded as lost.
LEMMA EmitType ==
    ASSUME StateOK, NEW k \in Kinds, NEW t \in Seq(Token),
           NEW a \in Control, NEW r \in Control, Emit(k, t, a, r)
    PROVE  /\ wire' \in Seq(ChunkType)
           /\ lost' \in SUBSET Kinds
           /\ closed' \in {"no", "ok", "error"}
           /\ pc' \in Control
<1>1. Chunk(k, t) \in ChunkType
  BY DEF Chunk, ChunkType, StateOK
<1>2. Append(wire, Chunk(k, t)) \in Seq(ChunkType)
  BY <1>1 DEF StateOK
<1>3. QED
  BY <1>2 DEF Emit, StateOK

\* The kill changes nothing but the process, and keeps its type.
LEMMA KillType ==
    ASSUME StateOK, KillProcessTree
    PROVE  /\ proc' \in {"none", "running", "zombie", "reaped"}
           /\ exit' \in {"none", "clean", "failed", "killed"}
           /\ helper' \in Helper
  BY NoHelperType, HelpersAssumption DEF KillProcessTree, StateOK

\* What reading a line leaves behind.
LEMMA ReadLineType ==
    ASSUME StateOK, NEW e, ReadLine(e)
    PROVE  /\ Head(pipe) \in Line
           /\ pipe' \in Seq(Line) /\ Len(pipe') <= PipeCap
           /\ TextSoFar \in Seq(Token)
<1>1. Head(pipe) \in Line /\ pipe' \in Seq(Line) /\ Len(pipe') = Len(pipe) - 1
  BY DEF ReadLine, StateOK
<1>2. Head(pipe).delta \in Token
  BY <1>1 DEF Line
<1>3. TextSoFar \in Seq(Token)
  BY <1>2 DEF TextSoFar, StateOK
<1>4. QED
  BY <1>1, <1>3, BoundsAssumption DEF StateOK

\* The flags stay Boolean.
LEMMA FlagsStep == FlagsOK /\ [Next]_vars => FlagsOK'
<1>. SUFFICES ASSUME FlagsOK, [Next]_vars PROVE FlagsOK'
  OBVIOUS
<1>. USE DEF FlagsOK, request, answer, outcome, process, output, timers, host, vars
<1>1. CASE Goroutine /\ ~Scan /\ ~Settle
  BY <1>1, Zenon DEF Goroutine, PrepareFails, Start, Register, EmitRole, Wait,
     KillOnRefusal, ReapOnRefusal, Return
<1>2. CASE Scan
  BY <1>2, Zenon DEF Scan, SkipLine, ScanInit, HoldDelta, StreamDelta, ScanResult,
     ScanError, ScanTooLong, EndOfOutput, ReadFails, ReadLine
<1>3. CASE Settle
  BY <1>3, Zenon DEF Settle, CloseWithError, EmitToolCalls, EmitToolFinish, EmitToolDone,
     EmitHeldText, EmitResponse, NothingHeld, EmitFinish, EmitUsage, EmitDone, Close
<1>4. CASE Environment
  BY <1>4, Zenon DEF Environment, Write, Exit, HelperExits, Timeout, WaitDelayElapses,
     ShutdownKill
<1>5. CASE UNCHANGED vars
  BY <1>5, Zenon
<1>6. QED
  BY <1>1, <1>2, <1>3, <1>4, <1>5 DEF Next, Goroutine

\* The rest of the state keeps its type.
LEMMA StateStep == StateOK /\ [Next]_vars => StateOK'
<1>. SUFFICES ASSUME StateOK, [Next]_vars PROVE StateOK'
  OBVIOUS
<1>. USE DEF request, answer, outcome, process, output, timers, host, vars
<1>1. CASE PrepareFails \/ CloseWithError \/ Close
  BY <1>1 DEF StateOK, PrepareFails, CloseWithError, Close, CloseStream, Control
<1>2. CASE Start \/ Register \/ EndOfOutput \/ ReadFails
  BY <1>2 DEF StateOK, Start, Register, EndOfOutput, ReadFails, Control
<1>3. CASE Wait \/ NothingHeld \/ ReapOnRefusal \/ Return
  BY <1>3 DEF StateOK, Wait, NothingHeld, ReapOnRefusal, Return, Control
<1>4. CASE EmitRole \/ EmitToolFinish \/ EmitToolDone \/ EmitFinish \/ EmitUsage \/ EmitDone
  <2>1. PICK k \in Kinds, a \in Control, r \in Control : Emit(k, << >>, a, r)
    BY <1>4 DEF EmitRole, EmitToolFinish, EmitToolDone, EmitFinish, EmitUsage, EmitDone,
                Kinds, Control
  <2>2. << >> \in Seq(Token)
    OBVIOUS
  <2>3. /\ wire' \in Seq(ChunkType) /\ lost' \in SUBSET Kinds
        /\ closed' \in {"no", "ok", "error"} /\ pc' \in Control
    BY <2>1, <2>2, EmitType
  <2>4. QED
    BY <1>4, <2>3 DEF StateOK, EmitRole, EmitToolFinish, EmitToolDone,
                      EmitFinish, EmitUsage, EmitDone
<1>5. CASE EmitToolCalls \/ EmitHeldText \/ EmitResponse
  <2>1. FullResponse \in Seq(Token) /\ text \in Seq(Token) /\ terminal.response \in Seq(Token)
    BY DEF FullResponse, StateOK, AgyResult
  <2>2. PICK k \in Kinds, t \in Seq(Token), a \in Control, r \in Control : Emit(k, t, a, r)
    BY <1>5, <2>1 DEF EmitToolCalls, EmitHeldText, EmitResponse, Kinds, Control
  <2>3. /\ wire' \in Seq(ChunkType) /\ lost' \in SUBSET Kinds
        /\ closed' \in {"no", "ok", "error"} /\ pc' \in Control
    BY <2>2, EmitType
  <2>4. QED
    BY <1>5, <2>3 DEF StateOK, EmitToolCalls, EmitHeldText, EmitResponse
<1>6. CASE SkipLine \/ ScanError \/ ScanTooLong \/ HoldDelta
  <2>1. \E e : ReadLine(e)
    BY <1>6 DEF SkipLine, ScanError, ScanTooLong, HoldDelta
  <2>2. pipe' \in Seq(Line) /\ Len(pipe') <= PipeCap /\ TextSoFar \in Seq(Token)
    BY <2>1, ReadLineType
  <2>3. QED
    BY <1>6, <2>2 DEF StateOK, SkipLine, ScanError, ScanTooLong, HoldDelta, ReadLine, Control
<1>7. CASE ScanInit \/ ScanResult
  <2>1. \E e : ReadLine(e)
    BY <1>7 DEF ScanInit, ScanResult
  <2>2. pipe' \in Seq(Line) /\ Len(pipe') <= PipeCap /\ Head(pipe) \in Line
    BY <2>1, ReadLineType
  <2>3. /\ Named(Head(pipe).conv) \in Conversations \union {NoConv}
        /\ [status |-> Head(pipe).status, response |-> Head(pipe).response] \in AgyResult
    BY <2>2 DEF Line, Named, StateOK, AgyResult
  <2>4. QED
    BY <1>7, <2>2, <2>3 DEF StateOK, ScanInit, ScanResult, ReadLine
<1>8. CASE StreamDelta
  <2>1. pipe' \in Seq(Line) /\ Len(pipe') <= PipeCap /\ TextSoFar \in Seq(Token)
        /\ Head(pipe) \in Line
    BY <1>8, ReadLineType DEF StreamDelta
  <2>2. <<Head(pipe).delta>> \in Seq(Token)
    BY <2>1 DEF Line
  <2>3. /\ wire' \in Seq(ChunkType) /\ lost' \in SUBSET Kinds
        /\ closed' \in {"no", "ok", "error"} /\ pc' \in Control
    BY <1>8, <2>2, EmitType DEF StreamDelta, Kinds, Control
  <2>4. QED
    BY <1>8, <2>1, <2>3 DEF StateOK, StreamDelta, ReadLine
<1>9. CASE KillOnRefusal \/ Timeout \/ ShutdownKill
  <2>1. KillProcessTree
    BY <1>9 DEF KillOnRefusal, Timeout, ShutdownKill
  <2>2. QED
    BY <1>9, <2>1, KillType DEF StateOK, KillOnRefusal, Timeout, ShutdownKill, Control
<1>10. CASE Write
  <2>1. \E line \in Line : pipe' = Append(pipe, line)
    BY <1>10, LinesAssumption DEF Write
  <2>2. pipe' \in Seq(Line) /\ Len(pipe') <= PipeCap
    BY <1>10, <2>1, BoundsAssumption DEF Write, StateOK
  <2>3. QED
    BY <1>10, <2>2, BoundsAssumption DEF Write, StateOK
<1>11. CASE Exit \/ HelperExits \/ WaitDelayElapses
  BY <1>11, NoHelperType, HelpersAssumption DEF StateOK, Exit, HelperExits, WaitDelayElapses
<1>12. CASE UNCHANGED vars
  BY <1>12 DEF StateOK
<1>13. QED
  BY <1>1, <1>2, <1>3, <1>4, <1>5, <1>6, <1>7, <1>8, <1>9, <1>10, <1>11, <1>12
     DEF Next, Goroutine, Scan, Settle, Environment

LEMMA TypeInit == Init => TypeOK
<1>1. Init => FlagsOK
  BY DEF Init, FlagsOK
<1>2. Init => StateOK
  BY NoHelperType, NoResultType, BoundsAssumption DEF Init, StateOK, Control
<1>3. QED
  BY <1>1, <1>2 DEF TypeOK

\* Every variable of a stream keeps its type.
THEOREM TypeCorrect == Spec => []TypeOK
  BY TypeInit, FlagsStep, StateStep, PTL DEF Spec, TypeOK

-----------------------------------------------------------------------------
(* The inductive invariant. *)

\* An emitted chunk was tried, whether the host took it or not.
LEMMA EmitTried ==
    ASSUME StateOK, NEW k \in Kinds, NEW t, NEW a, NEW r, Emit(k, t, a, r)
    PROVE  /\ Tried' = Tried \union {k}
           /\ closed' = closed
           /\ \/ lost' = lost /\ pc' = a
              \/ lost' = lost \union {k} /\ pc' = r
<1>1. CASE wire' = Append(wire, Chunk(k, t)) /\ lost' = lost /\ pc' = a
  <2>1. Chunk(k, t).kind = k
    BY DEF Chunk
  <2>2. /\ DOMAIN wire' = DOMAIN wire \union {Len(wire) + 1}
        /\ \A i \in DOMAIN wire : wire'[i] = wire[i]
        /\ wire'[Len(wire) + 1] = Chunk(k, t)
    BY <1>1 DEF StateOK
  <2>3. Sent' = Sent \union {k}
    BY <2>1, <2>2 DEF Sent
  <2>4. QED
    BY <1>1, <2>3 DEF Tried, Emit
<1>2. CASE lost' = lost \union {k} /\ wire' = wire /\ pc' = r
  BY <1>2 DEF Tried, Sent, Emit
<1>3. QED
  BY <1>1, <1>2 DEF Emit

\* A step that leaves the stream alone leaves what was tried alone.
LEMMA QuietTried == ASSUME wire' = wire, lost' = lost PROVE Tried' = Tried
  BY DEF Tried, Sent

LEMMA InvInit == Init => Inv
<1>. SUFFICES ASSUME Init PROVE Inv
  OBVIOUS
<1>1. TypeOK
  BY TypeInit
<1>2. Tried = {}
  BY DEF Init, Tried, Sent
<1>3. QED
  BY <1>1, <1>2 DEF Init, Inv, ProcessFollows, RegistryFollows, HostFollows,
                    OnlyCleanRunsFinish, Finishing

\* The steps of agy, its helpers, the timers and the shutdown: the process only
\* moves from running to zombie.
LEMMA InvEnvironment ==
    ASSUME Inv, Environment
    PROVE  ProcessFollows' /\ RegistryFollows' /\ HostFollows' /\ OnlyCleanRunsFinish'
<1>. USE DEF request, answer, outcome, process, output, timers, host
<1>1. /\ pc' = pc /\ lost' = lost /\ closed' = closed /\ registered' = registered
      /\ waitErr' = waitErr /\ scanErr' = scanErr /\ streamError' = streamError
      /\ terminal' = terminal /\ wire' = wire
  BY DEF Environment, Write, Exit, HelperExits, Timeout, WaitDelayElapses, ShutdownKill
<1>2. Tried' = Tried
  BY <1>1, QuietTried
<1>3. \/ proc' = proc /\ exit' = exit /\ ctx' = ctx
      \/ proc = "running" /\ proc' = "zombie"
      \/ proc = "zombie" /\ proc' = "zombie"
  BY DEF Environment, Write, Exit, HelperExits, Timeout, WaitDelayElapses, ShutdownKill,
         KillProcessTree
<1>4. RegistryFollows' /\ HostFollows'
  BY <1>1, <1>2 DEF Inv, RegistryFollows, HostFollows
<1>5. ProcessFollows' /\ OnlyCleanRunsFinish'
  BY <1>1, <1>2, <1>3 DEF Inv, ProcessFollows, OnlyCleanRunsFinish, CleanRun, Finishing
<1>6. QED
  BY <1>4, <1>5

\* A wait without an error saw a clean exit before the deadline.
LEMMA WaitVerdict ==
    ASSUME StateOK, Wait, ~waitErr'
    PROVE  exit = "clean" /\ ctx = "live"
<1>1. waitErr' = (exit # "clean" \/ ctx = "done" \/ "stderr" \in helper.pipes)
  BY DEF Wait
<1>2. ~(exit # "clean" \/ ctx = "done" \/ "stderr" \in helper.pipes)
  BY <1>1
<1>3. QED
  BY <1>2 DEF StateOK

\* The steps before the scan loop, and those that end the goroutine.
LEMMA InvOutside ==
    ASSUME Inv, \/ PrepareFails \/ Start \/ Register \/ EmitRole \/ Wait
                \/ KillOnRefusal \/ ReapOnRefusal \/ Return
    PROVE  ProcessFollows' /\ RegistryFollows' /\ HostFollows' /\ OnlyCleanRunsFinish'
<1>. USE DEF request, answer, outcome, process, output, timers, host,
             Inv, ProcessFollows, RegistryFollows, HostFollows, OnlyCleanRunsFinish,
             CleanRun, Finishing
<1>1. CASE PrepareFails
  <2>1. Tried' = Tried
    BY <1>1, QuietTried DEF PrepareFails, CloseStream
  <2>2. QED
    BY <1>1, <2>1 DEF PrepareFails, CloseStream
<1>2. CASE Start \/ Register \/ Return
  <2>1. Tried' = Tried
    BY <1>2, QuietTried DEF Start, Register, Return
  <2>2. QED
    BY <1>2, <2>1 DEF Start, Register, Return
<1>3. CASE EmitRole
  <2>1. /\ Tried' = Tried \union {"role"}
        /\ closed' = closed
        /\ \/ lost' = lost /\ pc' = "scan"
           \/ lost' = lost \union {"role"} /\ pc' = "kill"
    BY <1>3, EmitTried DEF EmitRole, Kinds, TypeOK
  <2>2. Tried = {} /\ lost = {}
    BY <1>3 DEF EmitRole, Tried
  <2>3. QED
    BY <1>3, <2>1, <2>2 DEF EmitRole
<1>4. CASE Wait
  <2>1. Tried' = Tried
    BY <1>4, QuietTried DEF Wait
  <2>2. ~waitErr' => exit = "clean" /\ ctx = "live"
    BY <1>4, WaitVerdict DEF TypeOK
  <2>3. /\ pc = "wait" /\ pc' = "settle" /\ proc' = "reaped"
        /\ UNCHANGED <<exit, ctx, wire, lost, closed, registered, terminal, streamError, scanErr>>
    BY <1>4, Zenon DEF Wait
  <2>4. QED
    BY <2>1, <2>2, <2>3
<1>5. CASE KillOnRefusal \/ ReapOnRefusal
  <2>1. Tried' = Tried
    BY <1>5, QuietTried DEF KillOnRefusal, ReapOnRefusal
  <2>2. QED
    BY <1>5, <2>1 DEF KillOnRefusal, ReapOnRefusal, KillProcessTree
<1>6. QED
  BY <1>1, <1>2, <1>3, <1>4, <1>5

\* The scan loop: only the role and content were tried, and a refusal leaves it.
LEMMA InvScan ==
    ASSUME Inv, Scan
    PROVE  ProcessFollows' /\ RegistryFollows' /\ HostFollows' /\ OnlyCleanRunsFinish'
<1>. USE DEF request, answer, outcome, process, output, timers, host,
             Inv, ProcessFollows, RegistryFollows, HostFollows, OnlyCleanRunsFinish,
             CleanRun, Finishing
<1>1. CASE Scan /\ ~StreamDelta
  <2>1. wire' = wire /\ lost' = lost /\ closed' = closed
    BY <1>1 DEF Scan, SkipLine, ScanInit, HoldDelta, ScanResult, ScanError, ScanTooLong,
                EndOfOutput, ReadFails, ReadLine
  <2>2. /\ pc = "scan" /\ pc' \in {"scan", "wait"}
        /\ proc' = proc /\ registered' = registered
    BY <1>1 DEF Scan, SkipLine, ScanInit, HoldDelta, ScanResult, ScanError, ScanTooLong,
                EndOfOutput, ReadFails, ReadLine
  <2>3. Tried' = Tried
    BY <2>1, QuietTried
  <2>4. QED
    BY <2>1, <2>2, <2>3
<1>2. CASE StreamDelta
  <2>1. /\ Tried' = Tried \union {"content"}
        /\ closed' = closed
        /\ \/ lost' = lost /\ pc' = "scan"
           \/ lost' = lost \union {"content"} /\ pc' = "kill"
    BY <1>2, EmitTried DEF StreamDelta, Kinds, TypeOK
  <2>2. QED
    BY <1>2, <2>1 DEF StreamDelta, ReadLine
<1>3. QED
  BY <1>1, <1>2

\* Settling: after a clean run the answer is finished, else an error closes it.
LEMMA InvSettle ==
    ASSUME Inv, Settle
    PROVE  ProcessFollows' /\ RegistryFollows' /\ HostFollows' /\ OnlyCleanRunsFinish'
<1>. USE DEF request, answer, outcome, process, output, timers, host,
             Inv, ProcessFollows, RegistryFollows, HostFollows, OnlyCleanRunsFinish,
             CleanRun, Finishing
<1>1. CASE CloseWithError
  <2>1. Tried' = Tried
    BY <1>1, QuietTried DEF CloseWithError, CloseStream
  <2>2. QED
    BY <1>1, <2>1 DEF CloseWithError, CloseStream
<1>2. CASE EmitToolCalls
  <2>1. /\ Tried' = Tried \union {"tool_calls"} /\ closed' = closed /\ pc' = "toolFinish"
    BY <1>2, EmitTried DEF EmitToolCalls, Kinds, TypeOK
  <2>2. QED
    BY <1>2, <2>1 DEF EmitToolCalls, Rejected
<1>3. CASE EmitToolFinish
  <2>1. /\ Tried' = Tried \union {IF wantsUsage THEN "usage" ELSE "finish"}
        /\ closed' = closed /\ pc' = "toolDone"
    BY <1>3, EmitTried DEF EmitToolFinish, Kinds, TypeOK
  <2>2. QED
    BY <1>3, <2>1 DEF EmitToolFinish
<1>4. CASE EmitToolDone
  <2>1. /\ Tried' = Tried \union {"done"} /\ closed' = closed /\ pc' = "close"
    BY <1>4, EmitTried DEF EmitToolDone, Kinds, TypeOK
  <2>2. QED
    BY <1>4, <2>1 DEF EmitToolDone
<1>5. CASE EmitHeldText
  <2>1. /\ Tried' = Tried \union {"content"} /\ closed' = closed /\ pc' = "finish"
        /\ lost' \subseteq {"content"}
    BY <1>5, EmitTried DEF EmitHeldText, Kinds, TypeOK
  <2>2. QED
    BY <1>5, <2>1 DEF EmitHeldText, Rejected
<1>6. CASE EmitResponse
  <2>1. /\ Tried' = Tried \union {"content"} /\ closed' = closed
        /\ \/ lost' = lost /\ pc' = "finish"
           \/ lost' = lost \union {"content"} /\ pc' = "return"
    BY <1>6, EmitTried DEF EmitResponse, Kinds, TypeOK
  <2>2. QED
    BY <1>6, <2>1 DEF EmitResponse, Rejected
<1>7. CASE NothingHeld
  <2>1. Tried' = Tried
    BY <1>7, QuietTried DEF NothingHeld
  <2>2. QED
    BY <1>7, <2>1 DEF NothingHeld, Rejected
<1>8. CASE EmitFinish
  <2>1. /\ Tried' = Tried \union {"finish"} /\ closed' = closed
        /\ \/ lost' = lost /\ pc' \in {"usage", "done"}
           \/ lost' = lost \union {"finish"} /\ pc' = "return"
    BY <1>8, EmitTried DEF EmitFinish, Kinds, TypeOK
  <2>2. QED
    BY <1>8, <2>1 DEF EmitFinish
<1>9. CASE EmitUsage
  <2>1. /\ Tried' = Tried \union {"usage"} /\ closed' = closed
        /\ \/ lost' = lost /\ pc' = "done"
           \/ lost' = lost \union {"usage"} /\ pc' = "return"
    BY <1>9, EmitTried DEF EmitUsage, Kinds, TypeOK
  <2>2. QED
    BY <1>9, <2>1 DEF EmitUsage
<1>10. CASE EmitDone
  <2>1. /\ Tried' = Tried \union {"done"} /\ closed' = closed
        /\ \/ lost' = lost /\ pc' = "close"
           \/ lost' = lost \union {"done"} /\ pc' = "return"
    BY <1>10, EmitTried DEF EmitDone, Kinds, TypeOK
  <2>2. QED
    BY <1>10, <2>1 DEF EmitDone
<1>11. CASE Close
  <2>1. Tried' = Tried
    BY <1>11, QuietTried DEF Close, CloseStream
  <2>2. QED
    BY <1>11, <2>1 DEF Close, CloseStream
<1>12. QED
  BY <1>1, <1>2, <1>3, <1>4, <1>5, <1>6, <1>7, <1>8, <1>9, <1>10, <1>11 DEF Settle

LEMMA InvStep == Inv /\ [Next]_vars => Inv'
<1>. SUFFICES ASSUME Inv, [Next]_vars PROVE Inv'
  OBVIOUS
<1>1. TypeOK'
  BY FlagsStep, StateStep DEF Inv, TypeOK
<1>2. ProcessFollows' /\ RegistryFollows' /\ HostFollows' /\ OnlyCleanRunsFinish'
  <2>1. CASE Goroutine
    BY <2>1, InvOutside, InvScan, InvSettle DEF Goroutine
  <2>2. CASE Environment
    BY <2>2, InvEnvironment
  <2>3. CASE UNCHANGED vars
    <3>1. Tried' = Tried
      BY <2>3, QuietTried DEF vars, host
    <3>2. QED
      BY <2>3, <3>1 DEF vars, request, answer, outcome, process, output, timers, host,
         Inv, ProcessFollows, RegistryFollows, HostFollows, OnlyCleanRunsFinish, CleanRun
  <2>4. QED
    BY <2>1, <2>2, <2>3 DEF Next
<1>3. QED
  BY <1>1, <1>2 DEF Inv

\* The inductive invariant holds throughout.
THEOREM Invariant == Spec => []Inv
  BY InvInit, InvStep, PTL DEF Spec

\* No finish reason, usage, tool call, [DONE] or clean close without a clean
\* run of agy.
THEOREM FinishesOnlyCleanRuns == Spec => []OnlyCleanRunsFinish
<1>1. Inv => OnlyCleanRunsFinish
  BY DEF Inv
<1>2. QED
  BY <1>1, Invariant, PTL

\* A stream that is over has reaped its agy and left the registry.
THEOREM LeavesNothingBehind == Spec => []NothingLeftBehind
<1>1. Inv => NothingLeftBehind
  BY DEF Inv, ProcessFollows, RegistryFollows, NothingLeftBehind
<1>2. QED
  BY <1>1, Invariant, PTL

\* A stream that is over was closed, unless the host refused a chunk.
THEOREM TellsTheHost == Spec => []HostIsTold
<1>1. Inv => HostIsTold
  BY DEF Inv, HostFollows, HostIsTold
<1>2. QED
  BY <1>1, Invariant, PTL

-----------------------------------------------------------------------------
(* The stream contract. *)

LEMMA ContractTried == Contract!Tried = Tried
  BY DEF Contract!Tried, Tried, Sent, SentKinds

\* The contract's view of a stream changes with the stream alone.
LEMMA ContractQuiet ==
    ASSUME UNCHANGED host
    PROVE  UNCHANGED Contract!contractVars
  BY DEF host, Contract!contractVars, SentKinds

\* An emitted chunk that the contract allows is a step of the contract.
LEMMA EmitSends ==
    ASSUME StateOK, NEW k \in Kinds, NEW t, NEW a, NEW r, Emit(k, t, a, r),
           closed = "no", Contract!MayFollow(k),
           lost \ {"content"} = {} \/ "tool_calls" \in Tried
    PROVE  Contract!ContractNext
<1>1. ~Contract!GivenUp
  BY ContractTried DEF Contract!GivenUp
<1>2. \/ SentKinds' = Append(SentKinds, k) /\ lost' = lost
      \/ lost' = lost \union {k} /\ SentKinds' = SentKinds
  <2>1. CASE wire' = Append(wire, Chunk(k, t)) /\ lost' = lost
    <3>1. Chunk(k, t).kind = k
      BY DEF Chunk
    <3>2. SentKinds' = Append(SentKinds, k)
      BY <2>1, <3>1 DEF SentKinds, StateOK
    <3>3. QED
      BY <2>1, <3>2
  <2>2. CASE wire' = wire /\ lost' = lost \union {k}
    BY <2>2 DEF SentKinds
  <2>3. QED
    BY <2>1, <2>2 DEF Emit
<1>3. closed' = closed
  BY DEF Emit
<1>4. Contract!Send(k)
  BY <1>1, <1>2, <1>3 DEF Contract!Send
<1>5. QED
  BY <1>4 DEF Contract!ContractNext, Contract!Kind, Kinds

LEMMA ContractInit == Init => Contract!ContractInit
  BY DEF Init, Contract!ContractInit, SentKinds

LEMMA ContractStep ==
    ASSUME Inv, [Next]_vars
    PROVE  [Contract!ContractNext]_(Contract!contractVars)
<1>. USE DEF TypeOK, Kinds
<1>1. CASE PrepareFails \/ CloseWithError
  <2>1. closed = "no" /\ lost = {} /\ Tried \subseteq {"role", "content"}
    BY <1>1 DEF PrepareFails, CloseWithError, Inv, HostFollows, Tried
  <2>2. closed' = "error" /\ wire' = wire /\ lost' = lost
    BY <1>1 DEF PrepareFails, CloseWithError, CloseStream
  <2>3. Contract!CloseFailed
    BY <2>1, <2>2, ContractTried DEF Contract!CloseFailed, SentKinds
  <2>4. QED
    BY <2>3 DEF Contract!ContractNext
<1>2. CASE Close
  <2>1. /\ closed = "no" /\ "done" \in Tried
        /\ "tool_calls" \in Tried \/ lost \subseteq {"content"}
    BY <1>2 DEF Close, Inv, HostFollows
  <2>2. closed' = "ok" /\ wire' = wire /\ lost' = lost
    BY <1>2 DEF Close, CloseStream
  <2>3. Contract!CloseFinished
    BY <2>1, <2>2, ContractTried
       DEF Contract!CloseFinished, Contract!GivenUp, SentKinds
  <2>4. QED
    BY <2>3 DEF Contract!ContractNext
<1>3. CASE EmitRole
  <2>1. closed = "no" /\ Tried = {} /\ lost = {}
    BY <1>3 DEF EmitRole, Inv, HostFollows, Tried
  <2>2. Contract!MayFollow("role")
    BY <2>1, ContractTried DEF Contract!MayFollow
  <2>3. QED
    BY <1>3, <2>1, <2>2, EmitSends DEF EmitRole, Inv
<1>4. CASE StreamDelta \/ EmitHeldText \/ EmitResponse
  <2>1. /\ closed = "no" /\ lost = {}
        /\ Tried \subseteq {"role", "content"} /\ "role" \in Tried
    BY <1>4 DEF StreamDelta, ReadLine, EmitHeldText, EmitResponse, Inv, HostFollows
  <2>2. Contract!MayFollow("content")
    BY <2>1, ContractTried DEF Contract!MayFollow
  <2>3. \E t, a, r : Emit("content", t, a, r)
    BY <1>4 DEF StreamDelta, EmitHeldText, EmitResponse
  <2>4. QED
    BY <2>1, <2>2, <2>3, EmitSends DEF Inv
<1>5. CASE EmitToolCalls
  <2>1. /\ closed = "no" /\ lost = {}
        /\ Tried \subseteq {"role", "content"} /\ "role" \in Tried
    BY <1>5 DEF EmitToolCalls, Inv, HostFollows
  <2>2. Contract!MayFollow("tool_calls")
    BY <2>1, ContractTried DEF Contract!MayFollow
  <2>3. QED
    BY <1>5, <2>1, <2>2, EmitSends DEF EmitToolCalls, Inv
<1>6. CASE EmitToolFinish
  <2>1. /\ closed = "no" /\ "tool_calls" \in Tried /\ "role" \in Tried
        /\ Tried \subseteq {"role", "content", "tool_calls"}
    BY <1>6 DEF EmitToolFinish, Inv, HostFollows
  <2>2. Contract!MayFollow("usage") /\ Contract!MayFollow("finish")
    BY <2>1, ContractTried DEF Contract!MayFollow
  <2>3. \E k \in {"usage", "finish"} : \E t, a, r : Emit(k, t, a, r)
    BY <1>6 DEF EmitToolFinish
  <2>4. QED
    BY <2>1, <2>2, <2>3, EmitSends DEF Inv
<1>7. CASE EmitFinish
  <2>1. /\ closed = "no" /\ lost \subseteq {"content"}
        /\ Tried \subseteq {"role", "content"} /\ "role" \in Tried
    BY <1>7 DEF EmitFinish, Inv, HostFollows
  <2>2. Contract!MayFollow("finish")
    BY <2>1, ContractTried DEF Contract!MayFollow
  <2>3. QED
    BY <1>7, <2>1, <2>2, EmitSends DEF EmitFinish, Inv
<1>8. CASE EmitUsage
  <2>1. /\ closed = "no" /\ lost \subseteq {"content"}
        /\ Tried \subseteq {"role", "content", "finish"} /\ "finish" \in Tried
    BY <1>8 DEF EmitUsage, Inv, HostFollows
  <2>2. Contract!MayFollow("usage")
    BY <2>1, ContractTried DEF Contract!MayFollow
  <2>3. QED
    BY <1>8, <2>1, <2>2, EmitSends DEF EmitUsage, Inv
<1>9. CASE EmitDone \/ EmitToolDone
  <2>1. /\ closed = "no" /\ "done" \notin Tried /\ Tried \intersect {"finish", "usage"} # {}
        /\ "tool_calls" \in Tried \/ lost \subseteq {"content"}
    BY <1>9 DEF EmitDone, EmitToolDone, Inv, HostFollows
  <2>2. Contract!MayFollow("done")
    BY <2>1, ContractTried DEF Contract!MayFollow
  <2>3. \E t, a, r : Emit("done", t, a, r)
    BY <1>9 DEF EmitDone, EmitToolDone
  <2>4. QED
    BY <2>1, <2>2, <2>3, EmitSends DEF Inv
<1>10. CASE UNCHANGED host
  BY <1>10, ContractQuiet
<1>11. QED
  <2>1. CASE Goroutine
    BY <2>1, <1>1, <1>2, <1>3, <1>4, <1>5, <1>6, <1>7, <1>8, <1>9, <1>10
       DEF Goroutine, Start, Register, Wait, KillOnRefusal, ReapOnRefusal, Return,
           Scan, SkipLine, ScanInit, HoldDelta, ScanResult, ScanError, ScanTooLong,
           EndOfOutput, ReadFails, Settle, NothingHeld
  <2>2. CASE Environment
    BY <2>2, <1>10
       DEF Environment, Write, Exit, HelperExits, Timeout, WaitDelayElapses, ShutdownKill
  <2>3. CASE UNCHANGED vars
    BY <2>3, <1>10 DEF vars
  <2>4. QED
    BY <2>1, <2>2, <2>3 DEF Next

\* executeStream implements the contract of a streamed chat completion.
THEOREM KeepsTheContract == Spec => ImplementsContract
<1>1. Inv /\ [Next]_vars => [Contract!ContractNext]_(Contract!contractVars)
  BY ContractStep
<1>2. QED
  BY <1>1, ContractInit, Invariant, PTL
     DEF Spec, ImplementsContract, Contract!ContractSpec

-----------------------------------------------------------------------------
(* The contract of every run. *)

\* Where the goroutine is before cmd.Wait has returned.
Early == {"prepare", "register", "role", "scan", "wait", "kill", "reap"}

\* What the run's verdict is made of.
verdict == <<proc, exit, ctx, terminal, streamError, scanErr, waitErr>>

\* Before the process is reaped the run goes on, and nothing is told.
LEMMA EarlyIsOpen == ASSUME Inv, pc \in Early PROVE Run = "going" /\ Told = "nothing"
<1>1. proc # "reaped" /\ closed = "no"
  BY DEF Inv, ProcessFollows, HostFollows, Early
<1>2. Tried \intersect {"tool_calls", "finish"} = {}
  BY DEF Inv, HostFollows, Early
<1>3. Run = "going"
  BY <1>1 DEF Run
<1>4. Told = "nothing"
  BY <1>1, <1>2 DEF Told
<1> QED
  BY <1>3, <1>4

\* Afterwards no step changes how the run went.
LEMMA LateStays ==
    ASSUME Inv, UNCHANGED verdict, closed' = closed \/ proc = "reaped"
    PROVE  Run' = Run
<1>1. CleanRun' <=> CleanRun
  BY DEF verdict, CleanRun
<1>2. CASE proc = "reaped"
  BY <1>1, <1>2 DEF verdict, Run
<1>3. CASE proc # "reaped" /\ closed' = closed
  BY <1>3 DEF verdict, Run
<1> QED
  BY <1>2, <1>3

\* What is told depends on the chunks that carry an answer, and on the close.
LEMMA ToldStays ==
    ASSUME Tried' = Tried \/ Tried' \ {"role", "content", "usage", "done"}
                               = Tried \ {"role", "content", "usage", "done"}
                          \/ (closed = "no" /\ "tool_calls" \in Tried \intersect Tried'),
           (closed' = "error") <=> (closed = "error")
    PROVE  Told' = Told
<1>1. closed = "error" \/ (Tried' \intersect {"tool_calls", "finish"} = {}
                             <=> Tried \intersect {"tool_calls", "finish"} = {})
  OBVIOUS
<1> QED
  BY <1>1 DEF Told

LEMMA RunStep ==
    ASSUME Inv, Inv', [Next]_vars
    PROVE  [RunTold!RunNext]_(RunTold!runVars)
<1> USE DEF RunTold!runVars, RunTold!RunNext
<1>1. CASE PrepareFails
  <2>1. Run = "going" /\ Told = "nothing"
    BY <1>1, EarlyIsOpen DEF PrepareFails, Early
  <2>2. closed' = "error" /\ proc' # "reaped"
    BY <1>1 DEF PrepareFails, CloseStream, Inv, ProcessFollows, process
  <2>3. Run' = "bad" /\ Told' = "error"
    BY <2>2 DEF Run, Told
  <2> QED
    BY <2>1, <2>3 DEF RunTold!CannotRun
<1>2. CASE pc \in Early /\ pc' \in Early
  <2>1. Run = "going" /\ Told = "nothing"
    BY <1>2, EarlyIsOpen
  <2>2. closed' = "no" /\ proc' # "reaped"
    BY <1>2 DEF Inv, ProcessFollows, HostFollows, Early
  <2>3. Tried' \intersect {"tool_calls", "finish"} = {}
    BY <1>2 DEF Inv, HostFollows, Early
  <2>4. Run' = "going"
    BY <2>2 DEF Run
  <2>5. Told' = "nothing"
    BY <2>2, <2>3 DEF Told
  <2> QED
    BY <2>1, <2>4, <2>5
<1>3. CASE Wait \/ ReapOnRefusal
  <2>1. Run = "going" /\ Told = "nothing"
    BY <1>3, EarlyIsOpen DEF Wait, ReapOnRefusal, Early
  <2>2. proc' = "reaped" /\ closed' = closed /\ wire' = wire /\ lost' = lost
    BY <1>3 DEF Wait, ReapOnRefusal, host
  <2>3. Run' \in {"clean", "bad"}
    BY <2>2 DEF Run
  <2>4. Told' = Told
    BY <2>2, QuietTried, ToldStays
  <2> QED
    BY <2>1, <2>3, <2>4 DEF RunTold!Over
<1>4. CASE CloseWithError
  <2>1. proc = "reaped" /\ UNCHANGED verdict
    BY <1>4 DEF CloseWithError, Inv, ProcessFollows, verdict, answer, outcome, process, timers
  <2>2. Run' = Run
    BY <2>1, LateStays
  <2>3. Run = "bad"
    BY <1>4, <2>1 DEF CloseWithError, Rejected, Run, CleanRun
  <2>4. closed = "no" /\ Tried \intersect {"tool_calls", "finish"} = {}
    BY <1>4 DEF CloseWithError, Inv, HostFollows
  <2>5. Told = "nothing"
    BY <2>4 DEF Told
  <2>6. Told' = "error"
    BY <1>4 DEF CloseWithError, CloseStream, Told
  <2> QED
    BY <2>2, <2>3, <2>5, <2>6 DEF RunTold!Tell
<1>5. CASE EmitToolCalls \/ EmitFinish
  <2>1. PICK k \in {"tool_calls", "finish"} : \E t, a, r : Emit(k, t, a, r)
    BY <1>5 DEF EmitToolCalls, EmitFinish
  <2>2. Tried' = Tried \union {k} /\ closed' = closed
    BY <2>1, EmitTried DEF Inv, TypeOK, Kinds
  <2>3. proc = "reaped" /\ UNCHANGED verdict
    BY <1>5 DEF EmitToolCalls, EmitFinish, Inv, ProcessFollows, Finishing, verdict, answer,
       outcome, process, timers
  <2>4. CleanRun /\ ~waitErr
    BY <1>5, <2>3 DEF EmitToolCalls, EmitFinish, Inv, ProcessFollows, Finishing, Rejected,
       CleanRun
  <2>5. Run = "clean" /\ Run' = Run
    BY <2>3, <2>4, LateStays, <2>2 DEF Run
  <2>6. closed = "no" /\ Tried \intersect {"tool_calls", "finish"} = {}
    BY <1>5 DEF EmitToolCalls, EmitFinish, Inv, HostFollows
  <2>7. Told = "nothing"
    BY <2>6 DEF Told
  <2>8. Told' = "answer"
    <3>1. closed' # "error" /\ Tried' \intersect {"tool_calls", "finish"} # {}
      BY <2>1, <2>2, <2>6
    <3> QED
      BY <3>1 DEF Told
  <2> QED
    BY <2>5, <2>7, <2>8 DEF RunTold!Tell
<1>6. CASE EmitToolDone \/ EmitHeldText \/ EmitResponse \/ EmitUsage \/ EmitDone
  <2>1. PICK k \in {"content", "usage", "done"} : \E t, a, r : Emit(k, t, a, r)
    BY <1>6 DEF EmitToolDone, EmitHeldText, EmitResponse, EmitUsage, EmitDone
  <2>2. Tried' = Tried \union {k} /\ closed' = closed
    BY <2>1, EmitTried DEF Inv, TypeOK, Kinds
  <2>3. UNCHANGED verdict
    BY <1>6 DEF EmitToolDone, EmitHeldText, EmitResponse, EmitUsage, EmitDone, verdict,
       answer, outcome, process, timers
  <2>4. Run' = Run
    BY <2>2, <2>3, LateStays
  <2>5. Told' = Told
    BY <2>2, ToldStays
  <2> QED
    BY <2>4, <2>5
<1>7. CASE EmitToolFinish
  <2>1. PICK k \in {"usage", "finish"} : \E t, a, r : Emit(k, t, a, r)
    BY <1>7 DEF EmitToolFinish
  <2>2. Tried' = Tried \union {k} /\ closed' = closed
    BY <2>1, EmitTried DEF Inv, TypeOK, Kinds
  <2>3. "tool_calls" \in Tried /\ closed = "no"
    BY <1>7 DEF EmitToolFinish, Inv, HostFollows
  <2>4. UNCHANGED verdict
    BY <1>7 DEF EmitToolFinish, verdict, answer, outcome, process, timers
  <2>5. Run' = Run
    BY <2>2, <2>4, LateStays
  <2>6. Told' = Told
    BY <2>2, <2>3, ToldStays
  <2> QED
    BY <2>5, <2>6
<1>8. CASE NothingHeld \/ Close \/ Return
  <2>1. UNCHANGED verdict /\ proc = "reaped"
    BY <1>8 DEF NothingHeld, Close, Return, Inv, ProcessFollows, Finishing, verdict, answer,
       outcome, process, timers
  <2>2. /\ wire' = wire /\ lost' = lost
        /\ (closed' = "error") <=> (closed = "error")
    BY <1>8 DEF NothingHeld, Close, CloseStream, Return, Inv, HostFollows, host
  <2>3. Told' = Told
    BY <2>2, QuietTried, ToldStays
  <2> QED
    BY <2>1, <2>3, LateStays
<1>9. CASE pc \notin Early /\ (Environment \/ UNCHANGED vars)
  <2>1. proc \in {"none", "reaped"}
    BY <1>9 DEF Inv, TypeOK, StateOK, Control, ProcessFollows, Finishing, Early
  <2>2. UNCHANGED verdict
    BY <1>9, <2>1 DEF Environment, Write, Exit, HelperExits, Timeout, WaitDelayElapses,
       ShutdownKill, KillProcessTree, vars, verdict, answer, outcome, process, timers
  <2>3. wire' = wire /\ lost' = lost /\ closed' = closed
    BY <1>9 DEF Environment, Write, Exit, HelperExits, Timeout, WaitDelayElapses,
       ShutdownKill, vars, host
  <2>4. Told' = Told
    BY <2>3, QuietTried, ToldStays
  <2> QED
    BY <2>2, <2>3, <2>4, LateStays
<1>10. CASE Start \/ Register \/ EmitRole \/ Scan \/ KillOnRefusal
  <2>1. CASE Start \/ Register \/ EmitRole \/ KillOnRefusal
    BY <2>1, <1>2 DEF Start, Register, EmitRole, KillOnRefusal, Emit, Early
  <2>2. CASE Scan
    BY <2>2, <1>2 DEF Scan, SkipLine, ScanInit, HoldDelta, StreamDelta, ScanResult,
       ScanError, ScanTooLong, EndOfOutput, ReadFails, ReadLine, Emit, Early
  <2> QED
    BY <1>10, <2>1, <2>2
<1>11. CASE pc \in Early /\ (Environment \/ UNCHANGED vars)
  BY <1>11, <1>2 DEF Environment, Write, Exit, HelperExits, Timeout, WaitDelayElapses,
     ShutdownKill, vars
<1> QED
  BY <1>1, <1>3, <1>4, <1>5, <1>6, <1>7, <1>8, <1>9, <1>10, <1>11
     DEF Next, Goroutine, Settle

\* A stream tells its client of an answer when its run was clean, and of an error
\* when it was not, as a completion does; or nothing, if the host gave up on it.
THEOREM KeepsTheRunContract == Spec => ImplementsRunContract
<1>1. Init => RunTold!RunInit
  <2>1. Init => Inv
    BY InvInit
  <2>2. Init => pc \in Early
    BY DEF Init, Early
  <2> QED
    BY <2>1, <2>2, EarlyIsOpen DEF RunTold!RunInit
<1>2. Inv /\ Inv' /\ [Next]_vars => [RunTold!RunNext]_(RunTold!runVars)
  BY RunStep
<1> QED
  BY <1>1, <1>2, Invariant, PTL
     DEF Spec, ImplementsRunContract, RunTold!RunSpec

-----------------------------------------------------------------------------
(* The conversation id. *)

\* A chunk on the wire that names a conversation was sent while one was known,
\* and a known conversation is never forgotten.
ConversationKnown ==
    \A i \in DOMAIN wire : wire[i].conv # NoConv => conversationID # NoConv

Sticks == StateOK /\ ConversationKnown /\ ConversationSticks

\* Emitting a chunk keeps the id on every later chunk.
LEMMA EmitSticks ==
    ASSUME Sticks, NEW k \in Kinds, NEW t, NEW a, NEW r, Emit(k, t, a, r),
           conversationID' = conversationID
    PROVE  ConversationKnown' /\ ConversationSticks'
<1>1. CASE wire' = Append(wire, Chunk(k, t))
  <2>1. /\ Chunk(k, t).kind = k
        /\ k # "done" => Chunk(k, t).conv = conversationID
        /\ k = "done" => Chunk(k, t).conv = NoConv
    BY DEF Chunk
  <2>2. /\ DOMAIN wire = 1 .. Len(wire) /\ Len(wire) \in Nat
        /\ DOMAIN wire' = 1 .. (Len(wire) + 1)
        /\ \A i \in DOMAIN wire : wire'[i] = wire[i]
        /\ wire'[Len(wire) + 1] = Chunk(k, t)
    BY <1>1 DEF Sticks, StateOK
  <2>3. ConversationKnown'
    BY <2>1, <2>2 DEF Sticks, ConversationKnown
  <2>4. ConversationSticks'
    <3>. SUFFICES ASSUME NEW i \in DOMAIN wire', NEW j \in DOMAIN wire',
                         i < j, wire'[i].conv # NoConv, wire'[j].kind # "done"
                  PROVE  wire'[j].conv # NoConv
      BY DEF ConversationSticks
    <3>1. i \in DOMAIN wire /\ wire[i].conv # NoConv
      BY <2>2
    <3>2. CASE j \in DOMAIN wire
      BY <2>2, <3>1, <3>2 DEF Sticks, ConversationSticks
    <3>3. CASE j = Len(wire) + 1
      BY <2>1, <2>2, <3>1, <3>3 DEF Sticks, ConversationKnown
    <3>4. QED
      BY <2>2, <3>2, <3>3
  <2>5. QED
    BY <2>3, <2>4
<1>2. CASE wire' = wire
  BY <1>2 DEF Sticks, ConversationKnown, ConversationSticks
<1>3. QED
  BY <1>1, <1>2 DEF Emit

LEMMA SticksStep == Sticks /\ [Next]_vars => Sticks'
<1>. SUFFICES ASSUME Sticks, [Next]_vars PROVE Sticks'
  OBVIOUS
<1>. USE DEF request, answer, outcome, process, output, timers, host
<1>1. StateOK'
  BY StateStep DEF Sticks
<1>2. CASE \E k \in Kinds : \E t, a, r : Emit(k, t, a, r) /\ conversationID' = conversationID
  BY <1>1, <1>2, EmitSticks DEF Sticks
<1>3. CASE wire' = wire /\ (conversationID' = conversationID \/ conversationID' # NoConv)
  BY <1>1, <1>3 DEF Sticks, ConversationKnown, ConversationSticks
<1>4. CASE Scan
  <2>1. CASE StreamDelta
    BY <2>1, <1>2 DEF StreamDelta, Kinds
  <2>2. CASE ScanInit \/ ScanResult
    BY <2>2, <1>3 DEF ScanInit, ScanResult, Named
  <2>3. QED
    BY <1>4, <2>1, <2>2, <1>3 DEF Scan, SkipLine, HoldDelta, ScanError, ScanTooLong,
       EndOfOutput, ReadFails
<1>5. CASE EmitRole \/ Settle
  <2>1. CASE EmitRole \/ EmitToolCalls \/ EmitToolFinish \/ EmitToolDone \/ EmitHeldText
             \/ EmitResponse \/ EmitFinish \/ EmitUsage \/ EmitDone
    BY <2>1, <1>2 DEF EmitRole, EmitToolCalls, EmitToolFinish, EmitToolDone, EmitHeldText,
       EmitResponse, EmitFinish, EmitUsage, EmitDone, Kinds
  <2>2. CASE CloseWithError \/ NothingHeld \/ Close
    BY <2>2, <1>3 DEF CloseWithError, NothingHeld, Close, CloseStream
  <2>3. QED
    BY <1>5, <2>1, <2>2 DEF Settle
<1>6. CASE PrepareFails \/ Start \/ Register \/ Wait \/ KillOnRefusal \/ ReapOnRefusal \/ Return
  BY <1>6, <1>3 DEF PrepareFails, CloseStream, Start, Register, Wait, KillOnRefusal,
     ReapOnRefusal, Return
<1>7. CASE Environment
  BY <1>7, <1>3 DEF Environment, Write, Exit, HelperExits, Timeout, WaitDelayElapses,
     ShutdownKill
<1>8. CASE UNCHANGED vars
  BY <1>8, <1>3 DEF vars
<1>9. QED
  BY <1>4, <1>5, <1>6, <1>7, <1>8 DEF Next, Goroutine

\* Once a chunk named a conversation, every later one but [DONE] does.
THEOREM ConversationIsKept == Spec => []ConversationSticks
<1>1. Init => Sticks
  BY TypeInit DEF Init, Sticks, TypeOK, ConversationKnown, ConversationSticks
<1>2. Sticks => ConversationSticks
  BY DEF Sticks
<1>3. QED
  BY <1>1, <1>2, SticksStep, PTL DEF Spec

-----------------------------------------------------------------------------
(* What is on the wire. *)

\* A chunk is appended to the wire, or lost.
LEMMA EmitWire ==
    ASSUME StateOK, NEW k \in Kinds, NEW t, NEW a, NEW r, Emit(k, t, a, r)
    PROVE  /\ closed' = closed
           /\ \/ /\ lost' = lost /\ pc' = a
                 /\ Len(wire') = Len(wire) + 1
                 /\ DOMAIN wire' = 1 .. (Len(wire) + 1)
                 /\ \A i \in 1 .. Len(wire) : wire'[i] = wire[i]
                 /\ wire'[Len(wire) + 1].kind = k /\ wire'[Len(wire) + 1].text = t
              \/ lost' = lost \union {k} /\ wire' = wire /\ pc' = r
<1>1. closed' = closed
  BY DEF Emit
<1>2. CASE wire' = Append(wire, Chunk(k, t)) /\ lost' = lost /\ pc' = a
  <2>1. Chunk(k, t).kind = k /\ Chunk(k, t).text = t
    BY DEF Chunk
  <2>2. wire \in Seq(ChunkType)
    BY DEF StateOK
  <2> QED
    BY <1>1, <1>2, <2>1, <2>2
<1>3. CASE lost' = lost \union {k} /\ wire' = wire /\ pc' = r
  BY <1>1, <1>3
<1> QED
  BY <1>2, <1>3 DEF Emit

\* Before the role is sent the wire is empty.
LEMMA NothingSent == ASSUME StateOK, Tried = {} PROVE wire = << >>
<1>1. wire \in Seq(ChunkType)
  BY DEF StateOK
<1>2. ASSUME 1 \in DOMAIN wire PROVE FALSE
  BY <1>2 DEF Tried, Sent
<1> QED
  BY <1>1, <1>2

LEMMA PipeStep == ASSUME pipe \in Seq(Lines), Next PROVE pipe' \in Seq(Lines)
<1>. USE DEF request, answer, outcome, process, output, timers, host
<1>1. CASE Goroutine
  <2>1. pipe' = pipe \/ \E e : ReadLine(e)
    BY <1>1, Zenon DEF Goroutine, PrepareFails, Start, Register, EmitRole, Wait, Scan, SkipLine,
       ScanInit, HoldDelta, StreamDelta, ScanResult, ScanError, ScanTooLong, EndOfOutput,
       ReadFails, Settle, CloseWithError, EmitToolCalls, EmitToolFinish, EmitToolDone,
       EmitHeldText, EmitResponse, NothingHeld, EmitFinish, EmitUsage, EmitDone, Close,
       KillOnRefusal, ReapOnRefusal, Return
  <2>2. (\E e : ReadLine(e)) => pipe # << >> /\ pipe' = Tail(pipe)
    BY DEF ReadLine
  <2> QED
    BY <2>1, <2>2
<1>2. CASE Environment
  <2>1. pipe' = pipe \/ \E line \in Lines : pipe' = Append(pipe, line)
    BY <1>2, Zenon DEF Environment, Write, Exit, HelperExits, Timeout, WaitDelayElapses,
       ShutdownKill
  <2> QED
    BY <2>1
<1> QED
  BY <1>1, <1>2 DEF Next

\* Whether a text is held back is seen on its first delta, unless a fence is cut.
LEMMA FirstDeltaTells ==
    ASSUME NEW s \in Seq(Token), s # << >>, NEW d \in Token,
           s[1] # "half"
    PROVE  LooksLikeToolCall(Append(s, d)) <=> LooksLikeToolCall(<<s[1]>>)
  BY DEF LooksLikeToolCall, FenceAt, OpensWithJson

\* What looks like a tool call goes on looking like one.
LEMMA FirstDeltaHolds ==
    ASSUME NEW s \in Seq(Token), s # << >>, NEW d \in Token, LooksLikeToolCall(<<s[1]>>)
    PROVE  LooksLikeToolCall(Append(s, d))
  BY DEF LooksLikeToolCall, FenceAt, OpensWithJson

\* The scan loop: a delta is held back or goes out at once.
LEMMA WireScan ==
    ASSUME Inv, WireFollows, Scan
    PROVE  WireFollows'
<1>. USE DEF request, answer, outcome, process, output, timers, host
<1>1. pipe' \in Seq(Lines)
  BY PipeStep DEF WireFollows, Next, Goroutine
<1>2. pc = "scan" /\ hasTools' = hasTools
  BY DEF Scan, SkipLine, ScanInit, HoldDelta, StreamDelta, ScanResult, ScanError, ScanTooLong,
         EndOfOutput, ReadFails, ReadLine
<1>t. StateOK /\ text \in Seq(Token) /\ wire \in Seq(ChunkType) /\ Len(text) \in Nat
  BY DEF Inv, TypeOK, StateOK
<1>3. CASE Scan /\ ~StreamDelta /\ ~HoldDelta
  <2>1. UNCHANGED <<wire, text, isToolCallStream>> /\ pc' \in {"scan", "wait"}
    BY <1>3 DEF Scan, SkipLine, ScanInit, ScanResult, ScanError, ScanTooLong,
                EndOfOutput, ReadFails, ReadLine
  <2> QED
    BY <1>1, <1>2, <2>1 DEF WireFollows, OpenerFirst, FenceCut
<1>4. CASE HoldDelta \/ StreamDelta
  <2> DEFINE d == Head(pipe).delta
  <2>1. pipe # << >> /\ Head(pipe) \in Lines
    BY <1>4 DEF HoldDelta, StreamDelta, ReadLine, WireFollows
  <2>2. d \in Token
    BY <2>1, LinesAssumption DEF Line
  <2>3. text' = Append(text, d)
    BY <1>4 DEF HoldDelta, StreamDelta, TextSoFar
  <2> HIDE DEF d
  <2>4. /\ Len(text') = Len(text) + 1 /\ DOMAIN text' = 1 .. (Len(text) + 1) /\ text' # << >>
        /\ \A i \in 1 .. Len(text) : text'[i] = text[i]
        /\ text'[Len(text) + 1] = d
    BY <1>t, <2>2, <2>3
  <2>6. ASSUME text # << >>
        PROVE  text'[1] = text[1] /\ (OpenerFirst' <=> OpenerFirst) /\ (FenceCut' <=> FenceCut)
    BY <1>t, <2>4, <2>6 DEF OpenerFirst, FenceCut
  <2>7. ASSUME text = << >> PROVE text'[1] = d /\ text' = <<d>> /\ Len(text) = 0
    BY <2>2, <2>3, <2>7
  <2>8. CASE HoldDelta
    <3>1. /\ isToolCallStream' = TRUE /\ wire' = wire /\ pc' = pc
          /\ isToolCallStream \/ (hasTools /\ LooksLikeToolCall(text'))
      BY <2>3, <2>8 DEF HoldDelta, Held, TextSoFar, d
    <3>2. isToolCallStream' => hasTools' /\ text' # << >>
      BY <1>2, <2>4, <3>1 DEF WireFollows
    <3>3. hasTools' /\ OpenerFirst' => Len(wire') = 1
      <4>1. CASE text = << >>
        <5>1. ~isToolCallStream
          BY <1>2, <4>1 DEF WireFollows
        <5> QED
          BY <1>2, <2>7, <3>1, <4>1, <5>1 DEF WireFollows
      <4>2. CASE text # << >>
        BY <1>2, <2>6, <3>1, <4>2 DEF WireFollows
      <4> QED
        BY <4>1, <4>2
    <3>4. ~FenceCut' => Len(wire') = 1
      <4> SUFFICES ASSUME ~FenceCut' PROVE Len(wire) = 1
        BY <3>1
      <4>1. CASE text = << >>
        <5>1. ~isToolCallStream
          BY <1>2, <4>1 DEF WireFollows
        <5> QED
          BY <1>2, <2>7, <4>1, <5>1 DEF WireFollows
      <4>2. CASE isToolCallStream /\ text # << >>
        BY <1>2, <2>6, <4>2 DEF WireFollows
      <4>3. CASE ~isToolCallStream /\ text # << >>
        <5>1. text[1] # "half"
          BY <2>6, <4>3 DEF FenceCut
        <5>2. hasTools /\ OpenerFirst
          BY <1>t, <2>2, <2>3, <3>1, <4>3, <5>1, FirstDeltaTells DEF OpenerFirst
        <5> QED
          BY <1>2, <5>2 DEF WireFollows
      <4> QED
        BY <4>1, <4>2, <4>3
    <3>5. ~OpenerFirst' => Len(wire') > 1 /\ wire'[2].kind = "content"
      <4>1. CASE text = << >>
        <5>1. ~isToolCallStream
          BY <1>2, <4>1 DEF WireFollows
        <5> QED
          BY <2>4, <2>7, <3>1, <4>1, <5>1 DEF OpenerFirst
      <4>2. CASE text # << >>
        BY <1>2, <2>6, <3>1, <4>2 DEF WireFollows
      <4> QED
        BY <4>1, <4>2
    <3> QED
      BY <1>1, <1>2, <3>1, <3>2, <3>3, <3>4, <3>5 DEF WireFollows
  <2>9. CASE StreamDelta
    <3>1. /\ isToolCallStream' = isToolCallStream /\ ~isToolCallStream
          /\ ~(hasTools /\ LooksLikeToolCall(text'))
          /\ Emit("content", <<d>>, "scan", "kill")
      BY <2>3, <2>9 DEF StreamDelta, Held, TextSoFar, d
    <3>2. CASE pc' = "kill"
      BY <1>1, <3>2 DEF WireFollows
    <3>3. CASE pc' # "kill"
      <4>1. /\ Len(wire') = Len(wire) + 1 /\ DOMAIN wire' = 1 .. (Len(wire) + 1)
            /\ \A i \in 1 .. Len(wire) : wire'[i] = wire[i]
            /\ wire'[Len(wire) + 1].kind = "content" /\ wire'[Len(wire) + 1].text = <<d>>
            /\ pc' = "scan"
        BY <1>t, <3>1, <3>3, EmitWire DEF Kinds
      <4>2. /\ Len(wire) = Len(text) + 1 /\ wire # << >> /\ wire[1].kind = "role"
            /\ \A i \in DOMAIN text :
                  wire[i + 1].kind = "content" /\ wire[i + 1].text = <<text[i]>>
        BY <1>2, <3>1 DEF WireFollows
      <4>3. /\ Len(wire') = Len(text') + 1 /\ wire' # << >> /\ wire'[1].kind = "role"
        BY <1>t, <2>4, <4>1, <4>2
      <4>4. ASSUME NEW i \in DOMAIN text'
            PROVE  wire'[i + 1].kind = "content" /\ wire'[i + 1].text = <<text'[i]>>
        <5>1. CASE i = Len(text) + 1
          BY <1>t, <2>4, <4>1, <4>2, <5>1
        <5>2. CASE i # Len(text) + 1
          <6>1. i \in DOMAIN text /\ i + 1 \in 1 .. Len(wire)
            BY <1>t, <2>4, <4>2, <5>2
          <6> QED
            BY <2>4, <4>1, <4>2, <6>1, <1>t
        <5> QED
          BY <5>1, <5>2
      <4>5. ~(hasTools /\ OpenerFirst')
        <5>1. CASE text = << >>
          BY <2>7, <3>1, <5>1 DEF OpenerFirst
        <5>2. CASE text # << >>
          BY <1>t, <2>2, <2>3, <2>6, <3>1, <5>2, FirstDeltaHolds DEF OpenerFirst
        <5> QED
          BY <5>1, <5>2
      <4> QED
        <5>1. Len(wire') > 1 /\ wire'[2].kind = "content"
          <6>1. 1 \in DOMAIN text' /\ 1 + 1 = 2
            BY <1>t, <2>4
          <6> QED
            BY <1>t, <2>4, <4>3, <4>4, <6>1
        <5> QED
          BY <1>1, <1>2, <3>1, <4>1, <4>3, <4>4, <4>5, <5>1 DEF WireFollows
    <3> QED
      BY <3>2, <3>3
  <2> QED
    BY <1>4, <2>8, <2>9
<1> QED
  BY <1>3, <1>4

LEMMA WireStep == ASSUME Inv, WireFollows, [Next]_vars PROVE WireFollows'
<1>. USE DEF request, answer, outcome, process, output, timers, host, vars
<1>1. pipe' \in Seq(Lines)
  BY PipeStep DEF WireFollows
<1>2. CASE Environment \/ UNCHANGED vars
  <2>1. UNCHANGED <<pc, hasTools, text, isToolCallStream, wire>>
    BY <1>2, Zenon DEF Environment, Write, Exit, HelperExits, Timeout, WaitDelayElapses,
       ShutdownKill
  <2> QED
    BY <1>1, <2>1 DEF WireFollows, OpenerFirst, FenceCut
<1>3. CASE Start \/ Register
  BY <1>1, <1>3 DEF WireFollows, Start, Register
<1>4. CASE EmitRole
  <2>1. UNCHANGED <<hasTools, text, isToolCallStream>> /\ Emit("role", << >>, "scan", "kill")
    BY <1>4 DEF EmitRole
  <2>2. text = << >> /\ ~isToolCallStream /\ wire = << >> /\ StateOK
    BY <1>4, NothingSent DEF EmitRole, WireFollows, Inv, HostFollows, TypeOK
  <2>3. pc' = "kill" \/ (pc' = "scan" /\ Len(wire') = 1 /\ wire'[1].kind = "role")
    <3>1. Len(wire) = 0
      BY <2>2
    <3> QED
      BY <2>1, <2>2, <3>1, EmitWire DEF Kinds
  <2> QED
    BY <1>1, <2>1, <2>2, <2>3 DEF WireFollows, OpenerFirst, FenceCut
<1>5. CASE Wait
  BY <1>1, <1>5 DEF WireFollows, Wait, OpenerFirst, FenceCut
<1>6. CASE PrepareFails \/ KillOnRefusal \/ ReapOnRefusal \/ Return \/ Settle
  <2>1. pc' \in Finishing \union {"reap", "return", "end"}
    BY <1>6 DEF PrepareFails, KillOnRefusal, ReapOnRefusal, Return, Settle, CloseWithError,
       EmitToolCalls, EmitToolFinish, EmitToolDone, EmitHeldText, EmitResponse, NothingHeld,
       EmitFinish, EmitUsage, EmitDone, Close, CloseStream, Emit, Finishing
  <2> QED
    BY <1>1, <2>1 DEF WireFollows, Finishing
<1>7. CASE Scan
  BY <1>7, WireScan
<1> QED
  BY <1>2, <1>3, <1>4, <1>5, <1>6, <1>7 DEF Next, Goroutine

\* A chunk that is no content leaves what was delivered alone.
LEMMA OtherChunk ==
    ASSUME StateOK, NEW k \in Kinds, k # "content", NEW t, NEW a, NEW r, Emit(k, t, a, r),
           text' = text, terminal' = terminal
    PROVE  /\ ContentAt' = ContentAt
           /\ Delivered => Delivered'
<1>1. ContentAt' = ContentAt /\ \A i \in ContentAt : wire'[i] = wire[i]
  <2>1. CASE wire' = wire
    BY <2>1 DEF ContentAt
  <2>2. CASE wire' # wire
    <3>1. /\ DOMAIN wire' = 1 .. (Len(wire) + 1)
          /\ \A i \in 1 .. Len(wire) : wire'[i] = wire[i]
          /\ wire'[Len(wire) + 1].kind = k
      BY <2>2, EmitWire
    <3>2. DOMAIN wire = 1 .. Len(wire) /\ Len(wire) \in Nat
      BY DEF StateOK
    <3> QED
      BY <3>1, <3>2 DEF ContentAt
  <2> QED
    BY <2>1, <2>2
<1>2. ASSUME Delivered PROVE Delivered'
  <2>0. text \in Seq(Token) /\ Len(text) \in Nat /\ DOMAIN text = 1 .. Len(text)
    BY DEF StateOK
  <2>1. CASE /\ ContentAt = 2 .. (Len(text) + 1)
             /\ \A i \in DOMAIN text : wire[i + 1].text = <<text[i]>>
             /\ text # << >> \/ terminal.response = << >>
    <3>1. \A i \in DOMAIN text : i + 1 \in ContentAt
      BY <2>0, <2>1
    <3> QED
      BY <1>1, <2>1, <3>1 DEF Delivered
  <2>2. CASE \/ text # << >> /\ ContentAt = {2} /\ wire[2].text = text
             \/ text = << >> /\ ContentAt = {2} /\ wire[2].text = terminal.response
    BY <1>1, <2>2 DEF Delivered
  <2> QED
    BY <1>2, <2>1, <2>2 DEF Delivered
<1> QED
  BY <1>1, <1>2

\* What a step that sends nothing leaves of the wire.
LEMMA QuietWire ==
    ASSUME wire' = wire, text' = text, terminal' = terminal
    PROVE  /\ Sent' = Sent /\ ContentAt' = ContentAt /\ (Delivered' <=> Delivered)
           /\ (OpenersAreHeld' <=> OpenersAreHeld) /\ (FenceCut' <=> FenceCut)
  BY DEF Sent, ContentAt, Delivered, OpenersAreHeld, OpenerFirst, FenceCut

\* A chunk on the wire or lost: the kinds that were sent.
LEMMA EmitSent ==
    ASSUME StateOK, NEW k \in Kinds, NEW t, NEW a, NEW r, Emit(k, t, a, r)
    PROVE  /\ closed' = closed
           /\ \/ lost' = lost /\ pc' = a /\ Sent' = Sent \union {k}
              \/ lost' # {} /\ pc' = r /\ Sent' = Sent
<1>1. CASE wire' = wire /\ lost' = lost \union {k} /\ pc' = r
  BY <1>1 DEF Sent, Emit
<1>2. CASE /\ lost' = lost /\ pc' = a
           /\ DOMAIN wire' = 1 .. (Len(wire) + 1)
           /\ \A i \in 1 .. Len(wire) : wire'[i] = wire[i]
           /\ wire'[Len(wire) + 1].kind = k
  <2>1. DOMAIN wire = 1 .. Len(wire) /\ Len(wire) \in Nat
    BY DEF StateOK
  <2>2. Sent' = Sent \union {k}
    BY <1>2, <2>1 DEF Sent
  <2> QED
    BY <1>2, <2>2, EmitWire
<1> QED
  BY <1>1, <1>2, EmitWire

\* Until the answer is settled nothing is finished and no tool call was sent.
LEMMA BeforeTheAnswer ==
    ASSUME pc' \notin Finishing, closed' # "ok", "tool_calls" \notin Sent'
    PROVE  AnswerFollows'
  BY DEF AnswerFollows, OpenersAreHeld, AnswerDelivered, Finishing

LEMMA AnswerOutside ==
    ASSUME Inv, AnswerFollows, Next, ~Settle
    PROVE  AnswerFollows'
<1>. USE DEF request, answer, outcome, process, output, timers, host
<1>1. CASE Environment
  <2>1. UNCHANGED <<pc, wantsUsage, text, terminal, wire, lost, closed>>
    BY <1>1, Zenon DEF Environment, Write, Exit, HelperExits, Timeout, WaitDelayElapses,
       ShutdownKill
  <2> QED
    BY <2>1, QuietWire DEF AnswerFollows, AnswerDelivered
<1>2. CASE Return \/ PrepareFails
  <2>1. UNCHANGED <<wantsUsage, text, terminal, wire, lost>> /\ pc' = "end"
        /\ (closed' = closed \/ closed' = "error")
    BY <1>2 DEF Return, PrepareFails, CloseStream
  <2> QED
    BY <2>1, QuietWire DEF AnswerFollows, AnswerDelivered, Finishing
<1>3. CASE Start \/ Register \/ EmitRole \/ Scan \/ Wait \/ KillOnRefusal \/ ReapOnRefusal
  <2>1. pc \in {"prepare", "register", "role", "scan", "wait", "kill", "reap"}
        /\ pc' \notin Finishing
    BY <1>3 DEF Start, Register, EmitRole, Scan, SkipLine, ScanInit, HoldDelta, StreamDelta,
       ScanResult, ScanError, ScanTooLong, EndOfOutput, ReadFails, ReadLine, Wait,
       KillOnRefusal, ReapOnRefusal, Emit, Finishing
  <2>2. \/ wire' = wire /\ closed' = closed
        \/ \E k \in {"role", "content"} : \E t, a, r : Emit(k, t, a, r)
    BY <1>3 DEF Start, Register, EmitRole, Scan, SkipLine, ScanInit, HoldDelta, StreamDelta,
       ScanResult, ScanError, ScanTooLong, EndOfOutput, ReadFails, ReadLine, Wait,
       KillOnRefusal, ReapOnRefusal
  <2>3. closed = "no" /\ "tool_calls" \notin Sent
    BY <2>1 DEF Inv, HostFollows, Tried
  <2>4. closed' = "no" /\ "tool_calls" \notin Sent'
    <3>1. CASE wire' = wire /\ closed' = closed
      BY <2>3, <3>1 DEF Sent
    <3>2. ASSUME NEW k \in {"role", "content"}, NEW t, NEW a, NEW r, Emit(k, t, a, r)
          PROVE  closed' = "no" /\ "tool_calls" \notin Sent'
      BY <2>3, <3>2, EmitSent DEF Inv, TypeOK, Kinds
    <3> QED
      BY <2>2, <3>1, <3>2
  <2> QED
    BY <2>1, <2>4, BeforeTheAnswer
<1> QED
  BY <1>1, <1>2, <1>3 DEF Next, Goroutine

\* A chunk of the finish: what was delivered stays delivered.
LEMMA FinishChunk ==
    ASSUME Inv, AnswerFollows, NEW k \in Kinds \ {"content", "tool_calls"}, NEW t, NEW a, NEW r,
           Emit(k, t, a, r), pc \in Finishing, UNCHANGED <<text, terminal>>
    PROVE  /\ OpenersAreHeld'
           /\ closed' = "no"
           /\ "tool_calls" \notin Sent' => "tool_calls" \notin Sent
           /\ \/ lost' = lost /\ pc' = a /\ Sent' = Sent \union {k}
              \/ lost' # {} /\ pc' = r
           /\ lost' = {} => lost = {}
           /\ ~FenceCut' /\ lost' = {} /\ "tool_calls" \notin Sent' => Delivered'
<1>1. StateOK /\ closed = "no"
  BY DEF Inv, TypeOK, HostFollows, Finishing
<1>2. /\ closed' = closed
      /\ \/ lost' = lost /\ pc' = a /\ Sent' = Sent \union {k}
         \/ lost' # {} /\ pc' = r /\ Sent' = Sent
  BY <1>1, EmitSent
<1>3. ContentAt' = ContentAt /\ (Delivered => Delivered')
  BY <1>1, OtherChunk
<1>4. OpenersAreHeld'
  BY <1>2, <1>3 DEF AnswerFollows, OpenersAreHeld, OpenerFirst
<1>5. lost' = {} => lost = {}
  BY <1>2
<1>6. "tool_calls" \notin Sent' => "tool_calls" \notin Sent
  BY <1>2
<1>7. /\ ~FenceCut /\ lost = {} /\ "tool_calls" \notin Sent => Delivered
      /\ FenceCut' <=> FenceCut
  BY DEF AnswerFollows, FenceCut
<1> QED
  BY <1>1, <1>2, <1>3, <1>4, <1>5, <1>6, <1>7

\* The answer that was held back, or came in the result alone, in one piece.
LEMMA OnePiece ==
    ASSUME Inv, WireFollows, pc = "settle", UNCHANGED <<text, terminal>>,
           NEW t, NEW r, Emit("content", t, "finish", r), pc' = "finish",
           lost' = {}, Len(wire) = 1,
           \/ text # << >> /\ t = text
           \/ text = << >> /\ t = terminal.response
    PROVE  Delivered'
<1>1. StateOK /\ lost = {} /\ wire[1].kind = "role"
  BY DEF Inv, TypeOK, HostFollows, WireFollows
<1>2. /\ DOMAIN wire' = 1 .. 2 /\ wire'[1] = wire[1]
      /\ wire'[2].kind = "content" /\ wire'[2].text = t
  BY <1>1, EmitWire DEF Kinds
<1>3. ContentAt' = {2}
  BY <1>1, <1>2 DEF ContentAt
<1> QED
  BY <1>2, <1>3 DEF Delivered

\* The first chunks after the run, and those that leave the stream with an error.
LEMMA AnswerSettled ==
    ASSUME Inv, WireFollows, AnswerFollows,
           CloseWithError \/ EmitToolCalls \/ EmitHeldText \/ EmitResponse \/ NothingHeld
    PROVE  AnswerFollows'
<1>. USE DEF request, answer, outcome, process, output, timers, host
<1>1. /\ pc = "settle" /\ StateOK /\ closed = "no" /\ lost = {} /\ "tool_calls" \notin Sent
      /\ UNCHANGED <<text, terminal, hasTools, wantsUsage>>
  BY DEF CloseWithError, EmitToolCalls, EmitHeldText, EmitResponse, NothingHeld, Inv, TypeOK,
         HostFollows, Tried
<1>2. CASE CloseWithError
  BY <1>1, <1>2, BeforeTheAnswer, QuietWire DEF CloseWithError, CloseStream, Finishing
<1>3. CASE EmitToolCalls
  <2>1. /\ ContentAt' = ContentAt /\ closed' = "no" /\ pc' = "toolFinish"
        /\ lost' # {} \/ "tool_calls" \in Sent'
    BY <1>1, <1>3, OtherChunk, EmitSent DEF EmitToolCalls, Kinds
  <2>2. Len(text) \in Nat /\ text \in Seq(Token) /\ wire \in Seq(ChunkType)
        /\ hasTools /\ wire # << >> /\ wire[1].kind = "role"
    BY <1>1, <1>3 DEF StateOK, WireFollows, EmitToolCalls, IsToolAnswer
  <2>3. ASSUME text = << >> \/ OpenerFirst PROVE ContentAt = {}
    <3>1. Len(wire) = 1
      <4>1. CASE text = << >>
        <5>1. ~isToolCallStream
          BY <1>1, <4>1 DEF WireFollows
        <5>2. Len(wire) = Len(text) + 1
          BY <1>1, <5>1 DEF WireFollows
        <5> QED
          BY <4>1, <5>2
      <4>2. CASE OpenerFirst
        BY <1>1, <2>2, <4>2 DEF WireFollows
      <4> QED
        BY <2>3, <4>1, <4>2
    <3> QED
      BY <2>2, <3>1 DEF ContentAt
  <2>4. ASSUME text # << >>, ~OpenerFirst PROVE ContentAt # {}
    <3>1. Len(wire) > 1 /\ wire[2].kind = "content"
      BY <1>1, <2>4 DEF WireFollows
    <3>2. 2 \in DOMAIN wire
      BY <2>2, <3>1
    <3> QED
      BY <3>1, <3>2 DEF ContentAt
  <2>5. OpenersAreHeld'
    BY <1>1, <2>1, <2>3, <2>4 DEF OpenersAreHeld, OpenerFirst
  <2> QED
    BY <2>1, <2>5 DEF AnswerFollows, AnswerDelivered
<1>4. CASE EmitHeldText
  <2>1. /\ closed' = "no" /\ pc' = "finish" /\ "tool_calls" \notin Sent'
    BY <1>1, <1>4, EmitSent DEF EmitHeldText, Kinds
  <2>2. ~FenceCut /\ lost' = {} => Delivered'
    <3>1. ~FenceCut => Len(wire) = 1
      BY <1>1, <1>4 DEF WireFollows, EmitHeldText
    <3> QED
      BY <1>1, <1>4, <2>1, <3>1, OnePiece DEF EmitHeldText
  <2> QED
    BY <1>1, <2>1, <2>2 DEF AnswerFollows, AnswerDelivered, OpenersAreHeld, FenceCut
<1>5. CASE EmitResponse
  <2>1. /\ closed' = "no" /\ "tool_calls" \notin Sent'
        /\ pc' = "finish" \/ pc' = "return"
    BY <1>1, <1>5, EmitSent DEF EmitResponse, Kinds
  <2>2. pc' = "finish" /\ lost' = {} => Delivered'
    <3>1. text = << >> /\ ~isToolCallStream
      BY <1>1, <1>5 DEF WireFollows, EmitResponse
    <3>2. Len(wire) = 1
      BY <1>1, <3>1 DEF WireFollows
    <3> QED
      BY <1>1, <1>5, <3>1, <3>2, OnePiece DEF EmitResponse
  <2> QED
    BY <2>1, <2>2 DEF AnswerFollows, AnswerDelivered, OpenersAreHeld, Finishing
<1>6. CASE NothingHeld
  <2>1. UNCHANGED <<wire, lost, closed>> /\ pc' = "finish"
    BY <1>6 DEF NothingHeld
  <2>2. Delivered
    <3>1. ~isToolCallStream /\ (text # << >> \/ terminal.response = << >>)
      BY <1>1, <1>6 DEF NothingHeld, WireFollows
    <3>2. /\ Len(wire) = Len(text) + 1 /\ wire[1].kind = "role"
          /\ \A i \in DOMAIN text :
                wire[i + 1].kind = "content" /\ wire[i + 1].text = <<text[i]>>
      BY <1>1, <3>1 DEF WireFollows
    <3>3. /\ Len(text) \in Nat /\ DOMAIN text = 1 .. Len(text)
          /\ DOMAIN wire = 1 .. (Len(text) + 1)
      BY <1>1, <3>2 DEF StateOK
    <3>4. ContentAt = 2 .. (Len(text) + 1)
      <4>1. ASSUME NEW i \in 2 .. (Len(text) + 1) PROVE wire[i].kind = "content"
        <5>1. i - 1 \in DOMAIN text /\ (i - 1) + 1 = i
          BY <3>3
        <5> QED
          BY <3>2, <5>1
      <4> QED
        BY <3>2, <3>3, <4>1 DEF ContentAt
    <3> QED
      BY <3>1, <3>2, <3>4 DEF Delivered
  <2> QED
    BY <1>1, <2>1, <2>2, QuietWire DEF AnswerFollows, AnswerDelivered, OpenersAreHeld
<1> QED
  BY <1>2, <1>3, <1>4, <1>5, <1>6

LEMMA AnswerFinish ==
    ASSUME Inv, AnswerFollows,
           \/ EmitToolFinish \/ EmitToolDone \/ EmitFinish \/ EmitUsage \/ EmitDone \/ Close
    PROVE  AnswerFollows'
<1>. USE DEF request, answer, outcome, process, output, timers, host
<1>1. pc \in Finishing /\ closed = "no" /\ UNCHANGED <<text, terminal, wantsUsage>>
  BY DEF EmitToolFinish, EmitToolDone, EmitFinish, EmitUsage, EmitDone, Close, Finishing,
         Inv, HostFollows
<1>2. CASE EmitToolFinish \/ EmitToolDone
  <2>1. PICK k \in Kinds \ {"content", "tool_calls"}, a \in {"toolDone", "close"} :
            Emit(k, << >>, a, a)
    BY <1>2 DEF EmitToolFinish, EmitToolDone, Kinds
  <2>2. lost = {} => "tool_calls" \in Sent
    BY <1>2 DEF EmitToolFinish, EmitToolDone, Inv, HostFollows, Tried
  <2>3. /\ OpenersAreHeld' /\ closed' = "no" /\ pc' \in {"toolDone", "close"}
        /\ lost' = {} => "tool_calls" \in Sent'
    BY <1>1, <2>1, <2>2, FinishChunk
  <2> QED
    BY <2>3 DEF AnswerFollows, AnswerDelivered
<1>3. CASE EmitFinish
  <2>1. "usage" \notin Sent
    BY <1>3 DEF EmitFinish, Inv, HostFollows, Tried
  <2>2. PICK a \in {"usage", "done"} :
            /\ a = IF wantsUsage THEN "usage" ELSE "done"
            /\ Emit("finish", << >>, a, "return")
    BY <1>3 DEF EmitFinish
  <2> QED
    BY <1>1, <2>1, <2>2, FinishChunk
       DEF AnswerFollows, AnswerDelivered, Kinds, Finishing
<1>4. CASE EmitUsage
  <2>1. wantsUsage /\ Emit("usage", << >>, "done", "return")
    BY <1>4 DEF EmitUsage, AnswerFollows
  <2> QED
    BY <1>1, <2>1, FinishChunk DEF AnswerFollows, AnswerDelivered, Kinds, Finishing
<1>5. CASE EmitDone
  <2>1. /\ Emit("done", << >>, "close", "return")
        /\ lost = {} /\ "tool_calls" \notin Sent => ("usage" \in Sent <=> wantsUsage)
    BY <1>5 DEF EmitDone, AnswerFollows
  <2> QED
    BY <1>1, <2>1, FinishChunk DEF AnswerFollows, AnswerDelivered, Kinds, Finishing
<1>6. CASE Close
  BY <1>1, <1>6, QuietWire
     DEF Close, CloseStream, AnswerFollows, AnswerDelivered, Finishing
<1> QED
  BY <1>2, <1>3, <1>4, <1>5, <1>6

LEMMA AnswerStep == ASSUME Inv, WireFollows, AnswerFollows, [Next]_vars PROVE AnswerFollows'
<1>1. CASE Settle
  BY <1>1, AnswerSettled, AnswerFinish DEF Settle
<1>2. CASE Next /\ ~Settle
  BY <1>2, AnswerOutside
<1>3. CASE UNCHANGED vars
  <2>1. UNCHANGED <<pc, wantsUsage, text, terminal, wire, lost, closed>>
    BY <1>3 DEF vars, request, answer, host
  <2> QED
    BY <2>1, QuietWire DEF AnswerFollows, AnswerDelivered
<1> QED
  BY <1>1, <1>2, <1>3

LEMMA WireInvInit == Init => WireInv
  BY DEF Init, WireInv, WireFollows, AnswerFollows, OpenersAreHeld, AnswerDelivered, Sent,
         Finishing

\* What is on the wire, together with the invariant of the goroutine, is inductive.
THEOREM WireInvariant == Spec => []WireInv
<1>1. Inv /\ WireInv /\ [Next]_vars => WireInv'
  BY WireStep, AnswerStep DEF WireInv
<1> QED
  BY <1>1, WireInvInit, Invariant, PTL DEF Spec

\* Of a tool call that the client was given no part was streamed as text if it
\* came in the result alone or its first delta was an opener of the prefix test,
\* and some part was if not, whatever lines agy prints.
THEOREM OpenersHold == Spec => []OpenersAreHeld
<1>1. WireInv => OpenersAreHeld
  BY DEF WireInv, AnswerFollows
<1> QED
  BY <1>1, WireInvariant, PTL

\* Every finished answer without a tool call reached the client as a whole and
\* once, unless its first delta cut a fence.
THEOREM AnswersArrive == Spec => []AnswerDelivered
<1>1. WireInv => AnswerDelivered
  BY DEF WireInv, AnswerFollows
<1> QED
  BY <1>1, WireInvariant, PTL
=============================================================================
