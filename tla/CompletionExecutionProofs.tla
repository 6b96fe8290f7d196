---------------------- MODULE CompletionExecutionProofs ----------------------
(***************************************************************************)
(* What holds of CompletionExecution for any lines, helpers and            *)
(* conversations, on either build: an answer is given if and only if the   *)
(* run was clean.                                                          *)
(***************************************************************************)
EXTENDS CompletionExecution, TLAPS

\* The last result is at most one line, so the code's choice of it is a success
\* exactly if a success is followed by no other result.
LEMMA LastResultDecides ==
    ASSUME TypeOK
    PROVE  Result.status = "success" <=>
               \E i \in DOMAIN stdout :
                   /\ stdout[i].status = "success"
                   /\ \A j \in (i + 1) .. Len(stdout) : stdout[j].status = "none"
<1> USE DEF IsLast
<1>1. stdout \in Seq(Line) /\ DOMAIN stdout = 1 .. Len(stdout) /\ Len(stdout) \in Nat
  BY DEF TypeOK
<1>2. CASE \E i \in DOMAIN stdout : IsLast(i)
  <2> DEFINE last == CHOOSE i \in DOMAIN stdout : IsLast(i)
  <2>1. last \in DOMAIN stdout /\ IsLast(last)
    BY <1>2
  <2>2. Result = stdout[last]
    BY <1>2 DEF Result
  <2> HIDE DEF last
  <2>3. \A i \in DOMAIN stdout : IsLast(i) => i = last
    BY <1>1, <2>1
  <2>4. \A i \in DOMAIN stdout : stdout[i].status = "success" => stdout[i].status # "none"
    OBVIOUS
  <2> QED
    BY <2>1, <2>2, <2>3, <2>4
<1>3. CASE ~ \E i \in DOMAIN stdout : IsLast(i)
  BY <1>3 DEF Result, Junk
<1> QED
  BY <1>2, <1>3

\* The result that counts is a line or none.
LEMMA ResultType == ASSUME TypeOK PROVE Result \in Line
<1>1. stdout \in Seq(Line)
  BY DEF TypeOK
<1>2. << >> \in Seq(Token)
  OBVIOUS
<1>3. Junk \in Line
  BY <1>2 DEF Junk, Line
<1>4. CASE \E i \in DOMAIN stdout : IsLast(i)
  <2>1. (CHOOSE i \in DOMAIN stdout : IsLast(i)) \in DOMAIN stdout
    BY <1>4
  <2> QED
    BY <1>1, <1>4, <2>1 DEF Result
<1> QED
  BY <1>3, <1>4 DEF Result

\* What a client is answered is a reply, and never empty.
LEMMA ReplyType ==
    ASSUME TypeOK
    PROVE  /\ Failure \in Reply /\ Failure.kind = "error"
           /\ Completion \in Reply /\ Completion.kind \in {"tool_calls", "message"}
<1>1. Result.response \in Seq(Token) /\ Result.conv \in Conversations \union {NoConv}
  BY ResultType DEF Line
<1>2. << >> \in Seq(Token)
  OBVIOUS
<1>3. Failure \in Reply /\ Failure.kind = "error"
  BY <1>2 DEF Failure, NoReply, Reply
<1>4. Completion \in Reply /\ Completion.kind \in {"tool_calls", "message"}
  BY <1>1 DEF Completion, Reply
<1> QED
  BY <1>3, <1>4

\* The invariant holds at the start.
LEMMA InitInv == Init => Inv
<1> SUFFICES ASSUME Init PROVE Inv
  OBVIOUS
<1>1. NoHelper \in Helper /\ NoReply \in Reply
  <2>1. << >> \in Seq(Token)
    OBVIOUS
  <2> QED
    BY <2>1 DEF NoHelper, Helper, NoReply, Reply
<1>2. stdout \in Seq(Line) /\ Len(stdout) <= MaxLines
  BY BoundAssumption DEF Init
<1>3. TypeOK
  BY <1>1, <1>2, Zenon DEF Init, TypeOK
<1>4. CommandFollows /\ ReplyFollows
  BY DEF Init, CommandFollows, ReplyFollows, NoReply
<1> QED
  BY <1>3, <1>4 DEF Inv

\* A kill leaves a process of its kind, and one of the helpers.
LEMMA KillType ==
    ASSUME TypeOK, KillProcessTree
    PROVE  /\ proc' \in {"running", "zombie", "reaped", "none"}
           /\ exit' \in {"none", "clean", "failed", "killed"}
           /\ helper' \in Helper
           /\ proc = "running" => proc' = "zombie"
           /\ proc # "running" => proc' = proc /\ exit' = exit
<1>1. NoHelper \in Helper
  BY DEF NoHelper, Helper
<1> QED
  BY <1>1, HelpersAssumption DEF TypeOK, KillProcessTree

\* Every step keeps the types.
LEMMA StepKeepsTypes == TypeOK /\ [Next]_vars => TypeOK'
<1> SUFFICES ASSUME TypeOK, [Next]_vars PROVE TypeOK'
  OBVIOUS
<1> USE DEF input, process
<1>1. CASE UNCHANGED vars
  BY <1>1 DEF TypeOK, vars
<1>2. CASE StartFails \/ Settle
  BY <1>2, ReplyType DEF TypeOK, StartFails, Settle
<1>3. CASE Start \/ Add
  BY <1>3 DEF TypeOK, Start, Add
<1>4. CASE Reap
  BY <1>4 DEF TypeOK, Reap
<1>5. CASE Drained \/ DelayElapses \/ Remove
  BY <1>5 DEF TypeOK, Drained, DelayElapses, Remove
<1>6. CASE Write
  <2>1. PICK line \in Lines : stdout' = Append(stdout, line)
    BY <1>6 DEF Write
  <2>2. stdout' \in Seq(Line) /\ Len(stdout') <= MaxLines
    BY <1>6, <2>1, LinesAssumption, BoundAssumption DEF TypeOK, Write
  <2> QED
    BY <1>6, <2>2 DEF TypeOK, Write
<1>7. CASE Exit \/ HelperExits
  <2>1. NoHelper \in Helper
    BY DEF NoHelper, Helper
  <2> QED
    BY <1>7, <2>1, HelpersAssumption DEF TypeOK, Exit, HelperExits
<1>8. CASE Timeout
  BY <1>8, KillType DEF TypeOK, Timeout
<1>9. CASE ShutdownKill
  BY <1>9, KillType DEF TypeOK, ShutdownKill
<1> QED
  BY <1>1, <1>2, <1>3, <1>4, <1>5, <1>6, <1>7, <1>8, <1>9 DEF Next, Call, Environment

\* Every step keeps the invariant.
LEMMA StepKeepsInv == Inv /\ [Next]_vars => Inv'
<1> SUFFICES ASSUME Inv, [Next]_vars PROVE Inv'
  OBVIOUS
<1> USE DEF input, process, CommandFollows, ReplyFollows
<1>t. TypeOK /\ TypeOK'
  BY StepKeepsTypes DEF Inv
<1>c. CommandFollows /\ ReplyFollows
  BY DEF Inv
<1>s. CommandFollows' /\ ReplyFollows'
  <2>1. CASE UNCHANGED vars
    BY <1>c, <2>1 DEF vars
  <2>2. CASE StartFails \/ Settle
    BY <1>t, <1>c, <2>2, ReplyType DEF StartFails, Settle
  <2>3. CASE Start \/ Add
    BY <1>c, <2>3 DEF Start, Add
  <2>4. CASE Reap
    BY <1>t, <1>c, <2>4 DEF TypeOK, Reap
  <2>5. CASE Drained \/ DelayElapses \/ Remove
    BY <1>c, <2>5 DEF Drained, DelayElapses, Remove
  <2>6. CASE Write \/ Exit \/ HelperExits
    BY <1>t, <1>c, <2>6 DEF TypeOK, Write, Exit, HelperExits
  <2>7. CASE Timeout
    BY <1>t, <1>c, <2>7, KillType DEF TypeOK, Timeout
  <2>8. CASE ShutdownKill
    BY <1>t, <1>c, <2>8, KillType DEF TypeOK, ShutdownKill
  <2> QED
    BY <2>1, <2>2, <2>3, <2>4, <2>5, <2>6, <2>7, <2>8 DEF Next, Call, Environment
<1> QED
  BY <1>t, <1>s DEF Inv

\* The inductive invariant holds throughout.
THEOREM Invariant == Spec => []Inv
  BY InitInv, StepKeepsInv, PTL DEF Spec

\* Every variable keeps its type.
THEOREM TypeCorrect == Spec => []TypeOK
<1>1. Inv => TypeOK
  BY DEF Inv
<1> QED
  BY <1>1, Invariant, PTL

\* How the run went is the outcome the call settles on.
LEMMA SettlesOnTheRun ==
    ASSUME Inv, pc = "settle"
    PROVE  Clean <=> ~Rejected
<1>1. TypeOK /\ proc = "reaped" /\ (errWait \/ (exit = "clean" /\ ctx = "live"))
  BY DEF Inv, CommandFollows
<1>2. (\E i \in DOMAIN stdout : stdout[i].status = "success") => stdout # << >>
  BY <1>1 DEF TypeOK
<1>3. errWait \in BOOLEAN
  BY <1>1 DEF TypeOK
<1> QED
  BY <1>1, <1>2, <1>3, LastResultDecides DEF Clean, Rejected

\* From the moment the call settles, how the run went is a matter of variables
\* that no step changes any more.
LEMMA RunStays ==
    ASSUME pc \in {"settle", "done"}, pc' \in {"settle", "done"},
           proc' = proc, exit' = exit, ctx' = ctx, errWait' = errWait, stdout' = stdout
    PROVE  Run' = Run
<1>1. Clean' <=> Clean
  BY DEF Clean
<1> QED
  BY <1>1 DEF Run

\* Every step tells the client of the run as the contract has it, or nothing.
LEMMA StepKeepsContract ==
    ASSUME Inv, Inv', [Next]_vars
    PROVE  [Contract!RunNext]_Contract!runVars
<1> USE DEF Contract!RunNext, Contract!CannotRun, Contract!Over, Contract!Tell,
        Contract!runVars, input, process
<1>t. TypeOK
  BY DEF Inv
<1>1. ASSUME UNCHANGED <<pc, reply>>, pc \notin {"settle", "done"}
      PROVE  UNCHANGED <<Run, Told>>
  <2>1. Run' = Run
    BY <1>1 DEF Run
  <2>2. Told' = Told
    BY <1>1 DEF Told
  <2> QED
    BY <2>1, <2>2
<1>2. ASSUME UNCHANGED <<pc, reply>>, pc \in {"settle", "done"},
             proc' = proc, exit' = exit, ctx' = ctx, errWait' = errWait, stdout' = stdout
      PROVE  UNCHANGED <<Run, Told>>
  <2>1. Run' = Run
    BY <1>2, RunStays
  <2>2. Told' = Told
    BY <1>2 DEF Told
  <2> QED
    BY <2>1, <2>2
<1>3. CASE UNCHANGED vars
  BY <1>1, <1>2, <1>3 DEF vars
<1>4. CASE StartFails
  <2>1. Run = "going" /\ Told = "nothing"
    BY <1>4 DEF StartFails, Run, Told, Inv, ReplyFollows
  <2>2. Run' = "bad"
    BY <1>4 DEF StartFails, Run, Clean, Inv, CommandFollows
  <2>3. Told' = "error"
    BY <1>4, <1>t, ReplyType DEF StartFails, Told
  <2> QED
    BY <2>1, <2>2, <2>3
<1>5. CASE Start \/ Add \/ Reap \/ Drained \/ DelayElapses
  <2>1. pc \notin {"settle", "done"} /\ pc' \notin {"settle", "done"} /\ reply' = reply
    BY <1>5 DEF Start, Add, Reap, Drained, DelayElapses
  <2>2. Run' = Run
    BY <2>1 DEF Run
  <2>3. Told' = Told
    BY <2>1 DEF Told
  <2> QED
    BY <2>2, <2>3
<1>6. CASE Remove
  <2>1. Run = "going" /\ Run' \in {"clean", "bad"}
    BY <1>6 DEF Remove, Run
  <2>2. Told' = Told
    BY <1>6 DEF Remove, Told
  <2> QED
    BY <2>1, <2>2
<1>7. CASE Settle
  <2>1. pc = "settle" /\ pc' = "done"
    BY <1>7 DEF Settle
  <2>2. Run' = Run
    BY <1>7, <2>1, RunStays DEF Settle
  <2>3. Run = IF Rejected THEN "bad" ELSE "clean"
    BY <2>1, SettlesOnTheRun DEF Run
  <2>4. Told = "nothing"
    BY <2>1 DEF Inv, ReplyFollows, Told
  <2>5. Told' = IF Rejected THEN "error" ELSE "answer"
    BY <1>7, <1>t, ReplyType DEF Settle, Told
  <2> QED
    BY <2>2, <2>3, <2>4, <2>5
<1>8. CASE Write \/ Exit \/ HelperExits \/ Timeout \/ ShutdownKill
  <2>1. UNCHANGED <<pc, reply>>
    BY <1>8 DEF Write, Exit, HelperExits, Timeout, ShutdownKill
  <2>2. CASE pc \notin {"settle", "done"}
    BY <1>1, <2>1, <2>2
  <2>3. CASE pc \in {"settle", "done"}
    <3>1. proc \in {"none", "reaped"}
      BY <2>3 DEF Inv, CommandFollows
    <3>2. proc' = proc /\ exit' = exit /\ ctx' = ctx /\ errWait' = errWait
          /\ stdout' = stdout
      BY <1>8, <1>t, <3>1, KillType DEF Write, Exit, HelperExits, Timeout, ShutdownKill
    <3> QED
      BY <1>2, <2>1, <2>3, <3>2
  <2> QED
    BY <2>2, <2>3
<1> QED
  BY <1>3, <1>4, <1>5, <1>6, <1>7, <1>8 DEF Next, Call, Environment

\* A client is given an answer when its run was clean and an error when it was
\* not, once, and only when the run is over.
THEOREM KeepsTheContract == Spec => ImplementsRunContract
<1>1. Init => Contract!RunInit
  BY DEF Init, Contract!RunInit, Run, Told, NoReply
<1>2. Inv /\ Inv' /\ [Next]_vars => [Contract!RunNext]_Contract!runVars
  BY StepKeepsContract
<1> QED
  BY <1>1, <1>2, Invariant, PTL DEF Spec, ImplementsRunContract, Contract!RunSpec
=============================================================================
