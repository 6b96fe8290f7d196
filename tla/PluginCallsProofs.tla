-------------------------- MODULE PluginCallsProofs --------------------------
(***************************************************************************)
(* What holds of PluginCalls for any number of calls and chunks.           *)
(*                                                                         *)
(* The blocks that exist are told by where a call and its goroutine are    *)
(* (BlocksFollow), so a free always finds its block, and finds it once.    *)
(***************************************************************************)
EXTENDS PluginCalls, TLAPS

\* The invariant holds at the start.
LEMMA InitInv == Init => Inv
<1> USE BoundAssumption
<1> SUFFICES ASSUME Init PROVE Inv
  OBVIOUS
<1>0. emits \in [Calls -> 0 .. MaxEmits]
  BY DEF Init
<1>1. TypeOK
  BY <1>0, Zenon DEF Init, TypeOK, Methods
<1>2. StreamsAreAccepted
  BY DEF Init, StreamsAreAccepted
<1>3. BlocksFollow
  BY DEF Init, BlocksFollow, CallBlocks, StreamBlocks
<1> QED
  BY <1>1, <1>2, <1>3 DEF Inv

\* Every step keeps the types.
LEMMA StepKeepsTypes == TypeOK /\ [Next]_vars => TypeOK'
<1> SUFFICES ASSUME TypeOK, [Next]_vars PROVE TypeOK'
  OBVIOUS
<1> USE DEF Goto, Go, Allocate, Free, entry, call, stream, talk, host, heap
<1>1. ASSUME NEW c \in Calls, Enter(c) PROVE TypeOK'
  BY <1>1 DEF TypeOK, Block, Enter
<1>2. ASSUME NEW c \in Calls, HandleFails(c) PROVE TypeOK'
  BY <1>2 DEF TypeOK, Block, HandleFails
<1>3. ASSUME NEW c \in Calls, AcceptStream(c) PROVE TypeOK'
  BY <1>3 DEF TypeOK, Block, AcceptStream
<1>4. ASSUME NEW c \in Calls, HandleOther(c) PROVE TypeOK'
  BY <1>4 DEF TypeOK, Block, HandleOther
<1>5. ASSUME NEW c \in Calls, HandleStream(c) PROVE TypeOK'
  BY <1>5 DEF TypeOK, Block, HandleStream
<1>6. ASSUME NEW c \in Calls, Respond(c) PROVE TypeOK'
  BY <1>6 DEF TypeOK, Block, Respond
<1>7. ASSUME NEW c \in Calls, HostFrees(c) PROVE TypeOK'
  BY <1>7 DEF TypeOK, Block, HostFrees
<1>8. ASSUME NEW c \in Calls, OutputEnds(c) PROVE TypeOK'
  BY <1>8 DEF TypeOK, Block, OutputEnds
<1>9. ASSUME NEW c \in Calls, BuildPrompt(c) PROVE TypeOK'
  BY <1>9 DEF TypeOK, Block, BuildPrompt
<1>10. ASSUME NEW c \in Calls, StartCommand(c) PROVE TypeOK'
  BY <1>10 DEF TypeOK, Block, StartCommand
<1>11. ASSUME NEW c \in Calls, CloseEarly(c) PROVE TypeOK'
  BY <1>11 DEF TypeOK, Block, CloseEarly, CallHost
<1>12. ASSUME NEW c \in Calls, EmitChunk(c) PROVE TypeOK'
  <2>1. emits[c] + 1 \in 0 .. MaxEmits
    BY <1>12, BoundAssumption DEF TypeOK, EmitChunk
  <2>2. emits' \in [Calls -> 0 .. MaxEmits]
    BY <1>12, <2>1 DEF TypeOK, EmitChunk
  <2> QED
    BY <1>12, <2>2 DEF TypeOK, Block, EmitChunk, CallHost
<1>13. ASSUME NEW c \in Calls, CloseStream(c) PROVE TypeOK'
  BY <1>13 DEF TypeOK, Block, CloseStream, CallHost
<1>14. ASSUME NEW c \in Calls, HostReplies(c) PROVE TypeOK'
  BY <1>14 DEF TypeOK, Block, HostReplies
<1>15. ASSUME NEW c \in Calls, FreeReply(c) PROVE TypeOK'
  BY <1>15 DEF TypeOK, Block, FreeReply
<1>16. ASSUME NEW c \in Calls, ReturnFromHost(c) PROVE TypeOK'
  BY <1>16 DEF TypeOK, Block, ReturnFromHost
<1>17. CASE UNCHANGED vars
  BY <1>17 DEF TypeOK, Block, vars
<1> QED
  BY <1>1, <1>2, <1>3, <1>4, <1>5, <1>6, <1>7, <1>8, <1>9, <1>10, <1>11, <1>12, <1>13, <1>14, <1>15, <1>16, <1>17 DEF Next, Handle, Stream

\* A goroutine is started once, by a call that is then answered "ok".
LEMMA StepKeepsAccepted == TypeOK /\ StreamsAreAccepted /\ [Next]_vars => StreamsAreAccepted'
<1> SUFFICES ASSUME TypeOK /\ StreamsAreAccepted, [Next]_vars PROVE StreamsAreAccepted'
  OBVIOUS
<1> USE DEF Goto, Go, Allocate, Free, entry, call, stream, talk, host, heap
<1>1. ASSUME NEW c \in Calls, Enter(c) PROVE StreamsAreAccepted'
  BY <1>1 DEF TypeOK, StreamsAreAccepted, Enter
<1>2. ASSUME NEW c \in Calls, HandleFails(c) PROVE StreamsAreAccepted'
  BY <1>2 DEF TypeOK, StreamsAreAccepted, HandleFails
<1>3. ASSUME NEW c \in Calls, AcceptStream(c) PROVE StreamsAreAccepted'
  BY <1>3 DEF TypeOK, StreamsAreAccepted, AcceptStream
<1>4. ASSUME NEW c \in Calls, HandleOther(c) PROVE StreamsAreAccepted'
  BY <1>4 DEF TypeOK, StreamsAreAccepted, HandleOther
<1>5. ASSUME NEW c \in Calls, HandleStream(c) PROVE StreamsAreAccepted'
  BY <1>5 DEF TypeOK, StreamsAreAccepted, HandleStream
<1>6. ASSUME NEW c \in Calls, Respond(c) PROVE StreamsAreAccepted'
  BY <1>6 DEF TypeOK, StreamsAreAccepted, Respond
<1>7. ASSUME NEW c \in Calls, HostFrees(c) PROVE StreamsAreAccepted'
  BY <1>7 DEF TypeOK, StreamsAreAccepted, HostFrees
<1>8. ASSUME NEW c \in Calls, OutputEnds(c) PROVE StreamsAreAccepted'
  BY <1>8 DEF TypeOK, StreamsAreAccepted, OutputEnds
<1>9. ASSUME NEW c \in Calls, BuildPrompt(c) PROVE StreamsAreAccepted'
  BY <1>9 DEF TypeOK, StreamsAreAccepted, BuildPrompt
<1>10. ASSUME NEW c \in Calls, StartCommand(c) PROVE StreamsAreAccepted'
  BY <1>10 DEF TypeOK, StreamsAreAccepted, StartCommand
<1>11. ASSUME NEW c \in Calls, CloseEarly(c) PROVE StreamsAreAccepted'
  BY <1>11 DEF TypeOK, StreamsAreAccepted, CloseEarly, CallHost
<1>12. ASSUME NEW c \in Calls, EmitChunk(c) PROVE StreamsAreAccepted'
  BY <1>12 DEF TypeOK, StreamsAreAccepted, EmitChunk, CallHost
<1>13. ASSUME NEW c \in Calls, CloseStream(c) PROVE StreamsAreAccepted'
  BY <1>13 DEF TypeOK, StreamsAreAccepted, CloseStream, CallHost
<1>14. ASSUME NEW c \in Calls, HostReplies(c) PROVE StreamsAreAccepted'
  BY <1>14 DEF TypeOK, StreamsAreAccepted, HostReplies
<1>15. ASSUME NEW c \in Calls, FreeReply(c) PROVE StreamsAreAccepted'
  BY <1>15 DEF TypeOK, StreamsAreAccepted, FreeReply
<1>16. ASSUME NEW c \in Calls, ReturnFromHost(c) PROVE StreamsAreAccepted'
  BY <1>16 DEF TypeOK, StreamsAreAccepted, ReturnFromHost
<1>17. CASE UNCHANGED vars
  BY <1>17 DEF TypeOK, StreamsAreAccepted, vars
<1> QED
  BY <1>1, <1>2, <1>3, <1>4, <1>5, <1>6, <1>7, <1>8, <1>9, <1>10, <1>11, <1>12, <1>13, <1>14, <1>15, <1>16, <1>17 DEF Next, Handle, Stream

\* Every step allocates and frees what its place tells.
LEMMA StepKeepsBlocks == TypeOK /\ BlocksFollow /\ [Next]_vars => BlocksFollow'
<1> SUFFICES ASSUME TypeOK /\ BlocksFollow, [Next]_vars PROVE BlocksFollow'
  OBVIOUS
<1> USE DEF Goto, Go, Allocate, Free, entry, call, stream, talk, host, heap
<1>1. ASSUME NEW c \in Calls, Enter(c) PROVE BlocksFollow'
  BY <1>1 DEF TypeOK, BlocksFollow, CallBlocks, StreamBlocks, Allocator, Enter
<1>2. ASSUME NEW c \in Calls, HandleFails(c) PROVE BlocksFollow'
  BY <1>2 DEF TypeOK, BlocksFollow, CallBlocks, StreamBlocks, Allocator, HandleFails
<1>3. ASSUME NEW c \in Calls, AcceptStream(c) PROVE BlocksFollow'
  BY <1>3 DEF TypeOK, BlocksFollow, CallBlocks, StreamBlocks, Allocator, AcceptStream
<1>4. ASSUME NEW c \in Calls, HandleOther(c) PROVE BlocksFollow'
  BY <1>4 DEF TypeOK, BlocksFollow, CallBlocks, StreamBlocks, Allocator, HandleOther
<1>5. ASSUME NEW c \in Calls, HandleStream(c) PROVE BlocksFollow'
  BY <1>5 DEF TypeOK, BlocksFollow, CallBlocks, StreamBlocks, Allocator, HandleStream
<1>6. ASSUME NEW c \in Calls, Respond(c) PROVE BlocksFollow'
  BY <1>6 DEF TypeOK, BlocksFollow, CallBlocks, StreamBlocks, Allocator, Respond
<1>7. ASSUME NEW c \in Calls, HostFrees(c) PROVE BlocksFollow'
  BY <1>7 DEF TypeOK, BlocksFollow, CallBlocks, StreamBlocks, Allocator, HostFrees
<1>8. ASSUME NEW c \in Calls, OutputEnds(c) PROVE BlocksFollow'
  BY <1>8 DEF TypeOK, BlocksFollow, CallBlocks, StreamBlocks, Allocator, OutputEnds
<1>9. ASSUME NEW c \in Calls, BuildPrompt(c) PROVE BlocksFollow'
  BY <1>9 DEF TypeOK, BlocksFollow, CallBlocks, StreamBlocks, Allocator, BuildPrompt
<1>10. ASSUME NEW c \in Calls, StartCommand(c) PROVE BlocksFollow'
  BY <1>10 DEF TypeOK, BlocksFollow, CallBlocks, StreamBlocks, Allocator, StartCommand
<1>11. ASSUME NEW c \in Calls, CloseEarly(c) PROVE BlocksFollow'
  BY <1>11 DEF TypeOK, BlocksFollow, CallBlocks, StreamBlocks, Allocator, CloseEarly, CallHost
<1>12. ASSUME NEW c \in Calls, EmitChunk(c) PROVE BlocksFollow'
  BY <1>12 DEF TypeOK, BlocksFollow, CallBlocks, StreamBlocks, Allocator, EmitChunk, CallHost
<1>13. ASSUME NEW c \in Calls, CloseStream(c) PROVE BlocksFollow'
  BY <1>13 DEF TypeOK, BlocksFollow, CallBlocks, StreamBlocks, Allocator, CloseStream, CallHost
<1>14. ASSUME NEW c \in Calls, HostReplies(c) PROVE BlocksFollow'
  BY <1>14 DEF TypeOK, BlocksFollow, CallBlocks, StreamBlocks, Allocator, HostReplies
<1>15. ASSUME NEW c \in Calls, FreeReply(c) PROVE BlocksFollow'
  BY <1>15 DEF TypeOK, BlocksFollow, CallBlocks, StreamBlocks, Allocator, FreeReply
<1>16. ASSUME NEW c \in Calls, ReturnFromHost(c) PROVE BlocksFollow'
  BY <1>16 DEF TypeOK, BlocksFollow, CallBlocks, StreamBlocks, Allocator, ReturnFromHost
<1>17. CASE UNCHANGED vars
  BY <1>17 DEF TypeOK, BlocksFollow, CallBlocks, StreamBlocks, Allocator, vars
<1> QED
  BY <1>1, <1>2, <1>3, <1>4, <1>5, <1>6, <1>7, <1>8, <1>9, <1>10, <1>11, <1>12, <1>13, <1>14, <1>15, <1>16, <1>17 DEF Next, Handle, Stream

\* Every step keeps the invariant.
LEMMA StepKeepsInv == Inv /\ [Next]_vars => Inv'
  BY StepKeepsTypes, StepKeepsAccepted, StepKeepsBlocks DEF Inv

\* The inductive invariant holds throughout.
THEOREM Invariant == Spec => []Inv
  BY InitInv, StepKeepsInv, PTL DEF Spec

\* Every variable keeps its type.
THEOREM TypeCorrect == Spec => []TypeOK
<1>1. Inv => TypeOK
  BY DEF Inv
<1> QED
  BY <1>1, Invariant, PTL

\* On every return of callHost and of the calls, each block is freed once and by
\* the side that allocated it, and none is left.
THEOREM BlocksReturn == Spec => []BlocksGoBack
<1>1. Inv => BlocksGoBack
  BY DEF Inv, BlocksFollow, CallBlocks, StreamBlocks, BlocksGoBack
<1> QED
  BY <1>1, Invariant, PTL

\* A stream whose call was answered with an error never reaches the host.
THEOREM RejectedStaySilent == Spec => []RejectedStreamsAreSilent
<1>1. Inv => RejectedStreamsAreSilent
  BY DEF Inv, StreamsAreAccepted, RejectedStreamsAreSilent
<1> QED
  BY <1>1, Invariant, PTL
=============================================================================
