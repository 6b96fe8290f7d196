------------------------- MODULE ImageStagingProofs -------------------------
(***************************************************************************)
(* What holds of ImageStaging for any number of calls, images and blocks.  *)
(*                                                                         *)
(* The one idea is MissingIsAhead: the call that truncated a file last has *)
(* written every block up to its offset since, so whatever the file lacks  *)
(* lies ahead of it, whoever else wrote meanwhile.                         *)
(***************************************************************************)
EXTENDS ImageStaging, TLAPS

\* The invariant holds at the start.
LEMMA InitInv == Init => Inv
<1> USE BlocksAssumption
<1> SUFFICES ASSUME Init PROVE Inv
  OBVIOUS
<1>1. TypeOK
  BY DEF Init, TypeOK, Control, All
<1>3. MissingIsAhead
  BY DEF Init, MissingIsAhead
<1> QED
  BY <1>1, <1>3 DEF Inv

\* Every step keeps the types.
LEMMA StepKeepsTypes == TypeOK /\ [Next]_vars => TypeOK'
<1> USE BlocksAssumption
<1> SUFFICES ASSUME TypeOK, [Next]_vars PROVE TypeOK'
  OBVIOUS
<1>1. CASE UNCHANGED vars
  BY <1>1 DEF TypeOK, vars, call, files
<1>2. ASSUME NEW s \in Stagings, Step(s) PROVE TypeOK'
  <2>1. CASE Decode(s) \/ DecodeFails(s) \/ Stat(s) \/ OpenFails(s)
    BY <2>1 DEF Decode, DecodeFails, Stat, OpenFails, Goto, TypeOK, Control, files
  <2>2. CASE Open(s)
    BY <2>2 DEF Open, Goto, TypeOK, Control
  <2>3. CASE WriteBlock(s)
    <3>1. offset[s] + 1 \in All /\ offset[s] + 1 \in 0 .. Blocks
      BY <2>3 DEF WriteBlock, TypeOK, All
    <3>2. data' \in [Images -> SUBSET All]
      BY <2>3, <3>1 DEF WriteBlock, TypeOK
    <3> QED
      BY <2>3, <3>1, <3>2 DEF WriteBlock, TypeOK
  <2>4. CASE CloseFile(s) \/ WriteFails(s)
    BY <2>4 DEF CloseFile, WriteFails, Goto, TypeOK, Control, files
  <2> QED
    BY <1>2, <2>1, <2>2, <2>3, <2>4 DEF Step
<1>3. CASE Crash
  BY <1>3 DEF Crash, TypeOK, Control, files
<1> QED
  BY <1>1, <1>2, <1>3 DEF Next

\* Every step keeps the invariant.
LEMMA StepKeepsInv == Inv /\ [Next]_vars => Inv'
<1> USE BlocksAssumption
<1> SUFFICES ASSUME Inv, [Next]_vars PROVE Inv'
  OBVIOUS
<1>t. TypeOK /\ TypeOK'
  BY StepKeepsTypes DEF Inv
<1>m. MissingIsAhead'
  <2> SUFFICES ASSUME NEW i \in exists', i \notin broken'
               PROVE  \/ Whole(i)'
                      \/ \E s \in Stagings :
                            /\ image'[s] = i /\ Writing(s)'
                            /\ \A b \in All : b \notin data'[i] => b > offset'[s]
    BY DEF MissingIsAhead
  <2>1. CASE UNCHANGED vars
    BY <2>1, <1>t DEF Inv, MissingIsAhead, Whole, Writing, vars, call, files
  <2>2. ASSUME NEW s \in Stagings, Step(s)
        PROVE  \/ Whole(i)'
               \/ \E t \in Stagings :
                     /\ image'[t] = i /\ Writing(t)'
                     /\ \A b \in All : b \notin data'[i] => b > offset'[t]
    <3> DEFINE Ahead(t) == /\ image[t] = i /\ Writing(t)
                           /\ \A b \in All : b \notin data[i] => b > offset[t]
    <3>1. CASE Decode(s) \/ DecodeFails(s) \/ Stat(s) \/ OpenFails(s)
      <4>1. i \in exists /\ i \notin broken /\ UNCHANGED <<image, offset, files>>
        BY <3>1 DEF Decode, DecodeFails, Stat, OpenFails, files
      <4>2. \A t \in Stagings : Writing(t) => Writing(t)'
        BY <3>1, <1>t DEF Decode, DecodeFails, Stat, OpenFails, Goto, Writing, TypeOK
      <4> QED
        BY <4>1, <4>2 DEF Inv, MissingIsAhead, Whole, files
    <3>2. CASE Open(s)
      <4>1. CASE image[s] = i
        <5>1. image'[s] = i /\ Writing(s)' /\ offset'[s] = 0
          BY <3>2, <4>1, <1>t DEF Open, Goto, Writing, TypeOK
        <5>2. \A b \in All : b > offset'[s]
          BY <5>1 DEF All
        <5> QED
          BY <5>1, <5>2
      <4>2. CASE image[s] # i
        <5>1. i \in exists /\ i \notin broken /\ data'[i] = data[i]
          BY <3>2, <4>2, <1>t DEF Open, TypeOK
        <5>2. CASE Whole(i)
          BY <3>2, <5>1, <5>2 DEF Whole, Open
        <5>3. ASSUME NEW t \in Stagings, Ahead(t) PROVE Ahead(t)'
          <6>1. t # s
            BY <4>2, <5>3
          <6>2. image'[t] = i /\ Writing(t)' /\ offset'[t] = offset[t]
            BY <3>2, <5>3, <6>1, <1>t DEF Open, Goto, Writing, TypeOK
          <6> QED
            BY <5>1, <5>3, <6>2
        <5> QED
          BY <5>1, <5>2, <5>3 DEF Inv, MissingIsAhead
      <4> QED
        BY <4>1, <4>2
    <3>3. CASE WriteBlock(s)
      <4>1. i \in exists /\ i \notin broken /\ data[i] \subseteq data'[i]
        BY <3>3, <1>t DEF WriteBlock, TypeOK
      <4>2. CASE Whole(i)
        BY <3>3, <4>1, <4>2, <1>t DEF Whole, WriteBlock, TypeOK
      <4>3. ASSUME NEW t \in Stagings, Ahead(t) PROVE Ahead(t)'
        <5>1. image'[t] = i /\ Writing(t)'
          BY <3>3, <4>3 DEF WriteBlock, Writing
        <5>2. CASE t = s
          <6>1. offset'[t] = offset[t] + 1 /\ data'[i] = data[i] \union {offset[t] + 1}
            BY <3>3, <4>3, <5>2, <1>t DEF WriteBlock, TypeOK
          <6>2. \A b \in All : b \notin data'[i] => b > offset'[t]
            <7> SUFFICES ASSUME NEW b \in All, b \notin data'[i] PROVE b > offset'[t]
              OBVIOUS
            <7>1. b > offset[t] /\ b # offset[t] + 1
              BY <4>3, <6>1
            <7>2. b \in Nat /\ offset[t] \in Nat
              BY <1>t DEF TypeOK, All
            <7> QED
              BY <6>1, <7>1, <7>2
          <6> QED
            BY <5>1, <6>2
        <5>3. CASE t # s
          <6>1. offset'[t] = offset[t]
            BY <3>3, <5>3, <1>t DEF WriteBlock, TypeOK
          <6> QED
            BY <4>1, <4>3, <5>1, <6>1
        <5> QED
          BY <5>2, <5>3
      <4> QED
        BY <4>1, <4>2, <4>3 DEF Inv, MissingIsAhead
    <3>4. CASE CloseFile(s)
      <4>1. i \in exists /\ i \notin broken /\ data'[i] = data[i] /\ exists' = exists
        BY <3>4 DEF CloseFile, files
      <4>2. CASE Whole(i)
        BY <4>1, <4>2 DEF Whole
      <4>3. ASSUME NEW t \in Stagings, Ahead(t) PROVE Whole(i)' \/ Ahead(t)'
        <5>1. CASE t = s
          <6>1. \A b \in All : ~(b > offset[t])
            BY <3>4, <5>1 DEF CloseFile, All
          <6>2. data[i] = All
            BY <4>1, <4>3, <6>1, <1>t DEF TypeOK
          <6> QED
            BY <4>1, <6>2 DEF Whole
        <5>2. CASE t # s
          BY <3>4, <4>1, <4>3, <5>2, <1>t DEF CloseFile, Goto, Writing, TypeOK
        <5> QED
          BY <5>1, <5>2
      <4> QED
        BY <4>1, <4>2, <4>3 DEF Inv, MissingIsAhead
    <3>5. CASE WriteFails(s)
      <4>1. i \in exists /\ i \notin broken /\ data'[i] = data[i] /\ exists' = exists
            /\ image[s] # i
        BY <3>5 DEF WriteFails, files
      <4>2. ASSUME NEW t \in Stagings, Ahead(t) PROVE Ahead(t)'
        BY <3>5, <4>1, <4>2, <1>t DEF WriteFails, Goto, Writing, TypeOK
      <4> QED
        BY <4>1, <4>2 DEF Inv, MissingIsAhead, Whole
    <3> QED
      BY <2>2, <3>1, <3>2, <3>3, <3>4, <3>5 DEF Step
  <2>3. CASE Crash
    <3>1. i \in exists /\ i \notin broken /\ UNCHANGED <<image, offset, files>>
      BY <2>3 DEF Crash, files
    <3>2. \A t \in Stagings : image[t] = i => ~Writing(t)
      BY <2>3 DEF Crash, Writing
    <3> QED
      BY <3>1, <3>2 DEF Inv, MissingIsAhead, Whole, files
  <2> QED
    BY <2>1, <2>2, <2>3 DEF Next
<1> QED
  BY <1>t, <1>m DEF Inv

\* The variables always have their types.
THEOREM TypeCorrect == Spec => []TypeOK
<1>1. Init => TypeOK
  BY InitInv DEF Inv
<1> QED
  BY <1>1, StepKeepsTypes, PTL DEF Spec

\* The invariant holds in every reachable state.
THEOREM Invariant == Spec => []Inv
  BY InitInv, StepKeepsInv, PTL DEF Spec

\* A cached file that nobody writes is the whole image, unless a write of it
\* was cut short.
THEOREM FilesSettle == Spec => []SettledFilesAreWhole
<1>1. Inv => SettledFilesAreWhole
  BY DEF Inv, MissingIsAhead, SettledFilesAreWhole
<1> QED
  BY <1>1, Invariant, PTL

\* A file nobody is about to write is never written again, whole or cut short.
THEOREM SettledStays == Spec => SettledFilesStay
<1>1. TypeOK /\ [Next]_vars
      => [\A i \in exists : Writers(i) = {} =>
             i \in exists' /\ data'[i] = data[i] /\ Writers(i)' = {}]_vars
  <2> SUFFICES ASSUME TypeOK, Next, NEW i \in exists, Writers(i) = {}
               PROVE  i \in exists' /\ data'[i] = data[i] /\ Writers(i)' = {}
    OBVIOUS
  <2>1. ASSUME NEW s \in Stagings, Step(s)
        PROVE  i \in exists' /\ data'[i] = data[i] /\ Writers(i)' = {}
    <3>1. \A t \in Stagings : image[t] = i => pc[t] \notin {"open", "write"}
      BY DEF Writers
    <3>2. CASE image[s] = i
      <4>1. UNCHANGED <<image, files>> /\ pc'[s] \notin {"open", "write"}
            /\ \A t \in Stagings : t # s => pc'[t] = pc[t]
        BY <2>1, <3>1, <3>2 DEF TypeOK, Step, Goto, Decode, DecodeFails, Stat, Open,
           OpenFails, WriteBlock, CloseFile, WriteFails, files
      <4> QED
        BY <3>1, <4>1 DEF Writers, files
    <3>3. CASE image[s] # i
      <4>1. image' = image /\ i \in exists' /\ data'[i] = data[i]
            /\ \A t \in Stagings : t # s => pc'[t] = pc[t]
        BY <2>1, <3>3 DEF TypeOK, Step, Goto, Decode, DecodeFails, Stat, Open,
           OpenFails, WriteBlock, CloseFile, WriteFails, files
      <4> QED
        BY <3>1, <3>3, <4>1 DEF Writers
    <3> QED
      BY <3>2, <3>3
  <2>2. CASE Crash
    BY <2>2 DEF Crash, Writers, files
  <2> QED
    BY <2>1, <2>2 DEF Next
<1> QED
  BY <1>1, TypeCorrect, PTL DEF Spec, SettledFilesStay
=============================================================================
