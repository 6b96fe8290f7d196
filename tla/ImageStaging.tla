---------------------------- MODULE ImageStaging ----------------------------
(***************************************************************************)
(* Inline images of a request on their way to agy: stageImage (openai.go)  *)
(* decodes a data URL, names the file after the hash of the bytes, writes  *)
(* it unless a file of that name exists, and puts the path into the prompt *)
(* that agy reads afterwards.                                              *)
(*                                                                         *)
(* Stagings run in the host's calling threads and in the goroutines of     *)
(* streams, side by side and without a lock; a streaming request stages    *)
(* its images twice.  The bytes of an image are a row of blocks, written   *)
(* in order; the hash is taken to tell the images apart, so a path stands  *)
(* for one image.  The host process may be killed at any moment; the files *)
(* remain.                                                                 *)
(***************************************************************************)
EXTENDS Naturals

CONSTANTS
    Stagings,    \* the calls of stageImage
    Images,      \* the images, each with the path its hash names
    Blocks       \* the blocks of an image

ASSUME BlocksAssumption == Blocks \in Nat \ {0}

VARIABLES
    image,       \* the image each call is about
    pc,          \* where it is
    offset,      \* how many blocks it has written
    exists,      \* the paths that exist
    data,        \* the blocks of a file that hold the image's bytes
    broken       \* history: the images with a write that was cut short

call  == <<image, pc, offset>>
files == <<exists, data>>
vars  == <<call, files, broken>>

Control == {"decode", "stat", "open", "write", "staged", "failed"}

Init ==
    /\ image \in [Stagings -> Images]
    /\ pc = [s \in Stagings |-> "decode"]
    /\ offset = [s \in Stagings |-> 0]
    /\ exists = {}
    /\ data = [i \in Images |-> {}]
    /\ broken = {}

Goto(s, from, to) ==
    /\ pc[s] = from
    /\ pc' = [pc EXCEPT ![s] = to]

-----------------------------------------------------------------------------
(* The steps of stageImage. *)

\* The payload is decoded, the cache directory made and the path computed.
Decode(s) ==
    /\ Goto(s, "decode", "stat")
    /\ UNCHANGED <<image, offset, files, broken>>

\* A bad payload, or no cache directory.
DecodeFails(s) ==
    /\ Goto(s, "decode", "failed")
    /\ UNCHANGED <<image, offset, files, broken>>

\* Mutant: the file is written whether it exists or not.
AlwaysWrites(s) ==
    /\ Goto(s, "stat", "open")
    /\ UNCHANGED <<image, offset, files, broken>>

\* os.Stat: whatever has the name will do; without it the file is to be written.
Stat(s) ==
    /\ Goto(s, "stat", IF image[s] \in exists THEN "staged" ELSE "open")
    /\ UNCHANGED <<image, offset, files, broken>>

\* os.WriteFile opens with O_CREATE and O_TRUNC.
Open(s) ==
    /\ Goto(s, "open", "write")
    /\ exists' = exists \union {image[s]}
    /\ data' = [data EXCEPT ![image[s]] = {}]
    /\ offset' = [offset EXCEPT ![s] = 0]
    /\ UNCHANGED <<image, broken>>

OpenFails(s) ==
    /\ Goto(s, "open", "failed")
    /\ UNCHANGED <<image, offset, files, broken>>

\* Mutant: the write does not know where the image ends.
WriteBeyond(s) ==
    /\ pc[s] = "write"
    /\ offset[s] <= Blocks
    /\ offset' = [offset EXCEPT ![s] = @ + 1]
    /\ data' = [data EXCEPT ![image[s]] = @ \union {offset[s] + 1}]
    /\ UNCHANGED <<image, pc, exists, broken>>

WriteBlock(s) ==
    /\ pc[s] = "write"
    /\ offset[s] < Blocks
    /\ offset' = [offset EXCEPT ![s] = @ + 1]
    /\ data' = [data EXCEPT ![image[s]] = @ \union {offset[s] + 1}]
    /\ UNCHANGED <<image, pc, exists, broken>>

\* Mutant: the last block may be missing when the file is closed.
CloseEarly(s) ==
    /\ offset[s] + 1 >= Blocks
    /\ Goto(s, "write", "staged")
    /\ UNCHANGED <<image, offset, files, broken>>

CloseFile(s) ==
    /\ offset[s] = Blocks
    /\ Goto(s, "write", "staged")
    /\ UNCHANGED <<image, offset, files, broken>>

\* The disk is full: the request fails, and what was written stays.  So it does
\* when the file cannot be closed.
WriteFails(s) ==
    /\ Goto(s, "write", "failed")
    /\ broken' = broken \union {image[s]}
    /\ UNCHANGED <<image, offset, files>>

-----------------------------------------------------------------------------
(* The host process. *)

\* The host is killed: every call in progress ends where it is.  The calls still
\* to come belong to the next host.
Crash ==
    /\ \E s \in Stagings : pc[s] \in {"stat", "open", "write"}
    /\ pc' = [s \in Stagings |->
                IF pc[s] \in {"stat", "open", "write"} THEN "failed" ELSE pc[s]]
    /\ broken' = broken \union {image[s] : s \in {t \in Stagings : pc[t] = "write"}}
    /\ UNCHANGED <<image, offset, files>>

-----------------------------------------------------------------------------

Step(s) == \/ Decode(s) \/ DecodeFails(s) \/ Stat(s) \/ Open(s) \/ OpenFails(s)
           \/ WriteBlock(s) \/ CloseFile(s) \/ WriteFails(s)

Next == (\E s \in Stagings : Step(s)) \/ Crash

Spec == Init /\ [][Next]_vars

-----------------------------------------------------------------------------
(* Properties. *)

All == 1 .. Blocks

Whole(i) == i \in exists /\ data[i] = All

Writing(s) == pc[s] = "write"

\* A call that will truncate or write the file of image i.
Writers(i) == {s \in Stagings : image[s] = i /\ pc[s] \in {"open", "write"}}

\* Every variable has its type.
TypeOK ==
    /\ image \in [Stagings -> Images]
    /\ pc \in [Stagings -> Control]
    /\ offset \in [Stagings -> 0 .. Blocks]
    /\ exists \subseteq Images
    /\ data \in [Images -> SUBSET All]
    /\ broken \subseteq Images

\* However many calls write one file over each other, each truncating what the
\* others wrote: once the last of them is through, and none was cut short, the
\* file is the whole image.
SettledFilesAreWhole ==
    \A i \in exists \ broken :
        (\A s \in Stagings : image[s] = i => ~Writing(s)) => Whole(i)

\* A file that exists and that no call is on its way to write keeps its bytes for
\* good: the cache is never written again.  So the agy of every later request that
\* carries the image reads the same: the whole image, or, if a write was cut short,
\* the same part of it each time.
SettledFilesStay ==
    [][\A i \in exists : Writers(i) = {} =>
          i \in exists' /\ data'[i] = data[i] /\ Writers(i)' = {}]_vars

-----------------------------------------------------------------------------
(* The inductive invariant. *)

\* What a file lacks, some call has still to write: the one that truncated last.
MissingIsAhead ==
    \A i \in exists \ broken :
        \/ Whole(i)
        \/ \E s \in Stagings :
              /\ image[s] = i /\ Writing(s)
              /\ \A b \in All : b \notin data[i] => b > offset[s]

Inv ==
    /\ TypeOK
    /\ MissingIsAhead
=============================================================================
