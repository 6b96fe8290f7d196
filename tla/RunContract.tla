---------------------------- MODULE RunContract ----------------------------
(***************************************************************************)
(* What both kinds of execution promise about a run of agy: the client is  *)
(* given an answer when the run was clean and an error when it was not,    *)
(* once, and only when the run is over.  It may be told nothing (a stream  *)
(* that the host no longer takes).                                         *)
(***************************************************************************)
VARIABLES
    run,    \* how the run went: "going", "clean" or "bad"
    told    \* what the client was told: "nothing", "answer" or "error"

runVars == <<run, told>>

RunInit == run = "going" /\ told = "nothing"

\* agy could not be run at all.
CannotRun ==
    /\ run = "going" /\ told = "nothing"
    /\ run' = "bad" /\ told' = "error"

Over ==
    /\ run = "going"
    /\ run' \in {"clean", "bad"}
    /\ UNCHANGED told

Tell ==
    /\ run # "going" /\ told = "nothing"
    /\ told' = IF run = "clean" THEN "answer" ELSE "error"
    /\ UNCHANGED run

RunNext == CannotRun \/ Over \/ Tell

RunSpec == RunInit /\ [][RunNext]_runVars
=============================================================================
