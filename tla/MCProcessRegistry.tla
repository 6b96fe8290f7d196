------------------------- MODULE MCProcessRegistry -------------------------
(***************************************************************************)
(* Two calls, one of them a stream, and few process numbers.               *)
(***************************************************************************)
EXTENDS ProcessRegistry

CONSTANTS stream, plain, p1, p2

MCCalls   == {stream, plain}
MCStreams == {stream}
TwoPids   == {p1, p2}
=============================================================================
