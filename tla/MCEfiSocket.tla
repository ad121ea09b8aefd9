---------------------------- MODULE MCEfiSocket ----------------------------
(***************************************************************************)
(* EfiSocket for TLC: one socket that connects, or one that listens.       *)
(***************************************************************************)
EXTENDS EfiSocket

CONSTANTS c, l

MCClient == {c}
MCListener == {l}
MCEvent == Sock \X Op
\* select is asked about all there is.
MCSelections == {Sock \X {"read"} \cup Client \X {"write"}}
=============================================================================
