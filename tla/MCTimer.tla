------------------------------ MODULE MCTimer ------------------------------
(***************************************************************************)
(* Instances of Timer for TLC.                                             *)
(***************************************************************************)
EXTENDS Timer

\* The timerfd between two sockets, so that one is served before it in a pass
\* and one after it.
TwoSocketsAndTimer == {<<READ, 3>>, <<READ, 4>>, <<READ, 5>>}
===========================================================================
