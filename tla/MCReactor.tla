----------------------------- MODULE MCReactor -----------------------------
(***************************************************************************)
(* Instances of Reactor for TLC.                                           *)
(***************************************************************************)
EXTENDS Reactor

\* A socket with all three uses, and one that is only read, as a MinionProxy's.
SocketPlaces == {<<READ, 3>>, <<WRITE, 3>>, <<EXPT, 3>>, <<READ, 4>>}
===========================================================================
