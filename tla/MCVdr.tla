------------------------------- MODULE MCVdr -------------------------------
(***************************************************************************)
(* Instances of Vdr for TLC.                                               *)
(***************************************************************************)
EXTENDS Vdr, TLC

\* Whatever proxy gets the datagrams of each minion.
AnySockets == [Minions -> Minions]

\* Linux gives a datagram to the socket bound last when several are bound to
\* one address and port with SO_REUSEADDR: the proxy made last gets them all.
LastBoundSocket == {[m \in Minions |-> NumMinions - 1]}

\* Beside these, a socket that only one minion's datagrams reach, as it would be
\* if each proxy had a port of its own.
OwnOrLastSocket == LastBoundSocket \cup {[m \in Minions |-> m]}

IdSymmetry == Permutations(IDs)
===========================================================================
