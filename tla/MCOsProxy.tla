----------------------------- MODULE MCOsProxy -----------------------------
(***************************************************************************)
(* Instances of OsProxy for TLC.                                           *)
(***************************************************************************)
EXTENDS OsProxy

VdrPlaces == {MasterPlace, ReadPlace, WritePlace}
===========================================================================
