--------------------------- MODULE MCThreadPool ---------------------------
(***************************************************************************)
(* Instances of ThreadPool for TLC.                                        *)
(***************************************************************************)
EXTENDS ThreadPool

\* The default priority, which is the only one the Encryptor uses.
AllMedium == [task \in UserTasks |-> MEDIUM]
===========================================================================
