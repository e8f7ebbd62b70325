---------------------------- MODULE MCEncryptor ----------------------------
(***************************************************************************)
(* Instances of Encryptor for TLC.                                         *)
(***************************************************************************)
EXTENDS Encryptor

\* SendTaskToThreadPoolIMP adds every task with the default priority.
AllMedium == [task \in UserTasks |-> MEDIUM]
===========================================================================
