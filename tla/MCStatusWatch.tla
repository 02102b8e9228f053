--------------------------- MODULE MCStatusWatch ---------------------------
(***************************************************************************)
(* An instance of StatusWatch for TLC.                                     *)
(***************************************************************************)
EXTENDS StatusWatch

\* A command that changes an answer; a restart of psdkd takes it back.
SomeCommands == { [method |-> "drone.set_gimbal_angle", arg |-> 10] }

=============================================================================
