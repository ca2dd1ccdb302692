-------------------------- MODULE MCWorkSupervisor --------------------------
(* Instances of WorkSupervisor for TLC.                                    *)
EXTENDS WorkSupervisor
AllCommands == {"pause", "resume", "authorize", "revoke", "cancel", "stop", "signal", "reconcile"}
=============================================================================
