-------------------------- MODULE MCDaemonLifecycle --------------------------
(* Small instances of DaemonLifecycle.                                     *)
EXTENDS DaemonLifecycle
=============================================================================
