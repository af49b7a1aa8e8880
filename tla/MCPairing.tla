----------------------------- MODULE MCPairing -----------------------------
(***************************************************************************)
(* Pairing with three configuration files: none, one whose [daemon] table  *)
(* overrides its [device] table and names a command, and one that is       *)
(* refused.                                                                *)
(***************************************************************************)
EXTENDS Pairing

MCConfigFiles ==
    {NoFile,
     [backend |-> "command", command |-> "argv",
      deviceOnStart |-> "false", daemonOnStart |-> "true"],
     [backend |-> "loginctl", command |-> "argv",
      deviceOnStart |-> "absent", daemonOnStart |-> "absent"]}
=============================================================================
