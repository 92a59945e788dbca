---------------------------- MODULE MCReplication ----------------------------
(***************************************************************************)
(* Small instances of Replication for TLC.                                 *)
(***************************************************************************)
EXTENDS Replication
=============================================================================
