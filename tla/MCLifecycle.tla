----------------------------- MODULE MCLifecycle ----------------------------
(***************************************************************************)
(* Lifecycle with three packets: the queue goes through its empty, one-    *)
(* element and longer states, and packets are left over at the exit.       *)
(***************************************************************************)
EXTENDS Lifecycle

MCThreads == {"main", "rx"}
MCPackets == 1 .. MaxPackets
=============================================================================
