--------------------------- MODULE MCQueueClients ---------------------------
(***************************************************************************)
(* Two producers and two consumers: both consumers asleep when two packets *)
(* come in a row, and a packet taken between a signal and the wake-up.     *)
(***************************************************************************)
EXTENDS QueueClients

MCThreads == Producers \cup Consumers
MCPackets == 1 .. MaxPushes
=============================================================================
