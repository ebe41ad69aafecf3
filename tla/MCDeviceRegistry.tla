-------------------------- MODULE MCDeviceRegistry --------------------------
(* An instance of DeviceRegistry for TLC: two agents, one of which restarts. *)
EXTENDS DeviceRegistry

MCWriters  == 1..3
MCDeviceID == << 20, 21, 20 >>
=============================================================================
