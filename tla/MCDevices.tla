------------------------------ MODULE MCDevices ------------------------------
(* Devices for TLC: buffers of two bytes, messages of up to three. *)
EXTENDS Devices
=============================================================================
