-------------------------- MODULE MCDeviceConnect --------------------------
(* Small instances of DeviceConnect for TLC.                               *)
EXTENDS DeviceConnect
=============================================================================
