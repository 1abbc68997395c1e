----------------------------- MODULE MCDeviceAgent -----------------------------
(* Small instances of DeviceAgent: without symmetry, since WindowEnds is checked. *)
EXTENDS DeviceAgent
===============================================================================
