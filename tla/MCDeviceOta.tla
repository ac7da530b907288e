----------------------------- MODULE MCDeviceOta ----------------------------
(* Instances of DeviceOta for TLC: which control points a reset may hit.   *)
EXTENDS DeviceOta

AnyPoint == PC

=============================================================================
