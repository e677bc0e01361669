---------------------------- MODULE MCDeviceActor ----------------------------
(* DeviceActor with two threads that serve requests.                        *)
EXTENDS DeviceActor

CONSTANTS a, b

Two == {a, b}
One == {a}
Other == {b}
None == {}
=============================================================================
