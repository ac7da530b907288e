---------------------------- MODULE MCDeployment ----------------------------
(***************************************************************************)
(* Small instances of Deployment: fleets, phases and rates for TLC.        *)
(***************************************************************************)
EXTENDS Deployment, TLC

CONSTANTS d1, d2   \* deployments

One == {d1}
Two == {d1, d2}
SwapTwo == Permutations(Two)   \* no action tells the two apart
OneDevice == {1}
TwoDevices == {1, 2}
ThreeDevices == {1, 2, 3}
SingleShot == << >>
CanaryFirst == <<34, 100>>   \* a device of two or three, then the others
HalfThenAll == <<50, 100>>
TinyCanary == <<5, 25, 100>>

=============================================================================
