---------------------------- MODULE MCRootSwitch ----------------------------
(* An instance of RootSwitch for TLC: two launches of the full program race *)
(* on one rootfs next to a launch of steps/pid.cpp and of steps/mnt.cpp.    *)
EXTENDS RootSwitch, TLC

CONSTANTS i1, i2, i3, i4

Four == {i1, i2, i3, i4}

Programs4 == i1 :> "pid" @@ i2 :> "mnt"
             @@ i3 :> "pivot_root" @@ i4 :> "pivot_root"
=============================================================================
