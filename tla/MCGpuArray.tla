----------------------------- MODULE MCGpuArray -----------------------------
(* A small, a large and an empty array; kernels on any of them.            *)
EXTENDS GpuArray

CONSTANTS small, large, empty

MCArrays == {small, large, empty}
MCEmpty == {empty}
MCLarge == {large}
MCNoHabits == {}
MCHoldViews == {"hold_view"}
MCWriteFirst == {"write_first"}
=============================================================================
