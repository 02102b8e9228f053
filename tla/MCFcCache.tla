----------------------------- MODULE MCFcCache -----------------------------
(***************************************************************************)
(* Instances of FcCache for TLC: drone_get_battery_info reads a battery    *)
(* pack, drone_get_gimbal_angle the gimbal angles, drone_get_telemetry the *)
(* position and the pack.                                                  *)
(***************************************************************************)
EXTENDS FcCache

MCGetters == { {"pack"}, {"pos"}, {"pos", "pack"} }

=============================================================================
