------------------------------ MODULE StubCtrl ------------------------------
(***************************************************************************)
(* The build without PSDK_REAL: psdk_init, drone_ctrl_init and the HAL     *)
(* succeed without doing anything, the setters store into five static      *)
(* variables, and the getters answer from them or with fixed mock values.  *)
(* handle_rpc runs them one request at a time on the main thread, so that  *)
(* a request is one step from a stub to a stub and an answer.              *)
(*                                                                         *)
(* Angles, zoom factors and altitudes are whole numbers, and the mock      *)
(* position, which drifts with the clock, is left out of the telemetry.    *)
(***************************************************************************)
EXTENDS Integers

\* CameraMode and ObstacleAvoidMode. The handlers reject negative numbers only.
CAMERA_MODE_PHOTO == 0
CAMERA_MODE_VIDEO == 1

\* The structures of drone_types.h, as far as the stub fills them in.
DroneGimbalAngle == [pitch : Int, roll : Int, yaw : Int]
DroneCameraState == [mode : Nat, is_recording : BOOLEAN, zoom_factor : Int]
DroneBatteryInfo == [voltage_mv : Nat, current_ma : Int, remaining_pct : 0..255,
                     temperature_dc : (-2^15)..(2^15 - 1), cycle_count : Nat]
DroneRtkStatus == [enabled : BOOLEAN, fix_type : 0..255, satellites : 0..255]
DroneTelemetry == [alt_rel_m : Int, battery_pct : 0..255, battery_mv : Nat,
                   gps_sats : 0..255, gps_fix : 0..255, flight_status : 0..255,
                   motors_on : BOOLEAN]

\* g_stub_rth_alt ... g_stub_recording, after start-up.
Fresh == [rth_alt |-> 30, gimbal_p |-> -30, zoom |-> 1,
          cam_mode |-> CAMERA_MODE_PHOTO, recording |-> FALSE]

Stubs == [rth_alt : Int, gimbal_p : Int, zoom : Int, cam_mode : Nat, recording : BOOLEAN]

-----------------------------------------------------------------------------
(* Commands. All of them succeed; roll and yaw of the gimbal, the home     *)
(* location and the avoidance mode are logged and forgotten.               *)

drone_set_rth_altitude(s, alt_m) == [s EXCEPT !.rth_alt = alt_m]
drone_set_gimbal_angle(s, a) == [s EXCEPT !.gimbal_p = a.pitch]
drone_set_camera_mode(s, mode) == [s EXCEPT !.cam_mode = mode]
drone_set_camera_zoom(s, zoom_factor) == [s EXCEPT !.zoom = zoom_factor]
drone_start_recording(s) == [s EXCEPT !.recording = TRUE]
drone_stop_recording(s) == [s EXCEPT !.recording = FALSE]

\* drone_set_home_location, drone_set_obstacle_avoidance, drone_shoot_photo
\* and drone_upload_kmz.
Forgotten(s) == s

Effect(s, method, arg) ==
    CASE method = "drone.set_rth_altitude" -> drone_set_rth_altitude(s, arg)
      [] method = "drone.set_gimbal_angle" ->
             drone_set_gimbal_angle(s, [pitch |-> arg, roll |-> 0, yaw |-> 0])
      [] method = "drone.set_camera_mode" -> drone_set_camera_mode(s, arg)
      [] method = "drone.set_camera_zoom" -> drone_set_camera_zoom(s, arg)
      [] method = "drone.start_recording" -> drone_start_recording(s)
      [] method = "drone.stop_recording" -> drone_stop_recording(s)
      [] OTHER -> Forgotten(s)

-----------------------------------------------------------------------------
(* Queries.                                                                *)

drone_get_telemetry == [alt_rel_m |-> 30, battery_pct |-> 82, battery_mv |-> 25200,
                        gps_sats |-> 14, gps_fix |-> 2, flight_status |-> 2,
                        motors_on |-> TRUE]
drone_get_battery_info == [voltage_mv |-> 25200, current_ma |-> -3200, remaining_pct |-> 82,
                           temperature_dc |-> 253, cycle_count |-> 47]
drone_get_gimbal_angle(s) == [pitch |-> s.gimbal_p, roll |-> 0, yaw |-> 0]
drone_get_camera_state(s) == [mode |-> s.cam_mode, is_recording |-> s.recording,
                              zoom_factor |-> s.zoom]
drone_get_rtk_status == [enabled |-> FALSE, fix_type |-> 0, satellites |-> 0]

Pong == [pong |-> TRUE]
Null == [null |-> TRUE]

Answer(s, method) ==
    CASE method = "system.ping" -> Pong
      [] method = "drone.get_telemetry" -> drone_get_telemetry
      [] method = "drone.get_battery_info" -> drone_get_battery_info
      [] method = "drone.get_gimbal_angle" -> drone_get_gimbal_angle(s)
      [] method = "drone.get_camera_state" -> drone_get_camera_state(s)
      [] method = "drone.get_rtk_status" -> drone_get_rtk_status
      [] OTHER -> Null

-----------------------------------------------------------------------------
(* system.ping: uptime_ms, the milliseconds from g_start, the first call,  *)
(* to now. A timespec is a pair of seconds and nanoseconds below a second. *)

Second == 1000000000
Timespec == [tv_sec : Nat, tv_nsec : 0..(Second - 1)]

uptime_ms(g_start, now) ==
    LET sec == now.tv_sec - g_start.tv_sec
        nsec == now.tv_nsec - g_start.tv_nsec
    IN  IF nsec < 0 THEN (sec - 1) * 1000 + (nsec + Second) \div 1000000
                    ELSE sec * 1000 + nsec \div 1000000

\* The reference: nanoseconds between the two, rounded down to milliseconds.
Nanos(ts) == ts.tv_sec * Second + ts.tv_nsec

\* The stub's answers have the types of drone_types.h, and uptime_ms is the
\* reference on both sides of every borrow and rounding.
ASSUME MockTypes == /\ Fresh \in Stubs
                    /\ drone_get_telemetry \in DroneTelemetry
                    /\ drone_get_battery_info \in DroneBatteryInfo
                    /\ drone_get_rtk_status \in DroneRtkStatus
                    /\ drone_get_gimbal_angle(Fresh) \in DroneGimbalAngle
                    /\ drone_get_camera_state(Fresh) \in DroneCameraState

ASSUME UptimeOnEdges ==
    LET edge == [tv_sec : 0..1, tv_nsec : {0, 1, 999999, 1000000, 500000000, 999999999}]
    IN  \A g_start, now \in edge :
            Nanos(now) >= Nanos(g_start) =>
                uptime_ms(g_start, now) = (Nanos(now) - Nanos(g_start)) \div 1000000

=============================================================================
