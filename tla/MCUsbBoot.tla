----------------------------- MODULE MCUsbBoot -----------------------------
(***************************************************************************)
(* Instances of UsbBoot for TLC.                                           *)
(***************************************************************************)
EXTENDS UsbBoot

=============================================================================
