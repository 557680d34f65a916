---------------------------- MODULE MCUsbStorage ----------------------------
(* UsbStorage with one update at a time. *)
EXTENDS UsbStorage

MCUpdates == {"u1"}

=============================================================================
