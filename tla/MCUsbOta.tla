------------------------------ MODULE MCUsbOta ------------------------------
(* UsbOta with a file that is long enough for the worker to wait with a limit. *)
EXTENDS UsbOta

MCFiles == {5}

=============================================================================
