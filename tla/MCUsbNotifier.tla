--------------------------- MODULE MCUsbNotifier ---------------------------
(***************************************************************************)
(* Instance of UsbNotifier: one device that is ours and one that has our   *)
(* vendor and product IDs and another release number.                      *)
(***************************************************************************)
EXTENDS UsbNotifier

CONSTANTS ours, older

MCDevices == {ours, older}
MCMatches == (ours :> Fields) @@ (older :> (Fields \ {"release"}))

=============================================================================
