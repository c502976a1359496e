----------------------------- MODULE UsbDevices -----------------------------
(***************************************************************************)
(* What the two parts of usb-notifier.c have in common: the devices.       *)
(***************************************************************************)
CONSTANTS
    Devices,    \* the USB devices that are plugged in
    None        \* the NULL pointer, no device

ASSUME DevicesAssumption == None \notin Devices

=============================================================================
