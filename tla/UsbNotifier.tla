---------------------------- MODULE UsbNotifier ----------------------------
(***************************************************************************)
(* bin/usb-notifier.c: the program that watches for one USB product and    *)
(* downloads firmware to every device of it.                               *)
(*                                                                         *)
(* main registers for "first match", walks the iterator once to handle     *)
(* the devices already present and to arm the notification, and enters     *)
(* the run loop, which calls RawDeviceAdded again for later arrivals.      *)
(* RawDeviceAdded takes one device at a time through a chain of IOKit      *)
(* calls, any of which may fail, with the locals plugInInterface, dev,     *)
(* vendor, product and release kept from one iteration to the next.        *)
(*                                                                         *)
(* A call through an object already given back is undefined: here it       *)
(* kills the program, or acts as if the object were still there.           *)
(***************************************************************************)
EXTENDS Integers, Sequences, FiniteSets, SequencesExt, UsbDevices

CONSTANTS
    MatchesOurs,    \* [Devices -> SUBSET Fields]: what equals kOurVendorID,
                    \* kOurProductID and release 1
    NRecords,       \* records of type 0 in bulktest[]
    MaxPlugs        \* bound: how many times devices are plugged in

Fields == {"vendor", "product", "release"}

ASSUME UsbAssumption ==
    /\ IsFiniteSet(Devices)
    /\ MatchesOurs \in [Devices -> SUBSET Fields]
    /\ NRecords \in Nat \ {0}
    /\ MaxPlugs \in Nat

VARIABLES
    pc,         \* where the single thread is
    registration,   \* what became of IOServiceAddMatchingNotification: "none" (not
                \* called yet), "made" (gRawAddedIter exists) or "failed"
    attached,   \* what the bus holds: nothing, the raw device, or the device
                \* the downloaded firmware turns it into
    inReset,    \* the 8051 of a device is held in reset
    image,      \* how many records its memory holds
    iter,       \* gRawAddedIter: the matches not yet returned
    armed,      \* an arrival sends a message to gNotifyPort
    message,    \* a message waits for the run loop
    cur,        \* usbDevice
    plugIn,     \* plugInInterface
    destroyed,  \* what plugInInterface points to is already destroyed
    dev,        \* the device interface
    refs,       \* the references the program owns on *dev
    open,       \* *dev is open
    equal,      \* the fields of vendor/product/release that equal ours
    unread,     \* history: the fields the last three reads failed to set
    plugs       \* counts Plug, up to MaxPlugs

bus == <<attached, inReset, image>>
notification == <<iter, armed, message>>
locals == <<cur, plugIn, destroyed, dev, refs, open, equal, unread>>
vars == <<pc, registration, bus, notification, locals, plugs>>

Stopped == {"exited", "crashed"}

Init ==
    /\ pc = "main" /\ registration = "none"
    /\ attached \in [Devices -> {"absent", "raw"}]
    /\ inReset = [d \in Devices |-> FALSE]
    /\ image = [d \in Devices |-> 0]
    /\ iter = <<>> /\ armed = FALSE /\ message = FALSE
    /\ cur = None /\ plugIn = None /\ destroyed = FALSE
    /\ dev = None /\ refs = 0 /\ open = FALSE
    /\ equal = {} /\ unread = {}
    /\ plugs = 0

-----------------------------------------------------------------------------
(* main, and the run loop.                                                 *)

\* The locals of a new call of RawDeviceAdded: two pointers set to NULL, and
\* vendor, product and release with whatever the stack held.
EnterRawDeviceAdded ==
    /\ pc' = "next"
    /\ plugIn' = None /\ dev' = None /\ destroyed' = FALSE
    /\ refs' = 0 /\ open' = FALSE
    /\ equal' \in SUBSET Fields /\ unread' = Fields
    /\ UNCHANGED cur

\* Mutant: main registers and enters the run loop without walking the iterator.
RegisterWithoutDrain ==
    /\ pc = "main"
    /\ iter' \in SetToSeqs({d \in Devices : attached[d] = "raw"})
    /\ pc' = "loop" /\ registration' = "made"
    /\ UNCHANGED <<bus, armed, message, locals, plugs>>

\* IOServiceAddMatchingNotification fills the iterator with the devices
\* present, and main calls RawDeviceAdded itself.
Register ==
    /\ pc = "main"
    /\ iter' \in SetToSeqs({d \in Devices : attached[d] = "raw"})
    /\ registration' = "made"
    /\ EnterRawDeviceAdded
    /\ UNCHANGED <<bus, armed, message, plugs>>

\* It fails, and nobody looks at kr: RawDeviceAdded finds nothing to iterate over,
\* nothing arms a notification, and main goes on to its run loop.
RegisterFails ==
    /\ pc = "main"
    /\ registration' = "failed"
    /\ pc' = "loop"
    /\ UNCHANGED <<bus, notification, locals, plugs>>

\* The run loop delivers the message of gNotifyPort.
RunLoop ==
    /\ pc = "loop" /\ message
    /\ message' = FALSE
    /\ EnterRawDeviceAdded
    /\ UNCHANGED <<registration, bus, iter, armed, plugs>>

\* SIGINT: IONotificationPortDestroy and _exit(0), wherever the thread is.
SignalHandler ==
    /\ pc \notin Stopped
    /\ pc' = "exited"
    /\ UNCHANGED <<registration, bus, notification, locals, plugs>>

-----------------------------------------------------------------------------
(* RawDeviceAdded, one action per call it makes.                           *)

At(p) == pc = p /\ UNCHANGED <<registration, notification, cur, plugs>>

\* The interface of the device is still on the bus as the raw device.
Answers == attached[dev] = "raw"

\* (*dev)->Release(dev), then continue.
ReleaseAndContinue ==
    /\ pc' = "next"
    /\ refs' = refs - 1

\* IOIteratorNext returns a device ...
TakeDevice ==
    /\ pc = "next" /\ iter # <<>>
    /\ cur' = Head(iter) /\ iter' = Tail(iter)
    /\ pc' = "create"
    /\ UNCHANGED <<registration, bus, armed, message, plugs, plugIn, destroyed, dev,
                   refs, open, equal, unread>>

\* ... or 0, which arms the notification; RawDeviceAdded returns to main,
\* which registers the three other notifications and enters the run loop, or
\* to the run loop. Its locals are gone.
IteratorEmpty ==
    /\ pc = "next" /\ iter = <<>>
    /\ armed' = TRUE
    /\ pc' = "loop"
    /\ cur' = None /\ plugIn' = None /\ destroyed' = FALSE
    /\ dev' = None /\ refs' = 0 /\ open' = FALSE
    /\ equal' = {} /\ unread' = {}
    /\ UNCHANGED <<registration, bus, iter, message, plugs>>

\* IOCreatePlugInInterfaceForService makes a plug-in.
CreatePlugIn ==
    /\ At("create")
    /\ plugIn' = cur /\ destroyed' = FALSE
    /\ pc' = "query"
    /\ UNCHANGED <<bus, dev, refs, open, equal, unread>>

\* It fails, with NULL in plugInInterface or with the old pointer left there;
\* kr is overwritten by the result of IOObjectRelease, a success, so only the
\* pointer is tested.
CreatePlugInFails ==
    /\ At("create")
    /\ plugIn' \in {None, plugIn}
    /\ pc' = IF plugIn' = None THEN "next" ELSE "query"
    /\ UNCHANGED <<bus, destroyed, dev, refs, open, equal, unread>>

\* QueryInterface gives a device interface; the plug-in is destroyed.
QueryInterface ==
    /\ At("query")
    /\ dev' = plugIn /\ refs' = 1 /\ open' = FALSE
    /\ destroyed' = TRUE
    /\ pc' = "identify"
    /\ UNCHANGED <<bus, plugIn, equal, unread>>

QueryInterfaceFails ==
    /\ At("query")
    /\ destroyed' = TRUE
    /\ pc' = "next"
    /\ UNCHANGED <<bus, plugIn, dev, refs, open, equal, unread>>

\* QueryInterface and IODestroyPlugInInterface through a destroyed plug-in.
QueryDestroyed ==
    /\ At("query") /\ destroyed
    /\ pc' = "crashed"
    /\ UNCHANGED <<bus, plugIn, destroyed, dev, refs, open, equal, unread>>

\* Mutant: the release number is not compared.
IdentifyByIds ==
    /\ At("identify")
    /\ unread' \in SUBSET Fields
    /\ equal' = (MatchesOurs[dev] \ unread') \cup (equal \cap unread')
    /\ \/ {"vendor", "product"} \subseteq equal' /\ pc' = "open"
          /\ UNCHANGED refs
       \/ ~({"vendor", "product"} \subseteq equal') /\ ReleaseAndContinue
    /\ UNCHANGED <<bus, plugIn, destroyed, dev, open>>

\* GetDeviceVendor, GetDeviceProduct and GetDeviceReleaseNumber, their results
\* unchecked: a field that is not read keeps the value of the device before.
\* A device that is not ours is released.
Identify ==
    /\ At("identify")
    /\ unread' \in SUBSET Fields
    /\ equal' = (MatchesOurs[dev] \ unread') \cup (equal \cap unread')
    /\ \/ equal' = Fields /\ pc' = "open" /\ UNCHANGED refs
       \/ equal' # Fields /\ ReleaseAndContinue
    /\ UNCHANGED <<bus, plugIn, destroyed, dev, open>>

USBDeviceOpen ==
    /\ At("open") /\ Answers
    /\ open' = TRUE
    /\ pc' = "configure"
    /\ UNCHANGED <<bus, plugIn, destroyed, dev, refs, equal, unread>>

\* Mutant: RawDeviceAdded returns when a device cannot be opened.
OpenFailsReturns ==
    /\ At("open")
    /\ pc' = "loop" /\ refs' = refs - 1
    /\ UNCHANGED <<bus, plugIn, destroyed, dev, open, equal, unread>>

OpenFails ==
    /\ At("open")
    /\ ReleaseAndContinue
    /\ UNCHANGED <<bus, plugIn, destroyed, dev, open, equal, unread>>

ConfigureAnchorDevice ==
    /\ At("configure") /\ Answers
    /\ pc' = "reset"
    /\ UNCHANGED <<bus, plugIn, destroyed, dev, refs, open, equal, unread>>

\* Mutant: the device that could not be configured stays open.
ConfigureFailsOpen ==
    /\ At("configure")
    /\ ReleaseAndContinue
    /\ UNCHANGED <<bus, plugIn, destroyed, dev, open, equal, unread>>

\* No configuration, no descriptor, or SetConfiguration fails.
ConfigureFails ==
    /\ At("configure")
    /\ open' = FALSE
    /\ ReleaseAndContinue
    /\ UNCHANGED <<bus, plugIn, destroyed, dev, equal, unread>>

\* DownloadToAnchorDevice: AnchorWrite asserts reset ...
AssertReset ==
    /\ At("reset") /\ Answers
    /\ inReset' = [inReset EXCEPT ![dev] = TRUE]
    /\ image' = [image EXCEPT ![dev] = 0]
    /\ pc' = "download"
    /\ UNCHANGED <<attached, plugIn, destroyed, dev, refs, open, equal, unread>>

\* ... writes the records of type 0 ...
WriteRecord ==
    /\ At("download") /\ Answers
    /\ image[dev] < NRecords
    /\ image' = [image EXCEPT ![dev] = @ + 1]
    /\ pc' = "download"
    /\ UNCHANGED <<attached, inReset, plugIn, destroyed, dev, refs, open, equal,
                   unread>>

\* Mutant: a record that is not written is not noticed.
DeassertResetUnchecked ==
    /\ At("download") /\ Answers
    /\ inReset' = [inReset EXCEPT ![dev] = FALSE]
    /\ attached' = [attached EXCEPT ![dev] = "bulk"]
    /\ pc' = "close"
    /\ UNCHANGED <<image, plugIn, destroyed, dev, refs, open, equal, unread>>

\* ... and, when the last is written, de-asserts reset: the firmware runs and
\* the device comes back on the bus under its BulkTest product ID.
DeassertReset ==
    /\ At("download") /\ Answers
    /\ image[dev] = NRecords
    /\ inReset' = [inReset EXCEPT ![dev] = FALSE]
    /\ attached' = [attached EXCEPT ![dev] = "bulk"]
    /\ pc' = "close"
    /\ UNCHANGED <<image, plugIn, destroyed, dev, refs, open, equal, unread>>

\* The first two kinds of write fail: DownloadToAnchorDevice closes and
\* releases the interface, and RawDeviceAdded, told of the error, closes and
\* releases it again.
WriteFails ==
    /\ \/ At("reset")
       \/ At("download") /\ image[dev] < NRecords
    /\ open' = FALSE
    /\ refs' = refs - 2
    /\ pc' \in {"next", "crashed"}
    /\ UNCHANGED <<bus, plugIn, destroyed, dev, equal, unread>>

\* The last write fails: only RawDeviceAdded closes and releases.
DeassertFails ==
    /\ At("download")
    /\ image[dev] = NRecords
    /\ open' = FALSE
    /\ ReleaseAndContinue
    /\ UNCHANGED <<bus, plugIn, destroyed, dev, equal, unread>>

\* USBDeviceClose and Release after a complete download.
Close ==
    /\ At("close")
    /\ open' = FALSE
    /\ ReleaseAndContinue
    /\ UNCHANGED <<bus, plugIn, destroyed, dev, equal, unread>>

-----------------------------------------------------------------------------
(* The bus.                                                                *)

\* A device is plugged in, as a raw device with no firmware. Once registered,
\* the iterator gets it; an armed notification sends one message.
Plug(d) ==
    /\ attached[d] = "absent" /\ plugs < MaxPlugs /\ pc \notin Stopped
    /\ plugs' = plugs + 1
    /\ attached' = [attached EXCEPT ![d] = "raw"]
    /\ inReset' = [inReset EXCEPT ![d] = FALSE]
    /\ image' = [image EXCEPT ![d] = 0]
    /\ iter' = IF registration = "made" THEN Append(iter, d) ELSE iter
    /\ message' = (message \/ armed)
    /\ armed' = FALSE
    /\ UNCHANGED <<pc, registration, locals>>

Unplug(d) ==
    /\ attached[d] # "absent" /\ pc \notin Stopped
    /\ attached' = [attached EXCEPT ![d] = "absent"]
    /\ UNCHANGED <<pc, registration, inReset, image, notification, locals, plugs>>

-----------------------------------------------------------------------------
Program ==
    \/ Register \/ RegisterFails \/ RunLoop
    \/ TakeDevice \/ IteratorEmpty
    \/ CreatePlugIn \/ CreatePlugInFails
    \/ QueryInterface \/ QueryInterfaceFails \/ QueryDestroyed
    \/ Identify
    \/ USBDeviceOpen \/ OpenFails
    \/ ConfigureAnchorDevice \/ ConfigureFails
    \/ AssertReset \/ WriteRecord \/ DeassertReset
    \/ WriteFails \/ DeassertFails
    \/ Close

Next ==
    \/ Program
    \/ SignalHandler
    \/ \E d \in Devices : Plug(d) \/ Unplug(d)

Spec == Init /\ [][Next]_vars

\* The thread keeps running, and the run loop delivers what waits for it.
FairSpec == Spec /\ WF_vars(Program)

-----------------------------------------------------------------------------
(* Properties.                                                             *)

\* The variables keep their types; in particular a download never counts
\* beyond the records of bulktest[].
TypeOK ==
    /\ pc \in {"main", "loop", "next", "create", "query", "identify", "open",
               "configure", "reset", "download", "close"} \cup Stopped
    /\ registration \in {"none", "made", "failed"}
    /\ attached \in [Devices -> {"absent", "raw", "bulk"}]
    /\ inReset \in [Devices -> BOOLEAN]
    /\ image \in [Devices -> 0..NRecords]
    /\ iter \in Seq(Devices)
    /\ armed \in BOOLEAN /\ message \in BOOLEAN
    /\ {cur, plugIn, dev} \subseteq Devices \cup {None}
    /\ destroyed \in BOOLEAN /\ open \in BOOLEAN
    /\ refs \in -1..1
    /\ equal \subseteq Fields /\ unread \subseteq Fields
    /\ plugs \in 0..MaxPlugs

\* The steps out of here to the next device are failed resets or record writes.
WriteFailed == pc = "reset" \/ (pc = "download" /\ image[dev] < NRecords)

\* Whatever call fails, RawDeviceAdded goes on to the next device with the
\* interface of this one closed and given back exactly once; the one exception
\* is a failed reset or record write of DownloadToAnchorDevice, after which it
\* has been given back twice (usb-notifier.c:140-141 and 485-486).
InterfaceGivenBack ==
    [][pc' = "next" /\ pc \in {"identify", "open", "configure", "reset",
                               "download", "close"}
        => /\ ~open'
           /\ refs' = (IF WriteFailed THEN -1 ELSE 0)]_vars

\* A device is written to only if each field in which it differs from ours
\* could not be read: a stale field of the device before is the only way past
\* the comparison of line 455.
OnlyOursWritten ==
    [][\A d \in Devices : inReset'[d] /\ ~inReset[d]
        => Fields \ MatchesOurs[d] \subseteq unread]_vars

\* A device that comes back as the BulkTest product runs the whole firmware,
\* however many downloads to it were cut short before.
WholeFirmware ==
    \A d \in Devices : attached[d] = "bulk" => image[d] = NRecords /\ ~inReset[d]

\* While the program waits in the run loop, either the iterator is empty and the
\* notification armed for the next arrival, or what it holds is announced by a
\* message: every return of RawDeviceAdded, whatever failed in it, leaves the
\* iterator drained. The exception is a registration that failed: then the program
\* waits for ever for devices nobody will tell it of (usb-notifier.c:567).
ArrivalAnnounced ==
    pc = "loop" =>
        \/ IF iter = <<>> THEN armed ELSE message
        \/ registration = "failed"

\* A device in the iterator is taken out of it, unless the program ends: the
\* notification is armed again after every walk, so an arrival during a walk,
\* between two walks or before a registration that succeeds is not forgotten. (A
\* registration that fails leaves the iterator empty for good.)
ArrivalIsTaken ==
    \A d \in Devices :
        d \in Range(iter) ~> (d \notin Range(iter) \/ pc \in Stopped)

=============================================================================
