------------------------------ MODULE BulkTest ------------------------------
(***************************************************************************)
(* usb-notifier's test of a device that runs the downloaded firmware:      *)
(* FindInterfaces opens its first interface, writes a message to one pipe  *)
(* and reads it back, complemented by the firmware, from another.          *)
(*                                                                         *)
(* The program is built in one of two ways. The synchronous one waits for  *)
(* both transfers. The asynchronous one (USE_ASYNC_IO) starts the write    *)
(* and returns to the run loop, which calls WriteCompletion and then       *)
(* ReadCompletion; meanwhile it may call for the next device, and all      *)
(* devices share the one gBuffer.                                          *)
(***************************************************************************)
EXTENDS Naturals, UsbDevices

\* kTestMessage, the bytes of an empty buffer, and their complements.
Data == {"test", "~test", "zeros", "~zeros"}

ASSUME NoneAssumption == None \notin Data

VARIABLES
    build,      \* "sync" or "async"
    stage,      \* where FindInterfaces is, or "loop"
    current,    \* the device it was called for
    met,        \* devices it was called for
    held,       \* [Devices -> references the program owns on *intf]
    opened,     \* [Devices -> *intf is open]
    io,         \* [Devices -> where the asynchronous transfers are]
    memory,     \* [Devices -> what the device received]
    gBuffer,    \* what the buffer holds
    shown,      \* [Devices -> the text printed in the end, or None]
    shared      \* history: devices whose transfers overlapped another's, or the
                \* failed start of another's

interface == <<held, opened>>
testVars == <<build, stage, current, met, interface, io, memory, gBuffer, shown, shared>>

\* gBuffer[i] = ~gBuffer[i], for every byte.
Complement(data) ==
    CASE data = "test" -> "~test" [] data = "~test" -> "test"
      [] data = "zeros" -> "~zeros" [] data = "~zeros" -> "zeros"

TestInit ==
    /\ build \in {"sync", "async"}
    /\ stage = "loop" /\ current = None /\ met = {}
    /\ held = [d \in Devices |-> 0] /\ opened = [d \in Devices |-> FALSE]
    /\ io = [d \in Devices |-> "none"]
    /\ memory = [d \in Devices |-> "zeros"] /\ gBuffer = "zeros"
    /\ shown = [d \in Devices |-> None]
    /\ shared = {}

-----------------------------------------------------------------------------
(* FindInterfaces, which leaves its loop in the first iteration.           *)

\* BulkTestDeviceAdded, called from the run loop, has opened the device.
FindInterfaces(d) ==
    /\ stage = "loop" /\ d \notin met
    /\ current' = d /\ met' = met \cup {d}
    /\ stage' = "create"
    /\ UNCHANGED <<build, interface, io, memory, gBuffer, shown, shared>>

\* The function goes on, or it returns.
Continue(next) ==
    /\ stage' = next
    /\ current' = IF next \in {"loop", "crashed"} THEN None ELSE current
    /\ UNCHANGED <<build, met>>

\* The iterator has no interface, or no plug-in or interface object is made.
\* Where CreateInterfaceIterator has failed, iterator is not initialized: the
\* program may crash.
CreateFails ==
    /\ stage = "create"
    /\ Continue("loop") \/ Continue("crashed")
    /\ UNCHANGED <<interface, io, memory, gBuffer, shown, shared>>

\* The iterator, the plug-in, and QueryInterface.
CreateInterface ==
    /\ stage = "create"
    /\ held' = [held EXCEPT ![current] = 1]
    /\ Continue("open")
    /\ UNCHANGED <<opened, io, memory, gBuffer, shown, shared>>

USBInterfaceOpen ==
    /\ stage = "open"
    /\ opened' = [opened EXCEPT ![current] = TRUE]
    /\ Continue("write")
    /\ UNCHANGED <<held, io, memory, gBuffer, shown, shared>>

CloseAndRelease(d) ==
    /\ opened' = [opened EXCEPT ![d] = FALSE]
    /\ held' = [held EXCEPT ![d] = @ - 1]

\* USBInterfaceOpen fails; or GetNumEndpoints or CreateInterfaceAsyncEventSource
\* does, or one of the synchronous transfers.
CallFails ==
    /\ stage \in {"open", "write", "read"}
    /\ CloseAndRelease(current)
    /\ Continue("loop")
    /\ UNCHANGED <<io, memory, gBuffer, shown, shared>>

\* Synchronous: WritePipe of kTestMessage itself ...
WritePipe ==
    /\ stage = "write" /\ build = "sync"
    /\ memory' = [memory EXCEPT ![current] = "test"]
    /\ Continue("read")
    /\ UNCHANGED <<interface, io, gBuffer, shown, shared>>

\* ... and ReadPipe into the buffer, which is complemented and printed.
ReadPipe ==
    /\ stage = "read"
    /\ gBuffer' = Complement(Complement(memory[current]))
    /\ shown' = [shown EXCEPT ![current] = gBuffer']
    /\ Continue("loop")
    /\ UNCHANGED <<interface, io, memory, shared>>

Busy(d) == io[d] # "none"
Overlapped == {d \in Devices : Busy(d)}

\* Asynchronous: the message is copied to the buffer and the write started.
WritePipeAsync ==
    /\ stage = "write" /\ build = "async"
    /\ gBuffer' = "test"
    /\ io' = [io EXCEPT ![current] = "writing"]
    /\ shared' = IF Overlapped # {} THEN shared \cup {current} \cup Overlapped ELSE shared
    /\ Continue("loop")
    /\ UNCHANGED <<interface, memory, shown>>

\* The write is not started, but what was in the buffer is gone.
WriteAsyncFails ==
    /\ stage = "write" /\ build = "async"
    /\ gBuffer' = "test"
    /\ shared' = shared \cup Overlapped
    /\ CloseAndRelease(current)
    /\ Continue("loop")
    /\ UNCHANGED <<io, memory, shown>>

-----------------------------------------------------------------------------
(* The asynchronous transfers: the controller moves the data at any time,  *)
(* the run loop calls the completion routine when it is in control.        *)

TransferOut(d) ==
    /\ io[d] = "writing"
    /\ memory' = [memory EXCEPT ![d] = gBuffer]
    /\ io' = [io EXCEPT ![d] = "written"]
    /\ UNCHANGED <<build, stage, current, met, interface, gBuffer, shown, shared>>

TransferIn(d) ==
    /\ io[d] = "reading"
    /\ gBuffer' = Complement(memory[d])
    /\ io' = [io EXCEPT ![d] = "read"]
    /\ UNCHANGED <<build, stage, current, met, interface, memory, shown, shared>>

\* The device stalls or is unplugged.
TransferFails(d) ==
    /\ io[d] \in {"writing", "reading"}
    /\ io' = [io EXCEPT ![d] = "failed"]
    /\ UNCHANGED <<build, stage, current, met, interface, memory, gBuffer, shown, shared>>

\* Mutant: the message is written once more before it is read back.
WriteCompletionAgain(d) ==
    /\ stage = "loop" /\ io[d] = "written"
    /\ io' = [io EXCEPT ![d] = "rewriting"]
    /\ UNCHANGED <<build, stage, current, met, interface, memory, gBuffer, shown, shared>>

\* WriteCompletion after a success: the read is started, into the buffer.
WriteCompletion(d) ==
    /\ stage = "loop" /\ io[d] = "written"
    /\ io' = [io EXCEPT ![d] = "reading"]
    /\ UNCHANGED <<build, stage, current, met, interface, memory, gBuffer, shown, shared>>

\* Mutant: an error is reported, and the read started all the same.
CompletionFailsOn(d) ==
    /\ stage = "loop" /\ io[d] \in {"written", "failed"}
    /\ CloseAndRelease(d)
    /\ io' = [io EXCEPT ![d] = "reading"]
    /\ UNCHANGED <<build, stage, current, met, memory, gBuffer, shown, shared>>

\* Either routine is told of an error, or the read cannot be started.
CompletionFails(d) ==
    /\ stage = "loop" /\ io[d] \in {"written", "failed"}
    /\ CloseAndRelease(d)
    /\ io' = [io EXCEPT ![d] = "none"]
    /\ UNCHANGED <<build, stage, current, met, memory, gBuffer, shown, shared>>

\* Mutant: what was read is printed as it is.
ReadCompletionAsItIs(d) ==
    /\ stage = "loop" /\ io[d] = "read"
    /\ shown' = [shown EXCEPT ![d] = gBuffer]
    /\ io' = [io EXCEPT ![d] = "none"]
    /\ UNCHANGED <<build, stage, current, met, interface, memory, gBuffer, shared>>

\* ReadCompletion complements the buffer and prints it. Nobody closes the
\* interface.
ReadCompletion(d) ==
    /\ stage = "loop" /\ io[d] = "read"
    /\ gBuffer' = Complement(gBuffer)
    /\ shown' = [shown EXCEPT ![d] = gBuffer']
    /\ io' = [io EXCEPT ![d] = "none"]
    /\ UNCHANGED <<build, stage, current, met, interface, memory, shared>>

-----------------------------------------------------------------------------
Controller == \E d \in Devices : TransferOut(d) \/ TransferIn(d) \/ TransferFails(d)

TestRunLoop ==
    \E d \in Devices :
        FindInterfaces(d) \/ WriteCompletion(d) \/ CompletionFails(d) \/ ReadCompletion(d)

Call ==
    \/ CreateInterface \/ CreateFails \/ USBInterfaceOpen \/ CallFails
    \/ WritePipe \/ ReadPipe \/ WritePipeAsync \/ WriteAsyncFails

TestNext == stage # "crashed" /\ (Controller \/ TestRunLoop \/ Call)

TestSpec == TestInit /\ [][TestNext]_testVars

-----------------------------------------------------------------------------
(* Properties.                                                             *)

\* The variables keep their types; FindInterfaces has a device exactly while it
\* runs, and only the asynchronous build has transfers under way in the loop.
TestTypeOK ==
    /\ stage \in {"loop", "create", "open", "write", "read", "crashed"}
    /\ current = None <=> stage \in {"loop", "crashed"}
    /\ current \in met \cup {None} /\ met \subseteq Devices
    /\ held \in [Devices -> Nat] /\ opened \in [Devices -> BOOLEAN]
    /\ io \in [Devices -> {"none", "writing", "written", "reading", "read", "failed"}]
    /\ build = "sync" => \A d \in Devices : ~Busy(d)
    /\ memory \in [Devices -> Data] /\ gBuffer \in Data
    /\ shown \in [Devices -> Data \cup {None}]
    /\ shared \subseteq met

\* An error in any of the three routines gives the interface back exactly once
\* and ends the chain of callbacks: no transfer and no completion ever uses an
\* interface that was released, and one is kept only for a test that is under
\* way or has printed its result.
InterfaceOwned ==
    \A d \in Devices :
        /\ held[d] \in {0, 1}
        /\ opened[d] => held[d] = 1
        /\ Busy(d) => opened[d]
        /\ held[d] = 1 => Busy(d) \/ d = current \/ shown[d] # None

\* "complement the buffer contents to see if we get the original data": the
\* text printed is the message that was sent, in either build, except for
\* devices whose transfers overlap another's, or another's start even if that
\* fails: they have but one buffer.
OriginalDataUnlessShared ==
    \A d \in Devices \ shared : shown[d] \in {None, "test"}

=============================================================================
