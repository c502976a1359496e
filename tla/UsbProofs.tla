----------------------------- MODULE UsbProofs -----------------------------
(***************************************************************************)
(* Proofs about usb-notifier.c: RawDeviceAdded for any devices, plugged in *)
(* and out at any time, and the test of any number of devices that run the *)
(* firmware.                                                               *)
(***************************************************************************)
EXTENDS UsbNotifier, BulkTest, FiniteSetTheorems, TLAPS

(* RawDeviceAdded.                                                         *)

\* From QueryInterface on the program has an interface.
WithInterface == {"identify", "open", "configure", "reset", "download", "close"}

\* What RawDeviceAdded holds is told by the call it is at; past the comparison
\* all three fields equal ours, the unread ones left from before.
Stage ==
    /\ pc \notin {"main", "exited"} => registration # "none"
    /\ pc \in {"create", "query"} => cur \in Devices
    /\ pc = "query" => plugIn \in Devices
    /\ pc \in WithInterface => dev \in Devices /\ refs = 1
    /\ pc \notin WithInterface \cup {"exited"} => refs \in {-1, 0}
    /\ open => pc \in {"configure", "reset", "download", "close", "exited"}
    /\ pc \in WithInterface \ {"identify"} => Fields \ MatchesOurs[dev] \subseteq unread

IInv == TypeOK /\ Stage /\ WholeFirmware

LEMMA Matches == ASSUME NEW d \in Devices PROVE MatchesOurs[d] \subseteq Fields
BY UsbAssumption

LEMMA Initially == Init => IInv
<1>. SUFFICES ASSUME Init PROVE IInv
  OBVIOUS
<1>1. 0 \in 0 .. NRecords /\ 0 \in 0 .. MaxPlugs
  BY UsbAssumption
<1>2. inReset \in [Devices -> BOOLEAN] /\ {armed, message, destroyed, open} \subseteq BOOLEAN
  BY Zenon DEF Init
<1>3. iter \in Seq(Devices)
  BY DEF Init
<1>4. TypeOK
  BY <1>1, <1>2, <1>3 DEF Init, TypeOK, Fields, Stopped
<1>5. Stage /\ WholeFirmware
  BY DEF Init, Stage, WithInterface, WholeFirmware
<1>. QED
  BY <1>4, <1>5 DEF IInv

\* The iterator's order is any order of the devices present.
LEMMA IteratorFilled ==
  ASSUME NEW S \in SUBSET Devices, NEW order \in SetToSeqs(S)
  PROVE  order \in Seq(Devices)
<1>1. IsFiniteSet(S)
  BY UsbAssumption, FS_Subset
<1>2. Cardinality(S) \in Nat
  BY <1>1, FS_CardinalityType
<1>3. order \in [1 .. Cardinality(S) -> S]
  BY DEF SetToSeqs
<1>. QED
  BY <1>2, <1>3

\* A flag is set, reset, or stays as it is.
LEMMA FlagsBoolean ==
  ASSUME {open, destroyed, armed, message} \subseteq BOOLEAN, [Next]_vars
  PROVE  {open', destroyed', armed', message'} \subseteq BOOLEAN
<1>. USE DEF Next, Program, Register, RegisterFails, RunLoop, EnterRawDeviceAdded, SignalHandler, TakeDevice,
             IteratorEmpty, CreatePlugIn, CreatePlugInFails, QueryInterface, QueryInterfaceFails,
             QueryDestroyed, Identify, USBDeviceOpen, OpenFails, ConfigureAnchorDevice,
             ConfigureFails, AssertReset, WriteRecord, DeassertReset, WriteFails, DeassertFails,
             Close, At, notification, Plug, Unplug, locals, vars
<1>1. open' \in {open, TRUE, FALSE}
  BY Zenon
<1>2. destroyed' \in {destroyed, TRUE, FALSE}
  BY Zenon
<1>3. armed' \in {armed, TRUE, FALSE}
  BY Zenon
<1>4. message' = message \/ message' \in BOOLEAN
  BY Zenon
<1>. HIDE DEF Next
<1>. QED
  BY <1>1, <1>2, <1>3, <1>4, Zenon

-----------------------------------------------------------------------------
LEMMA Registering == ASSUME IInv, {open', destroyed', armed', message'} \subseteq BOOLEAN, Register PROVE IInv'
<1>. DEFINE present == {d \in Devices : attached[d] = "raw"}
<1>1. present \subseteq Devices /\ iter' \in SetToSeqs(present)
  BY DEF Register
<1>2. iter' \in Seq(Devices)
  <2>. HIDE DEF present
  <2>. QED
    BY <1>1, IteratorFilled
<1>3. TypeOK'
  BY <1>2 DEF Register, EnterRawDeviceAdded, bus, IInv, TypeOK
<1>4. Stage' /\ WholeFirmware'
  BY DEF Register, EnterRawDeviceAdded, bus, IInv, Stage, WholeFirmware, WithInterface
<1>. QED
  BY <1>3, <1>4 DEF IInv

LEMMA Looping ==
  ASSUME IInv, {open', destroyed', armed', message'} \subseteq BOOLEAN,
         RegisterFails \/ RunLoop \/ SignalHandler
  PROVE  IInv'
<1>1. CASE RunLoop
  <2>1. TypeOK' /\ WholeFirmware'
    BY <1>1 DEF RunLoop, EnterRawDeviceAdded, bus, IInv, TypeOK, WholeFirmware
  <2>2. Stage'
    BY <1>1 DEF RunLoop, EnterRawDeviceAdded, IInv, Stage, WithInterface
  <2>. QED
    BY <2>1, <2>2 DEF IInv
<1>2. CASE SignalHandler
  BY <1>2 DEF SignalHandler, bus, notification, locals, IInv, TypeOK, Stage, WholeFirmware,
              WithInterface, Stopped
<1>3. CASE RegisterFails
  BY <1>3 DEF RegisterFails, bus, notification, locals, IInv, TypeOK, Stage, WholeFirmware,
              WithInterface
<1>. QED
  BY <1>1, <1>2, <1>3

LEMMA Iterating == ASSUME IInv, {open', destroyed', armed', message'} \subseteq BOOLEAN, TakeDevice \/ IteratorEmpty PROVE IInv'
<1>1. CASE TakeDevice
  <2>1. Head(iter) \in Devices /\ Tail(iter) \in Seq(Devices)
    BY <1>1 DEF TakeDevice, IInv, TypeOK
  <2>. QED
    BY <1>1, <2>1 DEF TakeDevice, bus, IInv, TypeOK, Stage, WholeFirmware, WithInterface
<1>2. CASE IteratorEmpty
  BY <1>2 DEF IteratorEmpty, bus, IInv, TypeOK, Stage, WholeFirmware, WithInterface
<1>. QED
  BY <1>1, <1>2

LEMMA MakingInterface ==
  ASSUME IInv, {open', destroyed', armed', message'} \subseteq BOOLEAN,
         \/ CreatePlugIn \/ CreatePlugInFails
         \/ QueryInterface \/ QueryInterfaceFails \/ QueryDestroyed
  PROVE  IInv'
<1>. USE DevicesAssumption
     DEF At, bus, notification, IInv, TypeOK, Stage, WholeFirmware, WithInterface, Stopped
<1>1. CASE CreatePlugIn
  BY <1>1 DEF CreatePlugIn
<1>2. CASE CreatePlugInFails
  BY <1>2 DEF CreatePlugInFails
<1>3. CASE QueryInterface
  BY <1>3 DEF QueryInterface
<1>4. CASE QueryInterfaceFails
  BY <1>4 DEF QueryInterfaceFails
<1>5. CASE QueryDestroyed
  BY <1>5 DEF QueryDestroyed
<1>. QED
  BY <1>1, <1>2, <1>3, <1>4, <1>5

LEMMA Identifying == ASSUME IInv, {open', destroyed', armed', message'} \subseteq BOOLEAN, Identify PROVE IInv'
<1>1. /\ pc = "identify" /\ dev \in Devices /\ dev' = dev
      /\ unread' \subseteq Fields /\ equal' \subseteq Fields
  BY Matches DEF Identify, At, IInv, TypeOK, Stage, WithInterface
<1>2. equal' = Fields => Fields \ MatchesOurs[dev] \subseteq unread'
  BY DEF Identify
<1>3. TypeOK' /\ WholeFirmware'
  BY <1>1 DEF Identify, ReleaseAndContinue, At, bus, notification, IInv, TypeOK, Stage,
              WholeFirmware, WithInterface
<1>4. Stage'
  BY <1>1, <1>2 DEF Identify, ReleaseAndContinue, At, IInv, Stage, WithInterface
<1>. QED
  BY <1>3, <1>4 DEF IInv

LEMMA Opening ==
  ASSUME IInv, {open', destroyed', armed', message'} \subseteq BOOLEAN, USBDeviceOpen \/ OpenFails \/ ConfigureAnchorDevice \/ ConfigureFails \/ Close
  PROVE  IInv'
<1>. USE DEF At, ReleaseAndContinue, bus, notification, IInv, TypeOK, Stage, WholeFirmware,
             WithInterface
<1>1. CASE USBDeviceOpen
  BY <1>1 DEF USBDeviceOpen
<1>2. CASE OpenFails
  BY <1>2 DEF OpenFails
<1>3. CASE ConfigureAnchorDevice
  BY <1>3 DEF ConfigureAnchorDevice
<1>4. CASE ConfigureFails
  BY <1>4 DEF ConfigureFails
<1>5. CASE Close
  BY <1>5 DEF Close
<1>. QED
  BY <1>1, <1>2, <1>3, <1>4, <1>5

\* Only the last step of a download brings the firmware to life; the others
\* write to a device that still answers as the raw one.
LEMMA Downloading ==
  ASSUME IInv, {open', destroyed', armed', message'} \subseteq BOOLEAN, AssertReset \/ WriteRecord \/ DeassertReset \/ WriteFails \/ DeassertFails
  PROVE  IInv'
<1>. USE DEF At, Answers, ReleaseAndContinue, notification, IInv, TypeOK, Stage, WithInterface,
             Stopped
<1>1. CASE AssertReset
  <2>1. dev \in Devices /\ 0 \in 0 .. NRecords
    BY <1>1, UsbAssumption DEF AssertReset
  <2>2. TypeOK' /\ Stage'
    BY <1>1, <2>1 DEF AssertReset
  <2>3. WholeFirmware'
    BY <1>1, <2>1 DEF AssertReset, WholeFirmware
  <2>. QED
    BY <2>2, <2>3
<1>2. CASE WriteRecord
  <2>1. dev \in Devices /\ image[dev] + 1 \in 0 .. NRecords
    BY <1>2, UsbAssumption DEF WriteRecord
  <2>2. TypeOK' /\ Stage'
    BY <1>2, <2>1 DEF WriteRecord
  <2>3. WholeFirmware'
    BY <1>2, <2>1 DEF WriteRecord, WholeFirmware
  <2>. QED
    BY <2>2, <2>3
<1>3. CASE DeassertReset
  <2>1. dev \in Devices
    BY <1>3 DEF DeassertReset
  <2>2. TypeOK' /\ Stage'
    BY <1>3, <2>1 DEF DeassertReset
  <2>3. WholeFirmware'
    BY <1>3, <2>1 DEF DeassertReset, WholeFirmware
  <2>. QED
    BY <2>2, <2>3
<1>4. CASE WriteFails
  BY <1>4 DEF WriteFails, bus, WholeFirmware
<1>5. CASE DeassertFails
  BY <1>5 DEF DeassertFails, bus, WholeFirmware
<1>. QED
  BY <1>1, <1>2, <1>3, <1>4, <1>5

LEMMA Plugging == ASSUME IInv, {open', destroyed', armed', message'} \subseteq BOOLEAN, NEW d \in Devices, Plug(d) \/ Unplug(d) PROVE IInv'
<1>. USE DEF locals, IInv, Stage, WithInterface
<1>1. CASE Plug(d)
  <2>1. Append(iter, d) \in Seq(Devices) /\ 0 \in 0 .. NRecords /\ plugs' \in 0 .. MaxPlugs
    BY <1>1, UsbAssumption DEF Plug, TypeOK
  <2>2. TypeOK'
    BY <1>1, <2>1 DEF Plug, TypeOK
  <2>3. WholeFirmware'
    BY <1>1 DEF Plug, TypeOK, WholeFirmware
  <2>. QED
    BY <1>1, <2>2, <2>3 DEF Plug
<1>2. CASE Unplug(d)
  BY <1>2 DEF Unplug, notification, TypeOK, WholeFirmware
<1>. QED
  BY <1>1, <1>2

LEMMA Preserved == IInv /\ [Next]_vars => IInv'
<1>1. IInv /\ UNCHANGED vars => IInv'
  BY DEF vars, bus, notification, locals, IInv, TypeOK, Stage, WholeFirmware
<1>2. IInv /\ [Next]_vars => {open', destroyed', armed', message'} \subseteq BOOLEAN
  BY FlagsBoolean DEF IInv, TypeOK
<1>. QED
  BY <1>1, <1>2, Registering, Looping, Iterating, MakingInterface, Identifying, Opening,
     Downloading, Plugging
  DEF Next, Program

LEMMA Invariant == Spec => []IInv
BY Initially, Preserved, PTL DEF Spec

\* The steps that go on to the next device.
LEMMA GivesBack ==
  ASSUME IInv, [Next]_vars, pc' = "next", pc \in WithInterface
  PROVE  ~open' /\ refs' = IF WriteFailed THEN -1 ELSE 0
<1>. USE DEF IInv, Stage, WithInterface, WriteFailed, At, ReleaseAndContinue
<1>1. CASE Identify
  BY <1>1 DEF Identify
<1>2. CASE OpenFails \/ ConfigureFails \/ Close
  BY <1>2 DEF OpenFails, ConfigureFails, Close
<1>3. CASE WriteFails \/ DeassertFails
  BY <1>3, UsbAssumption DEF WriteFails, DeassertFails
<1>4. CASE \/ Register \/ RegisterFails \/ RunLoop \/ TakeDevice \/ IteratorEmpty
           \/ CreatePlugIn \/ CreatePlugInFails
           \/ QueryInterface \/ QueryInterfaceFails \/ QueryDestroyed
  BY <1>4 DEF Register, RegisterFails, RunLoop, TakeDevice, IteratorEmpty, CreatePlugIn, CreatePlugInFails,
              QueryInterface, QueryInterfaceFails, QueryDestroyed
<1>5. CASE USBDeviceOpen \/ ConfigureAnchorDevice \/ AssertReset \/ WriteRecord \/ DeassertReset
  BY <1>5 DEF USBDeviceOpen, ConfigureAnchorDevice, AssertReset, WriteRecord, DeassertReset
<1>6. CASE SignalHandler \/ (\E d \in Devices : Plug(d) \/ Unplug(d)) \/ UNCHANGED vars
  BY <1>6 DEF SignalHandler, Plug, Unplug, vars
<1>. QED
  BY <1>1, <1>2, <1>3, <1>4, <1>5, <1>6 DEF Next, Program

\* Only AssertReset puts a device into reset.
LEMMA WritesOurs ==
  ASSUME IInv, [Next]_vars, NEW d \in Devices, inReset'[d], ~inReset[d]
  PROVE  Fields \ MatchesOurs[d] \subseteq unread
<1>1. CASE AssertReset
  <2>1. dev \in Devices /\ d = dev
    BY <1>1 DEF AssertReset, At, IInv, TypeOK, Stage, WithInterface
  <2>. QED
    BY <1>1, <2>1 DEF AssertReset, At, IInv, Stage, WithInterface
<1>2. CASE DeassertReset
  BY <1>2 DEF DeassertReset, IInv, TypeOK
<1>3. ASSUME NEW e \in Devices, Plug(e) PROVE FALSE
  BY <1>3 DEF Plug, IInv, TypeOK
<1>4. inReset' # inReset
  OBVIOUS
<1>5. CASE UNCHANGED inReset
  BY <1>4, <1>5
<1>. QED
  BY <1>1, <1>2, <1>3, <1>5
  DEF Next, Program, Register, RegisterFails, locals, RunLoop, SignalHandler, TakeDevice, IteratorEmpty, CreatePlugIn,
      CreatePlugInFails, QueryInterface, QueryInterfaceFails, QueryDestroyed, Identify,
      USBDeviceOpen, OpenFails, ConfigureAnchorDevice, ConfigureFails, WriteRecord, WriteFails,
      DeassertFails, Close, Unplug, bus, vars

\* The notification is armed only in the run loop, and is disarmed by the
\* message it sends, which the walk of the iterator uses up.
Listening ==
    /\ pc \notin {"loop"} \cup Stopped => ~armed /\ ~message
    /\ armed => ~message
    /\ ArrivalAnnounced

\* A message is delivered and the iterator drained; nothing arms the
\* notification meanwhile.
LEMMA ListeningStep ==
  ASSUME IInv, Listening, {armed', message'} \subseteq BOOLEAN, [Next]_vars
  PROVE  Listening'
<1>. USE DEF Listening, ArrivalAnnounced, IInv, TypeOK, Stopped
<1>1. CASE Register \/ TakeDevice
  BY <1>1 DEF Register, TakeDevice, EnterRawDeviceAdded
<1>0. CASE RegisterFails
  BY <1>0 DEF RegisterFails, notification
<1>2. CASE RunLoop
  <2>1. ~armed /\ pc' = "next" /\ armed' = armed /\ message' = FALSE
    BY <1>2, Zenon DEF RunLoop, EnterRawDeviceAdded, Listening
  <2>. QED
    BY <2>1
<1>3. CASE IteratorEmpty
  <2>1. pc' = "loop" /\ iter' = <<>> /\ armed' = TRUE /\ message' = FALSE
    <3>1. ~message /\ message' = message
      BY <1>3 DEF IteratorEmpty
    <3>. QED
      BY <1>3, <3>1, Zenon DEF IteratorEmpty
  <2>. QED
    BY <2>1
<1>4. CASE \/ CreatePlugIn \/ CreatePlugInFails
           \/ QueryInterface \/ QueryInterfaceFails \/ QueryDestroyed
  BY <1>4 DEF CreatePlugIn, CreatePlugInFails, QueryInterface, QueryInterfaceFails,
              QueryDestroyed, At, notification
<1>5. CASE Identify \/ USBDeviceOpen \/ OpenFails \/ ConfigureAnchorDevice \/ ConfigureFails
  BY <1>5 DEF Identify, USBDeviceOpen, OpenFails, ConfigureAnchorDevice, ConfigureFails,
              ReleaseAndContinue, At, notification
<1>6. CASE AssertReset \/ WriteRecord \/ DeassertReset \/ WriteFails \/ DeassertFails \/ Close
  BY <1>6 DEF AssertReset, WriteRecord, DeassertReset, WriteFails, DeassertFails, Close,
              ReleaseAndContinue, At, notification
<1>7. ASSUME NEW d \in Devices, Plug(d) PROVE Listening'
  <2>1. pc' = pc /\ armed' = FALSE /\ message' = (message \/ armed)
    BY <1>7 DEF Plug
  <2>2. ~armed' /\ (armed \/ message <=> message')
    BY <2>1, Zenon
  <2>3. CASE pc = "loop" /\ registration = "failed"
    <3>1. pc' = "loop" /\ registration' = "failed"
      BY <1>7, <2>3 DEF Plug
    <3>. QED
      BY <2>1, <3>1
  <2>4. CASE pc = "loop" /\ registration # "failed"
    <3>1. armed \/ message
      BY <2>4
    <3>2. pc' = "loop" /\ ~armed' /\ message'
      BY <2>1, <2>2, <2>4, <3>1, Zenon
    <3>3. registration = "made"
      BY <2>4 DEF Stage
    <3>4. iter' # <<>>
      BY <1>7, <3>3 DEF Plug
    <3>. QED
      BY <3>2, <3>4
  <2>5. CASE pc # "loop"
    BY <2>1, <2>2, <2>5, Zenon
  <2>. QED
    BY <2>3, <2>4, <2>5
<1>8. CASE SignalHandler \/ (\E d \in Devices : Unplug(d)) \/ UNCHANGED vars
  BY <1>8 DEF SignalHandler, Unplug, notification, vars
<1>. QED
  BY <1>0, <1>1, <1>2, <1>3, <1>4, <1>5, <1>6, <1>7, <1>8 DEF Next, Program

\* The variables keep their types for any devices and any length of bulktest[]:
\* a download never writes past its end.
THEOREM TypeCorrect == Spec => []TypeOK
BY Invariant, PTL DEF IInv

\* A device comes back as the BulkTest product only with the whole firmware,
\* whatever downloads were cut short and whatever was unplugged meanwhile.
THEOREM WholeFirmwareHolds == Spec => []WholeFirmware
BY Invariant, PTL DEF IInv

\* However devices come and go and whatever fails in RawDeviceAdded: a program
\* that has registered and waits in the run loop will be told of what the iterator
\* holds, or of the next arrival.
THEOREM ArrivalAnnouncedHolds == Spec => []ArrivalAnnounced
<1>1. Init => Listening
  BY DEF Init, Listening, ArrivalAnnounced
<1>2. IInv /\ [Next]_vars => {armed', message'} \subseteq BOOLEAN
  BY FlagsBoolean DEF IInv, TypeOK
<1>3. IInv /\ Listening /\ [Next]_vars => Listening'
  BY <1>2, ListeningStep
<1>. QED
  BY Invariant, <1>1, <1>3, PTL DEF Spec, Listening

\* Whatever call fails, the interface is closed and given back once, and twice
\* only when a reset or a record could not be written.
THEOREM InterfaceGivenBackHolds == Spec => InterfaceGivenBack
<1>1. IInv /\ [Next]_vars
      => (pc' = "next" /\ pc \in {"identify", "open", "configure", "reset", "download", "close"}
          => ~open' /\ refs' = (IF WriteFailed THEN -1 ELSE 0))
  BY GivesBack DEF WithInterface
<1>. QED
  BY Invariant, <1>1, PTL DEF Spec, InterfaceGivenBack

\* A device is written to only if the fields that could be read are ours.
THEOREM OnlyOursWrittenHolds == Spec => OnlyOursWritten
<1>1. IInv /\ [Next]_vars
      => \A d \in Devices : inReset'[d] /\ ~inReset[d] => Fields \ MatchesOurs[d] \subseteq unread
  BY WritesOurs
<1>. QED
  BY Invariant, <1>1, PTL DEF Spec, OnlyOursWritten

-----------------------------------------------------------------------------
(* The test of a device: who owns an interface. CloseAndRelease counts     *)
(* down, so that the types of the variables and the ownership hold only    *)
(* together.                                                               *)

\* Where FindInterfaces is says what the program holds of its device, and
\* nothing is held of devices that have not appeared.
TestStage ==
    /\ \A d \in Devices \ met : held[d] = 0 /\ ~opened[d] /\ ~Busy(d)
    /\ stage \notin {"loop", "crashed"} => ~Busy(current)
    /\ stage = "create" => held[current] = 0 /\ ~opened[current]
    /\ stage \in {"open", "write", "read"} => held[current] = 1
    /\ stage \in {"write", "read"} => opened[current]
    /\ stage = "read" => build = "sync"

TestInv == TestTypeOK /\ InterfaceOwned /\ TestStage

LEMMA ComplementIsData == \A data \in Data : Complement(data) \in Data
BY DEF Data, Complement

LEMMA InitTestInv == TestInit => TestInv
BY NoneAssumption, DevicesAssumption DEF TestInit, TestInv, TestTypeOK, InterfaceOwned, TestStage, Data, Busy

\* The types: an interface that is given back had a reference to give.
LEMMA TestTypeStep == TestInv /\ [TestNext]_testVars => TestTypeOK'
<1> SUFFICES ASSUME TestInv, [TestNext]_testVars PROVE TestTypeOK'
  OBVIOUS
<1> USE NoneAssumption, DevicesAssumption DEF TestInv, TestTypeOK, InterfaceOwned, TestStage, interface, Continue,
                           CloseAndRelease, Busy
<1>1. ASSUME NEW d \in Devices, FindInterfaces(d) PROVE TestTypeOK'
  BY <1>1 DEF FindInterfaces
<1>2. CASE CreateFails
  BY <1>2 DEF CreateFails
<1>3. CASE CreateInterface
  BY <1>3 DEF CreateInterface
<1>4. CASE USBInterfaceOpen
  BY <1>4 DEF USBInterfaceOpen
<1>5. CASE CallFails
  BY <1>5 DEF CallFails
<1>6. CASE WritePipe
  BY <1>6 DEF WritePipe, Data
<1>7. CASE ReadPipe
  BY <1>7, ComplementIsData DEF ReadPipe
<1>8. CASE WritePipeAsync
  BY <1>8 DEF WritePipeAsync, Overlapped, Data
<1>9. ASSUME NEW d \in Devices, TransferOut(d) PROVE TestTypeOK'
  BY <1>9 DEF TransferOut
<1>10. ASSUME NEW d \in Devices, TransferIn(d) PROVE TestTypeOK'
  BY <1>10, ComplementIsData DEF TransferIn
<1>11. ASSUME NEW d \in Devices, TransferFails(d) PROVE TestTypeOK'
  BY <1>11 DEF TransferFails
<1>12. ASSUME NEW d \in Devices, WriteCompletion(d) PROVE TestTypeOK'
  BY <1>12 DEF WriteCompletion
<1>13. ASSUME NEW d \in Devices, CompletionFails(d) PROVE TestTypeOK'
  BY <1>13 DEF CompletionFails
<1>14. ASSUME NEW d \in Devices, ReadCompletion(d) PROVE TestTypeOK'
  BY <1>14, ComplementIsData DEF ReadCompletion
<1>15. CASE WriteAsyncFails
  BY <1>15 DEF WriteAsyncFails, Overlapped, Data
<1>16. CASE UNCHANGED testVars
  BY <1>16 DEF testVars
<1>. QED
  BY <1>1, <1>2, <1>3, <1>4, <1>5, <1>6, <1>7, <1>8, <1>9, <1>10, <1>11, <1>12,
     <1>13, <1>14, <1>15, <1>16
  DEF TestNext, Controller, TestRunLoop, Call

\* The ownership, with the stage FindInterfaces is in.
LEMMA OwnedStep == TestInv /\ [TestNext]_testVars => InterfaceOwned' /\ TestStage'
<1> SUFFICES ASSUME TestInv, [TestNext]_testVars PROVE (InterfaceOwned /\ TestStage)'
  OBVIOUS
<1> USE NoneAssumption, DevicesAssumption DEF TestInv, TestTypeOK, InterfaceOwned, TestStage, interface, Continue,
                           CloseAndRelease, Busy
<1>1. ASSUME NEW d \in Devices, FindInterfaces(d) PROVE (InterfaceOwned /\ TestStage)'
  BY <1>1 DEF FindInterfaces
<1>2. CASE CreateFails
  BY <1>2 DEF CreateFails
<1>3. CASE CreateInterface
  BY <1>3 DEF CreateInterface
<1>4. CASE USBInterfaceOpen
  BY <1>4 DEF USBInterfaceOpen
<1>5. CASE CallFails
  BY <1>5 DEF CallFails
<1>6. CASE WritePipe
  BY <1>6 DEF WritePipe
<1>7. CASE ReadPipe
  BY <1>7, ComplementIsData DEF ReadPipe
<1>8. CASE WritePipeAsync
  BY <1>8 DEF WritePipeAsync, Overlapped
<1>9. ASSUME NEW d \in Devices, TransferOut(d) PROVE (InterfaceOwned /\ TestStage)'
  BY <1>9 DEF TransferOut
<1>10. ASSUME NEW d \in Devices, TransferIn(d) PROVE (InterfaceOwned /\ TestStage)'
  BY <1>10, ComplementIsData DEF TransferIn
<1>11. ASSUME NEW d \in Devices, TransferFails(d) PROVE (InterfaceOwned /\ TestStage)'
  BY <1>11 DEF TransferFails
<1>12. ASSUME NEW d \in Devices, WriteCompletion(d) PROVE (InterfaceOwned /\ TestStage)'
  BY <1>12 DEF WriteCompletion
<1>13. ASSUME NEW d \in Devices, CompletionFails(d) PROVE (InterfaceOwned /\ TestStage)'
  BY <1>13 DEF CompletionFails
<1>14. ASSUME NEW d \in Devices, ReadCompletion(d) PROVE (InterfaceOwned /\ TestStage)'
  BY <1>14, ComplementIsData DEF ReadCompletion
<1>15. CASE WriteAsyncFails
  BY <1>15 DEF WriteAsyncFails, Overlapped
<1>16. CASE UNCHANGED testVars
  BY <1>16 DEF testVars
<1>. QED
  BY <1>1, <1>2, <1>3, <1>4, <1>5, <1>6, <1>7, <1>8, <1>9, <1>10, <1>11, <1>12,
     <1>13, <1>14, <1>15, <1>16
  DEF TestNext, Controller, TestRunLoop, Call

LEMMA TestInvariant == TestSpec => []TestInv
<1>1. TestInv /\ [TestNext]_testVars => TestInv'
  BY TestTypeStep, OwnedStep DEF TestInv
<1>. QED
  BY InitTestInv, <1>1, PTL DEF TestSpec

\* The variables keep their types, whatever devices appear.
THEOREM TestTypeCorrect == TestSpec => []TestTypeOK
BY TestInvariant, PTL DEF TestInv

\* With any number of devices and errors in any of the three routines, an
\* interface is given back at most once and never used afterwards.
THEOREM InterfaceOwnedHolds == TestSpec => []InterfaceOwned
BY TestInvariant, PTL DEF TestInv

\* Whose transfers do not overlap another's has the buffer to itself while they
\* last: what is in it, and in the device, follows from how far they are.
Alone ==
    \A d \in Devices \ shared :
        /\ Busy(d) => \A e \in Devices \ {d} : ~Busy(e)
        /\ io[d] = "writing" => gBuffer = "test"
        /\ io[d] \in {"written", "reading"} => memory[d] = "test"
        /\ io[d] = "read" => gBuffer = "~test"
        /\ stage = "read" /\ d = current => memory[d] = "test"
        /\ shown[d] \in {None, "test"}

LEMMA ComplementOfTest == Complement("test") = "~test" /\ Complement("~test") = "test"
BY DEF Complement

LEMMA AloneStep == TestInv /\ Alone /\ [TestNext]_testVars => Alone'
<1> SUFFICES ASSUME TestInv, Alone, [TestNext]_testVars PROVE Alone'
  OBVIOUS
<1> USE NoneAssumption, DevicesAssumption DEF TestInv, TestTypeOK, Alone, interface, Continue,
     CloseAndRelease, Busy
<1>1. ASSUME NEW d \in Devices, FindInterfaces(d) PROVE Alone'
  BY <1>1 DEF FindInterfaces
<1>2. CASE CreateFails
  BY <1>2 DEF CreateFails
<1>3. CASE CreateInterface
  BY <1>3 DEF CreateInterface
<1>4. CASE USBInterfaceOpen
  BY <1>4 DEF USBInterfaceOpen
<1>5. CASE CallFails
  BY <1>5 DEF CallFails
<1>6. CASE WritePipe
  BY <1>6 DEF WritePipe
<1>7. CASE ReadPipe
  <2>1. \A d \in Devices : ~Busy(d) /\ ~Busy(d)'
    BY <1>7 DEF ReadPipe, TestStage
  <2>2. current \in Devices /\ stage' = "loop" /\ UNCHANGED <<io, memory, shared>>
    BY <1>7 DEF ReadPipe
  <2>3. current \notin shared => gBuffer' = "test"
    BY <1>7, <2>2, ComplementOfTest DEF ReadPipe
  <2>4. \A d \in Devices : shown'[d] = IF d = current THEN gBuffer' ELSE shown[d]
    BY <1>7, <2>2 DEF ReadPipe
  <2>. QED
    BY <2>1, <2>2, <2>3, <2>4
<1>8. CASE WritePipeAsync
  BY <1>8 DEF WritePipeAsync, Overlapped
<1>9. ASSUME NEW d \in Devices, TransferOut(d) PROVE Alone'
  BY <1>9 DEF TransferOut
<1>10. ASSUME NEW d \in Devices, TransferIn(d) PROVE Alone'
  BY <1>10, ComplementOfTest DEF TransferIn
<1>11. ASSUME NEW d \in Devices, TransferFails(d) PROVE Alone'
  BY <1>11 DEF TransferFails
<1>12. ASSUME NEW d \in Devices, WriteCompletion(d) PROVE Alone'
  BY <1>12 DEF WriteCompletion
<1>13. ASSUME NEW d \in Devices, CompletionFails(d) PROVE Alone'
  BY <1>13 DEF CompletionFails
<1>14. ASSUME NEW d \in Devices, ReadCompletion(d) PROVE Alone'
  BY <1>14, ComplementOfTest DEF ReadCompletion
<1>15. CASE WriteAsyncFails
  BY <1>15 DEF WriteAsyncFails, Overlapped
<1>16. CASE UNCHANGED testVars
  BY <1>16 DEF testVars
<1>. QED
  BY <1>1, <1>2, <1>3, <1>4, <1>5, <1>6, <1>7, <1>8, <1>9, <1>10, <1>11, <1>12,
     <1>13, <1>14, <1>15, <1>16
  DEF TestNext, Controller, TestRunLoop, Call

\* The text printed for a device is the message that was sent to it, if its
\* transfers overlapped neither another's nor the failed start of another's.
THEOREM OriginalDataHolds == TestSpec => []OriginalDataUnlessShared
<1>1. TestInit => Alone
  BY DEF TestInit, Alone, Busy
<1>2. TestInv /\ Alone /\ [TestNext]_testVars => Alone'
  BY AloneStep
<1>3. Alone => OriginalDataUnlessShared
  BY DEF Alone, OriginalDataUnlessShared
<1>. QED
  BY TestInvariant, <1>1, <1>2, <1>3, PTL DEF TestSpec

=============================================================================
