---------------------------- MODULE CrankdProofs ----------------------------
(***************************************************************************)
(* Proofs about the life of crankd for any configurations, any number of   *)
(* edits and signals.                                                      *)
(***************************************************************************)
EXTENDS Crankd, FiniteSetTheorems, TLAPS

\* Whatever a handler does, ending crankd apart, it leaves its memory alone but
\* for the calls, and the files too; it may only change the directory.
LEMMA CallsChangeNoMemory ==
  ASSUME PostSome \/ DispatchSome \/ Call \/ CommandEnds
  PROVE  \/ Exit
         \/ /\ (pc' = pc /\ cwd' = cwd) \/ {pc, pc'} \subseteq {"loop", "handler", "command"}
            /\ UNCHANGED <<argv, config_file, plist, registry, on_hup, hup, raced, files,
                           writes, hups>>
<1> USE DEF Goto, memory, registry
<1>1. CASE PostSome
  BY <1>1 DEF PostSome, Post
<1>2. CASE DispatchSome
  BY <1>2 DEF DispatchSome, Dispatch
<1>3. CASE HandlerReturns \/ HandlerRaises
  BY <1>3 DEF HandlerReturns, HandlerRaises, CallsPython, Done
<1>4. CASE CommandRaises
  BY <1>4 DEF CommandRaises, CallsShell, Done
<1>5. CASE StartCommand
  BY <1>5 DEF StartCommand, CallsShell
<1>6. CASE CommandCannotStart
  BY <1>6 DEF CommandCannotStart, CallsShell, Done
<1>7. CASE CommandEnds
  BY <1>7 DEF CommandEnds, Done
<1>. QED
  BY <1>1, <1>2, <1>3, <1>4, <1>5, <1>6, <1>7 DEF Call

\* The steps of the startup: each ends crankd, or is one of these.
LEMMA Startups ==
  ASSUME Startup
  PROVE  \/ ProcessCommandline \/ ConfigExists \/ OpenExample \/ DumpExample \/ DumpExampleFails
         \/ ReadConfig \/ AddWorkspaceNotifications \/ AddScNotifications \/ AddFsNotifications
         \/ AddConditionalRestarts \/ InstallSighup \/ StartFsEvents \/ Exit
BY DEF Startup, LoadConfig, Register, StartupImpeded, ReadFails, RegistrationFails,
       StartFsEventsFails, OpenExampleFails, ReadImpeded, ConstructorRaises, FsEventStreamFails

\* Only a process that is about to parse its command line can still have a
\* relative argument, and it then stands in the directory it was started from.
Anchored ==
  /\ argv \in {"relative", Home}
  /\ config_file = Home
  /\ pc = "parse" /\ argv = "relative" => cwd = Home
  /\ pc \notin {"parse", "down"} => argv = Home
  /\ files = [d \in Dirs |-> files[d]]
  /\ files[Elsewhere] = Absent

LEMMA AnchoredInit == Init => Anchored
BY DEF Init, Anchored, Dirs

LEMMA AnchoredStep == Anchored /\ [Next]_vars => Anchored'
<1> SUFFICES ASSUME Anchored, [Next]_vars PROVE Anchored'
  OBVIOUS
<1> USE DEF Anchored, Goto, memory, Dirs
<1>1. CASE ProcessCommandline
  BY <1>1 DEF ProcessCommandline
<1>2. CASE ConfigExists
  BY <1>2 DEF ConfigExists
<1>3. CASE OpenExample
  BY <1>3, DirsAssumption DEF OpenExample, Store
<1>4. CASE DumpExample
  BY <1>4, DirsAssumption DEF DumpExample, Store
<1>5. CASE ReadConfig
  BY <1>5 DEF ReadConfig
<1>6. CASE Exit
  BY <1>6 DEF Exit, Forget
<1>7. CASE AddWorkspaceNotifications
  BY <1>7 DEF AddWorkspaceNotifications
<1>8. CASE AddScNotifications
  BY <1>8 DEF AddScNotifications
<1>9. CASE AddFsNotifications
  BY <1>9 DEF AddFsNotifications
<1>10. CASE AddConditionalRestarts
  BY <1>10 DEF AddConditionalRestarts
<1>11. CASE InstallSighup
  BY <1>11 DEF InstallSighup
<1>12. CASE StartFsEvents
  BY <1>12 DEF StartFsEvents
<1>13. CASE PostSome \/ DispatchSome \/ Call \/ CommandEnds
  BY <1>6, <1>13, CallsChangeNoMemory DEF registry, IsConfig
<1>14. CASE Restart /\ pc \in {"stream", "loop", "handler", "command"}
  <2>1. argv = Home /\ argv' = Home /\ Home # "relative"
    BY <1>14, DirsAssumption DEF Restart
  <2>. QED
    BY <1>14, <2>1 DEF Restart, Forget
<1>15. CASE SendHup
  BY <1>15 DEF SendHup, Forget
<1>16. ASSUME NEW content \in UserConfigs \cup {Absent}, AdminWrites(content) PROVE Anchored'
  BY <1>16, DirsAssumption DEF AdminWrites
<1>17. CASE Relaunch
  BY <1>17 DEF Relaunch
<1>18. CASE DumpExampleFails
  BY <1>18, DirsAssumption DEF DumpExampleFails, Store, Forget
<1>19. CASE UNCHANGED vars
  BY <1>19 DEF vars
<1>. QED
  BY <1>1, <1>2, <1>3, <1>4, <1>5, <1>6, <1>7, <1>8, <1>9, <1>10, <1>11, <1>12, <1>13,
     <1>14, <1>15, <1>16, <1>17, <1>18, <1>19, Startups
  DEF Next, Signal, Admin, KeyboardInterrupt, TimerFires, SignalInPython

\* Wherever handlers leave the process and however often it is restarted or
\* relaunched, crankd uses the configuration file it was first started with.
THEOREM SameConfigurationFileHolds == Spec => []SameConfigurationFile
<1>1. Anchored => SameConfigurationFile
  BY DEF Anchored, SameConfigurationFile
<1>. QED
  BY <1>1, AnchoredInit, AnchoredStep, PTL DEF Spec

-----------------------------------------------------------------------------
\* What the three sections have registered by each point of main().
Registered ==
  /\ pc \in {"workspace", "sc", "fs", "own", "signal", "stream", "loop", "handler", "command"} =>
       IsConfig(plist)
  /\ pc \in {"sc", "fs", "own", "signal", "stream", "loop", "handler", "command"} =>
       /\ {o[1] : o \in observers} = Events(Content[plist].ws)
       /\ \A o \in observers :
            \/ o[2][1] = "object" /\ o[2][2] \in HANDLER_OBJECTS
            \/ o[2][1] = "NotificationHandler" /\ o[2][2] \in WORKSPACE_HANDLERS
  /\ pc \in {"fs", "own", "signal", "stream", "loop", "handler", "command"} =>
       SC_HANDLERS = Events(Content[plist].sc) /\ patterns = SC_HANDLERS

\* The observers are reached from HANDLER_OBJECTS or WORKSPACE_HANDLERS.
LEMMA WorkspaceRegisters ==
  ASSUME AddWorkspaceNotifications
  PROVE  /\ {o[1] : o \in observers'} = Events(Content[plist].ws)
         /\ \A o \in observers' :
              \/ o[2][1] = "object" /\ o[2][2] \in HANDLER_OBJECTS'
              \/ o[2][1] = "NotificationHandler" /\ o[2][2] \in WORKSPACE_HANDLERS'
<1> DEFINE ws == Content[plist].ws
<1>1. observers' = {<<entry.event, Observer(entry)>> : entry \in ws}
  BY DEF AddWorkspaceNotifications
<1>2. {o[1] : o \in observers'} = Events(ws)
  <2>1. \A o \in observers' : \E entry \in ws : o[1] = entry.event
    BY <1>1
  <2>2. ASSUME NEW entry \in ws PROVE \E o \in observers' : o[1] = entry.event
    <3>1. <<entry.event, Observer(entry)>> \in observers'
      BY <1>1
    <3>2. <<entry.event, Observer(entry)>>[1] = entry.event
      OBVIOUS
    <3>. QED
      BY <3>1, <3>2
  <2>. QED
    BY <2>1, <2>2 DEF Events
<1>3. ASSUME NEW entry \in ws
      PROVE LET object == Observer(entry) IN
            \/ object[1] = "object" /\ object[2] \in HANDLER_OBJECTS'
            \/ object[1] = "NotificationHandler" /\ object[2] \in WORKSPACE_HANDLERS'
  <2>1. CASE entry.kind = "class"
    <3>1. entry.name \in Instantiated(ws)
      BY <2>1 DEF Instantiated
    <3>. QED
      BY <2>1, <3>1 DEF Observer, AddWorkspaceNotifications
  <2>2. CASE entry.kind # "class"
    <3>1. entry.event \in Events({e \in ws : e.kind # "class"})
      BY <2>2 DEF Events
    <3>. QED
      BY <2>2, <3>1 DEF Observer, AddWorkspaceNotifications
  <2>. QED
    BY <2>1, <2>2
<1>. QED
  BY <1>1, <1>2, <1>3

\* A daemon in its loop has a callback for everything its configuration names,
\* and every observer stays referenced.
THEOREM FullyRegisteredHolds == Spec => []FullyRegistered
<1>1. Init => Registered
  BY DEF Init, Registered
<1>2. Registered /\ [Next]_vars => Registered'
  <2> SUFFICES ASSUME Registered, [Next]_vars PROVE Registered'
    OBVIOUS
  <2> USE DEF Registered, Goto, memory, registry
  <2>1. CASE ProcessCommandline
    BY <2>1 DEF ProcessCommandline
  <2>2. CASE ConfigExists
    BY <2>2 DEF ConfigExists
  <2>3. CASE OpenExample
    BY <2>3 DEF OpenExample
  <2>4. CASE DumpExample
    BY <2>4 DEF DumpExample
  <2>5. CASE ReadConfig
    BY <2>5 DEF ReadConfig, IsConfig
  <2>6. CASE Exit
    BY <2>6 DEF Exit
  <2>7. CASE AddWorkspaceNotifications
    <3>1. plist' = plist /\ pc' = "sc" /\ IsConfig(plist)
      BY <2>7 DEF AddWorkspaceNotifications
    <3>. QED
      BY <2>7, <3>1, WorkspaceRegisters DEF IsConfig
  <2>8. CASE AddScNotifications
    BY <2>8 DEF AddScNotifications, IsConfig
  <2>9. CASE AddFsNotifications
    BY <2>9 DEF AddFsNotifications, IsConfig
  <2>10. CASE AddConditionalRestarts
    BY <2>10 DEF AddConditionalRestarts, IsConfig
  <2>11. CASE InstallSighup
    BY <2>11 DEF InstallSighup, IsConfig
  <2>12. CASE StartFsEvents
    BY <2>12 DEF StartFsEvents, IsConfig
  <2>13. CASE PostSome \/ DispatchSome \/ Call \/ CommandEnds
    BY <2>6, <2>13, CallsChangeNoMemory DEF registry, IsConfig
  <2>14. CASE Restart
    BY <2>14 DEF Restart
  <2>15. CASE SendHup
    BY <2>15 DEF SendHup, IsConfig
  <2>16. ASSUME NEW content \in UserConfigs \cup {Absent}, AdminWrites(content) PROVE Registered'
    BY <2>16 DEF AdminWrites, IsConfig
  <2>17. CASE Relaunch
    BY <2>17 DEF Relaunch
  <2>18. CASE DumpExampleFails
    BY <2>18 DEF DumpExampleFails
  <2>19. CASE UNCHANGED vars
    BY <2>19 DEF vars, IsConfig
  <2>. QED
    BY <2>1, <2>2, <2>3, <2>4, <2>5, <2>6, <2>7, <2>8, <2>9, <2>10, <2>11, <2>12, <2>13,
       <2>14, <2>15, <2>16, <2>17, <2>18, <2>19, Startups
    DEF Next, Signal, Admin, KeyboardInterrupt, TimerFires, SignalInPython
<1>3. Registered => FullyRegistered
  BY DEF Registered, FullyRegistered, InLoop
<1>. QED
  BY <1>1, <1>2, <1>3, PTL DEF Spec

\* From InstallSighup on the signal is caught, whatever process serves by then.
Caught == pc \in {"stream", "loop", "handler", "command"} => on_hup = "restart"

\* The steps that are not SendHup leave the count of signals alone.
LEMMA OnlySendHupCounts == [Next]_vars => SendHup \/ hups' = hups
BY CallsChangeNoMemory, Startups
   DEF Next, Signal, Admin, vars, Goto, Exit, ProcessCommandline, ConfigExists, OpenExample,
       DumpExample, DumpExampleFails, ReadConfig, AddWorkspaceNotifications,
       AddScNotifications, AddFsNotifications, AddConditionalRestarts, InstallSighup,
       StartFsEvents, KeyboardInterrupt, TimerFires, SignalInPython, Restart,
       AdminWrites, Relaunch

LEMMA CaughtStep == Caught /\ [Next]_vars => Caught'
<1> SUFFICES ASSUME Caught, [Next]_vars PROVE Caught'
  OBVIOUS
<1> USE DEF Caught, Goto, memory
<1>1. CASE Startup
  BY <1>1, Startups
  DEF Exit, Forget, ProcessCommandline, ConfigExists, OpenExample, DumpExample,
      DumpExampleFails, ReadConfig, AddWorkspaceNotifications, AddScNotifications,
      AddFsNotifications, AddConditionalRestarts, InstallSighup, StartFsEvents
<1>2. CASE PostSome \/ DispatchSome \/ Call \/ CommandEnds
  BY <1>2, CallsChangeNoMemory DEF Exit
<1>3. CASE KeyboardInterrupt \/ Signal
  BY <1>3 DEF KeyboardInterrupt, Signal, TimerFires, SignalInPython, Restart, Exit
<1>4. CASE SendHup
  BY <1>4 DEF SendHup
<1>5. CASE Admin \/ Relaunch
  BY <1>5 DEF Admin, AdminWrites, Relaunch
<1>6. CASE UNCHANGED vars
  BY <1>6 DEF vars
<1>. QED
  BY <1>1, <1>2, <1>3, <1>4, <1>5, <1>6 DEF Next

\* No SIGHUP, however many are sent and whatever was restarted before, ends a
\* daemon that serves events.
THEOREM HupNeverKillsServiceHolds == Spec => HupNeverKillsService
<1>1. Init => Caught
  BY DEF Init, Caught
<1>2. Caught /\ SendHup /\ InLoop => InLoop'
  BY DEF Caught, SendHup, InLoop
<1>3. Caught /\ [Next]_vars => (InLoop /\ hups' # hups => InLoop')
  BY <1>2, OnlySendHupCounts
<1>. QED
  BY <1>1, <1>3, CaughtStep, PTL DEF Spec, HupNeverKillsService

-----------------------------------------------------------------------------
\* While crankd creates its configuration, the file is missing, then empty,
\* unless somebody has changed it meanwhile.
Creating ==
  /\ Anchored
  /\ pc = "open" => files[Home] = Absent \/ raced
  /\ pc = "dump" => files[Home] = Truncated \/ raced
  /\ writes \in Nat /\ hups \in Nat

\* The steps that write files.
LEMMA OnlyTheseWrite ==
  ASSUME [Next]_vars
  PROVE  \/ UNCHANGED <<files, writes>>
         \/ OpenExample \/ DumpExample \/ DumpExampleFails
         \/ \E content \in UserConfigs \cup {Absent} : AdminWrites(content)
BY CallsChangeNoMemory, Startups
   DEF Next, Signal, Admin, vars, Goto, Exit, ProcessCommandline, ConfigExists, ReadConfig,
       AddWorkspaceNotifications, AddScNotifications, AddFsNotifications,
       AddConditionalRestarts, InstallSighup, StartFsEvents,
       KeyboardInterrupt, TimerFires, SignalInPython, Restart, SendHup, Relaunch

\* How a step gets to the two points, or stays there.
LEMMA CreatingSteps ==
  ASSUME [Next]_vars
  PROVE  /\ pc' = "open" => ConfigExists \/ UNCHANGED <<pc, files, raced>> \/ Admin
         /\ pc' = "dump" => OpenExample \/ UNCHANGED <<pc, files, raced>> \/ Admin
         /\ pc = "dump" => DumpExample \/ pc' = "down" \/ pc' = pc
<1> USE DEF Goto
<1>1. CASE Startup
  BY <1>1, Startups
  DEF Exit, ProcessCommandline, ConfigExists, OpenExample, DumpExample, DumpExampleFails,
      ReadConfig, AddWorkspaceNotifications, AddScNotifications, AddFsNotifications,
      AddConditionalRestarts, InstallSighup, StartFsEvents
<1>2. CASE PostSome \/ DispatchSome \/ Call \/ CommandEnds
  BY <1>2, CallsChangeNoMemory DEF Exit, PostSome, Post, DispatchSome, Dispatch, Call,
       HandlerReturns, HandlerRaises, CommandRaises, StartCommand, CommandCannotStart,
       CommandEnds, CallsPython, CallsShell
<1>3. CASE KeyboardInterrupt \/ Signal
  BY <1>3 DEF KeyboardInterrupt, Signal, TimerFires, SignalInPython, Restart, Exit
<1>4. CASE SendHup
  BY <1>4 DEF SendHup
<1>5. CASE Admin \/ Relaunch
  BY <1>5 DEF Admin, AdminWrites, Relaunch
<1>6. CASE UNCHANGED vars
  BY <1>6 DEF vars, memory
<1>. QED
  BY <1>1, <1>2, <1>3, <1>4, <1>5, <1>6 DEF Next

\* Whatever the administrator, the signals and the disk do, crankd overwrites a
\* configuration only if it appeared while crankd was creating one, and never
\* goes on with a file that it has not written to the end.
THEOREM ConfigurationKeptHolds == Spec => ConfigurationKept
<1> USE DEF Dirs
<1>1. Init => Creating
  BY AnchoredInit DEF Init, Creating
<1>2. Creating /\ [Next]_vars => Creating'
  <2> SUFFICES ASSUME Creating, [Next]_vars PROVE Creating'
    OBVIOUS
  <2>1. Anchored /\ Anchored'
    BY AnchoredStep DEF Creating
  <2>2. ASSUME Admin, pc \in {"open", "dump"} PROVE raced'
    BY <2>2 DEF Admin, AdminWrites
  <2>3. Admin => pc' = pc
    BY DEF Admin, AdminWrites
  <2>4. ConfigExists /\ pc' = "open" => files'[Home] = Absent
    BY <2>1 DEF ConfigExists, Goto, Anchored
  <2>5. OpenExample => files'[Home] = Truncated
    BY <2>1 DEF OpenExample, Store, Anchored
  <2>6. writes' \in Nat /\ hups' \in Nat
    BY OnlyTheseWrite, OnlySendHupCounts
    DEF Creating, OpenExample, DumpExample, DumpExampleFails, Goto, AdminWrites, SendHup
  <2>. QED
    BY <2>1, <2>2, <2>3, <2>4, <2>5, <2>6, CreatingSteps DEF Creating
<1>3. ASSUME Creating, [Next]_vars
      PROVE /\ writes' = writes =>
                 \A d \in Dirs : files'[d] # files[d] => files[d] \in {Absent, Truncated} \/ raced
            /\ pc = "dump" /\ pc' # "dump" /\ files'[config_file] = Truncated => pc' = "down"
  <2>1. config_file = Home /\ Anchored
    BY <1>3 DEF Creating, Anchored
  <2>2. CASE UNCHANGED <<files, writes>>
    <3>1. DumpExample => files'[Home] # Truncated
      BY <2>1, FileAssumption DEF DumpExample, Store, Anchored
    <3>. QED
      BY <2>1, <2>2, <3>1, CreatingSteps, <1>3
  <2>3. CASE OpenExample
    BY <2>1, <2>3, <1>3, DirsAssumption DEF OpenExample, Store, Creating, Anchored, Goto
  <2>4. CASE DumpExample
    BY <2>1, <2>4, <1>3, DirsAssumption, FileAssumption DEF DumpExample, Store, Creating, Anchored
  <2>5. CASE DumpExampleFails
    BY <2>1, <2>5, <1>3, DirsAssumption DEF DumpExampleFails, Store, Goto, Creating, Anchored
  <2>6. ASSUME NEW content \in UserConfigs \cup {Absent}, AdminWrites(content)
        PROVE writes' # writes /\ pc' = pc
    BY <2>6, <1>3 DEF AdminWrites, Creating
  <2>. QED
    BY <2>2, <2>3, <2>4, <2>5, <2>6, <1>3, OnlyTheseWrite
<1>. QED
  BY <1>1, <1>2, <1>3, PTL DEF Spec, ConfigurationKept
-----------------------------------------------------------------------------
\* Nothing is listened for before its section is registered: what waits, is
\* called or has failed is an event of the registered sections.
Occurred ==
  /\ pc \in {"down", "parse", "exists", "open", "dump", "read", "workspace"} => observers = {}
  /\ pc \in {"down", "parse", "exists", "open", "dump", "read", "workspace", "sc"} => patterns = {}
  /\ waiting \subseteq Listening /\ broken \subseteq Listening
  /\ Events(current) \subseteq Listening

\* One entry is called at a time.
OneCalled ==
  IF pc \in {"handler", "command"} THEN \E entry : current = {entry} ELSE current = {}

Typed ==
  /\ pc \in {"down", "parse", "exists", "open", "dump", "read", "workspace", "sc",
             "fs", "own", "signal", "stream", "loop", "handler", "command"}
  /\ argv \in {"relative"} \cup Dirs
  /\ cwd \in Dirs /\ config_file \in Dirs
  /\ files \in [Dirs -> UserConfigs \cup {Example, Absent, Truncated}]
  /\ plist \in UserConfigs \cup {Example, Absent}
  /\ on_hup \in {"default", "restart"} /\ hup \in BOOLEAN /\ raced \in BOOLEAN
  /\ writes \in 0 .. MaxWrites /\ hups \in 0 .. MaxHups

IInv == Typed /\ Occurred /\ OneCalled

\* A process that ends, or starts over, has forgotten everything.
LEMMA Forgets ==
  ASSUME IInv, Forget, pc' \in {"down", "parse"}, argv' \in {"relative"} \cup Dirs,
         cwd' \in Dirs, files' = files, writes' = writes, hups' \in 0 .. MaxHups
  PROVE  IInv'
BY DEF IInv, Typed, Occurred, OneCalled, Forget, Dirs, Events, Listening

\* A step of the startup leaves what waits alone; the sections add to it.
LEMMA StartupTyped == ASSUME IInv, Startup PROVE IInv'
<1> USE DEF IInv, Typed, Occurred, OneCalled, Goto, memory, registry, calls, Events, Listening
<1>1. CASE ProcessCommandline
  BY <1>1 DEF ProcessCommandline
<1>2. CASE ConfigExists
  BY <1>2 DEF ConfigExists
<1>3. CASE OpenExample
  BY <1>3 DEF OpenExample, Store
<1>4. CASE DumpExample
  BY <1>4 DEF DumpExample, Store
<1>5. CASE ReadConfig
  BY <1>5 DEF ReadConfig, IsConfig
<1>6. CASE AddWorkspaceNotifications
  BY <1>6 DEF AddWorkspaceNotifications
<1>7. CASE AddScNotifications
  BY <1>7 DEF AddScNotifications
<1>8. CASE AddFsNotifications
  BY <1>8 DEF AddFsNotifications
<1>9. CASE AddConditionalRestarts
  BY <1>9 DEF AddConditionalRestarts
<1>10. CASE InstallSighup
  BY <1>10 DEF InstallSighup
<1>11. CASE StartFsEvents
  BY <1>11 DEF StartFsEvents
<1>12. CASE Exit
  <2>1. Forget /\ pc' = "down" /\ UNCHANGED <<argv, cwd, files, writes, hups>>
    BY <1>12 DEF Exit
  <2>. QED
    BY <2>1, Forgets
<1>13. CASE DumpExampleFails
  <2>1. observers' = {} /\ patterns' = {} /\ pc' = "down" /\ waiting' = {} /\ broken' = {} /\ current' = {}
    BY <1>13 DEF DumpExampleFails, Forget
  <2>2. files' \in [Dirs -> UserConfigs \cup {Example, Absent, Truncated}]
    BY <1>13 DEF DumpExampleFails, Store
  <2>3. Typed'
    BY <1>13, <2>1, <2>2 DEF DumpExampleFails, Forget, Dirs
  <2>. QED
    BY <2>1, <2>3
<1>. QED
  BY <1>1, <1>2, <1>3, <1>4, <1>5, <1>6, <1>7, <1>8, <1>9, <1>10, <1>11, <1>12, <1>13, Startups

\* So do the steps of the run loop.
LEMMA LoopTyped == ASSUME IInv, PostSome \/ DispatchSome \/ Call \/ CommandEnds PROVE IInv'
<1> USE DEF IInv, Typed, Occurred, OneCalled, Goto, memory, registry, calls, Listening
<1>1. ASSUME NEW e, Post(e) PROVE IInv'
  BY <1>1 DEF Post, Events
<1>2. ASSUME NEW e \in waiting, Dispatch(e) PROVE IInv'
  <2>1. PICK entry : entry.event = e /\ current' = {entry}
    BY <1>2 DEF Dispatch
  <2>2. Events(current)' = {e}
    BY <2>1 DEF Events
  <2>3. Listening' = Listening /\ broken' = {} /\ waiting' \subseteq waiting /\ pc' = "handler"
    BY <1>2 DEF Dispatch
  <2>4. Typed'
    BY <1>2 DEF Dispatch
  <2>5. Occurred'
    BY <1>2, <2>2, <2>3 DEF Dispatch
  <2>. QED
    BY <2>1, <2>3, <2>4, <2>5
<1>3. ASSUME Done, pc \in {"handler", "command"}, cwd' \in Dirs, broken' \subseteq Listening PROVE IInv'
  BY <1>3 DEF Done, Events
<1>4. CASE Exit
  <2>1. Forget /\ pc' = "down" /\ UNCHANGED <<argv, cwd, files, writes, hups>>
    BY <1>4 DEF Exit
  <2>. QED
    BY <2>1, Forgets
<1>5. CASE HandlerReturns \/ HandlerRaises
  BY <1>3, <1>4, <1>5 DEF HandlerReturns, HandlerRaises, CallsPython, Dirs
<1>6. CASE CommandRaises
  BY <1>3, <1>4, <1>6 DEF CommandRaises, CallsShell
<1>7. CASE StartCommand
  BY <1>7 DEF StartCommand, CallsShell
<1>8. CASE CommandCannotStart \/ CommandEnds
  BY <1>3, <1>8 DEF CommandCannotStart, CommandEnds, CallsShell
<1>. QED
  BY <1>1, <1>2, <1>5, <1>6, <1>7, <1>8 DEF PostSome, DispatchSome, Call

LEMMA TypedStep == IInv /\ [Next]_vars => IInv'
<1> SUFFICES ASSUME IInv, [Next]_vars PROVE IInv'
  OBVIOUS
<1> USE DEF Goto
<1>1. CASE KeyboardInterrupt \/ Signal
  <2>1. Forget /\ pc' \in {"down", "parse"} /\ UNCHANGED <<argv, cwd, files, writes, hups>>
    BY <1>1 DEF KeyboardInterrupt, Exit, Signal, TimerFires, SignalInPython, Restart
  <2>. QED
    BY <2>1, Forgets DEF IInv, Typed
<1>2. CASE SendHup
  <2>1. hups' \in 0 .. MaxHups
    BY <1>2, BoundsAssumption DEF SendHup, IInv, Typed
  <2>2. CASE on_hup = "default"
    BY <1>2, <2>1, <2>2, Forgets DEF SendHup, IInv, Typed
  <2>3. CASE on_hup # "default"
    BY <1>2, <2>1, <2>3
    DEF SendHup, IInv, Typed, Occurred, OneCalled, registry, calls, Events, Listening
  <2>. QED
    BY <2>2, <2>3
<1>3. ASSUME NEW content \in UserConfigs \cup {Absent}, AdminWrites(content) PROVE IInv'
  <2>1. writes' \in 0 .. MaxWrites /\ raced' \in BOOLEAN
    BY <1>3, BoundsAssumption DEF AdminWrites, IInv, Typed
  <2>2. files' \in [Dirs -> UserConfigs \cup {Example, Absent, Truncated}]
    BY <1>3 DEF AdminWrites, IInv, Typed
  <2>. QED
    BY <1>3, <2>1, <2>2
    DEF AdminWrites, IInv, Typed, Occurred, OneCalled, registry, calls, Events, Listening
<1>4. CASE Relaunch
  BY <1>4 DEF Relaunch, memory, registry, calls, IInv, Typed, Occurred, OneCalled, Dirs, Events, Listening
<1>5. CASE UNCHANGED vars
  BY <1>5 DEF vars, memory, registry, calls, IInv, Typed, Occurred, OneCalled, Events, Listening
<1>. QED
  BY <1>1, <1>2, <1>3, <1>4, <1>5, StartupTyped, LoopTyped DEF Next, Admin

\* For any configurations: crankd calls one handler at a time, and only for
\* events that it has registered for since it last started.
THEOREM TypeCorrect == Spec => []TypeOK
<1>1. Init => IInv
  <2> SUFFICES ASSUME Init PROVE IInv
    OBVIOUS
  <2>1. writes \in 0 .. MaxWrites /\ hups \in 0 .. MaxHups
    BY BoundsAssumption DEF Init
  <2>2. /\ pc = "parse" /\ argv \in {"relative"} \cup Dirs /\ cwd \in Dirs /\ config_file \in Dirs
        /\ files \in [Dirs -> UserConfigs \cup {Example, Absent, Truncated}]
        /\ plist = Absent /\ on_hup = "default"
    BY DEF Init, Dirs
  <2>3. hup \in BOOLEAN /\ raced \in BOOLEAN
    BY Zenon DEF Init
  <2>4. Occurred /\ OneCalled
    BY DEF Init, Occurred, OneCalled, Events, Listening
  <2>. QED
    BY <2>1, <2>2, <2>3, <2>4 DEF IInv, Typed
<1>2. IInv => TypeOK
  <2> SUFFICES ASSUME IInv PROVE TypeOK
    OBVIOUS
  <2>1. Cardinality(current) = IF pc \in {"handler", "command"} THEN 1 ELSE 0
    BY FS_EmptySet, FS_Singleton DEF IInv, OneCalled
  <2>. QED
    BY <2>1 DEF IInv, Typed, Occurred, TypeOK
<1>. QED
  BY <1>1, <1>2, TypedStep, PTL DEF Spec
=============================================================================
