------------------------------- MODULE Crankd -------------------------------
(***************************************************************************)
(* The life of the crankd process: reading or creating its configuration,  *)
(* registering the handlers of the three sections, installing SIGHUP,      *)
(* watching its own files, calling the handlers and commands of the events *)
(* that occur, and restarting itself, while an administrator edits the     *)
(* configuration and launchd keeps the job alive.                          *)
(*                                                                         *)
(* The run loop is one thread. It takes the waiting events in any order of *)
(* their sources, calls the handler, and takes no other event before the   *)
(* call is over; a command that does not end holds up all of crankd.       *)
(***************************************************************************)
EXTENDS Naturals, Sequences, FiniteSets

CONSTANTS
  Home, Elsewhere,  \* directories: where crankd is started, where a handler may go
  LibDir,           \* directory of the loaded Python modules
  UserConfigs,      \* configurations an administrator may install
  Example,          \* the example configuration
  Absent,           \* there is no file
  Truncated,        \* the file is opened for writing, not all of it dumped
  Content,          \* configuration -> its sections (and imports)
  Importable,       \* modules, as sequences: <<"a", "b">> for a.b
  Attributes,       \* <<top-level module, name>>: getattr(module, name) succeeds
  Methods,          \* <<class name, method>>: the class has the method
  HasInfo,          \* workspace events whose notifications come with a userInfo
  Existing,         \* paths of FSEvents entries that exist (as directories)
  MaxWrites,        \* bound: administrator's changes of the file
  MaxHups           \* bound: SIGHUPs sent

ASSUME DirsAssumption == Home # Elsewhere /\ {LibDir, "relative"} \cap {Home, Elsewhere} = {}
ASSUME BoundsAssumption == MaxWrites \in Nat /\ MaxHups \in Nat
ASSUME FileAssumption ==
  /\ Example \notin UserConfigs
  /\ Absent # Truncated /\ {Absent, Truncated} \cap (UserConfigs \cup {Example}) = {}
  /\ DOMAIN Content = UserConfigs \cup {Example}

Dirs == {Home, Elsewhere}

VARIABLES
  pc,            \* where the process is in main(), or "down"
  argv,          \* the --config argument: "relative" or a directory
  cwd,           \* working directory, kept across exec()
  config_file,   \* directory of the file in use (CRANKD_OPTIONS.config_file)
  files,         \* directory -> content of the configuration file there
  plist,         \* CRANKD_CONFIG
  HANDLER_OBJECTS,     \* class names instantiated
  WORKSPACE_HANDLERS,  \* events whose NotificationHandler is referenced
  observers,     \* <<event, object>> in the notification center
  SC_HANDLERS,   \* SystemConfiguration names with a callback
  patterns,      \* notification patterns set on the dynamic store session
  FS_WATCHED_FILES,    \* keys: [type |-> "str" or "bytes", dir |-> directory]
  stream,        \* paths given to FSEventStreamCreate
  on_hup,        \* disposition of SIGHUP: "default" or "restart"
  hup,           \* a SIGHUP the interpreter has still to handle
  waiting,       \* events that wait for the run loop
  current,       \* the entry whose handler is being called: at most one
  broken,        \* the event of the last call, if that raised before its command ran
  raced,         \* history: the file was changed while crankd was creating it
  writes, hups   \* counters of the bounds

registry == <<HANDLER_OBJECTS, WORKSPACE_HANDLERS, observers, SC_HANDLERS,
              patterns, FS_WATCHED_FILES, stream>>
calls == <<waiting, current, broken>>
memory == <<config_file, plist, registry, on_hup, hup, calls, raced>>
vars == <<pc, argv, cwd, memory, files, writes, hups>>

-----------------------------------------------------------------------------
(* Handlers of the configuration.  An entry of a section is a record       *)
(* [event, kind, name, method]; kind is its first property in the order    *)
(* the code looks for them, "none" if it has no known property.            *)

IsConfig(c) == c \in UserConfigs \cup {Example}

\* get_mod_func: without a dot the name is the module, and what is looked up in
\* it; with one, the last component is looked up.
ModuleOf(name) == IF Len(name) = 1 THEN name ELSE SubSeq(name, 1, Len(name) - 1)

\* get_callable_from_string succeeds: __import__("a.b") loads a.b but returns a,
\* so the last component is looked up in the first.
Loadable(name) ==
  /\ name # <<>>
  /\ ModuleOf(name) \in Importable
  /\ <<Head(name), name[Len(name)]>> \in Attributes

\* get_callable_for_event: AttributeError or RuntimeError if this is FALSE.
HasCallable(entry) ==
  \/ entry.kind = "command"
  \/ entry.kind = "function" /\ Loadable(entry.name)
  \/ /\ entry.kind = "method"
     /\ Loadable(entry.name)
     /\ <<entry.name, entry.method>> \in Methods

\* "class" is looked for first, and only in the NSWorkspace section.
WorkspaceAccepts(entry) ==
  IF entry.kind = "class"
    THEN Loadable(entry.name) /\ <<entry.name, entry.event>> \in Methods
    ELSE HasCallable(entry)

Events(entries) == {entry.event : entry \in entries}
Instantiated(entries) ==
  {entry.name : entry \in {e \in entries : e.kind \in {"class", "method"}}}

\* The object the notification center calls: it keeps no reference to it.
Observer(entry) ==
  IF entry.kind = "class" THEN <<"object", entry.name>>
                          ELSE <<"NotificationHandler", entry.event>>

FsKey(type, dir) == [type |-> type, dir |-> dir]

\* str(f) of a bytes key is the text "b'...'", which names no directory.
StreamPath(key) == IF key.type = "str" THEN key.dir ELSE <<"mangled", key.dir>>

\* Directories of crankd's own files: its configuration and its modules.
OwnDirs == {config_file, LibDir}

-----------------------------------------------------------------------------
Forget ==
  /\ config_file' = Home /\ plist' = Absent
  /\ HANDLER_OBJECTS' = {} /\ WORKSPACE_HANDLERS' = {} /\ observers' = {}
  /\ SC_HANDLERS' = {} /\ patterns' = {} /\ FS_WATCHED_FILES' = {} /\ stream' = {}
  /\ on_hup' = "default" /\ hup' = FALSE
  /\ waiting' = {} /\ current' = {} /\ broken' = {} /\ raced' = FALSE

Init ==
  /\ pc = "parse"
  /\ argv \in {"relative", Home}
  /\ cwd = Home
  /\ files = [d \in Dirs |-> Absent]
  /\ writes = 0 /\ hups = 0
  /\ config_file = Home /\ plist = Absent
  /\ HANDLER_OBJECTS = {} /\ WORKSPACE_HANDLERS = {} /\ observers = {}
  /\ SC_HANDLERS = {} /\ patterns = {} /\ FS_WATCHED_FILES = {} /\ stream = {}
  /\ on_hup = "default" /\ hup = FALSE
  /\ waiting = {} /\ current = {} /\ broken = {} /\ raced = FALSE

Goto(next) == pc' = next /\ UNCHANGED <<writes, hups>>

\* sys.exit(1), an exception nobody catches, or a signal.
Exit == Goto("down") /\ Forget /\ UNCHANGED <<argv, cwd, files>>

\* Mutant: the command line is left as the user typed it.
ParseKeepsArgv ==
  /\ pc = "parse"
  /\ config_file' = IF argv = "relative" THEN cwd ELSE argv
  /\ Goto("exists")
  /\ UNCHANGED <<argv, cwd, files, plist, registry, on_hup, hup, calls, raced>>

\* process_commandline: the arguments become absolute for later restarts.
ProcessCommandline ==
  /\ pc = "parse"
  /\ config_file' = IF argv = "relative" THEN cwd ELSE argv
  /\ argv' = config_file'
  /\ Goto("exists")
  /\ UNCHANGED <<cwd, files, plist, registry, on_hup, hup, calls, raced>>

-----------------------------------------------------------------------------
(* load_config, whose system calls others may come between.                *)

\* Mutant: a missing configuration is not created.
ConfigExpected ==
  /\ pc = "exists"
  /\ Goto("read")
  /\ UNCHANGED <<argv, cwd, memory, files>>

\* Mutant: the example is written whatever is there.
ConfigNotLookedFor ==
  /\ pc = "exists"
  /\ Goto("open")
  /\ UNCHANGED <<argv, cwd, memory, files>>

ConfigExists ==
  /\ pc = "exists"
  /\ Goto(IF files[config_file] = Absent THEN "open" ELSE "read")
  /\ UNCHANGED <<argv, cwd, memory, files>>

Store(content) == files' = [files EXCEPT ![config_file] = content]

\* open(config_file, "wb") truncates whatever is there by now.
OpenExample ==
  /\ pc = "open"
  /\ Store(Truncated)
  /\ Goto("dump")
  /\ UNCHANGED <<argv, cwd, memory>>

\* plistlib.dump writes to the file that was opened: if it has been removed or
\* replaced, the example is lost; if it has been rewritten, that is lost.
DumpExample ==
  /\ pc = "dump"
  /\ \/ files[config_file] # Absent /\ Store(Example)
     \/ files[config_file] # Truncated /\ UNCHANGED files
  /\ Goto("read")
  /\ UNCHANGED <<argv, cwd, memory>>

\* The file cannot be opened for writing: logged, then sys.exit(1).
OpenExampleFails == pc = "open" /\ Exit

\* The dump fails, for want of space say: what was opened stays, empty or cut
\* short, unless it has been removed or replaced.
DumpExampleFails ==
  /\ pc = "dump"
  /\ \/ files[config_file] # Absent /\ Store(Truncated)
     \/ files[config_file] # Truncated /\ UNCHANGED files
  /\ Goto("down")
  /\ Forget
  /\ UNCHANGED <<argv, cwd>>

\* Mutant: whatever the file holds is taken for a configuration.
ReadUnparsed ==
  /\ pc = "read"
  /\ files[config_file] # Absent
  /\ IsConfig(files[config_file]) => Content[files[config_file]].imports \subseteq Importable
  /\ plist' = files[config_file]
  /\ Goto("workspace")
  /\ UNCHANGED <<argv, cwd, config_file, files, registry, on_hup, hup, calls, raced>>

ReadConfig ==
  /\ pc = "read"
  /\ IsConfig(files[config_file])
  /\ Content[files[config_file]].imports \subseteq Importable
  /\ plist' = files[config_file]
  /\ Goto("workspace")
  /\ UNCHANGED <<argv, cwd, config_file, files, registry, on_hup, hup, calls, raced>>

\* The file has gone, cannot be parsed, or names a module that cannot be loaded.
ReadFails ==
  /\ pc = "read"
  /\ IsConfig(files[config_file]) => ~(Content[files[config_file]].imports \subseteq Importable)
  /\ Exit

\* The file is there, but reading it fails.
ReadImpeded == pc = "read" /\ files[config_file] # Absent /\ Exit

-----------------------------------------------------------------------------
(* Registration, section by section.                                       *)

\* Mutant: the NotificationHandler is not kept in WORKSPACE_HANDLERS.
AddWorkspaceUnreferenced ==
  /\ pc = "workspace"
  /\ \A entry \in Content[plist].ws : WorkspaceAccepts(entry)
  /\ observers' = {<<entry.event, Observer(entry)>> : entry \in Content[plist].ws}
  /\ HANDLER_OBJECTS' = HANDLER_OBJECTS \cup Instantiated(Content[plist].ws)
  /\ Goto("sc")
  /\ UNCHANGED <<argv, cwd, files, config_file, plist, WORKSPACE_HANDLERS,
                 SC_HANDLERS, patterns, FS_WATCHED_FILES, stream, on_hup, hup,
                 calls, raced>>

AddWorkspaceNotifications ==
  /\ pc = "workspace"
  /\ \A entry \in Content[plist].ws : WorkspaceAccepts(entry)
  /\ observers' = {<<entry.event, Observer(entry)>> : entry \in Content[plist].ws}
  /\ HANDLER_OBJECTS' = HANDLER_OBJECTS \cup Instantiated(Content[plist].ws)
  /\ WORKSPACE_HANDLERS' = Events({entry \in Content[plist].ws : entry.kind # "class"})
  /\ Goto("sc")
  /\ UNCHANGED <<argv, cwd, files, config_file, plist,
                 SC_HANDLERS, patterns, FS_WATCHED_FILES, stream, on_hup, hup,
                 calls, raced>>

AddScNotifications ==
  /\ pc = "sc"
  /\ \A entry \in Content[plist].sc : HasCallable(entry)
  /\ SC_HANDLERS' = Events(Content[plist].sc)
  /\ patterns' = Events(Content[plist].sc)
  /\ HANDLER_OBJECTS' = HANDLER_OBJECTS \cup Instantiated(Content[plist].sc)
  /\ Goto("fs")
  /\ UNCHANGED <<argv, cwd, files, config_file, plist, WORKSPACE_HANDLERS,
                 observers, FS_WATCHED_FILES, stream, on_hup, hup,
                 calls, raced>>

AddFsNotifications ==
  /\ pc = "fs"
  /\ \A entry \in Content[plist].fs : HasCallable(entry) /\ entry.event \in Existing
  /\ FS_WATCHED_FILES' = {FsKey("str", d) : d \in Events(Content[plist].fs)}
  /\ HANDLER_OBJECTS' = HANDLER_OBJECTS \cup Instantiated(Content[plist].fs)
  /\ Goto("own")
  /\ UNCHANGED <<argv, cwd, files, config_file, plist, WORKSPACE_HANDLERS,
                 observers, SC_HANDLERS, patterns, stream, on_hup, hup,
                 calls, raced>>

RegistrationFails ==
  /\ \/ pc = "workspace" /\ \E entry \in Content[plist].ws : ~WorkspaceAccepts(entry)
     \/ pc = "sc" /\ \E entry \in Content[plist].sc : ~HasCallable(entry)
     \/ /\ pc = "fs"
        /\ \E entry \in Content[plist].fs : ~HasCallable(entry) \/ entry.event \notin Existing
  /\ Exit

\* get_handler_object: a handler's class is instantiated when its first entry is
\* registered, and what its constructor raises ends crankd.
Constructed(section) == {name \in Instantiated(section) : Loadable(name)} \ HANDLER_OBJECTS
ConstructorRaises ==
  /\ \/ pc = "workspace" /\ Constructed(Content[plist].ws) # {}
     \/ pc = "sc" /\ Constructed(Content[plist].sc) # {}
     \/ pc = "fs" /\ Constructed(Content[plist].fs) # {}
  /\ Exit

\* add_conditional_restart for the configuration and every loaded module, whose
\* names are encoded. Their callback, which would compare modification times
\* and restart, is never called: no stream has these names (StreamPath).
AddConditionalRestarts ==
  /\ pc = "own"
  /\ FS_WATCHED_FILES' = FS_WATCHED_FILES \cup {FsKey("bytes", d) : d \in OwnDirs}
  /\ Goto("signal")
  /\ UNCHANGED <<argv, cwd, files, config_file, plist, HANDLER_OBJECTS,
                 WORKSPACE_HANDLERS, observers, SC_HANDLERS, patterns, stream, on_hup, hup,
                 calls, raced>>

\* Mutant: a handler that ignores the signal until the loop is left.
InstallNoHandler ==
  /\ pc = "signal"
  /\ Goto("stream")
  /\ UNCHANGED <<argv, cwd, files, memory>>

InstallSighup ==
  /\ pc = "signal"
  /\ on_hup' = "restart"
  /\ Goto("stream")
  /\ UNCHANGED <<argv, cwd, files, config_file, plist, registry, hup, calls, raced>>

\* start_fs_events, then the timer.  The log message joins the keys as bytes,
\* which raises TypeError if one of them is a str.
StartFsEvents ==
  /\ pc = "stream"
  /\ \A key \in FS_WATCHED_FILES : key.type = "bytes"
  /\ stream' = {StreamPath(key) : key \in FS_WATCHED_FILES}
  /\ Goto("loop")
  /\ UNCHANGED <<argv, cwd, files, config_file, plist, HANDLER_OBJECTS,
                 WORKSPACE_HANDLERS, observers, SC_HANDLERS, patterns, FS_WATCHED_FILES,
                 on_hup, hup, calls, raced>>

StartFsEventsFails ==
  /\ pc = "stream"
  /\ \E key \in FS_WATCHED_FILES : key.type = "str"
  /\ Exit

\* RuntimeError: the stream is not created, or does not start.
FsEventStreamFails == pc = "stream" /\ Exit

-----------------------------------------------------------------------------
(* The run loop.                                                           *)

Listening == {o[1] : o \in observers} \cup patterns

\* An event crankd listens for occurs. It waits once, however often it occurs.
Post(e) ==
  /\ e \in Listening \ waiting
  /\ waiting' = waiting \cup {e}
  /\ UNCHANGED <<pc, argv, cwd, config_file, plist, registry, on_hup, hup, current, broken,
                 raced, files, writes, hups>>

\* The run loop takes an event and calls the handler of its entry.
Dispatch(e) ==
  /\ pc = "loop" /\ e \in waiting
  /\ waiting' = waiting \ {e}
  /\ \E entry \in Content[plist].ws \cup Content[plist].sc :
       entry.event = e /\ current' = {entry}
  /\ broken' = {}
  /\ Goto("handler")
  /\ UNCHANGED <<argv, cwd, config_file, plist, registry, on_hup, hup, raced, files>>

\* The call is over.
Done ==
  /\ current' = {}
  /\ Goto("loop")
  /\ UNCHANGED <<argv, config_file, plist, registry, on_hup, hup, waiting, raced, files>>

CallsPython == pc = "handler" /\ \A entry \in current : entry.kind # "command"
CallsShell == pc = "handler" /\ \A entry \in current : entry.kind = "command"

\* A function or method returns, perhaps from another directory.
HandlerReturns ==
  /\ CallsPython
  /\ cwd' \in {cwd, Elsewhere}
  /\ Done /\ UNCHANGED broken

\* An exception leaves the handler: PyObjC may or may not unwind the loop.
HandlerRaises ==
  /\ CallsPython
  /\ \/ Done /\ UNCHANGED <<cwd, broken>>
     \/ Exit

\* do_shell takes the items of user_info, which a NotificationHandler gives:
\* what userInfo() returns, perhaps None. Its test is always true, of a method.
UserInfoHasItems ==
  \A entry \in current : entry \in Content[plist].ws => entry.event \in HasInfo

\* Mutant: the exception leaves the run loop inside the call.
CommandRaisesForGood ==
  /\ CallsShell /\ ~UserInfoHasItems
  /\ broken' = Events(current)
  /\ UNCHANGED <<pc, argv, cwd, config_file, plist, registry, on_hup, hup, waiting, current,
                 raced, files, writes, hups>>

\* AttributeError before the command is run, treated as any other exception.
CommandRaises ==
  /\ CallsShell /\ ~UserInfoHasItems
  /\ \/ broken' = Events(current) /\ Done /\ UNCHANGED cwd
     \/ Exit

\* do_shell reaches subprocess.call, which starts the command and waits ...
StartCommand ==
  /\ CallsShell /\ UserInfoHasItems
  /\ Goto("command")
  /\ UNCHANGED <<argv, cwd, memory, files>>

\* ... or raises OSError, which is logged.
CommandCannotStart ==
  /\ CallsShell /\ UserInfoHasItems
  /\ Done /\ UNCHANGED <<cwd, broken>>

\* The command ends: with a status, or by a signal.
CommandEnds ==
  /\ pc = "command"
  /\ Done /\ UNCHANGED <<cwd, broken>>

KeyboardInterrupt == pc = "loop" /\ Exit

\* restart: exec() of sys.argv, in the current directory.  A caught signal goes
\* back to its default disposition.
Restart == Goto("parse") /\ Forget /\ UNCHANGED <<argv, cwd, files>>

\* Mutant: without the timer nothing wakes the interpreter inside the run loop.
NoTimer == FALSE

\* The interpreter runs its signal handlers only when it runs: in the run loop
\* that is when the timer calls timer_callback.
TimerFires ==
  /\ pc = "loop"
  /\ hup
  /\ Restart

\* Elsewhere it does so between two bytecodes, in the middle of a handler too.
\* A command that runs is no obstacle: the signal interrupts the wait for it.
SignalInPython ==
  /\ pc \in {"stream", "handler", "command"}
  /\ hup
  /\ Restart

-----------------------------------------------------------------------------
(* The surroundings.                                                       *)

\* kill -HUP: by default it ends the process, before crankd catches it.
SendHup ==
  /\ pc # "down"
  /\ hups < MaxHups
  /\ hups' = hups + 1
  /\ IF on_hup = "default"
       THEN pc' = "down" /\ Forget
       ELSE hup' = TRUE /\ UNCHANGED <<pc, config_file, plist, registry, on_hup, calls, raced>>
  /\ UNCHANGED <<argv, cwd, files, writes>>

AdminWrites(content) ==
  /\ writes < MaxWrites
  /\ content # files[Home]
  /\ writes' = writes + 1
  /\ files' = [files EXCEPT ![Home] = content]
  /\ raced' = (raced \/ pc \in {"open", "dump"})
  /\ UNCHANGED <<pc, argv, cwd, config_file, plist, registry, on_hup, hup, calls, hups>>

\* launchd (KeepAlive, RunAtLoad) starts the job as it did the first time.
Relaunch ==
  /\ pc = "down"
  /\ Goto("parse")
  /\ argv' \in {"relative", Home}
  /\ cwd' = Home
  /\ UNCHANGED <<memory, files>>

LoadConfig == ConfigExists \/ OpenExample \/ DumpExample \/ ReadConfig \/ ReadFails
Register ==
  \/ AddWorkspaceNotifications \/ AddScNotifications \/ AddFsNotifications
  \/ RegistrationFails \/ AddConditionalRestarts

\* What keeps crankd from starting with any configuration: the file system, the
\* constructor of a handler, FSEvents.
StartupImpeded ==
  \/ OpenExampleFails \/ DumpExampleFails \/ ReadImpeded \/ ConstructorRaises
  \/ FsEventStreamFails

Startup ==
  ProcessCommandline \/ LoadConfig \/ Register \/ InstallSighup
  \/ StartFsEvents \/ StartFsEventsFails \/ StartupImpeded
PostSome == \E e \in Listening : Post(e)
DispatchSome == \E e \in waiting : Dispatch(e)
Call ==
  \/ HandlerReturns \/ HandlerRaises
  \/ CommandRaises \/ StartCommand \/ CommandCannotStart
Signal == TimerFires \/ SignalInPython
Admin == \E content \in UserConfigs \cup {Absent} : AdminWrites(content)

Next ==
  \/ Startup \/ PostSome \/ DispatchSome \/ Call \/ CommandEnds \/ KeyboardInterrupt
  \/ Signal \/ SendHup \/ Admin \/ Relaunch

ConfiguredEvents == UNION {Events(c.ws \cup c.sc) : c \in {Content[d] : d \in DOMAIN Content}}

\* The process runs, Python handlers end, the timer fires, launchd relaunches.
\* The run loop passes over no source that has an event each time it looks.
\* No event, signal or edit is obliged to happen, and no command to end.
Fairness ==
  /\ WF_vars(Startup) /\ WF_vars(Call) /\ WF_vars(Signal) /\ WF_vars(Relaunch)
  /\ \A e \in ConfiguredEvents : SF_vars(Dispatch(e))

Spec == Init /\ [][Next]_vars
FairSpec == Spec /\ Fairness

-----------------------------------------------------------------------------
InLoop == pc \in {"loop", "handler", "command"}

\* The variables keep their types; a handler is current while it is called or
\* its command runs, and only then.
TypeOK ==
  /\ pc \in {"down", "parse", "exists", "open", "dump", "read", "workspace", "sc",
             "fs", "own", "signal", "stream", "loop", "handler", "command"}
  /\ argv \in {"relative"} \cup Dirs
  /\ cwd \in Dirs /\ config_file \in Dirs
  /\ files \in [Dirs -> UserConfigs \cup {Example, Absent, Truncated}]
  /\ plist \in UserConfigs \cup {Example, Absent}
  /\ on_hup \in {"default", "restart"} /\ hup \in BOOLEAN /\ raced \in BOOLEAN
  /\ waiting \subseteq Listening /\ broken \subseteq Listening
  /\ Cardinality(current) = IF pc \in {"handler", "command"} THEN 1 ELSE 0
  /\ writes \in 0 .. MaxWrites /\ hups \in 0 .. MaxHups

\* A daemon that serves events has everything its configuration asks for in
\* place: each name has a callback and is reported by configd, each workspace
\* event has an observer, and crankd itself keeps the observers alive, which
\* the notification center does not.
FullyRegistered ==
  InLoop =>
    /\ IsConfig(plist)
    /\ SC_HANDLERS = Events(Content[plist].sc) /\ patterns = SC_HANDLERS
    /\ {o[1] : o \in observers} = Events(Content[plist].ws)
    /\ \A o \in observers :
         \/ o[2][1] = "object" /\ o[2][2] \in HANDLER_OBJECTS
         \/ o[2][1] = "NotificationHandler" /\ o[2][2] \in WORKSPACE_HANDLERS

\* "in case someone's code changes the current directory": across restarts and
\* relaunches crankd reads the configuration it was started with, wherever a
\* handler has left the process, and never plants an example elsewhere.
SameConfigurationFile ==
  /\ pc \notin {"down", "parse"} => config_file = Home
  /\ files[Elsewhere] = Absent

\* crankd writes its example over nothing but the file it has found missing,
\* unless the file was changed between os.path.exists and plistlib.dump; and a
\* file that it leaves empty or cut short (a signal, a write that fails) it does
\* not go on to read: it ends there, with the file in the way of the next start.
ConfigurationKept ==
  [][/\ writes' = writes =>
          \A d \in Dirs : files'[d] # files[d] => files[d] \in {Absent, Truncated} \/ raced
     /\ pc = "dump" /\ pc' # "dump" /\ files'[config_file] = Truncated => pc' = "down"]_vars

\* Once it serves events, a SIGHUP never ends crankd: it restarts it.
HupNeverKillsService == [][InLoop /\ hups' # hups => InLoop']_vars

\* A SIGHUP that crankd catches restarts it, even if no event ever arrives, and
\* even if a command it waits for never ends.
HupRestarts == hup ~> pc = "parse"

\* Every event that waits is taken (or forgotten by a restart), whatever the
\* handlers before it do, unless a command never ends: subprocess.call has no
\* timeout, and then no event is taken again.
ServedUnlessHung ==
  \A e \in ConfiguredEvents : (e \in waiting ~> e \notin waiting) \/ <>[](pc = "command")

\* crankd keeps coming back to serving as long as the configuration it would
\* find is one it accepts (or none, for which it writes the example), unless
\* something else keeps it from starting again and again.
Acceptable(c) ==
  \/ c = Absent
  \/ /\ IsConfig(c)
     /\ Content[c].imports \subseteq Importable
     /\ \A entry \in Content[c].ws : WorkspaceAccepts(entry)
     /\ \A entry \in Content[c].sc : HasCallable(entry)
     /\ Content[c].fs = {}
KeepsServing ==
  <>[]Acceptable(files[Home]) => []<>InLoop \/ []<><<StartupImpeded>>_vars

\* ReadMe.rst:6-7: crankd "provides a way to execute Python code or a shell
\* script in response to many system events", and the example configuration of
\* crankd.py:329-347 has a command for each of four events: a command that is
\* configured is run.
CommandIsRun == broken = {}

=============================================================================
