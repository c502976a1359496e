# Verification of pymacadmin

pymacadmin is a collection of Mac administration tools: the daemon `crankd`,
which calls Python code or commands when system events occur; a handler and a
program that set proxies; programs for network locations, keychains and disk
images; the `pymacds` library for directory services; and a C program that
loads firmware into a USB device. This directory holds TLA+ models of the parts
that have state and somebody to share it with, the TLC instances that check
them, and proofs, checked by TLAPS, that every invariant TLC finds on a small
instance, and every action property and refinement, holds for all values of the constants.

`PROJECT.json` is the index: the components and hazards with their lines, every
run with its properties, the lines each definition translates, for each property
a fault in the code that would break it, and the theorems.

`bin/crankd.py` is Python 3 at this commit. Most of the rest, in `bin/` (airport-update,
keychain-delete, create-location, set-proxy), `lib/`, the example handlers and
`utilities/`, has Python 2 syntax (`except X, e`, `print x`) or was written for it.
Each is modelled by what its text says under the interpreter it was written for.

## 1. The system

### Components, their state and their operations

| component | state | operations | hard behaviour |
|---|---|---|---|
| **crankd: life** (`bin/crankd.py`) | the configuration file, `CRANKD_CONFIG`, the registry (`HANDLER_OBJECTS`, `WORKSPACE_HANDLERS`, `SC_HANDLERS`, `FS_WATCHED_FILES`), the disposition of SIGHUP, `sys.argv`, the working directory | parse, load or write the configuration, register three sections, watch its own files, run loop, exec of itself | edits between its system calls, signals at any point, crashes half-way through writing, `exec` from another directory, launchd |
| **crankd: SystemConfiguration events** | keys collected by configd, the array being handled | `handle_sc_event` with its two loops | exceptions of handlers, order of the array, changes during handlers |
| **crankd: calling handlers** | the waiting events, the one handler being called | four kinds of handlers, `do_shell` | one thread, commands that hang, missing `userInfo` |
| **crankd: file-system events** | `FS_WATCHED_FILES`, the stream | `start_fs_events`, `fsevent_callback`, `cond_restart` | starts or raises; delivers nothing at this commit, see 5 |
| **socks-proxy handler, SCPreferences, set-proxy** | saved and active proxies, a session per client | `update_proxy_settings`, `set_proxy`, `save` | two writers of one store, each of commit and apply may fail, the handler runs under the loops above |
| **usb-notifier** (`bin/usb-notifier.c`) | an iterator, locals kept between devices, references, the device's memory | `RawDeviceAdded`, download, `FindInterfaces`, two completion routines, SIGINT | unplugging, failure of any call, re-arming of the notification, asynchronous transfers with one buffer |
| **create-location** | a session's copy of the preferences | scan, copy set, copy services, store, commit, apply | two runs, other editors |
| **disk image testing** | an attached image, the suite, the tree that the mount point leads to | attach, collect, run, detach, report; the tests, which look for forbidden and required files | exceptions and interrupts without `finally`, exit status, paths of the image and of the host, commands whose failure looks like an empty answer |
| **pymacds** | search paths in DirectoryService | Ensure/Add/Delete of nodes, cache flush; records and groups | one process per command, scripts in between |
| **Keychain**, airport-update, keychain-delete, keychain-update | two keychains, item objects | find, add, remove, update | other programs between any two calls, a sequence of updates that breaks off |
| **wtfUpdate** | a temporary directory, the dictionaries of a package, the report | expand, list scripts and Boms, write, clean up | failure of any step, paths that share prefixes, reports of earlier runs |
| certificates, constants, proxy-setenv, the other example handlers, setup | nothing that outlives one function | | sequential, or pure input and output |

### How they interact

configd, the notification center and the timer call `crankd` from one run loop;
`crankd` calls handlers, among them `ProxyManager`, whose constructor runs while
`crankd` is still registering and whose `KeyError` is swallowed by
`handle_sc_event`. `ProxyManager`, `set-proxy` and `create-location` share the
SystemConfiguration preferences through sessions with a signature. launchd keeps
`crankd` alive. usb-notifier, pymacds and the keychain programs stand alone, and
share the bus, DirectoryService and the keychains with everybody else.

### What makes each of them correct

* crankd: uses the configuration it was started with, has all of it registered
  while it serves, is restarted and not killed by SIGHUP, comes back after
  crashes; drops no reported key; no event waits for ever.
* proxies: the proxy follows the network, or an error was reported; nobody's
  settings are taken back: a commit changes one thing of what is stored by then.
* usb-notifier: ours and only ours get firmware, all of it; interfaces given back
  once; no arrival forgotten.
* create-location: names stay unique, locations share nothing.
* images: detached at the end; status 0 means what it says, of the tests and of
  what was tested.
* wtfUpdate: leaves nothing behind; the report lists what is in the package.
* pymacds: calls do what their names promise; duplicates only by a race.
* keychain: only what was asked for is changed; the status tells the truth.

## 2. The modules

`MC*` modules hold the constants of the instances, `*Proofs` the theorems. A
module without an MC module has an instance that needs only a `.cfg`. Definitions
whose comment begins with "Mutant:" are the faulty versions that `PROJECT.json`
pairs with the properties; they are not part of any specification.

### `ScEvents`, `EventDelivery`: handle_sc_event (crankd.py:212-222, 429-470)

`EventDelivery` is the abstract promise: reported keys wait, are taken together,
and a batch that ends normally has been served key by key; serving may fail, which
gives up the rest of the batch. `ScEvents` is the code. `pass` and `pos` say which of
the two loops is at which key, `left` which matching handlers are still to be
called for it, `calls` counts calls per handler and key. `ExactCall`, `ExactMiss`
and `StartRegexPass` are the first loop and its `except KeyError`, which starts
over from the first key whether the key was missing or a handler raised KeyError;
`RegexCall` and `RegexNextKey` are the second loop, `Abandon` any other exception.
`changed` is what configd collects meanwhile (`StoreChange`, `Callback`). Regular
expressions are two relations: what configd matches and what `re.match` accepts;
the second includes the first because `re.match` does not anchor the end.

### `Crankd`: the life of the process (crankd.py:60-92, 126-209, 253-371, 393-521, 571-688)

`pc` walks through `main()`, with an action for every system call of
`load_config` that an editor may come between, and one for its failure: a dump that
fails (`DumpExampleFails`) leaves an empty or partial file, as a signal at that point
does. What may keep crankd from starting whatever the configuration says is put
together in `StartupImpeded`: files that cannot be written or read, a constructor
that raises while its section is registered, an event stream that does not start.
Configurations are constants:
`Content` gives their sections. `Loadable` is how a dotted name resolves: the module
is all but the last component, and the last is looked up in the *first*, which
`__import__` returns. An entry
is accepted by what `get_callable_for_event` and the class branch of
`add_workspace_notifications` accept. `SendHup` ends a process that has not
installed its handler, `TimerFires` is the timer that lets Python see the signal
in the run loop, `Restart` is `exec` with what is in `argv` from the current
directory, `Relaunch` launchd. `HandlerRaises` is nondeterministic: whether an
exception in a PyObjC callback unwinds `CFRunLoopRun` depends on the PyObjC
version, and both outcomes are there.

In the run loop, `Post` puts events of the registered sources in `waiting`, `Dispatch`
takes one and calls the handler of its entry, which runs Python code or a command; no
other event is taken before the call is over. `CommandRaises` is the call that never gets
to `subprocess.call`: `user_info` is None for a notification without `userInfo`, because
the test of line 88 is on the bound method (`UserInfoHasItems`). A SIGHUP interrupts the
wait for a command (`SignalInPython`), so that even a command which never ends does not
keep crankd from restarting.

### `Preferences`: a store with commit and apply (SCPreferences.py:22-32)

The abstract promise that `ProxyManager` and `CreateLocation` both implement: what is saved
changes only by a `Transaction` of what is saved *now*, never by writing back something
read long ago, and what is active changes only to what is saved. Each module gives its
own transaction: one protocol is set; or one location is created, with services of its
own, all services are configured, or one is removed.

### `ProxyManager`: proxies (ProxyManager.py, SCPreferences.py, set-proxy.py)

Two clients of one store go through resolve, set, commit and apply. Each has a
session with the signature it read; a commit on another signature fails. The
handler is called from the constructor (`phase = "boot"`), before crankd has
registered for notifications, and by `Notify` afterwards; a service without
proxies makes `set_proxy` raise KeyError, which crankd's first loop takes for a
missing handler and calls the handler again (`attempt`, `RaisesKeyError`). `reported`
and `missed` are history: the last update said that it failed, and the network
changed before anybody listened. `set-proxy` is run for any protocol, SOCKS included;
`overridden` is history as well: it has changed the SOCKS proxy since the handler last
did. (FTP, the third protocol, goes as HTTP does; servers and ports are left out.)

### `UsbNotifier`: RawDeviceAdded and the download (usb-notifier.c:87-169, 418-625)

One action for each IOKit call that `RawDeviceAdded` and what it calls make, and one for
its failure; of the four registrations in `main()` the one for the raw device
(`Register`), whose result nobody looks at: after `RegisterFails` the program waits in
its run loop for nothing. (The three others belong to the external callbacks, and
`main()` exits at once if it gets no master port or matching dictionary.) The locals `plugIn`,
`dev`, `equal` (vendor, product and release as compared with ours) stay from one device to the
next, as they do in the code: an unread field keeps its old value, and
`IOCreatePlugInInterfaceForService` failing is noticed only by a NULL pointer,
because `kr` is overwritten. `refs` goes to -1 where the code releases twice
(`WriteFails`). `iter`, `armed` and `message` are the protocol of IOKit's matching
notifications: only a walk to the end of the iterator arms the next message.

### `BulkTest`: FindInterfaces and the completions (usb-notifier.c:171-416)

Both builds, `sync` and `async`, chosen in `TestInit`. The asynchronous transfers are
done by the controller at any time, the completion routines are called by the run
loop; all devices share `gBuffer`, which a write overwrites before it is started, and
also if it cannot be (`WriteAsyncFails`). `shared` is history: the devices whose transfers
overlapped another's, or another's attempt. `UsbDevices` holds the two constants that the modules of
usb-notifier.c have in common.

### `CreateLocation` (create-location.py)

Runs that copy the Automatic set in a session of their own, and an editor. A
store is sets and services with links between them. `CopyService` is one pass of
the loop that replaces links, `StoreSet` maps the order; dangling links and orders
raise KeyError. The editor configures all services (what set-proxy does) or removes one. A run that has
committed and cannot apply ends with exit status 1 and a message of its own
(`"not applied"`).

### `ImageTests`, `ImageChecks` (run_image_tests.py, macdmgtest.py, dmgtestutilities.py, tests/)

`ImageTests` is `main()` from the options to the exit status. `GetTestSuite` takes the
first Test class of a module, because it returns inside its loop. `Abort` is any uncaught
exception or interrupt, at every point. `StatusModulus` is the 256 of exit statuses.

`ImageChecks` composes it with the tests of eight of the modules in `tests/`: `Bad` says,
module by module, of each test whether it fails on the tree that the mount point leads to. `PathOnDMG` makes a
path of the host from one on the image; `exists` is of the host. `find` prints nothing of a
directory that is missing or cannot be listed, nor of what is below a mount point that is a
symbolic link, and nobody asks for its error code: `Found` is what it comes upon. The tests
for setuid and writable files cut as many characters off a line of `ls`, from its first slash
on, as the mount point has. That gives the path on the image only for an absolute root other
than `/`; `Peeled` says which paths the whitelist lets pass, with `CutPrefixes` for the paths
as long as the first name of a relative root. A site's own test modules may find anything.

### `DirectoryServices` (pymacds/__init__.py)

Scripts in calls made of a read, a modification and a cache flush, one command
each. `disturbed` is history: another script has changed the path since the call
began.

### `Keychain` (Keychain.py, airport-update.py, keychain-delete.py, keychain-update.py)

Items have numbers, so that one added again is another item. Programs find, read
the label, update or delete; keychain-update of the examples searches and modifies once for
each of its servers and stops at the first failure; a script uses the methods of an
`InternetPassword` object. Other programs add, change, rename and drop items between any two
calls. Where the framework may report a vanished item as either error, both are there.
`found` is history: the item a program last found to change, and the name it had then.
`own` is history: the items a program has found to update and that nobody else has
changed since.

### `WtfUpdate` (wtfUpdate.py)

`main()` with `expand_pkg`, `load_scripts`, `get_file_list` and the report, in the order the
`try` and `finally` give them; each step may fail. A path is a sequence of names, and a
nested dictionary is the set of its paths of keys: `merge_list` adds a path and those above
it, line by line, and `get_list_for_key` lists what is under a key. `BomListing` has the
dictionaries and the two recursions as the code has them; its assumption, which TLC evaluates
for every listing of the instance, says that both come to the same list.
`Undotted` is what `lstrip("./")` makes of a first name: a hidden file loses its dot. Nothing
gives the list the class "cleaned", so each Bom empties it again (`GetFileList`). `Printed`
is what lsbom may print of a Bom before it fails, its exit status being ignored: whole lines,
a directory's before those of what is in it. `short` is history: whose Boms were cut short.

## 3. The runs

| run | module | distinct states | shows |
|---|---|---|---|
| sc_events | ScEvents | 3,328 | whatever the order and the exceptions, a handler runs at most twice for a key, a call that returns has dropped no key and has mixed no two loops, each change is served or an exception reported; the code implements EventDelivery with its fairness |
| sc_twice | ScEvents | (violation) | the comment on the second loop is not what it does |
| crankd | Crankd | 39,271 | the configuration used never changes its place, all of it is registered, SIGHUP restarts and does not kill a serving daemon, each event is taken unless a command hangs, and crankd comes back whenever the file in the end is acceptable, unless starting fails time and again for other reasons; nobody's configuration is overwritten but in one race |
| crankd_example | Crankd | (violation) | a configured command is not always run |
| proxy | ProxyManager | 523,916 | the proxy is as the network calls for whenever the handler is done and nothing waits for it, and in the end for good, unless an error was logged or the move was not reported; the clients implement Preferences |
| usb | UsbNotifier | 611,990 | who is written to, that what comes back runs all of the firmware, who owns the interface, that the run loop never waits with an arrival unannounced, and that arrivals are taken |
| bulk_test | BulkTest | 9,927 | interfaces are given back once, in both builds; the text printed is the text sent unless transfers overlap |
| locations | CreateLocation | 18,200 | two runs for one name and an editor: names stay unique, the status is true, each commit adds one whole location to what is stored by then (Preferences) |
| image_tests | ImageChecks | 56,328 | the image is detached unless the program was cut short; what status 0 means of the tests, and of the tree that was tested |
| search_paths | DirectoryServices | 154,744 | a call that returns has done what its name says, and no node is in a path twice, unless another script came between |
| keychain | Keychain | 1,058,646 | only what was asked for is changed; status 0 of the programs that delete and that update is true |
| package_report | WtfUpdate | 11,997 | what is left behind after a failure at any step; what a report with status 0 contains |

All but the two violations pass. `CHECK_DEADLOCK FALSE` stands where the modelled
system stops: programs exit, events or devices run out at their bounds.

### The two disagreements

* **sc_twice.** crankd.py:218 says "If there's no exact match, go through the list
  again assuming regex". When one key of the array has no handler of its own, all
  keys are matched again, and a handler found by its exact name is called a second
  time for the same key (line 219).
* **crankd_example.** ReadMe.rst:6-7 promises a command "in response to many
  system events", and the example configuration has commands for sleep and wake.
  These notifications have no `userInfo`, so line 596 takes the items of None and
  raises AttributeError before the command is started.

### Where the properties make an exception

An exception in a property names what the code does not deliver; each is in the
module's comment with its line.

* `ExactOrEvery`: handlers found by name shadow patterns for the same array.
* `ConfigurationKept`: a configuration installed between `exists` and `open` is
  overwritten by the example; a signal or a failed write during the dump leaves an empty or
  partial file in the way of every later start.
* `KeepsServing`: crankd may fail to start for ever with an acceptable file, because a
  file cannot be read or written (crankd.py:350, 359), a handler's constructor raises (204)
  or FSEvents gives no stream (509-518).
* `Settled`, `FollowsNetwork`: a move between the constructor's look at the network and the
  registration is not reported to anybody; a run of set-proxy for SOCKS stays until the
  machine moves next.
* `ArrivalAnnounced`: if the notification cannot be set up (usb-notifier.c:567), the program
  waits for ever for devices nobody announces. `ArrivalIsTaken` speaks of devices that are in
  the iterator, which then stays empty: it says nothing of such a run.
* `InterfaceGivenBack`: a failed record write releases a device interface twice.
* `ZeroMeansSuccess`: 256 bad tests are status 0; all Test classes of a module but the
  first are left out.
* `StatusTellsResult`: exit status 1 also ends a run that has stored its location and could
  not apply it; only the message tells (create-location.py:108).
* `CallHolds`: it speaks of the path that the name of a function says. The docstring of
  `EnsureContactsNodeAbsent` (pymacds/__init__.py:179) promises a node "absent from the
  /Search path"; the code reads and changes /Search/Contacts, and leaves /Search alone.
* `OnlyAskedChanged`: an item is found by its names and changed by its reference, so that one
  that somebody has renamed in between is changed under its new names. What airport-update
  asks for is less than it says: "Updates the System keychain to replace the existing password
  for the specified SSID" (airport-update.py:6-7), while the code asks for an account of that
  name, of any service (line 32), and in all keychains unless it is run by root.
* `DeleteStatus`: says nothing of exit status 1, after which the item may be deleted as well
  (the import of CFRelease comes after the deletion, Keychain.py:239).
* `SuccessMeansClean`: a `preferences.plist` without settings is not noticed on an image,
  because network_plist_test.py:42 puts the mount point in front of a path that has it
  already. Nothing is said of what `find` does not come upon. Under a relative `--root` the
  cut takes the beginning of the path on the image with it, so that a setuid or writable file
  passes if what is left is whitelisted; zz_world_writable_test.py:37-38 says "with the base
  path to the root peeled off". (With `--root /` the opposite happens: one character too many
  is cut off, and every such file is reported, whitelisted or not.)
* `UpdateStatus`: airport-update compares a password it has read earlier, and may leave an
  item that somebody has changed back.
* `ReportComplete`: each Bom empties the list of the one before, so the files of only one
  are in the report, although wtfUpdate.py:6-7 promises "a list of the installed files", and
  none if the one listed last belongs to a sub-package without a Bom; where lsbom fails, files
  are missing without a word; a component package's own scripts are not in it (a sub-package
  without a Scripts directory is an error instead); hidden files lose their dot.

### Bounds, and why they are enough

* ScEvents: three keys (one with a handler of its own, one matched by a pattern
  too, one by patterns only), four names, both exceptions. The loops treat keys
  independently but for the restart, which needs one key before, at and after it.
  The theorems remove the bound.
* Crankd: `MaxWrites` 2 and `MaxHups` 2: an edit before and one after any step, a
  signal during a restart caused by a signal. Eight configurations with the example, each
  of the others failing at another point of registration, or in none; an event waits once
  however often it occurs, so that events, restarts and relaunches are not bounded.
* ProxyManager: `MaxMoves` 2 (there and back during one update), one run of set-proxy,
  `MaxEdits` 2 (a bare service comes and goes). Crashes and relaunches are not bounded.
* UsbNotifier: `NRecords` 2 (a download that breaks off in the middle), `MaxPlugs` 2, a
  device that is ours and one that differs in a field.
* BulkTest: three devices; each is tested once, as the program gets one first-match
  notification for it.
* CreateLocation: two runs for one name, `MaxEdits` 2 (before and after a commit), five
  stores (sound, order with a stray service, dangling link, name taken, no Automatic
  location).
* ImageChecks: the eight modules of tests that are modelled, and a site's module with two
  Test classes; trees with at most two things wrong or out of sight, which may hide each
  other (a directory that cannot be listed over a file that is not whitelisted); a relative
  root as long as `/opt`; `StatusModulus` 3 stands for 256, so
  that three bad tests are status 0.
* DirectoryServices: two scripts, nodes and paths, `MaxNodes` 2 entries, room for a
  duplicate.
* Keychain: two keychains, five names of both classes, `MaxAdds` 2 items ever: the item found
  and a later one of the same names, or items for two of keychain-update's three queries, one
  of which somebody may rename in time for the third.
* WtfUpdate: every listing of a tree of seven paths with a hidden one, for one sub-package;
  three listings each for two, or for one of them, with and without the package's own; scripts that are files, directories, empty or unreadable.

### Fairness, and why the code justifies it

* ScEvents: weak fairness of `Callback` and `Step`: the run loop serves a source that
  is ready, and handlers end. Nothing makes the store change.
* Crankd: weak fairness of start-up, of Python handlers ending (`Call`), of signals being
  noticed (the timer) and of launchd (KeepAlive in the example LaunchDaemon); strong
  fairness of dispatching each event, because a run loop looks at all of its sources in each
  pass, and a source that is ready in pass after pass is not passed over for ever. Nothing
  makes an event, a signal or an edit happen. Nothing makes a command end, since
  `subprocess.call` has no timeout: `ServedUnlessHung` names that case. Nothing keeps
  starting from failing each time launchd tries either: `KeepsServing` names that one.
* ProxyManager: weak fairness of the handler's steps and of crankd; set-proxy may
  stop anywhere.
* UsbNotifier: weak fairness of the program's one thread.
* The others have safety properties only.

## 4. The proofs

TLAPS proves the following for all values of the constants under the named
assumptions of the modules. The bounds of the models (`MaxWrites`, `MaxNodes`, ...) are
constants, so that no theorem depends on their values.

* **`ScEventsProofs`** (from `KeysAssumption`: Keys is finite; `MatchAssumption`;
  `DialectAssumption`: what configd matches, `re.match` accepts; `RaisesAssumption`).
  The three invariants about calls are not inductive: that a call which returns
  dropped nothing depends on where the loops have been. `CallsAccount` says so:
  `WellFormed` (the array has no repetitions, the position is in it),
  `ExactAccount` (in the first loop, exactly the keys behind the position have been
  called, once) and `RegexAccount` (in the second, every matching handler behind the
  position has been called, and others at most once, under their own name). With
  `TypeOK` it is inductive; `NoKeyDropped`, `AtMostTwice` and `ExactOrEvery` are proved
  along with it, since they speak of the state after the loops. From it,
  `DeliveryRefined` shows step by step that ScEvents implements `EventDelivery` without
  its fairness: the first call for a key is `Serve`, a second one stutters.
* **`CrankdProofs`** (from `DirsAssumption`, `FileAssumption`, `BoundsAssumption`).
  `SameConfigurationFile` needs `Anchored`: only a process about to parse can still have a
  relative argument, and it stands where it was started. `FullyRegistered` needs
  `Registered`, what has been registered by each point of `main()`. `HupNeverKillsService`
  needs `Caught`: from the installation of the handler to the exec, SIGHUP is caught.
  `ConfigurationKept` needs `Creating`: while crankd creates the file it is missing, then
  empty, unless somebody has changed it; of the steps that leave the dump, only the one that
  has written it all goes on. `TypeOK` needs `Occurred` (nothing is listened for
  before its section is registered) and `OneCalled`.
* **`ProxyManagerProofs`** (from `BoundsAssumption`). That the two clients implement
  `Preferences` needs `Sound`: what a client would commit is what is stored but for one
  protocol, as long as the signature is the one it has read; no commit passes on another.
  `Settled`, the part of `FollowsNetwork` that needs no fairness, needs `Follows`: what the
  handler has read, edited or committed is what the network called for when it looked, unless
  a move waits or was missed; and a commit of set-proxy that passes leaves the SOCKS proxy as
  it is, or is `overridden`.
  `TypeOK` is proved (handle_sc_event calls the handler at most twice for a notification).
* **`CreateLocationProofs`** (from `LocationAssumption`: names are unique in the stores before
  the first run, and no service is named as a copy). The same argument with more in it:
  `Working` says of a run whose signature is still the stored one how far its copy has come
  (`Plus`: the services copied so far; the draft with the links exchanged so far). At the
  commit that is a whole location, which gives the refinement, and unique names with it. That
  `StatusTellsResult` holds follows from which steps commit: no other step, of a run or of the
  editor, adds or removes a location.
* **`KeychainProofs`** (from `KeychainAssumption`). Other programs act between any two steps, so
  the invariant says of an item only what nobody else can undo: its keychain and the name it
  had when it was found (`Matched`), that it is gone once deleted, as numbers are not given twice (`Deleted`), and
  the password of the items a program alone has touched (`Owned`). `ItemsChange(by)` is what
  any step of some programs does to the items of the others; each action is shown to be one
  that keeps its own program's part (`Acts`), and `Composed` puts the two together.
* **`UtilitiesProofs`**, `run_image_tests.py` (from `ImageAssumption`). `Collects` (the suite
  has the tests of the modules gone through), `Whole` and `AllRun` say what has been run when
  the status is computed; `Mounted` says what is attached at each point.
  For `SuccessMeansClean` (from `ChecksAssumption`: the tests are in the test directory, each
  in the first class of its module, and paths are sequences of names) the invariant is
  `Recorded`: of the tests that have been run, those are bad that `Bad` says are. At the end
  all of them have been run, so none fails on the tree; `GoodMeansClean` then takes them one
  by one back from paths of the host to paths on the image, which `Cancel` allows, for what
  `find` comes upon.
* **`UtilitiesProofs`**, `wtfUpdate.py` (from `PackagesAssumption`: Boms are finite, and list
  the directories above a file). `ContentsAre` and `ListForKeys` say what the two loops make
  of the lines of a Bom, in whatever order they come; `FilesClosed` that taking the dots away
  leaves the listing complete. `Reported` says of each stage which sub-packages' scripts are
  in the list (`Loaded`) and which Bom is, as far as lsbom printed it (`LastListed`), `Behind` what a failure has left.
* **`UsbProofs`**, `UsbNotifier` (from `UsbAssumption`: the devices are finitely many, the bounds
  naturals, and at least one record is downloaded; `DevicesAssumption`). `Stage` says what
  `RawDeviceAdded` holds at each of its calls: the plug-in, the one reference to the interface,
  open or not, and that past the comparison every field that was read is ours. With it and
  `TypeOK`, `WholeFirmware` is inductive (the image grows by one record while the device is in
  reset), and the action properties `InterfaceGivenBack` and `OnlyOursWritten` follow for each
  step. The flags that the code tests and sets are shown to stay Boolean first
  (`FlagsBoolean`). `ArrivalAnnounced`, the safety half of `ArrivalIsTaken`, is inductive with
  two facts more (`Listening`): outside the run loop nothing is armed and no message waits, and
  an armed notification has sent none.
* **`UsbProofs`**, `BulkTest` (from `NoneAssumption`, `DevicesAssumption`). `TestTypeOK` and
  `InterfaceOwned` hold only together, because `CloseAndRelease` counts down, and with
  `TestStage`, which says what is held at each point of `FindInterfaces`.
  `OriginalDataUnlessShared` needs `Alone`: one whose transfers overlap no other's has the
  buffer to itself, and the contents of the buffer and the device follow from how far they are.
* **`DirectoryServicesProofs`** (from the assumption of `DirectoryServices`).
  `DuplicateOnlyByRace` needs `ReadHolds`: what a call has read stays true until it modifies,
  unless another script changed the path; `CallHolds` needs `ModifiedHolds` too, the same of what
  it has modified until it returns. `DeletedPath` is the lemma about `dscl -delete`: the node
  is gone from the path, and nothing else is.

A recursive function over 0 .. n (`Deleted`, `get_bom_contents`) is proved about in two steps.
First the function exists, so that its definition, a CHOOSE, satisfies its equation; then the
equation gives the result for each length. Both are inductions, and `SetInduction` states
induction of a set of naturals, without an operator for the statement: a set with 0 and the
successor of each of its members has them all, because the naturals are well-founded.

Only model-checked: everything temporal under fairness (`ChangeIsServed`, `HupRestarts`,
`KeepsServing`, `ServedUnlessHung`, `FollowsNetwork`, `ArrivalIsTaken`, the fairness part of
`ImplementsDelivery`), which the prover does not reach; and the agreement of `BomListing` with
`WtfUpdate`, because the prover cannot open RECURSIVE operators, nor do induction over
dictionaries of any depth.

## 5. What is not modelled, and what was assumed

* `fsevent_callback`, `cond_restart`: never called at this commit. `add_conditional_restart`
  encodes its file names (line 613) while configured paths are `str`: if the FSEvents
  section has an entry, joining the keys for a log message raises TypeError (521) and
  crankd cannot start, which `StartFsEventsFails` models; if not, `str()` of bytes (503)
  names paths that do not exist. Were the callback called, `recursive` would be forgotten
  unless the last flag is set (542), siblings whose names begin alike would be found (545),
  the modification time compared with would be taken late (616), and a command of this
  section would be given its context twice.
* Options of crankd other than `--config` and how it lists events; the content of events
  and the names `create_env_name` gives to a command's environment.
* usb-notifier's callbacks for the BulkTest device and for removals, and `hex2c.h`, are
  not in the repository: they are external, known from how the file uses them.
* `exec` is assumed to succeed (crankd.py:631; were it to fail, OSError would leave the
  callback), and so is the creation of a preferences session. crankd does not look at what
  SCDynamicStoreSetNotificationKeys returns (line 462); it is taken for success.
* The servers and ports of proxies: a proxy is on or off.
* pymacds' functions on records and groups are one command each, without a second step;
  `RunProcess`'s `env` and `sudo`, which no function passes (it would change `os.environ`
  for all later commands, line 72).
* Of the image tests: `size_test`, `applications_dir_test`, `ouradmin_test`,
  `software_update_test` and `example_plist_test`, each of which compares one number,
  listing or value with a constant. (`size_test` looks a relative `--dmg` up after `chdir`
  and raises; what zz_suidguid_test.py:94 would print for the whitelist is never printed.)
* In wtfUpdate, the description and the texts of scripts, that a file's or directory's
  name is made into an anchor, and a line of lsbom that is cut in the middle.
* proxy-setenv prints one dictionary; the constants of Security are constants;
  delete-certificate imports a name that does not exist; generate-event-plist writes a
  configuration out; the installation scripts copy files.

Met while reading, and left in the models as the code has it: a class in the
SystemConfiguration section is rejected although the parser's messages offer it; set-proxy
reports failure and exits with 0; a relative `--root` means another directory after
`chdir`; `remove` ignores the keychain it is called on; ReadCompletion leaves its interface
open; a configuration whose handler is in a package is rejected, or gets the attribute of
that name from the top-level package (crankd.py:188).

## 6. The plan

Done: the core (ScEvents, Crankd with its handlers and commands, ProxyManager), the device
and preferences programs with an abstract store that two of them implement, pymacds' search
paths, Keychain and its programs, the disk image tests composed with their runner,
wtfUpdate, and the proofs above. Next, in this order:

1. **A composition** of ScEvents with the handler of ProxyManager, in which the second call
   after a KeyError comes from ScEvents itself.
2. **Proofs** about it.
3. `fsevent_callback` and `cond_restart`, once they are called.
