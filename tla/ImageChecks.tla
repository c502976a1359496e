---------------------------- MODULE ImageChecks ----------------------------
(***************************************************************************)
(* The tests that come with run_image_tests.py: what macdmgtest.py,        *)
(* dmgtestutilities.py and the modules of tests/ find in the tree that the *)
(* mount point names, composed with the runner. A site's own tests may     *)
(* find anything.                                                          *)
(*                                                                         *)
(* A path is a sequence of names. The tests build paths of the host, which *)
(* begin with the mount point, from paths on the image.                    *)
(***************************************************************************)
EXTENDS ImageTests

CONSTANTS
    Trees,              \* what the image, or the directory, may hold
    Blacklist,          \* file_and_directory.blacklist: paths
    SuidWhitelist,      \* suidguid.whitelist
    WritablesWhitelist, \* writables.whitelist
    PlistNames,         \* the names that end in .plist
    CutPrefixes         \* paths as long as the first name of a relative --root,
                        \* a slash before each name counted

\* A tree is [paths      |-> its files and directories that can be reached,
\*            suid       |-> the setuid and setgid files, writables |-> ...,
\*            links      |-> pairs of a symbolic link's path and its target,
\*            invalid    |-> what plutil -lint refuses,
\*            settings   |-> the keys of preferences.plist,
\*            unlisted   |-> the directories that cannot be listed,
\*            unfollowed |-> {<<>>} if the mount point is a symbolic link].
\* The names of EmptyDirectories are directories, if they are there.
VARIABLE tree   \* what the mount point leads to when the tests run

\* The names of the tests.
Bundled ==
    {"testBlacklistedDirectories", "testForUnknownSUIDsAndGUIDs",
     "testForWorldWritableFilesOrDirectories", "testForSymlinksToOtherVolumes",
     "testPlistsOnDMG", "testEmptyDirectories", "testAppleSetupDone",
     "testSetupRegCompletePresent", "testNetworkPlistIsAbsent",
     "testSystemPreferencesPlistIsAbsent", "testEnsureNoCurrentSet",
     "testEnsureNoNetworkServices", "testEnsureNoSets"}

\* They are in the test directory, each in the first class of its module; paths
\* and targets are sequences of names, the root directory is no plist, and the
\* whitelists have no empty line.
ASSUME ChecksAssumption ==
    /\ Bundled \subseteq UNION {Range(Methods[c]) : c \in FirstClasses}
    /\ \A t \in Trees :
         /\ \A p \in t.paths \cup {link[2] : link \in t.links} : p \in Seq(Range(p))
         /\ <<>> \notin t.invalid
    /\ <<>> \notin SuidWhitelist \cup WritablesWhitelist

Nothing ==
    [paths |-> {}, suid |-> {}, writables |-> {}, links |-> {}, invalid |-> {}, settings |-> {},
     unlisted |-> {}, unfollowed |-> {}]

Mountpoint == IF option = "/" THEN <<>> ELSE <<mountpoint>>

exists(path) == \E p \in tree.paths : path = Mountpoint \o p

-----------------------------------------------------------------------------
(* macdmgtest.                                                             *)

\* The path's own slashes go, whatever the path is.
PathOnDMG(path) == Mountpoint \o path

CheckForExistence(filename) == filename # <<>> /\ exists(PathOnDMG(filename))

-----------------------------------------------------------------------------
(* The tests: TRUE is an error or a failure. ProcessCommand runs find, and *)
(* nobody looks at its errorcode: what find does not come upon is not      *)
(* there, a missing root included.                                         *)

\* Nobody comes upon what is in a directory that cannot be listed, and find does
\* not follow the mount point itself.
Listable(p) == (Prefixes(p) \ {p}) \cap tree.unlisted = {}
Found(p) == Listable(p) /\ Prefixes(p) \cap tree.unfollowed = {}

\* Mutant: the slashes before the blacklist's paths are not removed, and
\* os.path.join forgets the mount point.
BlacklistTestsOfHost == [testBlacklistedDirectories |-> \E d \in Blacklist \ {<<>>} : exists(d)]

BlacklistTests == [testBlacklistedDirectories |-> \E d \in Blacklist : CheckForExistence(d)]

\* The paths of which the whitelist has what is left: from the first slash of
\* ls's line on, as many characters are cut off as the mount point has. That is
\* one too many if it is "/"; a relative one has a first name before that slash,
\* and as many characters more are cut off, which may be whole names.
CutTo(whitelist) == {prefix \o rest : prefix \in CutPrefixes, rest \in whitelist}
Peeled(whitelist) ==
    CASE option = "/" -> {}
      [] option = "relative root" -> CutTo(whitelist)
      [] OTHER -> whitelist

Unlisted(files, whitelist) == \E p \in files : Found(p) /\ p \notin Peeled(whitelist)

SuidTests == [testForUnknownSUIDsAndGUIDs |-> Unlisted(tree.suid, SuidWhitelist)]
WritableTests ==
    [testForWorldWritableFilesOrDirectories |-> Unlisted(tree.writables, WritablesWhitelist)]

\* "/Volumes/" anywhere in a target, whose first name may be "" or "..".
SymlinkTests == [testForSymlinksToOtherVolumes |->
    \E link \in tree.links : Found(link[1]) /\ \E i \in 2 .. Len(link[2]) - 1 : link[2][i] = "Volumes"]

\* os.path.walk goes on after a directory it cannot list.
PlintTests == [testPlistsOnDMG |->
    \E p \in tree.paths \cap tree.invalid : p # <<>> /\ Listable(p) /\ Last(p) \in PlistNames]

\* os.listdir, which raises OSError if there is no directory to list.
DirectoryEmpty(dirname) ==
    /\ exists(PathOnDMG(dirname)) /\ dirname \notin tree.unlisted
    /\ \A p \in tree.paths \ {<<>>} : Mountpoint \o Front(p) # PathOnDMG(dirname)

EmptyDirectories == {<<"var", "vm">>, <<"private", "tmp">>, <<"Volumes">>, <<"Library", "Logs">>}
EmptyDirectoryTests == [testEmptyDirectories |-> \E d \in EmptyDirectories : ~DirectoryEmpty(d)]

AppleSetupDone == <<"var", "db", ".AppleSetupDone">>
SetupRegComplete == <<"Library", "Receipts", ".SetupRegComplete">>
SkipSetupTests ==
    [testAppleSetupDone |-> ~CheckForExistence(AppleSetupDone),
     testSetupRegCompletePresent |-> ~CheckForExistence(SetupRegComplete)]

SystemConfiguration == <<"Library", "Preferences", "SystemConfiguration">>
NetworkInterfaces == Append(SystemConfiguration, "NetworkInterfaces.plist")
Preferences == Append(SystemConfiguration, "preferences.plist")

\* ReadPlist gives nil for a file that is not there.
ReadPlist(path) == IF exists(path) THEN tree.settings ELSE {}

\* system_pref_path is a path on the image already when CheckForExistence makes
\* it one: only under "/" does the second test look at the file it names.
NetworkTests ==
    LET system_pref_path == PathOnDMG(Preferences)
        sys_prefs == ReadPlist(system_pref_path)
    IN  [testNetworkPlistIsAbsent |-> CheckForExistence(NetworkInterfaces),
         testSystemPreferencesPlistIsAbsent |-> CheckForExistence(system_pref_path),
         testEnsureNoCurrentSet |-> "CurrentSet" \in sys_prefs,
         testEnsureNoNetworkServices |-> "NetworkServices" \in sys_prefs,
         testEnsureNoSets |-> "Sets" \in sys_prefs]

Bad == {BlacklistTests, SuidTests, WritableTests, SymlinkTests, PlintTests,
        EmptyDirectoryTests, SkipSetupTests, NetworkTests}

-----------------------------------------------------------------------------
\* Where the relative root of --root leads to after chdir there may be nothing.
CheckedInit ==
    /\ Init
    /\ tree \in Trees \cup IF option = "relative root" THEN {Nothing} ELSE {}

\* The runner, with the results that the tests that come with it have.
CheckedNext ==
    /\ Next
    /\ UNCHANGED tree
    /\ ran' # ran => \A tests \in Bad :
         suite[ran'] \in DOMAIN tests => (suite[ran'] \in bad' <=> tests[suite[ran']])

CheckedSpec == CheckedInit /\ [][CheckedNext]_<<vars, tree>>

-----------------------------------------------------------------------------
\* What the tests are there for, whatever names they go by: exit status 0 without
\* a bad test says of what was tested that everything asked for is there, and of
\* what can be listed that nothing forbidden is; it is never given for a root
\* that leads to nothing, in which most tests find nothing wrong. A relative
\* --root may hide a setuid file under a longer path than the whitelist's, and
\* preferences.plist without settings is noticed only under "/"
\* (network_plist_test.py:42).
Allowed(whitelist) == whitelist \cup IF option = "relative root" THEN CutTo(whitelist) ELSE {}
Clean ==
    /\ Blacklist \cap tree.paths \subseteq {<<>>}
    /\ \A p \in tree.suid : Found(p) => p \in Allowed(SuidWhitelist)
    /\ \A p \in tree.writables : Found(p) => p \in Allowed(WritablesWhitelist)
    /\ \A link \in tree.links : Found(link[1]) /\ "Volumes" \in Range(link[2]) =>
         "Volumes" \in {Head(link[2]), Last(link[2])}
    /\ \A p \in tree.paths \cap tree.invalid : Listable(p) => Last(p) \notin PlistNames
    /\ EmptyDirectories \subseteq tree.paths
    /\ \A p \in tree.paths : Front(p) \notin EmptyDirectories
    /\ {AppleSetupDone, SetupRegComplete} \subseteq tree.paths
    /\ NetworkInterfaces \notin tree.paths
    /\ Preferences \in tree.paths =>
         /\ tree.settings \cap {"CurrentSet", "NetworkServices", "Sets"} = {}
         /\ option # "/"

SuccessMeansClean == status = 0 /\ bad = {} => Clean

=============================================================================
