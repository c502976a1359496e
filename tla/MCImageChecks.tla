--------------------------- MODULE MCImageChecks ---------------------------
(***************************************************************************)
(* The tests of eight of the modules that come with the runner, and those  *)
(* of a site's module with two Test classes, on a clean tree and on trees  *)
(* with one or two things wrong or out of sight. Exit statuses have three  *)
(* values here, so that the status of three bad tests wraps to 0; the      *)
(* first name of a relative --root is as long as "/opt".                   *)
(***************************************************************************)
EXTENDS ImageChecks

MCModules == <<"blacklist_test", "empty_directory_test", "network_plist_test", "site_test",
               "skipsetup_test", "symlink_checker_test", "zz_plint_test", "zz_suidguid_test",
               "zz_world_writable_test">>

MCClasses ==
    [blacklist_test |-> <<"TestBlacklists">>, empty_directory_test |-> <<"TestEmptyDirectories">>,
     network_plist_test |-> <<"TestNetworkAirbookCompliant">>,
     site_test |-> <<"TestSite", "TestSiteToo">>,
     skipsetup_test |-> <<"TestEnsureAppleSetupWillNotRun">>,
     symlink_checker_test |-> <<"TestSymlinks">>, zz_plint_test |-> <<"TestLintPlistsOnDMG">>,
     zz_suidguid_test |-> <<"TestSUIDGUIDFiles">>,
     zz_world_writable_test |-> <<"TestWritableDirectoriesAndFiles">>]

MCMethods ==
    [TestBlacklists |-> <<"testBlacklistedDirectories">>,
     TestEmptyDirectories |-> <<"testEmptyDirectories">>,
     TestNetworkAirbookCompliant |->
       <<"testEnsureNoCurrentSet", "testEnsureNoNetworkServices", "testEnsureNoSets",
         "testNetworkPlistIsAbsent", "testSystemPreferencesPlistIsAbsent">>,
     TestSite |-> <<"testSite">>, TestSiteToo |-> <<"testSiteToo">>,
     TestEnsureAppleSetupWillNotRun |-> <<"testAppleSetupDone", "testSetupRegCompletePresent">>,
     TestSymlinks |-> <<"testForSymlinksToOtherVolumes">>, TestLintPlistsOnDMG |-> <<"testPlistsOnDMG">>,
     TestSUIDGUIDFiles |-> <<"testForUnknownSUIDsAndGUIDs">>,
     TestWritableDirectoriesAndFiles |-> <<"testForWorldWritableFilesOrDirectories">>]

Sleepimage == <<"var", "vm", "sleepimage">>
Su == <<"usr", "bin", "su">>
OptSu == <<"opt">> \o Su
Caches == <<"Library", "Caches">>
Disk == <<"Library", "Disk">>

MCBlacklist == {Sleepimage, Caches, <<>>}
MCSuidWhitelist == {Su}
MCCutPrefixes == {<<"opt">>}
MCPlistNames == {"NetworkInterfaces.plist", "preferences.plist", "Dock.plist"}

CleanTree ==
    [Nothing EXCEPT !.paths = EmptyDirectories \cup {AppleSetupDone, SetupRegComplete},
                    !.links = {<<<<"var">>, <<"private", "var">>>>, <<<<"Disk">>, <<"Volumes", "Disk">>>>}]

With(one, paths) == [one EXCEPT !.paths = @ \cup paths]
Dock == <<"Library", "Dock.plist">>

Without(path) == [CleanTree EXCEPT !.paths = @ \ {path}]

OneFault ==
    {CleanTree,
     With(CleanTree, {Sleepimage}), With(CleanTree, {Caches}),
     [CleanTree EXCEPT !.paths = {}],
     Without(<<"Volumes">>), Without(AppleSetupDone), Without(SetupRegComplete),
     [With(CleanTree, {Su}) EXCEPT !.suid = {Su}],
     [With(CleanTree, {Dock}) EXCEPT !.suid = {Dock}],
     [With(CleanTree, {OptSu}) EXCEPT !.suid = {OptSu}],
     [CleanTree EXCEPT !.writables = {Caches}],
     [CleanTree EXCEPT !.links = {<<<<"Disk">>, <<"..", "..", "Volumes", "Disk">>>>}],
     [CleanTree EXCEPT !.links = {<<Disk, <<"", "Volumes", "Disk", "x">>>>}],
     [With(CleanTree, {Dock, Su}) EXCEPT !.invalid = {Dock, Su}],
     [With(CleanTree, {Su}) EXCEPT !.invalid = {Su}],
     With(CleanTree, {NetworkInterfaces}), With(CleanTree, {Preferences}),
     [CleanTree EXCEPT !.unlisted = {<<"Library">>, <<"opt">>}],
     [CleanTree EXCEPT !.unlisted = {<<"Volumes">>}],
     [CleanTree EXCEPT !.unfollowed = {<<>>}]}
    \cup {[With(CleanTree, {Preferences}) EXCEPT !.settings = {key}] :
            key \in {"CurrentSet", "NetworkServices", "Sets", "System"}}

Both(one, other) == [field \in DOMAIN one |-> one[field] \cup other[field]]

MCTrees == OneFault \cup {Both(one, other) : one \in OneFault, other \in OneFault}

=============================================================================
