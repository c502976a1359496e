-------------------------- MODULE UtilitiesProofs --------------------------
(***************************************************************************)
(* Proofs about the programs of utilities/: run_image_tests.py, for any    *)
(* test modules, classes and methods, and whatever the tests find; the     *)
(* tests that come with it, for any tree; and wtfUpdate.py, for any        *)
(* packages.                                                               *)
(***************************************************************************)
EXTENDS ImageChecks, WtfUpdate, FiniteSetTheorems, WellFoundedInduction, TLAPS

First(i) == Head(Classes[Modules[i]])

Typed ==
  /\ index \in 0 .. Len(Modules)
  /\ suite \in Seq(UNION {Range(Methods[c]) : c \in AllClasses})
  /\ aborted \in BOOLEAN /\ attached \in BOOLEAN

\* The suite has the tests of the modules that are done.
Collects == Range(suite) = UNION {Range(Methods[First(i)]) : i \in 1 .. index}

\* The whole suite, and then all of its tests run.
Whole == pc \in {"run", "detach", "report"} => index = Len(Modules)
AllRun == pc \in {"detach", "report"} => ran = Len(suite)

\* What is attached, and what is tested.
Mounted ==
  /\ pc = "start" => ~attached /\ mountpoint = None
  /\ pc \in {"chdir", "collect", "run", "detach"} /\ attached => option = "dmg"
  /\ pc \in {"chdir", "collect", "run", "detach", "report"} /\ option = "dmg" => mountpoint = "image"
  /\ pc \in {"chdir", "collect", "run", "report"} /\ option \in {"root", "/"} => mountpoint = "root"
  /\ pc = "detach" => option = "dmg"
  /\ pc = "report" => ~attached

Ended ==
  /\ pc # "exited" => status = None /\ ~aborted
  /\ status = 0 => pc = "exited"

IInv == Typed /\ Collects /\ Whole /\ AllRun /\ Mounted /\ Ended /\ ImageDetached /\ ZeroMeansSuccess

-----------------------------------------------------------------------------
LEMMA FirstClass ==
  ASSUME NEW i \in 1 .. Len(Modules), Classes[Modules[i]] # <<>>
  PROVE  /\ Modules[i] \in Range(Modules) /\ First(i) \in AllClasses
         /\ Methods[First(i)] \in Seq(Range(Methods[First(i)]))
<1>1. Modules[i] \in Range(Modules)
  BY ImageAssumption DEF Range
<1>2. Classes[Modules[i]] \in Seq(AllClasses)
  BY <1>1, ImageAssumption
<1>3. First(i) \in AllClasses
  BY <1>2 DEF First
<1>. QED
  BY <1>1, <1>3, ImageAssumption

LEMMA RangeConcat ==
  ASSUME NEW S, NEW s \in Seq(S), NEW t \in Seq(S)
  PROVE  Range(s \o t) = Range(s) \cup Range(t)
<1>1. /\ Len(s) \in Nat /\ Len(t) \in Nat /\ Len(s \o t) = Len(s) + Len(t) /\ s \o t \in Seq(S)
      /\ \A i \in 1 .. Len(s) : (s \o t)[i] = s[i]
  OBVIOUS
<1>2. \A j \in 1 .. Len(t) : Len(s) + j \in 1 .. Len(s \o t) /\ (s \o t)[Len(s) + j] = t[j]
  BY <1>1
<1>3. \A i \in 1 .. Len(s \o t) :
        i \in 1 .. Len(s) \/ \E j \in 1 .. Len(t) : i = Len(s) + j
  <2>. TAKE i \in 1 .. Len(s \o t)
  <2>1. CASE i > Len(s)
    <3>1. i - Len(s) \in 1 .. Len(t) /\ i = Len(s) + (i - Len(s))
      BY <1>1, <2>1
    <3>. QED
      BY <3>1
  <2>. QED
    BY <1>1, <2>1
<1>. DOMAIN s = 1 .. Len(s) /\ DOMAIN t = 1 .. Len(t) /\ DOMAIN (s \o t) = 1 .. Len(s \o t)
  BY <1>1
<1>4. \A i \in DOMAIN s : (s \o t)[i] = s[i] /\ i \in DOMAIN (s \o t)
  BY <1>1
<1>5. Range(s) \cup Range(t) \subseteq Range(s \o t)
  BY <1>2, <1>4 DEF Range
<1>6. ASSUME NEW i \in DOMAIN (s \o t) PROVE (s \o t)[i] \in Range(s) \cup Range(t)
  <2>1. CASE i \in 1 .. Len(s)
    BY <1>1, <2>1 DEF Range
  <2>2. CASE \E j \in 1 .. Len(t) : i = Len(s) + j
    BY <1>2, <2>2 DEF Range
  <2>. QED
    BY <1>3, <1>6, <2>1, <2>2
<1>. QED
  BY <1>5, <1>6 DEF Range

LEMMA GetTestSuiteCollects ==
  ASSUME Typed, Collects, GetTestSuite
  PROVE  Typed' /\ Collects'
<1>1. /\ index \in Nat /\ Len(Modules) \in Nat /\ index + 1 \in 1 .. Len(Modules)
      /\ index' = index + 1
  BY ImageAssumption DEF Typed, GetTestSuite
<1>. DEFINE first == First(index + 1)
            Tests == UNION {Range(Methods[c]) : c \in AllClasses}
<1>2. first \in AllClasses /\ Methods[first] \in Seq(Range(Methods[first]))
  BY <1>1, FirstClass DEF GetTestSuite
<1>3. Methods[first] \in Seq(Tests)
  BY <1>2
<1>4. suite' = suite \o Methods[first] /\ suite \in Seq(Tests)
  BY DEF GetTestSuite, First, Typed
<1>5. Range(suite') = Range(suite) \cup Range(Methods[first])
  BY <1>3, <1>4, RangeConcat
<1>6. 1 .. index' = 1 .. index \cup {index + 1}
  BY <1>1
<1>7. Collects'
  BY <1>1, <1>5, <1>6 DEF Collects, First
<1>8. suite' \in Seq(Tests)
  BY <1>3, <1>4
<1>. QED
  BY <1>1, <1>7, <1>8 DEF Typed, GetTestSuite
\* Nothing but the exit status tells an aborted run.
LEMMA Aborts == ASSUME IInv, Abort PROVE IInv'
<1>1. 1 # 0 /\ status' = 1 /\ pc' = "exited" /\ aborted'
  BY DEF Abort, Exit
<1>. QED
  BY <1>1 DEF IInv, Abort, Typed, Collects, Whole, AllRun, Mounted, Ended, ImageDetached, ZeroMeansSuccess

\* At the end the suite has the tests of the first class of every module.
LEMMA WholeSuite ==
  ASSUME IInv, pc = "report"
  PROVE  Range(suite) = UNION {Range(Methods[c]) : c \in FirstClasses}
<1>1. index = Len(Modules) /\ Len(Modules) \in Nat
  BY ImageAssumption DEF IInv, Whole
<1>2. Range(Modules) = {Modules[i] : i \in 1 .. index}
  BY <1>1, ImageAssumption DEF Range
<1>3. FirstClasses = {First(i) : i \in 1 .. index}
  BY <1>2 DEF FirstClasses, First
<1>. QED
  BY <1>3 DEF IInv, Collects

LEMMA Preserved == IInv /\ [Next]_vars => IInv'
<1>. SUFFICES ASSUME IInv, [Next]_vars PROVE IInv'
  OBVIOUS
<1>1. CASE AttachDiskImage
  BY <1>1 DEF AttachDiskImage, IInv, Typed, Collects, Whole, AllRun, Mounted, Ended,
              ImageDetached, ZeroMeansSuccess
<1>2. CASE AttachFails
  BY <1>2 DEF AttachFails, Exit, IInv, Typed, Collects, Whole, AllRun, Mounted, Ended,
              ImageDetached, ZeroMeansSuccess
<1>3. CASE UseRoot
  BY <1>3 DEF UseRoot, IInv, Typed, Collects, Whole, AllRun, Mounted, Ended,
              ImageDetached, ZeroMeansSuccess
<1>4. CASE RootMissing
  <2>1. status' # 0
    BY <1>4 DEF RootMissing, Exit
  <2>. QED
    BY <1>4, <2>1 DEF RootMissing, Exit, IInv, Typed, Collects, Whole, AllRun, Mounted, Ended,
                      ImageDetached, ZeroMeansSuccess
<1>5. CASE Chdir
  BY <1>5 DEF Chdir, IInv, Typed, Collects, Whole, AllRun, Mounted, Ended,
              ImageDetached, ZeroMeansSuccess
<1>6. CASE GetTestSuite
  BY <1>6, GetTestSuiteCollects DEF GetTestSuite, IInv, Whole, AllRun, Mounted, Ended,
                                    ImageDetached, ZeroMeansSuccess
<1>7. CASE Collected
  BY <1>7 DEF Collected, IInv, Typed, Collects, Whole, AllRun, Mounted, Ended,
              ImageDetached, ZeroMeansSuccess
<1>8. CASE RunTest
  BY <1>8 DEF RunTest, IInv, Typed, Collects, Whole, AllRun, Mounted, Ended,
              ImageDetached, ZeroMeansSuccess
<1>9. CASE RunEnds
  BY <1>9 DEF RunEnds, IInv, Typed, Collects, Whole, AllRun, Mounted, Ended,
              ImageDetached, ZeroMeansSuccess
<1>10. CASE DetachDiskImage
  BY <1>10 DEF DetachDiskImage, IInv, Typed, Collects, Whole, AllRun, Mounted, Ended,
               ImageDetached, ZeroMeansSuccess
<1>11. CASE Report
  <2>1. ZeroMeansSuccess'
    BY <1>11, WholeSuite DEF Report, Exit, IInv, AllRun, Mounted, Ended, ZeroMeansSuccess, FirstClasses
  <2>. QED
    BY <1>11, <2>1 DEF Report, Exit, IInv, Typed, Collects, Whole, AllRun, Mounted, Ended, ImageDetached
<1>12. CASE ChdirFails \/ GetTestSuiteFails \/ DetachFails \/ KeyboardInterrupt
  BY <1>12, Aborts DEF ChdirFails, GetTestSuiteFails, DetachFails, KeyboardInterrupt
<1>13. CASE UNCHANGED vars
  BY <1>13 DEF vars, IInv, Typed, Collects, Whole, AllRun, Mounted, Ended,
               ImageDetached, ZeroMeansSuccess
<1>. QED
  BY <1>1, <1>2, <1>3, <1>4, <1>5, <1>6, <1>7, <1>8, <1>9, <1>10, <1>11, <1>12, <1>13 DEF Next

LEMMA Initially == Init => IInv
<1>. SUFFICES ASSUME Init PROVE IInv
  OBVIOUS
<1>. Modules \in Seq(Range(Modules)) /\ None \notin Nat
  BY ImageAssumption
<1>1. index = 0 /\ suite = <<>> /\ status = None /\ attached \in BOOLEAN /\ aborted \in BOOLEAN
  BY DEF Init
<1>2. Typed
  <2>1. 0 \in 0 .. Len(Modules)
    OBVIOUS
  <2>2. <<>> \in Seq(UNION {Range(Methods[c]) : c \in AllClasses})
    OBVIOUS
  <2>. QED
    BY <1>1, <2>1, <2>2 DEF Typed
<1>3. Collects
  <2>1. 1 .. index = {} /\ DOMAIN suite = {}
    BY <1>1
  <2>. QED
    BY <2>1 DEF Collects, Range
<1>4. status # 0
  <2>1. 0 \in Nat
    OBVIOUS
  <2>. QED
    BY <1>1, <2>1
<1>. QED
  BY <1>1, <1>2, <1>3, <1>4
  DEF Init, IInv, Whole, AllRun, Mounted, Ended, ImageDetached, ZeroMeansSuccess

LEMMA Invariant == Spec => []IInv
BY Initially, Preserved, PTL DEF Spec

-----------------------------------------------------------------------------
(* The tests that come with the runner.                                    *)

\* The results of the tests depend on the tree and on the mount point only.
LEMMA SameBad == ASSUME UNCHANGED <<tree, option, mountpoint>> PROVE Bad' = Bad
<1>0. \A p : (Listable(p)' <=> Listable(p)) /\ (Found(p)' <=> Found(p))
  BY DEF Found, Listable
<1>1. Mountpoint' = Mountpoint
  BY DEF Mountpoint
<1>2. \A path : exists(path)' <=> exists(path)
  BY <1>1 DEF exists
<1>3. \A path : PathOnDMG(path)' = PathOnDMG(path)
  BY <1>1 DEF PathOnDMG
<1>4. \A path : CheckForExistence(path)' <=> CheckForExistence(path)
  BY <1>2, <1>3 DEF CheckForExistence
<1>5. \A files, whitelist : Unlisted(files, whitelist)' <=> Unlisted(files, whitelist)
  <2>1. \A p : Found(p)' <=> Found(p)
    BY <1>0
  <2>2. \A whitelist : Peeled(whitelist)' = Peeled(whitelist)
    BY DEF Peeled
  <2>. QED
    BY <2>1, <2>2 DEF Unlisted
<1>6. \A d : DirectoryEmpty(d)' <=> DirectoryEmpty(d)
  BY <1>1, <1>2, <1>3 DEF DirectoryEmpty
<1>7. \A path : ReadPlist(path)' = ReadPlist(path)
  BY <1>2 DEF ReadPlist
<1>8. BlacklistTests' = BlacklistTests
  BY <1>4 DEF BlacklistTests
<1>9. SuidTests' = SuidTests
  BY <1>5 DEF SuidTests
<1>10. WritableTests' = WritableTests
  BY <1>5 DEF WritableTests
<1>11. SymlinkTests' = SymlinkTests
  BY <1>0 DEF SymlinkTests
<1>12. PlintTests' = PlintTests
  BY <1>0 DEF PlintTests
<1>13. EmptyDirectoryTests' = EmptyDirectoryTests
  BY <1>6 DEF EmptyDirectoryTests
<1>14. SkipSetupTests' = SkipSetupTests
  BY <1>4 DEF SkipSetupTests
<1>15. NetworkTests' = NetworkTests
  BY <1>3, <1>4, <1>7 DEF NetworkTests
<1>. QED
  BY <1>8, <1>9, <1>10, <1>11, <1>12, <1>13, <1>14, <1>15 DEF Bad

\* What the tests say if none of them is bad.
LEMMA AllGood ==
  ASSUME \A tests \in Bad : \A name \in DOMAIN tests : ~tests[name]
  PROVE  /\ \A d \in Blacklist : ~CheckForExistence(d)
         /\ ~Unlisted(tree.suid, SuidWhitelist) /\ ~Unlisted(tree.writables, WritablesWhitelist)
         /\ \A link \in tree.links : Found(link[1]) =>
               \A i \in 2 .. Len(link[2]) - 1 : link[2][i] # "Volumes"
         /\ \A p \in tree.paths \cap tree.invalid : p # <<>> /\ Listable(p) => Last(p) \notin PlistNames
         /\ \A d \in EmptyDirectories : DirectoryEmpty(d)
         /\ CheckForExistence(AppleSetupDone) /\ CheckForExistence(SetupRegComplete)
         /\ ~CheckForExistence(NetworkInterfaces) /\ ~CheckForExistence(PathOnDMG(Preferences))
         /\ {"CurrentSet", "NetworkServices", "Sets"} \cap ReadPlist(PathOnDMG(Preferences)) = {}
<1>1. ASSUME NEW tests \in Bad, NEW name \in DOMAIN tests PROVE ~tests[name]
  OBVIOUS
<1>2. \A d \in Blacklist : ~CheckForExistence(d)
  BY <1>1 DEF Bad, BlacklistTests
<1>3. ~Unlisted(tree.suid, SuidWhitelist)
  BY <1>1 DEF Bad, SuidTests
<1>4. ~Unlisted(tree.writables, WritablesWhitelist)
  BY <1>1 DEF Bad, WritableTests
<1>5. \A link \in tree.links : Found(link[1]) =>
        \A i \in 2 .. Len(link[2]) - 1 : link[2][i] # "Volumes"
  BY <1>1 DEF Bad, SymlinkTests
<1>6. \A p \in tree.paths \cap tree.invalid : p # <<>> /\ Listable(p) => Last(p) \notin PlistNames
  BY <1>1 DEF Bad, PlintTests
<1>7. \A d \in EmptyDirectories : DirectoryEmpty(d)
  BY <1>1 DEF Bad, EmptyDirectoryTests
<1>8. CheckForExistence(AppleSetupDone) /\ CheckForExistence(SetupRegComplete)
  BY <1>1 DEF Bad, SkipSetupTests
<1>9. ~CheckForExistence(NetworkInterfaces) /\ ~CheckForExistence(PathOnDMG(Preferences))
  BY <1>1 DEF Bad, NetworkTests
<1>10. {"CurrentSet", "NetworkServices", "Sets"} \cap ReadPlist(PathOnDMG(Preferences)) = {}
  BY <1>1 DEF Bad, NetworkTests
<1>. QED
  BY <1>2, <1>3, <1>4, <1>5, <1>6, <1>7, <1>8, <1>9, <1>10

\* The mount point is put before a path and nothing else is lost.
LEMMA Cancel ==
  ASSUME NEW S, NEW x \in S, NEW s \in Seq(S), NEW t \in Seq(S), <<x>> \o s = <<x>> \o t
  PROVE  s = t
<1>1. <<x>> \in Seq(S) /\ Len(<<x>>) = 1
  OBVIOUS
<1>2. Len(<<x>> \o s) = 1 + Len(s) /\ Len(<<x>> \o t) = 1 + Len(t)
  BY <1>1
<1>3. Len(s) = Len(t) /\ Len(s) \in Nat
  BY <1>2
<1>4. ASSUME NEW i \in 1 .. Len(s) PROVE s[i] = t[i]
  <2>1. (<<x>> \o s)[1 + i] = s[i]
    BY <1>1
  <2>2. (<<x>> \o t)[1 + i] = t[i]
    BY <1>1, <1>3
  <2>. QED
    BY <2>1, <2>2
<1>5. s = [i \in 1 .. Len(s) |-> s[i]] /\ t = [i \in 1 .. Len(t) |-> t[i]]
  OBVIOUS
<1>. QED
  BY <1>3, <1>4, <1>5

LEMMA ExistsIn ==
  ASSUME \A p \in tree.paths : p \in Seq(Range(p)),
         NEW Names, NEW path \in Seq(Names), exists(PathOnDMG(path))
  PROVE  path \in tree.paths
<1>1. PICK p \in tree.paths : Mountpoint \o path = Mountpoint \o p
  BY DEF exists, PathOnDMG
<1>. DEFINE S == Names \cup Range(p) \cup {mountpoint}
<1>2. p \in Seq(Range(p))
  OBVIOUS
<1>3. path \in Seq(S) /\ p \in Seq(S)
  <2>1. \A s \in Seq(Names) : s \in Seq(S)
    OBVIOUS
  <2>2. \A s \in Seq(Range(p)) : s \in Seq(S)
    OBVIOUS
  <2>. HIDE DEF S
  <2>. QED
    BY <1>2, <2>1, <2>2
<1>4. CASE Mountpoint = <<>>
  BY <1>1, <1>2, <1>4
<1>5. CASE Mountpoint = <<mountpoint>>
  <2>1. <<mountpoint>> \o path = <<mountpoint>> \o p /\ mountpoint \in S
    BY <1>1, <1>5
  <2>. HIDE DEF S
  <2>. QED
    BY <1>3, <2>1, Cancel
<1>. QED
  BY <1>4, <1>5 DEF Mountpoint

LEMMA InExists == \A path \in tree.paths : exists(PathOnDMG(path))
BY DEF exists, PathOnDMG

\* Then the tree is clean, by the names of paths alone.
LEMMA GoodMeansClean ==
  ASSUME tree \in Trees \cup {Nothing}, \A tests \in Bad : \A name \in DOMAIN tests : ~tests[name]
  PROVE  Clean
<1>. /\ \A p \in tree.paths \cup {link[2] : link \in tree.links} : p \in Seq(Range(p))
     /\ <<>> \notin tree.invalid
  BY ChecksAssumption DEF Nothing
<1>1. Blacklist \cap tree.paths \subseteq {<<>>}
  BY AllGood, InExists DEF CheckForExistence
<1>2. /\ \A p \in tree.suid : Found(p) => p \in Allowed(SuidWhitelist)
      /\ \A p \in tree.writables : Found(p) => p \in Allowed(WritablesWhitelist)
  <2>1. ASSUME NEW whitelist PROVE Peeled(whitelist) \subseteq Allowed(whitelist)
    <3>1. CASE option = "/"
      BY <3>1 DEF Peeled
    <3>2. CASE option = "relative root"
      BY <3>2 DEF Peeled, Allowed
    <3>3. CASE option # "/" /\ option # "relative root"
      BY <3>3 DEF Peeled, Allowed
    <3>. QED
      BY <3>1, <3>2, <3>3
  <2>2. ~Unlisted(tree.suid, SuidWhitelist) /\ ~Unlisted(tree.writables, WritablesWhitelist)
    BY AllGood
  <2>. QED
    BY <2>1, <2>2 DEF Unlisted
<1>3. ASSUME NEW link \in tree.links, Found(link[1]), "Volumes" \in Range(link[2])
      PROVE  "Volumes" \in {Head(link[2]), Last(link[2])}
  <2>. DEFINE target == link[2]
  <2>1. target \in Seq(Range(target)) /\ Len(target) \in Nat
    BY <1>3
  <2>2. PICK i \in 1 .. Len(target) : target[i] = "Volumes"
    BY <1>3, <2>1 DEF Range
  <2>3. i \notin 2 .. Len(target) - 1
    BY <1>3, <2>2, AllGood
  <2>4. i = 1 \/ i = Len(target)
    BY <2>1, <2>3
  <2>5. Head(target) = target[1] /\ Last(target) = target[Len(target)]
    BY <2>1, <2>2 DEF Last
  <2>. QED
    BY <2>2, <2>4, <2>5
<1>4. \A p \in tree.paths \cap tree.invalid : Listable(p) => Last(p) \notin PlistNames
  BY AllGood
<1>5. ASSUME NEW d \in EmptyDirectories PROVE d \in tree.paths
  <2>1. \E Names : d \in Seq(Names)
    <3>1. /\ <<"var", "vm">> \in Seq({"var", "vm"}) /\ <<"private", "tmp">> \in Seq({"private", "tmp"})
          /\ <<"Volumes">> \in Seq({"Volumes"}) /\ <<"Library", "Logs">> \in Seq({"Library", "Logs"})
      OBVIOUS
    <3>. QED
      BY <3>1 DEF EmptyDirectories
  <2>2. exists(PathOnDMG(d))
    BY AllGood DEF DirectoryEmpty
  <2>. QED
    BY <2>1, <2>2, ExistsIn
<1>6. ASSUME NEW p \in tree.paths PROVE Front(p) \notin EmptyDirectories
  <2>1. CASE p = <<>>
    <3>1. Front(<<>>) = <<>>
      BY DEF Front
    <3>2. \A d \in EmptyDirectories : d # <<>>
      BY DEF EmptyDirectories
    <3>. QED
      BY <2>1, <3>1, <3>2
  <2>2. CASE p # <<>>
    <3>1. ASSUME NEW d \in EmptyDirectories PROVE Mountpoint \o Front(p) # PathOnDMG(d)
      BY <2>2, AllGood DEF DirectoryEmpty
    <3>. QED
      BY <3>1 DEF PathOnDMG
  <2>. QED
    BY <2>1, <2>2
<1>7. AppleSetupDone \in tree.paths /\ SetupRegComplete \in tree.paths
  <2>1. /\ AppleSetupDone \in Seq({"var", "db", ".AppleSetupDone"})
        /\ SetupRegComplete \in Seq({"Library", "Receipts", ".SetupRegComplete"})
    BY DEF AppleSetupDone, SetupRegComplete
  <2>. QED
    BY <2>1, AllGood, ExistsIn DEF CheckForExistence
<1>8. /\ <<>> \o Preferences = Preferences /\ Preferences # <<>>
      /\ NetworkInterfaces # <<>>
  <2>. DEFINE Names == {"Library", "Preferences", "SystemConfiguration", "preferences.plist",
                        "NetworkInterfaces.plist"}
  <2>1. SystemConfiguration \in Seq(Names)
    BY DEF SystemConfiguration
  <2>2. "preferences.plist" \in Names /\ "NetworkInterfaces.plist" \in Names
    OBVIOUS
  <2>. HIDE DEF Names
  <2>. QED
    BY <2>1, <2>2 DEF Preferences, NetworkInterfaces
<1>9. NetworkInterfaces \notin tree.paths
  BY <1>8, AllGood, InExists DEF CheckForExistence
<1>10. ASSUME Preferences \in tree.paths
       PROVE  tree.settings \cap {"CurrentSet", "NetworkServices", "Sets"} = {}
  BY <1>10, AllGood, InExists DEF ReadPlist
<1>11. ASSUME Preferences \in tree.paths PROVE option # "/"
  <2>. SUFFICES ASSUME option = "/" PROVE FALSE
    OBVIOUS
  <2>1. Mountpoint = <<>> /\ PathOnDMG(Preferences) = Preferences
    BY <1>8 DEF Mountpoint, PathOnDMG
  <2>2. CheckForExistence(Preferences)
    BY <1>8, <1>11, InExists DEF CheckForExistence
  <2>. QED
    BY <2>1, <2>2, AllGood
<1>. QED
  BY <1>1, <1>2, <1>3, <1>4, <1>5, <1>6, <1>7, <1>9, <1>10, <1>11 DEF Clean

\* Each test that comes with the runner and was run has its result recorded.
Recorded ==
  \A tests \in Bad : \A i \in 1 .. ran :
    suite[i] \in DOMAIN tests /\ tests[suite[i]] => suite[i] \in bad

Running ==
  /\ ran \in 0 .. Len(suite)
  /\ pc \in {"start", "chdir", "collect"} => ran = 0
  /\ tree \in Trees \cup {Nothing}

LEMMA BundledTests == \A tests \in Bad : DOMAIN tests \subseteq Bundled
BY DEF Bad, BlacklistTests, SuidTests, WritableTests, SymlinkTests, PlintTests, EmptyDirectoryTests,
       SkipSetupTests, NetworkTests, Bundled

LEMMA RunTestRecords ==
  ASSUME Typed, Running, Recorded, CheckedNext, RunTest
  PROVE  Running' /\ Recorded'
<1>1. /\ ran \in Nat /\ Len(suite) \in Nat /\ ran < Len(suite) /\ ran' = ran + 1
      /\ suite' = suite /\ bad \subseteq bad'
  BY DEF RunTest, Typed, Running
<1>2. Running'
  BY <1>1 DEF Running, RunTest, CheckedNext
<1>3. Bad' = Bad
  BY SameBad DEF RunTest, CheckedNext
<1>4. ASSUME NEW tests \in Bad, NEW i \in 1 .. ran',
             suite[i] \in DOMAIN tests, tests[suite[i]]
      PROVE  suite[i] \in bad'
  <2>1. CASE i = ran'
    <3>1. ran' # ran
      BY <1>1
    <3>. QED
      BY <1>4, <2>1, <3>1 DEF CheckedNext
  <2>2. CASE i # ran'
    <3>1. i \in 1 .. ran
      BY <1>1, <2>2
    <3>. QED
      BY <1>1, <1>4, <3>1 DEF Recorded
  <2>. QED
    BY <2>1, <2>2
<1>5. Recorded'
  BY <1>1, <1>3, <1>4 DEF Recorded
<1>. QED
  BY <1>2, <1>5

\* No other step runs a test, and the ones that could change a result come
\* before the first.
LEMMA OthersKeep ==
  ASSUME Typed', Running, Recorded, [CheckedNext]_<<vars, tree>>, ~RunTest
  PROVE  Running' /\ Recorded'
<1>1. ran' = ran /\ tree' = tree /\ bad' = bad
  BY DEF CheckedNext, Next, vars, AttachDiskImage, AttachFails, UseRoot, RootMissing, Chdir,
         ChdirFails, GetTestSuite, GetTestSuiteFails, Collected, RunEnds, DetachDiskImage,
         DetachFails, Report, KeyboardInterrupt, Abort
<1>2. CASE ran = 0
  <2>1. 1 .. 0 = {}
    OBVIOUS
  <2>2. Recorded'
    BY <1>1, <1>2, <2>1 DEF Recorded
  <2>3. Len(suite') \in Nat
    BY DEF Typed
  <2>4. 0 \in 0 .. Len(suite')
    BY <2>3
  <2>5. Running'
    BY <1>1, <1>2, <2>4 DEF Running
  <2>. QED
    BY <2>2, <2>5
<1>3. CASE ran # 0
  <2>1. pc \notin {"start", "chdir", "collect"}
    BY <1>3 DEF Running
  <2>2. UNCHANGED <<option, mountpoint, suite>> /\ pc' \notin {"start", "chdir", "collect"}
    BY <2>1 DEF CheckedNext, Next, vars, AttachDiskImage, AttachFails, UseRoot, RootMissing, Chdir,
                ChdirFails, GetTestSuite, GetTestSuiteFails, Collected, RunEnds, DetachDiskImage,
                DetachFails, Report, KeyboardInterrupt, Abort, Exit
  <2>. QED
    BY <1>1, <2>2, SameBad DEF Recorded, Running
<1>. QED
  BY <1>2, <1>3

LEMMA CheckedInvariant == CheckedSpec => [](IInv /\ Running /\ Recorded)
<1>1. CheckedInit => IInv /\ Running /\ Recorded
  <2>. SUFFICES ASSUME CheckedInit PROVE IInv /\ Running /\ Recorded
    OBVIOUS
  <2>1. ran = 0 /\ suite = <<>> /\ tree \in Trees \cup {Nothing}
    BY DEF CheckedInit, Init
  <2>2. 1 .. 0 = {} /\ 0 \in 0 .. Len(<<>>)
    OBVIOUS
  <2>. QED
    BY <2>1, <2>2, Initially DEF CheckedInit, Running, Recorded
<1>2. IInv /\ Running /\ Recorded /\ [CheckedNext]_<<vars, tree>> => (IInv /\ Running /\ Recorded)'
  <2>. SUFFICES ASSUME IInv, Running, Recorded, [CheckedNext]_<<vars, tree>>
                PROVE  IInv' /\ Running' /\ Recorded'
    OBVIOUS
  <2>1. IInv'
    BY Preserved DEF CheckedNext, vars
  <2>2. Typed /\ Typed'
    BY <2>1 DEF IInv
  <2>3. CASE RunTest
    <3>1. CheckedNext
      BY <2>2, <2>3 DEF RunTest, Typed, Running, vars
    <3>. QED
      BY <2>1, <2>2, <2>3, <3>1, RunTestRecords
  <2>4. CASE ~RunTest
    BY <2>1, <2>2, <2>4, OthersKeep
  <2>. QED
    BY <2>3, <2>4
<1>. QED
  BY <1>1, <1>2, PTL DEF CheckedSpec

\* With status 0 every test that comes with the runner was run, and if none of
\* them is recorded as bad, none of them was.
LEMMA SuccessIsGood ==
  ASSUME IInv, Running, Recorded, status = 0, bad = {}
  PROVE  \A tests \in Bad : \A name \in DOMAIN tests : ~tests[name]
<1>. SUFFICES ASSUME NEW tests \in Bad, NEW name \in DOMAIN tests PROVE ~tests[name]
  OBVIOUS
<1>1. ran = Len(suite) /\ Range(suite) = UNION {Range(Methods[c]) : c \in FirstClasses}
  BY DEF IInv, ZeroMeansSuccess
<1>2. name \in Range(suite)
  BY <1>1, BundledTests, ChecksAssumption
<1>3. DOMAIN suite = 1 .. ran
  BY <1>1 DEF IInv, Typed
<1>4. PICK i \in 1 .. ran : suite[i] = name
  BY <1>2, <1>3 DEF Range
<1>. QED
  BY <1>4 DEF Recorded

-----------------------------------------------------------------------------
\* Only an exception, an interrupt or a missing mount point leaves an image
\* attached, whatever the tests say.
THEOREM ImageDetachedHolds == Spec => []ImageDetached
BY Invariant, PTL DEF IInv

\* Exit status 0 tells that every test of the first class of every module was
\* run, on what was asked for, and that the image is detached.
THEOREM ZeroMeansSuccessHolds == Spec => []ZeroMeansSuccess
BY Invariant, PTL DEF IInv

\* Exit status 0 without a bad test says of any tree that nothing forbidden is in
\* it and everything asked for is, whatever the lists of the tests hold and
\* whatever tests a site adds.
THEOREM SuccessMeansCleanHolds == CheckedSpec => []SuccessMeansClean
<1>1. IInv /\ Running /\ Recorded => SuccessMeansClean
  BY SuccessIsGood, GoodMeansClean DEF SuccessMeansClean, Running
<1>. QED
  BY <1>1, CheckedInvariant, PTL

-----------------------------------------------------------------------------
(* wtfUpdate.py: what the listing of a Bom holds.                          *)

Below == {ij \in Nat \X Nat : ij[1] < ij[2]}

LEMMA BelowWellFounded == IsWellFoundedOn(Below, Nat)
<1>1. OpToRel(<, Nat) = Below
  BY DEF OpToRel, Below
<1>. QED
  BY <1>1, NatLessThanWellFounded

\* Induction over a set: no operator stands for the statement.
LEMMA SetInduction ==
  ASSUME NEW S, 0 \in S, \A n \in Nat : n \in S => n + 1 \in S
  PROVE  Nat \subseteq S
<1>. DEFINE T == Nat \ S
<1>. SUFFICES ASSUME T # {} PROVE FALSE
  OBVIOUS
<1>1. T \subseteq Nat
  OBVIOUS
<1>. HIDE DEF T
<1>2. \E n \in T : \A k \in T : <<k, n>> \notin Below
  BY <1>1, WFMin, BelowWellFounded, Zenon
<1>3. PICK n \in T : \A k \in T : <<k, n>> \notin Below
  BY <1>2
<1>4. n \in Nat /\ n \notin S
  BY DEF T
<1>5. n # 0
  BY <1>4
<1>6. n - 1 \in Nat /\ n - 1 < n /\ (n - 1) + 1 = n
  BY <1>4, <1>5
<1>7. <<n - 1, n>> \in Below
  BY <1>4, <1>6 DEF Below
<1>8. n - 1 \in S
  BY <1>3, <1>6, <1>7 DEF T
<1>. QED
  BY <1>4, <1>6, <1>8

\* Every element of a finite set, in some order.
LEMMA SetToSeqLists ==
  ASSUME NEW S, IsFiniteSet(S)
  PROVE  SetToSeq(S) \in Seq(S) /\ Range(SetToSeq(S)) = S
<1>. DEFINE n == Cardinality(S)
            f == SetToSeq(S)
<1>1. n \in Nat /\ ExistsBijection(1 .. n, S)
  BY FS_CardinalityType
<1>2. \E g \in [1 .. n -> S] : IsInjective(g)
  BY <1>1 DEF ExistsBijection, Bijection, Injection
<1>3. f \in [1 .. n -> S] /\ IsInjective(f)
  BY <1>2, Zenon DEF SetToSeq
<1>. HIDE DEF f
<1>4. IsFiniteSet(1 .. n) /\ Cardinality(1 .. n) = n
  BY <1>1, FS_Interval
<1>5. f \in Injection(1 .. n, S)
  BY <1>3 DEF Injection
<1>6. f \in Surjection(1 .. n, S)
  BY <1>4, <1>5, FS_Injection
<1>7. f \in Seq(S)
  BY <1>1, <1>3
<1>8. Range(f) = S
  BY <1>3, <1>6 DEF Surjection, Range
<1>. QED
  BY <1>7, <1>8 DEF f

Files(lines) == {Stripped(path) : path \in lines} \ {<<>>}

\* The equation of get_bom_contents: the functions contents it stands for exist.
LEMMA ContentsDef ==
  ASSUME NEW lines, Len(SetToSeq(Files(lines))) \in Nat
  PROVE  LET file_list == SetToSeq(Files(lines))
             N == Len(file_list)
         IN  \E contents :
               /\ contents[0] = {}
               /\ \A i \in 1 .. N : contents[i] = merge_list(contents[i - 1], file_list[i])
               /\ get_bom_contents(lines) = contents[N]
<1>. DEFINE file_list == SetToSeq(Files(lines))
            N == Len(file_list)
            Step(before, i) == merge_list(before, file_list[i])
            Merges(contents, n) == /\ contents = [i \in 0 .. n |-> contents[i]]
                                   /\ contents[0] = {}
                                   /\ \A i \in 1 .. n : contents[i] = Step(contents[i - 1], i)
            S == {n \in Nat : \E contents : Merges(contents, n)}
<1>1. 0 \in S
  <2>1. Merges([i \in 0 .. 0 |-> {}], 0)
    OBVIOUS
  <2>. QED
    BY <2>1
<1>2. ASSUME NEW n \in Nat, n \in S PROVE n + 1 \in S
  <2>. HIDE DEF Step
  <2>1. PICK contents : Merges(contents, n)
    BY <1>2
  <2>. DEFINE longer == [i \in 0 .. n + 1 |->
                           IF i = n + 1 THEN Step(contents[n], n + 1) ELSE contents[i]]
  <2>2. longer[0] = {}
    BY <2>1
  <2>3. ASSUME NEW i \in 1 .. n + 1 PROVE longer[i] = Step(longer[i - 1], i)
    <3>1. i - 1 \in 0 .. n /\ longer[i - 1] = contents[i - 1]
      OBVIOUS
    <3>2. CASE i = n + 1
      BY <3>1, <3>2
    <3>3. CASE i # n + 1
      BY <2>1, <3>1, <3>3
    <3>. QED
      BY <3>2, <3>3
  <2>4. longer = [i \in 0 .. n + 1 |-> longer[i]]
    OBVIOUS
  <2>. HIDE DEF longer
  <2>5. Merges(longer, n + 1)
    BY <2>2, <2>3, <2>4
  <2>. HIDE DEF Merges
  <2>. QED
    BY <2>5
<1>3. N \in S
  <2>. HIDE DEF S
  <2>1. Nat \subseteq S
    BY <1>1, <1>2, SetInduction
  <2>. QED
    BY <2>1
<1>. DEFINE Defines(contents) ==
       contents = [i \in 0 .. N |-> IF i = 0 THEN {} ELSE merge_list(contents[i - 1], file_list[i])]
<1>4. \E contents : Defines(contents)
  <2>1. PICK contents : Merges(contents, N)
    BY <1>3
  <2>2. \A i \in 0 .. N : i = 0 \/ i \in 1 .. N
    OBVIOUS
  <2>3. Defines(contents)
    BY <2>1, <2>2
  <2>. QED
    BY <2>3
<1>5. Defines(CHOOSE contents : Defines(contents))
  <2>. HIDE DEF Defines
  <2>. QED
    BY <1>4, Zenon
<1>6. get_bom_contents(lines) = (CHOOSE contents : Defines(contents))[N]
  BY Zenon DEF get_bom_contents, Files
<1>. DEFINE contents == CHOOSE contents : Defines(contents)
<1>. HIDE DEF contents
<1>7. Defines(contents) /\ get_bom_contents(lines) = contents[N]
  BY <1>5, <1>6 DEF contents
<1>8. \A i \in 1 .. N : i # 0 /\ i \in 0 .. N
  OBVIOUS
<1>9. 0 \in 0 .. N
  OBVIOUS
<1>. QED
  BY <1>7, <1>8, <1>9

LEMMA StrippedFinite ==
  ASSUME NEW lines, IsFiniteSet(lines)
  PROVE  IsFiniteSet(Files(lines))
<1>. DEFINE T == {Stripped(path) : path \in lines}
            f == [path \in lines |-> Stripped(path)]
<1>1. f \in Surjection(lines, T)
  BY DEF Surjection
<1>2. IsFiniteSet(T)
  BY <1>1, FS_Surjection
<1>. QED
  BY <1>2, FS_RemoveElement DEF Files

\* What get_bom_contents makes of the lines: their paths, with those above them.
LEMMA ContentsAre ==
  ASSUME NEW lines, IsFiniteSet(lines)
  PROVE  get_bom_contents(lines) = UNION {Prefixes(f) \ {<<>>} : f \in Files(lines)}
<1>. DEFINE file_list == SetToSeq(Files(lines))
            N == Len(file_list)
            Above(n) == UNION {Prefixes(file_list[i]) \ {<<>>} : i \in 1 .. n}
<1>1. file_list \in Seq(Files(lines)) /\ Range(file_list) = Files(lines)
  BY StrippedFinite, SetToSeqLists
<1>2. N \in Nat /\ DOMAIN file_list = 1 .. N
  BY <1>1
<1>3. PICK contents :
         /\ contents[0] = {}
         /\ \A i \in 1 .. N : contents[i] = merge_list(contents[i - 1], file_list[i])
         /\ get_bom_contents(lines) = contents[N]
  BY <1>2, ContentsDef
<1>. HIDE DEF file_list, N
<1>. DEFINE S == {n \in Nat : n <= N => contents[n] = Above(n)}
<1>4. 0 \in S
  BY <1>3
<1>5. ASSUME NEW n \in Nat, n \in S PROVE n + 1 \in S
  <2>. SUFFICES ASSUME n + 1 <= N PROVE contents[n + 1] = Above(n + 1)
    OBVIOUS
  <2>1. n + 1 \in 1 .. N /\ n <= N /\ (n + 1) - 1 = n
    BY <1>2
  <2>2. contents[n + 1] = Above(n) \cup (Prefixes(file_list[n + 1]) \ {<<>>})
    BY <1>3, <1>5, <2>1 DEF merge_list
  <2>3. 1 .. n + 1 = (1 .. n) \cup {n + 1}
    OBVIOUS
  <2>. QED
    BY <2>2, <2>3
<1>6. N \in S
  <2>. HIDE DEF S
  <2>1. Nat \subseteq S
    BY <1>4, <1>5, SetInduction
  <2>. QED
    BY <1>2, <2>1
<1>7. get_bom_contents(lines) = Above(N)
  BY <1>2, <1>3, <1>6
<1>8. Files(lines) = {file_list[i] : i \in 1 .. N}
  BY <1>1, <1>2 DEF Range
<1>9. Above(N) = UNION {Prefixes(f) \ {<<>>} : f \in Files(lines)}
  BY <1>8
<1>. QED
  BY <1>7, <1>9

\* The same holds of the files as of the lines: the directories above a file are
\* files.
LEMMA FilesClosed ==
  ASSUME NEW lines,
         \A path \in lines : path \in Seq(FileNames) /\ Prefixes(path) \ {<<>>} \subseteq lines
  PROVE  \A f \in Files(lines) :
           f \in Seq(FileNames) /\ f # <<>> /\ Prefixes(f) \ {<<>>} \subseteq Files(lines)
<1>. SUFFICES ASSUME NEW f \in Files(lines)
              PROVE  f \in Seq(FileNames) /\ f # <<>> /\ Prefixes(f) \ {<<>>} \subseteq Files(lines)
  OBVIOUS
<1>1. PICK path \in lines : f = Stripped(path) /\ f # <<>>
  BY DEF Files
<1>2. path \in Seq(FileNames) /\ path # <<>>
  BY <1>1 DEF Stripped
<1>3. f = <<Undotted[path[1]]>> \o Tail(path)
  BY <1>1, <1>2 DEF Stripped
<1>4. Undotted[path[1]] \in FileNames /\ Tail(path) \in Seq(FileNames)
  BY <1>2, PackagesAssumption
<1>5. f \in Seq(FileNames) /\ Len(f) = Len(path)
  BY <1>2, <1>3, <1>4
<1>6. \A i \in 1 .. Len(f) : f[i] = IF i = 1 THEN Undotted[path[1]] ELSE path[i]
  BY <1>2, <1>3, <1>4
<1>7. ASSUME NEW l \in 1 .. Len(f) PROVE SubSeq(f, 1, l) \in Files(lines)
  <2>. DEFINE above == SubSeq(path, 1, l)
  <2>1. above \in Seq(FileNames) /\ Len(above) = l /\ above # <<>>
    BY <1>2, <1>5
  <2>2. \A i \in 1 .. l : above[i] = path[i]
    BY <1>2, <1>5
  <2>3. above \in Prefixes(path) \ {<<>>}
    <3>1. l \in 0 .. Len(path)
      BY <1>2, <1>5
    <3>. QED
      BY <2>1, <3>1 DEF Prefixes
  <2>4. above \in lines
    BY <2>3
  <2>. HIDE DEF above
  <2>5. Stripped(above) = <<Undotted[above[1]]>> \o Tail(above)
    BY <2>1 DEF Stripped
  <2>6. Undotted[above[1]] \in FileNames /\ Tail(above) \in Seq(FileNames)
    BY <2>1, PackagesAssumption
  <2>7. Stripped(above) \in Seq(FileNames) /\ Len(Stripped(above)) = l
    BY <2>1, <2>5, <2>6
  <2>8. \A i \in 1 .. l : Stripped(above)[i] = IF i = 1 THEN Undotted[above[1]] ELSE above[i]
    BY <2>1, <2>5, <2>6
  <2>9. SubSeq(f, 1, l) \in Seq(FileNames) /\ Len(SubSeq(f, 1, l)) = l
    BY <1>5
  <2>10. \A i \in 1 .. l : SubSeq(f, 1, l)[i] = Stripped(above)[i]
    BY <1>5, <1>6, <2>2, <2>8
  <2>11. SubSeq(f, 1, l) = Stripped(above)
    BY <2>7, <2>9, <2>10
  <2>12. Stripped(above) # <<>>
    BY <2>7
  <2>. QED
    BY <2>4, <2>11, <2>12 DEF Files
<1>8. Prefixes(f) \ {<<>>} \subseteq Files(lines)
  <2>1. SubSeq(f, 1, 0) = <<>>
    BY <1>5
  <2>2. \A l \in 0 .. Len(f) : l = 0 \/ l \in 1 .. Len(f)
    BY <1>5
  <2>. QED
    BY <1>7, <2>1, <2>2 DEF Prefixes
<1>. QED
  BY <1>1, <1>5, <1>8

\* So nothing but the files is listed.
LEMMA ContentsAreFiles ==
  ASSUME NEW lines, IsFiniteSet(lines),
         \A path \in lines : path \in Seq(FileNames) /\ Prefixes(path) \ {<<>>} \subseteq lines
  PROVE  get_bom_contents(lines) = Files(lines)
<1>1. ASSUME NEW f \in Files(lines) PROVE f \in Prefixes(f) \ {<<>>}
  <2>1. f \in Seq(FileNames) /\ f # <<>>
    BY FilesClosed
  <2>2. SubSeq(f, 1, Len(f)) = f /\ Len(f) \in 0 .. Len(f)
    BY <2>1
  <2>. QED
    BY <2>1, <2>2 DEF Prefixes
<1>2. \A f \in Files(lines) : Prefixes(f) \ {<<>>} \subseteq Files(lines)
  BY FilesClosed
<1>3. Files(lines) = UNION {Prefixes(f) \ {<<>>} : f \in Files(lines)}
  BY <1>1, <1>2
<1>. QED
  BY <1>3, ContentsAre

\* A list has an item for each path of its dictionary.
LEMMA ListForKeys ==
  ASSUME NEW dict,
         \A p \in dict : p \in Seq(FileNames) /\ p # <<>> /\ Prefixes(p) \ {<<>>} \subseteq dict
  PROVE  UNION {get_list_for_key(k, Children(dict, k)) : k \in {Head(p) : p \in dict}} = dict
<1>1. ASSUME NEW p \in dict PROVE <<Head(p)>> \in dict /\ p = <<Head(p)>> \o Tail(p)
  <2>1. p \in Seq(FileNames) /\ p # <<>> /\ Prefixes(p) \ {<<>>} \subseteq dict
    OBVIOUS
  <2>2. Len(p) \in Nat /\ Len(p) >= 1 /\ Head(p) = p[1] /\ Head(p) \in FileNames
    BY <2>1
  <2>3. SubSeq(p, 1, 1) = <<Head(p)>>
    <3>. DEFINE q == SubSeq(p, 1, 1)
    <3>1. q \in Seq(FileNames) /\ Len(q) = 1 /\ q[1] = Head(p)
      BY <2>1, <2>2
    <3>2. <<Head(p)>> \in Seq(FileNames) /\ Len(<<Head(p)>>) = 1
      BY <2>2
    <3>. HIDE DEF q
    <3>3. \A i \in 1 .. 1 : q[i] = <<Head(p)>>[i]
      BY <3>1
    <3>4. q = <<Head(p)>>
      BY <3>1, <3>2, <3>3
    <3>. QED
      BY <3>4 DEF q
  <2>4. 1 \in 0 .. Len(p) /\ <<Head(p)>> # <<>>
    BY <2>2
  <2>5. <<Head(p)>> \in Prefixes(p) \ {<<>>}
    BY <2>3, <2>4 DEF Prefixes
  <2>6. p = <<Head(p)>> \o Tail(p)
    <3>1. Tail(p) \in Seq(FileNames) /\ Len(Tail(p)) = Len(p) - 1
      BY <2>1, <2>2
    <3>. DEFINE q == <<Head(p)>> \o Tail(p)
    <3>2. q \in Seq(FileNames) /\ Len(q) = Len(p)
      BY <2>2, <3>1
    <3>3. \A i \in 1 .. Len(p) : q[i] = p[i]
      BY <2>1, <2>2, <3>1
    <3>. QED
      BY <2>1, <3>2, <3>3
  <2>. QED
    BY <2>1, <2>5, <2>6
<1>2. ASSUME NEW p \in dict
      PROVE  p \in get_list_for_key(Head(p), Children(dict, Head(p)))
  <2>1. CASE Tail(p) = <<>>
    <3>1. p = <<Head(p)>> \o <<>> /\ p \in Seq(FileNames) /\ p # <<>>
      BY <1>1, <2>1, Zenon
    <3>2. Head(p) \in FileNames
      BY <3>1
    <3>3. <<Head(p)>> \in Seq(FileNames) /\ <<Head(p)>> \o <<>> = <<Head(p)>>
      BY <3>2
    <3>4. p = <<Head(p)>>
      BY <3>1, <3>3, Zenon
    <3>. QED
      BY <3>4 DEF get_list_for_key
  <2>2. CASE Tail(p) # <<>>
    BY <1>1, <2>2 DEF get_list_for_key, Children
  <2>. QED
    BY <2>1, <2>2
<1>3. ASSUME NEW q \in dict, NEW p \in get_list_for_key(Head(q), Children(dict, Head(q)))
      PROVE  p \in dict
  <2>1. CASE p = <<Head(q)>>
    BY <1>1, <2>1
  <2>2. ASSUME NEW r \in dict, Head(r) = Head(q), p = <<Head(q)>> \o Tail(r) PROVE p \in dict
    BY <1>1, <2>2
  <2>. QED
    BY <2>1, <2>2 DEF get_list_for_key, Children
<1>. QED
  BY <1>2, <1>3

LEMMA FileListed ==
  ASSUME pkg \in Packages, NEW sub, GetFileList(sub), UNCHANGED pkg
  PROVE  ListedAs(sub)'
<1>0. PICK lines \in Printed(sub) :
        LET contents == get_bom_contents(lines)
        IN  /\ file_ul' = UNION {get_list_for_key(k, Children(contents, k)) :
                                    k \in {Head(p) : p \in contents}}
            /\ short' = IF lines = BomLines(sub) THEN short ELSE short \cup {sub}
  BY DEF GetFileList
<1>1. IsFiniteSet(lines) /\
      \A path \in lines : path \in Seq(FileNames) /\ Prefixes(path) \ {<<>>} \subseteq lines
  <2>1. lines \subseteq BomLines(sub) /\ \A path \in lines : Prefixes(path) \ {<<>>} \subseteq lines
    BY DEF Printed
  <2>2. IsFiniteSet(BomLines(sub)) /\ \A path \in BomLines(sub) : path \in Seq(FileNames)
    BY PackagesAssumption, FS_EmptySet DEF BomLines
  <2>. QED
    BY <2>1, <2>2, FS_Subset
<1>2. get_bom_contents(lines) = Files(lines)
  BY <1>1, ContentsAreFiles
<1>3. \A p \in Files(lines) : p \in Seq(FileNames) /\ p # <<>> /\ Prefixes(p) \ {<<>>} \subseteq Files(lines)
  BY <1>1, FilesClosed
<1>4. UNION {get_list_for_key(k, Children(Files(lines), k)) : k \in {Head(p) : p \in Files(lines)}} = Files(lines)
  BY <1>3, ListForKeys
<1>5. file_ul' = Files(lines) /\ (sub \notin short' => lines = BomLines(sub))
  BY <1>0, <1>2, <1>4
<1>6. lines \subseteq BomLines(sub) /\ ListingOf(sub)' = Files(BomLines(sub))
  BY DEF Printed, ListingOf, BomLines, Files
<1>. QED
  BY <1>5, <1>6 DEF ListedAs, Files

-----------------------------------------------------------------------------
\* What a run has left behind when it comes to the finally.
Behind ==
  /\ stage \in {"expand", "template", "scripts", "files"} => html = "before"
  /\ stage = "write" => html = "empty"
  /\ stage = "cleanup" =>
       /\ html = "before" => failed \cap {"scripts", "files"} # {}
       /\ html = "empty" => "write" \in failed

\* The scripts of these sub-packages are in the list, and no others.
Loaded(subs) ==
  /\ \A sub \in subs : ScriptsReadable(sub)
  /\ scripts = UNION {ScriptItems(sub) : sub \in subs}

\* The last Bom that was listed.
LastListed ==
  LET visited == IF todo = pkg.subs THEN {Top} \cap DOMAIN pkg.boms ELSE pkg.subs \ todo
  IN  IF visited = {} THEN file_ul = Sample ELSE \E sub \in visited : ListedAs(sub)

\* What is in the report, as long as nothing has failed.
Reported ==
  /\ todo \subseteq pkg.subs
  /\ exitcode = 0 /\ stage = "exit" => temporary = "removed" /\ html = "report"
  /\ exitcode = 0 /\ stage = "cleanup" => html = "report"
  /\ stage \in {"expand", "template", "scripts"} => file_ul = Sample
  /\ stage = "scripts" /\ todo # pkg.subs => Loaded(pkg.subs \ todo)
  /\ stage = "write" \/ (exitcode = 0 /\ stage \in {"cleanup", "exit"}) => todo = {}
  /\ stage \in {"files", "write"} \/ (exitcode = 0 /\ stage \in {"cleanup", "exit"}) =>
       Loaded(pkg.subs) /\ LastListed

ReportInv == pkg \in Packages /\ Behind /\ NothingLeftBehind /\ Reported

-----------------------------------------------------------------------------
LEMMA ReportInitially == UpdateInit => ReportInv
  BY DEF UpdateInit, ReportInv, Behind, NothingLeftBehind, Reported

LEMMA LeftBehindStep ==
  ASSUME ReportInv, [UpdateNext]_updateVars
  PROVE  pkg' = pkg /\ Behind' /\ NothingLeftBehind'
<1>. USE DEF ReportInv, Behind, NothingLeftBehind
<1>1. CASE Expand
  BY <1>1 DEF Expand, Goto
<1>2. CASE ReadTemplate
  BY <1>2 DEF ReadTemplate, Goto
<1>3. CASE FailsBeforeTry
  BY <1>3 DEF FailsBeforeTry
<1>4. CASE LoadScripts
  BY <1>4 DEF LoadScripts
<1>5. CASE ListTop
  BY <1>5 DEF ListTop, Goto
<1>6. CASE ListSubPackage
  BY <1>6 DEF ListSubPackage
<1>7. CASE OpenReport
  BY <1>7 DEF OpenReport, Goto
<1>8. CASE WriteReport
  BY <1>8 DEF WriteReport, Goto
<1>9. CASE Raises
  BY <1>9 DEF Raises
<1>10. CASE RemoveTree
  BY <1>10 DEF RemoveTree, Goto
<1>11. CASE RemoveTreeFails
  BY <1>11 DEF RemoveTreeFails
<1>12. CASE UNCHANGED updateVars
  BY <1>12 DEF updateVars
<1>. QED
  BY <1>1, <1>2, <1>3, <1>4, <1>5, <1>6, <1>7, <1>8, <1>9, <1>10, <1>11, <1>12 DEF UpdateNext

\* The loop over the sub-packages adds the items of one to those it has.
LEMMA LoadScriptsStep ==
  ASSUME ReportInv, LoadScripts
  PROVE  Reported'
<1>1. PICK sub \in todo :
         /\ ScriptsReadable(sub)
         /\ scripts' = (IF todo = pkg.subs THEN {} ELSE scripts) \cup ScriptItems(sub)
         /\ todo' = todo \ {sub}
  BY DEF LoadScripts
<1>2. stage = "scripts" /\ UNCHANGED <<pkg, stage, file_ul, temporary, html, exitcode, failed>>
  BY DEF LoadScripts
<1>3. todo \subseteq pkg.subs /\ file_ul = Sample /\ (todo # pkg.subs => Loaded(pkg.subs \ todo))
  BY <1>2 DEF ReportInv, Reported
<1>4. \A s : ScriptsReadable(s)' = ScriptsReadable(s) /\ ScriptItems(s)' = ScriptItems(s)
  BY <1>2 DEF ScriptsReadable, ScriptItems, Shown
<1>5. pkg'.subs \ todo' = (pkg.subs \ todo) \cup {sub}
  BY <1>1, <1>2, <1>3
<1>6. CASE todo = pkg.subs
  <2>1. pkg'.subs \ todo' = {sub} /\ scripts' = ScriptItems(sub)
    BY <1>1, <1>5, <1>6
  <2>. QED
    BY <1>1, <1>2, <1>3, <1>4, <2>1 DEF Reported, Loaded
<1>7. CASE todo # pkg.subs
  <2>1. scripts' = scripts \cup ScriptItems(sub)
    BY <1>1, <1>7
  <2>2. Loaded(pkg.subs \ todo)
    BY <1>3, <1>7
  <2>3. scripts' = UNION {ScriptItems(s) : s \in pkg'.subs \ todo'}
    BY <1>5, <2>1, <2>2 DEF Loaded
  <2>4. \A s \in pkg'.subs \ todo' : ScriptsReadable(s)
    BY <1>1, <1>5, <2>2 DEF Loaded
  <2>5. Loaded(pkg.subs \ todo)'
    BY <1>4, <2>3, <2>4 DEF Loaded
  <2>. QED
    BY <1>1, <1>2, <1>3, <2>5 DEF Reported
<1>. QED
  BY <1>6, <1>7

LEMMA ListTopStep ==
  ASSUME ReportInv, ListTop
  PROVE  Reported'
<1>1. stage = "scripts" /\ todo = {} /\ todo' = pkg.subs /\ stage' = "files" /\ UNCHANGED pkg
  BY DEF ListTop, Goto
<1>2. file_ul = Sample /\ (pkg.subs # {} => Loaded(pkg.subs))
  BY <1>1 DEF ReportInv, Reported
<1>3. \A s : ScriptsReadable(s)' = ScriptsReadable(s) /\ ScriptItems(s)' = ScriptItems(s)
  BY <1>1 DEF ScriptsReadable, ScriptItems, Shown
<1>4. Loaded(pkg.subs)'
  BY <1>1, <1>2, <1>3 DEF Loaded, ListTop
<1>5. LastListed'
  <2>1. CASE Top \in DOMAIN pkg.boms
    <3>1. ListedAs(Top)'
      BY <1>1, <2>1, FileListed DEF ListTop, ReportInv
    <3>. QED
      BY <1>1, <2>1, <3>1 DEF LastListed
  <2>2. CASE Top \notin DOMAIN pkg.boms
    BY <1>1, <1>2, <2>2 DEF LastListed, ListTop
  <2>. QED
    BY <2>1, <2>2
<1>. QED
  BY <1>1, <1>4, <1>5 DEF Reported

LEMMA ListSubPackageStep ==
  ASSUME ReportInv, ListSubPackage
  PROVE  Reported'
<1>1. PICK sub \in todo : GetFileList(sub) /\ todo' = todo \ {sub}
  BY DEF ListSubPackage
<1>2. stage = "files" /\ UNCHANGED <<pkg, stage, scripts, temporary, html, exitcode, failed>>
  BY DEF ListSubPackage
<1>3. todo \subseteq pkg.subs /\ Loaded(pkg.subs)
  BY <1>2 DEF ReportInv, Reported
<1>4. Loaded(pkg.subs)'
  BY <1>2, <1>3 DEF Loaded, ScriptsReadable, ScriptItems, Shown
<1>5. ListedAs(sub)'
  BY <1>1, <1>2, FileListed DEF ReportInv
<1>6. sub \in pkg'.subs \ todo' /\ todo' # pkg'.subs
  BY <1>1, <1>2, <1>3
<1>7. LastListed'
  BY <1>5, <1>6 DEF LastListed
<1>. QED
  BY <1>1, <1>2, <1>3, <1>4, <1>7 DEF Reported

LEMMA ReportedStep ==
  ASSUME ReportInv, [UpdateNext]_updateVars
  PROVE  Reported'
<1>1. CASE LoadScripts
  BY <1>1, LoadScriptsStep
<1>2. CASE ListTop
  BY <1>2, ListTopStep
<1>3. CASE ListSubPackage
  BY <1>3, ListSubPackageStep
<1>4. CASE FailsBeforeTry
  BY <1>4 DEF ReportInv, Reported, FailsBeforeTry
<1>5. CASE Raises
  BY <1>5 DEF ReportInv, Reported, Raises
<1>6. CASE RemoveTreeFails
  BY <1>6 DEF ReportInv, Reported, RemoveTreeFails
<1>7. ASSUME UNCHANGED <<pkg, scripts, file_ul, short>>
      PROVE  /\ Loaded(pkg.subs) => Loaded(pkg.subs)'
             /\ UNCHANGED todo =>
                  /\ LastListed => LastListed'
                  /\ Loaded(pkg.subs \ todo) => Loaded(pkg.subs \ todo)'
  <2>1. \A s : ScriptsReadable(s)' = ScriptsReadable(s) /\ ScriptItems(s)' = ScriptItems(s)
    BY <1>7 DEF ScriptsReadable, ScriptItems, Shown
  <2>2. \A s : ListedAs(s)' <=> ListedAs(s)
    BY <1>7 DEF ListedAs, ListingOf, BomLines
  <2>3. Loaded(pkg.subs) => Loaded(pkg.subs)'
    BY <1>7, <2>1 DEF Loaded
  <2>4. ASSUME UNCHANGED todo, Loaded(pkg.subs \ todo) PROVE Loaded(pkg.subs \ todo)'
    BY <1>7, <2>1, <2>4 DEF Loaded
  <2>5. ASSUME UNCHANGED todo, LastListed PROVE LastListed'
    BY <1>7, <2>2, <2>5 DEF LastListed
  <2>. QED
    BY <2>3, <2>4, <2>5
<1>8. CASE Expand
  BY <1>8 DEF ReportInv, Reported, Expand, Goto
<1>9. CASE ReadTemplate
  BY <1>9 DEF ReportInv, Reported, ReadTemplate, Goto
<1>10. CASE OpenReport
  BY <1>7, <1>10 DEF ReportInv, Reported, OpenReport, Goto
<1>11. CASE WriteReport
  BY <1>7, <1>11 DEF ReportInv, Reported, WriteReport, Goto
<1>12. CASE RemoveTree
  BY <1>7, <1>12 DEF ReportInv, Reported, RemoveTree, Goto
<1>13. CASE UNCHANGED updateVars
  BY <1>7, <1>13 DEF ReportInv, Reported, updateVars
<1>. QED
  BY <1>1, <1>2, <1>3, <1>4, <1>5, <1>6, <1>8, <1>9, <1>10, <1>11, <1>12, <1>13 DEF UpdateNext

LEMMA ReportInvariant == UpdateSpec => []ReportInv
<1>1. ReportInv /\ [UpdateNext]_updateVars => ReportInv'
  BY LeftBehindStep, ReportedStep DEF ReportInv
<1>. QED
  BY ReportInitially, <1>1, PTL DEF UpdateSpec

\* What is loaded is every script outside Tools.
LEMMA ReportedIsComplete == ReportInv => ReportComplete
<1>. SUFFICES ASSUME ReportInv, Succeeded PROVE ReportComplete
  BY DEF ReportComplete
<1>1. /\ temporary = "removed" /\ html = "report" /\ todo = {}
      /\ Loaded(pkg.subs) /\ LastListed
  BY DEF ReportInv, Reported, Succeeded
<1>2. \A sub \in pkg.subs : sub \in DOMAIN pkg.scripts /\ ScriptItems(sub) \subseteq scripts
  BY <1>1 DEF Loaded, ScriptsReadable
<1>3. ASSUME NEW sub \in pkg.subs, NEW name \in DOMAIN pkg.scripts[sub] \ {Tools}
      PROVE  /\ pkg.scripts[sub][name].isfile => <<sub, name>> \in scripts
             /\ \A file \in pkg.scripts[sub][name].files : <<sub, name, file>> \in scripts
  BY <1>2 DEF ScriptItems, Shown
<1>4. \A item \in scripts : Head(item) \in pkg.subs
  <2>1. ASSUME NEW sub \in pkg.subs, NEW item \in ScriptItems(sub) PROVE Head(item) = sub
    BY DEF ScriptItems
  <2>. QED
    BY <1>1, <2>1 DEF Loaded
<1>5. IF ListedLast = {} THEN file_ul = Sample ELSE \E sub \in ListedLast : ListedAs(sub)
  BY <1>1 DEF LastListed, ListedLast
<1>. QED
  BY <1>1, <1>2, <1>3, <1>4, <1>5 DEF ReportComplete

\* The expanded package and the report of an earlier run, whatever fails and
\* whatever is in the package.
THEOREM NothingLeftBehindHolds == UpdateSpec => []NothingLeftBehind
<1>1. ReportInv => NothingLeftBehind
  BY DEF ReportInv
<1>. QED
  BY ReportInvariant, <1>1, PTL

\* Exit status 0 means a complete report of the scripts, and of the Bom listed
\* last: the entering of its lines in dictionaries, in any order, loses and adds
\* nothing, and only what lsbom has not printed is missing.
THEOREM ReportCompleteHolds == UpdateSpec => []ReportComplete
  BY ReportInvariant, ReportedIsComplete, PTL

=============================================================================
