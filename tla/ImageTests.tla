----------------------------- MODULE ImageTests -----------------------------
(***************************************************************************)
(* utilities/diskimage_unittesting/run_image_tests.py: attach a disk image *)
(* (or take a directory), collect the tests of the modules in the test     *)
(* directory, run them against the mount point, detach, and tell by the    *)
(* exit status whether all succeeded.                                      *)
(*                                                                         *)
(* An exception that nobody catches, and an interrupt from the keyboard,   *)
(* end the program with exit status 1 wherever it is: nothing is in a      *)
(* try ... finally.                                                        *)
(***************************************************************************)
EXTENDS Integers, FiniteSets, Sequences, SequencesExt

CONSTANTS
    Modules,        \* the *_test.py files of the test directory, sorted
    Classes,        \* [Modules -> sequences of classes]: dir() order
    Methods,        \* [classes -> sequences of test methods]: sorted
    None,
    StatusModulus   \* exit statuses: 256

AllClasses == UNION {Range(Classes[m]) : m \in Range(Modules)}

ASSUME ImageAssumption ==
    /\ StatusModulus \in Nat \ {0} /\ None \notin Nat
    /\ Modules \in Seq(Range(Modules))
    /\ \A m \in Range(Modules) : Classes[m] \in Seq(AllClasses)
    /\ \A c \in AllClasses : Methods[c] \in Seq(Range(Methods[c])) /\ IsInjective(Methods[c])
    /\ \A c, d \in AllClasses : c # d => Range(Methods[c]) \cap Range(Methods[d]) = {}

VARIABLES
    pc,         \* where main() is
    option,     \* --dmg, or --root with an absolute path, "/" or a relative one
    attached,   \* hdiutil has the image attached
    mountpoint, \* "image", the directory "root", what a relative --root means
                \* after chdir ("elsewhere"), or None
    index,      \* how many modules GetTestSuite has been called for
    suite,      \* combo_suite: a sequence of tests
    ran,        \* how many of them were run
    bad,        \* those of them with an error or a failure
    aborted,    \* an exception or an interrupt ended main()
    status      \* the exit status, None while running

vars == <<pc, option, attached, mountpoint, index, suite, ran, bad, aborted, status>>

Init ==
    /\ pc = "start"
    /\ option \in {"dmg", "root", "/", "relative root", "none"}
    /\ attached = FALSE /\ mountpoint = None
    /\ index = 0 /\ suite = <<>> /\ ran = 0 /\ bad = {}
    /\ aborted = FALSE /\ status = None

Exit(code) == pc' = "exited" /\ status' = code

\* A traceback: exit status 1, with everything left as it is.
Abort ==
    /\ Exit(1)
    /\ aborted' = TRUE
    /\ UNCHANGED <<option, attached, mountpoint, index, suite, ran, bad>>

-----------------------------------------------------------------------------
\* hdiutil attaches the image and names a mount point.
AttachDiskImage ==
    /\ pc = "start" /\ option = "dmg"
    /\ attached' = TRUE /\ mountpoint' = "image"
    /\ pc' = "chdir"
    /\ UNCHANGED <<option, index, suite, ran, bad, aborted, status>>

\* hdiutil fails, or attaches an image none of whose file systems it mounts:
\* "Unable to mount", exit status 2.
AttachFails ==
    /\ pc = "start" /\ option = "dmg"
    /\ attached' \in BOOLEAN
    /\ Exit(2)
    /\ UNCHANGED <<option, mountpoint, index, suite, ran, bad, aborted>>

UseRoot ==
    /\ pc = "start" /\ option \in {"root", "/", "relative root"}
    /\ mountpoint' = "root"
    /\ pc' = "chdir"
    /\ UNCHANGED <<option, attached, index, suite, ran, bad, aborted, status>>

\* --root is not a directory: exit status 2; or neither option is there: 1.
RootMissing ==
    /\ pc = "start" /\ option # "dmg"
    /\ Exit(IF option = "none" THEN 1 ELSE 2)
    /\ UNCHANGED <<option, attached, mountpoint, index, suite, ran, bad, aborted>>

\* os.chdir to the directory of the script: a relative root, checked before,
\* names another directory from here on.
Chdir ==
    /\ pc = "chdir"
    /\ mountpoint' = IF mountpoint = "root" /\ option = "relative root"
                     THEN "elsewhere" ELSE mountpoint
    /\ pc' = "collect"
    /\ UNCHANGED <<option, attached, index, suite, ran, bad, aborted, status>>

\* The script was called without a directory (os.chdir("")), or there is no
\* test directory.
ChdirFails == pc = "chdir" /\ Abort

\* GetTestSuite: the module is imported and the tests of its first Test class
\* go into the suite, because the loop returns in its first pass.
GetTestSuite ==
    /\ pc = "collect" /\ index < Len(Modules)
    /\ Classes[Modules[index + 1]] # <<>>
    /\ suite' = suite \o Methods[Head(Classes[Modules[index + 1]])]
    /\ index' = index + 1
    /\ UNCHANGED <<pc, option, attached, mountpoint, ran, bad, aborted, status>>

\* The import fails, or there is no Test class and GetTestSuite returns None,
\* which addTests cannot iterate over.
GetTestSuiteFails == pc = "collect" /\ index < Len(Modules) /\ Abort

Collected ==
    /\ pc = "collect" /\ index = Len(Modules)
    /\ pc' = "run"
    /\ UNCHANGED <<option, attached, mountpoint, index, suite, ran, bad, aborted, status>>

\* TextTestRunner runs one test; an error or a failure does not stop it.
RunTest ==
    /\ pc = "run" /\ ran < Len(suite)
    /\ ran' = ran + 1
    /\ bad' \in {bad, bad \cup {suite[ran + 1]}}
    /\ UNCHANGED <<pc, option, attached, mountpoint, index, suite, aborted, status>>

\* Mutant: the image stays attached when a test was bad.
RunEndsDetachIfGood ==
    /\ pc = "run" /\ ran = Len(suite)
    /\ pc' = IF option = "dmg" /\ bad = {} THEN "detach" ELSE "report"
    /\ UNCHANGED <<option, attached, mountpoint, index, suite, ran, bad, aborted, status>>

RunEnds ==
    /\ pc = "run" /\ ran = Len(suite)
    /\ pc' = IF option = "dmg" THEN "detach" ELSE "report"
    /\ UNCHANGED <<option, attached, mountpoint, index, suite, ran, bad, aborted, status>>

\* hdiutil detach succeeds, at once or with -force.
DetachDiskImage ==
    /\ pc = "detach"
    /\ attached' = FALSE
    /\ pc' = "report"
    /\ UNCHANGED <<option, mountpoint, index, suite, ran, bad, aborted, status>>

\* It fails with -force too: StandardError, and no word of the results.
DetachFails == pc = "detach" /\ Abort

\* Mutant: errors are not counted, the run succeeds if nothing is left to run.
ReportSuccess ==
    /\ pc = "report"
    /\ Exit(0)
    /\ UNCHANGED <<option, attached, mountpoint, index, suite, ran, bad, aborted>>

\* Exit status 0, or the number of bad tests: the system keeps its low byte.
Report ==
    /\ pc = "report"
    /\ Exit(Cardinality(bad) % StatusModulus)
    /\ UNCHANGED <<option, attached, mountpoint, index, suite, ran, bad, aborted>>

\* Control-C, to the program alone or while it waits for hdiutil.
KeyboardInterrupt == pc # "exited" /\ Abort

Next ==
    \/ AttachDiskImage \/ AttachFails \/ UseRoot \/ RootMissing
    \/ Chdir \/ ChdirFails
    \/ GetTestSuite \/ GetTestSuiteFails \/ Collected
    \/ RunTest \/ RunEnds
    \/ DetachDiskImage \/ DetachFails \/ Report
    \/ KeyboardInterrupt

Spec == Init /\ [][Next]_vars

-----------------------------------------------------------------------------
(* Properties.                                                             *)

\* An image stays attached only if the program was cut short by an exception
\* or an interrupt, or if hdiutil named no mount point; in particular bad tests
\* do not leave it attached (run_image_tests.py:196-197).
ImageDetached ==
    pc = "exited" /\ attached => aborted \/ (status = 2 /\ mountpoint = None)

\* What a run covers: GetTestSuite takes the first Test class of each module.
FirstClasses == {Head(Classes[m]) : m \in Range(Modules)}

\* Exit status 0 is given only for a run to the end with the image detached,
\* in which every test of the first class of every module was run, on the image
\* or on the directory that an absolute --root names; with a bad test only if
\* the number of bad ones is a multiple of 256 (lines 108-114 and 185-207).
ZeroMeansSuccess ==
    status = 0 =>
        /\ ~aborted /\ ~attached
        /\ ran = Len(suite) /\ Range(suite) = UNION {Range(Methods[c]) : c \in FirstClasses}
        /\ option = "dmg" => mountpoint = "image"
        /\ option \in {"root", "/"} => mountpoint = "root"
        /\ Cardinality(bad) % StatusModulus = 0

=============================================================================
