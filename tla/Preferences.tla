---------------------------- MODULE Preferences ----------------------------
(***************************************************************************)
(* What the programs that change the system's network preferences promise  *)
(* together: a commit is one transaction on what is stored at that moment, *)
(* however long ago its program read the preferences and whatever others   *)
(* have stored since, and what is in effect has been stored.               *)
(***************************************************************************)
CONSTANT Transaction(_, _)   \* what one commit may make of the preferences

VARIABLES
  saved,     \* the preferences as stored
  active     \* the preferences in effect

vars == <<saved, active>>

Init == active = saved

Commit == Transaction(saved, saved') /\ UNCHANGED active

Apply == active' = saved /\ UNCHANGED saved

\* The preference pane and the like, which do both.
CommitAndApply == Transaction(saved, saved') /\ active' = saved'

Next == Commit \/ Apply \/ CommitAndApply

Spec == Init /\ [][Next]_vars
=============================================================================
