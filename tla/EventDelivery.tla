--------------------------- MODULE EventDelivery ---------------------------
(***************************************************************************)
(* What crankd promises whoever configures a handler: reported keys wait,  *)
(* are taken all together, and a batch that ends normally has been served  *)
(* key by key to the last one.  Serving may fail, which gives up the rest  *)
(* of the batch; nothing else loses a key.                                 *)
(***************************************************************************)
CONSTANT Keys

VARIABLES waiting, batch, served, state

vars == <<waiting, batch, served, state>>

Init ==
  /\ waiting = {}
  /\ batch = {}
  /\ served = {}
  /\ state = "returned"

Notify(k) ==
  /\ waiting' = waiting \cup {k}
  /\ UNCHANGED <<batch, served, state>>

Take ==
  /\ state # "serving"
  /\ waiting # {}
  /\ batch' = waiting
  /\ waiting' = {}
  /\ served' = {}
  /\ state' = "serving"

\* A handler runs for k; it may be what ends the batch early.
Serve(k) ==
  /\ state = "serving"
  /\ k \in batch
  /\ served' = served \cup {k}
  /\ state' \in {"serving", "raised"}
  /\ UNCHANGED <<waiting, batch>>

Finish ==
  /\ state = "serving"
  /\ served = batch
  /\ state' = "returned"
  /\ UNCHANGED <<waiting, batch, served>>

Work == (\E k \in Keys : Serve(k)) \/ Finish

Next == (\E k \in Keys : Notify(k)) \/ Take \/ Work

Fairness == WF_vars(Take) /\ WF_vars(Work)

Spec == Init /\ [][Next]_vars
FairSpec == Spec /\ Fairness
=============================================================================
