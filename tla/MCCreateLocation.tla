------------------------- MODULE MCCreateLocation -------------------------
(***************************************************************************)
(* Instance of CreateLocation: two runs for the same name, and stores that *)
(* are sound, whose service order names a service the set no longer has,   *)
(* that hold a dangling link, that already have the name, or that have no  *)
(* Automatic location.                                                     *)
(***************************************************************************)
EXTENDS CreateLocation, TLC

CONSTANTS p1, p2, auto, work, s1, s2, plain, proxied, Office

MCRuns == {p1, p2}
MCNewName == (p1 :> Office) @@ (p2 :> Office)

Set(name, services, order) == [name |-> name, services |-> services, order |-> order]
Services == (s1 :> plain) @@ (s2 :> proxied)

MCInitialStores ==
    LET automatic == Set(Automatic, {s1, s2}, <<s2, s1>>)
    IN  {[sets |-> auto :> automatic, services |-> Services],
         [sets |-> auto :> Set(Automatic, {s1}, <<s2, s1>>), services |-> Services],
         [sets |-> auto :> automatic, services |-> s1 :> plain],
         [sets |-> (auto :> automatic) @@ (work :> Set(Office, {}, <<>>)),
          services |-> Services],
         [sets |-> work :> Set(Office, {s1}, <<s1>>), services |-> Services]}

=============================================================================
