------------------------ MODULE CreateLocationProofs ------------------------
(***************************************************************************)
(* Proofs about create-location: any number of runs, whatever is stored,   *)
(* and any number of changes by others between any two steps.              *)
(*                                                                         *)
(* What a run has in its copy matters only while the store is the one it   *)
(* has read: once it is not, no commit of the run succeeds.                *)
(***************************************************************************)
EXTENDS CreateLocation, TLAPS

Fresh(p) == seen[p] = version

\* A store as the framework reads it. The services of the Automatic location
\* are none that a run made.
Proper(store) ==
  /\ DOMAIN store = {"sets", "services"}
  /\ store.services = [s \in DOMAIN store.services |-> store.services[s]]
  /\ \A k \in DOMAIN store.sets :
       /\ DOMAIN store.sets[k] = {"name", "services", "order"}
       /\ store.sets[k].name = Automatic => store.sets[k].services \subseteq Ids

Objects ==
  /\ DOMAIN pc = Runs /\ DOMAIN session = Runs /\ DOMAIN seen = Runs
  /\ DOMAIN draft = Runs /\ DOMAIN copied = Runs
  /\ version \in Nat /\ \A p \in Runs : seen[p] \in Nat /\ seen[p] <= version

\* The services with those of done copied.
Plus(p, services, done) ==
  LET copies == {<<p, s>> : s \in done}
  IN  [x \in DOMAIN services \cup copies |-> IF x \in copies THEN services[x[2]] ELSE services[x]]

\* The location the run p is copying, if the store is the one it has read.
Automatics == Named(disk, Automatic)
Old == disk.sets[CHOOSE k \in Automatics : TRUE]

Working(p) ==
  Fresh(p) =>
    /\ pc[p] \in {"copy", "services"} =>
         /\ DOMAIN session[p] = {"sets", "services"} /\ session[p].sets = disk.sets
         /\ Named(disk, NewName[p]) = {} /\ Automatics # {}
    /\ pc[p] = "copy" => copied[p] = {} /\ session[p].services = disk.services
    /\ pc[p] = "services" =>
         /\ copied[p] \subseteq Old.services \cap DOMAIN disk.services
         /\ session[p].services = Plus(p, disk.services, copied[p])
         /\ draft[p] = [name |-> NewName[p], order |-> Old.order,
                        services |-> (Old.services \ copied[p]) \cup {<<p, s>> : s \in copied[p]}]
    /\ pc[p] = "commit" =>
         DOMAIN session[p] = {"sets", "services"} /\ CreatesLocation(p, disk, session[p])

\* Nothing is copied before the copy of the location is made.
Begun(p) == pc[p] \in {"start", "copy"} => copied[p] = {}

IInv ==
  /\ Proper(disk) /\ Objects
  /\ \A p \in Runs : Working(p) /\ Begun(p)
  /\ NamesUnique /\ StatusTellsResult

-----------------------------------------------------------------------------
(* What transactions do to a store.                                        *)

LEMMA OldIsAutomatic ==
  ASSUME Proper(disk), Automatics # {}
  PROVE  \E k \in DOMAIN disk.sets :
           Old = disk.sets[k] /\ disk.sets[k].name = Automatic /\ Old.services \subseteq Ids
<1>1. (CHOOSE k \in Automatics : TRUE) \in Automatics
  BY Zenon
<1>. QED
  BY <1>1 DEF Old, Automatics, Named, Proper

\* One more service copied.
LEMMA CopiesOne ==
  ASSUME NEW p \in Runs, NEW services, NEW done \in SUBSET (Ids \cap DOMAIN services),
         NEW s \in Ids \cap DOMAIN services
  PROVE  With(Plus(p, services, done), <<p, s>>, Plus(p, services, done)[s])
         = Plus(p, services, done \cup {s})
<1>. DEFINE plus == Plus(p, services, done)
            copies == {<<p, t>> : t \in done}
            more == {<<p, t>> : t \in done \cup {s}}
<1>1. more = copies \cup {<<p, s>>} /\ s \notin copies
  BY LocationAssumption
<1>2. plus[s] = services[s] /\ DOMAIN plus = DOMAIN services \cup copies
  BY <1>1 DEF Plus
<1>3. \A x \in DOMAIN services \cup copies : x # <<p, s>> => (x \in more <=> x \in copies)
  BY <1>1
<1>4. With(plus, <<p, s>>, plus[s]) =
        [x \in DOMAIN services \cup more |-> IF x = <<p, s>> THEN services[s] ELSE plus[x]]
  BY <1>1, <1>2 DEF With
<1>5. \A x \in DOMAIN services \cup more :
        (IF x = <<p, s>> THEN services[s] ELSE plus[x])
        = IF x \in more THEN services[x[2]] ELSE services[x]
  BY <1>1, <1>3 DEF Plus
<1>. QED
  BY <1>4, <1>5 DEF Plus

LEMMA CreatesKeeps ==
  ASSUME NEW p \in Runs, NEW before, NEW after, CreatesLocation(p, before, after),
         DOMAIN after = {"sets", "services"}, Proper(before)
  PROVE  /\ Proper(after) /\ DOMAIN after.sets = DOMAIN before.sets \cup {p}
         /\ after.sets[p].name = NewName[p] /\ Named(before, NewName[p]) = {}
         /\ \A k \in DOMAIN before.sets \ {p} : after.sets[k] = before.sets[k]
<1>1. PICK k \in Named(before, Automatic) : CopyOf(p, before.sets[k], before, after)
  BY DEF CreatesLocation
<1>2. /\ Named(before, NewName[p]) = {}
      /\ \E services, order : after.sets = With(before.sets, p,
           [name |-> NewName[p], services |-> services, order |-> order])
  BY <1>1 DEF CopyOf
<1>3. NewName[p] # Automatic
  BY <1>1, <1>2
<1>4. after.services = [x \in DOMAIN after.services |-> after.services[x]]
  BY <1>1 DEF CopyOf
<1>. QED
  BY <1>2, <1>3, <1>4 DEF With, Proper

LEMMA EditKeeps ==
  ASSUME Proper(disk), Configured(disk, disk') \/ ServiceRemoved(disk, disk')
  PROVE  /\ Proper(disk)' /\ DOMAIN disk'.sets = DOMAIN disk.sets
         /\ \A k \in DOMAIN disk.sets : disk'.sets[k].name = disk.sets[k].name
<1>1. CASE Configured(disk, disk')
  <2>1. /\ DOMAIN disk' = DOMAIN disk /\ disk'.sets = disk.sets
        /\ \E v : disk'.services = [s \in DOMAIN disk.services |-> v]
    BY <1>1 DEF Configured, Proper
  <2>. QED
    BY <2>1 DEF Proper
<1>2. CASE ServiceRemoved(disk, disk')
  <2>1. PICK k \in DOMAIN disk.sets : \E s \in disk.sets[k].services :
          disk' = [sets |-> [disk.sets EXCEPT ![k] = Unlinked(@, s)],
                   services |-> [x \in DOMAIN disk.services \ {s} |-> disk.services[x]]]
    BY <1>2 DEF ServiceRemoved
  <2>2. PICK s :
          /\ DOMAIN disk' = {"sets", "services"} /\ disk'.sets = [disk.sets EXCEPT ![k] = Unlinked(@, s)]
          /\ disk'.services = [x \in DOMAIN disk.services \ {s} |-> disk.services[x]]
    BY <2>1
  <2>3. /\ DOMAIN disk'.sets = DOMAIN disk.sets /\ disk'.sets[k] = Unlinked(disk.sets[k], s)
        /\ \A l \in DOMAIN disk.sets \ {k} : disk'.sets[l] = disk.sets[l]
    BY <2>2
  <2>4. /\ DOMAIN Unlinked(disk.sets[k], s) = DOMAIN disk.sets[k]
        /\ Unlinked(disk.sets[k], s).name = disk.sets[k].name
        /\ Unlinked(disk.sets[k], s).services = disk.sets[k].services \ {s}
    BY DEF Unlinked, Proper
  <2>. QED
    BY <2>2, <2>3, <2>4 DEF Proper
<1>. QED
  BY <1>1, <1>2

-----------------------------------------------------------------------------
(* Steps that store nothing.                                               *)

Alone(p) ==
  /\ DOMAIN pc' = Runs /\ DOMAIN session' = Runs /\ DOMAIN seen' = Runs
  /\ DOMAIN draft' = Runs /\ DOMAIN copied' = Runs
  /\ \A q \in Runs \ {p} :
       /\ pc'[q] = pc[q] /\ session'[q] = session[q] /\ seen'[q] = seen[q]
       /\ draft'[q] = draft[q] /\ copied'[q] = copied[q]

LEMMA Steps ==
  ASSUME IInv, NEW p \in Runs, Alone(p), UNCHANGED <<disk, version>>,
         seen'[p] \in {seen[p], version}, Working(p)', Begun(p)',
         /\ Committed(p)' <=> Committed(p)
         /\ pc'[p] = "done" => applied' = disk
         /\ applied' \in {applied, disk}
  PROVE  IInv'
<1>1. Proper(disk)' /\ NamesUnique'
  BY DEF IInv, Proper, NamesUnique
<1>2. Objects'
  BY DEF IInv, Objects, Alone
<1>3. ASSUME NEW q \in Runs \ {p} PROVE Working(q)' /\ Begun(q)'
  <2>1. /\ Working(q) /\ Begun(q)
        /\ pc'[q] = pc[q] /\ session'[q] = session[q] /\ draft'[q] = draft[q] /\ copied'[q] = copied[q]
    BY DEF IInv, Alone
  <2>2. /\ Fresh(q)' = Fresh(q) /\ Automatics' = Automatics /\ Old' = Old
        /\ Named(disk, NewName[q])' = Named(disk, NewName[q])
    BY DEF Fresh, Automatics, Named, Old, Alone
  <2>. QED
    BY <2>1, <2>2 DEF Working, Begun
<1>4. StatusTellsResult'
  <2>. SUFFICES ASSUME NEW q \in Runs
                PROVE  /\ q \in DOMAIN disk.sets <=> Committed(q)'
                       /\ pc'[q] = "done" => q \in DOMAIN applied'.sets
    BY DEF StatusTellsResult
  <2>1. CASE q = p
    BY <2>1 DEF IInv, StatusTellsResult, Committed
  <2>2. CASE q # p
    BY <2>2 DEF IInv, StatusTellsResult, Alone, Committed
  <2>. QED
    BY <2>1, <2>2
<1>. QED
  BY <1>1, <1>2, <1>3, <1>4 DEF IInv

LEMMA FailSteps ==
  ASSUME IInv, NEW p \in Runs, pc[p] \in {"copy", "services", "commit"}, Fail(p)
  PROVE  IInv'
<1>1. Alone(p) /\ pc'[p] = "failed" /\ UNCHANGED <<disk, version, applied, seen, copied>>
  BY DEF IInv, Objects, Fail, Goto, Alone
<1>2. Working(p)' /\ Begun(p)'
  BY <1>1 DEF Working, Begun
<1>. QED
  BY <1>1, <1>2, Steps DEF Committed

LEMMA ScanSteps == ASSUME IInv, NEW p \in Runs, Scan(p) PROVE IInv'
<1>. DEFINE where == IF Named(disk, NewName[p]) = {} /\ Named(disk, Automatic) # {}
                     THEN "copy" ELSE "failed"
<1>1. /\ pc[p] = "start" /\ UNCHANGED <<disk, version, applied, draft, copied>>
      /\ session' = [session EXCEPT ![p] = disk] /\ seen' = [seen EXCEPT ![p] = version]
      /\ pc' = [pc EXCEPT ![p] = where]
  BY DEF Scan, Goto
<1>2. Alone(p) /\ pc'[p] = where /\ session'[p] = disk /\ seen'[p] = version
  BY <1>1 DEF IInv, Objects, Alone
<1>3. copied[p] = {} /\ Proper(disk)
  BY <1>1 DEF IInv, Begun
<1>4. Working(p)' /\ Begun(p)'
  <2>1. CASE where = "copy"
    BY <1>1, <1>2, <1>3, <2>1 DEF Working, Begun, Proper, Automatics, Named
  <2>2. CASE where = "failed"
    BY <1>1, <1>2, <2>2 DEF Working, Begun
  <2>. QED
    BY <2>1, <2>2
<1>5. pc[p] = "start" /\ pc'[p] \in {"copy", "failed"}
  BY <1>1, <1>2
<1>. QED
  BY <1>1, <1>2, <1>4, <1>5, Steps DEF Committed

LEMMA CopySetSteps == ASSUME IInv, NEW p \in Runs, CopySet(p) PROVE IInv'
<1>1. /\ pc[p] = "copy" /\ UNCHANGED <<disk, version, applied, session, seen, copied>>
      /\ draft' = [draft EXCEPT ![p] = [OldSet(p) EXCEPT !.name = NewName[p]]]
      /\ pc' = [pc EXCEPT ![p] = "services"]
  BY DEF CopySet, Goto
<1>2. Alone(p) /\ pc'[p] = "services" /\ draft'[p] = [OldSet(p) EXCEPT !.name = NewName[p]]
  BY <1>1 DEF IInv, Objects, Alone
<1>3. Begun(p)'
  BY <1>2 DEF Begun
<1>4. ASSUME Fresh(p)' PROVE Working(p)'
  <2>1. /\ Fresh(p) /\ DOMAIN session[p] = {"sets", "services"} /\ session[p].sets = disk.sets
        /\ Named(disk, NewName[p]) = {} /\ Automatics # {}
        /\ copied[p] = {} /\ session[p].services = disk.services
    BY <1>1, <1>4 DEF Fresh, IInv, Working
  <2>2. OldSet(p) = Old /\ Old' = Old /\ Automatics' = Automatics
    BY <1>1, <2>1 DEF OldSet, Old, Automatics, Named
  <2>3. DOMAIN Old = {"name", "services", "order"}
    BY <2>1, OldIsAutomatic DEF IInv, Proper
  <2>4. draft'[p] = [name |-> NewName[p], order |-> Old.order, services |-> Old.services]
    BY <1>2, <2>2, <2>3
  <2>5. {<<p, s>> : s \in copied[p]} = {}
    BY <2>1
  <2>6. (Old.services \ copied[p]) \cup {<<p, s>> : s \in copied[p]} = Old.services
    BY <2>1, <2>5
  <2>7. Plus(p, disk.services, copied[p]) = disk.services
    <3>1. Plus(p, disk.services, copied[p]) = [x \in DOMAIN disk.services |-> disk.services[x]]
      BY <2>5 DEF Plus
    <3>. QED
      BY <3>1 DEF IInv, Proper
  <2>8. Named(disk, NewName[p])' = {}
    BY <1>1, <2>1 DEF Named
  <2>9. copied'[p] \subseteq Old'.services \cap DOMAIN disk'.services
    BY <1>1, <2>1
  <2>. QED
    BY <1>1, <1>2, <2>1, <2>2, <2>4, <2>6, <2>7, <2>8, <2>9 DEF Working
<1>5. Working(p)'
  BY <1>4 DEF Working
<1>. QED
  BY <1>1, <1>2, <1>3, <1>5, Steps DEF Committed
LEMMA CopyServiceSteps == ASSUME IInv, NEW p \in Runs, CopyService(p) PROVE IInv'
<1>1. pc[p] = "services" /\ UNCHANGED <<disk, version, applied, pc, seen>>
  BY DEF CopyService
<1>2. PICK s \in OldSet(p).services \ copied[p] :
        /\ s \in DOMAIN session[p].services
        /\ session' = [session EXCEPT ![p].services = With(@, <<p, s>>, session[p].services[s])]
        /\ draft' = [draft EXCEPT ![p].services = (@ \ {s}) \cup {<<p, s>>}]
        /\ copied' = [copied EXCEPT ![p] = @ \cup {s}]
  BY DEF CopyService
<1>3. /\ Alone(p) /\ copied'[p] = copied[p] \cup {s}
      /\ session'[p] = [session[p] EXCEPT !.services = With(@, <<p, s>>, session[p].services[s])]
      /\ draft'[p] = [draft[p] EXCEPT !.services = (@ \ {s}) \cup {<<p, s>>}]
  BY <1>1, <1>2 DEF IInv, Objects, Alone
<1>4. Begun(p)'
  BY <1>1 DEF Begun
<1>5. ASSUME Fresh(p)' PROVE Working(p)'
  <2>1. /\ Fresh(p) /\ DOMAIN session[p] = {"sets", "services"} /\ session[p].sets = disk.sets
        /\ Named(disk, NewName[p]) = {} /\ Automatics # {}
        /\ copied[p] \subseteq Old.services \cap DOMAIN disk.services
        /\ session[p].services = Plus(p, disk.services, copied[p])
        /\ draft[p] = [name |-> NewName[p], order |-> Old.order,
                       services |-> (Old.services \ copied[p]) \cup {<<p, t>> : t \in copied[p]}]
    BY <1>1, <1>5 DEF Fresh, IInv, Working
  <2>2. /\ OldSet(p) = Old /\ Old' = Old /\ Automatics' = Automatics
        /\ Named(disk, NewName[p])' = {}
    BY <1>1, <2>1 DEF OldSet, Old, Automatics, Named
  <2>3. Old.services \subseteq Ids
    BY <2>1, OldIsAutomatic DEF IInv
  <2>4. s \in Ids /\ s \in Old.services /\ s \notin copied[p] /\ s \notin {<<p, t>> : t \in copied[p]}
    BY <2>1, <2>2, <2>3, LocationAssumption
  <2>5. s \in DOMAIN disk.services
    BY <1>2, <2>1, <2>4 DEF Plus
  <2>6. copied[p] \in SUBSET (Ids \cap DOMAIN disk.services)
    BY <2>1, <2>3
  <2>7. With(session[p].services, <<p, s>>, session[p].services[s])
        = Plus(p, disk.services, copied[p] \cup {s})
    BY <2>1, <2>4, <2>5, <2>6, CopiesOne
  <2>8. /\ session'[p].services = Plus(p, disk.services, copied'[p])
        /\ session'[p].sets = disk.sets /\ DOMAIN session'[p] = {"sets", "services"}
    BY <1>3, <2>1, <2>7
  <2>9. {<<p, t>> : t \in copied'[p]} = {<<p, t>> : t \in copied[p]} \cup {<<p, s>>}
    BY <1>3
  <2>10. ((draft[p].services \ {s}) \cup {<<p, s>>})
         = (Old.services \ copied'[p]) \cup {<<p, t>> : t \in copied'[p]}
    BY <1>3, <2>1, <2>4, <2>9
  <2>11. draft'[p] = [name |-> NewName[p], order |-> Old.order,
                      services |-> (Old.services \ copied'[p]) \cup {<<p, t>> : t \in copied'[p]}]
    <3>. DEFINE links == (Old.services \ copied'[p]) \cup {<<p, t>> : t \in copied'[p]}
    <3>1. draft'[p] = [draft[p] EXCEPT !.services = links]
      BY <1>3, <2>10
    <3>. HIDE DEF links
    <3>2. draft'[p] = [name |-> NewName[p], order |-> Old.order, services |-> links]
      BY <2>1, <3>1
    <3>. QED
      BY <3>2 DEF links
  <2>12. copied'[p] \subseteq Old.services \cap DOMAIN disk.services
    BY <1>3, <2>1, <2>4, <2>5
  <2>. QED
    BY <1>1, <2>1, <2>2, <2>8, <2>11, <2>12 DEF Working
<1>6. Working(p)'
  BY <1>5 DEF Working
<1>. QED
  BY <1>1, <1>3, <1>4, <1>6, Steps DEF Committed

LEMMA StoreSetSteps == ASSUME IInv, NEW p \in Runs, StoreSet(p) PROVE IInv'
<1>1. /\ pc[p] = "services" /\ copied[p] = OldSet(p).services
      /\ UNCHANGED <<disk, version, applied, seen, copied>>
      /\ draft' = [draft EXCEPT ![p].order = Renamed(p, @)]
      /\ session' = [session EXCEPT ![p].sets = With(@, p, draft'[p])]
      /\ pc' = [pc EXCEPT ![p] = "commit"]
  BY DEF StoreSet, Goto
<1>2. /\ Alone(p) /\ pc'[p] = "commit" /\ draft'[p] = [draft[p] EXCEPT !.order = Renamed(p, @)]
      /\ session'[p] = [session[p] EXCEPT !.sets = With(@, p, draft'[p])]
  BY <1>1 DEF IInv, Objects, Alone
<1>3. Begun(p)'
  BY <1>2 DEF Begun
<1>4. ASSUME Fresh(p)' PROVE Working(p)'
  <2>1. /\ Fresh(p) /\ DOMAIN session[p] = {"sets", "services"} /\ session[p].sets = disk.sets
        /\ Named(disk, NewName[p]) = {} /\ Automatics # {}
        /\ copied[p] \subseteq Old.services \cap DOMAIN disk.services
        /\ session[p].services = Plus(p, disk.services, copied[p])
        /\ draft[p] = [name |-> NewName[p], order |-> Old.order,
                       services |-> (Old.services \ copied[p]) \cup {<<p, t>> : t \in copied[p]}]
    BY <1>1, <1>4 DEF Fresh, IInv, Working
  <2>2. OldSet(p) = Old
    BY <2>1 DEF OldSet, Old, Automatics, Named
  <2>3. PICK k \in Automatics : Old = disk.sets[k]
    BY <2>1, Zenon DEF Old
  <2>. DEFINE copies == [x \in {<<p, s>> : s \in Old.services} |-> disk.services[x[2]]]
  <2>4. copied[p] = Old.services /\ DOMAIN copies = {<<p, s>> : s \in Old.services}
    BY <1>1, <2>2
  <2>5. draft'[p] = [name |-> NewName[p], services |-> DOMAIN copies, order |-> Renamed(p, Old.order)]
    <3>. DEFINE links == (Old.services \ copied[p]) \cup {<<p, t>> : t \in copied[p]}
    <3>1. links = DOMAIN copies
      BY <2>4
    <3>. HIDE DEF links
    <3>2. draft[p] = [name |-> NewName[p], order |-> Old.order, services |-> links]
      BY <2>1 DEF links
    <3>3. draft'[p] = [name |-> NewName[p], services |-> links, order |-> Renamed(p, Old.order)]
      BY <1>2, <3>2
    <3>. QED
      BY <3>1, <3>3
  <2>6. /\ DOMAIN session'[p] = {"sets", "services"}
        /\ session'[p].sets = With(disk.sets, p, draft'[p])
        /\ session'[p].services = Plus(p, disk.services, Old.services)
    BY <1>2, <2>1, <2>4
  <2>7. session'[p].services = [x \in DOMAIN disk.services \cup DOMAIN copies |->
                                  IF x \in DOMAIN copies THEN copies[x] ELSE disk.services[x]]
    BY <2>6 DEF Plus
  <2>8. CopyOf(p, disk.sets[k], disk, session'[p])
    BY <2>1, <2>3, <2>4, <2>5, <2>6, <2>7 DEF CopyOf
  <2>9. CreatesLocation(p, disk', session'[p])
    BY <1>1, <2>8 DEF CreatesLocation, Automatics
  <2>. QED
    BY <1>2, <2>6, <2>9 DEF Working
<1>5. Working(p)'
  BY <1>4 DEF Working
<1>. QED
  BY <1>1, <1>2, <1>3, <1>5, Steps DEF Committed

LEMMA ApplySteps == ASSUME IInv, NEW p \in Runs, Apply(p) PROVE IInv'
<1>1. /\ pc[p] = "apply" /\ UNCHANGED <<disk, version, session, seen, draft, copied>>
      /\ applied' = disk /\ pc' = [pc EXCEPT ![p] = "done"]
  BY DEF Apply, Goto
<1>2. Alone(p) /\ pc'[p] = "done"
  BY <1>1 DEF IInv, Objects, Alone
<1>3. Working(p)' /\ Begun(p)'
  BY <1>2 DEF Working, Begun
<1>. QED
  BY <1>1, <1>2, <1>3, Steps DEF Committed

LEMMA ApplyFailsSteps == ASSUME IInv, NEW p \in Runs, ApplyFails(p) PROVE IInv'
<1>1. Alone(p) /\ pc[p] = "apply" /\ pc'[p] = "not applied"
  BY DEF IInv, Objects, ApplyFails, Goto, Alone
<1>2. Working(p)' /\ Begun(p)'
  BY <1>1 DEF Working, Begun
<1>. QED
  BY <1>1, <1>2, Steps DEF ApplyFails, Committed

-----------------------------------------------------------------------------
(* Steps that store something: no copy that was read before is fresh.      *)

LEMMA NoneFresh ==
  ASSUME IInv, version' = version + 1, UNCHANGED seen, NEW q \in Runs
  PROVE  ~Fresh(q)' /\ Working(q)'
<1>1. version \in Nat /\ seen[q] \in Nat /\ seen[q] <= version
  BY DEF IInv, Objects
<1>2. seen[q] # version + 1
  BY <1>1
<1>3. ~Fresh(q)'
  BY <1>2 DEF Fresh
<1>. QED
  BY <1>3 DEF Working
LEMMA CommitSteps ==
  ASSUME IInv, NEW p \in Runs, Commit(p)
  PROVE  IInv' /\ CreatesLocation(p, disk, disk')
<1>1. /\ pc[p] = "commit" /\ Fresh(p) /\ disk' = session[p] /\ version' = version + 1
      /\ UNCHANGED <<applied, session, seen, draft, copied>> /\ pc' = [pc EXCEPT ![p] = "apply"]
  BY DEF Commit, Goto, Fresh
<1>2. CreatesLocation(p, disk, disk') /\ DOMAIN disk' = {"sets", "services"}
  BY <1>1 DEF IInv, Working
<1>3. /\ Proper(disk)' /\ DOMAIN disk'.sets = DOMAIN disk.sets \cup {p}
      /\ disk'.sets[p].name = NewName[p] /\ Named(disk, NewName[p]) = {}
      /\ \A k \in DOMAIN disk.sets \ {p} : disk'.sets[k] = disk.sets[k]
  <2>1. Proper(disk)
    BY DEF IInv
  <2>. DEFINE after == disk'
  <2>2. CreatesLocation(p, disk, after) /\ DOMAIN after = {"sets", "services"}
    BY <1>2
  <2>. HIDE DEF after
  <2>3. /\ Proper(after) /\ DOMAIN after.sets = DOMAIN disk.sets \cup {p}
        /\ after.sets[p].name = NewName[p] /\ Named(disk, NewName[p]) = {}
        /\ \A k \in DOMAIN disk.sets \ {p} : after.sets[k] = disk.sets[k]
    BY <2>1, <2>2, CreatesKeeps
  <2>. QED
    BY <2>3 DEF after
<1>4. Objects' /\ pc'[p] = "apply" /\ \A q \in Runs \ {p} : pc'[q] = pc[q]
  BY <1>1 DEF IInv, Objects
<1>5. ASSUME NEW q \in Runs PROVE Working(q)' /\ Begun(q)'
  BY <1>1, <1>4, NoneFresh DEF IInv, Begun
<1>6. NamesUnique'
  BY <1>3 DEF IInv, NamesUnique, Named
<1>7. StatusTellsResult'
  <2>. SUFFICES ASSUME NEW q \in Runs
                PROVE  /\ q \in DOMAIN disk'.sets <=> Committed(q)'
                       /\ pc'[q] = "done" => q \in DOMAIN applied'.sets
    BY DEF StatusTellsResult
  <2>1. CASE q = p
    BY <1>3, <1>4, <2>1 DEF Committed
  <2>2. CASE q # p
    BY <1>1, <1>3, <1>4, <2>2 DEF IInv, StatusTellsResult, Committed
  <2>. QED
    BY <2>1, <2>2
<1>. QED
  BY <1>2, <1>3, <1>4, <1>5, <1>6, <1>7 DEF IInv

LEMMA EditSteps == ASSUME IInv, Edit PROVE IInv'
<1>1. /\ Configured(disk, disk') \/ ServiceRemoved(disk, disk')
      /\ version' = version + 1 /\ applied' = disk' /\ UNCHANGED <<pc, session, seen, draft, copied>>
  BY DEF Edit
<1>2. /\ Proper(disk)' /\ DOMAIN disk'.sets = DOMAIN disk.sets
      /\ \A k \in DOMAIN disk.sets : disk'.sets[k].name = disk.sets[k].name
  BY <1>1, EditKeeps DEF IInv
<1>3. Objects'
  BY <1>1 DEF IInv, Objects
<1>4. ASSUME NEW q \in Runs PROVE Working(q)' /\ Begun(q)'
  BY <1>1, NoneFresh DEF IInv, Begun
<1>5. NamesUnique'
  BY <1>2 DEF IInv, NamesUnique
<1>6. StatusTellsResult'
  BY <1>1, <1>2 DEF IInv, StatusTellsResult, Committed
<1>. QED
  BY <1>2, <1>3, <1>4, <1>5, <1>6 DEF IInv

LEMMA Preserved == IInv /\ [Next]_vars => IInv'
<1>. SUFFICES ASSUME IInv, [Next]_vars PROVE IInv'
  OBVIOUS
<1>1. ASSUME NEW p \in Runs, Main(p) PROVE IInv'
  <2>1. CASE CopySetFails(p) \/ CopyServiceFails(p) \/ StoreSetFails(p) \/ CommitFails(p)
    BY <2>1, FailSteps DEF CopySetFails, CopyServiceFails, StoreSetFails, CommitFails
  <2>. QED
    BY <1>1, <2>1, ScanSteps, CopySetSteps, CopyServiceSteps, StoreSetSteps, CommitSteps, ApplySteps,
       ApplyFailsSteps
    DEF Main
<1>2. CASE UNCHANGED vars
  <2>1. UNCHANGED <<disk, version, applied, pc, session, seen, draft, copied>>
    BY <1>2 DEF vars
  <2>2. Proper(disk)' /\ Objects' /\ NamesUnique' /\ StatusTellsResult'
    BY <2>1 DEF IInv, Proper, Objects, NamesUnique, StatusTellsResult, Committed
  <2>3. ASSUME NEW q \in Runs PROVE Working(q)' /\ Begun(q)'
    <3>1. /\ Fresh(q)' = Fresh(q) /\ Automatics' = Automatics /\ Old' = Old
          /\ Named(disk, NewName[q])' = Named(disk, NewName[q])
      BY <2>1 DEF Fresh, Automatics, Named, Old
    <3>. QED
      BY <2>1, <3>1 DEF IInv, Working, Begun
  <2>. QED
    BY <2>1, <2>2, <2>3 DEF IInv
<1>. QED
  BY <1>1, <1>2, EditSteps DEF Next

LEMMA Initially == Init => IInv
<1>. SUFFICES ASSUME Init PROVE IInv
  OBVIOUS
<1>1. disk \in InitialStores /\ applied = disk
  BY DEF Init
<1>2. Proper(disk) /\ DOMAIN disk.sets \cap Runs = {}
  BY <1>1, LocationAssumption DEF Proper, Ids
<1>3. Objects
  BY DEF Init, Objects
<1>4. \A p \in Runs : pc[p] = "start" /\ copied[p] = {}
  BY DEF Init
<1>5. NamesUnique
  BY <1>1, LocationAssumption DEF NamesUnique
<1>. QED
  BY <1>2, <1>3, <1>4, <1>5 DEF IInv, Working, Begun, StatusTellsResult, Committed

LEMMA Invariant == Spec => []IInv
BY Initially, Preserved, PTL DEF Spec

-----------------------------------------------------------------------------
\* No two locations get the same name.
THEOREM NamesUniqueHolds == Spec => []NamesUnique
BY Invariant, PTL DEF IInv

\* A run has stored its location exactly if it has committed: exit status 1 but
\* for the failed call that applies the changes tells that nothing is stored, 0
\* that the location is stored and has been applied.
THEOREM StatusTellsResultHolds == Spec => []StatusTellsResult
BY Invariant, PTL DEF IInv

\* However long a run takes and whatever others store meanwhile, its commit
\* makes one sound copy of the Automatic location of that moment.
THEOREM PreferencesRefined == Spec => ImplementsPreferences
<1>1. Init => Store!Init
  BY DEF Init, Store!Init
<1>2. IInv /\ [Next]_vars => [Store!Next]_Store!vars
  <2>. SUFFICES ASSUME IInv, [Next]_vars PROVE [Store!Next]_Store!vars
    OBVIOUS
  <2>. USE DEF Store!vars, Store!Next
  <2>1. ASSUME NEW p \in Runs, Commit(p) PROVE Store!Commit
    BY <2>1, CommitSteps DEF Commit, Store!Commit, Changes
  <2>2. ASSUME NEW p \in Runs, Apply(p) PROVE Store!Apply
    BY <2>2 DEF Apply, Store!Apply
  <2>3. CASE Edit
    BY <2>3 DEF Edit, Store!CommitAndApply, Changes
  <2>4. ASSUME NEW p \in Runs, Main(p), ~Commit(p), ~Apply(p) PROVE UNCHANGED Store!vars
    BY <2>4 DEF Main, Scan, CopySet, CopySetFails, CopyService, CopyServiceFails, StoreSet,
                StoreSetFails, CommitFails, ApplyFails, Fail
  <2>5. CASE UNCHANGED vars
    BY <2>5 DEF vars
  <2>. QED
    BY <2>1, <2>2, <2>3, <2>4, <2>5 DEF Next
<1>. QED
  BY <1>1, <1>2, Invariant, PTL DEF Spec, ImplementsPreferences, Store!Spec

=============================================================================
