-------------------------- MODULE CreateLocation --------------------------
(***************************************************************************)
(* bin/create-location.py: runs that each create a network location by     *)
(* copying the Automatic one, all of them and an editor of the preferences *)
(* (the Network preference pane, set-proxy.py) working on the one          *)
(* SystemConfiguration preferences store.                                  *)
(*                                                                         *)
(* A session works on its own copy of the store, taken at its first access *)
(* and written back as a whole by SCPreferencesCommitChanges, which fails  *)
(* when the store has changed in between.                                  *)
(*                                                                         *)
(* The UUIDs of SCPreferencesPathCreateUniqueChild are named by who asked  *)
(* for them: run p calls its new set p, and its copy of service s <<p, s>>.*)
(***************************************************************************)
EXTENDS Naturals, FiniteSets, Sequences, Functions

CONSTANTS
    Runs,           \* the runs of create-location
    NewName,        \* [Runs -> names]: the argument of each run
    Automatic,      \* the name of the location that is copied
    InitialStores,  \* the stores before the first run
    Settings,       \* what a service may be configured to
    None,
    MaxEdits        \* bound: changes by the editor

\* A store is [sets |-> [ids -> [name, services, order]],
\*             services |-> [ids -> Settings]].
\* The services that are there, or linked to, before the first run:
Ids == UNION {DOMAIN store.services \cup UNION {store.sets[k].services : k \in DOMAIN store.sets} :
                store \in InitialStores}

ASSUME LocationAssumption ==
    /\ MaxEdits \in Nat
    /\ \A p \in Runs, s, t \in Ids : s # <<p, t>>
    /\ \A store \in InitialStores :
        /\ DOMAIN store = {"sets", "services"}
        /\ DOMAIN store.sets \cap (Runs \cup {None}) = {}
        /\ \A k \in DOMAIN store.sets : DOMAIN store.sets[k] = {"name", "services", "order"}
        /\ \A k, l \in DOMAIN store.sets :
            store.sets[k].name = store.sets[l].name => k = l
        /\ store.services \in [DOMAIN store.services -> Settings]

VARIABLES
    disk,       \* the preferences as stored
    version,    \* the signature of the file: changes with every commit
    applied,    \* the preferences configd has applied
    pc,         \* [Runs -> where main() is]
    session,    \* [Runs -> sc_prefs: the session's copy of the preferences]
    seen,       \* [Runs -> the signature that copy was read with]
    draft,      \* [Runs -> new_set]
    copied,     \* [Runs -> the domain of service_map]
    edits       \* counts Edit, up to MaxEdits

vars == <<disk, version, applied, pc, session, seen, draft, copied, edits>>

\* A dictionary with an entry added or replaced.
With(f, x, v) == [y \in DOMAIN f \cup {x} |-> IF y = x THEN v ELSE f[y]]

NoSet == [name |-> None, services |-> {}, order |-> <<>>]

Init ==
    /\ disk \in InitialStores
    /\ version = 0
    /\ applied = disk
    /\ pc = [p \in Runs |-> "start"]
    /\ session = [p \in Runs |-> disk]
    /\ seen = [p \in Runs |-> 0]
    /\ draft = [p \in Runs |-> NoSet]
    /\ copied = [p \in Runs |-> {}]
    /\ edits = 0

Named(store, name) == {k \in DOMAIN store.sets : store.sets[k].name = name}

Goto(p, next) == pc' = [pc EXCEPT ![p] = next]

\* A RuntimeError, or another exception nobody catches: exit status 1.
Fail(p) ==
    /\ Goto(p, "failed")
    /\ UNCHANGED <<disk, version, applied, session, seen, draft, copied, edits>>

OldSet(p) == session[p].sets[CHOOSE k \in Named(session[p], Automatic) : TRUE]

\* Mutant: the names already in use are not looked at.
ScanForAutomatic(p) ==
    /\ pc[p] = "start"
    /\ session' = [session EXCEPT ![p] = disk]
    /\ seen' = [seen EXCEPT ![p] = version]
    /\ Goto(p, IF Named(disk, Automatic) # {} THEN "copy" ELSE "failed")
    /\ UNCHANGED <<disk, version, applied, draft, copied, edits>>

\* SCPreferencesGetValue reads the store; the names are scanned.
Scan(p) ==
    /\ pc[p] = "start"
    /\ session' = [session EXCEPT ![p] = disk]
    /\ seen' = [seen EXCEPT ![p] = version]
    /\ Goto(p, IF Named(disk, NewName[p]) = {} /\ Named(disk, Automatic) # {}
               THEN "copy" ELSE "failed")
    /\ UNCHANGED <<disk, version, applied, draft, copied, edits>>

\* copy_set: a deep copy, and a path for it (which may not be had).
CopySet(p) ==
    /\ pc[p] = "copy"
    /\ draft' = [draft EXCEPT ![p] = [OldSet(p) EXCEPT !.name = NewName[p]]]
    /\ Goto(p, "services")
    /\ UNCHANGED <<disk, version, applied, session, seen, copied, edits>>

CopySetFails(p) == pc[p] = "copy" /\ Fail(p)

\* Mutant: the link to the old service stays in the new set.
CopyServiceLink(p) ==
    /\ pc[p] = "services"
    /\ \E s \in OldSet(p).services \ copied[p] :
        /\ s \in DOMAIN session[p].services
        /\ session' = [session EXCEPT ![p].services =
                        With(@, <<p, s>>, session[p].services[s])]
        /\ draft' = [draft EXCEPT ![p].services = @ \cup {<<p, s>>}]
        /\ copied' = [copied EXCEPT ![p] = @ \cup {s}]
    /\ UNCHANGED <<disk, version, applied, pc, seen, edits>>

\* One pass of the loop over the services of the old set: a new service with
\* a copy of the settings, and the link in the new set exchanged.
CopyService(p) ==
    /\ pc[p] = "services"
    /\ \E s \in OldSet(p).services \ copied[p] :
        /\ s \in DOMAIN session[p].services
        /\ session' = [session EXCEPT ![p].services =
                        With(@, <<p, s>>, session[p].services[s])]
        /\ draft' = [draft EXCEPT ![p].services = (@ \ {s}) \cup {<<p, s>>}]
        /\ copied' = [copied EXCEPT ![p] = @ \cup {s}]
    /\ UNCHANGED <<disk, version, applied, pc, seen, edits>>

\* The link leads to no service: KeyError.
CopyServiceFails(p) ==
    /\ pc[p] = "services"
    /\ ~(OldSet(p).services \ copied[p] \subseteq DOMAIN session[p].services)
    /\ Fail(p)

Renamed(p, order) == [i \in DOMAIN order |-> <<p, order[i]>>]

\* The service orders are mapped and the set is put in the session's store.
StoreSet(p) ==
    /\ pc[p] = "services" /\ copied[p] = OldSet(p).services
    /\ Range(draft[p].order) \subseteq copied[p]
    /\ draft' = [draft EXCEPT ![p].order = Renamed(p, @)]
    /\ session' = [session EXCEPT ![p].sets = With(@, p, draft'[p])]
    /\ Goto(p, "commit")
    /\ UNCHANGED <<disk, version, applied, seen, copied, edits>>

\* A service order names a service the set has no link to: KeyError.
StoreSetFails(p) ==
    /\ pc[p] = "services" /\ copied[p] = OldSet(p).services
    /\ ~(Range(draft[p].order) \subseteq copied[p])
    /\ Fail(p)

\* SCPreferencesCommitChanges. The store must be the one that was read.
Commit(p) ==
    /\ pc[p] = "commit"
    /\ seen[p] = version
    /\ disk' = session[p]
    /\ version' = version + 1
    /\ Goto(p, "apply")
    /\ UNCHANGED <<applied, session, seen, draft, copied, edits>>

\* Stale, or not permitted.
CommitFails(p) == pc[p] = "commit" /\ Fail(p)

\* SCPreferencesApplyChanges has configd apply what is stored by now.
Apply(p) ==
    /\ pc[p] = "apply"
    /\ applied' = disk
    /\ Goto(p, "done")
    /\ UNCHANGED <<disk, version, session, seen, draft, copied, edits>>

\* Mutant: the result is not looked at.
ApplyUnchecked(p) ==
    /\ pc[p] = "apply"
    /\ Goto(p, "done")
    /\ UNCHANGED <<disk, version, applied, session, seen, draft, copied, edits>>

\* Exit status 1 as well, with a message of its own.
ApplyFails(p) ==
    /\ pc[p] = "apply"
    /\ Goto(p, "not applied")
    /\ UNCHANGED <<disk, version, applied, session, seen, draft, copied, edits>>

-----------------------------------------------------------------------------
(* The editor, in one transaction each.                                    *)

\* set-proxy.py: the settings of all services change.
Configured(before, after) ==
    \E v \in Settings : after = [before EXCEPT !.services = [s \in DOMAIN @ |-> v]]

Unlinked(set, s) ==
    [set EXCEPT !.services = @ \ {s}, !.order = SelectSeq(@, LAMBDA x : x # s)]

\* A service is removed from a location.
ServiceRemoved(before, after) ==
    \E k \in DOMAIN before.sets : \E s \in before.sets[k].services :
        after = [sets |-> [before.sets EXCEPT ![k] = Unlinked(@, s)],
                 services |-> [x \in DOMAIN before.services \ {s} |-> before.services[x]]]

Edit ==
    /\ edits < MaxEdits
    /\ edits' = edits + 1
    /\ Configured(disk, disk') \/ ServiceRemoved(disk, disk')
    /\ applied' = disk'
    /\ version' = version + 1
    /\ UNCHANGED <<pc, session, seen, draft, copied>>

-----------------------------------------------------------------------------
Main(p) ==
    \/ Scan(p)
    \/ CopySet(p) \/ CopySetFails(p)
    \/ CopyService(p) \/ CopyServiceFails(p)
    \/ StoreSet(p) \/ StoreSetFails(p)
    \/ Commit(p) \/ CommitFails(p)
    \/ Apply(p) \/ ApplyFails(p)

Next ==
    \/ \E p \in Runs : Main(p)
    \/ Edit

Spec == Init /\ [][Next]_vars

-----------------------------------------------------------------------------
(* Properties.                                                             *)

\* However the runs interleave, no two locations get the same name: the name
\* is looked up in a snapshot, and only the signature that the commit compares
\* keeps a second run from committing after the first (create-location.py:54,
\* 101).
NamesUnique ==
    \A k, l \in DOMAIN disk.sets :
        disk.sets[k].name = disk.sets[l].name => k = l

\* A run stores its location all at once: the Automatic one as it is stored now,
\* under a name nothing has yet, with services of its own that are configured
\* alike and an order that names these; it takes nothing else back or away.
CopyOf(p, old, before, after) ==
    LET copies == [x \in {<<p, s>> : s \in old.services} |-> before.services[x[2]]]
    IN  /\ Named(before, NewName[p]) = {} /\ old.services \subseteq DOMAIN before.services
        /\ after.sets = With(before.sets, p,
                [name |-> NewName[p], services |-> DOMAIN copies,
                 order |-> Renamed(p, old.order)])
        /\ after.services = [x \in DOMAIN before.services \cup DOMAIN copies |->
                IF x \in DOMAIN copies THEN copies[x] ELSE before.services[x]]

CreatesLocation(p, before, after) ==
    \E k \in Named(before, Automatic) : CopyOf(p, before.sets[k], before, after)

Changes(before, after) ==
    \/ \E p \in Runs : CreatesLocation(p, before, after)
    \/ Configured(before, after)
    \/ ServiceRemoved(before, after)

Store == INSTANCE Preferences WITH Transaction <- Changes, saved <- disk, active <- applied

\* The runs and the editor implement Preferences.
ImplementsPreferences == Store!Spec

\* How a run ends tells what it has done, whatever others do: its location is
\* stored exactly if it has committed, so that exit status 1 means that nothing
\* of it is stored, but for the one message that the changes could not be
\* applied, and 0 that it is stored and has been applied. (After that message
\* running the program again only reports that the name already exists.)
Committed(p) == pc[p] \in {"apply", "done", "not applied"}

StatusTellsResult ==
    \A p \in Runs :
        /\ p \in DOMAIN disk.sets <=> Committed(p)
        /\ pc[p] = "done" => p \in DOMAIN applied.sets

=============================================================================
