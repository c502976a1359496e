------------------------------ MODULE Keychain ------------------------------
(***************************************************************************)
(* PyMacAdmin.Security.Keychain and the programs that use it:              *)
(* airport-update, keychain-delete, and a script that adds, finds, updates *)
(* and removes items through one item object; and keychain-update of the   *)
(* examples, which calls the framework itself.                             *)
(*                                                                         *)
(* Every method is a few calls of the Security framework, and other        *)
(* programs change the keychains between any two of them. Each call goes   *)
(* through checked_carbon_call, which raises KeyError for                  *)
(* errSecItemNotFound and RuntimeError for any other negative result.      *)
(*                                                                         *)
(* An item, once deleted, is never there again: one that is added later    *)
(* with the same names is another item.                                    *)
(***************************************************************************)
EXTENDS Naturals, FiniteSets, Sequences, Functions

CONSTANTS
    Programs,   \* the running programs
    Role,       \* [Programs -> Roles]
    Handle,     \* [Programs -> Keychains or None]: the keychain_handle
    Query,      \* [Programs -> sequences of [class, service, account]]: what it asks
                \* for, call by call; None leaves one open
    New,        \* the password that the programs set and the script adds
    Keychains,
    Names,      \* [class, service, account] of the items: the service of an
                \* internet password is its server and the rest that is asked for
    Passwords,
    AirPort,    \* the service of AirPort passwords
    None,
    MaxAdds     \* bound: items ever added

Roles == {"airport-update", "keychain-delete", "keychain-update", "script"}

ASSUME KeychainAssumption ==
    /\ Role \in [Programs -> Roles]
    /\ Handle \in [Programs -> Keychains \cup {None}]
    /\ New \in Passwords
    /\ \A p \in Programs :
        /\ Query[p] \in Seq(Range(Query[p])) \ {<<>>}
        /\ Role[p] = "keychain-update" \/ Len(Query[p]) = 1
        /\ Role[p] = "script" => Query[p][1] \in Names
    /\ None \notin Keychains \cup Passwords \cup Nat
    /\ MaxAdds \in Nat

VARIABLES
    items,      \* [numbers -> [keychain, name, password]]
    adds,       \* the items ever added: their numbers are 1..adds
    pc,         \* [Programs -> where it is, or how it ended]
    ref,        \* [Programs -> keychain_item of its object: a number or None]
    password,   \* [Programs -> the password find_generic_password has read: the
                \* objects keep theirs, but only airport-update ever looks]
    call,       \* [Programs -> which of its queries it is at]
    found,      \* history: [Programs -> the item last found for it to change, or
                \* None, and the name the item had then]
    own         \* history: [Programs -> items that it has found to update and
                \* that nobody else has changed since]

objects == <<pc, ref, password, call, found>>
vars == <<items, adds, objects, own>>

Init ==
    /\ adds \in 0..MaxAdds
    /\ items \in [1..adds -> [keychain : Keychains, name : Names, password : Passwords]]
    /\ \A i, j \in 1..adds :
        <<items[i].keychain, items[i].name>> = <<items[j].keychain, items[j].name>> => i = j
    /\ pc = [p \in Programs |-> CASE Role[p] = "script" -> "ready"
                                  [] Role[p] = "keychain-update" -> "search"
                                  [] OTHER -> "find"]
    /\ ref = [p \in Programs |-> None]
    /\ password = [p \in Programs |-> None]
    /\ call = [p \in Programs |-> 1]
    /\ found = [p \in Programs |-> [item |-> None, name |-> None]]
    /\ own = [p \in Programs |-> {}]

-----------------------------------------------------------------------------
(* What the Security framework does.                                       *)

\* Without a handle all keychains of the search list are searched.
Searched(p) == IF Handle[p] = None THEN Keychains ELSE {Handle[p]}

\* A name that is left open matches any; so does an item of any program.
Asked(p, name) ==
    LET query == Query[p][call[p]]
    IN  /\ query.class = name.class
        /\ \A f \in {"service", "account"} : query[f] \in {None, name[f]}

Matching(p) ==
    {i \in DOMAIN items : items[i].keychain \in Searched(p) /\ Asked(p, items[i].name)}

Exists(p) == ref[p] \in DOMAIN items

Holds(k, name) == \E i \in DOMAIN items : items[i].keychain = k /\ items[i].name = name

\* The item with number i is stored, or deleted, by some of the programs or, if
\* there are none, by others.
Touch(by, i) == own' = [p \in Programs |-> IF p \in by THEN own[p] ELSE own[p] \ {i}]
Set(by, i, item) ==
    /\ items' = [j \in DOMAIN items \cup {i} |-> IF j = i THEN item ELSE items[j]]
    /\ Touch(by, i)
Drop(by, i) ==
    /\ items' = [j \in DOMAIN items \ {i} |-> items[j]]
    /\ Touch(by, i)

-----------------------------------------------------------------------------
Goto(p, where) == pc' = [pc EXCEPT ![p] = where]

\* RuntimeError, which both programs report with exit status 1; the script
\* goes on.
RaisesRuntimeError(p) == Goto(p, IF Role[p] = "script" THEN "ready" ELSE "exit 1")

\* A call returns that was the last one of its program.
Succeeds(p) == Goto(p, IF Role[p] = "script" THEN "ready" ELSE "exit 0")

\* KeyError: nothing to delete is not a failure, for keychain-delete;
\* airport-update has no handler for it.
RaisesKeyError(p) ==
    IF Role[p] = "keychain-delete" THEN Goto(p, "exit 0") ELSE RaisesRuntimeError(p)

Raises(p) == RaisesKeyError(p) \/ RaisesRuntimeError(p)

\* The item with number i is found, for the program to change.
Refer(p, i) ==
    /\ ref' = [ref EXCEPT ![p] = i]
    /\ found' = [found EXCEPT ![p] = [item |-> i, name |-> items[i].name]]
    /\ own' = [own EXCEPT ![p] = @ \cup {i}]

\* Mutant: the keychain that was asked for is not passed on.
FindAnywhere(p) ==
    /\ pc[p] = "find"
    /\ \E i \in DOMAIN items :
        /\ Asked(p, items[i].name)
        /\ Refer(p, i)
        /\ password' = [password EXCEPT ![p] = items[i].password]
    /\ Goto(p, "label")
    /\ UNCHANGED <<items, adds, call>>

\* find_generic_password: SecKeychainFindGenericPassword finds one of the
\* items that match ...
Find(p) ==
    /\ pc[p] = "find"
    /\ \E i \in Matching(p) :
        /\ Refer(p, i)
        /\ password' = [password EXCEPT ![p] = items[i].password]
    /\ Goto(p, "label")
    /\ UNCHANGED <<items, adds, call>>

FindNothing(p) ==
    /\ pc[p] = "find"
    /\ Matching(p) = {}
    /\ RaisesKeyError(p)
    /\ UNCHANGED <<items, adds, ref, password, call, found, own>>

\* The keychain cannot be opened (IOError, RuntimeError), or not be read.
FindFails(p) ==
    /\ pc[p] = "find"
    /\ RaisesRuntimeError(p)
    /\ UNCHANGED <<items, adds, ref, password, call, found, own>>

\* ... and SecKeychainItemCopyAttributesAndData reads its label: the object is
\* made. airport-update compares the password that was found.
CopyLabel(p) ==
    /\ pc[p] = "label" /\ Exists(p)
    /\ Goto(p, IF Role[p] = "keychain-delete" THEN "delete"
               ELSE IF password[p] = New THEN "exit 0" ELSE "update")
    /\ UNCHANGED <<items, adds, ref, password, call, found, own>>

\* The item is gone, which either exception may tell, or cannot be read.
CopyLabelFails(p) ==
    /\ pc[p] = "label"
    /\ IF Exists(p) THEN RaisesRuntimeError(p) ELSE Raises(p)
    /\ UNCHANGED <<items, adds, ref, password, call, found, own>>

\* find_internet_password, which reads no label: the script goes on with the
\* object of the item that was found, or else with the one it had.
FindInternet(p) ==
    /\ pc[p] = "ready" /\ Query[p][1].class = "internet"
    /\ \E i \in Matching(p) : ref' = [ref EXCEPT ![p] = i]
    /\ UNCHANGED <<items, adds, pc, password, call, found, own>>

\* update_password: the object itself stays as it is.
UpdatePassword(p) ==
    /\ pc[p] \in {"update", "ready"} /\ Exists(p)
    /\ Set({p}, ref[p], [items[ref[p]] EXCEPT !.password = New])
    /\ Succeeds(p)
    /\ UNCHANGED <<adds, ref, password, call, found>>

UpdateFails(p) ==
    /\ pc[p] = "update"
    /\ RaisesRuntimeError(p)
    /\ UNCHANGED <<items, adds, ref, password, call, found, own>>

\* add, for which the script's object has all names: the keychain must not
\* have an item of these. The object then refers to the new item, whatever it
\* referred to before.
Add(p, k) ==
    /\ pc[p] = "ready" /\ adds < MaxAdds
    /\ ~Holds(k, Query[p][1])
    /\ adds' = adds + 1
    /\ Set({p}, adds + 1, [keychain |-> k, name |-> Query[p][1], password |-> New])
    /\ ref' = [ref EXCEPT ![p] = adds + 1]
    /\ UNCHANGED <<pc, password, call, found>>

\* The object is emptied.
Empty(p) ==
    /\ ref' = [ref EXCEPT ![p] = None]
    /\ password' = [password EXCEPT ![p] = None]

\* remove of any keychain, which is the object's delete: its item is deleted,
\* in whatever keychain it is, and the reference released. An item that is gone
\* already need not be an error.
Remove(p) ==
    /\ pc[p] \in {"delete", "ready"} /\ ref[p] # None
    /\ IF Exists(p) THEN Drop({p}, ref[p]) ELSE UNCHANGED <<items, own>>
    /\ Succeeds(p)
    /\ Empty(p)
    /\ UNCHANGED <<adds, call, found>>

\* CFRelease is imported and called when the item has been deleted already:
\* an exception there leaves the object as it was.
ReleaseFails(p) ==
    /\ pc[p] \in {"delete", "ready"} /\ ref[p] # None
    /\ IF Exists(p) THEN Drop({p}, ref[p]) ELSE UNCHANGED <<items, own>>
    /\ RaisesRuntimeError(p)
    /\ UNCHANGED <<adds, ref, password, call, found>>

\* Mutant: the result is not looked at, and the object is released and emptied
\* although its item could not be deleted.
DeleteFailsQuietly(p) ==
    /\ pc[p] \in {"delete", "ready"}
    /\ Succeeds(p)
    /\ Empty(p)
    /\ UNCHANGED <<items, adds, call, found, own>>

\* The item cannot be deleted; or there is none, which either exception may
\* tell.
DeleteFails(p) ==
    /\ pc[p] \in {"delete", "ready"}
    /\ IF Exists(p) THEN RaisesRuntimeError(p) ELSE Raises(p)
    /\ UNCHANGED <<items, adds, ref, password, call, found, own>>

-----------------------------------------------------------------------------
(* UpdatePassword of keychain-update, with one account and several servers. *)

\* SecKeychainFindInternetPassword, in all keychains.
Search(p) ==
    /\ pc[p] = "search"
    /\ \E i \in Matching(p) :
        Refer(p, i)
    /\ Goto(p, "modify")
    /\ UNCHANGED <<items, adds, password, call>>

\* Mutant: the result of the call is not looked at.
NextServer(p) ==
    /\ pc[p] = "modify"
    /\ IF call[p] = Len(Query[p])
         THEN Goto(p, "exit 0") /\ UNCHANGED call
         ELSE Goto(p, "search") /\ call' = [call EXCEPT ![p] = @ + 1]
    /\ UNCHANGED <<items, adds, ref, password, found, own>>

\* SecKeychainItemModifyAttributesAndData; then the next server.
ModifyItem(p) ==
    /\ pc[p] = "modify" /\ Exists(p)
    /\ Set({p}, ref[p], [items[ref[p]] EXCEPT !.password = New])
    /\ IF call[p] = Len(Query[p])
         THEN Goto(p, "exit 0") /\ UNCHANGED call
         ELSE Goto(p, "search") /\ call' = [call EXCEPT ![p] = @ + 1]
    /\ UNCHANGED <<adds, ref, password, found>>

\* Any other result than 0 raises RuntimeError, which ends the program: the
\* passwords for the servers before stay changed.
SearchFails(p) ==
    /\ pc[p] \in {"search", "modify"}
    /\ Goto(p, "exit 1")
    /\ UNCHANGED <<items, adds, ref, password, call, found, own>>

-----------------------------------------------------------------------------
(* Other programs.                                                         *)

OthersAdd ==
    /\ adds < MaxAdds
    /\ \E k \in Keychains, name \in Names, pw \in Passwords :
        /\ ~Holds(k, name)
        /\ Set({}, adds + 1, [keychain |-> k, name |-> name, password |-> pw])
    /\ adds' = adds + 1
    /\ UNCHANGED objects

\* An item is deleted, gets a password, or another service and account, which
\* the same call of the framework does for who passes it attributes.
OthersChange ==
    /\ \E i \in DOMAIN items :
        \/ Drop({}, i)
        \/ \E pw \in Passwords : Set({}, i, [items[i] EXCEPT !.password = pw])
        \/ \E name \in Names :
            /\ name.class = items[i].name.class /\ ~Holds(items[i].keychain, name)
            /\ Set({}, i, [items[i] EXCEPT !.name = name])
    /\ UNCHANGED <<adds, objects>>

-----------------------------------------------------------------------------
Program(p) ==
    \/ Find(p) \/ FindNothing(p) \/ FindFails(p)
    \/ CopyLabel(p) \/ CopyLabelFails(p)
    \/ UpdatePassword(p) \/ UpdateFails(p)
    \/ Remove(p) \/ ReleaseFails(p) \/ DeleteFails(p)
    \/ FindInternet(p) \/ \E k \in Keychains : Add(p, k)
    \/ Search(p) \/ ModifyItem(p) \/ SearchFails(p)

Next == (\E p \in Programs : Program(p)) \/ OthersAdd \/ OthersChange

Spec == Init /\ [][Next]_vars

-----------------------------------------------------------------------------
(* Properties.                                                             *)

\* Who lost the race for an item cannot tell from the exceptions, but may rely
\* on the status: keychain-delete exits with 0 only if the item it found is in no
\* keychain, whoever deleted it, or when it found none. (1 does not tell that the
\* item is still there: the import of CFRelease comes after the deletion.)
DeleteStatus ==
    \A p \in Programs :
        Role[p] = "keychain-delete" /\ pc[p] = "exit 0" => found[p].item \notin DOMAIN items

\* Exit status 0 of a program that sets passwords means that all of them are
\* set, but for items that others have changed since it found them: then
\* airport-update may exit without a change, as it compares what it has read.
UpdateStatus ==
    \A p \in Programs :
        Role[p] \in {"airport-update", "keychain-update"} /\ pc[p] = "exit 0" =>
            /\ call[p] = Len(Query[p])
            /\ \A i \in own[p] : i \in DOMAIN items /\ items[i].password = New

\* Between finding an item and changing it, items come and go, and others rename
\* them: a program changes no item but the one it has found, which is in its
\* keychain and had the names that were asked for. By then it may have others:
\* they are not looked at again. (All services match for airport-update, which
\* asks for the account only, and whoever is not root searches all keychains.)
OnlyAskedChanged ==
    [][\A p \in Programs, i \in DOMAIN items :
        /\ pc'[p] # pc[p]
        /\ i \in DOMAIN items' => items'[i] # items[i]
        => /\ i = found[p].item
           /\ items[i].keychain \in Searched(p) /\ Asked(p, found[p].name)]_vars

=============================================================================
