--------------------------- MODULE KeychainProofs ---------------------------
(***************************************************************************)
(* Proofs about the programs that change keychains, for any programs,      *)
(* keychains, names and passwords, and any number of items.                *)
(***************************************************************************)
EXTENDS Keychain, TLAPS

Item == [keychain : Keychains, name : Names, password : Passwords]

Places == {"find", "label", "update", "delete", "search", "modify", "ready", "exit 0", "exit 1"}

Typed ==
  /\ adds \in Nat
  /\ items \in [DOMAIN items -> Item] /\ DOMAIN items \subseteq 1 .. adds
  /\ pc \in [Programs -> Places] /\ ref \in [Programs -> {None} \cup 1 .. adds]
  /\ password \in [Programs -> {None} \cup Passwords]
  /\ call \in [Programs -> Nat] /\ own \in [Programs -> SUBSET (1 .. adds)]
  /\ found \in [Programs -> [item : {None} \cup 1 .. adds, name : {None} \cup Names]]

\* Where a program may be.
Placed(p) ==
  /\ pc[p] = "ready" => Role[p] = "script"
  /\ pc[p] \in {"search", "modify"} => Role[p] = "keychain-update"
  /\ pc[p] = "delete" => Role[p] = "keychain-delete"
  /\ pc[p] = "update" => Role[p] = "airport-update"
  /\ pc[p] \in {"find", "label"} => Role[p] \in {"airport-update", "keychain-delete"}
  /\ Role[p] # "keychain-update" => call[p] = 1
  /\ call[p] \in DOMAIN Query[p]

\* The item a program is about to change is the one it has found under the names
\* that it asked for, and it stays in its keychain; there is none before the first
\* is found.
Matched(p) ==
  /\ pc[p] = "find" => ref[p] = None
  /\ pc[p] \in {"find", "label", "update", "delete", "modify"} => found[p].item = ref[p]
  /\ pc[p] \in {"label", "update", "delete", "modify"} =>
       /\ Asked(p, found[p].name)
       /\ Exists(p) => items[ref[p]].keychain \in Searched(p)

\* An item deleted does not come back: numbers are not given twice.
Deleted(p) == Role[p] = "keychain-delete" /\ pc[p] = "exit 0" => found[p].item \notin DOMAIN items

\* What an updater has found and nobody else has changed has the new password or
\* is the item it is at, with the password it has read.
Owned(p) ==
  Role[p] \in {"airport-update", "keychain-update"} =>
    /\ own[p] \subseteq DOMAIN items
    /\ pc[p] = "find" => own[p] = {}
    /\ pc[p] \in {"label", "update"} =>
         \A i \in own[p] : i = ref[p] /\ items[i].password = password[p]
    /\ pc[p] = "search" => \A i \in own[p] : items[i].password = New
    /\ pc[p] = "modify" => \A i \in own[p] : i = ref[p] \/ items[i].password = New
    /\ pc[p] = "exit 0" => /\ call[p] = Len(Query[p])
                           /\ \A i \in own[p] : items[i].password = New

Good(p) == Placed(p) /\ Matched(p) /\ Deleted(p) /\ Owned(p)
IInv == Typed /\ \A p \in Programs : Good(p)

-----------------------------------------------------------------------------
(* What steps do to items.                                                 *)

\* A step of the programs in by: no number comes back, no item changes its
\* keychain, and the items that other programs own stay as they are.
ItemsChange(by) ==
  /\ adds' \in Nat /\ adds <= adds'
  /\ items' \in [DOMAIN items' -> Item] /\ DOMAIN items' \subseteq 1 .. adds'
  /\ DOMAIN items' \cap 1 .. adds \subseteq DOMAIN items
  /\ \A j \in DOMAIN items \cap DOMAIN items' : items'[j].keychain = items[j].keychain
  /\ own' \in [Programs -> SUBSET (1 .. adds)]
  /\ \A q \in Programs \ by :
       /\ own'[q] \subseteq own[q]
       /\ \A j \in own'[q] \cap DOMAIN items : j \in DOMAIN items' /\ items'[j] = items[j]

LEMMA TouchType ==
  ASSUME Typed, NEW by, NEW i, Touch(by, i)
  PROVE  /\ own' \in [Programs -> SUBSET (1 .. adds)]
         /\ \A q \in Programs \cap by : own'[q] = own[q]
         /\ \A q \in Programs \ by : own'[q] = own[q] \ {i}
BY DEF Typed, Touch

LEMMA SetsPassword ==
  ASSUME Typed, NEW by, NEW i \in DOMAIN items, NEW pw \in Passwords,
         Set(by, i, [items[i] EXCEPT !.password = pw]), UNCHANGED adds
  PROVE  ItemsChange(by) /\ DOMAIN items' = DOMAIN items /\ items'[i].password = pw
         /\ \A j \in DOMAIN items \ {i} : items'[j] = items[j]
<1>1. items[i] \in Item
  BY DEF Typed
<1>2. /\ [items[i] EXCEPT !.password = pw] \in Item
      /\ [items[i] EXCEPT !.password = pw].password = pw
      /\ [items[i] EXCEPT !.password = pw].keychain = items[i].keychain
      /\ [items[i] EXCEPT !.password = pw].name = items[i].name
  BY <1>1 DEF Item
<1>3. /\ DOMAIN items' = DOMAIN items
      /\ items'[i] = [items[i] EXCEPT !.password = pw]
      /\ \A j \in DOMAIN items \ {i} : items'[j] = items[j]
      /\ items' = [j \in DOMAIN items' |-> items'[j]]
  BY DEF Set
<1>4. Touch(by, i)
  BY DEF Set
<1>5. \A j \in DOMAIN items : items[j] \in Item /\ items'[j] \in Item
  BY <1>2, <1>3 DEF Typed
<1>6. items' \in [DOMAIN items' -> Item]
  BY <1>3, <1>5
<1>7. adds \in Nat /\ adds' = adds /\ DOMAIN items \subseteq 1 .. adds
  BY DEF Typed
<1>8. /\ own' \in [Programs -> SUBSET (1 .. adds)]
      /\ \A q \in Programs \ by : own'[q] \subseteq own[q] /\ i \notin own'[q]
  BY <1>4, TouchType
<1>9. \A j \in DOMAIN items : items'[j].keychain = items[j].keychain
  BY <1>2, <1>3
<1>. QED
  BY <1>2, <1>3, <1>6, <1>7, <1>8, <1>9 DEF ItemsChange

LEMMA Renames ==
  ASSUME Typed, NEW by, NEW i \in DOMAIN items, NEW name \in Names,
         Set(by, i, [items[i] EXCEPT !.name = name]), UNCHANGED adds
  PROVE  ItemsChange(by)
<1>1. items[i] \in Item
  BY DEF Typed
<1>2. /\ [items[i] EXCEPT !.name = name] \in Item
      /\ [items[i] EXCEPT !.name = name].keychain = items[i].keychain
  BY <1>1 DEF Item
<1>3. /\ DOMAIN items' = DOMAIN items
      /\ items'[i] = [items[i] EXCEPT !.name = name]
      /\ \A j \in DOMAIN items \ {i} : items'[j] = items[j]
      /\ items' = [j \in DOMAIN items' |-> items'[j]]
  BY DEF Set
<1>4. Touch(by, i)
  BY DEF Set
<1>5. \A j \in DOMAIN items : items[j] \in Item /\ items'[j] \in Item
  BY <1>2, <1>3 DEF Typed
<1>6. items' \in [DOMAIN items' -> Item]
  BY <1>3, <1>5
<1>7. adds \in Nat /\ adds' = adds /\ DOMAIN items \subseteq 1 .. adds
  BY DEF Typed
<1>8. /\ own' \in [Programs -> SUBSET (1 .. adds)]
      /\ \A q \in Programs \ by : own'[q] \subseteq own[q] /\ i \notin own'[q]
  BY <1>4, TouchType
<1>9. \A j \in DOMAIN items : items'[j].keychain = items[j].keychain
  BY <1>2, <1>3
<1>. QED
  BY <1>3, <1>6, <1>7, <1>8, <1>9 DEF ItemsChange

LEMMA Drops ==
  ASSUME Typed, NEW by, NEW i, Drop(by, i), UNCHANGED adds
  PROVE  ItemsChange(by) /\ DOMAIN items' = DOMAIN items \ {i}
         /\ \A j \in DOMAIN items' : items'[j] = items[j]
<1>1. /\ DOMAIN items' = DOMAIN items \ {i} /\ \A j \in DOMAIN items' : items'[j] = items[j]
      /\ items' = [j \in DOMAIN items' |-> items'[j]]
  BY DEF Drop
<1>2. Touch(by, i)
  BY DEF Drop
<1>3. \A j \in DOMAIN items : items[j] \in Item
  BY DEF Typed
<1>4. items' \in [DOMAIN items' -> Item]
  BY <1>1, <1>3
<1>5. adds \in Nat /\ adds' = adds /\ DOMAIN items \subseteq 1 .. adds
  BY DEF Typed
<1>. QED
  BY <1>1, <1>2, <1>4, <1>5, TouchType DEF ItemsChange

LEMMA AddsItem ==
  ASSUME Typed, NEW by, NEW item \in Item, Set(by, adds + 1, item), adds' = adds + 1
  PROVE  ItemsChange(by)
<1>1. /\ DOMAIN items' = DOMAIN items \cup {adds + 1} /\ items'[adds + 1] = item
      /\ \A j \in DOMAIN items \ {adds + 1} : items'[j] = items[j]
      /\ items' = [j \in DOMAIN items' |-> items'[j]]
  BY DEF Set
<1>2. Touch(by, adds + 1)
  BY DEF Set
<1>3. adds \in Nat /\ DOMAIN items \subseteq 1 .. adds /\ \A j \in DOMAIN items : items[j] \in Item
  BY DEF Typed
<1>4. adds + 1 \notin 1 .. adds /\ 1 .. adds' = 1 .. adds \cup {adds + 1} /\ adds' \in Nat /\ adds <= adds'
  BY <1>3
<1>5. items' \in [DOMAIN items' -> Item]
  BY <1>1, <1>3, <1>4
<1>6. /\ DOMAIN items' \subseteq 1 .. adds' /\ DOMAIN items' \cap 1 .. adds \subseteq DOMAIN items
      /\ \A j \in DOMAIN items : j # adds + 1 /\ j \in DOMAIN items' /\ items'[j] = items[j]
  BY <1>1, <1>3, <1>4
<1>7. /\ own' \in [Programs -> SUBSET (1 .. adds)]
      /\ \A q \in Programs \ by : own'[q] \subseteq own[q]
  BY <1>2, TouchType
<1>. QED
  BY <1>4, <1>5, <1>6, <1>7 DEF ItemsChange

LEMMA NoItems == ASSUME Typed, UNCHANGED <<items, adds, own>>, NEW by PROVE ItemsChange(by)
BY DEF Typed, ItemsChange

\* A program stays good while others change items.
LEMMA OthersStayGood ==
  ASSUME Typed, NEW q \in Programs, Good(q), NEW by, q \notin by, ItemsChange(by),
         pc'[q] = pc[q], ref'[q] = ref[q], password'[q] = password[q], call'[q] = call[q],
         found'[q] = found[q]
  PROVE  Good(q)'
<1>1. Placed(q)'
  BY DEF Good, Placed
<1>2. Exists(q)' => Exists(q)
  <2>1. SUFFICES ASSUME ref[q] \in DOMAIN items' PROVE ref[q] \in DOMAIN items
    BY DEF Exists
  <2>2. ref[q] # None
    BY <2>1, KeychainAssumption DEF ItemsChange
  <2>. QED
    BY <2>1, <2>2 DEF Typed, ItemsChange
<1>3. Deleted(q)'
  <2>1. found[q].item \in DOMAIN items' => found[q].item \in DOMAIN items
    <3>1. found[q].item \in {None} \cup 1 .. adds
      BY DEF Typed
    <3>2. found[q].item \in DOMAIN items' => found[q].item # None
      BY KeychainAssumption DEF ItemsChange
    <3>. QED
      BY <3>1, <3>2 DEF ItemsChange
  <2>. QED
    BY <2>1 DEF Good, Deleted
<1>4. Matched(q)'
  <2>1. ASSUME pc[q] \in {"label", "update", "delete", "modify"}, Exists(q)'
        PROVE  items'[ref[q]].keychain \in Searched(q)
    <3>1. items[ref[q]].keychain \in Searched(q) /\ ref[q] \in DOMAIN items /\ ref[q] \in DOMAIN items'
      BY <1>2, <2>1 DEF Good, Matched, Exists
    <3>. QED
      BY <3>1 DEF ItemsChange
  <2>2. \A name : Asked(q, name)' <=> Asked(q, name)
    BY DEF Asked
  <2>. QED
    BY <2>1, <2>2 DEF Good, Matched, Exists, Searched
<1>5. Owned(q)'
  <2>1. own'[q] \subseteq own[q] /\ \A j \in own'[q] \cap DOMAIN items : j \in DOMAIN items' /\ items'[j] = items[j]
    BY DEF ItemsChange
  <2>. QED
    BY <2>1 DEF Good, Owned
<1>. QED
  BY <1>1, <1>3, <1>4, <1>5 DEF Good

-----------------------------------------------------------------------------
(* What a program's step does: others' objects stay, and an item is changed *)
(* by a step that goes on only if it has been asked for.                    *)

Alone(p) ==
  \A q \in Programs \ {p} :
    /\ pc'[q] = pc[q] /\ ref'[q] = ref[q] /\ password'[q] = password[q] /\ call'[q] = call[q]
    /\ found'[q] = found[q]

Allowed(p) ==
  \A i \in DOMAIN items :
    pc'[p] # pc[p] /\ (i \in DOMAIN items' => items'[i] # items[i]) =>
      i = found[p].item /\ items[i].keychain \in Searched(p) /\ Asked(p, found[p].name)

Acts(p) == Typed' /\ ItemsChange({p}) /\ Alone(p) /\ Allowed(p) /\ Good(p)'

LEMMA NumbersStay == ASSUME Typed, NEW by, ItemsChange(by) PROVE 1 .. adds \subseteq 1 .. adds'
BY DEF Typed, ItemsChange

\* A step that writes the object of one program.
LEMMA Composed ==
  ASSUME Typed, NEW p \in Programs, ItemsChange({p}), Allowed(p), Good(p)',
         NEW where \in Places, pc' = [pc EXCEPT ![p] = where],
         NEW i \in {None} \cup 1 .. adds', ref' = [ref EXCEPT ![p] = i],
         NEW pw \in {None} \cup Passwords, password' = [password EXCEPT ![p] = pw],
         NEW n \in Nat, call' = [call EXCEPT ![p] = n],
         NEW j \in {None} \cup 1 .. adds', NEW name \in {None} \cup Names,
         found' = [found EXCEPT ![p] = [item |-> j, name |-> name]]
  PROVE  Acts(p)
<1>1. Alone(p)
  BY DEF Typed, Alone
<1>2. pc' \in [Programs -> Places] /\ password' \in [Programs -> {None} \cup Passwords]
      /\ call' \in [Programs -> Nat]
  BY DEF Typed
<1>3. ref' \in [Programs -> {None} \cup 1 .. adds'] /\ own' \in [Programs -> SUBSET (1 .. adds')]
  <2>1. 1 .. adds \subseteq 1 .. adds'
    BY NumbersStay
  <2>2. ref \in [Programs -> {None} \cup 1 .. adds]
    BY DEF Typed
  <2>3. own' \in [Programs -> SUBSET (1 .. adds)]
    BY DEF ItemsChange
  <2>. QED
    BY <2>1, <2>2, <2>3
<1>4. found' \in [Programs -> [item : {None} \cup 1 .. adds', name : {None} \cup Names]]
  <2>1. found \in [Programs -> [item : {None} \cup 1 .. adds', name : {None} \cup Names]]
    BY NumbersStay DEF Typed
  <2>. QED
    BY <2>1
<1>5. Typed'
  BY <1>2, <1>3, <1>4 DEF Typed, ItemsChange
<1>. QED
  BY <1>1, <1>5 DEF Acts

\* What an object was found as, if it is not looked for again.
LEMMA FoundStays ==
  ASSUME Typed, NEW p \in Programs, UNCHANGED found, NEW by, ItemsChange(by)
  PROVE  /\ found' = [found EXCEPT ![p] = [item |-> found[p].item, name |-> found[p].name]]
         /\ found[p].item \in {None} \cup 1 .. adds' /\ found[p].name \in {None} \cup Names
<1>1. found[p] \in [item : {None} \cup 1 .. adds, name : {None} \cup Names]
  BY DEF Typed
<1>2. found[p] = [item |-> found[p].item, name |-> found[p].name]
  BY <1>1
<1>3. found' = [found EXCEPT ![p] = found[p]]
  BY DEF Typed
<1>. QED
  BY <1>1, <1>2, <1>3, NumbersStay

\* A step that only moves on.
LEMMA Moves ==
  ASSUME Typed, NEW p \in Programs, NEW where \in Places, pc' = [pc EXCEPT ![p] = where],
         UNCHANGED <<ref, password, call, found>>, ItemsChange({p}), Allowed(p), Good(p)'
  PROVE  Acts(p)
<1>1. /\ ref[p] \in {None} \cup 1 .. adds /\ ref' = [ref EXCEPT ![p] = ref[p]]
      /\ password[p] \in {None} \cup Passwords /\ password' = [password EXCEPT ![p] = password[p]]
      /\ call[p] \in Nat /\ call' = [call EXCEPT ![p] = call[p]]
  BY DEF Typed
<1>2. ref[p] \in {None} \cup 1 .. adds'
  BY <1>1, NumbersStay
<1>. QED
  BY <1>1, <1>2, FoundStays, Composed

LEMMA NothingChanges ==
  ASSUME Typed, NEW p \in Programs, UNCHANGED items PROVE Allowed(p)
BY DEF Allowed

\* A program fails: the script goes on, the others end.
LEMMA Fails ==
  ASSUME IInv, NEW p \in Programs, RaisesRuntimeError(p), UNCHANGED <<ref, password, call, found>>,
         ItemsChange({p}), Allowed(p),
         Role[p] \in {"airport-update", "keychain-update"} => own'[p] \subseteq DOMAIN items'
  PROVE  Acts(p)
<1>. DEFINE where == IF Role[p] = "script" THEN "ready" ELSE "exit 1"
<1>1. Typed /\ Good(p)
  BY DEF IInv
<1>2. /\ where \in Places /\ pc' = [pc EXCEPT ![p] = where] /\ pc'[p] = where
      /\ where = "ready" \/ where = "exit 1"
  BY <1>1 DEF RaisesRuntimeError, Goto, Places, Typed
<1>3. Placed(p)'
  BY <1>1, <1>2 DEF Good, Placed
<1>4. Matched(p)' /\ Deleted(p)' /\ Owned(p)'
  BY <1>1, <1>2 DEF Good, Matched, Deleted, Owned
<1>. QED
  BY <1>1, <1>2, <1>3, <1>4, Moves DEF Good
\* keychain-delete is done when there is nothing to delete.
LEMMA Quits ==
  ASSUME IInv, NEW p \in Programs, Role[p] = "keychain-delete", ~Exists(p),
         pc[p] \in {"find", "label", "delete"},
         pc' = [pc EXCEPT ![p] = "exit 0"], UNCHANGED <<items, adds, ref, password, call, found, own>>
  PROVE  Acts(p)
<1>1. Typed /\ Good(p)
  BY DEF IInv
<1>2. "exit 0" \in Places /\ pc'[p] = "exit 0" /\ found'[p].item \notin DOMAIN items'
  BY <1>1 DEF Places, Typed, Exists, Good, Matched
<1>3. Good(p)'
  BY <1>1, <1>2 DEF Good, Placed, Matched, Deleted, Owned
<1>. QED
  BY <1>1, <1>2, <1>3, Moves, NoItems, NothingChanges

LEMMA KeyErrorActs ==
  ASSUME IInv, NEW p \in Programs, Raises(p), ~Exists(p), pc[p] \in {"find", "label", "delete", "ready"},
         UNCHANGED <<items, adds, ref, password, call, found, own>>
  PROVE  Acts(p)
<1>1. Typed /\ Good(p)
  BY DEF IInv
<1>2. CASE RaisesRuntimeError(p)
  BY <1>1, <1>2, Fails, NoItems, NothingChanges DEF Good, Owned
<1>3. CASE RaisesKeyError(p) /\ Role[p] = "keychain-delete"
  BY <1>1, <1>3, Quits DEF RaisesKeyError, Goto, Good, Placed
<1>. QED
  BY <1>2, <1>3 DEF Raises, RaisesKeyError

-----------------------------------------------------------------------------
(* One lemma per action.                                                   *)

LEMMA FailingActs ==
  ASSUME IInv, NEW p \in Programs,
         \/ FindNothing(p) \/ FindFails(p) \/ CopyLabelFails(p) \/ UpdateFails(p)
         \/ DeleteFails(p) \/ SearchFails(p)
  PROVE  Acts(p)
<1>1. Typed /\ Good(p) /\ UNCHANGED <<items, adds, ref, password, call, found, own>>
  BY DEF IInv, FindNothing, FindFails, CopyLabelFails, UpdateFails, DeleteFails, SearchFails
<1>2. ItemsChange({p}) /\ Allowed(p)
  BY <1>1, NoItems, NothingChanges
<1>3. Role[p] \in {"airport-update", "keychain-update"} => own'[p] \subseteq DOMAIN items'
  BY <1>1 DEF Good, Owned
<1>4. CASE RaisesRuntimeError(p)
  BY <1>1, <1>2, <1>3, <1>4, Fails
<1>5. CASE FindNothing(p)
  <2>1. pc[p] = "find" /\ ref[p] = None /\ RaisesKeyError(p)
    BY <1>1, <1>5 DEF FindNothing, Good, Matched
  <2>2. ~Exists(p)
    BY <1>1, <2>1, KeychainAssumption DEF Exists, Typed
  <2>. QED
    BY <1>1, <2>1, <2>2, KeyErrorActs DEF Raises
<1>6. CASE pc[p] \in {"find", "label", "delete", "ready"} /\ Raises(p) /\ ~Exists(p)
  BY <1>1, <1>6, KeyErrorActs
<1>7. CASE SearchFails(p)
  BY <1>1, <1>4, <1>7 DEF SearchFails, Good, Placed, RaisesRuntimeError
<1>. QED
  BY <1>4, <1>5, <1>6, <1>7 DEF FindFails, CopyLabelFails, UpdateFails, DeleteFails

\* A program has found an item.
LEMMA Takes ==
  ASSUME Typed, NEW p \in Programs, NEW i \in DOMAIN items, UNCHANGED <<items, adds>>,
         Refer(p, i)
  PROVE  /\ ItemsChange({p}) /\ Allowed(p) /\ own'[p] = own[p] \cup {i} /\ ref'[p] = i
         /\ found'[p].item = i /\ found'[p].name = items[i].name /\ items[i].name \in Names
         /\ i \in 1 .. adds' /\ items[i].password \in Passwords
<1>1. i \in 1 .. adds /\ items[i] \in Item
  BY DEF Typed
<1>2. own[p] \in SUBSET (1 .. adds)
  BY DEF Typed
<1>3. /\ own' \in [Programs -> SUBSET (1 .. adds)] /\ own'[p] = own[p] \cup {i}
      /\ \A q \in Programs \ {p} : own'[q] = own[q]
  BY <1>1, <1>2 DEF Typed, Refer
<1>4. ItemsChange({p})
  BY <1>3 DEF Typed, ItemsChange
<1>5. ref'[p] = i /\ found'[p] = [item |-> i, name |-> items[i].name]
  BY DEF Typed, Refer
<1>. QED
  BY <1>1, <1>3, <1>4, <1>5, NothingChanges DEF Item

LEMMA FindActs == ASSUME IInv, NEW p \in Programs, Find(p) PROVE Acts(p)
<1>1. Typed /\ Good(p)
  BY DEF IInv
<1>2. PICK i \in Matching(p) :
        Refer(p, i) /\ password' = [password EXCEPT ![p] = items[i].password]
  BY DEF Find
<1>3. /\ pc[p] = "find" /\ pc' = [pc EXCEPT ![p] = "label"] /\ UNCHANGED <<items, adds, call>>
      /\ i \in DOMAIN items
  BY DEF Find, Goto, Matching
<1>4. /\ ItemsChange({p}) /\ Allowed(p) /\ own'[p] = own[p] \cup {i} /\ ref'[p] = i
      /\ found'[p].item = i /\ found'[p].name = items[i].name /\ items[i].name \in Names
      /\ i \in 1 .. adds' /\ items[i].password \in Passwords
  BY <1>1, <1>2, <1>3, Takes
<1>5. /\ pc'[p] = "label" /\ password'[p] = items[i].password /\ "label" \in Places
      /\ call[p] \in Nat /\ call' = [call EXCEPT ![p] = call[p]]
  BY <1>1, <1>2, <1>3 DEF Typed, Places
<1>6. Placed(p)' /\ Deleted(p)'
  BY <1>1, <1>3, <1>5 DEF Good, Placed, Deleted
<1>7. Matched(p)'
  BY <1>2, <1>3, <1>4, <1>5 DEF Matched, Matching, Asked, Searched
<1>8. Owned(p)'
  BY <1>1, <1>3, <1>4, <1>5 DEF Good, Owned
<1>. QED
  BY <1>1, <1>2, <1>3, <1>4, <1>5, <1>6, <1>7, <1>8, Composed DEF Good, Refer

LEMMA SearchActs == ASSUME IInv, NEW p \in Programs, Search(p) PROVE Acts(p)
<1>1. Typed /\ Good(p)
  BY DEF IInv
<1>2. PICK i \in Matching(p) :
        Refer(p, i)
  BY DEF Search
<1>3. /\ pc[p] = "search" /\ pc' = [pc EXCEPT ![p] = "modify"]
      /\ UNCHANGED <<items, adds, password, call>> /\ i \in DOMAIN items
  BY DEF Search, Goto, Matching
<1>4. /\ ItemsChange({p}) /\ Allowed(p) /\ own'[p] = own[p] \cup {i} /\ ref'[p] = i
      /\ found'[p].item = i /\ found'[p].name = items[i].name /\ items[i].name \in Names
      /\ i \in 1 .. adds'
  BY <1>1, <1>2, <1>3, Takes
<1>5. /\ pc'[p] = "modify" /\ "modify" \in Places
      /\ call[p] \in Nat /\ call' = [call EXCEPT ![p] = call[p]]
      /\ password[p] \in {None} \cup Passwords /\ password' = [password EXCEPT ![p] = password[p]]
  BY <1>1, <1>2, <1>3 DEF Typed, Places
<1>6. Placed(p)' /\ Deleted(p)'
  BY <1>1, <1>3, <1>5 DEF Good, Placed, Deleted
<1>7. Matched(p)'
  BY <1>2, <1>3, <1>4, <1>5 DEF Matched, Matching, Asked, Searched
<1>8. Owned(p)'
  BY <1>1, <1>3, <1>4, <1>5 DEF Good, Owned
<1>. QED
  BY <1>1, <1>2, <1>3, <1>4, <1>5, <1>6, <1>7, <1>8, Composed DEF Good, Refer

LEMMA FindInternetActs == ASSUME IInv, NEW p \in Programs, FindInternet(p) PROVE Acts(p)
<1>1. Typed /\ Good(p)
  BY DEF IInv
<1>2. PICK i \in Matching(p) : ref' = [ref EXCEPT ![p] = i]
  BY DEF FindInternet
<1>3. /\ pc[p] = "ready" /\ UNCHANGED <<items, adds, pc, password, call, found, own>>
      /\ i \in DOMAIN items
  BY DEF FindInternet, Matching
<1>4. i \in 1 .. adds'
  BY <1>1, <1>3 DEF Typed
<1>5. /\ call[p] \in Nat /\ call' = [call EXCEPT ![p] = call[p]]
      /\ password[p] \in {None} \cup Passwords /\ password' = [password EXCEPT ![p] = password[p]]
      /\ pc[p] \in Places /\ pc' = [pc EXCEPT ![p] = pc[p]]
  BY <1>1, <1>3 DEF Typed
<1>6. Good(p)'
  BY <1>1, <1>3 DEF Good, Placed, Matched, Deleted, Owned
<1>. QED
  BY <1>1, <1>2, <1>3, <1>4, <1>5, <1>6, NoItems, NothingChanges, FoundStays, Composed

LEMMA CopyLabelActs == ASSUME IInv, NEW p \in Programs, CopyLabel(p) PROVE Acts(p)
<1>. DEFINE where == IF Role[p] = "keychain-delete" THEN "delete"
                     ELSE IF password[p] = New THEN "exit 0" ELSE "update"
<1>1. Typed /\ Good(p) /\ Exists(p)
  BY DEF IInv, CopyLabel
<1>2. /\ pc[p] = "label" /\ pc' = [pc EXCEPT ![p] = where]
      /\ UNCHANGED <<items, adds, ref, password, call, found, own>>
  BY DEF CopyLabel, Goto
<1>3. where \in Places /\ pc'[p] = where /\ where \in {"delete", "exit 0", "update"}
  BY <1>1, <1>2 DEF Places, Typed
<1>4. Placed(p)'
  BY <1>1, <1>2, <1>3 DEF Good, Placed
<1>5. Matched(p)'
  BY <1>1, <1>2, <1>3 DEF Good, Matched, Exists, Asked, Searched
<1>6. Deleted(p)'
  BY <1>2, <1>3 DEF Deleted
<1>7. Owned(p)'
  <2>1. Role[p] = "airport-update" => Len(Query[p]) = 1 /\ call[p] = 1
    BY <1>1, KeychainAssumption DEF Good, Placed
  <2>. QED
    BY <1>1, <1>2, <1>3, <2>1 DEF Good, Owned, Placed
<1>. QED
  BY <1>1, <1>2, <1>3, <1>4, <1>5, <1>6, <1>7, Moves, NoItems, NothingChanges DEF Good

\* The item a program is at gets the new password.
LEMMA SetsNew ==
  ASSUME IInv, NEW p \in Programs, Exists(p), pc[p] \in {"update", "modify"} \/ pc'[p] = pc[p],
         Set({p}, ref[p], [items[ref[p]] EXCEPT !.password = New]), UNCHANGED adds
  PROVE  /\ ItemsChange({p}) /\ Allowed(p) /\ own'[p] = own[p] /\ DOMAIN items' = DOMAIN items
         /\ items'[ref[p]].password = New
         /\ \A j \in DOMAIN items \ {ref[p]} : items'[j] = items[j]
<1>1. Typed /\ Good(p) /\ ref[p] \in DOMAIN items /\ New \in Passwords
  BY KeychainAssumption DEF IInv, Exists
<1>2. /\ ItemsChange({p}) /\ DOMAIN items' = DOMAIN items /\ items'[ref[p]].password = New
      /\ \A j \in DOMAIN items \ {ref[p]} : items'[j] = items[j]
  BY <1>1, SetsPassword
<1>3. Allowed(p)
  BY <1>1, <1>2 DEF Allowed, Good, Matched
<1>4. own'[p] = own[p]
  BY <1>1, TouchType DEF Set
<1>. QED
  BY <1>2, <1>3, <1>4

LEMMA UpdatePasswordActs == ASSUME IInv, NEW p \in Programs, UpdatePassword(p) PROVE Acts(p)
<1>. DEFINE where == IF Role[p] = "script" THEN "ready" ELSE "exit 0"
<1>1. Typed /\ Good(p) /\ Exists(p)
  BY DEF IInv, UpdatePassword
<1>2. /\ pc[p] \in {"update", "ready"} /\ pc' = [pc EXCEPT ![p] = where]
      /\ UNCHANGED <<adds, ref, password, call, found>>
      /\ Set({p}, ref[p], [items[ref[p]] EXCEPT !.password = New])
  BY DEF UpdatePassword, Succeeds, Goto
<1>3. /\ where \in Places /\ pc'[p] = where
      /\ \/ pc[p] = "update" /\ where = "exit 0" /\ Role[p] = "airport-update"
         \/ pc[p] = "ready" /\ where = "ready" /\ Role[p] = "script"
  BY <1>1, <1>2 DEF Places, Typed, Good, Placed
<1>4. /\ ItemsChange({p}) /\ Allowed(p) /\ own'[p] = own[p] /\ DOMAIN items' = DOMAIN items
      /\ items'[ref[p]].password = New
  BY <1>1, <1>2, <1>3, SetsNew
<1>5. Placed(p)' /\ Matched(p)' /\ Deleted(p)'
  BY <1>1, <1>2, <1>3 DEF Good, Placed, Matched, Deleted
<1>6. Owned(p)'
  <2>1. Role[p] = "airport-update" => Len(Query[p]) = 1 /\ call[p] = 1
    BY <1>1, KeychainAssumption DEF Good, Placed
  <2>. QED
    BY <1>1, <1>2, <1>3, <1>4, <2>1 DEF Good, Owned
<1>. QED
  BY <1>1, <1>2, <1>3, <1>4, <1>5, <1>6, Moves DEF Good

LEMMA ModifyItemActs == ASSUME IInv, NEW p \in Programs, ModifyItem(p) PROVE Acts(p)
<1>. DEFINE last == call[p] = Len(Query[p])
<1>1. Typed /\ Good(p) /\ Exists(p) /\ Role[p] = "keychain-update"
  BY DEF IInv, ModifyItem, Good, Placed
<1>2. /\ pc[p] = "modify" /\ UNCHANGED <<adds, ref, password, found>>
      /\ Set({p}, ref[p], [items[ref[p]] EXCEPT !.password = New])
  BY DEF ModifyItem
<1>3. /\ ItemsChange({p}) /\ Allowed(p) /\ own'[p] = own[p] /\ DOMAIN items' = DOMAIN items
      /\ items'[ref[p]].password = New
      /\ \A j \in DOMAIN items \ {ref[p]} : items'[j] = items[j]
  BY <1>1, <1>2, SetsNew
<1>4. call[p] \in 1 .. Len(Query[p]) /\ call[p] \in Nat /\ Len(Query[p]) \in Nat
  BY <1>1, KeychainAssumption DEF Good, Placed
<1>5. own'[p] \subseteq DOMAIN items' /\ \A i \in own'[p] : items'[i].password = New
  BY <1>1, <1>2, <1>3 DEF Good, Owned
<1>6. /\ ref[p] \in {None} \cup 1 .. adds' /\ ref' = [ref EXCEPT ![p] = ref[p]]
      /\ password[p] \in {None} \cup Passwords /\ password' = [password EXCEPT ![p] = password[p]]
  BY <1>1, <1>2 DEF Typed
<1>7. CASE last
  <2>1. "exit 0" \in Places /\ pc' = [pc EXCEPT ![p] = "exit 0"] /\ UNCHANGED call
    BY <1>7 DEF ModifyItem, Goto, Places
  <2>2. pc'[p] = "exit 0"
    BY <1>1, <2>1 DEF Typed
  <2>3. Good(p)'
    BY <1>1, <1>5, <1>7, <2>1, <2>2 DEF Good, Placed, Matched, Deleted, Owned
  <2>. QED
    BY <1>1, <1>2, <1>3, <2>1, <2>3, Moves
<1>8. CASE ~last
  <2>1. "search" \in Places /\ pc' = [pc EXCEPT ![p] = "search"] /\ call' = [call EXCEPT ![p] = @ + 1]
    BY <1>8 DEF ModifyItem, Goto, Places
  <2>2. pc'[p] = "search" /\ call'[p] = call[p] + 1
    BY <1>1, <2>1 DEF Typed
  <2>3. call[p] + 1 \in 1 .. Len(Query[p]) /\ call[p] + 1 \in Nat
    BY <1>4, <1>8
  <2>4. Placed(p)'
    BY <1>1, <2>2, <2>3, KeychainAssumption DEF Placed
  <2>5. Good(p)'
    BY <1>1, <1>5, <2>2, <2>4 DEF Good, Matched, Deleted, Owned
  <2>. QED
    BY <1>1, <1>2, <1>3, <1>6, <2>1, <2>3, <2>5, FoundStays, Composed
<1>. QED
  BY <1>7, <1>8
\* The item of an object is deleted, if it is still there.
LEMMA DeletesItem ==
  ASSUME IInv, NEW p \in Programs, pc[p] \in {"delete", "ready"}, pc[p] = "ready" => pc'[p] = pc[p],
         IF Exists(p) THEN Drop({p}, ref[p]) ELSE UNCHANGED <<items, own>>, UNCHANGED adds
  PROVE  ItemsChange({p}) /\ Allowed(p) /\ ref[p] \notin DOMAIN items'
<1>1. Typed /\ Good(p)
  BY DEF IInv
<1>2. CASE Exists(p)
  <2>1. /\ ItemsChange({p}) /\ DOMAIN items' = DOMAIN items \ {ref[p]}
        /\ \A j \in DOMAIN items' : items'[j] = items[j]
    BY <1>1, <1>2, Drops
  <2>2. Allowed(p)
    BY <1>1, <1>2, <2>1 DEF Allowed, Good, Matched
  <2>. QED
    BY <2>1, <2>2
<1>3. CASE ~Exists(p)
  BY <1>1, <1>3, NoItems, NothingChanges DEF Exists
<1>. QED
  BY <1>2, <1>3

LEMMA RemoveActs == ASSUME IInv, NEW p \in Programs, Remove(p) PROVE Acts(p)
<1>. DEFINE where == IF Role[p] = "script" THEN "ready" ELSE "exit 0"
<1>1. Typed /\ Good(p)
  BY DEF IInv
<1>2. /\ pc[p] \in {"delete", "ready"} /\ pc' = [pc EXCEPT ![p] = where]
      /\ UNCHANGED <<adds, call, found>>
      /\ ref' = [ref EXCEPT ![p] = None] /\ password' = [password EXCEPT ![p] = None]
  BY DEF Remove, Succeeds, Goto, Empty
<1>3. /\ where \in Places /\ pc'[p] = where
      /\ \/ pc[p] = "delete" /\ where = "exit 0" /\ Role[p] = "keychain-delete"
         \/ pc[p] = "ready" /\ where = "ready" /\ Role[p] = "script"
  BY <1>1, <1>2 DEF Places, Typed, Good, Placed
<1>4. ItemsChange({p}) /\ Allowed(p) /\ ref[p] \notin DOMAIN items'
  BY <1>2, <1>3, DeletesItem DEF Remove
<1>5. pc[p] = "delete" => found[p].item = ref[p]
  BY <1>1 DEF Good, Matched
<1>6. Good(p)'
  BY <1>1, <1>2, <1>3, <1>4, <1>5 DEF Good, Placed, Matched, Deleted, Owned
<1>7. call[p] \in Nat /\ call' = [call EXCEPT ![p] = call[p]]
  BY <1>1, <1>2 DEF Typed
<1>. QED
  BY <1>1, <1>2, <1>3, <1>4, <1>6, <1>7, FoundStays, Composed

LEMMA ReleaseFailsActs == ASSUME IInv, NEW p \in Programs, ReleaseFails(p) PROVE Acts(p)
<1>1. Typed /\ Good(p) /\ pc[p] \in {"delete", "ready"}
  BY DEF IInv, ReleaseFails
<1>2. Role[p] \notin {"airport-update", "keychain-update"}
  BY <1>1 DEF Good, Placed
<1>3. pc[p] = "ready" => pc'[p] = pc[p]
  BY <1>1 DEF ReleaseFails, RaisesRuntimeError, Goto, Typed, Good, Placed
<1>4. ItemsChange({p}) /\ Allowed(p)
  BY <1>1, <1>3, DeletesItem DEF ReleaseFails
<1>. QED
  BY <1>2, <1>4, Fails DEF ReleaseFails

LEMMA AddActs == ASSUME IInv, NEW p \in Programs, NEW k \in Keychains, Add(p, k) PROVE Acts(p)
<1>. DEFINE item == [keychain |-> k, name |-> Query[p][1], password |-> New]
<1>1. Typed /\ Good(p) /\ Role[p] = "script"
  BY DEF IInv, Good, Placed, Add
<1>2. /\ pc[p] = "ready" /\ UNCHANGED <<pc, password, call, found>> /\ adds' = adds + 1
      /\ Set({p}, adds + 1, item)
      /\ ref' = [ref EXCEPT ![p] = adds + 1]
  BY DEF Add
<1>3. item \in Item
  BY <1>1, KeychainAssumption DEF Item
<1>4. ItemsChange({p})
  BY <1>1, <1>2, <1>3, AddsItem
<1>5. /\ call[p] \in Nat /\ call' = [call EXCEPT ![p] = call[p]]
      /\ password[p] \in {None} \cup Passwords /\ password' = [password EXCEPT ![p] = password[p]]
      /\ pc[p] \in Places /\ pc' = [pc EXCEPT ![p] = pc[p]]
  BY <1>1, <1>2 DEF Typed
<1>6. adds \in Nat
  BY <1>1 DEF Typed
<1>7. adds + 1 \in 1 .. adds'
  BY <1>2, <1>6
<1>8. Good(p)' /\ Allowed(p)
  BY <1>1, <1>2 DEF Good, Placed, Matched, Deleted, Owned, Allowed
<1>. QED
  BY <1>1, <1>2, <1>3, <1>4, <1>5, <1>7, <1>8, FoundStays, Composed

LEMMA OthersChangeItems == ASSUME IInv, OthersAdd \/ OthersChange PROVE ItemsChange({}) /\ UNCHANGED objects
<1>1. Typed
  BY DEF IInv
<1>2. CASE OthersAdd
  <2>1. PICK k \in Keychains, name \in Names, pw \in Passwords :
          Set({}, adds + 1, [keychain |-> k, name |-> name, password |-> pw])
    BY <1>2 DEF OthersAdd
  <2>2. [keychain |-> k, name |-> name, password |-> pw] \in Item
    BY DEF Item
  <2>. QED
    BY <1>1, <1>2, <2>1, <2>2, AddsItem DEF OthersAdd
<1>3. CASE OthersChange
  <2>1. PICK i \in DOMAIN items :
          \/ Drop({}, i)
          \/ \E pw \in Passwords : Set({}, i, [items[i] EXCEPT !.password = pw])
          \/ \E name \in Names : Set({}, i, [items[i] EXCEPT !.name = name])
    BY <1>3 DEF OthersChange
  <2>. QED
    BY <1>1, <1>3, <2>1, Drops, SetsPassword, Renames DEF OthersChange
<1>. QED
  BY <1>2, <1>3

-----------------------------------------------------------------------------
LEMMA ProgramActs == ASSUME IInv, NEW p \in Programs, Program(p) PROVE Acts(p)
BY FailingActs, FindActs, SearchActs, FindInternetActs, CopyLabelActs, UpdatePasswordActs,
   ModifyItemActs, RemoveActs, ReleaseFailsActs, AddActs DEF Program

LEMMA Preserved == IInv /\ [Next]_vars => IInv'
<1>. SUFFICES ASSUME IInv, [Next]_vars PROVE IInv'
  OBVIOUS
<1>1. Typed /\ \A q \in Programs : Good(q)
  BY DEF IInv
<1>2. ASSUME NEW p \in Programs, Program(p) PROVE IInv'
  <2>1. Typed' /\ ItemsChange({p}) /\ Alone(p) /\ Good(p)'
    BY <1>2, ProgramActs DEF Acts
  <2>2. ASSUME NEW q \in Programs \ {p} PROVE Good(q)'
    BY <1>1, <2>1, OthersStayGood DEF Alone
  <2>. QED
    BY <2>1, <2>2 DEF IInv
<1>3. CASE OthersAdd \/ OthersChange \/ UNCHANGED vars
  <2>1. ItemsChange({}) /\ UNCHANGED objects
    BY <1>1, <1>3, OthersChangeItems, NoItems DEF vars, objects
  <2>2. ASSUME NEW q \in Programs PROVE Good(q)'
    BY <1>1, <2>1, OthersStayGood DEF objects
  <2>3. 1 .. adds \subseteq 1 .. adds'
    BY <1>1, <2>1, NumbersStay
  <2>4. /\ ref' \in [Programs -> {None} \cup 1 .. adds'] /\ own' \in [Programs -> SUBSET (1 .. adds')]
        /\ found' \in [Programs -> [item : {None} \cup 1 .. adds', name : {None} \cup Names]]
    BY <1>1, <2>1, <2>3 DEF Typed, ItemsChange, objects
  <2>. QED
    BY <1>1, <2>1, <2>2, <2>4 DEF IInv, Typed, ItemsChange, objects
<1>. QED
  BY <1>2, <1>3 DEF Next

LEMMA Initially == Init => IInv
<1>. SUFFICES ASSUME Init PROVE IInv
  OBVIOUS
<1>1. Typed
  BY DEF Init, Typed, Item, Places
<1>2. ASSUME NEW p \in Programs PROVE Good(p)
  <2>1. Role[p] \in Roles /\ 1 \in DOMAIN Query[p]
    BY KeychainAssumption
  <2>2. /\ call[p] = 1 /\ ref[p] = None /\ own[p] = {} /\ found[p].item = None
        /\ pc[p] = CASE Role[p] = "script" -> "ready"
                     [] Role[p] = "keychain-update" -> "search"
                     [] OTHER -> "find"
    BY DEF Init
  <2>. QED
    BY <2>1, <2>2 DEF Good, Placed, Matched, Deleted, Owned, Roles
<1>. QED
  BY <1>1, <1>2 DEF IInv

LEMMA Invariant == Spec => []IInv
BY Initially, Preserved, PTL DEF Spec

-----------------------------------------------------------------------------
\* Exit status 0 of keychain-delete tells that the item it found is in no keychain
\* any more, whatever others do with it meanwhile.
THEOREM DeleteStatusHolds == Spec => []DeleteStatus
<1>1. IInv => DeleteStatus
  BY DEF IInv, Good, Deleted, DeleteStatus
<1>. QED
  BY <1>1, Invariant, PTL

\* Exit status 0 of airport-update and keychain-update tells that all passwords
\* are set but those of items that others have changed.
THEOREM UpdateStatusHolds == Spec => []UpdateStatus
<1>1. IInv => UpdateStatus
  BY DEF IInv, Good, Owned, UpdateStatus
<1>. QED
  BY <1>1, Invariant, PTL

\* No program changes an item but the one it has found in its keychain under the
\* names it asked for, even if others rename that one.
THEOREM OnlyAskedChangedHolds == Spec => OnlyAskedChanged
<1>. DEFINE A == \A p \in Programs, i \in DOMAIN items :
        /\ pc'[p] # pc[p]
        /\ i \in DOMAIN items' => items'[i] # items[i]
        => /\ i = found[p].item
           /\ items[i].keychain \in Searched(p) /\ Asked(p, found[p].name)
<1>1. IInv /\ [Next]_vars => [A]_vars
  <2>. SUFFICES ASSUME IInv, Next PROVE A
    OBVIOUS
  <2>1. ASSUME NEW q \in Programs, Program(q) PROVE A
    BY <2>1, ProgramActs DEF Acts, Alone, Allowed
  <2>2. CASE OthersAdd \/ OthersChange
    BY <2>2, OthersChangeItems DEF objects
  <2>. QED
    BY <2>1, <2>2 DEF Next
<1>. QED
  BY <1>1, Invariant, PTL DEF Spec, OnlyAskedChanged

=============================================================================
