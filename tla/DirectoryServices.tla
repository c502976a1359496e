------------------------- MODULE DirectoryServices -------------------------
(***************************************************************************)
(* pymacds: administration scripts that change the search paths of         *)
(* DirectoryService through the command-line tools dscl and dscacheutil,   *)
(* one process per command.                                                *)
(*                                                                         *)
(* Every function is a sequence of RunProcess calls, and scripts running   *)
(* at the same time come between any two of them: what Ensure* has read    *)
(* may have changed when it modifies the path.                             *)
(***************************************************************************)
EXTENDS Naturals, Sequences, SequencesExt

CONSTANTS
    Scripts,        \* the scripts using pymacds
    Nodes,          \* directory nodes
    Paths,          \* "/Search" and "/Search/Contacts"
    None,           \* there is no call
    MaxNodes        \* bound: the entries of a search path

ASSUME DsAssumption == MaxNodes \in Nat /\ None \notin Nodes \cup Paths

VARIABLES
    CSPSearchPath,  \* [Paths -> sequences of nodes], as stored
    pc,             \* [Scripts -> where the script is]
    call,           \* [Scripts -> the Ensure*, Add* or Delete* call it is in]
    disturbed       \* history: scripts during whose call another one changed
                    \* the same path

vars == <<CSPSearchPath, pc, call, disturbed>>

NoCall == [ensure |-> FALSE, op |-> None, node |-> None, path |-> None]
Calls == [ensure : BOOLEAN, op : {"append", "delete"}, node : Nodes, path : Paths]

\* Between two calls, the last of which may have raised DSException.
Ready == {"idle", "raised"}

Init ==
    /\ CSPSearchPath = [p \in Paths |-> <<>>]
    /\ pc = [s \in Scripts |-> "idle"]
    /\ call = [s \in Scripts |-> NoCall]
    /\ disturbed = {}

Goto(s, where) == pc' = [pc EXCEPT ![s] = where]

Leave(s, where) ==
    /\ Goto(s, where)
    /\ call' = [call EXCEPT ![s] = NoCall]
    /\ disturbed' = disturbed \ {s}

-----------------------------------------------------------------------------
\* DSException, with nothing changed.
Raise(s) ==
    /\ Leave(s, "raised")
    /\ UNCHANGED CSPSearchPath

\* EnsureSearchNodePresent and its like read first; the functions that add or
\* delete a node modify at once.
Call(s) ==
    /\ pc[s] \in Ready
    /\ \E c \in Calls :
        /\ call' = [call EXCEPT ![s] = c]
        /\ Goto(s, IF c.ensure THEN "read" ELSE "modify")
    /\ UNCHANGED <<CSPSearchPath, disturbed>>

\* The node is in the path that is read, as the call wants it to be.
Satisfied(c, read) == (c.node \in Range(CSPSearchPath[read])) = (c.op = "append")

ReadPath(s, read) ==
    /\ pc[s] = "read"
    /\ \/ Satisfied(call[s], read) /\ Leave(s, "idle")
       \/ ~Satisfied(call[s], read) /\ Goto(s, "modify") /\ UNCHANGED <<call, disturbed>>
    /\ UNCHANGED CSPSearchPath

\* Mutant: EnsureContactsNodeAbsent does what its docstring says, and looks at
\* the /Search path.
ReadForAbsentSearch(s) ==
    ReadPath(s, IF call[s].op = "delete" THEN "/Search" ELSE call[s].path)

\* Mutant: the path is read, and the result not used.
ReadUnused(s) ==
    /\ pc[s] = "read"
    /\ Goto(s, "modify")
    /\ UNCHANGED <<CSPSearchPath, call, disturbed>>

\* _GetCSPSearchPathForPath: the call returns if it has nothing to do.
Read(s) == ReadPath(s, call[s].path)

ReadFails(s) == pc[s] = "read" /\ Raise(s)

\* dscl -delete takes every entry of the node.
Deleted(path, node) ==
    LET kept[i \in 0 .. Len(path)] ==
          IF i = 0 THEN <<>>
          ELSE IF path[i] = node THEN kept[i - 1] ELSE Append(kept[i - 1], path[i])
    IN  kept[Len(path)]

\* A path after dscl -append or -delete.
Modified(c) ==
    IF c.op = "append" THEN Append(CSPSearchPath[c.path], c.node)
                       ELSE Deleted(CSPSearchPath[c.path], c.node)

\* _ModifyCSPSearchPathForPath: dscl changes the stored path ...
Modify(s) ==
    /\ pc[s] = "modify"
    /\ Len(Modified(call[s])) <= MaxNodes
    /\ CSPSearchPath' = [CSPSearchPath EXCEPT ![call[s].path] = Modified(call[s])]
    /\ disturbed' = disturbed
                    \cup {t \in Scripts \ {s} : call[t].path = call[s].path}
    /\ Goto(s, "flush")
    /\ UNCHANGED call

ModifyFails(s) == pc[s] = "modify" /\ Raise(s)

\* Mutant: a call that returns does not end.
ReturnKeepsCall(s) ==
    /\ pc[s] = "flush"
    /\ Goto(s, "idle")
    /\ UNCHANGED <<CSPSearchPath, call, disturbed>>

\* ... and FlushCache runs dscacheutil, whose result is not looked at, before
\* the call returns.
FlushCache(s) ==
    /\ pc[s] = "flush"
    /\ Leave(s, "idle")
    /\ UNCHANGED CSPSearchPath

-----------------------------------------------------------------------------
Script(s) ==
    \/ Call(s) \/ Read(s) \/ ReadFails(s) \/ Modify(s) \/ ModifyFails(s)
    \/ FlushCache(s)

Next == \E s \in Scripts : Script(s)

Spec == Init /\ [][Next]_vars

-----------------------------------------------------------------------------
(* Properties.                                                             *)

\* The variables keep their types; a script is in a call exactly when it is
\* between two of its commands.
TypeOK ==
    /\ \A p \in Paths :
        CSPSearchPath[p] \in Seq(Nodes) /\ Len(CSPSearchPath[p]) <= MaxNodes
    /\ \A s \in Scripts :
        IF pc[s] \in Ready
        THEN call[s] = NoCall /\ s \notin disturbed
        ELSE call[s] \in Calls /\ pc[s] \in {"read", "modify", "flush"}

\* A call that returns has made the node present in the path of its name, or
\* absent from it, unless another script changed the same path while it ran. (Of
\* EnsureContactsNodeAbsent the docstring, pymacds/__init__.py:179, promises that
\* the node is absent from /Search, which the code does not look at.)
CallHolds ==
    [][\A s \in Scripts :
        pc[s] \notin Ready /\ pc'[s] = "idle" /\ s \notin disturbed
        => Satisfied(call[s], call[s].path)]_vars

\* Ensure*Present appends a node that is in the path already only when another
\* script has changed the path since it was read: dscl -append does not look
\* for duplicates, the reading is all that prevents them.
DuplicateOnlyByRace ==
    [][\A s \in Scripts :
        /\ pc[s] = "modify" /\ pc'[s] \notin Ready \cup {"modify"}
        /\ call[s].ensure /\ s \notin disturbed
        => ~Satisfied(call[s], call[s].path)]_vars

=============================================================================
