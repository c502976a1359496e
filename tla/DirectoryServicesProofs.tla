---------------------- MODULE DirectoryServicesProofs ----------------------
(***************************************************************************)
(* Proofs about pymacds' search paths for any scripts, nodes and paths.    *)
(***************************************************************************)
EXTENDS DirectoryServices, WellFoundedInduction, TLAPS

-----------------------------------------------------------------------------
(* What dscl -delete leaves of a path. Deleted is a recursive function, so *)
(* that this takes an induction: on sets of numbers, which need no         *)
(* operator as a parameter.                                                *)

Below == {pair \in Nat \X Nat : pair[1] < pair[2]}

LEMMA BelowWellFounded == IsWellFoundedOn(Below, Nat)
<1>1. OpToRel(<, Nat) = Below
  BY DEF OpToRel, Below
<1>. QED
  BY <1>1, NatLessThanWellFounded

LEMMA SetInduction ==
  ASSUME NEW S, 0 \in S, \A n \in Nat : n \in S => n + 1 \in S
  PROVE  Nat \subseteq S
<1>. DEFINE T == Nat \ S
<1>. SUFFICES ASSUME T # {} PROVE FALSE
  OBVIOUS
<1>1. T \subseteq Nat
  OBVIOUS
<1>. HIDE DEF T
<1>2. \E n \in T : \A k \in T : <<k, n>> \notin Below
  BY <1>1, WFMin, BelowWellFounded, Zenon
<1>3. PICK n \in T : \A k \in T : <<k, n>> \notin Below
  BY <1>2
<1>4. n \in Nat /\ n \notin S
  BY DEF T
<1>5. n # 0
  BY <1>4
<1>6. n - 1 \in Nat /\ n - 1 < n /\ (n - 1) + 1 = n
  BY <1>4, <1>5
<1>7. <<n - 1, n>> \in Below
  BY <1>4, <1>6 DEF Below
<1>8. n - 1 \in S
  BY <1>3, <1>6, <1>7 DEF T
<1>. QED
  BY <1>4, <1>6, <1>8

\* The equation of Deleted: the functions kept it stands for exist.
LEMMA DeletedDef ==
  ASSUME NEW path \in Seq(Nodes), NEW node
  PROVE  \E kept : /\ kept[0] = <<>>
                   /\ \A i \in 1 .. Len(path) :
                        kept[i] = IF path[i] = node THEN kept[i - 1] ELSE Append(kept[i - 1], path[i])
                   /\ Deleted(path, node) = kept[Len(path)]
<1>. DEFINE Step(before, i) == IF path[i] = node THEN before ELSE Append(before, path[i])
            Keeps(kept, n) == /\ kept = [i \in 0 .. n |-> kept[i]]
                              /\ kept[0] = <<>>
                              /\ \A i \in 1 .. n : kept[i] = Step(kept[i - 1], i)
            S == {n \in Nat : \E kept : Keeps(kept, n)}
<1>1. 0 \in S
  <2>1. Keeps([i \in 0 .. 0 |-> <<>>], 0)
    OBVIOUS
  <2>. QED
    BY <2>1
<1>2. ASSUME NEW n \in Nat, n \in S PROVE n + 1 \in S
  <2>. HIDE DEF Step
  <2>1. PICK kept : Keeps(kept, n)
    BY <1>2
  <2>. DEFINE longer == [i \in 0 .. n + 1 |-> IF i = n + 1 THEN Step(kept[n], n + 1) ELSE kept[i]]
  <2>2. longer[0] = <<>>
    BY <2>1
  <2>3. ASSUME NEW i \in 1 .. n + 1 PROVE longer[i] = Step(longer[i - 1], i)
    <3>1. i - 1 \in 0 .. n /\ longer[i - 1] = kept[i - 1]
      OBVIOUS
    <3>2. CASE i = n + 1
      BY <3>1, <3>2
    <3>3. CASE i # n + 1
      BY <2>1, <3>1, <3>3
    <3>. QED
      BY <3>2, <3>3
  <2>4. longer = [i \in 0 .. n + 1 |-> longer[i]]
    OBVIOUS
  <2>. HIDE DEF longer
  <2>5. Keeps(longer, n + 1)
    BY <2>2, <2>3, <2>4
  <2>. HIDE DEF Keeps
  <2>. QED
    BY <2>5
<1>3. Len(path) \in S
  <2>. HIDE DEF S
  <2>1. Nat \subseteq S
    BY <1>1, <1>2, SetInduction
  <2>. QED
    BY <2>1
<1>. DEFINE Defines(kept) ==
       kept = [i \in 0 .. Len(path) |->
                 IF i = 0 THEN <<>>
                 ELSE IF path[i] = node THEN kept[i - 1] ELSE Append(kept[i - 1], path[i])]
<1>4. \E kept : Defines(kept)
  <2>1. PICK kept : Keeps(kept, Len(path))
    BY <1>3
  <2>2. \A i \in 0 .. Len(path) : i = 0 \/ i \in 1 .. Len(path)
    OBVIOUS
  <2>3. Defines(kept)
    BY <2>1, <2>2
  <2>. QED
    BY <2>3
<1>5. Defines(CHOOSE kept : Defines(kept))
  <2>. HIDE DEF Defines
  <2>. QED
    BY <1>4, Zenon
<1>6. Deleted(path, node) = (CHOOSE kept : Defines(kept))[Len(path)]
  BY Zenon DEF Deleted
<1>. DEFINE kept == CHOOSE kept : Defines(kept)
<1>. HIDE DEF kept
<1>7. Defines(kept) /\ Deleted(path, node) = kept[Len(path)]
  BY <1>5, <1>6 DEF kept
<1>8. \A i \in 1 .. Len(path) : i # 0 /\ i \in 0 .. Len(path)
  OBVIOUS
<1>9. 0 \in 0 .. Len(path)
  OBVIOUS
<1>. QED
  BY <1>7, <1>8, <1>9

LEMMA RangeAppend ==
  ASSUME NEW path \in Seq(Nodes), NEW node \in Nodes
  PROVE  Range(Append(path, node)) = Range(path) \cup {node}
<1>. DEFINE longer == Append(path, node)
<1>1. /\ Len(path) \in Nat /\ Len(longer) = Len(path) + 1 /\ longer \in Seq(Nodes)
      /\ \A i \in 1 .. Len(path) : longer[i] = path[i]
      /\ longer[Len(path) + 1] = node
  OBVIOUS
<1>2. DOMAIN path = 1 .. Len(path) /\ DOMAIN longer = 1 .. Len(path) + 1
  BY <1>1
<1>3. 1 .. Len(path) + 1 = 1 .. Len(path) \cup {Len(path) + 1}
  BY <1>1
<1>. HIDE DEF longer
<1>4. Range(longer) = {longer[i] : i \in 1 .. Len(path)} \cup {longer[Len(path) + 1]}
  BY <1>2, <1>3 DEF Range
<1>5. Range(path) = {longer[i] : i \in 1 .. Len(path)}
  BY <1>1, <1>2 DEF Range
<1>. QED
  BY <1>1, <1>4, <1>5 DEF longer

\* What is left is a path, no longer than before, of all the other nodes.
LEMMA DeletedPath ==
  ASSUME NEW path \in Seq(Nodes), NEW node
  PROVE  /\ Deleted(path, node) \in Seq(Nodes)
         /\ Len(Deleted(path, node)) <= Len(path)
         /\ Range(Deleted(path, node)) = Range(path) \ {node}
<1>1. PICK kept : /\ kept[0] = <<>>
                  /\ \A i \in 1 .. Len(path) :
                       kept[i] = IF path[i] = node THEN kept[i - 1] ELSE Append(kept[i - 1], path[i])
                  /\ Deleted(path, node) = kept[Len(path)]
  BY DeletedDef
<1>. DEFINE Left(n) == /\ kept[n] \in Seq(Nodes) /\ Len(kept[n]) <= n
                       /\ Range(kept[n]) = {path[i] : i \in 1 .. n} \ {node}
            S == {n \in Nat : n <= Len(path) => Left(n)}
<1>2. 0 \in S
  <2>1. Range(<<>>) = {} /\ <<>> \in Seq(Nodes) /\ Len(<<>>) = 0
    BY DEF Range
  <2>2. 1 .. 0 = {}
    OBVIOUS
  <2>3. {path[i] : i \in 1 .. 0} = {}
    BY <2>2
  <2>4. Left(0)
    BY <1>1, <2>1, <2>3
  <2>. QED
    BY <2>4
<1>3. ASSUME NEW n \in Nat, n \in S PROVE n + 1 \in S
  <2>. SUFFICES ASSUME n + 1 <= Len(path) PROVE Left(n + 1)
    OBVIOUS
  <2>1. Left(n) /\ n + 1 \in 1 .. Len(path) /\ (n + 1) - 1 = n
    BY <1>3
  <2>2. kept[n + 1] = IF path[n + 1] = node THEN kept[n] ELSE Append(kept[n], path[n + 1])
    BY <1>1, <2>1
  <2>3. {path[i] : i \in 1 .. n + 1} = {path[i] : i \in 1 .. n} \cup {path[n + 1]}
    <3>1. 1 .. n + 1 = 1 .. n \cup {n + 1}
      OBVIOUS
    <3>. QED
      BY <3>1
  <2>4. path[n + 1] \in Nodes
    BY <2>1
  <2>5. CASE path[n + 1] = node
    BY <2>1, <2>2, <2>3, <2>5
  <2>6. CASE path[n + 1] # node
    <3>1. kept[n + 1] = Append(kept[n], path[n + 1])
      BY <2>2, <2>6
    <3>2. Range(Append(kept[n], path[n + 1])) = Range(kept[n]) \cup {path[n + 1]}
      BY <2>1, <2>4, RangeAppend
    <3>3. Append(kept[n], path[n + 1]) \in Seq(Nodes) /\ Len(Append(kept[n], path[n + 1])) = Len(kept[n]) + 1
      BY <2>1, <2>4
    <3>. QED
      BY <2>1, <2>3, <2>6, <3>1, <3>2, <3>3
  <2>. QED
    BY <2>5, <2>6
<1>4. Left(Len(path))
  <2>1. Nat \subseteq S
    <3>. HIDE DEF S
    <3>. QED
      BY <1>2, <1>3, SetInduction
  <2>2. Len(path) \in Nat /\ Len(path) <= Len(path)
    OBVIOUS
  <2>. HIDE DEF Left
  <2>. QED
    BY <2>1, <2>2
<1>5. Range(path) = {path[i] : i \in 1 .. Len(path)}
  BY DEF Range
<1>. QED
  BY <1>1, <1>4, <1>5

-----------------------------------------------------------------------------
(* The calls of any scripts.                                               *)

\* What a script has read holds until it modifies the path, as long as no other
\* script has modified it: the fact Ensure* relies on between its two commands.
ReadHolds ==
    \A s \in Scripts :
        pc[s] = "modify" /\ call[s].ensure /\ s \notin disturbed
        => ~Satisfied(call[s], call[s].path)

\* What a script has modified holds until its call returns, on the same
\* condition.
ModifiedHolds ==
    \A s \in Scripts :
        pc[s] = "flush" /\ s \notin disturbed => Satisfied(call[s], call[s].path)

\* The variables are functions on the scripts and paths.
Functional ==
    /\ CSPSearchPath = [p \in Paths |-> CSPSearchPath[p]]
    /\ pc = [s \in Scripts |-> pc[s]] /\ call = [s \in Scripts |-> call[s]]

Typed == Functional /\ TypeOK

IInv == Typed /\ ReadHolds /\ ModifiedHolds

LEMMA InCall == ASSUME Typed, NEW s \in Scripts, pc[s] \notin Ready PROVE call[s] \in Calls
BY DEF Typed, TypeOK

LEMMA Initially == Init => IInv
<1>. SUFFICES ASSUME Init PROVE IInv
  OBVIOUS
<1>1. \A p \in Paths : CSPSearchPath[p] \in Seq(Nodes) /\ Len(CSPSearchPath[p]) <= MaxNodes
  <2>1. <<>> \in Seq(Nodes) /\ Len(<<>>) = 0 /\ 0 <= MaxNodes
    BY DsAssumption
  <2>. QED
    BY <2>1 DEF Init
<1>. QED
  BY <1>1 DEF Init, IInv, Typed, Functional, TypeOK, ReadHolds, ModifiedHolds, Ready

\* A path that is modified is a path, and has what the call wants of it.
LEMMA ModifyPath ==
  ASSUME Typed, NEW s \in Scripts, Modify(s)
  PROVE  /\ Functional' /\ call' = call
         /\ \A p \in Paths : CSPSearchPath'[p] \in Seq(Nodes) /\ Len(CSPSearchPath'[p]) <= MaxNodes
         /\ Satisfied(call[s], call[s].path)'
<1>. DEFINE c == call[s]
            before == CSPSearchPath[c.path]
<1>1. c \in Calls
  BY InCall DEF Modify, Ready
<1>2. c.path \in Paths /\ c.node \in Nodes /\ c.op \in {"append", "delete"}
  BY <1>1 DEF Calls
<1>3. before \in Seq(Nodes)
  BY <1>2 DEF Typed, TypeOK
<1>4. /\ Modified(c) \in Seq(Nodes)
      /\ c.node \in Range(Modified(c)) <=> c.op = "append"
  <2>1. CASE c.op = "append"
    <3>1. Modified(c) = Append(before, c.node)
      BY <2>1 DEF Modified
    <3>2. Append(before, c.node) \in Seq(Nodes)
      BY <1>2, <1>3
    <3>3. Range(Append(before, c.node)) = Range(before) \cup {c.node}
      BY <1>2, <1>3, RangeAppend
    <3>. QED
      BY <2>1, <3>1, <3>2, <3>3
  <2>2. CASE c.op = "delete"
    <3>1. Modified(c) = Deleted(before, c.node)
      BY <2>2 DEF Modified
    <3>. HIDE DEF before, c
    <3>. QED
      BY <1>3, <2>2, <3>1, DeletedPath
  <2>. QED
    BY <1>2, <2>1, <2>2
<1>5. Functional' /\ call' = call /\ CSPSearchPath'[c.path] = Modified(c)
  BY <1>2 DEF Modify, Goto, Typed, Functional
<1>6. Satisfied(c, c.path)'
  BY <1>2, <1>4, <1>5 DEF Satisfied
<1>7. ASSUME NEW p \in Paths PROVE CSPSearchPath'[p] \in Seq(Nodes) /\ Len(CSPSearchPath'[p]) <= MaxNodes
  <2>1. CASE p = c.path
    BY <1>4, <1>5, <2>1 DEF Modify
  <2>2. CASE p # c.path
    BY <2>2 DEF Modify, Typed, Functional, TypeOK
  <2>. QED
    BY <2>1, <2>2
<1>. QED
  BY <1>5, <1>6, <1>7

\* Every step keeps the types.
LEMMA TypedStep == Typed /\ [Next]_vars => Typed'
<1> SUFFICES ASSUME Typed, [Next]_vars PROVE Typed'
  OBVIOUS
<1> USE DEF Typed, Functional, TypeOK, Ready, Goto, Leave
<1>1. ASSUME NEW s \in Scripts, Call(s) PROVE Typed'
  BY <1>1 DEF Call
<1>2. ASSUME NEW s \in Scripts, Read(s) PROVE Typed'
  BY <1>2 DEF Read, ReadPath
<1>3. ASSUME NEW s \in Scripts, pc[s] \notin Ready, Raise(s) PROVE Typed'
  BY <1>3 DEF Raise
<1>4. ASSUME NEW s \in Scripts, Modify(s) PROVE Typed'
  <2>1. Functional' /\ call' = call
    BY <1>4, ModifyPath
  <2>2. \A p \in Paths : CSPSearchPath'[p] \in Seq(Nodes) /\ Len(CSPSearchPath'[p]) <= MaxNodes
    BY <1>4, ModifyPath
  <2>3. ASSUME NEW t \in Scripts
        PROVE  IF pc'[t] \in Ready THEN call'[t] = NoCall /\ t \notin disturbed'
               ELSE call'[t] \in Calls /\ pc'[t] \in {"read", "modify", "flush"}
    <3>1. CASE t = s
      BY <1>4, <3>1 DEF Modify
    <3>2. CASE t # s
      <4>1. pc'[t] = pc[t] /\ call'[t] = call[t]
        BY <1>4, <3>2 DEF Modify
      <4>2. ASSUME pc[t] \in Ready, t \in disturbed' PROVE FALSE
        <5>1. call[t].path = call[s].path /\ call[t] = NoCall /\ call[s] \in Calls
          BY <1>4, <4>2 DEF Modify
        <5>2. None \in Paths
          BY <5>1 DEF NoCall, Calls
        <5>. QED
          BY <5>2, DsAssumption
      <4>. QED
        BY <4>1, <4>2
    <3>. QED
      BY <3>1, <3>2
  <2>. QED
    BY <2>1, <2>2, <2>3
<1>5. ASSUME NEW s \in Scripts, FlushCache(s) PROVE Typed'
  BY <1>5 DEF FlushCache
<1>6. CASE UNCHANGED vars
  BY <1>6 DEF vars
<1>. QED
  BY <1>1, <1>2, <1>3, <1>4, <1>5, <1>6 DEF Next, Script, ReadFails, ModifyFails

\* A script that modifies a path disturbs every call that works on it: paths of
\* other calls stay as they were read or modified.
LEMMA OthersStay ==
  ASSUME Typed, NEW s \in Scripts, Modify(s),
         NEW t \in Scripts, t # s, t \notin disturbed', pc[t] \notin Ready
  PROVE  Satisfied(call[t], call[t].path) <=> Satisfied(call[t], call[t].path)'
<1>1. call[t].path # call[s].path
  BY DEF Modify
<1>2. call[t] \in Calls
  BY InCall
<1>3. call' = call
  BY DEF Modify
<1>4. CSPSearchPath'[call[t].path] = CSPSearchPath[call[t].path]
  BY <1>1, <1>2 DEF Typed, Functional, Modify, Calls
<1>. QED
  BY <1>3, <1>4 DEF Satisfied

LEMMA ReadHoldsStep == Typed /\ ReadHolds /\ [Next]_vars => ReadHolds'
<1> SUFFICES ASSUME Typed, ReadHolds, [Next]_vars,
                    NEW t \in Scripts,
                    pc'[t] = "modify", call'[t].ensure, t \notin disturbed'
             PROVE  ~Satisfied(call[t], call[t].path)'
  BY DEF ReadHolds
<1> USE DEF Typed, Functional
<1>1. ASSUME NEW s \in Scripts, Call(s) PROVE ~Satisfied(call[t], call[t].path)'
  BY <1>1 DEF Call, ReadHolds, Goto, Satisfied
<1>2. ASSUME NEW s \in Scripts, Read(s) PROVE ~Satisfied(call[t], call[t].path)'
  BY <1>2 DEF Read, ReadPath, ReadHolds, Goto, Leave, Satisfied, Ready
<1>3. ASSUME NEW s \in Scripts, Leave(s, "raised") \/ Leave(s, "idle"), UNCHANGED CSPSearchPath
      PROVE  ~Satisfied(call[t], call[t].path)'
  BY <1>3 DEF ReadHolds, Leave, Goto, Satisfied
<1>4. ASSUME NEW s \in Scripts, Modify(s) PROVE ~Satisfied(call[t], call[t].path)'
  <2>1. t # s
    BY <1>4 DEF Modify, Goto
  <2>2. pc[t] = "modify" /\ call'[t] = call[t] /\ t \notin disturbed
    BY <1>4, <2>1 DEF Modify, Goto
  <2>3. pc[t] \notin Ready
    BY <2>2 DEF Ready
  <2>. QED
    BY <1>4, <2>1, <2>2, <2>3, OthersStay DEF ReadHolds
<1>5. CASE UNCHANGED vars
  BY <1>5 DEF vars, ReadHolds, Satisfied
<1>. QED
  BY <1>1, <1>2, <1>3, <1>4, <1>5
  DEF Next, Script, ReadFails, ModifyFails, Raise, FlushCache

LEMMA ModifiedHoldsStep == Typed /\ ModifiedHolds /\ [Next]_vars => ModifiedHolds'
<1> SUFFICES ASSUME Typed, ModifiedHolds, [Next]_vars,
                    NEW t \in Scripts, pc'[t] = "flush", t \notin disturbed'
             PROVE  Satisfied(call[t], call[t].path)'
  BY DEF ModifiedHolds
<1> USE DEF Typed, Functional
<1>1. ASSUME NEW s \in Scripts, Call(s) PROVE Satisfied(call[t], call[t].path)'
  BY <1>1 DEF Call, ModifiedHolds, Goto, Satisfied
<1>2. ASSUME NEW s \in Scripts, Read(s) PROVE Satisfied(call[t], call[t].path)'
  BY <1>2 DEF Read, ReadPath, ModifiedHolds, Goto, Leave, Satisfied, Ready
<1>3. ASSUME NEW s \in Scripts, Leave(s, "raised") \/ Leave(s, "idle"), UNCHANGED CSPSearchPath
      PROVE  Satisfied(call[t], call[t].path)'
  BY <1>3 DEF ModifiedHolds, Leave, Goto, Satisfied
<1>4. ASSUME NEW s \in Scripts, Modify(s) PROVE Satisfied(call[t], call[t].path)'
  <2>1. CASE t = s
    BY <1>4, <2>1, ModifyPath
  <2>2. CASE t # s
    <3>1. pc[t] = "flush" /\ t \notin disturbed
      BY <1>4, <2>2 DEF Modify, Goto
    <3>2. pc[t] \notin Ready
      BY <3>1 DEF Ready
    <3>. QED
      BY <1>4, <2>2, <3>1, <3>2, OthersStay DEF ModifiedHolds
  <2>. QED
    BY <2>1, <2>2
<1>5. CASE UNCHANGED vars
  BY <1>5 DEF vars, ModifiedHolds, Satisfied
<1>. QED
  BY <1>1, <1>2, <1>3, <1>4, <1>5
  DEF Next, Script, ReadFails, ModifyFails, Raise, FlushCache

LEMMA Invariant == Spec => []IInv
<1>1. IInv /\ [Next]_vars => IInv'
  BY TypedStep, ReadHoldsStep, ModifiedHoldsStep DEF IInv
<1>. QED
  BY Initially, <1>1, PTL DEF Spec

\* Only two steps return: after a reading that finds nothing to do, and after
\* the cache is flushed.
LEMMA ReturnSatisfied ==
  ASSUME IInv, [Next]_vars, NEW s \in Scripts,
         pc[s] \notin Ready, pc'[s] = "idle", s \notin disturbed
  PROVE  Satisfied(call[s], call[s].path)
<1> USE DEF IInv, Typed, Functional, Ready, Goto, Leave
<1>1. ASSUME NEW t \in Scripts, Call(t) PROVE FALSE
  BY <1>1 DEF Call
<1>2. ASSUME NEW t \in Scripts, Read(t) PROVE Satisfied(call[s], call[s].path)
  BY <1>2 DEF Read, ReadPath
<1>3. ASSUME NEW t \in Scripts, Raise(t) PROVE FALSE
  BY <1>3 DEF Raise
<1>4. ASSUME NEW t \in Scripts, Modify(t) PROVE FALSE
  BY <1>4 DEF Modify
<1>5. ASSUME NEW t \in Scripts, FlushCache(t) PROVE Satisfied(call[s], call[s].path)
  BY <1>5 DEF FlushCache, ModifiedHolds
<1>6. CASE UNCHANGED vars
  BY <1>6 DEF vars
<1>. QED
  BY <1>1, <1>2, <1>3, <1>4, <1>5, <1>6 DEF Next, Script, ReadFails, ModifyFails

-----------------------------------------------------------------------------
\* The paths stay sequences of nodes within their bound, and a script is in a
\* call, with nothing of an earlier one left, exactly between its commands.
THEOREM TypeCorrect == Spec => []TypeOK
BY Invariant, PTL DEF IInv, Typed

\* A call that returns has made the node present, or absent, unless another
\* script changed the same path while it ran.
THEOREM CallHoldsAlways == Spec => CallHolds
<1>1. IInv /\ [Next]_vars
      => \A s \in Scripts :
           pc[s] \notin Ready /\ pc'[s] = "idle" /\ s \notin disturbed
           => Satisfied(call[s], call[s].path)
  BY ReturnSatisfied
<1>. QED
  BY Invariant, <1>1, PTL DEF Spec, CallHolds

\* Ensure*Present appends a node that is in the path already only if another
\* script changed the path after it was read, however many scripts and paths
\* there are and however long the paths grow.
THEOREM DuplicateOnlyByRaceHolds == Spec => DuplicateOnlyByRace
<1>1. IInv => \A s \in Scripts :
        /\ pc[s] = "modify" /\ pc'[s] \notin Ready \cup {"modify"}
        /\ call[s].ensure /\ s \notin disturbed
        => ~Satisfied(call[s], call[s].path)
  BY DEF IInv, ReadHolds
<1>. QED
  BY Invariant, <1>1, PTL DEF Spec, DuplicateOnlyByRace

=============================================================================
