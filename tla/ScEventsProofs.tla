--------------------------- MODULE ScEventsProofs ---------------------------
(***************************************************************************)
(* Proofs about ScEvents for every set of keys, every configuration and    *)
(* every way the handlers may fail.                                        *)
(***************************************************************************)
EXTENDS ScEvents, FiniteSetTheorems, TLAPS

\* Any order of the collected keys is a sequence of them without repetition.
LEMMA OrderingIsBatch ==
  ASSUME NEW S, IsFiniteSet(S), NEW s \in Orderings(S)
  PROVE  /\ s \in Seq(S)
         /\ IsInjective(s)
         /\ Range(s) = S
         /\ Len(s) = Cardinality(S)
         /\ DOMAIN s = 1 .. Len(s)
<1>1. Cardinality(S) \in Nat
  BY FS_CardinalityType
<1>2. s \in [1 .. Cardinality(S) -> S] /\ IsInjective(s)
      /\ \A t \in S : \E n \in 1 .. Cardinality(S) : s[n] = t
  BY DEF Orderings, Bijection, Injection, Surjection
<1>3. s \in Seq(S) /\ Len(s) = Cardinality(S)
  BY <1>1, <1>2
<1>4. Range(s) = S
  BY <1>2 DEF Range
<1>. QED
  BY <1>2, <1>3, <1>4

\* What one call of a handler does to the counts.
LEMMA CalledCounts ==
  ASSUME TypeOK, NEW h
  PROVE  /\ Called(h) \in [Pairs -> Nat]
         /\ \A g \in ConfigKeys, k \in Keys :
              /\ calls[<<g, k>>] \in Nat
              /\ Called(h)[<<g, k>>] =
                   IF g = h /\ k = keys[pos] THEN calls[<<g, k>>] + 1 ELSE calls[<<g, k>>]
<1>1. Called(h) = [p \in Pairs |-> IF p = <<h, keys[pos]>> THEN calls[p] + 1 ELSE calls[p]]
  BY DEF TypeOK, Called
<1>2. \A p \in Pairs : calls[p] \in Nat
  BY DEF TypeOK
<1>3. Called(h) \in [Pairs -> Nat]
  BY <1>1, <1>2
<1>4. ASSUME NEW g \in ConfigKeys, NEW k \in Keys
      PROVE  Called(h)[<<g, k>>] =
               IF g = h /\ k = keys[pos] THEN calls[<<g, k>>] + 1 ELSE calls[<<g, k>>]
  <2>1. <<g, k>> \in Pairs
    BY DEF Pairs
  <2>2. Called(h)[<<g, k>>] =
          IF <<g, k>> = <<h, keys[pos]>> THEN calls[<<g, k>>] + 1 ELSE calls[<<g, k>>]
    BY <1>1, <2>1
  <2>. QED
    BY <2>2
<1>5. \A g \in ConfigKeys, k \in Keys : calls[<<g, k>>] \in Nat
  BY <1>2 DEF Pairs
<1>. QED
  BY <1>3, <1>4, <1>5

\* The variables keep their types: in particular the position in the array is
\* never 0 and only configured handlers are ever pending.
THEOREM TypeCorrect == Spec => []TypeOK
<1>1. Init => TypeOK
  BY DEF Init, TypeOK
<1>2. TypeOK /\ [Next]_vars => TypeOK'
  <2> SUFFICES ASSUME TypeOK, [Next]_vars PROVE TypeOK'
    OBVIOUS
  <2> USE DEF TypeOK
  <2>1. ASSUME NEW k \in Keys, StoreChange(k) PROVE TypeOK'
    BY <2>1 DEF StoreChange
  <2>2. CASE Callback
    <3>1. IsFiniteSet(changed)
      BY KeysAssumption, FS_Subset
    <3>2. keys' \in Seq(Keys)
      BY <2>2, <3>1, OrderingIsBatch DEF Callback
    <3>. QED
      BY <2>2, <3>2 DEF Callback
  <2>3. CASE ExactCall
    <3>1. Called(keys[pos]) \in [Pairs -> Nat]
      BY CalledCounts
    <3>2. calls' = Called(keys[pos]) /\ UNCHANGED <<changed, keys>>
      BY <2>3 DEF ExactCall
    <3>3. CASE pos' = pos + 1 /\ UNCHANGED <<pass, left, outcome>>
      BY <3>1, <3>2, <3>3
    <3>4. CASE StartRegexPass
      BY <3>1, <3>2, <3>4 DEF StartRegexPass, Matching
    <3>5. CASE Abandon
      BY <3>1, <3>2, <3>5 DEF Abandon
    <3>. QED
      BY <2>3, <3>3, <3>4, <3>5 DEF ExactCall
  <2>4. CASE ExactMiss
    BY <2>4 DEF ExactMiss, StartRegexPass, Matching
  <2>5. ASSUME NEW h \in ConfigKeys, RegexCall(h) PROVE TypeOK'
    <3>1. Called(h) \in [Pairs -> Nat]
      BY CalledCounts
    <3>. QED
      BY <2>5, <3>1 DEF RegexCall, Abandon
  <2>6. CASE RegexNextKey
    BY <2>6 DEF RegexNextKey, Matching
  <2>7. CASE Return
    BY <2>7 DEF Return
  <2>8. CASE UNCHANGED vars
    BY <2>8 DEF vars
  <2>. QED
    BY <2>1, <2>2, <2>3, <2>4, <2>5, <2>6, <2>7, <2>8 DEF Next, Step
<1>. QED
  BY <1>1, <1>2, PTL DEF Spec

-----------------------------------------------------------------------------
Counted == \A h \in ConfigKeys, k \in Keys : calls[<<h, k>>] \in Nat

LEMMA TypedCounts == TypeOK => Counted
BY DEF TypeOK, Counted, Pairs

LEMMA TypedCountsNext == TypeOK' => Counted'
BY DEF TypeOK, Counted, Pairs

Safe == AtMostTwice /\ NoKeyDropped /\ ExactOrEvery
IInv == TypeOK /\ CallsAccount /\ Safe

\* A reported key is matched by some handler's pattern, hence also by re.match.
LEMMA NotifiableIsMatched ==
  ASSUME NEW k \in Notifiable
  PROVE  \E h \in ConfigKeys : h \in Matching(k)
BY DialectAssumption DEF Notifiable, Matching

\* Counts of at most one, and none across names, are within the bound.
LEMMA OnceIsAtMostTwice ==
  ASSUME TypeOK', \A h \in ConfigKeys, k \in Keys : OnceIfOwnName(h, k)'
  PROVE  AtMostTwice'
<1> SUFFICES ASSUME NEW h \in ConfigKeys, NEW k \in Keys
    PROVE calls'[<<h, k>>] <= 2 /\ (h # k => calls'[<<h, k>>] <= 1)
  BY DEF AtMostTwice
<1>1. calls'[<<h, k>>] \in Nat
  BY TypedCountsNext DEF Counted
<1>2. calls'[<<h, k>>] <= 1
  BY DEF OnceIfOwnName
<1>. QED
  BY <1>1, <1>2

\* Entering the regex loop: every pair has been called at most once, and only
\* a pair of a key with its own name, which is all RegexAccount asks for when
\* nothing of the loop has been done.
LEMMA RegexPassStarts ==
  ASSUME TypeOK, TypeOK', WellFormed, StartRegexPass, UNCHANGED <<changed, keys>>,
         keys # <<>>, pass = "exact",
         \A h \in ConfigKeys, k \in Keys :
           OnceIfOwnName(h, k)'
  PROVE  CallsAccount' /\ Safe'
<1>1. pos' = 1 /\ pass' = "regex" /\ left' = Matching(keys[1]) /\ keys' = keys
      /\ changed' = changed /\ outcome' = "none"
  BY DEF StartRegexPass, WellFormed
<1>2. Len(keys) \in Nat /\ Len(keys) >= 1
  BY DEF TypeOK
<1>3. WellFormed'
  BY <1>1, <1>2 DEF WellFormed, Notifiable, Matching, Batch, IsInjective, Range
<1>4. ASSUME NEW h \in ConfigKeys, NEW k \in Keys PROVE ~RegexDone(h, k)'
  <2>1. \A n \in 1 .. pos' : n = 1
    BY <1>1
  <2>. QED
    BY <1>1, <2>1 DEF RegexDone, Matching
<1>5. RegexAccount'
  BY <1>4 DEF RegexAccount
<1>6. ExactAccount'
  BY <1>1 DEF ExactAccount
<1>7. Safe'
  BY <1>1, OnceIsAtMostTwice DEF Safe, NoKeyDropped, ExactOrEvery
<1>. QED
  BY <1>3, <1>5, <1>6, <1>7 DEF CallsAccount

\* An exception that leaves handle_sc_event leaves the counts as they are.
LEMMA AbandonKeeps ==
  ASSUME TypeOK, WellFormed, Abandon, UNCHANGED <<changed, keys>>, AtMostTwice'
  PROVE  CallsAccount' /\ Safe'
<1>1. pass' = "idle" /\ outcome' = "raised" /\ keys' = keys /\ changed' = changed
  BY DEF Abandon
<1>2. WellFormed'
  BY <1>1 DEF WellFormed, Notifiable, Batch, IsInjective, Range
<1>. QED
  BY <1>1, <1>2 DEF CallsAccount, ExactAccount, RegexAccount, Safe,
                    NoKeyDropped, ExactOrEvery

LEMMA InitIInv == Init => IInv
<1> SUFFICES ASSUME Init PROVE IInv
  OBVIOUS
<1>1. TypeOK
  BY DEF Init, TypeOK
<1>2. Batch = {} /\ IsInjective(keys)
  BY DEF Init, Batch, Range, IsInjective
<1>3. \A p \in Pairs : calls[p] = 0 /\ \A h \in ConfigKeys, k \in Keys : <<h, k>> \in Pairs
  BY DEF Init, Pairs
<1>4. CallsAccount
  BY <1>2 DEF Init, CallsAccount, WellFormed, ExactAccount, RegexAccount
<1>5. AtMostTwice
  <2> SUFFICES ASSUME NEW h \in ConfigKeys, NEW k \in Keys
      PROVE calls[<<h, k>>] <= 2 /\ (h # k => calls[<<h, k>>] <= 1)
    BY DEF AtMostTwice
  <2>1. calls[<<h, k>>] = 0
    BY DEF Init, Pairs
  <2>. QED
    BY <2>1
<1>6. NoKeyDropped /\ ExactOrEvery
  BY <1>2, <1>3 DEF NoKeyDropped, ExactOrEvery
<1>. QED
  BY <1>1, <1>4, <1>5, <1>6 DEF IInv, Safe

LEMMA CallbackKeeps ==
  ASSUME IInv, Callback, TypeOK'
  PROVE  CallsAccount' /\ Safe'
<1>1. IsFiniteSet(changed) /\ changed # {} /\ changed \subseteq Notifiable
  BY KeysAssumption, FS_Subset DEF IInv, TypeOK, Callback, CallsAccount, WellFormed
<1>2. /\ keys' \in Seq(changed)
      /\ IsInjective(keys')
      /\ Range(keys') = changed
  BY <1>1, OrderingIsBatch DEF Callback
<1>3. pass' = "exact" /\ pos' = 1 /\ changed' = {} /\ outcome' = "none"
  BY DEF Callback
<1>4. keys' # <<>>
  BY <1>1, <1>2 DEF Range
<1>5. WellFormed'
  <2>1. Len(keys') \in Nat /\ pos' <= Len(keys') + 1
    BY <1>2, <1>3
  <2>2. (changed \cup Batch)' \subseteq Notifiable
    BY <1>1, <1>2, <1>3 DEF Batch
  <2>. QED
    BY <1>2, <1>3, <1>4, <2>1, <2>2 DEF WellFormed, Notifiable
<1>6. \A h \in ConfigKeys, k \in Keys : calls'[<<h, k>>] = 0
  BY DEF Callback, Pairs
<1>7. ExactAccount'
  <2>1. 1 .. pos' - 1 = {}
    BY <1>3
  <2>. QED
    BY <1>6, <2>1 DEF ExactAccount, ExactDone
<1>8. RegexAccount'
  BY <1>3 DEF RegexAccount
<1>9. Safe'
  BY <1>3, <1>6 DEF Safe, AtMostTwice, NoKeyDropped, ExactOrEvery
<1>. QED
  BY <1>5, <1>7, <1>8, <1>9 DEF CallsAccount

LEMMA ExactCallKeeps ==
  ASSUME IInv, ExactCall, TypeOK'
  PROVE  CallsAccount' /\ Safe'
<1> USE DEF IInv, CallsAccount
<1>1. /\ pass = "exact" /\ outcome = "none" /\ keys # <<>>
      /\ pos \in 1 .. Len(keys)
      /\ keys[pos] \in ConfigKeys /\ keys[pos] \in Keys
      /\ calls' = Called(keys[pos])
      /\ keys' = keys /\ changed' = changed
  BY DEF ExactCall, TypeOK, WellFormed
<1>2. \A n \in 1 .. pos - 1 : keys[n] # keys[pos]
  <2>1. DOMAIN keys = 1 .. Len(keys)
    BY DEF TypeOK
  <2>2. pos - 1 \in Nat /\ \A n \in 1 .. pos - 1 : n \in 1 .. Len(keys) /\ n # pos
    BY <1>1
  <2>. QED
    BY <1>1, <2>1, <2>2 DEF WellFormed, IsInjective
<1>3. \A h \in ConfigKeys, k \in Keys :
        IF h = k /\ \E n \in 1 .. pos : keys[n] = k
          THEN calls'[<<h, k>>] = 1 ELSE calls'[<<h, k>>] = 0
  <2> TAKE h \in ConfigKeys, k \in Keys
  <2>1. IF h = k /\ \E n \in 1 .. pos - 1 : keys[n] = k
          THEN calls[<<h, k>>] = 1 ELSE calls[<<h, k>>] = 0
    BY <1>1 DEF ExactAccount, ExactDone
  <2>2. calls'[<<h, k>>] =
          IF h = keys[pos] /\ k = keys[pos] THEN calls[<<h, k>>] + 1 ELSE calls[<<h, k>>]
    BY <1>1, CalledCounts
  <2>3. \A n : n \in 1 .. pos <=> n \in 1 .. pos - 1 \/ n = pos
    BY <1>1
  <2>. QED
    BY <1>2, <2>1, <2>2, <2>3
<1>4. \A h \in ConfigKeys, k \in Keys :
        OnceIfOwnName(h, k)'
  <2> TAKE h \in ConfigKeys, k \in Keys
  <2>1. calls'[<<h, k>>] = 0 \/ (h = k /\ calls'[<<h, k>>] = 1)
    BY <1>3
  <2>. QED
    BY <2>1 DEF OnceIfOwnName
<1>5. AtMostTwice'
  BY <1>4, OnceIsAtMostTwice
<1>6. CASE pos' = pos + 1 /\ UNCHANGED <<pass, left, outcome>>
  <2>1. WellFormed'
    BY <1>1, <1>6 DEF WellFormed, Notifiable, Batch, IsInjective, Range
  <2>2. ExactAccount'
    <3>1. 1 .. pos' - 1 = 1 .. pos
      BY <1>1, <1>6
    <3>2. \A n \in 1 .. pos : keys[n] \in ConfigKeys
      BY <1>1 DEF ExactAccount
    <3>. QED
      BY <1>1, <1>3, <3>1, <3>2 DEF ExactAccount, ExactDone
  <2>3. RegexAccount' /\ NoKeyDropped' /\ ExactOrEvery'
    BY <1>1, <1>6 DEF RegexAccount, NoKeyDropped, ExactOrEvery
  <2>. QED
    BY <1>5, <2>1, <2>2, <2>3 DEF Safe
<1>7. CASE StartRegexPass
  BY <1>1, <1>4, <1>7, RegexPassStarts
<1>8. CASE Abandon
  BY <1>1, <1>5, <1>8, AbandonKeeps
<1>. QED
  BY <1>6, <1>7, <1>8 DEF ExactCall

LEMMA ExactMissKeeps ==
  ASSUME IInv, ExactMiss, TypeOK'
  PROVE  CallsAccount' /\ Safe'
<1>1. /\ pass = "exact" /\ keys # <<>> /\ StartRegexPass
      /\ UNCHANGED <<changed, keys>> /\ calls' = calls
  BY DEF ExactMiss, IInv, CallsAccount, WellFormed
<1>2. \A h \in ConfigKeys, k \in Keys :
        OnceIfOwnName(h, k)'
  <2> TAKE h \in ConfigKeys, k \in Keys
  <2>1. calls'[<<h, k>>] = 0 \/ (h = k /\ calls'[<<h, k>>] = 1)
    BY <1>1 DEF IInv, CallsAccount, ExactAccount, ExactDone
  <2>. QED
    BY <2>1 DEF OnceIfOwnName
<1>. QED
  BY <1>1, <1>2, RegexPassStarts DEF IInv, CallsAccount

LEMMA RegexCallKeeps ==
  ASSUME IInv, NEW h \in ConfigKeys, RegexCall(h), TypeOK'
  PROVE  CallsAccount' /\ Safe'
<1> USE DEF IInv, CallsAccount
<1>1. /\ pass = "regex" /\ outcome = "none"
      /\ pos \in 1 .. Len(keys)
      /\ h \in left /\ h \in Matching(keys[pos]) /\ keys[pos] \in Keys
      /\ calls' = Called(h)
      /\ keys' = keys /\ changed' = changed
  BY DEF RegexCall, TypeOK, WellFormed
<1>2. ~RegexDone(h, keys[pos])
  <2>1. DOMAIN keys = 1 .. Len(keys)
    BY DEF TypeOK
  <2>2. \A n \in 1 .. pos : keys[n] = keys[pos] => n = pos
    BY <1>1, <2>1 DEF WellFormed, IsInjective
  <2>. QED
    BY <1>1, <2>2 DEF RegexDone
<1>3. \A g \in ConfigKeys, k \in Keys :
        /\ calls[<<g, k>>] \in Nat
        /\ calls'[<<g, k>>] =
              IF g = h /\ k = keys[pos] THEN calls[<<g, k>>] + 1 ELSE calls[<<g, k>>]
  BY <1>1, CalledCounts
<1>4. AtMostTwice'
  <2>1. OnceIfOwnName(h, keys[pos])
    BY <1>1, <1>2 DEF RegexAccount
  <2>. QED
    <3> SUFFICES ASSUME NEW g \in ConfigKeys, NEW k \in Keys
        PROVE calls'[<<g, k>>] <= 2 /\ (g # k => calls'[<<g, k>>] <= 1)
      BY DEF AtMostTwice
    <3>1. CASE g = h /\ k = keys[pos]
      <4>1. calls[<<g, k>>] \in Nat /\ calls'[<<g, k>>] = calls[<<g, k>>] + 1
        BY <1>3, <3>1
      <4>2. calls[<<g, k>>] <= 1 /\ (g # k => calls[<<g, k>>] = 0)
        BY <2>1, <3>1 DEF OnceIfOwnName
      <4>. QED
        BY <4>1, <4>2
    <3>2. CASE ~(g = h /\ k = keys[pos])
      <4>1. calls'[<<g, k>>] = calls[<<g, k>>]
        BY <1>3, <3>2
      <4>. QED
        BY <4>1 DEF Safe, AtMostTwice
    <3>. QED
      BY <3>1, <3>2
<1>5. CASE left' = left \ {h} /\ UNCHANGED <<pass, pos, outcome>>
  <2>1. WellFormed'
    BY <1>1, <1>5 DEF WellFormed, Notifiable, Batch, IsInjective, Range, Matching
  <2>2. ASSUME NEW g \in ConfigKeys, NEW k \in Keys
        PROVE  RegexDone(g, k)' <=> RegexDone(g, k) \/ (g = h /\ k = keys[pos])
    BY <1>1, <1>5 DEF RegexDone, Matching
  <2>3. RegexAccount'
    <3> SUFFICES ASSUME NEW g \in ConfigKeys, NEW k \in Keys
        PROVE IF RegexDone(g, k)' THEN calls'[<<g, k>>] > 0
                                  ELSE OnceIfOwnName(g, k)'
      BY DEF RegexAccount
    <3>1. IF RegexDone(g, k) THEN calls[<<g, k>>] > 0
                             ELSE OnceIfOwnName(g, k)
      BY <1>1 DEF RegexAccount
    <3>. QED
      BY <1>3, <2>2, <3>1 DEF OnceIfOwnName
  <2>4. ExactAccount' /\ NoKeyDropped' /\ ExactOrEvery'
    BY <1>1, <1>5 DEF ExactAccount, NoKeyDropped, ExactOrEvery
  <2>. QED
    BY <1>4, <2>1, <2>3, <2>4 DEF Safe
<1>6. CASE Abandon
  BY <1>1, <1>4, <1>6, AbandonKeeps
<1>. QED
  BY <1>5, <1>6 DEF RegexCall

LEMMA RegexNextKeyKeeps ==
  ASSUME IInv, RegexNextKey, TypeOK'
  PROVE  CallsAccount' /\ Safe'
<1> USE DEF IInv, CallsAccount
<1>1. /\ pass = "regex" /\ pass' = "regex" /\ outcome' = outcome
      /\ pos \in Nat \ {0} /\ pos < Len(keys) /\ Len(keys) \in Nat
      /\ pos' = pos + 1
      /\ left = {} /\ left' = Matching(keys[pos + 1])
      /\ keys' = keys /\ changed' = changed /\ calls' = calls
  BY DEF RegexNextKey, TypeOK
<1>2. WellFormed'
  <2>1. pos' <= Len(keys') /\ left' \subseteq Matching(keys[pos'])
    BY <1>1
  <2>2. (changed \cup Batch)' \subseteq Notifiable
    BY <1>1 DEF WellFormed, Batch
  <2>. QED
    BY <1>1, <2>1, <2>2 DEF WellFormed, Notifiable, IsInjective, Matching
<1>3. ASSUME NEW g \in ConfigKeys, NEW k \in Keys
      PROVE  RegexDone(g, k)' <=> RegexDone(g, k)
  <2>1. \A n : n \in 1 .. pos' <=> n \in 1 .. pos \/ n = pos + 1
    BY <1>1
  <2>2. \A n \in 1 .. pos : n # pos + 1
    BY <1>1
  <2>. QED
    BY <1>1, <2>1, <2>2 DEF RegexDone, Matching
<1>4. RegexAccount'
  BY <1>1, <1>3 DEF RegexAccount, OnceIfOwnName
<1>5. ExactAccount' /\ Safe'
  BY <1>1 DEF ExactAccount, Safe, AtMostTwice, NoKeyDropped, ExactOrEvery, Batch, Range,
              WellFormed
<1>. QED
  BY <1>2, <1>4, <1>5

LEMMA ReturnKeeps ==
  ASSUME IInv, Return, TypeOK'
  PROVE  CallsAccount' /\ Safe'
<1> USE DEF IInv, CallsAccount
<1>1. /\ pass' = "idle" /\ outcome' = "returned"
      /\ keys' = keys /\ changed' = changed /\ calls' = calls
  BY DEF Return
<1>2. WellFormed' /\ ExactAccount' /\ RegexAccount' /\ AtMostTwice'
  BY <1>1 DEF WellFormed, Notifiable, Batch, IsInjective, Range, ExactAccount,
              RegexAccount, Safe, AtMostTwice
<1>3. Batch' = Batch /\ Batch \subseteq Notifiable /\ Batch \subseteq Keys
  BY <1>1 DEF Batch, Range, WellFormed, Notifiable
<1>4. DOMAIN keys = 1 .. Len(keys) /\ \A k \in Batch : \E n \in 1 .. Len(keys) : keys[n] = k
  BY DEF TypeOK, Batch, Range
<1>5. CASE pass = "exact" /\ pos > Len(keys)
  <2>1. pos - 1 = Len(keys)
    BY <1>5 DEF WellFormed, TypeOK
  <2>2. \A k \in Batch : k \in ConfigKeys /\ \E n \in 1 .. pos - 1 : keys[n] = k
    BY <1>4, <1>5, <2>1 DEF ExactAccount
  <2>3. \A n \in 1 .. pos - 1 : keys[n] \in Batch
    BY <1>4, <2>1 DEF Batch, Range
  <2>4. \A h \in ConfigKeys, k \in Keys :
          IF h = k /\ k \in Batch THEN calls[<<h, k>>] = 1 ELSE calls[<<h, k>>] = 0
    <3> TAKE h \in ConfigKeys, k \in Keys
    <3>1. ExactDone(h, k) <=> h = k /\ k \in Batch
      BY <2>2, <2>3 DEF ExactDone
    <3>. QED
      BY <1>5, <3>1 DEF ExactAccount
  <2>5. NoKeyDropped'
    BY <1>1, <1>3, <2>2, <2>4 DEF NoKeyDropped
  <2>6. \A p \in Pairs : calls[p] > 0 <=> p[1] = p[2] /\ p[2] \in Batch
    BY <2>4 DEF Pairs
  <2>7. ExactOrEvery'
    BY <1>1, <1>3, <2>6 DEF ExactOrEvery
  <2>. QED
    BY <1>2, <2>5, <2>7 DEF Safe
<1>6. CASE pass = "regex" /\ left = {} /\ pos = Len(keys)
  <2>1. \A h \in ConfigKeys, k \in Batch : h \in Matching(k) => RegexDone(h, k)
    BY <1>4, <1>6 DEF RegexDone
  <2>2. \A h \in ConfigKeys, k \in Batch : h \in Matching(k) => calls[<<h, k>>] > 0
    BY <1>3, <1>6, <2>1 DEF RegexAccount
  <2>3. NoKeyDropped'
    BY <1>1, <1>3, <2>2, NotifiableIsMatched DEF NoKeyDropped
  <2>4. ExactOrEvery'
    BY <1>1, <1>3, <2>2 DEF ExactOrEvery, Matching
  <2>. QED
    BY <1>2, <2>3, <2>4 DEF Safe
<1>. QED
  BY <1>5, <1>6 DEF Return

\* Steps of configd do not touch the call in progress.
LEMMA CallsUntouched ==
  ASSUME IInv, UNCHANGED <<keys, pass, pos, left, calls, outcome>>,
         changed' \subseteq Notifiable
  PROVE  CallsAccount' /\ Safe'
<1> USE DEF IInv, CallsAccount, Safe
<1>1. WellFormed'
  <2>1. (changed \cup Batch)' \subseteq Notifiable
    BY DEF WellFormed, Batch
  <2>. QED
    BY <2>1 DEF WellFormed, Notifiable, Matching, IsInjective
<1>2. ExactAccount'
  BY DEF ExactAccount, ExactDone
<1>3. RegexAccount'
  <2>1. \A h, k : (RegexDone(h, k)' <=> RegexDone(h, k))
                 /\ (OnceIfOwnName(h, k)' <=> OnceIfOwnName(h, k))
    BY DEF RegexDone, OnceIfOwnName, Matching
  <2>. QED
    BY <2>1 DEF RegexAccount
<1>4. Safe'
  BY DEF AtMostTwice, NoKeyDropped, ExactOrEvery, Batch
<1>. QED
  BY <1>1, <1>2, <1>3, <1>4

\* The counts stand in the relation to the position in the two loops that the
\* invariant states, and therefore Safe holds, in every reachable state.
THEOREM Invariance == Spec => []IInv
<1>1. IInv /\ TypeOK' /\ [Next]_vars => IInv'
  <2> SUFFICES ASSUME IInv, TypeOK', [Next]_vars PROVE CallsAccount' /\ Safe'
    BY DEF IInv
  <2>1. ASSUME NEW k \in Keys, StoreChange(k) PROVE CallsAccount' /\ Safe'
    <3>1. UNCHANGED <<keys, pass, pos, left, calls, outcome>> /\ changed' \subseteq Notifiable
      BY <2>1 DEF StoreChange, IInv, CallsAccount, WellFormed
    <3>. QED
      BY <3>1, CallsUntouched
  <2>2. CASE Callback
    BY <2>2, CallbackKeeps
  <2>3. CASE ExactCall
    BY <2>3, ExactCallKeeps
  <2>4. CASE ExactMiss
    BY <2>4, ExactMissKeeps
  <2>5. ASSUME NEW h \in ConfigKeys, RegexCall(h) PROVE CallsAccount' /\ Safe'
    BY <2>5, RegexCallKeeps
  <2>6. CASE RegexNextKey
    BY <2>6, RegexNextKeyKeeps
  <2>7. CASE Return
    BY <2>7, ReturnKeeps
  <2>8. CASE UNCHANGED vars
    <3>1. UNCHANGED <<keys, pass, pos, left, calls, outcome>> /\ changed' \subseteq Notifiable
      BY <2>8 DEF vars, IInv, CallsAccount, WellFormed
    <3>. QED
      BY <3>1, CallsUntouched
  <2>. QED
    BY <2>1, <2>2, <2>3, <2>4, <2>5, <2>6, <2>7, <2>8 DEF Next, Step
<1>. QED
  BY InitIInv, TypeCorrect, <1>1, PTL DEF Spec

\* Which handlers have been called, and how often, follows from where the
\* callback is in its two loops, for any handlers, keys and exceptions.
THEOREM CallsAccountHolds == Spec => []CallsAccount
<1>1. IInv => CallsAccount
  BY DEF IInv
<1>. QED
  BY <1>1, Invariance, PTL

\* No handler runs more than once for a key in one callback, but for a second
\* call of the handler whose own name the key is.
THEOREM AtMostTwiceHolds == Spec => []AtMostTwice
<1>1. IInv => AtMostTwice
  BY DEF IInv, Safe
<1>. QED
  BY <1>1, Invariance, PTL

\* A callback that returns leaves no reported key without a handler.
THEOREM NoKeyDroppedHolds == Spec => []NoKeyDropped
<1>1. IInv => NoKeyDropped
  BY DEF IInv, Safe
<1>. QED
  BY <1>1, Invariance, PTL

\* A callback that returns has used the names only, or every pattern.
THEOREM ExactOrEveryHolds == Spec => []ExactOrEvery
<1>1. IInv => ExactOrEvery
  BY DEF IInv, Safe
<1>. QED
  BY <1>1, Invariance, PTL

-----------------------------------------------------------------------------
\* A call of a handler adds its key to the keys served, and no other.
LEMMA CallServes ==
  ASSUME IInv, NEW h \in ConfigKeys, keys[pos] \in Batch, calls' = Called(h), keys' = keys
  PROVE  Served' = Served \cup {keys[pos]} /\ Batch' = Batch
<1>1. Batch' = Batch /\ Batch \subseteq Keys
  BY DEF Batch, IInv, CallsAccount, WellFormed, Notifiable
<1>2. ASSUME NEW k \in Batch
      PROVE  k \in Served' <=> k \in Served \/ k = keys[pos]
  <2>1. \A g \in ConfigKeys :
          /\ calls[<<g, k>>] \in Nat
          /\ calls'[<<g, k>>] =
                IF g = h /\ k = keys[pos] THEN calls[<<g, k>>] + 1 ELSE calls[<<g, k>>]
    BY <1>1, CalledCounts DEF IInv
  <2>2. CASE k = keys[pos]
    <3>1. calls'[<<h, k>>] > 0
      BY <2>1, <2>2
    <3>. QED
      BY <1>1, <2>2, <3>1 DEF Served
  <2>3. CASE k # keys[pos]
    BY <1>1, <2>1, <2>3 DEF Served
  <2>. QED
    BY <2>2, <2>3
<1>. QED
  BY <1>1, <1>2 DEF Served

\* Every step of the callback loop and of configd is a step of the abstract
\* delivery, or none at all.
LEMMA DeliveryStep ==
  ASSUME IInv, IInv', [Next]_vars
  PROVE  [Delivery!Next]_(Delivery!vars)
<1> USE DEF IInv, CallsAccount
<1>1. ASSUME NEW k \in Keys, StoreChange(k) PROVE Delivery!Notify(k)
  BY <1>1 DEF StoreChange, Delivery!Notify, Batch, Served, State
<1>2. CASE Callback
  <2>1. State # "serving" /\ State' = "serving"
    BY <1>2 DEF Callback, State, WellFormed, TypeOK
  <2>2. Batch' = changed
    <3>1. IsFiniteSet(changed)
      BY KeysAssumption, FS_Subset DEF TypeOK
    <3>. QED
      BY <1>2, <3>1, OrderingIsBatch DEF Callback, Batch
  <2>3. Served' = {}
    <3>1. \A h \in ConfigKeys, k \in Keys : calls'[<<h, k>>] = 0
      BY <1>2 DEF Callback, Pairs
    <3>2. Batch' \subseteq Keys
      BY <2>2 DEF TypeOK
    <3>3. \A h \in ConfigKeys, k \in Batch' : ~(calls'[<<h, k>>] > 0)
      <4> TAKE h \in ConfigKeys, k \in Batch'
      <4>1. calls'[<<h, k>>] = 0
        BY <3>1, <3>2
      <4>. QED
        BY <4>1
    <3>. QED
      BY <3>3 DEF Served
  <2>. QED
    BY <1>2, <2>1, <2>2, <2>3 DEF Callback, Delivery!Take, Delivery!Next
<1>3. CASE ExactCall
  <2>1. keys[pos] \in Batch /\ keys[pos] \in ConfigKeys /\ keys[pos] \in Keys
    BY <1>3 DEF ExactCall, Batch, Range, TypeOK
  <2>2. Served' = Served \cup {keys[pos]} /\ Batch' = Batch /\ changed' = changed
    BY <1>3, <2>1, CallServes DEF ExactCall
  <2>3. State = "serving" /\ State' \in {"serving", "raised"}
    BY <1>3 DEF ExactCall, StartRegexPass, Abandon, State
  <2>. QED
    BY <2>1, <2>2, <2>3 DEF Delivery!Serve, Delivery!Work, Delivery!Next
<1>4. CASE ExactMiss
  BY <1>4 DEF ExactMiss, StartRegexPass, Delivery!vars, Batch, Served, State
<1>5. ASSUME NEW h \in ConfigKeys, RegexCall(h) PROVE [Delivery!Next]_(Delivery!vars)
  <2>1. keys[pos] \in Batch /\ keys[pos] \in Keys
    BY <1>5 DEF RegexCall, Batch, Range, TypeOK, WellFormed
  <2>2. Served' = Served \cup {keys[pos]} /\ Batch' = Batch /\ changed' = changed
    BY <1>5, <2>1, CallServes DEF RegexCall
  <2>3. State = "serving" /\ State' \in {"serving", "raised"}
    BY <1>5 DEF RegexCall, Abandon, State
  <2>. QED
    BY <2>1, <2>2, <2>3 DEF Delivery!Serve, Delivery!Work, Delivery!Next
<1>6. CASE RegexNextKey
  BY <1>6 DEF RegexNextKey, Delivery!vars, Batch, Served, State
<1>7. CASE Return
  <2>1. UNCHANGED <<changed, Batch, Served>>
    BY <1>7 DEF Return, Batch, Served
  <2>2. State = "serving" /\ State' = "returned"
    BY <1>7 DEF Return, State
  <2>3. Served = Batch
    BY <1>7, <2>1 DEF Return, Safe, NoKeyDropped, Served
  <2>. QED
    BY <2>1, <2>2, <2>3 DEF Delivery!Finish, Delivery!Work, Delivery!Next
<1>8. CASE UNCHANGED vars
  BY <1>8 DEF vars, Delivery!vars, Batch, Served, State
<1>. QED
  BY <1>1, <1>2, <1>3, <1>4, <1>5, <1>6, <1>7, <1>8 DEF Next, Step, Delivery!Next

\* handle_sc_event and configd together implement the safety part of the
\* abstract delivery: a key is lost only with a batch a handler's exception
\* abandons.  (Fairness is checked by TLC as ImplementsDelivery.)
THEOREM DeliveryRefined == Spec => Delivery!Spec
<1>1. Init => Delivery!Init
  BY DEF Init, Delivery!Init, Batch, Served, State, Range
<1>2. IInv /\ IInv' /\ [Next]_vars => [Delivery!Next]_(Delivery!vars)
  BY DeliveryStep
<1>. QED
  BY <1>1, <1>2, Invariance, PTL DEF Spec, Delivery!Spec
=============================================================================
