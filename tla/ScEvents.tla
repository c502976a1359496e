------------------------------ MODULE ScEvents ------------------------------
(***************************************************************************)
(* Delivery of SystemConfiguration changes to crankd's handlers.           *)
(*                                                                         *)
(* configd collects the dynamic-store keys that change and that match one  *)
(* of the patterns crankd registered (add_sc_notifications), and the run   *)
(* loop hands them, as one array, to handle_sc_event.  handle_sc_event     *)
(* walks the array looking every key up in SC_HANDLERS; the first KeyError *)
(* sends it through the whole array again, matching every key against      *)
(* every configured name as a regular expression.  configd goes on         *)
(* collecting changes while the handlers run.                              *)
(***************************************************************************)
EXTENDS Integers, Sequences, FiniteSets, Functions

CONSTANTS
  Keys,        \* dynamic-store keys that may change
  ConfigKeys,  \* names in the SystemConfiguration section: keys or patterns
  StoreMatch,  \* <<h, k>>: configd matches key k against the pattern h
  ReMatch,     \* <<h, k>>: re.match(h, k) succeeds
  Raises       \* [ConfigKeys -> exceptions that handler may raise]

Exceptions == {"KeyError", "OtherError"}

ASSUME KeysAssumption == IsFiniteSet(Keys)
ASSUME MatchAssumption ==
  /\ StoreMatch \subseteq ConfigKeys \X Keys
  /\ ReMatch \subseteq ConfigKeys \X Keys
\* configd anchors a pattern at both ends, re.match only at the start, so on
\* patterns both dialects read alike whatever configd reports re.match accepts.
ASSUME DialectAssumption == StoreMatch \subseteq ReMatch
ASSUME RaisesAssumption == Raises \in [ConfigKeys -> SUBSET Exceptions]

VARIABLES
  changed,  \* keys configd holds for the session's next callback
  keys,     \* changed_keys of the current (or last) call of handle_sc_event
  pass,     \* "idle", or which loop of handle_sc_event is running
  pos,      \* index of the key the loop is at
  left,     \* regex loop: matching handlers not yet called for keys[pos]
  calls,    \* <<h, k>> -> how often this call ran handler h with key k
  outcome   \* how the last call ended: "none" (running), "returned", "raised"

vars == <<changed, keys, pass, pos, left, calls, outcome>>

Pairs == ConfigKeys \X Keys
Notifiable == {k \in Keys : \E h \in ConfigKeys : <<h, k>> \in StoreMatch}
Matching(k) == {h \in ConfigKeys : <<h, k>> \in ReMatch}
Orderings(S) == Bijection(1 .. Cardinality(S), S)
Batch == Range(keys)

-----------------------------------------------------------------------------
Init ==
  /\ changed = {}
  /\ keys = <<>>
  /\ pass = "idle"
  /\ pos = 1
  /\ left = {}
  /\ calls = [p \in Pairs |-> 0]
  /\ outcome = "returned"

\* configd: a value changes.  Keys no registered pattern matches are not
\* reported, and a key that changes twice is reported once.
StoreChange(k) ==
  /\ k \in Notifiable \ changed
  /\ changed' = changed \cup {k}
  /\ UNCHANGED <<keys, pass, pos, left, calls, outcome>>

\* The run loop calls handle_sc_event with everything collected so far, in
\* the order of configd's array, which nothing fixes.
Callback ==
  /\ pass = "idle"
  /\ changed # {}
  /\ keys' \in Orderings(changed)
  /\ changed' = {}
  /\ pass' = "exact"
  /\ pos' = 1
  /\ left' = {}
  /\ calls' = [p \in Pairs |-> 0]
  /\ outcome' = "none"

Called(h) == [calls EXCEPT ![<<h, keys[pos]>>] = @ + 1]

\* Mutant: the clause goes on from the key whose lookup failed.
StartRegexPassHere ==
  /\ pass' = "regex"
  /\ left' = Matching(keys[pos])
  /\ UNCHANGED <<pos, outcome>>

\* Mutant: the array is indexed from 0.
StartRegexPassAt0 ==
  /\ pass' = "regex"
  /\ pos' = 0
  /\ left' = Matching(keys[1])
  /\ UNCHANGED outcome

\* The except KeyError clause: start over from the first key.
StartRegexPass ==
  /\ pass' = "regex"
  /\ pos' = 1
  /\ left' = Matching(keys[1])
  /\ UNCHANGED outcome

\* Any other exception leaves handle_sc_event; the rest of the array is lost.
Abandon ==
  /\ pass' = "idle"
  /\ outcome' = "raised"
  /\ UNCHANGED <<pos, left>>

\* SC_HANDLERS[key](key=key, info=info), the handler returning or raising.
ExactCall ==
  /\ pass = "exact"
  /\ pos <= Len(keys)
  /\ keys[pos] \in ConfigKeys
  /\ calls' = Called(keys[pos])
  /\ \/ pos' = pos + 1 /\ UNCHANGED <<pass, left, outcome>>
     \/ "KeyError" \in Raises[keys[pos]] /\ StartRegexPass
     \/ "OtherError" \in Raises[keys[pos]] /\ Abandon
  /\ UNCHANGED <<changed, keys>>

\* Mutant: a key without a handler of its own is skipped (SC_HANDLERS.get).
ExactMissSkips ==
  /\ pass = "exact"
  /\ pos <= Len(keys)
  /\ keys[pos] \notin ConfigKeys
  /\ pos' = pos + 1
  /\ UNCHANGED <<changed, keys, pass, left, calls, outcome>>

\* SC_HANDLERS has no such key.
ExactMiss ==
  /\ pass = "exact"
  /\ pos <= Len(keys)
  /\ keys[pos] \notin ConfigKeys
  /\ StartRegexPass
  /\ UNCHANGED <<changed, keys, calls>>

\* Mutant: the clause also covers its own loop, which starts over again.
RegexCallRetries(h) ==
  /\ pass = "regex"
  /\ h \in left
  /\ calls' = Called(h)
  /\ \/ left' = left \ {h} /\ UNCHANGED <<pass, pos, outcome>>
     \/ Raises[h] # {} /\ StartRegexPass
  /\ UNCHANGED <<changed, keys>>

\* One call of the regex loop; here a KeyError is caught by nobody.
RegexCall(h) ==
  /\ pass = "regex"
  /\ h \in left
  /\ calls' = Called(h)
  /\ \/ left' = left \ {h} /\ UNCHANGED <<pass, pos, outcome>>
     \/ Raises[h] # {} /\ Abandon
  /\ UNCHANGED <<changed, keys>>

RegexNextKey ==
  /\ pass = "regex"
  /\ left = {}
  /\ pos < Len(keys)
  /\ pos' = pos + 1
  /\ left' = Matching(keys[pos + 1])
  /\ UNCHANGED <<changed, keys, pass, calls, outcome>>

\* Mutant: what was collected is cleared after the handlers instead of before.
ReturnClears ==
  /\ \/ pass = "exact" /\ pos > Len(keys)
     \/ pass = "regex" /\ left = {} /\ pos = Len(keys)
  /\ pass' = "idle"
  /\ outcome' = "returned"
  /\ changed' = {}
  /\ UNCHANGED <<keys, pos, left, calls>>

Return ==
  /\ \/ pass = "exact" /\ pos > Len(keys)
     \/ pass = "regex" /\ left = {} /\ pos = Len(keys)
  /\ pass' = "idle"
  /\ outcome' = "returned"
  /\ UNCHANGED <<changed, keys, pos, left, calls>>

Step ==
  \/ ExactCall
  \/ ExactMiss
  \/ \E h \in ConfigKeys : RegexCall(h)
  \/ RegexNextKey
  \/ Return

Next == (\E k \in Keys : StoreChange(k)) \/ Callback \/ Step

\* The run loop serves its sources, and every handler ends.  Nothing obliges
\* the store to change.
Fairness == WF_vars(Callback) /\ WF_vars(Step)

Spec == Init /\ [][Next]_vars
FairSpec == Spec /\ Fairness

-----------------------------------------------------------------------------
(* Properties.                                                             *)

\* The variables keep their types; the loops never leave the array by its
\* front end.
TypeOK ==
  /\ changed \subseteq Keys
  /\ keys \in Seq(Keys)
  /\ pass \in {"idle", "exact", "regex"}
  /\ pos \in Nat \ {0}
  /\ left \subseteq ConfigKeys
  /\ calls \in [Pairs -> Nat]
  /\ outcome \in {"none", "returned", "raised"}

\* Starting the array over never runs away: in one call of handle_sc_event a
\* handler runs at most once for a key, and at most twice when the key is the
\* handler's own name (once by lookup, once more by the regex loop).
AtMostTwice ==
  \A h \in ConfigKeys, k \in Keys :
    calls[<<h, k>>] <= 2 /\ (h # k => calls[<<h, k>>] <= 1)

\* A call that returns has given every key of the array to some handler,
\* whichever loop was running and wherever the first one was cut short.
NoKeyDropped ==
  outcome = "returned" =>
    \A k \in Batch : \E h \in ConfigKeys : calls[<<h, k>>] > 0

\* A call that returns either found every key by its name and called nothing
\* else, or ran every handler whose pattern matches a key: the restart of the
\* loop leaves no mixture of the two behind.
ExactOrEvery ==
  outcome = "returned" =>
    \/ \A p \in Pairs : calls[p] > 0 <=> p[1] = p[2] /\ p[2] \in Batch
    \/ \A k \in Batch, h \in ConfigKeys :
         <<h, k>> \in ReMatch => calls[<<h, k>>] > 0

\* A reported change reaches a handler, unless a handler's exception takes a
\* whole array with it: nothing stays behind in configd or in the loops.
ChangeIsServed ==
  \A k \in Keys :
    k \in changed ~>
      \/ outcome = "raised"
      \/ k \in Batch /\ \E h \in ConfigKeys : calls[<<h, k>>] > 0

\* Where handle_sc_event is in its two loops says exactly who has been called:
\* this is what makes the three invariants above inductive.
WellFormed ==
  /\ IsInjective(keys)
  /\ changed \cup Batch \subseteq Notifiable
  /\ pass = "idle" <=> outcome # "none"
  /\ pass = "exact" => keys # <<>> /\ pos <= Len(keys) + 1
  /\ pass = "regex" => pos <= Len(keys) /\ left \subseteq Matching(keys[pos])

ExactDone(h, k) == h = k /\ \E n \in 1 .. pos - 1 : keys[n] = k
ExactAccount ==
  pass = "exact" =>
    /\ \A n \in 1 .. pos - 1 : keys[n] \in ConfigKeys
    /\ \A h \in ConfigKeys, k \in Keys :
         IF ExactDone(h, k) THEN calls[<<h, k>>] = 1 ELSE calls[<<h, k>>] = 0

OnceIfOwnName(h, k) == calls[<<h, k>>] <= 1 /\ (h # k => calls[<<h, k>>] = 0)
RegexDone(h, k) ==
  /\ h \in Matching(k)
  /\ \E n \in 1 .. pos : keys[n] = k /\ (n = pos => h \notin left)
RegexAccount ==
  pass = "regex" =>
    \A h \in ConfigKeys, k \in Keys :
      IF RegexDone(h, k) THEN calls[<<h, k>>] > 0
                         ELSE OnceIfOwnName(h, k)

CallsAccount == WellFormed /\ ExactAccount /\ RegexAccount

\* The abstract specification of the delivery, with what the handlers have
\* been called for as the keys served.
Served == {k \in Batch : \E h \in ConfigKeys : calls[<<h, k>>] > 0}
State == IF pass = "idle" THEN outcome ELSE "serving"

Delivery == INSTANCE EventDelivery WITH
  waiting <- changed, batch <- Batch, served <- Served, state <- State

\* handle_sc_event under configd implements it, fairness included: the two
\* loops, the lookups that fail and the second call for a key are steps that
\* the abstract specification does not see.
ImplementsDelivery == Delivery!FairSpec

-----------------------------------------------------------------------------
(* What the source says of handle_sc_event, and the code does not do.      *)

\* "If there's no exact match, go through the list again assuming regex": a
\* handler found by its exact name is not called for that key again.
ExactMatchOnce ==
  \A h \in ConfigKeys \cap Keys : calls[<<h, h>>] <= 1
=============================================================================
