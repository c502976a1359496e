------------------------- MODULE ProxyManagerProofs -------------------------
(***************************************************************************)
(* Proofs about the clients of the preferences, for any number of moves,   *)
(* runs of set-proxy and edits by others.                                  *)
(***************************************************************************)
EXTENDS ProxyManager, TLAPS

Types ==
  /\ step \in [Clients -> {"idle", "resolve", "set", "commit", "apply"}]
  /\ new_state \in [Clients -> BOOLEAN]
  /\ session \in [Clients -> [settings : Settings, signature : Nat]]
  /\ edited \in [Clients -> Settings]
  /\ saved \in Settings /\ active \in Settings /\ signature \in Nat
  /\ protocol \in Protocols

\* What a client would commit is what is stored but for one protocol, as long
\* as nobody has committed since it read the preferences.
Sound ==
  /\ Types
  /\ \A c \in Clients :
       /\ session[c].signature <= signature
       /\ step[c] = "commit" /\ ~Stale(c) => SetsOneProtocol(saved, edited[c])

LEMMA SoundInit == Init => Sound
<1> SUFFICES ASSUME Init PROVE Sound
  OBVIOUS
<1>1. Types
  BY DEF Init, Types, Clients, Protocols
<1>2. \A c \in Clients : session[c].signature <= signature /\ step[c] # "commit"
  BY DEF Init, Clients
<1>. QED
  BY <1>1, <1>2 DEF Sound

\* The steps that end a client's work change its step alone.
LEMMA Ends ==
  ASSUME NEW c \in Clients, Types, Returns(c, TRUE) \/ Returns(c, FALSE) \/ Raises(c) \/ RaisesKeyError(c)
  PROVE  step' \in [Clients -> {"idle", "resolve", "set", "commit", "apply"}]
         /\ \A d \in Clients : step'[d] = "commit" => step[d] = "commit"
BY DEF Types, Returns, Raises, RaisesKeyError, Goto

\* A step that changes nothing but where clients are, none of them to "commit",
\* leaves what they would commit sound.
LEMMA SoundStays ==
  ASSUME Sound, UNCHANGED <<session, edited, saved, signature>>,
         step' \in [Clients -> {"idle", "resolve", "set", "commit", "apply"}],
         \A d \in Clients : step'[d] = "commit" => step[d] = "commit",
         new_state' \in [Clients -> BOOLEAN], active' \in Settings, protocol' \in Protocols
  PROVE  Sound'
BY DEF Sound, Types, Stale, SetsOneProtocol

\* A step that stores something makes what everybody has read stale.
LEMMA NewSignature ==
  ASSUME Sound, signature' = signature + 1, UNCHANGED <<session, edited, new_state, protocol>>,
         step' \in [Clients -> {"idle", "resolve", "set", "commit", "apply"}],
         saved' \in Settings, active' \in Settings
  PROVE  Sound'
<1>1. \A c \in Clients : session[c].signature \in Nat
  BY DEF Sound, Types
<1>2. \A c \in Clients : session'[c].signature <= signature' /\ Stale(c)'
  BY <1>1 DEF Sound, Types, Stale
<1>3. Types'
  BY DEF Sound, Types
<1>. QED
  BY <1>2, <1>3 DEF Sound

LEMMA ReadsStored ==
  ASSUME Sound, NEW c \in Clients, SetProxy(c)
  PROVE  Sound'
<1> DEFINE settings == [saved EXCEPT ![Protocol(c)] = new_state[c]]
<1> USE DEF Sound, Types
<1>1. Protocol(c) \in Protocols /\ new_state[c] \in BOOLEAN
  BY DEF Protocol, Protocols
<1>2. settings \in Settings /\ SetsOneProtocol(saved, settings)
  BY <1>1 DEF Settings, SetsOneProtocol
<1>3. /\ session' = [session EXCEPT ![c] = [settings |-> saved, signature |-> signature]]
      /\ edited' = [edited EXCEPT ![c] = settings]
      /\ step' = [step EXCEPT ![c] = "commit"]
      /\ UNCHANGED <<protocol, new_state, saved, signature, active>>
  BY DEF SetProxy, ReadAndEdit, Goto, prefs
<1>4. Types'
  BY <1>2, <1>3
<1>5. ASSUME NEW d \in Clients
      PROVE /\ session'[d].signature <= signature'
            /\ step'[d] = "commit" /\ ~Stale(d)' => SetsOneProtocol(saved', edited'[d])
  <2>1. CASE d = c
    <3>1. session'[c].signature = signature /\ signature' = signature /\ signature \in Nat
      BY <1>3
    <3>2. edited'[c] = settings /\ saved' = saved
      BY <1>3
    <3>. QED
      BY <1>2, <2>1, <3>1, <3>2 DEF SetsOneProtocol
  <2>2. CASE d # c
    BY <1>3, <2>2 DEF Stale, SetsOneProtocol
  <2>. QED
    BY <2>1, <2>2
<1>. QED
  BY <1>4, <1>5

LEMMA SoundStep == Sound /\ [Next]_vars => Sound'
<1> SUFFICES ASSUME Sound, [Next]_vars PROVE Sound'
  OBVIOUS
<1> USE DEF prefs, clients, Goto
<1>1. ASSUME NEW c \in Clients, SetProxy(c) PROVE Sound'
  BY <1>1, ReadsStored
<1>2. ASSUME NEW c \in Clients, SetProxyFails(c) \/ CommitFails(c) \/ ApplyFails(c) PROVE Sound'
  BY <1>2, Ends, SoundStays DEF SetProxyFails, CommitFails, ApplyFails, Sound, Types
<1>3. ASSUME NEW c \in Clients, Commit(c) PROVE Sound'
  BY <1>3, NewSignature DEF Commit, Sound, Types
<1>4. ASSUME NEW c \in Clients, Apply(c) PROVE Sound'
  BY <1>4, Ends, SoundStays DEF Apply, Sound, Types
<1>5. CASE Resolve
  BY <1>5, SoundStays DEF Resolve, Sound, Types, Wanted, Clients
<1>6. CASE ResolveFails
  BY <1>6, Ends, SoundStays DEF ResolveFails, Sound, Types, Clients
<1>7. CASE RunSetProxy
  <2>1. new_state' \in [Clients -> BOOLEAN]
    BY <1>7 DEF RunSetProxy, Sound, Types
  <2>. QED
    BY <1>7, <2>1, SoundStays DEF RunSetProxy, Sound, Types, Clients
<1>8. CASE Register \/ Notify \/ Relaunch \/ Move
  BY <1>8, SoundStays DEF Register, Notify, Relaunch, Move, Sound, Types, Clients
<1>9. CASE OthersEdit
  BY <1>9, NewSignature DEF OthersEdit, Sound, Types
<1>10. CASE UNCHANGED vars
  BY <1>10, SoundStays DEF vars, Sound, Types
<1>. QED
  BY <1>1, <1>2, <1>3, <1>4, <1>5, <1>6, <1>7, <1>8, <1>9, <1>10
  DEF Next, Update, Crankd, Save, Clients

\* What ends a client's work leaves crankd in one of its phases.
LEMMA EndsTyped ==
  ASSUME NEW c \in Clients, TypeOK, Returns(c, TRUE) \/ Returns(c, FALSE) \/ Raises(c) \/ RaisesKeyError(c)
  PROVE  /\ phase' \in {"boot", "register", "serve", "down"}
         /\ attempt' \in {1, 2} /\ reported' \in BOOLEAN
BY DEF TypeOK, Returns, Raises, RaisesKeyError

\* The rest of TypeOK, which Types does not say.
LEMMA TypeStep == TypeOK /\ Types' /\ [Next]_vars => TypeOK'
<1> DEFINE Rest ==
      /\ network \in Networks /\ phase \in {"boot", "register", "serve", "down"}
      /\ attempt \in {1, 2}
      /\ queued \in BOOLEAN /\ bare \in BOOLEAN /\ reported \in BOOLEAN /\ missed \in BOOLEAN
      /\ overridden \in BOOLEAN
      /\ moves \in 0 .. MaxMoves /\ runs \in 0 .. MaxRuns /\ edits \in 0 .. MaxEdits
<1> SUFFICES ASSUME TypeOK, Types', [Next]_vars PROVE Rest'
  BY DEF TypeOK, Types
<1>0. Rest
  BY DEF TypeOK
<1> USE DEF prefs, clients, history, bounds
<1>1. ASSUME NEW c \in Clients, SetProxy(c) PROVE Rest'
  BY <1>0, <1>1 DEF SetProxy, ReadAndEdit
<1>2. ASSUME NEW c \in Clients, SetProxyFails(c) \/ CommitFails(c) \/ ApplyFails(c) PROVE Rest'
  BY <1>0, <1>2, EndsTyped DEF SetProxyFails, CommitFails, ApplyFails
<1>3. ASSUME NEW c \in Clients, Commit(c) PROVE Rest'
  BY <1>0, <1>3 DEF Commit, Overrides
<1>4. ASSUME NEW c \in Clients, Apply(c) PROVE Rest'
  BY <1>0, <1>4, EndsTyped DEF Apply
<1>5. CASE Resolve
  BY <1>0, <1>5 DEF Resolve
<1>6. CASE ResolveFails
  BY <1>0, <1>6, EndsTyped DEF ResolveFails, Clients
<1>7. CASE RunSetProxy
  BY <1>0, <1>7, BoundsAssumption DEF RunSetProxy
<1>8. CASE Register \/ Notify \/ Relaunch
  BY <1>0, <1>8 DEF Register, Notify, Relaunch
<1>9. CASE Move
  BY <1>0, <1>9, BoundsAssumption DEF Move
<1>10. CASE OthersEdit
  BY <1>0, <1>10, BoundsAssumption DEF OthersEdit
<1>11. CASE UNCHANGED vars
  BY <1>0, <1>11 DEF vars
<1>. QED
  BY <1>1, <1>2, <1>3, <1>4, <1>5, <1>6, <1>7, <1>8, <1>9, <1>10, <1>11
  DEF Next, Update, Crankd, Save, Clients

\* Every variable keeps its type; in particular handle_sc_event calls the handler
\* at most twice for a notification.
THEOREM TypeCorrect == Spec => []TypeOK
<1>1. Init => TypeOK
  <2>1. Init => Types
    BY SoundInit DEF Sound
  <2>2. Init => /\ moves \in 0 .. MaxMoves /\ runs \in 0 .. MaxRuns /\ edits \in 0 .. MaxEdits
                /\ network \in Networks /\ phase = "boot" /\ attempt = 1 /\ protocol \in Protocols
    BY BoundsAssumption DEF Init, Protocols
  <2>3. Init => {queued, bare, reported, missed, overridden} \subseteq BOOLEAN
    BY Zenon DEF Init
  <2>. QED
    BY <2>1, <2>2, <2>3 DEF TypeOK, Types
<1>2. Sound' => Types'
  BY DEF Sound
<1>. QED
  BY <1>1, <1>2, SoundInit, SoundStep, TypeStep, PTL DEF Spec

\* Whatever both clients and others read, commit and apply in whatever order,
\* each commit sets one protocol of what is stored by then.
THEOREM PreferencesRefined == Spec => ImplementsPreferences
<1>1. Init => Store!Init
  BY DEF Init, Store!Init
<1>2. Sound /\ [Next]_vars => [Store!Next]_Store!vars
  <2> SUFFICES ASSUME Sound, [Next]_vars PROVE [Store!Next]_Store!vars
    OBVIOUS
  <2> USE DEF prefs, Store!vars, Store!Next
  <2>1. ASSUME NEW c \in Clients, Commit(c) PROVE Store!Commit
    <3>1. SetsOneProtocol(saved, edited[c])
      BY <2>1 DEF Commit, Sound
    <3>. QED
      BY <2>1, <3>1 DEF Commit, Store!Commit
  <2>2. ASSUME NEW c \in Clients, Apply(c) PROVE Store!Apply
    BY <2>2 DEF Apply, Store!Apply
  <2>3. CASE OthersEdit
    BY <2>3 DEF OthersEdit, Store!Apply
  <2>4. ASSUME NEW c \in Clients, SetProxy(c) \/ SetProxyFails(c) \/ CommitFails(c) \/ ApplyFails(c)
        PROVE UNCHANGED Store!vars
    BY <2>4 DEF SetProxy, ReadAndEdit, SetProxyFails, CommitFails, ApplyFails
  <2>5. CASE Resolve \/ ResolveFails \/ RunSetProxy \/ Register \/ Notify \/ Relaunch \/ Move
    BY <2>5 DEF Resolve, ResolveFails, RunSetProxy, Register, Notify, Relaunch, Move
  <2>6. CASE UNCHANGED vars
    BY <2>6 DEF vars
  <2>. QED
    BY <2>1, <2>2, <2>3, <2>4, <2>5, <2>6 DEF Next, Update, Crankd, Save, Clients
<1>. QED
  BY <1>1, <1>2, SoundInit, SoundStep, PTL DEF Spec, ImplementsPreferences, Store!Spec

-----------------------------------------------------------------------------
\* What the handler is about to save is what the network called for when it
\* looked, and nobody else's commit changes the SOCKS proxy, unless set-proxy was
\* run for it and had read what is stored.
Handler == "ProxyManager"
Follows ==
  /\ step["set-proxy"] = "commit" /\ ~Stale("set-proxy") =>
       protocol = "SOCKS" \/ edited["set-proxy"]["SOCKS"] = saved["SOCKS"]
  /\ step[Handler] = "commit" => edited[Handler]["SOCKS"] = new_state[Handler]
  /\ step[Handler] = "apply" => saved["SOCKS"] = new_state[Handler] \/ overridden
  /\ step[Handler] \in {"set", "commit", "apply"} /\ ~queued =>
       new_state[Handler] = Wanted(network) \/ missed

\* The step of the handler, or of set-proxy, leaves the other where it is.
LEMMA OneSteps ==
  ASSUME Types, NEW c \in Clients,
         Returns(c, TRUE) \/ Returns(c, FALSE) \/ Raises(c) \/ RaisesKeyError(c)
  PROVE  /\ \A d \in Clients \ {c} : step'[d] = step[d]
         /\ step'[c] \in {"idle", "resolve"}
         /\ c # Handler => UNCHANGED reported
         /\ c = Handler /\ step'[c] = "idle" => reported' \/ Returns(c, FALSE)
BY DEF Types, Returns, Raises, RaisesKeyError, Goto, Handler

\* set_proxy changes the one protocol of the settings it reads.
LEMMA FollowsSet ==
  ASSUME Sound, Follows, Settled, NEW c \in Clients, SetProxy(c)
  PROVE  Follows' /\ Settled'
<1>. DEFINE settings == [saved EXCEPT ![Protocol(c)] = new_state[c]]
<1>1. /\ edited' = [edited EXCEPT ![c] = settings]
      /\ step' = [step EXCEPT ![c] = "commit"] /\ step[c] = "set"
      /\ session' = [session EXCEPT ![c] = [settings |-> saved, signature |-> signature]]
      /\ UNCHANGED <<network, queued, protocol, new_state, saved, signature, active, reported,
                     missed, overridden>>
  BY DEF SetProxy, ReadAndEdit, Goto, prefs, history
<1>2. Types /\ saved \in [{"SOCKS", "HTTP"} -> BOOLEAN]
  BY DEF Sound, Types, Settings, Protocols
<1>3. CASE c = Handler
  <2>1. settings["SOCKS"] = new_state[Handler]
    BY <1>2, <1>3 DEF Protocol, Handler
  <2>2. /\ step'["set-proxy"] = step["set-proxy"] /\ edited'["set-proxy"] = edited["set-proxy"]
        /\ Stale("set-proxy")' <=> Stale("set-proxy")
        /\ step'[Handler] = "commit" /\ edited'[Handler] = settings
    BY <1>1, <1>2, <1>3 DEF Types, Clients, Handler, Stale
  <2>. QED
    BY <1>1, <1>3, <2>1, <2>2 DEF Follows, Settled, Handler, Wanted
<1>4. CASE c = "set-proxy"
  <2>1. protocol = "SOCKS" \/ settings["SOCKS"] = saved["SOCKS"]
    BY <1>2, <1>4 DEF Protocol
  <2>2. /\ step'[Handler] = step[Handler] /\ edited'[Handler] = edited[Handler]
        /\ edited'["set-proxy"] = settings
    BY <1>1, <1>2, <1>4 DEF Types, Clients, Handler
  <2>. QED
    BY <1>1, <2>1, <2>2 DEF Follows, Settled, Handler, Wanted
<1>. QED
  BY <1>3, <1>4 DEF Clients, Handler

\* A commit of the handler makes what set-proxy has read stale; one of set-proxy
\* leaves the SOCKS proxy as it is.
LEMMA FollowsCommit ==
  ASSUME Sound, Follows, Settled, NEW c \in Clients, Commit(c)
  PROVE  Follows' /\ Settled'
<1>1. /\ saved' = edited[c] /\ signature' = signature + 1
      /\ step' = [step EXCEPT ![c] = "apply"] /\ step[c] = "commit" /\ ~Stale(c)
      /\ UNCHANGED <<network, queued, protocol, new_state, session, edited, active, reported,
                     missed>>
  BY DEF Commit, Goto
<1>0. overridden' <=> Overrides(c)
  BY Zenon DEF Commit
<1>2. /\ Types /\ session["set-proxy"].signature \in Nat
      /\ session["set-proxy"].signature <= signature
  BY DEF Sound, Types, Clients
<1>3. Stale("set-proxy")'
  BY <1>1, <1>2 DEF Stale, Types
<1>4. CASE c = Handler
  BY <1>1, <1>2, <1>3, <1>4 DEF Follows, Settled, Handler, Wanted, Types, Clients
<1>5. CASE c = "set-proxy"
  <2>1. step'[Handler] = step[Handler] /\ (overridden => overridden')
    BY <1>0, <1>1, <1>2, <1>5 DEF Overrides, Handler, Types, Clients
  <2>2. saved'["SOCKS"] = saved["SOCKS"] \/ overridden'
    BY <1>0, <1>1, <1>2, <1>5 DEF Follows, Overrides, Protocol
  <2>. QED
    BY <1>1, <1>3, <2>1, <2>2 DEF Follows, Settled, Handler, Wanted
<1>. QED
  BY <1>4, <1>5 DEF Clients, Handler

\* The ends of a client's work: only an apply that succeeds reports nothing.
LEMMA FollowsEnds ==
  ASSUME Sound, Follows, Settled, NEW c \in Clients,
         SetProxyFails(c) \/ CommitFails(c) \/ Apply(c) \/ ApplyFails(c)
  PROVE  Follows' /\ Settled'
<1>1. /\ UNCHANGED <<network, queued, protocol, new_state, session, edited, saved, signature,
                     missed, overridden>>
      /\ Returns(c, TRUE) \/ Returns(c, FALSE) \/ RaisesKeyError(c)
      /\ active' \in {active, saved}
  BY DEF SetProxyFails, CommitFails, Apply, ApplyFails, prefs
<1>2. Types
  BY DEF Sound
<1>3. /\ \A d \in Clients \ {c} : step'[d] = step[d]
      /\ step'[c] \in {"idle", "resolve"}
      /\ c # Handler => UNCHANGED reported
      /\ c = Handler /\ step'[c] = "idle" => reported' \/ Returns(c, FALSE)
  BY <1>1, <1>2, OneSteps
<1>4. \A d \in Clients : Stale(d)' <=> Stale(d)
  BY <1>1 DEF Stale
<1>5. Follows'
  BY <1>1, <1>3, <1>4 DEF Follows, Handler, Clients, Wanted
<1>6. Settled'
  <2>1. CASE c = Handler
    <3>1. ASSUME step'[Handler] = "idle", ~queued', ~reported', ~missed', ~overridden'
          PROVE  saved'["SOCKS"] = Wanted(network') /\ active'["SOCKS"] = Wanted(network')
      <4>1. Apply(c) /\ step[Handler] = "apply" /\ active' = saved
        BY <1>3, <2>1, <3>1 DEF SetProxyFails, CommitFails, Apply, ApplyFails, Returns, RaisesKeyError, Raises, Handler
      <4>. QED
        BY <1>1, <3>1, <4>1 DEF Follows, Wanted
    <3>. QED
      BY <3>1 DEF Settled, Handler, Wanted
  <2>2. CASE c = "set-proxy"
    BY <1>1, <1>3, <2>2 DEF Settled, Handler, Wanted, Clients
  <2>. QED
    BY <2>1, <2>2 DEF Clients, Handler
<1>. QED
  BY <1>5, <1>6

LEMMA FollowsStep == Sound /\ Follows /\ Settled /\ [Next]_vars => Follows' /\ Settled'
<1>. SUFFICES ASSUME Sound, Follows, Settled, [Next]_vars PROVE Follows' /\ Settled'
  OBVIOUS
<1>1. ASSUME NEW c \in Clients, Save(c) PROVE Follows' /\ Settled'
  BY <1>1, FollowsSet, FollowsCommit, FollowsEnds DEF Save
<1>2. Types /\ \A c \in Clients : session[c].signature \in Nat /\ session[c].signature <= signature
  BY DEF Sound, Types
<1>. USE DEF prefs, clients, history, bounds, Goto, Handler
<1>3. CASE Resolve
  BY <1>2, <1>3 DEF Resolve, Follows, Settled, Stale, Wanted, Types, Clients
<1>4. CASE ResolveFails
  BY <1>2, <1>4, OneSteps DEF ResolveFails, Raises, Follows, Settled, Stale, Wanted, Types, Clients
<1>5. CASE RunSetProxy
  BY <1>2, <1>5 DEF RunSetProxy, Follows, Settled, Stale, Wanted, Types, Clients
<1>6. CASE Notify \/ Relaunch
  BY <1>2, <1>6 DEF Notify, Relaunch, Follows, Settled, Stale, Wanted, Types, Clients
<1>7. CASE Register
  BY <1>7 DEF Register, Follows, Settled, Stale, Wanted
<1>8. CASE Move
  BY <1>8 DEF Move, Follows, Settled, Stale, Wanted
<1>9. CASE OthersEdit
  <2>1. \A c \in Clients : Stale(c)'
    BY <1>2, <1>9 DEF OthersEdit, Stale, Sound, Types
  <2>. QED
    BY <1>9, <2>1 DEF OthersEdit, Follows, Settled, Wanted, Clients
<1>10. CASE UNCHANGED vars
  BY <1>10 DEF vars, Follows, Settled, Stale, Wanted
<1>. QED
  BY <1>1, <1>3, <1>4, <1>5, <1>6, <1>7, <1>8, <1>9, <1>10 DEF Next, Update, Crankd, Clients

\* Between two updates the proxy follows the network, however the steps of the
\* handler, set-proxy, other programs and crankd's end and start are mixed.
THEOREM SettledHolds == Spec => []Settled
<1>1. Init => Follows /\ Settled
  BY DEF Init, Follows, Settled, Handler, Clients
<1>. QED
  BY <1>1, SoundInit, SoundStep, FollowsStep, PTL DEF Spec
=============================================================================
