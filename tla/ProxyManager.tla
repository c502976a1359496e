---------------------------- MODULE ProxyManager ----------------------------
(***************************************************************************)
(* The socks-proxy handler under crankd and the program set-proxy, which   *)
(* change the proxies of all network services through SCPreferences.       *)
(*                                                                         *)
(* The handler enables the SOCKS proxy according to the network the        *)
(* machine is on, once from its constructor, while crankd is still         *)
(* registering, and then at every notification that the address changed.   *)
(* Each client reads all settings into a session of its own, changes,      *)
(* commits and applies them, with the other one's steps in between.        *)
(***************************************************************************)
EXTENDS Naturals

CONSTANTS
  MaxMoves,      \* bound: changes of network
  MaxRuns,       \* bound: runs of set-proxy
  MaxEdits       \* bound: services added or removed by others

ASSUME BoundsAssumption == {MaxMoves, MaxRuns, MaxEdits} \subseteq Nat

Networks == {"office", "away"}
Clients == {"ProxyManager", "set-proxy"}
Protocols == {"SOCKS", "HTTP"}   \* set-proxy knows FTP as well, as it does HTTP
Settings == [Protocols -> BOOLEAN]

VARIABLES
  network,     \* where the host's address puts the machine
  queued,      \* configd holds a change of the address for crankd
  phase,       \* "boot": the constructor runs; "register"; "serve"; "down"
  attempt,     \* which loop of handle_sc_event called the handler
  protocol,    \* the --protocol that set-proxy was run with
  step,        \* [Clients -> where it is]
  new_state,   \* [Clients -> enable the proxy?]
  session,     \* [Clients -> settings and signature as the session read them]
  edited,      \* [Clients -> the settings the session would commit]
  saved,       \* committed settings
  signature,   \* changes with every commit
  active,      \* settings in effect
  bare,        \* some service has no Proxies dictionary
  reported,    \* the handler's last update logged an error or raised
  missed,      \* the network changed, unreported, since the handler looked at it
  overridden,  \* set-proxy has changed the SOCKS proxy since the handler saved it
  moves, runs, edits

prefs == <<saved, signature, active, bare>>
clients == <<protocol, step, new_state, session, edited>>
history == <<reported, missed, overridden>>
bounds == <<moves, runs, edits>>
vars == <<network, queued, phase, attempt, clients, prefs, history, bounds>>

\* startswith('10.0.1.') is the office; the proxy is for everywhere else.
Wanted(n) == n # "office"

\* The handler always changes SOCKS.
Protocol(c) == IF c = "ProxyManager" THEN "SOCKS" ELSE protocol

Init ==
  /\ network \in Networks
  /\ queued = FALSE
  /\ phase = "boot" /\ attempt = 1
  /\ protocol = "HTTP"
  /\ step = [c \in Clients |-> IF c = "ProxyManager" THEN "resolve" ELSE "idle"]
  /\ new_state = [c \in Clients |-> FALSE]
  /\ saved \in Settings /\ active = saved /\ signature = 0
  /\ session = [c \in Clients |-> [settings |-> saved, signature |-> 0]]
  /\ edited = [c \in Clients |-> saved]
  /\ bare = FALSE
  /\ reported = FALSE /\ missed = FALSE /\ overridden = FALSE
  /\ moves = 0 /\ runs = 0 /\ edits = 0

Goto(c, where) == step' = [step EXCEPT ![c] = where]

-----------------------------------------------------------------------------
(* The end of a client's work.                                             *)

\* save has returned, or its RuntimeError was logged (the handler) or printed
\* (set-proxy). The constructor's return lets add_sc_notifications go on.
Returns(c, failed) ==
  /\ Goto(c, "idle")
  /\ IF c = "ProxyManager"
       THEN /\ reported' = failed
            /\ phase' = IF phase = "boot" THEN "register" ELSE phase
       ELSE UNCHANGED <<phase, reported>>
  /\ UNCHANGED attempt

\* Another exception ends set-proxy, and a crankd that is starting; in the run
\* loop PyObjC may or may not end it.
Raises(c) ==
  /\ Goto(c, "idle")
  /\ IF c = "ProxyManager"
       THEN /\ reported' = TRUE
            /\ phase' \in {"down"} \cup (IF phase = "serve" THEN {"serve"} ELSE {})
       ELSE UNCHANGED <<phase, reported>>
  /\ UNCHANGED attempt

\* handle_sc_event takes the handler's KeyError for a missing name and calls
\* the handler again from its regex loop, where nothing catches it.
RaisesKeyError(c) ==
  IF c = "ProxyManager" /\ phase = "serve" /\ attempt = 1
    THEN Goto(c, "resolve") /\ attempt' = 2 /\ UNCHANGED <<phase, reported>>
    ELSE Raises(c)

-----------------------------------------------------------------------------
(* update_proxy_settings, and main of set-proxy: a new session each time,  *)
(* which has read nothing yet.                                             *)

\* The handler looks its address up now.
Resolve ==
  /\ step["ProxyManager"] = "resolve"
  /\ new_state' = [new_state EXCEPT !["ProxyManager"] = Wanted(network)]
  /\ missed' = FALSE
  /\ Goto("ProxyManager", "set")
  /\ UNCHANGED <<network, queued, phase, attempt, protocol, session, edited, prefs, reported,
                 overridden, bounds>>

\* gaierror, which is not caught.
ResolveFails ==
  /\ step["ProxyManager"] = "resolve"
  /\ Raises("ProxyManager")
  /\ UNCHANGED <<network, queued, protocol, new_state, session, edited, prefs, missed,
                 overridden, bounds>>

\* set-proxy starts, with valid options, for any of the protocols.
RunSetProxy ==
  /\ step["set-proxy"] = "idle" /\ runs < MaxRuns
  /\ runs' = runs + 1
  /\ protocol' \in Protocols
  /\ \E enable \in BOOLEAN : new_state' = [new_state EXCEPT !["set-proxy"] = enable]
  /\ Goto("set-proxy", "set")
  /\ UNCHANGED <<network, queued, phase, attempt, session, edited, prefs, history, moves, edits>>

\* The session reads all settings; it would commit new ones.
ReadAndEdit(c, settings) ==
  /\ step[c] = "set" /\ ~bare
  /\ session' = [session EXCEPT ![c] = [settings |-> saved, signature |-> signature]]
  /\ edited' = [edited EXCEPT ![c] = settings]
  /\ Goto(c, "commit")
  /\ UNCHANGED <<network, queued, phase, attempt, protocol, new_state, prefs, history, bounds>>

\* Mutant: the settings are built anew instead of changed.
SetProxyAnew(c) == ReadAndEdit(c, [p \in Protocols |-> p = Protocol(c) /\ new_state[c]])

\* set_proxy: the first access reads the preferences; every service changes.
SetProxy(c) == ReadAndEdit(c, [saved EXCEPT ![Protocol(c)] = new_state[c]])

\* new_settings[interface]['Proxies'] is a KeyError, not a RuntimeError.
SetProxyFails(c) ==
  /\ step[c] = "set" /\ bare
  /\ RaisesKeyError(c)
  /\ UNCHANGED <<network, queued, protocol, new_state, session, edited, prefs, missed,
                 overridden, bounds>>

\* save: the configuration daemon refuses a commit on top of settings that
\* changed since the session read them.
Stale(c) == session[c].signature # signature

\* The last change of the SOCKS proxy is a commit of set-proxy for SOCKS.
Overrides(c) ==
  /\ c = "set-proxy"
  /\ \/ overridden
     \/ Protocol(c) = "SOCKS" /\ edited[c]["SOCKS"] # saved["SOCKS"]

\* Mutant: nobody compares signatures.
CommitUnchecked(c) ==
  /\ step[c] = "commit"
  /\ saved' = edited[c] /\ signature' = signature + 1
  /\ overridden' = Overrides(c)
  /\ Goto(c, "apply")
  /\ UNCHANGED <<network, queued, phase, attempt, protocol, new_state, session, edited, active,
                 bare, reported, missed, bounds>>

Commit(c) ==
  /\ step[c] = "commit" /\ ~Stale(c)
  /\ saved' = edited[c] /\ signature' = signature + 1
  /\ overridden' = Overrides(c)
  /\ Goto(c, "apply")
  /\ UNCHANGED <<network, queued, phase, attempt, protocol, new_state, session, edited, active,
                 bare, reported, missed, bounds>>

\* That, or no permission: RuntimeError, and no second try.
CommitFails(c) ==
  /\ step[c] = "commit"
  /\ Returns(c, TRUE)
  /\ UNCHANGED <<network, queued, protocol, new_state, session, edited, prefs, missed,
                 overridden, bounds>>

\* Apply puts into effect whatever is committed by then.
Apply(c) ==
  /\ step[c] = "apply"
  /\ active' = saved
  /\ Returns(c, FALSE)
  /\ UNCHANGED <<network, queued, protocol, new_state, session, edited, saved, signature, bare,
                 missed, overridden, bounds>>

\* Mutant: the result of SCPreferencesApplyChanges is not looked at.
ApplyFailsSilently(c) ==
  /\ step[c] = "apply"
  /\ Returns(c, FALSE)
  /\ UNCHANGED <<network, queued, protocol, new_state, session, edited, prefs, missed,
                 overridden, bounds>>

ApplyFails(c) ==
  /\ step[c] = "apply"
  /\ Returns(c, TRUE)
  /\ UNCHANGED <<network, queued, protocol, new_state, session, edited, prefs, missed,
                 overridden, bounds>>

-----------------------------------------------------------------------------
(* crankd and the surroundings.                                            *)

\* SCDynamicStoreSetNotificationKeys, after the handlers have been built: what
\* changed before is not reported any more.
Register ==
  /\ phase = "register"
  /\ phase' = "serve"
  /\ UNCHANGED <<network, queued, attempt, clients, prefs, history, bounds>>

\* The notification reaches update_proxy_settings through handle_sc_event, the
\* first of whose loops calls the handler.
Notify ==
  /\ phase = "serve" /\ step["ProxyManager"] = "idle" /\ queued
  /\ queued' = FALSE
  /\ Goto("ProxyManager", "resolve") /\ attempt' = 1
  /\ UNCHANGED <<network, phase, protocol, new_state, session, edited, prefs, history, bounds>>

\* configd reports a change to a session that has registered for it.
Move ==
  /\ moves < MaxMoves
  /\ network' \in Networks \ {network}
  /\ queued' = (queued \/ phase = "serve")
  /\ missed' = (missed \/ phase # "serve")
  /\ moves' = moves + 1
  /\ UNCHANGED <<phase, attempt, clients, prefs, reported, overridden, runs, edits>>

\* The Network pane adds or removes a service without proxies, and applies.
OthersEdit ==
  /\ edits < MaxEdits
  /\ edits' = edits + 1
  /\ bare' = ~bare
  /\ signature' = signature + 1
  /\ active' = saved
  /\ UNCHANGED <<network, queued, phase, attempt, clients, saved, history, moves, runs>>

\* launchd restarts crankd, whose session with configd is gone.
Relaunch ==
  /\ phase = "down"
  /\ phase' = "boot" /\ attempt' = 1 /\ queued' = FALSE
  /\ Goto("ProxyManager", "resolve")
  /\ UNCHANGED <<network, protocol, new_state, session, edited, prefs, history, bounds>>

Save(c) == SetProxy(c) \/ SetProxyFails(c) \/ Commit(c) \/ CommitFails(c) \/ Apply(c) \/ ApplyFails(c)
Update == Resolve \/ ResolveFails \/ Save("ProxyManager")
Crankd == Register \/ Notify \/ Relaunch

Next == Update \/ Crankd \/ RunSetProxy \/ Save("set-proxy") \/ Move \/ OthersEdit

\* The handler runs to its end, crankd's run loop delivers what waits for it,
\* and launchd keeps crankd alive; set-proxy may stop anywhere.
Fairness == WF_vars(Update) /\ WF_vars(Crankd)

Spec == Init /\ [][Next]_vars
FairSpec == Spec /\ Fairness

-----------------------------------------------------------------------------
\* The variables keep their types; in particular handle_sc_event calls the
\* handler at most twice for a notification.
TypeOK ==
  /\ network \in Networks /\ phase \in {"boot", "register", "serve", "down"}
  /\ attempt \in {1, 2} /\ protocol \in Protocols
  /\ step \in [Clients -> {"idle", "resolve", "set", "commit", "apply"}]
  /\ new_state \in [Clients -> BOOLEAN]
  /\ session \in [Clients -> [settings : Settings, signature : Nat]]
  /\ edited \in [Clients -> Settings]
  /\ {saved, active} \subseteq Settings /\ signature \in Nat
  /\ {queued, bare, reported, missed, overridden} \subseteq BOOLEAN
  /\ moves \in 0 .. MaxMoves /\ runs \in 0 .. MaxRuns /\ edits \in 0 .. MaxEdits

\* Whenever the handler is not at work and no notification waits for it, what is
\* saved and what is in effect are as the network calls for, whatever set-proxy
\* and the others are in the middle of; with the exceptions of FollowsNetwork. A
\* run of set-proxy for another protocol is none of them.
Settled ==
  step["ProxyManager"] = "idle" /\ ~queued =>
    \/ saved["SOCKS"] = Wanted(network) /\ active["SOCKS"] = Wanted(network)
    \/ reported \/ missed \/ overridden

\* The proxy ends up as the network calls for, however often the machine moves
\* and whatever a move meets (handlers running, a callback waiting, a commit of
\* set-proxy, a crash), unless the last update logged an error, the network
\* changed between the constructor's look at it and the registration, or set-proxy
\* was run for the SOCKS proxy itself, which nothing but a later move undoes.
FollowsNetwork ==
  <>[](active["SOCKS"] = Wanted(network) \/ reported \/ missed \/ overridden)

\* A commit sets one protocol, for all services. A client writes back all settings
\* as it has read them: committed, they are those stored now but for its protocol,
\* so it never undoes what the other client has committed meanwhile.
SetsOneProtocol(before, after) ==
  \E p \in Protocols : \E enable \in BOOLEAN : after = [before EXCEPT ![p] = enable]

Store == INSTANCE Preferences WITH Transaction <- SetsOneProtocol

\* The clients implement Preferences.
ImplementsPreferences == Store!Spec
=============================================================================
