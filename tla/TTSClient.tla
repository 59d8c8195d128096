------------------------------- MODULE TTSClient -------------------------------
(***************************************************************************)
(* The facade (ttsclient/TTSClient.cpp): which backend a process gets, and *)
(* the mutex under which clients are created.  Everything else forwards to *)
(* the backend's client.  The two backends composed here share nothing but *)
(* the process; the JSON-RPC backend is modelled by SpeechClient and       *)
(* ThunderService.                                                         *)
(***************************************************************************)
EXTENDS ComService, FireboltService

CONSTANT Environments  \* the configurations a process may be started in

VARIABLE backend       \* the client's m_priv: the same for all of them

\* What a configured name selects: strncasecmp() looks at its first letters.
BackendNamed(name) ==
  CASE name = "comrpc" -> "COM" [] name = "firebolt" -> "FIREBOLT" [] OTHER -> "JSON"

\* getTTSBackend(): TTS_DEFAULT_BACKEND, TTS_CLIENT_BACKEND and
\* TTS_USE_THUNDER_CLIENT, each of them "unset" or a name.  The two
\* variables are read once and kept.
GetTTSBackend(env) ==
  IF env.thunder # "unset" THEN "JSON"
  ELSE BackendNamed(IF env.backend # "unset" THEN env.backend ELSE env.default)

Init ==
  /\ \E env \in Environments : backend = GetTTSBackend(env)
  /\ backend \in {"COM", "FIREBOLT"}
  /\ ClientsInit /\ ComInit /\ FireboltInit

vars == <<backend, baseVars, comVars, fireboltVars>>

\* create() holds a mutex while it constructs a client.
NobodyConstructs == \A a \in Apps : op[a] # "construct"

ComNext ==
  \/ \E a \in Apps : (NobodyConstructs /\ ComCreate(a)) \/ ComGoesOn(a) \/ ComCalls(a)
  \/ ComDispatch \/ ComEngine

FireboltNext ==
  \/ \E a \in Apps : (NobodyConstructs /\ FireboltCreate(a)) \/ FireboltGoesOn(a) \/ FireboltCalls(a)
  \/ \E h \in Pool : FireboltDispatch(h)
  \/ FireboltEngine

\* The applications are done with their clients.
AllDeleted == (\A a \in Apps : pc[a] = "dead") /\ UNCHANGED vars

Next ==
  \/ backend = "COM" /\ ComNext /\ UNCHANGED <<backend, fireboltVars>>
  \/ backend = "FIREBOLT" /\ FireboltNext /\ UNCHANGED <<backend, comVars>>
  \/ AllDeleted

Spec == Init /\ [][Next]_vars

TypeOK == ClientsTypeOK /\ ComTypeOK /\ FireboltTypeOK /\ backend \in {"COM", "FIREBOLT"}

--------------------------------------------------------------------------------
(* Properties. *)

\* Over COM-RPC, whoever sends a request has a remote object to send it to,
\* although isActive() reads m_initialized without m_mutex.
RemoteWhenUsed == backend = "COM" => \A a \in Apps : pc[a] = "wait" => remote # 0

\* Once a connection is made, by whatever call, and m_mutex released again,
\* the backend has asked for every event, unless a thread is about to: what
\* it does not hear then was refused by the plugin or the SDK, and not lost
\* to a race.
ConnectedHasAsked ==
  active /\ mutex = None /\ (\A a \in Apps : pc[a] \notin {"regSet", "regCall"}) =>
    IF backend = "COM" THEN registered # "unasked" ELSE Asked

--------------------------------------------------------------------------------
(* The inductive invariant behind them, next to IndInv. *)

\* The part of initialize() that is under m_mutex, whoever calls it.
Linking == {"open", "linked", "opened", "notify"}
LinkingHolds == \A a \in Apps : pc[a] \in Linking => mutex = a

\* A request is sent, and a destructor calls abort(), only if isActive().
RequestsAreActive ==
  \A a \in Apps : pc[a] = "wait" \/ (op[a] = "dtor" /\ pc[a] \in {"init", "call"} \cup Inside) => active

\* Where the COM-RPC service stands between Open() and m_initialized, and
\* between m_registeredSpeechEventHandlers and the registration.
ComLinks ==
  /\ opened + attempts = InitAttempts /\ remote \in {0, opened}
  /\ \A a \in Apps : (pc[a] = "open" => opened > 0) /\ (pc[a] = "linked" => remote # 0)
  /\ active => remote # 0
  /\ remote # 0 /\ ~active => \E a \in Apps : pc[a] = "linked"
  /\ active /\ ~flag => \E a \in Apps : pc[a] \in {"opened", "regSet"}
  /\ flag /\ registered = "unasked" => \E a \in Apps : pc[a] = "regCall"

\* The COM-RPC service is not used; the subscriptions follow m_initialized.
FireboltLinks ==
  /\ opened = 0 /\ attempts = InitAttempts /\ remote = 0
  /\ \A a \in Apps : pc[a] = "opened" => active
  /\ active /\ ~Asked => \E a \in Apps : pc[a] = "opened"

ServicesInv ==
  /\ backend \in {"COM", "FIREBOLT"} /\ ComTypeOK /\ FireboltTypeOK
  /\ LinkingHolds /\ RequestsAreActive
  /\ backend = "COM" => ComLinks
  /\ backend = "FIREBOLT" => FireboltLinks
================================================================================
