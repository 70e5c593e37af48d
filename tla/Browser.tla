-------------------------------- MODULE Browser --------------------------------
(***************************************************************************)
(* The browser connector (connector/browser/): a connection to Chrome over *)
(* its DevTools protocol, a goroutine that renews it, a cache of sessions  *)
(* for the tabs, and the tools that use them (app/server.go wires them).   *)
(*                                                                         *)
(* Connector.mu covers the whole of a connection's making, but the tools   *)
(* read Connector.client without it, at every request anew; a client that  *)
(* ends calls back later, and whoever enables or disables the connector    *)
(* writes its file after the lock.                                         *)
(*                                                                         *)
(* Chrome is external: it may be reachable or not, answer a request or     *)
(* not, and end a connection at any time.  What pages hold is left out.    *)
(***************************************************************************)
EXTENDS Integers

CONSTANTS
  Goroutines,    \* those of the API's handlers, of the agents' tools and of the start
  MaxClients,    \* bound: connections that exist, or that something still refers to
  MaxPollers,    \* bound: goroutines of poll at one time
  Nobody

Clients == 1 .. MaxClients
Pollers == 1 .. MaxPollers

ASSUME BrowserAssumption ==
  /\ Nobody \notin Goroutines \cup Pollers /\ Goroutines \cap Pollers = {}
  /\ MaxClients \in Nat \ {0} /\ MaxPollers \in Nat \ {0}

VARIABLES
  enabled,      \* Connector.config.Enabled
  file,         \* the same in browser_connector.yaml
  mu,           \* who holds Connector.mu over a slow step, or Nobody
  client,       \* Connector.client, 0 for nil
  connected,    \* Connector.connected
  conn,         \* client |-> its connection
  closers,      \* clients that a goroutine is about to close
  poller,       \* the poll goroutine of Connector.pollDone, 0 for none
  poll,         \* poll goroutine |-> where it stands
  session,      \* sessionCache, for one tab: the client that the session was opened on
  thread,       \* goroutine |-> where it stands
  crossed       \* history: was an attachment under way when the connection changed?

setting == <<enabled, file>>
link == <<mu, client, connected, conn, closers>>
polling == <<poller, poll>>
cache == <<session, crossed>>
browserVars == <<setting, link, polling, cache, thread>>

Thread == [at : {"idle", "enable", "version", "close", "save", "write",
                 "list", "attach", "act"},
           sent : 0 .. MaxClients,    \* the client whose answer is awaited
           held : 0 .. MaxClients,    \* the client to close, or that the session was opened on
           value : BOOLEAN]           \* what was read of the setting
Idle == [at |-> "idle", sent |-> 0, held |-> 0, value |-> FALSE]

\* The types, and the lock is held over a question for Chrome's version only.
BrowserTypeOK ==
  /\ enabled \in BOOLEAN /\ file \in BOOLEAN
  /\ mu \in Goroutines \cup Pollers \cup {Nobody}
  /\ client \in 0 .. MaxClients
  /\ connected \in BOOLEAN
  /\ conn \in [Clients -> {"none", "open", "closed"}]
  /\ closers \in SUBSET Clients
  /\ poller \in 0 .. MaxPollers
  /\ poll \in [Pollers -> {"none", "waiting", "ticked", "version"}]
  /\ session \in 0 .. MaxClients
  /\ thread \in [Goroutines -> Thread]
  /\ crossed \in BOOLEAN
  /\ mu \in Goroutines => thread[mu].at = "version"
  /\ mu \in Pollers => poll[mu] = "version"

\* The start enables the connector, in a goroutine, when its file says so.
Booting(on) ==
  IF on THEN {[u \in Goroutines |-> IF u = t THEN [Idle EXCEPT !.at = "enable"] ELSE Idle] : t \in Goroutines}
  ELSE {[t \in Goroutines |-> Idle]}

BrowserInit ==
  /\ file \in BOOLEAN
  /\ enabled = file
  /\ mu = Nobody /\ client = 0 /\ connected = FALSE
  /\ conn = [k \in Clients |-> "none"] /\ closers = {}
  /\ poller = 0 /\ poll = [p \in Pollers |-> "none"]
  /\ session = 0 /\ crossed = FALSE
  /\ thread \in Booting(file)

-----------------------------------------------------------------------------
(* The connection.                                                         *)

Go(t, at) == thread' = [thread EXCEPT ![t].at = at]
Ends(t) == thread' = [thread EXCEPT ![t] = Idle]
Free == mu = Nobody

Attaching == \E t \in Goroutines : thread[t].at = "attach" /\ thread[t].sent # 0

\* A name for a new connection: nothing refers to one that had it.
Fresh(k) ==
  /\ conn[k] = "none" /\ k \notin {client, session} \cup closers
  /\ \A t \in Goroutines : k \notin {thread[t].sent, thread[t].held}

\* Mutant: the sessions of the connection before are kept.
ConnectKeepingSessions ==
  \E k \in Clients :
    /\ Fresh(k) /\ \A j \in Clients : Fresh(j) => k <= j
    /\ conn' = [conn EXCEPT ![k] = "open"]
    /\ closers' = IF client # 0 THEN closers \cup {client} ELSE closers
    /\ client' = k /\ connected' = TRUE
    /\ session' = session
    /\ crossed' = Attaching

\* connectLocked up to the question for Chrome's version: the client before is closed
\* by a goroutine, and its sessions are forgotten.
Connect ==
  \E k \in Clients :
    /\ Fresh(k) /\ \A j \in Clients : Fresh(j) => k <= j
    /\ conn' = [conn EXCEPT ![k] = "open"]
    /\ closers' = IF client # 0 THEN closers \cup {client} ELSE closers
    /\ client' = k /\ connected' = TRUE
    /\ session' = 0
    /\ crossed' = Attaching

\* Chrome ends the connection, or quits.
Drop(k) ==
  /\ conn[k] = "open"
  /\ conn' = [conn EXCEPT ![k] = "closed"]
  /\ UNCHANGED <<setting, mu, client, connected, closers, polling, cache, thread>>

\* The goroutine that closes a client that was replaced.
Close(k) ==
  /\ k \in closers
  /\ closers' = closers \ {k}
  /\ conn' = [conn EXCEPT ![k] = IF @ = "open" THEN "closed" ELSE @]
  /\ UNCHANGED <<setting, mu, client, connected, polling, cache, thread>>

\* The read loop ends and calls back, whichever client is the current one.
OnClose(k) ==
  /\ conn[k] = "closed" /\ Free
  /\ conn' = [conn EXCEPT ![k] = "none"]
  /\ connected' = FALSE
  /\ UNCHANGED <<setting, mu, client, closers, polling, cache, thread>>

-----------------------------------------------------------------------------
(* Polling.                                                                *)

\* startPollingLocked: the goroutine before is told to end.
StartPolling ==
  \E p \in Pollers :
    /\ poll[p] = "none" /\ \A q \in Pollers : poll[q] = "none" => p <= q
    /\ poller' = p
    /\ poll' = [poll EXCEPT ![p] = "waiting"]

\* The ticker fires.  That a goroutine which is told to end takes a tick that is already
\* there is this step before it is told.
Tick(p) ==
  /\ poll[p] = "waiting" /\ p = poller
  /\ poll' = [poll EXCEPT ![p] = "ticked"]
  /\ UNCHANGED <<setting, link, poller, cache, thread>>

PollEnds(p) ==
  /\ poll[p] = "waiting" /\ p # poller
  /\ poll' = [poll EXCEPT ![p] = "none"]
  /\ UNCHANGED <<setting, link, poller, cache, thread>>

\* With the lock: connect when not connected, whether or not it has been told to end.
Reconnect(p, reachable) ==
  /\ poll[p] = "ticked" /\ Free
  /\ IF connected \/ ~reachable
     THEN /\ poll' = [poll EXCEPT ![p] = "waiting"]
          /\ UNCHANGED <<link, cache>>
     ELSE /\ Connect
          /\ mu' = p
          /\ poll' = [poll EXCEPT ![p] = "version"]
  /\ UNCHANGED <<setting, poller, thread>>

\* Mutant: a branch that forgets to unlock.
ReconnectEndsLocked(p) ==
  /\ poll[p] = "version"
  /\ mu' = p
  /\ poll' = [poll EXCEPT ![p] = "waiting"]
  /\ UNCHANGED <<setting, client, connected, conn, closers, poller, cache, thread>>

\* The version is known, or was refused: unlock.  (The callback gives the agent its list
\* of tools, which is left out.)
ReconnectEnds(p) ==
  /\ poll[p] = "version"
  /\ mu' = Nobody
  /\ poll' = [poll EXCEPT ![p] = "waiting"]
  /\ UNCHANGED <<setting, client, connected, conn, closers, poller, cache, thread>>

-----------------------------------------------------------------------------
(* Enable and Disable.                                                     *)

EnableRequest(t) ==
  /\ thread[t] = Idle
  /\ Go(t, "enable")
  /\ UNCHANGED <<setting, link, polling, cache>>

\* Enable: a browser that is not reachable is left to the polling.
Enable(t, reachable) ==
  /\ thread[t].at = "enable" /\ Free
  /\ enabled' = TRUE
  /\ IF reachable
     THEN Connect /\ mu' = t /\ Go(t, "version") /\ UNCHANGED polling
     ELSE StartPolling /\ Go(t, "save") /\ UNCHANGED <<link, cache>>
  /\ UNCHANGED file

Enabled(t) ==
  /\ thread[t].at = "version"
  /\ mu' = Nobody
  /\ StartPolling
  /\ Go(t, "save")
  /\ UNCHANGED <<setting, client, connected, conn, closers, cache>>

\* Mutant: the client is dropped without being closed.
DisableWithoutClose(t) ==
  /\ thread[t] = Idle /\ Free
  /\ enabled' = FALSE
  /\ poller' = 0
  /\ client' = 0 /\ connected' = FALSE
  /\ session' = 0 /\ crossed' = Attaching
  /\ thread' = [thread EXCEPT ![t].at = "save"]
  /\ UNCHANGED <<file, mu, conn, closers, poll>>

\* Disable, up to the unlock.
Disable(t) ==
  /\ thread[t] = Idle /\ Free
  /\ enabled' = FALSE
  /\ poller' = 0
  /\ client' = 0 /\ connected' = FALSE
  /\ session' = 0 /\ crossed' = Attaching
  /\ thread' = [thread EXCEPT ![t].at = IF client = 0 THEN "save" ELSE "close", ![t].held = client]
  /\ UNCHANGED <<file, mu, conn, closers, poll>>

Disabled(t) ==
  /\ thread[t].at = "close"
  /\ conn' = [conn EXCEPT ![thread[t].held] = IF @ = "open" THEN "closed" ELSE @]
  /\ thread' = [thread EXCEPT ![t].at = "save", ![t].held = 0]
  /\ UNCHANGED <<setting, mu, client, connected, closers, polling, cache>>

\* saveConfig reads the setting under the lock, and writes the file outside of it; an
\* error is the caller's.
ReadConfig(t) ==
  /\ thread[t].at = "save" /\ Free
  /\ thread' = [thread EXCEPT ![t].at = "write", ![t].value = enabled]
  /\ UNCHANGED <<setting, link, polling, cache>>

SaveConfig(t, ok) ==
  /\ thread[t].at = "write"
  /\ file' = IF ok THEN thread[t].value ELSE file
  /\ Ends(t)
  /\ UNCHANGED <<enabled, link, polling, cache>>

-----------------------------------------------------------------------------
(* The tools.                                                              *)

\* Executor.Execute asks whether the connector is enabled, Connector.Execute whether it
\* is connected.
Execute(t) ==
  /\ thread[t] = Idle /\ Free /\ enabled /\ connected
  /\ Go(t, "list")
  /\ UNCHANGED <<setting, link, polling, cache>>

\* Client.Send: a request over what is the client now.  Without a client the call panics
\* (Panic): the recovery of HTTP ends the request.
Send(t) ==
  /\ thread[t].at \in {"list", "attach", "act"} /\ thread[t].sent = 0
  /\ thread' = [thread EXCEPT ![t] = IF client = 0 THEN Idle ELSE [@ EXCEPT !.sent = client]]
  /\ UNCHANGED <<setting, link, polling, cache>>

\* The connection is closed, or the answer is late: its entry in pending is removed, and
\* the tool ends, or goes on, as a screenshot does without the pixel ratio.
Fails(t, goesOn) ==
  /\ thread[t].sent # 0
  /\ IF goesOn /\ thread[t].at = "act" THEN thread' = [thread EXCEPT ![t].sent = 0] ELSE Ends(t)
  /\ UNCHANGED <<setting, link, polling, cache>>

Answered(t) == thread[t].sent # 0 /\ conn[thread[t].sent] = "open"

\* The targets are listed, or a new one is created, and the tab is looked up by its
\* prefix.  A tool that lists ends here; one that closes a tab sends another request
\* without a session.
Listed(t, again) ==
  /\ thread[t].at = "list" /\ Answered(t)
  /\ thread' = [thread EXCEPT ![t] = IF again THEN [@ EXCEPT !.sent = 0] ELSE Idle]
  /\ UNCHANGED <<setting, link, polling, cache>>

\* getSession: the tab's session when there is one, or else attach to it.
GetSession(t) ==
  /\ thread[t].at = "list" /\ Answered(t)
  /\ thread' = [thread EXCEPT ![t] = [@ EXCEPT !.at = IF session # 0 THEN "act" ELSE "attach",
                                               !.held = session, !.sent = 0]]
  /\ UNCHANGED <<setting, link, polling, cache>>

AttachToTarget(t) ==
  /\ thread[t].at = "attach" /\ Answered(t)
  /\ session' = thread[t].sent
  /\ thread' = [thread EXCEPT ![t].at = "act", ![t].held = session', ![t].sent = 0]
  /\ UNCHANGED <<setting, link, polling, crossed>>

\* A tool's requests over the session: Chrome refuses a session of another connection.
SessionFits(t) == Answered(t) /\ thread[t].held = thread[t].sent

\* A tool ends with the answer to its last request.
OneRequest(t) ==
  /\ thread[t].at = "act" /\ SessionFits(t)
  /\ Ends(t)
  /\ UNCHANGED <<setting, link, polling, cache>>

\* Another request follows: a screenshot's, a click's, a key's next one, or that of a
\* loop.  What has been sent is not undone when the next one fails.
NextRequest(t) ==
  /\ thread[t].at = "act" /\ SessionFits(t)
  /\ thread' = [thread EXCEPT ![t].sent = 0]
  /\ UNCHANGED <<setting, link, polling, cache>>

\* A loop that asks until the page is loaded, or the elements gone, meets its deadline.
Deadline(t) ==
  /\ thread[t].at = "act" /\ thread[t].sent = 0
  /\ Ends(t)
  /\ UNCHANGED <<setting, link, polling, cache>>

-----------------------------------------------------------------------------
(* The process.                                                            *)

\* A crash, which a panic outside of HTTP is too, or Server.Stop, which disables the
\* connector before the process ends.
Restart(stopped) ==
  /\ file' = (file /\ ~stopped)
  /\ enabled' = file'
  /\ mu' = Nobody /\ client' = 0 /\ connected' = FALSE
  /\ conn' = [k \in Clients |-> "none"] /\ closers' = {}
  /\ poller' = 0 /\ poll' = [p \in Pollers |-> "none"]
  /\ session' = 0 /\ crossed' = FALSE
  /\ thread' \in Booting(file')

Lifecycle(t) ==
  \/ EnableRequest(t) \/ Enabled(t)
  \/ \E reachable \in BOOLEAN : Enable(t, reachable)
  \/ Disable(t) \/ Disabled(t)
  \/ ReadConfig(t) \/ \E ok \in BOOLEAN : SaveConfig(t, ok)

Tool(t) ==
  \/ Execute(t) \/ Send(t)
  \/ \E goesOn \in BOOLEAN : Fails(t, goesOn)
  \/ \E again \in BOOLEAN : Listed(t, again)
  \/ GetSession(t) \/ AttachToTarget(t)
  \/ OneRequest(t) \/ NextRequest(t) \/ Deadline(t)

Poll(p) ==
  \/ Tick(p) \/ PollEnds(p)
  \/ \E reachable \in BOOLEAN : Reconnect(p, reachable)
  \/ ReconnectEnds(p)

BrowserNext ==
  \/ \E t \in Goroutines : Lifecycle(t) \/ Tool(t)
  \/ \E p \in Pollers : Poll(p)
  \/ \E k \in Clients : Drop(k) \/ Close(k) \/ OnClose(k)
  \/ \E stopped \in BOOLEAN : Restart(stopped)

BrowserSpec == BrowserInit /\ [][BrowserNext]_browserVars

-----------------------------------------------------------------------------
(* Properties.                                                             *)

\* A connection to Chrome that is open is the current client's, or somebody is about to
\* close it: replacing a client and disabling the connector leak none.
ConnectionsHaveOwner ==
  \A k \in Clients : conn[k] = "open" =>
    k = client \/ k \in closers \/ \E t \in Goroutines : thread[t].at = "close" /\ thread[t].held = k

\* The cached session belongs to the current connection, unless its attachment was
\* under way when the connection changed.
SessionsFit == session \in {0, client} \/ crossed
=============================================================================
