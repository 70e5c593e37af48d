----------------------------- MODULE MCPManager -----------------------------
(***************************************************************************)
(* The life of one configured MCP server in mcp.Manager (mcp/manager.go):  *)
(* StartServer, StopServer, CallTool, Tools, AddServer, RemoveServer and   *)
(* the goroutine of startReconnect, called by the API's handlers           *)
(* (api/mcp_handlers.go) and by the agent's tools (tools/executor.go).     *)
(*                                                                         *)
(* Manager.mu is held for single steps only. Between them a method knows   *)
(* the server by its NAME, which a removal and a new AddServer may have    *)
(* given to another serverState, and StartServer also by the serverState   *)
(* it found first. So one name is modelled, and the serverStates that      *)
(* carry it one after the other.                                           *)
(***************************************************************************)
EXTENDS Naturals

CONSTANTS
  States,       \* serverStates that may carry the name, one after the other
  Handlers,     \* goroutines of the API's requests
  Agents,       \* goroutines that run an agent
  Reconnects,   \* goroutines that startReconnect may spawn: 1 .. their bound
  MaxAttempts,  \* maxReconnectAttempts (5 in the code)
  None

Callers == Handlers \cup Agents
Threads == Callers \cup Reconnects

ASSUME ManagerAssumption ==
  /\ Reconnects \subseteq Nat
  /\ None \notin States \cup Reconnects
  /\ Handlers \cap Agents = {}
  /\ Callers \cap Reconnects = {}
  /\ MaxAttempts \in Nat \ {0}

VARIABLES
  current,    \* servers[name]
  server,     \* serverState |-> IsRemote, status, client # nil, reconnectCancel
  pc,         \* thread |-> where it stands
  inCall,     \* callers inside CallTool
  held,       \* thread |-> the serverState it found under the name
  attempt,    \* reconnect goroutine |-> failed attempts
  cancelled,  \* reconnect goroutines whose context is cancelled
  wedged      \* has a panic left Manager.mu read-locked for ever?

locals == <<pc, inCall, held, attempt>>
vars == <<current, server, locals, cancelled, wedged>>

Statuses == {"absent", "stopped", "starting", "running", "reconnecting", "error"}
ServerState == [remote : BOOLEAN, status : Statuses, client : BOOLEAN,
                cancel : Reconnects \cup {None}]
Blank(remote, status) ==
  [remote |-> remote, status |-> status, client |-> FALSE, cancel |-> None]
Absent == Blank(FALSE, "absent")
Stopped(s) == Blank(s.remote, "stopped")

Places == {"idle", "start", "connecting", "lookup", "calling", "reconnect",
           "removing", "deleting"}
            \cup {"unused", "waiting", "ok", "err", "exhausted", "done"}

TypeOK ==
  /\ current \in States \cup {None}
  /\ server \in [States -> ServerState]
  /\ pc \in [Threads -> Places]
  /\ inCall \subseteq Callers
  /\ held \in [Threads -> States \cup {None}]
  /\ attempt \in [Reconnects -> 0 .. MaxAttempts]
  /\ cancelled \subseteq Reconnects
  /\ wedged \in BOOLEAN
  /\ current # None => server[current].status # "absent"

\* LoadConfig: whatever mcp.json configures is stopped.
Init ==
  /\ current \in States \cup {None}
  /\ \E remote \in BOOLEAN :
       server = [s \in States |-> IF s = current THEN Blank(remote, "stopped") ELSE Absent]
  /\ pc = [t \in Threads |-> IF t \in Callers THEN "idle" ELSE "unused"]
  /\ inCall = {}
  /\ held = [t \in Threads |-> None]
  /\ attempt = [r \in Reconnects |-> 0]
  /\ cancelled = {}
  /\ wedged = FALSE

-----------------------------------------------------------------------------
(* Steps that several methods share.                                       *)

Lock == ~wedged

HeldStates == {held[t] : t \in Threads}

Goto(t, place) == pc' = [pc EXCEPT ![t] = place]

Leave(c) == Goto(c, "idle") /\ inCall' = inCall \ {c}

\* if s, ok := m.servers[name]; ok { ... }
AtName(newState) ==
  server' = IF current = None THEN server
                              ELSE [server EXCEPT ![current] = newState]

\* A panic: net/http's handler recovers, and a lock taken without defer stays
\* taken. Nothing recovers in an agent's goroutine: the process restarts.
Panic(c, locked) ==
  \/ /\ c \in Handlers
     /\ Leave(c)
     /\ wedged' = locked
     /\ UNCHANGED <<current, server, held, attempt, cancelled>>
  \/ /\ c \in Agents
     /\ server' = [s \in States |-> IF s = current THEN Stopped(server[s]) ELSE Absent]
     /\ pc' = [t \in Threads |-> CASE t \in Callers -> "idle"
                                   [] t \notin Callers /\ pc[t] = "unused" -> "unused"
                                   [] OTHER -> "done"]
     /\ inCall' = {}
     /\ held' = [t \in Threads |-> None]
     /\ attempt' = [r \in Reconnects |-> 0]
     /\ wedged' = FALSE
     /\ UNCHANGED <<current, cancelled>>

-----------------------------------------------------------------------------
(* StartServer, run by a caller or by a reconnect goroutine.               *)

\* StartServer hands its result to the goroutine, or to CallTool, or to a
\* handler or agent tool that is done with it.
Return(t, result) ==
  /\ Goto(t, CASE t \in Reconnects -> result
               [] t \in inCall /\ result = "ok" -> "lookup"
               [] OTHER -> "idle")
  /\ inCall' = IF result = "ok" THEN inCall ELSE inCall \ {t}

\* Mutant: the status is announced before the check of what it was.
StartAnnounced(t) ==
  /\ Lock
  /\ \/ /\ current = None
        /\ Return(t, "err")
        /\ UNCHANGED <<server, held>>
     \/ /\ current # None
        /\ server' = [server EXCEPT ![current].status = "starting"]
        /\ \/ server[current].status = "running" /\ Return(t, "ok") /\ UNCHANGED held
           \/ /\ server[current].status # "running"
              /\ held' = [held EXCEPT ![t] = current]
              /\ Goto(t, "connecting")
              /\ UNCHANGED inCall

StartServer(t) ==
  /\ Lock
  /\ \/ /\ current = None
        /\ Return(t, "err")
        /\ UNCHANGED <<server, held>>
     \/ /\ current # None
        /\ server[current].status = "running"
        /\ Return(t, "ok")
        /\ UNCHANGED <<server, held>>
     \/ /\ current # None
        /\ server[current].status # "running"
        /\ server' = [server EXCEPT ![current].status = "starting"]
        /\ held' = [held EXCEPT ![t] = current]
        /\ Goto(t, "connecting")
        /\ UNCHANGED inCall

\* A handler or an agent's tool calls StartServer, or Tools for a server that
\* is not running (its last lookup may panic, but under a deferred unlock).
RequestStart(c) ==
  /\ pc[c] = "idle"
  /\ StartServer(c)
  /\ UNCHANGED <<current, attempt, cancelled, wedged>>

\* CallTool, or the goroutine of startReconnect, calls StartServer.
InnerStart(t) ==
  /\ pc[t] = "start"
  /\ StartServer(t)
  /\ UNCHANGED <<current, attempt, cancelled, wedged>>

\* The handshake and ListTools succeed: the result goes to the serverState
\* found at the beginning, whoever carries the name by now.
Connected(t) ==
  /\ pc[t] = "connecting"
  /\ Lock
  /\ server' = [server EXCEPT ![held[t]].client = TRUE,
                              ![held[t]].status = "running"]
  /\ held' = [held EXCEPT ![t] = None]
  /\ Return(t, "ok")
  /\ UNCHANGED <<current, attempt, cancelled, wedged>>

\* setError: the error goes to whoever carries the name.
ConnectFails(t) ==
  /\ pc[t] = "connecting"
  /\ Lock
  /\ AtName([server[current] EXCEPT !.status = "error"])
  /\ held' = [held EXCEPT ![t] = None]
  /\ Return(t, "err")
  /\ UNCHANGED <<current, attempt, cancelled, wedged>>

-----------------------------------------------------------------------------
(* CallTool.                                                               *)

CallTool(c) ==
  /\ pc[c] = "idle"
  /\ current # None
  /\ server[current].status # "reconnecting"
  /\ Goto(c, IF server[current].status = "running" THEN "lookup" ELSE "start")
  /\ inCall' = inCall \cup {c}
  /\ UNCHANGED <<current, server, held, attempt, cancelled, wedged>>

\* client := m.servers[serverName].client; client.CallTool
Lookup(c) ==
  /\ pc[c] = "lookup"
  /\ \/ current = None /\ Panic(c, TRUE)
     \/ current # None /\ ~server[current].client /\ Panic(c, wedged)
     \/ /\ current # None
        /\ server[current].client
        /\ Goto(c, "calling")
        /\ UNCHANGED <<current, server, inCall, held, attempt, cancelled, wedged>>

CallReturns(c) ==
  /\ pc[c] = "calling"
  /\ Leave(c)
  /\ UNCHANGED <<current, server, held, attempt, cancelled, wedged>>

\* isRemote := m.servers[serverName].config.IsRemote()
CallFails(c) ==
  /\ pc[c] = "calling"
  /\ \/ current = None /\ Panic(c, TRUE)
     \/ /\ current # None
        /\ \/ server[current].remote /\ Goto(c, "reconnect") /\ UNCHANGED inCall
           \/ ~server[current].remote /\ Leave(c)
        /\ UNCHANGED <<current, server, held, attempt, cancelled, wedged>>

-----------------------------------------------------------------------------
(* startReconnect and its goroutine.                                       *)

StartReconnect(c) ==
  /\ pc[c] = "reconnect"
  /\ Lock
  /\ \/ /\ current = None
        /\ Leave(c)
        /\ UNCHANGED server
     \/ /\ current # None
        /\ \E r \in Reconnects :
             /\ pc[r] = "unused"
             /\ \A q \in Reconnects : q < r => pc[q] # "unused"
             /\ pc' = [pc EXCEPT ![r] = "waiting", ![c] = "idle"]
             /\ server' = [server EXCEPT ![current].status = "reconnecting",
                                         ![current].cancel = r]
        /\ inCall' = inCall \ {c}
  /\ UNCHANGED <<current, held, attempt, cancelled, wedged>>

End(r) == Goto(r, "done") /\ attempt' = [attempt EXCEPT ![r] = 0]

\* case <-ctx.Done(): return
CancelObserved(r) ==
  /\ pc[r] = "waiting"
  /\ r \in cancelled
  /\ End(r)
  /\ UNCHANGED <<current, server, inCall, held, cancelled, wedged>>

\* The backoff is over (select may prefer it to a context already done): the
\* old client is closed, then StartServer follows.
BackoffEnds(r) ==
  /\ pc[r] = "waiting"
  /\ Lock
  /\ AtName([server[current] EXCEPT !.client = FALSE])
  /\ Goto(r, "start")
  /\ UNCHANGED <<current, inCall, held, attempt, cancelled, wedged>>

\* Mutant: a failed attempt is not counted.
RetryUncounted(r) ==
  /\ pc[r] = "err"
  /\ Lock
  /\ AtName([server[current] EXCEPT !.status = "reconnecting", !.cancel = r])
  /\ Goto(r, "waiting")
  /\ UNCHANGED <<current, inCall, held, attempt, cancelled, wedged>>

Retry(r) ==
  /\ pc[r] = "err"
  /\ Lock
  /\ AtName([server[current] EXCEPT !.status = "reconnecting", !.cancel = r])
  /\ attempt' = [attempt EXCEPT ![r] = @ + 1]
  /\ Goto(r, IF attempt[r] + 1 = MaxAttempts THEN "exhausted" ELSE "waiting")
  /\ UNCHANGED <<current, inCall, held, cancelled, wedged>>

\* Mutant: the cancel function of a finished goroutine stays behind.
ReconnectedOnly(r) ==
  /\ pc[r] = "ok"
  /\ Lock
  /\ End(r)
  /\ UNCHANGED <<current, server, inCall, held, cancelled, wedged>>

Reconnected(r) ==
  /\ pc[r] = "ok"
  /\ Lock
  /\ AtName([server[current] EXCEPT !.cancel = None])
  /\ End(r)
  /\ UNCHANGED <<current, inCall, held, cancelled, wedged>>

Exhausted(r) ==
  /\ pc[r] = "exhausted"
  /\ Lock
  /\ AtName([server[current] EXCEPT !.status = "error", !.cancel = None])
  /\ End(r)
  /\ UNCHANGED <<current, inCall, held, cancelled, wedged>>

-----------------------------------------------------------------------------
(* StopServer, AddServer and RemoveServer.                                 *)

\* Mutant: the reconnection is not cancelled.
StopUncancelled ==
  /\ server' = [server EXCEPT ![current].status = "stopped",
                              ![current].client = FALSE]
  /\ UNCHANGED cancelled

Stop ==
  /\ server' = [server EXCEPT ![current] = Stopped(@)]
  /\ cancelled' = cancelled \cup ({server[current].cancel} \ {None})

StopServer(c) ==
  /\ pc[c] = "idle"
  /\ c \in Handlers
  /\ Lock
  /\ current # None
  /\ Stop
  /\ UNCHANGED <<current, locals, wedged>>

AddServer(c) ==
  /\ pc[c] = "idle"
  /\ c \in Handlers
  /\ Lock
  /\ current = None
  /\ \E s \in States, remote \in BOOLEAN :
       /\ server[s] = Absent
       /\ current' = s
       /\ server' = [server EXCEPT ![s] = Blank(remote, "stopped")]
  /\ UNCHANGED <<locals, cancelled, wedged>>

AskRemove(c) ==
  /\ pc[c] = "idle"
  /\ c \in Handlers
  /\ current # None
  /\ held' = [held EXCEPT ![c] = current]
  /\ Goto(c, "removing")
  /\ UNCHANGED <<current, server, inCall, attempt, cancelled, wedged>>

\* if s.status == StatusRunning { m.StopServer(name) }: the status is that of
\* the serverState found, read without the lock; the name may be gone.
RemoveStops(c) ==
  /\ pc[c] = "removing"
  /\ \/ /\ server[held[c]].status # "running"
        /\ UNCHANGED <<server, cancelled>>
     \/ /\ server[held[c]].status = "running"
        /\ Lock
        /\ \/ current = None /\ UNCHANGED <<server, cancelled>>
           \/ current # None /\ Stop
  /\ held' = [held EXCEPT ![c] = None]
  /\ Goto(c, "deleting")
  /\ UNCHANGED <<current, inCall, attempt, wedged>>

\* delete(m.servers, name): a serverState that nobody holds is garbage.
RemoveDeletes(c) ==
  /\ pc[c] = "deleting"
  /\ Lock
  /\ current' = None
  /\ server' = [s \in States |->
                  IF s = current /\ s \notin HeldStates THEN Absent ELSE server[s]]
  /\ Goto(c, "idle")
  /\ UNCHANGED <<inCall, held, attempt, cancelled, wedged>>

-----------------------------------------------------------------------------
CallerStep(c) ==
  \/ RequestStart(c) \/ InnerStart(c) \/ Connected(c) \/ ConnectFails(c)
  \/ CallTool(c) \/ Lookup(c) \/ CallReturns(c) \/ CallFails(c)
  \/ StartReconnect(c)
  \/ StopServer(c) \/ AddServer(c)
  \/ AskRemove(c) \/ RemoveStops(c) \/ RemoveDeletes(c)

Connects(r) == Connected(r) \/ ConnectFails(r)

ReconnectStep(r) ==
  \/ CancelObserved(r) \/ BackoffEnds(r) \/ InnerStart(r)
  \/ Retry(r) \/ Reconnected(r) \/ Exhausted(r)

Next ==
  \/ \E c \in Callers : CallerStep(c)
  \/ \E r \in Reconnects : ReconnectStep(r) \/ Connects(r)

\* A runnable goroutine runs, a backoff ends, and a handshake ends once its
\* context is cancelled; nothing bounds a handshake whose context lives.
Fairness ==
  \A r \in Reconnects :
    /\ WF_vars(ReconnectStep(r))
    /\ WF_vars(r \in cancelled /\ Connects(r))

Spec == Init /\ [][Next]_vars /\ Fairness

-----------------------------------------------------------------------------
Live(r) == pc[r] \notin {"unused", "done"}

\* A server that says "starting" is being started: some StartServer that found
\* it is still in its handshake. Overlapping starts, stops, removals and
\* reconnections, and errors recorded by name, never leave the dashboard
\* waiting for a start that nobody performs.
StartingHasStarter ==
  current # None /\ server[current].status = "starting" =>
    \E t \in Threads : pc[t] = "connecting" /\ held[t] = current

\* A server that says "stopped" holds no connection and no reconnection: a
\* connection or goroutine it kept would be out of StopServer's reach, since
\* every later step takes the fields for what the status says.
StoppedHoldsNothing ==
  \A s \in States : server[s].status = "stopped" => server[s] = Stopped(server[s])

\* reconnectCancel never outlives its goroutine unused: the goroutine whose
\* cancel function the named server keeps is alive, or it ended because it was
\* cancelled, though goroutines of other reconnections and of removed servers
\* write the same field by name.
CancelReachesLive ==
  current # None /\ server[current].cancel # None =>
    \/ Live(server[current].cancel)
    \/ server[current].cancel \in cancelled

\* "It stops ... when the context is cancelled": a reconnect goroutine that
\* was cancelled ends, in whatever step the cancellation found it, unless a
\* panic took Manager.mu with it.
CancelledReconnectEnds ==
  \A r \in Reconnects :
    r \in cancelled /\ Live(r) ~> pc[r] = "done" \/ wedged
=============================================================================
