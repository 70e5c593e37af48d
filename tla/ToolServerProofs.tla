--------------------------- MODULE ToolServerProofs ----------------------------
(***************************************************************************)
(* Proofs about the processes outside whose tools the agent calls, for     *)
(* every number of requests, agents, goroutines and connections:           *)
(*   - MCPManager: the servers of MCP, their removals and reconnections;   *)
(*   - Browser: Chrome, whose connection has an owner and whose cached     *)
(*     sessions are those of the connection.                               *)
(* Neither part uses the other: the tool executor asks each of them.       *)
(***************************************************************************)
EXTENDS MCPManager, Browser, TLAPS

-----------------------------------------------------------------------------
(* Types *)

\* A thread in a handshake or in a removal holds the serverState it found.
HoldsState ==
  \A t \in Threads : pc[t] \in {"connecting", "removing"} => held[t] \in States

\* Only a goroutine that is giving up has used all its attempts.
AttemptsLeft ==
  \A r \in Reconnects : attempt[r] = MaxAttempts => pc[r] = "exhausted"

Typed == TypeOK /\ HoldsState /\ AttemptsLeft

LEMMA BlankType ==
  ASSUME NEW remote \in BOOLEAN, NEW status \in Statuses
  PROVE  Blank(remote, status) \in ServerState
BY DEF Blank, ServerState

LEMMA StoppedType ==
  ASSUME NEW s \in ServerState
  PROVE  Stopped(s) \in ServerState
BY BlankType DEF Stopped, ServerState, Statuses

\* The assignments to single fields of a serverState.
LEMMA FieldTypes ==
  ASSUME NEW s \in ServerState
  PROVE  /\ \A status \in Statuses : [s EXCEPT !.status = status] \in ServerState
         /\ [s EXCEPT !.client = FALSE] \in ServerState
         /\ [s EXCEPT !.client = TRUE, !.status = "running"] \in ServerState
         /\ [s EXCEPT !.cancel = None] \in ServerState
         /\ \A r \in Reconnects :
              [s EXCEPT !.status = "reconnecting", !.cancel = r] \in ServerState
         /\ [s EXCEPT !.status = "error", !.cancel = None] \in ServerState
BY DEF ServerState, Statuses

LEMMA InitTyped == Init => Typed
<1> USE ManagerAssumption DEF Threads, Callers
<1> SUFFICES ASSUME Init PROVE Typed
  OBVIOUS
<1>1. server \in [States -> ServerState]
  BY BlankType DEF Init, Absent, Statuses
<1>2. current # None => server[current].status # "absent"
  BY DEF Init, Blank
<1>3. pc \in [Threads -> Places]
  BY DEF Init, Places
<1>4. attempt \in [Reconnects -> 0 .. MaxAttempts]
  BY DEF Init
<1>5. TypeOK
  BY <1>1, <1>2, <1>3, <1>4 DEF Init, TypeOK
<1> QED
  BY <1>5 DEF Init, Typed, HoldsState, AttemptsLeft

-----------------------------------------------------------------------------
(* What a step does to the threads: pc, held and attempt. *)

ThreadsTyped ==
  /\ pc \in [Threads -> Places]
  /\ inCall \subseteq Callers
  /\ held \in [Threads -> States \cup {None}]
  /\ attempt \in [Reconnects -> 0 .. MaxAttempts]
  /\ HoldsState
  /\ AttemptsLeft

ServersTyped ==
  /\ current \in States \cup {None}
  /\ server \in [States -> ServerState]
  /\ cancelled \subseteq Reconnects
  /\ wedged \in BOOLEAN
  /\ current # None => server[current].status # "absent"

LEMMA TypedParts == Typed <=> ThreadsTyped /\ ServersTyped
BY DEF Typed, TypeOK, ThreadsTyped, ServersTyped

LEMMA TypedPartsPrime == Typed' <=> ThreadsTyped' /\ ServersTyped'
BY DEF Typed, TypeOK, HoldsState, AttemptsLeft, ThreadsTyped, ServersTyped

\* A panic leaves the types.
LEMMA PanicTyped ==
  ASSUME Typed, NEW c \in Callers, NEW locked \in BOOLEAN, Panic(c, locked)
  PROVE  Typed'
<1> USE ManagerAssumption DEF Threads, Callers
<1>0. ThreadsTyped /\ ServersTyped
  BY TypedParts
<1>1. CASE c \in Handlers
  <2>1. ServersTyped'
    <3>1. UNCHANGED <<current, server, cancelled>> /\ wedged' = locked
      BY <1>1 DEF Panic
    <3> QED
      BY <1>0, <3>1 DEF ServersTyped
  <2>2. ThreadsTyped'
    BY <1>0, <1>1 DEF Panic, Leave, Goto, ThreadsTyped, Places, HoldsState, AttemptsLeft
  <2> QED
    BY <2>1, <2>2, TypedPartsPrime
<1>2. CASE c \in Agents
  <2>1. \A s \in States : Stopped(server[s]) \in ServerState /\ Absent \in ServerState
    BY <1>0, StoppedType, BlankType DEF ServersTyped, Absent, Statuses
  <2>2. ServersTyped'
    <3>1. server' = [s \in States |-> IF s = current THEN Stopped(server[s]) ELSE Absent]
      BY <1>2 DEF Panic
    <3>2. current' = current /\ cancelled' = cancelled /\ wedged' = FALSE
      BY <1>2 DEF Panic
    <3>3. \A s \in States : Stopped(server[s]).status = "stopped"
      BY DEF Stopped, Blank
    <3> QED
      BY <1>0, <2>1, <3>1, <3>2, <3>3 DEF ServersTyped
  <2>3. ThreadsTyped'
    BY <1>0, <1>2 DEF Panic, ThreadsTyped, Places, HoldsState, AttemptsLeft
  <2> QED
    BY <2>2, <2>3, TypedPartsPrime
<1> QED
  BY <1>1, <1>2

\* StartServer's effect on the types, for a thread that is about to start.
LEMMA StartServerTyped ==
  ASSUME Typed, NEW t \in Threads, StartServer(t),
         pc[t] \in {"idle", "start"},
         UNCHANGED <<current, attempt, cancelled, wedged>>
  PROVE  Typed'
<1> USE ManagerAssumption DEF Threads, Callers
<1>0. ThreadsTyped /\ ServersTyped
  BY TypedParts
<1>1. ServersTyped'
  <2>1. current # None => server[current] \in ServerState
    BY <1>0 DEF ServersTyped
  <2>2. current # None => [server[current] EXCEPT !.status = "starting"] \in ServerState
    BY <2>1, FieldTypes DEF Statuses
  <2>3. \/ UNCHANGED server
        \/ /\ current # None
           /\ server' = [server EXCEPT ![current].status = "starting"]
    BY DEF StartServer
  <2> QED
    BY <1>0, <2>1, <2>2, <2>3 DEF ServersTyped, ServerState
<1>2. ThreadsTyped'
  BY <1>0 DEF StartServer, Return, Goto, ThreadsTyped, ServersTyped, Places,
              HoldsState, AttemptsLeft
<1> QED
  BY <1>1, <1>2, TypedPartsPrime

\* An assignment to the serverState under the name leaves the types.
LEMMA AtNameTyped ==
  ASSUME ServersTyped, NEW new, AtName(new),
         current # None => new \in ServerState /\ new.status # "absent",
         UNCHANGED <<current, cancelled, wedged>>
  PROVE  ServersTyped'
BY ManagerAssumption DEF AtName, ServersTyped

\* The steps of a thread in StartServer's handshake.
LEMMA ConnectsTyped ==
  ASSUME Typed, NEW t \in Threads, Connected(t) \/ ConnectFails(t)
  PROVE  Typed'
<1> USE ManagerAssumption DEF Threads, Callers
<1>0. ThreadsTyped /\ ServersTyped
  BY TypedParts
<1>1. pc[t] = "connecting" /\ held[t] \in States
  BY <1>0 DEF Connected, ConnectFails, ThreadsTyped, HoldsState
<1>2. ThreadsTyped'
  BY <1>0, <1>1 DEF Connected, ConnectFails, Return, Goto, ThreadsTyped, Places,
                    HoldsState, AttemptsLeft
<1>3. ServersTyped'
  <2>1. CASE Connected(t)
    <3>1. server[held[t]] \in ServerState
      BY <1>0, <1>1 DEF ServersTyped
    <3> DEFINE new == [server[held[t]] EXCEPT !.client = TRUE, !.status = "running"]
    <3>2. new \in ServerState /\ new.status = "running"
      BY <3>1 DEF ServerState, Statuses
    <3>3. server' = [server EXCEPT ![held[t]] = new]
      BY <2>1, <3>1 DEF Connected
    <3> HIDE DEF new
    <3> QED
      BY <1>0, <1>1, <2>1, <3>2, <3>3 DEF Connected, ServersTyped
  <2>2. CASE ConnectFails(t)
    <3> DEFINE new == [server[current] EXCEPT !.status = "error"]
    <3>1. current # None => new \in ServerState /\ new.status = "error"
      BY <1>0 DEF ServersTyped, ServerState, Statuses
    <3> HIDE DEF new
    <3>2. AtName(new)
      BY <2>2 DEF ConnectFails, new
    <3> QED
      BY <1>0, <2>2, <3>1, <3>2, AtNameTyped DEF ConnectFails
  <2> QED
    BY <2>1, <2>2
<1> QED
  BY <1>2, <1>3, TypedPartsPrime

\* CallTool's own steps.
LEMMA CallTyped ==
  ASSUME Typed, NEW c \in Callers,
         CallTool(c) \/ Lookup(c) \/ CallReturns(c) \/ CallFails(c)
  PROVE  Typed'
<1> USE ManagerAssumption DEF Threads, Callers
<1>0. ThreadsTyped /\ ServersTyped
  BY TypedParts
<1>1. wedged \in BOOLEAN /\ TRUE \in BOOLEAN
  BY <1>0 DEF ServersTyped
<1>2. ASSUME Panic(c, TRUE) \/ Panic(c, wedged) PROVE Typed'
  BY <1>1, <1>2, PanicTyped
<1>3. ASSUME UNCHANGED <<current, server, held, attempt, cancelled, wedged>>,
             NEW place \in {"idle", "start", "lookup", "calling", "reconnect"},
             Goto(c, place), inCall' \subseteq Callers
      PROVE  Typed'
  <2>1. ServersTyped'
    BY <1>0, <1>3 DEF ServersTyped
  <2>2. ThreadsTyped'
    BY <1>0, <1>3 DEF Goto, ThreadsTyped, Places, HoldsState, AttemptsLeft
  <2> QED
    BY <2>1, <2>2, TypedPartsPrime
<1>4. inCall \subseteq Callers
  BY <1>0 DEF ThreadsTyped
<1>5. CASE CallTool(c)
  BY <1>3, <1>4, <1>5 DEF CallTool
<1>6. CASE Lookup(c)
  BY <1>2, <1>3, <1>4, <1>6 DEF Lookup
<1>7. CASE CallReturns(c)
  BY <1>3, <1>4, <1>7 DEF CallReturns, Leave
<1>8. CASE CallFails(c)
  BY <1>2, <1>3, <1>4, <1>8 DEF CallFails, Leave
<1> QED
  BY <1>5, <1>6, <1>7, <1>8

\* startReconnect spawns a goroutine.
LEMMA StartReconnectTyped ==
  ASSUME Typed, NEW c \in Callers, StartReconnect(c)
  PROVE  Typed'
<1> USE ManagerAssumption DEF Threads, Callers
<1>0. ThreadsTyped /\ ServersTyped
  BY TypedParts
<1>1. CASE current = None
  <2>1. ServersTyped'
    BY <1>0, <1>1 DEF StartReconnect, ServersTyped
  <2>2. ThreadsTyped'
    BY <1>0, <1>1 DEF StartReconnect, Leave, Goto, ThreadsTyped, Places,
                      HoldsState, AttemptsLeft
  <2> QED
    BY <2>1, <2>2, TypedPartsPrime
<1>2. CASE current # None
  <2>1. PICK r \in Reconnects :
          /\ pc[r] = "unused"
          /\ pc' = [pc EXCEPT ![r] = "waiting", ![c] = "idle"]
          /\ server' = [server EXCEPT ![current].status = "reconnecting",
                                      ![current].cancel = r]
    BY <1>2 DEF StartReconnect
  <2>2. ThreadsTyped'
    BY <1>0, <1>2, <2>1 DEF StartReconnect, ThreadsTyped, Places, HoldsState, AttemptsLeft
  <2> DEFINE new == [server[current] EXCEPT !.status = "reconnecting", !.cancel = r]
  <2>3. server[current] \in ServerState
    BY <1>0, <1>2 DEF ServersTyped
  <2>4. new \in ServerState /\ new.status = "reconnecting"
    BY <2>3 DEF ServerState, Statuses
  <2>5. server' = [server EXCEPT ![current] = new]
    BY <2>1, <2>3 DEF ServerState
  <2>6. UNCHANGED <<current, cancelled, wedged>>
    BY DEF StartReconnect
  <2> HIDE DEF new
  <2>7. ServersTyped'
    BY <1>0, <1>2, <2>4, <2>5, <2>6 DEF ServersTyped
  <2> QED
    BY <2>2, <2>7, TypedPartsPrime
<1> QED
  BY <1>1, <1>2

\* The steps of the goroutine of startReconnect, but for StartServer's.
LEMMA ReconnectTyped ==
  ASSUME Typed, NEW r \in Reconnects,
         CancelObserved(r) \/ BackoffEnds(r) \/ Retry(r) \/ Reconnected(r) \/ Exhausted(r)
  PROVE  Typed'
<1> USE ManagerAssumption DEF Threads, Callers
<1>0. ThreadsTyped /\ ServersTyped
  BY TypedParts
<1>1. ThreadsTyped'
  <2>1. CASE CancelObserved(r) \/ Reconnected(r) \/ Exhausted(r)
    BY <1>0, <2>1 DEF CancelObserved, Reconnected, Exhausted, End, Goto,
                      ThreadsTyped, Places, HoldsState, AttemptsLeft
  <2>2. CASE BackoffEnds(r)
    BY <1>0, <2>2 DEF BackoffEnds, Goto, ThreadsTyped, Places, HoldsState, AttemptsLeft
  <2>3. CASE Retry(r)
    <3>1. attempt[r] \in 0 .. MaxAttempts /\ attempt[r] # MaxAttempts
      BY <1>0, <2>3 DEF Retry, ThreadsTyped, AttemptsLeft
    <3>2. attempt' \in [Reconnects -> 0 .. MaxAttempts]
      BY <1>0, <2>3, <3>1 DEF Retry, ThreadsTyped
    <3> QED
      BY <1>0, <2>3, <3>1, <3>2 DEF Retry, Goto, ThreadsTyped, Places, HoldsState, AttemptsLeft
  <2> QED
    BY <2>1, <2>2, <2>3
<1>2. current # None => server[current] \in ServerState /\ server[current].status # "absent"
  BY <1>0 DEF ServersTyped
<1>3. ASSUME NEW new, AtName(new), UNCHANGED <<current, cancelled, wedged>>,
             current # None => new \in ServerState /\ new.status # "absent"
      PROVE  ServersTyped'
  BY <1>0, <1>3, AtNameTyped
<1>4. ServersTyped'
  <2>1. CASE CancelObserved(r)
    BY <1>0, <2>1 DEF CancelObserved, ServersTyped
  <2>2. CASE BackoffEnds(r)
    <3> DEFINE new == [server[current] EXCEPT !.client = FALSE]
    <3>1. current # None => new \in ServerState /\ new.status # "absent"
      BY <1>2 DEF ServerState
    <3>2. AtName(new) /\ UNCHANGED <<current, cancelled, wedged>>
      BY <2>2 DEF BackoffEnds
    <3> HIDE DEF new
    <3> QED
      BY <1>3, <3>1, <3>2
  <2>3. CASE Retry(r)
    <3> DEFINE new == [server[current] EXCEPT !.status = "reconnecting", !.cancel = r]
    <3>1. current # None => new \in ServerState /\ new.status # "absent"
      BY <1>2 DEF ServerState, Statuses
    <3>2. AtName(new) /\ UNCHANGED <<current, cancelled, wedged>>
      BY <2>3 DEF Retry
    <3> HIDE DEF new
    <3> QED
      BY <1>3, <3>1, <3>2
  <2>4. CASE Reconnected(r)
    <3> DEFINE new == [server[current] EXCEPT !.cancel = None]
    <3>1. current # None => new \in ServerState /\ new.status # "absent"
      BY <1>2 DEF ServerState
    <3>2. AtName(new) /\ UNCHANGED <<current, cancelled, wedged>>
      BY <2>4 DEF Reconnected
    <3> HIDE DEF new
    <3> QED
      BY <1>3, <3>1, <3>2
  <2>5. CASE Exhausted(r)
    <3> DEFINE new == [server[current] EXCEPT !.status = "error", !.cancel = None]
    <3>1. current # None => new \in ServerState /\ new.status # "absent"
      BY <1>2 DEF ServerState, Statuses
    <3>2. AtName(new) /\ UNCHANGED <<current, cancelled, wedged>>
      BY <2>5 DEF Exhausted
    <3> HIDE DEF new
    <3> QED
      BY <1>3, <3>1, <3>2
  <2> QED
    BY <2>1, <2>2, <2>3, <2>4, <2>5
<1> QED
  BY <1>1, <1>4, TypedPartsPrime

\* StopServer, AddServer and RemoveServer.
LEMMA StopTyped ==
  ASSUME ServersTyped, current # None, Stop, UNCHANGED <<current, wedged>>
  PROVE  ServersTyped'
<1> USE ManagerAssumption
<1>1. server[current] \in ServerState
  BY DEF ServersTyped
<1>2. Stopped(server[current]) \in ServerState /\ Stopped(server[current]).status = "stopped"
  BY <1>1, StoppedType DEF Stopped, Blank
<1>3. cancelled' \subseteq Reconnects
  BY <1>1 DEF Stop, ServersTyped, ServerState
<1>4. server' = [server EXCEPT ![current] = Stopped(server[current])]
  BY DEF Stop
<1> QED
  BY <1>2, <1>3, <1>4 DEF ServersTyped

LEMMA AdminTyped ==
  ASSUME Typed, NEW c \in Callers,
         \/ StopServer(c) \/ AddServer(c)
         \/ AskRemove(c) \/ RemoveStops(c) \/ RemoveDeletes(c)
  PROVE  Typed'
<1> USE ManagerAssumption DEF Threads, Callers
<1>0. ThreadsTyped /\ ServersTyped
  BY TypedParts
<1>1. CASE StopServer(c)
  <2>1. ServersTyped'
    BY <1>0, <1>1, StopTyped DEF StopServer
  <2>2. ThreadsTyped'
    BY <1>0, <1>1 DEF StopServer, locals, ThreadsTyped, HoldsState, AttemptsLeft
  <2> QED
    BY <2>1, <2>2, TypedPartsPrime
<1>2. CASE AddServer(c)
  <2>1. PICK s \in States, remote \in BOOLEAN :
          current' = s /\ server' = [server EXCEPT ![s] = Blank(remote, "stopped")]
    BY <1>2 DEF AddServer
  <2>2. Blank(remote, "stopped") \in ServerState
    BY BlankType DEF Statuses
  <2>3. Blank(remote, "stopped").status = "stopped"
    BY DEF Blank
  <2>4. UNCHANGED <<locals, cancelled, wedged>>
    BY <1>2 DEF AddServer
  <2>5. ServersTyped'
    BY <1>0, <2>1, <2>2, <2>3, <2>4 DEF ServersTyped
  <2>6. ThreadsTyped'
    BY <1>0, <2>4 DEF locals, ThreadsTyped, HoldsState, AttemptsLeft
  <2> QED
    BY <2>5, <2>6, TypedPartsPrime
<1>3. CASE AskRemove(c)
  <2>1. ServersTyped'
    BY <1>0, <1>3 DEF AskRemove, ServersTyped
  <2>2. ThreadsTyped'
    BY <1>0, <1>3 DEF AskRemove, Goto, ThreadsTyped, ServersTyped, Places,
                      HoldsState, AttemptsLeft
  <2> QED
    BY <2>1, <2>2, TypedPartsPrime
<1>4. CASE RemoveStops(c)
  <2>1. ServersTyped'
    <3>1. UNCHANGED <<current, wedged>>
      BY <1>4 DEF RemoveStops
    <3>2. CASE UNCHANGED <<server, cancelled>>
      BY <1>0, <3>1, <3>2 DEF ServersTyped
    <3>3. CASE current # None /\ Stop
      BY <1>0, <3>1, <3>3, StopTyped
    <3> QED
      BY <1>4, <3>2, <3>3 DEF RemoveStops
  <2>2. ThreadsTyped'
    BY <1>0, <1>4 DEF RemoveStops, Goto, ThreadsTyped, Places, HoldsState, AttemptsLeft
  <2> QED
    BY <2>1, <2>2, TypedPartsPrime
<1>5. CASE RemoveDeletes(c)
  <2>1. Absent \in ServerState
    BY BlankType DEF Absent, Statuses
  <2>2. ServersTyped'
    BY <1>0, <1>5, <2>1 DEF RemoveDeletes, ServersTyped
  <2>3. ThreadsTyped'
    BY <1>0, <1>5 DEF RemoveDeletes, Goto, ThreadsTyped, Places, HoldsState, AttemptsLeft
  <2> QED
    BY <2>2, <2>3, TypedPartsPrime
<1> QED
  BY <1>1, <1>2, <1>3, <1>4, <1>5

\* No step leaves the types.
LEMMA TypedStep == Typed /\ [Next]_vars => Typed'
<1> SUFFICES ASSUME Typed, [Next]_vars PROVE Typed'
  OBVIOUS
<1>0. Callers \subseteq Threads /\ Reconnects \subseteq Threads
  BY DEF Threads
<1>1. ASSUME NEW t \in Threads, RequestStart(t) \/ InnerStart(t) PROVE Typed'
  BY <1>1, StartServerTyped DEF RequestStart, InnerStart
<1>2. ASSUME NEW c \in Callers, CallerStep(c) PROVE Typed'
  BY <1>0, <1>1, <1>2, ConnectsTyped, CallTyped, StartReconnectTyped, AdminTyped
     DEF CallerStep
<1>3. ASSUME NEW r \in Reconnects, ReconnectStep(r) \/ Connects(r) PROVE Typed'
  BY <1>0, <1>1, <1>3, ConnectsTyped, ReconnectTyped DEF ReconnectStep, Connects
<1>4. CASE UNCHANGED vars
  BY <1>4 DEF vars, locals, Typed, TypeOK, HoldsState, AttemptsLeft
<1> QED
  BY <1>2, <1>3, <1>4 DEF Next

\* The types of TypeOK, and attempts within maxReconnectAttempts, for every
\* number of threads, reconnections and servers that carry the name.
THEOREM TypeCorrect == Spec => []TypeOK
<1>1. Typed => TypeOK
  BY DEF Typed
<1> QED
  BY <1>1, InitTyped, TypedStep, PTL DEF Spec

-----------------------------------------------------------------------------
(* A stopped server holds nothing *)

Clean(s) == s.status = "stopped" => s = Stopped(s)

\* The assignments of the code keep a clean serverState clean.
LEMMA CleanFields ==
  ASSUME NEW s \in ServerState, Clean(s)
  PROVE  /\ \A status \in {"starting", "error"} : Clean([s EXCEPT !.status = status])
         /\ Clean([s EXCEPT !.client = FALSE])
         /\ Clean([s EXCEPT !.client = TRUE, !.status = "running"])
         /\ Clean([s EXCEPT !.cancel = None])
         /\ \A r \in Reconnects : Clean([s EXCEPT !.status = "reconnecting", !.cancel = r])
         /\ Clean([s EXCEPT !.status = "error", !.cancel = None])
         /\ Clean(Stopped(s))
<1>1. ASSUME NEW v \in STRING, v # "stopped", NEW x \in ServerState, x.status = v
      PROVE  Clean(x)
  BY <1>1 DEF Clean
<1>2. s.status = "stopped" => s.client = FALSE /\ s.cancel = None
  BY DEF Clean, Stopped, Blank
<1>3. s.status = "stopped" => /\ [s EXCEPT !.client = FALSE] = s
                              /\ [s EXCEPT !.cancel = None] = s
  BY <1>2 DEF ServerState
<1>4. s.status # "stopped" => /\ [s EXCEPT !.client = FALSE].status # "stopped"
                              /\ [s EXCEPT !.cancel = None].status # "stopped"
  BY DEF ServerState
<1>5. Clean([s EXCEPT !.client = FALSE]) /\ Clean([s EXCEPT !.cancel = None])
  BY <1>3, <1>4 DEF Clean
<1>6. Clean(Stopped(s))
  BY DEF Clean, Stopped, Blank
<1> QED
  BY <1>5, <1>6 DEF Clean, ServerState

LEMMA CleanBlank ==
  ASSUME NEW remote, NEW status
  PROVE  Clean(Blank(remote, status))
BY DEF Clean, Stopped, Blank

\* What a step assigns to a serverState.
LEMMA Assignments ==
  ASSUME Typed, Next, NEW s \in States
  PROVE  \/ server'[s] = server[s]
         \/ \E status \in {"starting", "error"} : server'[s] = [server[s] EXCEPT !.status = status]
         \/ server'[s] = [server[s] EXCEPT !.client = FALSE]
         \/ server'[s] = [server[s] EXCEPT !.client = TRUE, !.status = "running"]
         \/ server'[s] = [server[s] EXCEPT !.cancel = None]
         \/ \E r \in Reconnects :
              server'[s] = [server[s] EXCEPT !.status = "reconnecting", !.cancel = r]
         \/ server'[s] = [server[s] EXCEPT !.status = "error", !.cancel = None]
         \/ server'[s] = Stopped(server[s])
         \/ server'[s] = Absent
         \/ \E remote \in BOOLEAN : server'[s] = Blank(remote, "stopped")
<1> DEFINE Goal ==
       \/ server'[s] = server[s]
       \/ \E status \in {"starting", "error"} : server'[s] = [server[s] EXCEPT !.status = status]
       \/ server'[s] = [server[s] EXCEPT !.client = FALSE]
       \/ server'[s] = [server[s] EXCEPT !.client = TRUE, !.status = "running"]
       \/ server'[s] = [server[s] EXCEPT !.cancel = None]
       \/ \E r \in Reconnects :
            server'[s] = [server[s] EXCEPT !.status = "reconnecting", !.cancel = r]
       \/ server'[s] = [server[s] EXCEPT !.status = "error", !.cancel = None]
       \/ server'[s] = Stopped(server[s])
       \/ server'[s] = Absent
       \/ \E remote \in BOOLEAN : server'[s] = Blank(remote, "stopped")
<1>1. server \in [States -> ServerState] /\ current \in States \cup {None}
  BY DEF Typed, TypeOK
<1>2. ASSUME NEW t \in Threads, RequestStart(t) \/ InnerStart(t) PROVE Goal
  <2>1. \/ UNCHANGED server
        \/ /\ current # None
           /\ server' = [server EXCEPT ![current].status = "starting"]
    BY <1>2 DEF RequestStart, InnerStart, StartServer
  <2> QED
    BY <1>1, <2>1
<1>3. ASSUME NEW t \in Threads, Connected(t) PROVE Goal
  <2>1. held[t] \in States
    BY <1>3 DEF Connected, Typed, HoldsState
  <2> QED
    BY <1>1, <1>3, <2>1 DEF Connected, ServerState
<1>4. ASSUME NEW new, AtName(new) PROVE server'[s] = server[s] \/ (server'[s] = new /\ s = current)
  <2>1. CASE current = None
    BY <1>4, <2>1 DEF AtName
  <2>2. CASE current # None
    <3>1. server' = [server EXCEPT ![current] = new]
      BY <1>4, <2>2 DEF AtName
    <3> QED
      BY <1>1, <3>1
  <2> QED
    BY <2>1, <2>2
<1>5. ASSUME NEW t \in Threads, ConnectFails(t) PROVE Goal
  BY <1>4, <1>5 DEF ConnectFails
<1>6. ASSUME NEW c \in Callers, NEW locked \in BOOLEAN, Panic(c, locked) PROVE Goal
  BY <1>1, <1>6 DEF Panic
<1>7. ASSUME NEW c \in Callers, CallTool(c) \/ Lookup(c) \/ CallReturns(c) \/ CallFails(c)
      PROVE  Goal
  <2>1. wedged \in BOOLEAN /\ TRUE \in BOOLEAN
    BY DEF Typed, TypeOK
  <2> QED
    BY <1>6, <1>7, <2>1 DEF CallTool, Lookup, CallReturns, CallFails
<1>8. ASSUME NEW c \in Callers, StartReconnect(c) PROVE Goal
  BY <1>1, <1>8 DEF StartReconnect, ServerState
<1>9. ASSUME NEW r \in Reconnects, ReconnectStep(r) PROVE Goal
  <2>1. CASE CancelObserved(r)
    BY <2>1 DEF CancelObserved
  <2>2. CASE BackoffEnds(r)
    BY <1>4, <2>2 DEF BackoffEnds
  <2>3. CASE Retry(r)
    BY <1>4, <2>3 DEF Retry
  <2>4. CASE Reconnected(r)
    BY <1>4, <2>4 DEF Reconnected
  <2>5. CASE Exhausted(r)
    BY <1>4, <2>5 DEF Exhausted
  <2>6. r \in Threads
    BY DEF Threads
  <2> QED
    BY <1>2, <1>9, <2>1, <2>2, <2>3, <2>4, <2>5, <2>6 DEF ReconnectStep
<1>10. ASSUME NEW c \in Callers, StopServer(c) \/ RemoveStops(c) PROVE Goal
  BY <1>1, <1>10 DEF StopServer, RemoveStops, Stop
<1>11. ASSUME NEW c \in Callers, AddServer(c) \/ AskRemove(c) \/ RemoveDeletes(c) PROVE Goal
  BY <1>1, <1>11 DEF AddServer, AskRemove, RemoveDeletes
<1>12. Callers \subseteq Threads /\ Reconnects \subseteq Threads
  BY DEF Threads
<1>13. ASSUME NEW c \in Callers, CallerStep(c) PROVE Goal
  <2> HIDE DEF Goal
  <2> QED
    BY <1>2, <1>3, <1>5, <1>7, <1>8, <1>10, <1>11, <1>12, <1>13 DEF CallerStep
<1>14. ASSUME NEW r \in Reconnects, ReconnectStep(r) \/ Connects(r) PROVE Goal
  <2> HIDE DEF Goal
  <2> QED
    BY <1>3, <1>5, <1>9, <1>12, <1>14 DEF Connects
<1> HIDE DEF Goal
<1>15. Goal
  BY <1>13, <1>14 DEF Next
<1> QED
  BY <1>15 DEF Goal

LEMMA StoppedStep ==
  ASSUME Typed, StoppedHoldsNothing, [Next]_vars
  PROVE  StoppedHoldsNothing'
<1> SUFFICES ASSUME NEW s \in States PROVE Clean(server'[s])
  BY DEF StoppedHoldsNothing, Clean, Stopped
<1>1. server[s] \in ServerState /\ Clean(server[s])
  BY DEF Typed, TypeOK, StoppedHoldsNothing, Clean
<1>2. CASE UNCHANGED vars
  BY <1>1, <1>2 DEF vars
<1>3. CASE Next
  <2>1. \A remote, status : Clean(Blank(remote, status))
    BY CleanBlank
  <2>2. Clean(Absent)
    BY <2>1 DEF Absent
  <2> DEFINE x == server[s]
  <2>3. x \in ServerState /\ Clean(x)
    BY <1>1
  <2> HIDE DEF x
  <2>4. /\ \A status \in {"starting", "error"} : Clean([x EXCEPT !.status = status])
        /\ Clean([x EXCEPT !.client = FALSE])
        /\ Clean([x EXCEPT !.client = TRUE, !.status = "running"])
        /\ Clean([x EXCEPT !.cancel = None])
        /\ \A r \in Reconnects : Clean([x EXCEPT !.status = "reconnecting", !.cancel = r])
        /\ Clean([x EXCEPT !.status = "error", !.cancel = None])
        /\ Clean(Stopped(x))
    BY <2>3, CleanFields
  <2>5. \/ server'[s] = x
        \/ \E status \in {"starting", "error"} : server'[s] = [x EXCEPT !.status = status]
        \/ server'[s] = [x EXCEPT !.client = FALSE]
        \/ server'[s] = [x EXCEPT !.client = TRUE, !.status = "running"]
        \/ server'[s] = [x EXCEPT !.cancel = None]
        \/ \E r \in Reconnects :
             server'[s] = [x EXCEPT !.status = "reconnecting", !.cancel = r]
        \/ server'[s] = [x EXCEPT !.status = "error", !.cancel = None]
        \/ server'[s] = Stopped(x)
        \/ server'[s] = Absent
        \/ \E remote \in BOOLEAN : server'[s] = Blank(remote, "stopped")
    BY <1>3, Assignments DEF x
  <2>6. CASE \E status \in {"starting", "error"} : server'[s] = [x EXCEPT !.status = status]
    BY <2>4, <2>6
  <2>7. CASE \E r \in Reconnects :
               server'[s] = [x EXCEPT !.status = "reconnecting", !.cancel = r]
    BY <2>4, <2>7
  <2>8. CASE \E remote \in BOOLEAN : server'[s] = Blank(remote, "stopped")
    BY <2>1, <2>8
  <2> QED
    BY <2>2, <2>3, <2>4, <2>5, <2>6, <2>7, <2>8
<1> QED
  BY <1>2, <1>3

\* A server that says "stopped" holds no client and no cancel function, for
\* every interleaving of starts, stops, removals and reconnections.
THEOREM StoppedIsFree == Spec => []StoppedHoldsNothing
<1>1. Init => StoppedHoldsNothing
  <2> SUFFICES ASSUME Init, NEW s \in States PROVE Clean(server[s])
    BY DEF StoppedHoldsNothing, Clean
  <2> QED
    BY CleanBlank DEF Init, Absent
<1>2. Typed /\ StoppedHoldsNothing /\ [Next]_vars => StoppedHoldsNothing'
  BY StoppedStep
<1> QED
  BY <1>1, <1>2, InitTyped, TypedStep, PTL DEF Spec

-----------------------------------------------------------------------------
(* A starting server has a starter *)

\* A step that keeps the named server's status, the handshakes and what they
\* hold keeps the starter.
LEMMA StarterKept ==
  ASSUME StartingHasStarter,
         UNCHANGED current,
         current # None => server'[current].status = server[current].status,
         \A t \in Threads : pc[t] = "connecting" =>
           pc'[t] = "connecting" /\ held'[t] = held[t]
  PROVE  StartingHasStarter'
BY DEF StartingHasStarter

\* So does a step after which the named server is not starting.
LEMMA StarterNotNeeded ==
  ASSUME current' # None => server'[current'].status # "starting"
  PROVE  StartingHasStarter'
BY DEF StartingHasStarter

LEMMA StarterOfPanic ==
  ASSUME Typed, StartingHasStarter, NEW c \in Callers, NEW locked, Panic(c, locked),
         pc[c] # "connecting"
  PROVE  StartingHasStarter'
<1>0. pc \in [Threads -> Places] /\ c \in Threads /\ server \in [States -> ServerState]
      /\ current \in States \cup {None}
  BY DEF Typed, TypeOK, Threads
<1>1. CASE c \in Handlers
  <2>1. UNCHANGED <<current, server, held>> /\ pc' = [pc EXCEPT ![c] = "idle"]
    BY <1>1, ManagerAssumption DEF Panic, Leave, Goto
  <2> QED
    BY <1>0, <2>1, StarterKept
<1>2. CASE c \in Agents
  <2>1. UNCHANGED current
        /\ server' = [s \in States |-> IF s = current THEN Stopped(server[s]) ELSE Absent]
    BY <1>2, ManagerAssumption DEF Panic
  <2>2. current # None => server'[current].status = "stopped"
    BY <1>0, <2>1 DEF Stopped, Blank
  <2> QED
    BY <2>1, <2>2, StarterNotNeeded
<1> QED
  BY <1>1, <1>2 DEF Callers

LEMMA StarterStep ==
  ASSUME Typed, StartingHasStarter, [Next]_vars
  PROVE  StartingHasStarter'
<1>0. /\ pc \in [Threads -> Places]
      /\ held \in [Threads -> States \cup {None}]
      /\ server \in [States -> ServerState]
      /\ current \in States \cup {None}
      /\ Callers \subseteq Threads /\ Reconnects \subseteq Threads
  BY DEF Typed, TypeOK, Threads
<1>a. ASSUME NEW new, AtName(new) PROVE current # None => server'[current] = new
  BY <1>0, <1>a DEF AtName
<1>1. ASSUME NEW t \in Threads, RequestStart(t) \/ InnerStart(t) PROVE StartingHasStarter'
  <2>1. pc[t] # "connecting" /\ UNCHANGED current /\ StartServer(t)
    BY <1>1 DEF RequestStart, InnerStart
  <2>2. CASE current = None \/ server[current].status = "running"
    BY <1>0, <2>1, <2>2, StarterKept DEF StartServer, Return, Goto
  <2>3. CASE current # None /\ server[current].status # "running"
    <3>1. held'[t] = current /\ pc'[t] = "connecting"
      BY <1>0, <2>1, <2>3 DEF StartServer, Goto
    <3> QED
      BY <2>1, <3>1 DEF StartingHasStarter
  <2> QED
    BY <2>2, <2>3
<1>2. ASSUME NEW t \in Threads, Connected(t) PROVE StartingHasStarter'
  <2>0. held[t] \in States /\ UNCHANGED current
    BY <1>2 DEF Connected, Typed, HoldsState
  <2>1. server' = [server EXCEPT ![held[t]].client = TRUE, ![held[t]].status = "running"]
    BY <1>2 DEF Connected
  <2>2. CASE held[t] = current
    <3>1. server'[current].status = "running"
      BY <1>0, <2>0, <2>1, <2>2 DEF ServerState
    <3> QED
      BY <2>0, <3>1, StarterNotNeeded
  <2>3. CASE held[t] # current
    <3>1. current # None => server'[current] = server[current]
      BY <1>0, <2>0, <2>1, <2>3
    <3>2. \A u \in Threads \ {t} : pc'[u] = pc[u] /\ held'[u] = held[u]
      BY <1>0, <1>2 DEF Connected, Return, Goto
    <3> QED
      BY <2>0, <2>3, <3>1, <3>2 DEF StartingHasStarter
  <2> QED
    BY <2>2, <2>3
<1>3. ASSUME NEW t \in Threads, ConnectFails(t) PROVE StartingHasStarter'
  <2>1. UNCHANGED current /\ AtName([server[current] EXCEPT !.status = "error"])
    BY <1>3 DEF ConnectFails
  <2>2. current # None => server'[current] = [server[current] EXCEPT !.status = "error"]
    BY <1>a, <2>1
  <2> QED
    BY <1>0, <2>1, <2>2, StarterNotNeeded DEF ServerState
<1>4. ASSUME NEW c \in Callers, CallTool(c) \/ Lookup(c) \/ CallReturns(c) \/ CallFails(c)
      PROVE  StartingHasStarter'
  <2>1. pc[c] # "connecting"
    BY <1>4 DEF CallTool, Lookup, CallReturns, CallFails
  <2>2. CASE Panic(c, TRUE) \/ Panic(c, wedged)
    BY <2>1, <2>2, StarterOfPanic
  <2>3. CASE UNCHANGED <<current, server, held>> /\ \E place \in Places : Goto(c, place)
    BY <1>0, <2>1, <2>3, StarterKept DEF Goto
  <2> QED
    BY <1>4, <2>2, <2>3 DEF CallTool, Lookup, CallReturns, CallFails, Leave, Places
<1>5. ASSUME NEW c \in Callers, StartReconnect(c) PROVE StartingHasStarter'
  <2>1. CASE current = None
    BY <1>5, <2>1, StarterNotNeeded DEF StartReconnect
  <2>2. CASE current # None
    <3>1. server'[current].status = "reconnecting" /\ UNCHANGED current
      BY <1>0, <1>5, <2>2 DEF StartReconnect, ServerState
    <3> QED
      BY <3>1, StarterNotNeeded
  <2> QED
    BY <2>1, <2>2
<1>6. ASSUME NEW r \in Reconnects, ReconnectStep(r) PROVE StartingHasStarter'
  <2>1. CASE CancelObserved(r) \/ BackoffEnds(r) \/ Reconnected(r)
    <3>1. UNCHANGED <<current, held>> /\ pc[r] # "connecting"
          /\ \E place \in Places : Goto(r, place)
      BY <2>1 DEF CancelObserved, BackoffEnds, Reconnected, End, Places
    <3>2. current # None => server'[current].status = server[current].status
      <4>1. CASE CancelObserved(r)
        BY <4>1 DEF CancelObserved
      <4>2. CASE BackoffEnds(r)
        <5>1. current # None => server'[current] = [server[current] EXCEPT !.client = FALSE]
          BY <1>a, <4>2 DEF BackoffEnds
        <5> QED
          BY <1>0, <5>1 DEF ServerState
      <4>3. CASE Reconnected(r)
        <5>1. current # None => server'[current] = [server[current] EXCEPT !.cancel = None]
          BY <1>a, <4>3 DEF Reconnected
        <5> QED
          BY <1>0, <5>1 DEF ServerState
      <4> QED
        BY <2>1, <4>1, <4>2, <4>3
    <3> QED
      BY <1>0, <3>1, <3>2, StarterKept DEF Goto
  <2>2. CASE Retry(r)
    <3>1. UNCHANGED current /\ (current # None =>
            server'[current] = [server[current] EXCEPT !.status = "reconnecting", !.cancel = r])
      BY <1>a, <2>2 DEF Retry
    <3> QED
      BY <1>0, <3>1, StarterNotNeeded DEF ServerState
  <2>3. CASE Exhausted(r)
    <3>1. UNCHANGED current /\ (current # None =>
            server'[current] = [server[current] EXCEPT !.status = "error", !.cancel = None])
      BY <1>a, <2>3 DEF Exhausted
    <3> QED
      BY <1>0, <3>1, StarterNotNeeded DEF ServerState
  <2> QED
    BY <1>0, <1>1, <1>6, <2>1, <2>2, <2>3 DEF ReconnectStep
<1>7. ASSUME current # None, Stop, UNCHANGED current PROVE StartingHasStarter'
  <2>1. server'[current] = Stopped(server[current])
    BY <1>0, <1>7 DEF Stop
  <2> QED
    BY <1>7, <2>1, StarterNotNeeded DEF Stopped, Blank
<1>8. ASSUME NEW c \in Callers, StopServer(c) PROVE StartingHasStarter'
  BY <1>7, <1>8 DEF StopServer
<1>9. ASSUME NEW c \in Callers, AddServer(c) PROVE StartingHasStarter'
  <2>1. current' # None => server'[current'].status = "stopped"
    BY <1>0, <1>9 DEF AddServer, Blank
  <2> QED
    BY <2>1, StarterNotNeeded
<1>10. ASSUME NEW c \in Callers, AskRemove(c) \/ RemoveStops(c) PROVE StartingHasStarter'
  <2>1. pc[c] # "connecting" /\ UNCHANGED current
        /\ \A t \in Threads \ {c} : pc'[t] = pc[t] /\ held'[t] = held[t]
    BY <1>0, <1>10 DEF AskRemove, RemoveStops, Goto
  <2>2. CASE UNCHANGED server
    BY <2>1, <2>2, StarterKept
  <2>3. CASE current # None /\ Stop
    BY <1>7, <2>1, <2>3
  <2> QED
    BY <1>10, <2>2, <2>3 DEF AskRemove, RemoveStops
<1>11. ASSUME NEW c \in Callers, RemoveDeletes(c) PROVE StartingHasStarter'
  BY <1>11, StarterNotNeeded DEF RemoveDeletes
<1>12. CASE UNCHANGED vars
  BY <1>12, StarterKept DEF vars, locals
<1>13. ASSUME NEW c \in Callers, CallerStep(c) PROVE StartingHasStarter'
  BY <1>0, <1>1, <1>2, <1>3, <1>4, <1>5, <1>8, <1>9, <1>10, <1>11, <1>13 DEF CallerStep
<1>14. ASSUME NEW r \in Reconnects, ReconnectStep(r) \/ Connects(r) PROVE StartingHasStarter'
  BY <1>0, <1>2, <1>3, <1>6, <1>14 DEF Connects
<1> QED
  BY <1>12, <1>13, <1>14 DEF Next

\* A server never says "starting" without a StartServer in its handshake.
THEOREM StartsAreStarted == Spec => []StartingHasStarter
<1>1. Init => StartingHasStarter
  BY DEF Init, StartingHasStarter, Blank
<1>2. Typed /\ StartingHasStarter /\ [Next]_vars => StartingHasStarter'
  BY StarterStep
<1> QED
  BY <1>1, <1>2, InitTyped, TypedStep, PTL DEF Spec

-----------------------------------------------------------------------------
(* reconnectCancel reaches a goroutine *)

\* A step that assigns no cancel function to the named server, un-cancels
\* nobody and ends no goroutine but cancelled ones keeps the invariant.
LEMMA CancelKept ==
  ASSUME Typed, CancelReachesLive, UNCHANGED current,
         current # None => server'[current].cancel \in {server[current].cancel, None},
         cancelled \subseteq cancelled',
         \A r \in Reconnects \ cancelled : Live(r) => Live(r)'
  PROVE  CancelReachesLive'
<1>1. current # None => server[current].cancel \in Reconnects \cup {None}
  BY DEF Typed, TypeOK, ServerState
<1> QED
  BY <1>1, ManagerAssumption DEF CancelReachesLive

\* So does a step after which the named server keeps no cancel function.
LEMMA CancelNotKept ==
  ASSUME current' # None => server'[current'].cancel = None
  PROVE  CancelReachesLive'
BY DEF CancelReachesLive

LEMMA CancelOfPanic ==
  ASSUME Typed, CancelReachesLive, NEW c \in Callers, NEW locked, Panic(c, locked)
  PROVE  CancelReachesLive'
<1>0. pc \in [Threads -> Places] /\ server \in [States -> ServerState]
      /\ current \in States \cup {None} /\ c \notin Reconnects
  BY ManagerAssumption DEF Typed, TypeOK
<1>1. CASE c \in Handlers
  <2>1. UNCHANGED <<current, server, cancelled>> /\ pc' = [pc EXCEPT ![c] = "idle"]
    BY <1>1, ManagerAssumption DEF Panic, Leave, Goto
  <2>2. \A r \in Reconnects : pc'[r] = pc[r]
    BY <1>0, <2>1
  <2> QED
    BY <2>1, <2>2, CancelKept DEF Live
<1>2. CASE c \in Agents
  <2>1. UNCHANGED current
        /\ server' = [s \in States |-> IF s = current THEN Stopped(server[s]) ELSE Absent]
    BY <1>2, ManagerAssumption DEF Panic
  <2>2. current # None => server'[current].cancel = None
    BY <1>0, <2>1 DEF Stopped, Blank
  <2> QED
    BY <2>1, <2>2, CancelNotKept
<1> QED
  BY <1>1, <1>2 DEF Callers

LEMMA CancelStep ==
  ASSUME Typed, CancelReachesLive, [Next]_vars
  PROVE  CancelReachesLive'
<1>0. /\ pc \in [Threads -> Places]
      /\ held \in [Threads -> States \cup {None}]
      /\ server \in [States -> ServerState]
      /\ current \in States \cup {None}
      /\ Callers \subseteq Threads /\ Reconnects \subseteq Threads
      /\ Callers \cap Reconnects = {} /\ inCall \subseteq Callers
  BY ManagerAssumption DEF Typed, TypeOK, Threads
<1>a. ASSUME NEW new, AtName(new) PROVE current # None => server'[current] = new
  BY <1>0, <1>a DEF AtName
<1>b. ASSUME NEW c \in Callers, \A t \in Threads \ {c} : pc'[t] = pc[t]
      PROVE  \A r \in Reconnects : Live(r) => Live(r)'
  BY <1>0, <1>b DEF Live
<1>c. ASSUME NEW r \in Reconnects, \A t \in Threads \ {r} : pc'[t] = pc[t],
             pc'[r] \notin {"unused", "done"}
      PROVE  \A q \in Reconnects : Live(q) => Live(q)'
  BY <1>0, <1>c DEF Live
<1>1. ASSUME NEW t \in Threads, RequestStart(t) \/ InnerStart(t) PROVE CancelReachesLive'
  <2>1. UNCHANGED <<current, cancelled>> /\ StartServer(t)
    BY <1>1 DEF RequestStart, InnerStart
  <2>2. \/ UNCHANGED server
        \/ current # None /\ server' = [server EXCEPT ![current].status = "starting"]
    BY <2>1 DEF StartServer
  <2>3. current # None => server'[current].cancel = server[current].cancel
    BY <1>0, <2>2 DEF ServerState
  <2>4. \A u \in Threads \ {t} : pc'[u] = pc[u]
    BY <1>0, <2>1 DEF StartServer, Return, Goto
  <2>5. t \in Reconnects => pc'[t] \in {"err", "ok", "connecting"}
    BY <1>0, <2>1 DEF StartServer, Return, Goto
  <2>6. \A r \in Reconnects : Live(r) => Live(r)'
    BY <1>0, <2>4, <2>5 DEF Live
  <2> QED
    BY <2>1, <2>3, <2>6, CancelKept
<1>2. ASSUME NEW t \in Threads, Connected(t) \/ ConnectFails(t) PROVE CancelReachesLive'
  <2>1. UNCHANGED <<current, cancelled>>
    BY <1>2 DEF Connected, ConnectFails
  <2>2. current # None => server'[current].cancel = server[current].cancel
    <3>1. CASE Connected(t)
      <4>1. held[t] \in States
        BY <3>1 DEF Connected, Typed, HoldsState
      <4> QED
        BY <1>0, <3>1, <4>1 DEF Connected, ServerState
    <3>2. CASE ConnectFails(t)
      <4>1. current # None => server'[current] = [server[current] EXCEPT !.status = "error"]
        BY <1>a, <3>2 DEF ConnectFails
      <4> QED
        BY <1>0, <4>1 DEF ServerState
    <3> QED
      BY <1>2, <3>1, <3>2
  <2>3. \A u \in Threads \ {t} : pc'[u] = pc[u]
    BY <1>0, <1>2 DEF Connected, ConnectFails, Return, Goto
  <2>4. t \in Reconnects => pc'[t] \in {"err", "ok"}
    BY <1>0, <1>2 DEF Connected, ConnectFails, Return, Goto
  <2>5. \A r \in Reconnects : Live(r) => Live(r)'
    BY <1>0, <2>3, <2>4 DEF Live
  <2> QED
    BY <2>1, <2>2, <2>5, CancelKept
<1>3. ASSUME NEW c \in Callers, CallTool(c) \/ Lookup(c) \/ CallReturns(c) \/ CallFails(c)
      PROVE  CancelReachesLive'
  <2>1. CASE Panic(c, TRUE) \/ Panic(c, wedged)
    BY <2>1, CancelOfPanic
  <2>2. CASE UNCHANGED <<current, server, cancelled>> /\ \E place \in Places : Goto(c, place)
    BY <1>0, <1>b, <2>2, CancelKept DEF Goto
  <2> QED
    BY <1>3, <2>1, <2>2 DEF CallTool, Lookup, CallReturns, CallFails, Leave, Places
<1>4. ASSUME NEW c \in Callers, StartReconnect(c) PROVE CancelReachesLive'
  <2>1. CASE current = None
    BY <1>4, <2>1, CancelNotKept DEF StartReconnect
  <2>2. CASE current # None
    <3>1. PICK r \in Reconnects :
            /\ pc' = [pc EXCEPT ![r] = "waiting", ![c] = "idle"]
            /\ server' = [server EXCEPT ![current].status = "reconnecting",
                                        ![current].cancel = r]
      BY <1>4, <2>2 DEF StartReconnect
    <3>2. pc'[r] = "waiting" /\ server'[current].cancel = r /\ UNCHANGED current
      BY <1>0, <1>4, <2>2, <3>1 DEF StartReconnect, ServerState
    <3> QED
      BY <3>2 DEF CancelReachesLive, Live
  <2> QED
    BY <2>1, <2>2
<1>5. ASSUME NEW r \in Reconnects, ReconnectStep(r) PROVE CancelReachesLive'
  <2>1. CASE CancelObserved(r)
    <3>1. UNCHANGED <<current, server, cancelled>> /\ r \in cancelled
          /\ \A t \in Threads \ {r} : pc'[t] = pc[t]
      BY <1>0, <2>1 DEF CancelObserved, End, Goto
    <3>2. \A q \in Reconnects \ cancelled : Live(q) => Live(q)'
      BY <1>0, <3>1 DEF Live
    <3> QED
      BY <3>1, <3>2, CancelKept
  <2>2. CASE BackoffEnds(r)
    <3>1. current # None => server'[current] = [server[current] EXCEPT !.client = FALSE]
      BY <1>a, <2>2 DEF BackoffEnds
    <3>2. UNCHANGED <<current, cancelled>> /\ pc' = [pc EXCEPT ![r] = "start"]
      BY <2>2 DEF BackoffEnds, Goto
    <3>3. \A q \in Reconnects : Live(q) => Live(q)'
      BY <1>0, <1>c, <3>2
    <3>4. current # None => server'[current].cancel = server[current].cancel
      BY <1>0, <3>1 DEF ServerState
    <3> QED
      BY <3>2, <3>3, <3>4, CancelKept
  <2>3. CASE Retry(r)
    <3>1. UNCHANGED current /\ (current # None =>
            server'[current] = [server[current] EXCEPT !.status = "reconnecting", !.cancel = r])
      BY <1>a, <2>3 DEF Retry
    <3>2. pc'[r] \in {"exhausted", "waiting"}
      BY <1>0, <2>3 DEF Retry, Goto
    <3>3. current # None => server'[current].cancel = r
      BY <1>0, <3>1 DEF ServerState
    <3> QED
      BY <3>1, <3>2, <3>3 DEF CancelReachesLive, Live
  <2>4. CASE Reconnected(r)
    <3>1. UNCHANGED current /\ (current # None =>
            server'[current] = [server[current] EXCEPT !.cancel = None])
      BY <1>a, <2>4 DEF Reconnected
    <3> QED
      BY <1>0, <3>1, CancelNotKept DEF ServerState
  <2>5. CASE Exhausted(r)
    <3>1. UNCHANGED current /\ (current # None =>
            server'[current] = [server[current] EXCEPT !.status = "error", !.cancel = None])
      BY <1>a, <2>5 DEF Exhausted
    <3> QED
      BY <1>0, <3>1, CancelNotKept DEF ServerState
  <2> QED
    BY <1>0, <1>1, <1>5, <2>1, <2>2, <2>3, <2>4, <2>5 DEF ReconnectStep
<1>6. ASSUME current # None, Stop, UNCHANGED current PROVE CancelReachesLive'
  <2>1. server'[current] = Stopped(server[current])
    BY <1>0, <1>6 DEF Stop
  <2> QED
    BY <1>6, <2>1, CancelNotKept DEF Stopped, Blank
<1>7. ASSUME NEW c \in Callers, StopServer(c) PROVE CancelReachesLive'
  BY <1>6, <1>7 DEF StopServer
<1>8. ASSUME NEW c \in Callers, AddServer(c) PROVE CancelReachesLive'
  <2>1. current' # None => server'[current'].cancel = None
    BY <1>0, <1>8 DEF AddServer, Blank
  <2> QED
    BY <2>1, CancelNotKept
<1>9. ASSUME NEW c \in Callers, AskRemove(c) \/ RemoveStops(c) PROVE CancelReachesLive'
  <2>1. UNCHANGED current /\ \A t \in Threads \ {c} : pc'[t] = pc[t]
    BY <1>0, <1>9 DEF AskRemove, RemoveStops, Goto
  <2>2. CASE UNCHANGED <<server, cancelled>>
    BY <1>b, <2>1, <2>2, CancelKept
  <2>3. CASE current # None /\ Stop
    BY <1>6, <2>1, <2>3
  <2> QED
    BY <1>9, <2>2, <2>3 DEF AskRemove, RemoveStops
<1>10. ASSUME NEW c \in Callers, RemoveDeletes(c) PROVE CancelReachesLive'
  BY <1>10, CancelNotKept DEF RemoveDeletes
<1>11. CASE UNCHANGED vars
  BY <1>11, CancelKept DEF vars, locals, Live
<1>12. ASSUME NEW c \in Callers, CallerStep(c) PROVE CancelReachesLive'
  BY <1>0, <1>1, <1>2, <1>3, <1>4, <1>7, <1>8, <1>9, <1>10, <1>12 DEF CallerStep
<1>13. ASSUME NEW r \in Reconnects, ReconnectStep(r) \/ Connects(r) PROVE CancelReachesLive'
  BY <1>0, <1>2, <1>5, <1>13 DEF Connects
<1> QED
  BY <1>11, <1>12, <1>13 DEF Next

\* The cancel function kept for the named server belongs to a goroutine that
\* is alive or was cancelled, for every number of overlapping reconnections.
THEOREM CancelIsNeverStale == Spec => []CancelReachesLive
<1>1. Init => CancelReachesLive
  BY DEF Init, CancelReachesLive, Blank
<1>2. Typed /\ CancelReachesLive /\ [Next]_vars => CancelReachesLive'
  BY CancelStep
<1> QED
  BY <1>1, <1>2, InitTyped, TypedStep, PTL DEF Spec

-----------------------------------------------------------------------------
(* Browser.                                                                *)

USE BrowserAssumption

\* Only a tool waits for an answer, and what it attaches belongs to the current connection
\* unless that has changed.
OnlyToolsWait ==
  \A t \in Goroutines : thread[t].sent # 0 => thread[t].at \in {"list", "attach", "act"}
AttachmentsFit ==
  \A t \in Goroutines : thread[t].at = "attach" => thread[t].sent \in {0, client} \/ crossed

BrowserInv == BrowserTypeOK /\ OnlyToolsWait /\ AttachmentsFit /\ ConnectionsHaveOwner /\ SessionsFit

LinkTyped ==
  /\ enabled \in BOOLEAN /\ file \in BOOLEAN
  /\ client \in 0 .. MaxClients
  /\ connected \in BOOLEAN
  /\ conn \in [Clients -> {"none", "open", "closed"}]
  /\ closers \in SUBSET Clients
  /\ poller \in 0 .. MaxPollers
  /\ session \in 0 .. MaxClients
  /\ crossed \in BOOLEAN

\* The lock, and those who may hold it.
Locked ==
  /\ mu \in Goroutines \cup Pollers \cup {Nobody}
  /\ poll \in [Pollers -> {"none", "waiting", "ticked", "version"}]
  /\ thread \in [Goroutines -> Thread]
  /\ mu \in Goroutines => thread[mu].at = "version"
  /\ mu \in Pollers => poll[mu] = "version"

LEMMA BrowserTypes == BrowserTypeOK <=> LinkTyped /\ Locked
BY DEF BrowserTypeOK, LinkTyped, Locked

LEMMA BrowserTypesPrimed == BrowserTypeOK' <=> LinkTyped' /\ Locked'
BY DEF BrowserTypeOK, LinkTyped, Locked

LEMMA IdleFields ==
  /\ Idle \in Thread /\ Idle.at = "idle" /\ Idle.sent = 0 /\ Idle.held = 0 /\ Idle.value = FALSE
  /\ Clients \subseteq 0 .. MaxClients /\ 0 \notin Clients
BY DEF Idle, Thread, Clients

LEMMA BrowserBounds ==
  /\ 0 \in 0 .. MaxClients /\ 0 \in 0 .. MaxPollers
  /\ Nobody \notin Goroutines /\ Nobody \notin Pollers
BY DEF BrowserAssumption

-----------------------------------------------------------------------------
(* A goroutine moves and the connection stays what it is.                  *)

\* One goroutine becomes x; connection, cache and lock stay.
LEMMA GoroutineMoves ==
  ASSUME BrowserInv, NEW t \in Goroutines, NEW x \in Thread, thread' = [thread EXCEPT ![t] = x],
         enabled' \in BOOLEAN, file' \in BOOLEAN, UNCHANGED <<link, polling, crossed>>,
         thread[t].at \notin {"version", "close"},
         x.sent # 0 => x.at \in {"list", "attach", "act"},
         x.at = "attach" => x.sent \in {0, client} \/ crossed,
         session' = session \/ (session' \in 0 .. MaxClients /\ (session' = client \/ crossed))
  PROVE  BrowserInv'
<1>1. LinkTyped /\ Locked
  BY BrowserTypes DEF BrowserInv
<1>2. thread'[t] = x /\ \A u \in Goroutines \ {t} : thread'[u] = thread[u]
  BY <1>1 DEF Locked
<1>3. thread' \in [Goroutines -> Thread]
  BY <1>1 DEF Locked
<1>4. Locked'
  BY <1>1, <1>2, <1>3 DEF Locked, link, polling
<1>5. LinkTyped'
  BY <1>1 DEF LinkTyped, link, polling
<1>6. OnlyToolsWait'
  BY <1>2 DEF BrowserInv, OnlyToolsWait
<1>7. AttachmentsFit'
  BY <1>2 DEF BrowserInv, AttachmentsFit, link
<1>8. ConnectionsHaveOwner'
  BY <1>2 DEF BrowserInv, ConnectionsHaveOwner, link
<1>9. SessionsFit'
  BY DEF BrowserInv, SessionsFit, link
<1> QED
  BY <1>4, <1>5, <1>6, <1>7, <1>8, <1>9, BrowserTypesPrimed DEF BrowserInv

\* connectLocked, whoever calls it.
LEMMA ConnectKeeps ==
  ASSUME BrowserInv, Connect, enabled' \in BOOLEAN, file' = file, poller' = poller
  PROVE  /\ LinkTyped' /\ SessionsFit'
         /\ \A u \in Goroutines : thread[u].at = "attach" => thread[u].sent = 0 \/ crossed'
         /\ \A j \in Clients : conn'[j] = "open" =>
              \/ j = client' \/ j \in closers'
              \/ \E u \in Goroutines : thread[u].at = "close" /\ thread[u].held = j
<1>1. LinkTyped
  BY BrowserTypes DEF BrowserInv
<1>2. PICK k \in Clients :
        /\ conn' = [conn EXCEPT ![k] = "open"]
        /\ closers' = IF client # 0 THEN closers \cup {client} ELSE closers
        /\ client' = k /\ connected' = TRUE /\ session' = 0 /\ crossed' = Attaching
  BY DEF Connect
<1>3. LinkTyped'
  BY <1>1, <1>2 DEF LinkTyped, Clients, Attaching
<1>4. SessionsFit'
  BY <1>2 DEF SessionsFit
<1>5. \A u \in Goroutines : thread[u].at = "attach" => thread[u].sent = 0 \/ crossed'
  BY <1>2 DEF Attaching
<1>6. ASSUME NEW j \in Clients, conn'[j] = "open"
      PROVE  \/ j = client' \/ j \in closers'
             \/ \E u \in Goroutines : thread[u].at = "close" /\ thread[u].held = j
  <2>1. CASE j = k
    BY <1>2, <2>1
  <2>2. CASE j # k
    <3>1. conn[j] = "open"
      BY <1>1, <1>2, <1>6, <2>2 DEF LinkTyped
    <3>2. closers \subseteq closers' /\ (client # 0 => client \in closers') /\ 0 \notin Clients
      BY <1>2 DEF Clients
    <3> QED
      BY <3>1, <3>2 DEF BrowserInv, ConnectionsHaveOwner
  <2> QED
    BY <2>1, <2>2
<1> QED
  BY <1>3, <1>4, <1>5, <1>6

\* A poll goroutine moves; the connection stays, but for its lock.
LEMMA PollerMoves ==
  ASSUME BrowserInv, Locked', poller' \in 0 .. MaxPollers,
         UNCHANGED <<setting, client, connected, conn, closers, cache, thread>>
  PROVE  BrowserInv'
<1>1. LinkTyped'
  BY BrowserTypes DEF BrowserInv, LinkTyped, setting, cache
<1>2. OnlyToolsWait' /\ AttachmentsFit' /\ ConnectionsHaveOwner' /\ SessionsFit'
  BY DEF BrowserInv, OnlyToolsWait, AttachmentsFit, ConnectionsHaveOwner, SessionsFit, cache
<1> QED
  BY <1>1, <1>2, BrowserTypesPrimed DEF BrowserInv

LEMMA PollStep ==
  ASSUME BrowserInv, NEW p \in Pollers, Poll(p)
  PROVE  BrowserInv'
<1>0. LinkTyped /\ Locked
  BY BrowserTypes DEF BrowserInv
<1>1. ASSUME Tick(p) \/ PollEnds(p) PROVE BrowserInv'
  <2>1. Locked'
    BY <1>0, <1>1 DEF Tick, PollEnds, Locked, link
  <2> QED
    BY <1>0, <1>1, <2>1, PollerMoves DEF Tick, PollEnds, link, LinkTyped
<1>2. ASSUME ReconnectEnds(p) PROVE BrowserInv'
  <2>1. Locked'
    BY <1>0, <1>2 DEF ReconnectEnds, Locked
  <2> QED
    BY <1>0, <1>2, <2>1, PollerMoves DEF ReconnectEnds, LinkTyped
<1>3. ASSUME NEW reachable \in BOOLEAN, Reconnect(p, reachable) PROVE BrowserInv'
  <2>1. poll[p] = "ticked" /\ mu = Nobody /\ UNCHANGED <<setting, poller, thread>>
    BY <1>3 DEF Reconnect, Free
  <2>2. CASE connected \/ ~reachable
    <3>1. poll' = [poll EXCEPT ![p] = "waiting"] /\ UNCHANGED <<link, cache>>
      BY <1>3, <2>2 DEF Reconnect
    <3>2. Locked'
      BY <1>0, <2>1, <3>1 DEF Locked, link
    <3> QED
      BY <1>0, <2>1, <3>1, <3>2, PollerMoves DEF link, LinkTyped
  <2>3. CASE ~(connected \/ ~reachable)
    <3>1. Connect /\ mu' = p /\ poll' = [poll EXCEPT ![p] = "version"]
      BY <1>3, <2>3 DEF Reconnect
    <3>2. Locked'
      BY <1>0, <2>1, <3>1 DEF Locked
    <3>3. enabled' \in BOOLEAN /\ file' = file /\ poller' = poller /\ thread' = thread
      BY <1>0, <2>1 DEF LinkTyped, setting
    <3>4. LinkTyped' /\ SessionsFit' /\ ConnectionsHaveOwner' /\ AttachmentsFit'
      BY <3>1, <3>3, ConnectKeeps DEF ConnectionsHaveOwner, AttachmentsFit
    <3>5. OnlyToolsWait'
      BY <3>3 DEF BrowserInv, OnlyToolsWait
    <3> QED
      BY <3>2, <3>4, <3>5, BrowserTypesPrimed DEF BrowserInv
  <2> QED
    BY <2>2, <2>3
<1> QED
  BY <1>1, <1>2, <1>3 DEF Poll

\* A connection ends, here or there.
LEMMA ConnectionEnds ==
  ASSUME BrowserInv, NEW k \in Clients, Drop(k) \/ Close(k) \/ OnClose(k)
  PROVE  BrowserInv'
<1>0. LinkTyped /\ Locked
  BY BrowserTypes DEF BrowserInv
<1>1. /\ UNCHANGED <<setting, mu, client, polling, cache, thread>>
      /\ conn' \in [Clients -> {"none", "open", "closed"}]
      /\ \A j \in Clients : conn'[j] = "open" => conn[j] = "open" /\ (j \in closers => j \in closers')
      /\ closers' \subseteq closers /\ connected' \in BOOLEAN
  BY <1>0 DEF Drop, Close, OnClose, LinkTyped
<1>2. LinkTyped' /\ Locked'
  BY <1>0, <1>1 DEF LinkTyped, Locked, setting, polling, cache
<1>3. ConnectionsHaveOwner'
  BY <1>1 DEF BrowserInv, ConnectionsHaveOwner
<1>4. OnlyToolsWait' /\ AttachmentsFit' /\ SessionsFit'
  BY <1>1 DEF BrowserInv, OnlyToolsWait, AttachmentsFit, SessionsFit, cache
<1> QED
  BY <1>2, <1>3, <1>4, BrowserTypesPrimed DEF BrowserInv

-----------------------------------------------------------------------------
(* Enable, Disable and the tools.                                          *)

\* What a goroutine is.
LEMMA GoroutineFields ==
  ASSUME BrowserInv, NEW t \in Goroutines
  PROVE  /\ thread[t] \in Thread /\ client \in 0 .. MaxClients /\ session \in 0 .. MaxClients
         /\ enabled \in BOOLEAN /\ file \in BOOLEAN
         /\ thread[t].sent # 0 => thread[t].at \in {"list", "attach", "act"}
         /\ thread[t].sent \in 0 .. MaxClients /\ thread[t].value \in BOOLEAN
BY DEF BrowserInv, BrowserTypeOK, OnlyToolsWait, Thread

\* The polling starts, and the goroutine goes on to save the setting.
LEMMA PollingStarts ==
  ASSUME BrowserInv, NEW t \in Goroutines, thread[t].at \in {"enable", "version"},
         StartPolling, thread' = [thread EXCEPT ![t].at = "save"],
         enabled' \in BOOLEAN, mu' \in {mu, Nobody}, mu' # t,
         UNCHANGED <<file, client, connected, conn, closers, cache>>
  PROVE  BrowserInv'
<1>0. LinkTyped /\ Locked
  BY BrowserTypes DEF BrowserInv
<1>1. PICK p \in Pollers : poll[p] = "none" /\ poller' = p /\ poll' = [poll EXCEPT ![p] = "waiting"]
  BY DEF StartPolling
<1>2. /\ thread' \in [Goroutines -> Thread] /\ thread'[t].at = "save"
      /\ thread'[t].sent = thread[t].sent /\ thread[t].sent = 0
      /\ \A u \in Goroutines \ {t} : thread'[u] = thread[u]
  BY <1>0, GoroutineFields DEF Locked, Thread
<1>3. Locked'
  BY <1>0, <1>1, <1>2 DEF Locked
<1>4. LinkTyped'
  BY <1>0, <1>1 DEF LinkTyped, Pollers, cache
<1>5. OnlyToolsWait' /\ AttachmentsFit'
  BY <1>2 DEF BrowserInv, OnlyToolsWait, AttachmentsFit, cache
<1>6. ConnectionsHaveOwner'
  BY <1>2 DEF BrowserInv, ConnectionsHaveOwner
<1>7. SessionsFit'
  BY DEF BrowserInv, SessionsFit, cache
<1> QED
  BY <1>3, <1>4, <1>5, <1>6, <1>7, BrowserTypesPrimed DEF BrowserInv

LEMMA EnableStep ==
  ASSUME BrowserInv, NEW t \in Goroutines, NEW reachable \in BOOLEAN, Enable(t, reachable)
  PROVE  BrowserInv'
<1>0. LinkTyped /\ Locked
  BY BrowserTypes DEF BrowserInv
<1>1. thread[t].at = "enable" /\ mu = Nobody /\ enabled' = TRUE /\ file' = file
  BY DEF Enable, Free
<1>2. CASE reachable
  <2>1. Connect /\ mu' = t /\ thread' = [thread EXCEPT ![t].at = "version"] /\ UNCHANGED <<poller, poll>>
    BY <1>2 DEF Enable, Go, polling
  <2>2. /\ thread' \in [Goroutines -> Thread] /\ thread'[t].at = "version"
        /\ thread'[t].sent = thread[t].sent
        /\ \A u \in Goroutines \ {t} : thread'[u] = thread[u]
    BY <1>0, <2>1 DEF Locked, Thread
  <2>3. Locked'
    BY <1>0, <2>1, <2>2 DEF Locked
  <2>4. /\ LinkTyped' /\ SessionsFit'
        /\ \A u \in Goroutines : thread[u].at = "attach" => thread[u].sent = 0 \/ crossed'
        /\ \A j \in Clients : conn'[j] = "open" =>
             \/ j = client' \/ j \in closers'
             \/ \E u \in Goroutines : thread[u].at = "close" /\ thread[u].held = j
    BY <1>1, <2>1, ConnectKeeps
  <2>5. ConnectionsHaveOwner'
    <3> SUFFICES ASSUME NEW j \in Clients, conn'[j] = "open"
                 PROVE  \/ j = client' \/ j \in closers'
                        \/ \E u \in Goroutines : thread'[u].at = "close" /\ thread'[u].held = j
      BY DEF ConnectionsHaveOwner
    <3>1. CASE \E u \in Goroutines : thread[u].at = "close" /\ thread[u].held = j
      BY <1>1, <2>2, <3>1
    <3> QED
      BY <2>4, <3>1
  <2>6. OnlyToolsWait'
    <3>1. thread[t].sent = 0
      BY <1>1, GoroutineFields
    <3> QED
      BY <2>2, <3>1 DEF BrowserInv, OnlyToolsWait
  <2>7. AttachmentsFit'
    BY <2>2, <2>4 DEF AttachmentsFit
  <2> QED
    BY <2>3, <2>4, <2>5, <2>6, <2>7, BrowserTypesPrimed DEF BrowserInv
<1>3. CASE ~reachable
  <2>1. StartPolling /\ thread' = [thread EXCEPT ![t].at = "save"] /\ UNCHANGED <<link, cache>>
    BY <1>3 DEF Enable, Go
  <2> QED
    BY <1>1, <2>1, PollingStarts DEF link, cache
<1> QED
  BY <1>2, <1>3

LEMMA EnabledStep ==
  ASSUME BrowserInv, NEW t \in Goroutines, Enabled(t)
  PROVE  BrowserInv'
<1>1. Nobody # t
  BY DEF Pollers
<1>2. enabled' \in BOOLEAN
  BY GoroutineFields DEF Enabled, setting
<1> QED
  BY <1>1, <1>2, PollingStarts DEF Enabled, setting, Go

\* Disable hands its client over to be closed.
LEMMA DisableStep ==
  ASSUME BrowserInv, NEW t \in Goroutines, Disable(t)
  PROVE  BrowserInv'
<1>0. LinkTyped /\ Locked
  BY BrowserTypes DEF BrowserInv
<1>1. /\ thread[t] = Idle /\ mu = Nobody
      /\ UNCHANGED <<file, mu, conn, closers, poll>>
      /\ enabled' = FALSE /\ poller' = 0 /\ client' = 0 /\ connected' = FALSE
      /\ session' = 0 /\ crossed' = Attaching
  BY DEF Disable, Free
<1>2. thread' = [thread EXCEPT ![t].at = IF client = 0 THEN "save" ELSE "close", ![t].held = client]
  BY DEF Disable
<1>3. /\ thread' \in [Goroutines -> Thread]
      /\ thread'[t].at = (IF client = 0 THEN "save" ELSE "close")
      /\ thread'[t].held = client /\ thread'[t].sent = 0
      /\ \A u \in Goroutines \ {t} : thread'[u] = thread[u]
  BY <1>0, <1>1, <1>2, IdleFields DEF Locked, Thread, LinkTyped
<1>4. Locked'
  BY <1>0, <1>1, <1>3 DEF Locked, Pollers
<1>5. LinkTyped'
  BY <1>0, <1>1, BrowserBounds DEF LinkTyped, Attaching
<1>6. OnlyToolsWait'
  BY <1>3 DEF BrowserInv, OnlyToolsWait
<1>7. AttachmentsFit'
  BY <1>1, <1>3 DEF AttachmentsFit, Attaching
<1>8. ConnectionsHaveOwner'
  <2> SUFFICES ASSUME NEW k \in Clients, conn[k] = "open"
               PROVE  \/ k \in closers
                      \/ \E u \in Goroutines : thread'[u].at = "close" /\ thread'[u].held = k
    BY <1>1 DEF ConnectionsHaveOwner
  <2>1. CASE k = client
    <3>1. thread'[t].at = "close" /\ thread'[t].held = k
      BY <1>3, <2>1, IdleFields
    <3> QED
      BY <3>1
  <2>2. CASE \E u \in Goroutines : thread[u].at = "close" /\ thread[u].held = k
    <3>1. PICK u \in Goroutines : thread[u].at = "close" /\ thread[u].held = k
      BY <2>2
    <3>2. u # t
      BY <1>1, <3>1, IdleFields
    <3> QED
      BY <1>3, <3>1, <3>2
  <2> QED
    BY <2>1, <2>2 DEF BrowserInv, ConnectionsHaveOwner
<1>9. SessionsFit'
  BY <1>1 DEF SessionsFit
<1> QED
  BY <1>4, <1>5, <1>6, <1>7, <1>8, <1>9, BrowserTypesPrimed DEF BrowserInv

\* It is closed by the one that held it.
LEMMA DisabledStep ==
  ASSUME BrowserInv, NEW t \in Goroutines, Disabled(t)
  PROVE  BrowserInv'
<1>0. LinkTyped /\ Locked
  BY BrowserTypes DEF BrowserInv
<1>1. /\ thread[t].at = "close"
      /\ thread' = [thread EXCEPT ![t].at = "save", ![t].held = 0]
      /\ UNCHANGED <<setting, mu, client, connected, closers, polling, cache>>
  BY DEF Disabled
<1>2. conn' = [conn EXCEPT ![thread[t].held] = IF @ = "open" THEN "closed" ELSE @]
  BY DEF Disabled
<1>3. /\ conn' \in [Clients -> {"none", "open", "closed"}]
      /\ \A k \in Clients : conn'[k] = "open" => conn[k] = "open" /\ k # thread[t].held
  BY <1>0, <1>2 DEF LinkTyped
<1>4. /\ thread' \in [Goroutines -> Thread] /\ thread'[t].at = "save"
      /\ thread'[t].sent = thread[t].sent /\ thread[t].sent = 0
      /\ \A u \in Goroutines \ {t} : thread'[u] = thread[u]
  BY <1>0, <1>1, GoroutineFields DEF Locked, Thread
<1>5. Locked'
  BY <1>0, <1>1, <1>4 DEF Locked, polling
<1>6. LinkTyped'
  BY <1>0, <1>1, <1>3 DEF LinkTyped, setting, polling, cache
<1>7. OnlyToolsWait' /\ AttachmentsFit'
  BY <1>1, <1>4 DEF BrowserInv, OnlyToolsWait, AttachmentsFit, cache
<1>8. ConnectionsHaveOwner'
  BY <1>1, <1>3, <1>4 DEF BrowserInv, ConnectionsHaveOwner
<1>9. SessionsFit'
  BY <1>1 DEF BrowserInv, SessionsFit, cache
<1> QED
  BY <1>5, <1>6, <1>7, <1>8, <1>9, BrowserTypesPrimed DEF BrowserInv

LEMMA LifecycleStep ==
  ASSUME BrowserInv, NEW t \in Goroutines, Lifecycle(t)
  PROVE  BrowserInv'
<1>0. /\ thread[t] \in Thread /\ enabled \in BOOLEAN /\ file \in BOOLEAN
      /\ thread[t].sent # 0 => thread[t].at \in {"list", "attach", "act"}
      /\ thread[t].value \in BOOLEAN
  BY GoroutineFields
<1>1. ASSUME EnableRequest(t) PROVE BrowserInv'
  <2> DEFINE x == [Idle EXCEPT !.at = "enable"]
  <2>1. x \in Thread /\ x.at = "enable" /\ x.sent = 0
    BY IdleFields DEF Thread
  <2>2. thread' = [thread EXCEPT ![t] = x]
    BY <1>1 DEF EnableRequest, Go
  <2>3. thread[t].at = "idle"
    BY <1>1, IdleFields DEF EnableRequest
  <2>4. UNCHANGED <<setting, link, polling, cache>>
    BY <1>1 DEF EnableRequest
  <2> HIDE DEF x
  <2> QED
    BY <1>0, <2>1, <2>2, <2>3, <2>4, GoroutineMoves DEF setting, cache
<1>2. ASSUME ReadConfig(t) PROVE BrowserInv'
  <2> DEFINE x == [thread[t] EXCEPT !.at = "write", !.value = enabled]
  <2>1. thread[t].at = "save" /\ UNCHANGED <<setting, link, polling, cache>>
    BY <1>2 DEF ReadConfig
  <2>2. x \in Thread /\ x.at = "write" /\ x.sent = 0
    BY <1>0, <2>1 DEF Thread
  <2>3. thread' = [thread EXCEPT ![t] = x]
    BY <1>2 DEF ReadConfig
  <2> HIDE DEF x
  <2> QED
    BY <1>0, <2>1, <2>2, <2>3, GoroutineMoves DEF setting, cache
<1>3. ASSUME NEW ok \in BOOLEAN, SaveConfig(t, ok) PROVE BrowserInv'
  <2>1. /\ thread[t].at = "write" /\ thread' = [thread EXCEPT ![t] = Idle]
        /\ UNCHANGED <<enabled, link, polling, cache>>
    BY <1>3 DEF SaveConfig, Ends
  <2>2. file' \in BOOLEAN
    BY <1>0, <1>3 DEF SaveConfig
  <2> QED
    BY <1>0, <2>1, <2>2, IdleFields, GoroutineMoves DEF cache
<1> QED
  BY <1>1, <1>2, <1>3, EnableStep, EnabledStep, DisableStep, DisabledStep DEF Lifecycle

LEMMA ToolStep ==
  ASSUME BrowserInv, NEW t \in Goroutines, Tool(t)
  PROVE  BrowserInv'
<1>0. /\ thread[t] \in Thread /\ client \in 0 .. MaxClients /\ session \in 0 .. MaxClients
      /\ enabled \in BOOLEAN /\ file \in BOOLEAN
      /\ thread[t].sent # 0 => thread[t].at \in {"list", "attach", "act"}
      /\ thread[t].sent \in 0 .. MaxClients
  BY GoroutineFields
<1>1. ASSUME UNCHANGED <<setting, link, polling, cache>>,
             NEW x \in Thread, thread' = [thread EXCEPT ![t] = x],
             thread[t].at \notin {"version", "close"},
             x.sent # 0 => x.at \in {"list", "attach", "act"},
             x.at = "attach" => x.sent \in {0, client} \/ crossed
      PROVE  BrowserInv'
  BY <1>0, <1>1, GoroutineMoves DEF setting, cache
<1>2. ASSUME Execute(t) PROVE BrowserInv'
  <2> DEFINE x == [Idle EXCEPT !.at = "list"]
  <2>1. x \in Thread /\ x.at = "list"
    BY IdleFields DEF Thread
  <2>2. thread' = [thread EXCEPT ![t] = x]
    BY <1>2 DEF Execute, Go
  <2>3. thread[t].at = "idle" /\ UNCHANGED <<setting, link, polling, cache>>
    BY <1>2, IdleFields DEF Execute
  <2> HIDE DEF x
  <2> QED
    BY <1>1, <2>1, <2>2, <2>3
<1>3. ASSUME Send(t) PROVE BrowserInv'
  <2> DEFINE x == IF client = 0 THEN Idle ELSE [thread[t] EXCEPT !.sent = client]
  <2>1. thread[t].at \in {"list", "attach", "act"} /\ UNCHANGED <<setting, link, polling, cache>>
    BY <1>3 DEF Send
  <2>2. thread' = [thread EXCEPT ![t] = x]
    BY <1>3 DEF Send
  <2>3. CASE client = 0
    BY <1>1, <2>1, <2>2, <2>3, IdleFields
  <2>4. CASE client # 0
    <3>1. x \in Thread /\ x.at = thread[t].at /\ x.sent = client
      BY <1>0, <2>4 DEF Thread
    <3> HIDE DEF x
    <3> QED
      BY <1>1, <2>1, <2>2, <3>1
  <2> QED
    BY <2>3, <2>4
<1>4. ASSUME NEW goesOn \in BOOLEAN, Fails(t, goesOn) PROVE BrowserInv'
  <2>1. thread[t].at \in {"list", "attach", "act"} /\ UNCHANGED <<setting, link, polling, cache>>
    BY <1>0, <1>4 DEF Fails
  <2>2. CASE goesOn /\ thread[t].at = "act"
    <3> DEFINE x == [thread[t] EXCEPT !.sent = 0]
    <3>1. x \in Thread /\ x.at = "act" /\ x.sent = 0
      BY <1>0, <2>2 DEF Thread
    <3>2. thread' = [thread EXCEPT ![t] = x]
      BY <1>4, <2>2 DEF Fails
    <3> HIDE DEF x
    <3> QED
      BY <1>1, <2>1, <3>1, <3>2
  <2>3. CASE ~(goesOn /\ thread[t].at = "act")
    <3>1. thread' = [thread EXCEPT ![t] = Idle]
      BY <1>4, <2>3 DEF Fails, Ends
    <3> QED
      BY <1>1, <2>1, <3>1, IdleFields
  <2> QED
    BY <2>2, <2>3
<1>5. ASSUME NEW again \in BOOLEAN, Listed(t, again) PROVE BrowserInv'
  <2> DEFINE x == IF again THEN [thread[t] EXCEPT !.sent = 0] ELSE Idle
  <2>1. thread[t].at = "list" /\ UNCHANGED <<setting, link, polling, cache>>
    BY <1>5 DEF Listed
  <2>2. thread' = [thread EXCEPT ![t] = x]
    BY <1>5 DEF Listed
  <2>3. x \in Thread /\ x.sent = 0 /\ x.at \in {"list", "idle"}
    BY <1>0, <2>1, IdleFields DEF Thread
  <2> HIDE DEF x
  <2> QED
    BY <1>1, <2>1, <2>2, <2>3
<1>6. ASSUME GetSession(t) PROVE BrowserInv'
  <2> DEFINE x == [thread[t] EXCEPT !.at = IF session # 0 THEN "act" ELSE "attach",
                                    !.held = session, !.sent = 0]
  <2>1. thread[t].at = "list" /\ UNCHANGED <<setting, link, polling, cache>>
    BY <1>6 DEF GetSession
  <2>2. thread' = [thread EXCEPT ![t] = x]
    BY <1>6 DEF GetSession
  <2>3. x \in Thread /\ x.sent = 0 /\ x.at \in {"act", "attach"}
    BY <1>0, BrowserBounds DEF Thread
  <2> HIDE DEF x
  <2> QED
    BY <1>1, <2>1, <2>2, <2>3
<1>7. ASSUME AttachToTarget(t) PROVE BrowserInv'
  <2> DEFINE x == [thread[t] EXCEPT !.at = "act", !.held = session', !.sent = 0]
  <2>1. /\ thread[t].at = "attach" /\ thread[t].sent # 0 /\ session' = thread[t].sent
        /\ UNCHANGED <<setting, link, polling, crossed>>
    BY <1>7 DEF AttachToTarget, Answered
  <2>2. thread' = [thread EXCEPT ![t] = x]
    BY <1>7 DEF AttachToTarget
  <2>3. x \in Thread /\ x.sent = 0 /\ x.at = "act"
    BY <1>0, <2>1, BrowserBounds DEF Thread
  <2>4. session' = client \/ crossed
    BY <2>1 DEF BrowserInv, AttachmentsFit
  <2> HIDE DEF x
  <2> QED
    BY <1>0, <2>1, <2>2, <2>3, <2>4, GoroutineMoves DEF setting
<1>8. ASSUME OneRequest(t) \/ Deadline(t) PROVE BrowserInv'
  BY <1>1, <1>8, IdleFields DEF OneRequest, Deadline, Ends
<1>9. ASSUME NextRequest(t) PROVE BrowserInv'
  <2> DEFINE x == [thread[t] EXCEPT !.sent = 0]
  <2>1. thread[t].at = "act" /\ UNCHANGED <<setting, link, polling, cache>>
    BY <1>9 DEF NextRequest
  <2>2. thread' = [thread EXCEPT ![t] = x]
    BY <1>9 DEF NextRequest
  <2>3. x \in Thread /\ x.sent = 0 /\ x.at = "act"
    BY <1>0, <2>1 DEF Thread
  <2> HIDE DEF x
  <2> QED
    BY <1>1, <2>1, <2>2, <2>3
<1> QED
  BY <1>2, <1>3, <1>4, <1>5, <1>6, <1>7, <1>8, <1>9 DEF Tool

-----------------------------------------------------------------------------
(* The whole.                                                              *)

LEMMA BootingGoroutines ==
  ASSUME NEW on \in BOOLEAN, NEW f \in Booting(on)
  PROVE  /\ f \in [Goroutines -> Thread]
         /\ \A t \in Goroutines : f[t].sent = 0 /\ f[t].at # "attach"
<1> DEFINE x == [Idle EXCEPT !.at = "enable"]
<1>1. x \in Thread /\ x.sent = 0 /\ x.at = "enable"
  BY IdleFields DEF Thread
<1>2. CASE on
  <2>1. PICK t \in Goroutines : f = [u \in Goroutines |-> IF u = t THEN x ELSE Idle]
    BY <1>2 DEF Booting
  <2> HIDE DEF x
  <2> QED
    BY <1>1, <2>1, IdleFields
<1>3. CASE ~on
  BY <1>3, IdleFields DEF Booting
<1> QED
  BY <1>2, <1>3

LEMMA BrowserStarts == BrowserInit => BrowserInv
<1> SUFFICES ASSUME BrowserInit PROVE BrowserInv
  OBVIOUS
<1>1. /\ thread \in [Goroutines -> Thread]
      /\ \A t \in Goroutines : thread[t].sent = 0 /\ thread[t].at # "attach"
  BY BootingGoroutines DEF BrowserInit
<1>2. LinkTyped /\ Locked
  BY <1>1, BrowserBounds DEF BrowserInit, LinkTyped, Locked
<1> QED
  BY <1>1, <1>2, BrowserTypes
  DEF BrowserInit, BrowserInv, OnlyToolsWait, AttachmentsFit, ConnectionsHaveOwner, SessionsFit

LEMMA RestartStep ==
  ASSUME BrowserInv, NEW stopped \in BOOLEAN, Restart(stopped)
  PROVE  BrowserInv'
<1>0. file' \in BOOLEAN
  BY BrowserTypes DEF BrowserInv, LinkTyped, Restart
<1>1. /\ thread' \in [Goroutines -> Thread]
      /\ \A t \in Goroutines : thread'[t].sent = 0 /\ thread'[t].at # "attach"
  BY <1>0, BootingGoroutines DEF Restart
<1>2. LinkTyped' /\ Locked'
  BY <1>0, <1>1, BrowserBounds DEF Restart, LinkTyped, Locked
<1> QED
  BY <1>1, <1>2, BrowserTypesPrimed
  DEF Restart, BrowserInv, OnlyToolsWait, AttachmentsFit, ConnectionsHaveOwner, SessionsFit

\* Every step keeps the invariant, and so does a stutter.
LEMMA BrowserInvIsInductive == BrowserInv /\ [BrowserNext]_browserVars => BrowserInv'
<1> SUFFICES ASSUME BrowserInv, [BrowserNext]_browserVars PROVE BrowserInv'
  OBVIOUS
<1>1. CASE BrowserNext
  BY <1>1, LifecycleStep, ToolStep, PollStep, ConnectionEnds, RestartStep DEF BrowserNext
<1>2. CASE UNCHANGED browserVars
  BY <1>2
  DEF BrowserInv, BrowserTypeOK, OnlyToolsWait, AttachmentsFit, ConnectionsHaveOwner, SessionsFit,
      browserVars, setting, link, polling, cache
<1> QED
  BY <1>1, <1>2

LEMMA BrowserAlways == BrowserSpec => []BrowserInv
BY BrowserStarts, BrowserInvIsInductive, PTL DEF BrowserSpec

\* The lock that covers the making of a connection is held over the question for Chrome's
\* version and by nobody else, whatever the order of enabling, polling and callbacks.
THEOREM BrowserTypeCorrect == BrowserSpec => []BrowserTypeOK
<1>1. BrowserInv => BrowserTypeOK
  BY DEF BrowserInv
<1> QED
  BY <1>1, BrowserAlways, PTL

\* No connection to Chrome is leaked (connectLocked, Disable).
THEOREM ConnectionsStayOwned == BrowserSpec => []ConnectionsHaveOwner
<1>1. BrowserInv => ConnectionsHaveOwner
  BY DEF BrowserInv
<1> QED
  BY <1>1, BrowserAlways, PTL

\* The session cache is as fresh as the connection, but for an attachment that was under
\* way when it changed (getSession, connectLocked).
THEOREM SessionsStayFit == BrowserSpec => []SessionsFit
<1>1. BrowserInv => SessionsFit
  BY DEF BrowserInv
<1> QED
  BY <1>1, BrowserAlways, PTL
================================================================================
