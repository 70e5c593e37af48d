--------------------------- MODULE ConnectorsProofs ---------------------------
(***************************************************************************)
(* Proofs about Connectors for any number of users, goroutines, tokens and *)
(* flows, over either secret store: types, that the store follows the      *)
(* tokens in memory, and that a user's selection of calendars is kept.     *)
(***************************************************************************)
EXTENDS Connectors, TLAPS

USE DEF Threads

-----------------------------------------------------------------------------
(* Types.                                                                  *)

\* A goroutine at work works for a user.
Sound == {x \in Thread : x.at # "idle" => x.user \in Users}

Tables ==
  /\ token \in [Users -> Token]
  /\ failed \in SUBSET Users
  /\ states \in [Users -> 0 .. MaxFlows]
  /\ active \in Backends
  /\ entry \in [Backends -> [Users -> Token]]
  /\ index \in SUBSET Users
  /\ legacy \in SUBSET LegacyUsers
  /\ settings \in Settings
  /\ file \in Settings
  /\ issued \in Token
  /\ faults \in 0 .. MaxFaults
  /\ astray \in SUBSET Users
  /\ chosen \in [Users -> SUBSET Calendars]
  /\ overrun \in SUBSET Users

Types == Tables /\ thread \in [Threads -> Sound]

LEMMA TypesImply == Types => TypeOK
<1> Sound \subseteq Thread
  BY DEF Sound
<1> QED
  BY DEF Types, Tables, TypeOK

LEMMA IdleSound == Idle \in Sound
  BY ConnectorsAssumption DEF Idle, Sound, Thread, Token

LEMMA ZeroToken == 0 \in Token
  BY ConnectorsAssumption DEF Token

\* A goroutine at work goes on, for the same user.
Places == {"exchange", "save", "index", "delete", "unindex", "client", "select",
           "token", "list", "check", "enable", "query"}

LEMMA Working ==
  ASSUME NEW x \in Sound, x.at # "idle"
  PROVE  /\ x.user \in Users /\ x.held \in Token
         /\ [x EXCEPT !.at = "client", !.op = "fetch", !.held = 0] \in Sound
  BY ZeroToken DEF Sound, Thread

LEMMA MovedSound ==
  ASSUME NEW x \in Sound, x.at # "idle", NEW place \in Places
  PROVE  [x EXCEPT !.at = place] \in Sound
  BY DEF Sound, Thread, Places

LEMMA HoldingSound ==
  ASSUME NEW x \in Sound, x.at # "idle", NEW held \in Token
  PROVE  [x EXCEPT !.held = held] \in Sound
  BY DEF Sound, Thread

LEMMA MovedHoldingSound ==
  ASSUME NEW x \in Sound, x.at # "idle", NEW held \in Token, NEW place \in Places
  PROVE  /\ [x EXCEPT !.held = held, !.at = place] \in Sound
         /\ [x EXCEPT !.at = place, !.held = held] \in Sound
  BY DEF Sound, Thread, Places

LEMMA BegunSound ==
  ASSUME NEW u \in Users, NEW held \in Token,
         NEW place \in {"exchange", "save", "delete", "client"},
         NEW op \in {"callback", "fetch", "tool", "revoke", "saver"}
  PROVE  [at |-> place, op |-> op, user |-> u, held |-> held] \in Sound
  BY DEF Sound, Thread

LEMMA InitTypes == Init => Types
<1> SUFFICES ASSUME Init PROVE Types
  OBVIOUS
<1>1. entry \in [Backends -> [Users -> Token]]
  BY ConnectorsAssumption DEF Init, Token
<1>2. token \in [Users -> Token]
  BY <1>1, ConnectorsAssumption DEF Init, Stored, Token
<1>3. /\ active \in Backends /\ failed \in SUBSET Users
      /\ index \in SUBSET Users /\ legacy \in SUBSET LegacyUsers
      /\ issued \in Token /\ faults \in 0 .. MaxFaults
      /\ astray \in SUBSET Users /\ overrun \in SUBSET Users
  BY ConnectorsAssumption DEF Init, Token
<1>4. /\ settings \in Settings /\ file \in Settings
      /\ chosen \in [Users -> SUBSET Calendars]
      /\ states \in [Users -> 0 .. MaxFlows]
  BY ConnectorsAssumption DEF Init, Settings, NoSettings
<1>5. thread \in [Threads -> Sound]
  BY IdleSound DEF Init
<1> QED
  BY <1>1, <1>2, <1>3, <1>4, <1>5 DEF Types, Tables

\* A start reads tokens from the store it has migrated the old ones to.
LEMMA StartTypes ==
  ASSUME Tables, NEW b \in Backends, NEW entries \in [Backends -> [Users -> Token]],
         NEW readable \in BOOLEAN, Start(b, entries, readable)
  PROVE  /\ active' \in Backends
         /\ entry' \in [Backends -> [Users -> Token]]
         /\ index' \in SUBSET Users
         /\ legacy' \in SUBSET LegacyUsers
         /\ token' \in [Users -> Token]
         /\ astray' \in SUBSET Users
<1>1. entry' \in [Backends -> [Users -> Token]]
  BY ConnectorsAssumption DEF Start, Migrated, Token
<1>2. index' \in SUBSET Users /\ legacy' \in SUBSET LegacyUsers /\ active' \in Backends
  BY ConnectorsAssumption DEF Start, Tables
<1>3. token' \in [Users -> Token]
  BY <1>1, <1>2, ConnectorsAssumption DEF Start, Stored, Token
<1>4. astray' \in SUBSET Users
  BY DEF Start
<1> QED
  BY <1>1, <1>2, <1>3, <1>4

LEMMA RestartTypes == Types /\ Restart => Types'
<1> SUFFICES ASSUME Types, Restart PROVE Types'
  OBVIOUS
<1>1. PICK b \in Backends, readable \in BOOLEAN, torn \in BOOLEAN :
        /\ torn => active = "file" /\ \E t \in Threads : Writes(t)
        /\ Start(b, IF torn THEN [entry EXCEPT !["file"] = [u \in Users |-> 0]] ELSE entry, readable)
  BY DEF Restart
<1> DEFINE entries == IF torn THEN [entry EXCEPT !["file"] = [u \in Users |-> 0]] ELSE entry
<1>2. entries \in [Backends -> [Users -> Token]]
  BY <1>1, ConnectorsAssumption DEF Types, Tables, Token
<1>3. /\ active' \in Backends
      /\ entry' \in [Backends -> [Users -> Token]]
      /\ index' \in SUBSET Users
      /\ legacy' \in SUBSET LegacyUsers
      /\ token' \in [Users -> Token]
      /\ astray' \in SUBSET Users
  BY <1>1, <1>2, StartTypes DEF Types
<1>4. thread' \in [Threads -> Sound]
  BY IdleSound DEF Restart
<1>5. /\ failed' \in SUBSET Users /\ states' \in [Users -> 0 .. MaxFlows]
      /\ issued' \in Token /\ faults' \in 0 .. MaxFaults
      /\ chosen' \in [Users -> SUBSET Calendars]
  BY ConnectorsAssumption DEF Restart, Types, Tables, Fault
<1>6. settings' \in Settings /\ file' \in Settings /\ overrun' \in SUBSET Users
  BY DEF Restart, Types, Tables, Settings, NoSettings
<1> QED
  BY <1>3, <1>4, <1>5, <1>6 DEF Types, Tables

LEMMA CallbackTypes ==
  ASSUME Types, NEW t \in Handlers, Callback(t)
  PROVE  Types'
<1> USE ConnectorsAssumption DEF Types
<1>1. ASSUME NEW u \in Users, HandleCallback(t, u) PROVE Types'
  <2>1. thread' \in [Threads -> Sound]
    <3>1. [at |-> "exchange", op |-> "callback", user |-> u, held |-> 0] \in Sound
      BY BegunSound, ZeroToken
    <3> QED
      BY <1>1, <3>1 DEF HandleCallback
  <2>2. Tables'
    BY <1>1 DEF HandleCallback, Tables, secrets, process, disk, choice
  <2> QED
    BY <2>1, <2>2
<1>2. CASE ExchangeFails(t)
  BY <1>2, IdleSound DEF ExchangeFails, Ends, Tables, runtime, secrets, process, disk, choice
<1>3. CASE Exchange(t)
  <2>1. issued' \in Token
    BY <1>3 DEF Exchange, Tables, Token
  <2>2. thread' \in [Threads -> Sound] /\ thread[t].user \in Users
    BY <1>3, <2>1, Working, MovedHoldingSound DEF Exchange, Places
  <2>3. Tables'
    BY <1>3, <2>1, <2>2 DEF Exchange, Changes, Tables, secrets, process, disk, choice
  <2> QED
    BY <2>2, <2>3
<1> QED
  BY <1>1, <1>2, <1>3 DEF Callback

LEMMA DisconnectTypes ==
  ASSUME Types, NEW t \in Handlers, Disconnect(t)
  PROVE  Types'
<1> USE ConnectorsAssumption DEF Types
<1> PICK u \in Users : Revoke(t, u)
  BY DEF Disconnect
<1>1. thread' \in [Threads -> Sound]
  <2>1. [at |-> "delete", op |-> "revoke", user |-> u, held |-> 0] \in Sound
    BY BegunSound, ZeroToken
  <2> QED
    BY <2>1 DEF Revoke
<1>2. Tables'
  BY DEF Revoke, Changes, Tables, Token, secrets, process, disk, choice
<1> QED
  BY <1>1, <1>2

LEMMA WriteTypes ==
  ASSUME Types, NEW t \in Threads, StoreWrite(t)
  PROVE  Types'
<1> USE ConnectorsAssumption DEF Types
<1>1. thread[t].at # "idle"
  BY DEF StoreWrite, SetEntry, AddToIndex, DeleteEntry, RemoveFromIndex, WriteFails
<1>2. /\ [thread[t] EXCEPT !.at = "index"] \in Sound
      /\ [thread[t] EXCEPT !.at = "unindex"] \in Sound
      /\ [thread[t] EXCEPT !.at = "client", !.op = "fetch", !.held = 0] \in Sound
      /\ thread[t].user \in Users /\ thread[t].held \in Token
  BY <1>1, MovedSound, Working DEF Places
<1>3. CASE SetEntry(t)
  <2>1. thread' \in [Threads -> Sound]
    BY <1>2, <1>3, IdleSound DEF SetEntry, Go, Written, Ends
  <2>2. Marshalled(t) \subseteq Token
    BY <1>2 DEF Marshalled, Tables
  <2>3. entry' \in [Backends -> [Users -> Token]]
    BY <1>2, <1>3, <2>2 DEF SetEntry, Tables
  <2> QED
    BY <1>3, <2>1, <2>3 DEF SetEntry, Tables, runtime, process, disk, choice
<1>4. CASE AddToIndex(t)
  <2>1. thread' \in [Threads -> Sound]
    BY <1>2, <1>4, IdleSound DEF AddToIndex, Written, Ends
  <2> QED
    BY <1>2, <1>4, <2>1 DEF AddToIndex, Tables, runtime, process, disk, choice
<1>5. CASE DeleteEntry(t)
  <2>1. thread' \in [Threads -> Sound]
    BY <1>2, <1>5, IdleSound DEF DeleteEntry, Go, Ends
  <2> QED
    BY <1>2, <1>5, <2>1 DEF DeleteEntry, Tables, Token, runtime, process, disk, choice
<1>6. CASE RemoveFromIndex(t)
  <2>1. thread' \in [Threads -> Sound]
    BY <1>6, IdleSound DEF RemoveFromIndex, Ends
  <2> QED
    BY <1>6, <2>1 DEF RemoveFromIndex, Tables, runtime, process, disk, choice
<1>7. CASE WriteFails(t)
  <2>1. thread' \in [Threads -> Sound]
    BY <1>7, IdleSound DEF WriteFails, Ends
  <2> QED
    BY <1>2, <1>7, <2>1 DEF WriteFails, Fault, Tables, runtime, secrets, process, disk, choice
<1> QED
  BY <1>3, <1>4, <1>5, <1>6, <1>7 DEF StoreWrite

\* What a client's next request finds the goroutine in.
LEMMA RequestsSound ==
  ASSUME Types, NEW t \in Handlers, NEW held \in Token, thread[t].at \in {"token", "query"}
  PROVE  Requests(t, held) \subseteq Sound
<1>1. thread[t] \in Sound /\ thread[t].at # "idle"
  BY DEF Types
<1>2. [thread[t] EXCEPT !.held = held] \in Sound
  BY <1>1, HoldingSound
<1>3. [thread[t] EXCEPT !.held = held, !.at = "list"] \in Sound
  BY <1>1, MovedHoldingSound DEF Places
<1> QED
  BY <1>2, <1>3, IdleSound DEF Requests

LEMMA ClientTypes ==
  ASSUME Types, NEW t \in Handlers, UseClient(t)
  PROVE  Types'
<1> USE ConnectorsAssumption DEF Types
<1>1. ASSUME NEW u \in Users, CallTool(t, u) \/ RefreshSettings(t, u) PROVE Types'
  <2>1. thread' \in [Threads -> Sound]
    <3>1. \A op \in {"tool", "fetch"} : [at |-> "client", op |-> op, user |-> u, held |-> 0] \in Sound
      BY BegunSound, ZeroToken
    <3> QED
      BY <1>1, <3>1 DEF CallTool, RefreshSettings, Begin
  <2> QED
    BY <1>1, <2>1
    DEF CallTool, RefreshSettings, Begin, Tables, runtime, secrets, process, disk, choice
<1>2. CASE Client(t)
  <2>1. /\ token[thread[t].user] \in Token
        /\ thread[t] \in Sound /\ thread[t].at # "idle"
    BY <1>2, Working DEF Client, Tables
  <2>2. \A place \in {"select", "token"} :
          [thread[t] EXCEPT !.held = token[thread[t].user], !.at = place] \in Sound
    BY <2>1, MovedHoldingSound DEF Places
  <2>3. CASE Ends(t)
    BY <1>2, <2>3, IdleSound DEF Client, Ends, Tables, runtime, secrets, process, disk, choice
  <2>4. ASSUME NEW place \in {"select", "token"},
               thread' = [thread EXCEPT ![t].held = token[thread[t].user], ![t].at = place]
        PROVE  Types'
    <3>1. thread' \in [Threads -> Sound]
      BY <2>2, <2>4
    <3> QED
      BY <1>2, <3>1 DEF Client, Tables, runtime, secrets, process, disk, choice
  <2> QED
    BY <1>2, <2>3, <2>4 DEF Client
<1>3. CASE GetEnabledCalendarIDs(t)
  <2>1. thread' \in [Threads -> Sound]
    BY <1>3, MovedSound DEF GetEnabledCalendarIDs, Go, Places
  <2> QED
    BY <1>3, <2>1 DEF GetEnabledCalendarIDs, Tables, runtime, secrets, process, disk, choice
<1>4. ASSUME NEW fresh \in BOOLEAN, HasToken(t, fresh) PROVE Types'
  <2> DEFINE u == thread[t].user
             held == IF fresh THEN issued + 1 ELSE thread[t].held
  <2>1. u \in Users /\ thread[t].held \in Token
    BY <1>4, Working DEF HasToken
  <2>2. held \in Token /\ issued' \in Token /\ failed' \in SUBSET Users
    BY <1>4, <2>1 DEF HasToken, Tables, Token
  <2>3. PICK next \in Requests(t, held) :
          \/ /\ token[u] = 0
             /\ thread' = [thread EXCEPT ![t] = next]
             /\ UNCHANGED <<token, astray>>
          \/ \E s \in Savers :
               /\ token[u] # 0 /\ thread[s] = Idle
               /\ token' = [token EXCEPT ![u] = held]
               /\ Changes(u)
               /\ thread' = [thread EXCEPT
                    ![t] = next, ![s] = [at |-> "save", op |-> "saver", user |-> u, held |-> held]]
    BY <1>4 DEF HasToken
  <2> HIDE DEF u, held
  <2>4. next \in Sound
    BY <1>4, <2>2, <2>3, RequestsSound DEF HasToken
  <2>5. [at |-> "save", op |-> "saver", user |-> u, held |-> held] \in Sound
    BY <2>1, <2>2, BegunSound
  <2>6. thread' \in [Threads -> Sound]
    BY <2>3, <2>4, <2>5
  <2>7. token' \in [Users -> Token] /\ astray' \in SUBSET Users
    BY <2>1, <2>2, <2>3 DEF Changes, Tables
  <2> QED
    BY <1>4, <2>2, <2>6, <2>7 DEF HasToken, Tables, secrets, process, disk, choice
<1>5. CASE RefreshFails(t)
  <2>1. thread[t].user \in Users /\ thread[t].held \in Token
    BY <1>5, Working DEF RefreshFails
  <2>2. thread' \in [Threads -> Sound]
    <3>1. CASE thread[t].at = "token"
      <4>1. [thread[t] EXCEPT !.at = "query"] \in Sound
        BY <3>1, MovedSound DEF Places
      <4> QED
        BY <1>5, <3>1, <4>1, IdleSound DEF RefreshFails, Fetched, Go, Ends
    <3>2. CASE thread[t].at # "token"
      BY <1>5, <3>2, <2>1, RequestsSound DEF RefreshFails
    <3> QED
      BY <3>1, <3>2
  <2> QED
    BY <1>5, <2>1, <2>2 DEF RefreshFails, Tables, secrets, process, disk, choice
<1> QED
  BY <1>1, <1>2, <1>3, <1>4, <1>5 DEF UseClient

\* A change of a user's settings, in memory and, if the write succeeds, in the file.
LEMMA SavesTypes ==
  ASSUME Tables, NEW u \in Users, NEW ids \in SUBSET Calendars, NEW ok \in BOOLEAN,
         Saves(u, ids, ok)
  PROVE  settings' \in Settings /\ file' \in Settings /\ faults' \in 0 .. MaxFaults
  BY ConnectorsAssumption DEF Saves, Fault, Tables, Settings

LEMMA FetchTypes ==
  ASSUME Types, NEW t \in Handlers, Fetch(t)
  PROVE  Types'
<1> USE ConnectorsAssumption DEF Types
<1>1. thread[t].at # "idle"
  BY DEF Fetch, ListFails, CheckEnabled, SetCalendars, EnableAll
<1>2. /\ [thread[t] EXCEPT !.at = "query"] \in Sound
      /\ [thread[t] EXCEPT !.at = "check"] \in Sound
      /\ [thread[t] EXCEPT !.at = "enable"] \in Sound
      /\ thread[t].user \in Users
  BY <1>1, Working, MovedSound DEF Places
<1>3. CASE ListFails(t)
  <2>1. thread' \in [Threads -> Sound]
    BY <1>2, <1>3, IdleSound DEF ListFails, Fetched, Go, Ends
  <2> QED
    BY <1>3, <2>1 DEF ListFails, Tables, runtime, secrets, process, disk, choice
<1>4. CASE CheckEnabled(t)
  <2>1. thread' \in [Threads -> Sound]
    BY <1>2, <1>4, IdleSound DEF CheckEnabled, Fetched, Go, Ends
  <2> QED
    BY <1>4, <2>1 DEF CheckEnabled, Tables, runtime, secrets, process, disk, choice
<1>5. ASSUME NEW listed \in {{}, Calendars}, NEW ok \in BOOLEAN, SetCalendars(t, listed, ok)
      PROVE  Types'
  <2>1. thread' \in [Threads -> Sound]
    BY <1>2, <1>5, IdleSound DEF SetCalendars, Fetched, Go, Ends
  <2>2. settings[thread[t].user] \in SUBSET Calendars
    BY <1>2 DEF Tables, Settings
  <2>3. settings' \in Settings /\ file' \in Settings /\ faults' \in 0 .. MaxFaults
    BY <1>2, <1>5, <2>2, SavesTypes DEF SetCalendars
  <2> QED
    BY <1>5, <2>1, <2>3 DEF SetCalendars, Tables, runtime, secrets, process, choice
<1>6. ASSUME NEW ok \in BOOLEAN, EnableAll(t, ok) PROVE Types'
  <2>1. thread' \in [Threads -> Sound]
    BY <1>2, <1>6, IdleSound DEF EnableAll, Fetched, Go, Ends
  <2>2. settings' \in Settings /\ file' \in Settings /\ faults' \in 0 .. MaxFaults
    BY <1>2, <1>6, SavesTypes DEF EnableAll
  <2> QED
    BY <1>6, <2>1, <2>2 DEF EnableAll, Tables, runtime, secrets, process, choice
<1> QED
  BY <1>3, <1>4, <1>5, <1>6 DEF Fetch

LEMMA TypesStep == Types /\ [Next]_vars => Types'
<1> SUFFICES ASSUME Types, [Next]_vars PROVE Types'
  OBVIOUS
<1>1. ASSUME NEW u \in Users, StartAuth(u) PROVE Types'
  BY <1>1, ConnectorsAssumption
  DEF StartAuth, Types, Tables, secrets, process, disk, choice
<1>2. ASSUME NEW t \in Handlers, Callback(t) \/ Disconnect(t) \/ UseClient(t) \/ Fetch(t)
      PROVE  Types'
  BY <1>2, CallbackTypes, DisconnectTypes, ClientTypes, FetchTypes
<1>3. ASSUME NEW t \in Threads, StoreWrite(t) PROVE Types'
  BY <1>3, WriteTypes
<1>4. ASSUME NEW u \in Users, NEW ids \in Selections, NEW ok \in BOOLEAN, Select(u, ids, ok)
      PROVE  Types'
  <2>1. ids \in SUBSET Calendars
    BY ConnectorsAssumption
  <2>2. settings' \in Settings /\ file' \in Settings /\ faults' \in 0 .. MaxFaults
    BY <1>4, <2>1, SavesTypes DEF Select, Types
  <2> QED
    BY <1>4, <2>1, <2>2 DEF Select, Types, Tables, runtime, secrets, process
<1>5. CASE UNCHANGED vars
  BY <1>5 DEF vars, runtime, secrets, process, disk, choice, Types, Tables
<1> QED
  BY <1>1, <1>2, <1>3, <1>4, <1>5, RestartTypes DEF Next

\* Every variable keeps its type: in particular a callback is accepted at most once for
\* each flow that a user began, and the store holds tokens that the provider issued.
THEOREM TypeCorrect == Spec => []TypeOK
  BY InitTypes, TypesStep, TypesImply, PTL DEF Spec

-----------------------------------------------------------------------------
(* The store follows memory.                                               *)

Writers == {"save", "index", "delete", "unindex"}

\* What a goroutine is about to write, or has half written, is what memory has.
Carries(t) ==
  LET u == thread[t].user IN
  /\ thread[t].at = "save" => thread[t].held = token[u]
  /\ thread[t].at = "index" => entry[active][u] = token[u]
  /\ thread[t].at = "delete" => token[u] = 0
  /\ thread[t].at = "unindex" => token[u] = 0 /\ entry[active][u] = 0

\* Whose token did not go astray has one goroutine at most that writes it.
StoreInv ==
  \A u \in Users \ astray :
    /\ Writing(u) = {} => Stored(entry, index, active, u) = token[u]
    /\ \A t, x \in Writing(u) : t = x
    /\ \A t \in Writing(u) : Carries(t)

\* Goroutines that neither write nor begin to write a token.
LEMMA NobodyWrites ==
  ASSUME StoreInv, UNCHANGED <<token, entry, index, active, astray>>,
         \A x \in Threads : thread[x].at \in Writers \/ thread'[x].at \in Writers => thread'[x] = thread[x]
  PROVE  StoreInv'
<1>1. ASSUME NEW u \in Users PROVE Writing(u)' = Writing(u)
  BY <1>1 DEF Writing, Writers
<1>2. ASSUME NEW u \in Users, NEW t \in Writing(u), Carries(t) PROVE Carries(t)'
  <2>1. thread'[t] = thread[t]
    BY <1>2 DEF Writing, Writers
  <2> QED
    BY <1>2, <2>1 DEF Carries
<1> QED
  BY <1>1, <1>2 DEF StoreInv, Stored

\* The token of a user changes, and a goroutine is to write it.
LEMMA WriteBegins ==
  ASSUME Types, StoreInv, NEW u \in Users, NEW w \in Threads, NEW k \in Token,
         token' = [token EXCEPT ![u] = k], Changes(u), UNCHANGED <<entry, index, active>>,
         thread[w].at \notin Writers,
         thread'[w].user = u,
         \/ thread'[w].at = "save" /\ thread'[w].held = k
         \/ thread'[w].at = "delete" /\ k = 0,
         \A x \in Threads \ {w} :
           thread[x].at \in Writers \/ thread'[x].at \in Writers => thread'[x] = thread[x]
  PROVE  StoreInv'
<1>1. token'[u] = k /\ \A v \in Users \ {u} : token'[v] = token[v]
  BY DEF Types, Tables
<1>2. ASSUME NEW v \in Users \ {u}, v \notin astray'
      PROVE  /\ v \notin astray /\ Writing(v)' = Writing(v)
             /\ Stored(entry, index, active, v)' = Stored(entry, index, active, v)
  BY <1>2 DEF Changes, Writing, Writers, Stored
<1>3. ASSUME NEW v \in Users \ {u}, NEW t \in Writing(v), Carries(t) PROVE Carries(t)'
  <2>1. thread'[t] = thread[t] /\ thread[t].user = v
    BY <1>3 DEF Writing, Writers
  <2> QED
    BY <1>1, <1>3, <2>1 DEF Carries
<1>4. u \notin astray' => Writing(u)' = {w}
  BY DEF Changes, Writing, Writers
<1>5. Carries(w)'
  BY <1>1 DEF Carries
<1>6. ASSUME NEW v \in Users \ {u}, v \notin astray'
      PROVE  /\ Writing(v)' = {} => Stored(entry, index, active, v)' = token'[v]
             /\ \A t, x \in Writing(v)' : t = x
             /\ \A t \in Writing(v)' : Carries(t)'
  BY <1>1, <1>2, <1>3, <1>6 DEF StoreInv
<1> QED
  BY <1>4, <1>5, <1>6 DEF StoreInv

\* A goroutine of whose user a write goes on writes nobody else's token.
Alone(t) ==
  /\ UNCHANGED <<token, active, astray>>
  /\ \A v \in Users \ {thread[t].user} :
       entry'[active][v] = entry[active][v] /\ (v \in index' <=> v \in index)
  /\ \A x \in Threads \ {t} : thread'[x] = thread[x]

LEMMA OthersKeep ==
  ASSUME StoreInv, NEW t \in Threads, Alone(t),
         thread'[t].at \in Writers => thread'[t].user = thread[t].user,
         NEW v \in Users \ {thread[t].user}, v \notin astray'
  PROVE  /\ Writing(v)' = {} => Stored(entry, index, active, v)' = token'[v]
         /\ \A y, x \in Writing(v)' : y = x
         /\ \A x \in Writing(v)' : Carries(x)'
<1>1. /\ Writing(v)' = Writing(v) /\ v \notin astray /\ token'[v] = token[v]
      /\ Stored(entry, index, active, v)' = Stored(entry, index, active, v)
  BY DEF Alone, Writing, Writers, Stored
<1>2. ASSUME NEW x \in Writing(v), Carries(x) PROVE Carries(x)'
  <2>1. thread'[x] = thread[x] /\ thread[x].user = v
    BY <1>2 DEF Writing, Alone
  <2> QED
    BY <1>2, <2>1 DEF Carries, Alone
<1> QED
  BY <1>1, <1>2 DEF StoreInv

LEMMA OnlyWriter ==
  ASSUME StoreInv, NEW t \in Threads, thread[t].user \in Users \ astray, thread[t].at \in Writers
  PROVE  Writing(thread[t].user) = {t} /\ Carries(t)
<1>1. t \in Writing(thread[t].user)
  BY DEF Writing, Writers
<1> QED
  BY <1>1 DEF StoreInv

\* A goroutine does a part of its write, and still carries what memory has.
LEMMA WriteGoesOn ==
  ASSUME StoreInv, NEW t \in Threads, thread[t].user \in Users, thread[t].at \in Writers,
         Alone(t), thread'[t].at \in Writers, thread'[t].user = thread[t].user,
         Carries(t) => Carries(t)'
  PROVE  StoreInv'
<1>1. ASSUME thread[t].user \notin astray
      PROVE  Writing(thread[t].user)' = {t} /\ Carries(t)'
  <2>1. Writing(thread[t].user) = {t} /\ Carries(t)
    BY <1>1, OnlyWriter
  <2>2. \A x \in Threads : x \in Writing(thread[t].user)' <=> x = t
    BY <2>1 DEF Alone, Writing, Writers
  <2> QED
    BY <2>1, <2>2 DEF Writing
<1>2. ASSUME NEW v \in Users, v \notin astray'
      PROVE  /\ Writing(v)' = {} => Stored(entry, index, active, v)' = token'[v]
             /\ \A y, x \in Writing(v)' : y = x
             /\ \A x \in Writing(v)' : Carries(x)'
  <2>1. CASE v = thread[t].user
    <3>1. Writing(v)' = {t} /\ Carries(t)'
      BY <1>1, <1>2, <2>1 DEF Alone
    <3> QED
      BY <3>1
  <2>2. CASE v # thread[t].user
    BY <1>2, <2>2, OthersKeep
  <2> QED
    BY <2>1, <2>2
<1> QED
  BY <1>2 DEF StoreInv

\* A goroutine's write is over: the store has what memory has.
LEMMA WriteEnds ==
  ASSUME StoreInv, NEW t \in Threads, thread[t].user \in Users, thread[t].at \in Writers,
         Alone(t), thread'[t].at \notin Writers,
         Carries(t) => Stored(entry', index', active, thread[t].user) = token[thread[t].user]
  PROVE  StoreInv'
<1>1. ASSUME NEW v \in Users \ astray, v = thread[t].user
      PROVE  Writing(v)' = {} /\ Carries(t)
  <2>1. Writing(v) = {t} /\ Carries(t)
    BY <1>1, OnlyWriter
  <2>2. \A x \in Threads : x \notin Writing(v)'
    BY <2>1 DEF Alone, Writing, Writers
  <2> QED
    BY <2>1, <2>2 DEF Writing
<1>2. ASSUME NEW v \in Users, v \notin astray'
      PROVE  /\ Writing(v)' = {} => Stored(entry, index, active, v)' = token'[v]
             /\ \A y, x \in Writing(v)' : y = x
             /\ \A x \in Writing(v)' : Carries(x)'
  <2>1. CASE v = thread[t].user
    <3>1. Writing(v)' = {} /\ Carries(t) /\ token'[v] = token[v] /\ active' = active
      BY <1>1, <1>2, <2>1 DEF Alone
    <3>2. Stored(entry', index', active, v) = token[v]
      BY <2>1, <3>1
    <3> QED
      BY <3>1, <3>2 DEF Stored
  <2>2. CASE v # thread[t].user
    BY <1>2, <2>2, OthersKeep
  <2> QED
    BY <2>1, <2>2
<1> QED
  BY <1>2 DEF StoreInv

\* Where a goroutine is after a step of its write.
LEMMA GoLemma ==
  ASSUME Types, NEW t \in Threads, NEW place \in Places, Go(t, place)
  PROVE  /\ thread'[t].at = place /\ thread'[t].user = thread[t].user /\ thread'[t].op = thread[t].op
         /\ \A x \in Threads \ {t} : thread'[x] = thread[x]
<1>1. thread[t] \in Thread
  BY DEF Types, Sound
<1>2. thread'[t] = [thread[t] EXCEPT !.at = place]
  BY DEF Go, Types
<1> QED
  BY <1>1, <1>2 DEF Go, Types, Thread

LEMMA EndsLemma ==
  ASSUME Types, NEW t \in Threads, Ends(t)
  PROVE  /\ thread'[t].at = "idle" /\ thread'[t].user = None
         /\ \A x \in Threads \ {t} : thread'[x] = thread[x]
<1>1. thread'[t] = Idle
  BY DEF Ends, Types
<1> QED
  BY <1>1 DEF Ends, Types, Idle

LEMMA WrittenLemma ==
  ASSUME Types, NEW t \in Threads, Written(t)
  PROVE  /\ thread'[t].at \in {"idle", "client"}
         /\ \A x \in Threads \ {t} : thread'[x] = thread[x]
<1>1. CASE thread[t].op = "callback"
  <2>1. thread' = [thread EXCEPT ![t] = [@ EXCEPT !.at = "client", !.op = "fetch", !.held = 0]]
    BY <1>1 DEF Written
  <2>2. thread'[t] = [thread[t] EXCEPT !.at = "client", !.op = "fetch", !.held = 0]
    BY <2>1 DEF Types
  <2>3. thread[t] \in Thread
    BY DEF Types, Sound
  <2> QED
    BY <2>1, <2>2, <2>3 DEF Types, Thread
<1>2. CASE thread[t].op # "callback"
  BY <1>2, EndsLemma DEF Written
<1> QED
  BY <1>1, <1>2

LEMMA StoreWriteStep ==
  ASSUME Types, StoreInv, NEW t \in Threads, StoreWrite(t)
  PROVE  StoreInv'
<1>1. thread[t].at \in Writers
  BY DEF StoreWrite, SetEntry, AddToIndex, DeleteEntry, RemoveFromIndex, WriteFails, Writers
<1>2. thread[t].user \in Users
  BY <1>1, Working DEF Types, Writers
<1>3. CASE SetEntry(t)
  <2>1. PICK tk \in Marshalled(t) : entry' = [entry EXCEPT ![active][thread[t].user] = tk]
    BY <1>3 DEF SetEntry
  <2>2. /\ entry'[active][thread[t].user] = tk
        /\ \A v \in Users \ {thread[t].user} : entry'[active][v] = entry[active][v]
    BY <1>2, <2>1 DEF Types, Tables
  <2>3. Carries(t) => tk = token[thread[t].user]
    BY <1>3, <2>1 DEF SetEntry, Carries, Marshalled
  <2>4. UNCHANGED <<token, active, astray, index>>
    BY <1>3 DEF SetEntry, runtime, process
  <2>5. CASE active = "keychain"
    <3>1. Go(t, "index") /\ "index" \in Places
      BY <1>3, <2>5 DEF SetEntry, Places
    <3>2. /\ thread'[t].at = "index" /\ thread'[t].user = thread[t].user
          /\ \A x \in Threads \ {t} : thread'[x] = thread[x]
      BY <3>1, GoLemma
    <3>3. Carries(t) => Carries(t)'
      BY <2>2, <2>3, <2>4, <3>2 DEF Carries
    <3>4. Alone(t) /\ thread'[t].at \in Writers
      BY <2>2, <2>4, <3>2 DEF Alone, Writers
    <3> QED
      BY <1>1, <1>2, <3>2, <3>3, <3>4, WriteGoesOn
  <2>6. CASE active # "keychain"
    <3>1. Written(t)
      BY <1>3, <2>6 DEF SetEntry
    <3>2. Alone(t) /\ thread'[t].at \notin Writers
      BY <2>2, <2>4, <3>1, WrittenLemma DEF Alone, Writers
    <3>3. Carries(t) => Stored(entry', index', active, thread[t].user) = token[thread[t].user]
      BY <2>2, <2>3, <2>6 DEF Stored
    <3> QED
      BY <1>1, <1>2, <3>2, <3>3, WriteEnds
  <2> QED
    BY <2>5, <2>6
<1>4. CASE AddToIndex(t)
  <2>1. UNCHANGED <<token, active, astray, entry>> /\ index' = index \cup {thread[t].user} /\ Written(t)
    BY <1>4 DEF AddToIndex, runtime, process
  <2>2. Alone(t) /\ thread'[t].at \notin Writers
    BY <2>1, WrittenLemma DEF Alone, Writers
  <2>3. Carries(t) => Stored(entry', index', active, thread[t].user) = token[thread[t].user]
    BY <1>4, <2>1 DEF AddToIndex, Carries, Stored
  <2> QED
    BY <1>1, <1>2, <2>2, <2>3, WriteEnds
<1>5. CASE DeleteEntry(t)
  <2>1. /\ entry'[active][thread[t].user] = 0
        /\ \A v \in Users \ {thread[t].user} : entry'[active][v] = entry[active][v]
    BY <1>2, <1>5, ZeroToken DEF DeleteEntry, Types, Tables
  <2>2. UNCHANGED <<token, active, astray, index>>
    BY <1>5 DEF DeleteEntry, runtime, process
  <2>3. Carries(t) => token[thread[t].user] = 0
    BY <1>5 DEF Carries, DeleteEntry
  <2>4. CASE active = "keychain"
    <3>1. Go(t, "unindex") /\ "unindex" \in Places
      BY <1>5, <2>4 DEF DeleteEntry, Places
    <3>2. /\ thread'[t].at = "unindex" /\ thread'[t].user = thread[t].user
          /\ \A x \in Threads \ {t} : thread'[x] = thread[x]
      BY <3>1, GoLemma
    <3>3. Carries(t) => Carries(t)'
      BY <2>1, <2>2, <2>3, <3>2 DEF Carries
    <3>4. Alone(t) /\ thread'[t].at \in Writers
      BY <2>1, <2>2, <3>2 DEF Alone, Writers
    <3> QED
      BY <1>1, <1>2, <3>2, <3>3, <3>4, WriteGoesOn
  <2>5. CASE active # "keychain"
    <3>1. Ends(t)
      BY <1>5, <2>5 DEF DeleteEntry
    <3>2. Alone(t) /\ thread'[t].at \notin Writers
      BY <2>1, <2>2, <3>1, EndsLemma DEF Alone, Writers
    <3>3. Carries(t) => Stored(entry', index', active, thread[t].user) = token[thread[t].user]
      BY <2>1, <2>3, <2>5 DEF Stored
    <3> QED
      BY <1>1, <1>2, <3>2, <3>3, WriteEnds
  <2> QED
    BY <2>4, <2>5
<1>6. CASE RemoveFromIndex(t)
  <2>1. UNCHANGED <<token, active, astray, entry>> /\ index' = index \ {thread[t].user} /\ Ends(t)
    BY <1>6 DEF RemoveFromIndex, runtime, process
  <2>2. Alone(t) /\ thread'[t].at \notin Writers
    BY <2>1, EndsLemma DEF Alone, Writers
  <2>3. Carries(t) => Stored(entry', index', active, thread[t].user) = token[thread[t].user]
    BY <1>6, <2>1 DEF RemoveFromIndex, Carries, Stored
  <2> QED
    BY <1>1, <1>2, <2>2, <2>3, WriteEnds
<1>7. CASE WriteFails(t)
  <2>1. /\ UNCHANGED <<token, active, entry, index>> /\ astray' = astray \cup {thread[t].user}
        /\ Ends(t)
    BY <1>7 DEF WriteFails, runtime, secrets, process
  <2>2. (\A x \in Threads \ {t} : thread'[x] = thread[x]) /\ thread'[t].at \notin Writers
    BY <2>1, EndsLemma DEF Writers
  <2>3. ASSUME NEW v \in Users, v \notin astray'
        PROVE  v \notin astray /\ v # thread[t].user /\ Writing(v)' = Writing(v)
    BY <2>1, <2>2, <2>3 DEF Writing, Writers
  <2>4. ASSUME NEW v \in Users, v # thread[t].user, NEW x \in Writing(v), Carries(x) PROVE Carries(x)'
    <3>1. thread'[x] = thread[x] /\ thread[x].user = v
      BY <2>2, <2>4 DEF Writing
    <3> QED
      BY <2>1, <2>4, <3>1 DEF Carries
  <2> QED
    BY <2>1, <2>3, <2>4 DEF StoreInv, Stored
<1> QED
  BY <1>3, <1>4, <1>5, <1>6, <1>7 DEF StoreWrite

\* A goroutine that does not write takes a step that does not begin to.
LEMMA MovesAside ==
  ASSUME StoreInv, NEW t \in Threads, thread[t].at \notin Writers, thread'[t].at \notin Writers,
         \A x \in Threads \ {t} : thread'[x] = thread[x],
         UNCHANGED <<token, entry, index, active, astray>>
  PROVE  StoreInv'
<1>1. \A x \in Threads : thread[x].at \in Writers \/ thread'[x].at \in Writers => thread'[x] = thread[x]
  OBVIOUS
<1> QED
  BY <1>1, NobodyWrites

\* A goroutine begins for a user.
LEMMA BeginsLemma ==
  ASSUME Types, NEW t \in Threads, NEW x, thread' = [thread EXCEPT ![t] = x]
  PROVE  thread'[t] = x /\ \A y \in Threads \ {t} : thread'[y] = thread[y]
BY DEF Types

LEMMA FetchedLemma ==
  ASSUME Types, NEW t \in Threads, Fetched(t)
  PROVE  /\ thread'[t].at \in {"query", "idle"}
         /\ thread'[t].at = "idle" \/ thread'[t].user = thread[t].user
         /\ \A x \in Threads \ {t} : thread'[x] = thread[x]
<1>1. "query" \in Places
  BY DEF Places
<1> QED
  BY <1>1, GoLemma, EndsLemma DEF Fetched

\* A request leaves a goroutine idle, at its next request or at the list.
LEMMA RequestLemma ==
  ASSUME Types, NEW t \in Handlers, NEW held \in Token, thread[t].at \in {"token", "query"},
         NEW next \in Requests(t, held)
  PROVE  next.at \in {"idle", "query", "list"}
<1> DEFINE again == [thread[t] EXCEPT !.held = held]
           listing == [thread[t] EXCEPT !.held = held, !.at = "list"]
<1>1. thread[t] \in Thread
  BY DEF Types, Sound
<1>2. again.at = thread[t].at /\ listing.at = "list" /\ Idle.at = "idle"
  BY <1>1 DEF Thread, Idle
<1>3. (thread[t].at = "query" /\ next \in {Idle, again}) \/ next = listing
  BY DEF Requests
<1> HIDE DEF again, listing
<1> QED
  BY <1>2, <1>3

LEMMA CallbackStore ==
  ASSUME Types, StoreInv, NEW t \in Handlers, Callback(t)
  PROVE  StoreInv'
<1>1. ASSUME NEW u \in Users, HandleCallback(t, u) PROVE StoreInv'
  <2> DEFINE begun == [at |-> "exchange", op |-> "callback", user |-> u, held |-> 0]
  <2>0. begun.at = "exchange" /\ thread' = [thread EXCEPT ![t] = begun]
    BY <1>1 DEF HandleCallback
  <2> HIDE DEF begun
  <2>1. thread'[t].at = "exchange" /\ \A x \in Threads \ {t} : thread'[x] = thread[x]
    BY <2>0, BeginsLemma
  <2> QED
    BY <1>1, <2>1, MovesAside DEF HandleCallback, Idle, Writers, secrets, process
<1>2. CASE ExchangeFails(t)
  BY <1>2, EndsLemma, MovesAside DEF ExchangeFails, Writers, runtime, secrets, process
<1>3. CASE Exchange(t)
  <2>0. issued' \in Token
    BY <1>3, ConnectorsAssumption DEF Exchange, Types, Tables, Token
  <2>1. issued' \in Token /\ thread[t].user \in Users /\ thread[t] \in Thread
    BY <1>3, <2>0, Working DEF Exchange, Types, Sound
  <2>2. /\ thread'[t].user = thread[t].user /\ thread'[t].at = "save" /\ thread'[t].held = issued'
        /\ \A x \in Threads \ {t} : thread'[x] = thread[x]
    BY <1>3, <2>1 DEF Exchange, Types, Thread
  <2>3. /\ thread[t].at \notin Writers /\ Changes(thread[t].user)
        /\ token' = [token EXCEPT ![thread[t].user] = issued'] /\ UNCHANGED <<entry, index, active>>
    BY <1>3 DEF Exchange, Writers, secrets, process
  <2> QED
    BY <2>1, <2>2, <2>3, WriteBegins
<1> QED
  BY <1>1, <1>2, <1>3 DEF Callback

LEMMA DisconnectStore ==
  ASSUME Types, StoreInv, NEW t \in Handlers, NEW u \in Users, Revoke(t, u)
  PROVE  StoreInv'
<1> DEFINE begun == [at |-> "delete", op |-> "revoke", user |-> u, held |-> 0]
<1>0. begun.at = "delete" /\ begun.user = u /\ thread' = [thread EXCEPT ![t] = begun]
  BY DEF Revoke
<1> HIDE DEF begun
<1>1. /\ thread'[t].at = "delete" /\ thread'[t].user = u
      /\ \A x \in Threads \ {t} : thread'[x] = thread[x]
  BY <1>0, BeginsLemma
<1>2. /\ thread[t].at \notin Writers /\ Changes(u)
      /\ token' = [token EXCEPT ![u] = 0] /\ UNCHANGED <<entry, index, active>>
  BY DEF Revoke, Idle, Writers, secrets, process
<1> QED
  BY <1>1, <1>2, ZeroToken, WriteBegins

LEMMA ClientStore ==
  ASSUME Types, StoreInv, NEW t \in Handlers, UseClient(t)
  PROVE  StoreInv'
<1>1. ASSUME NEW u \in Users, NEW op \in {"tool", "fetch"}, Begin(t, u, op) PROVE StoreInv'
  <2> DEFINE begun == [at |-> "client", op |-> op, user |-> u, held |-> 0]
  <2>0. begun.at = "client" /\ thread' = [thread EXCEPT ![t] = begun]
    BY <1>1 DEF Begin
  <2> HIDE DEF begun
  <2>1. thread'[t].at = "client" /\ \A x \in Threads \ {t} : thread'[x] = thread[x]
    BY <2>0, BeginsLemma
  <2> QED
    BY <1>1, <2>1, MovesAside DEF Begin, Idle, Writers, runtime, secrets, process
<1>2. CASE Client(t)
  <2>1. thread[t] \in Thread
    BY DEF Types, Sound
  <2>2. thread'[t].at \in {"idle", "select", "token"} /\ \A x \in Threads \ {t} : thread'[x] = thread[x]
    BY <1>2, <2>1, EndsLemma DEF Client, Types, Thread
  <2> QED
    BY <1>2, <2>2, MovesAside DEF Client, Writers, runtime, secrets, process
<1>3. CASE GetEnabledCalendarIDs(t)
  <2>1. PICK place \in {"token", "query"} : Go(t, place)
    BY <1>3 DEF GetEnabledCalendarIDs
  <2>2. thread'[t].at = place /\ \A x \in Threads \ {t} : thread'[x] = thread[x]
    BY <2>1, GoLemma DEF Places
  <2> QED
    BY <1>3, <2>2, MovesAside DEF GetEnabledCalendarIDs, Writers, runtime, secrets, process
<1>4. ASSUME NEW fresh \in BOOLEAN, HasToken(t, fresh) PROVE StoreInv'
  <2> DEFINE u == thread[t].user
             held == IF fresh THEN issued + 1 ELSE thread[t].held
  <2>1. u \in Users /\ thread[t].held \in Token /\ thread[t].at \in {"token", "query"}
    BY <1>4, Working DEF HasToken, Types
  <2>2. held \in Token /\ UNCHANGED <<entry, index, active>>
    BY <1>4, <2>1, ConnectorsAssumption DEF HasToken, Types, Tables, Token, secrets, process
  <2>3. PICK next \in Requests(t, held) :
          \/ /\ token[u] = 0
             /\ thread' = [thread EXCEPT ![t] = next]
             /\ UNCHANGED <<token, astray>>
          \/ \E s \in Savers :
               /\ token[u] # 0 /\ thread[s] = Idle
               /\ token' = [token EXCEPT ![u] = held]
               /\ Changes(u)
               /\ thread' = [thread EXCEPT
                    ![t] = next, ![s] = [at |-> "save", op |-> "saver", user |-> u, held |-> held]]
    BY <1>4 DEF HasToken
  <2> HIDE DEF u, held
  <2>4. next.at \notin Writers /\ thread[t].at \notin Writers
    BY <2>1, <2>2, <2>3, RequestLemma DEF Writers
  <2>5. CASE thread' = [thread EXCEPT ![t] = next] /\ UNCHANGED <<token, astray>>
    BY <2>2, <2>4, <2>5, BeginsLemma, MovesAside
  <2>6. ASSUME NEW s \in Savers, thread[s] = Idle,
               token' = [token EXCEPT ![u] = held], Changes(u),
               thread' = [thread EXCEPT
                 ![t] = next, ![s] = [at |-> "save", op |-> "saver", user |-> u, held |-> held]]
        PROVE  StoreInv'
    <3>1. s # t
      BY ConnectorsAssumption
    <3>2. /\ thread'[s] = [at |-> "save", op |-> "saver", user |-> u, held |-> held]
          /\ thread'[t] = next /\ \A x \in Threads \ {s, t} : thread'[x] = thread[x]
      BY <2>6, <3>1 DEF Types
    <3>3. thread'[s].user = u /\ thread'[s].at = "save" /\ thread'[s].held = held
      BY <3>2
    <3>4. \A x \in Threads \ {s} :
            thread[x].at \in Writers \/ thread'[x].at \in Writers => thread'[x] = thread[x]
      BY <2>4, <3>2
    <3>5. thread[s].at \notin Writers
      BY <2>6 DEF Idle, Writers
    <3> QED
      BY <2>1, <2>2, <2>6, <3>3, <3>4, <3>5, WriteBegins DEF u
  <2> QED
    BY <2>3, <2>5, <2>6
<1>5. CASE RefreshFails(t)
  <2>1. /\ thread[t].at \in {"token", "query"}
        /\ UNCHANGED <<token, entry, index, active, astray>>
    BY <1>5 DEF RefreshFails, secrets, process
  <2>2. CASE thread[t].at = "token"
    BY <1>5, <2>1, <2>2, FetchedLemma, MovesAside DEF RefreshFails, Writers
  <2>3. CASE thread[t].at # "token"
    <3>1. thread[t].held \in Token
      BY <2>1, Working DEF Types
    <3>2. PICK next \in Requests(t, thread[t].held) : thread' = [thread EXCEPT ![t] = next]
      BY <1>5, <2>3 DEF RefreshFails
    <3>3. next.at \notin Writers
      BY <2>1, <3>1, <3>2, RequestLemma DEF Writers
    <3> QED
      BY <2>1, <3>2, <3>3, BeginsLemma, MovesAside DEF Writers
  <2> QED
    BY <2>2, <2>3
<1> QED
  BY <1>1, <1>2, <1>3, <1>4, <1>5 DEF UseClient, CallTool, RefreshSettings

LEMMA FetchStore ==
  ASSUME Types, StoreInv, NEW t \in Handlers, Fetch(t)
  PROVE  StoreInv'
<1>1. thread[t].at \in {"list", "check", "enable"} /\ UNCHANGED <<token, entry, index, active, astray>>
  BY DEF Fetch, ListFails, CheckEnabled, SetCalendars, EnableAll, runtime, secrets, process
<1>2. Fetched(t) \/ \E place \in {"check", "enable"} : Go(t, place)
  BY DEF Fetch, ListFails, CheckEnabled, SetCalendars, EnableAll
<1>3. /\ thread'[t].at \in {"query", "idle", "check", "enable"}
      /\ \A x \in Threads \ {t} : thread'[x] = thread[x]
  BY <1>2, FetchedLemma, GoLemma DEF Places
<1> QED
  BY <1>1, <1>3, MovesAside DEF Writers

LEMMA RestartStore ==
  ASSUME Types, Restart
  PROVE  StoreInv'
<1>1. PICK b \in Backends, readable \in BOOLEAN, torn \in BOOLEAN :
        Start(b, IF torn THEN [entry EXCEPT !["file"] = [u \in Users |-> 0]] ELSE entry, readable)
  BY DEF Restart
<1>2. \A u \in Users : Writing(u)' = {}
  BY DEF Restart, Writing, Idle
<1>3. ASSUME NEW u \in Users, u \notin astray' PROVE Stored(entry, index, active, u)' = token'[u]
  BY <1>1, <1>3 DEF Start, Stored
<1> QED
  BY <1>2, <1>3 DEF StoreInv

LEMMA StoreInit == Init => StoreInv
<1> SUFFICES ASSUME Init PROVE StoreInv
  OBVIOUS
<1>1. \A u \in Users : Writing(u) = {}
  BY DEF Init, Writing, Idle
<1>2. \A u \in Users : Stored(entry, index, active, u) = token[u]
  BY DEF Init
<1> QED
  BY <1>1, <1>2 DEF StoreInv

LEMMA StoreStep == Types /\ StoreInv /\ [Next]_vars => StoreInv'
<1> SUFFICES ASSUME Types, StoreInv, [Next]_vars PROVE StoreInv'
  OBVIOUS
<1>1. CASE UNCHANGED vars
  BY <1>1, NobodyWrites DEF vars, runtime, secrets, process
<1>2. ASSUME NEW u \in Users, StartAuth(u) PROVE StoreInv'
  BY <1>2, NobodyWrites DEF StartAuth, secrets, process
<1>3. ASSUME NEW t \in Handlers, Callback(t) \/ Disconnect(t) \/ UseClient(t) \/ Fetch(t)
      PROVE  StoreInv'
  BY <1>3, CallbackStore, DisconnectStore, ClientStore, FetchStore DEF Disconnect
<1>4. ASSUME NEW t \in Threads, StoreWrite(t) PROVE StoreInv'
  BY <1>4, StoreWriteStep
<1>5. ASSUME NEW u \in Users, NEW ids \in Selections, NEW ok \in BOOLEAN, Select(u, ids, ok)
      PROVE  StoreInv'
  BY <1>5, NobodyWrites DEF Select, runtime, secrets, process
<1> QED
  BY <1>1, <1>2, <1>3, <1>4, <1>5, RestartStore DEF Next

\* Whatever the order of connections, disconnections, refreshes and restarts, the store
\* has the token that memory has for every user of whom no write goes on, has failed or
\* overlapped another.
THEOREM StoreFollows == Spec => []StoreFollowsMemory
<1>1. StoreInv => StoreFollowsMemory
  BY DEF StoreInv, StoreFollowsMemory
<1> QED
  BY <1>1, InitTypes, TypesStep, StoreInit, StoreStep, PTL DEF Spec

-----------------------------------------------------------------------------
(* A selection is kept.                                                    *)

\* Of a user who has selected and was not overrun, memory and the file have the selection,
\* and no fetch is about to enable all calendars.
SelectInv ==
  \A u \in Users \ overrun :
    chosen[u] # {} => /\ settings[u] = chosen[u] /\ file[u] = chosen[u]
                      /\ \A t \in Threads : ~(thread[t].user = u /\ thread[t].at = "enable")

\* No goroutine comes to enable the calendars.
NoneEnables == \A x \in Threads : thread'[x].at = "enable" => thread'[x] = thread[x]

LEMMA Undisturbed ==
  ASSUME SelectInv, UNCHANGED <<settings, file, chosen, overrun>>, NoneEnables
  PROVE  SelectInv'
BY DEF SelectInv, NoneEnables

LEMMA CallbackEnables ==
  ASSUME Types, NEW t \in Handlers, Callback(t) \/ Disconnect(t)
  PROVE  NoneEnables
<1>1. ASSUME NEW u \in Users, NEW place \in {"exchange", "delete"}, NEW op,
             thread' = [thread EXCEPT ![t] = [at |-> place, op |-> op, user |-> u, held |-> 0]]
      PROVE  NoneEnables
  <2> DEFINE begun == [at |-> place, op |-> op, user |-> u, held |-> 0]
  <2>1. begun.at # "enable" /\ thread' = [thread EXCEPT ![t] = begun]
    BY <1>1
  <2> HIDE DEF begun
  <2> QED
    BY <2>1, BeginsLemma DEF NoneEnables
<1>2. CASE ExchangeFails(t)
  BY <1>2, EndsLemma DEF ExchangeFails, NoneEnables
<1>3. CASE Exchange(t)
  <2>1. thread[t] \in Thread
    BY DEF Types, Sound
  <2>2. thread'[t].at = "save" /\ \A x \in Threads \ {t} : thread'[x] = thread[x]
    BY <1>3, <2>1 DEF Exchange, Types, Thread
  <2> QED
    BY <2>2 DEF NoneEnables
<1> QED
  BY <1>1, <1>2, <1>3 DEF Callback, Disconnect, HandleCallback, Revoke

LEMMA WriteEnables ==
  ASSUME Types, NEW t \in Threads, StoreWrite(t)
  PROVE  NoneEnables
<1>1. Written(t) \/ Ends(t) \/ \E place \in {"index", "unindex"} : Go(t, place)
  BY DEF StoreWrite, SetEntry, AddToIndex, DeleteEntry, RemoveFromIndex, WriteFails
<1>2. /\ thread'[t].at \in {"idle", "client", "index", "unindex"}
      /\ \A x \in Threads \ {t} : thread'[x] = thread[x]
  BY <1>1, WrittenLemma, EndsLemma, GoLemma DEF Places
<1> QED
  BY <1>2 DEF NoneEnables

LEMMA ClientEnables ==
  ASSUME Types, NEW t \in Handlers, UseClient(t)
  PROVE  NoneEnables
<1>1. ASSUME NEW u \in Users, NEW op \in {"tool", "fetch"}, Begin(t, u, op) PROVE NoneEnables
  <2> DEFINE begun == [at |-> "client", op |-> op, user |-> u, held |-> 0]
  <2>1. begun.at # "enable" /\ thread' = [thread EXCEPT ![t] = begun]
    BY <1>1 DEF Begin
  <2> HIDE DEF begun
  <2> QED
    BY <2>1, BeginsLemma DEF NoneEnables
<1>2. CASE Client(t)
  <2>1. thread[t] \in Thread
    BY DEF Types, Sound
  <2>2. thread'[t].at \in {"idle", "select", "token"} /\ \A x \in Threads \ {t} : thread'[x] = thread[x]
    BY <1>2, <2>1, EndsLemma DEF Client, Types, Thread
  <2> QED
    BY <2>2 DEF NoneEnables
<1>3. CASE GetEnabledCalendarIDs(t)
  <2>1. PICK place \in {"token", "query"} : Go(t, place)
    BY <1>3 DEF GetEnabledCalendarIDs
  <2> QED
    BY <2>1, GoLemma DEF Places, NoneEnables
<1>4. ASSUME NEW fresh \in BOOLEAN, HasToken(t, fresh) PROVE NoneEnables
  <2> DEFINE held == IF fresh THEN issued + 1 ELSE thread[t].held
  <2>1. thread[t].held \in Token /\ thread[t].at \in {"token", "query"}
    BY <1>4, Working DEF HasToken, Types
  <2>2. held \in Token
    BY <1>4, <2>1, ConnectorsAssumption DEF HasToken, Types, Tables, Token
  <2>3. PICK next \in Requests(t, held) :
          \/ thread' = [thread EXCEPT ![t] = next]
          \/ \E s \in Savers :
               /\ thread[s] = Idle
               /\ thread' = [thread EXCEPT ![t] = next, ![s] =
                    [at |-> "save", op |-> "saver", user |-> thread[t].user, held |-> held]]
    BY <1>4 DEF HasToken
  <2> HIDE DEF held
  <2>4. next.at # "enable"
    BY <2>1, <2>2, <2>3, RequestLemma
  <2>5. CASE thread' = [thread EXCEPT ![t] = next]
    BY <2>4, <2>5, BeginsLemma DEF NoneEnables
  <2>6. ASSUME NEW s \in Savers,
               thread' = [thread EXCEPT ![t] = next, ![s] =
                 [at |-> "save", op |-> "saver", user |-> thread[t].user, held |-> held]]
        PROVE  NoneEnables
    <3>1. s # t
      BY ConnectorsAssumption
    <3>2. /\ thread'[s].at = "save" /\ thread'[t] = next
          /\ \A x \in Threads \ {s, t} : thread'[x] = thread[x]
      BY <2>6, <3>1 DEF Types
    <3> QED
      BY <2>4, <3>2 DEF NoneEnables
  <2> QED
    BY <2>3, <2>5, <2>6
<1>5. CASE RefreshFails(t)
  <2>1. thread[t].at \in {"token", "query"} /\ thread[t].held \in Token
    BY <1>5, Working DEF RefreshFails, Types
  <2>2. CASE Fetched(t)
    BY <2>2, FetchedLemma DEF NoneEnables
  <2>3. ASSUME NEW next \in Requests(t, thread[t].held), thread' = [thread EXCEPT ![t] = next]
        PROVE  NoneEnables
    <3>1. next.at # "enable"
      BY <2>1, RequestLemma
    <3> QED
      BY <2>3, <3>1, BeginsLemma DEF NoneEnables
  <2> QED
    BY <1>5, <2>2, <2>3 DEF RefreshFails
<1> QED
  BY <1>1, <1>2, <1>3, <1>4, <1>5 DEF UseClient, CallTool, RefreshSettings

LEMMA FetchSelect ==
  ASSUME Types, SelectInv, NEW t \in Handlers, Fetch(t)
  PROVE  SelectInv'
<1>1. thread[t].at \in {"list", "check", "enable"} /\ UNCHANGED <<chosen, overrun>>
  BY DEF Fetch, ListFails, CheckEnabled, SetCalendars, EnableAll, disk, choice
<1>2. thread[t].user \in Users
  BY <1>1, Working DEF Types
<1>3. CASE ListFails(t)
  BY <1>1, <1>3, FetchedLemma, Undisturbed DEF ListFails, disk, NoneEnables
<1>4. CASE CheckEnabled(t)
  <2>1. UNCHANGED <<settings, file>>
    BY <1>4 DEF CheckEnabled, disk
  <2>2. CASE settings[thread[t].user] = {}
    <3>1. /\ thread'[t].at = "enable" /\ thread'[t].user = thread[t].user
          /\ \A x \in Threads \ {t} : thread'[x] = thread[x]
      BY <1>4, <2>2, GoLemma DEF CheckEnabled, Places
    <3> QED
      BY <1>1, <2>1, <2>2, <3>1 DEF SelectInv
  <2>3. CASE settings[thread[t].user] # {}
    BY <1>1, <1>4, <2>1, <2>3, FetchedLemma, Undisturbed DEF CheckEnabled, NoneEnables
  <2> QED
    BY <2>2, <2>3
<1>5. ASSUME NEW listed \in {{}, Calendars}, NEW ok \in BOOLEAN, SetCalendars(t, listed, ok)
      PROVE  SelectInv'
  <2>1. settings' = settings /\ file' \in {settings, file}
    BY <1>2, <1>5 DEF SetCalendars, Saves, Types, Tables, Settings
  <2>2. NoneEnables
    BY <1>5, FetchedLemma, GoLemma DEF SetCalendars, Places, NoneEnables
  <2> QED
    BY <1>1, <2>1, <2>2 DEF SelectInv, NoneEnables
<1>6. ASSUME NEW ok \in BOOLEAN, EnableAll(t, ok) PROVE SelectInv'
  <2>1. /\ \A v \in Users \ {thread[t].user} : settings'[v] = settings[v]
        /\ file' \in {settings', file}
    BY <1>2, <1>6 DEF EnableAll, Saves, Types, Tables, Settings
  <2>2. NoneEnables
    BY <1>6, FetchedLemma DEF EnableAll, NoneEnables
  <2>3. thread[t].user \in overrun \/ chosen[thread[t].user] = {}
    BY <1>2, <1>6 DEF EnableAll, SelectInv
  <2> QED
    BY <1>1, <2>1, <2>2, <2>3 DEF SelectInv, NoneEnables
<1> QED
  BY <1>3, <1>4, <1>5, <1>6 DEF Fetch

LEMMA SelectStep == Types /\ SelectInv /\ [Next]_vars => SelectInv'
<1> SUFFICES ASSUME Types, SelectInv, [Next]_vars PROVE SelectInv'
  OBVIOUS
<1>1. CASE UNCHANGED vars
  BY <1>1, Undisturbed DEF vars, disk, choice, NoneEnables
<1>2. ASSUME NEW u \in Users, StartAuth(u) PROVE SelectInv'
  BY <1>2, Undisturbed DEF StartAuth, disk, choice, NoneEnables
<1>3. ASSUME NEW t \in Handlers, Callback(t) \/ Disconnect(t) PROVE SelectInv'
  <2>1. UNCHANGED <<settings, file, chosen, overrun>>
    BY <1>3 DEF Callback, HandleCallback, Exchange, ExchangeFails, Disconnect, Revoke, disk, choice
  <2> QED
    BY <1>3, <2>1, CallbackEnables, Undisturbed
<1>4. ASSUME NEW t \in Handlers, UseClient(t) PROVE SelectInv'
  <2>1. UNCHANGED <<settings, file, chosen, overrun>>
    BY <1>4 DEF UseClient, CallTool, RefreshSettings, Begin, Client, GetEnabledCalendarIDs,
                HasToken, RefreshFails, disk, choice
  <2> QED
    BY <1>4, <2>1, ClientEnables, Undisturbed
<1>5. ASSUME NEW t \in Threads, StoreWrite(t) PROVE SelectInv'
  <2>1. UNCHANGED <<settings, file, chosen, overrun>>
    BY <1>5 DEF StoreWrite, SetEntry, AddToIndex, DeleteEntry, RemoveFromIndex, WriteFails, disk, choice
  <2> QED
    BY <1>5, <2>1, WriteEnables, Undisturbed
<1>6. ASSUME NEW u \in Users, NEW ids \in Selections, NEW ok \in BOOLEAN, Select(u, ids, ok)
      PROVE  SelectInv'
  <2>1. /\ settings'[u] = ids /\ chosen'[u] = ids
        /\ \A v \in Users \ {u} : settings'[v] = settings[v] /\ chosen'[v] = chosen[v]
        /\ file' \in {settings', file} /\ (ok => file' = settings') /\ thread' = thread
    BY <1>6, ConnectorsAssumption DEF Select, Saves, Types, Tables, Settings
  <2>2. /\ u \notin overrun' => ok /\ \A t \in Threads : ~(thread[t].user = u /\ thread[t].at = "enable")
        /\ \A v \in Users \ {u} : v \notin overrun' => v \notin overrun
    BY <1>6 DEF Select
  <2> QED
    BY <2>1, <2>2 DEF SelectInv
<1>7. CASE Restart
  <2>1. PICK saved \in {file, NoSettings} :
          /\ file' = saved /\ settings' = saved
          /\ overrun' = IF saved = file THEN overrun ELSE Users
    BY <1>7 DEF Restart
  <2>2. chosen' = chosen /\ \A t \in Threads : thread'[t].at = "idle"
    BY <1>7 DEF Restart, Idle
  <2> QED
    BY <2>1, <2>2 DEF SelectInv
<1> QED
  BY <1>1, <1>2, <1>3, <1>4, <1>5, <1>6, <1>7, FetchSelect DEF Next

\* What a user has selected outlives fetches, tool calls, connections and restarts, unless
\* a fetch was about to enable all calendars or the file was lost.
THEOREM SelectionStays == Spec => []SelectionKept
<1>1. Init => SelectInv
  BY DEF Init, SelectInv
<1>2. SelectInv => SelectionKept
  BY DEF SelectInv, SelectionKept
<1> QED
  BY <1>1, <1>2, InitTypes, TypesStep, SelectStep, PTL DEF Spec
=============================================================================
