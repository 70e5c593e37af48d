------------------------------ MODULE Connectors ------------------------------
(***************************************************************************)
(* A connector with OAuth (connector/oauth.go, manager.go, settings.go and *)
(* api/connector_handlers.go), and the secret store its tokens are kept in *)
(* (secretstore/).                                                         *)
(*                                                                         *)
(* The runtime changes a token in memory under its lock and writes it to   *)
(* the store after the lock: a callback and a disconnection in their own   *)
(* goroutine, a refreshed token in a goroutine nobody waits for.  A client *)
(* works on the copy of the token it was made with.  What the provider     *)
(* answers, the requests' templates and the results' mapping are external. *)
(***************************************************************************)
EXTENDS Integers

CONSTANTS
  Users,
  Calendars,     \* the calendars that the provider lists, when it lists any
  Selections,    \* bound: the sets of calendars that a user may select
  Handlers,      \* goroutines of the handlers, of the agents' tools, of the callbacks' fetch
  Savers,        \* bound: goroutines that save a refreshed token at once
  Backends,      \* subset of {"keychain", "file"}: what the probe of a start may choose
  LegacyUsers,   \* users whose token an older version has left in connector_tokens.yaml
  MaxTokens,     \* bound: tokens the provider ever issues
  MaxFlows,      \* bound: flows a user has begun and not completed
  MaxFaults,     \* bound: restarts and writes that fail
  None

Threads == Handlers \cup Savers

ASSUME ConnectorsAssumption ==
  /\ Backends \subseteq {"keychain", "file"} /\ Backends # {}
  /\ Handlers \cap Savers = {}
  /\ LegacyUsers \subseteq Users /\ None \notin Users
  /\ Selections \subseteq SUBSET Calendars
  /\ MaxTokens \in Nat \ {0} /\ MaxFlows \in Nat /\ MaxFaults \in Nat

VARIABLES
  token,      \* OAuthRuntime.tokens: the token's number, 0 when there is none
  failed,     \* OAuthRuntime.authErrors: users with an error
  states,     \* OAuthRuntime.states: how many flows of the user wait for a callback
  active,     \* fallbackStore.active
  entry,      \* backend |-> user |-> the token stored
  index,      \* the keychain's list of keys
  legacy,     \* users in connector_tokens.yaml
  settings,   \* SettingsStore.data: the calendars enabled; those cached are left out
  file,       \* connector_settings.yaml
  thread,     \* thread |-> where it stands
  issued,     \* tokens the provider has issued
  faults,     \* restarts and failed writes so far
  astray,     \* history: users with overlapping, failed or unread writes of a token
  chosen,     \* history: the last selection a user was told is saved
  overrun     \* history: users who selected while a fetch was about to enable all

runtime == <<token, failed, states>>
secrets == <<entry, index>>
process == <<active, legacy>>
disk == <<settings, file>>
choice == <<chosen, overrun>>
vars == <<runtime, secrets, process, disk, thread, issued, faults, astray, choice>>

Token == 0 .. MaxTokens
NoSettings == [u \in Users |-> {}]
Settings == [Users -> SUBSET Calendars]
Thread == [at : {"idle", "exchange", "save", "index", "delete", "unindex", "client", "select",
                 "token", "list", "check", "enable", "query"},
           op : {"none", "callback", "fetch", "tool", "revoke", "saver"},
           user : Users \cup {None}, held : Token]
Idle == [at |-> "idle", op |-> "none", user |-> None, held |-> 0]

TypeOK ==
  /\ token \in [Users -> Token]
  /\ failed \in SUBSET Users
  /\ states \in [Users -> 0 .. MaxFlows]
  /\ active \in Backends
  /\ entry \in [Backends -> [Users -> Token]]
  /\ index \in SUBSET Users
  /\ legacy \in SUBSET LegacyUsers
  /\ settings \in Settings
  /\ file \in Settings
  /\ thread \in [Threads -> Thread]
  /\ issued \in Token
  /\ faults \in 0 .. MaxFaults
  /\ astray \in SUBSET Users
  /\ chosen \in [Users -> SUBSET Calendars]
  /\ overrun \in SUBSET Users

\* What List and Get find: the keychain enumerates the keys of its index, and prunes
\* those without an entry.
Stored(entries, keys, backend, u) ==
  IF backend = "keychain" /\ u \notin keys THEN 0 ELSE entries[backend][u]

-----------------------------------------------------------------------------
(* A start: the probe, the migration of the older file, loadTokens.        *)

\* The older file is renamed when all its tokens are stored; the rename may fail, and
\* then the next start stores the same tokens again.
Migrated(b, entries) ==
  [entries EXCEPT ![b] = [u \in Users |-> IF u \in legacy THEN 1 ELSE @[u]]]

\* loadTokens is given up when the store cannot be listed, and its error ignored.
Start(b, entries, readable) ==
  /\ active' = b
  /\ entry' = Migrated(b, entries)
  /\ index' = IF b = "keychain" THEN index \cup legacy ELSE index
  /\ legacy' \in {legacy, {}}
  /\ token' = [u \in Users |-> IF readable THEN Stored(entry', index', b, u) ELSE 0]
  /\ astray' = IF readable THEN {} ELSE Users

Init ==
  /\ active \in Backends
  /\ legacy \in {{}, LegacyUsers}
  /\ entry = [b \in Backends |-> [u \in Users |-> IF b = active /\ u \in LegacyUsers THEN 1 ELSE 0]]
  /\ index = IF active = "keychain" THEN LegacyUsers ELSE {}
  /\ token = [u \in Users |-> Stored(entry, index, active, u)]
  /\ failed = {} /\ states = [u \in Users |-> 0]
  /\ settings = NoSettings /\ file = NoSettings
  /\ thread = [t \in Threads |-> Idle]
  /\ issued = 1 /\ faults = 0
  /\ astray = {} /\ overrun = {}
  /\ chosen = [u \in Users |-> {}]

\* Bound: a restart, or a write that fails, is one of MaxFaults.
Fault(ok) == /\ ok \/ faults < MaxFaults
             /\ faults' = IF ok THEN faults ELSE faults + 1

Writes(t) == thread[t].at \in {"save", "delete"}

\* The process stops anywhere.  os.WriteFile empties the file before it writes it: a
\* stop within it loses the secrets, or the settings, of all users.
Restart ==
  /\ Fault(FALSE)
  /\ \E b \in Backends, readable \in BOOLEAN, torn \in BOOLEAN :
       /\ torn => active = "file" /\ \E t \in Threads : Writes(t)
       /\ Start(b, IF torn THEN [entry EXCEPT !["file"] = [u \in Users |-> 0]] ELSE entry, readable)
  /\ failed' = {} /\ states' = [u \in Users |-> 0]
  /\ \E saved \in {file, NoSettings} :
       /\ file' = saved /\ settings' = saved
       /\ overrun' = IF saved = file THEN overrun ELSE Users
  /\ thread' = [t \in Threads |-> Idle]
  /\ UNCHANGED <<issued, chosen>>

-----------------------------------------------------------------------------
(* The token in memory and its writes.                                     *)

Go(t, at) == thread' = [thread EXCEPT ![t].at = at]
Ends(t) == thread' = [thread EXCEPT ![t] = Idle]

\* A goroutine that is to write what memory now has for the user.
Writing(u) ==
  {t \in Threads : thread[t].user = u /\ thread[t].at \in {"save", "index", "delete", "unindex"}}

\* History: the change of a user's token begins while a write of an older one goes on.
Changes(u) == astray' = IF Writing(u) = {} THEN astray \ {u} ELSE astray \cup {u}

StartAuth(u) ==
  /\ states[u] < MaxFlows
  /\ states' = [states EXCEPT ![u] = @ + 1]
  /\ UNCHANGED <<token, failed, secrets, process, disk, thread, issued, faults, astray, choice>>

\* Mutant: a state that nobody began is accepted.
CallbackWithoutState(t, u) ==
  /\ thread[t] = Idle
  /\ states' = [states EXCEPT ![u] = @ - 1]
  /\ thread' = [thread EXCEPT ![t] = [at |-> "exchange", op |-> "callback", user |-> u, held |-> 0]]
  /\ UNCHANGED <<token, failed, secrets, process, disk, issued, faults, astray, choice>>

\* HandleCallback takes the state under the lock: it serves once.
HandleCallback(t, u) ==
  /\ thread[t] = Idle /\ states[u] > 0
  /\ states' = [states EXCEPT ![u] = @ - 1]
  /\ thread' = [thread EXCEPT ![t] = [at |-> "exchange", op |-> "callback", user |-> u, held |-> 0]]
  /\ UNCHANGED <<token, failed, secrets, process, disk, issued, faults, astray, choice>>

ExchangeFails(t) ==
  /\ thread[t].at = "exchange"
  /\ Ends(t)
  /\ UNCHANGED <<runtime, secrets, process, disk, issued, faults, astray, choice>>

Exchange(t) ==
  LET u == thread[t].user IN
  /\ thread[t].at = "exchange"
  /\ issued < MaxTokens
  /\ issued' = issued + 1
  /\ token' = [token EXCEPT ![u] = issued']
  /\ failed' = failed \ {u}
  /\ Changes(u)
  /\ thread' = [thread EXCEPT ![t].at = "save", ![t].held = issued']
  /\ UNCHANGED <<states, secrets, process, disk, faults, choice>>

\* When its write is over, a callback answers and its goroutine fetches the calendars.
Written(t) == IF thread[t].op = "callback"
              THEN thread' = [thread EXCEPT ![t] = [@ EXCEPT !.at = "client", !.op = "fetch", !.held = 0]]
              ELSE Ends(t)

\* A callback marshals, without the lock, the record that is in memory: it may have been
\* refreshed since.  A saver has a copy.
Marshalled(t) ==
  {thread[t].held} \cup (IF thread[t].op = "callback" THEN {token[thread[t].user]} \ {0} ELSE {})

\* FileStore.Set, or the entry of keychainStore.Set.
SetEntry(t) ==
  /\ thread[t].at = "save"
  /\ \E tk \in Marshalled(t) : entry' = [entry EXCEPT ![active][thread[t].user] = tk]
  /\ IF active = "keychain" THEN Go(t, "index") ELSE Written(t)
  /\ UNCHANGED <<runtime, index, process, disk, issued, faults, astray, choice>>

AddToIndex(t) ==
  /\ thread[t].at = "index"
  /\ index' = index \cup {thread[t].user}
  /\ Written(t)
  /\ UNCHANGED <<runtime, entry, process, disk, issued, faults, astray, choice>>

\* Mutant: the token is forgotten in memory only.
RevokeInMemory(t, u) ==
  /\ thread[t] = Idle
  /\ token' = [token EXCEPT ![u] = 0]
  /\ failed' = failed \ {u}
  /\ Changes(u)
  /\ UNCHANGED <<states, secrets, process, disk, thread, issued, faults, choice>>

Revoke(t, u) ==
  /\ thread[t] = Idle
  /\ token' = [token EXCEPT ![u] = 0]
  /\ failed' = failed \ {u}
  /\ Changes(u)
  /\ thread' = [thread EXCEPT ![t] = [at |-> "delete", op |-> "revoke", user |-> u, held |-> 0]]
  /\ UNCHANGED <<states, secrets, process, disk, issued, faults, choice>>

DeleteEntry(t) ==
  /\ thread[t].at = "delete"
  /\ entry' = [entry EXCEPT ![active][thread[t].user] = 0]
  /\ IF active = "keychain" THEN Go(t, "unindex") ELSE Ends(t)
  /\ UNCHANGED <<runtime, index, process, disk, issued, faults, astray, choice>>

RemoveFromIndex(t) ==
  /\ thread[t].at = "unindex"
  /\ index' = index \ {thread[t].user}
  /\ Ends(t)
  /\ UNCHANGED <<runtime, entry, process, disk, issued, faults, astray, choice>>

\* The store refuses: the caller of a callback or of a disconnection is told, and
\* memory keeps what it has; nobody is told of a refreshed token.
WriteFails(t) ==
  /\ thread[t].at \in {"save", "index", "delete", "unindex"}
  /\ astray' = astray \cup {thread[t].user}
  /\ Ends(t)
  /\ Fault(FALSE)
  /\ UNCHANGED <<runtime, secrets, process, disk, issued, choice>>

-----------------------------------------------------------------------------
(* Clients: the tools and the calendars.                                   *)

\* CallTool and handleConnectorSettingsRefresh ask for the status before the client.
Begin(t, u, op) ==
  /\ thread[t] = Idle /\ token[u] # 0
  /\ thread' = [thread EXCEPT ![t] = [at |-> "client", op |-> op, user |-> u, held |-> 0]]
  /\ UNCHANGED <<runtime, secrets, process, disk, issued, faults, astray, choice>>

CallTool(t, u) == Begin(t, u, "tool")
RefreshSettings(t, u) == Begin(t, u, "fetch")

\* The client keeps a copy of the token, with the provider's refresh token in it.
Client(t) ==
  LET u == thread[t].user IN
  /\ thread[t].at = "client"
  /\ IF token[u] = 0 THEN Ends(t)
     ELSE thread' = [thread EXCEPT ![t].held = token[u],
                                   ![t].at = IF thread[t].op = "tool" THEN "select" ELSE "token"]
  /\ UNCHANGED <<runtime, secrets, process, disk, issued, faults, astray, choice>>

\* A calendar tool asks the enabled calendars, and fetches the list when none is.
GetEnabledCalendarIDs(t) ==
  /\ thread[t].at = "select"
  /\ Go(t, IF settings[thread[t].user] = {} THEN "token" ELSE "query")
  /\ UNCHANGED <<runtime, secrets, process, disk, issued, faults, astray, choice>>

\* A tool's query is one request, or a request for each calendar and for each item
\* that a first one has listed: what fails in between is left out of the answer.
Requests(t, held) ==
  IF thread[t].at = "query" THEN {Idle, [thread[t] EXCEPT !.held = held]}
  ELSE {[thread[t] EXCEPT !.held = held, !.at = "list"]}

\* savingTokenSource.Token: the copy's token while it is valid, a new one otherwise, is
\* written over the user's token if there still is one, whichever that is; a saver is
\* started for it either way.
HasToken(t, fresh) ==
  LET u == thread[t].user
      held == IF fresh THEN issued + 1 ELSE thread[t].held
  IN  /\ thread[t].at \in {"token", "query"}
      /\ fresh => issued < MaxTokens
      /\ issued' = IF fresh THEN issued + 1 ELSE issued
      /\ failed' = failed \ {u}
      /\ \E next \in Requests(t, held) :
           \/ /\ token[u] = 0
              /\ thread' = [thread EXCEPT ![t] = next]
              /\ UNCHANGED <<token, astray>>
           \/ \E s \in Savers :
                /\ token[u] # 0 /\ thread[s] = Idle
                /\ token' = [token EXCEPT ![u] = held]
                /\ Changes(u)
                /\ thread' = [thread EXCEPT
                     ![t] = next, ![s] = [at |-> "save", op |-> "saver", user |-> u, held |-> held]]
      /\ UNCHANGED <<states, secrets, process, disk, faults, choice>>

\* After a fetch that failed or is over, a tool goes on with what is enabled.
Fetched(t) == IF thread[t].op = "tool" THEN Go(t, "query") ELSE Ends(t)

\* The provider refuses to refresh: the error is set, though the user may have
\* disconnected since.
RefreshFails(t) ==
  /\ thread[t].at \in {"token", "query"}
  /\ failed' = failed \cup {thread[t].user}
  /\ IF thread[t].at = "token" THEN Fetched(t)
     ELSE \E next \in Requests(t, thread[t].held) : thread' = [thread EXCEPT ![t] = next]
  /\ UNCHANGED <<token, states, secrets, process, disk, issued, faults, astray, choice>>

ListFails(t) ==
  /\ thread[t].at = "list"
  /\ Fetched(t)
  /\ UNCHANGED <<runtime, secrets, process, disk, issued, faults, astray, choice>>

\* SettingsStore.save writes all users' settings; when it fails memory keeps the change.
Saves(u, ids, ok) ==
  /\ settings' = [settings EXCEPT ![u] = ids]
  /\ file' = IF ok THEN settings' ELSE file
  /\ Fault(ok)

\* fetchAndCacheCalendars: the list is cached, then what is enabled is asked, then all
\* calendars are enabled when there was nothing.
SetCalendars(t, listed, ok) ==
  /\ thread[t].at = "list"
  /\ Saves(thread[t].user, settings[thread[t].user], ok)
  /\ IF ok /\ listed # {} THEN Go(t, "check") ELSE Fetched(t)
  /\ UNCHANGED <<runtime, secrets, process, issued, astray, choice>>

\* Mutant: every fetch enables what it has listed.
EnableListed(t) ==
  /\ thread[t].at = "check"
  /\ Go(t, "enable")
  /\ UNCHANGED <<runtime, secrets, process, disk, issued, faults, astray, choice>>

CheckEnabled(t) ==
  /\ thread[t].at = "check"
  /\ IF settings[thread[t].user] = {} THEN Go(t, "enable") ELSE Fetched(t)
  /\ UNCHANGED <<runtime, secrets, process, disk, issued, faults, astray, choice>>

EnableAll(t, ok) ==
  LET u == thread[t].user IN
  /\ thread[t].at = "enable"
  /\ Saves(u, Calendars, ok)
  /\ Fetched(t)
  /\ UNCHANGED <<runtime, secrets, process, issued, astray, choice>>

\* handleConnectorSettingsUpdate: the user selects, connected or not.
Select(u, ids, ok) ==
  /\ Saves(u, ids, ok)
  /\ chosen' = [chosen EXCEPT ![u] = ids]
  /\ overrun' = IF ok /\ \A t \in Threads : ~(thread[t].user = u /\ thread[t].at = "enable")
                THEN overrun \ {u} ELSE overrun \cup {u}
  /\ UNCHANGED <<runtime, secrets, process, thread, issued, astray>>

-----------------------------------------------------------------------------
Callback(t) ==
  \/ \E u \in Users : HandleCallback(t, u)
  \/ ExchangeFails(t) \/ Exchange(t)

Disconnect(t) == \E u \in Users : Revoke(t, u)

StoreWrite(t) ==
  \/ SetEntry(t) \/ AddToIndex(t)
  \/ DeleteEntry(t) \/ RemoveFromIndex(t)
  \/ WriteFails(t)

UseClient(t) ==
  \/ \E u \in Users : CallTool(t, u) \/ RefreshSettings(t, u)
  \/ Client(t) \/ GetEnabledCalendarIDs(t)
  \/ \E fresh \in BOOLEAN : HasToken(t, fresh)
  \/ RefreshFails(t)

Fetch(t) ==
  \/ ListFails(t) \/ CheckEnabled(t)
  \/ \E listed \in {{}, Calendars}, ok \in BOOLEAN : SetCalendars(t, listed, ok)
  \/ \E ok \in BOOLEAN : EnableAll(t, ok)

Next ==
  \/ \E u \in Users : StartAuth(u)
  \/ \E t \in Handlers : Callback(t) \/ Disconnect(t) \/ UseClient(t) \/ Fetch(t)
  \/ \E t \in Threads : StoreWrite(t)
  \/ \E u \in Users, ids \in Selections, ok \in BOOLEAN : Select(u, ids, ok)
  \/ Restart

Spec == Init /\ [][Next]_vars

-----------------------------------------------------------------------------
(* Properties.                                                             *)

\* What a restart would find in the store is what memory has, unless a write of the
\* user's token is under way, or has failed, or overlapped another one: every path
\* that changes a token writes it, and a keychain's entry and index agree at last.
StoreFollowsMemory ==
  \A u \in Users : \/ Writing(u) # {} \/ u \in astray
                   \/ Stored(entry, index, active, u) = token[u]

\* Calendars that the user selected are neither widened nor dropped by a fetch, a tool
\* call or a restart, unless the fetch had found nothing before the user selected, or
\* the file was not written.
SelectionKept ==
  \A u \in Users : chosen[u] = {} \/ u \in overrun \/ settings[u] = chosen[u]
=============================================================================
