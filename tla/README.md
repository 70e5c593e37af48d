# Cogitator in TLA+

Cogitator is a personal assistant platform in one Go binary: an HTTP and web
socket server (`src/server`), an SQLite database behind one writer connection,
background workers, a task scheduler, MCP servers, connectors, and a React dashboard
(`src/dashboard`). This directory specifies the parts of it that run
concurrently, checks them with TLC on small instances and proves safety of them
with TLAPS for every size. `src/docs/ARCHITECTURE.md` describes the program; the
definitions here follow the code where the two differ.

`PROJECT.json` lists components, runs, mutants, the lines each definition
models, hazards and theorems. Paths below are relative to
`src/server/internal` unless they begin with `src/`.

## Inventory

### Parts with state of their own, and what makes each correct

| part | state | operations | correct when |
|---|---|---|---|
| task executor (`task/executor.go`, `task/store.go`, `api/tasks.go`) | rows of `task_runs`, the map `activeRuns` | Execute, self-healing, Cancel, trigger, cancel and delete handlers, CleanupStaleRuns | no row says running for ever; a live agent can be stopped; an event never precedes its row |
| task scheduler (`task/scheduler.go`) | cron entries, goroutines watchChanges and watchWake | Start, Stop, Reload | the schedule follows the table, though events are dropped |
| event bus (`bus/bus.go`) | a bounded channel per subscription | Subscribe, Publish without blocking, Close | the loss of an event costs no subscriber more than the code allows for |
| web channel (`channel/web.go`) | `activeReqs`, connections | admit, cancel, disconnect, finish | one request per session at a time, and never a session closed for good |
| agent (`agent/agent.go`, `agent/context.go`) | pending messages of a request, rounds of its tool loop | Chat, cancelCleanup, BuildMessages | a cancelled request leaves no tool call without its result; a prompt is one providers accept |
| session store (`session/store.go`) | `sessions`, `messages` | one statement each | ids order the messages |
| MCP manager (`mcp/manager.go`) | `servers[name]`: status, client, reconnectCancel; a reconnect goroutine | start, stop, call, add, remove, reconnect | status, client and goroutine agree; a stop is final |
| memory and workers (`memory/`, `worker/`) | nodes, edges, embeddings, the retriever's cache, the profile | enrich, consolidate, reflect, profile, backfill, user edits | a hidden memory is shown to nobody else; every pending node is reached |
| accounts (`user/store.go`, `api/auth_handlers.go`, `api/social_handlers.go`, `api/user_handlers.go`) | users, invite codes, refresh tokens, OAuth links | register, set up, login, refresh, link, change a role, delete | no row outlives its account; a refused sign-up leaves nothing |
| connectors (`connector/oauth.go`, `connector/manager.go`, `connector/settings.go`, `secretstore/`) | flows under way, tokens in memory and in the store, calendars enabled | connect, callback, refresh, disconnect, call, select | the store follows memory; a user's selection is kept |
| browser connector (`connector/browser/`) | one client, a poll goroutine, a cache of sessions, the setting | enable, disable, reconnect, attach, tools | no connection leaks; a session belongs to the connection in use |
| skills and allowed domains (`skills/`, `config/store.go`, `api/settings.go`, `tools/skilladapter.go`) | a file and a node per skill; the list of domains in memory, file and executor | install, import, edit, list, uninstall, bundle, allow a domain | a node has its file; the three lists agree |
| notifications and push (`channel/web.go`, `notification/`, `push/`, `tools/notifier.go`) | two queues of events, rows, push tokens | notify, post, push, read, register | one recipient's failure costs nobody else anything; a badge counts what it announces |
| Telegram (`channel/telegram.go`, `channel/telegram_api.go`) | a pair of goroutines under a context, an offset | start, stop, restart, poll, answer, deliver | no update is lost; a restart leaves one pair that can be stopped |
| limits (`budget/`, `ratelimit/`, `api/authlimit.go`, `drain/`) | windows, counters, usage rows | allow, record, lock out, drain | not modelled |
| updater, heartbeat, providers, voice, dashboard | files, requests, pages | | not modelled |

### How they interact

- Requests arrive at `api/*.go` or the web channel and run an agent in a goroutine
  (`channel/web.go`) or in the handler (`api/chat.go`). The agent writes to the
  session store after every step and calls tools: among them the tools on tasks
  (writers of `tasks`, callers of Execute), on skills, domains and memories, the
  connectors and the MCP servers.
- Writers of `tasks` publish TaskChanged on the bus. The scheduler's goroutine
  drops whatever its buffer does not hold and rebuilds all cron entries from the
  table for each event it gets. A cron entry calls the executor, which runs an
  agent, writes the row and publishes TaskCompleted, TaskFailed or TaskCancelled.
- That event goes to the web channel, which makes rows and posts of it, to the push
  dispatcher and to Telegram, each from a queue of its own.
- Memories come from users, tools, skills and workers; a new node is an event for the
  enricher, an enriched node one for the consolidator and the profiler.
- A shutdown or crash loses goroutines and in-memory maps and keeps rows and files. A
  start cleans the rows up, creates the bundled skill, lists the nodes to enrich again,
  then starts the scheduler (`app/server.go`).

### What is hard here

*Check then act* over several SQL statements without a transaction, or over a file and
a row; maps keyed by session or server name whose entry may belong to a *later* user of
the key; a whole row read, then written back after a slow model call; a copy of a token
or of a configuration that outlives the original; callbacks of connections that were
replaced; an event bus that *drops*; errors of writes that are ignored; a crash between
two statements; panics that an HTTP server recovers while an agent's goroutine does not.
`PROJECT.json` has one hazard per place.

## The modules

Each component has one module, an `MC` module that instantiates it for TLC, and a
`Proofs` module that extends it with its theorems. Six components share three proof modules,
two by two: ConversationProofs has ChatSession and Memory, ToolServerProofs has MCPManager and
Browser, ChannelProofs has Telegram and Delivery. The parts of such a module do not use
each other; Memory, Browser and Delivery bear their name in what both would define
(`MemorySpec`, `BrowserNext`, `DeliveryTypeOK`). One action is one atomic step
of the code: an SQL statement, a critical section, a file operation, a channel
operation, or the return of a model, tool or remote server. A handler of several
statements is several actions joined by a program counter. History variables, named as
such, remember that a case the code does not handle has happened; no guard reads them.
Definitions named "Mutant" in their comments are plausible wrong versions of the
definition that follows them; no specification uses them.

### TaskExecutor, refining RunLifecycle

- State: the columns of `task_runs` that matter (`status`, `taskOf`), whether a
  task's row exists, `active` (Executor.activeRuns), and for each call of Execute `pc`,
  its argument, its verdict and whether its context is `over`; for each request its
  position in the cancel handler or DeleteTask; `inChat`, the calls made by the agent of
  POST /api/chat. History: `lost`, the runs whose verdict was not written; `unwound`, those
  that a panic left running since the last boot.
- Actions: the three ways to call Execute (cron, trigger handler, the agent's run_task),
  its steps CheckRunning, CreateRun, Register, the agent's end, JudgeError,
  RecordVerdict, SelfHeal and HealReturns (the second agent that a failed verdict may
  start), AgentPanics, Announce; ContextEnds (maxTaskTimeout); handleCancelRun as three
  steps (reads the row, looks up activeRuns, signals or writes the row itself);
  deletion of runs and of a task; Crash and Boot.
- A panic in Execute ends the process (Crash), but in a call that the agent of POST
  /api/chat makes recoverMiddleware recovers it: the deferred calls run, and the row says
  running until the next boot.
- RunLifecycle is what a reader of the table may rely on: one verdict per run,
  completed and failed never exchanged, nothing running again. TaskExecutor implements
  it with `owed` as the runs whose executor still owes its verdict.
- Left out: HealTask (an agent that asks for a healing), the columns on tool calls and
  models, what a prompt says.

### TaskScheduler

- State: `db` (rows), `entries` (each with the copy of the row it was built from),
  the goroutines `changes` and `wake`, `chan` (the number of buffered events: they
  carry nothing the scheduler uses), the writers' positions, `unheard` (writes whose event
  nobody received since the last read).
- Actions: Start, Subscribe (a goroutine of Start, so later than its first
  read), Receive, the three steps of Reload (lock and remove the entries, read the
  table, rebuild and unlock) for both goroutines, Stop and their exits, Restart. The
  writers are the handlers and the agents' tools: handleCreateTask and createTask insert a
  row (a tool's task is enabled); handleUpdateTask, updateTask and toggleTask read a row,
  change their copy and write it (GetTask, UpdateTask); handleDeleteTask and deleteTask;
  Publish, which drops when the buffer is full; DisableAndReassignTasks (deletion of a
  user, no event).
- Left out: time. A wake-up is a step that may come whenever it likes; catchUpMissed,
  which runs what was due meanwhile, and cron's own clock are not there.

### ChatSession

- State: the session's existence and `log`, `activeReqs` for its key, and for each
  request its program counter, round, tool calls still to execute, pending messages and outcome.
  A message bears its request and the round of its tool loop, which stand for tool_call_id:
  the code stores that, and BuildMessages does not look at it.
- Actions: Receive and handleChat (the two ways in), Cancel, Disconnect, the steps
  of Agent.Chat up to its return, the two steps of cancelCleanup, Finish (the
  deferred deletion of the activeReqs entry), the user's deletions, Crash. A
  failing statement is a choice in every step that writes.
- BuildMessages is modelled with its filter of orphaned tool results, since a
  property is about the order of the prompt; texts are not.
- History: `marred`, the requests one of whose statements failed; `mixed`, those that
  overlapped another or lost a message to the user.
- Left out: provider choice, budget, titles, the fast path without tools, uploads.

### MCPManager

- State: the serverState under one name (`current`), and the serverStates that carry
  the name one after the other (`server`: remote or not, status, client or nil,
  reconnectCancel); the position of every thread, the serverState it holds a pointer
  to, attempts and cancelled contexts of reconnect goroutines, and `wedged`.
- Actions: StartServer in two steps (lock and announce; connect and record, or
  setError **by name**); CallTool with its lookup, its call and its failure; the
  goroutine of startReconnect step by step; StopServer, AddServer and the three steps of
  RemoveServer. A nil serverState or client panics: in a request the panic is recovered,
  and a read lock taken without defer is never released (`wedged`); in an agent's
  goroutine the process restarts.
- Handshakes, calls and panics of the client library are the environment's choice.
- Left out: UpdateServer (instructions only), secrets, the tool registry callback,
  StopAll at the exit of the process. ARCHITECTURE.md says servers start at boot; the
  code starts them on demand, and so does Init.

### Accounts

- State: the tables `users`, `invite_codes`, `refresh_tokens` and `user_oauth_links`;
  `rows`, the accounts that rows of other tables refer to; the access tokens issued; `req`,
  for each handler at work its operation, its next statement and what it has read so far. `drawn`
  keeps ids from being drawn twice; `vouched` is history, the accounts that got an
  invite, were made in place of one, were promoted or were signed in to.
- Actions: one per SQL statement. handleRegister and the two social sign-ins share
  the steps from the invite on (Redeem, Spend, GiveRole, LinkIdentity, UndoSignUp,
  IssueTokens); handleDeleteUser is Administer, CountAdmins, Reassign, Wipe, Unredeem,
  Uninvite, RevokeAll and DeleteRow. A statement that the foreign keys refuse
  (`foreign_keys(on)` in `database/db.go`) is an error branch of its action.
- A caller is whoever an access token names, with the role in the token: the
  middleware reads no table. A token may be used at any time, so that its expiry
  changes nothing; an invite may be expired whenever it is read.
- One step instead of two: the target is read with the check of the caller
  (nothing is written in between); handleUnlinkOAuth reads the password and the
  links (a password never goes away again); wiping is one statement for the six that
  delete private rows, and may leave some.
- Left out: emails (a duplicate only makes a handler answer), names, profiles,
  the browser's redirects, the throttle, handlers cut off by a crash.
  CleanupExpiredTokens is called by nobody.

### Memory

- State: `nodes` (status, owner, privacy, consolidated or not), `edges` with their own
  privacy, `embedded`; the retriever's cache per user (`filled`, `cache`); the profile and
  its counter; a bounded queue per worker; the enricher's debounce timer, its passes and the
  goroutines that enrich one node each (`job`); the consolidator; for each request its
  position and the row it holds.
- Actions: creating, saving, pinning, hiding, deleting nodes and linking them, through the
  API and the agents' tools; the change of the embedding model; GetPendingEnrichment, and
  the steps of a job (ask, embed, flush, look for a duplicate and merge it, yield, link);
  the consolidator's clusters (derive, insert the pattern, absorb the members); reflections;
  Revise (the profile); the backfills and the re-enrichment of a start; Retrieve, which
  fills the cache; Restart. Store.UpdateNode writes the whole row its caller holds: the
  stale write is in the model, and `overwritten` is the history of those that changed a
  node's privacy. `raced` is that of the edges inserted with a privacy that was read before a
  node was hidden, or could not be read: CreateEdge drops the error and inserts a public edge
  (ReadPrivacy). An edge's user_id is its source's owner (EdgeUser), who is shown it though it
  is private (Shown).
- Left out: texts, tags, types, weights, confidences, contents and their files (what the
  thresholds compare is a nondeterministic choice), the ranking of results.

### Connectors

- State: of OAuthRuntime the tokens (a number per token the provider issued), errors and
  flows under way; of the secret store which backend is in use, each backend's entries and
  the keychain's index; the tokens an older version left; the calendars enabled, in memory
  and in the file; for each goroutine its position, operation, user and the token it holds.
- Actions: StartAuth, HandleCallback, Exchange, the write that follows (SetEntry and
  AddToIndex) and the fetch of the calendars; Revoke with DeleteEntry and RemoveFromIndex;
  a client's life in CallTool and in a refresh of the settings (Client,
  GetEnabledCalendarIDs, HasToken, which may bring a fresh token and starts a saver nobody
  waits for, RefreshFails); SetCalendars, CheckEnabled, EnableAll, Select; a write that
  fails; Restart with the probe for a backend, the migration and loadTokens.
- History: `astray`, the users of whom two writes overlapped, or one failed; `overrun`,
  those who selected while a fetch was about to enable everything.
- Left out: manifests, templates of requests, the mapping of results, the list of
  calendars itself, credentials of the application.

### Skills

- State: the nodes of type skill with their path, the directory (`disk`), the three lists of
  allowed domains, and for each goroutine its position and what it has read.
- Nobody checks the slug an agent gives: `Within` says which skills' directories lie in
  which (in that of an empty slug, all that agents wrote or users imported), and RemoveAll takes
  all of them. A slug stands for its cleaned path; what else a directory holds is left out.
- Actions: Install (node first, then download) and the agents' installSkill (download, then
  Gate), CreateSkill for the imported and the written, FindNode, WriteFile, CreateNode;
  Uninstall with RemoveAll and DeleteNode; UpdateSkill with UpdateNode and RewriteFile;
  ReadSkill; List with the backfill of paths (Relink); EnsureBundled at a start. Merge and
  SetAllowedDomains, AllowDomain, UpdateSettings, ReadConfig and Save for the domains.
- History: `stripped`, nodes whose file another request removed or never was copied, and
  `robbed`, the same for a goroutine; `apart`, updates of the lists that overlapped or failed.
- Left out: what a file says but for its domains, the registry's search results.

### Browser

- State: the setting in memory and file, `mu` (who holds the lock over a slow step),
  `client`, `connected`, the connections, the goroutines that poll or are about to close a
  client, the cached session, and for each tool its position.
- Actions: Enable, Disable, Reconnect and the start's Connect, each with its question for
  the version under the lock and its write of the file after it; Poll and its ticks; Close
  and OnClose of a client, in their own goroutines; Drop (Chrome ends a connection); a
  tool's List, Attach and Act; Restart, with and without Stop.
- Left out: what pages hold, pages other than one, the discovery of Chrome's port.

### Delivery

- State: two queues, the positions of the web channel's and of the dispatcher's goroutine,
  unread rows, the phones' registrations, the accounts.
- Actions: NotifyResult (an event of the executor), NotifyUser with its row and then its
  event, the web channel's row and post per recipient, the dispatcher's count, lookup and
  sends, reading and deleting rows, registering and logging out, deletion of users and tasks,
  Restart. Rows are forgotten when their event is over: nothing reads them afterwards but to
  show them.
- The badge is kept as what the property asks of it: it counts the message, misses it, or is
  the 0 that is sent when the count fails, whose error is dropped.
- Left out: the texts, Expo's answers but for a token it refuses. Chat pushes are not
  modelled since none is ever sent: the dispatcher looks the session up under the empty user
  (`push/dispatcher.go:162`).

### Telegram

- State: the settings saved, the restarts under way, `cancel`, the pairs of goroutines
  (what the poll loop does, its offset and batch, what the second goroutine does, the
  settings it was made with, cancelled or not), how many updates Telegram has received and
  forgotten.
- Actions: saving settings with a restart (SaveSettings) and without one (SaveOnly: every save
  writes all settings as they were when it read them, and restarts the channel only when it was
  about the channel), the steps of Restart (stop, wait with its time-out, start), a
  poll that answers, fails or confirms, the handling of an update under a live or a dead
  context, results and their delivery, a crash.
- `late` marks a pair that Stop has given up waiting for; `crossed` that two restarts
  overlapped since the process started; `silent` that the settings were changed without a
  restart, and none has read them since.
- Left out: what an update says, the sessions it opens, the splitting of long messages.

## What the runs check

Times are for two TLC workers.

| run | instance | shows |
|---|---|---|
| `TaskExecutor` | 1 task, 2 calls of Execute, 1 client, 1 failing write, panics, crashes at any point; 996 659 states, 130 s | RunningRowHasOwner, ActiveRunsExact, EventMatchesRow, refinement of RunLifecycle, EveryRunSettles |
| `TaskScheduler` | 2 tasks, 2 users, 2 writers, buffer of 1, 2 writes, 1 failing read, restarts; 795 624 states, 60 s | NoChangeLost, ChangesReachSchedule, OwnerNeverReverts |
| `ChatSession` | 2 requests (one may come by HTTP), 2 rounds of one tool call, history of 4, 1 mishap; 1 799 382 states, 20 s | CancelledLeavesNoTrace, NoStaleEntry, ResultsFollowCalls |
| `MCPManager` | 1 name, a request, an agent, 2 reconnections of 2 attempts; 873 023 states, 80 s | StartingHasStarter, StoppedHoldsNothing, CancelReachesLive, CancelledReconnectEnds |
| `Accounts` | 2 handlers, 2 accounts, 1 code, 2 sign-ins, 1 identity; 2 010 917 states up to symmetry, 85 s | NoDanglingRows, RefusedSignUpsLeaveNothing |
| `Memory` | 2 nodes, one there before; a reader, an owner, a request, the reflector, the consolidator, 2 changes; 3 849 916 states, 100 s | CacheHidesPrivate, EdgesFollowNodes |
| `MemoryLive` | 2 nodes left pending, the enricher's main pass and one of its timer, the profiler, buffer and batch of 1, one start, restart or trigger; 288 568 states, 170 s | PendingIsReached |
| `Connectors` | 1 user, 2 calendars, 2 goroutines, 1 saver, both secret stores, 2 tokens, 1 flow, 1 fault; 2.2 million states up to symmetry, 40 s | StoreFollowsMemory, SelectionKept |
| `Skills` | 3 slugs, one of them bundled and one empty, 1 domain, 2 nodes, 2 goroutines, 1 fault; 3 003 523 states up to symmetry, 45 s | NodesHaveFiles, AllowListsAgree |
| `Browser` | 2 goroutines, 2 clients, 2 poll goroutines; 719 000 states up to symmetry, 11 s | ConnectionsHaveOwner, SessionsFit |
| `Delivery` | 2 users, 1 phone, 2 events, queues of 1; 1.7 million states up to symmetry, 65 s | NothingVanishes, BadgeCountsMessage |
| `Telegram` | 2 settings, 2 pairs of goroutines, 2 restarts, 2 updates; 4.5 million states up to symmetry, 130 s | NoUpdateLost, RestartReplaces |

All but `MCPManager` and `Memory` also check the module's TypeOK (BrowserTypeOK, DeliveryTypeOK);
MCPManager's is proved, and `MemoryLive` has MemoryTypeOK.

### Bounds, and why they are enough

Two calls of Execute suffice for every overlap the table can show, since a row is
touched by its own call, one handler at a time and a restart; one client can be at
any of its steps against both. For the scheduler the shortest buffer loses
the most, two writes can be merged into one event or overtaken by it, and a
second user is needed for ownership to change. Two chat requests overlap at
every pair of steps; one tool call and two rounds make the prompt contain a call, its result and
a second call, and four messages are few enough that the history is cut inside a tool sequence (several
calls in a round, and more than two requests, are the theorem's). Two
reconnections show one goroutine writing over the other's fields; two attempts let
a goroutine go round its loop; one serverState at a time still lets a removed name
be added again, with another configuration, under goroutines that go by the name.
Two handlers interleave at every pair of statements, two accounts can promote, demote
and delete each other, and one sign-up can be signed in to while it is refused;
ids, codes and sign-ins are drawn from what the instance has.

Two memories are an edge, a duplicate of each other, a cluster of one and its pattern; a
reader who does not own them is whom they are hidden from. `Operations` and `Subscribers`
choose who takes part: privacy matters to `Memory`, where nothing is pending, and pending
nodes to `MemoryLive`, where nothing is private; batch and buffer of one make every second
node wait and every second event drop. One connector user is enough, since users share
only the file of settings and the index, each written as a whole; two goroutines, one saver and two
tokens give a connection, a disconnection and a refresh any order. Two nodes let one
slug be installed twice and removed once, or one skill's directory go with another's. Two
clients are one replaced by the other. The phones of one user are treated alike. Two pairs
of Telegram's goroutines are an old and a new one, and two updates are a batch of which one
is confirmed.

Bounds on faults, writes and mishaps are constants (`MaxFaults`, `MaxEdits`,
`MaxMishaps`, `MaxChanges`, `MaxTokens`, `MaxFlows`, `Reconnects`) that appear in guards.
Where a theorem states a property, its bounds do not matter to it. Symmetry is used for
safety only.

`CHECK_DEADLOCK FALSE` appears for MCPManager, where a panic may leave the lock
taken for ever, for Accounts and Skills, where the instance runs out of ids, and for Memory and
MemoryLive, where it runs out of changes.

### Fairness

- TaskExecutor: each step of Execute's goroutine is weakly fair; a context ends
  (context.WithTimeout with maxTaskTimeout); an agent, and the agent of selfHeal, returns
  once its context is over, never before by assumption; after a crash the process boots
  again. Handlers and triggers owe nothing.
- TaskScheduler: the goroutines' steps and a writer's Publish (straight-line code) are
  weakly fair; taking the scheduler's mutex is strongly fair, as Go's mutex hands
  itself over to a starved waiter. Nobody need write.
- MCPManager: a reconnect goroutine's steps are weakly fair, since the lock is never held
  over a step; a handshake must end only once its context is cancelled, since
  the code gives it no timeout.
- Memory (`FairMemorySpec`, for MemoryLive): the goroutines' steps and the ticker are weakly fair;
  a model that is asked about a node again and again answers well at some time (strong
  fairness of EnrichSucceeds: without it a node may fail for ever).
- The other modules: none, only safety is stated of them.

## Where the code departs from its comments, or from what one would expect

Each of these was met while modelling. The models have them, which is why the properties
name exceptions, and the traces below are behaviours of the modules.

- *One task, two runs.* "Prevent concurrent runs of the same task" (`task/executor.go:60`): two
  triggers pass HasRunningRun before either inserts its row. While selfHeal runs, the row already says
  completed or failed, so another run may start and handleCancelRun refuses (409), though the
  run is in activeRuns.
- *A run nobody runs.* Execute recovers no panic of its agent (`task/executor.go:128`). Under
  POST /api/chat recoverMiddleware does (`api/recover.go:61`): the process goes on, the row says
  running, and its task is refused until the next boot. Such panics exist (`mcp/manager.go:423`).
- *Runs without a task.* DeleteTask (`task/store.go:141`) deletes the runs, then the task: a run
  inserted in between keeps its row and loses its task.
- *A deleted user's tasks go on.* handleDeleteUser (`api/user_handlers.go:162`) disables them and
  publishes nothing, so their cron entries fire until the next event (`task/scheduler.go:41`).
- *Two requests in one session.* A cancelled request's deferred deletion
  (`channel/web.go:527`) removes its successor's activeReqs entry, and a third is admitted (`:486`).
- *A result behind another's call.* BuildMessages keeps the results behind any call and takes no
  notice of tool_call_id (`agent/context.go:432`): where requests overlap, or the user deletes
  single messages, a result may stand behind the call of another request or round.
- *The wrong message is dropped.* `agent/agent.go:398` takes the last message of the history for
  the request's own; a cancelled predecessor may have appended after it.
- *No admin.* The admins are counted in one statement and the last one demoted or deleted in
  another (`api/user_handlers.go:40,73,128`).
- *A running server without a client.* The end of a reconnection's backoff closes the client of a
  server that was started meanwhile (`mcp/manager.go:657`).
- *Single use.* A refresh token is validated and revoked in two statements against
  "single-use rotation" (`api/auth_handlers.go:215`); an invite may serve two sign-ups
  (`user/store.go:314`).
- *Private edges.* An edge is inserted public when the privacy of its nodes cannot be read
  (`memory/store.go:305`); GetVisibleEdges shows a private edge to the owner of its source, though
  the private node at its other end is another's.
- *Private memories.* The profile that goes into every user's prompt is built from private
  nodes too (`worker/profiler.go:113`; `src/docs/ARCHITECTURE.md:278`); reflections of a
  private session are not private (`worker/reflector.go:134`); the consolidator derives a pattern
  from private and shared nodes together; a stale whole row undoes a user's hiding or
  pinning (`worker/enricher.go:337`, `api/memory.go:250`, `worker/consolidator.go:337`).
- *Enrichment.* Six or more nodes that always fail keep the others from a batch; two
  duplicates can be consolidated into each other; RunReenrichment need not end while
  nodes are enriched under it; after a change of model only fifty nodes are embedded again
  (`api/settings.go:357`).
- *A disconnected connector comes back.* A refreshed token is saved after the deletion of a
  disconnection (`connector/oauth.go:243,277`); a client made before a reconnection writes the
  old grant's token over the new; a disconnection during the exchange of a code is
  followed by a connection. A user who deselects every calendar gets all of them back at the next fetch,
  and a selection made between check and act is overwritten (`connector/manager.go:485`). The
  file that "atomically replaces" (`secretstore/file.go:64`) is written with os.WriteFile.
- *Skills.* Two installations of one slug make two nodes, and the removal of one takes the other's file;
  installing again does not restore a missing file, though `api/skills.go:89` suggests it; reading a
  skill allows again the domains an admin removed; a skill written under an empty slug, or one
  that others' directories lie in, takes their files along when it is uninstalled
  (`tools/executor.go:802`, `skills/manager.go:259,344`); a save of other settings undoes a domain
  merged since they were read (`config/store.go:82`); the uninstalled bundled skill is back
  after a restart.
- *Browser.* Stop, at a shutdown, calls Disable, which saves `enabled: false`, against the
  comment at `app/server.go:520`; the callback of a replaced client sets `connected` false for
  its successor, and polling then replaces a working connection every 30 s; a
  tick taken before Disable connects while disabled.
- *Notifications.* A task deleted before its result is handled makes every row fail on the foreign key,
  and the result is lost; a badge of a task's result is counted before its row is
  there; a count that fails makes the badge 0 (`push/dispatcher.go:143`); deleting a user leaves
  his push tokens and notifications.
- *Telegram.* Updates answered before a restart and not yet confirmed are answered again;
  two overlapping restarts leave a loop that nothing stops, with the old settings, against
  the comment at `channel/telegram.go:108`; results published between Stop and the next
  start are not sent. A save of other settings writes back the channel's as it read them
  (`api/settings.go:212,299`), and an invalid provider ends a request between its save and
  its restart (`:310`): the channel then runs with settings that are not the saved ones.

## What is proved

TLAPS checks, for all values of the constants that satisfy the named assumptions
(`ExecutorAssumption`, `SchedulerAssumption`, `ChatAssumption`, `ManagerAssumption`,
`AccountsAssumption`, `MemoryAssumption`, `ConnectorsAssumption`, `SkillsAssumption`,
`BrowserAssumption`, `DeliveryAssumption`, `TelegramAssumption`), every safety property that a
run checks. The part of each component:

- **TaskExecutor.** TypeOK; the inductive invariant IInv; from it
  RunningRowHasOwner, ActiveRunsExact, EventMatchesRow; and that every behaviour
  implements RunLifecycle, hence VerdictsStand (no step takes back a verdict somebody read).
  The three properties are not inductive alone: a restart needs DownMeansEmpty (nothing of a
  dead process survives in memory), and a step of Execute needs StageInv (what the row, the
  verdict and the announcement are at each program counter). IInv joins them; one step of
  IInvStep per action. The row of a recovered panic is the one exception besides a failed
  write, and lasts until the next boot.
- **TaskScheduler.** TypeOK (the buffer never exceeds its capacity); NoChangeLost, for any
  capacity above zero: a full buffer means a reload is still to come,
  and a reload reads every row, so a dropped event is never missed;
  OwnerNeverReverts, a property of steps: the UPDATE leaves out the owner, so an editor holding an
  old row cannot give a task back to a deleted user.
- **ChatSession** (ConversationProofs). NoStaleEntry: no interleaving of cancellations, lost
  connections and returns leaves an entry that closes the session; EntryInv adds the typing
  of the variables involved. TypeOK, with LogInv (messages differ, since each bears its
  request and a number given once: a deletion by id takes one away and keeps the rest).
  CancelledLeavesNoTrace through Tracked: what a request wrote of its tool calls is pending
  until it returns, and it returns "cancelled" only when nothing is pending.
  ResultsFollowCalls has two halves. One is about BuildMessages and holds of every history
  (BuildMessagesAnswers): the recursive function that stands for the loop exists
  (KeepExists), and by induction on the messages read what it has kept is in order, a result
  in it follows the message it followed in the history, and inside a tool sequence it ends
  in the call or one of its results (KeptIsAnswered). The other is about the log (OrderInv):
  of a request left alone (neither `mixed` nor `marred`) the messages stand together, a
  result behind its own call or another result of the same round, and while the request is
  at work they are the log's end; one lemma per way of changing the log (AppendOrdered,
  RemovedOrdered and those that cite them). Conversely a history that is in order is kept
  whole (BuildMessagesKeeps). The induction is one over *sets* of numbers (SetInduction,
  from a least number outside the set): the library's induction theorems have an operator
  for a parameter, its theorem on well-founded relations has not.
- **MCPManager** (ToolServerProofs). TypeOK with HoldsState and AttemptsLeft (a thread in a
  handshake or removal holds a serverState; all attempts used means giving up), then
  StoppedHoldsNothing (through Assignments, the list of everything a step may assign to a
  serverState), StartingHasStarter and CancelReachesLive, one case per action.
- **Accounts.** TypeOK and NoDanglingRows together (a role is read through a
  link, so types need the references), one lemma per kind of statement: insertion,
  deletion with its cascade, an invite written, a reference added. Then
  RefusedSignUpsLeaveNothing through Vouching: access tokens, callers and references
  only ever name vouched accounts, so an account whose invite was refused and that nobody
  vouched for has nothing referring to it, and its deletion succeeds. Last SetupIsAtomic:
  the account set up first is the admin.
- **Memory** (ConversationProofs). MemoryTypeOK, CacheHidesPrivate and EdgesFollowNodes from one
  invariant, MemoryInv. What they need besides themselves: an embedding has its node (a foreign key,
  TablesGood), a cached node was created once (RetrieverGood), and a row that a goroutine, a job of
  the enricher or the consolidator holds for a whole-row write later is of a node that existed when it
  was read (ThreadsGood, JobsGood, ConsGood), so that a stale write brings no node into being.
  One lemma per way of writing (creation, a whole row, embedding, edge, deletion, change of privacy),
  one per action, and a frame lemma for what an action leaves alone.
- **Connectors.** TypeOK; StoreFollowsMemory through StoreInv: of a user who did
  not go astray one goroutine at most writes the token, and what it carries (Carries, one
  clause per half of a write) is what memory has; a step begins a write (WriteBegins), goes on
  with it (WriteGoesOn), ends it (WriteEnds) or has nothing to do with one (NobodyWrites).
  SelectionKept through SelectInv, which adds the file (a restart reads it) and that no fetch
  is about to enable everything.
- **Skills.** TypeOK; AllowListsAgree through ListInv: unless the lists were set apart one
  goroutine at most updates them, and holds what the other copies have. NodesHaveFiles
  through PathInv: whoever will write a path into a row (Links) has a file, or knows that
  it was taken away. Of `Within` it needs only that a directory lies in itself.
- **Browser** (ToolServerProofs). BrowserTypeOK, ConnectionsHaveOwner and SessionsFit from
  BrowserInv, which adds that only tools wait for an answer of Chrome (OnlyToolsWait) and
  that what a tool is attaching belongs to the current client or that client was replaced
  meanwhile (AttachmentsFit): the session it will cache fits because of that.
- **Delivery** (ChannelProofs). DeliveryTypeOK, NothingVanishes and BadgeCountsMessage from DeliveryInv.
  A badge, if its count does not fail, counts its message because its row precedes its event
  all along the way: every message in the queue, in the hands of NotifyUser or of the
  dispatcher before its count has its row or was seen (BadgesGood); and the phones yet to be
  told are among the event's recipients.
- **Telegram** (ChannelProofs). TypeOK and NoUpdateLost from one invariant: a loop that is not
  cancelled has dealt with everything below its offset (Good), so what a request
  confirms was dealt with. RestartReplaces through RestartInv: until restarts cross there is
  one of them at a time, the pairs that Stop has not given up are the current one or none
  according to its stage (Stage), and a pair that cannot be stopped any more has been
  cancelled (Flagged); that it is the one the settings ask for holds of those it was started
  with, and of the saved ones unless `silent`.

Only model-checked: liveness (EveryRunSettles, ChangesReachSchedule, CancelledReconnectEnds,
PendingIsReached), since fairness and ENABLED are out of the prover's reach. The theorems are
about the modules: that these are what the code does is checked by reading, along `map`.

## Not modelled, and why

Language models, embedding and MCP transports, voice, files of users and the operating
system are the environment: their answers are nondeterministic. HTTP routing, JSON,
prompt wording, logs and the dashboard's pages keep no state that another part
depends on.

- The retriever's ranking, the validation of a model's answer, the compression of a
  history are sequential code over texts and floating-point numbers, which TLC cannot enumerate to any
  purpose; the tests of the repository cover them.
- The throttle of logins, the rate limits, the store of one-time states and the
  scheduler's clocks promise something about windows of time; the models have no clock.
- The budget guard promises no bound on the overshoot of concurrent requests.
- The updater exchanges binaries and processes; the migration runner is sequential and
  runs before anything else does.

`PROJECT.json` says so component by component.

## Plan

1. **SignIn**: the states and claims of social login in `api/ttlstore.go` (single use,
   eviction at the cap, a response lost after the claim was taken), keys fetched out of order.
2. **TaskWake**: the monotonic and the wall clock, watchWake, catchUpMissed and cron,
   bounded time; a due run is caught up once. Then a composition of TaskScheduler and
   TaskExecutor through what an entry calls.
3. **AuthThrottle** and **BudgetGuard**: windows as pure operators against a reference
   definition, and requests that check before they record.
4. Proofs: abstract specifications of more components and their refinement, after the pattern of
   RunLifecycle; the properties of the modules above as they are written.
