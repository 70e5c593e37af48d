------------------------------- MODULE Memory -------------------------------
(***************************************************************************)
(* The memory graph (memory/store.go): nodes, edges and embeddings in      *)
(* SQLite, the retriever's cache of them (memory/retriever.go), and those  *)
(* who write to it at the same time: the users' requests (api/memory.go,   *)
(* api/settings.go, tools/memoryadapter.go), the enricher, consolidator,   *)
(* reflector and profiler, and the backfills of a start (worker/).         *)
(*                                                                         *)
(* Store.UpdateNode writes a whole row that its caller read before, often  *)
(* before a slow call of a language model: what others wrote to the row    *)
(* meanwhile is undone.  Texts, tags, types, weights, confidences and      *)
(* "pinned" are left out; its handler is one more writer of whole rows.    *)
(***************************************************************************)
EXTENDS Integers, FiniteSets

CONSTANTS
  MaxNodes,      \* bound: nodes ever created
  Readers,       \* users who chat, and fill the retriever's cache
  Owners,        \* users who own nodes
  NoOne,
  Callers,      \* goroutines of the API's handlers and of the agents' tools
  Reflector,     \* the goroutine of worker.Reflector
  Starter,       \* the goroutine that Server.New starts for the re-enrichment
  Timers,        \* bound: passes of the enricher run by its timer at once
  Buffer,        \* capacity of a subscription's channel (64 in the code)
  Batch,         \* enrichWorkers * 2, and the batchSize of the backfills
  MinThreshold, MaxThreshold, Scale,  \* of the consolidator
  MinCluster,    \* 3 in the code
  RegenThreshold,
  MaxChanges,    \* bound: requests, reflections and restarts
  Seeded,        \* bound: nodes that an earlier process has left
  Subscribers,   \* bound: workers that take part, of enricher, consolidator and profiler
  Operations     \* bound: operations that take part

Nodes == 1 .. MaxNodes
Users == Readers \cup Owners
Threads == Callers \cup {Reflector, Starter}
Passes == {"main"} \cup Timers
Jobs == Passes \X Nodes

ASSUME MemoryAssumption ==
  /\ MaxNodes \in Nat /\ Batch \in Nat \ {0} /\ Buffer \in Nat \ {0}
  /\ MinThreshold \in Nat /\ MaxThreshold \in Nat /\ Scale \in Nat \ {0}
  /\ Seeded \in 0 .. MaxNodes /\ Subscribers \subseteq {"enricher", "consolidator", "profiler"}
  /\ MinCluster \in Nat \ {0} /\ RegenThreshold \in Nat \ {0} /\ MaxChanges \in Nat
  /\ IsFiniteSet(Users) /\ IsFiniteSet(Timers)
  /\ NoOne \notin Users \cup Nodes
  /\ "main" \notin Timers
  /\ Operations \subseteq {"create", "save", "pin", "show", "delete", "trigger", "reembed", "reflect",
                         "start", "restart", "link", "dedup"}
  /\ Reflector # Starter /\ {Reflector, Starter} \cap Callers = {}

VARIABLES
  nodes,        \* table nodes; status "none": not created, "gone": deleted
  edges,        \* table edges
  embedded,     \* node_embeddings: the nodes that have a row
  filled,       \* users whose entry of Retriever.metaCache is not nil
  cache,        \* user |-> the nodes in that entry
  profile,      \* the nodes that content/profile.md describes
  counter,      \* Profiler.nodeCounter
  queue,        \* subscriber |-> events in its channel
  armed,        \* does the enricher's debounce timer run?
  pass,         \* pass |-> where processPending stands
  job,          \* pass, node |-> the goroutine that enriches the node
  cons,         \* the goroutine of the consolidator
  thread,       \* thread |-> its position and what it holds
  outdated,     \* is the stored enrichment_version below the configured one?
  changes,      \* requests, reflections and restarts so far
  overwritten,  \* history: nodes whose privacy a stale whole row has changed
  raced         \* history: edges whose privacy was wrong when inserted: read too early, or not at all

tables == <<nodes, edges, embedded>>
retriever == <<filled, cache>>
profiler == <<profile, counter>>
enricher == <<armed, pass, job>>
history == <<overwritten, raced>>
memoryVars == <<tables, retriever, profiler, queue, enricher, cons, thread, outdated, changes, history>>

Row == [status : {"none", "pending", "complete", "gone"}, owner : Owners \cup {NoOne},
        private : BOOLEAN, absorbed : BOOLEAN]   \* absorbed: consolidated_into # ''
NoRow == [status |-> "none", owner |-> NoOne, private |-> FALSE, absorbed |-> FALSE]
\* user_id is left out: see EdgeUser.
Edge == [source : Nodes, target : Nodes, private : BOOLEAN]

\* What the goroutine of a job holds: the node's row, then a duplicate's id and row,
\* or the target of a new edge and the privacy read for the edge.
Job == [at : {"none", "ask", "embed", "flush", "dedup", "merge", "yield", "link", "insert"},
        row : Row, other : Nodes \cup {NoOne}, otherRow : Row, hides : BOOLEAN]
NoJob == [at |-> "none", row |-> NoRow, other |-> NoOne, otherRow |-> NoRow, hides |-> FALSE]

Consolidator == [at : {"idle", "cluster", "derive", "insert", "absorb"}, rows : [Nodes -> Row],
                 todo : SUBSET Nodes, cluster : SUBSET Nodes, pattern : Nodes \cup {NoOne},
                 member : Nodes \cup {NoOne}, hides : BOOLEAN]
Resting == [at |-> "idle", rows |-> [n \in Nodes |-> NoRow], todo |-> {}, cluster |-> {},
            pattern |-> NoOne, member |-> NoOne, hides |-> FALSE]

Thread == [at : {"idle", "publish", "embed", "flush", "pin", "content", "relate", "insert",
                 "purge", "scan", "backfill", "version", "select", "reset"},
           op : {"none", "create", "save", "pin", "show", "reflect", "reembed", "start"},
           node : Nodes \cup {NoOne}, row : Row, other : Nodes \cup {NoOne}, hides : BOOLEAN,
           todo : SUBSET Nodes]
Idle == [at |-> "idle", op |-> "none", node |-> NoOne, row |-> NoRow, other |-> NoOne,
         hides |-> FALSE, todo |-> {}]
\* Bound: private nodes only where privacy is changed.
Privacy == IF "show" \in Operations THEN BOOLEAN ELSE {FALSE}

Booting(old) == IF old THEN [Idle EXCEPT !.at = "select", !.op = "start"] ELSE Idle

Here(n) == nodes[n].status \in {"pending", "complete"}
Present == {n \in Nodes : Here(n)}
Complete == {n \in Present : nodes[n].status = "complete"}

\* WHERE private = 0 OR user_id = ?, for a user or, without a filter, for "".
Visible(row, u) == ~row.private \/ row.owner = u
Scope(u) == {n \in Present : u = NoOne \/ Visible(nodes[n], u)}

MemoryTypeOK ==
  /\ nodes \in [Nodes -> Row]
  /\ edges \in SUBSET Edge
  /\ embedded \in SUBSET Nodes
  /\ filled \in SUBSET Users
  /\ cache \in [Users -> SUBSET Nodes]
  /\ profile \in SUBSET Nodes
  /\ counter \in 0 .. RegenThreshold - 1
  /\ queue \in [Subscribers -> 0 .. Buffer]
  /\ armed \in BOOLEAN
  /\ pass \in [Passes -> {"idle", "fetch", "wait"}]
  /\ job \in [Jobs -> Job]
  /\ cons \in Consolidator
  /\ thread \in [Threads -> Thread]
  /\ outdated \in BOOLEAN
  /\ changes \in 0 .. MaxChanges
  /\ overwritten \in SUBSET Nodes
  /\ raced \in SUBSET Edge

MemoryInit ==
  /\ \E rows \in [1 .. Seeded -> [status : {"pending", "complete"}, owner : Owners \cup {NoOne},
                                private : Privacy, absorbed : {FALSE}]] :
       nodes = [n \in Nodes |-> IF n <= Seeded THEN rows[n] ELSE NoRow]
  /\ edges = {} /\ embedded = Complete
  /\ filled = {} /\ cache = [u \in Users |-> {}]
  /\ profile = {} /\ counter = 0
  /\ queue = [s \in Subscribers |-> 0]
  /\ armed = FALSE
  /\ pass = [p \in Passes |-> IF p = "main" THEN "fetch" ELSE "idle"]
  /\ job = [j \in Jobs |-> NoJob]
  /\ cons = Resting
  /\ outdated = ("start" \in Operations)
  /\ thread = [t \in Threads |-> IF t = Starter THEN Booting(outdated) ELSE Idle]
  /\ changes = 0
  /\ overwritten = {} /\ raced = {}

-----------------------------------------------------------------------------
(* Statements of memory.Store.                                             *)

CreateNode(n, owner, private) ==
  /\ nodes[n].status = "none"
  /\ \A m \in 1 .. n - 1 : nodes[m].status # "none"
  /\ nodes' = [nodes EXCEPT ![n] = [status |-> "pending", owner |-> owner,
                                    private |-> private, absorbed |-> FALSE]]

\* UPDATE nodes SET <every column but id, user_id, subject_id> WHERE id = ?
UpdateNode(n, row) ==
  IF Here(n) THEN [nodes EXCEPT ![n] = [row EXCEPT !.owner = nodes[n].owner]] ELSE nodes

Overwrites(n, row) ==
  overwritten' = IF Here(n) /\ row.private # nodes[n].private
                 THEN overwritten \cup {n} ELSE overwritten

Touches(e, n) == n \in {e.source, e.target}

\* The transaction of SetNodeVisibility: the flag, then every edge of the node.
\* Mutant: the edges keep what they were given when they were made.
NodeVisibilityOnly(n, private) ==
  /\ nodes' = [nodes EXCEPT ![n].private = private]
  /\ overwritten' = overwritten \ {n}
  /\ raced' = {e \in raced : ~Touches(e, n)}
  /\ UNCHANGED <<edges, embedded>>

SetNodeVisibility(n, private) ==
  LET hidden(m) == IF m = n THEN private ELSE nodes[m].private
  IN  /\ nodes' = [nodes EXCEPT ![n].private = private]
      /\ edges' = {IF Touches(e, n)
                   THEN [e EXCEPT !.private = hidden(e.source) \/ hidden(e.target)]
                   ELSE e : e \in edges}
      /\ overwritten' = overwritten \ {n}
      /\ raced' = {e \in raced : ~Touches(e, n)}
      /\ UNCHANGED embedded

\* DELETE FROM nodes, with ON DELETE CASCADE on edges and embeddings.
DeleteNodes(S) ==
  /\ nodes' = [n \in Nodes |-> IF n \in S THEN [NoRow EXCEPT !.status = "gone"] ELSE nodes[n]]
  /\ edges' = {e \in edges : e.source \notin S /\ e.target \notin S}
  /\ embedded' = embedded \ S
  /\ overwritten' = overwritten \ S
  /\ raced' = {e \in raced : e.source \notin S /\ e.target \notin S}

\* COALESCE(MAX(private), 0) of the endpoints.
EdgePrivacy(a, b) == \E n \in {a, b} \cap Present : nodes[n].private

\* CreateEdge's first statement reads it; the error is dropped, and leaves FALSE.
ReadPrivacy(a, b) == {EdgePrivacy(a, b), FALSE}

\* Its second, which the foreign keys refuse once an endpoint is gone.
InsertEdge(a, b, hides) ==
  LET e == [source |-> a, target |-> b, private |-> hides]
  IN  IF Here(a) /\ Here(b)
      THEN /\ edges' = edges \cup {e}
           /\ raced' = IF hides = EdgePrivacy(a, b) THEN raced ELSE raced \cup {e}
      ELSE UNCHANGED <<edges, raced>>

\* Who makes an edge gives it the owner of its source, which never changes.
EdgeUser(e) == nodes[e.source].owner

\* GetVisibleEdges: WHERE private = 0 OR user_id = ?
Shown(e, u) == ~e.private \/ EdgeUser(e) = u

\* NodeEmbedder.EmbedNode: the embedding service may fail, the foreign key refuse.
EmbedNode(n) ==
  \/ Here(n) /\ embedded' = embedded \cup {n}
  \/ UNCHANGED embedded

\* GetEmbeddingsByTypeAndOwner: what FindDuplicate may take for the same as n.
DuplicatesOf(n) ==
  {m \in embedded \ {n} : nodes[m].private => nodes[n].owner # NoOne /\ nodes[m].owner = nodes[n].owner}

InvalidateCache == filled' = {} /\ cache' = [u \in Users |-> {}]

\* bus.Publish(EnrichmentQueued): dropped where the buffer is full.
\* Mutant: the buffers have no end.
PublishUnbounded == queue' = [s \in Subscribers |-> queue[s] + 1]

Publish == queue' = [s \in Subscribers |-> IF queue[s] < Buffer THEN queue[s] + 1 ELSE queue[s]]

-----------------------------------------------------------------------------
(* Requests.                                                               *)

GoesTo(t, place) == thread' = [thread EXCEPT ![t].at = place]
ThreadEnds(t) == thread' = [thread EXCEPT ![t] = Idle]
Other(t) == UNCHANGED <<profiler, enricher, cons, outdated>>

Budget(op) == op \in Operations /\ changes < MaxChanges /\ changes' = changes + 1
Begin(t, op) == t \in Callers /\ thread[t] = Idle /\ Budget(op)

Created(t, op, n, owner, private) ==
  /\ Begin(t, op)
  /\ CreateNode(n, owner, private)
  /\ thread' = [thread EXCEPT ![t] = [Idle EXCEPT !.at = "publish", !.op = op, !.node = n]]
  /\ UNCHANGED <<edges, embedded, retriever, queue, history>> /\ Other(t)

handleCreateMemoryNode(t) ==
  \E n \in Nodes, owner \in Owners \cup {NoOne}, private \in Privacy :
    Created(t, "create", n, owner, private)

\* The agent's tool: what a user says in a private session becomes a private node.
\* Its adapter also embeds what it saved.
saveMemory(t) ==
  \E n \in Nodes, owner \in Owners \cup {NoOne}, private \in Privacy :
    /\ owner = NoOne => ~private
    /\ Created(t, "save", n, owner, private)

PublishCreated(t) ==
  /\ thread[t].at = "publish"
  /\ Publish
  /\ CASE thread[t].op = "save"  -> GoesTo(t, "embed")
       [] thread[t].op = "start" -> GoesTo(t, "select")
       [] OTHER -> ThreadEnds(t)
  /\ UNCHANGED <<tables, retriever, changes, history>> /\ Other(t)

EmbedSaved(t) ==
  /\ thread[t].at = "embed"
  /\ IF Here(thread[t].node)
     THEN EmbedNode(thread[t].node) /\ GoesTo(t, "flush")
     ELSE ThreadEnds(t) /\ UNCHANGED embedded
  /\ UNCHANGED <<nodes, edges, retriever, queue, changes, history>> /\ Other(t)

Flush(t) ==
  /\ thread[t].at = "flush"
  /\ InvalidateCache
  /\ CASE thread[t].op = "reflect" -> GoesTo(t, "publish")
       [] thread[t].op = "reembed" -> GoesTo(t, "purge")
       [] OTHER -> ThreadEnds(t)
  /\ UNCHANGED <<tables, queue, changes, history>> /\ Other(t)

\* Mutant: the cache is left alone.
ShowWithoutFlush(t, n) ==
  /\ Begin(t, "show")
  /\ \E private \in BOOLEAN : SetNodeVisibility(n, private)
  /\ UNCHANGED <<retriever, queue, thread>> /\ Other(t)

ShowOrHide(t, n) ==
  /\ Begin(t, "show")
  /\ \E private \in BOOLEAN : SetNodeVisibility(n, private)
  /\ thread' = [thread EXCEPT ![t] = [Idle EXCEPT !.at = "flush", !.op = "show", !.node = n]]
  /\ UNCHANGED <<retriever, queue>> /\ Other(t)

\* An administrator may toggle every node, the agent's tool only its user's own.
handleToggleNodePrivacy(t) == \E n \in Present : ShowOrHide(t, n)
ToggleMemoryPrivacy(t) == \E n \in Present : nodes[n].owner # NoOne /\ ShowOrHide(t, n)

\* handlePinNode reads the row and writes it back.
ReadToPin(t) ==
  /\ Begin(t, "pin")
  /\ \E n \in Present : thread' = [thread EXCEPT ![t] =
                          [Idle EXCEPT !.at = "pin", !.op = "pin", !.node = n, !.row = nodes[n]]]
  /\ UNCHANGED <<tables, retriever, queue, history>> /\ Other(t)

Pin(t) ==
  LET n == thread[t].node
  IN  /\ thread[t].at = "pin"
      /\ nodes' = UpdateNode(n, thread[t].row)
      /\ Overwrites(n, thread[t].row)
      /\ ThreadEnds(t)
      /\ UNCHANGED <<edges, embedded, retriever, queue, changes, raced>> /\ Other(t)

\* handleDeleteMemoryNode, and handleDeleteUser for all that the user owns.
Delete(t) ==
  /\ Begin(t, "delete")
  /\ \/ \E n \in Present : DeleteNodes({n})
     \/ \E u \in Owners : DeleteNodes({n \in Present : nodes[n].owner = u})
  /\ UNCHANGED <<retriever, queue, thread>> /\ Other(t)

TriggerEnrichment(t) ==
  /\ Begin(t, "trigger")
  /\ Publish
  /\ UNCHANGED <<tables, retriever, thread, history>> /\ Other(t)

\* Router.handleUpdateSettings with another embedding model.
ChangeEmbeddingModel(t) ==
  /\ Begin(t, "reembed")
  /\ thread' = [thread EXCEPT ![t] = [Idle EXCEPT !.at = "flush", !.op = "reembed"]]
  /\ UNCHANGED <<tables, retriever, queue, history>> /\ Other(t)

DeleteAllEmbeddings(t) ==
  /\ thread[t].at = "purge"
  /\ embedded' = {}
  /\ GoesTo(t, "scan")
  /\ UNCHANGED <<nodes, edges, retriever, queue, changes, history>> /\ Other(t)

\* RunBackfill, here after the change of model (it also runs at the start).
GetNodesWithoutEmbeddings(t) ==
  /\ thread[t].at = "scan"
  /\ LET bare == Present \ embedded
     IN  \E S \in SUBSET bare :
           /\ Cardinality(S) = (IF Cardinality(bare) < Batch THEN Cardinality(bare) ELSE Batch)
           /\ thread' = [thread EXCEPT ![t].at = "backfill", ![t].todo = S]
  /\ UNCHANGED <<tables, retriever, queue, changes, history>> /\ Other(t)

Backfill(t) ==
  /\ thread[t].at = "backfill"
  /\ \E n \in thread[t].todo :
       EmbedNode(n) /\ thread' = [thread EXCEPT ![t].todo = @ \ {n}]
  /\ UNCHANGED <<nodes, edges, retriever, queue, changes, history>> /\ Other(t)

BackfillEnds(t) ==
  /\ thread[t].at = "backfill" /\ thread[t].todo = {}
  /\ ThreadEnds(t)
  /\ UNCHANGED <<tables, retriever, queue, changes, history>> /\ Other(t)

-----------------------------------------------------------------------------
(* RunReenrichment, when the enrichment version was raised.                *)

SelectComplete(t) ==
  /\ thread[t].at = "select"
  /\ \E S \in SUBSET Complete :
       /\ Cardinality(S) = (IF Cardinality(Complete) < Batch THEN Cardinality(Complete) ELSE Batch)
       /\ thread' = [thread EXCEPT ![t].at = IF S = {} THEN "version" ELSE "reset", ![t].todo = S]
  /\ UNCHANGED <<tables, retriever, queue, changes, history>> /\ Other(t)

ResetToPending(t) ==
  /\ thread[t].at = "reset"
  /\ \E n \in thread[t].todo :
       /\ nodes' = IF Here(n) THEN [nodes EXCEPT ![n].status = "pending"] ELSE nodes
       /\ thread' = [thread EXCEPT ![t].todo = @ \ {n},
                                   ![t].at = IF thread[t].todo = {n} THEN "publish" ELSE "reset"]
  /\ UNCHANGED <<edges, embedded, retriever, queue, changes, history>> /\ Other(t)

StoreVersion(t) ==
  /\ thread[t].at = "version"
  /\ outdated' = FALSE
  /\ GoesTo(t, "flush")
  /\ UNCHANGED <<tables, retriever, profiler, queue, enricher, cons, changes, history>>

-----------------------------------------------------------------------------
(* The reflector: storeSignal for a signal it found in a session.  What a  *)
(* private session gives has an owner and is not private.                  *)

Reflect(t) ==
  /\ t = Reflector /\ thread[t] = Idle /\ Budget("reflect")
  /\ \E n \in Nodes, owner \in Owners \cup {NoOne} :
       /\ CreateNode(n, owner, FALSE)
       /\ thread' = [thread EXCEPT ![t] = [Idle EXCEPT !.at = "content", !.op = "reflect",
                                           !.node = n, !.row = nodes'[n]]]
  /\ UNCHANGED <<edges, embedded, retriever, queue, history>> /\ Other(t)

\* The row it inserted, now with the path of the content.
WriteContent(t) ==
  LET n == thread[t].node
  IN  /\ thread[t].at = "content"
      /\ nodes' = UpdateNode(n, thread[t].row)
      /\ Overwrites(n, thread[t].row)
      /\ \/ GoesTo(t, "flush")
         \/ GoesTo(t, "relate")
      /\ UNCHANGED <<edges, embedded, retriever, queue, changes, raced>> /\ Other(t)

\* CreateEdge to a node it listed before; bound: to one of them.
Relate(t) ==
  /\ thread[t].at = "relate"
  /\ \E m \in Nodes \ {thread[t].node} : \E hides \in ReadPrivacy(thread[t].node, m) :
       /\ nodes[m].status # "none"
       /\ thread' = [thread EXCEPT ![t].at = "insert", ![t].other = m, ![t].hides = hides]
  /\ UNCHANGED <<tables, retriever, queue, changes, history>> /\ Other(t)

InsertRelation(t) ==
  /\ thread[t].at = "insert"
  /\ InsertEdge(thread[t].node, thread[t].other, thread[t].hides)
  /\ GoesTo(t, "flush")
  /\ UNCHANGED <<nodes, embedded, retriever, queue, changes, overwritten>> /\ Other(t)

-----------------------------------------------------------------------------
(* The enricher.  Its main goroutine runs a pass at the start and at every *)
(* tick; the debounce timer runs one in a goroutine of its own.            *)

Pending == {n \in Present : nodes[n].status = "pending"}
Running(p) == {n \in Nodes : job[<<p, n>>].at # "none"}
Aside == UNCHANGED <<tables, retriever, profiler, queue, cons, thread, outdated, changes, history>>

\* An event starts the timer or resets it.
Debounce ==
  /\ pass["main"] = "idle" /\ "enricher" \in Subscribers /\ queue["enricher"] > 0
  /\ queue' = [queue EXCEPT !["enricher"] = @ - 1]
  /\ armed' = TRUE
  /\ UNCHANGED <<tables, retriever, profiler, pass, job, cons, thread, outdated, changes, history>>

\* Mutant: no ticker.
NoTicker == FALSE /\ UNCHANGED memoryVars

Tick ==
  /\ pass["main"] = "idle"
  /\ pass' = [pass EXCEPT !["main"] = "fetch"]
  /\ Aside /\ UNCHANGED <<armed, job>>

TimerFires(p) ==
  /\ armed /\ pass[p] = "idle"
  /\ armed' = FALSE
  /\ pass' = [pass EXCEPT ![p] = "fetch"]
  /\ Aside /\ UNCHANGED job

\* processPending: the oldest pending nodes; a pass ends when there are none.
GetPendingEnrichment(p) ==
  LET batch == {n \in Pending : Cardinality({m \in Pending : m < n}) < Batch}
  IN  /\ pass[p] = "fetch"
      /\ pass' = [pass EXCEPT ![p] = IF batch = {} THEN "idle" ELSE "wait"]
      /\ job' = [j \in Jobs |-> IF j[1] = p /\ j[2] \in batch
                                THEN [NoJob EXCEPT !.at = "ask", !.row = nodes[j[2]]] ELSE job[j]]
      /\ Aside /\ UNCHANGED armed

Wait(p) ==
  /\ pass[p] = "wait" /\ Running(p) = {}
  /\ pass' = [pass EXCEPT ![p] = "fetch"]
  /\ Aside /\ UNCHANGED <<armed, job>>

Step(p, n, place) == job' = [job EXCEPT ![<<p, n>>].at = place]
ToLink(p, n) == job' = [job EXCEPT ![<<p, n>>] = [NoJob EXCEPT !.at = "link", !.row.owner = job[<<p, n>>].row.owner]]
Ends(p, n) == job' = [job EXCEPT ![<<p, n>>] = NoJob]
Rest == UNCHANGED <<profiler, queue, armed, pass, cons, thread, outdated, changes>>

\* enrichNode asks the model, which may fail or answer badly ...
EnrichFails(p, n) ==
  /\ job[<<p, n>>].at = "ask"
  /\ Ends(p, n)
  /\ Rest /\ UNCHANGED <<tables, retriever, history>>

\* ... or tell the node's type, summary, tags and triggers.
EnrichSucceeds(p, n) ==
  LET row == [job[<<p, n>>].row EXCEPT !.status = "complete"]
  IN  /\ job[<<p, n>>].at = "ask"
      /\ nodes' = UpdateNode(n, row)
      /\ Overwrites(n, row)
      /\ job' = [job EXCEPT ![<<p, n>>].at = "embed", ![<<p, n>>].row = row]
      /\ Rest /\ UNCHANGED <<edges, embedded, retriever, raced>>

EmbedEnriched(p, n) ==
  /\ job[<<p, n>>].at = "embed"
  /\ IF Here(n) THEN EmbedNode(n) /\ Step(p, n, "flush")
                ELSE ToLink(p, n) /\ UNCHANGED embedded
  /\ Rest /\ UNCHANGED <<nodes, edges, retriever, history>>

FlushEnriched(p, n) ==
  /\ job[<<p, n>>].at = "flush"
  /\ InvalidateCache
  /\ Step(p, n, "dedup")
  /\ Rest /\ UNCHANGED <<tables, history>>

\* FindDuplicate, whose similarities are not modelled.
FindDuplicate(p, n) ==
  /\ job[<<p, n>>].at = "dedup"
  /\ \/ ToLink(p, n)
     \/ /\ n \in embedded /\ "dedup" \in Operations
        /\ \E m \in DuplicatesOf(n) :
             job' = [job EXCEPT ![<<p, n>>].at = "merge", ![<<p, n>>].other = m, ![<<p, n>>].otherRow = nodes[m]]
  /\ Rest /\ UNCHANGED <<tables, retriever, history>>

\* The duplicate takes over the triggers ...
Merge(p, n) ==
  LET held == job[<<p, n>>]
  IN  /\ held.at = "merge"
      /\ nodes' = UpdateNode(held.other, held.otherRow)
      /\ Overwrites(held.other, held.otherRow)
      /\ job' = [job EXCEPT ![<<p, n>>].at = "yield", ![<<p, n>>].other = NoOne, ![<<p, n>>].otherRow = NoRow]
      /\ Rest /\ UNCHANGED <<edges, embedded, retriever, raced>>

\* ... and the node points to it.
Yield(p, n) ==
  LET row == [job[<<p, n>>].row EXCEPT !.absorbed = TRUE]
  IN  /\ job[<<p, n>>].at = "yield"
      /\ nodes' = UpdateNode(n, row)
      /\ Overwrites(n, row)
      /\ Ends(p, n)
      /\ Rest /\ UNCHANGED <<edges, embedded, retriever, raced>>

\* The model names related nodes of the summaries it was shown: with no owner,
\* those of the whole graph.  Bound: one of them, shown or gone since.
Link(p, n) ==
  /\ job[<<p, n>>].at = "link"
  /\ \/ Ends(p, n)
     \/ \E m \in {m \in Scope(job[<<p, n>>].row.owner) \ {n} : "link" \in Operations} :
          \E hides \in ReadPrivacy(n, m) :
            job' = [job EXCEPT ![<<p, n>>].at = "insert", ![<<p, n>>].other = m, ![<<p, n>>].hides = hides]
  /\ Rest /\ UNCHANGED <<tables, retriever, history>>

InsertLink(p, n) ==
  /\ job[<<p, n>>].at = "insert"
  /\ InsertEdge(n, job[<<p, n>>].other, job[<<p, n>>].hides)
  /\ Ends(p, n)
  /\ Rest /\ UNCHANGED <<nodes, embedded, retriever, overwritten>>

EnricherStep ==
  \/ Debounce \/ Tick
  \/ \E p \in Timers : TimerFires(p)
  \/ \E p \in Passes : GetPendingEnrichment(p) \/ Wait(p)

JobStep(p, n) ==
  \/ EnrichFails(p, n) \/ EnrichSucceeds(p, n) \/ EmbedEnriched(p, n) \/ FlushEnriched(p, n)
  \/ FindDuplicate(p, n) \/ Merge(p, n) \/ Yield(p, n) \/ Link(p, n) \/ InsertLink(p, n)

-----------------------------------------------------------------------------
(* The consolidator makes patterns of nodes with one owner, private or not. *)

Loose == {n \in Complete : ~nodes[n].absorbed}
MinOf(a, b) == IF a < b THEN a ELSE b
\* Stats adds the counts of nodes, of edges and of pending nodes.
AdaptiveThreshold ==
  MinOf(MinThreshold + (Cardinality(Present) + Cardinality(edges) + Cardinality(Pending)) \div Scale,
        MaxThreshold)
Beside == UNCHANGED <<retriever, profiler, enricher, thread, outdated, changes>>

CheckAndConsolidate ==
  /\ cons.at = "idle" /\ "consolidator" \in Subscribers /\ queue["consolidator"] > 0
  /\ queue' = [queue EXCEPT !["consolidator"] = @ - 1]
  /\ cons' = IF Cardinality(Loose) >= AdaptiveThreshold /\ Cardinality(Loose) >= MinCluster
             THEN [Resting EXCEPT !.at = "cluster", !.todo = Loose \cap embedded,
                     !.rows = [n \in Nodes |-> IF n \in Loose THEN nodes[n] ELSE NoRow]]
             ELSE cons
  /\ Beside /\ UNCHANGED <<tables, history>>

ClusterEnds ==
  /\ cons.at = "cluster"
  /\ cons' = Resting
  /\ Beside /\ UNCHANGED <<tables, queue, history>>

\* synthesizePattern; the rows are those that consolidate read.
SynthesizePattern ==
  /\ cons.at = "cluster"
  /\ \E cluster \in SUBSET cons.todo, n \in Nodes, owner \in Owners \cup {NoOne} :
       /\ Cardinality(cluster) >= MinCluster
       /\ \A m \in cluster : cons.rows[m].owner = owner
       /\ CreateNode(n, owner, FALSE)
       /\ cons' = [cons EXCEPT !.at = "derive", !.cluster = cluster, !.pattern = n,
                               !.todo = @ \ cluster]
  /\ Beside /\ UNCHANGED <<edges, embedded, queue, history>>

Derive ==
  /\ cons.at = "derive"
  /\ \E m \in cons.cluster : \E hides \in ReadPrivacy(cons.pattern, m) :
       cons' = [cons EXCEPT !.at = "insert", !.member = m, !.hides = hides]
  /\ Beside /\ UNCHANGED <<tables, queue, history>>

InsertDerived ==
  /\ cons.at = "insert"
  /\ InsertEdge(cons.pattern, cons.member, cons.hides)
  /\ cons' = [cons EXCEPT !.at = "absorb"]
  /\ Beside /\ UNCHANGED <<nodes, embedded, queue, overwritten>>

\* No foreign key asks whether the pattern is still there.
Absorb ==
  LET m == cons.member
      row == [cons.rows[m] EXCEPT !.absorbed = TRUE]
  IN  /\ cons.at = "absorb"
      /\ nodes' = UpdateNode(m, row)
      /\ Overwrites(m, row)
      /\ cons' = [cons EXCEPT !.cluster = @ \ {m}, !.member = NoOne,
                              !.at = IF cons.cluster = {m} THEN "cluster" ELSE "derive"]
      /\ Beside /\ UNCHANGED <<edges, embedded, queue, raced>>

ConsolidatorStep ==
  CheckAndConsolidate \/ ClusterEnds \/ SynthesizePattern \/ Derive \/ InsertDerived \/ Absorb

-----------------------------------------------------------------------------
(* The profiler, the retriever and the process.                            *)

\* Every RegenThreshold events, revise writes the nodes of all users to the file.
Revise ==
  /\ "profiler" \in Subscribers /\ queue["profiler"] > 0
  /\ queue' = [queue EXCEPT !["profiler"] = @ - 1]
  /\ counter' = (counter + 1) % RegenThreshold
  /\ profile' = IF counter' = 0 THEN Present ELSE profile
  /\ UNCHANGED <<tables, retriever, enricher, cons, thread, outdated, changes, history>>

\* retrieveVector fills the user's entry of the cache when it is missing.
Retrieve(u) ==
  /\ u \notin filled
  /\ filled' = filled \cup {u}
  /\ cache' = [cache EXCEPT ![u] = Scope(u) \cap embedded]
  /\ UNCHANGED <<tables, profiler, queue, enricher, cons, thread, outdated, changes, history>>

\* The process stops anywhere; the tables and the profile's file stay.
Restart ==
  /\ Budget("restart")
  /\ filled' = {} /\ cache' = [u \in Users |-> {}]
  /\ counter' = 0
  /\ queue' = [s \in Subscribers |-> 0]
  /\ armed' = FALSE
  /\ pass' = [p \in Passes |-> IF p = "main" THEN "fetch" ELSE "idle"]
  /\ job' = [j \in Jobs |-> NoJob]
  /\ cons' = Resting
  /\ thread' = [t \in Threads |-> IF t = Starter THEN Booting(outdated) ELSE Idle]
  /\ UNCHANGED <<tables, profile, outdated, history>>

Calls(t) ==
  \/ handleCreateMemoryNode(t) \/ saveMemory(t) \/ handleToggleNodePrivacy(t)
  \/ ToggleMemoryPrivacy(t) \/ ReadToPin(t) \/ Delete(t) \/ TriggerEnrichment(t)
  \/ ChangeEmbeddingModel(t) \/ Reflect(t)

Proceeds(t) ==
  \/ PublishCreated(t) \/ EmbedSaved(t) \/ Flush(t) \/ Pin(t) \/ DeleteAllEmbeddings(t)
  \/ GetNodesWithoutEmbeddings(t) \/ Backfill(t) \/ BackfillEnds(t) \/ SelectComplete(t)
  \/ ResetToPending(t) \/ StoreVersion(t) \/ WriteContent(t) \/ Relate(t) \/ InsertRelation(t)

MemoryNext ==
  \/ \E t \in Threads : Calls(t) \/ Proceeds(t)
  \/ EnricherStep
  \/ \E p \in Passes, n \in Nodes : JobStep(p, n)
  \/ ConsolidatorStep
  \/ Revise
  \/ \E u \in Readers : Retrieve(u)
  \/ Restart

\* The runtime schedules every goroutine, the ticker ticks, and a model that is
\* asked about a node again and again answers well at some time.
Fairness ==
  /\ \A t \in Threads : WF_memoryVars(Proceeds(t))
  /\ WF_memoryVars(Tick)
  /\ \A p \in Passes : WF_memoryVars(GetPendingEnrichment(p)) /\ WF_memoryVars(Wait(p))
  /\ \A p \in Passes, n \in Nodes : WF_memoryVars(JobStep(p, n)) /\ SF_memoryVars(EnrichSucceeds(p, n))

MemorySpec == MemoryInit /\ [][MemoryNext]_memoryVars
FairMemorySpec == MemorySpec /\ Fairness

-----------------------------------------------------------------------------
(* Properties.                                                             *)

Flushing(n) == \E t \in Threads : thread[t].at = "flush" /\ thread[t].node = n

\* What a retrieval takes from the cache for a user has not become another user's
\* private memory, unless its handler is about to flush the cache or a stale row
\* was written over the node.
CacheHidesPrivate ==
  \A u \in filled : \A n \in cache[u] \cap Present :
    Visible(nodes[n], u) \/ n \in overwritten \/ Flushing(n)

\* An edge has two nodes, and GetVisibleEdges shows no user an edge of a node that is hidden
\* from him, unless it was made for a node of his own: those it does show, though the other
\* node is another's.  A stale row, and an edge whose privacy was read before the node was
\* hidden or could not be read, are the exceptions that the code has.
EdgesFollowNodes ==
  \A e \in edges :
    /\ {e.source, e.target} \subseteq Present
    /\ \A u \in Users, n \in {e.source, e.target} \ overwritten :
         Shown(e, u) /\ ~Visible(nodes[n], u) => EdgeUser(e) = u \/ e \in raced

\* A node is enriched at last, or deleted, though its event may be dropped, the model
\* may fail on it, and other nodes queue before it.  RunReenrichment is the exception:
\* while it goes on it may reset older nodes as fast as they are enriched.
PendingIsReached ==
  \A n \in Nodes : (nodes[n].status = "pending" /\ ~outdated) ~> (nodes[n].status # "pending")
=============================================================================
