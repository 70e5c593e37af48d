--------------------------- MODULE TaskScheduler ----------------------------
(***************************************************************************)
(* The cron schedule against the tasks table: Scheduler.Start, Reload and  *)
(* Stop with the goroutines watchChanges and watchWake                     *)
(* (task/scheduler.go), the TaskChanged subscription of the event bus      *)
(* (bus/bus.go), and everybody who writes a task: the API handlers         *)
(* (api/tasks.go), the agent's task tools (tools/taskadapter.go) and the   *)
(* deletion of a user (api/user_handlers.go).                              *)
(*                                                                         *)
(* A cron entry holds a copy of the task row it was built from, so what    *)
(* the scheduler runs is exactly entries.                                  *)
(***************************************************************************)
EXTENDS Naturals

CONSTANTS
  Tasks,       \* ids of tasks (AUTOINCREMENT: an id is used once)
  Users,       \* owners of tasks
  Admin,       \* the admin, who deletes other users
  Bodies,      \* what a row says besides owner and enabled: prompt, cron_expr, ...
  CronBodies,  \* those with a cron_expr that parses
  Editors,     \* concurrent requests and tool calls that write tasks
  Capacity,    \* buffer of a subscription's channel (64 in the code)
  MaxEdits,    \* bound on the number of writes to the table
  MaxFaults    \* bound on the number of failing reads

ASSUME SchedulerAssumption ==
  /\ Admin \in Users
  /\ CronBodies \subseteq Bodies
  /\ Capacity \in Nat \ {0}
  /\ MaxEdits \in Nat
  /\ MaxFaults \in Nat

VARIABLES
  db,       \* task |-> its row in the table tasks
  phase,    \* of the Scheduler: "new" before Start, "running", "stopped"
  entries,  \* task |-> the row its cron entry was built from
  changes,  \* where watchChanges stands
  wake,     \* where watchWake stands
  chan,     \* number of TaskChanged events buffered for watchChanges
  editor,   \* editor |-> the write it is in the middle of
  unheard,  \* tasks written without an event since Reload last read the table
  blank,    \* did the last Reload fail to read the table?
  edits,    \* number of writes so far
  faults    \* number of failed reads so far

scheduler == <<phase, entries, changes, wake, chan, blank>>
vars == <<db, scheduler, editor, unheard, edits, faults>>

NoRow == [kind |-> "none"]
Deleted == [kind |-> "deleted"]
Row == [kind : {"row"}, enabled : BOOLEAN, owner : Users, body : Bodies]

Idle == [op |-> "idle"]
Edits == {Idle}
           \cup [op : {"write"}, task : Tasks, row : Row]
           \cup [op : {"publish"}, task : Tasks]

TypeOK ==
  /\ db \in [Tasks -> Row \cup {NoRow, Deleted}]
  /\ phase \in {"new", "running", "stopped"}
  /\ entries \in [Tasks -> Row \cup {NoRow}]
  /\ changes \in {"off", "starting", "waiting", "reload", "reading", "rebuilding"}
  /\ wake \in {"off", "waiting", "reading", "rebuilding"}
  /\ chan \in 0..Capacity
  /\ editor \in [Editors -> Edits]
  /\ unheard \subseteq Tasks
  /\ blank \in BOOLEAN
  /\ edits \in Nat
  /\ faults \in Nat

\* The table a restarted server finds.
Init ==
  /\ db \in [Tasks -> {NoRow} \cup
              [kind : {"row"}, enabled : {TRUE}, owner : Users, body : CronBodies]]
  /\ phase = "new"
  /\ entries = [t \in Tasks |-> NoRow]
  /\ changes = "off"
  /\ wake = "off"
  /\ chan = 0
  /\ editor = [e \in Editors |-> Idle]
  /\ unheard = {}
  /\ blank = FALSE
  /\ edits = 0
  /\ faults = 0

-----------------------------------------------------------------------------
(* Reload *)

\* ListScheduledTasks and addTaskLocked: enabled = 1, a cron_expr, and one that
\* cron.AddFunc accepts.
Scheduled(d) ==
  [t \in Tasks |->
     IF d[t].kind = "row" /\ d[t].enabled /\ d[t].body \in CronBodies THEN d[t] ELSE NoRow]

\* Reload holds s.mu over the read and the rebuild.
Locked == {changes, wake} \cap {"reading", "rebuilding"} # {}

RemoveEntries == entries' = [t \in Tasks |-> NoRow]

ReadFails == faults < MaxFaults /\ faults' = faults + 1

\* The read fixes what the schedule will be: the rows, or nothing if it fails.
ReadTable ==
  \/ /\ entries' = Scheduled(db)
     /\ unheard' = {}
     /\ blank' = FALSE
     /\ UNCHANGED faults
  \/ /\ ReadFails
     /\ blank' = TRUE
     /\ UNCHANGED <<entries, unheard>>

-----------------------------------------------------------------------------
(* Start, Stop and the two goroutines *)

Start ==
  /\ phase = "new"
  /\ \/ /\ entries' = Scheduled(db)
        /\ unheard' = {}
        /\ phase' = "running"
        /\ changes' = "starting"
        /\ wake' = "waiting"
        /\ UNCHANGED faults
     \/ /\ ReadFails     \* app.New only logs it
        /\ phase' = "stopped"
        /\ UNCHANGED <<entries, unheard, changes, wake>>
  /\ UNCHANGED <<db, chan, editor, blank, edits>>

\* watchChanges subscribes once its goroutine runs.
Subscribe ==
  /\ changes = "starting"
  /\ changes' = "waiting"
  /\ UNCHANGED <<db, phase, entries, wake, chan, editor, unheard, blank, edits, faults>>

Receive ==
  /\ changes = "waiting"
  /\ chan > 0
  /\ chan' = chan - 1
  /\ changes' = "reload"
  /\ UNCHANGED <<db, phase, entries, wake, editor, unheard, blank, edits, faults>>

\* Reload: take s.mu and remove every entry from the cron.
ReloadBegins ==
  /\ changes = "reload"
  /\ ~Locked
  /\ RemoveEntries
  /\ changes' = "reading"
  /\ UNCHANGED <<db, phase, wake, chan, editor, unheard, blank, edits, faults>>

ReloadReads ==
  /\ changes = "reading"
  /\ ReadTable
  /\ changes' = "rebuilding"
  /\ UNCHANGED <<db, phase, wake, chan, editor, edits>>

\* addTaskLocked for every row (or the error is logged), s.mu is released, and
\* watchChanges selects again.
ReloadReturns ==
  /\ changes = "rebuilding"
  /\ changes' = "waiting"
  /\ UNCHANGED <<db, phase, entries, wake, chan, editor, unheard, blank, edits, faults>>

\* watchWake found that the clock jumped: the same Reload.
WakeReloadBegins ==
  /\ wake = "waiting"
  /\ ~Locked
  /\ RemoveEntries
  /\ wake' = "reading"
  /\ UNCHANGED <<db, phase, changes, chan, editor, unheard, blank, edits, faults>>

WakeReloadReads ==
  /\ wake = "reading"
  /\ ReadTable
  /\ wake' = "rebuilding"
  /\ UNCHANGED <<db, phase, changes, chan, editor, edits>>

\* A Reload that returns without releasing s.mu.
WakeKeepsLock ==
  /\ wake = "rebuilding"
  /\ UNCHANGED vars

WakeReloadReturns ==
  /\ wake = "rebuilding"
  /\ wake' = "waiting"
  /\ UNCHANGED <<db, phase, entries, changes, chan, editor, unheard, blank, edits, faults>>

\* Stop closes stopCh ...
Stop ==
  /\ phase = "running"
  /\ phase' = "stopped"
  /\ UNCHANGED <<db, entries, changes, wake, chan, editor, unheard, blank, edits, faults>>

\* ... and the goroutines leave their select; watchChanges unsubscribes.
ChangesExits ==
  /\ phase = "stopped"
  /\ changes = "waiting"
  /\ changes' = "off"
  /\ chan' = 0
  /\ UNCHANGED <<db, phase, entries, wake, editor, unheard, blank, edits, faults>>

WakeExits ==
  /\ phase = "stopped"
  /\ wake = "waiting"
  /\ wake' = "off"
  /\ UNCHANGED <<db, phase, entries, changes, chan, editor, unheard, blank, edits, faults>>

\* The process ends, at any point, and starts again.
Restart ==
  /\ phase # "new"
  /\ phase' = "new"
  /\ entries' = [t \in Tasks |-> NoRow]
  /\ changes' = "off"
  /\ wake' = "off"
  /\ chan' = 0
  /\ editor' = [e \in Editors |-> Idle]
  /\ blank' = FALSE
  /\ UNCHANGED <<db, unheard, edits, faults>>

-----------------------------------------------------------------------------
(* Writers of the table *)

Edit == phase # "new" /\ edits < MaxEdits /\ edits' = edits + 1

Subscribed == changes \notin {"off", "starting"}

\* Store.CreateTask: INSERT; the caller publishes next.
InsertTask(e, t, row) ==
  /\ editor[e] = Idle
  /\ db[t] = NoRow
  /\ Edit
  /\ db' = [db EXCEPT ![t] = row]
  /\ editor' = [editor EXCEPT ![e] = [op |-> "publish", task |-> t]]
  /\ UNCHANGED <<scheduler, unheard, faults>>

handleCreateTask(e, t) == \E row \in Row : InsertTask(e, t, row)

\* The adapter of the agent's tools creates enabled tasks only.
NewTasks == {row \in Row : row.enabled}

\* The tool create_task.
createTask(e, t) == \E row \in NewTasks : InsertTask(e, t, row)

\* GetTask finds the row; the caller's changes are made to the copy ...
GetTask(e, t, copies) ==
  /\ editor[e] = Idle
  /\ phase # "new"
  /\ db[t].kind = "row"
  /\ edits < MaxEdits
  /\ \E row \in copies :
       editor' = [editor EXCEPT ![e] = [op |-> "write", task |-> t, row |-> row]]
  /\ UNCHANGED <<db, scheduler, unheard, edits, faults>>

\* The adapter's UpdateTask and ToggleTask, of the tools update_task and toggle_task.
Patched(row) == {[row EXCEPT !.body = b] : b \in Bodies}
Toggled(row) == {[row EXCEPT !.enabled = on] : on \in BOOLEAN}

\* The body of the request is decoded over the copy.
handleUpdateTask(e, t) == GetTask(e, t, UNION {Toggled(row) : row \in Patched(db[t])})

updateTask(e, t) == GetTask(e, t, Patched(db[t]))
toggleTask(e, t) == GetTask(e, t, Toggled(db[t]))

\* The UPDATE with user_id among its columns.
UpdateEveryColumn(e) ==
  /\ editor[e].op = "write"
  /\ Edit
  /\ LET t == editor[e].task
     IN  /\ db' = [db EXCEPT ![t] = IF @.kind = "row" THEN editor[e].row ELSE @]
         /\ editor' = [editor EXCEPT ![e] = [op |-> "publish", task |-> t]]
  /\ UNCHANGED <<scheduler, unheard, faults>>

\* ... then UPDATE of every column but user_id, by id, and Publish.
UpdateTask(e) ==
  /\ editor[e].op = "write"
  /\ Edit
  /\ LET t == editor[e].task
     IN  /\ db' = [db EXCEPT ![t] =
                     IF @.kind = "row" THEN [editor[e].row EXCEPT !.owner = db[t].owner]
                                       ELSE @]
         /\ editor' = [editor EXCEPT ![e] = [op |-> "publish", task |-> t]]
  /\ UNCHANGED <<scheduler, unheard, faults>>

\* DELETE, and Publish if a row was there.
DeleteTask(e, t) ==
  /\ editor[e] = Idle
  /\ db[t].kind = "row"
  /\ Edit
  /\ db' = [db EXCEPT ![t] = Deleted]
  /\ editor' = [editor EXCEPT ![e] = [op |-> "publish", task |-> t]]
  /\ UNCHANGED <<scheduler, unheard, faults>>

handleDeleteTask(e, t) == DeleteTask(e, t)

\* The tool delete_task.
deleteTask(e, t) == DeleteTask(e, t)

\* Bus.Publish, once the event is queued or dropped; without a subscriber it
\* reaches nobody.
Published(e, queued) ==
  /\ editor[e].op = "publish"
  /\ IF Subscribed
     THEN chan' = queued /\ UNCHANGED unheard
     ELSE unheard' = unheard \cup {editor[e].task} /\ UNCHANGED chan
  /\ editor' = [editor EXCEPT ![e] = Idle]
  /\ UNCHANGED <<db, phase, entries, changes, wake, blank, edits, faults>>

\* An unbuffered channel: the event is dropped unless watchChanges is waiting.
PublishUnbuffered(e) ==
  Published(e, IF changes = "waiting" /\ chan < Capacity THEN chan + 1 ELSE chan)

\* A Publish that does not look whether the buffer is full.
PublishUnbounded(e) == Published(e, chan + 1)

\* The send never blocks: the event is dropped when the buffer is full.
Publish(e) == Published(e, IF chan < Capacity THEN chan + 1 ELSE chan)

\* handleDeleteUser: DisableAndReassignTasks, with no event.
DisableAndReassignTasks(u) ==
  /\ u # Admin
  /\ Edit
  /\ LET his == {t \in Tasks : db[t].kind = "row" /\ db[t].owner = u}
     IN  /\ db' = [t \in Tasks |->
                     IF t \in his THEN [db[t] EXCEPT !.enabled = FALSE, !.owner = Admin]
                                  ELSE db[t]]
         /\ unheard' = unheard \cup his
  /\ UNCHANGED <<scheduler, editor, faults>>

-----------------------------------------------------------------------------

Write(e) ==
  \/ \E t \in Tasks :
       \/ handleCreateTask(e, t) \/ handleUpdateTask(e, t) \/ handleDeleteTask(e, t)
       \/ createTask(e, t) \/ updateTask(e, t) \/ toggleTask(e, t) \/ deleteTask(e, t)
  \/ UpdateTask(e)
  \/ Publish(e)

Next ==
  \/ Start \/ Stop \/ Restart
  \/ Subscribe \/ Receive \/ ReloadBegins \/ ReloadReads \/ ReloadReturns \/ ChangesExits
  \/ WakeReloadBegins \/ WakeReloadReads \/ WakeReloadReturns \/ WakeExits
  \/ \E e \in Editors : Write(e)
  \/ \E u \in Users : DisableAndReassignTasks(u)

\* Goroutines that can run do run; s.mu is handed over in the end (strong
\* fairness of taking it against watchWake).  Nobody owes an edit or a wake.
Fairness ==
  /\ WF_vars(Subscribe) /\ WF_vars(Receive) /\ SF_vars(ReloadBegins)
  /\ WF_vars(ReloadReads) /\ WF_vars(ReloadReturns)
  /\ WF_vars(WakeReloadReads) /\ WF_vars(WakeReloadReturns)
  /\ \A e \in Editors : WF_vars(Publish(e))

Spec == Init /\ [][Next]_vars /\ Fairness

-----------------------------------------------------------------------------
(* Properties *)

InSync(t) == entries[t] = Scheduled(db)[t]

\* Somebody is going to make the schedule follow t's row: an event waits, a
\* Reload is on its way to the table, or a writer has yet to publish.
ReloadComing(t) ==
  \/ chan > 0
  \/ changes \in {"reload", "reading"}
  \/ wake = "reading"
  \/ \E e \in Editors : editor[e] = [op |-> "publish", task |-> t]

\* While the scheduler runs, a task whose cron entry differs from its row has a
\* Reload coming, unless its writer published nothing anybody heard or the last
\* Reload could not read the table: dropping TaskChanged when the buffer is full
\* loses no change, however writers, watchChanges and watchWake interleave.
NoChangeLost ==
  phase = "running" =>
    \A t \in Tasks : InSync(t) \/ t \in unheard \/ blank \/ ReloadComing(t)

\* A change that was heard reaches the schedule.
ChangesReachSchedule ==
  \A t \in Tasks :
    phase = "running" /\ ~InSync(t) ~>
      InSync(t) \/ t \in unheard \/ blank \/ phase # "running"

\* Deleting a user takes his tasks for good: no stale copy written back by an
\* edit that overlapped the deletion makes him their owner again.
OwnerNeverReverts ==
  [][\A t \in Tasks : db[t].kind = "row" /\ db[t].owner = Admin /\ db'[t].kind = "row"
       => db'[t].owner = Admin]_vars
=============================================================================
