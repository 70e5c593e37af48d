---------------------------- MODULE TaskExecutor ----------------------------
(***************************************************************************)
(* Task runs: Executor.Execute and Executor.Cancel (task/executor.go), the *)
(* task_runs table behind them (task/store.go) and the API handlers that   *)
(* start, cancel and delete runs and delete tasks (api/tasks.go).          *)
(*                                                                         *)
(* One element of Runs is one call of Execute; it is also the id of the    *)
(* task_runs row that call inserts (AUTOINCREMENT: ids are never reused).  *)
(* One element of Clients is one HTTP request at a time.  Every action is  *)
(* one SQL statement or one critical section: the code holds no lock and   *)
(* no transaction from one to the next.                                    *)
(***************************************************************************)
EXTENDS Naturals

CONSTANTS
  Tasks,        \* ids of tasks
  Runs,         \* calls of Execute, and ids of their rows
  Clients,      \* concurrent HTTP requests
  NoTask,       \* SQL NULL in task_runs.task_id
  ManualTasks,  \* tasks with allow_manual
  MaxFaults     \* bound on the number of failing SQL writes

ASSUME ExecutorAssumption ==
  /\ NoTask \notin Tasks
  /\ ManualTasks \subseteq Tasks
  /\ MaxFaults \in Nat

VARIABLES
  up,         \* is the server process running?
  tasks,      \* rows of the table tasks
  status,     \* run |-> task_runs.status; "none" before the INSERT, "deleted" after a DELETE
  taskOf,     \* run |-> task_runs.task_id
  pc,         \* run |-> where its Execute call stands
  arg,        \* run |-> the Task passed to Execute (a snapshot: it may be gone from tasks)
  over,       \* runs whose ctx.Err() is not nil: cancelled, or past the deadline
  verdict,    \* run |-> the outcome Execute decided on
  active,     \* keys of Executor.activeRuns
  req,        \* client |-> its request in flight
  announced,  \* run |-> the terminal event published about it
  inChat,     \* runs called by run_task in the agent of POST /api/chat
  lost,       \* runs whose status was left "running" by a failing write
  unwound,    \* runs whose status was left "running" by a panic, until the next boot
  faults      \* number of failed writes so far

store == <<tasks, status, taskOf>>
locals == <<arg, over, verdict, inChat>>
vars == <<up, store, pc, locals, active, req, announced, lost, unwound, faults>>

Verdicts == {"completed", "failed", "cancelled"}
Idle == [op |-> "idle"]
Requests == {Idle}
              \cup [op : {"read", "orphan", "signal"}, run : Runs]
              \cup [op : {"deleteRuns", "deleteTask"}, task : Tasks]

\* Execute has inserted its row and has not tried to write the verdict yet.
Unsettled == {"created", "agent", "returned", "judged"}
\* Execute is between activeRuns[runID] = cancel and the deferred delete.
Registered == {"agent", "returned", "judged", "recorded", "healing", "healed"}

TypeOK ==
  /\ up \in BOOLEAN
  /\ tasks \subseteq Tasks
  /\ status \in [Runs -> {"none", "running", "deleted"} \cup Verdicts]
  /\ taskOf \in [Runs -> Tasks \cup {NoTask}]
  /\ pc \in [Runs -> {"idle", "start", "checked", "ended"} \cup Unsettled \cup Registered]
  /\ arg \in [Runs -> Tasks \cup {NoTask}]
  /\ over \subseteq Runs
  /\ verdict \in [Runs -> Verdicts \cup {"none"}]
  /\ active \subseteq Runs
  /\ req \in [Clients -> Requests]
  /\ announced \in [Runs -> Verdicts \cup {"none"}]
  /\ inChat \subseteq Runs
  /\ lost \subseteq Runs
  /\ unwound \subseteq Runs
  /\ faults \in Nat

Init ==
  /\ up = TRUE
  /\ tasks = Tasks
  /\ status = [r \in Runs |-> "none"]
  /\ taskOf = [r \in Runs |-> NoTask]
  /\ pc = [r \in Runs |-> "idle"]
  /\ arg = [r \in Runs |-> NoTask]
  /\ over = {}
  /\ verdict = [r \in Runs |-> "none"]
  /\ active = {}
  /\ req = [c \in Clients |-> Idle]
  /\ announced = [r \in Runs |-> "none"]
  /\ inChat = {}
  /\ lost = {}
  /\ unwound = {}
  /\ faults = 0

-----------------------------------------------------------------------------
(* SQL statements and program counters *)

HasRunningRun(t) == \E r \in Runs : taskOf[r] = t /\ status[r] = "running"

\* UPDATE task_runs SET status=... WHERE id=?: no guard on the old status, and
\* no effect on a row that is gone.
SetStatus(r, s) ==
  status' = [status EXCEPT ![r] = IF @ \in {"none", "deleted"} THEN @ ELSE s]

DeleteRows(S) ==
  /\ status' = [r \in Runs |-> IF r \in S THEN "deleted" ELSE status[r]]
  /\ taskOf' = [r \in Runs |-> IF r \in S THEN NoTask ELSE taskOf[r]]

\* A write that fails; its caller drops the error or gives up.
WriteFails == faults < MaxFaults /\ faults' = faults + 1

Goto(r, label) == pc' = [pc EXCEPT ![r] = label] /\ UNCHANGED locals

\* Execute returns and its locals are gone.
Return(r) ==
  /\ pc' = [pc EXCEPT ![r] = "ended"]
  /\ arg' = [arg EXCEPT ![r] = NoTask]
  /\ over' = over \ {r}
  /\ verdict' = [verdict EXCEPT ![r] = "none"]
  /\ inChat' = inChat \ {r}

-----------------------------------------------------------------------------
(* The three ways into Execute *)

Call(r, t, chats) ==
  /\ up
  /\ pc[r] = "idle"
  /\ pc' = [pc EXCEPT ![r] = "start"]
  /\ arg' = [arg EXCEPT ![r] = t]
  /\ inChat' = inChat \cup chats
  /\ UNCHANGED <<up, store, over, verdict, active, req, announced, lost, unwound, faults>>

\* The cron closure and catchUpMissed pass the Task they captured, which may
\* have been deleted since.
CronFire(r, t) == Call(r, t, {})

handleTriggerTask(r, t) ==
  /\ t \in tasks
  /\ t \in ManualTasks
  /\ ~HasRunningRun(t)
  /\ Call(r, t, {})

\* The run_task tool: Execute runs in the caller's context, in the goroutine of the
\* agent, which may be that of POST /api/chat.
RunTask(r, t) ==
  /\ t \in tasks
  /\ \E chats \in SUBSET {r} : Call(r, t, chats)

-----------------------------------------------------------------------------
(* Execute *)

CheckRunning(r) ==
  /\ up
  /\ pc[r] = "start"
  /\ IF HasRunningRun(arg[r]) THEN Return(r) ELSE Goto(r, "checked")
  /\ UNCHANGED <<up, store, active, req, announced, lost, unwound, faults>>

\* INSERT INTO task_runs; the foreign key rejects a task that is gone.
CreateRun(r) ==
  /\ up
  /\ pc[r] = "checked"
  /\ \/ /\ arg[r] \in tasks
        /\ status' = [status EXCEPT ![r] = "running"]
        /\ taskOf' = [taskOf EXCEPT ![r] = arg[r]]
        /\ Goto(r, "created")
        /\ UNCHANGED faults
     \/ /\ arg[r] \notin tasks
        /\ Return(r)
        /\ UNCHANGED <<status, taskOf, faults>>
     \/ /\ WriteFails
        /\ Return(r)
        /\ UNCHANGED <<status, taskOf>>
  /\ UNCHANGED <<up, tasks, active, req, announced, lost, unwound>>

\* activeRuns[runID] = cancel; the agent starts.
Register(r) ==
  /\ up
  /\ pc[r] = "created"
  /\ active' = active \cup {r}
  /\ Goto(r, "agent")
  /\ UNCHANGED <<up, store, req, announced, lost, unwound, faults>>

\* agentFn returns without an error, whatever became of its context.
AgentSucceeds(r) ==
  /\ up
  /\ pc[r] = "agent"
  /\ verdict' = [verdict EXCEPT ![r] = "completed"]
  /\ pc' = [pc EXCEPT ![r] = "judged"]
  /\ UNCHANGED <<up, store, arg, over, inChat, active, req, announced, lost, unwound, faults>>

AgentFails(r) ==
  /\ up
  /\ pc[r] = "agent"
  /\ Goto(r, "returned")
  /\ UNCHANGED <<up, store, active, req, announced, lost, unwound, faults>>

\* The agent, or that of selfHeal, panics (a tool of a server that is gone).  Nothing
\* recovers it in Execute, whose deferred calls run; recoverMiddleware does if the agent
\* that called run_task answers POST /api/chat.  Anywhere else the process dies: Crash.
AgentPanics(r) ==
  /\ up
  /\ r \in inChat
  /\ pc[r] \in {"agent", "healing"}
  /\ active' = active \ {r}
  /\ unwound' = IF pc[r] = "agent" THEN unwound \cup {r} ELSE unwound
  /\ Return(r)
  /\ UNCHANGED <<up, store, req, announced, lost, faults>>

\* if ctx.Err() != nil { CancelRun } else { FailRun }, decided after
\* SaveToolCalls.
JudgeError(r) ==
  /\ up
  /\ pc[r] = "returned"
  /\ verdict' = [verdict EXCEPT ![r] = IF r \in over THEN "cancelled" ELSE "failed"]
  /\ pc' = [pc EXCEPT ![r] = "judged"]
  /\ UNCHANGED <<up, store, arg, over, inChat, active, req, announced, lost, unwound, faults>>

\* Mutant: FailRun on both error paths.
RecordAnyErrorAsFailed(r) ==
  /\ up
  /\ pc[r] = "judged"
  /\ SetStatus(r, IF verdict[r] = "cancelled" THEN "failed" ELSE verdict[r])
  /\ Goto(r, "recorded")
  /\ UNCHANGED <<up, tasks, taskOf, active, req, announced, lost, unwound, faults>>

\* CompleteRun, FailRun or CancelRun, whose error Execute ignores.
RecordVerdict(r) ==
  /\ up
  /\ pc[r] = "judged"
  /\ \/ /\ SetStatus(r, verdict[r])
        /\ UNCHANGED <<lost, faults>>
     \/ /\ WriteFails
        /\ lost' = lost \cup {r}
        /\ UNCHANGED status
  /\ Goto(r, "recorded")
  /\ UNCHANGED <<up, tasks, taskOf, active, req, announced, unwound>>

\* selfHeal of a completed run with failed tool calls: a second agent, in the
\* same context, which may edit the skill or the task.
SelfHeal(r) ==
  /\ up
  /\ pc[r] = "recorded"
  /\ verdict[r] = "completed"
  /\ Goto(r, "healing")
  /\ UNCHANGED <<up, store, active, req, announced, lost, unwound, faults>>

\* It returns; an error is logged and nothing more.
HealReturns(r) ==
  /\ up
  /\ pc[r] = "healing"
  /\ Goto(r, "healed")
  /\ UNCHANGED <<up, store, active, req, announced, lost, unwound, faults>>

\* Mutant: the deferred delete is forgotten.
AnnounceWithoutDelete(r) ==
  /\ up
  /\ pc[r] \in {"recorded", "healed"}
  /\ announced' = [announced EXCEPT ![r] = verdict[r]]
  /\ Return(r)
  /\ UNCHANGED <<up, store, active, req, lost, unwound, faults>>

\* Publish TaskCompleted, TaskFailed or TaskCancelled; then the deferred
\* delete(activeRuns, runID) and the return.
Announce(r) ==
  /\ up
  /\ pc[r] \in {"recorded", "healed"}
  /\ announced' = [announced EXCEPT ![r] = verdict[r]]
  /\ active' = active \ {r}
  /\ Return(r)
  /\ UNCHANGED <<up, store, req, lost, unwound, faults>>

\* Mutant: Execute runs the agent without a timeout.
ContextNeverEnds(r) == FALSE /\ UNCHANGED vars

\* The context ends by itself: context.WithTimeout, at most maxTaskTimeout, or
\* the end of the chat that called run_task.  Only an agent and JudgeError read it.
ContextEnds(r) ==
  /\ up
  /\ pc[r] \in {"agent", "returned", "healing"}
  /\ r \notin over
  /\ over' = over \cup {r}
  /\ UNCHANGED <<up, store, pc, arg, verdict, inChat, active, req, announced, lost, unwound, faults>>

-----------------------------------------------------------------------------
(* handleCancelRun: GetRun, then Executor.Cancel, then perhaps CancelRun *)

\* GetRun finds the row, whatever its columns say; otherwise ErrNotFound.
GetRun(r) == status[r] \notin {"none", "deleted"}

\* A run that is no longer running is refused, one that is being healed too.
CancelReadsRun(c, r) ==
  /\ up
  /\ req[c] = Idle
  /\ GetRun(r)
  /\ status[r] = "running"
  /\ req' = [req EXCEPT ![c] = [op |-> "read", run |-> r]]
  /\ UNCHANGED <<up, store, pc, locals, active, announced, lost, unwound, faults>>

\* The critical section of Executor.Cancel.
CancelLooksUp(c) ==
  /\ up
  /\ req[c].op = "read"
  /\ active' = active \ {req[c].run}
  /\ req' = [req EXCEPT ![c] =
               [op |-> IF req[c].run \in active THEN "signal" ELSE "orphan",
                run |-> req[c].run]]
  /\ UNCHANGED <<up, store, pc, locals, announced, lost, unwound, faults>>

\* cancel(), after the lock is released; nothing listens once Execute returned.
CancelSignals(c) ==
  /\ up
  /\ req[c].op = "signal"
  /\ over' = IF pc[req[c].run] \in Registered THEN over \cup {req[c].run} ELSE over
  /\ req' = [req EXCEPT ![c] = Idle]
  /\ UNCHANGED <<up, store, pc, arg, verdict, inChat, active, announced, lost, unwound, faults>>

\* "Orphaned run (server restarted, or triggered externally). Cancel directly."
CancelDirectly(c) ==
  /\ up
  /\ req[c].op = "orphan"
  /\ \/ SetStatus(req[c].run, "cancelled") /\ UNCHANGED faults
     \/ WriteFails /\ UNCHANGED status
  /\ req' = [req EXCEPT ![c] = Idle]
  /\ UNCHANGED <<up, tasks, taskOf, pc, locals, active, announced, lost, unwound>>

-----------------------------------------------------------------------------
(* Deletion *)

\* handleDeleteRun and handleDeleteRuns: GetRun, then one DELETE, whatever the
\* status.
DeleteRuns(S) ==
  /\ up
  /\ \A r \in S : GetRun(r)
  /\ DeleteRows(S)
  /\ UNCHANGED <<up, tasks, pc, locals, active, req, announced, lost, unwound, faults>>

handleDeleteTask(c, t) ==
  /\ up
  /\ req[c] = Idle
  /\ t \in tasks
  /\ req' = [req EXCEPT ![c] = [op |-> "deleteRuns", task |-> t]]
  /\ UNCHANGED <<up, store, pc, locals, active, announced, lost, unwound, faults>>

\* The first statement of DeleteTask: DELETE FROM task_runs WHERE task_id = ?
DeleteTaskRuns(c) ==
  /\ up
  /\ req[c].op = "deleteRuns"
  /\ \/ /\ DeleteRows({r \in Runs : taskOf[r] = req[c].task})
        /\ req' = [req EXCEPT ![c] = [op |-> "deleteTask", task |-> req[c].task]]
        /\ UNCHANGED faults
     \/ /\ WriteFails
        /\ req' = [req EXCEPT ![c] = Idle]
        /\ UNCHANGED <<status, taskOf>>
  /\ UNCHANGED <<up, tasks, pc, locals, active, announced, lost, unwound>>

\* The second one, DELETE FROM tasks: ON DELETE SET NULL on the rows inserted
\* since the first.
DeleteTaskRow(c) ==
  /\ up
  /\ req[c].op = "deleteTask"
  /\ \/ /\ tasks' = tasks \ {req[c].task}
        /\ taskOf' = [r \in Runs |-> IF taskOf[r] = req[c].task THEN NoTask ELSE taskOf[r]]
        /\ UNCHANGED faults
     \/ /\ WriteFails
        /\ UNCHANGED <<tasks, taskOf>>
  /\ req' = [req EXCEPT ![c] = Idle]
  /\ UNCHANGED <<up, status, pc, locals, active, announced, lost, unwound>>

-----------------------------------------------------------------------------
(* The process *)

\* The process dies, or Shutdown closes the database under the runs it does not
\* wait for: goroutines, requests and activeRuns are gone, rows stay.
Crash ==
  /\ up
  /\ up' = FALSE
  /\ pc' = [r \in Runs |-> IF pc[r] = "idle" THEN "idle" ELSE "ended"]
  /\ arg' = [r \in Runs |-> NoTask]
  /\ over' = {}
  /\ verdict' = [r \in Runs |-> "none"]
  /\ inChat' = {}
  /\ active' = {}
  /\ req' = [c \in Clients |-> Idle]
  /\ UNCHANGED <<store, announced, lost, unwound, faults>>

\* Mutants: a status no reader knows; a cleanup that only counts; a cleanup that
\* sweeps up every run that did not complete.
MarkInterrupted ==
  status' = [r \in Runs |-> IF status[r] = "running" THEN "interrupted" ELSE status[r]]
CountStaleRuns == UNCHANGED status
FailAllUnfinished ==
  status' = [r \in Runs |-> IF status[r] \in {"running", "cancelled"} THEN "failed" ELSE status[r]]

\* CleanupStaleRuns: UPDATE task_runs SET status='failed' WHERE status='running'.
CleanupStaleRuns ==
  status' = [r \in Runs |-> IF status[r] = "running" THEN "failed" ELSE status[r]]

\* app.New, before anything can call Execute; a failing cleanup is only logged.
Boot ==
  /\ ~up
  /\ up' = TRUE
  /\ unwound' = {}
  /\ \/ /\ CleanupStaleRuns
        /\ UNCHANGED <<lost, faults>>
     \/ /\ WriteFails
        /\ lost' = lost \cup {r \in Runs : status[r] = "running"}
        /\ UNCHANGED status
  /\ UNCHANGED <<tasks, taskOf, pc, locals, active, req, announced>>

-----------------------------------------------------------------------------

Trigger(r) ==
  \E t \in Tasks : CronFire(r, t) \/ handleTriggerTask(r, t) \/ RunTask(r, t)

Step(r) ==
  \/ CheckRunning(r)  \/ CreateRun(r)     \/ Register(r)
  \/ AgentSucceeds(r) \/ AgentFails(r)    \/ AgentPanics(r)
  \/ JudgeError(r)    \/ RecordVerdict(r)
  \/ SelfHeal(r)      \/ HealReturns(r)
  \/ Announce(r)

Request(c) ==
  \/ \E r \in Runs : CancelReadsRun(c, r)
  \/ CancelLooksUp(c) \/ CancelSignals(c) \/ CancelDirectly(c)
  \/ \E t \in Tasks : handleDeleteTask(c, t)
  \/ DeleteTaskRuns(c) \/ DeleteTaskRow(c)

Next ==
  \/ \E r \in Runs : Trigger(r) \/ Step(r) \/ ContextEnds(r)
  \/ \E c \in Clients : Request(c)
  \/ \E S \in SUBSET Runs : S # {} /\ DeleteRuns(S)
  \/ Crash
  \/ Boot

\* The Go scheduler runs every runnable goroutine, the timer of WithTimeout
\* fires, the agent returns once its context is over, and an operator restarts
\* a dead server.  Nothing makes an agent with a live context return.
Fairness ==
  /\ \A r \in Runs :
       /\ WF_vars(CheckRunning(r)) /\ WF_vars(CreateRun(r)) /\ WF_vars(Register(r))
       /\ WF_vars(ContextEnds(r))
       /\ WF_vars(r \in over /\ (AgentSucceeds(r) \/ AgentFails(r)))
       /\ WF_vars(r \in over /\ HealReturns(r))
       /\ WF_vars(JudgeError(r)) /\ WF_vars(RecordVerdict(r)) /\ WF_vars(Announce(r))
  /\ WF_vars(Boot)

Spec == Init /\ [][Next]_vars /\ Fairness

-----------------------------------------------------------------------------
(* Properties *)

\* A row that says "running" is owned by a live Execute call that will write its
\* verdict, unless that very write failed or, since the last boot, a panic of its agent was
\* recovered above Execute: CleanupStaleRuns and the order of Execute leave no other
\* zombie to block HasRunningRun.
RunningRowHasOwner ==
  up => \A r \in Runs :
          status[r] = "running" => pc[r] \in Unsettled \/ r \in lost \cup unwound

\* Executor.activeRuns against Execute: an entry belongs to a call that has not
\* returned, and an agent whose context is live can still be stopped, because
\* its entry is there or the client that took it is about to call cancel().
ActiveRunsExact ==
  /\ \A r \in active : pc[r] \in Registered
  /\ \A r \in Runs :
       pc[r] \in {"agent", "returned"} /\ r \notin over =>
         r \in active \/ \E c \in Clients : req[c] = [op |-> "signal", run |-> r]

\* Whoever reads the row on TaskCompleted, TaskFailed or TaskCancelled finds the
\* verdict the event announced, or what a cancel or a delete wrote over it; an
\* event never runs ahead of its row.
EventMatchesRow ==
  \A r \in Runs :
    announced[r] # "none" =>
      status[r] \in {announced[r], "cancelled", "deleted"} \/ r \in lost

\* The task_runs table keeps the promises of RunLifecycle.
owed == {r \in Runs : up /\ pc[r] \in Unsettled}
Lifecycle == INSTANCE RunLifecycle WITH Runs <- Runs, outcome <- status, owed <- owed
LifecycleSpec == Lifecycle!Spec

\* A run does not stay "running", nor its call of Execute in flight
\* (maxTaskTimeout ends the agent and the healing one, a restart ends the rest):
\* the call returns and its row says how it ended, unless that write failed or a panic
\* that was recovered above Execute left the row to the next boot.
EveryRunSettles ==
  \A r \in Runs :
    status[r] = "running" ~>
      pc[r] = "ended" /\ (status[r] # "running" \/ r \in lost \cup unwound)
=============================================================================
