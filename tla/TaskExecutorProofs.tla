------------------------- MODULE TaskExecutorProofs -------------------------
(***************************************************************************)
(* Proofs about TaskExecutor for every set of tasks, runs and clients and  *)
(* every bound on failing writes: its type invariant, the invariants the   *)
(* runs check, and that it implements RunLifecycle.                        *)
(***************************************************************************)
EXTENDS TaskExecutor, TLAPS

-----------------------------------------------------------------------------
(* The inductive invariant *)

\* Nothing lives in a process that is down.
DownMeansEmpty ==
  ~up => /\ \A r \in Runs : pc[r] \in {"idle", "ended"}
         /\ active = {}
         /\ \A c \in Clients : req[c] = Idle

\* Execute has tried to write its verdict and has not announced it.
Decided == {"recorded", "healing", "healed"}

\* What the row and the bus show at each point of Execute.
StageInv ==
  \A r \in Runs :
    /\ pc[r] \in {"idle", "start", "checked"} => status[r] = "none"
    /\ pc[r] \in Unsettled => status[r] \in {"running", "cancelled", "deleted"}
    /\ pc[r] # "ended" => announced[r] = "none"
    /\ pc[r] \in {"judged"} \cup Decided => verdict[r] \in Verdicts
    /\ pc[r] \in Decided =>
         status[r] \in {verdict[r], "cancelled", "deleted"} \/ r \in lost
    /\ status[r] = "none" => taskOf[r] = NoTask

IInv ==
  /\ TypeOK
  /\ DownMeansEmpty
  /\ StageInv
  /\ RunningRowHasOwner
  /\ ActiveRunsExact
  /\ EventMatchesRow

-----------------------------------------------------------------------------

\* No step of the model, whoever takes it, leaves the types.
LEMMA TypeStep == TypeOK /\ [Next]_vars => TypeOK'
<1> USE ExecutorAssumption DEF TypeOK, Verdicts, Unsettled, Registered, store, locals
<1> SUFFICES ASSUME TypeOK, [Next]_vars PROVE TypeOK'
  OBVIOUS
<1>1. ASSUME NEW r \in Runs, NEW t \in Tasks,
             CronFire(r, t) \/ handleTriggerTask(r, t) \/ RunTask(r, t)
      PROVE  TypeOK'
  BY <1>1 DEF CronFire, handleTriggerTask, RunTask, Call
<1>2. ASSUME NEW r \in Runs, CheckRunning(r) PROVE TypeOK'
  BY <1>2 DEF CheckRunning, Return, Goto
<1>3. ASSUME NEW r \in Runs, CreateRun(r) PROVE TypeOK'
  BY <1>3 DEF CreateRun, Return, Goto, WriteFails
<1>4. ASSUME NEW r \in Runs, Register(r) PROVE TypeOK'
  BY <1>4 DEF Register, Goto
<1>5. ASSUME NEW r \in Runs, AgentSucceeds(r) PROVE TypeOK'
  BY <1>5 DEF AgentSucceeds
<1>6. ASSUME NEW r \in Runs, AgentFails(r) \/ AgentPanics(r) PROVE TypeOK'
  BY <1>6 DEF AgentFails, AgentPanics, Goto, Return
<1>7. ASSUME NEW r \in Runs, JudgeError(r) PROVE TypeOK'
  BY <1>7 DEF JudgeError
<1>8. ASSUME NEW r \in Runs, RecordVerdict(r) PROVE TypeOK'
  BY <1>8 DEF RecordVerdict, SetStatus, WriteFails, Goto
<1>9. ASSUME NEW r \in Runs, SelfHeal(r) \/ HealReturns(r) \/ Announce(r) PROVE TypeOK'
  BY <1>9 DEF SelfHeal, HealReturns, Announce, Goto, Return
<1>10. ASSUME NEW r \in Runs, ContextEnds(r) PROVE TypeOK'
  BY <1>10 DEF ContextEnds
<1>11. ASSUME NEW c \in Clients, Request(c) PROVE TypeOK'
  <2>1. ASSUME NEW r \in Runs, CancelReadsRun(c, r) PROVE TypeOK'
    BY <2>1 DEF CancelReadsRun, Requests
  <2>2. CASE CancelLooksUp(c)
    BY <2>2 DEF CancelLooksUp, Requests, Idle
  <2>3. CASE CancelSignals(c)
    BY <2>3 DEF CancelSignals, Requests, Idle
  <2>4. CASE CancelDirectly(c)
    BY <2>4 DEF CancelDirectly, SetStatus, WriteFails, Requests, Idle
  <2>5. ASSUME NEW t \in Tasks, handleDeleteTask(c, t) PROVE TypeOK'
    BY <2>5 DEF handleDeleteTask, Requests
  <2>6. CASE DeleteTaskRuns(c)
    BY <2>6 DEF DeleteTaskRuns, DeleteRows, WriteFails, Requests, Idle
  <2>7. CASE DeleteTaskRow(c)
    BY <2>7 DEF DeleteTaskRow, WriteFails, Requests, Idle
  <2> QED
    BY <1>11, <2>1, <2>2, <2>3, <2>4, <2>5, <2>6, <2>7 DEF Request
<1>12. ASSUME NEW S \in SUBSET Runs, DeleteRuns(S) PROVE TypeOK'
  BY <1>12 DEF DeleteRuns, GetRun, DeleteRows
<1>13. CASE Crash
  BY <1>13 DEF Crash, Requests, Idle
<1>14. CASE Boot
  BY <1>14 DEF Boot, CleanupStaleRuns, WriteFails
<1>15. CASE UNCHANGED vars
  BY <1>15 DEF vars
<1> QED
  BY <1>1, <1>2, <1>3, <1>4, <1>5, <1>6, <1>7, <1>8, <1>9, <1>10, <1>11, <1>12,
     <1>13, <1>14, <1>15 DEF Next, Trigger, Step

\* The initial state has the types.
LEMMA TypeInit == Init => TypeOK
  BY ExecutorAssumption DEF Init, TypeOK, Requests, Idle, Verdicts

\* Every variable keeps its type, whatever interleaving of Execute calls,
\* requests, failing writes and restarts produced it.
THEOREM TypeCorrect == Spec => []TypeOK
<1>1. Init => TypeOK
  BY TypeInit
<1>2. TypeOK /\ [Next]_vars => TypeOK'
  BY TypeStep
<1> QED
  BY <1>1, <1>2, PTL DEF Spec

-----------------------------------------------------------------------------

\* The strengthened invariant is inductive.
LEMMA IInvStep == IInv /\ [Next]_vars => IInv'
<1> SUFFICES ASSUME IInv, [Next]_vars PROVE IInv'
  OBVIOUS
<1> USE DEF Verdicts, Unsettled, Registered, Decided, store, locals
<1> DEFINE Inv == DownMeansEmpty /\ StageInv /\ RunningRowHasOwner /\ ActiveRunsExact
                    /\ EventMatchesRow
<1>0. TypeOK /\ TypeOK' /\ Inv
  BY TypeStep DEF IInv
<1> SUFFICES Inv'
  BY <1>0 DEF IInv
<1> USE <1>0 DEF DownMeansEmpty, StageInv, RunningRowHasOwner, ActiveRunsExact, EventMatchesRow,
                 TypeOK
<1>1. ASSUME NEW r \in Runs, NEW t \in Tasks,
             CronFire(r, t) \/ handleTriggerTask(r, t) \/ RunTask(r, t)
      PROVE  Inv'
  BY <1>1 DEF CronFire, handleTriggerTask, RunTask, Call
<1>2. ASSUME NEW r \in Runs, CheckRunning(r) PROVE Inv'
  BY <1>2 DEF CheckRunning, Return, Goto
<1>3. ASSUME NEW r \in Runs, CreateRun(r) PROVE Inv'
  BY <1>3 DEF CreateRun, Return, Goto, WriteFails
<1>4. ASSUME NEW r \in Runs, Register(r) PROVE Inv'
  BY <1>4 DEF Register, Goto
<1>5. ASSUME NEW r \in Runs, AgentSucceeds(r) PROVE Inv'
  BY <1>5 DEF AgentSucceeds
<1>6. ASSUME NEW r \in Runs, AgentFails(r) \/ AgentPanics(r) PROVE Inv'
  <2>1. CASE AgentFails(r)
    BY <2>1 DEF AgentFails, Goto
  <2>2. CASE AgentPanics(r)
    BY <2>2 DEF AgentPanics, Return
  <2> QED
    BY <1>6, <2>1, <2>2
<1>7. ASSUME NEW r \in Runs, JudgeError(r) PROVE Inv'
  BY <1>7 DEF JudgeError
<1>8. ASSUME NEW r \in Runs, RecordVerdict(r) PROVE Inv'
  BY <1>8 DEF RecordVerdict, SetStatus, WriteFails, Goto
<1>9. ASSUME NEW r \in Runs, SelfHeal(r) \/ HealReturns(r) \/ Announce(r) PROVE Inv'
  BY <1>9 DEF SelfHeal, HealReturns, Announce, Goto, Return
<1>10. ASSUME NEW r \in Runs, ContextEnds(r) PROVE Inv'
  BY <1>10 DEF ContextEnds
<1>11. ASSUME NEW c \in Clients, Request(c) PROVE Inv'
  <2>1. ASSUME NEW r \in Runs, CancelReadsRun(c, r) PROVE Inv'
    BY <2>1 DEF CancelReadsRun, Idle
  <2>2. CASE CancelLooksUp(c)
    BY <2>2 DEF CancelLooksUp, Requests, Idle
  <2>3. CASE CancelSignals(c)
    BY <2>3 DEF CancelSignals, Requests, Idle
  <2>4. CASE CancelDirectly(c)
    BY <2>4 DEF CancelDirectly, SetStatus, WriteFails, Requests, Idle
  <2>5. ASSUME NEW t \in Tasks, handleDeleteTask(c, t) PROVE Inv'
    BY <2>5 DEF handleDeleteTask, Idle
  <2>6. CASE DeleteTaskRuns(c)
    BY <2>6, ExecutorAssumption DEF DeleteTaskRuns, DeleteRows, WriteFails, Requests, Idle
  <2>7. CASE DeleteTaskRow(c)
    BY <2>7 DEF DeleteTaskRow, WriteFails, Requests, Idle
  <2> QED
    BY <1>11, <2>1, <2>2, <2>3, <2>4, <2>5, <2>6, <2>7 DEF Request
<1>12. ASSUME NEW S \in SUBSET Runs, DeleteRuns(S) PROVE Inv'
  BY <1>12 DEF DeleteRuns, GetRun, DeleteRows
<1>13. CASE Crash
  BY <1>13 DEF Crash
<1>14. CASE Boot
  BY <1>14 DEF Boot, CleanupStaleRuns, WriteFails
<1>15. CASE UNCHANGED vars
  BY <1>15 DEF vars
<1> QED
  BY <1>1, <1>2, <1>3, <1>4, <1>5, <1>6, <1>7, <1>8, <1>9, <1>10, <1>11, <1>12,
     <1>13, <1>14, <1>15 DEF Next, Trigger, Step

\* The strengthened invariant holds in every reachable state.
THEOREM InductiveInvariant == Spec => []IInv
<1>1. Init => IInv
  BY TypeInit DEF Init, IInv, DownMeansEmpty, StageInv, RunningRowHasOwner, ActiveRunsExact,
                  EventMatchesRow, Unsettled, Decided, Verdicts
<1>2. IInv /\ [Next]_vars => IInv'
  BY IInvStep
<1> QED
  BY <1>1, <1>2, PTL DEF Spec

\* No zombie runs: a row that says "running" is owned by a live Execute call, its
\* verdict's write failed, or a recovered panic left it to CleanupStaleRuns at the next boot.
THEOREM NoZombieRuns == Spec => []RunningRowHasOwner
  BY InductiveInvariant, PTL DEF IInv

\* activeRuns holds only calls that have not returned, and every agent with a
\* live context can be stopped through it.
THEOREM RunsStayCancellable == Spec => []ActiveRunsExact
  BY InductiveInvariant, PTL DEF IInv

\* A terminal event never runs ahead of, or disagrees with, the row it reports.
THEOREM EventsFollowRows == Spec => []EventMatchesRow
  BY InductiveInvariant, PTL DEF IInv

-----------------------------------------------------------------------------
(* TaskExecutor implements RunLifecycle *)

\* A step that leaves the table alone and neither starts nor ends a debt of a
\* verdict is invisible to a reader of the table.
LEMMA Invisible ==
  ASSUME UNCHANGED <<status, up>>, \A r \in Runs : pc'[r] \in Unsettled <=> pc[r] \in Unsettled
  PROVE  UNCHANGED Lifecycle!vars
BY DEF Lifecycle!vars, owed

\* Every step of TaskExecutor is a step of RunLifecycle or invisible there.
LEMMA RefinementStep == IInv /\ [Next]_vars => [Lifecycle!Next]_Lifecycle!vars
<1> SUFFICES ASSUME IInv, [Next]_vars PROVE [Lifecycle!Next]_Lifecycle!vars
  OBVIOUS
<1> USE DEF Verdicts, Unsettled, Registered, Decided, store, locals
<1>0. TypeOK /\ DownMeansEmpty /\ StageInv
  BY DEF IInv
<1> USE <1>0 DEF TypeOK
<1> DEFINE Visible == \/ \E r \in Runs : \/ Lifecycle!Open(r)    \/ Lifecycle!Settle(r)
                                         \/ Lifecycle!Forfeit(r) \/ Lifecycle!Cancel(r)
                      \/ \E S \in SUBSET Runs : Lifecycle!Remove(S)
                      \/ Lifecycle!Abandon
                      \/ Lifecycle!Recover
<1> SUFFICES Visible \/ UNCHANGED Lifecycle!vars
  BY DEF Lifecycle!Next
<1>1. ASSUME NEW r \in Runs, NEW t \in Tasks,
             CronFire(r, t) \/ handleTriggerTask(r, t) \/ RunTask(r, t)
      PROVE  UNCHANGED Lifecycle!vars
  BY <1>1, Invisible DEF CronFire, handleTriggerTask, RunTask, Call
<1>2. ASSUME NEW r \in Runs, CheckRunning(r) PROVE UNCHANGED Lifecycle!vars
  BY <1>2, Invisible DEF CheckRunning, Return, Goto
<1>3. ASSUME NEW r \in Runs, CreateRun(r) PROVE Visible \/ UNCHANGED Lifecycle!vars
  <2>1. CASE arg[r] \in tasks /\ pc' = [pc EXCEPT ![r] = "created"]
               /\ status' = [status EXCEPT ![r] = "running"] /\ up' = up
    <3>1. status[r] = "none" /\ up
      BY <1>3 DEF CreateRun, StageInv
    <3>2. owed' = owed \cup {r}
      BY <2>1, <3>1 DEF owed
    <3> QED
      BY <2>1, <3>1, <3>2 DEF Lifecycle!Open
  <2>2. CASE status' = status /\ up' = up /\ Return(r)
    BY <1>3, <2>2, Invisible DEF CreateRun, Return
  <2> QED
    BY <1>3, <2>1, <2>2 DEF CreateRun, Goto, WriteFails
<1>4. ASSUME NEW r \in Runs, Register(r) PROVE UNCHANGED Lifecycle!vars
  BY <1>4, Invisible DEF Register, Goto
<1>5. ASSUME NEW r \in Runs, AgentSucceeds(r) PROVE UNCHANGED Lifecycle!vars
  BY <1>5, Invisible DEF AgentSucceeds
<1>6. ASSUME NEW r \in Runs, AgentFails(r) \/ AgentPanics(r)
      PROVE  Visible \/ UNCHANGED Lifecycle!vars
  <2>1. CASE AgentFails(r)
    BY <2>1, Invisible DEF AgentFails, Goto
  <2>2. CASE AgentPanics(r) /\ pc[r] = "agent"
    <3>1. owed' = owed \ {r} /\ r \in owed /\ status' = status
      BY <2>2 DEF AgentPanics, Return, owed
    <3> QED
      BY <3>1 DEF Lifecycle!Forfeit
  <2>3. CASE AgentPanics(r) /\ pc[r] = "healing"
    BY <2>3, Invisible DEF AgentPanics, Return
  <2> QED
    BY <1>6, <2>1, <2>2, <2>3 DEF AgentPanics
<1>7. ASSUME NEW r \in Runs, JudgeError(r) PROVE UNCHANGED Lifecycle!vars
  BY <1>7, Invisible DEF JudgeError
<1>8. ASSUME NEW r \in Runs, RecordVerdict(r) PROVE Visible
  <2>1. owed' = owed \ {r} /\ r \in owed
    BY <1>8 DEF RecordVerdict, Goto, owed
  <2>2. status[r] \in {"running", "cancelled", "deleted"} /\ verdict[r] \in Verdicts
    BY <1>8 DEF RecordVerdict, StageInv
  <2>3. CASE SetStatus(r, verdict[r])
    <3>1. status' = [status EXCEPT ![r] = IF @ = "deleted" THEN @ ELSE verdict[r]]
      BY <2>2, <2>3 DEF SetStatus
    <3>2. Lifecycle!Settle(r)
      BY <2>1, <2>2, <3>1 DEF Lifecycle!Settle, Lifecycle!Final
    <3> QED
      BY <3>2
  <2>4. CASE UNCHANGED status
    BY <2>1, <2>4 DEF Lifecycle!Forfeit
  <2> QED
    BY <1>8, <2>3, <2>4 DEF RecordVerdict
<1>9. ASSUME NEW r \in Runs, SelfHeal(r) \/ HealReturns(r) \/ Announce(r)
      PROVE  UNCHANGED Lifecycle!vars
  BY <1>9, Invisible DEF SelfHeal, HealReturns, Announce, Goto, Return
<1>10. ASSUME NEW r \in Runs, ContextEnds(r) PROVE UNCHANGED Lifecycle!vars
  BY <1>10, Invisible DEF ContextEnds
<1>11. ASSUME NEW c \in Clients, Request(c) PROVE Visible \/ UNCHANGED Lifecycle!vars
  <2>1. ASSUME NEW r \in Runs, CancelReadsRun(c, r) PROVE UNCHANGED Lifecycle!vars
    BY <2>1, Invisible DEF CancelReadsRun
  <2>2. CASE CancelLooksUp(c)
    BY <2>2, Invisible DEF CancelLooksUp
  <2>3. CASE CancelSignals(c)
    BY <2>3, Invisible DEF CancelSignals
  <2>4. CASE CancelDirectly(c)
    <3>1. owed' = owed /\ req[c].run \in Runs
      BY <2>4 DEF CancelDirectly, owed, Requests, Idle
    <3>2. CASE UNCHANGED status
      BY <3>1, <3>2 DEF Lifecycle!vars
    <3>3. CASE SetStatus(req[c].run, "cancelled")
      BY <3>1, <3>3 DEF SetStatus, Lifecycle!Cancel, Lifecycle!Final, Lifecycle!vars
    <3> QED
      BY <2>4, <3>2, <3>3 DEF CancelDirectly
  <2>5. ASSUME NEW t \in Tasks, handleDeleteTask(c, t) PROVE UNCHANGED Lifecycle!vars
    BY <2>5, Invisible DEF handleDeleteTask
  <2>6. CASE DeleteTaskRuns(c)
    <3>1. owed' = owed
      BY <2>6 DEF DeleteTaskRuns, owed
    <3>2. CASE UNCHANGED status
      BY <3>1, <3>2 DEF Lifecycle!vars
    <3>3. CASE DeleteRows({r \in Runs : taskOf[r] = req[c].task})
      <4>1. req[c].task \in Tasks
        BY <2>6 DEF DeleteTaskRuns, Requests, Idle
      <4>2. \A r \in Runs : taskOf[r] = req[c].task => status[r] # "none"
        BY <4>1, ExecutorAssumption DEF StageInv
      <4>3. Lifecycle!Remove({r \in Runs : taskOf[r] = req[c].task})
        BY <3>1, <3>3, <4>2 DEF DeleteRows, Lifecycle!Remove
      <4> QED
        BY <4>3
    <3> QED
      BY <2>6, <3>2, <3>3 DEF DeleteTaskRuns
  <2>7. CASE DeleteTaskRow(c)
    BY <2>7, Invisible DEF DeleteTaskRow
  <2> QED
    BY <1>11, <2>1, <2>2, <2>3, <2>4, <2>5, <2>6, <2>7 DEF Request
<1>12. ASSUME NEW S \in SUBSET Runs, DeleteRuns(S) PROVE Visible
  <2>1. owed' = owed
    BY <1>12 DEF DeleteRuns, owed
  <2>2. Lifecycle!Remove(S)
    BY <1>12, <2>1 DEF DeleteRuns, GetRun, DeleteRows, Lifecycle!Remove
  <2> QED
    BY <2>2
<1>13. CASE Crash
  BY <1>13 DEF Crash, owed, Lifecycle!Abandon
<1>14. CASE Boot
  <2>1. owed = {} /\ owed' = {}
    BY <1>14 DEF Boot, owed, DownMeansEmpty
  <2> QED
    BY <1>14, <2>1 DEF Boot, CleanupStaleRuns, Lifecycle!Recover, Lifecycle!vars
<1>15. CASE UNCHANGED vars
  BY <1>15 DEF vars, Lifecycle!vars, owed
<1> QED
  BY <1>1, <1>2, <1>3, <1>4, <1>5, <1>6, <1>7, <1>8, <1>9, <1>10, <1>11, <1>12,
     <1>13, <1>14, <1>15 DEF Next, Trigger, Step

\* The task_runs table keeps the promises of RunLifecycle: one verdict per run,
\* no flip between completed and failed, no way back to running.
THEOREM ImplementsRunLifecycle == Spec => LifecycleSpec
<1>1. Init => Lifecycle!Init
  BY DEF Init, Lifecycle!Init, owed, Unsettled
<1>2. IInv /\ [Next]_vars => [Lifecycle!Next]_Lifecycle!vars
  BY RefinementStep
<1> QED
  BY <1>1, <1>2, InductiveInvariant, PTL DEF Spec, LifecycleSpec, Lifecycle!Spec

\* What a reader who has seen a verdict may count on: the run does not run again, and the
\* row does not exchange completed for failed.  Only a cancellation or a deletion follows.
VerdictStands(r) ==
  /\ status[r] \in {"completed", "failed"} => status'[r] \in {status[r], "cancelled", "deleted"}
  /\ status[r] = "cancelled" => status'[r] # "running"
  /\ status[r] = "deleted" => status'[r] = "deleted"

\* However calls of Execute, cancellations, deletions, failing writes and restarts
\* interleave, no step takes back a verdict that was read: it follows from the refinement.
THEOREM VerdictsStand == Spec => [][\A r \in Runs : VerdictStands(r)]_vars
<1> DEFINE Stand == \A r \in Runs : VerdictStands(r)
<1>1. ASSUME IInv, [Next]_vars PROVE Stand
  <2>1. [Lifecycle!Next]_Lifecycle!vars
    BY <1>1, RefinementStep
  <2>2. status \in [Runs -> {"none", "running", "deleted"} \cup Verdicts]
    BY <1>1 DEF IInv, TypeOK
  <2> SUFFICES ASSUME NEW r \in Runs PROVE VerdictStands(r)
    OBVIOUS
  <2> USE DEF VerdictStands, Lifecycle!Final
  <2>3. ASSUME NEW q \in Runs, Lifecycle!Open(q) \/ Lifecycle!Settle(q) PROVE VerdictStands(r)
    BY <2>2, <2>3 DEF Lifecycle!Open, Lifecycle!Settle
  <2>4. ASSUME NEW q \in Runs, Lifecycle!Forfeit(q) \/ Lifecycle!Cancel(q) PROVE VerdictStands(r)
    BY <2>2, <2>4 DEF Lifecycle!Forfeit, Lifecycle!Cancel
  <2>5. ASSUME NEW S \in SUBSET Runs, Lifecycle!Remove(S) PROVE VerdictStands(r)
    BY <2>5 DEF Lifecycle!Remove
  <2>6. CASE Lifecycle!Abandon \/ Lifecycle!Recover
    BY <2>6 DEF Lifecycle!Abandon, Lifecycle!Recover
  <2>7. CASE UNCHANGED Lifecycle!vars
    BY <2>7 DEF Lifecycle!vars
  <2> QED
    BY <2>1, <2>3, <2>4, <2>5, <2>6, <2>7 DEF Lifecycle!Next
<1> QED
  BY <1>1, InductiveInvariant, PTL DEF Spec
=============================================================================
