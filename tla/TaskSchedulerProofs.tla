------------------------ MODULE TaskSchedulerProofs -------------------------
(***************************************************************************)
(* Proofs about TaskScheduler for every set of tasks, owners and writers,  *)
(* every buffer of at least one event and every number of edits.           *)
(***************************************************************************)
EXTENDS TaskScheduler, TLAPS

-----------------------------------------------------------------------------
(* Types *)

\* What a schedule built from the table holds.
LEMMA ScheduledType ==
  ASSUME TypeOK
  PROVE  Scheduled(db) \in [Tasks -> Row \cup {NoRow}]
<1> SUFFICES ASSUME NEW t \in Tasks, db[t].kind = "row" PROVE db[t] \in Row
  BY DEF Scheduled
<1>1. db[t] \in Row \cup {NoRow, Deleted}
  BY DEF TypeOK
<1> QED
  BY <1>1 DEF NoRow, Deleted

\* An edit of a row is a row.
LEMMA EditedRow ==
  ASSUME NEW row \in Row, NEW b \in Bodies, NEW on \in BOOLEAN, NEW u \in Users
  PROVE  /\ [row EXCEPT !.body = b, !.enabled = on] \in Row
         /\ [row EXCEPT !.body = b] \in Row
         /\ [row EXCEPT !.enabled = on] \in Row
         /\ [row EXCEPT !.owner = u] \in Row
         /\ [row EXCEPT !.enabled = FALSE, !.owner = u] \in Row
  BY DEF Row

\* Whatever is of kind "row" in the table is a row.
LEMMA RowOfKind ==
  ASSUME TypeOK, NEW t \in Tasks, db[t].kind = "row"
  PROVE  db[t] \in Row
<1>1. db[t] \in Row \cup {NoRow, Deleted}
  BY DEF TypeOK
<1> QED
  BY <1>1 DEF NoRow, Deleted

\* The copies that writers make of a row are rows.
LEMMA CopiesAreRows ==
  ASSUME NEW row \in Row
  PROVE  /\ Patched(row) \subseteq Row
         /\ Toggled(row) \subseteq Row
<1>1. row.owner \in Users
  BY DEF Row
<1>2. ASSUME NEW b \in Bodies PROVE [row EXCEPT !.body = b] \in Row
  BY <1>1, EditedRow
<1>3. ASSUME NEW on \in BOOLEAN PROVE [row EXCEPT !.enabled = on] \in Row
  BY DEF Row
<1> QED
  BY <1>2, <1>3 DEF Patched, Toggled

\* An editor in the middle of a write or about to publish.
LEMMA EditorType ==
  ASSUME TypeOK, NEW e \in Editors
  PROVE  /\ editor[e].op = "write" => editor[e].task \in Tasks /\ editor[e].row \in Row
         /\ editor[e].op = "publish" => /\ editor[e].task \in Tasks
                                        /\ editor[e] = [op |-> "publish", task |-> editor[e].task]
  BY DEF TypeOK, Edits, Idle

LEMMA IdleEdit == Idle \in Edits
  BY DEF Edits

\* A writer that holds a copy keeps the types.
LEMMA GetTaskType ==
  ASSUME TypeOK, NEW e \in Editors, NEW t \in Tasks, NEW copies,
         db[t].kind = "row" => copies \subseteq Row, GetTask(e, t, copies)
  PROVE  TypeOK'
<1>1. PICK row \in Row :
        editor' = [editor EXCEPT ![e] = [op |-> "write", task |-> t, row |-> row]]
  BY DEF GetTask
<1>2. [op |-> "write", task |-> t, row |-> row] \in Edits
  BY DEF Edits
<1>3. editor' \in [Editors -> Edits]
  BY <1>1, <1>2 DEF TypeOK
<1> QED
  BY <1>3 DEF GetTask, TypeOK, scheduler

\* The read of the table types what it fixes.
LEMMA ReadTableType ==
  ASSUME TypeOK, ReadTable
  PROVE  /\ entries' \in [Tasks -> Row \cup {NoRow}]
         /\ unheard' \subseteq Tasks
         /\ blank' \in BOOLEAN
         /\ faults' \in Nat
<1>1. entries' \in [Tasks -> Row \cup {NoRow}]
  BY ScheduledType DEF ReadTable, TypeOK
<1>2. unheard' \subseteq Tasks /\ blank' \in BOOLEAN
  BY DEF ReadTable, TypeOK
<1>3. faults' \in Nat
  BY DEF ReadTable, ReadFails, TypeOK
<1> QED
  BY <1>1, <1>2, <1>3

\* No step of the scheduler, its goroutines or a writer leaves the types.
LEMMA TypeStep == TypeOK /\ [Next]_vars => TypeOK'
<1> USE SchedulerAssumption DEF scheduler
<1> SUFFICES ASSUME TypeOK, [Next]_vars PROVE TypeOK'
  OBVIOUS
<1>1. CASE Start
  <2>1. entries' \in [Tasks -> Row \cup {NoRow}]
    BY <1>1, ScheduledType DEF Start, TypeOK
  <2>2. faults' \in Nat
    BY <1>1 DEF Start, ReadFails, TypeOK
  <2> QED
    BY <1>1, <2>1, <2>2 DEF Start, TypeOK
<1>2. CASE Stop \/ Subscribe \/ ChangesExits \/ WakeExits
  BY <1>2 DEF Stop, Subscribe, ChangesExits, WakeExits, TypeOK
<1>3. CASE Restart
  <2>1. editor' \in [Editors -> Edits]
    BY <1>3, IdleEdit DEF Restart
  <2>2. entries' \in [Tasks -> Row \cup {NoRow}] /\ chan' \in 0..Capacity
    BY <1>3 DEF Restart
  <2> QED
    BY <1>3, <2>1, <2>2 DEF Restart, TypeOK
<1>4. CASE Receive
  BY <1>4 DEF Receive, TypeOK
<1>5. CASE ReloadBegins \/ WakeReloadBegins
  BY <1>5 DEF ReloadBegins, WakeReloadBegins, RemoveEntries, TypeOK
<1>6. CASE ReloadReads \/ WakeReloadReads
  BY <1>6, ReadTableType DEF ReloadReads, WakeReloadReads, TypeOK
<1>7. CASE ReloadReturns \/ WakeReloadReturns
  BY <1>7 DEF ReloadReturns, WakeReloadReturns, TypeOK
<1>8. ASSUME NEW e \in Editors, Write(e) PROVE TypeOK'
  <2>1. ASSUME NEW t \in Tasks, NEW row \in Row, InsertTask(e, t, row) PROVE TypeOK'
    BY <2>1 DEF InsertTask, Edit, TypeOK, Edits
  <2>2. ASSUME NEW t \in Tasks, handleCreateTask(e, t) \/ createTask(e, t) PROVE TypeOK'
    BY <2>1, <2>2 DEF handleCreateTask, createTask, NewTasks
  <2>3. ASSUME NEW t \in Tasks,
               handleUpdateTask(e, t) \/ updateTask(e, t) \/ toggleTask(e, t)
        PROVE  TypeOK'
    <3>1. db[t].kind = "row" =>
            /\ UNION {Toggled(row) : row \in Patched(db[t])} \subseteq Row
            /\ Patched(db[t]) \subseteq Row
            /\ Toggled(db[t]) \subseteq Row
      BY RowOfKind, CopiesAreRows
    <3> QED
      BY <2>3, <3>1, GetTaskType DEF handleUpdateTask, updateTask, toggleTask
  <2>4. ASSUME NEW t \in Tasks, handleDeleteTask(e, t) \/ deleteTask(e, t) PROVE TypeOK'
    BY <2>4 DEF handleDeleteTask, deleteTask, DeleteTask, Edit, TypeOK, Edits
  <2>5. CASE UpdateTask(e)
    <3>1. editor[e].task \in Tasks /\ editor[e].row \in Row
      BY <2>5, EditorType DEF UpdateTask
    <3>2. db[editor[e].task].kind = "row" =>
            [editor[e].row EXCEPT !.owner = db[editor[e].task].owner] \in Row
      BY <3>1, RowOfKind, EditedRow DEF Row
    <3> QED
      BY <2>5, <3>1, <3>2 DEF UpdateTask, Edit, TypeOK, Edits
  <2>6. CASE Publish(e)
    <3>1. editor[e].task \in Tasks
      BY <2>6, EditorType DEF Publish, Published
    <3> QED
      BY <2>6, <3>1 DEF Publish, Published, TypeOK, Edits
  <2> QED
    BY <1>8, <2>2, <2>3, <2>4, <2>5, <2>6 DEF Write
<1>9. ASSUME NEW u \in Users, DisableAndReassignTasks(u) PROVE TypeOK'
  <2>1. ASSUME NEW t \in Tasks, db[t].kind = "row"
        PROVE  [db[t] EXCEPT !.enabled = FALSE, !.owner = Admin] \in Row
    <3>1. db[t] \in Row
      BY <2>1, RowOfKind
    <3> QED
      BY <3>1 DEF Row
  <2>2. db' \in [Tasks -> Row \cup {NoRow, Deleted}]
    BY <1>9, <2>1 DEF DisableAndReassignTasks, TypeOK
  <2>3. unheard' \subseteq Tasks /\ edits' \in Nat
    <3>1. unheard' = unheard \cup {t \in Tasks : db[t].kind = "row" /\ db[t].owner = u}
      BY <1>9 DEF DisableAndReassignTasks
    <3>2. edits' = edits + 1
      BY <1>9 DEF DisableAndReassignTasks, Edit
    <3> QED
      BY <3>1, <3>2 DEF TypeOK
  <2>4. UNCHANGED <<phase, entries, changes, wake, chan, editor, blank, faults>>
    BY <1>9 DEF DisableAndReassignTasks
  <2> QED
    BY <2>2, <2>3, <2>4 DEF TypeOK
<1>10. CASE UNCHANGED vars
  BY <1>10 DEF vars, TypeOK
<1> QED
  BY <1>1, <1>2, <1>3, <1>4, <1>5, <1>6, <1>7, <1>8, <1>9, <1>10 DEF Next

\* The initial states have the types.
LEMMA TypeInit == Init => TypeOK
<1> SUFFICES ASSUME Init PROVE TypeOK
  OBVIOUS
<1> USE SchedulerAssumption DEF Init
<1>1. [kind : {"row"}, enabled : {TRUE}, owner : Users, body : CronBodies] \subseteq Row
  BY DEF Row
<1>2. db \in [Tasks -> Row \cup {NoRow, Deleted}]
  BY <1>1
<1>3. editor \in [Editors -> Edits]
  BY IdleEdit
<1>4. entries \in [Tasks -> Row \cup {NoRow}] /\ chan \in 0..Capacity
  OBVIOUS
<1> QED
  BY <1>2, <1>3, <1>4 DEF TypeOK

\* Every variable keeps its type; in particular the buffer of the subscription
\* never holds more events than it has room for.
THEOREM TypeCorrect == Spec => []TypeOK
<1>1. Init => TypeOK
  BY TypeInit
<1>2. TypeOK /\ [Next]_vars => TypeOK'
  BY TypeStep
<1> QED
  BY <1>1, <1>2, PTL DEF Spec

-----------------------------------------------------------------------------
(* No change is lost *)

\* A step that keeps the table, the schedule and what is known about both, and
\* takes no announced Reload back, keeps NoChangeLost.
LEMMA NothingForgotten ==
  ASSUME NoChangeLost, phase' = "running" => phase = "running",
         UNCHANGED <<db, entries>>, unheard \subseteq unheard', blank => blank',
         \A t \in Tasks : ReloadComing(t) => ReloadComing(t)' \/ t \in unheard'
  PROVE  NoChangeLost'
  BY DEF NoChangeLost, InSync, Scheduled

\* NoChangeLost is inductive.
LEMMA NoChangeLostStep == TypeOK /\ NoChangeLost /\ [Next]_vars => NoChangeLost'
<1> USE SchedulerAssumption DEF scheduler
<1> SUFFICES ASSUME TypeOK, NoChangeLost, [Next]_vars PROVE NoChangeLost'
  OBVIOUS
<1>1. CASE Start
  BY <1>1 DEF Start, NoChangeLost, InSync, Scheduled
<1>2. CASE Stop \/ ChangesExits \/ Restart
  BY <1>2 DEF Stop, ChangesExits, Restart, NoChangeLost
<1>3. CASE Subscribe \/ WakeExits
  BY <1>3, NothingForgotten DEF Subscribe, WakeExits, ReloadComing
<1>4. CASE Receive
  BY <1>4, NothingForgotten DEF Receive, ReloadComing
<1>5. CASE ReloadBegins \/ WakeReloadBegins
  BY <1>5 DEF ReloadBegins, WakeReloadBegins, NoChangeLost, ReloadComing
<1>6. CASE ReloadReads \/ WakeReloadReads
  BY <1>6 DEF ReloadReads, WakeReloadReads, ReadTable, NoChangeLost, InSync, Scheduled
<1>7. CASE ReloadReturns \/ WakeReloadReturns
  BY <1>7, NothingForgotten DEF ReloadReturns, WakeReloadReturns, ReloadComing
<1>8. ASSUME NEW e \in Editors, Write(e) PROVE NoChangeLost'
  <2>1. ASSUME NEW t \in Tasks, UNCHANGED scheduler, UNCHANGED unheard,
               \A x \in Tasks \ {t} : db'[x] = db[x], 
               editor' = [editor EXCEPT ![e] = [op |-> "publish", task |-> t]],
               editor[e].op # "publish"
        PROVE  NoChangeLost'
    <3>1. ReloadComing(t)'
      BY <2>1 DEF ReloadComing, TypeOK
    <3>2. ASSUME NEW x \in Tasks \ {t}
          PROVE  (InSync(x) <=> InSync(x)') /\ (ReloadComing(x) => ReloadComing(x)')
      BY <2>1, <3>2 DEF InSync, Scheduled, ReloadComing, TypeOK
    <3> QED
      BY <2>1, <3>1, <3>2 DEF NoChangeLost
  <2>2. ASSUME NEW t \in Tasks,
               \/ handleCreateTask(e, t) \/ createTask(e, t)
               \/ handleDeleteTask(e, t) \/ deleteTask(e, t)
        PROVE  NoChangeLost'
    BY <2>1, <2>2 DEF handleCreateTask, createTask, InsertTask, handleDeleteTask, deleteTask,
       DeleteTask, Idle, TypeOK
  <2>3. ASSUME NEW t \in Tasks,
               handleUpdateTask(e, t) \/ updateTask(e, t) \/ toggleTask(e, t)
        PROVE  NoChangeLost'
    <3>1. ASSUME NEW copies, GetTask(e, t, copies) PROVE NoChangeLost'
      BY <3>1, NothingForgotten DEF GetTask, ReloadComing, Idle, TypeOK
    <3> QED
      BY <2>3, <3>1 DEF handleUpdateTask, updateTask, toggleTask
  <2>4. CASE UpdateTask(e)
    BY <2>1, <2>4, EditorType DEF UpdateTask, TypeOK
  <2>5. CASE Publish(e)
    <3>1. ASSUME NEW t \in Tasks, ReloadComing(t) PROVE ReloadComing(t)' \/ t \in unheard'
      BY <2>5, <3>1 DEF Publish, Published, ReloadComing, TypeOK
    <3> QED
      BY <2>5, <3>1, NothingForgotten DEF Publish, Published
  <2> QED
    BY <1>8, <2>2, <2>3, <2>4, <2>5 DEF Write
<1>9. ASSUME NEW u \in Users, DisableAndReassignTasks(u) PROVE NoChangeLost'
  BY <1>9 DEF DisableAndReassignTasks, NoChangeLost, InSync, Scheduled, ReloadComing, TypeOK
<1>10. CASE UNCHANGED vars
  BY <1>10 DEF vars, NoChangeLost, InSync, Scheduled, ReloadComing
<1> QED
  BY <1>1, <1>2, <1>3, <1>4, <1>5, <1>6, <1>7, <1>8, <1>9, <1>10 DEF Next

\* With any number of tasks and writers and a buffer of any size, a dropped
\* TaskChanged event never leaves a heard change out of the schedule.
THEOREM DroppedEventsAreHarmless == Spec => []NoChangeLost
<1>1. Init => NoChangeLost
  BY DEF Init, NoChangeLost
<1>2. TypeOK /\ NoChangeLost /\ [Next]_vars => NoChangeLost'
  BY NoChangeLostStep
<1> QED
  BY <1>1, <1>2, TypeCorrect, PTL DEF Spec

-----------------------------------------------------------------------------
(* Ownership *)

\* A task the admin owns stays the admin's.
LEMMA OwnerStep ==
  ASSUME TypeOK, [Next]_vars, NEW t \in Tasks,
         db[t].kind = "row", db[t].owner = Admin, db'[t].kind = "row"
  PROVE  db'[t].owner = Admin
<1> USE SchedulerAssumption DEF scheduler
<1>1. ASSUME NEW e \in Editors, Write(e) PROVE db'[t].owner = Admin
  <2>1. ASSUME NEW x \in Tasks, handleCreateTask(e, x) \/ createTask(e, x)
        PROVE  db'[t].owner = Admin
    BY <2>1 DEF handleCreateTask, createTask, InsertTask, NoRow, TypeOK
  <2>2. ASSUME NEW x \in Tasks,
               \/ handleUpdateTask(e, x) \/ updateTask(e, x) \/ toggleTask(e, x)
               \/ handleDeleteTask(e, x) \/ deleteTask(e, x)
        PROVE  db'[t].owner = Admin
    <3>1. CASE handleUpdateTask(e, x) \/ updateTask(e, x) \/ toggleTask(e, x)
      BY <3>1 DEF handleUpdateTask, updateTask, toggleTask, GetTask
    <3>2. CASE handleDeleteTask(e, x) \/ deleteTask(e, x)
      BY <3>2 DEF handleDeleteTask, deleteTask, DeleteTask, Deleted, TypeOK
    <3> QED
      BY <2>2, <3>1, <3>2
  <2>3. CASE UpdateTask(e)
    <3>1. editor[e].row \in Row
      BY <2>3, EditorType DEF UpdateTask
    <3>2. [editor[e].row EXCEPT !.owner = Admin].owner = Admin
      BY <3>1 DEF Row
    <3> QED
      BY <2>3, <3>2 DEF UpdateTask, TypeOK
  <2>4. CASE Publish(e)
    BY <2>4 DEF Publish, Published
  <2> QED
    BY <1>1, <2>1, <2>2, <2>3, <2>4 DEF Write
<1>2. ASSUME NEW u \in Users, DisableAndReassignTasks(u) PROVE db'[t].owner = Admin
  <2>1. db[t] \in Row
    BY RowOfKind
  <2>2. [db[t] EXCEPT !.enabled = FALSE, !.owner = Admin].owner = Admin
    BY <2>1 DEF Row
  <2> QED
    BY <1>2, <2>2 DEF DisableAndReassignTasks
<1>3. CASE \/ Start \/ Stop \/ Restart \/ Subscribe \/ Receive
           \/ ReloadBegins \/ ReloadReads \/ ReloadReturns \/ ChangesExits
           \/ WakeReloadBegins \/ WakeReloadReads \/ WakeReloadReturns \/ WakeExits
           \/ UNCHANGED vars
  BY <1>3 DEF Start, Stop, Restart, Subscribe, Receive, ReloadBegins, ReloadReads,
     ReloadReturns, ChangesExits, WakeReloadBegins, WakeReloadReads, WakeReloadReturns,
     WakeExits, vars
<1> QED
  BY <1>1, <1>2, <1>3 DEF Next

\* No edit that overlapped the deletion of a user gives him a task back.
THEOREM OwnershipIsFinal == Spec => OwnerNeverReverts
<1>1. TypeOK /\ [Next]_vars =>
        [\A t \in Tasks : db[t].kind = "row" /\ db[t].owner = Admin /\ db'[t].kind = "row"
           => db'[t].owner = Admin]_vars
  BY OwnerStep
<1> QED
  BY <1>1, TypeCorrect, PTL DEF Spec, OwnerNeverReverts
=============================================================================
