---------------------------- MODULE RunLifecycle ----------------------------
(***************************************************************************)
(* What the task_runs table promises whoever reads it (the dashboard, the  *)
(* API, the next trigger of a task), abstracted from how Execute, the      *)
(* handlers and a restart interleave:                                      *)
(*   - a run is opened once and delivers at most one verdict of its own;   *)
(*   - completed and failed are never exchanged, and a finished or deleted *)
(*     run is never running again;                                         *)
(*   - only a request to cancel writes over a verdict, and only with       *)
(*     "cancelled"; a verdict still owed may in turn replace that.         *)
(***************************************************************************)
CONSTANT Runs

VARIABLES
  outcome,  \* run |-> what a reader of its row sees
  owed     \* runs whose executor has not delivered its verdict

vars == <<outcome, owed>>

Final == {"completed", "failed", "cancelled"}

Init ==
  /\ outcome = [r \in Runs |-> "none"]
  /\ owed = {}

Open(r) ==
  /\ outcome[r] = "none"
  /\ outcome' = [outcome EXCEPT ![r] = "running"]
  /\ owed' = owed \cup {r}

Settle(r) ==
  /\ r \in owed
  /\ outcome[r] \in {"running", "cancelled", "deleted"}
  /\ \E v \in Final :
       outcome' = [outcome EXCEPT ![r] = IF @ = "deleted" THEN @ ELSE v]
  /\ owed' = owed \ {r}

\* The verdict is never written.
Forfeit(r) ==
  /\ r \in owed
  /\ owed' = owed \ {r}
  /\ UNCHANGED outcome

Cancel(r) ==
  /\ outcome[r] \in Final \cup {"running"}
  /\ outcome' = [outcome EXCEPT ![r] = "cancelled"]
  /\ UNCHANGED owed

Remove(S) ==
  /\ \A r \in S : outcome[r] # "none"
  /\ outcome' = [r \in Runs |-> IF r \in S THEN "deleted" ELSE outcome[r]]
  /\ UNCHANGED owed

\* The process and every executor in it are gone.
Abandon ==
  /\ owed' = {}
  /\ UNCHANGED outcome

Recover ==
  /\ owed = {}
  /\ outcome' = [r \in Runs |-> IF outcome[r] = "running" THEN "failed" ELSE outcome[r]]
  /\ UNCHANGED owed

Next ==
  \/ \E r \in Runs : Open(r) \/ Settle(r) \/ Forfeit(r) \/ Cancel(r)
  \/ \E S \in SUBSET Runs : Remove(S)
  \/ Abandon
  \/ Recover

Spec == Init /\ [][Next]_vars
=============================================================================
