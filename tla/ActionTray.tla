----------------------------- MODULE ActionTray -----------------------------
(***************************************************************************)
(* The progress tray (components/ui/ActionTray.tsx): a list of jobs, each  *)
(* a list of step statuses driven by the handle that `start' returns.  The *)
(* handle's methods are functional state updates; each one acts on the     *)
(* step that the closure's cursor named when the method was CALLED, so the *)
(* moment at which React applies the update does not matter and a method   *)
(* is one step here.  `dismiss' removes a job; later updates of it find no *)
(* job and change nothing.                                                 *)
(***************************************************************************)
EXTENDS Naturals, Sequences, SequencesExt

StepStatus == {"pending", "active", "done", "failed", "cancelled"}
MaxVisible == 3

\* A job as the tray stores it.  "cursor" is the variable of the handle's
\* closure, "state" summarises error and completedAt.
Job(len) == [id : Nat, steps : [1..len -> StepStatus], cursor : Nat,
             error : BOOLEAN, completed : BOOLEAN]

NewJob(id, len) ==
  [id |-> id, steps |-> [i \in 1..len |-> IF i = 1 THEN "active" ELSE "pending"],
   cursor |-> 1, error |-> FALSE, completed |-> FALSE]

Start(jobs, id, len) == Append(jobs, NewJob(id, len))

\* dismiss: the filter takes out the one job of this number, if it is still there.
Dismiss(jobs, id) ==
  LET at == {k \in DOMAIN jobs : jobs[k].id = id}
  IN IF at = {} THEN jobs ELSE RemoveAt(jobs, CHOOSE k \in at : TRUE)

Update(jobs, id, Mut(_)) ==
  [k \in DOMAIN jobs |-> IF jobs[k].id = id THEN Mut(jobs[k]) ELSE jobs[k]]

\* advance: the step at the new cursor becomes active, earlier ones are done
\* unless failStep marked them.
Advance(j) ==
  LET at == j.cursor + 1
  IN [j EXCEPT !.cursor = at,
        !.steps = [i \in DOMAIN @ |->
                     CASE i < at -> IF @[i] = "failed" THEN "failed" ELSE "done"
                       [] i = at -> "active"
                       [] i > at -> @[i]]]

\* failStep: the step fails, the job goes on.
FailStep(j) == [j EXCEPT !.steps = [i \in DOMAIN @ |-> IF i = j.cursor THEN "failed" ELSE @[i]]]

\* Mutant: every step is done.
FinishAll(j) == [j EXCEPT !.completed = TRUE, !.steps = [i \in DOMAIN @ |-> "done"]]
\* finish: every step that did not fail is done; the job completes.
Finish(j) == [j EXCEPT !.completed = TRUE,
                       !.steps = [i \in DOMAIN @ |-> IF @[i] = "failed" THEN "failed" ELSE "done"]]

\* fail: the step at the cursor fails, the later ones are cancelled.
Fail(j) == [j EXCEPT !.completed = TRUE, !.error = TRUE,
                     !.steps = [i \in DOMAIN @ |-> CASE i < j.cursor -> @[i]
                                                     [] i = j.cursor -> "failed"
                                                     [] i > j.cursor -> "cancelled"]]

\* TrayCard: what a card says of its job.
CardState(j) ==
  CASE j.error -> "failed"
    [] ~j.error /\ ~j.completed -> "running"
    [] OTHER -> IF \E i \in DOMAIN j.steps : j.steps[i] = "failed" THEN "partial" ELSE "done"

\* The provider renders the newest MAX_VISIBLE jobs.
Visible(jobs) == {jobs[k] : k \in {i \in DOMAIN jobs : i > Len(jobs) - MaxVisible}}

-----------------------------------------------------------------------------
(* What a card must look like, whatever calls brought it there.            *)

\* While a job runs exactly the step at its cursor is under way: those before
\* it are over, those after it have not begun.
RunningInOrder(j) ==
  ~j.completed =>
     \A i \in DOMAIN j.steps :
        /\ i < j.cursor => j.steps[i] \in {"done", "failed"}
        /\ i = j.cursor => j.steps[i] \in {"active", "failed"}
        /\ i > j.cursor => j.steps[i] = "pending"

\* A completed job leaves no step pending or active.
CompletedIsClosed(j) ==
  j.completed => \A i \in DOMAIN j.steps : j.steps[i] \notin {"pending", "active"}

\* Cards tell the truth about their steps.
JobWellFormed(j) == RunningInOrder(j) /\ CompletedIsClosed(j)
=============================================================================
