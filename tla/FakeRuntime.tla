---------------------------- MODULE FakeRuntime ----------------------------
(***************************************************************************)
(* The simulated runtime service of test/ibm/runtime/fake_runtime_client.py*)
(* (BaseFakeRuntimeClient and the fake job classes): the job registry, the *)
(* queue of job classes consumed by program_run, the class-wide            *)
(* ThreadPoolExecutor on which every job's _auto_progress task runs, the   *)
(* task's status and result assignments one by one, cancellation and      *)
(* deletion.  time.sleep is abstracted: the task's steps interleave freely *)
(* with every other step.                                                  *)
(***************************************************************************)
EXTENDS Naturals, Sequences, FiniteSets

CONSTANTS
  JobIds,         \* the uuids program_run may hand out
  Workers,        \* max_workers of BaseFakeRuntimeJob._executor
  FinalStatuses,  \* the values a test passes to set_final_status
  TestClasses,    \* the job classes a test passes to set_job_classes
  None            \* Python's None

\* The status strings of the fake jobs; "CANCELLED - RAN TOO LONG" is written
\* with dashes for its spaces.
Pending  == {"QUEUED", "RUNNING"}
Terminal == {"COMPLETED", "FAILED", "CANCELLED", "CANCELLED-RAN-TOO-LONG"}
Statuses == Pending \cup Terminal

Classes == {"BaseFakeRuntimeJob", "FailedRuntimeJob", "FailedRanTooLongRuntimeJob",
            "CancelableRuntimeJob", "CustomResultRuntimeJob", "TimedRuntimeJob"}

ASSUME FakeRuntimeAssumption ==
  /\ Workers \in Nat \ {0}
  /\ FinalStatuses \subseteq Statuses \cup {None}
  /\ None \notin Statuses \cup JobIds \cup {"foo", "bar", "Kaboom!", "NoAttr", "keep"}
  /\ TestClasses \subseteq Classes

\* json.dumps("foo"), json.dumps(custom_result) and the failure message.
Payloads == {"foo", "bar", "Kaboom!"}
\* _result is never assigned when final_status is neither None nor COMPLETED.
NoAttr == "NoAttr"
Results == Payloads \cup {None, NoAttr}

\* States of a concurrent.futures.Future (absent: the job has none).
FutureStates == {"absent", "pending", "running", "finished", "cancelled"}

(***************************************************************************)
(* One assignment of an _auto_progress task: a new _status, or a new       *)
(* _result; Keep marks the attribute the step leaves alone.               *)
(***************************************************************************)
Keep == "keep"
St(s)  == [st |-> s, res |-> Keep]
Res(r) == [st |-> Keep, res |-> r]

\* Mutant: CustomResultRuntimeJob assigns its result before calling super().
ScriptResultFirst(c) ==
  IF c = "CustomResultRuntimeJob"
  THEN <<Res("bar"), St("QUEUED"), St("RUNNING"), St("COMPLETED"), Res("foo")>>
  ELSE <<St("QUEUED"), St("RUNNING"), St("COMPLETED"), Res("foo")>>

\* The assignments _auto_progress makes, in order, for each job class.
Script(c) ==
  CASE c = "BaseFakeRuntimeJob" ->
         <<St("QUEUED"), St("RUNNING"), St("COMPLETED"), Res("foo")>>
    [] c = "FailedRuntimeJob" ->
         <<St("QUEUED"), St("RUNNING"), St("FAILED"), Res("Kaboom!")>>
    [] c = "FailedRanTooLongRuntimeJob" ->
         <<St("QUEUED"), St("RUNNING"), St("CANCELLED-RAN-TOO-LONG"), Res("Kaboom!")>>
    [] c = "CancelableRuntimeJob" ->
         <<St("QUEUED"), St("RUNNING")>>
    [] c = "CustomResultRuntimeJob" ->
         <<St("QUEUED"), St("RUNNING"), St("COMPLETED"), Res("foo"), Res("bar")>>
    [] c = "TimedRuntimeJob" ->
         <<St("RUNNING"), St("COMPLETED"), Res("foo")>>

MaxScript == 5

VARIABLES
  jobs,        \* keys of BaseFakeRuntimeClient._jobs
  used,        \* every job id program_run has handed out
  jobCls,      \* the class each job was created with
  status,      \* each job's _status
  result,      \* each job's _result
  cancelled,   \* CancelableRuntimeJob._cancelled
  fut,         \* the state of each job's _future
  pc,          \* how many assignments of its script the task has made
  workQueue,   \* the executor's work queue
  jobClasses,  \* BaseFakeRuntimeClient._job_classes
  finalStatus  \* BaseFakeRuntimeClient._final_status

fakeVars == <<jobs, used, jobCls, status, result, cancelled, fut, pc,
              workQueue, jobClasses, finalStatus>>

TypeOK ==
  /\ jobs \subseteq used
  /\ used \subseteq JobIds
  /\ jobCls \in [JobIds -> Classes \cup {None}]
  /\ status \in [JobIds -> Statuses \cup {None}]
  /\ \A j \in used : jobCls[j] \in Classes /\ status[j] \in Statuses
  /\ result \in [JobIds -> Results]
  /\ cancelled \in [JobIds -> BOOLEAN]
  /\ fut \in [JobIds -> FutureStates]
  /\ pc \in [JobIds -> 0..MaxScript]
  /\ workQueue \in Seq(JobIds)
  /\ jobClasses \in Seq(Classes)
  /\ finalStatus \in FinalStatuses \cup {None}

FakeInit ==
  /\ jobs = {}
  /\ used = {}
  /\ jobCls = [j \in JobIds |-> None]
  /\ status = [j \in JobIds |-> None]
  /\ result = [j \in JobIds |-> None]
  /\ cancelled = [j \in JobIds |-> FALSE]
  /\ fut = [j \in JobIds |-> "absent"]
  /\ pc = [j \in JobIds |-> 0]
  /\ workQueue = <<>>
  /\ jobClasses = <<>>
  /\ finalStatus = None

(***************************************************************************)
(* The status a client reads through job_get (to_dict): a cancelled        *)
(* CancelableRuntimeJob reports CANCELLED whatever its _status is.         *)
(***************************************************************************)
Reported(j) ==
  IF jobCls[j] = "CancelableRuntimeJob" /\ cancelled[j] THEN "CANCELLED" ELSE status[j]

(***************************************************************************)
(* The jobs jobs_get(pending=p) lists: the filter reads _status, not the   *)
(* reported status, and knows three returned statuses only.                *)
(***************************************************************************)
JobsGet(p) ==
  LET wanted == IF p THEN {"QUEUED", "RUNNING"} ELSE {"COMPLETED", "FAILED", "CANCELLED"}
  IN {j \in jobs : status[j] \in wanted}

----------------------------------------------------------------------------
(* Test set-up: set_job_classes and set_final_status.                      *)

SetJobClasses(c) ==
  /\ jobClasses' = <<c>>
  /\ UNCHANGED <<jobs, used, jobCls, status, result, cancelled, fut, pc,
                 workQueue, finalStatus>>

SetFinalStatus(s) ==
  /\ finalStatus' = s
  /\ UNCHANGED <<jobs, used, jobCls, status, result, cancelled, fut, pc,
                 workQueue, jobClasses>>

\* Mutant: the constructor starts the progression task whatever final_status.
ProgramRunAlwaysAuto(j) ==
  LET c == IF jobClasses # <<>> THEN Head(jobClasses) ELSE "BaseFakeRuntimeJob" IN
  /\ j \in JobIds \ used
  /\ jobClasses' = IF jobClasses # <<>> THEN Tail(jobClasses) ELSE jobClasses
  /\ used' = used \cup {j}
  /\ jobs' = jobs \cup {j}
  /\ jobCls' = [jobCls EXCEPT ![j] = c]
  /\ status' = [status EXCEPT ![j] = IF finalStatus = None THEN "QUEUED" ELSE finalStatus]
  /\ result' = [result EXCEPT ![j] = IF finalStatus = "COMPLETED" THEN "foo" ELSE None]
  /\ fut' = [fut EXCEPT ![j] = "pending"]
  /\ workQueue' = Append(workQueue, j)
  /\ UNCHANGED <<cancelled, pc, finalStatus>>

\* Mutant: _status = final_status, without the "or 'QUEUED'" default.
ProgramRunNoDefault(j) ==
  LET c == IF jobClasses # <<>> THEN Head(jobClasses) ELSE "BaseFakeRuntimeJob"
      auto == finalStatus = None
  IN
  /\ j \in JobIds \ used
  /\ jobClasses' = IF jobClasses # <<>> THEN Tail(jobClasses) ELSE jobClasses
  /\ used' = used \cup {j}
  /\ jobs' = jobs \cup {j}
  /\ jobCls' = [jobCls EXCEPT ![j] = c]
  /\ status' = [status EXCEPT ![j] = finalStatus]
  /\ result' = [result EXCEPT ![j] = IF auto THEN None
                                     ELSE IF finalStatus = "COMPLETED" THEN "foo"
                                     ELSE NoAttr]
  /\ fut' = [fut EXCEPT ![j] = IF auto THEN "pending" ELSE "absent"]
  /\ workQueue' = IF auto THEN Append(workQueue, j) ELSE workQueue
  /\ UNCHANGED <<cancelled, pc, finalStatus>>

(***************************************************************************)
(* program_run: a fresh uuid, the next queued job class (or the base       *)
(* class), and the job's constructor.  Without a final status the         *)
(* constructor submits _auto_progress to the executor and sets _result to *)
(* None; with one the job starts in it and only COMPLETED gets a result.  *)
(***************************************************************************)
ProgramRun(j) ==
  LET c == IF jobClasses # <<>> THEN Head(jobClasses) ELSE "BaseFakeRuntimeJob"
      auto == finalStatus = None
  IN
  /\ j \in JobIds \ used
  /\ jobClasses' = IF jobClasses # <<>> THEN Tail(jobClasses) ELSE jobClasses
  /\ used' = used \cup {j}
  /\ jobs' = jobs \cup {j}
  /\ jobCls' = [jobCls EXCEPT ![j] = c]
  /\ status' = [status EXCEPT ![j] = IF auto THEN "QUEUED" ELSE finalStatus]
  /\ result' = [result EXCEPT ![j] = IF auto THEN None
                                     ELSE IF finalStatus = "COMPLETED" THEN "foo"
                                     ELSE NoAttr]
  /\ fut' = [fut EXCEPT ![j] = IF auto THEN "pending" ELSE "absent"]
  /\ workQueue' = IF auto THEN Append(workQueue, j) ELSE workQueue
  /\ UNCHANGED <<cancelled, pc, finalStatus>>

(***************************************************************************)
(* An idle worker of the executor takes the head of the work queue; a      *)
(* future cancelled while queued is dropped without running.              *)
(***************************************************************************)
WorkerStart ==
  LET j == Head(workQueue) IN
  /\ workQueue # <<>>
  /\ Cardinality({k \in JobIds : fut[k] = "running"}) < Workers
  /\ workQueue' = Tail(workQueue)
  /\ fut' = IF fut[j] = "cancelled" THEN fut ELSE [fut EXCEPT ![j] = "running"]
  /\ UNCHANGED <<jobs, used, jobCls, status, result, cancelled, pc, jobClasses, finalStatus>>

(***************************************************************************)
(* The running task makes its next assignment (after its sleep); the     *)
(* last one ends the task and frees the worker.                           *)
(***************************************************************************)
TaskStep(j) ==
  LET s == Script(jobCls[j])
      k == pc[j] + 1
  IN
  /\ fut[j] = "running"
  /\ pc[j] < Len(s)
  /\ pc' = [pc EXCEPT ![j] = k]
  /\ status' = IF s[k].st = Keep THEN status ELSE [status EXCEPT ![j] = s[k].st]
  /\ result' = IF s[k].res = Keep THEN result ELSE [result EXCEPT ![j] = s[k].res]
  /\ fut' = IF k = Len(s) THEN [fut EXCEPT ![j] = "finished"] ELSE fut
  /\ UNCHANGED <<jobs, used, jobCls, cancelled, workQueue, jobClasses, finalStatus>>

(***************************************************************************)
(* job_cancel on a CancelableRuntimeJob: future.cancel() succeeds only on  *)
(* a future still queued, and _cancelled is set either way.  Every other   *)
(* case raises before changing anything (unknown id: 404; no cancel        *)
(* method; no _future when the job was created in a final status).        *)
(***************************************************************************)
JobCancel(j) ==
  /\ j \in jobs
  /\ jobCls[j] = "CancelableRuntimeJob"
  /\ fut[j] # "absent"
  /\ fut' = IF fut[j] = "pending" THEN [fut EXCEPT ![j] = "cancelled"] ELSE fut
  /\ cancelled' = [cancelled EXCEPT ![j] = TRUE]
  /\ UNCHANGED <<jobs, used, jobCls, status, result, pc, workQueue, jobClasses, finalStatus>>

\* job_delete: the job leaves the registry; its task, if any, runs on.
JobDelete(j) ==
  /\ j \in jobs
  /\ jobs' = jobs \ {j}
  /\ UNCHANGED <<used, jobCls, status, result, cancelled, fut, pc, workQueue,
                 jobClasses, finalStatus>>

\* The steps the backend takes on its own.
FakeInternal == WorkerStart \/ \E j \in JobIds : TaskStep(j)

\* The steps a test's set-up takes.
FakeSetup == \/ \E c \in TestClasses : SetJobClasses(c)
             \/ \E s \in FinalStatuses : SetFinalStatus(s)

FakeNext ==
  \/ FakeInternal
  \/ FakeSetup
  \/ \E j \in JobIds : ProgramRun(j) \/ JobCancel(j) \/ JobDelete(j)

FakeFairness == WF_fakeVars(WorkerStart) /\ \A j \in JobIds : WF_fakeVars(TaskStep(j))

FakeSpec == FakeInit /\ [][FakeNext]_fakeVars

----------------------------------------------------------------------------
(***************************************************************************)
(* Properties.                                                             *)
(***************************************************************************)

(***************************************************************************)
(* A result is only ever visible for a job whose reported status is       *)
(* terminal: the _auto_progress tasks assign _result after the final       *)
(* _status, and the constructor only gives a result to a COMPLETED job.    *)
(***************************************************************************)
ResultOnlyWhenTerminal ==
  \A j \in jobs : result[j] \in Payloads => Reported(j) \in Terminal

(***************************************************************************)
(* The status every job reports through job_get follows the job lifecycle *)
(* (JobLifecycle): it never goes back, and terminal statuses are final,    *)
(* whatever the tasks, the executor, cancel and delete interleave.         *)
(***************************************************************************)
Lifecycle == INSTANCE JobLifecycle WITH
  lifecycle <- [j \in JobIds |-> IF j \in jobs THEN Reported(j)
                                 ELSE IF j \in used THEN "DELETED" ELSE "ABSENT"]

JobLifecycleSpec == Lifecycle!LSpec

(***************************************************************************)
(* jobs_get(pending=True) lists only jobs whose status (as job_get reports *)
(* it) is pending (spec 4.3: the pending-only filter).                     *)
(***************************************************************************)
PendingListAccurate ==
  \A j \in JobsGet(TRUE) : Reported(j) \in Pending

(***************************************************************************)
(* Every registered job is listed by jobs_get either as pending or as      *)
(* returned (spec 4.3: the filters split jobs into pending and terminal).  *)
(***************************************************************************)
EveryJobListed ==
  \A j \in jobs : j \in JobsGet(TRUE) \cup JobsGet(FALSE)
============================================================================
