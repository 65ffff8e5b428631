# TLA+ models of qiskit-ibm-runtime's session, job and fake-backend core

This directory holds the formal models of the client-side core of
`qiskit_ibm_runtime`. It contains TLA+ modules, TLC configurations that
model-check them, and TLAPS proofs. `PROJECT.json` lists the components, the
runs, the mutants, the map from each definition to its source lines, the
findings, the hazards and the theorems.

## 1. The system and its parts

| Part | Source | State | Operations |
|---|---|---|---|
| Fake runtime service: jobs | `src/test/ibm/runtime/fake_runtime_client.py` 69-243, 303-385 | `_jobs`, `_job_classes` (FIFO), `_final_status`; per job `_status`, `_result`, `_cancelled`, `_future`; the class-wide `ThreadPoolExecutor` | `program_run`, the job constructor, `_auto_progress` of six job classes, `job_get`/`to_dict`, `jobs_get`, `job_results`, `job_cancel`, `job_delete`, `set_job_classes`, `set_final_status` |
| Fake runtime service: programs | same file, 27-66, 245-301, 325-329, 359-367 | `_programs` | create, update, get, delete, list, set visibility |
| RuntimeSession | `src/qiskit_ibm_runtime/runtime_session.py` | `_active`, `_job`, `_session_id`, `_options` | `write`, `read`, `info`, `close`, `__exit__`, the `_active_session` check |
| Primitive front ends | `ibm_estimator.py`, `ibm_sampler.py` | none of their own | `IBMEstimator/IBMSampler.__call__` build a session with a dict of options; `EstimatorSession/SamplerSession.__call__` is `write` then `read()` with no timeout |
| EstimatorOptions | `options/estimator_options.py` | optimization and resilience levels, dynamical decoupling, the simulator flag and coupling map | construction, assignment under `validate_assignment`, the field validators, the after-model validator |

The parts interact as follows.

- A front end creates a `RuntimeSession`.
- `write` calls `service.run`, which on the fake backend is `program_run`. The first job's id becomes the session id.
- `read` calls `RuntimeJob.result`. That method polls `job_get` every `wait` seconds until the status is terminal or the timeout passes, then fetches `job_results`.
- On the fake backend, each job's `_auto_progress` task runs on a shared thread pool. It assigns `_status` and then `_result` with sleeps in between. A poller sees these assignments only through its reads.

`RuntimeJob` and `service.run` are not under `src/`. Where the models need them (the read wait loop, and submission with a session id), they are modelled from spec 4.2 and 4.4 and marked `spec_modelled` in the map.

## 2. Modules

- **`JobLifecycle`** is the abstract lifecycle of spec 4.2 over a set of job ids: QUEUED → RUNNING → {COMPLETED, FAILED, CANCELLED - RAN TOO LONG}, and CANCELLED from QUEUED or RUNNING. Terminal states are absorbing. A job is ABSENT before it is submitted and DELETED after it is removed. A job may be created directly in any status, because `set_final_status` does that.
- **`FakeRuntime`** models the fake service's job side.
  - Variables:
    - `jobs`: the keys of `_jobs`.
    - `used`: every uuid handed out.
    - `jobCls`, `status`, `result`, `cancelled`: per-job attributes.
    - `fut`: the state of each job's `concurrent.futures` future.
    - `pc`: how far the job's task has got.
    - `workQueue`: the executor's queue.
    - `jobClasses`, `finalStatus`: the client's set-up.
  - `Script(c)` lists, in order, the assignments `_auto_progress` makes for class `c`. A subclass's assignments follow `super()._auto_progress()`. `TaskStep(j)` makes one such assignment. The `time.sleep` calls are abstracted away, so any interleaving is possible.
  - `WorkerStart` is a worker of the standard-library `ThreadPoolExecutor` declared at line 78 taking the head of the queue. It is limited by `Workers`, and a cancelled future is dropped.
  - `ProgramRun` is `program_run` together with the constructor.
    - Without a final status, it submits the task, sets `_result = None` and sets the status to `QUEUED`.
    - With a final status, it sets that status and gives a result (`"foo"`) only to COMPLETED. Other statuses leave `_result` unset (`NoAttr`).
  - `JobCancel` is `job_cancel` on a `CancelableRuntimeJob` that has a future. `future.cancel()` takes effect only while the future is pending, and `_cancelled` is set in every case. Every other cancel raises before changing anything.
  - `Reported(j)` is the status `job_get` returns. `JobsGet(p)` is the `pending` filter of `jobs_get`.
- **`RuntimeSession`** EXTENDS `FakeRuntime`. It adds a set of caller threads, each with a program counter.
  - `Init` is a front end's `__call__`: the fake client, and `NewSession` built with the dict options (`SessionOptionsIsDict`).
  - `WriteCall` (a direct `write`) and `PrimitiveCall` (a session `__call__`): the `_active_session` check (`WriteEntry`). `incall` records that the thread is inside `__call__`.
  - `WriteRun`: `service.run` with the current session id. The variable `group` records the session id each job was run with.
  - `WriteSetSid`: `if self._session_id is None`. Inside `__call__` the thread goes on to its read (`c_read`); `wjob` remembers the job its own write submitted.
  - `ReadCall` (a direct `read`, with the caller's `Timeout`) and `CallRead` (the read of `__call__`, with no timeout): the check, then `self._job.result` (`ReadEntry`). This raises AttributeError when no job has been written. `rto` is the timeout of the thread's current read.
  - `ReadPoll` and `ReadFetch`: one round of the wait loop, and the final fetch.
  - `Info`: `info()`, which evaluates `self._options.backend_name` on the dict and raises AttributeError.
  - `Close`: `close()` and `__exit__`.
  - `CancelJob`: a caller's cancel.

  Writes are serialized, because spec 5 makes callers responsible for that. Reads and closes run concurrently.
- **`EstimatorOptions`** models one `EstimatorOptions` object: `opts` holds its fields and `outcome` what the last call did.
  - `Construct` is the constructor: every field is type-checked and validated, then `_validate_options`; a failure raises and the caller keeps its old object.
  - `Assign(f, v)` is `options.f = v` under `validate_assignment`. The field's type and validator run first and a failure writes nothing. Otherwise the value is written, and only then does the after-model validator run; when it raises, the new value stays.
  - `AssignNestedCouplingMap` is `options.simulator.coupling_map = v`: only the nested `SimulatorOptions` validates it.
  - `AssignUnknown` is an unknown name, rejected by `extra="forbid"`.
  - `_is_simulator` is set by the backend-aware code in `OptionsV2` (not under `src/`). The model treats it as a field assigned with the same validation. If pydantic instead treats the underscore name as a plain attribute, the write-through finding still arises through `Assign("resilience_level", 3)` on a simulator.
- **`MC_EstimatorOptions`** gives the levels a caller may pass (-1, 0, 1, 3, 4: both sides of each boundary) and the decoupling strings (the three allowed and one other).
- **`EstimatorOptionsProofs`** holds the TLAPS proofs that the options stay well typed and the levels stay in range.
- **`MC_FakeRuntime`** and **`MC_RuntimeSession`** provide model values for job ids and threads, plus symmetry sets.
- **`FakeRuntimeProofs`** holds the TLAPS proofs about `FakeRuntime`, including its refinement of `JobLifecycle`.
- **`RuntimeSessionProofs`** holds the TLAPS proofs about `RuntimeSession` (type correctness and session grouping).

## 3. Runs

| Run | cfg | Checks | Bounds | Result |
|---|---|---|---|---|
| fake_safety | FakeRuntime.cfg | TypeOK, ResultOnlyWhenTerminal, JobLifecycleSpec (refinement of JobLifecycle) | 2 jobs, 1 worker, all 6 classes, final status None/COMPLETED/FAILED | pass, 178,521 states |
| fake_pending_list | FakePendingList.cfg | PendingListAccurate | 2 jobs, Cancelable | violation |
| fake_jobs_listed | FakeJobsListed.cfg | EveryJobListed | 2 jobs, FailedRanTooLong | violation |
| session_safety | SessionSafety.cfg | SessionGrouping | 3 jobs, 2 threads, no timeout, Cancelable | pass, 3.9M states, about 2 min |
| session_liveness | SessionLiveness.cfg | SessionTypeOK, CallsTerminate | 2 jobs, 1 thread, timeout 2, Cancelable/FailedRanTooLong/Timed, forced FAILED | pass, 514,216 states |
| session_call_own_job | SessionCallOwnJob.cfg | CallReadsOwnJob | 2 jobs, 2 threads | violation |
| session_info | SessionInfo.cfg | InfoAnswers | 1 thread | violation |
| options | Options.cfg | OptionsTypeOK, LevelsInRange | levels -1..4, four decoupling strings, one coupling map | pass, 512 states |
| options_rejected | OptionsRejected.cfg | RejectedLeavesUnchanged | same | violation |
| options_nested | OptionsNested.cfg | AcceptedChangeValid | same | violation |
| session_submit_after_close | SessionSubmitAfterClose.cfg | NoSubmitAfterClose | 2 jobs, 2 threads | violation |
| session_read_payload | SessionReadPayload.cfg | ReadReturnsPayload | 2 jobs, 1 thread, no timeout, Custom in the class set (the trace reads a BaseFakeRuntimeJob) | violation |

### Why these bounds are enough

- **Two jobs** cover a job that is created, progressing, cancelled or deleted while another is in any state.
- **Two jobs and one worker** in fake_safety let a cancelled future wait in the queue behind a running task while the other job is cancelled, deleted or forced.
- **One worker** is the tightest pool, where the queue actually waits.
- **Two threads** are the least that can race a close against a write, or a read against a write.
- **Three jobs in session_safety** let a third write check that the session id stays stable after it is set.
- **Timeouts of 1 and 2** wait intervals cover both a timeout reached at the first poll and one reached after a sleep.
- **No timeout in session_safety**: a timeout does not touch the session id, and without one the wait loop's clock stays at zero, which keeps the run near two minutes; the timeout paths are explored by session_liveness.
- **CallsTerminate excepts stranded jobs**: a CancelableRuntimeJob nobody cancels stays RUNNING after its task ends (`Stranded`), so a `__call__` (no timeout) on it blocks forever; that is the documented behaviour of an untimed read, not a defect. A call on any other job, including a forced FAILED one, must end.
- **Levels -1, 0, 1, 3, 4** sit on both sides of each end of 0..3; 3 is also the level the cross-field rule is about.
- **Class sets:** every job class appears in fake_safety. Each other run uses the classes its question needs, which keeps the runs within minutes.

### Mutants

Each property of a passing run is broken by a plausible bug in the code:

- the constructor without `or "QUEUED"`;
- a custom result assigned before `super()`;
- a task started even with a final status;
- a session id overwritten on every write;
- a `>` instead of `>=` in the timeout check;
- a wait loop that does not take FAILED as terminal (breaks CallsTerminate);
- an assignment that skips the field's type check;
- a resilience range checked against 4.

## 4. Fairness

`FakeFairness` is weak fairness on `WorkerStart` and on each `TaskStep(j)`. The code justifies it because the executor's worker threads and the sleeps in `_auto_progress` always make progress. It is used only by the session's `FairSpec`; fake_safety checks safety and the refinement, which need no fairness.

No property claims that every progression task ends or that a timed read returns. Every script is a finite sequence and the timed wait loop is modelled from the spec with a counter that rises to the timeout, so under this fairness both hold whatever `fake_runtime_client.py` or `runtime_session.py` do, and checking them would say nothing about the code.

`FairSpec` adds weak fairness on each thread's in-call steps (`InCall`): a caller thread that is inside `read` keeps polling. A thread inside `__call__` is inside these steps from its write to the end of its read, so the same fairness covers `CallsTerminate`. There is no fairness on entering calls, on close, on cancel or on the test set-up, because those are the caller's choices.

## 5. Findings

- **`jobs_get(pending=True)` lists a cancelled job.** The filter reads `_status` (line 346), but `job_get` reports CANCELLED (lines 180-181).
- **A job in `CANCELLED - RAN TOO LONG` is in neither listing** (line 339).
- **A write can submit on a closed session.** `_active_session` is a check-then-act with no lock (runtime_session.py 32-34). A `close()` between the check and `service.run` breaks spec 3.
- **A read can return the wrong result.** `_auto_progress` publishes COMPLETED (line 103) before it assigns the result (line 106). TLC's shortest trace submits a BaseFakeRuntimeJob (the class list is still empty), polls COMPLETED in that window and fetches `None` instead of `"foo"`. The same window in CustomResultRuntimeJob, which overwrites `"foo"` with `"bar"` (line 195), can also yield `"foo"` for a job whose profile produces `"bar"`.

- **A failed assignment leaves the invalid value in place** (estimator_options.py:129). `_validate_options` runs after pydantic has written the new value. Construct resilience 3 without a simulator, then set the simulator flag: the assignment raises, yet the object now holds resilience 3 on a simulator without a coupling map. Spec 4.1 says a failure leaves the tree unchanged.
- **Changing the nested coupling map skips the cross-field rule** (estimator_options.py:137). `options.simulator.coupling_map = Unset` is validated by `SimulatorOptions` alone, so an object that satisfied the rule is turned into one that breaks it.
- **`info()` always raises on front-end sessions** (runtime_session.py:101). It reads `self._options.backend_name`, but `IBMEstimator` and `IBMSampler` pass a dict.
- **A `__call__` can return another thread's result** (ibm_estimator.py:27). Its read uses `self._job`, which a later write by another thread replaces. Spec 5 makes callers serialize writes, but says nothing about a call whose write has ended and whose read has not begun.

## 6. Proofs

`FakeRuntimeProofs` proves two theorems, for every set of job ids, every pool size and every set of forced final statuses:

- `TypeCorrect == FakeSpec => []TypeOK`
- `ResultSafety == FakeSpec => []ResultOnlyWhenTerminal`

They rest only on `FakeRuntimeAssumption`: the pool has at least one worker, the forced statuses are statuses or None, None is distinct from every status and payload, and the test classes are job classes.

Neither property is inductive by itself. For example, a `TaskStep` is harmless only because the task's `pc` agrees with the job's status and result. The inductive invariant is `IInv == TypeOK /\ QueueInv /\ FreshInv /\ TaskInv /\ ForcedInv`:

- **QueueInv**: the executor queue holds distinct registered jobs whose futures are pending or cancelled.
- **FreshInv**: a job id not yet handed out has no future and a zero `pc`.
- **TaskInv**: a job with a future has `status`/`result` equal to entry `pc` of its class's tables `StatusTable`/`ResultTable`. A pending or cancelled future has `pc = 0`.
- **ForcedInv**: a job created in a final status has result `"foo"` only if it is COMPLETED, and `NoAttr` otherwise.

The table lemmas are proved per class:

- `TableStart`: entry 0 is QUEUED with no result.
- `TableStep`: one script assignment moves one entry.
- `TableTerminal`: a payload in the table comes with a terminal status.

One lemma per action shows that it preserves `IInv`. `IInvStep` combines them, and the two theorems follow by PTL. `IInv` was checked with TLC as an invariant (2 workers) before it was proved.

`EstimatorOptionsProofs` proves `LevelsAlwaysInRange == Spec => []LevelsInRange` for every set of levels, from `OptionsAssumption` (levels are integers, `Unset` is none of the values, the three decoupling literals are among the inputs). Its inductive invariant is `OInv == OptionsTypeOK /\ LevelsInRange`: range alone is not inductive, because `Assign` writes the value into a record and the proof needs the record's shape to know the other level is untouched. `FieldValidFacts` states what a passing value is; `AssignStep` and `ConstructStep` split on whether the validators pass (a rejection keeps `opts`, an acceptance writes only values the validators admit); the nested and unknown assignments touch no level.

`OptionsTypeCorrect == Spec => []OptionsTypeOK` follows from the same `OInv`.

**The refinement of `JobLifecycle`.** `FakeRuntimeProofs` also proves `LifecycleRefinement == FakeSpec => JobLifecycleSpec`, the property `fake_safety` checks. It is proved step by step under the refinement mapping `LC`: a registered job maps to the status `job_get` reports (`Reported`), a deleted one to `DELETED`, and an id not yet handed out to `ABSENT`. `FakeInit` maps to `LInit` (every id ABSENT). The step lemma `LCStep` shows that every `FakeNext` step is a `Lifecycle!LNext` step or leaves `LC` unchanged, with one lemma per action:

- `ProgramRunRefines`: `program_run` is `Submit`. The id is fresh, so it was ABSENT and not cancelled, and the job reports its first status.
- `TaskStepRefines`: a task's assignment is a stutter of `LC` or one `Advance`. It is a stutter when the job was deleted or is a cancelled `CancelableRuntimeJob`. Otherwise `TaskInv` gives the status as a table entry, and `TableEdge` (proved per class) shows that consecutive entries are equal or form a lifecycle edge.
- `JobCancelRefines`: `job_cancel` is a stutter when the job is already cancelled. Otherwise it is the edge to CANCELLED, because `CancelablePending` shows that a cancelable job with a future still reports QUEUED or RUNNING.
- `JobDeleteRefines`: `job_delete` is `Delete`.
- The executor and the test set-up leave `LC` unchanged.

The step lemma needs `RefInv == IInv /\ FreshCancel`, where `FreshCancel` says that an id not yet handed out is not marked cancelled. Without it, `ProgramRun` could not be shown to report the submitted status. `TerminalReportFinal == FakeSpec => [][TerminalStable]_LC` is a corollary of `LCStep`: the status reported for a finished job changes only to DELETED.

**The session.** `RuntimeSessionProofs` proves `SessionTypeCorrect == Spec => []SessionTypeOK` and `SessionGroupingSafety == Spec => []SessionGrouping` for every number of threads and jobs and every timeout. It rests on the assumptions of `RuntimeSession` and `FakeRuntime`. `SessionGrouping` is not inductive, because `write` runs `service.run` before it checks `_session_id`: in between, the registry holds a job that the session id does not yet name. The strengthening is `RInv == IInv /\ SessionTypeOK /\ SessInv`, where `SessInv` says:

- at most one thread is inside the lock-serialised `write`;
- the job that write submitted is in the registry, and a thread at the session-id check has one;
- a reading thread names a job id;
- a set session id is a submitted job that groups every submitted job;
- with no session id, the registry holds only the job of the one thread about to set it, grouped under itself.

`RInv` was checked with TLC (2 jobs, 2 threads, timeout 1; 3.2 million states) before it was proved. One lemma per action preserves `RInv`. The actions of the session that leave the write state alone share the frame lemma `SessInvFrame`. The fake service's own steps reuse `IInvStep`.

The following stay with TLC only:

- liveness (`CallsTerminate`), because it needs fairness and ENABLED, and this prover has no backend for them;
- the violation runs (`PendingListAccurate`, `EveryJobListed`, `CallReadsOwnJob`, `InfoAnswers`, `NoSubmitAfterClose`, `ReadReturnsPayload`, `RejectedLeavesUnchanged`, `AcceptedChangeValid`). TLC finds each one false, so there is nothing to prove; the findings in section 5 give the traces.

## 7. Not modelled, and why

- **The program registry.** It is independent of jobs and sessions, and is planned as its own module.
- **The nested option groups of `EstimatorOptions`** (transpilation, resilience, execution, twirling, experimental). Their classes are not under `src/`, and no rule of `EstimatorOptions` reads them.
- **Result decoding into `EstimatorResult`/`SamplerResult`.** It is formatting; `__call__` returns the payload its read returns.
- **jobs_get's `limit`/`skip`, program-id and hub/group/project filters.** They do not depend on status.
- **The race between `_future` and `_result` in the job constructor (lines 93-94).** The 0.5 s sleep before the first assignment makes it unreachable in practice.

## 8. Plan for the next steps

1. Add a `FakePrograms` registry module (duplicate listing on an empty search, `program_update`'s `or` semantics).
2. Prove `CallReadsOwnJob`'s corrected form (a read names the job its own write submitted) once the code serialises the write and the read of `__call__`.
