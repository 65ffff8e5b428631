--------------------------- MODULE RuntimeSession ---------------------------
(***************************************************************************)
(* qiskit_ibm_runtime/runtime_session.py (RuntimeSession) driven by caller *)
(* threads, on top of the fake runtime service (FakeRuntime).  write       *)
(* submits through service.run and records the session id; read waits on  *)
(* the stored job with RuntimeJob.result; close and __exit__ deactivate.  *)
(* service.run and RuntimeJob.result are not under src/: they are modelled *)
(* from spec 4.2 and 4.4 (submission with the session id, or none for the  *)
(* first job, whose own id then names the session; polling every wait      *)
(* seconds until a terminal status or the timeout).  The session is the    *)
(* one IBMEstimator/IBMSampler.__call__ returns, and a thread may also use  *)
(* its own __call__ (EstimatorSession/SamplerSession), write then read.     *)
(***************************************************************************)
EXTENDS FakeRuntime

CONSTANTS
  Threads,  \* the caller threads that use the session
  Timeout   \* a direct read(timeout=...): a number of wait intervals, or None

ASSUME SessionAssumption ==
  /\ Threads # {}
  /\ Timeout \in Nat \cup {None}

\* What a caller's last session call gave back: a decoded result or an error.
Outcomes == Results \cup {"idle", "ok", "SessionClosed", "AttributeError",
                          "JobTimeout", "JobFailed", "JobCancelled",
                          "info", "InfoAttributeError"}

\* Program counters of a caller thread inside write and read.
WritePcs == {"w_run", "w_sid"}
ReadPcs  == {"r_poll", "r_fetch"}

\* IBMEstimator/IBMSampler.__call__ pass the session's options as a dict.
SessionOptionsIsDict == TRUE

MaxWait == IF Timeout = None THEN 0 ELSE Timeout

VARIABLES
  active,   \* RuntimeSession._active
  sjob,     \* RuntimeSession._job (a job id, or None)
  sid,      \* RuntimeSession._session_id
  group,    \* the session id each submitted job was run with
  tpc,      \* each caller thread's program counter
  rjob,     \* the job a thread's read waits on
  elapsed,  \* wait intervals a thread's read has slept
  rto,      \* the timeout a thread's read was called with
  incall,   \* the thread is inside the session's __call__
  wjob,     \* the job the thread's last write submitted
  outcome   \* what each thread's last call returned or raised

sessionVars == <<active, sjob, sid, group, tpc, rjob, elapsed, rto, incall, wjob, outcome>>
vars == <<fakeVars, sessionVars>>

SessionTypeOK ==
  /\ TypeOK
  /\ active \in BOOLEAN
  /\ sjob \in JobIds \cup {None}
  /\ sid \in JobIds \cup {None}
  /\ group \in [JobIds -> JobIds \cup {None}]
  /\ tpc \in [Threads -> {"idle", "c_read"} \cup WritePcs \cup ReadPcs]
  /\ rjob \in [Threads -> JobIds \cup {None}]
  /\ elapsed \in [Threads -> 0..MaxWait]
  /\ rto \in [Threads -> {Timeout, None}]
  /\ incall \in [Threads -> BOOLEAN]
  /\ wjob \in [Threads -> JobIds \cup {None}]
  /\ outcome \in [Threads -> Outcomes]

\* RuntimeSession.__init__: active, with no job and no session id.
NewSession ==
  /\ active = TRUE
  /\ sjob = None
  /\ sid = None

(***************************************************************************)
(* IBMEstimator/IBMSampler.__call__: the session it returns, over a fake  *)
(* service with no job yet; its callers are idle.                         *)
(***************************************************************************)
Init ==
  /\ FakeInit
  /\ NewSession
  /\ group = [j \in JobIds |-> None]
  /\ tpc = [t \in Threads |-> "idle"]
  /\ rjob = [t \in Threads |-> None]
  /\ elapsed = [t \in Threads |-> 0]
  /\ rto = [t \in Threads |-> Timeout]
  /\ incall = [t \in Threads |-> FALSE]
  /\ wjob = [t \in Threads |-> None]
  /\ outcome = [t \in Threads |-> "idle"]

\* The thread leaves its call (and the __call__ it is in) with outcome o.
Return(t, o) ==
  /\ tpc' = [tpc EXCEPT ![t] = "idle"]
  /\ incall' = [incall EXCEPT ![t] = FALSE]
  /\ outcome' = [outcome EXCEPT ![t] = o]

----------------------------------------------------------------------------
(***************************************************************************)
(* write, entry: the _active_session check, called directly (c = FALSE)  *)
(* or as the first line of the session's __call__ (c = TRUE).  Callers    *)
(* serialise their writes (spec 5), and a write needs a job id left to    *)
(* hand out (the bound of the model).                                     *)
(***************************************************************************)
WriteEntry(t, c) ==
  /\ tpc[t] = "idle"
  /\ \A u \in Threads : tpc[u] \notin WritePcs
  /\ used # JobIds
  /\ \/ /\ active
        /\ tpc' = [tpc EXCEPT ![t] = "w_run"]
        /\ incall' = [incall EXCEPT ![t] = c]
        /\ UNCHANGED outcome
     \/ /\ ~active
        /\ Return(t, "SessionClosed")
  /\ UNCHANGED <<fakeVars, active, sjob, sid, group, rjob, elapsed, rto, wjob>>

WriteCall(t) == WriteEntry(t, FALSE)

\* EstimatorSession/SamplerSession.__call__: self.write(...), then self.read().
PrimitiveCall(t) == WriteEntry(t, TRUE)

(***************************************************************************)
(* write: self._job = service.run(..., session_id=self._session_id).  The *)
(* backend's program_run creates the job; a job run without a session id  *)
(* opens a session named by its own id.                                   *)
(***************************************************************************)
WriteRun(t) ==
  /\ tpc[t] = "w_run"
  /\ \E j \in JobIds :
       /\ ProgramRun(j)
       /\ group' = [group EXCEPT ![j] = IF sid = None THEN j ELSE sid]
       /\ sjob' = j
       /\ wjob' = [wjob EXCEPT ![t] = j]
  /\ tpc' = [tpc EXCEPT ![t] = "w_sid"]
  /\ UNCHANGED <<active, sid, rjob, elapsed, rto, incall, outcome>>

\* Mutant: _session_id is overwritten by every write.
WriteSetSidAlways(t) ==
  /\ tpc[t] = "w_sid"
  /\ sid' = sjob
  /\ \/ /\ ~incall[t]
        /\ Return(t, "ok")
     \/ /\ incall[t]
        /\ tpc' = [tpc EXCEPT ![t] = "c_read"]
        /\ UNCHANGED <<incall, outcome>>
  /\ UNCHANGED <<fakeVars, active, sjob, group, rjob, elapsed, rto, wjob>>

(***************************************************************************)
(* write: if self._session_id is None: self._session_id = self._job.job_id *)
(* A direct write returns; inside __call__ the thread goes on to read.    *)
(***************************************************************************)
WriteSetSid(t) ==
  /\ tpc[t] = "w_sid"
  /\ sid' = IF sid = None THEN sjob ELSE sid
  /\ \/ /\ ~incall[t]
        /\ Return(t, "ok")
     \/ /\ incall[t]
        /\ tpc' = [tpc EXCEPT ![t] = "c_read"]
        /\ UNCHANGED <<incall, outcome>>
  /\ UNCHANGED <<fakeVars, active, sjob, group, rjob, elapsed, rto, wjob>>

(***************************************************************************)
(* read, entry: the _active_session check, then self._job.result(...):    *)
(* with no job written yet self._job is None and the call raises.  A      *)
(* direct read passes Timeout; __call__'s self.read() passes none.        *)
(***************************************************************************)
ReadEntry(t) ==
  /\ \/ /\ ~active
        /\ Return(t, "SessionClosed")
        /\ UNCHANGED rjob
     \/ /\ active
        /\ sjob = None
        /\ Return(t, "AttributeError")
        /\ UNCHANGED rjob
     \/ /\ active
        /\ sjob # None
        /\ rjob' = [rjob EXCEPT ![t] = sjob]
        /\ tpc' = [tpc EXCEPT ![t] = "r_poll"]
        /\ UNCHANGED <<incall, outcome>>
  /\ elapsed' = [elapsed EXCEPT ![t] = 0]
  /\ rto' = [rto EXCEPT ![t] = IF tpc[t] = "c_read" THEN None ELSE Timeout]
  /\ UNCHANGED <<fakeVars, active, sjob, sid, group, wjob>>

ReadCall(t) == tpc[t] = "idle" /\ ReadEntry(t)

\* EstimatorSession/SamplerSession.__call__: raw_result = self.read()
CallRead(t) == tpc[t] = "c_read" /\ ReadEntry(t)

\* Mutant: the timeout is compared with > instead of >=.
TimedOutLate(t) == IF rto[t] = None THEN FALSE ELSE elapsed[t] > rto[t]

\* The wait loop's check: a timeout was given and it has elapsed.
TimedOut(t) == IF rto[t] = None THEN FALSE ELSE elapsed[t] >= rto[t]

\* Mutant: the wait loop takes FAILED for a status still in progress.
ReadPollMissFailed(t) ==
  LET s == Reported(rjob[t]) IN
  /\ tpc[t] = "r_poll"
  /\ \/ /\ s = "COMPLETED"
        /\ tpc' = [tpc EXCEPT ![t] = "r_fetch"]
        /\ UNCHANGED <<elapsed, incall, outcome>>
     \/ /\ s = "CANCELLED-RAN-TOO-LONG"
        /\ Return(t, "JobFailed")
        /\ UNCHANGED elapsed
     \/ /\ s = "CANCELLED"
        /\ Return(t, "JobCancelled")
        /\ UNCHANGED elapsed
     \/ /\ s \in Pending \cup {"FAILED"}
        /\ TimedOut(t)
        /\ Return(t, "JobTimeout")
        /\ UNCHANGED elapsed
     \/ /\ s \in Pending \cup {"FAILED"}
        /\ ~TimedOut(t)
        /\ elapsed' = [elapsed EXCEPT ![t] = IF rto[t] = None THEN 0 ELSE @ + 1]
        /\ UNCHANGED <<tpc, incall, outcome>>
  /\ UNCHANGED <<fakeVars, active, sjob, sid, group, rjob, rto, wjob>>

(***************************************************************************)
(* RuntimeJob.result, one round of its wait loop: read the status through  *)
(* job_get; a terminal status ends the wait (COMPLETED goes on to fetch   *)
(* the result, the others raise); otherwise the timeout is checked and    *)
(* the loop sleeps for one wait interval.                                 *)
(***************************************************************************)
ReadPoll(t) ==
  LET s == Reported(rjob[t]) IN
  /\ tpc[t] = "r_poll"
  /\ \/ /\ s = "COMPLETED"
        /\ tpc' = [tpc EXCEPT ![t] = "r_fetch"]
        /\ UNCHANGED <<elapsed, incall, outcome>>
     \/ /\ s \in {"FAILED", "CANCELLED-RAN-TOO-LONG"}
        /\ Return(t, "JobFailed")
        /\ UNCHANGED elapsed
     \/ /\ s = "CANCELLED"
        /\ Return(t, "JobCancelled")
        /\ UNCHANGED elapsed
     \/ /\ s \in Pending
        /\ TimedOut(t)
        /\ Return(t, "JobTimeout")
        /\ UNCHANGED elapsed
     \/ /\ s \in Pending
        /\ ~TimedOut(t)
        /\ elapsed' = [elapsed EXCEPT ![t] = IF rto[t] = None THEN 0 ELSE @ + 1]
        /\ UNCHANGED <<tpc, incall, outcome>>
  /\ UNCHANGED <<fakeVars, active, sjob, sid, group, rjob, rto, wjob>>

\* RuntimeJob.result: job_results, decoded (None stays None).
ReadFetch(t) ==
  /\ tpc[t] = "r_fetch"
  /\ Return(t, result[rjob[t]])
  /\ UNCHANGED <<fakeVars, active, sjob, sid, group, rjob, elapsed, rto, wjob>>

(***************************************************************************)
(* info(): self._options.backend_name, on the dict the front ends pass,   *)
(* raises AttributeError before the snapshot is built.                    *)
(***************************************************************************)
Info(t) ==
  /\ tpc[t] = "idle"
  /\ outcome' = [outcome EXCEPT ![t] = IF SessionOptionsIsDict THEN "InfoAttributeError"
                                                               ELSE "info"]
  /\ UNCHANGED <<fakeVars, active, sjob, sid, group, tpc, rjob, elapsed, rto, incall, wjob>>

\* close() and __exit__: the session is deactivated.
Close(t) ==
  /\ tpc[t] = "idle"
  /\ active' = FALSE
  /\ UNCHANGED <<fakeVars, sjob, sid, group, tpc, rjob, elapsed, rto, incall, wjob, outcome>>

(***************************************************************************)
(* RuntimeJob.cancel issued by a caller: the backend's job_cancel.        *)
(***************************************************************************)
CancelJob == \E j \in JobIds : JobCancel(j)

\* The steps a thread takes inside a call it has entered.
InCall(t) == WriteRun(t) \/ WriteSetSid(t) \/ CallRead(t) \/ ReadPoll(t) \/ ReadFetch(t)

Next ==
  \/ \E t \in Threads : \/ WriteCall(t) \/ PrimitiveCall(t) \/ ReadCall(t)
                       \/ Info(t) \/ Close(t) \/ InCall(t)
  \/ (FakeInternal \/ FakeSetup \/ CancelJob) /\ UNCHANGED sessionVars

Spec == Init /\ [][Next]_vars

FairSpec == Spec /\ FakeFairness /\ \A t \in Threads : WF_vars(InCall(t))

----------------------------------------------------------------------------
(***************************************************************************)
(* Properties.                                                             *)
(***************************************************************************)

(***************************************************************************)
(* Every job the session's writes submitted carries one session id, the   *)
(* id of the first of them, and the session's own _session_id, once set,  *)
(* is that id (spec 8: the jobs of a session share the first job's id).   *)
(***************************************************************************)
SessionGrouping ==
  /\ \A j \in used : group[j] \in used /\ group[group[j]] = group[j]
  /\ \A j, k \in used : group[j] = group[k]
  /\ sid # None => \A j \in used : group[j] = sid

(***************************************************************************)
(* Once the session is closed no job is submitted through it (spec 3:      *)
(* once active is false no further submissions may occur).               *)
(***************************************************************************)
NoSubmitAfterClose ==
  [][~active => used' = used]_vars

\* The payload a fake job of class c produces when it completes.
ProfilePayload(c) == IF c = "CustomResultRuntimeJob" THEN "bar" ELSE "foo"

(***************************************************************************)
(* A read that returns a value returns the payload its job's profile       *)
(* produced (spec 4.2: on COMPLETED result returns the decoded payload;   *)
(* 4.3: result fetch returns whatever payload the profile produced).      *)
(***************************************************************************)
ReadReturnsPayload ==
  \A t \in Threads :
    outcome[t] \in Results => outcome[t] = ProfilePayload(jobCls[rjob[t]])

(***************************************************************************)
(* A job whose progression task is over while job_get still reports it    *)
(* QUEUED or RUNNING (a CancelableRuntimeJob nobody cancelled): its       *)
(* status will not change again.                                          *)
(***************************************************************************)
Stranded(j) == Reported(j) \in Pending /\ fut[j] = "finished"

(***************************************************************************)
(* Every EstimatorSession/SamplerSession __call__ returns or raises,       *)
(* unless its read, which has no timeout, waits on a stranded job: the   *)
(* wait loop ends on every terminal status the backend can report.       *)
(***************************************************************************)
CallsTerminate ==
  \A t \in Threads :
    incall[t] ~> \/ ~incall[t]
                 \/ tpc[t] \in ReadPcs /\ Stranded(rjob[t])

(***************************************************************************)
(* The read of a __call__ waits on the job that call's own write          *)
(* submitted (spec 4.5: the single-call form does write and read and      *)
(* decodes that payload).                                                 *)
(***************************************************************************)
CallReadsOwnJob ==
  \A t \in Threads : incall[t] /\ tpc[t] \in ReadPcs => rjob[t] = wjob[t]

(***************************************************************************)
(* info() returns the session's snapshot and never raises (spec 4.4:      *)
(* info returns {backend, job_id?, job_status?}, a pure read).            *)
(***************************************************************************)
InfoAnswers ==
  \A t \in Threads : outcome[t] # "InfoAttributeError"
============================================================================
