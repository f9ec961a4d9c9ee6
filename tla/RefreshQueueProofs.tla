------------------------- MODULE RefreshQueueProofs -------------------------
(***************************************************************************)
(* Proofs about RefreshQueue, for every set of crates, tools and feeders    *)
(* and every bound: the job table and its life cycle first, then the       *)
(* waiting side, where no tool call waits on a channel that is gone, none  *)
(* leaves the worker asleep on a job it could claim, the answer            *)
(* signal_completion gives a waiting call is true, and a finished crate    *)
(* job is followed by the two enrichment jobs of its crate.                *)
(***************************************************************************)
EXTENDS RefreshQueue, SequenceTheorems, TLAPS

\* A row written by SetJob keeps the table a table: same length, one row
\* changed (the UPDATE statements of db/indexing.rs).
LEMMA SetJobType ==
    ASSUME jobs \in Seq(Job), NEW j \in Ids, NEW row \in Job, SetJob(j, row)
    PROVE  /\ jobs' \in Seq(Job)
           /\ Len(jobs') = Len(jobs)
           /\ \A i \in Ids : jobs'[i] = IF i = j THEN row ELSE jobs[i]
  BY ExceptSeq DEF SetJob, Ids

\* A row inserted by enqueue_or_get_refresh_job_id gets the next id and leaves
\* the other rows alone.
LEMMA InsertType ==
    ASSUME jobs \in Seq(Job), NEW row \in Job, jobs' = Append(jobs, row)
    PROVE  /\ jobs' \in Seq(Job)
           /\ Len(jobs') = Len(jobs) + 1
           /\ \A i \in Ids : jobs'[i] = jobs[i]
           /\ jobs'[Len(jobs) + 1] = row
  BY AppendProperties DEF Ids

\* Reading the table: an id names a row.
LEMMA RowType ==
    ASSUME jobs \in Seq(Job), NEW j \in Ids
    PROVE  jobs[j] \in Job /\ Len(jobs) \in Nat
  BY ElementOfSeq, LenProperties DEF Ids

\* The constant records have their types.
LEMMA IdleTypes == IdleCall \in Call /\ IdleWorker \in Worker
  BY QueueAssumption DEF IdleCall, Call, IdleWorker, Worker, Scopes, CrateScopes, Triggers

\* A freshly inserted row has the type of a row.
LEMMA NewJobType ==
    ASSUME NEW c \in Crates, NEW s \in Scopes, NEW t \in Triggers
    PROVE  NewJob(c, s, t) \in Job
  BY QueueAssumption DEF NewJob, Job, Active, Settled

-----------------------------------------------------------------------------
(* The core of the inductive invariant: types, retry budget, worker's job. *)

\* Past the claim the worker's job id names a row, and until its result is
\* recorded that row is running, and was attempted when it failed.
WorkerJob ==
    /\ worker.pc \notin {"poll", "drained", "asleep", "backoff"} => worker.job \in Ids
    /\ Holding => Current.status = "running"

\* From the registration on, a client holds the id of a row for the crate and
\* scope it asked for.
Registered == {"register", "subscribe", "waiting"}
CallJob ==
    \A p \in Clients : call[p].pc \in Registered =>
        /\ call[p].job \in Ids
        /\ jobs[call[p].job].crate = call[p].crate
        /\ jobs[call[p].job].scope = call[p].scope

Core == TypeOK /\ AttemptBudget /\ WorkerJob /\ CallJob

\* Steps that leave the table alone keep the retry budget, and the worker's
\* row as long as the worker does not move.
LEMMA CoreSameTable ==
    ASSUME Core, UNCHANGED jobs, TypeOK', CallJob',
           \/ UNCHANGED worker
           \/ worker'.pc \in {"poll", "drained", "asleep", "backoff"}
           \/ worker'.job = worker.job /\ worker'.pc \notin {"exec", "record"}
              /\ worker.pc \notin {"poll", "drained", "asleep", "backoff"}
           \/ worker'.job = worker.job /\ Holding
    PROVE  Core'
  BY DEF Core, AttemptBudget, WorkerJob, Holding, Current, Ids

\* The core invariant holds when the process starts on an empty table.
LEMMA CoreInit == Init => Core
<1> SUFFICES ASSUME Init PROVE Core
  OBVIOUS
<1>1. jobs \in Seq(Job) /\ Len(jobs) = 0 /\ Ids = {}
  BY EmptySeq DEF Init, Ids
<1>2. TypeOK
  <2>1. Len(jobs) <= MaxJobs /\ faults \in 0..MaxFaults /\ crashes \in 0..MaxCrashes
    BY <1>1, QueueAssumption DEF Init
  <2>2. crateRow \in [Crates -> {"absent", "clean", "errored"}]
    BY DEF Init
  <2>3. call \in [Clients -> Call] /\ worker \in Worker
    BY IdleTypes DEF Init
  <2>4. waiters \subseteq Ids /\ permit \in BOOLEAN
    BY DEF Init
  <2> QED
    BY <1>1, <2>1, <2>2, <2>3, <2>4 DEF TypeOK
<1>3. AttemptBudget /\ WorkerJob /\ CallJob
  BY <1>1 DEF Init, AttemptBudget, WorkerJob, Holding, IdleWorker, CallJob,
              Registered, IdleCall
<1> QED
  BY <1>2, <1>3 DEF Core

\* A step of enqueue_or_get_refresh_job_id keeps the core invariant.
LEMMA CoreEnqueue ==
    ASSUME Core, NEW p \in Clients, Enqueue(p)
    PROVE  Core'
<1> USE DEF Core
<1>0. call[p] \in Call /\ call[p] = [call[p] EXCEPT !.pc = @]
  BY DEF TypeOK, Call
<1>1. \A w : \A j \in Nat : AfterEnqueue(p, j, w) \in Call
  BY <1>0, IdleTypes DEF AfterEnqueue, Call
<1>2. CASE SelectExisting(p)
  <2>1. PICK j \in Ids :
            /\ jobs[j].crate = call[p].crate
            /\ jobs[j].scope = call[p].scope
            /\ SetCall(p, AfterEnqueue(p, j, WakesOnExisting))
    BY <1>2 DEF SelectExisting, IsOldest, ActiveJobs
  <2>2. call' \in [Clients -> Call]
    BY <1>1, <2>1 DEF SetCall, TypeOK, Ids
  <2>3. TypeOK'
    BY <1>2, <2>2 DEF SelectExisting, TypeOK, Ids
  <2>4. CallJob'
    BY <1>0, <1>2, <2>1 DEF SelectExisting, SetCall, AfterEnqueue, IdleCall, CallJob,
                       Registered, Ids, Call, TypeOK
  <2> QED
    BY <1>2, <2>3, <2>4, CoreSameTable DEF SelectExisting
<1>3. CASE SelectNone(p)
  <2>1. call' \in [Clients -> Call]
    BY <1>0, <1>3 DEF SelectNone, SetCall, TypeOK, Call
  <2>2. TypeOK'
    BY <1>3, <2>1 DEF SelectNone, TypeOK, Ids
  <2>3. CallJob'
    BY <1>0, <1>3 DEF SelectNone, SetCall, CallJob, Registered, Ids, Call, TypeOK
  <2> QED
    BY <1>3, <2>2, <2>3, CoreSameTable DEF SelectNone
<1>4. CASE Insert(p)
  <2> DEFINE row == NewJob(call[p].crate, call[p].scope, call[p].trigger)
  <2>1. row \in Job /\ jobs \in Seq(Job) /\ Len(jobs) \in Nat
    BY <1>0, NewJobType, LenProperties DEF TypeOK, Call
  <2>2. /\ jobs' \in Seq(Job) /\ Len(jobs') = Len(jobs) + 1
        /\ \A i \in Ids : jobs'[i] = jobs[i]
        /\ jobs'[Len(jobs) + 1] = row
    BY <1>4, <2>1, InsertType DEF Insert
  <2>3. call' \in [Clients -> Call]
    BY <1>1, <1>4, <2>1 DEF Insert, SetCall, TypeOK
  <2>4. TypeOK'
    BY <1>4, <2>1, <2>2, <2>3, QueueAssumption DEF Insert, TableFull, TypeOK, Ids
  <2>5. AttemptBudget'
    BY <2>1, <2>2, QueueAssumption DEF AttemptBudget, Ids, NewJob
  <2>6. WorkerJob'
    BY <1>4, <2>1, <2>2 DEF Insert, WorkerJob, Holding, Current, Ids, TypeOK, Worker
  <2>7. CallJob'
    BY <1>0, <1>4, <2>1, <2>2 DEF Insert, SetCall, AfterEnqueue, IdleCall, CallJob,
                       Registered, Ids, Call, TypeOK, NewJob
  <2> QED
    BY <2>4, <2>5, <2>6, <2>7
<1>5. CASE EnqueueFails(p)
  <2>1. call' \in [Clients -> Call]
    BY <1>0, <1>5, IdleTypes DEF EnqueueFails, SetCall, TypeOK, Call
  <2>2. faults' \in 0..MaxFaults
    BY <1>5, QueueAssumption DEF EnqueueFails, DbFault, TypeOK
  <2>3. TypeOK'
    BY <1>5, <2>1, <2>2 DEF EnqueueFails, TypeOK, Ids
  <2>4. CallJob'
    BY <1>0, <1>5 DEF EnqueueFails, SetCall, IdleCall, CallJob, Registered, Ids, Call,
                 TypeOK
  <2> QED
    BY <1>5, <2>3, <2>4, CoreSameTable DEF EnqueueFails
<1> QED
  BY <1>2, <1>3, <1>4, <1>5 DEF Enqueue

\* The other steps of tools and feeders change neither the table nor the worker.
LEMMA CoreClient ==
    ASSUME Core, NEW p \in Clients,
           \/ \E c \in Crates, t \in ToolScopes : ToolBegins(p, c, t) \/ IndexCrates(p, c, t)
           \/ \E c \in Crates, k \in FeederKinds : FeederBegins(p, c, k)
           \/ FeederNotifies(p) \/ Register(p) \/ Subscribe(p) \/ Receive(p)
           \/ Timeout(p) \/ ToolReturns(p)
    PROVE  Core'
<1> USE DEF Core
<1>0. call[p] \in Call
  BY DEF TypeOK
<1>1. UNCHANGED <<jobs, worker, faults, crashes>>
  BY DEF ToolBegins, IndexCrates, FeederBegins, FeederNotifies, Register, Subscribe, Receive,
         Timeout, ToolReturns
<1>2. PICK n \in Call :
          /\ SetCall(p, n)
          /\ n.pc \in Registered => /\ call[p].pc \in Registered
                                    /\ n.job = call[p].job
                                    /\ n.crate = call[p].crate
                                    /\ n.scope = call[p].scope
  <2>1. CASE \E c \in Crates, t \in ToolScopes : ToolBegins(p, c, t) \/ IndexCrates(p, c, t)
    <3>1. PICK c \in Crates, t \in ToolScopes : ToolBegins(p, c, t) \/ IndexCrates(p, c, t)
      BY <2>1
    <3> DEFINE n == [IdleCall EXCEPT !.pc = "select", !.crate = c, !.scope = t]
    <3>2. n \in Call /\ n.pc = "select"
      BY IdleTypes, QueueAssumption DEF Call, Scopes, CrateScopes
    <3> QED
      BY <3>1, <3>2 DEF ToolBegins, IndexCrates, Registered
  <2>2. CASE \E c \in Crates, k \in FeederKinds : FeederBegins(p, c, k)
    <3>1. PICK c \in Crates, k \in FeederKinds : FeederBegins(p, c, k)
      BY <2>2
    <3> DEFINE n == [IdleCall EXCEPT !.pc = "select", !.crate = c,
                                     !.scope = FeederScope[k], !.trigger = k]
    <3>2. FeederScope[k] \in Scopes /\ k \in Triggers
      BY QueueAssumption DEF FeederScope, Scopes, CrateScopes, Triggers
    <3>3. n \in Call /\ n.pc = "select"
      BY <3>2, IdleTypes DEF Call
    <3> QED
      BY <3>1, <3>3 DEF FeederBegins, Registered
  <2>3. CASE FeederNotifies(p) \/ ToolReturns(p)
    BY <2>3, IdleTypes DEF FeederNotifies, ToolReturns, Registered, IdleCall
  <2>4. CASE Register(p)
    BY <1>0, <2>4 DEF Register, Registered, Call
  <2>5. CASE Subscribe(p)
    <3>1. CASE call[p].job \in waiters
      BY <1>0, <2>5, <3>1 DEF Subscribe, Registered, Call
    <3>2. CASE call[p].job \notin waiters
      <4> DEFINE n == [call[p] EXCEPT !.pc = "done", !.outcome = "Completed"]
      <4>1. n \in Call /\ n.pc \notin Registered
        BY <1>0 DEF Registered, Call
      <4> QED
        BY <2>5, <3>2, <4>1 DEF Subscribe
    <3> QED
      BY <3>1, <3>2
  <2>6. CASE Receive(p)
    BY <1>0, <2>6 DEF Receive, Registered, Call
  <2>7. CASE Timeout(p)
    <3> DEFINE n == [call[p] EXCEPT !.pc = "done", !.outcome = "TimedOut"]
    <3>1. n \in Call /\ n.pc \notin Registered
      BY <1>0 DEF Registered, Call
    <3> QED
      BY <2>7, <3>1 DEF Timeout
  <2> QED
    BY <2>1, <2>2, <2>3, <2>4, <2>5, <2>6, <2>7
<1>3. call' \in [Clients -> Call]
  BY <1>2 DEF SetCall, TypeOK
<1>4. permit' \in BOOLEAN
  BY DEF ToolBegins, IndexCrates, FeederBegins, FeederNotifies, Register, Subscribe, Receive,
         Timeout, ToolReturns, TypeOK
<1>5. waiters' \subseteq Ids
  BY DEF ToolBegins, IndexCrates, FeederBegins, FeederNotifies, Register, Subscribe, Receive,
         Timeout, ToolReturns, TypeOK, CallJob, Registered
<1>6. CallJob'
  BY <1>1, <1>2 DEF CallJob, SetCall, TypeOK, Ids
<1>7. crateRow' \in [Crates -> {"absent", "clean", "errored"}]
  <2>1. \A c \in Crates : Synced(c) \in [Crates -> {"absent", "clean", "errored"}]
    BY DEF Synced, TypeOK
  <2> QED
    BY <2>1 DEF ToolBegins, IndexCrates, FeederBegins, FeederNotifies, Register,
                Subscribe, Receive, Timeout, ToolReturns, TypeOK
<1> QED
  BY <1>1, <1>3, <1>4, <1>5, <1>6, <1>7, CoreSameTable DEF TypeOK, Ids

\* The worker's steps that only read or write its own program counter, the
\* crate row, the permit or the fault counter.
LEMMA CoreWorkerLocal ==
    ASSUME Core,
           \/ ClaimNone \/ FallAsleep \/ ClaimFails \/ Notified \/ PollIntervalElapses
           \/ ExecSucceeds \/ ExecFails \/ RecordFails \/ FlagCrate
           \/ EnrichSelect \/ EnrichFails
    PROVE  Core'
<1> USE DEF Core
<1>1. UNCHANGED <<jobs, waiters, call, crashes>>
  BY DEF ClaimNone, FallAsleep, ClaimFails, Notified, PollIntervalElapses, ExecSucceeds, ExecFails,
         RecordFails, FlagCrate, EnrichSelect, EnrichFails
<1>2. faults' \in 0..MaxFaults
  BY QueueAssumption
  DEF ClaimNone, FallAsleep, ClaimFails, Notified, PollIntervalElapses, ExecSucceeds, ExecFails,
      RecordFails, FlagCrate, EnrichSelect, EnrichFails, DbFault, TypeOK
<1>3. permit' \in BOOLEAN
  BY DEF ClaimNone, FallAsleep, ClaimFails, Notified, PollIntervalElapses, ExecSucceeds, ExecFails,
         RecordFails, FlagCrate, EnrichSelect, EnrichFails, TypeOK
<1>4. worker' \in Worker
  <2>1. AfterEnrich \in Worker
    BY IdleTypes DEF AfterEnrich, TypeOK, Worker
  <2> QED
    BY <2>1
    DEF ClaimNone, FallAsleep, ClaimFails, Notified, PollIntervalElapses, ExecSucceeds, ExecFails,
        RecordFails, FlagCrate, EnrichSelect, EnrichFails, TypeOK, Worker
<1>5. crateRow' \in [Crates -> {"absent", "clean", "errored"}]
  BY DEF ClaimNone, FallAsleep, ClaimFails, Notified, PollIntervalElapses, ExecSucceeds, ExecFails,
         RecordFails, FlagCrate, EnrichSelect, EnrichFails, Synced, TypeOK
<1>6. TypeOK'
  BY <1>1, <1>2, <1>3, <1>4, <1>5 DEF TypeOK, Ids
<1>7. CallJob'
  BY <1>1 DEF CallJob, Ids
<1>8. \/ worker'.pc \in {"poll", "drained", "asleep", "backoff"}
      \/ worker'.job = worker.job /\ worker'.pc \notin {"exec", "record"}
         /\ worker.pc \notin {"poll", "drained", "asleep", "backoff"}
      \/ worker'.job = worker.job /\ Holding
  <2>1. CASE ClaimNone \/ FallAsleep \/ ClaimFails \/ Notified \/ PollIntervalElapses
    BY <2>1 DEF ClaimNone, FallAsleep, ClaimFails, Notified, PollIntervalElapses, TypeOK, Worker
  <2>2. CASE ExecSucceeds \/ ExecFails \/ RecordFails
    BY <2>2 DEF ExecSucceeds, ExecFails, RecordFails, TypeOK, Worker, Holding
  <2>3. CASE FlagCrate
    BY <2>3 DEF FlagCrate, TypeOK, Worker
  <2>4. CASE EnrichSelect \/ EnrichFails
    <3>1. worker.pc \in {"enrich", "insert"}
      BY <2>4 DEF EnrichSelect, EnrichFails
    <3>2. \/ AfterEnrich.pc = "poll"
          \/ AfterEnrich.job = worker.job /\ AfterEnrich.pc = "enrich"
      BY DEF AfterEnrich, IdleWorker, TypeOK, Worker
    <3>3. worker' = AfterEnrich \/ worker' = [worker EXCEPT !.pc = "insert"]
      BY <2>4 DEF EnrichSelect, EnrichFails
    <3> QED
      BY <3>1, <3>2, <3>3 DEF TypeOK, Worker
  <2> QED
    BY <2>1, <2>2, <2>3, <2>4
<1> QED
  BY <1>1, <1>6, <1>7, <1>8, CoreSameTable

\* A step that writes one row, in a way that keeps the row's crate and scope
\* and the retry budget, keeps the core invariant.
LEMMA CoreSetJob ==
    ASSUME Core, NEW j \in Ids, NEW row \in Job, SetJob(j, row),
           row.crate = jobs[j].crate, row.scope = jobs[j].scope,
           row.status = "pending" => row.attempts < MaxAttempts,
           row.status \in {"running", "finished"} => row.attempts >= 1,
           row.status = "failed" => row.attempts = MaxAttempts,
           ~ row.due => row.attempts >= 1,
           UNCHANGED <<crateRow, waiters, permit, call, faults, crashes>>,
           worker' \in Worker, WorkerJob'
    PROVE  Core'
<1> USE DEF Core
<1>1. /\ jobs' \in Seq(Job) /\ Len(jobs') = Len(jobs)
      /\ \A i \in Ids : jobs'[i] = IF i = j THEN row ELSE jobs[i]
  BY SetJobType DEF TypeOK
<1>2. TypeOK'
  BY <1>1 DEF TypeOK, Ids
<1>3. AttemptBudget'
  BY <1>1 DEF AttemptBudget, Ids
<1>4. CallJob'
  BY <1>1 DEF CallJob, Ids
<1> QED
  BY <1>2, <1>3, <1>4

\* Claiming a row (claim_next_refresh_job) keeps the core invariant: the row
\* had an attempt left, and it becomes the running row of the worker.
LEMMA CoreClaim ==
    ASSUME Core, NEW j \in Ids, Claim(j)
    PROVE  Core'
<1> USE DEF Core
<1> DEFINE row == [jobs[j] EXCEPT !.status = "running", !.attempts = @ + 1]
<1>1. jobs[j] \in Job /\ jobs[j].status = "pending"
  BY RowType DEF Claim, NextClaims, Claimable, TypeOK
<1>2. jobs[j].attempts \in 0..MaxAttempts /\ jobs[j].attempts + 1 \in 1..MaxAttempts
  BY <1>1, QueueAssumption DEF Job, AttemptBudget
<1>3. /\ row.crate = jobs[j].crate /\ row.scope = jobs[j].scope
      /\ row.status = "running" /\ row.attempts = jobs[j].attempts + 1
  BY <1>1 DEF Job
<1>4. row \in Job
  <2>1. row = [jobs[j] EXCEPT !.status = "running", !.attempts = jobs[j].attempts + 1]
    BY <1>1 DEF Job
  <2>2. jobs[j].attempts + 1 \in 0..MaxAttempts /\ "running" \in Active \cup Settled
    BY <1>2 DEF Active
  <2> QED
    BY <1>1, <2>1, <2>2 DEF Job
<1>5. SetJob(j, row)
  BY DEF Claim
<1>6. worker' \in Worker /\ worker'.job = j
  <2>1. worker \in Worker /\ j \in Nat /\ worker' = [worker EXCEPT !.pc = "exec", !.job = j]
    BY DEF Claim, TypeOK, Ids
  <2> QED
    BY <2>1 DEF Worker
<1> HIDE DEF row
<1>7. jobs'[j] = row /\ Len(jobs') = Len(jobs)
  BY <1>4, <1>5, SetJobType DEF TypeOK
<1>8. WorkerJob'
  BY <1>3, <1>6, <1>7 DEF WorkerJob, Current, Holding, Ids
<1> QED
  BY <1>2, <1>3, <1>4, <1>5, <1>6, <1>8, CoreSetJob DEF Claim

\* Recording a result (mark_refresh_job_finished, or
\* mark_refresh_job_failed_or_requeued) keeps the core invariant.
LEMMA CoreRecord ==
    ASSUME Core, RecordFinished \/ RecordFailure
    PROVE  Core'
<1> USE DEF Core
<1> DEFINE j == worker.job
           row == IF worker.ok THEN [Current EXCEPT !.status = "finished"]
                  ELSE IF Current.attempts >= MaxAttempts
                       THEN [Current EXCEPT !.status = "failed"]
                       ELSE [Current EXCEPT !.status = "pending", !.due = FALSE]
<1>1. j \in Ids /\ Current \in Job /\ Current.status = "running" /\ Current.attempts >= 1
  BY RowType DEF RecordFinished, RecordFailure, WorkerJob, Holding, TypeOK, AttemptBudget,
                 Current
<1>2. row \in Job /\ row.attempts = Current.attempts
  BY <1>1 DEF Job, Active, Settled
<1>3. SetJob(j, row)
  BY DEF RecordFinished, RecordFailure
<1>4. /\ row.crate = Current.crate /\ row.scope = Current.scope
      /\ row.status = "pending" => row.attempts < MaxAttempts
      /\ row.status = "failed" => row.attempts = MaxAttempts
  BY <1>1, QueueAssumption DEF Job
<1>5. worker' \in Worker /\ worker'.pc \in {"signal", "flag"} /\ worker'.job = j
  BY DEF RecordFinished, RecordFailure, TypeOK, Worker
<1> HIDE DEF row
<1>6. WorkerJob'
  BY <1>1, <1>2, <1>3, <1>5, SetJobType DEF WorkerJob, Holding, Ids, TypeOK
<1> QED
  BY <1>1, <1>2, <1>3, <1>4, <1>5, <1>6, CoreSetJob DEF RecordFinished, RecordFailure, Current

\* So does the end of a retry delay.
LEMMA CoreRetry ==
    ASSUME Core, NEW j \in Ids, RetryDelayElapses(j)
    PROVE  Core'
<1> USE DEF Core
<1> DEFINE row == [jobs[j] EXCEPT !.due = TRUE]
<1>1. jobs[j] \in Job /\ jobs[j].status = "pending" /\ SetJob(j, row)
  BY RowType DEF RetryDelayElapses, TypeOK
<1>2. /\ row \in Job /\ row.attempts = jobs[j].attempts /\ row.status = jobs[j].status
      /\ row.crate = jobs[j].crate /\ row.scope = jobs[j].scope /\ row.due
  BY <1>1 DEF Job
<1>3. row.status = "pending" /\ row.attempts < MaxAttempts
  BY <1>1, <1>2 DEF AttemptBudget
<1>4. worker' \in Worker
  BY DEF RetryDelayElapses, TypeOK
<1> HIDE DEF row
<1>5. WorkerJob'
  BY <1>1, <1>2, SetJobType DEF RetryDelayElapses, WorkerJob, Holding, Current, Ids, TypeOK
<1> QED
  BY <1>1, <1>2, <1>3, <1>4, <1>5, CoreSetJob DEF RetryDelayElapses

\* So does the insertion of an enrichment row by the worker.
LEMMA CoreEnrichInsert ==
    ASSUME Core, EnrichInsert
    PROVE  Core'
<1> USE DEF Core
<1> DEFINE row == NewJob(Current.crate, worker.scope, "proactive_enrich")
<1>1. worker \in Worker /\ worker.job \in Ids /\ Current \in Job /\ Len(jobs) \in Nat
  BY RowType DEF EnrichInsert, WorkerJob, TypeOK, Current
<1>2. row \in Job
  BY <1>1, NewJobType DEF Job, Worker, Scopes, Triggers
<1>3. /\ jobs' \in Seq(Job) /\ Len(jobs') = Len(jobs) + 1
      /\ \A i \in Ids : jobs'[i] = jobs[i]
      /\ jobs'[Len(jobs) + 1] = row
  BY <1>2, InsertType DEF EnrichInsert, TypeOK
<1>4. /\ AfterEnrich \in Worker
      /\ \/ AfterEnrich.pc = "poll"
         \/ AfterEnrich.job = worker.job /\ AfterEnrich.pc = "enrich"
  BY <1>1, IdleTypes DEF AfterEnrich, IdleWorker, Worker
<1>5. TypeOK'
  BY <1>1, <1>3, <1>4, QueueAssumption DEF EnrichInsert, TableFull, TypeOK, Ids
<1>6. AttemptBudget'
  BY <1>1, <1>3, QueueAssumption DEF AttemptBudget, Ids, NewJob
<1>7. WorkerJob'
  BY <1>1, <1>3, <1>4 DEF EnrichInsert, WorkerJob, Holding, Ids
<1>8. CallJob'
  BY <1>1, <1>3 DEF EnrichInsert, CallJob, Ids
<1> QED
  BY <1>5, <1>6, <1>7, <1>8

\* What signal_completion does to a call.
SignalTo(p) == IF worker.job \in waiters /\ p \in Subscribers(worker.job)
               THEN [call[p] EXCEPT !.outcome = IF worker.ok THEN "Completed" ELSE "Failed"]
               ELSE call[p]

\* signal_completion changes nothing of a call but its outcome.
LEMMA SignalCalls ==
    ASSUME Core, Signal
    PROVE  \A p \in Clients :
               /\ call'[p] = SignalTo(p)
               /\ call'[p] \in Call
               /\ call'[p].pc = call[p].pc /\ call'[p].job = call[p].job
               /\ call'[p].crate = call[p].crate /\ call'[p].scope = call[p].scope
<1> SUFFICES ASSUME NEW p \in Clients
             PROVE  /\ call'[p] = SignalTo(p)
                    /\ call'[p] \in Call
                    /\ call'[p].pc = call[p].pc /\ call'[p].job = call[p].job
                    /\ call'[p].crate = call[p].crate /\ call'[p].scope = call[p].scope
  OBVIOUS
<1>1. call'[p] = SignalTo(p)
  BY DEF Signal, SignalTo
<1>2. call[p] \in Call
  BY DEF Core, TypeOK
<1> QED
  BY <1>1, <1>2 DEF SignalTo, Call

\* signal_completion keeps the core invariant.
LEMMA CoreSignal ==
    ASSUME Core, Signal
    PROVE  Core'
<1> USE DEF Core
<1>1. call' \in [Clients -> Call]
  BY SignalCalls DEF Signal
<1>2. /\ worker' \in Worker
      /\ \/ worker'.pc = "poll"
         \/ worker'.job = worker.job /\ worker'.pc = "enrich"
  BY IdleTypes DEF Signal, TypeOK, Worker, IdleWorker
<1>3. TypeOK'
  BY <1>1, <1>2 DEF Signal, TypeOK, Ids
<1>4. CallJob'
  BY SignalCalls DEF Signal, CallJob, Ids
<1> QED
  BY <1>2, <1>3, <1>4, CoreSameTable DEF Signal

\* A restart keeps the core invariant: the rows survive it as they are.
LEMMA CoreCrash ==
    ASSUME Core, Crash
    PROVE  Core'
<1> USE DEF Core
<1>1. TypeOK'
  <2>1. call' \in [Clients -> Call] /\ worker' \in Worker
    BY IdleTypes DEF Crash
  <2>2. crashes' \in 0..MaxCrashes
    BY QueueAssumption DEF Crash, TypeOK
  <2>3. waiters' \subseteq Ids' /\ permit' \in BOOLEAN
    BY DEF Crash
  <2> QED
    BY <2>1, <2>2, <2>3 DEF Crash, TypeOK, Ids
<1>2. CallJob'
  BY DEF Crash, CallJob, Registered, IdleCall
<1> QED
  BY <1>1, <1>2, CoreSameTable DEF Crash, IdleWorker

\* Every step keeps the core invariant.
LEMMA CoreStep == Core /\ [Next]_vars => Core'
<1> SUFFICES ASSUME Core, [Next]_vars PROVE Core'
  OBVIOUS
<1>1. ASSUME NEW t \in Tools,
             \/ \E c \in Crates, s \in ToolScopes :
                    ToolBegins(t, c, s) \/ IndexCrates(t, c, s)
             \/ ToolStep(t)
             \/ Timeout(t)
      PROVE  Core'
  BY <1>1, CoreEnqueue, CoreClient DEF ToolStep, Clients
<1>2. ASSUME NEW f \in Feeders,
             \/ \E c \in Crates, k \in FeederKinds : FeederBegins(f, c, k)
             \/ FeederStep(f)
      PROVE  Core'
  BY <1>2, CoreEnqueue, CoreClient DEF FeederStep, Clients
<1>3. CASE WorkerStep
  BY <1>3, CoreClaim, CoreRecord, CoreWorkerLocal, CoreEnrichInsert, CoreSignal
  DEF WorkerStep
<1>4. CASE UNCHANGED vars
  BY <1>4 DEF vars, Core, TypeOK, AttemptBudget, WorkerJob, CallJob, Holding, Current, Ids
<1> QED
  BY <1>1, <1>2, <1>3, <1>4, CoreRetry, CoreCrash DEF Next

\* In every reachable state the variables keep their types, the retry budget
\* holds and the worker's job is the row it claimed.
THEOREM CoreInvariant == Spec => []Core
<1>1. Init => Core
  BY CoreInit
<1>2. Core /\ [Next]_vars => Core'
  BY CoreStep
<1> QED
  BY <1>1, <1>2, PTL DEF Spec

\* Type correctness of the refresh queue.
THEOREM TypeCorrect == Spec => []TypeOK
<1>1. Core => TypeOK
  BY DEF Core
<1> QED
  BY <1>1, CoreInvariant, PTL

\* No row is attempted beyond MAX_ATTEMPTS and none is given up before.
THEOREM RetryBudget == Spec => []AttemptBudget
<1>1. Core => AttemptBudget
  BY DEF Core
<1> QED
  BY <1>1, CoreInvariant, PTL

-----------------------------------------------------------------------------
(* How one step changes the table. *)

\* A pending row without attempts is appended (the INSERT).
RowInserted == \E row \in Job : /\ jobs' = Append(jobs, row)
                                /\ row.status = "pending"
                                /\ row.attempts = 0

\* The moves of one row that the statements of db/indexing.rs make.
RowMoved(j, row) ==
    /\ row.crate = jobs[j].crate
    /\ row.scope = jobs[j].scope
    /\ \/ /\ jobs[j].status = "pending" /\ row.status = "running"
          /\ jobs[j].attempts < MaxAttempts
          /\ row.attempts = jobs[j].attempts + 1
       \/ /\ jobs[j].status = "running" /\ row.status = "finished"
          /\ row.attempts = jobs[j].attempts
       \/ /\ jobs[j].status = "running" /\ row.status = "failed"
          /\ row.attempts = jobs[j].attempts
          /\ jobs[j].attempts = MaxAttempts
       \/ /\ jobs[j].status = "running" /\ row.status = "pending"
          /\ row.attempts = jobs[j].attempts
          /\ jobs[j].attempts < MaxAttempts
       \/ /\ jobs[j].status = "pending" /\ row.status = "pending"
          /\ row.attempts = jobs[j].attempts

RowUpdated == \E j \in Ids : \E row \in Job : SetJob(j, row) /\ RowMoved(j, row)

\* A claim moves one row from pending to running.
LEMMA ClaimMoves ==
    ASSUME Core, NEW j \in Ids, Claim(j)
    PROVE  RowUpdated
<1> DEFINE row == [jobs[j] EXCEPT !.status = "running", !.attempts = @ + 1]
<1>1. jobs[j] \in Job /\ jobs[j].status = "pending" /\ jobs[j].attempts < MaxAttempts
  BY RowType DEF Core, Claim, NextClaims, Claimable, TypeOK, AttemptBudget
<1>2. jobs[j].attempts + 1 \in 0..MaxAttempts /\ "running" \in Active \cup Settled
  BY <1>1, QueueAssumption DEF Job, Active
<1>3. row = [jobs[j] EXCEPT !.status = "running", !.attempts = jobs[j].attempts + 1]
  BY <1>1 DEF Job
<1>4. row \in Job
  BY <1>1, <1>2, <1>3 DEF Job
<1>5. RowMoved(j, row) /\ SetJob(j, row)
  BY <1>1 DEF RowMoved, Claim, Job
<1> QED
  BY <1>4, <1>5 DEF RowUpdated

\* A recorded result moves one running row.
LEMMA RecordMoves ==
    ASSUME Core, RecordFinished \/ RecordFailure
    PROVE  /\ RowUpdated
           /\ \E row \in Job : SetJob(worker.job, row) /\ row.status # "running"
                               /\ (worker.ok => row.status = "finished")
                               /\ row.attempts = Current.attempts
<1> DEFINE j == worker.job
           row == IF worker.ok THEN [Current EXCEPT !.status = "finished"]
                  ELSE IF Current.attempts >= MaxAttempts
                       THEN [Current EXCEPT !.status = "failed"]
                       ELSE [Current EXCEPT !.status = "pending", !.due = FALSE]
<1>1. j \in Ids /\ Current \in Job /\ Current.status = "running"
  BY RowType DEF Core, RecordFinished, RecordFailure, WorkerJob, Holding, TypeOK, Current
<1>2. row \in Job /\ SetJob(j, row)
  BY <1>1 DEF RecordFinished, RecordFailure, Job, Active, Settled
<1>3. RowMoved(j, row) /\ row.status # "running" /\ row.attempts = Current.attempts
  BY <1>1, QueueAssumption DEF RowMoved, Current, Job
<1>4. worker.ok => row.status = "finished"
  BY <1>1 DEF Job
<1> QED
  BY <1>1, <1>2, <1>3, <1>4 DEF RowUpdated

\* The end of a retry delay changes neither status nor attempts.
LEMMA RetryMoves ==
    ASSUME Core, NEW j \in Ids, RetryDelayElapses(j)
    PROVE  RowUpdated
<1> DEFINE row == [jobs[j] EXCEPT !.due = TRUE]
<1>1. jobs[j] \in Job /\ jobs[j].status = "pending" /\ SetJob(j, row)
  BY RowType DEF Core, RetryDelayElapses, TypeOK
<1>2. row \in Job /\ RowMoved(j, row)
  BY <1>1 DEF RowMoved, Job
<1> QED
  BY <1>1, <1>2 DEF RowUpdated

\* An insertion by a client or by the worker appends a fresh pending row.
LEMMA InsertMoves ==
    ASSUME Core, EnrichInsert \/ \E p \in Clients : Insert(p)
    PROVE  RowInserted
<1>1. CASE EnrichInsert
  <2>1. worker \in Worker /\ Current \in Job
    BY <1>1, RowType DEF EnrichInsert, Core, WorkerJob, TypeOK, Current
  <2>2. NewJob(Current.crate, worker.scope, "proactive_enrich") \in Job
    BY <2>1, NewJobType DEF Job, Worker, Scopes, Triggers
  <2> QED
    BY <1>1, <2>2 DEF EnrichInsert, RowInserted, NewJob
<1>2. ASSUME NEW p \in Clients, Insert(p)
      PROVE  RowInserted
  <2>1. NewJob(call[p].crate, call[p].scope, call[p].trigger) \in Job
    BY NewJobType DEF Core, TypeOK, Call
  <2> QED
    BY <1>2, <2>1 DEF Insert, RowInserted, NewJob
<1> QED
  BY <1>1, <1>2

\* Every step leaves the table alone, inserts a fresh row or moves one row.
LEMMA TableStep ==
    ASSUME Core, [Next]_vars
    PROVE  UNCHANGED jobs \/ RowInserted \/ RowUpdated
<1>1. ASSUME NEW t \in Tools,
             \/ \E c \in Crates, s \in ToolScopes :
                    ToolBegins(t, c, s) \/ IndexCrates(t, c, s)
             \/ ToolStep(t)
             \/ Timeout(t)
      PROVE  UNCHANGED jobs \/ RowInserted
  BY <1>1, InsertMoves
  DEF ToolBegins, IndexCrates, ToolStep, Timeout, Enqueue, SelectExisting, SelectNone, EnqueueFails,
      Register, Subscribe, Receive, ToolReturns, Clients
<1>2. ASSUME NEW f \in Feeders,
             \/ \E c \in Crates, k \in FeederKinds : FeederBegins(f, c, k)
             \/ FeederStep(f)
      PROVE  UNCHANGED jobs \/ RowInserted
  BY <1>2, InsertMoves
  DEF FeederBegins, FeederStep, Enqueue, SelectExisting, SelectNone, EnqueueFails,
      FeederNotifies, Clients
<1>3. CASE WorkerStep
  BY <1>3, ClaimMoves, RecordMoves, InsertMoves
  DEF WorkerStep, ClaimNone, FallAsleep, ClaimFails, Notified, PollIntervalElapses, ExecSucceeds,
      ExecFails, RecordFails, FlagCrate, Signal, EnrichSelect, EnrichFails
<1>4. CASE Crash \/ UNCHANGED vars
  BY <1>4 DEF Crash, vars
<1> QED
  BY <1>1, <1>2, <1>3, <1>4, RetryMoves DEF Next

-----------------------------------------------------------------------------
(* The queue implements the life cycle of a job. *)

StatusColumn(tbl) == [j \in 1..Len(tbl) |-> tbl[j].status]
TriesColumn(tbl) == [j \in 1..Len(tbl) |-> tbl[j].attempts]

\* The columns of the table are sequences as long as the table.
LEMMA Columns ==
    ASSUME NEW tbl \in Seq(Job)
    PROVE  /\ StatusColumn(tbl) \in Seq(Active \cup Settled)
           /\ TriesColumn(tbl) \in Seq(Nat)
           /\ Len(StatusColumn(tbl)) = Len(tbl) /\ Len(TriesColumn(tbl)) = Len(tbl)
           /\ Len(tbl) \in Nat
<1>1. Len(tbl) \in Nat /\ \A j \in 1..Len(tbl) : tbl[j] \in Job
  BY ElementOfSeq, LenProperties
<1>2. StatusColumn(tbl) \in [1..Len(tbl) -> Active \cup Settled]
  BY <1>1 DEF StatusColumn, Job
<1>3. TriesColumn(tbl) \in [1..Len(tbl) -> Nat]
  BY <1>1, QueueAssumption DEF TriesColumn, Job
<1>4. StatusColumn(tbl) \in Seq(Active \cup Settled) /\ TriesColumn(tbl) \in Seq(Nat)
  BY <1>1, <1>2, <1>3, SeqDef
<1>5. \A m, n \in Nat : 1..m = 1..n => m = n
  OBVIOUS
<1>6. Len(StatusColumn(tbl)) = Len(tbl)
  BY <1>1, <1>2, <1>4, <1>5, LenProperties
<1>7. Len(TriesColumn(tbl)) = Len(tbl)
  BY <1>1, <1>3, <1>4, <1>5, LenProperties
<1> QED
  BY <1>1, <1>4, <1>6, <1>7

\* An INSERT submits one pending job without attempts.
LEMMA InsertSubmits ==
    ASSUME NEW tbl \in Seq(Job), NEW row \in Job,
           row.status = "pending", row.attempts = 0
    PROVE  /\ StatusColumn(Append(tbl, row)) = Append(StatusColumn(tbl), "pending")
           /\ TriesColumn(Append(tbl, row)) = Append(TriesColumn(tbl), 0)
<1> DEFINE new == Append(tbl, row)
<1>1. /\ new \in Seq(Job) /\ Len(new) = Len(tbl) + 1 /\ Len(tbl) \in Nat
      /\ \A i \in 1..Len(tbl) : new[i] = tbl[i]
      /\ new[Len(tbl) + 1] = row
  BY AppendProperties, LenProperties
<1> HIDE DEF new
<1>2. StatusColumn(new) = Append(StatusColumn(tbl), "pending")
  <2> DEFINE l == StatusColumn(new)
             r == Append(StatusColumn(tbl), "pending")
  <2>1. "pending" \in Active \cup Settled
    BY DEF Active
  <2>2. /\ r \in Seq(Active \cup Settled) /\ Len(r) = Len(tbl) + 1
        /\ \A i \in 1..Len(tbl) : r[i] = StatusColumn(tbl)[i]
        /\ r[Len(tbl) + 1] = "pending"
    BY <2>1, Columns, AppendProperties
  <2>3. l \in Seq(Active \cup Settled) /\ Len(l) = Len(tbl) + 1
    BY <1>1, Columns
  <2>4. \A i \in 1..Len(l) : l[i] = r[i]
    BY <1>1, <2>2, <2>3 DEF StatusColumn
  <2> HIDE DEF l, r
  <2>5. l = r
    BY <2>2, <2>3, <2>4, SeqEqual
  <2> QED
    BY <2>5 DEF l, r
<1>3. TriesColumn(new) = Append(TriesColumn(tbl), 0)
  <2> DEFINE l == TriesColumn(new)
             r == Append(TriesColumn(tbl), 0)
  <2>1. /\ r \in Seq(Nat) /\ Len(r) = Len(tbl) + 1
        /\ \A i \in 1..Len(tbl) : r[i] = TriesColumn(tbl)[i]
        /\ r[Len(tbl) + 1] = 0
    BY Columns, AppendProperties
  <2>2. l \in Seq(Nat) /\ Len(l) = Len(tbl) + 1
    BY <1>1, Columns
  <2>3. \A i \in 1..Len(l) : l[i] = r[i]
    BY <1>1, <2>1, <2>2 DEF TriesColumn
  <2> HIDE DEF l, r
  <2>4. l = r
    BY <2>1, <2>2, <2>3, SeqEqual
  <2> QED
    BY <2>4 DEF l, r
<1> QED
  BY <1>2, <1>3 DEF new

\* An UPDATE of one row updates its entry in each column.
LEMMA UpdateMoves ==
    ASSUME jobs \in Seq(Job), NEW j \in Ids, NEW row \in Job, SetJob(j, row)
    PROVE  /\ StatusColumn(jobs') = [StatusColumn(jobs) EXCEPT ![j] = row.status]
           /\ TriesColumn(jobs') = [TriesColumn(jobs) EXCEPT ![j] = row.attempts]
<1>1. /\ Len(jobs') = Len(jobs)
      /\ \A i \in Ids : jobs'[i] = IF i = j THEN row ELSE jobs[i]
  BY SetJobType
<1>2. StatusColumn(jobs') = [StatusColumn(jobs) EXCEPT ![j] = row.status]
  BY <1>1 DEF StatusColumn, Ids
<1>3. TriesColumn(jobs') = [TriesColumn(jobs) EXCEPT ![j] = row.attempts]
  BY <1>1 DEF TriesColumn, Ids
<1> QED
  BY <1>2, <1>3

\* The refinement step: whatever the queue does is a step of the life cycle.
LEMMA LifecycleStep ==
    ASSUME Core, [Next]_vars
    PROVE  [Lifecycle!LifeNext]_(Lifecycle!abstractVars)
<1> DEFINE st == StatusColumn(jobs)
           tr == TriesColumn(jobs)
<1>0. /\ jobs \in Seq(Job)
      /\ [j \in Ids |-> jobs[j].status] = st
      /\ [j \in Ids |-> jobs[j].attempts] = tr
      /\ [j \in Ids |-> jobs[j].status]' = StatusColumn(jobs')
      /\ [j \in Ids |-> jobs[j].attempts]' = TriesColumn(jobs')
  BY DEF Core, TypeOK, StatusColumn, TriesColumn, Ids
<1>1. CASE UNCHANGED jobs
  BY <1>0, <1>1 DEF Lifecycle!abstractVars
<1>2. CASE RowInserted
  <2>1. PICK row \in Job : /\ jobs' = Append(jobs, row)
                           /\ row.status = "pending" /\ row.attempts = 0
    BY <1>2 DEF RowInserted
  <2>2. /\ StatusColumn(jobs') = Append(st, "pending")
        /\ TriesColumn(jobs') = Append(tr, 0)
    BY <1>0, <2>1, InsertSubmits
  <2>3. Lifecycle!Submit
    BY <1>0, <2>2 DEF Lifecycle!Submit
  <2> QED
    BY <2>3 DEF Lifecycle!LifeNext
<1>3. CASE RowUpdated
  <2>1. PICK j \in Ids, row \in Job : SetJob(j, row) /\ RowMoved(j, row)
    BY <1>3 DEF RowUpdated
  <2>2. /\ StatusColumn(jobs') = [st EXCEPT ![j] = row.status]
        /\ TriesColumn(jobs') = [tr EXCEPT ![j] = row.attempts]
    BY <1>0, <2>1, UpdateMoves
  <2>3. /\ st[j] = jobs[j].status /\ tr[j] = jobs[j].attempts
        /\ DOMAIN st = Ids /\ DOMAIN tr = Ids
    BY <2>1 DEF StatusColumn, TriesColumn, Ids
  <2>4. row.attempts = tr[j] => TriesColumn(jobs') = tr
    BY <2>2, <2>3 DEF TriesColumn
  <2>5. row.status = st[j] => StatusColumn(jobs') = st
    BY <2>2, <2>3 DEF StatusColumn
  <2> HIDE DEF st, tr
  <2>6. CASE jobs[j].status = "pending" /\ row.status = "running"
    <3>1. Lifecycle!Start(j)
      BY <1>0, <2>1, <2>2, <2>3, <2>6 DEF RowMoved, Lifecycle!Start, Lifecycle!Move
    <3> QED
      BY <1>0, <2>3, <3>1 DEF Lifecycle!LifeNext
  <2>7. CASE jobs[j].status = "running" /\ row.status = "finished"
    <3>1. Lifecycle!Finish(j)
      BY <1>0, <2>1, <2>2, <2>3, <2>4, <2>7 DEF RowMoved, Lifecycle!Finish, Lifecycle!Move
    <3> QED
      BY <1>0, <2>3, <3>1 DEF Lifecycle!LifeNext
  <2>8. CASE jobs[j].status = "running" /\ row.status = "failed"
    <3>1. Lifecycle!GiveUp(j)
      BY <1>0, <2>1, <2>2, <2>3, <2>4, <2>8 DEF RowMoved, Lifecycle!GiveUp, Lifecycle!Move
    <3> QED
      BY <1>0, <2>3, <3>1 DEF Lifecycle!LifeNext
  <2>9. CASE jobs[j].status = "running" /\ row.status = "pending"
    <3>1. Lifecycle!Retry(j)
      BY <1>0, <2>1, <2>2, <2>3, <2>4, <2>9 DEF RowMoved, Lifecycle!Retry, Lifecycle!Move
    <3> QED
      BY <1>0, <2>3, <3>1 DEF Lifecycle!LifeNext
  <2>10. CASE jobs[j].status = "pending" /\ row.status = "pending"
    BY <1>0, <2>1, <2>3, <2>4, <2>5, <2>10 DEF RowMoved, Lifecycle!abstractVars
  <2> QED
    BY <2>1, <2>6, <2>7, <2>8, <2>9, <2>10 DEF RowMoved
<1> QED
  BY <1>1, <1>2, <1>3, TableStep

\* RefreshQueue refines JobLifecycle: under any interleaving of tools, feeders
\* and worker, any database fault and any restart, rows are only ever
\* submitted, started, finished, retried and given up as the life cycle says.
THEOREM QueueRefinesLifecycle == Spec => ImplementsLifecycle
<1>1. Init => Lifecycle!LifeInit
  <2> SUFFICES ASSUME Init PROVE Lifecycle!LifeInit
    OBVIOUS
  <2>1. jobs = <<>> /\ Ids = {}
    BY EmptySeq DEF Init, Ids
  <2>2. [j \in Ids |-> jobs[j].status] = <<>> /\ [j \in Ids |-> jobs[j].attempts] = <<>>
    BY <2>1
  <2> QED
    BY <2>2 DEF Lifecycle!LifeInit
<1>2. Core /\ [Next]_vars => [Lifecycle!LifeNext]_(Lifecycle!abstractVars)
  BY LifecycleStep
<1> QED
  BY <1>1, <1>2, CoreInvariant, PTL DEF Spec, ImplementsLifecycle, Lifecycle!LifeSpec

-----------------------------------------------------------------------------
(* The waiting side: calls, channels, wake-ups and signals.                 *)

\* A step of the worker other than signal_completion, or the end of a retry
\* delay, touches neither the calls nor the channels.
LEMMA WorkerLeavesCalls ==
    ASSUME \/ WorkerStep /\ ~ Signal
           \/ \E j \in Ids : RetryDelayElapses(j)
    PROVE  UNCHANGED <<call, waiters>>
  BY DEF WorkerStep, Claim, ClaimNone, FallAsleep, ClaimFails, Notified, PollIntervalElapses,
         ExecSucceeds, ExecFails, RecordFinished, RecordFailure, RecordFails, FlagCrate,
         EnrichSelect, EnrichInsert, EnrichFails, RetryDelayElapses

\* A slot without a call is idle.
LEMMA IdlePc == IdleCall.pc = "idle"
  BY DEF IdleCall

\* A step of one client changes only its own call; only Register makes it ready
\* to subscribe, and only Subscribe, finding the channel, leaves it waiting.
LEMMA ClientCall ==
    ASSUME Core, NEW p \in Clients,
           \/ \E c \in Crates, t \in ToolScopes : ToolBegins(p, c, t) \/ IndexCrates(p, c, t)
           \/ \E c \in Crates, k \in FeederKinds : FeederBegins(p, c, k)
           \/ Enqueue(p) \/ FeederNotifies(p) \/ Register(p) \/ Subscribe(p)
           \/ Receive(p) \/ Timeout(p) \/ ToolReturns(p)
    PROVE  /\ waiters \subseteq waiters'
           /\ \A q \in Clients : q # p => call'[q] = call[q]
           /\ call'[p].pc = "subscribe" => Register(p)
           /\ call'[p].pc = "waiting" => /\ call'[p].job \in waiters
                                         /\ call[p].pc = "subscribe"
                                         /\ call'[p].job = call[p].job
<1> USE DEF Core, SetCall
<1>0. call \in [Clients -> Call] /\ call[p] \in Call
  BY DEF TypeOK
<1>1. waiters \subseteq waiters'
  BY DEF ToolBegins, IndexCrates, FeederBegins, Enqueue, SelectExisting, SelectNone,
         Insert, EnqueueFails, FeederNotifies, Register, Subscribe, Receive, Timeout,
         ToolReturns
<1>2. \A j, w : AfterEnqueue(p, j, w).pc \notin {"subscribe", "waiting"}
  BY <1>0 DEF AfterEnqueue, IdleCall, Call
<1>3. \A q \in Clients : q # p => call'[q] = call[q]
  BY <1>0 DEF ToolBegins, IndexCrates, FeederBegins, Enqueue, SelectExisting, SelectNone,
              Insert, EnqueueFails, FeederNotifies, Register, Subscribe, Receive, Timeout,
              ToolReturns
<1>4. /\ call'[p].pc = "subscribe" => Register(p)
      /\ call'[p].pc = "waiting" => /\ call'[p].job \in waiters
                                    /\ call[p].pc = "subscribe"
                                    /\ call'[p].job = call[p].job
  <2>1. CASE \E c \in Crates, t \in ToolScopes : ToolBegins(p, c, t) \/ IndexCrates(p, c, t)
    <3>1. PICK c \in Crates, t \in ToolScopes :
              call'[p] = [IdleCall EXCEPT !.pc = "select", !.crate = c, !.scope = t]
      BY <1>0, <2>1 DEF ToolBegins, IndexCrates
    <3> QED
      BY <3>1, IdleTypes DEF Call
  <2>2. CASE \E c \in Crates, k \in FeederKinds : FeederBegins(p, c, k)
    <3>1. PICK c \in Crates, k \in FeederKinds :
              call'[p] = [IdleCall EXCEPT !.pc = "select", !.crate = c,
                                          !.scope = FeederScope[k], !.trigger = k]
      BY <1>0, <2>2 DEF FeederBegins
    <3> QED
      BY <3>1, IdleTypes DEF Call
  <2>3. CASE SelectExisting(p) \/ Insert(p)
    BY <1>0, <1>2, <2>3 DEF SelectExisting, Insert
  <2>4. CASE SelectNone(p)
    BY <1>0, <2>4 DEF SelectNone, Call
  <2>5. CASE EnqueueFails(p)
    <3>1. \/ call'[p] = [call[p] EXCEPT !.pc = "done", !.outcome = "Error"]
          \/ call'[p] = IdleCall
      BY <1>0, <2>5 DEF EnqueueFails
    <3> QED
      BY <1>0, <3>1, IdlePc DEF Call
  <2>6. CASE FeederNotifies(p) \/ ToolReturns(p)
    BY <1>0, <2>6, IdlePc DEF FeederNotifies, ToolReturns
  <2>7. CASE Register(p) \/ Receive(p) \/ Timeout(p)
    <3>1. \/ Register(p) /\ call'[p] = [call[p] EXCEPT !.pc = "subscribe"]
          \/ call'[p] = [call[p] EXCEPT !.pc = "done"]
          \/ call'[p] = [call[p] EXCEPT !.pc = "done", !.outcome = "TimedOut"]
      BY <1>0, <2>7 DEF Register, Receive, Timeout
    <3> QED
      BY <1>0, <3>1 DEF Call
  <2>8. CASE Subscribe(p)
    <3>1. CASE call[p].job \in waiters
      BY <1>0, <2>8, <3>1 DEF Subscribe, Call
    <3>2. CASE call[p].job \notin waiters
      <4>1. call'[p] = [call[p] EXCEPT !.pc = "done", !.outcome = "Completed"]
        BY <1>0, <2>8, <3>2 DEF Subscribe
      <4> QED
        BY <1>0, <4>1 DEF Call
    <3> QED
      BY <3>1, <3>2
  <2> QED
    BY <2>1, <2>2, <2>3, <2>4, <2>5, <2>6, <2>7, <2>8 DEF Enqueue
<1> QED
  BY <1>1, <1>3, <1>4

\* No step leaves a waiting tool call without its channel.
LEMMA ChannelStep ==
    ASSUME Core, ChannelOpen, [Next]_vars
    PROVE  ChannelOpen'
<1>0. call \in [Clients -> Call] /\ Tools \subseteq Clients
  BY DEF Core, TypeOK, Clients
<1>1. ASSUME NEW p \in Clients,
             /\ waiters \subseteq waiters'
             /\ \A q \in Clients : q # p => call'[q] = call[q]
             /\ call'[p].pc = "waiting" => call'[p].job \in waiters
      PROVE  ChannelOpen'
  BY <1>0, <1>1 DEF ChannelOpen
<1>2. ASSUME NEW t \in Tools,
             \/ \E c \in Crates, s \in ToolScopes :
                    ToolBegins(t, c, s) \/ IndexCrates(t, c, s)
             \/ ToolStep(t)
             \/ Timeout(t)
      PROVE  ChannelOpen'
  BY <1>0, <1>1, <1>2, ClientCall DEF ToolStep
<1>3. ASSUME NEW f \in Feeders,
             \/ \E c \in Crates, k \in FeederKinds : FeederBegins(f, c, k)
             \/ FeederStep(f)
      PROVE  ChannelOpen'
  BY <1>0, <1>1, <1>3, ClientCall DEF FeederStep, Clients
<1>4. CASE Signal
  <2> SUFFICES ASSUME NEW t \in Tools, call'[t].pc = "waiting",
                      call'[t].outcome = "Pending"
               PROVE  call'[t].job \in waiters'
    BY DEF ChannelOpen
  <2>1. /\ call'[t] = SignalTo(t)
        /\ call[t].pc = "waiting" /\ call'[t].job = call[t].job /\ call[t] \in Call
    BY <1>0, <1>4, SignalCalls
  <2>2. CASE worker.job \in waiters /\ t \in Subscribers(worker.job)
    <3>1. call'[t].outcome \in {"Completed", "Failed"}
      BY <2>1, <2>2 DEF SignalTo, Call
    <3> QED
      BY <3>1
  <2>3. CASE ~ (worker.job \in waiters /\ t \in Subscribers(worker.job))
    <3>1. call'[t] = call[t] /\ call[t].job \in waiters
      BY <2>1, <2>3 DEF SignalTo, ChannelOpen
    <3>2. call[t].job # worker.job
      BY <2>1, <2>3, <3>1 DEF Subscribers
    <3> QED
      BY <1>4, <3>1, <3>2 DEF Signal
  <2> QED
    BY <2>2, <2>3
<1>5. CASE Crash
  BY <1>0, <1>5, IdlePc DEF Crash, ChannelOpen
<1>6. CASE UNCHANGED <<call, waiters>>
  BY <1>6 DEF ChannelOpen
<1> QED
  BY <1>2, <1>3, <1>4, <1>5, <1>6, WorkerLeavesCalls DEF Next, vars

\* wait_for_job never finds its channel closed: whoever else registers, times
\* out or is signalled, the sender of an unanswered call stays in the map.
THEOREM ChannelStaysOpen == Spec => []ChannelOpen
<1>1. Init => ChannelOpen
  BY IdlePc DEF Init, ChannelOpen, Clients
<1>2. Core /\ ChannelOpen /\ [Next]_vars => ChannelOpen'
  BY ChannelStep
<1> QED
  BY <1>1, <1>2, CoreInvariant, PTL DEF Spec

-----------------------------------------------------------------------------
(* The wake-up of the worker. *)

\* The worker has seen no runnable row and waits, or is about to.
Resting == worker.pc \in {"drained", "asleep"}

\* NoLostWakeup, made inductive: it already holds when the claim has come back
\* empty and the worker does not listen yet.
WakeupOwed ==
    Resting /\ ~ permit =>
        \A t \in Tools :
            call[t].pc \in {"subscribe", "waiting"} =>
                ~ (call[t].job \in Claimable /\ jobs[call[t].job].attempts = 0)

\* Only an empty claim brings the worker to rest, and no step but the one that
\* wakes it takes the stored permit away.
LEMMA SleepStep ==
    ASSUME Core, [Next]_vars, Resting', ~ permit', ~ ClaimNone, ~ FallAsleep
    PROVE  UNCHANGED worker /\ ~ permit /\ ~ WorkerStep /\ ~ Crash
<1>0. worker \in Worker /\ permit \in BOOLEAN
  BY DEF Core, TypeOK
<1>1. /\ AfterEnrich.pc \notin {"drained", "asleep"}
      /\ IdleWorker.pc \notin {"drained", "asleep"}
  BY <1>0 DEF AfterEnrich, IdleWorker, Worker
<1>2. ~ WorkerStep
  <2>1. ASSUME WorkerStep, ~ Signal PROVE FALSE
    BY <1>0, <1>1, <2>1
    DEF WorkerStep, Claim, ClaimFails, Notified, PollIntervalElapses, ExecSucceeds,
        ExecFails, RecordFinished, RecordFailure, RecordFails, FlagCrate, EnrichSelect,
        EnrichInsert, EnrichFails, Worker, Resting
  <2>2. ASSUME Signal PROVE FALSE
    BY <1>0, <1>1, <2>2 DEF Signal, Worker, Resting
  <2> QED
    BY <2>1, <2>2
<1>3. ~ Crash
  BY <1>1 DEF Crash, Resting
<1>4. ASSUME NEW t \in Tools,
             \/ \E c \in Crates, s \in ToolScopes :
                    ToolBegins(t, c, s) \/ IndexCrates(t, c, s)
             \/ ToolStep(t)
             \/ Timeout(t)
      PROVE  UNCHANGED worker /\ (permit' = permit \/ permit' = TRUE)
  BY <1>4 DEF ToolBegins, IndexCrates, ToolStep, Timeout, Enqueue, SelectExisting,
              SelectNone, Insert, EnqueueFails, Register, Subscribe, Receive, ToolReturns
<1>5. ASSUME NEW f \in Feeders,
             \/ \E c \in Crates, k \in FeederKinds : FeederBegins(f, c, k)
             \/ FeederStep(f)
      PROVE  UNCHANGED worker /\ (permit' = permit \/ permit' = TRUE)
  BY <1>5 DEF FeederBegins, FeederStep, FeederNotifies, Enqueue, SelectExisting,
              SelectNone, Insert, EnqueueFails
<1>6. ASSUME (\E j \in Ids : RetryDelayElapses(j)) \/ UNCHANGED vars
      PROVE  UNCHANGED worker /\ (permit' = permit \/ permit' = TRUE)
  BY <1>6 DEF RetryDelayElapses, vars
<1>7. UNCHANGED worker /\ (permit' = permit \/ permit' = TRUE)
  BY <1>2, <1>3, <1>4, <1>5, <1>6 DEF Next
<1>8. ~ permit
  BY <1>7, Zenon
<1> QED
  BY <1>2, <1>3, <1>7, <1>8

\* A row that already exists can only become claimable for the first time by a
\* step of the worker: an insertion adds another row, and a retry delay ends
\* on a row that was attempted.
LEMMA OldRowStep ==
    ASSUME Core, [Next]_vars, ~ WorkerStep, NEW j \in Ids,
           j \in Claimable', jobs'[j].attempts = 0
    PROVE  j \in Claimable /\ jobs[j].attempts = 0
<1>1. CASE UNCHANGED jobs
  BY <1>1 DEF Claimable, Ids
<1>2. CASE RowInserted
  <2>1. jobs'[j] = jobs[j]
    BY <1>2, InsertType DEF RowInserted, Core, TypeOK
  <2> QED
    BY <2>1 DEF Claimable
<1>3. CASE \E i \in Ids : RetryDelayElapses(i)
  <2>1. PICK i \in Ids : RetryDelayElapses(i)
    BY <1>3
  <2> DEFINE row == [jobs[i] EXCEPT !.due = TRUE]
  <2>2. jobs[i] \in Job /\ row \in Job /\ row.attempts = jobs[i].attempts
    BY RowType DEF Core, TypeOK, Job
  <2>3. SetJob(i, row)
    BY <2>1 DEF RetryDelayElapses
  <2> HIDE DEF row
  <2>4. jobs'[j] = IF j = i THEN row ELSE jobs[j]
    BY <2>2, <2>3, SetJobType DEF Core, TypeOK
  <2>5. jobs[i].attempts >= 1
    BY <2>1 DEF RetryDelayElapses, Core, AttemptBudget
  <2> QED
    BY <2>2, <2>4, <2>5 DEF Claimable
<1> QED
  <2>1. ASSUME NEW p \in Clients, Enqueue(p) PROVE UNCHANGED jobs \/ RowInserted
    BY <2>1, InsertMoves DEF Enqueue, SelectExisting, SelectNone, EnqueueFails
  <2>2. ASSUME NEW t \in Tools,
               \/ \E c \in Crates, s \in ToolScopes :
                      ToolBegins(t, c, s) \/ IndexCrates(t, c, s)
               \/ ToolStep(t)
               \/ Timeout(t)
        PROVE  UNCHANGED jobs \/ RowInserted
    BY <2>1, <2>2 DEF ToolBegins, IndexCrates, ToolStep, Timeout, Register, Subscribe,
                      Receive, ToolReturns, Clients
  <2>3. ASSUME NEW f \in Feeders,
               \/ \E c \in Crates, k \in FeederKinds : FeederBegins(f, c, k)
               \/ FeederStep(f)
        PROVE  UNCHANGED jobs \/ RowInserted
    BY <2>1, <2>3 DEF FeederBegins, FeederStep, FeederNotifies, Clients
  <2> QED
    BY <1>1, <1>2, <1>3, <2>2, <2>3 DEF Next, Crash, vars

\* A call that holds an id after a step held it before, unless the step was its
\* registration.
LEMMA CallStep ==
    ASSUME Core, [Next]_vars, ~ WorkerStep, ~ Crash, NEW t \in Tools,
           call'[t].pc \in {"subscribe", "waiting"}
    PROVE  \/ Register(t)
           \/ call[t].pc \in {"subscribe", "waiting"} /\ call'[t].job = call[t].job
<1>0. Tools \subseteq Clients /\ Feeders \subseteq Clients
  BY DEF Clients
<1>1. ASSUME NEW p \in Clients,
             /\ \A q \in Clients : q # p => call'[q] = call[q]
             /\ call'[p].pc = "subscribe" => Register(p)
             /\ call'[p].pc = "waiting" => /\ call[p].pc = "subscribe"
                                           /\ call'[p].job = call[p].job
      PROVE  \/ Register(t)
             \/ call[t].pc \in {"subscribe", "waiting"} /\ call'[t].job = call[t].job
  BY <1>0, <1>1
<1>2. CASE \E p \in Tools :
               \/ \E c \in Crates, s \in ToolScopes :
                      ToolBegins(p, c, s) \/ IndexCrates(p, c, s)
               \/ ToolStep(p)
               \/ Timeout(p)
  BY <1>0, <1>1, <1>2, ClientCall DEF ToolStep
<1>3. CASE \E p \in Feeders :
               \/ \E c \in Crates, k \in FeederKinds : FeederBegins(p, c, k)
               \/ FeederStep(p)
  BY <1>0, <1>1, <1>3, ClientCall DEF FeederStep
<1>4. CASE UNCHANGED call
  BY <1>4
<1> QED
  BY <1>2, <1>3, <1>4 DEF Next, RetryDelayElapses, vars

\* No step puts the worker to sleep on a first attempt that a call waits for.
LEMMA WakeupStep ==
    ASSUME Core, WakeupOwed, [Next]_vars
    PROVE  WakeupOwed'
<1> SUFFICES ASSUME Resting', ~ permit', NEW t \in Tools,
                    call'[t].pc \in {"subscribe", "waiting"},
                    call'[t].job \in Claimable', jobs'[call'[t].job].attempts = 0
             PROVE  FALSE
  BY DEF WakeupOwed
<1>1. CASE ClaimNone
  BY <1>1 DEF ClaimNone, Claimable, Ids
<1>2. CASE FallAsleep
  BY <1>2 DEF FallAsleep, WakeupOwed, Resting, Claimable, Ids
<1>3. CASE ~ ClaimNone /\ ~ FallAsleep
  <2>1. UNCHANGED worker /\ ~ permit /\ ~ WorkerStep /\ ~ Crash
    BY <1>3, SleepStep
  <2>2. ~ Register(t)
    BY DEF Register
  <2>3. call[t].pc \in {"subscribe", "waiting"} /\ call'[t].job = call[t].job
    BY <2>1, <2>2, CallStep
  <2>4. call[t].job \in Ids
    BY <2>3 DEF Core, CallJob, Registered, Clients
  <2>5. call[t].job \in Claimable /\ jobs[call[t].job].attempts = 0
    BY <2>1, <2>3, <2>4, OldRowStep
  <2> QED
    BY <2>1, <2>3, <2>5 DEF WakeupOwed, Resting
<1> QED
  BY <1>1, <1>2, <1>3

\* The wake-up of an on-demand job is never lost (notify_one, notified): while a
\* call waits for a first attempt that could run, the worker is awake or a
\* permit is stored for it.
THEOREM WakeupNotLost == Spec => []NoLostWakeup
<1>1. Init => WakeupOwed
  BY DEF Init, WakeupOwed, Resting, IdleWorker
<1>2. Core /\ WakeupOwed /\ [Next]_vars => WakeupOwed'
  BY WakeupStep
<1>3. WakeupOwed => NoLostWakeup
  BY DEF WakeupOwed, NoLostWakeup, Resting
<1> QED
  BY <1>1, <1>2, <1>3, CoreInvariant, PTL DEF Spec

-----------------------------------------------------------------------------
(* The claim is exclusive. *)

\* A step that leaves the table alone, inserts a row or updates row i to one
\* that is not running leaves no new running row.
LEMMA NoNewRunning ==
    ASSUME Core,
           \/ UNCHANGED jobs
           \/ RowInserted
           \/ \E i \in Ids : \E row \in Job :
                  SetJob(i, row) /\ (row.status = "running" => jobs[i].status = "running"),
           NEW j \in Ids', jobs'[j].status = "running"
    PROVE  j \in Ids /\ jobs[j].status = "running"
<1>0. jobs \in Seq(Job) /\ Len(jobs) \in Nat
  BY LenProperties DEF Core, TypeOK
<1>1. CASE UNCHANGED jobs
  BY <1>1 DEF Ids
<1>2. CASE RowInserted
  <2>1. PICK row \in Job : jobs' = Append(jobs, row) /\ row.status = "pending"
    BY <1>2 DEF RowInserted
  <2>2. /\ Len(jobs') = Len(jobs) + 1
        /\ \A i \in Ids : jobs'[i] = jobs[i]
        /\ jobs'[Len(jobs) + 1] = row
    BY <1>0, <2>1, InsertType
  <2> QED
    BY <1>0, <2>1, <2>2 DEF Ids
<1>3. CASE \E i \in Ids : \E row \in Job :
               SetJob(i, row) /\ (row.status = "running" => jobs[i].status = "running")
  <2>1. PICK i \in Ids, row \in Job :
            SetJob(i, row) /\ (row.status = "running" => jobs[i].status = "running")
    BY <1>3
  <2>2. /\ Len(jobs') = Len(jobs)
        /\ \A k \in Ids : jobs'[k] = IF k = i THEN row ELSE jobs[k]
    BY <1>0, <2>1, SetJobType
  <2> QED
    BY <2>1, <2>2 DEF Ids
<1> QED
  BY <1>1, <1>2, <1>3

\* As long as nothing failed and nothing restarted, a running row is the one
\* the worker holds.
RunningIsHeld ==
    faults = 0 /\ crashes = 0 =>
        \A j \in Ids : jobs[j].status = "running" => Holding /\ worker.job = j

\* Tools, feeders and retry delays start and end no execution.
LEMMA HeldByOthers ==
    ASSUME Core, RunningIsHeld, [Next]_vars, ~ WorkerStep
    PROVE  RunningIsHeld'
<1>0. faults \in Nat /\ crashes \in Nat
  BY QueueAssumption DEF Core, TypeOK
<1>1. ASSUME UNCHANGED <<worker, crashes>>, faults' = faults \/ faults' = faults + 1,
             UNCHANGED jobs \/ RowInserted \/ \E i \in Ids : RetryDelayElapses(i)
      PROVE  RunningIsHeld'
  <2>1. ASSUME NEW i \in Ids, RetryDelayElapses(i)
        PROVE  \E row \in Job :
                   SetJob(i, row) /\ (row.status = "running" => jobs[i].status = "running")
    <3> DEFINE row == [jobs[i] EXCEPT !.due = TRUE]
    <3>1. row \in Job /\ row.status = jobs[i].status
      BY RowType DEF Core, TypeOK, Job
    <3>2. SetJob(i, row)
      BY <2>1 DEF RetryDelayElapses
    <3> HIDE DEF row
    <3> QED
      BY <3>1, <3>2
  <2>2. \A j \in Ids' : jobs'[j].status = "running" => j \in Ids /\ jobs[j].status = "running"
    BY <1>1, <2>1, NoNewRunning
  <2> QED
    BY <1>0, <1>1, <2>2 DEF RunningIsHeld, Holding
<1>2. ASSUME NEW p \in Clients, Enqueue(p)
      PROVE  /\ UNCHANGED <<worker, crashes>>
             /\ faults' = faults \/ faults' = faults + 1
             /\ UNCHANGED jobs \/ RowInserted
  BY <1>2, InsertMoves DEF Enqueue, SelectExisting, SelectNone, Insert, EnqueueFails, DbFault
<1>3. CASE \E t \in Tools :
               \/ \E c \in Crates, s \in ToolScopes :
                      ToolBegins(t, c, s) \/ IndexCrates(t, c, s)
               \/ ToolStep(t)
               \/ Timeout(t)
  BY <1>1, <1>2, <1>3 DEF ToolBegins, IndexCrates, ToolStep, Timeout, Register, Subscribe,
                          Receive, ToolReturns, Clients
<1>4. CASE \E f \in Feeders :
               \/ \E c \in Crates, k \in FeederKinds : FeederBegins(f, c, k)
               \/ FeederStep(f)
  BY <1>1, <1>2, <1>4 DEF FeederBegins, FeederStep, FeederNotifies, Clients
<1>5. CASE (\E j \in Ids : RetryDelayElapses(j)) \/ UNCHANGED vars
  BY <1>1, <1>5 DEF RetryDelayElapses, vars
<1>6. CASE Crash
  BY <1>0, <1>6 DEF Crash, RunningIsHeld
<1> QED
  BY <1>3, <1>4, <1>5, <1>6 DEF Next

\* The worker claims only when it holds nothing and gives every claim back.
LEMMA HeldByWorker ==
    ASSUME Core, RunningIsHeld, WorkerStep
    PROVE  RunningIsHeld'
<1>0. faults \in Nat /\ worker \in Worker /\ jobs \in Seq(Job)
  BY QueueAssumption DEF Core, TypeOK
<1>1. CASE \E j \in Ids : Claim(j)
  <2>1. PICK j \in Ids : Claim(j)
    BY <1>1
  <2> DEFINE row == [jobs[j] EXCEPT !.status = "running", !.attempts = @ + 1]
  <2>2. row \in Job /\ SetJob(j, row)
    <3>1. jobs[j] \in Job /\ jobs[j].attempts + 1 \in 0..MaxAttempts
      <4>1. jobs[j] \in Job
        BY <1>0, RowType
      <4>2. jobs[j].status = "pending" /\ jobs[j].attempts < MaxAttempts
        BY <2>1 DEF Claim, NextClaims, Claimable, Core, AttemptBudget
      <4> QED
        BY <4>1, <4>2, QueueAssumption DEF Job
    <3> QED
      BY <2>1, <3>1 DEF Claim, Job, Active
  <2> HIDE DEF row
  <2>3. /\ Len(jobs') = Len(jobs)
        /\ \A k \in Ids : jobs'[k] = IF k = j THEN row ELSE jobs[k]
    BY <1>0, <2>2, SetJobType
  <2>4. worker.pc = "poll" /\ worker'.pc = "exec" /\ worker'.job = j
        /\ UNCHANGED <<faults, crashes>>
    BY <1>0, <2>1 DEF Claim, Worker
  <2> QED
    BY <2>3, <2>4 DEF RunningIsHeld, Holding, Ids
<1>2. CASE RecordFinished \/ RecordFailure
  <2>1. Holding /\ worker.job \in Ids
    BY <1>2 DEF RecordFinished, RecordFailure, Holding, Core, WorkerJob
  <2>2. PICK row \in Job : SetJob(worker.job, row) /\ row.status # "running"
    <3>1. Current \in Job
      BY <1>0, <2>1, RowType DEF Current
    <3>2. /\ [Current EXCEPT !.status = "finished"] \in Job
          /\ [Current EXCEPT !.status = "failed"] \in Job
          /\ [Current EXCEPT !.status = "pending", !.due = FALSE] \in Job
      BY <3>1 DEF Job, Active, Settled
    <3> QED
      BY <1>2, <3>1, <3>2 DEF RecordFinished, RecordFailure, Job
  <2>3. /\ Len(jobs') = Len(jobs)
        /\ \A k \in Ids : jobs'[k] = IF k = worker.job THEN row ELSE jobs[k]
    BY <1>0, <2>1, <2>2, SetJobType
  <2>4. UNCHANGED <<faults, crashes>>
    BY <1>2 DEF RecordFinished, RecordFailure
  <2> QED
    BY <2>1, <2>2, <2>3, <2>4 DEF RunningIsHeld, Ids
<1>3. CASE ExecSucceeds \/ ExecFails
  BY <1>0, <1>3 DEF ExecSucceeds, ExecFails, RunningIsHeld, Holding, Ids, Worker
<1>4. CASE RecordFails \/ ClaimFails
  BY <1>0, <1>4 DEF RecordFails, ClaimFails, DbFault, RunningIsHeld
<1>5. ASSUME ~ Holding, UNCHANGED crashes, faults' = faults \/ faults' = faults + 1,
             UNCHANGED jobs \/ RowInserted
      PROVE  RunningIsHeld'
  <2>1. \A j \in Ids' : jobs'[j].status = "running" => j \in Ids /\ jobs[j].status = "running"
    BY <1>5, NoNewRunning
  <2> QED
    BY <1>0, <1>5, <2>1 DEF RunningIsHeld
<1>6. CASE ClaimNone \/ FallAsleep \/ Notified \/ PollIntervalElapses \/ FlagCrate \/ Signal
           \/ EnrichSelect \/ EnrichInsert \/ EnrichFails
  BY <1>5, <1>6, InsertMoves
  DEF ClaimNone, FallAsleep, Notified, PollIntervalElapses, FlagCrate, Signal, EnrichSelect,
      EnrichInsert, EnrichFails, DbFault, Holding
<1> QED
  BY <1>1, <1>2, <1>3, <1>4, <1>6 DEF WorkerStep

\* run_refresh_worker holds its claim exclusively: the job it executes is
\* running, and without faults and restarts no other row is.
THEOREM ClaimIsExclusive == Spec => []OnlyWorkerRuns
<1>1. Init => RunningIsHeld
  BY DEF Init, RunningIsHeld, Ids
<1>2. Core /\ RunningIsHeld /\ [Next]_vars => RunningIsHeld'
  BY HeldByOthers, HeldByWorker
<1>3. Core /\ RunningIsHeld => OnlyWorkerRuns
  BY DEF Core, WorkerJob, RunningIsHeld, OnlyWorkerRuns, Holding
<1> QED
  BY <1>1, <1>2, <1>3, CoreInvariant, PTL DEF Spec

-----------------------------------------------------------------------------
(* What no step takes back. *)

\* A row of refresh_jobs is never deleted and never renamed, no statement
\* lowers its attempts, and a finished row stays finished.
LEMMA OldRowKept ==
    ASSUME Core, [Next]_vars, NEW j \in Ids
    PROVE  /\ j \in Ids'
           /\ jobs'[j].crate = jobs[j].crate
           /\ jobs'[j].scope = jobs[j].scope
           /\ jobs'[j].attempts >= jobs[j].attempts
           /\ jobs[j].status = "finished" => jobs'[j].status = "finished"
<1>0. jobs \in Seq(Job) /\ Len(jobs) \in Nat /\ jobs[j] \in Job /\ jobs[j].attempts \in Nat
  BY RowType, QueueAssumption DEF Core, TypeOK, Job
<1>1. CASE UNCHANGED jobs
  BY <1>0, <1>1 DEF Ids
<1>2. CASE RowInserted
  <2>1. PICK row \in Job : jobs' = Append(jobs, row)
    BY <1>2 DEF RowInserted
  <2>2. Len(jobs') = Len(jobs) + 1 /\ jobs'[j] = jobs[j]
    BY <1>0, <2>1, InsertType
  <2> QED
    BY <1>0, <2>2 DEF Ids
<1>3. CASE RowUpdated
  <2>1. PICK i \in Ids, row \in Job : SetJob(i, row) /\ RowMoved(i, row)
    BY <1>3 DEF RowUpdated
  <2>2. Len(jobs') = Len(jobs) /\ jobs'[j] = IF j = i THEN row ELSE jobs[j]
    BY <1>0, <2>1, SetJobType
  <2>3. CASE j = i
    BY <1>0, <2>1, <2>2, <2>3 DEF RowMoved, Ids
  <2>4. CASE j # i
    BY <1>0, <2>2, <2>4 DEF Ids
  <2> QED
    BY <2>3, <2>4
<1> QED
  BY <1>1, <1>2, <1>3, TableStep

\* A crate row that was committed is never removed again: persist_crate_sync
\* writes it, mark_crate_refresh_error only flags it.
LEMMA CrateRowKept ==
    ASSUME Core, [Next]_vars, NEW c \in Crates, crateRow[c] # "absent"
    PROVE  crateRow'[c] # "absent"
<1>0. crateRow \in [Crates -> {"absent", "clean", "errored"}]
  BY DEF Core, TypeOK
<1>1. \A d \in Crates : Synced(d)[c] # "absent"
  BY <1>0 DEF Synced
<1>2. ASSUME NEW t \in Tools,
             \/ \E d \in Crates, s \in ToolScopes :
                    ToolBegins(t, d, s) \/ IndexCrates(t, d, s)
             \/ ToolStep(t)
             \/ Timeout(t)
      PROVE  crateRow'[c] # "absent"
  BY <1>1, <1>2
  DEF ToolBegins, IndexCrates, ToolStep, Timeout, Enqueue, SelectExisting, SelectNone, Insert,
      EnqueueFails, Register, Subscribe, Receive, ToolReturns
<1>3. ASSUME NEW f \in Feeders,
             \/ \E d \in Crates, k \in FeederKinds : FeederBegins(f, d, k)
             \/ FeederStep(f)
      PROVE  crateRow'[c] # "absent"
  BY <1>1, <1>3
  DEF FeederBegins, FeederStep, Enqueue, SelectExisting, SelectNone, Insert, EnqueueFails,
      FeederNotifies
<1>4. CASE ExecSucceeds
  <2>1. Current \in Job
    BY <1>4, RowType DEF ExecSucceeds, Core, WorkerJob, TypeOK, Current
  <2>2. Current.crate \in Crates
    BY <2>1 DEF Job
  <2> QED
    BY <1>1, <1>4, <2>2 DEF ExecSucceeds
<1>5. CASE FlagCrate
  <2>1. CASE UNCHANGED crateRow
    BY <2>1
  <2>2. CASE crateRow' = [crateRow EXCEPT ![Current.crate] =
                              IF @ = "absent" THEN @ ELSE "errored"]
    BY <1>0, <2>2
  <2> QED
    BY <1>5, <2>1, <2>2 DEF FlagCrate
<1>6. CASE WorkerStep /\ ~ ExecSucceeds /\ ~ FlagCrate
  BY <1>6
  DEF WorkerStep, Claim, ClaimNone, FallAsleep, ClaimFails, Notified, PollIntervalElapses,
      ExecFails, RecordFinished, RecordFailure, RecordFails, Signal, EnrichSelect,
      EnrichInsert, EnrichFails
<1>7. CASE (\E j \in Ids : RetryDelayElapses(j)) \/ Crash \/ UNCHANGED vars
  BY <1>7 DEF RetryDelayElapses, Crash, vars
<1> QED
  BY <1>2, <1>3, <1>4, <1>5, <1>6, <1>7 DEF Next

\* A fault or a restart is never forgotten.
LEMMA FaultsRemain ==
    ASSUME Core, [Next]_vars
    PROVE  (faults' = 0 => faults = 0) /\ (crashes' = 0 => crashes = 0)
<1>0. faults \in Nat /\ crashes \in Nat
  BY QueueAssumption DEF Core, TypeOK
<1>1. \/ UNCHANGED <<faults, crashes>>
      \/ faults' = faults + 1 /\ UNCHANGED crashes
      \/ UNCHANGED faults /\ crashes' = crashes + 1
  <2>1. ASSUME NEW t \in Tools,
               \/ \E d \in Crates, s \in ToolScopes :
                      ToolBegins(t, d, s) \/ IndexCrates(t, d, s)
               \/ ToolStep(t)
               \/ Timeout(t)
        PROVE  UNCHANGED crashes /\ (faults' = faults \/ faults' = faults + 1)
    BY <2>1
    DEF ToolBegins, IndexCrates, ToolStep, Timeout, Enqueue, SelectExisting, SelectNone,
        Insert, EnqueueFails, DbFault, Register, Subscribe, Receive, ToolReturns
  <2>2. ASSUME NEW f \in Feeders,
               \/ \E d \in Crates, k \in FeederKinds : FeederBegins(f, d, k)
               \/ FeederStep(f)
        PROVE  UNCHANGED crashes /\ (faults' = faults \/ faults' = faults + 1)
    BY <2>2
    DEF FeederBegins, FeederStep, Enqueue, SelectExisting, SelectNone, Insert, EnqueueFails,
        DbFault, FeederNotifies
  <2>3. ASSUME WorkerStep
        PROVE  UNCHANGED crashes /\ (faults' = faults \/ faults' = faults + 1)
    BY <2>3
    DEF WorkerStep, Claim, ClaimNone, FallAsleep, ClaimFails, Notified, PollIntervalElapses,
        ExecSucceeds, ExecFails, RecordFinished, RecordFailure, RecordFails, FlagCrate,
        Signal, EnrichSelect, EnrichInsert, EnrichFails, DbFault
  <2>4. CASE (\E j \in Ids : RetryDelayElapses(j)) \/ Crash \/ UNCHANGED vars
    BY <2>4 DEF RetryDelayElapses, Crash, vars
  <2> QED
    BY <2>1, <2>2, <2>3, <2>4 DEF Next
<1> QED
  BY <1>0, <1>1

-----------------------------------------------------------------------------
(* What the worker knows of its job. *)

\* From the claim to the signal the worker's job was attempted; only a failed
\* job flags its crate; once a crate job ran, its crate row is committed; and
\* when nothing failed a successful job is finished before its waiters hear.
WorkerNews ==
    /\ worker.pc \in {"exec", "record", "flag", "signal"} => Current.attempts >= 1
    /\ worker.pc = "flag" => ~ worker.ok
    /\ worker.pc \in {"record", "signal"} /\ worker.ok =>
         /\ Current.scope \in CrateScopes => crateRow[Current.crate] # "absent"
         /\ worker.pc = "signal" /\ faults = 0 => Current.status = "finished"

\* What the worker knows stays true while others move.
LEMMA NewsKept ==
    ASSUME Core, WorkerNews, [Next]_vars, UNCHANGED worker
    PROVE  WorkerNews'
<1>0. worker \in Worker
  BY DEF Core, TypeOK
<1>1. CASE worker.pc \notin {"exec", "record", "flag", "signal"}
  BY <1>1 DEF WorkerNews
<1>2. CASE worker.pc \in {"exec", "record", "flag", "signal"}
  <2>1. worker.job \in Ids
    BY <1>2 DEF Core, WorkerJob
  <2>2. Current \in Job
    BY <2>1, RowType DEF Core, TypeOK, Current
  <2>3. /\ Current'.crate = Current.crate /\ Current'.scope = Current.scope
        /\ Current'.attempts >= Current.attempts
        /\ Current.status = "finished" => Current'.status = "finished"
    BY <2>1, OldRowKept DEF Current
  <2>4. Current.crate \in Crates /\ Current.attempts \in Nat
    BY <2>2, QueueAssumption DEF Job
  <2>5. Current.attempts >= 1 => Current'.attempts >= 1
    <3>1. worker'.job \in Ids' /\ jobs' \in Seq(Job)
      BY <2>1, OldRowKept, CoreStep DEF Core, TypeOK
    <3>2. Current'.attempts \in Nat
      <4>1. Current' \in Job
        BY <3>1, ElementOfSeq DEF Current, Ids
      <4> QED
        BY <4>1, QueueAssumption DEF Job
    <3> QED
      BY <2>3, <2>4, <3>2
  <2>6. crateRow[Current.crate] # "absent" => crateRow'[Current.crate] # "absent"
    BY <2>4, CrateRowKept
  <2>7. faults' = 0 => faults = 0
    BY FaultsRemain
  <2> QED
    BY <1>2, <2>3, <2>5, <2>6, <2>7 DEF WorkerNews
<1> QED
  BY <1>1, <1>2

\* Tools, feeders, retry delays and restarts do not move the worker, or send it
\* back to the head of its loop.
LEMMA OthersLeaveWorker ==
    ASSUME [Next]_vars, ~ WorkerStep
    PROVE  UNCHANGED worker \/ Crash
<1>1. ASSUME NEW t \in Tools,
             \/ \E d \in Crates, s \in ToolScopes :
                    ToolBegins(t, d, s) \/ IndexCrates(t, d, s)
             \/ ToolStep(t)
             \/ Timeout(t)
      PROVE  UNCHANGED worker
  BY <1>1
  DEF ToolBegins, IndexCrates, ToolStep, Timeout, Enqueue, SelectExisting, SelectNone,
      Insert, EnqueueFails, Register, Subscribe, Receive, ToolReturns
<1>2. ASSUME NEW f \in Feeders,
             \/ \E d \in Crates, k \in FeederKinds : FeederBegins(f, d, k)
             \/ FeederStep(f)
      PROVE  UNCHANGED worker
  BY <1>2
  DEF FeederBegins, FeederStep, Enqueue, SelectExisting, SelectNone, Insert, EnqueueFails,
      FeederNotifies
<1>3. CASE (\E j \in Ids : RetryDelayElapses(j)) \/ UNCHANGED vars
  BY <1>3 DEF RetryDelayElapses, vars
<1> QED
  BY <1>1, <1>2, <1>3 DEF Next

\* A step of the worker keeps what it knows true: the claim counts an attempt,
\* the handler commits the crate row before it returns Ok, and the result is
\* recorded before the signal.
LEMMA NewsWorker ==
    ASSUME Core, WorkerNews, WorkerStep
    PROVE  WorkerNews'
<1>0. /\ worker \in Worker /\ jobs \in Seq(Job)
      /\ crateRow \in [Crates -> {"absent", "clean", "errored"}]
      /\ faults \in Nat
  BY QueueAssumption DEF Core, TypeOK
<1>1. ASSUME worker'.pc \in {"poll", "drained", "asleep", "backoff", "enrich", "insert"}
      PROVE  WorkerNews'
  BY <1>1 DEF WorkerNews
<1>2. CASE \E j \in Ids : Claim(j)
  <2>1. PICK j \in Ids : Claim(j)
    BY <1>2
  <2>2. worker'.pc = "exec" /\ worker'.job = j
    BY <1>0, <2>1 DEF Claim, Worker
  <2>3. jobs[j] \in Job /\ jobs'[j] = [jobs[j] EXCEPT !.status = "running", !.attempts = @ + 1]
    <3>1. jobs[j] \in Job /\ DOMAIN jobs = Ids
      BY <1>0, RowType, LenProperties DEF Ids
    <3> QED
      BY <2>1, <3>1 DEF Claim, SetJob
  <2>4. jobs'[j].attempts >= 1
    <3>1. jobs'[j].attempts = jobs[j].attempts + 1
      BY <2>3 DEF Job
    <3>2. jobs[j].attempts \in 0..MaxAttempts
      BY <2>3 DEF Job
    <3> QED
      BY <3>1, <3>2
  <2> QED
    BY <2>2, <2>4 DEF WorkerNews, Current
<1>3. CASE ClaimNone \/ FallAsleep \/ ClaimFails \/ Notified \/ PollIntervalElapses
  <2>1. worker'.pc \in {"poll", "drained", "asleep", "backoff"}
    BY <1>0, <1>3
    DEF ClaimNone, FallAsleep, ClaimFails, Notified, PollIntervalElapses, Worker
  <2> QED
    BY <1>1, <2>1
<1>4. CASE ExecSucceeds
  <2>1. /\ worker.pc = "exec" /\ worker'.pc = "record" /\ worker'.job = worker.job
        /\ UNCHANGED jobs
        /\ crateRow' = IF Current.scope \in CrateScopes THEN Synced(Current.crate)
                       ELSE crateRow
    BY <1>0, <1>4 DEF ExecSucceeds, Worker
  <2>2. Current' = Current
    BY <2>1 DEF Current
  <2>3. Current \in Job
    BY <2>1, RowType DEF Core, TypeOK, WorkerJob, Current
  <2>4. Current.scope \in CrateScopes => crateRow'[Current.crate] # "absent"
    BY <1>0, <2>1, <2>3 DEF Synced, Job
  <2>5. Current.attempts >= 1
    BY <2>1 DEF WorkerNews
  <2> QED
    BY <2>1, <2>2, <2>4, <2>5 DEF WorkerNews
<1>5. CASE ExecFails
  <2>1. /\ worker.pc = "exec" /\ worker'.pc = "record" /\ worker'.job = worker.job
        /\ worker'.ok = FALSE /\ UNCHANGED jobs
    BY <1>0, <1>5 DEF ExecFails, Worker
  <2>2. Current' = Current /\ Current.attempts >= 1
    BY <2>1 DEF Current, WorkerNews
  <2> QED
    BY <2>1, <2>2 DEF WorkerNews
<1>6. CASE RecordFinished \/ RecordFailure
  <2>1. /\ worker.pc = "record" /\ worker'.job = worker.job /\ worker'.ok = worker.ok
        /\ UNCHANGED crateRow
        /\ \/ worker.ok /\ worker'.pc = "signal"
           \/ ~ worker.ok /\ worker'.pc = "flag"
    BY <1>0, <1>6 DEF RecordFinished, RecordFailure, Worker
  <2>2. worker.job \in Ids
    BY <2>1 DEF Core, WorkerJob
  <2>3. PICK row \in Job : /\ SetJob(worker.job, row)
                           /\ worker.ok => row.status = "finished"
                           /\ row.attempts = Current.attempts
    BY <1>6, RecordMoves
  <2>4. Current' = row
    BY <1>0, <2>1, <2>2, <2>3, SetJobType DEF Current
  <2>5. Current'.crate = Current.crate /\ Current'.scope = Current.scope
    <3>1. WorkerStep
      BY <1>6 DEF WorkerStep
    <3> QED
      BY <2>1, <2>2, <3>1, OldRowKept DEF Current, Next
  <2>6. Current'.attempts >= 1
    BY <2>1, <2>3, <2>4 DEF WorkerNews
  <2>7. CASE worker.ok /\ worker'.pc = "signal"
    <3>1. Current.scope \in CrateScopes => crateRow[Current.crate] # "absent"
      BY <2>1, <2>7 DEF WorkerNews
    <3>2. Current'.status = "finished"
      BY <2>3, <2>4, <2>7
    <3> QED
      BY <2>1, <2>5, <2>6, <2>7, <3>1, <3>2 DEF WorkerNews
  <2>8. CASE ~ worker.ok /\ worker'.pc = "flag"
    BY <2>1, <2>6, <2>8 DEF WorkerNews
  <2> QED
    BY <2>1, <2>7, <2>8
<1>7. CASE RecordFails
  <2>1. /\ worker.pc = "record" /\ worker'.job = worker.job /\ worker'.ok = worker.ok
        /\ UNCHANGED <<jobs, crateRow>> /\ faults' = faults + 1
        /\ worker'.pc = IF worker.ok THEN "signal" ELSE "flag"
    BY <1>0, <1>7 DEF RecordFails, DbFault, Worker
  <2>2. Current' = Current /\ faults' # 0
    BY <1>0, <2>1 DEF Current
  <2> QED
    BY <2>1, <2>2 DEF WorkerNews
<1>8. CASE FlagCrate
  <2>1. worker.pc = "flag" /\ worker'.job = worker.job /\ worker'.ok = worker.ok
        /\ worker'.pc = "signal" /\ UNCHANGED jobs
    BY <1>0, <1>8 DEF FlagCrate, Worker
  <2>2. Current' = Current
    BY <2>1 DEF Current
  <2>3. ~ worker.ok /\ Current.attempts >= 1
    BY <2>1 DEF WorkerNews
  <2> QED
    BY <2>1, <2>2, <2>3 DEF WorkerNews
<1>9. CASE Signal \/ EnrichSelect \/ EnrichInsert \/ EnrichFails
  <2>1. AfterEnrich.pc \in {"poll", "enrich"} /\ IdleWorker.pc = "poll"
    BY <1>0 DEF AfterEnrich, IdleWorker, Worker
  <2>2. worker'.pc \in {"poll", "enrich", "insert"}
    BY <1>0, <1>9, <2>1 DEF Signal, EnrichSelect, EnrichInsert, EnrichFails, Worker
  <2> QED
    BY <1>1, <2>2
<1> QED
  BY <1>2, <1>3, <1>4, <1>5, <1>6, <1>7, <1>8, <1>9 DEF WorkerStep

-----------------------------------------------------------------------------
(* What a waiting tool call is told. *)

\* A call that has not begun to wait carries no outcome, so that what it waits
\* with is what the signal of its job left there.
Unanswered ==
    \A p \in Clients : call[p].pc \notin {"waiting", "done"} => call[p].outcome = "Pending"

\* SignalledOutcome with what it rests on.
OutcomeInv == WorkerNews /\ Unanswered /\ SignalledOutcome

\* A step of one client never makes up an outcome: unless the call is done, or
\* was answered while it waits, it is still pending (enqueue_on_demand,
\* wait_for_job).
LEMMA ClientOutcome ==
    ASSUME Core, Unanswered, NEW p \in Clients,
           \/ \E c \in Crates, t \in ToolScopes : ToolBegins(p, c, t) \/ IndexCrates(p, c, t)
           \/ \E c \in Crates, k \in FeederKinds : FeederBegins(p, c, k)
           \/ Enqueue(p) \/ FeederNotifies(p) \/ Register(p) \/ Subscribe(p)
           \/ Receive(p) \/ Timeout(p) \/ ToolReturns(p)
    PROVE  call'[p].pc # "done" => call'[p].outcome = "Pending"
<1> USE DEF SetCall
<1>0. call \in [Clients -> Call] /\ call[p] \in Call /\ IdleCall \in Call
  BY IdleTypes DEF Core, TypeOK
<1>1. IdleCall.outcome = "Pending"
  BY DEF IdleCall
<1>2. call[p].pc \in {"select", "insert", "register", "subscribe"} => call[p].outcome = "Pending"
  BY DEF Unanswered
<1>3. ASSUME call[p].outcome = "Pending", NEW j, NEW w
      PROVE  AfterEnqueue(p, j, w).outcome = "Pending"
  <2>1. [call[p] EXCEPT !.pc = "register", !.job = j].outcome = "Pending"
    BY <1>0, <1>3 DEF Call
  <2>2. [IdleCall EXCEPT !.pc = "notify"].outcome = "Pending"
    BY <1>0, <1>1 DEF Call
  <2> QED
    BY <1>1, <2>1, <2>2 DEF AfterEnqueue
<1>4. CASE \E c \in Crates, t \in ToolScopes : ToolBegins(p, c, t) \/ IndexCrates(p, c, t)
  <2>1. PICK c \in Crates, t \in ToolScopes :
            call'[p] = [IdleCall EXCEPT !.pc = "select", !.crate = c, !.scope = t]
    BY <1>0, <1>4 DEF ToolBegins, IndexCrates
  <2> QED
    BY <1>0, <1>1, <2>1 DEF Call
<1>5. CASE \E c \in Crates, k \in FeederKinds : FeederBegins(p, c, k)
  <2>1. PICK c \in Crates, k \in FeederKinds :
            call'[p] = [IdleCall EXCEPT !.pc = "select", !.crate = c,
                                        !.scope = FeederScope[k], !.trigger = k]
    BY <1>0, <1>5 DEF FeederBegins
  <2> QED
    BY <1>0, <1>1, <2>1 DEF Call
<1>6. CASE SelectExisting(p) \/ Insert(p)
  BY <1>0, <1>2, <1>3, <1>6 DEF SelectExisting, Insert
<1>7. CASE SelectNone(p) \/ Register(p)
  <2>1. /\ call[p].outcome = "Pending"
        /\ call'[p] = [call[p] EXCEPT !.pc = "insert"]
           \/ call'[p] = [call[p] EXCEPT !.pc = "subscribe"]
    BY <1>0, <1>2, <1>7 DEF SelectNone, Register
  <2> QED
    BY <1>0, <2>1 DEF Call
<1>8. CASE EnqueueFails(p) \/ FeederNotifies(p) \/ ToolReturns(p) \/ Receive(p) \/ Timeout(p)
  <2>1. \/ call'[p] = IdleCall
        \/ call'[p] = [call[p] EXCEPT !.pc = "done"]
        \/ \E o \in {"Error", "TimedOut"} :
               call'[p] = [call[p] EXCEPT !.pc = "done", !.outcome = o]
    BY <1>0, <1>8 DEF EnqueueFails, FeederNotifies, ToolReturns, Receive, Timeout
  <2>2. \A o : [call[p] EXCEPT !.pc = "done", !.outcome = o].pc = "done"
    BY <1>0 DEF Call
  <2>3. [call[p] EXCEPT !.pc = "done"].pc = "done"
    BY <1>0 DEF Call
  <2> QED
    BY <1>1, <2>1, <2>2, <2>3
<1>9. CASE Subscribe(p)
  <2>1. /\ call[p].outcome = "Pending"
        /\ \/ call'[p] = [call[p] EXCEPT !.pc = "waiting"]
           \/ call'[p] = [call[p] EXCEPT !.pc = "done", !.outcome = "Completed"]
    BY <1>0, <1>2, <1>9 DEF Subscribe
  <2> QED
    BY <1>0, <2>1 DEF Call
<1> QED
  BY <1>4, <1>5, <1>6, <1>7, <1>8, <1>9 DEF Enqueue

\* An answer that was true stays true: nothing takes back the crate row, the
\* finished row or the attempt it was about.
LEMMA AnswerKept ==
    ASSUME Core, SignalledOutcome, [Next]_vars, NEW t \in Tools,
           call[t].pc = "waiting", call'[t] = call[t]
    PROVE  /\ call'[t].outcome = "Completed" =>
                /\ call'[t].scope \in CrateScopes => crateRow'[call'[t].crate] # "absent"
                /\ faults' = 0 => jobs'[call'[t].job].status = "finished"
           /\ call'[t].outcome = "Failed" => jobs'[call'[t].job].attempts >= 1
<1>1. call[t] \in Call /\ call[t].job \in Ids
  BY DEF Core, TypeOK, CallJob, Registered, Clients
<1>2. call[t].crate \in Crates
  BY <1>1 DEF Call
<1>3. /\ call[t].outcome = "Completed" =>
            /\ call[t].scope \in CrateScopes => crateRow[call[t].crate] # "absent"
            /\ faults = 0 => jobs[call[t].job].status = "finished"
      /\ call[t].outcome = "Failed" => jobs[call[t].job].attempts >= 1
  BY DEF SignalledOutcome
<1>4. /\ jobs[call[t].job].status = "finished" => jobs'[call[t].job].status = "finished"
      /\ jobs[call[t].job].attempts >= 1 => jobs'[call[t].job].attempts >= 1
  <2>1. jobs[call[t].job] \in Job /\ jobs'[call[t].job] \in Job
    <3>1. jobs \in Seq(Job) /\ jobs' \in Seq(Job)
      BY CoreStep DEF Core, TypeOK
    <3>2. call[t].job \in Ids'
      BY <1>1, OldRowKept
    <3> QED
      BY <1>1, <3>1, <3>2, ElementOfSeq DEF Ids
  <2>2. jobs[call[t].job].attempts \in Nat /\ jobs'[call[t].job].attempts \in Nat
    BY <2>1, QueueAssumption DEF Job
  <2>3. /\ jobs[call[t].job].status = "finished" => jobs'[call[t].job].status = "finished"
        /\ jobs'[call[t].job].attempts >= jobs[call[t].job].attempts
    BY <1>1, OldRowKept
  <2> QED
    BY <2>2, <2>3
<1>5. /\ crateRow[call[t].crate] # "absent" => crateRow'[call[t].crate] # "absent"
      /\ faults' = 0 => faults = 0
  BY <1>2, CrateRowKept, FaultsRemain
<1> QED
  BY <1>3, <1>4, <1>5

\* signal_completion answers its subscribers with what the worker knows.
LEMMA AnswerGiven ==
    ASSUME Core, WorkerNews, Signal, NEW t \in Tools,
           worker.job \in waiters, t \in Subscribers(worker.job)
    PROVE  /\ call'[t].outcome = "Completed" =>
                /\ call'[t].scope \in CrateScopes => crateRow'[call'[t].crate] # "absent"
                /\ faults' = 0 => jobs'[call'[t].job].status = "finished"
           /\ call'[t].outcome = "Failed" => jobs'[call'[t].job].attempts >= 1
<1>1. /\ t \in Clients /\ call[t] \in Call
      /\ call[t].pc = "waiting" /\ call[t].job = worker.job
  BY DEF Subscribers, Clients, Core, TypeOK
<1>2. call[t].crate = Current.crate /\ call[t].scope = Current.scope
  BY <1>1 DEF Core, CallJob, Registered, Current
<1>3. /\ call'[t] = SignalTo(t) /\ call'[t].job = worker.job
      /\ call'[t].crate = Current.crate /\ call'[t].scope = Current.scope
  BY <1>1, <1>2, SignalCalls
<1>4. worker.pc = "signal" /\ UNCHANGED <<jobs, crateRow, faults>>
  BY DEF Signal
<1>5. call'[t].outcome = IF worker.ok THEN "Completed" ELSE "Failed"
  BY <1>1, <1>3 DEF SignalTo, Call
<1>6. Current.attempts >= 1
  BY <1>4 DEF WorkerNews
<1>7. worker.ok => /\ Current.scope \in CrateScopes => crateRow[Current.crate] # "absent"
                   /\ faults = 0 => Current.status = "finished"
  BY <1>4 DEF WorkerNews
<1>8. CASE worker.ok
  BY <1>3, <1>4, <1>5, <1>7, <1>8 DEF Current
<1>9. CASE ~ worker.ok
  BY <1>3, <1>4, <1>5, <1>6, <1>9 DEF Current
<1> QED
  BY <1>8, <1>9

\* Every step keeps the answers true.
LEMMA OutcomeStep ==
    ASSUME Core, OutcomeInv, [Next]_vars
    PROVE  OutcomeInv'
<1> USE DEF OutcomeInv
<1>0. call \in [Clients -> Call] /\ Tools \subseteq Clients /\ Feeders \subseteq Clients
  BY DEF Core, TypeOK, Clients
<1>1. WorkerNews'
  <2>1. CASE WorkerStep
    BY <2>1, NewsWorker
  <2>2. CASE UNCHANGED worker
    BY <2>2, NewsKept
  <2>3. CASE Crash
    BY <2>3 DEF Crash, WorkerNews, IdleWorker
  <2> QED
    BY <2>1, <2>2, <2>3, OthersLeaveWorker
<1>2. ASSUME NEW p \in Clients,
             \A q \in Clients : q # p => call'[q] = call[q],
             call'[p].pc # "done" => call'[p].outcome = "Pending"
      PROVE  Unanswered' /\ SignalledOutcome'
  <2>1. Unanswered'
    BY <1>2 DEF Unanswered
  <2>2. SignalledOutcome'
    <3> SUFFICES ASSUME NEW t \in Tools, call'[t].pc = "waiting"
                 PROVE  /\ call'[t].outcome = "Completed" =>
                             /\ call'[t].scope \in CrateScopes =>
                                    crateRow'[call'[t].crate] # "absent"
                             /\ faults' = 0 => jobs'[call'[t].job].status = "finished"
                        /\ call'[t].outcome = "Failed" => jobs'[call'[t].job].attempts >= 1
      BY DEF SignalledOutcome
    <3>1. CASE t = p
      BY <1>2, <3>1
    <3>2. CASE t # p
      <4>1. call'[t] = call[t]
        BY <1>0, <1>2, <3>2
      <4> QED
        BY <4>1, AnswerKept
    <3> QED
      BY <3>1, <3>2
  <2> QED
    BY <2>1, <2>2
<1>3. CASE \E t \in Tools :
               \/ \E c \in Crates, s \in ToolScopes :
                      ToolBegins(t, c, s) \/ IndexCrates(t, c, s)
               \/ ToolStep(t)
               \/ Timeout(t)
  BY <1>0, <1>1, <1>2, <1>3, ClientCall, ClientOutcome DEF ToolStep
<1>4. CASE \E f \in Feeders :
               \/ \E c \in Crates, k \in FeederKinds : FeederBegins(f, c, k)
               \/ FeederStep(f)
  BY <1>0, <1>1, <1>2, <1>4, ClientCall, ClientOutcome DEF FeederStep
<1>5. CASE Signal
  <2>1. \A p \in Clients : call'[p] = SignalTo(p) /\ call'[p].pc = call[p].pc
    BY <1>5, SignalCalls
  <2>2. \A p \in Clients :
            ~ (worker.job \in waiters /\ p \in Subscribers(worker.job)) => call'[p] = call[p]
    BY <2>1 DEF SignalTo
  <2>3. Unanswered'
    BY <1>0, <2>1, <2>2 DEF Unanswered, Subscribers
  <2>4. SignalledOutcome'
    <3> SUFFICES ASSUME NEW t \in Tools, call'[t].pc = "waiting"
                 PROVE  /\ call'[t].outcome = "Completed" =>
                             /\ call'[t].scope \in CrateScopes =>
                                    crateRow'[call'[t].crate] # "absent"
                             /\ faults' = 0 => jobs'[call'[t].job].status = "finished"
                        /\ call'[t].outcome = "Failed" => jobs'[call'[t].job].attempts >= 1
      BY DEF SignalledOutcome
    <3>1. CASE worker.job \in waiters /\ t \in Subscribers(worker.job)
      BY <1>5, <3>1, AnswerGiven
    <3>2. CASE ~ (worker.job \in waiters /\ t \in Subscribers(worker.job))
      <4>1. call'[t] = call[t] /\ call[t].pc = "waiting"
        BY <1>0, <2>1, <2>2, <3>2
      <4> QED
        BY <4>1, AnswerKept
    <3> QED
      BY <3>1, <3>2
  <2> QED
    BY <1>1, <2>3, <2>4
<1>6. CASE Crash
  <2>1. \A p \in Clients : call'[p].pc = "idle" /\ call'[p].outcome = "Pending"
    BY <1>6 DEF Crash, IdleCall
  <2> QED
    BY <1>0, <1>1, <2>1 DEF Unanswered, SignalledOutcome
<1>7. CASE UNCHANGED call
  <2>1. Unanswered'
    BY <1>7 DEF Unanswered
  <2>2. SignalledOutcome'
    BY <1>0, <1>7, AnswerKept DEF SignalledOutcome
  <2> QED
    BY <1>1, <2>1, <2>2
<1> QED
  BY <1>3, <1>4, <1>5, <1>6, <1>7, WorkerLeavesCalls DEF Next, vars

\* signal_completion tells the truth to whoever waits: after Completed a crate
\* job has committed its crate row and, unless a database call failed, is
\* finished; after Failed the job was attempted.  Restarts, retries and later
\* jobs do not make an answer false that was not yet received.
THEOREM SignalIsTrue == Spec => []SignalledOutcome
<1>1. Init => OutcomeInv
  <2> SUFFICES ASSUME Init PROVE OutcomeInv
    OBVIOUS
  <2>1. worker.pc = "poll"
    BY DEF Init, IdleWorker
  <2>2. \A p \in Clients : call[p].pc = "idle" /\ call[p].outcome = "Pending"
    BY DEF Init, IdleCall
  <2> QED
    BY <2>1, <2>2 DEF OutcomeInv, WorkerNews, Unanswered, SignalledOutcome, Clients
<1>2. Core /\ OutcomeInv /\ [Next]_vars => OutcomeInv'
  BY OutcomeStep
<1>3. OutcomeInv => SignalledOutcome
  BY DEF OutcomeInv
<1> QED
  BY <1>1, <1>2, <1>3, CoreInvariant, PTL DEF Spec

-----------------------------------------------------------------------------
(* The enrichment jobs of a finished crate job. *)

EnrichmentScopes == {"local_cache", "rustdoc_json"}

HasRow(c, s) == \E k \in Ids : jobs[k].crate = c /\ jobs[k].scope = s

\* The worker has finished job j and has not been through both enrichment
\* scopes yet.
Enriching(j) ==
    /\ worker.job = j
    /\ \/ worker.pc = "signal" /\ worker.ok
       \/ worker.pc \in {"enrich", "insert"}

\* No call failed, no restart dropped the worker's place, the table has room.
Undisturbed == faults = 0 /\ crashes = 0 /\ ~ TableFull

\* EnrichmentFollows, made inductive: it holds wherever the worker is, except
\* for the job it is enriching, and there it keeps account of how far it came.
EnrichmentOwed ==
    Undisturbed =>
        /\ \A j \in Ids :
               jobs[j].status = "finished" /\ jobs[j].scope \in CrateScopes =>
                   Enriching(j) \/ \A s \in EnrichmentScopes : HasRow(jobs[j].crate, s)
        /\ worker.pc \in {"enrich", "insert"} /\ worker.scope = "rustdoc_json" =>
               HasRow(Current.crate, "local_cache")

\* What disturbs the enrichment is never undone: rows are not deleted.
LEMMA UndisturbedBefore ==
    ASSUME Core, [Next]_vars, Undisturbed'
    PROVE  Undisturbed
<1>0. Len(jobs) \in Nat /\ Len(jobs') \in Nat /\ MaxJobs \in Nat
  BY CoreStep, LenProperties, QueueAssumption DEF Core, TypeOK
<1>1. Len(jobs') >= Len(jobs)
  <2>1. CASE Len(jobs) = 0
    BY <1>0, <2>1
  <2>2. CASE Len(jobs) # 0
    <3>1. Len(jobs) \in Ids
      BY <1>0, <2>2 DEF Ids
    <3>2. Len(jobs) \in Ids'
      BY <3>1, OldRowKept
    <3> QED
      BY <1>0, <3>2 DEF Ids
  <2> QED
    BY <2>1, <2>2
<1> QED
  BY <1>0, <1>1, FaultsRemain DEF Undisturbed, TableFull

\* A row that is finished after a step was finished before, unless the step
\* recorded its success.
LEMMA NewlyFinished ==
    ASSUME Core, [Next]_vars, ~ RecordFinished, NEW j \in Ids', jobs'[j].status = "finished"
    PROVE  j \in Ids /\ jobs[j].status = "finished"
<1>0. jobs \in Seq(Job) /\ Len(jobs) \in Nat
  BY LenProperties DEF Core, TypeOK
<1>1. ASSUME \E i \in Ids : \E row \in Job : SetJob(i, row) /\ row.status # "finished"
      PROVE  j \in Ids /\ jobs[j].status = "finished"
  <2>1. PICK i \in Ids, row \in Job : SetJob(i, row) /\ row.status # "finished"
    BY <1>1
  <2>2. /\ Len(jobs') = Len(jobs)
        /\ \A k \in Ids : jobs'[k] = IF k = i THEN row ELSE jobs[k]
    BY <1>0, <2>1, SetJobType
  <2> QED
    BY <2>1, <2>2 DEF Ids
<1>2. ASSUME NEW i \in Ids, Claim(i) \/ RetryDelayElapses(i)
      PROVE  \E k \in Ids : \E row \in Job : SetJob(k, row) /\ row.status # "finished"
  <2>1. jobs[i] \in Job /\ jobs[i].status = "pending"
    BY <1>0, <1>2, RowType DEF Claim, NextClaims, Claimable, RetryDelayElapses
  <2>2. CASE Claim(i)
    <3> DEFINE row == [jobs[i] EXCEPT !.status = "running", !.attempts = @ + 1]
    <3>1. jobs[i].attempts + 1 \in 0..MaxAttempts
      BY <2>1, QueueAssumption DEF Core, AttemptBudget, Job
    <3>2. row = [jobs[i] EXCEPT !.status = "running", !.attempts = jobs[i].attempts + 1]
      BY <2>1 DEF Job
    <3>3. row \in Job /\ row.status = "running" /\ SetJob(i, row)
      BY <2>1, <2>2, <3>1, <3>2 DEF Job, Active, Claim
    <3> HIDE DEF row
    <3> QED
      BY <3>3
  <2>3. CASE RetryDelayElapses(i)
    <3> DEFINE row == [jobs[i] EXCEPT !.due = TRUE]
    <3>1. row \in Job /\ row.status = "pending" /\ SetJob(i, row)
      BY <2>1, <2>3 DEF Job, RetryDelayElapses
    <3> HIDE DEF row
    <3> QED
      BY <3>1
  <2> QED
    BY <1>2, <2>2, <2>3
<1>3. ASSUME RecordFailure
      PROVE  \E k \in Ids : \E row \in Job : SetJob(k, row) /\ row.status # "finished"
  <2>1. worker.job \in Ids /\ Current \in Job
    BY <1>0, <1>3, RowType DEF RecordFailure, Core, WorkerJob, Current
  <2> DEFINE given == [Current EXCEPT !.status = "failed"]
             requeued == [Current EXCEPT !.status = "pending", !.due = FALSE]
  <2>2. /\ given \in Job /\ requeued \in Job
        /\ given.status = "failed" /\ requeued.status = "pending"
    BY <2>1 DEF Job, Active, Settled
  <2>3. SetJob(worker.job, given) \/ SetJob(worker.job, requeued)
    BY <1>3 DEF RecordFailure
  <2> HIDE DEF given, requeued
  <2> QED
    BY <2>1, <2>2, <2>3
<1>4. CASE UNCHANGED jobs
  BY <1>4 DEF Ids
<1>5. CASE RowInserted
  <2>1. PICK row \in Job : jobs' = Append(jobs, row) /\ row.status = "pending"
    BY <1>5 DEF RowInserted
  <2>2. /\ Len(jobs') = Len(jobs) + 1
        /\ \A i \in Ids : jobs'[i] = jobs[i]
        /\ jobs'[Len(jobs) + 1] = row
    BY <1>0, <2>1, InsertType
  <2> QED
    BY <1>0, <2>1, <2>2 DEF Ids
<1>6. \/ UNCHANGED jobs \/ RowInserted \/ RecordFailure
      \/ \E i \in Ids : Claim(i) \/ RetryDelayElapses(i)
  <2>1. ASSUME NEW p \in Clients, Enqueue(p) PROVE UNCHANGED jobs \/ RowInserted
    BY <2>1, InsertMoves DEF Enqueue, SelectExisting, SelectNone, EnqueueFails
  <2>2. ASSUME NEW t \in Tools,
               \/ \E c \in Crates, s \in ToolScopes :
                      ToolBegins(t, c, s) \/ IndexCrates(t, c, s)
               \/ ToolStep(t)
               \/ Timeout(t)
        PROVE  UNCHANGED jobs \/ RowInserted
    BY <2>1, <2>2 DEF ToolBegins, IndexCrates, ToolStep, Timeout, Register, Subscribe,
                      Receive, ToolReturns, Clients
  <2>3. ASSUME NEW f \in Feeders,
               \/ \E c \in Crates, k \in FeederKinds : FeederBegins(f, c, k)
               \/ FeederStep(f)
        PROVE  UNCHANGED jobs \/ RowInserted
    BY <2>1, <2>3 DEF FeederBegins, FeederStep, FeederNotifies, Clients
  <2>4. CASE WorkerStep
    BY <2>4, InsertMoves
    DEF WorkerStep, ClaimNone, FallAsleep, ClaimFails, Notified, PollIntervalElapses,
        ExecSucceeds, ExecFails, RecordFails, FlagCrate, Signal, EnrichSelect, EnrichFails
  <2> QED
    BY <2>2, <2>3, <2>4 DEF Next, Crash, vars
<1> QED
  BY <1>1, <1>2, <1>3, <1>4, <1>5, <1>6

\* How the worker leaves a finished job: without a fault it goes from the
\* signal through the two scopes in turn, and leaves a scope only when its
\* crate has a row for it (the loop over the enrichment scopes).
LEMMA EnrichmentCourse ==
    ASSUME Core, Undisturbed', WorkerStep, NEW c, c = Current.crate,
           \/ worker.pc = "signal" /\ worker.ok /\ Current.scope \in CrateScopes
           \/ worker.pc \in {"enrich", "insert"}
    PROVE  \/ /\ worker'.job = worker.job
              /\ worker'.pc \in {"enrich", "insert"}
              /\ worker'.scope = "rustdoc_json" =>
                     \/ worker.pc \in {"enrich", "insert"} /\ worker.scope = "rustdoc_json"
                     \/ HasRow(c, "local_cache")'
           \/ /\ worker'.pc = "poll"
              /\ worker.pc \in {"enrich", "insert"} /\ worker.scope = "rustdoc_json"
              /\ HasRow(c, "rustdoc_json")'
<1>0. worker \in Worker /\ jobs \in Seq(Job) /\ Len(jobs) \in Nat /\ faults \in Nat
  BY LenProperties, QueueAssumption DEF Core, TypeOK
<1>s. PICK s : s = worker.scope
  OBVIOUS
<1>1. CASE Signal
  <2>1. worker.ok /\ Current.scope \in CrateScopes
    BY <1>1 DEF Signal
  <2>2. worker' = [worker EXCEPT !.pc = "enrich", !.scope = "local_cache"]
    BY <1>1, <2>1 DEF Signal
  <2>3. worker'.job = worker.job /\ worker'.pc = "enrich" /\ worker'.scope = "local_cache"
    BY <1>0, <2>2 DEF Worker
  <2> QED
    BY <2>3
<1>2. ASSUME worker.pc \in {"enrich", "insert"}, worker' = AfterEnrich,
             HasRow(c, s)'
      PROVE  \/ /\ worker'.job = worker.job
                /\ worker'.pc \in {"enrich", "insert"}
                /\ HasRow(c, "local_cache")'
             \/ /\ worker'.pc = "poll"
                /\ worker.scope = "rustdoc_json"
                /\ HasRow(c, "rustdoc_json")'
  <2>1. CASE worker.scope = "local_cache"
    <3>1. worker' = [worker EXCEPT !.pc = "enrich", !.scope = "rustdoc_json"]
      BY <1>2, <2>1 DEF AfterEnrich
    <3>2. worker'.job = worker.job /\ worker'.pc = "enrich"
      BY <1>0, <3>1 DEF Worker
    <3>3. HasRow(c, "local_cache")'
      BY <1>2, <1>s, <2>1
    <3> QED
      BY <3>2, <3>3
  <2>2. CASE worker.scope = "rustdoc_json"
    <3>1. worker'.pc = "poll"
      BY <1>2, <2>2 DEF AfterEnrich, IdleWorker
    <3>2. HasRow(c, "rustdoc_json")'
      BY <1>2, <1>s, <2>2
    <3> QED
      BY <2>2, <3>1, <3>2
  <2> QED
    BY <1>0, <2>1, <2>2 DEF Worker
<1>3. CASE EnrichSelect
  <2>1. CASE ActiveJobs(Current.crate, worker.scope) # {}
    <3>1. worker.pc = "enrich" /\ worker' = AfterEnrich /\ UNCHANGED jobs
      BY <1>3, <2>1 DEF EnrichSelect
    <3>2. \E k \in Ids : jobs[k].crate = c /\ jobs[k].scope = s
      BY <1>s, <2>1 DEF ActiveJobs
    <3>3. \E k \in Ids' : jobs'[k].crate = c /\ jobs'[k].scope = s
      BY <3>1, <3>2 DEF Ids
    <3> QED
      BY <1>2, <3>1, <3>3 DEF HasRow
  <2>2. CASE ActiveJobs(Current.crate, worker.scope) = {}
    <3>1. worker.pc = "enrich" /\ worker' = [worker EXCEPT !.pc = "insert"]
      BY <1>3, <2>2 DEF EnrichSelect
    <3>2. /\ worker'.job = worker.job /\ worker'.pc = "insert"
          /\ worker'.scope = worker.scope
      BY <1>0, <3>1 DEF Worker
    <3> QED
      BY <3>1, <3>2
  <2> QED
    BY <2>1, <2>2
<1>4. CASE EnrichInsert
  <2>1. /\ worker.pc = "insert" /\ worker' = AfterEnrich
        /\ jobs' = Append(jobs, NewJob(c, worker.scope, "proactive_enrich"))
    BY <1>4 DEF EnrichInsert
  <2>2. NewJob(c, worker.scope, "proactive_enrich") \in Job
    <3>1. Current \in Job
      BY <2>1, <1>0, RowType DEF Core, WorkerJob, Current
    <3>2. c \in Crates /\ worker.scope \in Scopes /\ "proactive_enrich" \in Triggers
      BY <1>0, <3>1 DEF Job, Worker, Scopes, Triggers
    <3> QED
      BY <3>2, NewJobType
  <2>3. /\ Len(jobs') = Len(jobs) + 1
        /\ jobs'[Len(jobs) + 1] = NewJob(c, worker.scope, "proactive_enrich")
    BY <1>0, <2>1, <2>2, InsertType
  <2>4. \E k \in Ids' : jobs'[k].crate = c /\ jobs'[k].scope = s
    <3>1. Len(jobs) + 1 \in Ids'
      BY <1>0, <2>3 DEF Ids
    <3> QED
      BY <1>s, <2>3, <3>1 DEF NewJob
  <2> QED
    BY <1>2, <2>1, <2>4 DEF HasRow
<1>5. CASE EnrichFails
  <2>1. TableFull' \/ faults' # 0
    BY <1>0, <1>5 DEF EnrichFails, DbFault, TableFull
  <2> QED
    BY <2>1 DEF Undisturbed
<1> QED
  BY <1>1, <1>3, <1>4, <1>5
  DEF WorkerStep, Claim, ClaimNone, FallAsleep, ClaimFails, Notified, PollIntervalElapses,
      ExecSucceeds, ExecFails, RecordFinished, RecordFailure, RecordFails, FlagCrate

\* Every step keeps account of the enrichment that is owed.
LEMMA EnrichmentStep ==
    ASSUME Core, EnrichmentOwed, [Next]_vars
    PROVE  EnrichmentOwed'
<1> SUFFICES ASSUME Undisturbed'
             PROVE  /\ \A j \in Ids' :
                           jobs'[j].status = "finished" /\ jobs'[j].scope \in CrateScopes =>
                               \/ Enriching(j)'
                               \/ \A s \in EnrichmentScopes : HasRow(jobs[j].crate, s)'
                    /\ worker'.pc \in {"enrich", "insert"} /\ worker'.scope = "rustdoc_json" =>
                           HasRow(Current.crate, "local_cache")'
  BY DEF EnrichmentOwed
<1>0. /\ worker \in Worker /\ jobs \in Seq(Job)
      /\ Undisturbed
  BY UndisturbedBefore DEF Core, TypeOK
<1>1. /\ \A j \in Ids :
             jobs[j].status = "finished" /\ jobs[j].scope \in CrateScopes =>
                 Enriching(j) \/ \A s \in EnrichmentScopes : HasRow(jobs[j].crate, s)
      /\ worker.pc \in {"enrich", "insert"} /\ worker.scope = "rustdoc_json" =>
             HasRow(Current.crate, "local_cache")
  BY <1>0 DEF EnrichmentOwed
\* A job that was through with its enrichment stays so.
<1>2. ASSUME NEW j \in Ids, \A s \in EnrichmentScopes : HasRow(jobs[j].crate, s)
      PROVE  \A s \in EnrichmentScopes : HasRow(jobs[j].crate, s)'
  <2>1. jobs'[j].crate = jobs[j].crate
    BY OldRowKept
  <2>2. ASSUME NEW s \in EnrichmentScopes
        PROVE  HasRow(jobs[j].crate, s)'
    <3> DEFINE c == jobs[j].crate
    <3>1. HasRow(c, s)
      BY <1>2
    <3>2. PICK k \in Ids : jobs[k].crate = c /\ jobs[k].scope = s
      BY <3>1 DEF HasRow
    <3>3. k \in Ids' /\ jobs'[k].crate = jobs'[j].crate /\ jobs'[k].scope = s
      BY <2>1, <3>2, OldRowKept
    <3> QED
      BY <3>3 DEF HasRow
  <2> QED
    BY <2>2
<1>3. CASE UNCHANGED worker
  <2>1. ~ RecordFinished
    BY <1>0, <1>3 DEF RecordFinished, Worker
  <2>2. ASSUME NEW j \in Ids', jobs'[j].status = "finished", jobs'[j].scope \in CrateScopes
        PROVE  Enriching(j)' \/ \A s \in EnrichmentScopes : HasRow(jobs[j].crate, s)'
    <3>1. j \in Ids /\ jobs[j].status = "finished" /\ jobs[j].scope \in CrateScopes
      BY <2>1, <2>2, NewlyFinished, OldRowKept
    <3>2. CASE Enriching(j)
      BY <1>3, <3>2 DEF Enriching
    <3> QED
      BY <1>1, <1>2, <3>1, <3>2
  <2>3. ASSUME worker'.pc \in {"enrich", "insert"}, worker'.scope = "rustdoc_json"
        PROVE  HasRow(Current.crate, "local_cache")'
    <3>1. worker.job \in Ids /\ HasRow(Current.crate, "local_cache")
      BY <1>1, <1>3, <2>3 DEF Core, WorkerJob
    <3>2. PICK k \in Ids : jobs[k].crate = Current.crate /\ jobs[k].scope = "local_cache"
      BY <3>1 DEF HasRow
    <3>3. Current'.crate = Current.crate
      BY <1>3, <3>1, OldRowKept DEF Current
    <3>4. k \in Ids' /\ jobs'[k].crate = Current'.crate /\ jobs'[k].scope = "local_cache"
      BY <3>2, <3>3, OldRowKept
    <3> QED
      BY <3>4 DEF HasRow
  <2> QED
    BY <2>2, <2>3
<1>4. CASE Crash
  <2>1. crashes \in Nat /\ crashes' = crashes + 1 /\ crashes' = 0
    BY <1>4, QueueAssumption DEF Crash, Undisturbed, Core, TypeOK
  <2> QED
    BY <2>1
<1>5. CASE RecordFinished
  <2>1. worker' = [worker EXCEPT !.pc = "signal"] /\ worker.ok /\ worker.job \in Ids
        /\ worker.pc = "record"
    BY <1>5 DEF RecordFinished, Core, WorkerJob
  <2>2. worker'.pc = "signal" /\ worker'.ok /\ worker'.job = worker.job
    BY <1>0, <2>1 DEF Worker
  <2>3. Current \in Job /\ SetJob(worker.job, [Current EXCEPT !.status = "finished"])
    BY <1>0, <1>5, <2>1, RowType DEF RecordFinished, Current
  <2>4. [Current EXCEPT !.status = "finished"] \in Job
    BY <2>3 DEF Job, Settled
  <2>5. /\ Len(jobs') = Len(jobs)
        /\ \A i \in Ids : i # worker.job => jobs'[i] = jobs[i]
    BY <1>0, <2>1, <2>3, <2>4, SetJobType
  <2>6. ASSUME NEW j \in Ids', jobs'[j].status = "finished", jobs'[j].scope \in CrateScopes
        PROVE  Enriching(j)' \/ \A s \in EnrichmentScopes : HasRow(jobs[j].crate, s)'
    <3>1. CASE j = worker.job
      BY <2>2, <3>1 DEF Enriching
    <3>2. CASE j # worker.job
      <4>1. j \in Ids /\ jobs'[j] = jobs[j] /\ ~ Enriching(j)
        BY <2>5, <3>2 DEF Ids, Enriching
      <4> QED
        BY <1>1, <1>2, <2>6, <4>1
    <3> QED
      BY <3>1, <3>2
  <2> QED
    BY <2>2, <2>6
<1>6. CASE WorkerStep /\ ~ RecordFinished /\ worker.pc \notin {"signal", "enrich", "insert"}
  <2>1. worker'.pc \notin {"enrich", "insert"}
    BY <1>0, <1>6
    DEF WorkerStep, Claim, ClaimNone, FallAsleep, ClaimFails, Notified, PollIntervalElapses,
        ExecSucceeds, ExecFails, RecordFailure, RecordFails, FlagCrate, Signal,
        EnrichSelect, EnrichInsert, EnrichFails, Worker
  <2>2. ASSUME NEW j \in Ids', jobs'[j].status = "finished", jobs'[j].scope \in CrateScopes
        PROVE  \A s \in EnrichmentScopes : HasRow(jobs[j].crate, s)'
    <3>1. j \in Ids /\ jobs[j].status = "finished" /\ jobs[j].scope \in CrateScopes
      BY <1>6, <2>2, NewlyFinished, OldRowKept
    <3>2. ~ Enriching(j)
      BY <1>6 DEF Enriching
    <3> QED
      BY <1>1, <1>2, <3>1, <3>2
  <2> QED
    BY <2>1, <2>2
<1>7. CASE /\ WorkerStep /\ ~ RecordFinished
           /\ \/ worker.pc = "signal" /\ worker.ok /\ Current.scope \in CrateScopes
              \/ worker.pc \in {"enrich", "insert"}
  <2> DEFINE c == Current.crate
  <2>1. worker.job \in Ids
    BY <1>7 DEF Core, WorkerJob
  <2>2. jobs'[worker.job].crate = c
    BY <2>1, OldRowKept DEF Current
  <2>3. ASSUME NEW s, HasRow(Current.crate, s)
        PROVE  \E k \in Ids' : jobs'[k].crate = c /\ jobs'[k].scope = s
    <3>1. PICK k \in Ids : jobs[k].crate = c /\ jobs[k].scope = s
      BY <2>3 DEF HasRow
    <3> QED
      BY <3>1, OldRowKept
  <2>4. \/ /\ worker'.job = worker.job
           /\ worker'.pc \in {"enrich", "insert"}
           /\ worker'.scope = "rustdoc_json" =>
                  \E k \in Ids' : jobs'[k].crate = c /\ jobs'[k].scope = "local_cache"
        \/ /\ worker'.pc = "poll"
           /\ \A s \in EnrichmentScopes :
                  \E k \in Ids' : jobs'[k].crate = c /\ jobs'[k].scope = s
    <3>1. PICK d : d = Current.crate
      OBVIOUS
    <3>2. \/ /\ worker'.job = worker.job
             /\ worker'.pc \in {"enrich", "insert"}
             /\ worker'.scope = "rustdoc_json" =>
                    \/ worker.pc \in {"enrich", "insert"} /\ worker.scope = "rustdoc_json"
                    \/ \E k \in Ids' : jobs'[k].crate = d /\ jobs'[k].scope = "local_cache"
          \/ /\ worker'.pc = "poll"
             /\ worker.pc \in {"enrich", "insert"} /\ worker.scope = "rustdoc_json"
             /\ \E k \in Ids' : jobs'[k].crate = d /\ jobs'[k].scope = "rustdoc_json"
      BY <1>7, <3>1, EnrichmentCourse DEF HasRow
    <3>3. worker.pc \in {"enrich", "insert"} /\ worker.scope = "rustdoc_json" =>
              \E k \in Ids' : jobs'[k].crate = c /\ jobs'[k].scope = "local_cache"
      BY <1>1, <2>3
    <3> QED
      BY <3>1, <3>2, <3>3 DEF EnrichmentScopes
  <2>5. ASSUME worker'.pc \in {"enrich", "insert"}, worker'.scope = "rustdoc_json"
        PROVE  HasRow(Current.crate, "local_cache")'
    <3>1. /\ worker'.job = worker.job
          /\ \E k \in Ids' : jobs'[k].crate = c /\ jobs'[k].scope = "local_cache"
      BY <2>4, <2>5
    <3> QED
      BY <2>2, <3>1 DEF HasRow, Current
  <2>6. ASSUME NEW j \in Ids', jobs'[j].status = "finished", jobs'[j].scope \in CrateScopes
        PROVE  Enriching(j)' \/ \A s \in EnrichmentScopes : HasRow(jobs[j].crate, s)'
    <3>1. j \in Ids /\ jobs[j].status = "finished" /\ jobs[j].scope \in CrateScopes
      BY <1>7, <2>6, NewlyFinished, OldRowKept
    <3>2. CASE ~ Enriching(j)
      BY <1>1, <1>2, <3>1, <3>2
    <3>3. CASE Enriching(j)
      <4>1. j = worker.job
        BY <3>3 DEF Enriching
      <4>2. CASE worker'.job = worker.job /\ worker'.pc \in {"enrich", "insert"}
        BY <4>1, <4>2 DEF Enriching
      <4>3. CASE \A s \in EnrichmentScopes :
                     \E k \in Ids' : jobs'[k].crate = c /\ jobs'[k].scope = s
        BY <2>2, <4>1, <4>3 DEF HasRow
      <4> QED
        BY <2>4, <4>2, <4>3
    <3> QED
      BY <3>2, <3>3
  <2> QED
    BY <2>5, <2>6
<1>8. CASE /\ WorkerStep /\ ~ RecordFinished
           /\ worker.pc = "signal" /\ ~ (worker.ok /\ Current.scope \in CrateScopes)
  <2>1. worker' = IdleWorker
    BY <1>8 DEF WorkerStep, Claim, ClaimNone, FallAsleep, ClaimFails, Notified,
                PollIntervalElapses, ExecSucceeds, ExecFails, RecordFailure, RecordFails,
                FlagCrate, Signal, EnrichSelect, EnrichInsert, EnrichFails
  <2>2. worker'.pc = "poll"
    BY <2>1 DEF IdleWorker
  <2>3. ASSUME NEW j \in Ids', jobs'[j].status = "finished", jobs'[j].scope \in CrateScopes
        PROVE  \A s \in EnrichmentScopes : HasRow(jobs[j].crate, s)'
    <3>1. j \in Ids /\ jobs[j].status = "finished" /\ jobs[j].scope \in CrateScopes
      BY <1>8, <2>3, NewlyFinished, OldRowKept
    <3>2. ~ Enriching(j)
      BY <1>8, <3>1 DEF Enriching, Current
    <3> QED
      BY <1>1, <1>2, <3>1, <3>2
  <2> QED
    BY <2>2, <2>3
<1> QED
  BY <1>3, <1>4, <1>5, <1>6, <1>7, <1>8, OthersLeaveWorker

\* A finished crate job is followed by its enrichment: whenever the worker is
\* back at the head of its loop, every crate that finished a crate job has a
\* row for each enrichment scope, unless a call failed, the process restarted
\* or the table is full.
THEOREM EnrichmentIsEnqueued == Spec => []EnrichmentFollows
<1>1. Init => EnrichmentOwed
  <2> SUFFICES ASSUME Init PROVE EnrichmentOwed
    OBVIOUS
  <2>1. Ids = {} /\ worker.pc = "poll"
    BY EmptySeq DEF Init, Ids, IdleWorker
  <2> QED
    BY <2>1 DEF EnrichmentOwed
<1>2. Core /\ EnrichmentOwed /\ [Next]_vars => EnrichmentOwed'
  BY EnrichmentStep
<1>3. EnrichmentOwed => EnrichmentFollows
  BY DEF EnrichmentOwed, EnrichmentFollows, Undisturbed, Enriching, EnrichmentScopes, HasRow
<1> QED
  BY <1>1, <1>2, <1>3, CoreInvariant, PTL DEF Spec
=============================================================================
