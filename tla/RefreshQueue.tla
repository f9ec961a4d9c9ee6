---------------------------- MODULE RefreshQueue ----------------------------
(***************************************************************************)
(* The on-demand indexing queue of rust-mcp: the refresh_jobs table, the    *)
(* single background worker that drains it, the IndexingCoordinator that    *)
(* lets a tool call wait for a job, and the tasks that feed the queue.      *)
(*                                                                          *)
(* Every database round trip of the code is a step of its own, because     *)
(* other tasks run between two of them.  A database call may fail (at most *)
(* MaxFaults times) and the process may stop and start again (at most      *)
(* MaxCrashes times): the table survives, everything in memory does not.   *)
(***************************************************************************)
EXTENDS Naturals, Sequences

CONSTANTS
    Crates,        \* crate names
    Tools,         \* concurrent tool calls
    Feeders,       \* background tasks and handlers that enqueue without waiting
    ToolScopes,    \* scopes the tools ask for
    FeederKinds,   \* triggers the feeders use
    MaxAttempts,   \* MAX_ATTEMPTS of the worker
    MaxJobs,       \* bound: rows of refresh_jobs
    MaxFaults,     \* bound: database calls that fail
    MaxCrashes     \* bound: restarts of the process

Triggers == {"on_demand", "backfill", "freshness", "cache_watch", "pre_warm",
             "discovery", "maintenance", "proactive_enrich"}

\* The priority each trigger inserts with (lower is more urgent).
Priority == [on_demand |-> 1, backfill |-> 5, freshness |-> 10,
             cache_watch |-> 20, pre_warm |-> 25, discovery |-> 50,
             maintenance |-> 75, proactive_enrich |-> 75]

\* The scope a feeder enqueues; a tool names its scope itself.
FeederScope == [backfill |-> "crate_deep_refresh",
                freshness |-> "crate_deep_refresh",
                cache_watch |-> "crate", pre_warm |-> "crate",
                discovery |-> "crate", maintenance |-> "rustdoc_json"]

\* Feeders that call notify_worker after a successful enqueue; maintenance
\* does so only when a row was inserted.
WakesOnNew == {"cache_watch", "pre_warm", "discovery", "maintenance"}
WakesOnExisting == {"cache_watch", "pre_warm", "discovery"}

CrateScopes == {"crate", "crate_deep_refresh"}
Scopes == CrateScopes \cup {"local_cache", "rustdoc_json"}

ASSUME QueueAssumption ==
    /\ Crates # {}
    /\ Tools \cap Feeders = {}
    /\ ToolScopes \subseteq {"crate", "local_cache", "rustdoc_json"}
    /\ FeederKinds \subseteq DOMAIN FeederScope
    /\ MaxAttempts \in Nat \ {0}
    /\ MaxJobs \in Nat
    /\ MaxFaults \in Nat
    /\ MaxCrashes \in Nat

VARIABLES
    jobs,      \* refresh_jobs in insertion order; a job id is an index
    crateRow,  \* the crates row: absent, clean, or with last_refresh_error set
    waiters,   \* ids that have a watch channel in IndexingCoordinator.waiters
    permit,    \* the permit stored in IndexingCoordinator.worker_notify
    call,      \* the tool calls and feeders
    worker,    \* the refresh worker
    faults,    \* database calls that failed so far
    crashes    \* restarts so far

vars == <<jobs, crateRow, waiters, permit, call, worker, faults, crashes>>

Clients == Tools \cup Feeders
Ids == 1..Len(jobs)
Active == {"pending", "running"}
Settled == {"finished", "failed"}

Job == [crate : Crates, scope : Scopes, trigger : Triggers,
        status : Active \cup Settled, attempts : 0..MaxAttempts, due : BOOLEAN]

Call == [pc : {"idle", "select", "insert", "notify", "register", "subscribe",
               "waiting", "done"},
         crate : Crates, scope : Scopes, trigger : Triggers, job : Nat,
         outcome : {"Pending", "Completed", "Failed", "TimedOut", "Error"}]

Worker == [pc : {"poll", "drained", "asleep", "backoff", "exec", "record",
                 "flag", "signal", "enrich", "insert"},
           job : Nat, ok : BOOLEAN, scope : {"local_cache", "rustdoc_json"}]

IdleWorker == [pc |-> "poll", job |-> 0, ok |-> FALSE, scope |-> "local_cache"]
IdleCall == [pc |-> "idle", crate |-> CHOOSE c \in Crates : TRUE,
             scope |-> "crate", trigger |-> "on_demand", job |-> 0,
             outcome |-> "Pending"]

Init ==
    /\ jobs = <<>>
    /\ crateRow = [c \in Crates |-> "absent"]
    /\ waiters = {}
    /\ permit = FALSE
    /\ call = [p \in Clients |-> IdleCall]
    /\ worker = IdleWorker
    /\ faults = 0
    /\ crashes = 0

-----------------------------------------------------------------------------
(* The refresh_jobs table. *)

\* The ids the SELECT of enqueue_or_get_refresh_job_id can return.
ActiveJobs(c, s) ==
    {j \in Ids : /\ jobs[j].crate = c
                 /\ jobs[j].scope = s
                 /\ jobs[j].status \in Active}

\* ORDER BY id ASC LIMIT 1.
IsOldest(j, S) == j \in S /\ \A k \in S : j <= k

NewJob(c, s, t) == [crate |-> c, scope |-> s, trigger |-> t,
                    status |-> "pending", attempts |-> 0, due |-> TRUE]

TableFull == Len(jobs) >= MaxJobs

\* Mutant: the claim also takes rows that were given up.
ClaimableRevived == {j \in Ids : /\ jobs[j].status \in {"pending", "failed"}
                                 /\ jobs[j].attempts < MaxAttempts + 1
                                 /\ jobs[j].due}

\* Mutant: an off-by-one in the claim leaves the last attempt unclaimed.
ClaimableTooFew == {j \in Ids : /\ jobs[j].status = "pending"
                                /\ jobs[j].due
                                /\ jobs[j].attempts + 1 < MaxAttempts}

Claimable == {j \in Ids : jobs[j].status = "pending" /\ jobs[j].due}

\* ORDER BY priority, attempts, requested_at, id.  A first attempt was
\* requested when its row was inserted, so among those requested_at follows
\* the id; a retry is requested at a jittered time, so any order can occur.
ClaimedBefore(i, j) ==
    LET p(k) == Priority[jobs[k].trigger]
        a(k) == jobs[k].attempts
    IN  \/ p(i) < p(j)
        \/ p(i) = p(j) /\ a(i) < a(j)
        \/ p(i) = p(j) /\ a(i) = a(j) /\ a(i) = 0 /\ i < j

NextClaims == {j \in Claimable : \A i \in Claimable : ~ ClaimedBefore(i, j)}

\* persist_crate_sync commits the crate row and clears last_refresh_error.
Synced(c) == [crateRow EXCEPT ![c] = "clean"]

SetJob(j, row) == jobs' = [jobs EXCEPT ![j] = row]

\* A database call returns an error and has no effect.
DbFault == faults < MaxFaults /\ faults' = faults + 1

\* requested_at of a requeued job is reached.
RetryDelayElapses(j) ==
    /\ jobs[j].status = "pending"
    /\ ~ jobs[j].due
    /\ SetJob(j, [jobs[j] EXCEPT !.due = TRUE])
    /\ UNCHANGED <<crateRow, waiters, permit, call, worker, faults, crashes>>

-----------------------------------------------------------------------------
(* Tool calls and feeders. *)

SetCall(p, c) == call' = [call EXCEPT ![p] = c]

\* ensure_crate_indexed, ensure_source_indexed, ensure_rustdoc_indexed or
\* backfill_missing_requested_version asks for a scope.
ToolBegins(t, c, s) ==
    /\ call[t].pc = "idle"
    /\ SetCall(t, [IdleCall EXCEPT !.pc = "select", !.crate = c, !.scope = s])
    /\ UNCHANGED <<jobs, crateRow, waiters, permit, worker, faults, crashes>>

\* index_crates has synced the crate inline and asks for an enrichment scope.
IndexCrates(t, c, s) ==
    /\ call[t].pc = "idle"
    /\ s \notin CrateScopes
    /\ crateRow' = Synced(c)
    /\ SetCall(t, [IdleCall EXCEPT !.pc = "select", !.crate = c, !.scope = s])
    /\ UNCHANGED <<jobs, waiters, permit, worker, faults, crashes>>

\* A background scan or a freshness check enqueues a job it will not await; the
\* freshness check has synced the crate inline before.
FeederBegins(f, c, k) ==
    /\ call[f].pc = "idle"
    /\ crateRow' = IF k = "freshness" THEN Synced(c) ELSE crateRow
    /\ SetCall(f, [IdleCall EXCEPT !.pc = "select", !.crate = c,
                                   !.scope = FeederScope[k], !.trigger = k])
    /\ UNCHANGED <<jobs, waiters, permit, worker, faults, crashes>>

\* What a client does with the id that enqueue_or_get_refresh_job_id returned:
\* a tool registers for it, a feeder notifies the worker or is through.
AfterEnqueue(p, j, waking) ==
    IF p \in Tools
    THEN [call[p] EXCEPT !.pc = "register", !.job = j]
    ELSE IF call[p].trigger \in waking
         THEN [IdleCall EXCEPT !.pc = "notify"]
         ELSE IdleCall

\* The SELECT finds an active row and coalesces onto it, whatever that row's
\* priority, payload and requested_at are.
SelectExisting(p) ==
    /\ call[p].pc = "select"
    /\ \E j \in Ids : /\ IsOldest(j, ActiveJobs(call[p].crate, call[p].scope))
                      /\ SetCall(p, AfterEnqueue(p, j, WakesOnExisting))
    /\ UNCHANGED <<jobs, crateRow, waiters, permit, worker, faults, crashes>>

\* The SELECT finds none; the INSERT is another statement.
SelectNone(p) ==
    /\ call[p].pc = "select"
    /\ ActiveJobs(call[p].crate, call[p].scope) = {}
    /\ SetCall(p, [call[p] EXCEPT !.pc = "insert"])
    /\ UNCHANGED <<jobs, crateRow, waiters, permit, worker, faults, crashes>>

Insert(p) ==
    /\ call[p].pc = "insert"
    /\ ~ TableFull
    /\ jobs' = Append(jobs, NewJob(call[p].crate, call[p].scope, call[p].trigger))
    /\ SetCall(p, AfterEnqueue(p, Len(jobs) + 1, WakesOnNew))
    /\ UNCHANGED <<crateRow, waiters, permit, worker, faults, crashes>>

\* The SELECT or the INSERT fails: the tool returns the error, a feeder logs
\* it.  An INSERT beyond the bound on rows is treated the same way.
EnqueueFails(p) ==
    /\ call[p].pc \in {"select", "insert"}
    /\ \/ DbFault
       \/ call[p].pc = "insert" /\ TableFull /\ UNCHANGED faults
    /\ SetCall(p, IF p \in Tools
                  THEN [call[p] EXCEPT !.pc = "done", !.outcome = "Error"]
                  ELSE IdleCall)
    /\ UNCHANGED <<jobs, crateRow, waiters, permit, worker, crashes>>

\* notify_worker: stores a permit, or wakes the worker that waits for one.
FeederNotifies(f) ==
    /\ call[f].pc = "notify"
    /\ permit' = TRUE
    /\ SetCall(f, IdleCall)
    /\ UNCHANGED <<jobs, crateRow, waiters, worker, faults, crashes>>

\* enqueue_on_demand opens the channel unless the job has one, then notifies.
Register(t) ==
    /\ call[t].pc = "register"
    /\ waiters' = waiters \cup {call[t].job}
    /\ permit' = TRUE
    /\ SetCall(t, [call[t] EXCEPT !.pc = "subscribe"])
    /\ UNCHANGED <<jobs, crateRow, worker, faults, crashes>>

\* wait_for_job subscribes; without a channel it answers Completed at once.
Subscribe(t) ==
    /\ call[t].pc = "subscribe"
    /\ SetCall(t, IF call[t].job \in waiters
                  THEN [call[t] EXCEPT !.pc = "waiting"]
                  ELSE [call[t] EXCEPT !.pc = "done", !.outcome = "Completed"])
    /\ UNCHANGED <<jobs, crateRow, waiters, permit, worker, faults, crashes>>

\* rx.changed() delivers an outcome.
Receive(t) ==
    /\ call[t].pc = "waiting"
    /\ call[t].outcome # "Pending"
    /\ SetCall(t, [call[t] EXCEPT !.pc = "done"])
    /\ UNCHANGED <<jobs, crateRow, waiters, permit, worker, faults, crashes>>

\* Mutant: a timed-out call removes the channel others still wait on.
TimeoutClosesChannel(t) ==
    /\ call[t].pc = "waiting"
    /\ call[t].outcome = "Pending"
    /\ waiters' = waiters \ {call[t].job}
    /\ SetCall(t, [call[t] EXCEPT !.pc = "done", !.outcome = "TimedOut"])
    /\ UNCHANGED <<jobs, crateRow, permit, worker, faults, crashes>>

\* Mutant: the wait has no timeout.
TimeoutNever(t) == FALSE /\ UNCHANGED vars

\* ON_DEMAND_TIMEOUT elapses first.  The channel stays in the map.
Timeout(t) ==
    /\ call[t].pc = "waiting"
    /\ call[t].outcome = "Pending"
    /\ SetCall(t, [call[t] EXCEPT !.pc = "done", !.outcome = "TimedOut"])
    /\ UNCHANGED <<jobs, crateRow, waiters, permit, worker, faults, crashes>>

\* The tool call ends and the slot is free for another one.
ToolReturns(t) ==
    /\ call[t].pc = "done"
    /\ SetCall(t, IdleCall)
    /\ UNCHANGED <<jobs, crateRow, waiters, permit, worker, faults, crashes>>

-----------------------------------------------------------------------------
(* The refresh worker. *)

Current == jobs[worker.job]

\* claim_next_refresh_job: one statement picks the row and marks it running.
Claim(j) ==
    /\ worker.pc = "poll"
    /\ j \in NextClaims
    /\ SetJob(j, [jobs[j] EXCEPT !.status = "running", !.attempts = @ + 1])
    /\ worker' = [worker EXCEPT !.pc = "exec", !.job = j]
    /\ UNCHANGED <<crateRow, waiters, permit, call, faults, crashes>>

\* No runnable row.
ClaimNone ==
    /\ worker.pc = "poll"
    /\ Claimable = {}
    /\ worker' = [worker EXCEPT !.pc = "drained"]
    /\ UNCHANGED <<jobs, crateRow, waiters, permit, call, faults, crashes>>

\* Mutant: going to sleep discards a permit that is already stored.
FallAsleepDropsPermit ==
    /\ worker.pc = "drained"
    /\ permit' = FALSE
    /\ worker' = [worker EXCEPT !.pc = "asleep"]
    /\ UNCHANGED <<jobs, crateRow, waiters, call, faults, crashes>>

\* The answer is back, and rows may have come since: wait for a permit or for
\* the poll interval.
FallAsleep ==
    /\ worker.pc = "drained"
    /\ worker' = [worker EXCEPT !.pc = "asleep"]
    /\ UNCHANGED <<jobs, crateRow, waiters, permit, call, faults, crashes>>

ClaimFails ==
    /\ worker.pc = "poll"
    /\ DbFault
    /\ worker' = [worker EXCEPT !.pc = "backoff"]
    /\ UNCHANGED <<jobs, crateRow, waiters, permit, call, crashes>>

Notified ==
    /\ worker.pc = "asleep"
    /\ permit
    /\ permit' = FALSE
    /\ worker' = [worker EXCEPT !.pc = "poll"]
    /\ UNCHANGED <<jobs, crateRow, waiters, call, faults, crashes>>

PollIntervalElapses ==
    /\ worker.pc \in {"asleep", "backoff"}
    /\ worker' = [worker EXCEPT !.pc = "poll"]
    /\ UNCHANGED <<jobs, crateRow, waiters, permit, call, faults, crashes>>

\* Mutant: the waiters are signalled before the result is recorded.
ExecSucceedsUnrecorded ==
    /\ worker.pc = "exec"
    /\ worker' = [worker EXCEPT !.pc = "signal", !.ok = TRUE]
    /\ crateRow' = IF Current.scope \in CrateScopes
                   THEN Synced(Current.crate) ELSE crateRow
    /\ UNCHANGED <<jobs, waiters, permit, call, faults, crashes>>

\* The scope's handler returns Ok; sync_single_crate has committed the crate
\* row with last_refresh_error cleared.
ExecSucceeds ==
    /\ worker.pc = "exec"
    /\ worker' = [worker EXCEPT !.pc = "record", !.ok = TRUE]
    /\ crateRow' = IF Current.scope \in CrateScopes
                   THEN Synced(Current.crate) ELSE crateRow
    /\ UNCHANGED <<jobs, waiters, permit, call, faults, crashes>>

\* Mutant: a failed execution skips the UPDATE that requeues the row.
ExecFailsUnrecorded ==
    /\ worker.pc = "exec"
    /\ worker' = [worker EXCEPT !.pc = "flag", !.ok = FALSE]
    /\ UNCHANGED <<jobs, crateRow, waiters, permit, call, faults, crashes>>

ExecFails ==
    /\ worker.pc = "exec"
    /\ worker' = [worker EXCEPT !.pc = "record", !.ok = FALSE]
    /\ UNCHANGED <<jobs, crateRow, waiters, permit, call, faults, crashes>>

\* mark_refresh_job_finished.
RecordFinished ==
    /\ worker.pc = "record"
    /\ worker.ok
    /\ SetJob(worker.job, [Current EXCEPT !.status = "finished"])
    /\ worker' = [worker EXCEPT !.pc = "signal"]
    /\ UNCHANGED <<crateRow, waiters, permit, call, faults, crashes>>

\* Mutant: a failure is requeued whatever the number of attempts.
RecordFailureAlwaysRequeues ==
    /\ worker.pc = "record"
    /\ ~ worker.ok
    /\ SetJob(worker.job, [Current EXCEPT !.status = "pending", !.due = FALSE])
    /\ worker' = [worker EXCEPT !.pc = "flag"]
    /\ UNCHANGED <<crateRow, waiters, permit, call, faults, crashes>>

\* Mutant: the attempt limit is off by one.
RecordFailureGivesUpEarly ==
    /\ worker.pc = "record"
    /\ ~ worker.ok
    /\ SetJob(worker.job,
              IF Current.attempts + 1 >= MaxAttempts
              THEN [Current EXCEPT !.status = "failed"]
              ELSE [Current EXCEPT !.status = "pending", !.due = FALSE])
    /\ worker' = [worker EXCEPT !.pc = "flag"]
    /\ UNCHANGED <<crateRow, waiters, permit, call, faults, crashes>>

\* mark_refresh_job_failed_or_requeued.
RecordFailure ==
    /\ worker.pc = "record"
    /\ ~ worker.ok
    /\ SetJob(worker.job,
              IF Current.attempts >= MaxAttempts
              THEN [Current EXCEPT !.status = "failed"]
              ELSE [Current EXCEPT !.status = "pending", !.due = FALSE])
    /\ worker' = [worker EXCEPT !.pc = "flag"]
    /\ UNCHANGED <<crateRow, waiters, permit, call, faults, crashes>>

\* The UPDATE fails; the worker logs it and goes on, the row stays running.
RecordFails ==
    /\ worker.pc = "record"
    /\ DbFault
    /\ worker' = [worker EXCEPT !.pc = IF worker.ok THEN "signal" ELSE "flag"]
    /\ UNCHANGED <<jobs, crateRow, waiters, permit, call, crashes>>

\* mark_crate_refresh_error: an UPDATE, so an absent crate stays absent.
FlagCrate ==
    /\ worker.pc = "flag"
    /\ \/ /\ crateRow' = [crateRow EXCEPT ![Current.crate] =
                              IF @ = "absent" THEN @ ELSE "errored"]
          /\ UNCHANGED faults
       \/ DbFault /\ UNCHANGED crateRow
    /\ worker' = [worker EXCEPT !.pc = "signal"]
    /\ UNCHANGED <<jobs, waiters, permit, call, crashes>>

\* The subscribers of job j's present channel: those still without an outcome.
Subscribers(j) == {t \in Tools : /\ call[t].pc = "waiting"
                                 /\ call[t].job = j
                                 /\ call[t].outcome = "Pending"}

\* signal_completion removes the channel and sends to its subscribers; a
\* successful crate job goes on to enqueue the enrichment scopes.
Signal ==
    /\ worker.pc = "signal"
    /\ waiters' = waiters \ {worker.job}
    /\ call' = [p \in Clients |->
                    IF worker.job \in waiters /\ p \in Subscribers(worker.job)
                    THEN [call[p] EXCEPT
                            !.outcome = IF worker.ok THEN "Completed" ELSE "Failed"]
                    ELSE call[p]]
    /\ worker' = IF worker.ok /\ Current.scope \in CrateScopes
                 THEN [worker EXCEPT !.pc = "enrich", !.scope = "local_cache"]
                 ELSE IdleWorker
    /\ UNCHANGED <<jobs, crateRow, permit, faults, crashes>>

\* Mutant: the loop over the enrichment scopes ends after the first.
AfterFirstEnrich == IdleWorker

\* for enrichment_scope in ["local_cache", "rustdoc_json"].
AfterEnrich == IF worker.scope = "local_cache"
               THEN [worker EXCEPT !.pc = "enrich", !.scope = "rustdoc_json"]
               ELSE IdleWorker

EnrichSelect ==
    /\ worker.pc = "enrich"
    /\ worker' = IF ActiveJobs(Current.crate, worker.scope) # {}
                 THEN AfterEnrich
                 ELSE [worker EXCEPT !.pc = "insert"]
    /\ UNCHANGED <<jobs, crateRow, waiters, permit, call, faults, crashes>>

EnrichInsert ==
    /\ worker.pc = "insert"
    /\ ~ TableFull
    /\ jobs' = Append(jobs, NewJob(Current.crate, worker.scope, "proactive_enrich"))
    /\ worker' = AfterEnrich
    /\ UNCHANGED <<crateRow, waiters, permit, call, faults, crashes>>

EnrichFails ==
    /\ worker.pc \in {"enrich", "insert"}
    /\ \/ DbFault
       \/ worker.pc = "insert" /\ TableFull /\ UNCHANGED faults
    /\ worker' = AfterEnrich
    /\ UNCHANGED <<jobs, crateRow, waiters, permit, call, crashes>>

\* The process stops at any point and starts again; nothing at startup looks
\* at the rows that are left running.
Crash ==
    /\ crashes < MaxCrashes
    /\ crashes' = crashes + 1
    /\ waiters' = {}
    /\ permit' = FALSE
    /\ call' = [p \in Clients |-> IdleCall]
    /\ worker' = IdleWorker
    /\ UNCHANGED <<jobs, crateRow, faults>>

-----------------------------------------------------------------------------

Enqueue(p) == SelectExisting(p) \/ SelectNone(p) \/ Insert(p) \/ EnqueueFails(p)

ToolStep(t) ==
    Enqueue(t) \/ Register(t) \/ Subscribe(t) \/ Receive(t) \/ ToolReturns(t)

FeederStep(f) == Enqueue(f) \/ FeederNotifies(f)

WorkerStep ==
    \/ \E j \in Ids : Claim(j)
    \/ ClaimNone \/ FallAsleep \/ ClaimFails \/ Notified \/ PollIntervalElapses
    \/ ExecSucceeds \/ ExecFails
    \/ RecordFinished \/ RecordFailure \/ RecordFails \/ FlagCrate \/ Signal
    \/ EnrichSelect \/ EnrichInsert \/ EnrichFails

Next ==
    \/ \E t \in Tools : \/ \E c \in Crates, s \in ToolScopes :
                              ToolBegins(t, c, s) \/ IndexCrates(t, c, s)
                        \/ ToolStep(t)
                        \/ Timeout(t)
    \/ \E f \in Feeders : \/ \E c \in Crates, k \in FeederKinds : FeederBegins(f, c, k)
                          \/ FeederStep(f)
    \/ WorkerStep
    \/ \E j \in Ids : RetryDelayElapses(j)
    \/ Crash

Spec == Init /\ [][Next]_vars

\* The runtime schedules every task that can run, and every timer fires.
\* Nobody owes the system a request, a fault or a crash.
Fairness ==
    /\ WF_vars(WorkerStep)
    /\ \A t \in Tools : WF_vars(ToolStep(t)) /\ WF_vars(Timeout(t))
    /\ \A f \in Feeders : WF_vars(FeederStep(f))
    /\ \A j \in 1..MaxJobs : WF_vars(j \in Ids /\ RetryDelayElapses(j))

FairSpec == Spec /\ Fairness
-----------------------------------------------------------------------------
(* Properties. *)

\* Every variable keeps its type; in particular no row is attempted more often
\* than MAX_ATTEMPTS allows (run_refresh_worker, claim_next_refresh_job).
TypeOK ==
    /\ jobs \in Seq(Job)
    /\ Len(jobs) <= MaxJobs
    /\ crateRow \in [Crates -> {"absent", "clean", "errored"}]
    /\ waiters \subseteq Ids
    /\ permit \in BOOLEAN
    /\ call \in [Clients -> Call]
    /\ worker \in Worker
    /\ faults \in 0..MaxFaults
    /\ crashes \in 0..MaxCrashes

\* The worker holds a job between the claim and the UPDATE that records its
\* result.
Holding == worker.pc \in {"exec", "record"}

\* The claim of run_refresh_worker is exclusive and always given back: the job
\* the worker holds is running, and as long as no database call failed and the
\* process did not restart, no other row is.
OnlyWorkerRuns ==
    /\ Holding => worker.job \in Ids /\ Current.status = "running"
    /\ faults = 0 /\ crashes = 0 =>
         \A j \in Ids : jobs[j].status = "running" => Holding /\ worker.job = j

\* The retry budget: a row that waits has attempts left, a row that ran was
\* attempted, and only a row without attempts left is given up
\* (terminal = job.attempts >= MAX_ATTEMPTS).
AttemptBudget ==
    \A j \in Ids :
        /\ jobs[j].status = "pending" => jobs[j].attempts < MaxAttempts
        /\ jobs[j].status \in {"running", "finished"} => jobs[j].attempts >= 1
        /\ jobs[j].status = "failed" => jobs[j].attempts = MaxAttempts
        /\ ~ jobs[j].due => jobs[j].attempts >= 1

\* A tool call that waits and has not been answered still has its channel in
\* the map, so wait_for_job cannot reach its "completion channel closed
\* unexpectedly" branch, whoever else waits, times out or is signalled.
ChannelOpen ==
    \A t \in Tools :
        call[t].pc = "waiting" /\ call[t].outcome = "Pending"
            => call[t].job \in waiters

\* A tool call registered for a runnable first attempt never leaves the worker
\* asleep without a wake-up on its way: notify_one stores a permit even when
\* the worker is between its empty claim and the select!.
NoLostWakeup ==
    worker.pc = "asleep" /\ ~ permit =>
        \A t \in Tools :
            call[t].pc \in {"subscribe", "waiting"} =>
                ~ (call[t].job \in Claimable /\ jobs[call[t].job].attempts = 0)

\* What signal_completion tells a waiting tool is true: after Completed a crate
\* job has committed its crate row, and unless a database call failed the job
\* is finished; after Failed the job was attempted.
SignalledOutcome ==
    \A t \in Tools : call[t].pc = "waiting" =>
        /\ call[t].outcome = "Completed" =>
             /\ call[t].scope \in CrateScopes => crateRow[call[t].crate] # "absent"
             /\ faults = 0 => jobs[call[t].job].status = "finished"
        /\ call[t].outcome = "Failed" => jobs[call[t].job].attempts >= 1

\* When the worker is back at the head of its loop, every crate that finished a
\* crate job has a row for both enrichment scopes (no fault, no restart, and
\* room in the table).
EnrichmentFollows ==
    worker.pc = "poll" /\ faults = 0 /\ crashes = 0 /\ ~ TableFull =>
        \A j \in Ids :
            jobs[j].status = "finished" /\ jobs[j].scope \in CrateScopes =>
                \A s \in {"local_cache", "rustdoc_json"} :
                    \E k \in Ids : jobs[k].crate = jobs[j].crate /\ jobs[k].scope = s

\* The queue implements the life cycle of a job: every step of every actor,
\* faults and restarts included, moves a row the way JobLifecycle allows.
Lifecycle == INSTANCE JobLifecycle WITH
    status <- [j \in Ids |-> jobs[j].status],
    tries <- [j \in Ids |-> jobs[j].attempts]
ImplementsLifecycle == Lifecycle!LifeSpec

\* The row is running and nobody works on it: the UPDATE that records its
\* result failed, or the process restarted under it.
Orphaned(j) == jobs[j].status = "running" /\ ~ (Holding /\ worker.job = j)

\* Every submitted job is eventually finished or failed, whatever else fails:
\* the worker comes back to each retry, and the only job a fault or a restart
\* costs is the one whose running row it orphans (run_refresh_worker).
EveryJobSettles ==
    \A j \in 1..MaxJobs :
        (j \in Ids) ~> (j \in Ids /\ (jobs[j].status \in Settled \/ Orphaned(j)))

\* Every tool call that asked for a job eventually ends, even when its signal
\* was sent before it registered or the job's row is stuck: ON_DEMAND_TIMEOUT
\* bounds the wait.
EveryCallReturns ==
    \A t \in Tools : (call[t].pc # "idle") ~> (call[t].pc = "idle")

(* What the repository says and the code does not do. *)

\* "Runs the durable background refresh worker loop": a job in the table is
\* eventually finished or failed, across restarts.
DurableJobsSettle ==
    \A j \in 1..MaxJobs :
        (j \in Ids) ~> (j \in Ids /\ jobs[j].status \in Settled)
=============================================================================
