---------------------------- MODULE RateLimiter ----------------------------
(***************************************************************************)
(* OutboundRateLimiter: the two-tier limiter every request to crates.io,    *)
(* docs.rs, OSV and GitHub passes.  Tier 1 keeps its lock while it sleeps; *)
(* tier 2 releases its lock, sleeps, and records the request on waking.    *)
(*                                                                          *)
(* Time is a clock of ticks; instants are kept relative to now (ticks still *)
(* to sleep, ticks since a request), so the state space is finite.          *)
(***************************************************************************)
EXTENDS Integers, Sequences, FiniteSets

CONSTANTS
    Callers,     \* tasks that send requests to this source
    Burst,       \* burst_interval, in ticks
    WindowMax,   \* window_max
    Window,      \* window_duration, in ticks
    TimerLag,    \* ticks a timer fires after its deadline
    Prompt       \* TRUE: a task that can run does so before time passes

ASSUME LimiterAssumption ==
    /\ Burst \in Nat /\ WindowMax \in Nat /\ Window \in Nat
    /\ TimerLag \in Nat /\ Prompt \in BOOLEAN
    /\ IsFiniteSet(Callers)

VARIABLES
    pc,         \* where each caller is in acquire
    rest,       \* ticks each caller still sleeps
    queue,      \* the tier-1 lock: its holder, then the callers waiting for it
    remaining,  \* ticks until next_allowed_at
    stamps,     \* ages of window_timestamps, oldest first
    sinceGate   \* ticks since a caller last passed tier 1, up to Burst

vars == <<pc, rest, queue, remaining, stamps, sinceGate>>

Init ==
    /\ pc = [c \in Callers |-> "idle"]
    /\ rest = [c \in Callers |-> 0]
    /\ queue = <<>>
    /\ remaining = 0
    /\ stamps = <<>>
    /\ sinceGate = Burst

Down(n) == IF n > 0 THEN n - 1 ELSE 0
Sleep(n) == IF n > 0 THEN n + TimerLag ELSE 0
Up(n, bound) == IF n < bound THEN n + 1 ELSE bound

\* acquire is called; tokio's mutex serves its waiters in order.
Acquire(c) ==
    /\ pc[c] = "idle"
    /\ pc' = [pc EXCEPT ![c] = "gate"]
    /\ queue' = Append(queue, c)
    /\ UNCHANGED <<rest, remaining, stamps, sinceGate>>

\* Mutant: the lock is not held while the caller sleeps.
BurstLockShared(c) ==
    /\ pc[c] = "gate"
    /\ pc' = [pc EXCEPT ![c] = "burst"]
    /\ rest' = [rest EXCEPT ![c] = Sleep(remaining)]
    /\ UNCHANGED <<queue, remaining, stamps, sinceGate>>

\* The head of the queue has the lock and sleeps until next_allowed_at.
BurstLock(c) ==
    /\ pc[c] = "gate"
    /\ queue # <<>> /\ c = Head(queue)
    /\ pc' = [pc EXCEPT ![c] = "burst"]
    /\ rest' = [rest EXCEPT ![c] = Sleep(remaining)]
    /\ UNCHANGED <<queue, remaining, stamps, sinceGate>>

\* Mutant: the next request is allowed one tick early.
BurstPassEarly(c) ==
    /\ pc[c] = "burst"
    /\ rest[c] = 0
    /\ remaining' = Down(Burst)
    /\ sinceGate' = 0
    /\ queue' = Tail(queue)
    /\ pc' = [pc EXCEPT ![c] = IF WindowMax > 0 THEN "window" ELSE "idle"]
    /\ UNCHANGED <<rest, stamps>>

\* Mutant: the lock is not given back.
BurstPassKeepsLock(c) ==
    /\ pc[c] = "burst"
    /\ rest[c] = 0
    /\ remaining' = Burst
    /\ sinceGate' = 0
    /\ pc' = [pc EXCEPT ![c] = IF WindowMax > 0 THEN "window" ELSE "idle"]
    /\ UNCHANGED <<rest, queue, stamps>>

\* next_allowed_at is set and the lock released.
BurstPass(c) ==
    /\ pc[c] = "burst"
    /\ rest[c] = 0
    /\ remaining' = Burst
    /\ sinceGate' = 0
    /\ queue' = Tail(queue)
    /\ pc' = [pc EXCEPT ![c] = IF WindowMax > 0 THEN "window" ELSE "idle"]
    /\ UNCHANGED <<rest, stamps>>

\* The front is popped while it is older than the window: Stale(s) entries go.
Stale(s) == CHOOSE n \in 0..Len(s) :
                /\ \A i \in 1..n : s[i] > Window
                /\ n < Len(s) => s[n + 1] <= Window
Evicted(s) == SubSeq(s, Stale(s) + 1, Len(s))

\* The window is full and its oldest request has not yet left it.
MustWait(s) == Len(s) >= WindowMax /\ s # <<>> /\ Head(s) < Window

\* Tier 2 under its lock: record the request, or leave to sleep until the
\* oldest request leaves the window.
WindowPass(c) ==
    /\ pc[c] = "window"
    /\ ~ MustWait(Evicted(stamps))
    /\ stamps' = Append(Evicted(stamps), 0)
    /\ pc' = [pc EXCEPT ![c] = "idle"]
    /\ UNCHANGED <<rest, queue, remaining, sinceGate>>

WindowSleep(c) ==
    /\ pc[c] = "window"
    /\ MustWait(Evicted(stamps))
    /\ stamps' = Evicted(stamps)
    /\ rest' = [rest EXCEPT ![c] = Sleep(Window - Head(stamps'))]
    /\ pc' = [pc EXCEPT ![c] = "asleep"]
    /\ UNCHANGED <<queue, remaining, sinceGate>>

\* Awake again: evict and record, without looking at the length again.
WindowWake(c) ==
    /\ pc[c] = "asleep"
    /\ rest[c] = 0
    /\ stamps' = Append(Evicted(stamps), 0)
    /\ pc' = [pc EXCEPT ![c] = "idle"]
    /\ UNCHANGED <<rest, queue, remaining, sinceGate>>

\* A caller that a step other than the passing of time waits for.
Runnable(c) ==
    \/ pc[c] = "gate" /\ queue # <<>> /\ c = Head(queue)
    \/ pc[c] \in {"burst", "asleep"} /\ rest[c] = 0
    \/ pc[c] = "window"

Tick ==
    /\ Prompt => \A c \in Callers : ~ Runnable(c)
    /\ rest' = [c \in Callers |-> Down(rest[c])]
    /\ remaining' = Down(remaining)
    /\ stamps' = [i \in DOMAIN stamps |-> Up(stamps[i], Window + 1)]
    /\ sinceGate' = Up(sinceGate, Burst)
    /\ UNCHANGED <<pc, queue>>

CallerStep(c) ==
    BurstLock(c) \/ BurstPass(c) \/ WindowPass(c) \/ WindowSleep(c) \/ WindowWake(c)

Next == Tick \/ \E c \in Callers : Acquire(c) \/ CallerStep(c)

Spec == Init /\ [][Next]_vars

\* Timers fire and runnable tasks are scheduled; nobody has to call acquire.
FairSpec == Spec /\ WF_vars(Tick) /\ \A c \in Callers : WF_vars(CallerStep(c))
-----------------------------------------------------------------------------
(* Properties. *)

\* Every variable keeps its type, a caller waits for the tier-1 lock exactly
\* once, and window_timestamps is in order, which eviction from the front
\* relies on.
TypeOK ==
    /\ pc \in [Callers -> {"idle", "gate", "burst", "window", "asleep"}]
    /\ rest \in [Callers -> Nat]
    /\ queue \in Seq(Callers)
    /\ \A c \in Callers : pc[c] \in {"gate", "burst"} <=>
           Cardinality({i \in DOMAIN queue : queue[i] = c}) = 1
    /\ remaining \in 0..Burst
    /\ sinceGate \in 0..Burst
    /\ stamps \in Seq(0..Window + 1)
    /\ \A i, j \in DOMAIN stamps : i < j => stamps[i] >= stamps[j]

\* Tier 1 of acquire keeps its promise however callers queue up: two callers
\* pass the burst gate at least burst_interval apart.
GateSpacing == [][\A c \in Callers : BurstPass(c) => sinceGate >= Burst]_vars

\* The rate tier 1 of acquire guarantees when tier 2 lets callers bunch up: in
\* any window at most one request per burst interval, plus those of callers
\* that were past the burst gate when the window began.
InWindow == {i \in DOMAIN stamps : stamps[i] < Window}
ThroughputCap ==
    Burst > 0 => Cardinality(InWindow)
                     <= (Window + Burst - 1) \div Burst + Cardinality(Callers)

\* A caller of acquire gets through: the gates delay it, nothing blocks it.
EveryAcquireReturns == \A c \in Callers : (pc[c] # "idle") ~> (pc[c] = "idle")
=============================================================================
