---------------------------- MODULE SearchCache ----------------------------
(***************************************************************************)
(* The cached, paginated searches (symbol_search and its siblings) against  *)
(* what changes the index they read: the refresh worker, which invalidates  *)
(* what they cached, the inline freshness sync, which leaves that to a deep *)
(* refresh, and the indexing tools, which sync and invalidate nothing.      *)
(*                                                                          *)
(* The index of one crate is the history of its sizes: generation g has the *)
(* hits 1..sizes[g] of the query, in the order of the ORDER BY.  A client  *)
(* asks for a first page and follows next_cursor as long as it likes.       *)
(***************************************************************************)
EXTENDS Integers, Sequences, FiniteSets

CONSTANTS
    Clients,    \* concurrent search calls
    Spellings,  \* how clients name the crate
    Limits,     \* page sizes after symbol_search_limit
    Sizes,      \* hits of the query a sync may leave in the index
    MaxSyncs,   \* bound: generations of the index
    MaxFaults   \* bound: database calls and executions that fail

\* The crate's own spelling, another that LOWER() maps to it, and no filter.
AllSpellings == {"canonical", "other", "none"}

ASSUME CacheAssumption ==
    /\ Spellings \subseteq AllSpellings
    /\ Limits \subseteq Nat \ {0}
    /\ Sizes \subseteq Nat
    /\ MaxSyncs \in Nat
    /\ MaxFaults \in Nat

VARIABLES
    sizes,    \* hits of each generation of the index; the last is current
    silent,   \* history: the generations an indexing tool committed
    cache,    \* query_cache: key to response
    client,   \* the search calls
    worker,   \* the refresh worker: its step and whether it runs the deep refresh
    deep,     \* the crate_deep_refresh row: "none", "pending" or "running"
    inline,   \* a freshness check synced the crate and has not enqueued yet
    faults    \* database calls and executions that failed so far

vars == <<sizes, silent, cache, client, worker, deep, inline, faults>>

Gen == Len(sizes)

\* A cursor is its offset and limit; NoCursor ends the walk.
NoCursor == -1
Key == [spelling : AllSpellings, offset : Nat, limit : Nat \ {0}]

\* What a search answers: the generations its COUNT and its SELECT saw, the
\* hits, and the offset of the next page.  raced: the index had moved on when
\* the answer was put into the cache.
Response == [gens : SUBSET Nat, hits : Seq(Nat), next : Nat \cup {NoCursor},
             raced : BOOLEAN]
NoResponse == [gens |-> {}, hits |-> <<>>, next |-> NoCursor, raced |-> FALSE]

Client == [pc : {"idle", "lookup", "count", "fetch", "put", "served"},
           key : Key, total : Nat, answer : Response,
           seen : Seq(Nat), gens : SUBSET Nat]
IdleClient == [pc |-> "idle", key |-> [spelling |-> "none", offset |-> 0, limit |-> 1],
               total |-> 0, answer |-> NoResponse, seen |-> <<>>, gens |-> {}]

Init ==
    /\ sizes \in {<<s>> : s \in Sizes}
    /\ silent = {}
    /\ cache = [k \in {} |-> NoResponse]
    /\ client = [c \in Clients |-> IdleClient]
    /\ worker = [pc |-> "idle", deep |-> FALSE]
    /\ deep = "none"
    /\ inline = FALSE
    /\ faults = 0

Fault == faults < MaxFaults /\ faults' = faults + 1
-----------------------------------------------------------------------------
(* A search call. *)

Becomes(c, state) == client' = [client EXCEPT ![c] = state]

\* The page of the walk that starts at offset n.
At(k, n) == [spelling |-> k.spelling, offset |-> n, limit |-> k.limit]

\* A call without a cursor starts a walk at the first page.
FirstPage(c, sp, l) ==
    /\ client[c].pc = "idle"
    /\ Becomes(c, [IdleClient EXCEPT
                      !.pc = "lookup",
                      !.key = [spelling |-> sp, offset |-> 0, limit |-> l]])
    /\ UNCHANGED <<sizes, silent, cache, worker, deep, inline, faults>>

\* Mutant: the walk goes on without a cursor.
NextPageAlways(c) ==
    /\ client[c].pc = "served"
    /\ Becomes(c, [client[c] EXCEPT !.pc = "lookup",
                                   !.key = At(@, client[c].answer.next)])
    /\ UNCHANGED <<sizes, silent, cache, worker, deep, inline, faults>>

\* A call with the cursor of the last answer; decode_cursor and
\* resolve_pagination give back the offset and the limit it was built from.
NextPage(c) ==
    /\ client[c].pc = "served"
    /\ client[c].answer.next # NoCursor
    /\ Becomes(c, [client[c] EXCEPT !.pc = "lookup",
                                   !.key = At(@, client[c].answer.next)])
    /\ UNCHANGED <<sizes, silent, cache, worker, deep, inline, faults>>

Leave(c) ==
    /\ client[c].pc = "served"
    /\ Becomes(c, IdleClient)
    /\ UNCHANGED <<sizes, silent, cache, worker, deep, inline, faults>>

\* The client has the answer r of its page and keeps the cursor.
Served(c, r) ==
    Becomes(c, [client[c] EXCEPT !.pc = "served", !.total = 0,
                                 !.answer = [NoResponse EXCEPT !.next = r.next],
                                 !.seen = @ \o r.hits, !.gens = @ \cup r.gens])

Hit(c) ==
    /\ client[c].pc = "lookup"
    /\ client[c].key \in DOMAIN cache
    /\ Served(c, cache[client[c].key])
    /\ UNCHANGED <<sizes, silent, cache, worker, deep, inline, faults>>

Miss(c) ==
    /\ client[c].pc = "lookup"
    /\ client[c].key \notin DOMAIN cache
    /\ Becomes(c, [client[c] EXCEPT !.pc = "count"])
    /\ UNCHANGED <<sizes, silent, cache, worker, deep, inline, faults>>

Count(c) ==
    /\ client[c].pc = "count"
    /\ Becomes(c, [client[c] EXCEPT !.pc = "fetch", !.total = sizes[Gen],
                                   !.answer = [NoResponse EXCEPT !.gens = {Gen}]])
    /\ UNCHANGED <<sizes, silent, cache, worker, deep, inline, faults>>

Min2(m, n) == IF m < n THEN m ELSE n

\* LIMIT k.limit OFFSET k.offset on an index with n hits.
PageHits(k, n) ==
    [i \in 1..(IF k.offset < n THEN Min2(k.limit, n - k.offset) ELSE 0) |-> k.offset + i]

\* Mutant: has_more is decided by the size of the page alone.
NextOffsetFullPage(k, hits, total) ==
    IF Len(hits) = k.limit THEN k.offset + k.limit ELSE NoCursor

\* next_cursor: there is more when the hits so far are fewer than the count.
NextOffset(k, hits, total) ==
    IF k.offset + Len(hits) < total THEN k.offset + k.limit ELSE NoCursor

Fetch(c) ==
    /\ client[c].pc = "fetch"
    /\ LET k == client[c].key
           hits == PageHits(k, sizes[Gen])
       IN  Becomes(c, [client[c] EXCEPT !.pc = "put",
               !.answer = [gens |-> @.gens \cup {Gen}, hits |-> hits,
                           next |-> NextOffset(k, hits, client[c].total),
                           raced |-> FALSE]])
    /\ UNCHANGED <<sizes, silent, cache, worker, deep, inline, faults>>

\* INSERT ... ON CONFLICT (key) DO UPDATE, then the answer goes out.
Put(c) ==
    /\ client[c].pc = "put"
    /\ LET r == [client[c].answer EXCEPT !.raced = client[c].answer.gens # {Gen}]
       IN  /\ cache' = [k \in DOMAIN cache \cup {client[c].key} |->
                            IF k = client[c].key THEN r ELSE cache[k]]
           /\ Served(c, r)
    /\ UNCHANGED <<sizes, silent, worker, deep, inline, faults>>

\* Every database error, a failed write of the cache included, ends the call.
CallFails(c) ==
    /\ client[c].pc \in {"lookup", "count", "fetch", "put"}
    /\ Fault
    /\ Becomes(c, IdleClient)
    /\ UNCHANGED <<sizes, silent, cache, worker, deep, inline>>

Without(K) == [k \in DOMAIN cache \ K |-> cache[k]]

\* expires_at is reached.
Expire(k) ==
    /\ cache' = Without({k})
    /\ UNCHANGED <<sizes, silent, client, worker, deep, inline, faults>>
-----------------------------------------------------------------------------
(* The tasks that change the index. *)

Commit(s) == Gen <= MaxSyncs /\ sizes' = Append(sizes, s)

\* The worker takes the deep refresh or any other job of the crate.
Claim(isDeep) ==
    /\ worker.pc = "idle"
    /\ isDeep => deep = "pending"
    /\ worker' = [pc |-> "exec", deep |-> isDeep]
    /\ deep' = IF isDeep THEN "running" ELSE deep
    /\ UNCHANGED <<sizes, silent, cache, client, inline, faults>>

Exec(s) ==
    /\ worker.pc = "exec"
    /\ Commit(s)
    /\ worker' = [worker EXCEPT !.pc = "record"]
    /\ UNCHANGED <<silent, cache, client, deep, inline, faults>>

\* Mutant: the job ends when its result is recorded.
RecordIsLast ==
    /\ worker.pc = "record"
    /\ worker' = [worker EXCEPT !.pc = "idle"]
    /\ deep' = IF worker.deep THEN "none" ELSE deep
    /\ UNCHANGED <<sizes, silent, cache, client, inline, faults>>

\* mark_refresh_job_finished, then signal_completion.
Record ==
    /\ worker.pc = "record"
    /\ worker' = [worker EXCEPT !.pc = "invalidate"]
    /\ deep' = IF worker.deep THEN "none" ELSE deep
    /\ UNCHANGED <<sizes, silent, cache, client, inline, faults>>

\* The keys LIKE '%"crate_name":"<name>"%' finds: the job's own spelling.
Matching == {k \in DOMAIN cache : k.spelling = "canonical"}

Invalidate ==
    /\ worker.pc = "invalidate"
    /\ cache' = Without(Matching)
    /\ worker' = [worker EXCEPT !.pc = "idle"]
    /\ UNCHANGED <<sizes, silent, client, deep, inline, faults>>

\* The job fails, before or after it wrote to the index, and its row is
\* requeued, given up, or left running when that UPDATE fails too.
ExecFails(s) ==
    /\ worker.pc = "exec"
    /\ Fault
    /\ Commit(s) \/ UNCHANGED sizes
    /\ worker' = [worker EXCEPT !.pc = "idle"]
    /\ deep' \in IF worker.deep THEN {"pending", "none", "running"} ELSE {deep}
    /\ UNCHANGED <<silent, cache, client, inline>>

\* A failed UPDATE or DELETE is logged and the worker goes on.
RecordFails ==
    /\ worker.pc = "record"
    /\ Fault
    /\ worker' = [worker EXCEPT !.pc = "invalidate"]
    /\ UNCHANGED <<sizes, silent, cache, client, deep, inline>>

InvalidateFails ==
    /\ worker.pc = "invalidate"
    /\ Fault
    /\ worker' = [worker EXCEPT !.pc = "idle"]
    /\ UNCHANGED <<sizes, silent, cache, client, deep, inline>>

\* ensure_freshness_for_interaction: the inline sync, without invalidation, and
\* the deep refresh, which coalesces onto an active row.
InlineSync(s) ==
    /\ ~ inline
    /\ Commit(s)
    /\ inline' = TRUE
    /\ UNCHANGED <<silent, cache, client, worker, deep, faults>>

InlineEnqueue ==
    /\ inline
    /\ inline' = FALSE
    /\ deep' = IF deep = "none" THEN "pending" ELSE deep
    /\ UNCHANGED <<sizes, silent, cache, client, worker, faults>>

InlineFails ==
    /\ inline
    /\ Fault
    /\ inline' = FALSE
    /\ UNCHANGED <<sizes, silent, cache, client, worker, deep>>

\* index_refresh, a pinned entry of index_crates and the sync of crate_features
\* write to the index inside the call: no invalidation, no deep refresh.
ToolSync(s) ==
    /\ Commit(s)
    /\ silent' = silent \cup {Gen + 1}
    /\ UNCHANGED <<cache, client, worker, deep, inline, faults>>

Search(c) ==
    \/ NextPage(c) \/ Leave(c)
    \/ Hit(c) \/ Miss(c) \/ Count(c) \/ Fetch(c) \/ Put(c) \/ CallFails(c)
    \/ \E sp \in Spellings, l \in Limits : FirstPage(c, sp, l)

Next ==
    \/ \E c \in Clients : Search(c)
    \/ \E k \in DOMAIN cache : Expire(k)
    \/ \E isDeep \in BOOLEAN : Claim(isDeep)
    \/ \E s \in Sizes : Exec(s) \/ ExecFails(s) \/ InlineSync(s) \/ ToolSync(s)
    \/ Record \/ RecordFails \/ Invalidate \/ InvalidateFails
    \/ InlineEnqueue \/ InlineFails

Spec == Init /\ [][Next]_vars
-----------------------------------------------------------------------------
(* Properties. *)

\* Every variable keeps its type; no walk goes on from an answer without a
\* cursor (handle_symbol_search, decode_cursor).
TypeOK ==
    /\ sizes \in Seq(Nat) /\ sizes # <<>>
    /\ silent \subseteq 1..Gen
    /\ DOMAIN cache \subseteq Key
    /\ \A k \in DOMAIN cache : cache[k] \in Response
    /\ client \in [Clients -> Client]
    /\ worker \in [pc : {"idle", "exec", "record", "invalidate"}, deep : BOOLEAN]
    /\ deep \in {"none", "pending", "running"}
    /\ inline \in BOOLEAN
    /\ faults \in 0..MaxFaults

\* Following next_cursor shows every hit exactly once and in order, and stops
\* when there is none left, whichever pages come from the cache, as long as all
\* of them were computed from one generation of the index.
WalkComplete ==
    \A c \in Clients : \A g \in 1..Gen :
        client[c].pc = "served" /\ client[c].gens = {g} =>
            LET end == client[c].key.offset + client[c].key.limit
            IN  /\ client[c].seen = [i \in 1..Min2(end, sizes[g]) |-> i]
                /\ client[c].answer.next = IF end < sizes[g] THEN end ELSE NoCursor

\* No task that invalidates is still at work and none has failed.
Quiet == worker.pc = "idle" /\ deep = "none" /\ ~ inline /\ faults = 0

\* The cached answers of the crate computed before the last change of the
\* index; a raced one was already out of date when it was put.
StaleAnswers ==
    {cache[k] : k \in {q \in DOMAIN cache :
        q.spelling = "canonical" /\ \E g \in cache[q].gens : g # Gen}}

\* The worker and the freshness check lose no invalidation: when all they
\* started is done and nothing failed, an answer that was good when it was put
\* is out of date only by what indexing tools committed since: a change of the
\* worker's or of a freshness check's has removed all that was put before it.
StaleOnlyByToolSync ==
    Quiet => \A r \in StaleAnswers :
                 ~ r.raced => \A g \in r.gens : (g + 1)..Gen \subseteq silent
=============================================================================
