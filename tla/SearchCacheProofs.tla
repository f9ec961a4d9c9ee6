------------------------- MODULE SearchCacheProofs -------------------------
(***************************************************************************)
(* Proofs about SearchCache: invalidation leaves only raced answers behind, *)
(* and a walk over one generation of the index shows every hit once.        *)
(***************************************************************************)
EXTENDS SearchCache, SequenceTheorems, TLAPS

-----------------------------------------------------------------------------
(* Types. *)

\* The records a call starts from have their types.
LEMMA IdleTypes == IdleClient \in Client /\ NoResponse \in Response
  BY DEF IdleClient, Client, NoResponse, Response, Key, AllSpellings, NoCursor

\* A page is a sequence of at most limit hits (search_symbol_hits).
LEMMA PageType ==
    ASSUME NEW k \in Key, NEW n \in Nat
    PROVE  /\ PageHits(k, n) \in Seq(Nat)
           /\ Len(PageHits(k, n)) = IF k.offset < n THEN Min2(k.limit, n - k.offset) ELSE 0
<1> DEFINE m == IF k.offset < n THEN Min2(k.limit, n - k.offset) ELSE 0
<1>1. k.offset \in Nat /\ k.limit \in Nat
  BY DEF Key
<1>2. m \in Nat
  BY <1>1 DEF Min2
<1>3. PageHits(k, n) = [i \in 1..m |-> k.offset + i]
  BY DEF PageHits
<1>4. \A i \in 1..m : k.offset + i \in Nat
  BY <1>1, <1>2
<1> HIDE DEF m
<1>5. [i \in 1..m |-> k.offset + i] \in Seq(Nat)
  BY <1>2, <1>4
<1>6. Len([i \in 1..m |-> k.offset + i]) = m
  BY <1>2
<1> QED
  BY <1>3, <1>5, <1>6 DEF m

\* An answer has its type when the hits and the cursor come from a page.
LEMMA AnswerType ==
    ASSUME NEW k \in Key, NEW n \in Nat, NEW total \in Nat
    PROVE  NextOffset(k, PageHits(k, n), total) \in Nat \cup {NoCursor}
<1>1. Len(PageHits(k, n)) \in Nat
  BY PageType, LenProperties
<1> QED
  BY <1>1 DEF NextOffset, Key

\* The current generation exists.
LEMMA GenType ==
    ASSUME TypeOK
    PROVE  Gen \in Nat /\ Gen >= 1 /\ sizes[Gen] \in Nat
<1>1. sizes \in Seq(Nat) /\ sizes # <<>>
  BY DEF TypeOK
<1>2. Len(sizes) \in Nat /\ Len(sizes) # 0
  BY <1>1, LenProperties, EmptySeq
<1>3. sizes[Len(sizes)] \in Nat
  BY <1>1, <1>2, ElementOfSeq
<1> QED
  BY <1>2, <1>3 DEF Gen

\* A sync appends a generation and leaves the earlier ones alone.
LEMMA CommitStep ==
    ASSUME TypeOK, NEW s \in Sizes, Commit(s)
    PROVE  /\ sizes' \in Seq(Nat) /\ sizes' # <<>>
           /\ Gen' = Gen + 1
           /\ \A g \in 1..Gen : sizes'[g] = sizes[g]
<1>1. sizes \in Seq(Nat) /\ s \in Nat /\ sizes' = Append(sizes, s)
  BY CacheAssumption DEF TypeOK, Commit
<1>2. sizes' \in Seq(Nat) /\ Len(sizes') = Len(sizes) + 1
      /\ \A g \in 1..Len(sizes) : sizes'[g] = sizes[g]
  BY <1>1, AppendProperties
<1>3. Len(sizes) \in Nat
  BY <1>1, LenProperties
<1> QED
  BY <1>2, <1>3, EmptySeq DEF Gen

\* A call's step gives its record a new value; the record has its type.
LEMMA ClientType ==
    ASSUME TypeOK, NEW c \in Clients, NEW state \in Client, Becomes(c, state)
    PROVE  /\ client' \in [Clients -> Client]
           /\ client'[c] = state
           /\ \A d \in Clients : d # c => client'[d] = client[d]
  BY DEF TypeOK, Becomes

\* The record of a client that got the answer r.
LEMMA ServedType ==
    ASSUME TypeOK, NEW c \in Clients, NEW r \in Response
    PROVE  [client[c] EXCEPT !.pc = "served", !.total = 0,
                             !.answer = [NoResponse EXCEPT !.next = r.next],
                             !.seen = @ \o r.hits, !.gens = @ \cup r.gens] \in Client
<1>1. client[c] \in Client
  BY DEF TypeOK
<1>2. [NoResponse EXCEPT !.next = r.next] \in Response
  BY IdleTypes DEF Response
<1>3. client[c].seen \o r.hits \in Seq(Nat)
  <2>1. client[c].seen \in Seq(Nat) /\ r.hits \in Seq(Nat)
    BY <1>1 DEF Client, Response
  <2> QED
    BY <2>1, ConcatProperties
<1>4. client[c].gens \cup r.gens \in SUBSET Nat
  BY <1>1 DEF Client, Response
<1> QED
  BY <1>1, <1>2, <1>3, <1>4 DEF Client

\* The steps of a search call keep the types.
LEMMA SearchType ==
    ASSUME TypeOK, NEW c \in Clients, Search(c)
    PROVE  TypeOK'
<1>0. /\ client[c] \in Client /\ client[c].key \in Key /\ client[c].answer \in Response
      /\ Gen \in Nat /\ sizes[Gen] \in Nat
  BY GenType DEF TypeOK, Client
<1>1. ASSUME NEW state \in Client, Becomes(c, state), UNCHANGED <<sizes, silent, worker, deep, inline>>,
             faults' \in 0..MaxFaults, DOMAIN cache' \subseteq Key,
             \A k \in DOMAIN cache' : cache'[k] \in Response
      PROVE  TypeOK'
  BY <1>1, ClientType DEF TypeOK, Gen
<1>2. ASSUME NEW state \in Client, Becomes(c, state),
             UNCHANGED <<sizes, silent, cache, worker, deep, inline, faults>>
      PROVE  TypeOK'
  BY <1>1, <1>2 DEF TypeOK
<1>3. CASE \E sp \in Spellings, l \in Limits : FirstPage(c, sp, l)
  <2>1. PICK sp \in Spellings, l \in Limits : FirstPage(c, sp, l)
    BY <1>3
  <2>2. [spelling |-> sp, offset |-> 0, limit |-> l] \in Key
    BY CacheAssumption DEF Key
  <2>3. [IdleClient EXCEPT !.pc = "lookup",
                           !.key = [spelling |-> sp, offset |-> 0, limit |-> l]] \in Client
    BY <2>2, IdleTypes DEF Client
  <2> QED
    BY <1>2, <2>1, <2>3 DEF FirstPage
<1>4. CASE NextPage(c)
  <2>1. client[c].answer.next \in Nat
    BY <1>0, <1>4 DEF NextPage, Response
  <2>2. At(client[c].key, client[c].answer.next) \in Key
    BY <1>0, <2>1 DEF At, Key
  <2>3. [client[c] EXCEPT !.pc = "lookup",
                          !.key = At(@, client[c].answer.next)] \in Client
    BY <1>0, <2>2 DEF Client
  <2> QED
    BY <1>2, <1>4, <2>3 DEF NextPage
<1>5. CASE Leave(c)
  BY <1>2, <1>5, IdleTypes DEF Leave
<1>6. CASE Hit(c)
  <2>1. cache[client[c].key] \in Response
    BY <1>6 DEF Hit, TypeOK
  <2> QED
    BY <1>2, <1>6, <2>1, ServedType DEF Hit, Served
<1>7. CASE Miss(c)
  <2>1. [client[c] EXCEPT !.pc = "count"] \in Client
    BY <1>0 DEF Client
  <2> QED
    BY <1>2, <1>7, <2>1 DEF Miss
<1>8. CASE Count(c)
  <2>1. [NoResponse EXCEPT !.gens = {Gen}] \in Response
    BY <1>0, IdleTypes DEF Response
  <2>2. [client[c] EXCEPT !.pc = "fetch", !.total = sizes[Gen],
                          !.answer = [NoResponse EXCEPT !.gens = {Gen}]] \in Client
    BY <1>0, <2>1 DEF Client
  <2> QED
    BY <1>2, <1>8, <2>2 DEF Count
<1>9. CASE Fetch(c)
  <2> DEFINE hits == PageHits(client[c].key, sizes[Gen])
             r == [gens |-> client[c].answer.gens \cup {Gen}, hits |-> hits,
                   next |-> NextOffset(client[c].key, hits, client[c].total),
                   raced |-> FALSE]
  <2>1. hits \in Seq(Nat)
    BY <1>0, PageType
  <2>2. NextOffset(client[c].key, hits, client[c].total) \in Nat \cup {NoCursor}
    BY <1>0, AnswerType DEF Client
  <2>3. client[c].answer.gens \cup {Gen} \in SUBSET Nat
    BY <1>0 DEF Response
  <2>4. Becomes(c, [client[c] EXCEPT !.pc = "put", !.answer = r])
    BY <1>9 DEF Fetch
  <2> HIDE DEF hits
  <2>5. r \in Response
    BY <2>1, <2>2, <2>3 DEF Response
  <2> HIDE DEF r
  <2>6. [client[c] EXCEPT !.pc = "put", !.answer = r] \in Client
    BY <1>0, <2>5 DEF Client
  <2> QED
    BY <1>2, <1>9, <2>4, <2>6 DEF Fetch
<1>10. CASE Put(c)
  <2> DEFINE r == [client[c].answer EXCEPT !.raced = client[c].answer.gens # {Gen}]
  <2>1. r \in Response
    BY <1>0 DEF Response
  <2>2. /\ cache' = [k \in DOMAIN cache \cup {client[c].key} |->
                        IF k = client[c].key THEN r ELSE cache[k]]
        /\ Served(c, r)
        /\ UNCHANGED <<sizes, silent, worker, deep, inline, faults>>
    BY <1>10 DEF Put
  <2> HIDE DEF r
  <2>3. /\ DOMAIN cache' \subseteq Key
        /\ \A k \in DOMAIN cache' : cache'[k] \in Response
    BY <1>0, <2>1, <2>2 DEF TypeOK
  <2> QED
    BY <1>1, <2>1, <2>2, <2>3, ServedType DEF Served, TypeOK
<1>11. CASE CallFails(c)
  <2>1. faults' \in 0..MaxFaults
    BY <1>11, CacheAssumption DEF CallFails, Fault, TypeOK
  <2> QED
    BY <1>1, <1>11, <2>1, IdleTypes DEF CallFails, TypeOK
<1> QED
  BY <1>3, <1>4, <1>5, <1>6, <1>7, <1>8, <1>9, <1>10, <1>11 DEF Search

\* Removing entries keeps the rest of the cache as it was (query_cache_invalidate).
LEMMA WithoutKeeps ==
    ASSUME NEW K, cache' = Without(K)
    PROVE  /\ DOMAIN cache' = DOMAIN cache \ K
           /\ \A k \in DOMAIN cache' : cache'[k] = cache[k]
  BY DEF Without

\* The steps that commit a generation keep the types.
LEMMA SyncType ==
    ASSUME TypeOK, NEW s \in Sizes,
           Exec(s) \/ ExecFails(s) \/ InlineSync(s) \/ ToolSync(s)
    PROVE  TypeOK'
<1>1. sizes' \in Seq(Nat) /\ sizes' # <<>> /\ (Gen' = Gen \/ Gen' = Gen + 1)
      /\ Gen \in Nat /\ (Commit(s) => Gen' = Gen + 1)
  BY CommitStep, GenType DEF Exec, ExecFails, InlineSync, ToolSync, TypeOK, Gen
<1>2. faults' \in 0..MaxFaults
  BY CacheAssumption DEF Exec, ExecFails, InlineSync, ToolSync, Fault, TypeOK
<1>3. worker' \in [pc : {"idle", "exec", "record", "invalidate"}, deep : BOOLEAN]
  BY DEF Exec, ExecFails, InlineSync, ToolSync, TypeOK
<1>4. deep' \in {"none", "pending", "running"}
  BY DEF Exec, ExecFails, InlineSync, ToolSync, TypeOK
<1>5. inline' \in BOOLEAN /\ UNCHANGED <<cache, client>>
  BY DEF Exec, ExecFails, InlineSync, ToolSync, TypeOK
<1>6. silent' \subseteq 1..Gen'
  <2>1. silent \subseteq 1..Gen
    BY DEF TypeOK
  <2>2. CASE ToolSync(s)
    BY <1>1, <2>1, <2>2 DEF ToolSync
  <2>3. CASE Exec(s) \/ ExecFails(s) \/ InlineSync(s)
    <3>1. silent' = silent
      BY <2>3 DEF Exec, ExecFails, InlineSync, TypeOK
    <3> QED
      BY <1>1, <2>1, <3>1
  <2> QED
    BY <2>2, <2>3
<1> QED
  BY <1>1, <1>2, <1>3, <1>4, <1>5, <1>6 DEF TypeOK

\* Every step keeps the types.
LEMMA TypeStep ==
    ASSUME TypeOK, [Next]_vars
    PROVE  TypeOK'
<1>1. CASE \E c \in Clients : Search(c)
  BY <1>1, SearchType
<1>2. CASE \E k \in DOMAIN cache : Expire(k)
  <2>1. PICK k \in DOMAIN cache : Expire(k)
    BY <1>2
  <2>2. cache' = Without({k}) /\ UNCHANGED <<sizes, silent, client, worker, deep, inline, faults>>
    BY <2>1 DEF Expire
  <2> QED
    BY <2>2, WithoutKeeps DEF TypeOK, Gen
<1>3. CASE \E s \in Sizes : Exec(s) \/ ExecFails(s) \/ InlineSync(s) \/ ToolSync(s)
  BY <1>3, SyncType
<1>4. CASE Invalidate
  <2>1. /\ cache' = Without(Matching) /\ worker' = [worker EXCEPT !.pc = "idle"]
        /\ UNCHANGED <<sizes, silent, client, deep, inline, faults>>
    BY <1>4 DEF Invalidate
  <2> QED
    BY <2>1, WithoutKeeps DEF TypeOK, Gen
<1>5. CASE Record
  BY <1>5 DEF Record, TypeOK, Gen
<1>8. CASE InlineEnqueue
  BY <1>8 DEF InlineEnqueue, TypeOK, Gen
<1>9. CASE \E isDeep \in BOOLEAN : Claim(isDeep)
  <2>1. PICK isDeep \in BOOLEAN : Claim(isDeep)
    BY <1>9
  <2>2. worker' \in [pc : {"idle", "exec", "record", "invalidate"}, deep : BOOLEAN]
    BY <2>1 DEF Claim
  <2>3. deep' \in {"none", "pending", "running"}
    BY <2>1 DEF Claim, TypeOK
  <2>4. UNCHANGED <<sizes, silent, cache, client, inline, faults>>
    BY <2>1 DEF Claim
  <2> QED
    BY <2>2, <2>3, <2>4 DEF TypeOK, Gen
<1>6. CASE RecordFails \/ InvalidateFails \/ InlineFails
  <2>1. faults' \in 0..MaxFaults
    BY <1>6, CacheAssumption DEF RecordFails, InvalidateFails, InlineFails, Fault, TypeOK
  <2> QED
    BY <1>6, <2>1 DEF RecordFails, InvalidateFails, InlineFails, TypeOK, Gen
<1>7. CASE UNCHANGED vars
  BY <1>7 DEF vars, TypeOK, Gen
<1> QED
  BY <1>1, <1>2, <1>3, <1>4, <1>5, <1>6, <1>7, <1>8, <1>9 DEF Next

\* The variables of SearchCache keep their types, for every number of clients,
\* page sizes and hits.
THEOREM CacheTypes == Spec => []TypeOK
<1>1. Init => TypeOK
  <2> SUFFICES ASSUME Init PROVE TypeOK
    OBVIOUS
  <2>1. PICK s \in Sizes : sizes = <<s>>
    BY DEF Init
  <2>2. sizes \in Seq(Nat) /\ sizes # <<>>
    BY <2>1, CacheAssumption
  <2>3. worker \in [pc : {"idle", "exec", "record", "invalidate"}, deep : BOOLEAN]
    BY DEF Init
  <2>4. DOMAIN cache = {} /\ silent = {}
    BY DEF Init
  <2>5. inline \in BOOLEAN /\ deep \in {"none", "pending", "running"}
    BY DEF Init
  <2>6. client \in [Clients -> Client] /\ faults \in 0..MaxFaults
    BY IdleTypes, CacheAssumption DEF Init
  <2> QED
    BY <2>2, <2>3, <2>4, <2>5, <2>6 DEF TypeOK
<1> QED
  BY <1>1, TypeStep, PTL DEF Spec

-----------------------------------------------------------------------------
(* Invalidation. *)

\* Some task that changed the index still has to invalidate, or one failed.
Owed == worker.pc \in {"record", "invalidate"} \/ deep # "none" \/ inline \/ faults > 0

\* The inductive form of StaleOnlyByToolSync: while an invalidation is owed,
\* an answer put in time may be out of date by any change.
StaleInv ==
    \A k \in DOMAIN cache :
        k.spelling = "canonical" /\ ~ cache[k].raced /\ ~ Owed =>
            \A g \in cache[k].gens : (g + 1)..Gen \subseteq silent

\* A step that only removes entries and keeps what is owed keeps StaleInv.
LEMMA StaleShrinks ==
    ASSUME StaleInv, UNCHANGED <<sizes, silent>>, Owed => Owed',
           DOMAIN cache' \subseteq DOMAIN cache,
           \A k \in DOMAIN cache' : cache'[k] = cache[k]
    PROVE  StaleInv'
<1>1. Gen' = Gen
  BY DEF Gen
<1> QED
  BY <1>1 DEF StaleInv

\* A step that leaves an invalidation owed keeps StaleInv.
LEMMA StaleOwed ==
    ASSUME Owed'
    PROVE  StaleInv'
  BY DEF StaleInv

\* A failed database call counts as an invalidation owed.
LEMMA FaultOwes ==
    ASSUME TypeOK, Fault
    PROVE  Owed'
  BY CacheAssumption DEF TypeOK, Fault, Owed

\* A fill is out of date only when it lost the race with a sync.
LEMMA StalePut ==
    ASSUME TypeOK, StaleInv, NEW c \in Clients, Put(c)
    PROVE  StaleInv'
<1> DEFINE r == [client[c].answer EXCEPT !.raced = client[c].answer.gens # {Gen}]
           key == client[c].key
<1>1. /\ cache' = [k \in DOMAIN cache \cup {key} |-> IF k = key THEN r ELSE cache[k]]
      /\ UNCHANGED <<sizes, silent, worker, deep, inline, faults>>
  BY DEF Put
<1>2. client[c].answer \in Response
  BY DEF TypeOK, Client
<1>3. r.gens = client[c].answer.gens /\ (~ r.raced => r.gens = {Gen})
  BY <1>2 DEF Response
<1>4. Gen' = Gen /\ (Owed' <=> Owed) /\ silent' = silent
  BY <1>1 DEF Gen, Owed
<1> HIDE DEF r, key
<1> SUFFICES ASSUME NEW k \in DOMAIN cache', k.spelling = "canonical",
                    ~ cache'[k].raced, ~ Owed, NEW g \in cache'[k].gens
             PROVE  (g + 1)..Gen \subseteq silent
  BY <1>4 DEF StaleInv
<1>5. CASE k = key
  <2>1. cache'[k] = r
    BY <1>1, <1>5
  <2>2. g = Gen
    BY <1>3, <2>1
  <2> QED
    BY <2>2, GenType
<1>6. CASE k # key
  <2>1. k \in DOMAIN cache /\ cache'[k] = cache[k]
    BY <1>1, <1>6
  <2> QED
    BY <2>1 DEF StaleInv
<1> QED
  BY <1>5, <1>6

\* A sync of an indexing tool adds its generation to those nothing follows up.
LEMMA StaleToolSync ==
    ASSUME TypeOK, StaleInv, NEW s \in Sizes, ToolSync(s)
    PROVE  StaleInv'
<1>1. Gen \in Nat /\ Gen' = Gen + 1
  BY GenType, CommitStep DEF ToolSync
<1>2. silent' = silent \cup {Gen + 1} /\ cache' = cache /\ (Owed' <=> Owed)
  BY DEF ToolSync, Owed
<1>3. \A g \in Nat : (g + 1)..Gen \subseteq silent => (g + 1)..(Gen + 1) \subseteq silent'
  BY <1>1, <1>2
<1>4. \A k \in DOMAIN cache : cache[k].gens \subseteq Nat
  BY DEF TypeOK, Response
<1> QED
  BY <1>1, <1>2, <1>3, <1>4 DEF StaleInv

\* Every step keeps StaleInv.
LEMMA StaleStep ==
    ASSUME TypeOK, StaleInv, [Next]_vars
    PROVE  StaleInv'
<1>1. ASSUME NEW c \in Clients, Search(c)
      PROVE  StaleInv'
  <2>1. CASE Put(c)
    BY <2>1, StalePut
  <2>2. CASE CallFails(c)
    BY <2>2, FaultOwes, StaleOwed DEF CallFails
  <2>3. CASE ~ Put(c) /\ ~ CallFails(c)
    <3>1. UNCHANGED <<sizes, silent, cache, worker, deep, inline, faults>>
      BY <1>1, <2>3 DEF Search, FirstPage, NextPage, Leave, Hit, Miss, Count, Fetch
    <3> QED
      BY <3>1, StaleShrinks DEF Owed
  <2> QED
    BY <2>1, <2>2, <2>3
<1>2. ASSUME NEW k \in DOMAIN cache, Expire(k)
      PROVE  StaleInv'
  <2>1. cache' = Without({k}) /\ UNCHANGED <<sizes, silent, worker, deep, inline, faults>>
    BY <1>2 DEF Expire
  <2>2. Owed => Owed'
    BY <2>1 DEF Owed
  <2> QED
    BY <2>1, <2>2, WithoutKeeps, StaleShrinks
<1>3. ASSUME NEW isDeep \in BOOLEAN, Claim(isDeep)
      PROVE  StaleInv'
  <2>1. UNCHANGED <<sizes, silent, cache, inline, faults>>
    BY <1>3 DEF Claim
  <2>2. worker.pc = "idle" /\ (deep # "none" => deep' # "none")
    BY <1>3 DEF Claim
  <2>3. Owed => Owed'
    BY <2>1, <2>2 DEF Owed
  <2> QED
    BY <2>1, <2>3, StaleShrinks
<1>4. ASSUME NEW s \in Sizes, Exec(s) \/ ExecFails(s) \/ InlineSync(s)
      PROVE  StaleInv'
  <2>1. CASE Exec(s)
    BY <2>1, StaleOwed DEF Exec, Owed, TypeOK
  <2>2. CASE ExecFails(s)
    BY <2>2, FaultOwes, StaleOwed DEF ExecFails
  <2>3. CASE InlineSync(s)
    BY <2>3, StaleOwed DEF InlineSync, Owed
  <2> QED
    BY <1>4, <2>1, <2>2, <2>3
<1>5. CASE Record
  BY <1>5, StaleOwed DEF Record, Owed, TypeOK
<1>6. CASE RecordFails \/ InvalidateFails \/ InlineFails
  BY <1>6, FaultOwes, StaleOwed DEF RecordFails, InvalidateFails, InlineFails
<1>7. CASE Invalidate
  <2>1. cache' = Without(Matching)
    BY <1>7 DEF Invalidate
  <2>2. \A k \in DOMAIN cache' : k.spelling # "canonical"
    BY <2>1, WithoutKeeps DEF Matching
  <2> QED
    BY <2>2 DEF StaleInv
<1>8. CASE InlineEnqueue
  <2>1. deep' # "none"
    BY <1>8 DEF InlineEnqueue
  <2> QED
    BY <2>1, StaleOwed DEF Owed
<1>9. CASE UNCHANGED vars
  BY <1>9, StaleShrinks DEF vars, Owed
<1>10. CASE \E s \in Sizes : ToolSync(s)
  BY <1>10, StaleToolSync
<1> QED
  BY <1>1, <1>2, <1>3, <1>4, <1>5, <1>6, <1>7, <1>8, <1>9, <1>10 DEF Next

\* Once the worker and the freshness checks are done and nothing failed, an
\* answer that was good when it was put is out of date only by the syncs of
\* indexing tools, for every number of clients and syncs (run_refresh_worker,
\* ensure_freshness_for_interaction, handle_index_refresh).
THEOREM InvalidationComplete == Spec => []StaleOnlyByToolSync
<1>1. Init => StaleInv
  BY DEF Init, StaleInv
<1>2. TypeOK /\ StaleInv => StaleOnlyByToolSync
  <2> SUFFICES ASSUME TypeOK, StaleInv, Quiet PROVE StaleOnlyByToolSync
    BY DEF StaleOnlyByToolSync
  <2>1. ~ Owed
    BY DEF Quiet, Owed, TypeOK
  <2> QED
    BY <2>1 DEF StaleInv, StaleOnlyByToolSync, StaleAnswers
<1> QED
  BY <1>1, <1>2, CacheTypes, StaleStep, PTL DEF Spec

-----------------------------------------------------------------------------
(* Walks. *)

\* The first n hits in order.
FirstHits(n) == [i \in 1..n |-> i]

\* A page appended to the hits before it.
LEMMA HitsConcat ==
    ASSUME NEW a \in Nat, NEW m \in Nat
    PROVE  FirstHits(a) \o [i \in 1..m |-> a + i] = FirstHits(a + m)
<1> DEFINE s == FirstHits(a)
           t == [i \in 1..m |-> a + i]
<1>1. s \in Seq(Nat) /\ Len(s) = a /\ \A i \in 1..a : s[i] = i
  BY DEF FirstHits
<1>2. t \in Seq(Nat) /\ Len(t) = m /\ \A i \in 1..m : t[i] = a + i
  OBVIOUS
<1>3. FirstHits(a + m) \in Seq(Nat) /\ Len(FirstHits(a + m)) = a + m
      /\ \A i \in 1..(a + m) : FirstHits(a + m)[i] = i
  BY DEF FirstHits
<1> HIDE DEF s, t
<1>4. /\ s \o t \in Seq(Nat) /\ Len(s \o t) = a + m
      /\ \A i \in 1..(a + m) : (s \o t)[i] = IF i <= a THEN s[i] ELSE t[i - a]
  BY <1>1, <1>2, ConcatProperties
<1>5. \A i \in 1..(a + m) : (s \o t)[i] = i
  BY <1>1, <1>2, <1>4
<1>6. s \o t = FirstHits(a + m)
  BY <1>3, <1>4, <1>5, SeqEqual
<1> QED
  BY <1>6 DEF s, t

\* The answer r of page k is what each generation it was computed from alone
\* would give.
Good(k, r) ==
    /\ r.gens # {} /\ r.gens \subseteq 1..Gen
    /\ \A g \in 1..Gen : r.gens = {g} =>
           /\ r.hits = PageHits(k, sizes[g])
           /\ r.next = NextOffset(k, r.hits, sizes[g])

\* A walk before the page at offset n has shown the first n hits.
Before(cl) ==
    /\ cl.gens = {} => cl.key.offset = 0 /\ cl.seen = <<>>
    /\ \A g \in 1..Gen : cl.gens = {g} =>
           cl.seen = FirstHits(cl.key.offset) /\ cl.key.offset <= sizes[g]

\* WalkComplete for one client.
After(cl) ==
    /\ cl.gens # {}
    /\ \A g \in 1..Gen : cl.gens = {g} =>
           LET end == cl.key.offset + cl.key.limit
           IN  /\ cl.seen = FirstHits(Min2(end, sizes[g]))
               /\ cl.answer.next = IF end < sizes[g] THEN end ELSE NoCursor

CallInv(cl) ==
    /\ cl.gens \subseteq 1..Gen
    /\ cl.pc \in {"lookup", "count", "fetch", "put"} => Before(cl)
    /\ cl.pc = "fetch" => \E h \in 1..Gen : cl.answer.gens = {h} /\ cl.total = sizes[h]
    /\ cl.pc = "put" => Good(cl.key, cl.answer)
    /\ cl.pc = "served" => After(cl)

WalkInv ==
    /\ \A k \in DOMAIN cache : Good(k, cache[k])
    /\ \A c \in Clients : CallInv(client[c])

\* A good page takes a walk from Before to After.
LEMMA WalkAdvances ==
    ASSUME TypeOK, NEW k \in Key, NEW g \in 1..Gen, sizes[g] \in Nat, k.offset <= sizes[g]
    PROVE  /\ FirstHits(k.offset) \o PageHits(k, sizes[g])
                  = FirstHits(Min2(k.offset + k.limit, sizes[g]))
           /\ NextOffset(k, PageHits(k, sizes[g]), sizes[g])
                  = IF k.offset + k.limit < sizes[g] THEN k.offset + k.limit ELSE NoCursor
<1> DEFINE n == sizes[g]
           m == IF k.offset < n THEN Min2(k.limit, n - k.offset) ELSE 0
<1>1. k.offset \in Nat /\ k.limit \in Nat /\ k.limit > 0 /\ n \in Nat
  BY DEF Key
<1>2. m \in Nat /\ k.offset + m = Min2(k.offset + k.limit, n)
  BY <1>1 DEF Min2
<1>3. PageHits(k, n) = [i \in 1..m |-> k.offset + i]
  BY DEF PageHits
<1>4. Len(PageHits(k, n)) = m
  BY <1>1, PageType
<1>5. k.offset + m < n <=> k.offset + k.limit < n
  BY <1>1 DEF Min2
<1> HIDE DEF m
<1>6. FirstHits(k.offset) \o PageHits(k, n) = FirstHits(k.offset + m)
  BY <1>1, <1>2, <1>3, HitsConcat
<1> QED
  BY <1>2, <1>4, <1>5, <1>6 DEF NextOffset

\* The sizes of all generations are numbers.
LEMMA SizeType ==
    ASSUME TypeOK
    PROVE  Gen \in Nat /\ \A g \in 1..Gen : sizes[g] \in Nat
  BY ElementOfSeq, LenProperties DEF TypeOK, Gen

\* A client that gets a good answer has the walk After promises.
LEMMA ServedGood ==
    ASSUME TypeOK, NEW c \in Clients, NEW r \in Response,
           client[c].gens \subseteq 1..Gen, Before(client[c]), Good(client[c].key, r)
    PROVE  CallInv([client[c] EXCEPT !.pc = "served", !.total = 0,
                        !.answer = [NoResponse EXCEPT !.next = r.next],
                        !.seen = @ \o r.hits, !.gens = @ \cup r.gens])
<1> DEFINE cl == client[c]
           new == [cl EXCEPT !.pc = "served", !.total = 0,
                        !.answer = [NoResponse EXCEPT !.next = r.next],
                        !.seen = @ \o r.hits, !.gens = @ \cup r.gens]
<1>1. cl \in Client /\ cl.key \in Key
  BY DEF TypeOK, Client
<1>2. /\ new.pc = "served" /\ new.key = cl.key /\ new.answer.next = r.next
      /\ new.seen = cl.seen \o r.hits /\ new.gens = cl.gens \cup r.gens
  BY <1>1, IdleTypes DEF Client, Response
<1> HIDE DEF new
<1>3. new.gens \subseteq 1..Gen /\ new.gens # {}
  BY <1>2 DEF Good
<1>4. ASSUME NEW g \in 1..Gen, new.gens = {g}
      PROVE  LET end == new.key.offset + new.key.limit
             IN  /\ new.seen = FirstHits(Min2(end, sizes[g]))
                 /\ new.answer.next = IF end < sizes[g] THEN end ELSE NoCursor
  <2>1. r.gens = {g} /\ (cl.gens = {} \/ cl.gens = {g})
    BY <1>2, <1>4 DEF Good
  <2>2. sizes[g] \in Nat
    BY SizeType
  <2>3. r.hits = PageHits(cl.key, sizes[g]) /\ r.next = NextOffset(cl.key, r.hits, sizes[g])
    BY <2>1 DEF Good
  <2>4. FirstHits(0) = <<>>
    BY DEF FirstHits
  <2>5. cl.seen = FirstHits(cl.key.offset) /\ cl.key.offset <= sizes[g]
    BY <2>1, <2>2, <2>4 DEF Before
  <2> QED
    BY <1>1, <1>2, <2>2, <2>3, <2>5, WalkAdvances
<1>5. After(new)
  BY <1>3, <1>4 DEF After
<1>6. CallInv(new)
  BY <1>2, <1>3, <1>5 DEF CallInv
<1> QED
  BY <1>6 DEF new

\* A step of one call keeps WalkInv when it keeps it for that call.
LEMMA WalkCall ==
    ASSUME WalkInv, NEW c \in Clients, sizes' = sizes,
           \A d \in Clients : d # c => client'[d] = client[d],
           CallInv(client'[c]), \A k \in DOMAIN cache' : Good(k, cache'[k])
    PROVE  WalkInv'
<1>1. Gen' = Gen
  BY DEF Gen
<1>2. \A k \in DOMAIN cache' : Good(k, cache[k])'
  BY <1>1 DEF Good
<1>3. \A d \in Clients : CallInv(client'[d])
  BY DEF WalkInv
<1>4. \A d \in Clients : CallInv(client[d])'
  BY <1>1, <1>3 DEF CallInv, Before, After, Good
<1> QED
  BY <1>2, <1>4 DEF WalkInv

\* The steps of a search call keep WalkInv.
LEMMA WalkSearch ==
    ASSUME TypeOK, WalkInv, NEW c \in Clients, Search(c)
    PROVE  WalkInv'
<1> DEFINE cl == client[c]
<1>0. cl \in Client /\ cl.key \in Key /\ cl.answer \in Response /\ CallInv(cl)
  BY DEF TypeOK, Client, WalkInv
<1>1. Gen \in Nat /\ Gen >= 1 /\ sizes[Gen] \in Nat /\ \A g \in 1..Gen : sizes[g] \in Nat
  BY GenType, SizeType
<1>2. ASSUME NEW state \in Client, Becomes(c, state), CallInv(state),
             UNCHANGED <<sizes, cache>>
      PROVE  WalkInv'
  BY <1>2, ClientType, WalkCall DEF WalkInv
<1>3. \A cn \in Client : cn.pc = "idle" /\ cn.gens = {} => CallInv(cn)
  BY DEF CallInv
<1>4. CASE \E sp \in Spellings, l \in Limits : FirstPage(c, sp, l)
  <2>1. PICK sp \in Spellings, l \in Limits : FirstPage(c, sp, l)
    BY <1>4
  <2> DEFINE key == [spelling |-> sp, offset |-> 0, limit |-> l]
             new == [IdleClient EXCEPT !.pc = "lookup", !.key = key]
  <2>2. key \in Key /\ key.offset = 0
    BY CacheAssumption DEF Key
  <2>3. Becomes(c, new) /\ UNCHANGED <<sizes, cache>>
    BY <2>1 DEF FirstPage
  <2> HIDE DEF key
  <2>4. new \in Client
    BY <2>2, IdleTypes DEF Client
  <2>5. new.pc = "lookup" /\ new.key = key /\ new.seen = <<>> /\ new.gens = {}
    BY DEF IdleClient
  <2> HIDE DEF new
  <2>6. CallInv(new)
    BY <2>2, <2>5 DEF CallInv, Before
  <2> QED
    BY <1>2, <2>3, <2>4, <2>6
<1>5. CASE NextPage(c)
  <2> DEFINE key == At(cl.key, cl.answer.next)
             new == [cl EXCEPT !.pc = "lookup", !.key = key]
  <2>1. Becomes(c, new) /\ UNCHANGED <<sizes, cache>>
    BY <1>5 DEF NextPage
  <2>2. cl.pc = "served" /\ cl.answer.next # NoCursor /\ cl.answer.next \in Nat
    BY <1>0, <1>5 DEF NextPage, Response
  <2>3. key \in Key /\ key.offset = cl.answer.next
    BY <1>0, <2>2 DEF At, Key
  <2> HIDE DEF key
  <2>4. new \in Client /\ new.pc = "lookup" /\ new.key = key
        /\ new.seen = cl.seen /\ new.gens = cl.gens
    BY <1>0, <2>3 DEF Client
  <2> HIDE DEF new
  <2>5. After(cl) /\ cl.gens \subseteq 1..Gen
    BY <1>0, <2>2 DEF CallInv
  <2>6. ASSUME NEW g \in 1..Gen, new.gens = {g}
        PROVE  new.seen = FirstHits(new.key.offset) /\ new.key.offset <= sizes[g]
    <3>1. cl.key.offset \in Nat /\ cl.key.limit \in Nat /\ sizes[g] \in Nat
      BY <1>0, <1>1 DEF Key
    <3>2. /\ cl.seen = FirstHits(Min2(cl.key.offset + cl.key.limit, sizes[g]))
          /\ cl.key.offset + cl.key.limit < sizes[g]
          /\ cl.answer.next = cl.key.offset + cl.key.limit
      BY <2>2, <2>4, <2>5, <2>6 DEF After
    <3>3. Min2(cl.key.offset + cl.key.limit, sizes[g]) = cl.answer.next
      BY <3>1, <3>2 DEF Min2
    <3> QED
      BY <2>3, <2>4, <3>1, <3>2, <3>3
  <2>7. CallInv(new)
    BY <2>4, <2>5, <2>6 DEF CallInv, Before, After
  <2> QED
    BY <1>2, <2>1, <2>4, <2>7
<1>6. CASE Leave(c)
  <2>1. IdleClient.pc = "idle" /\ IdleClient.gens = {}
    BY DEF IdleClient
  <2> QED
    BY <1>2, <1>3, <1>6, <2>1, IdleTypes DEF Leave
<1>7. CASE Hit(c)
  <2>1. cl.pc = "lookup" /\ cl.key \in DOMAIN cache /\ Served(c, cache[cl.key])
        /\ UNCHANGED <<sizes, cache>>
    BY <1>7 DEF Hit
  <2>2. cache[cl.key] \in Response /\ Good(cl.key, cache[cl.key])
    BY <2>1 DEF TypeOK, WalkInv
  <2>3. cl.gens \subseteq 1..Gen /\ Before(cl)
    BY <1>0, <2>1 DEF CallInv
  <2> QED
    BY <1>2, <2>1, <2>2, <2>3, ServedType, ServedGood DEF Served
<1>8. CASE Miss(c)
  <2> DEFINE new == [cl EXCEPT !.pc = "count"]
  <2>1. Becomes(c, new) /\ cl.pc = "lookup" /\ UNCHANGED <<sizes, cache>>
    BY <1>8 DEF Miss
  <2>2. new \in Client /\ new.pc = "count" /\ new.key = cl.key
        /\ new.seen = cl.seen /\ new.gens = cl.gens
    BY <1>0 DEF Client
  <2> HIDE DEF new
  <2>3. CallInv(new)
    BY <1>0, <2>1, <2>2 DEF CallInv, Before
  <2> QED
    BY <1>2, <2>1, <2>2, <2>3
<1>9. CASE Count(c)
  <2> DEFINE r == [NoResponse EXCEPT !.gens = {Gen}]
             new == [cl EXCEPT !.pc = "fetch", !.total = sizes[Gen], !.answer = r]
  <2>1. Becomes(c, new) /\ cl.pc = "count" /\ UNCHANGED <<sizes, cache>>
    BY <1>9 DEF Count
  <2>2. r \in Response /\ r.gens = {Gen}
    BY <1>1, IdleTypes DEF Response
  <2> HIDE DEF r
  <2>3. new \in Client /\ new.pc = "fetch" /\ new.key = cl.key /\ new.seen = cl.seen
        /\ new.gens = cl.gens /\ new.answer = r /\ new.total = sizes[Gen]
    BY <1>0, <1>1, <2>2 DEF Client
  <2> HIDE DEF new
  <2>4. CallInv(new)
    BY <1>0, <1>1, <2>1, <2>2, <2>3 DEF CallInv, Before
  <2> QED
    BY <1>2, <2>1, <2>3, <2>4
<1>10. CASE Fetch(c)
  <2> DEFINE hits == PageHits(cl.key, sizes[Gen])
             r == [gens |-> cl.answer.gens \cup {Gen}, hits |-> hits,
                   next |-> NextOffset(cl.key, hits, cl.total), raced |-> FALSE]
             new == [cl EXCEPT !.pc = "put", !.answer = r]
  <2>1. Becomes(c, new) /\ cl.pc = "fetch" /\ UNCHANGED <<sizes, cache>>
    BY <1>10 DEF Fetch
  <2>2. hits \in Seq(Nat) /\ cl.total \in Nat
    BY <1>0, <1>1, PageType DEF Client
  <2>3. NextOffset(cl.key, hits, cl.total) \in Nat \cup {NoCursor}
    BY <1>0, <1>1, <2>2, AnswerType
  <2>4. cl.answer.gens \cup {Gen} \in SUBSET Nat
    BY <1>0, <1>1 DEF Response
  <2>5. PICK h \in 1..Gen : cl.answer.gens = {h} /\ cl.total = sizes[h]
    BY <1>0, <2>1 DEF CallInv
  <2>6. ASSUME NEW g \in 1..Gen, cl.answer.gens \cup {Gen} = {g}
        PROVE  hits = PageHits(cl.key, sizes[g]) /\ cl.total = sizes[g]
    BY <2>5, <2>6
  <2>7. cl.answer.gens \cup {Gen} \subseteq 1..Gen
    BY <1>1, <2>5
  <2> HIDE DEF hits
  <2>8. r \in Response /\ r.gens = cl.answer.gens \cup {Gen} /\ r.hits = hits
        /\ r.next = NextOffset(cl.key, hits, cl.total)
    BY <2>2, <2>3, <2>4 DEF Response
  <2> HIDE DEF r
  <2>9. Good(cl.key, r)
    BY <2>6, <2>7, <2>8 DEF Good
  <2>10. new \in Client /\ new.pc = "put" /\ new.key = cl.key /\ new.seen = cl.seen
         /\ new.gens = cl.gens /\ new.answer = r
    BY <1>0, <2>8 DEF Client
  <2> HIDE DEF new
  <2>11. CallInv(new)
    BY <1>0, <2>1, <2>9, <2>10 DEF CallInv, Before
  <2> QED
    BY <1>2, <2>1, <2>10, <2>11
<1>11. CASE Put(c)
  <2> DEFINE r == [cl.answer EXCEPT !.raced = cl.answer.gens # {Gen}]
             new == [cl EXCEPT !.pc = "served", !.total = 0,
                        !.answer = [NoResponse EXCEPT !.next = r.next],
                        !.seen = @ \o r.hits, !.gens = @ \cup r.gens]
  <2>1. /\ cache' = [k \in DOMAIN cache \cup {cl.key} |-> IF k = cl.key THEN r ELSE cache[k]]
        /\ Served(c, r) /\ sizes' = sizes /\ cl.pc = "put"
    BY <1>11 DEF Put
  <2>2. r \in Response /\ r.gens = cl.answer.gens /\ r.hits = cl.answer.hits
        /\ r.next = cl.answer.next
    BY <1>0 DEF Response
  <2> HIDE DEF r
  <2>3. Good(cl.key, r) /\ cl.gens \subseteq 1..Gen /\ Before(cl)
    BY <1>0, <2>1, <2>2 DEF CallInv, Good
  <2>4. new \in Client /\ CallInv(new)
    BY <2>2, <2>3, ServedType, ServedGood
  <2>5. Becomes(c, new)
    BY <2>1 DEF Served
  <2> HIDE DEF new
  <2>6. client'[c] = new /\ \A d \in Clients : d # c => client'[d] = client[d]
    BY <2>4, <2>5, ClientType
  <2>7. \A k \in DOMAIN cache' : Good(k, cache'[k])
    <3> SUFFICES ASSUME NEW k \in DOMAIN cache' PROVE Good(k, cache'[k])
      OBVIOUS
    <3>1. CASE k = cl.key
      BY <2>1, <2>3, <3>1
    <3>2. CASE k # cl.key
      <4>1. k \in DOMAIN cache /\ cache'[k] = cache[k]
        BY <2>1, <3>2
      <4> QED
        BY <4>1 DEF WalkInv
    <3> QED
      BY <3>1, <3>2
  <2> QED
    BY <2>1, <2>4, <2>6, <2>7, WalkCall
<1>12. CASE CallFails(c)
  <2>1. IdleClient.pc = "idle" /\ IdleClient.gens = {}
    BY DEF IdleClient
  <2> QED
    BY <1>2, <1>3, <1>12, <2>1, IdleTypes DEF CallFails
<1> QED
  BY <1>4, <1>5, <1>6, <1>7, <1>8, <1>9, <1>10, <1>11, <1>12 DEF Search

\* A new generation leaves what was computed from the earlier ones as it was.
LEMMA WalkSync ==
    ASSUME TypeOK, WalkInv, NEW s \in Sizes, Commit(s), UNCHANGED <<cache, client>>
    PROVE  WalkInv'
<1>1. Gen' = Gen + 1 /\ \A g \in 1..Gen : sizes'[g] = sizes[g]
  BY CommitStep
<1>2. Gen \in Nat
  BY SizeType
<1>3. \A G \in SUBSET (1..Gen) : \A g \in 1..Gen' : G = {g} => g \in 1..Gen
  OBVIOUS
<1>4. 1..Gen \subseteq 1..Gen'
  BY <1>1, <1>2
<1>5. ASSUME NEW k, NEW r, Good(k, r)
      PROVE  /\ r.gens # {} /\ r.gens \subseteq 1..Gen'
             /\ \A g \in 1..Gen' : r.gens = {g} =>
                    r.hits = PageHits(k, sizes'[g]) /\ r.next = NextOffset(k, r.hits, sizes'[g])
  BY <1>1, <1>3, <1>4, <1>5 DEF Good
<1>6. \A k \in DOMAIN cache' : Good(k, cache[k])'
  BY <1>5 DEF WalkInv, Good
<1>7. ASSUME NEW c \in Clients
      PROVE  CallInv(client[c])'
  <2>1. CallInv(client[c]) /\ client'[c] = client[c]
    BY DEF WalkInv
  <2>2. client[c].gens \subseteq 1..Gen /\ client[c].gens \subseteq 1..Gen'
    BY <1>4, <2>1 DEF CallInv
  <2>3. Before(client[c]) => Before(client[c])'
    BY <1>1, <1>3, <2>1, <2>2 DEF Before
  <2>4. After(client[c]) => After(client[c])'
    BY <1>1, <1>3, <2>1, <2>2 DEF After
  <2>5. Good(client[c].key, client[c].answer) => Good(client[c].key, client[c].answer)'
    <3> DEFINE k == client[c].key
               r == client[c].answer
    <3> SUFFICES ASSUME Good(k, r) PROVE Good(k, r)'
      OBVIOUS
    <3>1. k' = k /\ r' = r
      BY <2>1
    <3>2. /\ r.gens # {} /\ r.gens \subseteq 1..Gen'
          /\ \A g \in 1..Gen' : r.gens = {g} =>
                 r.hits = PageHits(k, sizes'[g]) /\ r.next = NextOffset(k, r.hits, sizes'[g])
      BY <1>5
    <3> HIDE DEF k, r
    <3> QED
      BY <3>1, <3>2 DEF Good
  <2> QED
    BY <1>1, <1>4, <2>1, <2>2, <2>3, <2>4, <2>5 DEF CallInv
<1> QED
  BY <1>6, <1>7 DEF WalkInv

\* Every step keeps WalkInv.
LEMMA WalkStep ==
    ASSUME TypeOK, WalkInv, [Next]_vars
    PROVE  WalkInv'
<1>1. ASSUME UNCHANGED <<sizes, client>>, DOMAIN cache' \subseteq DOMAIN cache,
             \A k \in DOMAIN cache' : cache'[k] = cache[k]
      PROVE  WalkInv'
  <2>1. Gen' = Gen
    BY <1>1 DEF Gen
  <2>2. \A k \in DOMAIN cache' : Good(k, cache[k])'
    BY <1>1, <2>1 DEF WalkInv, Good
  <2>3. \A c \in Clients : CallInv(client[c])'
    BY <1>1, <2>1 DEF WalkInv, CallInv, Before, After, Good
  <2> QED
    BY <2>2, <2>3 DEF WalkInv
<1>2. CASE \E c \in Clients : Search(c)
  BY <1>2, WalkSearch
<1>3. CASE \E k \in DOMAIN cache : Expire(k)
  <2>1. PICK k \in DOMAIN cache : Expire(k)
    BY <1>3
  <2> QED
    BY <1>1, <2>1, WithoutKeeps DEF Expire
<1>4. ASSUME NEW s \in Sizes, Exec(s) \/ ExecFails(s) \/ InlineSync(s) \/ ToolSync(s)
      PROVE  WalkInv'
  <2>1. CASE Commit(s)
    BY <1>4, <2>1, WalkSync DEF Exec, ExecFails, InlineSync, ToolSync
  <2>2. CASE ~ Commit(s)
    BY <1>1, <1>4, <2>2 DEF Exec, ExecFails, InlineSync, ToolSync
  <2> QED
    BY <2>1, <2>2
<1>5. CASE Invalidate
  <2>1. cache' = Without(Matching) /\ UNCHANGED <<sizes, client>>
    BY <1>5 DEF Invalidate
  <2> QED
    BY <1>1, <2>1, WithoutKeeps
<1>6. CASE \/ Record \/ RecordFails \/ InvalidateFails \/ InlineEnqueue \/ InlineFails
           \/ \E isDeep \in BOOLEAN : Claim(isDeep)
  <2>1. UNCHANGED <<sizes, cache, client>>
    BY <1>6 DEF Record, RecordFails, InvalidateFails, InlineEnqueue, InlineFails, Claim
  <2> QED
    BY <1>1, <2>1
<1>7. CASE UNCHANGED vars
  BY <1>1, <1>7 DEF vars
<1> QED
  BY <1>2, <1>3, <1>4, <1>5, <1>6, <1>7 DEF Next

\* A walk whose pages were all computed from one generation of the index shows
\* every hit once, in order, and ends with the last one, for every page size,
\* number of hits and interleaving (handle_symbol_search, resolve_pagination).
THEOREM WalkIsComplete == Spec => []WalkComplete
<1>1. Init => WalkInv
  <2> SUFFICES ASSUME Init PROVE WalkInv
    OBVIOUS
  <2>1. DOMAIN cache = {}
    BY DEF Init
  <2>2. \A c \in Clients : client[c].pc = "idle" /\ client[c].gens = {}
    BY DEF Init, IdleClient
  <2>3. \A c \in Clients : CallInv(client[c])
    BY <2>2 DEF CallInv
  <2> QED
    BY <2>1, <2>3 DEF WalkInv
<1>2. WalkInv => WalkComplete
  BY DEF WalkInv, CallInv, After, WalkComplete, FirstHits
<1> QED
  BY <1>1, <1>2, CacheTypes, WalkStep, PTL DEF Spec
=============================================================================
