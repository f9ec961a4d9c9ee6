-------------------------- MODULE ToolCallsProofs --------------------------
(***************************************************************************)
(* Proofs about a tool call and the session it arrives in: what a crate    *)
(* tool tells its client about versions is true, for every number of       *)
(* versions and every interleaving of the call with crates.io and with the *)
(* worker's job; and the session store and the stdio adapter, for every    *)
(* number of sessions, lines, faults and restarts and every idle timeout.  *)
(***************************************************************************)
EXTENDS StdioAdapter, ToolCalls, FiniteSetTheorems, SequenceTheorems, TLAPS

-----------------------------------------------------------------------------
(* The order of publication. *)

\* The versions published first, n of them.
FirstOf(n) == {published[i] : i \in 1..n}

\* crates.io's list of versions only grows, and no version is published twice.
PublishedOnce ==
    /\ published \in Seq(Int)
    /\ published # << >>
    /\ \A i, j \in 1..Len(published) : published[i] = published[j] => i = j

IndexType == [known : BOOLEAN, rows : SUBSET Int, due : BOOLEAN]
JobStates == {"none", "queued", "running", "stored", "requeued"}

\* What the index and the job have of the crate is what crates.io listed at
\* some moment: the versions published up to then.
RowsListed ==
    /\ index \in IndexType
    /\ \E n \in 0..Len(published) : index.rows = FirstOf(n)
JobListed ==
    /\ crateJob = [state |-> crateJob.state, read |-> crateJob.read]
    /\ crateJob.state \in JobStates
    /\ \E n \in 0..Len(published) : crateJob.read = FirstOf(n)
    /\ crateJob.state \in {"none", "queued", "requeued"} => crateJob.read = {}
    /\ crateJob.state \in {"running", "stored"} => crateJob.read # {}
    /\ crateJob.state = "stored" => index.known /\ crateJob.read \subseteq index.rows
ListedOnce == RowsListed /\ JobListed

\* The whole list, as the set of its versions.
LEMMA AllOfThem ==
    PublishedOnce =>
        /\ OnCratesIo = FirstOf(Len(published))
        /\ OnCratesIo = {published[i] : i \in 1..Len(published)}
<1> SUFFICES ASSUME PublishedOnce
    PROVE  /\ OnCratesIo = FirstOf(Len(published))
           /\ OnCratesIo = {published[i] : i \in 1..Len(published)}
  OBVIOUS
<1>1. DOMAIN published = 1..Len(published)
  BY LenProperties DEF PublishedOnce
<1> QED
  BY <1>1 DEF OnCratesIo, ToSet, FirstOf

\* The newest of the versions listed at a moment is the last one published
\* until then (ORDER BY published_at DESC LIMIT 1).
LEMMA NewestOfList ==
    ASSUME PublishedOnce, NEW n \in 1..Len(published)
    PROVE  Newest(FirstOf(n)) = published[n]
<1> DEFINE S == {i \in DOMAIN published : published[i] \in FirstOf(n)}
<1>0. published \in Seq(Int) /\ Len(published) \in Nat /\ DOMAIN published = 1..Len(published)
  BY LenProperties DEF PublishedOnce
<1>1. S = 1..n
  <2>1. ASSUME NEW i \in 1..Len(published), published[i] \in FirstOf(n)
        PROVE  i \in 1..n
    <3>1. PICK k \in 1..n : published[i] = published[k]
      BY <2>1 DEF FirstOf
    <3>2. k \in 1..Len(published)
      BY <1>0
    <3> QED
      BY <2>1, <3>1, <3>2 DEF PublishedOnce
  <2>2. ASSUME NEW i \in 1..n PROVE i \in 1..Len(published) /\ published[i] \in FirstOf(n)
    BY <1>0 DEF FirstOf
  <2> QED
    BY <1>0, <2>1, <2>2
<1>2. Max(1..n) = n
  <2>1. n \in 1..n /\ \A y \in 1..n : n >= y
    BY <1>0
  <2>2. \A x \in 1..n : (\A y \in 1..n : x >= y) => x = n
    BY <1>0
  <2> QED
    BY <2>1, <2>2 DEF Max
<1> HIDE DEF S
<1> QED
  BY <1>1, <1>2 DEF Newest, S

\* crates.io's newest version is the last of its list.
LEMMA NewestAtLast ==
    PublishedOnce /\ Len(published) \in 1..Len(published)
        => Newest(FirstOf(Len(published))) = published[Len(published)]
  BY NewestOfList

\* Two lists read at different moments contain one another.
LEMMA ListsUnite ==
    ASSUME NEW m \in Nat, NEW n \in Nat
    PROVE  \E k \in {m, n} : k >= m /\ k >= n /\ FirstOf(m) \cup FirstOf(n) = FirstOf(k)
<1>1. CASE m <= n
  BY <1>1 DEF FirstOf
<1>2. CASE n <= m
  BY <1>2 DEF FirstOf
<1> QED
  BY <1>1, <1>2

-----------------------------------------------------------------------------
(* The stages of a handler. *)

\* A handler finds the crate, then chooses a version, then prepares the rows.
EntryStages == {"context", "indexed crate", "known crate"}
VersionStages == {"version", "version, if indexed"}
ChoosingStages == VersionStages \cup {"latest"}
RowStages == {"features", "rustdoc", "rustdoc, if it can be had", "source"}
Stages == EntryStages \cup ChoosingStages \cup {"latest again"} \cup RowStages

InOrder(plan) ==
    /\ plan \in Seq(Stages)
    /\ \A i \in 2..Len(plan) : plan[i] \notin EntryStages
    /\ \A i, j \in 1..Len(plan) :
           i < j /\ plan[i] \in ChoosingStages => plan[j] \notin ChoosingStages

Includes(plan, stages) == \E i \in 1..Len(plan) : plan[i] \in stages

\* A stage is of one kind.
LEMMA StageKinds ==
    /\ EntryStages \subseteq Stages /\ VersionStages \subseteq Stages /\ RowStages \subseteq Stages
    /\ {"context", "latest", "latest again", "version"} \subseteq Stages
    /\ \A s \in VersionStages : s \in ChoosingStages /\ s \notin EntryStages /\ s # "latest"
    /\ \A s \in RowStages \cup {"latest again"} :
           s \notin ChoosingStages /\ s \notin EntryStages /\ s # "latest"
    /\ "latest" \notin EntryStages
    /\ \A s \in EntryStages : s \notin ChoosingStages /\ s # "latest"
  BY DEF EntryStages, VersionStages, ChoosingStages, RowStages, Stages

\* A plan of two stages (VersionedPlan), written out.
LEMMA PairAsSeq ==
    ASSUME NEW S, NEW a \in S, NEW b \in S
    PROVE  /\ <<a, b>> \in Seq(S) /\ Len(<<a, b>>) = 2 /\ <<a, b>> # << >>
           /\ <<a, b>>[1] = a /\ <<a, b>>[2] = b
  OBVIOUS

\* A plan of three stages (crate_license_check, source_read), written out.
LEMMA TripleAsSeq ==
    ASSUME NEW S, NEW a \in S, NEW b \in S, NEW c \in S
    PROVE  /\ <<a, b, c>> \in Seq(S) /\ Len(<<a, b, c>>) = 3 /\ <<a, b, c>> # << >>
           /\ <<a, b, c>>[1] = a /\ <<a, b, c>>[2] = b /\ <<a, b, c>>[3] = c
  OBVIOUS

\* The places of the stages in a plan of two or three.
LEMMA ShortIntervals ==
    /\ \A i \in 1..2 : i = 1 \/ i = 2
    /\ \A i \in 1..3 : i = 1 \/ i = 2 \/ i = 3
    /\ \A i \in 2..2 : i = 2
    /\ \A i \in 2..3 : i = 2 \/ i = 3
    /\ 1 \in 1..2 /\ 2 \in 1..2 /\ 2 \in 1..3 /\ 3 \in 1..3
    /\ \A i, j \in 1..2 : i < j => i = 1 /\ j = 2
    /\ \A i, j \in 1..3 : i < j => i = 1 \/ (i = 2 /\ j = 3)
  OBVIOUS

\* A plan of two or three stages that finds the crate, then chooses a version.
LEMMA ShortPlans ==
    ASSUME NEW p \in Seq(Stages),
           /\ p[1] \in EntryStages
           /\ \/ Len(p) = 2 /\ p[2] \in VersionStages
              \/ Len(p) = 3 /\ p[2] \in VersionStages /\ p[3] \in RowStages
              \/ Len(p) = 3 /\ p[2] = "latest again" /\ p[3] \in VersionStages
    PROVE  InOrder(p) /\ Includes(p, VersionStages) /\ ~ Includes(p, {"latest"})
<1>1. CASE Len(p) = 2 /\ p[2] \in VersionStages
  <2>1. /\ p[1] \notin ChoosingStages /\ p[1] # "latest"
        /\ p[2] \in ChoosingStages /\ p[2] \notin EntryStages /\ p[2] # "latest"
    BY <1>1, StageKinds
  <2>2. \A i \in 2..2 : p[i] \notin EntryStages
    BY <2>1, ShortIntervals
  <2>3. ASSUME NEW i \in 1..2, NEW j \in 1..2, i < j, p[i] \in ChoosingStages
        PROVE  p[j] \notin ChoosingStages
    <3>1. i = 1 /\ j = 2
      BY <2>3, ShortIntervals
    <3> QED
      BY <2>1, <2>3, <3>1
  <2>4. \E i \in 1..2 : p[i] \in VersionStages
    BY <1>1, ShortIntervals
  <2>5. \A i \in 1..2 : p[i] \notin {"latest"}
    BY <2>1, ShortIntervals
  <2> QED
    BY <1>1, <2>2, <2>3, <2>4, <2>5 DEF InOrder, Includes
<1>2. ASSUME Len(p) = 3,
             \/ p[2] \in VersionStages /\ p[3] \in RowStages
             \/ p[2] = "latest again" /\ p[3] \in VersionStages
      PROVE  InOrder(p) /\ Includes(p, VersionStages) /\ ~ Includes(p, {"latest"})
  <2>1. /\ p[1] \notin ChoosingStages /\ p[1] # "latest"
        /\ p[2] \notin EntryStages /\ p[2] # "latest"
        /\ p[3] \notin EntryStages /\ p[3] # "latest"
        /\ p[2] \notin ChoosingStages \/ p[3] \notin ChoosingStages
        /\ p[2] \in VersionStages \/ p[3] \in VersionStages
    BY <1>2, StageKinds
  <2>2. \A i \in 2..3 : p[i] \notin EntryStages
    BY <2>1, ShortIntervals
  <2>3. ASSUME NEW i \in 1..3, NEW j \in 1..3, i < j, p[i] \in ChoosingStages
        PROVE  p[j] \notin ChoosingStages
    <3>1. i = 1 \/ (i = 2 /\ j = 3)
      BY <2>3, ShortIntervals
    <3> QED
      BY <2>1, <2>3, <3>1
  <2>4. \E i \in 1..3 : p[i] \in VersionStages
    BY <2>1, ShortIntervals
  <2>5. \A i \in 1..3 : p[i] \notin {"latest"}
    BY <2>1, ShortIntervals
  <2> QED
    BY <1>2, <2>2, <2>3, <2>4, <2>5 DEF InOrder, Includes
<1> QED
  BY <1>1, <1>2

\* A plan that adds one stage to the two every versioned tool has.
LEMMA LongerPlans ==
    ASSUME NEW s \in RowStages
    PROVE  /\ VersionedPlan \o <<s>> \in Seq(Stages)
           /\ Len(VersionedPlan \o <<s>>) = 3
           /\ (VersionedPlan \o <<s>>)[1] = "context"
           /\ (VersionedPlan \o <<s>>)[2] = "version"
           /\ (VersionedPlan \o <<s>>)[3] = s
<1>1. s \in Stages /\ "context" \in Stages /\ "version" \in Stages
  BY StageKinds
<1>2. /\ VersionedPlan \in Seq(Stages) /\ Len(VersionedPlan) = 2
      /\ VersionedPlan[1] = "context" /\ VersionedPlan[2] = "version"
  BY <1>1, PairAsSeq DEF VersionedPlan
<1>3. <<s>> \in Seq(Stages) /\ Len(<<s>>) = 1 /\ <<s>>[1] = s
  BY <1>1
<1> QED
  BY <1>2, <1>3, ConcatProperties

\* Every tool goes through its stages in that order; all but crate_versions
\* choose a version the request may name.
LEMMA PlansInOrder ==
    ASSUME NEW plan \in Plans
    PROVE  /\ InOrder(plan)
           /\ plan # << >>
           /\ plan # CrateVersionsList =>
                  Includes(plan, VersionStages) /\ ~ Includes(plan, {"latest"})
<1> DEFINE Versioned(p) ==
               /\ p \in Seq(Stages) /\ p # << >>
               /\ p[1] \in EntryStages
               /\ \/ Len(p) = 2 /\ p[2] \in VersionStages
                  \/ Len(p) = 3 /\ p[2] \in VersionStages /\ p[3] \in RowStages
                  \/ Len(p) = 3 /\ p[2] = "latest again" /\ p[3] \in VersionStages
<1>0. /\ "context" \in EntryStages /\ "indexed crate" \in EntryStages
      /\ "known crate" \in EntryStages
      /\ "version" \in VersionStages /\ "version, if indexed" \in VersionStages
      /\ "features" \in RowStages /\ "rustdoc" \in RowStages /\ "source" \in RowStages
      /\ "rustdoc, if it can be had" \in RowStages
      /\ "latest" \in Stages /\ "latest again" \in Stages
  BY DEF EntryStages, VersionStages, RowStages, ChoosingStages, Stages
<1>1. Versioned(CrateIntel)
  BY <1>0, StageKinds, PairAsSeq DEF CrateIntel, VersionedPlan
<1>2. \A s \in RowStages : Versioned(VersionedPlan \o <<s>>)
  <2> SUFFICES ASSUME NEW s \in RowStages PROVE Versioned(VersionedPlan \o <<s>>)
    OBVIOUS
  <2> DEFINE p == VersionedPlan \o <<s>>
  <2>1. /\ p \in Seq(Stages) /\ Len(p) = 3
        /\ p[1] = "context" /\ p[2] = "version" /\ p[3] = s
    BY LongerPlans
  <2>2. p # << >>
    BY <2>1
  <2> HIDE DEF p
  <2>3. Versioned(p)
    BY <1>0, <2>1, <2>2
  <2> QED
    BY <2>3 DEF p
<1>3. /\ Versioned(CrateFeatures) /\ Versioned(CrateTypeInfo) /\ Versioned(CrateDeprecated)
      /\ Versioned(CrateDeriveMacros)
  <2> HIDE DEF Versioned
  <2> QED
    BY <1>0, <1>2 DEF CrateFeatures, CrateTypeInfo, CrateDeprecated, CrateDeriveMacros
<1>4. \A a \in EntryStages, v \in VersionStages, s \in RowStages : Versioned(<<a, v, s>>)
  BY StageKinds, TripleAsSeq
<1>5. Versioned(CrateLicenseCheck)
  <2>1. "context" \in Stages /\ "latest again" \in Stages /\ "version" \in Stages
    BY StageKinds
  <2>2. /\ CrateLicenseCheck \in Seq(Stages) /\ Len(CrateLicenseCheck) = 3
        /\ CrateLicenseCheck # << >> /\ CrateLicenseCheck[1] = "context"
        /\ CrateLicenseCheck[2] = "latest again" /\ CrateLicenseCheck[3] = "version"
    BY <2>1, TripleAsSeq DEF CrateLicenseCheck
  <2> QED
    BY <1>0, <2>2
<1>6. Versioned(CrateApiDiff) /\ Versioned(SourceContext) /\ Versioned(SourceRead)
  <2> HIDE DEF Versioned
  <2> QED
    BY <1>0, <1>4 DEF CrateApiDiff, SourceContext, SourceRead
<1>7. Versioned(plan) \/ plan = CrateVersionsList
  <2> HIDE DEF Versioned
  <2> QED
    BY <1>1, <1>3, <1>5, <1>6 DEF Plans
<1>8. InOrder(CrateVersionsList) /\ CrateVersionsList # << >>
  <2>1. /\ CrateVersionsList \in Seq(Stages) /\ Len(CrateVersionsList) = 2
        /\ CrateVersionsList # << >>
        /\ CrateVersionsList[1] = "context" /\ CrateVersionsList[2] = "latest"
    BY <1>0, StageKinds, PairAsSeq DEF CrateVersionsList
  <2>2. "context" \notin ChoosingStages /\ "latest" \notin EntryStages
    BY <1>0, StageKinds
  <2> QED
    BY <2>1, <2>2, ShortIntervals DEF InOrder
<1>9. CASE Versioned(plan)
  <2>1. InOrder(plan) /\ Includes(plan, VersionStages) /\ ~ Includes(plan, {"latest"})
    BY <1>9, ShortPlans
  <2> QED
    BY <1>9, <2>1
<1> QED
  BY <1>7, <1>8, <1>9

\* What is left of a plan is in order again, and does not find the crate anew.
LEMMA RestInOrder ==
    ASSUME NEW plan, InOrder(plan), plan # << >>
    PROVE  /\ InOrder(Tail(plan))
           /\ Len(plan) # 1 => Tail(plan) # << >> /\ Head(Tail(plan)) \notin EntryStages
           /\ Len(plan) = 1 => ~ \E i \in 2..Len(plan) : TRUE
           /\ \A stages : Includes(Tail(plan), stages)
                              <=> \E i \in 2..Len(plan) : plan[i] \in stages
           /\ Head(plan) = plan[1] /\ 1 \in 1..Len(plan) /\ Len(plan) \in Nat
<1>1. /\ plan \in Seq(Stages) /\ Len(plan) \in Nat \ {0}
      /\ Tail(plan) \in Seq(Stages) /\ Len(Tail(plan)) = Len(plan) - 1
      /\ \A i \in 1..(Len(plan) - 1) : Tail(plan)[i] = plan[i + 1]
      /\ Head(plan) = plan[1]
  BY HeadTailProperties, EmptySeq, LenProperties DEF InOrder
<1> DEFINE rest == Tail(plan)
<1>2. rest \in Seq(Stages) /\ Len(rest) = Len(plan) - 1
      /\ \A i \in 1..(Len(plan) - 1) : rest[i] = plan[i + 1]
  BY <1>1
<1> HIDE DEF rest
<1>3. InOrder(rest)
  <2>1. \A i \in 2..Len(rest) : rest[i] \notin EntryStages
    BY <1>1, <1>2 DEF InOrder
  <2>2. ASSUME NEW i \in 1..Len(rest), NEW j \in 1..Len(rest), i < j,
               rest[i] \in ChoosingStages
        PROVE  rest[j] \notin ChoosingStages
    <3>1. /\ rest[i] = plan[i + 1] /\ rest[j] = plan[j + 1] /\ i + 1 < j + 1
          /\ i + 1 \in 1..Len(plan) /\ j + 1 \in 1..Len(plan)
      BY <1>1, <1>2, <2>2
    <3> QED
      BY <2>2, <3>1 DEF InOrder
  <2> QED
    BY <1>2, <2>1, <2>2 DEF InOrder
<1>4. ASSUME NEW stages
      PROVE  Includes(rest, stages) <=> \E i \in 2..Len(plan) : plan[i] \in stages
  <2>1. ASSUME NEW i \in 2..Len(plan), plan[i] \in stages PROVE Includes(rest, stages)
    <3>1. i - 1 \in 1..Len(rest) /\ rest[i - 1] = plan[i]
      BY <1>1, <1>2
    <3> QED
      BY <2>1, <3>1 DEF Includes
  <2>2. ASSUME NEW i \in 1..Len(rest), rest[i] \in stages
        PROVE  \E k \in 2..Len(plan) : plan[k] \in stages
    <3>1. i + 1 \in 2..Len(plan) /\ rest[i] = plan[i + 1]
      BY <1>1, <1>2
    <3> QED
      BY <2>2, <3>1
  <2> QED
    BY <2>1, <2>2 DEF Includes
<1>5. Len(plan) # 1 => rest # << >> /\ Head(rest) \notin EntryStages
  <2> SUFFICES ASSUME Len(plan) # 1 PROVE rest # << >> /\ Head(rest) \notin EntryStages
    OBVIOUS
  <2>1. Len(rest) # 0 /\ rest[1] = plan[2] /\ 2 \in 2..Len(plan)
    BY <1>1, <1>2
  <2>2. rest # << >>
    BY <2>1
  <2>3. Head(rest) = rest[1]
    BY <1>2, <2>2
  <2> QED
    BY <2>1, <2>2, <2>3 DEF InOrder
<1> QED
  BY <1>1, <1>3, <1>4, <1>5 DEF rest

-----------------------------------------------------------------------------
(* The invariant: what is known of the call at every stage. *)

Fields == {"plan", "pc", "ask", "latest", "chosen", "check", "why", "joined", "outcome",
           "again", "new", "late", "moments"}
EarlyPcs == {"look up", "check freshness", "sync", "look up again"}
WaitPcs == {"registers", "subscribes", "waits"}
EndPcs == {"answered", "error"}

\* The freshness check reached crates.io and told the call what it found.
Reached == {"changed", "unchanged"}

\* A call is none, over, or at a stage of its plan; while it finds the crate it
\* has not checked or chosen anything.
Shaped(c) ==
    \/ c = NoCall
    \/ /\ DOMAIN c = Fields
       /\ c.pc \in {"stage", "choose again"} \cup EarlyPcs \cup WaitPcs \cup EndPcs
       /\ c.outcome \in {"none", "completed", "failed"}
       /\ c.pc \notin EndPcs =>
              /\ InOrder(c.plan) /\ c.plan # << >>
              /\ Includes(c.plan, {"latest"}) => c.ask = {}
              /\ c.pc \in EarlyPcs => Head(c.plan) \in EntryStages
              /\ Head(c.plan) \in EntryStages =>
                     /\ c.chosen = {}
                     /\ c.pc # "look up again" => c.check = "none"
                     /\ c.pc = "stage" => c.outcome = "none"

\* The call has seen crates.io's highest version and, from some version on, all
\* that were published since it began.
Witnessed(c) ==
    c.pc # "idle" =>
        /\ RemoteMax \in c.moments
        /\ \E f \in 1..Len(published) :
               /\ \A k \in f..Len(published) : published[k] \in c.moments
               /\ c.pc = "look up again" => \E n \in f..Len(published) : index.rows = FirstOf(n)

\* The version the check compares is in the index; after a check that reached
\* crates.io the index has a version that was its highest or newest in the call.
Anchored(c) ==
    c.pc # "idle" =>
        /\ c.pc = "check freshness" => c.latest \in index.rows
        /\ c.check \in Reached => \E m \in c.moments : m \in index.rows

\* v was published when m was, or later.
NoEarlier(v, m) ==
    \E i, j \in 1..Len(published) : i <= j /\ published[i] = m /\ published[j] = v

\* v was the highest or newest version during the call or, for a call that reads
\* the latest once more, is not older than such a version.
Current(c, v) ==
    v \in c.moments \/ (c.again /\ \E m \in c.moments : NoEarlier(v, m))

\* After a check that reached crates.io the latest version, until it is used,
\* and the version chosen are current.
Vouched(c) ==
    c.pc # "idle" /\ c.pc # "look up again" /\ c.check \in Reached =>
        /\ c.pc \notin EndPcs /\ Includes(c.plan, ChoosingStages) => Current(c, c.latest)
        /\ c.ask = {} => \A v \in c.chosen : Current(c, v)

\* The version asked for is chosen, or a stage that chooses it is to come.
Obedient(c) ==
    c.pc \notin {"idle", "error"} /\ c.ask # {} =>
        c.chosen = c.ask \/ (c.pc # "answered" /\ Includes(c.plan, VersionStages))

\* The job will bring these versions.
Brings(versions) ==
    \/ crateJob.state \in {"queued", "requeued"}
    \/ crateJob.state \in {"running", "stored"} /\ versions \subseteq crateJob.read

\* A version that was on crates.io when the call began comes with the backfill,
\* unless the job joined had read crates.io before, or failed.
Fetched(c) ==
    c.pc # "idle" /\ ~ c.new =>
        /\ c.ask \subseteq OnCratesIo
        /\ ~ c.late =>
               /\ c.pc \in WaitPcs /\ Head(c.plan) # "context" =>
                      /\ c.joined /\ c.outcome = "none" => Brings(c.ask)
                      /\ c.outcome = "completed" => c.ask \subseteq index.rows
               /\ c.pc = "choose again" /\ c.outcome # "failed" => c.ask \subseteq index.rows
               /\ c.pc = "error" /\ c.outcome # "failed" => c.why # "not there after a refresh"

\* A completed job leaves the crate with versions; a call that looks the crate up
\* found it, or took a failed job for a completed one.
Found(c) ==
    c.pc # "idle" =>
        /\ c.pc \in WaitPcs /\ c.outcome = "completed" => index.known /\ index.rows # {}
        /\ c.pc = "look up" =>
               /\ c.outcome # "failed" => index.known
               /\ c.outcome = "completed" => index.rows # {}
        /\ c.pc = "error" =>
               /\ c.why = "could not be indexed" => c.outcome = "failed"
               /\ c.why = "no versions" => c.outcome # "completed"

CallOk(c) ==
    /\ Shaped(c) /\ Witnessed(c) /\ Anchored(c) /\ Vouched(c) /\ Obedient(c)
    /\ Fetched(c) /\ Found(c)

ListsInv == PublishedOnce /\ ListedOnce
CallInv == ListsInv /\ CallOk(toolCall)

\* Of two versions the one published last is the newest.
LEMMA NewestOfTwo ==
    ASSUME PublishedOnce, NEW v, NEW m, NoEarlier(v, m)
    PROVE  Newest({v, m}) = v
<1>0. Len(published) \in Nat /\ DOMAIN published = 1..Len(published)
  BY LenProperties DEF PublishedOnce
<1>1. PICK i \in 1..Len(published), j \in 1..Len(published) :
          i <= j /\ published[i] = m /\ published[j] = v
  BY DEF NoEarlier
<1> DEFINE S == {k \in DOMAIN published : published[k] \in {v, m}}
<1>2. S = {i, j}
  BY <1>0, <1>1 DEF PublishedOnce
<1>3. Max({i, j}) = j
  <2>1. j \in {i, j} /\ \A y \in {i, j} : j >= y
    BY <1>0, <1>1
  <2>2. \A x \in {i, j} : (\A y \in {i, j} : x >= y) => x = j
    BY <1>0, <1>1
  <2> QED
    BY <2>1, <2>2 DEF Max
<1> HIDE DEF S
<1> QED
  BY <1>1, <1>2, <1>3 DEF Newest, S

\* The invariant says at least what CallsTruthful says.
LEMMA InvIsTruthful == CallInv => CallsTruthful
<1> SUFFICES ASSUME CallInv PROVE CallsTruthful
  OBVIOUS
<1>1. /\ PublishedOnce
      /\ Vouched(toolCall) /\ Obedient(toolCall) /\ Fetched(toolCall) /\ Found(toolCall)
  BY DEF CallInv, CallOk, ListsInv
<1>2. ASSUME toolCall.pc = "answered", toolCall.ask = {}, toolCall.check \in Reached,
             NEW v \in toolCall.chosen
      PROVE  \E m \in toolCall.moments : v = m \/ (toolCall.again /\ Newest({v, m}) = v)
  <2>1. Current(toolCall, v)
    BY <1>1, <1>2 DEF Vouched
  <2>2. \A m : NoEarlier(v, m) => Newest({v, m}) = v
    BY <1>1, NewestOfTwo
  <2> QED
    BY <2>1, <2>2 DEF Current
<1>3. toolCall.pc = "answered" /\ toolCall.ask # {} => toolCall.chosen = toolCall.ask
  BY <1>1 DEF Obedient
<1>4. toolCall.pc = "error" =>
          /\ toolCall.why = "not there after a refresh" =>
                 toolCall.late \/ toolCall.new \/ toolCall.outcome = "failed"
          /\ toolCall.why = "could not be indexed" => toolCall.outcome = "failed"
          /\ toolCall.why = "no versions" => toolCall.outcome # "completed"
  BY <1>1 DEF Fetched, Found
<1> QED
  BY <1>2, <1>3, <1>4 DEF CallsTruthful, Reached

-----------------------------------------------------------------------------
(* crates.io's list, the index and the job. *)

\* persist_crate_sync adds the versions read to those of the index.
LEMMA PersistAdds ==
    ASSUME NEW i \in IndexType, NEW read \in SUBSET Int
    PROVE  /\ Persisted(i, read) \in IndexType
           /\ Persisted(i, read).rows = i.rows \cup read /\ Persisted(i, read).known
  BY DEF Persisted, IndexType

\* The versions of crates.io's list are numbers.
LEMMA ListsOfNumbers ==
    PublishedOnce => \A n \in 0..Len(published) : FirstOf(n) \in SUBSET Int
<1> SUFFICES ASSUME PublishedOnce, NEW n \in 0..Len(published) PROVE FirstOf(n) \in SUBSET Int
  OBVIOUS
<1>1. /\ published \in Seq(Int) /\ Len(published) \in Nat
      /\ \A i \in 1..Len(published) : published[i] \in Int
  BY LenProperties, ElementOfSeq DEF PublishedOnce
<1>2. \A i \in 1..n : i \in 1..Len(published)
  BY <1>1
<1> QED
  BY <1>1, <1>2 DEF FirstOf

\* A job that is asked for is there, or starts with nothing read.
LEMMA JoinKeepsList ==
    JobListed /\ crateJob' = Joined(crateJob) =>
        \/ crateJob' = crateJob /\ crateJob.state \in JobStates \ {"none"}
        \/ crateJob.state = "none" /\ crateJob' = [state |-> "queued", read |-> {}]
  BY DEF Joined, JobListed

\* crates.io publishes a version: the earlier lists stay what they were.
LEMMA PublishAppends ==
    ListsInv /\ Publish =>
        /\ PublishedOnce'
        /\ Len(published') = Len(published) + 1 /\ Len(published) \in Nat
        /\ \A k \in 1..Len(published) : published'[k] = published[k]
        /\ \A n \in 0..Len(published) : FirstOf(n)' = FirstOf(n)
        /\ OnCratesIo \subseteq OnCratesIo'
<1> SUFFICES ASSUME ListsInv, Publish
    PROVE  /\ PublishedOnce'
           /\ Len(published') = Len(published) + 1 /\ Len(published) \in Nat
           /\ \A k \in 1..Len(published) : published'[k] = published[k]
           /\ \A n \in 0..Len(published) : FirstOf(n)' = FirstOf(n)
           /\ OnCratesIo \subseteq OnCratesIo'
  OBVIOUS
<1>1. PublishedOnce /\ published \in Seq(Int) /\ Len(published) \in Nat
  BY LenProperties DEF ListsInv, PublishedOnce
<1>2. PICK v \in CrateVersions \ OnCratesIo : published' = Append(published, v)
  BY DEF Publish
<1>3. v \in Int
  BY ToolCallAssumption DEF CrateVersions, ToolCallAssumption
<1>4. /\ published' \in Seq(Int)
      /\ Len(published') = Len(published) + 1
      /\ \A k \in 1..Len(published) : published'[k] = published[k]
      /\ published'[Len(published) + 1] = v
      /\ published' # << >>
  BY <1>1, <1>2, <1>3, AppendProperties
<1>5. \A n \in 0..Len(published) : FirstOf(n)' = FirstOf(n)
  <2> SUFFICES ASSUME NEW n \in 0..Len(published) PROVE FirstOf(n)' = FirstOf(n)
    OBVIOUS
  <2>1. \A k \in 1..n : published'[k] = published[k]
    BY <1>1, <1>4
  <2> QED
    BY <2>1 DEF FirstOf
<1>6. \A k \in 1..Len(published) : published[k] # v
  <2>1. OnCratesIo = FirstOf(Len(published))
    BY <1>1, AllOfThem
  <2> QED
    BY <1>2, <2>1 DEF FirstOf
<1>7. PublishedOnce'
  <2>1. ASSUME NEW i \in 1..Len(published'), NEW j \in 1..Len(published'),
               published'[i] = published'[j]
        PROVE  i = j
    <3>1. /\ i \in 1..Len(published) \/ i = Len(published) + 1
          /\ j \in 1..Len(published) \/ j = Len(published) + 1
      BY <1>1, <1>4
    <3> QED
      BY <1>1, <1>4, <1>6, <2>1, <3>1 DEF PublishedOnce
  <2> QED
    BY <1>4, <2>1 DEF PublishedOnce
<1>8. OnCratesIo \subseteq OnCratesIo'
  <2>1. OnCratesIo = {published[i] : i \in 1..Len(published)}
    BY <1>1, AllOfThem
  <2>2. (OnCratesIo = {published[i] : i \in 1..Len(published)})'
    BY <1>7, AllOfThem, PTL
  <2>3. \A k \in 1..Len(published) : k \in 1..Len(published')
    BY <1>1, <1>4
  <2> QED
    BY <1>4, <2>1, <2>2, <2>3
<1> QED
  BY <1>1, <1>4, <1>5, <1>7, <1>8

\* The index never loses a version or forgets the crate.
Grows == index.rows \subseteq index'.rows /\ (index.known => index'.known)

\* What a step writes to the index is a list of crates.io again.
LEMMA IndexMoves ==
    ASSUME ListsInv, UNCHANGED published,
           \/ index' \in {index, [index EXCEPT !.due = TRUE], [index EXCEPT !.due = FALSE],
                          [index EXCEPT !.known = TRUE, !.due = TRUE]}
           \/ \E n \in 0..Len(published) : index' = Persisted(index, FirstOf(n))
    PROVE  RowsListed' /\ Grows
<1>1. /\ PublishedOnce /\ Len(published) \in Nat
      /\ index \in IndexType
      /\ \E n \in 0..Len(published) : index.rows = FirstOf(n)
  BY LenProperties DEF ListsInv, PublishedOnce, ListedOnce, RowsListed
<1>2. \A n \in 0..Len(published) : FirstOf(n) \in SUBSET Int
  BY <1>1, ListsOfNumbers
<1>3. \A n : FirstOf(n)' = FirstOf(n)
  BY DEF FirstOf
<1>4. CASE index' \in {index, [index EXCEPT !.due = TRUE], [index EXCEPT !.due = FALSE],
                       [index EXCEPT !.known = TRUE, !.due = TRUE]}
  <2>1. index' \in IndexType /\ index'.rows = index.rows /\ (index.known => index'.known)
    BY <1>1, <1>4 DEF IndexType
  <2> QED
    BY <1>1, <1>3, <2>1 DEF RowsListed, Grows
<1>5. CASE \E n \in 0..Len(published) : index' = Persisted(index, FirstOf(n))
  <2>1. PICK n \in 0..Len(published) : index' = Persisted(index, FirstOf(n))
    BY <1>5
  <2>2. PICK m \in 0..Len(published) : index.rows = FirstOf(m)
    BY <1>1
  <2>3. \E k \in {m, n} : FirstOf(m) \cup FirstOf(n) = FirstOf(k)
    BY <1>1, ListsUnite
  <2>4. /\ index' \in IndexType /\ index'.known
        /\ index'.rows = FirstOf(m) \cup FirstOf(n)
    BY <1>1, <1>2, <2>1, <2>2, PersistAdds
  <2>5. PICK k \in 0..Len(published) : index'.rows = FirstOf(k)
    BY <2>3, <2>4
  <2> QED
    BY <1>3, <2>2, <2>4, <2>5 DEF RowsListed, Grows
<1> QED
  BY <1>4, <1>5

\* A job that is left alone stays what it was.
LEMMA JobStays ==
    ASSUME JobListed, Grows, UNCHANGED <<published, crateJob>>
    PROVE  JobListed'
<1>1. \E n \in 0..Len(published') : crateJob'.read = FirstOf(n)'
  BY DEF JobListed, FirstOf
<1>2. crateJob'.state = "stored" => index'.known /\ crateJob'.read \subseteq index'.rows
  BY DEF JobListed, Grows
<1> QED
  BY <1>1, <1>2 DEF JobListed

\* A job that has read nothing of crates.io's list is in order.
LEMMA JobFresh ==
    ASSUME ListsInv, UNCHANGED published, NEW state \in {"none", "queued", "requeued"},
           crateJob' = [state |-> state, read |-> {}]
    PROVE  JobListed'
<1>1. 0 \in 0..Len(published') /\ FirstOf(0)' = {}
  BY LenProperties DEF ListsInv, PublishedOnce, FirstOf
<1> QED
  BY <1>1 DEF JobListed, JobStates

\* The index and the job keep having lists of crates.io, whatever happens.
LEMMA ListsStep == ListsInv /\ [CallNext]_callVars => ListsInv' /\ Grows
<1> SUFFICES ASSUME ListsInv, [CallNext]_callVars PROVE ListsInv' /\ Grows
  OBVIOUS
<1>1. /\ PublishedOnce /\ Len(published) \in Nat /\ published \in Seq(Int) /\ published # << >>
      /\ RowsListed /\ JobListed
  BY LenProperties DEF ListsInv, PublishedOnce, ListedOnce
<1>2. OnCratesIo = FirstOf(Len(published)) /\ Len(published) \in 0..Len(published)
  BY <1>1, AllOfThem
<1>3. ASSUME UNCHANGED published, RowsListed', JobListed'
      PROVE  ListsInv'
  BY <1>1, <1>3 DEF ListsInv, ListedOnce, PublishedOnce
<1>4. ASSUME UNCHANGED <<published, crateJob>>,
             index' \in {index, [index EXCEPT !.due = TRUE], [index EXCEPT !.due = FALSE],
                         [index EXCEPT !.known = TRUE, !.due = TRUE]}
      PROVE  ListsInv' /\ Grows
  <2>1. RowsListed' /\ Grows
    BY <1>4, IndexMoves
  <2> QED
    BY <1>1, <1>3, <1>4, <2>1, JobStays
<1>5. ASSUME UNCHANGED <<published, crateJob>>, index' = Persisted(index, OnCratesIo)
      PROVE  ListsInv' /\ Grows
  <2>1. RowsListed' /\ Grows
    BY <1>2, <1>5, IndexMoves
  <2> QED
    BY <1>1, <1>3, <1>5, <2>1, JobStays
<1>6. ASSUME UNCHANGED <<published, index>>, JobListed'
      PROVE  ListsInv' /\ Grows
  <2>1. RowsListed' /\ Grows
    BY <1>6, IndexMoves
  <2> QED
    BY <1>3, <1>6, <2>1
<1>7. CASE Publish
  <2>1. /\ PublishedOnce' /\ index' = index /\ crateJob' = crateJob
        /\ Len(published') = Len(published) + 1
        /\ \A n \in 0..Len(published) : FirstOf(n)' = FirstOf(n)
    BY <1>7, PublishAppends DEF Publish
  <2>2. \A n \in 0..Len(published) : n \in 0..Len(published')
    BY <1>1, <2>1
  <2>3. PICK m \in 0..Len(published) : index.rows = FirstOf(m)
    BY <1>1 DEF RowsListed
  <2>4. PICK n \in 0..Len(published) : crateJob.read = FirstOf(n)
    BY <1>1 DEF JobListed
  <2>5. /\ m \in 0..Len(published') /\ index'.rows = FirstOf(m)'
        /\ n \in 0..Len(published') /\ crateJob'.read = FirstOf(n)'
    BY <2>1, <2>2, <2>3, <2>4
  <2>6. RowsListed' /\ JobListed' /\ Grows
    BY <1>1, <2>1, <2>5 DEF RowsListed, JobListed, Grows
  <2> QED
    BY <2>1, <2>6 DEF ListsInv, ListedOnce
<1>8. CASE FallDue \/ StubAppears
  BY <1>4, <1>8 DEF FallDue, StubAppears
<1>9. CASE JobReads
  <2>1. /\ crateJob' = [state |-> "running", read |-> OnCratesIo]
        /\ UNCHANGED <<published, index>>
    BY <1>9 DEF JobReads
  <2>2. OnCratesIo # {}
    <3>1. published[1] \in FirstOf(Len(published))
      BY <1>1 DEF FirstOf
    <3> QED
      BY <1>2, <3>1
  <2>3. \E n \in 0..Len(published') : crateJob'.read = FirstOf(n)'
    BY <1>2, <2>1 DEF FirstOf
  <2>4. JobListed'
    BY <2>1, <2>2, <2>3 DEF JobListed, JobStates
  <2> QED
    BY <1>6, <2>1, <2>4
<1>10. CASE JobCommits
  <2>1. /\ crateJob.state = "running" /\ index' = Persisted(index, crateJob.read)
        /\ crateJob' = [crateJob EXCEPT !.state = "stored"] /\ UNCHANGED published
    BY <1>10 DEF JobCommits
  <2>2. PICK n \in 0..Len(published) : crateJob.read = FirstOf(n)
    BY <1>1 DEF JobListed
  <2>3. RowsListed' /\ Grows
    BY <2>1, <2>2, IndexMoves
  <2>4. crateJob.read \in SUBSET Int
    BY <1>1, <2>2, ListsOfNumbers
  <2>5. index'.known /\ crateJob.read \subseteq index'.rows
    BY <1>1, <2>1, <2>4, PersistAdds DEF RowsListed
  <2>6. crateJob' = [state |-> "stored", read |-> crateJob.read]
    BY <1>1, <2>1 DEF JobListed
  <2>7. n \in 0..Len(published') /\ crateJob'.read = FirstOf(n)'
    BY <2>1, <2>2, <2>6 DEF FirstOf
  <2>8. JobListed'
    BY <1>1, <2>1, <2>5, <2>6, <2>7 DEF JobListed, JobStates
  <2> QED
    BY <1>3, <2>1, <2>3, <2>8
<1>11. ASSUME UNCHANGED <<published, index>>, NEW state \in {"none", "queued", "requeued"},
              crateJob' = [state |-> state, read |-> {}]
       PROVE  ListsInv' /\ Grows
  BY <1>6, <1>11, JobFresh
<1>12. CASE JobEnds \/ JobFails
  <2>1. /\ UNCHANGED <<published, index>>
        /\ crateJob' = NoJob \/ crateJob' = [state |-> "requeued", read |-> {}]
    BY <1>12 DEF JobEnds, JobFails
  <2> QED
    BY <1>11, <2>1 DEF NoJob
<1>13. CASE SignalFailure
  <2>1. /\ crateJob.state = "requeued" /\ crateJob' = [crateJob EXCEPT !.state = "queued"]
        /\ UNCHANGED <<published, index>>
    BY <1>13 DEF SignalFailure
  <2>2. crateJob' = [state |-> "queued", read |-> {}]
    BY <1>1, <2>1 DEF JobListed
  <2> QED
    BY <1>11, <2>1, <2>2
<1>14. ASSUME UNCHANGED <<published, index, crateJob>> PROVE ListsInv' /\ Grows
  BY <1>4, <1>14
<1>15. CASE BackgroundJob \/ EnsureCrateIndexed \/ ChooseVersion
  <2>1. UNCHANGED <<published, index>> /\ (crateJob' = crateJob \/ crateJob' = Joined(crateJob))
    BY <1>15 DEF BackgroundJob, EnsureCrateIndexed, ChooseVersion, JoinJob
  <2>2. crateJob' = crateJob \/ crateJob' = [state |-> "queued", read |-> {}]
    BY <1>1, <2>1, JoinKeepsList
  <2> QED
    BY <1>11, <1>14, <2>1, <2>2
<1>16. CASE FreshnessProbeFails \/ FreshnessProbe
  BY <1>4, <1>16 DEF FreshnessProbeFails, FreshnessProbe
<1>17. CASE InlineRefresh \/ EnsureFeatures
  BY <1>5, <1>14, <1>17 DEF InlineRefresh, EnsureFeatures
<1>18. CASE Yank
  BY <1>14, <1>18 DEF Yank
<1>19. CASE \/ \E plan \in Plans, ask \in Asks : BeginCall(plan, ask)
            \/ EndCall \/ ToolCallFails \/ FindIndexedCrate \/ Register \/ Subscribe \/ WaitEnds
  BY <1>14, <1>19 DEF BeginCall, EndCall, ToolCallFails, FindIndexedCrate, Register, Subscribe,
                      WaitEnds
<1>20. CASE \/ LookUpLatest \/ FreshnessSkipped \/ LookUpAgain \/ LatestAgain \/ ChooseAgain
            \/ ChooseIndexed \/ EnsureIndexed
  BY <1>14, <1>20 DEF LookUpLatest, FreshnessSkipped, LookUpAgain, LatestAgain, ChooseAgain,
                      ChooseIndexed, EnsureIndexed
<1>21. CASE UNCHANGED callVars
  BY <1>14, <1>21 DEF callVars
<1> QED
  BY <1>7, <1>8, <1>9, <1>10, <1>12, <1>13, <1>15, <1>16, <1>17, <1>18, <1>19, <1>20, <1>21
  DEF CallNext, ToolCallStep

-----------------------------------------------------------------------------
(* The call passes a stage. *)

\* What a stage leaves to the rest of the plan: a version to choose, or chosen
\* already.
CanPass(c) ==
    /\ DOMAIN c = Fields /\ c.outcome \in {"none", "completed", "failed"}
    /\ InOrder(c.plan) /\ c.plan # << >>
    /\ Includes(c.plan, {"latest"}) => c.ask = {}
    /\ RemoteMax \in c.moments
    /\ \E f \in 1..Len(published) : \A k \in f..Len(published) : published[k] \in c.moments
    /\ c.check \in Reached =>
           /\ \E m \in c.moments : m \in index.rows
           /\ Includes(Tail(c.plan), ChoosingStages) => Current(c, c.latest)
           /\ c.ask = {} => \A v \in c.chosen : Current(c, v)
    /\ c.ask # {} => c.chosen = c.ask \/ Includes(Tail(c.plan), VersionStages)
    /\ ~ c.new => c.ask \subseteq OnCratesIo

\* The fields after a stage.
LEMMA PassedFields ==
    ASSUME NEW c, DOMAIN c = Fields
    PROVE  /\ DOMAIN Passed(c) = Fields
           /\ Passed(c).plan = Tail(c.plan)
           /\ Passed(c).pc = IF Len(c.plan) = 1 THEN "answered" ELSE "stage"
           /\ Passed(c).ask = c.ask /\ Passed(c).latest = c.latest
           /\ Passed(c).chosen = c.chosen /\ Passed(c).check = c.check
           /\ Passed(c).outcome = c.outcome /\ Passed(c).again = c.again
           /\ Passed(c).new = c.new /\ Passed(c).moments = c.moments
  BY DEF Passed, Fields

\* A call that can pass a stage is in order after it.
LEMMA PassKeeps ==
    ASSUME NEW c, CanPass(c)
    PROVE  CallOk(Passed(c))
<1> DEFINE d == Passed(c)
<1>1. /\ DOMAIN d = Fields
      /\ d.plan = Tail(c.plan) /\ d.pc = (IF Len(c.plan) = 1 THEN "answered" ELSE "stage")
      /\ d.ask = c.ask /\ d.latest = c.latest /\ d.chosen = c.chosen /\ d.check = c.check
      /\ d.outcome = c.outcome /\ d.again = c.again
      /\ d.new = c.new /\ d.moments = c.moments
  BY PassedFields DEF CanPass
<1>2. /\ InOrder(Tail(c.plan))
      /\ Len(c.plan) # 1 => Tail(c.plan) # << >> /\ Head(Tail(c.plan)) \notin EntryStages
      /\ Len(c.plan) = 1 => \A stages : ~ Includes(Tail(c.plan), stages)
      /\ Includes(Tail(c.plan), {"latest"}) => Includes(c.plan, {"latest"})
  <2>1. /\ Len(c.plan) \in Nat
        /\ \A stages : Includes(Tail(c.plan), stages)
                           <=> \E i \in 2..Len(c.plan) : c.plan[i] \in stages
    BY RestInOrder DEF CanPass
  <2>2. \A i \in 2..Len(c.plan) : i \in 1..Len(c.plan)
    BY <2>1
  <2>3. Includes(Tail(c.plan), {"latest"}) => Includes(c.plan, {"latest"})
    BY <2>1, <2>2 DEF Includes
  <2> QED
    BY <2>1, <2>3, RestInOrder DEF CanPass
<1> HIDE DEF d
<1>3. d.pc = "answered" \/ (d.pc = "stage" /\ Len(c.plan) # 1)
  BY <1>1
<1>4. Shaped(d)
  BY <1>1, <1>2, <1>3 DEF Shaped, CanPass, EarlyPcs, EndPcs
<1>5. Witnessed(d)
  BY <1>1, <1>3 DEF Witnessed, CanPass
<1>6. \A v : Current(c, v) => Current(d, v)
  BY <1>1 DEF Current
<1>7. Vouched(d)
  BY <1>1, <1>3, <1>6 DEF Vouched, CanPass
<1>8. Obedient(d)
  BY <1>1, <1>2, <1>3 DEF Obedient, CanPass
<1>9. Anchored(d)
  BY <1>1, <1>3 DEF Anchored, CanPass
<1>10. Fetched(d) /\ Found(d)
  BY <1>1, <1>3 DEF Fetched, Found, CanPass, WaitPcs
<1> QED
  BY <1>4, <1>5, <1>7, <1>8, <1>9, <1>10 DEF CallOk, d

\* A call that is not idle has all its fields; while it runs its plan is in order.
LEMMA InCall ==
    ASSUME NEW c, Shaped(c), c.pc # "idle"
    PROVE  /\ DOMAIN c = Fields
           /\ c.pc \in {"stage", "choose again"} \cup EarlyPcs \cup WaitPcs \cup EndPcs
           /\ c.outcome \in {"none", "completed", "failed"}
           /\ c.pc \notin EndPcs =>
                  /\ InOrder(c.plan) /\ c.plan # << >>
                  /\ Includes(c.plan, {"latest"}) => c.ask = {}
                  /\ c.pc \in EarlyPcs => Head(c.plan) \in EntryStages
                  /\ Head(c.plan) \in EntryStages =>
                         /\ c.chosen = {}
                         /\ c.pc # "look up again" => c.check = "none"
                         /\ c.pc = "stage" => c.outcome = "none"
<1>1. c # NoCall
  BY DEF NoCall
<1> QED
  BY <1>1 DEF Shaped

\* What is ahead of a plan is the stage it is at, or ahead of the rest.
LEMMA AheadOfPlan ==
    ASSUME NEW plan, InOrder(plan), plan # << >>
    PROVE  /\ \A stages : Includes(plan, stages)
                  <=> Head(plan) \in stages \/ Includes(Tail(plan), stages)
           /\ Head(plan) \in ChoosingStages => ~ Includes(Tail(plan), ChoosingStages)
<1>1. /\ \A stages : Includes(Tail(plan), stages)
                         <=> \E i \in 2..Len(plan) : plan[i] \in stages
      /\ Head(plan) = plan[1] /\ 1 \in 1..Len(plan) /\ Len(plan) \in Nat
  BY RestInOrder
<1>2. /\ \A i \in 1..Len(plan) : i = 1 \/ i \in 2..Len(plan)
      /\ \A i \in 2..Len(plan) : i \in 1..Len(plan) /\ 1 < i
  BY <1>1
<1>3. ASSUME NEW stages
      PROVE  Includes(plan, stages) <=> Head(plan) \in stages \/ Includes(Tail(plan), stages)
  BY <1>1, <1>2 DEF Includes
<1>4. ASSUME Head(plan) \in ChoosingStages PROVE ~ Includes(Tail(plan), ChoosingStages)
  <2>1. \A i \in 2..Len(plan) : plan[i] \notin ChoosingStages
    BY <1>1, <1>2, <1>4 DEF InOrder
  <2> QED
    BY <1>1, <2>1
<1> QED
  BY <1>3, <1>4

\* The call's record changes, and the index only grows; what it reads of both is
\* not disturbed.
LEMMA SameCalls ==
    ASSUME UNCHANGED <<published, yanked>>, Grows,
           Shaped(toolCall'), Witnessed(toolCall'), Anchored(toolCall'), Vouched(toolCall'),
           Obedient(toolCall'), Found(toolCall'),
           index' = index \/ toolCall'.pc # "look up again"
    PROVE  /\ Shaped(toolCall)' /\ Witnessed(toolCall)' /\ Anchored(toolCall)' /\ Vouched(toolCall)'
           /\ Obedient(toolCall)' /\ Found(toolCall)'
<1>1. RemoteMax' = RemoteMax
  BY DEF RemoteMax, OnCratesIo
<1>2. Shaped(toolCall)' /\ Obedient(toolCall)'
  BY DEF Shaped, Obedient
<1>3. Witnessed(toolCall)'
  <2>1. \A n : FirstOf(n)' = FirstOf(n)
    BY DEF FirstOf
  <2>2. CASE toolCall'.pc = "look up again"
    BY <1>1, <2>1, <2>2 DEF Witnessed
  <2>3. CASE toolCall'.pc # "look up again"
    BY <1>1, <2>3 DEF Witnessed
  <2> QED
    BY <2>2, <2>3
<1>4. Vouched(toolCall)'
  <2>1. \A v : Current(toolCall', v) => Current(toolCall, v)'
    BY DEF Current, NoEarlier
  <2> QED
    BY <2>1 DEF Vouched
<1>5. Anchored(toolCall)'
  BY DEF Anchored, Grows
<1>6. Found(toolCall)'
  BY DEF Found, Grows
<1> QED
  BY <1>2, <1>3, <1>4, <1>5, <1>6

\* The same for the job, when the call does not wait for it.
LEMMA SameLists ==
    ASSUME UNCHANGED <<published, yanked>>, Grows, CallOk(toolCall'),
           index' = index \/ toolCall'.pc # "look up again",
           crateJob' = crateJob \/ toolCall'.pc \notin WaitPcs
    PROVE  CallOk(toolCall)'
<1>1. OnCratesIo' = OnCratesIo
  BY DEF OnCratesIo
<1>2. Fetched(toolCall)'
  <2>1. crateJob' = crateJob => (Brings(toolCall.ask)' <=> Brings(toolCall'.ask))
    BY DEF Brings
  <2>2. Fetched(toolCall')
    BY DEF CallOk
  <2>3. CASE toolCall'.pc \in WaitPcs
    BY <1>1, <2>1, <2>2, <2>3 DEF Fetched, Grows
  <2>4. CASE toolCall'.pc \notin WaitPcs
    BY <1>1, <2>2, <2>4 DEF Fetched, Grows
  <2> QED
    BY <2>3, <2>4
<1> QED
  BY <1>2, SameCalls DEF CallOk

\* The call passes a stage.
LEMMA CallPasses ==
    ASSUME UNCHANGED <<published, yanked>>, Grows, NEW c, CanPass(c), toolCall' = Passed(c)
    PROVE  CallOk(toolCall)'
<1>1. CallOk(toolCall')
  BY PassKeeps
<1>2. toolCall'.pc \notin {"look up again"} \cup WaitPcs
  BY PassedFields DEF CanPass, WaitPcs
<1> QED
  BY <1>1, <1>2, SameLists

\* Giving up keeps the invariant, when the reason given is true.
LEMMA FailKeeps ==
    ASSUME NEW c, CallOk(c), c.pc \notin {"idle"} \cup EndPcs, NEW why,
           why = "not there after a refresh" => c.late \/ c.new \/ c.outcome = "failed",
           why = "could not be indexed" => c.outcome = "failed",
           why = "no versions" => c.outcome # "completed"
    PROVE  CallOk(Failed(c, why))
<1> DEFINE d == Failed(c, why)
<1>1. /\ DOMAIN c = Fields /\ c.outcome \in {"none", "completed", "failed"}
      /\ c.pc \in EarlyPcs => c.chosen = {}
  BY InCall DEF CallOk
<1>2. /\ DOMAIN d = Fields /\ d.pc = "error" /\ d.why = why
      /\ d.ask = c.ask /\ d.chosen = c.chosen /\ d.check = c.check
      /\ d.outcome = c.outcome /\ d.again = c.again
      /\ d.new = c.new /\ d.late = c.late /\ d.moments = c.moments
  BY <1>1 DEF Failed, Fields
<1> HIDE DEF d
<1>3. Shaped(d) /\ Obedient(d)
  BY <1>1, <1>2 DEF Shaped, Obedient, EndPcs
<1>4. Witnessed(d)
  BY <1>2 DEF CallOk, Witnessed
<1>5. Vouched(d)
  <2>1. CASE c.pc = "look up again"
    BY <1>1, <1>2, <2>1 DEF Vouched, EndPcs, EarlyPcs
  <2>2. CASE c.pc # "look up again"
    <3>1. \A v : Current(c, v) => Current(d, v)
      BY <1>2 DEF Current
    <3> QED
      BY <1>2, <2>2, <3>1 DEF CallOk, Vouched, EndPcs
  <2> QED
    BY <2>1, <2>2
<1>6. Anchored(d)
  BY <1>2 DEF CallOk, Anchored
<1>7. Fetched(d)
  BY <1>2 DEF CallOk, Fetched, WaitPcs
<1>8. Found(d)
  BY <1>2 DEF Found, WaitPcs
<1> QED
  BY <1>3, <1>4, <1>5, <1>6, <1>7, <1>8 DEF CallOk, d

\* The call gives up.
LEMMA CallGivesUp ==
    ASSUME UNCHANGED <<published, yanked>>, Grows, CallOk(toolCall),
           toolCall.pc \notin {"idle"} \cup EndPcs, NEW why,
           why = "not there after a refresh" =>
               toolCall.late \/ toolCall.new \/ toolCall.outcome = "failed",
           why = "could not be indexed" => toolCall.outcome = "failed",
           why = "no versions" => toolCall.outcome # "completed",
           toolCall' = Failed(toolCall, why)
    PROVE  CallOk(toolCall)'
<1>1. CallOk(toolCall')
  BY FailKeeps
<1>2. DOMAIN toolCall = Fields
  BY InCall DEF CallOk
<1>3. toolCall'.pc \notin {"look up again"} \cup WaitPcs
  BY <1>2 DEF Failed, WaitPcs, Fields
<1> QED
  BY <1>1, <1>3, SameLists

\* The call goes on within a stage: it has chosen nothing by that.
LEMMA MoveKeeps ==
    ASSUME NEW c, NEW d, CallOk(c), c.pc \notin {"idle", "look up again"} \cup EndPcs,
           DOMAIN d = Fields, d.outcome \in {"none", "completed", "failed"},
           d.pc \in ({"choose again"} \cup EarlyPcs \cup WaitPcs) \ {"look up again"},
           d.pc \in EarlyPcs => Head(c.plan) \in EntryStages,
           /\ d.plan = c.plan /\ d.ask = c.ask /\ d.chosen = c.chosen /\ d.check = c.check
           /\ d.again = c.again /\ d.new = c.new /\ d.moments = c.moments,
           d.latest = c.latest \/ c.check = "none",
           d.pc = "check freshness" => d.latest \in index.rows
    PROVE  /\ Shaped(d) /\ Witnessed(d) /\ Anchored(d) /\ Vouched(d) /\ Obedient(d)
           /\ Fetched(d) /\ Found(d) => CallOk(d)
<1>1. /\ DOMAIN c = Fields /\ InOrder(c.plan) /\ c.plan # << >>
      /\ Includes(c.plan, {"latest"}) => c.ask = {}
      /\ Head(c.plan) \in EntryStages => c.chosen = {} /\ c.check = "none"
  BY InCall DEF CallOk
<1>2. d.pc \notin EndPcs /\ d.pc \notin {"idle", "stage", "look up again"}
  BY DEF EndPcs, EarlyPcs, WaitPcs
<1>3. Shaped(d)
  BY <1>1, <1>2 DEF Shaped
<1>4. Witnessed(d)
  BY <1>2 DEF CallOk, Witnessed
<1>5. Anchored(d)
  BY DEF CallOk, Anchored
<1>6. Vouched(d)
  <2>1. \A v : Current(c, v) => Current(d, v)
    BY DEF Current
  <2> QED
    BY <1>2, <2>1 DEF CallOk, Vouched, Reached
<1>7. Obedient(d)
  BY <1>2 DEF CallOk, Obedient, EndPcs
<1> QED
  BY <1>3, <1>4, <1>5, <1>6, <1>7 DEF CallOk

\* A stage that found or chose what it had to can be passed.
LEMMA ReadyToPass ==
    ASSUME NEW c, NEW d, CallOk(c), c.pc \notin {"idle"} \cup EndPcs,
           DOMAIN d = Fields, d.plan = c.plan, d.ask = c.ask, d.new = c.new,
           d.outcome = c.outcome, c.moments \subseteq d.moments,
           d.check \in Reached =>
               /\ c.check = d.check \/ \E m \in d.moments : m \in index.rows
               /\ Includes(Tail(c.plan), ChoosingStages) => Current(d, d.latest)
               /\ c.ask = {} => \A v \in d.chosen : Current(d, v),
           \/ c.ask # {} /\ Includes(c.plan, VersionStages) /\ Head(c.plan) \notin VersionStages
           \/ c.ask # {} => d.chosen = c.ask
    PROVE  CanPass(d)
<1>1. /\ InOrder(c.plan) /\ c.plan # << >> /\ c.outcome \in {"none", "completed", "failed"}
      /\ Includes(c.plan, {"latest"}) => c.ask = {}
  BY InCall DEF CallOk
<1>2. /\ RemoteMax \in d.moments
      /\ \E f \in 1..Len(published) : \A k \in f..Len(published) : published[k] \in d.moments
  BY DEF CallOk, Witnessed
<1>3. c.ask # {} => d.chosen = c.ask \/ Includes(Tail(c.plan), VersionStages)
  BY <1>1, AheadOfPlan
<1>4. ~ c.new => c.ask \subseteq OnCratesIo
  BY DEF CallOk, Fetched
<1>5. d.check \in Reached => \E m \in d.moments : m \in index.rows
  BY DEF CallOk, Anchored
<1> QED
  BY <1>1, <1>2, <1>3, <1>4, <1>5 DEF CanPass

-----------------------------------------------------------------------------
(* The steps of the call. *)

\* A request begins: the call has seen crates.io as it is.
LEMMA BeginKeeps ==
    ASSUME ListsInv, Grows, NEW plan \in Plans, NEW ask \in Asks, BeginCall(plan, ask)
    PROVE  CallOk(toolCall)'
<1> DEFINE d == toolCall'
<1>1. /\ DOMAIN d = Fields
      /\ d.plan = plan /\ d.pc = "stage" /\ d.ask = ask /\ d.latest = 0 /\ d.chosen = {}
      /\ d.check = "none" /\ d.outcome = "none" /\ d.why = "none"
      /\ d.new = ~ (ask \subseteq OnCratesIo) /\ d.late = FALSE
      /\ d.moments = {RemoteMax, Newest(OnCratesIo)}
  BY DEF BeginCall, Fields
<1>2. /\ InOrder(plan) /\ plan # << >>
      /\ Includes(plan, {"latest"}) => ask = {}
      /\ ask # {} => Includes(plan, VersionStages)
  BY PlansInOrder DEF BeginCall
<1>3. /\ Len(published) \in Nat /\ Len(published) \in 1..Len(published)
      /\ \A k \in Len(published)..Len(published) : k = Len(published)
  <2>1. Len(published) \in Nat /\ Len(published) # 0
    BY LenProperties, EmptySeq DEF ListsInv, PublishedOnce
  <2> QED
    BY <2>1
<1>4. Newest(OnCratesIo) = published[Len(published)]
  BY <1>3, AllOfThem, NewestOfList DEF ListsInv
<1> HIDE DEF d
<1>5. Shaped(d)
  BY <1>1, <1>2 DEF Shaped, EarlyPcs
<1>6. Witnessed(d)
  BY <1>1, <1>3, <1>4 DEF Witnessed
<1>7. Vouched(d) /\ Obedient(d) /\ Anchored(d)
  BY <1>1, <1>2 DEF Vouched, Obedient, Anchored, Reached
<1>8. Fetched(d) /\ Found(d)
  BY <1>1 DEF Fetched, Found, WaitPcs
<1>9. CallOk(d) /\ d.pc \notin {"look up again"} \cup WaitPcs
  BY <1>1, <1>5, <1>6, <1>7, <1>8 DEF CallOk, WaitPcs
<1> QED
  BY <1>9, SameLists DEF d, BeginCall

\* The call is forgotten.
LEMMA EndKeeps == EndCall => CallOk(toolCall)'
  BY DEF EndCall, NoCall, CallOk, Shaped, Witnessed, Anchored, Vouched, Obedient, Fetched, Found

\* A call at a stage is running.
LEMMA AtStageRuns ==
    ASSUME NEW stages, AtStage(stages)
    PROVE  /\ toolCall.pc = "stage" /\ Head(toolCall.plan) \in stages
           /\ toolCall.pc \notin {"idle", "look up again"} \cup EndPcs
  BY DEF AtStage, Stage, EndPcs

\* A call joins a job; a job that it does not join too late brings everything
\* that crates.io has.
LEMMA JoinKeeps ==
    ASSUME ListsInv, Grows, CallOk(toolCall), toolCall.pc = "stage", JoinJob,
           UNCHANGED <<published, yanked, index>>
    PROVE  CallOk(toolCall)'
<1> DEFINE d == toolCall'
<1>1. toolCall.pc \notin {"idle", "look up again"} \cup EndPcs
  BY DEF EndPcs
<1>2. DOMAIN toolCall = Fields
  BY <1>1, InCall DEF CallOk
<1>3. /\ DOMAIN d = Fields /\ d.pc = "registers" /\ d.outcome = "none"
      /\ ~ d.late => crateJob.state \notin {"running", "stored"}
      /\ d.plan = toolCall.plan /\ d.ask = toolCall.ask
      /\ d.chosen = toolCall.chosen /\ d.check = toolCall.check
      /\ d.again = toolCall.again /\ d.new = toolCall.new /\ d.moments = toolCall.moments
      /\ d.latest = toolCall.latest
  BY <1>2 DEF JoinJob, Fields
<1> HIDE DEF d
<1>4. ~ d.late => crateJob'.state \in {"queued", "requeued"}
  <2>1. crateJob' = Joined(crateJob) /\ JobListed
    BY DEF JoinJob, ListsInv, ListedOnce
  <2>2. \/ crateJob' = crateJob /\ crateJob.state \in JobStates \ {"none"}
        \/ crateJob' = [state |-> "queued", read |-> {}]
    BY <2>1, JoinKeepsList
  <2> QED
    BY <1>3, <2>2 DEF JobStates
<1>5. d.pc \in WaitPcs /\ d.pc # "look up again" /\ d.pc \notin EarlyPcs /\ d.pc # "check freshness"
  BY <1>3 DEF WaitPcs, EarlyPcs
<1>6. Shaped(d) /\ Witnessed(d) /\ Anchored(d) /\ Vouched(d) /\ Obedient(d)
  BY <1>1, <1>3, <1>5, MoveKeeps
<1>7. Found(d)
  BY <1>3 DEF Found, WaitPcs
<1>8. Fetched(toolCall)'
  <2>1. OnCratesIo' = OnCratesIo
    BY DEF OnCratesIo
  <2>2. ~ d.new => d.ask \subseteq OnCratesIo'
    BY <1>1, <1>3, <2>1 DEF CallOk, Fetched
  <2> QED
    BY <1>3, <1>4, <2>2 DEF Fetched, Brings, d
<1>9. index' = index
  OBVIOUS
<1>10. /\ Shaped(toolCall)' /\ Witnessed(toolCall)' /\ Anchored(toolCall)' /\ Vouched(toolCall)'
       /\ Obedient(toolCall)' /\ Found(toolCall)'
  BY <1>6, <1>7, <1>9, SameCalls DEF d
<1> QED
  BY <1>8, <1>10 DEF CallOk

\* A call moves on within its stage, to a place that reads no list.
LEMMA CallMoves ==
    ASSUME CallOk(toolCall), toolCall.pc \notin {"idle", "look up again"} \cup EndPcs,
           UNCHANGED <<published, yanked>>, Grows, NEW pc,
           toolCall' = [toolCall EXCEPT !.pc = pc],
           pc \in EarlyPcs \ {"look up again", "check freshness"},
           pc = "look up" =>
               /\ toolCall.outcome # "failed" => index.known
               /\ toolCall.outcome = "completed" => index.rows # {},
           Head(toolCall.plan) \in EntryStages
    PROVE  CallOk(toolCall)'
<1>1. DOMAIN toolCall = Fields /\ toolCall.outcome \in {"none", "completed", "failed"}
  BY InCall DEF CallOk
<1> DEFINE d == toolCall'
<1>2. /\ DOMAIN d = Fields
      /\ d.pc = pc /\ d.outcome = toolCall.outcome /\ d.late = toolCall.late
      /\ d.plan = toolCall.plan /\ d.ask = toolCall.ask /\ d.chosen = toolCall.chosen
      /\ d.check = toolCall.check /\ d.new = toolCall.new /\ d.moments = toolCall.moments
      /\ d.latest = toolCall.latest /\ d.again = toolCall.again
  BY <1>1 DEF Fields
<1> HIDE DEF d
<1>3. pc \notin {"look up again", "choose again", "error"} \cup WaitPcs
  BY DEF EarlyPcs, WaitPcs
<1>4. Fetched(d) /\ Found(d)
  BY <1>2, <1>3 DEF CallOk, Fetched, Found
<1>5. CallOk(d)
  BY <1>1, <1>2, <1>3, <1>4, MoveKeeps
<1>6. CallOk(toolCall') /\ toolCall'.pc \notin {"look up again"} \cup WaitPcs
  BY <1>2, <1>3, <1>5 DEF d
<1> QED
  BY <1>6, SameLists

\* The rest of the call's stages, where nothing is found, checked or chosen.
LEMMA PlainPass ==
    ASSUME CallOk(toolCall), toolCall.pc = "stage", Grows,
           Head(toolCall.plan) \in RowStages,
           UNCHANGED <<published, yanked>>, toolCall' = Passed(toolCall)
    PROVE  CallOk(toolCall)'
<1>1. /\ DOMAIN toolCall = Fields /\ InOrder(toolCall.plan) /\ toolCall.plan # << >>
  BY InCall DEF CallOk, EndPcs
<1>2. Head(toolCall.plan) \notin VersionStages
  BY StageKinds
<1>3. /\ toolCall.check \in Reached =>
             /\ Includes(toolCall.plan, ChoosingStages) => Current(toolCall, toolCall.latest)
             /\ toolCall.ask = {} => \A v \in toolCall.chosen : Current(toolCall, v)
      /\ toolCall.ask # {} =>
             toolCall.chosen = toolCall.ask \/ Includes(toolCall.plan, VersionStages)
  BY DEF CallOk, Vouched, Obedient, EndPcs
<1>4. Includes(Tail(toolCall.plan), ChoosingStages) => Includes(toolCall.plan, ChoosingStages)
  BY <1>1, AheadOfPlan
<1>5. CanPass(toolCall)
  BY <1>1, <1>2, <1>3, <1>4, ReadyToPass DEF EndPcs
<1> QED
  BY <1>5, CallPasses

\* The newest version of a list with versions is in it.
LEMMA NewestIsListed ==
    ASSUME ListsInv, index.rows # {}
    PROVE  \E n \in 1..Len(published) :
              /\ index.rows = FirstOf(n) /\ Newest(index.rows) = published[n]
              /\ Newest(index.rows) \in index.rows
<1>1. PICK n \in 0..Len(published) : index.rows = FirstOf(n)
  BY DEF ListsInv, ListedOnce, RowsListed
<1>2. PublishedOnce /\ Len(published) \in Nat
  BY LenProperties DEF ListsInv, PublishedOnce
<1>3. n # 0
  BY <1>1 DEF FirstOf
<1>4. n \in 1..Len(published)
  BY <1>2, <1>3
<1>5. Newest(FirstOf(n)) = published[n]
  BY <1>2, <1>4, NewestOfList
<1>6. published[n] \in FirstOf(n)
  BY <1>2, <1>4 DEF FirstOf
<1> QED
  BY <1>1, <1>4, <1>5, <1>6

\* The stages that find the crate.
LEMMA FindingKeeps ==
    ASSUME ListsInv, Grows, CallOk(toolCall),
           EnsureCrateIndexed \/ FindIndexedCrate \/ LookUpLatest
    PROVE  CallOk(toolCall)'
<1>1. CASE EnsureCrateIndexed
  <2>1. /\ toolCall.pc = "stage" /\ Head(toolCall.plan) \in EntryStages
        /\ toolCall.pc \notin {"idle", "look up again"} \cup EndPcs
        /\ UNCHANGED <<published, yanked, index>>
    BY <1>1, AtStageRuns DEF EnsureCrateIndexed, EntryStages
  <2>2. CASE index.known
    <3>1. toolCall' = [toolCall EXCEPT !.pc = "look up"]
      BY <1>1, <2>2 DEF EnsureCrateIndexed
    <3>2. toolCall.outcome = "none"
      BY <2>1, InCall DEF CallOk
    <3> QED
      BY <2>1, <2>2, <3>1, <3>2, CallMoves DEF EarlyPcs
  <2>3. CASE ~ index.known
    BY <1>1, <2>1, <2>3, JoinKeeps DEF EnsureCrateIndexed
  <2> QED
    BY <2>2, <2>3
<1>2. CASE FindIndexedCrate
  <2>1. /\ toolCall.pc = "stage" /\ Head(toolCall.plan) \in EntryStages /\ Stage = Head(toolCall.plan)
        /\ toolCall.pc \notin {"idle", "look up again"} \cup EndPcs
        /\ toolCall.pc \notin {"idle"} \cup EndPcs
        /\ UNCHANGED <<published, yanked, index, crateJob>>
    BY <1>2, AtStageRuns DEF FindIndexedCrate, EntryStages, Stage
  <2>2. /\ DOMAIN toolCall = Fields /\ InOrder(toolCall.plan) /\ toolCall.plan # << >>
        /\ toolCall.chosen = {} /\ toolCall.check = "none" /\ toolCall.outcome = "none"
    BY <2>1, InCall DEF CallOk
  <2>3. \/ toolCall' = Failed(toolCall, "not indexed")
        \/ toolCall.ask = {} /\ toolCall' = [toolCall EXCEPT !.pc = "answered"]
        \/ index.known /\ toolCall' = [toolCall EXCEPT !.pc = "look up"]
        \/ toolCall' = Passed(toolCall)
        \/ toolCall' = Passed([toolCall EXCEPT !.latest = Newest(index.rows)])
    <3>0. Stage = "indexed crate" \/ Stage = "known crate"
      BY <1>2 DEF FindIndexedCrate, AtStage
    <3>1. CASE ~ index.known /\ (Stage = "indexed crate" \/ toolCall.ask # {})
      BY <1>2, <3>1 DEF FindIndexedCrate
    <3>2. CASE Stage = "known crate" /\ toolCall.ask = {} /\ index.rows = {}
      BY <1>2, <3>2 DEF FindIndexedCrate
    <3>3. CASE Stage = "known crate" /\ toolCall.ask = {} /\ index.rows # {}
      BY <1>2, <3>3 DEF FindIndexedCrate
    <3>4. CASE index.known /\ Stage = "known crate" /\ toolCall.ask # {}
      BY <1>2, <3>4 DEF FindIndexedCrate
    <3>5. CASE index.known /\ Stage = "indexed crate"
      BY <1>2, <3>5 DEF FindIndexedCrate
    <3> QED
      BY <3>0, <3>1, <3>2, <3>3, <3>4, <3>5
  <2>4. CASE toolCall' = Failed(toolCall, "not indexed")
    BY <2>1, <2>4, CallGivesUp
  <2>5. CASE toolCall.ask = {} /\ toolCall' = [toolCall EXCEPT !.pc = "answered"]
    <3> DEFINE d == toolCall'
    <3>1. /\ DOMAIN d = Fields /\ d.pc = "answered" /\ d.ask = {} /\ d.chosen = {}
          /\ d.check = "none" /\ d.new = toolCall.new /\ d.late = toolCall.late
          /\ d.moments = toolCall.moments /\ d.outcome = "none"
      BY <2>2, <2>5 DEF Fields
    <3> HIDE DEF d
    <3>2. Shaped(d) /\ Vouched(d) /\ Obedient(d) /\ Anchored(d)
      BY <3>1 DEF Shaped, Vouched, Obedient, Anchored, EndPcs, Reached
    <3>3. Witnessed(d)
      BY <2>1, <3>1 DEF CallOk, Witnessed
    <3>4. Fetched(d) /\ Found(d)
      BY <2>1, <3>1 DEF CallOk, Fetched, Found, WaitPcs
    <3>5. CallOk(d)
      BY <3>2, <3>3, <3>4 DEF CallOk
    <3> QED
      BY <2>1, <3>5, SameLists DEF d
  <2>6. CASE index.known /\ toolCall' = [toolCall EXCEPT !.pc = "look up"]
    BY <2>1, <2>2, <2>6, CallMoves DEF EarlyPcs
  <2>7. ASSUME NEW latest, NEW d, toolCall' = Passed(d),
               d = toolCall \/ d = [toolCall EXCEPT !.latest = latest]
        PROVE  CallOk(toolCall)'
    <3>1. /\ DOMAIN d = Fields /\ d.plan = toolCall.plan /\ d.ask = toolCall.ask
          /\ d.chosen = {} /\ d.check = "none" /\ d.new = toolCall.new
          /\ d.moments = toolCall.moments /\ d.outcome = toolCall.outcome
      BY <2>2, <2>7 DEF Fields
    <3>2. toolCall.ask # {} => Includes(toolCall.plan, VersionStages)
      BY <2>1, <2>2 DEF CallOk, Obedient, EndPcs
    <3>3. Head(toolCall.plan) \notin VersionStages
      BY <2>1, StageKinds
    <3>4. CanPass(d)
      BY <2>1, <3>1, <3>2, <3>3, ReadyToPass DEF Reached
    <3> QED
      BY <2>1, <2>7, <3>4, CallPasses
  <2> QED
    BY <2>3, <2>4, <2>5, <2>6, <2>7
<1>3. CASE LookUpLatest
  <2>1. /\ toolCall.pc = "look up"
        /\ toolCall.pc \notin {"idle", "look up again"} \cup EndPcs
        /\ toolCall.pc \notin {"idle"} \cup EndPcs
        /\ UNCHANGED <<published, yanked, index, crateJob>>
    BY <1>3 DEF LookUpLatest, EndPcs
  <2>2. /\ DOMAIN toolCall = Fields /\ toolCall.pc \in EarlyPcs
        /\ toolCall.outcome \in {"none", "completed", "failed"}
    BY <2>1, InCall DEF CallOk, EarlyPcs
  <2>3. Head(toolCall.plan) \in EntryStages /\ toolCall.check = "none"
    BY <2>1, <2>2, InCall DEF CallOk
  <2>4. /\ toolCall.outcome # "failed" => index.known
        /\ toolCall.outcome = "completed" => index.rows # {}
    BY <2>1 DEF CallOk, Found
  <2>5. CASE ~ index.known
    <3>1. toolCall' = Failed(toolCall, "could not be indexed")
      BY <1>3, <2>5 DEF LookUpLatest
    <3> QED
      BY <2>1, <2>4, <2>5, <3>1, CallGivesUp
  <2>6. CASE index.known /\ index.rows = {}
    <3>1. toolCall' = Failed(toolCall, "no versions")
      BY <1>3, <2>6 DEF LookUpLatest
    <3> QED
      BY <2>1, <2>4, <2>6, <3>1, CallGivesUp
  <2>7. CASE index.known /\ index.rows # {}
    <3> DEFINE d == toolCall'
    <3>1. toolCall' = [toolCall EXCEPT !.latest = Newest(index.rows), !.pc = "check freshness"]
      BY <1>3, <2>7 DEF LookUpLatest
    <3>2. /\ DOMAIN d = Fields /\ d.pc = "check freshness" /\ d.plan = toolCall.plan
          /\ d.ask = toolCall.ask /\ d.chosen = toolCall.chosen /\ d.check = toolCall.check
          /\ d.new = toolCall.new /\ d.late = toolCall.late /\ d.moments = toolCall.moments
          /\ d.latest = Newest(index.rows) /\ d.again = toolCall.again
          /\ d.outcome = toolCall.outcome
      BY <2>2, <3>1 DEF Fields
    <3>3. d.latest \in index.rows
      BY <2>7, <3>2, NewestIsListed
    <3> HIDE DEF d
    <3>4. Fetched(d) /\ Found(d)
      BY <2>1, <3>2 DEF CallOk, Fetched, Found, WaitPcs
    <3>5. d.pc \in EarlyPcs \ {"look up again"} /\ d.pc \notin WaitPcs
      BY <3>2 DEF EarlyPcs, WaitPcs
    <3>6. CallOk(d)
      BY <2>1, <2>2, <2>3, <3>2, <3>3, <3>4, <3>5, MoveKeeps
    <3> QED
      BY <2>1, <3>5, <3>6, SameLists DEF d
  <2> QED
    BY <2>5, <2>6, <2>7
<1> QED
  BY <1>1, <1>2, <1>3

\* The call as the freshness check finds it.
LEMMA BeforeTheCheck ==
    ASSUME CallOk(toolCall), toolCall.pc \in EarlyPcs
    PROVE  /\ DOMAIN toolCall = Fields /\ InOrder(toolCall.plan) /\ toolCall.plan # << >>
           /\ Head(toolCall.plan) \in EntryStages /\ Head(toolCall.plan) \notin VersionStages
           /\ toolCall.chosen = {}
           /\ toolCall.pc # "look up again" => toolCall.check = "none"
           /\ toolCall.ask # {} => Includes(toolCall.plan, VersionStages)
           /\ toolCall.pc \notin {"idle"} \cup EndPcs
           /\ toolCall.outcome \in {"none", "completed", "failed"}
<1>1. toolCall.pc \notin {"idle"} \cup EndPcs
  BY DEF EarlyPcs, EndPcs
<1>2. /\ DOMAIN toolCall = Fields /\ InOrder(toolCall.plan) /\ toolCall.plan # << >>
      /\ Head(toolCall.plan) \in EntryStages
      /\ toolCall.outcome \in {"none", "completed", "failed"}
  BY <1>1, InCall DEF CallOk
<1>3. toolCall.chosen = {} /\ (toolCall.pc # "look up again" => toolCall.check = "none")
  BY <1>1, <1>2, InCall DEF CallOk
<1>4. Head(toolCall.plan) \notin VersionStages
  BY <1>2, StageKinds
<1>5. toolCall.ask # {} => Includes(toolCall.plan, VersionStages)
  BY <1>1, <1>3 DEF CallOk, Obedient, EndPcs
<1> QED
  BY <1>1, <1>2, <1>3, <1>4, <1>5

\* The check is skipped, fails, or finds the latest version to be crates.io's
\* highest one.
LEMMA CheckedKeeps ==
    ASSUME CallOk(toolCall), toolCall.pc = "check freshness",
           UNCHANGED <<published, yanked>>, Grows, NEW result,
           toolCall' = Checked(result),
           result \in {"skipped", "failed"} \/ (result = "unchanged" /\ RemoteMax = toolCall.latest)
    PROVE  CallOk(toolCall)'
<1>1. /\ DOMAIN toolCall = Fields /\ Head(toolCall.plan) \notin VersionStages
      /\ toolCall.chosen = {} /\ toolCall.pc \notin {"idle"} \cup EndPcs
      /\ toolCall.ask # {} => Includes(toolCall.plan, VersionStages)
  BY BeforeTheCheck DEF EarlyPcs
<1>2. PICK d : d = [toolCall EXCEPT !.check = result]
  OBVIOUS
<1>3. /\ DOMAIN d = Fields /\ d.plan = toolCall.plan /\ d.ask = toolCall.ask
      /\ d.chosen = {} /\ d.check = result /\ d.new = toolCall.new
      /\ d.moments = toolCall.moments /\ d.latest = toolCall.latest
      /\ d.outcome = toolCall.outcome
  BY <1>1, <1>2 DEF Fields
<1>4. RemoteMax \in toolCall.moments /\ toolCall.latest \in index.rows
  BY <1>1 DEF CallOk, Witnessed, Anchored
<1>5. d.check \in Reached =>
          Current(d, d.latest) /\ \E m \in d.moments : m \in index.rows
  BY <1>3, <1>4 DEF Reached, Current
<1>6. CanPass(d)
  BY <1>1, <1>3, <1>5, ReadyToPass
<1> QED
  BY <1>2, <1>6, CallPasses DEF Checked

\* The freshness check: ensure_freshness_for_interaction.
LEMMA FreshnessKeeps ==
    ASSUME ListsInv, Grows, CallOk(toolCall),
           \/ FreshnessSkipped \/ FreshnessProbeFails \/ FreshnessProbe
           \/ InlineRefresh \/ LookUpAgain
    PROVE  CallOk(toolCall)'
<1>1. CASE FreshnessSkipped
  BY <1>1, CheckedKeeps DEF FreshnessSkipped
<1>2. CASE FreshnessProbeFails
  BY <1>2, CheckedKeeps DEF FreshnessProbeFails
<1>3. CASE FreshnessProbe
  <2>1. CASE RemoteMax = toolCall.latest
    BY <1>3, <2>1, CheckedKeeps DEF FreshnessProbe
  <2>2. CASE RemoteMax # toolCall.latest
    <3>1. /\ toolCall.pc = "check freshness" /\ UNCHANGED <<published, yanked>>
          /\ toolCall' = [toolCall EXCEPT !.pc = "sync"]
      BY <1>3, <2>2 DEF FreshnessProbe
    <3>2. /\ Head(toolCall.plan) \in EntryStages
          /\ toolCall.pc \notin {"idle", "look up again"} \cup EndPcs
      BY <3>1, BeforeTheCheck DEF EarlyPcs
    <3> QED
      BY <3>1, <3>2, CallMoves DEF EarlyPcs
  <2> QED
    BY <2>1, <2>2
<1>4. CASE InlineRefresh
  <2> DEFINE d == toolCall'
  <2>1. /\ toolCall.pc = "sync" /\ UNCHANGED <<published, yanked>>
        /\ toolCall' = [toolCall EXCEPT !.check = "changed", !.pc = "look up again"]
        /\ index' = Persisted(index, OnCratesIo)
    BY <1>4 DEF InlineRefresh
  <2>2. /\ DOMAIN toolCall = Fields /\ InOrder(toolCall.plan) /\ toolCall.plan # << >>
        /\ Head(toolCall.plan) \in EntryStages /\ toolCall.chosen = {}
        /\ toolCall.pc \notin {"idle"} \cup EndPcs
        /\ toolCall.ask # {} => Includes(toolCall.plan, VersionStages)
        /\ toolCall.outcome \in {"none", "completed", "failed"}
    BY <2>1, BeforeTheCheck DEF EarlyPcs
  <2>3. Includes(toolCall.plan, {"latest"}) => toolCall.ask = {}
    BY <2>2, InCall DEF CallOk
  <2>4. /\ DOMAIN d = Fields /\ d.plan = toolCall.plan /\ d.ask = toolCall.ask
        /\ d.chosen = {} /\ d.check = "changed" /\ d.pc = "look up again"
        /\ d.new = toolCall.new /\ d.moments = toolCall.moments /\ d.late = toolCall.late
        /\ d.outcome = toolCall.outcome
    BY <2>1, <2>2 DEF Fields
  <2>5. /\ PublishedOnce /\ Len(published) \in Nat /\ index \in IndexType
        /\ OnCratesIo = FirstOf(Len(published)) /\ OnCratesIo \in SUBSET Int
    BY LenProperties, AllOfThem, ListsOfNumbers DEF ListsInv, ListedOnce, RowsListed, PublishedOnce
  <2>6. index'.rows = FirstOf(Len(published))
    <3>1. PICK m \in 0..Len(published) : index.rows = FirstOf(m)
      BY DEF ListsInv, ListedOnce, RowsListed
    <3>2. FirstOf(m) \subseteq FirstOf(Len(published))
      BY <2>5 DEF FirstOf
    <3>3. index'.rows = index.rows \cup OnCratesIo
      BY <2>1, <2>5, PersistAdds
    <3> QED
      BY <2>5, <3>1, <3>2, <3>3
  <2> HIDE DEF d
  <2>7. Shaped(d)
    BY <2>2, <2>3, <2>4 DEF Shaped, EarlyPcs, EndPcs
  <2>8. Vouched(d) /\ Obedient(d)
    BY <2>2, <2>4 DEF Vouched, Obedient
  <2>9. RemoteMax' = RemoteMax /\ OnCratesIo' = OnCratesIo /\ FirstOf(Len(published))' = FirstOf(Len(published))
    BY <2>1 DEF RemoteMax, OnCratesIo, FirstOf
  <2>10. PICK f \in 1..Len(published) : \A k \in f..Len(published) : published[k] \in d.moments
    BY <2>2, <2>4 DEF CallOk, Witnessed
  <2>11. Len(published) \in f..Len(published) /\ published[Len(published)] \in index'.rows
    <3>1. f \in 1..Len(published) /\ Len(published) \in 1..Len(published)
      BY <2>5, <2>10
    <3> QED
      BY <2>5, <2>6, <3>1 DEF FirstOf
  <2>12. Witnessed(toolCall)'
    <3>1. RemoteMax \in d.moments
      BY <2>2, <2>4 DEF CallOk, Witnessed
    <3>2. \A k \in f..Len(published') : published'[k] \in d.moments
      BY <2>1, <2>10
    <3>3. /\ f \in 1..Len(published') /\ Len(published) \in f..Len(published')
          /\ index'.rows = FirstOf(Len(published))'
      BY <2>1, <2>6, <2>9, <2>10, <2>11
    <3>4. PICK n \in f..Len(published') : n = Len(published)
      BY <3>3
    <3>5. index'.rows = FirstOf(n)'
      BY <2>1, <2>6, <3>4 DEF FirstOf
    <3> QED
      BY <2>9, <3>1, <3>2, <3>3, <3>5 DEF Witnessed, d
  <2>13. Anchored(toolCall)'
    <3>1. \E m \in d.moments : m \in index'.rows
      BY <2>10, <2>11
    <3> QED
      BY <2>4, <3>1 DEF Anchored, d
  <2>14. Fetched(toolCall)' /\ Found(toolCall)'
    <3>1. ~ d.new => d.ask \subseteq OnCratesIo'
      BY <2>2, <2>4, <2>9 DEF CallOk, Fetched
    <3> QED
      BY <2>4, <3>1 DEF Fetched, Found, WaitPcs, d
  <2>15. Shaped(toolCall)' /\ Obedient(toolCall)'
    BY <2>7, <2>8 DEF Shaped, Obedient, d
  <2>16. Vouched(toolCall)'
    BY <2>4 DEF Vouched, d
  <2> QED
    BY <2>12, <2>13, <2>14, <2>15, <2>16 DEF CallOk
<1>5. CASE LookUpAgain
  <2>1. /\ toolCall.pc = "look up again" /\ UNCHANGED <<published, yanked>>
        /\ toolCall' = Passed([toolCall EXCEPT !.latest = Newest(index.rows)])
    BY <1>5 DEF LookUpAgain
  <2>2. /\ DOMAIN toolCall = Fields /\ Head(toolCall.plan) \notin VersionStages
        /\ toolCall.chosen = {} /\ toolCall.pc \notin {"idle"} \cup EndPcs
        /\ toolCall.ask # {} => Includes(toolCall.plan, VersionStages)
    BY <2>1, BeforeTheCheck DEF EarlyPcs
  <2>3. PICK d : d = [toolCall EXCEPT !.latest = Newest(index.rows)]
    OBVIOUS
  <2>4. /\ DOMAIN d = Fields /\ d.plan = toolCall.plan /\ d.ask = toolCall.ask
        /\ d.chosen = {} /\ d.new = toolCall.new
        /\ d.moments = toolCall.moments /\ d.latest = Newest(index.rows)
        /\ d.check = toolCall.check /\ d.outcome = toolCall.outcome
    BY <2>2, <2>3 DEF Fields
  <2>5. PICK f \in 1..Len(published) :
             /\ \A k \in f..Len(published) : published[k] \in toolCall.moments
             /\ \E n \in f..Len(published) : index.rows = FirstOf(n)
    BY <2>1, <2>2 DEF CallOk, Witnessed
  <2>6. PICK n \in f..Len(published) : index.rows = FirstOf(n)
    BY <2>5
  <2>7. n \in 1..Len(published) /\ PublishedOnce
    BY LenProperties DEF ListsInv, PublishedOnce
  <2>8. Newest(index.rows) = published[n]
    BY <2>6, <2>7, NewestOfList
  <2>9. Current(d, d.latest)
    BY <2>4, <2>5, <2>8 DEF Current
  <2>10. CanPass(d)
    BY <2>2, <2>4, <2>9, ReadyToPass
  <2> QED
    BY <2>1, <2>3, <2>10, CallPasses
<1> QED
  BY <1>1, <1>2, <1>3, <1>4, <1>5

\* The version is chosen: the one asked for, or the latest.
LEMMA ChosenKeeps ==
    ASSUME CallOk(toolCall), toolCall.pc = "stage", Head(toolCall.plan) \in VersionStages,
           UNCHANGED <<published, yanked>>, Grows,
           toolCall' = Passed([toolCall EXCEPT !.chosen = Chosen(toolCall), !.latest = 0])
    PROVE  CallOk(toolCall)'
<1>1. /\ toolCall.pc \notin {"idle"} \cup EndPcs /\ toolCall.pc # "look up again"
      /\ DOMAIN toolCall = Fields /\ InOrder(toolCall.plan) /\ toolCall.plan # << >>
  BY InCall DEF CallOk, EndPcs
<1>2. Head(toolCall.plan) \in ChoosingStages
  BY StageKinds
<1>3. /\ Includes(toolCall.plan, ChoosingStages)
      /\ ~ Includes(Tail(toolCall.plan), ChoosingStages)
  BY <1>1, <1>2, AheadOfPlan
<1>4. toolCall.check \in Reached => Current(toolCall, toolCall.latest)
  BY <1>1, <1>3 DEF CallOk, Vouched
<1>5. PICK d : d = [toolCall EXCEPT !.chosen = Chosen(toolCall), !.latest = 0]
  OBVIOUS
<1>6. /\ DOMAIN d = Fields /\ d.plan = toolCall.plan /\ d.ask = toolCall.ask
      /\ d.chosen = Chosen(toolCall) /\ d.check = toolCall.check /\ d.new = toolCall.new
      /\ d.moments = toolCall.moments /\ d.again = toolCall.again
      /\ d.outcome = toolCall.outcome
  BY <1>1, <1>5 DEF Fields
<1>7. /\ toolCall.ask = {} => Chosen(toolCall) = {toolCall.latest}
      /\ toolCall.ask # {} => Chosen(toolCall) = toolCall.ask
  BY DEF Chosen
<1>8. \A v : Current(toolCall, v) => Current(d, v)
  BY <1>6 DEF Current
<1>9. CanPass(d)
  BY <1>1, <1>3, <1>4, <1>6, <1>7, <1>8, ReadyToPass
<1> QED
  BY <1>5, <1>9, CallPasses

\* The stages that choose a version.
LEMMA ChoosingKeeps ==
    ASSUME ListsInv, Grows, CallOk(toolCall), ChooseVersion \/ ChooseIndexed \/ ChooseAgain
    PROVE  CallOk(toolCall)'
<1>1. CASE ChooseVersion
  <2>1. /\ toolCall.pc = "stage" /\ Head(toolCall.plan) \in VersionStages
        /\ toolCall.pc \notin {"idle", "look up again"} \cup EndPcs
        /\ UNCHANGED <<published, yanked, index>>
    BY <1>1, AtStageRuns DEF ChooseVersion, VersionStages
  <2>2. CASE toolCall.ask \subseteq index.rows
    BY <1>1, <2>1, <2>2, ChosenKeeps DEF ChooseVersion
  <2>3. CASE ~ (toolCall.ask \subseteq index.rows)
    BY <1>1, <2>1, <2>3, JoinKeeps DEF ChooseVersion
  <2> QED
    BY <2>2, <2>3
<1>2. CASE ChooseIndexed
  <2>1. /\ toolCall.pc = "stage" /\ Head(toolCall.plan) \in VersionStages
        /\ toolCall.pc \notin {"idle"} \cup EndPcs
        /\ UNCHANGED <<published, yanked, index>>
    BY <1>2, AtStageRuns DEF ChooseIndexed, VersionStages
  <2>2. CASE toolCall.ask \subseteq index.rows
    BY <1>2, <2>1, <2>2, ChosenKeeps DEF ChooseIndexed
  <2>3. CASE ~ (toolCall.ask \subseteq index.rows)
    <3>1. toolCall' = Failed(toolCall, "not indexed")
      BY <1>2, <2>3 DEF ChooseIndexed
    <3> QED
      BY <2>1, <3>1, CallGivesUp
  <2> QED
    BY <2>2, <2>3
<1>3. CASE ChooseAgain
  <2>1. /\ toolCall.pc = "choose again" /\ toolCall.pc \notin {"idle"} \cup EndPcs
        /\ UNCHANGED <<published, yanked, index, crateJob>>
    BY <1>3 DEF ChooseAgain, EndPcs
  <2>2. /\ DOMAIN toolCall = Fields /\ InOrder(toolCall.plan) /\ toolCall.plan # << >>
    BY <2>1, InCall DEF CallOk
  <2>3. CASE toolCall.ask \subseteq index.rows
    <3>1. toolCall' = Passed([toolCall EXCEPT !.chosen = toolCall.ask])
      BY <1>3, <2>3 DEF ChooseAgain
    <3>2. PICK d : d = [toolCall EXCEPT !.chosen = toolCall.ask]
      OBVIOUS
    <3>3. /\ DOMAIN d = Fields /\ d.plan = toolCall.plan /\ d.ask = toolCall.ask
          /\ d.chosen = toolCall.ask /\ d.check = toolCall.check /\ d.new = toolCall.new
          /\ d.moments = toolCall.moments /\ d.latest = toolCall.latest
          /\ d.again = toolCall.again /\ d.outcome = toolCall.outcome
      BY <2>2, <3>2 DEF Fields
    <3>4. Includes(Tail(toolCall.plan), ChoosingStages) => Includes(toolCall.plan, ChoosingStages)
      BY <2>2, AheadOfPlan
    <3>5. toolCall.check \in Reached /\ Includes(toolCall.plan, ChoosingStages)
              => Current(toolCall, toolCall.latest)
      BY <2>1 DEF CallOk, Vouched, EndPcs
    <3>6. Current(toolCall, toolCall.latest) => Current(d, d.latest)
      BY <3>3 DEF Current
    <3>7. toolCall.ask = {} => d.chosen = {}
      BY <3>3
    <3>8. CanPass(d)
      BY <2>1, <3>3, <3>4, <3>5, <3>6, <3>7, ReadyToPass
    <3> QED
      BY <2>1, <3>1, <3>2, <3>8, CallPasses
  <2>4. CASE ~ (toolCall.ask \subseteq index.rows)
    <3>1. toolCall' = Failed(toolCall, "not there after a refresh")
      BY <1>3, <2>4 DEF ChooseAgain
    <3>2. toolCall.late \/ toolCall.new \/ toolCall.outcome = "failed"
      BY <2>1, <2>4 DEF CallOk, Fetched
    <3> QED
      BY <2>1, <3>1, <3>2, CallGivesUp
  <2> QED
    BY <2>3, <2>4
<1> QED
  BY <1>1, <1>2, <1>3

\* crate_versions chooses the latest version; crate_license_check and
\* crate_compare read it anew, from an index that has lost no version since.
LEMMA LatestKeeps ==
    ASSUME ListsInv, Grows, CallOk(toolCall), LatestAgain
    PROVE  CallOk(toolCall)'
<1>1. /\ toolCall.pc = "stage" /\ Stage = Head(toolCall.plan)
      /\ Stage = "latest" \/ Stage = "latest again"
      /\ toolCall.pc \notin {"idle"} \cup EndPcs /\ toolCall.pc # "look up again"
      /\ UNCHANGED <<published, yanked>>
  BY DEF LatestAgain, AtStage, Stage, EndPcs
<1>2. /\ DOMAIN toolCall = Fields /\ InOrder(toolCall.plan) /\ toolCall.plan # << >>
      /\ Includes(toolCall.plan, {"latest"}) => toolCall.ask = {}
  BY <1>1, InCall DEF CallOk
<1>3. /\ toolCall.check \in Reached =>
             /\ Includes(toolCall.plan, ChoosingStages) => Current(toolCall, toolCall.latest)
             /\ toolCall.ask = {} => \A v \in toolCall.chosen : Current(toolCall, v)
             /\ \E m \in toolCall.moments : m \in index.rows
      /\ toolCall.ask # {} =>
             toolCall.chosen = toolCall.ask \/ Includes(toolCall.plan, VersionStages)
  BY <1>1 DEF CallOk, Vouched, Obedient, Anchored, EndPcs
<1>4. CASE Stage = "latest"
  <2>1. toolCall' = Passed([toolCall EXCEPT !.chosen = {toolCall.latest}])
    BY <1>4 DEF LatestAgain
  <2>2. /\ Includes(toolCall.plan, {"latest"}) /\ Includes(toolCall.plan, ChoosingStages)
        /\ ~ Includes(Tail(toolCall.plan), ChoosingStages)
    <3>1. Head(toolCall.plan) \in {"latest"} /\ Head(toolCall.plan) \in ChoosingStages
      BY <1>1, <1>4 DEF ChoosingStages
    <3> QED
      BY <1>2, <3>1, AheadOfPlan
  <2>3. PICK d : d = [toolCall EXCEPT !.chosen = {toolCall.latest}]
    OBVIOUS
  <2>4. /\ DOMAIN d = Fields /\ d.plan = toolCall.plan /\ d.ask = toolCall.ask
        /\ d.chosen = {toolCall.latest} /\ d.check = toolCall.check /\ d.new = toolCall.new
        /\ d.moments = toolCall.moments /\ d.again = toolCall.again
        /\ d.outcome = toolCall.outcome
    BY <1>2, <2>3 DEF Fields
  <2>5. \A v : Current(toolCall, v) => Current(d, v)
    BY <2>4 DEF Current
  <2>6. CanPass(d)
    BY <1>1, <1>2, <1>3, <2>2, <2>4, <2>5, ReadyToPass
  <2> QED
    BY <1>1, <2>1, <2>3, <2>6, CallPasses
<1>5. CASE Stage = "latest again"
  <2>1. toolCall' = Passed([toolCall EXCEPT !.latest = Newest(index.rows), !.again = TRUE])
    BY <1>5 DEF LatestAgain
  <2>2. PICK d : d = [toolCall EXCEPT !.latest = Newest(index.rows), !.again = TRUE]
    OBVIOUS
  <2>3. /\ DOMAIN d = Fields /\ d.plan = toolCall.plan /\ d.ask = toolCall.ask
        /\ d.chosen = toolCall.chosen /\ d.check = toolCall.check /\ d.new = toolCall.new
        /\ d.moments = toolCall.moments /\ d.latest = Newest(index.rows) /\ d.again
        /\ d.outcome = toolCall.outcome
    BY <1>2, <2>2 DEF Fields
  <2>4. Head(toolCall.plan) \notin VersionStages
    BY <1>1, <1>5 DEF VersionStages
  <2>5. \A v : Current(toolCall, v) => Current(d, v)
    BY <2>3 DEF Current
  <2>6. ASSUME d.check \in Reached PROVE Current(d, d.latest)
    <3>1. PICK m \in d.moments : m \in index.rows
      BY <1>3, <2>3, <2>6
    <3>2. index.rows # {}
      BY <3>1
    <3>3. PICK n \in 1..Len(published) :
              index.rows = FirstOf(n) /\ Newest(index.rows) = published[n]
      BY <3>2, NewestIsListed
    <3>4. PICK p \in 1..n : published[p] = m
      BY <3>1, <3>3 DEF FirstOf
    <3>5. p \in 1..Len(published) /\ p <= n
      BY <3>3, <3>4, LenProperties DEF ListsInv, PublishedOnce
    <3>6. NoEarlier(d.latest, m)
      BY <2>3, <3>3, <3>4, <3>5 DEF NoEarlier
    <3> QED
      BY <2>3, <3>1, <3>6 DEF Current
  <2>7. CanPass(d)
    BY <1>1, <1>3, <2>3, <2>4, <2>5, <2>6, ReadyToPass
  <2> QED
    BY <1>1, <2>1, <2>2, <2>7, CallPasses
<1> QED
  BY <1>1, <1>4, <1>5

\* The wait for a job: the call registers, subscribes, and waits until it is
\* signalled or the timeout strikes.
LEMMA WaitKeeps ==
    ASSUME Grows, CallOk(toolCall), Register \/ Subscribe \/ WaitEnds
    PROVE  CallOk(toolCall)'
<1>1. /\ toolCall.pc \in WaitPcs
      /\ toolCall.pc \notin {"idle", "look up again"} \cup EndPcs
      /\ toolCall.pc \notin {"idle"} \cup EndPcs
      /\ UNCHANGED <<published, yanked, index, crateJob>>
  BY DEF Register, Subscribe, WaitEnds, WaitPcs, EndPcs
<1>2. DOMAIN toolCall = Fields /\ toolCall.outcome \in {"none", "completed", "failed"}
  BY <1>1, InCall DEF CallOk
<1>3. \/ toolCall' = Failed(toolCall, "job failed") \/ toolCall' = Failed(toolCall, "timeout")
      \/ \E pc \in {"subscribes", "waits"} : toolCall' = [toolCall EXCEPT !.pc = pc]
      \/ toolCall.outcome # "none" /\ toolCall' = JobDone(toolCall)
  BY DEF Register, Subscribe, WaitEnds
<1>4. CASE \/ toolCall' = Failed(toolCall, "job failed") \/ toolCall' = Failed(toolCall, "timeout")
  BY <1>1, <1>4, CallGivesUp
<1>5. ASSUME NEW pc \in WaitPcs \cup {"look up", "choose again"},
             toolCall' = [toolCall EXCEPT !.pc = pc],
             pc \notin WaitPcs => toolCall.outcome # "none",
             pc = "look up" => Head(toolCall.plan) = "context",
             pc = "choose again" => Head(toolCall.plan) # "context"
      PROVE  CallOk(toolCall)'
  <2> DEFINE d == toolCall'
  <2>1. /\ DOMAIN d = Fields /\ d.pc = pc
        /\ d.plan = toolCall.plan /\ d.ask = toolCall.ask /\ d.chosen = toolCall.chosen
        /\ d.check = toolCall.check /\ d.new = toolCall.new /\ d.moments = toolCall.moments
        /\ d.latest = toolCall.latest /\ d.late = toolCall.late /\ d.again = toolCall.again
        /\ d.outcome = toolCall.outcome /\ d.joined = toolCall.joined
    BY <1>2, <1>5 DEF Fields
  <2> HIDE DEF d
  <2>2. Fetched(d)
    BY <1>1, <1>2, <1>5, <2>1 DEF CallOk, Fetched, WaitPcs
  <2>3. Found(d)
    BY <1>1, <1>2, <1>5, <2>1 DEF CallOk, Found, WaitPcs
  <2>4. /\ d.pc \in ({"choose again"} \cup EarlyPcs \cup WaitPcs) \ {"look up again"}
        /\ d.pc # "check freshness"
        /\ d.pc \in EarlyPcs => pc = "look up"
    BY <1>5, <2>1 DEF EarlyPcs, WaitPcs
  <2>5. d.pc \in EarlyPcs => Head(toolCall.plan) \in EntryStages
    BY <1>5, <2>4 DEF EntryStages
  <2>6. CallOk(d)
    BY <1>1, <1>2, <2>1, <2>2, <2>3, <2>4, <2>5, MoveKeeps
  <2> QED
    BY <1>1, <2>6, SameLists DEF d
<1>6. CASE \E pc \in {"subscribes", "waits"} : toolCall' = [toolCall EXCEPT !.pc = pc]
  <2>1. PICK pc \in {"subscribes", "waits"} : toolCall' = [toolCall EXCEPT !.pc = pc]
    BY <1>6
  <2>2. pc \in WaitPcs /\ pc # "look up" /\ pc # "choose again"
    BY DEF WaitPcs
  <2> QED
    BY <1>5, <2>1, <2>2
<1>7. CASE toolCall.outcome # "none" /\ toolCall' = JobDone(toolCall)
  <2>1. CASE Head(toolCall.plan) = "context"
    <3>1. toolCall' = [toolCall EXCEPT !.pc = "look up"]
      BY <1>7, <2>1 DEF JobDone
    <3> QED
      BY <1>5, <1>7, <2>1, <3>1
  <2>2. CASE Head(toolCall.plan) # "context"
    <3>1. toolCall' = [toolCall EXCEPT !.pc = "choose again"]
      BY <1>7, <2>2 DEF JobDone
    <3> QED
      BY <1>5, <1>7, <2>2, <3>1
  <2> QED
    BY <2>1, <2>2
<1> QED
  BY <1>3, <1>4, <1>6, <1>7

\* A call of the handler fails; the features and the best-effort enrichment are
\* passed over.
LEMMA FaultKeeps ==
    ASSUME Grows, CallOk(toolCall), ToolCallFails
    PROVE  CallOk(toolCall)'
<1>1. toolCall.pc \notin {"idle"} \cup EndPcs /\ UNCHANGED <<published, yanked>>
  BY DEF ToolCallFails, EndPcs
<1>2. CASE AtStage({"rustdoc, if it can be had", "features"})
  <2>1. toolCall.pc = "stage" /\ Head(toolCall.plan) \in RowStages
    BY <1>2 DEF AtStage, Stage, RowStages
  <2> QED
    BY <1>1, <1>2, <2>1, PlainPass DEF ToolCallFails
<1>3. CASE ~ AtStage({"rustdoc, if it can be had", "features"})
  BY <1>1, <1>3, CallGivesUp DEF ToolCallFails
<1> QED
  BY <1>2, <1>3

\* The rows the tool reads are prepared, as far as they can be.
LEMMA RowsKeep ==
    ASSUME Grows, CallOk(toolCall), EnsureIndexed \/ EnsureFeatures
    PROVE  CallOk(toolCall)'
<1>1. /\ toolCall.pc = "stage" /\ Head(toolCall.plan) \in RowStages
      /\ UNCHANGED <<published, yanked>> /\ toolCall' = Passed(toolCall)
  BY DEF EnsureIndexed, EnsureFeatures, AtStage, Stage, RowStages
<1> QED
  BY <1>1, PlainPass

-----------------------------------------------------------------------------
(* The steps of crates.io and of the worker. *)

\* A call that is on sees crates.io change; the rest of its record stays.
LEMMA SeenFields ==
    ASSUME DOMAIN toolCall = Fields, toolCall.pc # "idle", toolCall' = Seen(toolCall)
    PROVE  /\ DOMAIN toolCall' = Fields
           /\ toolCall'.moments = toolCall.moments \cup {RemoteMax', Newest(OnCratesIo)'}
           /\ toolCall'.pc = toolCall.pc /\ toolCall'.plan = toolCall.plan
           /\ toolCall'.ask = toolCall.ask /\ toolCall'.latest = toolCall.latest
           /\ toolCall'.chosen = toolCall.chosen /\ toolCall'.check = toolCall.check
           /\ toolCall'.outcome = toolCall.outcome /\ toolCall'.why = toolCall.why
           /\ toolCall'.joined = toolCall.joined /\ toolCall'.again = toolCall.again
           /\ toolCall'.new = toolCall.new /\ toolCall'.late = toolCall.late
<1> DEFINE m == {RemoteMax', Newest(OnCratesIo)'}
<1>1. toolCall' = [toolCall EXCEPT !.moments = @ \cup m]
  BY DEF Seen
<1> HIDE DEF m
<1>2. /\ DOMAIN toolCall' = Fields
      /\ toolCall'.moments = toolCall.moments \cup m
      /\ toolCall'.pc = toolCall.pc /\ toolCall'.plan = toolCall.plan
      /\ toolCall'.ask = toolCall.ask /\ toolCall'.latest = toolCall.latest
      /\ toolCall'.chosen = toolCall.chosen /\ toolCall'.check = toolCall.check
      /\ toolCall'.outcome = toolCall.outcome /\ toolCall'.why = toolCall.why
      /\ toolCall'.joined = toolCall.joined /\ toolCall'.again = toolCall.again
      /\ toolCall'.new = toolCall.new /\ toolCall'.late = toolCall.late
  BY <1>1 DEF Fields
<1> QED
  BY <1>2 DEF m

\* A call that is not there does not notice anything.
LEMMA IdleKeeps ==
    ASSUME CallOk(toolCall), toolCall.pc = "idle", toolCall' = toolCall
    PROVE  CallOk(toolCall)'
  BY DEF CallOk, Shaped, Witnessed, Anchored, Vouched, Obedient, Fetched, Found

\* crates.io publishes a version or an owner yanks one.
LEMMA CratesIoKeeps ==
    ASSUME ListsInv, CallOk(toolCall), Publish \/ Yank
    PROVE  CallOk(toolCall)'
<1>1. toolCall' = Seen(toolCall) /\ index' = index /\ crateJob' = crateJob
  BY DEF Publish, Yank
<1>2. CASE toolCall.pc = "idle"
  BY <1>1, <1>2, IdleKeeps DEF Seen
<1>3. CASE toolCall.pc # "idle"
  <2>1. DOMAIN toolCall = Fields
    BY <1>3, InCall DEF CallOk
  <2> DEFINE d == toolCall'
  <2>2. /\ DOMAIN d = Fields
        /\ d.moments = toolCall.moments \cup {RemoteMax', Newest(OnCratesIo)'}
        /\ d.pc = toolCall.pc /\ d.plan = toolCall.plan
        /\ d.ask = toolCall.ask /\ d.latest = toolCall.latest
        /\ d.chosen = toolCall.chosen /\ d.check = toolCall.check
        /\ d.outcome = toolCall.outcome /\ d.why = toolCall.why
        /\ d.joined = toolCall.joined /\ d.again = toolCall.again
        /\ d.new = toolCall.new /\ d.late = toolCall.late
    BY <1>1, <1>3, <2>1, SeenFields
  <2> HIDE DEF d
  <2>3. \/ Len(published') = Len(published) /\ published' = published
        \/ Len(published') = Len(published) + 1 /\ published'[Len(published) + 1] = Newest(OnCratesIo)'
    <3>1. CASE Publish
      <4>1. PublishedOnce' /\ Len(published') = Len(published) + 1 /\ Len(published) \in Nat
        BY <3>1, PublishAppends
      <4>2. Len(published') \in 1..Len(published')
        BY <4>1
      <4>3. (OnCratesIo = FirstOf(Len(published)))'
        BY <4>1, AllOfThem, PTL
      <4>4. (PublishedOnce /\ Len(published) \in 1..Len(published)
                => Newest(FirstOf(Len(published))) = published[Len(published)])'
        BY NewestAtLast, PTL
      <4>5. Newest(OnCratesIo)' = published'[Len(published')]
        BY <4>1, <4>2, <4>3, <4>4
      <4> QED
        BY <4>1, <4>5
    <3>2. CASE Yank
      BY <3>2 DEF Yank
    <3> QED
      BY <3>1, <3>2
  <2>4. /\ Len(published) \in Nat
        /\ \A k \in 1..Len(published) : published'[k] = published[k]
        /\ \A n \in 0..Len(published) : FirstOf(n)' = FirstOf(n)
        /\ OnCratesIo \subseteq OnCratesIo'
    <3>1. CASE Publish
      BY <3>1, PublishAppends
    <3>2. CASE Yank
      BY <3>2, LenProperties DEF Yank, FirstOf, OnCratesIo, ListsInv, PublishedOnce
    <3> QED
      BY <3>1, <3>2
  <2>5. Shaped(toolCall)'
    <3>1. Shaped(d)
      BY <1>3, <2>1, <2>2, InCall DEF CallOk, Shaped
    <3> QED
      BY <3>1 DEF Shaped, d
  <2>6. Witnessed(toolCall)'
    <3>1. PICK f \in 1..Len(published) :
               /\ \A k \in f..Len(published) : published[k] \in toolCall.moments
               /\ toolCall.pc = "look up again" =>
                      \E n \in f..Len(published) : index.rows = FirstOf(n)
      BY <1>3 DEF CallOk, Witnessed
    <3>2. Len(published') \in Nat /\ Len(published) <= Len(published')
      BY <2>3, <2>4
    <3>3. f \in 1..Len(published')
      BY <2>4, <3>2
    <3>4. ASSUME NEW k \in f..Len(published') PROVE published'[k] \in d.moments
      <4>1. CASE k \in f..Len(published)
        <5>1. k \in 1..Len(published)
          BY <2>4, <4>1
        <5> QED
          BY <2>2, <2>4, <3>1, <4>1, <5>1
      <4>2. CASE k \notin f..Len(published)
        <5>1. Len(published') = Len(published) + 1 /\ k = Len(published) + 1
          BY <2>3, <2>4, <4>2
        <5>2. published'[k] = Newest(OnCratesIo)'
          BY <2>3, <2>4, <5>1
        <5> QED
          BY <2>2, <5>2
      <4> QED
        BY <4>1, <4>2
    <3>5. ASSUME d.pc = "look up again"
          PROVE  \E n \in f..Len(published') : index'.rows = FirstOf(n)'
      <4>1. PICK n \in f..Len(published) : index.rows = FirstOf(n)
        BY <2>2, <3>1, <3>5
      <4>2. n \in f..Len(published') /\ n \in 0..Len(published)
        BY <2>4, <3>2
      <4>3. index'.rows = FirstOf(n)'
        BY <1>1, <2>4, <4>1, <4>2
      <4> QED
        BY <4>2, <4>3
    <3>6. RemoteMax' \in d.moments
      BY <2>2
    <3> QED
      BY <3>3, <3>4, <3>5, <3>6 DEF Witnessed, d
  <2>7. ASSUME NEW v, Current(toolCall, v) PROVE Current(toolCall, v)'
    <3>1. CASE v \in toolCall.moments
      BY <2>2, <3>1 DEF Current, d
    <3>2. CASE v \notin toolCall.moments
      <4>1. PICK m \in toolCall.moments : NoEarlier(v, m)
        BY <2>7, <3>2 DEF Current
      <4>2. PICK i \in 1..Len(published), j \in 1..Len(published) :
                i <= j /\ published[i] = m /\ published[j] = v
        BY <4>1 DEF NoEarlier
      <4>3. i \in 1..Len(published') /\ j \in 1..Len(published')
        BY <2>3, <2>4
      <4>4. NoEarlier(v, m)'
        BY <2>4, <4>2, <4>3 DEF NoEarlier
      <4>5. m \in d.moments /\ d.again
        BY <2>2, <2>7, <3>2 DEF Current
      <4> QED
        BY <4>4, <4>5 DEF Current, d
    <3> QED
      BY <3>1, <3>2
  <2>8. Vouched(toolCall)'
    BY <1>3, <2>2, <2>7 DEF CallOk, Vouched, d
  <2>9. Obedient(toolCall)'
    <3>1. Obedient(d)
      BY <2>2 DEF CallOk, Obedient
    <3> QED
      BY <3>1 DEF Obedient, d
  <2>10. Anchored(toolCall)' /\ Found(toolCall)'
    <3>1. Anchored(d) /\ Found(d)
      BY <1>3, <2>2 DEF CallOk, Anchored, Found
    <3> QED
      BY <1>1, <3>1 DEF Anchored, Found, d
  <2>11. Fetched(toolCall)'
    <3>1. Fetched(d)
      BY <1>3, <2>2 DEF CallOk, Fetched
    <3> QED
      BY <1>1, <2>4, <3>1 DEF Fetched, Brings, d
  <2> QED
    BY <2>5, <2>6, <2>8, <2>9, <2>10, <2>11 DEF CallOk
<1> QED
  BY <1>2, <1>3

\* A job that ends or fails tells the call that listens, and changes nothing else
\* of it.
LEMMA HeardFields ==
    ASSUME Shaped(toolCall), toolCall.pc # "idle", NEW outcome \in {"completed", "failed"},
           \/ toolCall' = Signalled(toolCall, outcome)
           \/ toolCall' = Ended(Signalled(toolCall, outcome))
    PROVE  /\ DOMAIN toolCall' = Fields
           /\ toolCall'.moments = toolCall.moments
           /\ toolCall'.pc = toolCall.pc /\ toolCall'.plan = toolCall.plan
           /\ toolCall'.ask = toolCall.ask /\ toolCall'.latest = toolCall.latest
           /\ toolCall'.chosen = toolCall.chosen /\ toolCall'.check = toolCall.check
           /\ toolCall'.why = toolCall.why /\ toolCall'.again = toolCall.again
           /\ toolCall'.new = toolCall.new /\ toolCall'.late = toolCall.late
           /\ toolCall'.outcome = IF Listens(toolCall) THEN outcome ELSE toolCall.outcome
           /\ toolCall'.joined => toolCall.joined
           /\ toolCall' = Ended(Signalled(toolCall, outcome)) => ~ toolCall'.joined
<1>1. DOMAIN toolCall = Fields
  BY InCall
<1> DEFINE s == Signalled(toolCall, outcome)
<1>2. /\ DOMAIN s = Fields /\ s.moments = toolCall.moments
      /\ s.pc = toolCall.pc /\ s.plan = toolCall.plan /\ s.joined = toolCall.joined
      /\ s.ask = toolCall.ask /\ s.latest = toolCall.latest
      /\ s.chosen = toolCall.chosen /\ s.check = toolCall.check
      /\ s.why = toolCall.why /\ s.again = toolCall.again
      /\ s.new = toolCall.new /\ s.late = toolCall.late
      /\ s.outcome = IF Listens(toolCall) THEN outcome ELSE toolCall.outcome
  <2>1. CASE Listens(toolCall)
    BY <1>1, <2>1 DEF Signalled, Fields
  <2>2. CASE ~ Listens(toolCall)
    BY <1>1, <2>2 DEF Signalled
  <2> QED
    BY <2>1, <2>2
<1> HIDE DEF s
<1>3. CASE toolCall' = s
  <2>1. toolCall' = Ended(s) => ~ toolCall'.joined
    BY <1>2, <1>3 DEF Ended, Fields
  <2> QED
    BY <1>2, <1>3, <2>1 DEF s
<1>4. CASE toolCall' = Ended(s)
  <2>1. toolCall' = [s EXCEPT !.joined = FALSE]
    BY <1>2, <1>4 DEF Ended
  <2>2. /\ DOMAIN toolCall' = Fields /\ toolCall'.joined = FALSE
        /\ toolCall'.moments = s.moments
        /\ toolCall'.pc = s.pc /\ toolCall'.plan = s.plan
        /\ toolCall'.ask = s.ask /\ toolCall'.latest = s.latest
        /\ toolCall'.chosen = s.chosen /\ toolCall'.check = s.check
        /\ toolCall'.why = s.why /\ toolCall'.again = s.again
        /\ toolCall'.new = s.new /\ toolCall'.late = s.late
        /\ toolCall'.outcome = s.outcome
    BY <1>2, <2>1 DEF Fields
  <2> QED
    BY <1>2, <2>2
<1> QED
  BY <1>3, <1>4 DEF s

\* What a job will bring it still will after a step of its own, or it has ended.
LEMMA JobBrings ==
    ASSUME ListsInv, NEW versions, versions \subseteq OnCratesIo, Brings(versions),
           \/ FallDue \/ StubAppears \/ BackgroundJob \/ JobReads \/ JobCommits \/ JobEnds
           \/ JobFails \/ SignalFailure
    PROVE  crateJob'.state = "none" \/ Brings(versions)'
<1>1. /\ crateJob = [state |-> crateJob.state, read |-> crateJob.read]
      /\ crateJob.state \in JobStates
  BY DEF ListsInv, ListedOnce, JobListed
<1>2. CASE FallDue \/ StubAppears
  <2>1. crateJob' = crateJob
    BY <1>2 DEF FallDue, StubAppears
  <2> QED
    BY <2>1 DEF Brings
<1>3. CASE BackgroundJob
  BY <1>3 DEF BackgroundJob, Joined, Brings
<1>4. CASE JobReads
  <2>1. crateJob'.state = "running" /\ crateJob'.read = OnCratesIo
    BY <1>4 DEF JobReads
  <2> QED
    BY <2>1 DEF Brings
<1>5. CASE JobCommits
  <2>1. crateJob.state = "running" /\ crateJob' = [crateJob EXCEPT !.state = "stored"]
    BY <1>5 DEF JobCommits
  <2>2. crateJob' = [state |-> "stored", read |-> crateJob.read]
    BY <1>1, <2>1
  <2> QED
    BY <2>1, <2>2 DEF Brings
<1>6. CASE JobFails \/ JobEnds
  BY <1>6 DEF JobFails, JobEnds, NoJob, Brings
<1>7. CASE SignalFailure
  <2>1. crateJob'.state = "queued"
    BY <1>1, <1>7 DEF SignalFailure
  <2> QED
    BY <2>1 DEF Brings
<1> QED
  BY <1>2, <1>3, <1>4, <1>5, <1>6, <1>7

\* What the call hears of the job: that it failed, or that it completed and is
\* stored; a call is not joined to a job that has ended.
Hears(outcome, joined) ==
    /\ joined => toolCall.joined
    /\ \/ outcome = toolCall.outcome
       \/ Listens(toolCall) /\ outcome = "failed"
       \/ Listens(toolCall) /\ outcome = "completed" /\ crateJob.state = "stored"
    /\ joined /\ crateJob'.state = "none" => crateJob.state = "none"

LEMMA WorkerFields ==
    ASSUME ListsInv, Shaped(toolCall), toolCall.pc # "idle",
           \/ FallDue \/ StubAppears \/ BackgroundJob \/ JobReads \/ JobCommits \/ JobEnds
           \/ JobFails \/ SignalFailure
    PROVE  /\ DOMAIN toolCall' = Fields
           /\ toolCall'.moments = toolCall.moments
           /\ toolCall'.pc = toolCall.pc /\ toolCall'.plan = toolCall.plan
           /\ toolCall'.ask = toolCall.ask /\ toolCall'.latest = toolCall.latest
           /\ toolCall'.chosen = toolCall.chosen /\ toolCall'.check = toolCall.check
           /\ toolCall'.why = toolCall.why /\ toolCall'.again = toolCall.again
           /\ toolCall'.new = toolCall.new /\ toolCall'.late = toolCall.late
           /\ Hears(toolCall'.outcome, toolCall'.joined)
<1>1. /\ crateJob = [state |-> crateJob.state, read |-> crateJob.read]
      /\ crateJob.state \in JobStates
  BY DEF ListsInv, ListedOnce, JobListed
<1>2. ASSUME toolCall' = toolCall, crateJob'.state = "none" => crateJob.state = "none"
      PROVE  /\ DOMAIN toolCall' = Fields
             /\ Hears(toolCall'.outcome, toolCall'.joined)
  BY <1>2, InCall DEF Hears
<1>3. CASE FallDue \/ StubAppears \/ BackgroundJob \/ JobReads
  <2>1. toolCall' = toolCall /\ (crateJob'.state = "none" => crateJob.state = "none")
    BY <1>3 DEF FallDue, StubAppears, BackgroundJob, JobReads, Joined
  <2> QED
    BY <1>2, <2>1
<1>4. CASE JobCommits
  <2>1. toolCall' = toolCall /\ crateJob.state = "running"
        /\ crateJob' = [crateJob EXCEPT !.state = "stored"]
    BY <1>4 DEF JobCommits
  <2>2. crateJob'.state = "stored"
    BY <1>1, <2>1
  <2> QED
    BY <1>2, <2>1, <2>2
<1>5. CASE JobEnds
  <2>1. toolCall' = Ended(Signalled(toolCall, "completed")) /\ crateJob.state = "stored"
    BY <1>5 DEF JobEnds
  <2> QED
    BY <2>1, HeardFields DEF Hears
<1>6. CASE JobFails
  <2>1. CASE toolCall' = Ended(Signalled(toolCall, "failed"))
    BY <2>1, HeardFields DEF Hears
  <2>2. CASE toolCall' = toolCall /\ crateJob' = [state |-> "requeued", read |-> {}]
    BY <1>2, <2>2
  <2> QED
    BY <1>6, <2>1, <2>2 DEF JobFails
<1>7. CASE SignalFailure
  <2>1. toolCall' = Signalled(toolCall, "failed")
        /\ crateJob' = [crateJob EXCEPT !.state = "queued"]
    BY <1>7 DEF SignalFailure
  <2>2. crateJob'.state = "queued"
    BY <1>1, <2>1
  <2> QED
    BY <2>1, <2>2, HeardFields DEF Hears
<1> QED
  BY <1>3, <1>4, <1>5, <1>6, <1>7

\* The worker's job starts, ends or fails, a stub appears, next_check_at passes.
LEMMA WorkerKeeps ==
    ASSUME ListsInv, ListsInv', Grows, CallOk(toolCall),
           \/ FallDue \/ StubAppears \/ BackgroundJob \/ JobReads \/ JobCommits \/ JobEnds
           \/ JobFails \/ SignalFailure
    PROVE  CallOk(toolCall)'
<1>1. UNCHANGED <<published, yanked>>
  BY DEF FallDue, StubAppears, BackgroundJob, JobReads, JobCommits, JobEnds, JobFails, SignalFailure
<1>2. /\ RemoteMax' = RemoteMax /\ OnCratesIo' = OnCratesIo
      /\ \A n : FirstOf(n)' = FirstOf(n)
  BY <1>1 DEF RemoteMax, OnCratesIo, FirstOf
<1>3. CASE toolCall.pc = "idle"
  <2>1. toolCall' = toolCall
    BY <1>3 DEF FallDue, StubAppears, BackgroundJob, JobReads, JobCommits, JobEnds, JobFails,
                SignalFailure, Signalled, Ended, Listens
  <2> QED
    BY <1>3, <2>1, IdleKeeps
<1>4. CASE toolCall.pc # "idle"
  <2> DEFINE d == toolCall'
  <2>1. /\ DOMAIN d = Fields /\ d.moments = toolCall.moments
        /\ d.pc = toolCall.pc /\ d.plan = toolCall.plan
        /\ d.ask = toolCall.ask /\ d.latest = toolCall.latest
        /\ d.chosen = toolCall.chosen /\ d.check = toolCall.check
        /\ d.why = toolCall.why /\ d.again = toolCall.again
        /\ d.new = toolCall.new /\ d.late = toolCall.late
        /\ Hears(d.outcome, d.joined)
    BY <1>4, WorkerFields DEF CallOk
  <2> HIDE DEF d
  <2>2. /\ d.pc \notin WaitPcs => d.outcome = toolCall.outcome
        /\ d.outcome = "none" => toolCall.outcome = "none"
        /\ d.outcome \in {"none", "completed", "failed"}
    <3>1. Listens(toolCall) => toolCall.pc \in WaitPcs
      BY DEF Listens, WaitPcs
    <3>2. toolCall.outcome \in {"none", "completed", "failed"}
      BY <1>4, InCall DEF CallOk
    <3> QED
      BY <2>1, <3>1, <3>2 DEF Hears
  <2>3. Shaped(toolCall)'
    <3>1. Shaped(d)
      BY <1>4, <2>1, <2>2, InCall DEF CallOk, Shaped, WaitPcs
    <3> QED
      BY <3>1 DEF Shaped, d
  <2>4. Witnessed(toolCall)'
    <3>1. PICK f \in 1..Len(published) :
               /\ \A k \in f..Len(published) : published[k] \in toolCall.moments
               /\ toolCall.pc = "look up again" =>
                      \E n \in f..Len(published) : index.rows = FirstOf(n)
      BY <1>4 DEF CallOk, Witnessed
    <3>2. ASSUME d.pc = "look up again"
          PROVE  \E n \in f..Len(published) : index'.rows = FirstOf(n)
      <4>1. PICK n \in f..Len(published) : index.rows = FirstOf(n)
        BY <2>1, <3>1, <3>2
      <4>2. PICK k \in 0..Len(published) : index'.rows = FirstOf(k)
        BY <1>1, <1>2 DEF ListsInv, ListedOnce, RowsListed
      <4>3. Len(published) \in Nat
        BY LenProperties DEF ListsInv, PublishedOnce
      <4>4. CASE k >= n
        BY <4>1, <4>2, <4>3, <4>4
      <4>5. CASE k < n
        <5>1. FirstOf(k) \subseteq FirstOf(n)
          BY <4>1, <4>2, <4>3, <4>5 DEF FirstOf
        <5>2. FirstOf(n) \subseteq index'.rows
          BY <4>1 DEF Grows
        <5>3. index'.rows \subseteq FirstOf(n)
          BY <4>2, <5>1
        <5>4. index'.rows = FirstOf(n)
          BY <5>2, <5>3
        <5> QED
          BY <5>4
      <4> QED
        BY <4>1, <4>2, <4>3, <4>4, <4>5
    <3>3. RemoteMax \in d.moments
      BY <1>4, <2>1 DEF CallOk, Witnessed
    <3>4. /\ f \in 1..Len(published')
          /\ \A k \in f..Len(published') : published'[k] \in d.moments
          /\ d.pc = "look up again" => \E n \in f..Len(published') : index'.rows = FirstOf(n)'
      BY <1>1, <1>2, <2>1, <3>1, <3>2
    <3> QED
      BY <1>2, <3>3, <3>4 DEF Witnessed, d
  <2>5. \A v : Current(toolCall, v) => Current(toolCall, v)'
    <3>1. \A v, m : NoEarlier(v, m)' <=> NoEarlier(v, m)
      BY <1>1 DEF NoEarlier
    <3>2. \A v : Current(toolCall, v) => v \in d.moments \/ (d.again /\ \E m \in d.moments : NoEarlier(v, m))
      BY <2>1 DEF Current
    <3> QED
      BY <3>1, <3>2 DEF Current, d
  <2>6. Vouched(toolCall)'
    BY <1>4, <2>1, <2>5 DEF CallOk, Vouched, d
  <2>7. Obedient(toolCall)'
    <3>1. Obedient(d)
      BY <2>1 DEF CallOk, Obedient
    <3> QED
      BY <3>1 DEF Obedient, d
  <2>8. Anchored(toolCall)'
    BY <1>4, <2>1 DEF CallOk, Anchored, Grows, d
  <2>9. ASSUME d.pc \in WaitPcs, d.outcome = "completed"
        PROVE  /\ index.known /\ index.rows # {}
               /\ Head(d.plan) # "context" /\ ~ d.new /\ ~ d.late => d.ask \subseteq index.rows
    <3>1. CASE toolCall.outcome = "completed"
      BY <1>4, <2>1, <2>9, <3>1 DEF CallOk, Found, Fetched
    <3>2. CASE toolCall.outcome # "completed"
      <4>1. Listens(toolCall) /\ crateJob.state = "stored"
        BY <2>1, <2>9, <3>2 DEF Hears
      <4>2. index.known /\ crateJob.read \subseteq index.rows /\ crateJob.read # {}
        BY <4>1 DEF ListsInv, ListedOnce, JobListed
      <4>3. ASSUME Head(d.plan) # "context", ~ d.new, ~ d.late PROVE d.ask \subseteq index.rows
        <5>1. Brings(toolCall.ask)
          BY <1>4, <2>1, <2>9, <4>1, <4>3 DEF CallOk, Fetched, Listens
        <5> QED
          BY <2>1, <4>1, <4>2, <5>1 DEF Brings
      <4> QED
        BY <4>2, <4>3
    <3> QED
      BY <3>1, <3>2
  <2>10. Found(toolCall)'
    <3>1. /\ d.pc \in WaitPcs /\ d.outcome = "completed" => index'.known /\ index'.rows # {}
          /\ d.pc = "look up" =>
                 /\ d.outcome # "failed" => index'.known
                 /\ d.outcome = "completed" => index'.rows # {}
          /\ d.pc = "error" =>
                 /\ d.why = "could not be indexed" => d.outcome = "failed"
                 /\ d.why = "no versions" => d.outcome # "completed"
      BY <1>4, <2>1, <2>2, <2>9 DEF CallOk, Found, WaitPcs, Grows
    <3> QED
      BY <3>1 DEF Found, d
  <2>11. Fetched(toolCall)'
    <3> SUFFICES ASSUME ~ d.new
        PROVE  /\ d.ask \subseteq OnCratesIo'
               /\ ~ d.late =>
                      /\ d.pc \in WaitPcs /\ Head(d.plan) # "context" =>
                             /\ d.joined /\ d.outcome = "none" => Brings(toolCall.ask)'
                             /\ d.outcome = "completed" => d.ask \subseteq index'.rows
                      /\ d.pc = "choose again" /\ d.outcome # "failed" =>
                             d.ask \subseteq index'.rows
                      /\ d.pc = "error" /\ d.outcome # "failed" =>
                             d.why # "not there after a refresh"
      BY DEF Fetched, d
    <3>1. /\ toolCall.ask \subseteq OnCratesIo /\ d.ask \subseteq OnCratesIo'
      BY <1>2, <1>4, <2>1 DEF CallOk, Fetched
    <3> SUFFICES ASSUME ~ d.late
        PROVE  /\ d.pc \in WaitPcs /\ Head(d.plan) # "context" =>
                      /\ d.joined /\ d.outcome = "none" => Brings(toolCall.ask)'
                      /\ d.outcome = "completed" => d.ask \subseteq index'.rows
               /\ d.pc = "choose again" /\ d.outcome # "failed" => d.ask \subseteq index'.rows
               /\ d.pc = "error" /\ d.outcome # "failed" => d.why # "not there after a refresh"
      BY <3>1
    <3>2. /\ d.pc = "choose again" /\ d.outcome # "failed" => d.ask \subseteq index'.rows
          /\ d.pc = "error" /\ d.outcome # "failed" => d.why # "not there after a refresh"
      BY <1>4, <2>1, <2>2 DEF CallOk, Fetched, WaitPcs, Grows
    <3>3. ASSUME d.pc \in WaitPcs, Head(d.plan) # "context", d.joined, d.outcome = "none"
          PROVE  Brings(toolCall.ask)'
      <4>1. toolCall.joined /\ toolCall.outcome = "none"
        BY <2>1, <2>2, <3>3 DEF Hears
      <4>2. Brings(toolCall.ask)
        BY <1>4, <2>1, <3>3, <4>1 DEF CallOk, Fetched
      <4>3. crateJob'.state # "none"
        <5>1. crateJob.state # "none"
          BY <4>2 DEF Brings
        <5> QED
          BY <2>1, <3>3, <5>1 DEF Hears
      <4>4. crateJob'.state \in {"queued", "requeued"}
            \/ (crateJob'.state \in {"running", "stored"} /\ toolCall.ask \subseteq crateJob'.read)
        <5>1. PICK versions : versions = toolCall.ask
          OBVIOUS
        <5>2. versions \subseteq OnCratesIo /\ Brings(versions)
          BY <3>1, <4>2, <5>1
        <5>3. crateJob'.state = "none" \/ Brings(versions)'
          BY <5>2, JobBrings
        <5> QED
          BY <4>3, <5>1, <5>3 DEF Brings
      <4> QED
        BY <2>1, <4>4 DEF Brings, d
    <3>4. d.pc \in WaitPcs /\ Head(d.plan) # "context" /\ d.outcome = "completed"
              => d.ask \subseteq index'.rows
      BY <2>9 DEF Grows
    <3> QED
      BY <3>2, <3>3, <3>4
  <2> QED
    BY <2>3, <2>4, <2>6, <2>7, <2>8, <2>10, <2>11 DEF CallOk
<1> QED
  BY <1>3, <1>4

-----------------------------------------------------------------------------
(* The theorem. *)

\* Every step keeps what is known of the call.
LEMMA CallStep == CallInv /\ [CallNext]_callVars => CallInv'
<1> SUFFICES ASSUME CallInv, [CallNext]_callVars PROVE CallInv'
  OBVIOUS
<1>1. ListsInv /\ CallOk(toolCall)
  BY DEF CallInv
<1>2. ListsInv' /\ Grows
  BY <1>1, ListsStep
<1>3. CASE Publish \/ Yank
  BY <1>1, <1>2, <1>3, CratesIoKeeps DEF CallInv
<1>4. CASE \/ FallDue \/ StubAppears \/ BackgroundJob \/ JobReads \/ JobCommits \/ JobEnds
           \/ JobFails \/ SignalFailure
  BY <1>1, <1>2, <1>4, WorkerKeeps DEF CallInv
<1>5. CASE \E plan \in Plans, ask \in Asks : BeginCall(plan, ask)
  BY <1>1, <1>2, <1>5, BeginKeeps DEF CallInv
<1>6. CASE EndCall
  BY <1>2, <1>6, EndKeeps DEF CallInv
<1>7. CASE ToolCallFails
  BY <1>1, <1>2, <1>7, FaultKeeps DEF CallInv
<1>8. CASE EnsureCrateIndexed \/ FindIndexedCrate \/ LookUpLatest
  BY <1>1, <1>2, <1>8, FindingKeeps DEF CallInv
<1>9. CASE Register \/ Subscribe \/ WaitEnds
  BY <1>1, <1>2, <1>9, WaitKeeps DEF CallInv
<1>10. CASE \/ FreshnessSkipped \/ FreshnessProbeFails \/ FreshnessProbe
            \/ InlineRefresh \/ LookUpAgain
  BY <1>1, <1>2, <1>10, FreshnessKeeps DEF CallInv
<1>11. CASE LatestAgain
  BY <1>1, <1>2, <1>11, LatestKeeps DEF CallInv
<1>12. CASE ChooseVersion \/ ChooseIndexed \/ ChooseAgain
  BY <1>1, <1>2, <1>12, ChoosingKeeps DEF CallInv
<1>13. CASE EnsureIndexed \/ EnsureFeatures
  BY <1>1, <1>2, <1>13, RowsKeep DEF CallInv
<1>14. CASE UNCHANGED callVars
  BY <1>1, <1>2, <1>14, SameLists DEF CallInv, callVars
<1> QED
  BY <1>3, <1>4, <1>5, <1>6, <1>7, <1>8, <1>9, <1>10, <1>11, <1>12, <1>13, <1>14
  DEF CallNext, ToolCallStep

\* At the start the crate is not indexed, a stub, or indexed with its first version.
LEMMA CallStart == CallInit => CallInv
<1> SUFFICES ASSUME CallInit PROVE CallInv
  OBVIOUS
<1>1. FirstVersion \in Int
  BY ToolCallAssumption DEF ToolCallAssumption, CrateVersions
<1>2. published = <<FirstVersion>> /\ published \in Seq(Int) /\ Len(published) = 1 /\ published # << >>
      /\ published[1] = FirstVersion
  BY <1>1 DEF CallInit
<1>3. PublishedOnce
  BY <1>2 DEF PublishedOnce
<1>4. /\ FirstOf(0) = {} /\ FirstOf(1) = {FirstVersion}
      /\ 0 \in 0..Len(published) /\ 1 \in 0..Len(published)
  BY <1>2 DEF FirstOf
<1>5. PICK known \in BOOLEAN, rows \in {{}, {FirstVersion}} :
          index = [known |-> known, rows |-> rows, due |-> known]
  BY DEF CallInit
<1>6. index \in IndexType /\ (index.rows = {FirstVersion} \/ index.rows = {})
  BY <1>1, <1>5 DEF IndexType
<1>7. RowsListed
  BY <1>4, <1>6 DEF RowsListed
<1>8. JobListed
  BY <1>4 DEF CallInit, NoJob, JobListed, JobStates
<1>9. CallOk(toolCall)
  BY DEF CallInit, NoCall, CallOk, Shaped, Witnessed, Anchored, Vouched, Obedient, Fetched, Found
<1> QED
  BY <1>3, <1>7, <1>8, <1>9 DEF CallInv, ListsInv, ListedOnce

\* What a crate tool tells its client about versions is true, for every number of
\* versions and every interleaving with crates.io and the worker's job: the latest
\* version it answers for was the highest or the newest on crates.io during the
\* call, when the freshness check reached crates.io, or was published no earlier
\* than such a version, in the tools that read the latest once more; the version
\* asked for is the one it answers for; and "not there after a refresh", "could not
\* be indexed" and "no versions" are said only when the job joined had read
\* crates.io before, the version is newer than the call, or a job that failed was
\* taken for a completed one (resolve_version_or_latest, fetch_crate_context,
\* ensure_freshness_for_interaction, wait_for_job).
THEOREM ToolsTellTheTruth == CallSpec => []CallsTruthful
<1>1. CallInit => CallInv
  BY CallStart
<1>2. CallInv /\ [CallNext]_callVars => CallInv'
  BY CallStep
<1>3. CallInv => CallsTruthful
  BY InvIsTruthful
<1> QED
  BY <1>1, <1>2, <1>3, PTL DEF CallSpec


----------------------------------------------------------------------------
(* The sessions and the reaper. *)

\* The session manager, the table and the reaper keep their types.
SessionTypes ==
    /\ live \subseteq SessionIds
    /\ stored \in [SessionIds -> -1 .. IdleTimeout + 1]
    /\ restoring \in SessionIds \cup {0}
    /\ reaper \in [pc : {"asleep", "touch", "delete"}, ids : SUBSET SessionIds, ticks : Nat]

\* A pass of the reaper is shorter than the timeout.
PassIsShort == reaper.ticks <= IdleTimeout

\* The row of a session that is being restored was just marked as seen.
RestoringSeen == restoring # 0 => stored[restoring] = 0

\* While a pass is under way a live session was read by it, or has been created
\* or restored since the pass began; after the touch every one has been seen
\* since then.
SeenInPass ==
    \A s \in live :
        /\ reaper.pc = "touch" => s \in reaper.ids \/ stored[s] <= reaper.ticks
        /\ reaper.pc = "delete" => stored[s] <= reaper.ticks

SessionInv == SessionTypes /\ PassIsShort /\ RestoringSeen /\ SeenInPass /\ LiveSessionStored

\* An empty manager and an empty table (SessionStore::new) satisfy it.
LEMMA SessionsInit == SessionInit => SessionInv
  BY SessionAssumption
  DEF SessionInit, SessionInv, SessionTypes, PassIsShort, RestoringSeen, SeenInPass,
      LiveSessionStored, Asleep

\* Creating a session keeps it: its row is new.
LEMMA StoreKeeps ==
    ASSUME SessionInv, NEW s \in SessionIds, StoreSession(s)
    PROVE  SessionInv'
  BY SessionAssumption
  DEF SessionInv, SessionTypes, PassIsShort, RestoringSeen, SeenInPass, LiveSessionStored,
      HasRow, StoreSession

\* Loading the row of a session marks it as seen, so the reaper spares it until
\* rmcp has replayed initialize.
LEMMA LoadKeeps ==
    ASSUME SessionInv, NEW s \in SessionIds, LoadSession(s)
    PROVE  SessionInv'
  BY SessionAssumption
  DEF SessionInv, SessionTypes, PassIsShort, RestoringSeen, SeenInPass, LiveSessionStored,
      HasRow, LoadSession

\* The replayed initialize makes the session live with the row that load marked.
LEMMA RestoreKeeps ==
    ASSUME SessionInv, RestoreSession
    PROVE  SessionInv'
  BY SessionAssumption
  DEF SessionInv, SessionTypes, PassIsShort, RestoringSeen, SeenInPass, LiveSessionStored,
      HasRow, RestoreSession

\* Every other step of the server keeps it: the ends of sessions, each step of
\* prune_stale, the passing of time and a restart.
LEMMA ServerKeeps ==
    ASSUME SessionInv, ServerStep
    PROVE  SessionInv'
<1> USE SessionAssumption
    DEF SessionInv, SessionTypes, PassIsShort, RestoringSeen, SeenInPass, LiveSessionStored,
        HasRow, Asleep
<1>1. ASSUME NEW s \in SessionIds, DeleteSession(s) \/ ExpireInMemory(s)
      PROVE SessionInv'
  <2>1. live' \subseteq live /\ UNCHANGED <<restoring, reaper>>
    BY <1>1 DEF DeleteSession, ExpireInMemory
  <2>2. stored' \in [SessionIds -> -1 .. IdleTimeout + 1]
    BY <1>1 DEF DeleteSession, ExpireInMemory
  <2>3. \A r \in live' : stored'[r] = stored[r]
    BY <1>1 DEF DeleteSession, ExpireInMemory
  <2>4. restoring # 0 => stored' = stored
    BY <1>1 DEF DeleteSession, ExpireInMemory
  <2> QED
    BY <2>1, <2>2, <2>3, <2>4
<1>2. CASE ReaperReads
  BY <1>2 DEF ReaperReads
<1>3. CASE TouchSessions
  BY <1>3 DEF TouchSessions
<1>4. CASE DeleteStaleSessions
  BY <1>4 DEF DeleteStaleSessions
<1>5. CASE SessionTick
  <2>1. stored' \in [SessionIds -> -1 .. IdleTimeout + 1]
        /\ \A s \in SessionIds : stored[s] >= 0 => stored'[s] >= 0 /\ stored'[s] <= stored[s] + 1
    BY <1>5 DEF SessionTick
  <2>2. CASE reaper.pc = "asleep"
    BY <1>5, <2>1, <2>2 DEF SessionTick
  <2>3. CASE reaper.pc # "asleep"
    <3>1. reaper' = [reaper EXCEPT !.ticks = reaper.ticks + 1] /\ reaper.ticks < IdleTimeout
      BY <1>5, <2>3 DEF SessionTick
    <3>2. /\ reaper' \in [pc : {"asleep", "touch", "delete"}, ids : SUBSET SessionIds, ticks : Nat]
          /\ reaper'.pc = reaper.pc /\ reaper'.ids = reaper.ids
          /\ reaper'.ticks = reaper.ticks + 1
      BY <3>1
    <3> QED
      BY <1>5, <2>1, <3>1, <3>2 DEF SessionTick
  <2> QED
    BY <2>2, <2>3
<1>6. CASE RestartServer
  BY <1>6 DEF RestartServer
<1> QED
  BY <1>1, <1>2, <1>3, <1>4, <1>5, <1>6 DEF ServerStep
\* A step that leaves the sessions alone keeps their invariant.
LEMMA SessionsRest ==
    ASSUME SessionInv, UNCHANGED sessionVars
    PROVE  SessionInv'
  BY DEF sessionVars, SessionInv, SessionTypes, PassIsShort, RestoringSeen, SeenInPass,
      LiveSessionStored, HasRow
----------------------------------------------------------------------------
(* The adapter. *)

Adapters ==
    [pc : {"read", "send", "replay", "restoring", "initialized"}, session : SessionIds \cup {0},
     legacy : BOOLEAN, back : {"none", "send", "initialized"}, again : BOOLEAN]
Answers == [line : Nat, of : Kinds, kind : {"result", "error", "parse error"}]

\* Upstream, the line and what was run and written keep their types.
ProxyTypes ==
    /\ adapter \in Adapters
    /\ line \in [n : Nat, kind : Kinds \cup {"none"}]
    /\ ran \subseteq [line : Nat, nth : Nat, session : SessionIds \cup {0}]
    /\ answers \subseteq Answers

\* A line being forwarded was read; a post names a session whenever the legacy
\* protocol asks for one.
PostNamesSession ==
    /\ adapter.pc # "read" => line.kind \in Kinds
    /\ adapter.pc \in {"restoring", "initialized"} => adapter.session # 0
    /\ adapter.pc = "restoring" => adapter.back # "none"
    /\ adapter.pc = "send" /\ adapter.legacy /\ line.kind # "initialize" => adapter.session # 0

\* Nothing has run or been answered for a line that has not been read, nor for
\* the one still being forwarded.
RunsInv ==
    \A r \in ran :
        /\ r.nth = 0 /\ r.line <= line.n
        /\ r.line = line.n => adapter.pc = "read" /\ (adapter.legacy => r.session # 0)

AnswersInv ==
    /\ \A a \in answers : a.line <= line.n /\ (a.line = line.n => adapter.pc = "read")
    /\ \A a, b \in answers : a.line = b.line => a = b
    /\ \A a \in answers : a.of = "request" /\ a.kind = "result" => \E r \in ran : r.line = a.line
    /\ adapter.pc = "read" /\ line.n > 0 /\ line.kind # "notification"
           => \E a \in answers : a.line = line.n

ProxyInv == ProxyTypes /\ PostNamesSession /\ RunsInv /\ AnswersInv

\* The inductive invariant says what LinesOnce says, and more.
LEMMA ProxyInvImplies == ProxyInv => LinesOnce
  BY DEF ProxyInv, RunsInv, AnswersInv, LinesOnce

\* An adapter that has read nothing (main) satisfies it.
LEMMA ProxyStarts == ProxyInit => ProxyInv
  BY DEF ProxyInit, ProxyInv, ProxyTypes, PostNamesSession, RunsInv, AnswersInv, Adapters

\* A step that neither answers nor runs the line leaves what was run and
\* answered alone, as long as the line stays in flight.
LEMMA StillForwarding ==
    ASSUME ProxyInv, adapter.pc # "read", UNCHANGED <<line, ran, answers>>,
           adapter' \in Adapters, adapter'.pc # "read", PostNamesSession'
    PROVE  ProxyInv'
  BY DEF ProxyInv, ProxyTypes, RunsInv, AnswersInv

\* A step of the server alone leaves the adapter's invariant true.
LEMMA ProxyRests ==
    ASSUME ProxyInv, UNCHANGED proxyVars
    PROVE  ProxyInv'
  BY DEF proxyVars, ProxyInv, ProxyTypes, PostNamesSession, RunsInv, AnswersInv

\* Written ends the forwarding of a line: it is the line's first answer.
LEMMA WrittenOnce ==
    ASSUME ProxyInv, adapter.pc # "read", UNCHANGED line,
           NEW a \in Adapters, NEW kind \in {"result", "error"}, Written(a, kind),
           \/ UNCHANGED ran
           \/ \E r \in [line : {line.n}, nth : {0}, session : SessionIds \cup {0}] :
                 ran' = ran \cup {r} /\ (a.legacy => r.session # 0),
           kind = "result" /\ line.kind = "request" => \E r \in ran' : r.line = line.n
    PROVE  ProxyInv'
<1> DEFINE new == [line |-> line.n, of |-> line.kind, kind |-> kind]
<1>1. adapter' \in Adapters /\ adapter'.pc = "read" /\ adapter'.legacy = a.legacy
  BY DEF Written, Adapters
<1>2. line.n \in Nat /\ line.kind \in Kinds /\ new \in Answers
  BY DEF ProxyInv, ProxyTypes, PostNamesSession, Answers
<1>3. ran' \subseteq [line : Nat, nth : Nat, session : SessionIds \cup {0}] /\ RunsInv'
  BY <1>1, <1>2 DEF ProxyInv, ProxyTypes, RunsInv
<1>4. CASE answers' = answers \cup {new} /\ ~ (line.kind = "notification" /\ kind = "result")
  <2>1. \A b \in answers : b.line # line.n
    BY DEF ProxyInv, AnswersInv
  <2>2. new.line = line.n /\ new.of = line.kind /\ new.kind = kind /\ new \in answers'
    BY <1>4
  <2> HIDE DEF new
  <2>3. AnswersInv'
    BY <1>1, <1>2, <1>4, <2>1, <2>2 DEF ProxyInv, ProxyTypes, AnswersInv
  <2> QED
    BY <1>1, <1>2, <1>3, <1>4, <2>3 DEF ProxyInv, ProxyTypes, PostNamesSession
<1>5. CASE answers' = answers /\ line.kind = "notification"
  BY <1>1, <1>2, <1>3, <1>5 DEF ProxyInv, ProxyTypes, PostNamesSession, AnswersInv
<1> QED
  BY <1>4, <1>5 DEF Written

\* ReadLine opens the next line: nothing has run or been answered for it.
LEMMA ReadLineKeeps ==
    ASSUME ProxyInv, NEW kind \in Kinds, ReadLine(kind)
    PROVE  ProxyInv'
<1>1. /\ adapter \in Adapters /\ adapter.pc = "read" /\ line.n \in Nat
      /\ line' = [n |-> line.n + 1, kind |-> kind] /\ ran' = ran
  BY DEF ReadLine, ProxyInv, ProxyTypes
<1>2. line'.n = line.n + 1 /\ line'.kind = kind
      /\ line' \in [n : Nat, kind : Kinds \cup {"none"}]
  BY <1>1
<1>3. /\ \A r \in ran : r.line <= line.n /\ r.line \in Nat /\ r.nth = 0
      /\ \A a \in answers : a.line <= line.n /\ a.line \in Nat
      /\ \A a, b \in answers : a.line = b.line => a = b
      /\ \A a \in answers : a.of = "request" /\ a.kind = "result" => \E r \in ran : r.line = a.line
      /\ ran \subseteq [line : Nat, nth : Nat, session : SessionIds \cup {0}]
      /\ answers \subseteq Answers
  BY DEF ProxyInv, ProxyTypes, RunsInv, AnswersInv, Answers
<1>4. CASE kind = "garbage"
  <2> DEFINE new == [line |-> line.n + 1, of |-> kind, kind |-> "parse error"]
  <2>1. answers' = answers \cup {new} /\ adapter' = adapter
    BY <1>4 DEF ReadLine
  <2>2. new \in Answers /\ new.line = line.n + 1 /\ new.kind = "parse error"
    BY <1>1 DEF Answers
  <2> HIDE DEF new
  <2>3. AnswersInv'
    <3>1. \A a \in answers : a.line <= line.n /\ a.line # line.n + 1
      BY <1>1, <1>3
    <3>2. \A a \in answers' : a.line <= line'.n /\ adapter'.pc = "read"
      <4>1. \A a \in answers : a.line <= line.n + 1
        BY <1>1, <1>3
      <4>2. new.line <= line.n + 1
        <5>1. line.n \in Nat /\ new.line = line.n + 1
          BY <1>1, <2>2
        <5> QED
          BY <5>1
      <4>3. line'.n = line.n + 1 /\ adapter'.pc = "read"
        BY <1>1, <1>2, <2>1
      <4> QED
        BY <2>1, <4>1, <4>2, <4>3
    <3>3. \A a, b \in answers' : a.line = b.line => a = b
      BY <1>3, <2>1, <2>2, <3>1
    <3>4. \A a \in answers' : a.of = "request" /\ a.kind = "result" =>
              \E r \in ran' : r.line = a.line
      BY <1>1, <1>3, <2>1, <2>2
    <3>5. \E a \in answers' : a.line = line'.n
      BY <1>2, <2>1, <2>2
    <3> QED
      BY <3>2, <3>3, <3>4, <3>5 DEF AnswersInv
  <2>4. RunsInv'
    BY <1>1, <1>2, <1>3, <2>1 DEF RunsInv
  <2> QED
    BY <1>1, <1>2, <1>3, <2>1, <2>2, <2>3, <2>4 DEF ProxyInv, ProxyTypes, PostNamesSession
<1>5. CASE kind # "garbage"
  <2>1. /\ answers' = answers /\ adapter' \in Adapters /\ adapter'.pc \in {"send", "replay"}
        /\ adapter'.pc = "send" /\ adapter'.legacy /\ kind # "initialize" => adapter'.session # 0
    <3>1. CASE kind = "initialize"
      <4>1. adapter' = [adapter EXCEPT !.session = 0, !.legacy = TRUE, !.pc = "send"]
            /\ answers' = answers
        BY <1>5, <3>1 DEF ReadLine
      <4> QED
        BY <1>1, <3>1, <4>1 DEF Adapters
    <3>2. CASE kind # "initialize" /\ adapter.legacy /\ adapter.session = 0
      <4>1. adapter' = [adapter EXCEPT !.pc = "replay"] /\ answers' = answers
        BY <1>5, <3>2 DEF ReadLine
      <4> QED
        BY <1>1, <4>1 DEF Adapters
    <3>3. CASE kind # "initialize" /\ ~ (adapter.legacy /\ adapter.session = 0)
      <4>1. adapter' = [adapter EXCEPT !.pc = "send"] /\ answers' = answers
        BY <1>5, <3>3 DEF ReadLine
      <4> QED
        BY <1>1, <3>3, <4>1 DEF Adapters
    <3> QED
      BY <3>1, <3>2, <3>3
  <2>2. AnswersInv' /\ RunsInv'
    BY <1>1, <1>2, <1>3, <2>1 DEF AnswersInv, RunsInv
  <2> QED
    BY <1>1, <1>2, <1>3, <2>1, <2>2 DEF ProxyInv, ProxyTypes, PostNamesSession
<1> QED
  BY <1>4, <1>5

\* SendLine runs the line for the first time and ends its forwarding, answered
\* or reported as failed.
LEMMA SendLineKeeps ==
    ASSUME ProxyInv, live \subseteq SessionIds, SendLine
    PROVE  ProxyInv'
<1> DEFINE new == [line |-> line.n, nth |-> 0, session |-> adapter.session]
<1>1. /\ adapter \in Adapters /\ adapter.pc = "send" /\ line.n \in Nat
      /\ UNCHANGED line /\ line.kind # "initialize"
  BY DEF SendLine, ProxyInv, ProxyTypes
<1>2. {r \in ran : r.line = line.n} = {}
  BY <1>1 DEF ProxyInv, RunsInv
<1>3. ran' = ran \cup {new}
  BY <1>2, FS_EmptySet DEF SendLine, Runs
<1>4. /\ new \in [line : {line.n}, nth : {0}, session : SessionIds \cup {0}]
      /\ new.line = line.n /\ new.session = adapter.session
  BY <1>1 DEF Adapters
<1>5. adapter.legacy => new.session # 0
  BY <1>1, <1>4 DEF ProxyInv, PostNamesSession
<1> HIDE DEF new
<1>6. Written(adapter, "result") \/ Written(adapter, "error")
  BY DEF SendLine
<1> QED
  BY <1>1, <1>3, <1>4, <1>5, <1>6, WrittenOnce

\* SendInitialize names the session it was given, or ends the line.
LEMMA SendInitializeKeeps ==
    ASSUME ProxyInv, NEW s \in SessionIds, SendInitialize(s)
    PROVE  ProxyInv'
<1>1. /\ adapter \in Adapters /\ adapter.pc \in {"send", "replay"} /\ UNCHANGED <<line, ran>>
      /\ adapter.pc = "send" => line.kind = "initialize"
  BY DEF SendInitialize, ProxyInv, ProxyTypes
<1>2. s # 0
  BY SessionAssumption
<1>3. [adapter EXCEPT !.session = s] \in Adapters /\ [adapter EXCEPT !.session = 0] \in Adapters
  BY <1>1 DEF Adapters
<1>4. CASE adapter.pc = "send" /\ Written([adapter EXCEPT !.session = s], "result")
  BY <1>1, <1>3, <1>4, WrittenOnce
<1>5. CASE /\ adapter' = [adapter EXCEPT !.session = s, !.pc = "initialized"]
           /\ UNCHANGED answers
  <2>1. adapter' \in Adapters /\ adapter'.pc = "initialized" /\ adapter'.session = s
    BY <1>1, <1>5 DEF Adapters
  <2>2. PostNamesSession'
    BY <1>1, <1>2, <2>1 DEF ProxyInv, PostNamesSession
  <2> QED
    BY <1>1, <1>5, <2>1, <2>2, StillForwarding
<1>6. CASE Written([adapter EXCEPT !.session = 0], "error")
  BY <1>1, <1>3, <1>6, WrittenOnce
<1> QED
  BY <1>1, <1>4, <1>5, <1>6 DEF SendInitialize

\* The other steps of the adapter: restoring a session, the posts of a replayed
\* handshake, the 404 that asks for one, a failed post.
LEMMA PostKeeps ==
    ASSUME ProxyInv,
           SendRestores \/ SendRestored \/ SendInitialized \/ SendNotFound \/ SendFails
    PROVE  ProxyInv'
<1>1. adapter \in Adapters
  BY DEF ProxyInv, ProxyTypes
<1>2. CASE SendRestores
  <2>1. /\ adapter.pc \in {"send", "initialized"} /\ adapter.session # 0
        /\ adapter' = [adapter EXCEPT !.pc = "restoring", !.back = adapter.pc]
        /\ UNCHANGED <<line, ran, answers>>
    BY <1>2 DEF SendRestores, Restorable
  <2>2. /\ adapter' \in Adapters /\ adapter'.pc = "restoring" /\ adapter'.back # "none"
        /\ adapter'.session # 0
    BY <1>1, <2>1 DEF Adapters
  <2> QED
    BY <2>1, <2>2, StillForwarding DEF ProxyInv, PostNamesSession
<1>3. CASE SendRestored
  <2>1. adapter.pc = "restoring" /\ adapter.session # 0
        /\ adapter.back \in {"send", "initialized"} /\ UNCHANGED <<line, ran>>
    BY <1>1, <1>3 DEF SendRestored, ProxyInv, PostNamesSession, Adapters
  <2>2. CASE adapter' = [adapter EXCEPT !.pc = adapter.back, !.back = "none"]
             /\ UNCHANGED answers
    <3>1. adapter' \in Adapters /\ adapter'.pc = adapter.back
          /\ adapter'.session = adapter.session
      BY <1>1, <2>1, <2>2 DEF Adapters
    <3> QED
      BY <2>1, <2>2, <3>1, StillForwarding DEF ProxyInv, PostNamesSession
  <2>3. CASE Written([adapter EXCEPT !.back = "none"], "error")
    <3>1. [adapter EXCEPT !.back = "none"] \in Adapters
      BY <1>1 DEF Adapters
    <3> QED
      BY <2>1, <2>3, <3>1, WrittenOnce
  <2> QED
    BY <1>3, <2>2, <2>3 DEF SendRestored
<1>4. CASE SendInitialized
  <2>1. adapter.pc = "initialized" /\ adapter.session # 0 /\ UNCHANGED <<line, ran>>
    BY <1>4 DEF SendInitialized, ProxyInv, PostNamesSession
  <2>2. CASE adapter' = [adapter EXCEPT !.pc = "send"] /\ UNCHANGED answers
    <3>1. adapter' \in Adapters /\ adapter'.pc = "send" /\ adapter'.session = adapter.session
      BY <1>1, <2>2 DEF Adapters
    <3> QED
      BY <2>1, <2>2, <3>1, StillForwarding DEF ProxyInv, PostNamesSession
  <2> QED
    BY <1>1, <1>4, <2>1, <2>2, WrittenOnce DEF SendInitialized
<1>5. CASE SendNotFound
  <2>1. adapter.pc = "send" /\ UNCHANGED <<line, ran>>
    BY <1>5 DEF SendNotFound
  <2>2. CASE adapter' = [adapter EXCEPT !.session = 0, !.again = TRUE, !.pc = "replay"]
             /\ UNCHANGED answers
    <3>1. adapter' \in Adapters /\ adapter'.pc = "replay"
      BY <1>1, <2>2 DEF Adapters
    <3> QED
      BY <2>1, <2>2, <3>1, StillForwarding DEF ProxyInv, PostNamesSession
  <2> QED
    BY <1>1, <1>5, <2>1, <2>2, WrittenOnce DEF SendNotFound
<1>6. CASE SendFails
  <2>1. adapter.pc # "read" /\ UNCHANGED <<line, ran>>
    BY <1>6 DEF SendFails
  <2>2. [adapter EXCEPT !.session = 0] \in Adapters
    BY <1>1 DEF Adapters
  <2> QED
    BY <1>1, <1>6, <2>1, <2>2, WrittenOnce DEF SendFails
<1> QED
  BY <1>2, <1>3, <1>4, <1>5, <1>6
----------------------------------------------------------------------------

\* The invariant of the two together: every step of either keeps both parts.
LEMMA AdapterKeeps ==
    ASSUME SessionInv, ProxyInv, [ProxyNext]_<<sessionVars, proxyVars>>
    PROVE  SessionInv' /\ ProxyInv'
<1>1. ASSUME NEW kind \in Kinds, ReadLine(kind) PROVE SessionInv' /\ ProxyInv'
  <2>1. UNCHANGED sessionVars
    BY <1>1 DEF ReadLine
  <2> QED
    BY <1>1, <2>1, ReadLineKeeps, SessionsRest
<1>2. CASE SendRestores
  <2>1. adapter.session \in SessionIds /\ LoadSession(adapter.session)
    BY <1>2 DEF SendRestores, Restorable, ProxyInv, ProxyTypes, Adapters
  <2> QED
    BY <1>2, <2>1, LoadKeeps, PostKeeps
<1>3. CASE SendRestored \/ SendInitialized \/ SendNotFound \/ SendFails
  <2>1. UNCHANGED sessionVars
    BY <1>3 DEF SendRestored, SendInitialized, SendNotFound, SendFails
  <2> QED
    BY <1>3, <2>1, PostKeeps, SessionsRest
<1>4. CASE SendLine
  <2>1. UNCHANGED sessionVars
    BY <1>4 DEF SendLine
  <2>2. live \subseteq SessionIds
    BY DEF SessionInv, SessionTypes
  <2> QED
    BY <1>4, <2>1, <2>2, SendLineKeeps, SessionsRest
<1>5. ASSUME NEW s \in SessionIds, SendInitialize(s) PROVE SessionInv' /\ ProxyInv'
  <2>1. StoreSession(s)
    BY <1>5 DEF SendInitialize
  <2> QED
    BY <1>5, <2>1, StoreKeeps, SendInitializeKeeps
<1>6. CASE (ServerStep \/ RestoreSession) /\ UNCHANGED proxyVars
  BY <1>6, ServerKeeps, RestoreKeeps, ProxyRests
<1>7. CASE UNCHANGED <<sessionVars, proxyVars>>
  BY <1>7, SessionsRest, ProxyRests
<1> QED
  BY <1>1, <1>2, <1>3, <1>4, <1>5, <1>6, <1>7 DEF ProxyNext, AdapterStep

\* prune_stale never deletes the row of a live session, for any idle timeout
\* longer than a pass of the reaper and any interleaving with load, store,
\* delete, expiry and restarts.
THEOREM LiveSessionsKeepRows == ProxySpec => []LiveSessionStored
<1>1. SessionInv => LiveSessionStored
  BY DEF SessionInv
<1> QED
  BY <1>1, SessionsInit, ProxyStarts, AdapterKeeps, PTL DEF ProxySpec

\* forward runs a line of stdin at most once and answers it exactly once (a
\* notification at most once), whatever expires, restarts, fails or is replayed;
\* a legacy client's line never runs outside a session.
THEOREM LinesDeliveredOnce == ProxySpec => []LinesOnce
  BY ProxyInvImplies, SessionsInit, ProxyStarts, AdapterKeeps, PTL DEF ProxySpec
=============================================================================
