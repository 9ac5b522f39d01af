# agent-memory: a formal model

This directory holds TLA+ models of agent-memory, the TLC configurations that
check them on small instances, and proofs that TLAPS checks for every instance.
The models are translated from the Go control plane (`internal/`, `cmd/`) and from
the Python engine (`engines/living_memoryv2/`). Comments in the modules name the files; the exact
lines of each definition are in `PROJECT.json` under `map`.

## The system

agent-memory stores what agents should remember. Events come in over HTTP, are
distilled into memories, compared with what is known, indexed, and later
retrieved into a context. Four processes share one database: `memory-api`,
`memory-worker`, `memory-scheduler` and `memory-migrate`; the Python engine is a
local vault with an MCP server of its own.

| component | state it keeps | operations | what makes it correct |
|---|---|---|---|
| Postgres queue (`adapters/queue/postgres`) | `memory_jobs` rows: status, attempts, locked_at, available_at | Publish, claim, markDone, markFailed; the scheduler purges and resets | one worker per lease; nothing leaves unserved; bounded tries |
| Kafka, NATS, memory queues | offsets in the broker; nothing; nothing | Publish, Subscribe | what is committed was handled |
| Ingestion (`services/ingestion`) | none of its own | Ingest, Enqueue, StartWorker | a statement that was answered is stored |
| Consolidation (`services/consolidation`) | none; edits memory rows and graph edges | Consolidate; compaction job | no statement vanishes; provenance and history survive |
| Memory store (`adapters/storage`) | `memories` rows | Upsert, Get, Delete, List, SearchByText | List and Get show live rows |
| Forgetting (`services/forgetting`) | none; edits rows, vectors, traces, receipts | Delete, Redact, Sweep | what is forgotten stays so, everywhere |
| Embedding (`services/embedding`) | vector index, cache | IndexMemory(ies), batches with retry | index follows rows |
| Retrieval (`services/retrieval`) | traces | Retrieve | serves only live memories; traces explain |
| Traces, records (`storage/memory/trace_store.go`, `services/evaluation`) | stored traces, ring of records | SaveTrace, DeleteByMemoryID, Record | lists stay true after erasures |
| Audit receipts (`services/audit`) | a hash chain, objects | Append, Verify | chain unbroken |
| Scheduler (`services/scheduler`, `postgres/locks.go`, `bootstrap`) | tickers, advisory locks, shutdown hooks | ticks, Run, Close | single-flight, never stranded, clean stop |
| Rate limiters | buckets, window counters | Allow | bounded bursts |
| Agentic service (`services/agentic`) | goals, plans, steps kept as memory rows | create, advance, check | steps follow the plan |
| Python vault and store (`vault.py`, `store.py`) | canonical log, blobs, sqlite rows with a text index, boxes | remember, rebuild_indexes | what is answered is in the log; indexes follow the log |
| Python fact ledger, graph, knowledge graph (`facts.py`, `graph.py`, `knowledge.py`) | facts and conflicts; edges; entities and assertions | add_fact, index_fact, upsert_entity, rebuilds | heirs are younger; the indexes repeat the ledger |
| Python task state, proposals, capture (`task_state.py`, `agents.py`, `consolidation.py`) | one row per task, per proposal | update, approve, reject, capture, propose_from_recent | no lost update, decided once, nothing half captured |
| Python recall and its cache (`recall.py`, `engram.py`, `lifecycle.py`, `mobius.py`, graph queries) | engrams and counts in the process | recall, invalidate, store | results answer the query whatever changed meanwhile |
| Python answers (`mcp_server.py` work mode, `sif.py`, `context.py`, `scoring.py`, `answerability.py`) | caches for one call | living_memory, recall_context | parts agree, fit the budget, are of one view |
| Python tool curriculum and documents (`tool_curriculum.py`, `ingest.py`, `connectors.py`) | tools and traces in the process; chunks and records as memories | register, select, record; remember_markdown, ingest_external_record | offers of the stage; documents whole |

How they interact: the API calls ingestion directly, or `AsyncService` publishes
to a queue that a worker's handler ingests from; Ingest calls the event store,
the distiller, the consolidator, the memory store, the embedder and the graph in
turn; retrieval reads the memory store and the index and writes traces;
forgetting writes to all of them; the scheduler runs retention, reindexing,
queue maintenance and compaction beside everything else. In the Python engine every MCP
server process opens the vault's files itself; remember writes the store, the log,
the graph, the knowledge graph and the boxes in turn, add_fact the ledger, the
graph (from inside the ledger's transaction) and the knowledge graph, and
rebuild_indexes clears all but log and ledger and writes them anew. There are no
transactions over two calls and no row locks outside the queue's claim, so every
pair of operations can interleave between any two store calls.

The hard behaviours: leases that expire under a running handler, late marks,
whole-row writes built from stale copies, partial failure between the calls of
one operation, redelivery with new ids, capped listings, sessions lost under a
job, shared Go slices. `PROJECT.json` lists them as hazards, at their lines, with
the properties aimed at them.

## Modules

### `AtLeastOnce`, `JobQueue`: the durable queue

`AtLeastOnce` is the abstract promise to a publisher: a job is tried a bounded
number of times, given up only when tries are used up, forgotten only when
delivered. `JobQueue` is the `memory_jobs` table: `status`, `attempts`, `lock`
(the age of `locked_at`) and `ripe` (`available_at` reached) are the columns;
`worker` is each Subscribe loop with the job it holds; `sweep` is the next of the
two statements of jobs-maintenance. `handled`, `overrun` and a worker's `attempt`
are history. Time is only what the SQL can tell apart: a lock is fresh (under
5 minutes), stale (reclaimable) or overdue (15 minutes, reset by maintenance).
Actions: `Publish`, `Claim` (one UPDATE ... RETURNING), `HandlerReturns`,
`MarkDone`, `MarkFailed`, `MarkLost` (the mark's statement fails), `Stop`,
`Restart`, `Purge`, `ResetOverdue`, and the clock `Ripen`, `LockAgesBy`. The
order of rows and SKIP LOCKED are left open.

### `KafkaQueue`: the Kafka adapter

One partition. `consumer` is each Subscribe loop with its reader's position;
`committed` and `owner` are the broker's. `HandleError` advances the reader, as
the code's `continue` does. A commit by a consumer that lost the partition may be
accepted or refused.

### `Consolidation`: ingestion, consolidation, compaction

Each request runs `Begin` (append the event, list neighbours), `Resolve`
(Consolidate: one verdict, the neighbour's Upsert, the edge), `Store` (Ingest's
Upsert), `Answer` (index and graph done); `Fail` may end it anywhere and the queue
redelivers it with new ids. Compaction takes a list once and then consolidates
each row as it was. What the similarity functions decide for two contents is the
constant `Rel`; which related neighbour comes first is left open, as the list has
no order that matters. `RelAssumption` asks of `Rel` what the code makes true: `Similar`
is symmetric, so "merged" and "superseded" are seen from both sides; `subjectOverlap`
counts the terms of one side only, so a contradiction may be seen from one side; and a
content is a duplicate of itself or, without a word of more than two letters, is like
nothing at all.

### `Forgetting`: rows, index, traces under concurrent operations

Ingest, Delete, Redact, Merge, Sweep, Reindex and Retrieve as tasks, one store
call per step, over `rows`, `vectors`, `traces`, `receipts`. A task's `copy` is
the Go value it holds between calls, so every write of a stale copy the code can
make is a behaviour. `aged` stands for updated_at against a retention TTL. `alive`
is the history that says which memories a running retrieval could rightly serve.
The policy the scheduler ships has no TTL; the sweep is modelled under a soft
policy with one, as the tests use it.

### `TraceStore`: shared slices

`array`, `candidates` and `selected` are the Go array behind CandidateIDs and
SelectedIDs and the two lengths; `returned` is what the retrieval returned. `BuildTrace` is buildTrace
with SaveTrace and Record, at any time after the ranking: nothing checks what was erased
in between. `DeleteByMemoryID` filters both lists. `RemoveString` is the
loop of `removeString`, one id after the other: what it keeps it writes to the front of the
array it reads, and the tail stays.

### `Scheduler`: tickers, advisory locks, shutdown

`proc`, `run` and `lock` are the processes, whether each is inside a job, and which
one's session holds each advisory lock. A finished job unlocks; under a
cancelled context the unlock is not sent (`FinishCancelled`), the lock is stranded, and
only closing the pool frees it (`StrandedOnlyInShutdown`); `Drop` loses the session while the job runs on.

### `Vault`: log, blobs, store, indexes, boxes

`journal` is memories.jsonl, one element per whole line, `torn` a part of a line at
its end; `rows`, `relations`, `assertions` and `box` are the tables of four
databases; `blob` is the file of one large payload, absent, half written or whole.
Each process is somewhere in `remember` (`CheckBlob`, `OpenBlob`, `WriteBlob`,
`StoreRow`, `AppendLine`, `Relate` or `Refuse`, `WriteAssertion`, `ReadNumber`,
`WriteBox`, `Answer`) or in `rebuild_indexes` (`Rebuild`, `ClearGraph`,
`ClearKnowledge`, `ReadJournal`, then the same steps for each line). One step is
one commit, append or file operation. `Abandon` is an exception or a death between
two of them, and may leave part of a line. `Memories` are told apart by what
matters: whether the payload becomes a blob, whether the graph refuses the
relation. `lost` and `history` are ghosts: memories whose line was glued to a torn
one, and whether the calls so far, or since the last rebuild that ended, ran one
after the other and undisturbed.

### `FactLedger`: facts and what is built from them

`ledger` and `conflicts` are facts.sqlite3, `lock` the process in its write
transaction, `kg`, `kgConflicts`, `sources` the assertions, conflicts and the
subject's entity of knowledge.sqlite3, `edges` the graph. `AddFact` opens the
transaction, `WriteEdge` commits each edge to the other database, `Commit` writes
the ledger, `Get` reads the fact back, `LookUp`, `ReadEntity`, `WriteEntity`,
`WriteAssertion` and `Indexed` are index_fact; `Rebuild`, `ClearKnowledge`,
`RebuildGraph` and `ListFacts` are the facts' part of rebuild_indexes, which then
indexes each fact as it was listed. `row` is SQLite's rowid, which `INSERT OR
REPLACE` renews; `rank` is the key of the listing. `Logged` says whether there is a
log, without which a rebuild stops short of the facts.

### `Tasks`: task state, proposals, capture, consolidation

`task`, `vault`, `proposals`, `ledger`, `graph`, `knowledge` are rows of the
databases, one step per commit, and `proc` is what each server process was asked
and has read. `Update`, `ReadTask`, `SaveTask` are TaskStateStore.update;
`StartReview`, `RememberApproved`, `WriteVerdict` are approve and reject;
`CaptureAll`, then `StoreItem`, `ProposeItem` or `IgnoreItem` for each item, then
`ItemsDone`, `Relate`, `Affirm`, `SyncTask` are capture, which ends in an update; a given
relation is carried by the memory that `memory_id` names, which nobody looks up, or that
`memory_ref` picks of those captured (`Carriers`);
`Consolidate`, `ReadFacts`, `ProposeFact`, `NothingNew` are propose_from_recent.
`Abandon` is an exception or a death between two commits. That remember is several
commits itself is the matter of `Vault`. The ghosts `raced` and `contested` record
whether two updates, or two reviews of a proposal, overlapped.

### `Recall` with `Lifecycle`, `Mobius` and `GraphQueries`: recall and its cache

Each layer of `RecallPipeline.recall` is a step that reads the tables as they are
by then: `ReadCritical`, `LookUp`, `InspectCached` or `Invalidate`, `SearchText`,
`ReadLinks`, `ReadNeighbours`, `WalkGraph`, `ReadWalked`, `FillUp`, `Rank`,
`Record`. `StoreRow`, `IndexRelation`, `ClearStore` and `ClearGraph` are what other
processes do in between, so a candidate may be gone, superseded or out of scope by
the next step. `cache` and `counts` are the process's engrams. `Lifecycle` holds the
functions of `lifecycle.py`, `Mobius` the address space, `GraphQueries` the walk and
the subgraphs of `graph.py`; candidates with equal sort keys may come in any order;
scores are integers of ten-thousandths, so every weight of the code is exact, and
the logarithm of the usage bonus and the square roots are data.

### `Server`, composed of `Facade`, `Curriculum` and `Documents`

One MCP server serves one call at a time. `Facade` is living_memory in work mode,
from `StartWork` through the reads (`RecallForWork`, `FilterTemporal`, `Weigh`,
`RankAndFrame`, `ReadSubgraphs`, `ReadHints`, `GatherEvidence`) to `AnswerWork`,
with the caches that live for one call, and recall_context; `Scoring` has the weights
of `scoring.py` and `answerability.py` that the facade uses, `Frames` the budgets of
the text frame, the structured frame and the packets. `Curriculum` registers, offers
and records tools; its lessons appear in the facade's answers. `Documents` splits a
Markdown document into chunks and remembers them one by one (`RememberMarkdown`,
`ShelveChunk`, `AnswerMarkdown`), and records of connectors as one memory each.
`Server` interleaves their calls with the writes of other processes and with
`Restart`, which forgets what the process held. Texts are lengths and sets of words;
what a cut or a split may do is decided by lengths and by where blanks are. `Lists` has
the filters and cuts of lists these modules share with `TraceStore`. Sorts are written by
what they promise: `RankForFacade` is the set of orders the greedy ranking may return,
`RankedTools` puts each tool at the rank it has (equal scores in the order of
registration), and loops are recursive functions of the number of turns.
`Recall` is not composed with it: the facade is given any memories as found.

`Vault` and `FactLedger` share the databases of the graph and of the knowledge
graph but no rows of them, and touch each other in two places, which each module
takes as the other leaves it: the facts' part of a rebuild comes after the replay,
and remember calls add_fact when it extracts facts.

`QueueProofs`, `ConsolidationProofs`, `ForgettingProofs`, `VaultProofs`,
`FactLedgerProofs`, `TasksProofs`, `RecallProofs` and `ServerProofs` hold the theorems, see
Proofs. The `MC*` modules instantiate these for TLC: symmetry sets (used only by runs
without liveness), rankings and the content relations of `Consolidation`.

## Runs

Every constant that bounds a run is in its `.cfg`. "Holds" is for the properties
the `.cfg` lists; a run that ends in **no** checks one property, a sentence of the
repository, and TLC finds it violated by what the code does. `findings` in
`PROJECT.json` quotes the sentence.

| run | question | result |
|---|---|---|
| `JobQueue` | with stops and lost marks: does the lease exclude until it is stale, do attempts fence, is no job lost silently, is done final, is every job served or tried to the limit, do rows come to rest, do they implement `AtLeastOnce`? | holds |
| `KafkaQueue` | over handler errors, crashes, rebalances and late commits: is an offset passed that no handler saw? does every message reach one? | never; yes |
| `KafkaQueueSkipsFailed` | is what is committed handled? | **no**: the next commit covers a failed message |
| `Consolidation` | overlapping, failing, redelivered requests beside a compaction: does ingestion lose a statement? does supersession run in a circle? without overlap: are sources kept, do closed rows stay closed, does a retry leave a twin? | holds |
| `Forgetting` | three concurrent operations: what may retrieval serve, what brings a deleted row back? without overlap: do deletion, redaction, erasure stick? | only what was alive; only copies read before; they do |
| `TraceStore` | are ids erased after a trace was saved gone from every list of it, are the candidates in order? | holds |
| `Vault` | two processes remember, box, rebuild, fail part way and die: is what was answered in the log, its payload whole, indexed until a rebuild? does a rebuild that ran alone make the indexes what the log says? are boxes numbered? | holds |
| `FactLedger` | two processes add, repeat and supersede facts, rebuild and die: does superseded_by run in a circle? with calls one by one, or after a rebuild: do knowledge graph, graph and entity agree with the ledger? | never; they do |
| `Scheduler` | over crashes, SIGTERMs and lost sessions: how many flights has a job, who keeps a lock without running its job, does every job keep running? | one per lost session plus one; only a stopping process; yes |
| `Tasks` | two processes update, capture, review, consolidate and die: does a checkpoint go back, is an update lost, is a proposal decided once, is an answered capture whole, of what do relations speak? | only if two updates overlapped; it is, unless two reviews did; yes; of stored memories, but for an id the caller named |
| `Recall` | recall reads layer by layer while others write: do results answer the query, does the cache repeat what was answered, are critical memories found? | yes; the last if nobody writes meanwhile and fewer rows of any scope are ahead than the list reads |
| `Server` | one server's calls, its restart and the writes of others: is the evidence of one view, do the parts agree and fit, do offers keep their stage, are documents whole? | yes |

Many promises of this code hold only while operations do not overlap or no
call fails. Two history variables say so instead of leaving the overlap out of the
model: `overlapped` in `Consolidation` becomes true when two requests or
compactions are under way at once, `mishaps` in `Forgetting` collects "overlap" and
"side store" (a best-effort call that was lost). The properties named `Alone...`
and `SupersededStays` are conditional on them and are checked in the same
runs as the unconditional ones, with faults, retries and redelivery enabled.
In `Vault` and `FactLedger` the same is `history`: it is "unknown" after a crash or
as soon as calls overlap, and a rebuild that runs alone to its end makes it known
again, so `IndexesFollowJournal` and `IndexesFollowLedger` say that a rebuild repairs
whatever crashes and races left. In `Tasks` they are `raced` and `contested`, and
part of `ApprovalsAreFinal` and all of `CapturesAreWhole` hold without them; in
`Recall`, `calm` says that nobody wrote during a recall, and only
`CriticalIsRecalled` depends on it.

### Bounds and why they are enough

- `JobQueue`: two workers and two jobs meet every race over a lease (claimer,
  late marker, maintenance); two attempts separate the first try from the last;
  one fault is a crash or a lost mark, each at any point. The proofs cover the
  rest.
- `KafkaQueue`: two consumers and three messages: a late commit needs a message
  behind and one ahead of it on the other consumer. Two errors, three deaths or
  forced rebalances.
- `Consolidation`: three requests are the least in which a verdict between two can
  be overwritten by a third; `Denial` relates them: two wordings of a fact, and a version
  of one of them that denies the other, which does not deny it. A fourth has no word and is
  like nothing. A list of two rows is cut. The constraint `AloneOrThree` keeps this small:
  once anything overlapped, one fault, and the fourth request comes last; one at a time, all
  four in any order, three tries and two faults, so that a retry may come after rows of others
  and twice. Without any one of its conditions, or with a list shorter by one more,
  `AloneRetriesMerge` is violated in this instance.
- `Forgetting`: a stale copy needs a reader and a writer, and a third task reads
  what they leave; one memory suffices, as no operation but the listing relates two,
  and the run does not reach the cap of the listing. Tasks are alike, hence
  symmetry; the run has no liveness property.
- `TraceStore`: all rankings of up to four memories; the aliasing shows at two.
- `Vault`: one memory of each kind and three calls: two to race or follow one
  another, one after what they left; one rebuild, one crash and one overlap, each at
  any point.
- `FactLedger`: two facts and three additions: a fact, its heir, and one of them
  added again; one rebuild, crash and overlap. With one rank the listing may have
  any order.
- `Tasks`: two processes and four calls: a lost update needs two, a proposal and its
  two reviews three, and one more comes before or between; two patches (the next
  checkpoint, and one that names it) and four captures (related memories with a relation
  by `memory_ref` and an item to ignore, a malformed relation, a proposal with a relation
  by the id of a note that may or may not be stored, a plain note); one death.
- `Recall`: three memories, of which one is withdrawn and one moves to another scope, three
  recalls (one more than the cache's threshold), one rebuild; or, before any rebuild, one
  recall among five memories, three of them of another scope in the end, with a list that
  reads four, so that the cut before the filter happens and hides a critical memory, and with
  two critical ones for one place (the constraint `OneRecallOrThree`, which also leaves two
  relations to be indexed); three by two cells, the
  least that turn over and reflect. One process: others only write.
- `Server`: three counted calls (a tool, its trace and an answer with the lesson; a
  failed document and its repetition), two writes of other processes during them; offers of
  every stage with a task and without one;
  budgets with room for a short line and for several; a document with nested and
  empty headings, a section longer than a chunk and a paragraph longer than that.
- `Scheduler`: three replicas contend, stop and die, three deaths, one lost
  session.

### Fairness

`JobQueue`: workers poll in a loop and their statements return, handlers return
because their clients have request timeouts, supervisors restart processes,
clocks advance, the scheduler ticks. Faults, publishing and what retention
removes are never forced. `KafkaQueue`: the same for members of the group, and the
broker assigns a partition nobody reads. `Scheduler`: some replica's ticker finds
a free lock (weak fairness of all of them together), jobs return, stopping
processes close, dead ones restart. The other specifications
state no fairness: only safety is claimed of them.

`CHECK_DEADLOCK FALSE` stands where the instance may come to its end: all jobs
purged, all requests answered, the topic read, all memories erased, the calls used
up.

## Proofs

Every safety property that a passing run checks is also a theorem, as are the refinement
`JobQueue` => `AtLeastOnce` and the action properties; liveness is the one kind that only
TLC checks. TLC checks the same formulas first, on the instances above, and so it did with
the inductive invariants; the theorems hold for every value of the constants. Each invariant
has a lemma for the initial states, one per group of actions and one for stuttering.

What a loop computes of a list of any length is proved by induction, in first-order form:
the theorems of the library take an operator as parameter, which the backends cannot
instantiate, so `Induct` says of a *set* that holds 0 and with every number the next that it
holds all of `Nat` (from `LeastNumber`, which is the well-foundedness of <). Loops are
therefore recursive functions in the modules, not folds: for each a lemma says that the
function exists (`RemoveLoop`, `PacksExist`, `SplitExists`, `RowsExist` and their like), and
the induction runs over the set of turns after which the invariant of the loop holds.

**`QueueProofs`**, the durable queue, for any jobs, workers, max_attempts and number of faults,
assuming only `QueueAssumption` (max_attempts positive, the idle marker is not a
job):

- `TypeCorrect`: `TypeOK` is invariant; it is inductive by itself.
- `LeaseExcludes`, `AttemptsAreFences`: `ExclusiveUntilOverrun` is not inductive. The
  invariant `LeaseInv` adds that a worker's attempt never exceeds the row's, that
  equal attempts on one job mean the same worker, and that a job with a lease that
  never overran and is held is processing with a fresh lock; a claim raises
  attempts above every holder's, which keeps both.
- `NothingLostSilently`: `ServiceInv` adds what holders know: a worker about to
  mark done has had its job handled, failed rows have used all attempts, absent
  rows have none and no holder.
- `DoneStaysDone`: the action property from `LeaseInv` and `ServiceInv`: a holder of
  a job that never overran sees it processing, so no mark touches a done row.
- `QueueImplementsAtLeastOnce`: under the mapping `PhaseOf`, each step of the table
  is a step of `AtLeastOnce` on one job or leaves the phases alone. `ServiceInv` is
  what makes it so: without it a mark could deliver what no handler saw. A `Purge`
  of many rows is one `Forget` of a set in the abstract module.

The same module has the Kafka adapter, for any consumers, log length, errors and moves:
`KafkaTypeCorrect`, and `NoOffsetSkipped` (`NoneSkipped`). The strengthening
`KafkaInv` says that behind the position of each consumer, and at it once its
handler has returned, everything was tried (`TriedBehind`): a commit by whoever
lost the partition may move the offset back or forward, and never past what its
own consumer went through.

**`ConsolidationProofs`**, for any finite set of requests, any relation of contents as the
code may find it (`RelAssumption`), any list cap, attempts, faults and compactions.
`ShapeInv` has the kinds of all values and two facts about ids: an attempt's id names
no row before it stores one, and edges reach stored rows.

- `FactsAreKept` (`IngestionKeepsFacts`). The property speaks of a state in which all
  is answered and is not inductive. `NoTrap` says it of every state: from any id lead
  `Heading`s, from a superseded row to its heir and from an id without a row to what
  its request is settled with, and no set of ids without an active row is closed
  under them. A set that no path leaves takes the place of the path, as reachability
  would need induction.
- `HistoryIsKept` (`SupersessionIsHistory`), inductive given `ShapeInv`: a new edge
  leaves an id that has no row yet, so no circle closes.
- `SupersededIsFinal` (`SupersededStays`) and `SourcesAreKept`, the part of
  `AloneRetriesMerge` on sources, from `AloneInv`: while one process runs at a time
  what it has listed is what is there, so writing a whole row back only widens it
  (`Widens`).
- `RetriesMerge` (`AloneRetriesMerge`), with no assumption of its own, from `SingleInv`: of
  coherent contents no two active rows are related, so the list has one related neighbour at
  most and a second own row never becomes active (`OneRelated`). Coherence and the number of
  rows are conditions of the property on the rows there are; both are inherited by earlier
  states, as no row is ever removed (`FewWere`), and while the rows are few a list holds
  all active ones (`ListsAll`).

The scheduler's jobs, of which compaction is one, are in the same module, for any
finite set of replicas, jobs, deaths and drops: `SchedulerTypeCorrect`,
`StrandsOnlyInShutdown`, and `FlightsAreBounded` (`OneFlightPerSession`). The strengthening
`SchedulerInv` counts the strays, the replicas inside a job whose lock they do not
hold: only `Drop` adds one, so they are never more than drops (`StraysAreLosses`), and
at most one runner is not a stray.

**`ForgettingProofs`**, for any memories, tasks and mishaps: `ServesTheLiving`
(`NeverServesTheDead`), `AloneIsForgotten` (`AloneForgets`) and `ResurrectionsAreStale`
(`OnlyStaleCopiesResurrect`). `IInv` is the types with what each operation holds where
it stands (`Placed`), `AloneInv` (until operations overlap one at most runs and its
copies are the rows) and `CleanInv` (without any mishap index and traces are clean of
what was forgotten, and a deletion has cleaned what lies behind it).
The traces are in the same module, for any traces, memories and rankings without
repetitions: `TracesThm` (`TracesForgetAndExplain`) from `TraceInv`, which adds to it that
no id erased since the trace was saved is in a cell of either list (`CleanLists`). After n
ids the loop of removeString has the filtered ids in front and has not touched what is
behind the n-th (`AfterIds`), so the second filter, which reads SelectedIDs over what the
first has left in the array, still meets every id it must drop.

**`VaultProofs`**, for any memories, processes and number of calls, rebuilds,
crashes and overlaps: `VaultTypeCorrect`, and

- `AnswersAreCanonical` (`AnsweredIsCanonical`) from `CanonInv`, which adds that behind
  its append a process finds its memory in the log or among the lost, and past the
  graph one the graph takes.
- `AnswersAreIndexed` (`AnsweredIsIndexed`) from `IndexInv`: before any rebuild
  nothing takes from an index, and each process knows those it has passed.
- `PayloadsAreWhole` (`AnsweredPayloadIsWhole`) from `PayloadInv`: without crashes a
  half-written blob has its writer, and who has passed the check of the file finds one.
- `IndexesAreTheLog` (`IndexesFollowJournal`) from `FollowInv`: `Pending` says for each
  place in remember and rebuild_indexes what a process that is alone has left to write
  of the indexes. A rebuild that is alone starts from any state, which is why the
  invariant holds for it in every history.
- `BoxesAreNumbered` (`BoxIsNumbered`) from `BoxInv`: without overlaps the sequence a
  process has read is the number of boxed memories.

**`FactLedgerProofs`**, for any finite set of facts, any processes and number of calls:
`LedgerTypeCorrect`; `HeirsAreYounger` (`HeirIsYounger`), which is inductive given the
types: a commit gives the added fact a row above all others and makes it the heir of
exactly those it replaces; `IndexesAreTheLedger` (`IndexesFollowLedger`) and
`KnowledgeIsTheLedger` (`KnowledgeRepeatsLedger`) from `FollowInv`, of the same form as
the vault's: `Pending` is what is missing of the edges, assertions and sources while a
process alone adds or indexes, `Repeating` what the assertions have of the ledger while
no rebuild came between.

**`TasksProofs`**, for any processes, patches, captures, number of calls and deaths,
assuming that patches and captures are of their kinds and that `None` is no number,
process, capture or id of a memory.

- `SequenceGoesForward` (`SequenceNeverBack`) and `UpdatesAreKept` (`NoUpdateLost`).
  Neither follows from the tables alone. `IInv` adds what processes have read: until two
  updates overlapped, at most one is about to save, its read is the row as it is and its
  patch is not behind it (`OneSaves`). `Elsewhere` shows it for every step that neither
  reads nor saves the task, the steps of captures, reviews and consolidation included.
- `ApprovalsAreKept` (`ApprovalsAreFinal`) from `ReviewInv`: `Books` says that ids carry
  the number of their call, so that no two rows and no captured memory share one;
  `DecidedAt` says of each proposal what its reviewer holds before the verdict.
- `CapturesAreKept` (`CapturesAreWhole`) from `CaptureInv`: `Progress` is what each
  capture has stored, proposed and related so far, of which nothing is taken away. That a
  relation speaks of stored memories (`Grounded`) is part of it, an id the caller named
  excepted.

**`RecallProofs`**, for any finite set of memories and any versions, queries,
processes, weights and sizes:

- `InactiveIsDownranked`, for every state, importance, bonus, delta, score and time: the
  adjustments are ordered (`AdjustmentOrder`, `ImportanceOrder`, `ScoreAdjustmentOrder`)
  and clamping keeps the order.
- `NeighboursAreCells`, `AddressesAreCells` and `NeighboursAreMutual`: recall finds one
  memory around another exactly if it finds the other around the one, for any depth,
  although the band is turned over where `iu` wraps round and `iv` is reflected. The
  step back over the edge turns back (`StepBack`, `Opposite`), and a reflection is never
  farther from a point of the axis than what it reflects (`ReflectIsNear`).
- `ResultsAnswer` (`ResultsAnswerTheQuery`), `CriticalRecalled` (`CriticalIsRecalled`)
  and `CacheRepeats` (`CacheRepeatsAnswers`) from `IInv`: every candidate matched the
  query as it was read (`CandidatesOK`), what is left out of a ranking is not urgent or
  gave way to as many urgent ones as were asked for (`RankedOK`), the critical memories
  of a recall nobody disturbed that few enough rows are ahead of are among its candidates
  (`HasCritical`, `FewAheadIsListed`), and cache entries list what was answered (`EntriesOK`).

**`ServerProofs`**, for any finite set of memories, any envelopes, rows, queries, tools,
offers, traces, documents and bounds, assuming of the constants only their kinds
(`FacadeAssumption`, `FramesAssumption`, `CurriculumAssumption`, `DocumentsAssumption`:
budgets, chunk sizes and characters per token are positive, a tool's difficulty is at least
1, the sets of terms are finite).

- `EvidenceIsOneViewThm` and `PartsAgreeThm` from `ServerInv`. The properties speak of the
  answer; the invariant says of the call in progress what it has read by each step
  (`CallInv`): a status it holds is one the fact has had since the call began, or none
  (`ReadInv`), what it ranked is among what it has read (`RankInv`), and each part read so
  far is about what it ranked (`GraphInv`, `HintsInv`, `EvidenceInv`). Other processes only
  add to the values a fact has had, so their writes keep it.
- `FramesFitThm`: the loops of `TextFrame` and `Packets` keep `used` within the budget for
  any lengths of lines; `FitSections` stops at the least number of entries taken away, and
  the sums (`Total`) show that every turn takes one entry away, so that there is such a
  number, and that evidence goes only when all lists before it are empty. The estimate
  written into the sections afterwards adds no more tokens than that of the whole budget
  would (`EstimatesGrow`, `EstimateAdds`).
- `OffersKeepTheirStageThm` from `CurriculumInv`, with and without a task: no two tools have
  one name, and the last offer is `Chosen` of the tools and traces there are still. That
  offer is what the property says because `RankOf` numbers the tools without gap or
  repetition (`RanksOrder`, `RankingIsRanked`: an injective function of a finite set into
  itself is onto), filters keep the order of what they leave (`WithoutLeaves`), and what the
  offer takes first and what it takes from the pool are apart (`WithinTask`, `AcrossTasks`).
- `DocumentsAreWholeThm` from `FilingInvariant`: each answered call has its chunks on the
  shelf in one stretch (`OnShelf`), the call in progress the first of them, last on the
  shelf; a call that died leaves a stretch that no answered call counts as its own.
  The rest is about the split. `Holds` says of chunks that they contain the blocks of a
  stretch of the document: all that is not blank, nothing twice, in order, none too long.
  It goes from cuts of a long paragraph (`LongChunksHold`: a cut always advances, `CutCuts`)
  over the packing of paragraphs (`PackInv`, `ChunkedHolds`) to the sections (`SplitFills`),
  at each level because chunks of a stretch and chunks of the next make chunks of both
  (`HoldsTogether`). `SplitInv` is the invariant of the loop over headings: the stack has
  the headings the next block is under (`PathGrows`), the finished sections are stretches
  without gap (`Parted`).

Only model-checked is liveness under fairness, which is out of the prover's reach: of
`JobQueue` that every job is served and rows come to rest, of `KafkaQueue` that every message
is reached, of `Scheduler` that every job keeps running.

## What the models show beside the runs

- A compaction of two similar active rows closes both: each is consolidated as it was
  listed, and each finds the other (`scheduler.go:112`).
- A retry finds its own earlier row among the neighbours it lists, and the list ends at
  50: past that it may store the statement a second time, also when nothing overlaps
  (`consolidation/service.go:43`). So it does if the content has no word of more than two
  letters, as it is then not even similar to itself (`merge.go:34`), and if it is related to
  rows that are unlike each other, as the first related one decides.
- Whether two statements contradict may depend on which came first: `subjectOverlap`
  divides by the terms of one of them (`conflict.go:33`).
- A trace is saved without a look at what was erased since its retrieval ranked: the stored
  trace keeps the id, and nothing removes it again (`retrieval/service.go:71`,
  `trace_store.go:20`).
- A capture takes a relation's `memory_id` as given: the graphs get an edge carried by a
  memory that nobody stored, also in mode propose, where nothing was
  (`mcp_server.py:1284`, `1308`).
- list_memories cuts before it filters, at four times the limit: as many more important rows
  of other scopes hide a critical memory (`store.py:209`).
- The structured frame is fitted first and gets its own estimate written into it afterwards:
  it may exceed the budget by that line, and `estimated_tokens` of the frame then says so
  while the one inside it does not (`sif.py:387`, `275`).
- A rebuild indexes facts newest first, so knowledge assertions lose `superseded_by`
  and conflicts are not found again; the ledger keeps both (`facts.py:235`).
- A relation the graph refuses leaves a row and a line of the log; every later
  rebuild raises at that line (`vault.py:168`).
- A capture in mode propose with a task_id patches the task from memories it did not
  store: objective and lists become empty (`mcp_server.py:703`, `1149`).
- propose_from_recent asks the ledger for known facts, not the pending proposals: each
  run proposes a fact again until one is approved and indexed (`consolidation.py:33`).
- Two updates that overlap lose one of them, and the checkpoint sequence may go back
  (`task_state.py:154`); two reviews that overlap may leave the memory of a proposal
  that ends as rejected (`agents.py:149`).
- The structured frame names the ids of all ranked memories, those that the text frame
  dropped included (`sif.py`).
- in_category offers the same tools as warmup: its pool continues the same order
  (`tool_curriculum.py:89`). Without a task so does cross_category, whose pool is then all
  tools (`tool_curriculum.py:93`).
- record_tool_trace with persist_lessons stores every lesson again each time
  (`mcp_server.py:955`).
- A connector's record with updated_at is one memory however often it is ingested;
  without it each call makes a new one (`connectors.py`).

## Plan

Done: the durable queue, Kafka, consolidation, scheduler, forgetting, traces, vault, fact
ledger, task state, recall and the MCP server, each with the proofs of its safety properties.

Next, in order:

1. `ReceiptLog` (two processes, an ambiguous Put), the batcher's chunks and retries,
   the rate limiters against one bound, the NATS queue as at most once.
2. `Agentic` (goals, plans, steps kept as memory rows).
3. An abstract vault, a log and what it implies, that `Vault` implements between
   rebuilds: `FollowInv` is the relation such a refinement needs.

### Hazards no module reaches yet

- The sweep asks for 500 rows and the store caps a list at 50 by importance: rows past
  the cap are never swept (`services/forgetting/expiration.go:33`; `ListCap` is in
  `Forgetting`, whose run has one memory).
- GetTrace returns slices and a map that DeleteByMemoryID changes while the handler
  encodes them (`adapters/storage/memory/trace_store.go:36`).
- A Put that fails after it took effect leaves a receipt the chain does not know, and
  two processes write two chains into one store (`services/audit/receipt.go:74`).
- A provider that answers a chunk with fewer vectors shifts the later ones to other
  texts (`services/embedding/batcher.go:66`).
- A crash between INCR and PEXPIRE leaves a window for ever, and bucket and window
  bound a burst differently (`adapters/storage/redis/rate_limit.go:29`).
- Without memories.jsonl a rebuild clears the indexes and never comes to the facts
  (`vault.py:232`).
- A NATS handler's error is dropped and nothing redelivers
  (`adapters/queue/nats/queue.go:50`, listed in `PROJECT.json` as well).

## Not modelled

Authentication and tenancy checks, wire formats, telemetry, configuration and
migrations: no state that the properties speak of, or pure I/O. Of the Go control
plane: the scoring of retrieval, the agentic context service, rate limits, receipts,
adapters of models and object stores. Of the Python engine: benchmarks and
calibration (offline measurement without a state of their own), the patterns of
`extraction.py`, read-only tools that list rows, explanations and traces made for
people, relations and assertions that callers add by hand outside a capture,
closing a box, and the tool_trace argument of capture (`RecordTrace` of `Curriculum`
is what it calls). `DeleteExpiredHard` is never set by a binary. Two overlapping runs
of one job by two workers (`JobQueue` allows them once a lease overran) are not
composed with `Consolidation`, which redelivers a request only after its last
attempt ended. What `Recall` finds is not composed with `Facade`: each has its own
interleavings, and their product is beyond TLC.
