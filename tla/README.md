# A verification project for geocore

geocore builds geographic data from OpenStreetMap dumps (`generator`), keeps
map files and spatial indices of them (`indexer`, `coding`, `geometry`), and
answers geocoding queries (`geocoder`). This directory models its stateful and
concurrent parts in TLA+, model-checks them with TLC on small instances and
proves the central invariants with TLAPS for every instance.

## 1. The system: parts, state, interactions

| part | sources | state | operations that change it | hard behaviours |
|---|---|---|---|---|
| map registry | `indexer/mwm_set.*`, `base/observer_list.hpp` | infos with status and reference count, registry per country, value cache, observers | Register, Deregister, lock, unlock, Clear, ClearCache, event delivery | events sent outside the lock, failures half way, stale ids |
| data source | `indexer/data_source.cpp` | none of its own | reads a snapshot of the registry, then locks maps by id | the snapshot is stale when used |
| computational pool | `base/thread_pool_computational.hpp` | task queue, `m_done`, threads | Submit, PerformParallelWorks, Stop, WaitingStop, destructor | a submission racing a stop, tasks dropped by Stop, lost wake-ups |
| delayed pool | `base/thread_pool_delayed.*` | immediate and delayed queues, exit mode | Push, PushDelayed, Shutdown, worker loop | order of immediate against delayed tasks, pending tasks at shutdown |
| routine pool | `base/thread_pool.cpp`, `base/threaded_list.hpp`, `base/thread.cpp` | routine list, cancellation flags | PushBack, Stop | a routine pushed during Stop |
| raw generation | `generator/raw_generator.cpp`, `raw_generator_writer.cpp`, `feature_processing_layers.*` | translators, feature buffers, chunk queue, writer thread | translate, flush, write, merge, shut down | buffers reused while the writer may hold them, termination by an empty message, waits on earlier merge tasks |
| intermediate data | `generator/intermediate_data.*`, `osm_source.cpp` | element caches, offset indices, point storage | concurrent writes, index flush, reads | data and offset written under different locks, partition of the input among tasks |
| region building | `generator/regions/*` | region trees, an atomic work index | parent search in parallel, tree building | work sharing by an atomic counter |
| hierarchy reader | `geocoder/hierarchy_reader.*` | stream, end flag, tasks | read a block, parse it, merge | the end flag is written under a lock and read without it |
| geocoder | `geocoder/geocoder.*`, `base/beam.hpp` | token marks, layers, beam of results | recursive search by type | marks restored on every path, the beam at its limit |
| polygon strips | `geometry/polygon.hpp` | an index shared by the searching tasks | search for the start of a strip | parity of the number of vertices, the shared index |
| encodings and indices | `coding/*`, `geometry/cellid.hpp`, `indexer/*index*` | byte streams | encode, decode | width boundaries |

Registry, pools and pipeline are used by the other parts: raw generation,
intermediate data, covering and region building all run on the computational
pool; the geocoder reads what the hierarchy reader produced.

## 2. Plan

1. `MwmSet` (done): the registry, with proofs in `MwmSetProofs`.
2. `ComputationalThreadPool` (done): submission, stop and drain, termination;
   it implements the abstract `TaskPool`; proofs in
   `ComputationalThreadPoolProofs`.
3. `RawGeneration` (done but for the contents of features and the work of final
   processors): translators, chunk queue, writer, and the merge on `TaskPool`.
4. `HierarchyReader` (done), on `TaskPool`.
5. `PolygonStrip` (done): the search for a single strip.
6. The delayed pool, with the order that its documentation promises, and the
   routine pool with its list.
7. The intermediate data; the parallel search for parents in region building;
   coverings on a small quad tree.
8. The geocoder's search: marks, layers, beam. The data source over `MwmSet`.
9. Encodings, cell ids and the interval index as operators against reference
   definitions.
10. More proofs: the CHECK of the hierarchy reader, the chunks and the merge of
    raw generation, safety of the pools of item 6.

`SeqOps` holds the few helpers on sequences that modules with proofs need; it
reaches no recursive operator, as the prover requires.

## 3. The map registry: `MwmSet`

An MwmInfo object is a member of `Info`; `file`, `status` and `numRefs` are its
fields `m_file`, `m_status` and `m_numRefs`, and `file[i] = NoFile` before
CreateInfo makes it. `m_info[c]` is the vector of a country, `m_cache` the
deque of released values. `handle[h]` is the id an MwmHandle locks. Every
public operation of the code holds `m_lock` for its whole body, so it is one
step; the events it collected are in `pending[t]` and each is delivered by a
step of its own (`ProcessEvent`), because ProcessEventList runs after the lock
is released. `view` is an observer that replays the events it gets: one, there
from the start to the end (AddObserver and RemoveObserver are left out).

| action | code |
|---|---|
| `RegisterFirst`, `RegisterNewer`, `RegisterSame` | the branches of `Register` with `RegisterImpl` |
| `Deregister` | `Deregister`, with `DeregisterImpl` and `ClearCache(id)` |
| `GetMwmHandle` | `LockValueImpl`, called by both ways to get a handle |
| `ReleaseHandle` | `~MwmHandle`, `UnlockValueImpl` |
| `Clear`, `ClearCache` | the functions of that name |
| `ProcessEvent` | `ProcessEventList` and the observer calls |

A client may use the id of any map that was ever created, as a holder of an old
MwmId can. CreateInfo and CreateValue are external: `InfoOutcome` and
`ValueOutcome` say which of success, refusal and exception a run lets happen.
Directories of files, and the contents of values, are left out.

### Runs

| run | checks | shows |
|---|---|---|
| `mwm_set_registry` | types, cache bound, counts, pinned maps, order of the registry, IsLoaded, finality of deregistration, no silent downgrade | consistency for all interleavings of two threads, with every failure and with Clear |
| `mwm_set_observer` | `ObserverMissesNoMap`, `ObserverTrustsNoDeadMap` | one thread without exceptions: the replayed events give the registry |
| `mwm_set_throw` | `ObserverTrustsNoDeadMap`, violated | an exception during an update loses the deregistration event |
| `mwm_set_reorder` | `ObserverTrustsNoDeadMap`, violated | two threads deliver events in the wrong order |
| `mwm_set_update_locked` | `DeregisteredOnce`, violated | the old file of an update under a lock is deregistered twice |

Bounds: two versions are the least with an update and three infos the least
with an update and a re-registration; two handles let a map be locked twice,
so that two values of one map meet in a cache of two; two threads are enough
for events to overtake each other. The observer runs use three versions and
four infos. Infos, handles, threads and countries are interchangeable, and the
registry run uses that symmetry; it checks safety only.

### Proofs

`MwmSetProofs` assumes only `MwmSetAssumption`: handles are finite, versions
are numbers, and the null values differ from real ones. None of the listed
invariants is inductive alone. `IInv` joins the types, `Registry` (the ordered
registry, plus: an alive map has a file), `RefsCountHandles`, `HandlesPinMaps`
and `MarkedIsLocked`. Counts and pinning need each other: deregistration tests
the counter, so a map is safe from it only if the counter equals the number of
handles; and a new info may be registered only because no handle can refer to
it. `Registry` takes the three maps as parameters, so that it can be stated of
the state between the two halves of an update (`DeregisterKeepsRegistry`, then
`PushKeepsRegistry`). From `IInv` follow the theorems on types, counts,
pinning, marks, order and IsLoaded; `MwmSetDeregisteredIsFinal` is an action
property proved from the same invariant.

Only model-checked: the cache bound (its filter is recursive), the downgrade
property and the observer properties.

## 4. The computational pool: `ComputationalThreadPool`, `TaskPool`

`m_done` and `m_queue` are the fields of the class, `worker[w]` and `task[w]`
where a thread of the pool is and its local variable, `future[t]` the shared
state of a future. Sections under `m_mutex`, notifications after them and runs
of tasks are separate steps, so that a notification can come late or meet no
waiting thread; `SpuriousWake` is the wake-up the standard allows.

| action | code |
|---|---|
| `Wait`, `Take`, `Finish`, `Exit` | the loop of `Worker` |
| `Submit`, `SubmitNotify` | `Submit`, `SubmitWork` |
| `PerformParallelWorks`, `PerformSubmit`, `PerformReturn` | the function of that name |
| `Stop`, `StopNotify` | `Stop` |
| `StartThread`, `StartThreadFails`, `Constructed` | the constructor and its handler |
| `WaitingStop`, `Destroy`, `OwnerNotify`, `Join` | `WaitingStop`, the destructor, `ThreadsJoiner` |

The owner destroys the pool only when no client is inside a call, as C++
demands. `TaskPool` is what users of the pool rely on: tasks start in the order
of submission, at most `Size` at a time, each at most once, and none is accepted
after closing.

| run | checks | shows |
|---|---|---|
| `thread_pool` | `PendingIsOwned`, `StartOrder`, `ExitedIsComplete`, `PerformWaits`, `ImplementsTaskPool`, `AcceptedEnds`, `JoinReturns`, `PerformEnds` | no task is lost, repeated or overtaken, no wait returns early, no wake-up is lost; the refinement |
| `pool_stopped` | `StoppedCallIsIgnored`, violated | on a stopped pool PerformParallelWorks waits on invalid futures, while its comment says that the call is ignored |

Bounds: two threads and two clients are the least for a notification to go to
the wrong one; two tasks per client let one wait behind another and a call of
PerformParallelWorks wait for both threads. Fairness: threads are scheduled and
tasks end; nobody has to submit, stop or destroy.

Proofs, from `PoolAssumption` (a finite non-empty set of threads): `IInv` joins
types, `Owned` (a pending task is in exactly one place), `History` (the queue is
the end of the sequence of accepted tasks), `Threads` (a thread is gone only
from a finished queue) and `Calls` (outside of PerformParallelWorks the last
call has been waited for). `StartOrder` follows from `History`,
`ExitedIsComplete` from `Owned` and `Threads`, `PerformWaits` from `Calls`.
`PoolImplementsTaskPool` is the refinement; it needs `Owned` and `History` for
"each task at most once", and the number of threads for `Size`. Only
model-checked: the liveness properties.

## 5. The hierarchy reader: `HierarchyReader`, `HierarchyEntry`

`HierarchyEntry` says what a line becomes: which are kept, which counters they
increment, which names enter the dictionary. Text is abstracted to how far a
line can be read. `HierarchyReader` is `Read` with its list of futures (`tasks`)
on `TaskPool`; `ReadBlock` is the section under the mutex, `ParseBlock` the rest
of a task, `GetResult` the merge of a result. `m_eof` is read without the lock:
`EofValues` lets the reader see the old value until it has received the result
of a task that wrote the new one. `SortEntries` is the end of `Read` with the
constructor of `Hierarchy` that it calls: `Sorted` is `std::sort`, which may put
equal ids in any order, and `Constructed` sorts again only what is not sorted.
A rank is narrowed to eight bits before it names a type (`RankToType`), and one
line of the run has a rank above 255.

`hierarchy_read` shows that `Read` returns what one pass over the input would:
each line once with its names, an exact dictionary, the same statistics, an
order in which binary search finds every id, that
`CHECK(!tasks.empty())` holds, and that it returns. Blocks of
two lines and inputs of none to three lines give empty input, a block that ends
with the input, and more than one block; each kind of bad line comes once. Two
readers take blocks against the order of submission. The bound of the list,
2 * readersCount + 1, is reached. Fairness: the reading thread and the pool go on
while they can.

## 6. Raw generation: `RawGeneration`

An element is whether the filter accepts it and how many features it makes.
`layer[t]` is the buffer of a translator with the chunks it has sent and may take
back, `m_queue` the queue to the writer with the empty message, `merge` the
tasks of FinishTranslation.

| action | code |
|---|---|
| `Emit`, `Handle`, `EndOfInput` | `TryRead`, `Translator::Emit`, `AffiliationsFeatureLayer::Handle` with its flush |
| `Pop`, `Write` | the thread of `RawGeneratorWriter` |
| `JoinTranslators`, `SubmitMerge`, `FinishLast` | `GenerateFilteredFeatures`, `FinishTranslation` |
| `StartMerge`, `GetBoth`, `FinishRight`, `FinishLeft`, `Merge` | a merge task |
| `Shutdown`, `JoinWriter` | `ShutdownAndJoin` |
| `SubmitFinal`, `RunFinal`, `EndFinal`, `JoinFinal`, `Return` | the rounds of final processors in `Execute` |

`raw_generation` checks that a buffer is not taken back while the queue or the
writer has it, that a shorter buffer that comes back is not overrun, that each
feature reaches the file as often as a thread reads its element, that nothing
follows the empty message, that collectors are merged completely, the order of
priorities, that merges never share a translator, and that Execute returns.
Five translators are the least with more merge tasks (four) than threads in the
pool that the code makes for them (three), so that a task that waits for others
holds a thread that they might need. The code derives translators and threads
from `m_threadsCount`: six make five translators, one writer and a pool of six
for the final processors, as in the run; with one thread, or from stdin, there is
one translator and nothing to merge, which is not run. Chunks of two elements, and eleven
elements, let the partition of the input start again at the first task; buffers
of two features let the first translator flush several times and take chunks
back. Every thread that can go on is scheduled; that is the only fairness.

A remark: the tasks divide an O5M file among them, but each reads the whole of an
XML file, so with n threads each feature of an XML file is written n times
(`WrittenOnceByEachReader` fixes that number). No documentation says whether
this is meant, so no property rejects it, but `generator_tool` takes one thread per core and XML by default.

## 7. Polygon strips: `PolygonStrip`

A polygon is its number of vertices and the set of diagonals inside it; geometry
appears only there. Not every set of diagonals belongs to a polygon:
`Visibilities` demands of every cycle of k visible vertices that it has k - 3
chords, as a triangulation of the polygon it bounds gives. All sets that real
polygons of up to six vertices have are among them. `polygon_strip` covers sizes
three to seven: an accepted index makes a strip that covers the polygon, the
sequential search finds the first one, and for odd sizes the opposite direction
needs no search. Two runs are violated: for even sizes the opposite direction is
not covered, contrary to the comment of the code (`polygon_strip_opposite`, a
hexagon), and the parallel search never enters its loop, because `foundIndex`
starts at 0 (`polygon_strip_parallel`). A round of that loop is one step, although
it loads, increments and stores atomics one by one: no round is ever run.

## 8. Not modelled

Vendored code under `3party`, generated tables, tools and build files; parsing
and formatting of text and JSON; file and directory access beyond success and
failure; geometry on floating-point coordinates; styles and classificators,
which are read-only tables. The parts of the plan that are not marked done are
not modelled yet; `PROJECT.json` lists every part with the reason.

Out of the prover's reach, and so with TLC only: liveness under fairness, and
what recursive definitions compute (the cache filter, the dictionary and binary
search of the hierarchy, the strips).
