--------------------------- MODULE HierarchyReader ---------------------------
(***************************************************************************)
(* geocoder::HierarchyReader (geocoder/hierarchy_reader.cpp): the thread   *)
(* in Read keeps a bounded list of tasks in a pool of readersCount         *)
(* threads; each task takes a block of lines under m_mutex, parses it, and *)
(* its result is merged in the order of submission.  The pool is TaskPool, *)
(* which ComputationalThreadPool implements.                               *)
(*                                                                         *)
(* m_eof is written under m_mutex and read without it: as long as no       *)
(* result of a task that wrote it was received, the reader may still see   *)
(* the old value.                                                          *)
(***************************************************************************)
EXTENDS HierarchyEntry, FiniteSets

CONSTANTS
  Inputs,   \* inputs: their lines, and whether the first one is the data version
  readersCount,
  kReadBlockLineCount

ASSUME ReaderAssumption ==
  /\ readersCount \in Nat \ {0}    \* CHECK_GREATER_OR_EQUAL(readersCount, 1)
  /\ kReadBlockLineCount \in Nat \ {0}
  /\ Inputs \subseteq [lines : Seq(Line), dataVersionHeadline : BOOLEAN]

VARIABLES
  input,      \* the parameters of the constructor
  in,         \* m_in: the lines not yet read
  m_eof,
  pc,         \* where the thread in Read is
  tasks,      \* the list of futures: numbers of tasks
  task,       \* task[t]: what task t has done, read and parsed
  entries, dictionary, stats,   \* the locals of Read
  seen, todo, running, closed   \* the pool

pool == <<seen, todo, running, closed>>
vars == <<input, in, m_eof, pc, tasks, task, entries, dictionary, stats, pool>>

Pool == INSTANCE TaskPool WITH Task <- Nat, Size <- readersCount

----------------------------------------------------------------------------
(* The tasks: ReadEntries *)

StartTask ==
  /\ Pool!Start
  /\ UNCHANGED <<input, in, m_eof, pc, tasks, task, entries, dictionary, stats>>

\* The loop of getline under m_mutex; a getline that fails sets m_eof.
ReadBlock(t) ==
  /\ t \in running /\ task[t].at = "new"
  /\ LET ends == Len(in) < kReadBlockLineCount
         size == IF ends THEN Len(in) ELSE kReadBlockLineCount
     IN  /\ in' = SubSeq(in, size + 1, Len(in))
         /\ m_eof' = (m_eof \/ ends)
         /\ task' = [task EXCEPT ![t] = [at |-> "parse", ended |-> ends,
                                         lines |-> SubSeq(in, 1, size), result |-> NoResult]]
  /\ UNCHANGED <<input, pc, tasks, entries, dictionary, stats, pool>>

\* DeserializeEntries, outside the mutex; then the future is ready.
ParseBlock(t) ==
  /\ t \in running /\ task[t].at = "parse"
  /\ task' = [task EXCEPT ![t].at = "ready", ![t].result = DeserializeEntries(task[t].lines)]
  /\ Pool!Finish(t)
  /\ UNCHANGED <<input, in, m_eof, pc, tasks, entries, dictionary, stats>>

----------------------------------------------------------------------------
(* The thread in Read *)

\* The constructor takes the headline with the data version.
ReadDataVersion ==
  /\ pc = "open"
  /\ IF input.dataVersionHeadline
     THEN IF in # <<>> /\ Head(in).kind = "version"
          THEN pc' = "loop" /\ in' = Tail(in)
          ELSE pc' = "no_version" /\ UNCHANGED in
     ELSE pc' = "loop" /\ UNCHANGED in
  /\ UNCHANGED <<input, m_eof, tasks, task, entries, dictionary, stats, pool>>

\* The values a read of m_eof without the mutex can return.
EofValues ==
  IF \E t \in 1..Len(task) : task[t].at = "taken" /\ task[t].ended
  THEN {TRUE} ELSE {FALSE, m_eof}

\* Goes on as long as the list has room.
LoopConditionRoom ==
  /\ pc = "loop"
  /\ \E eof \in EofValues :
       pc' = IF ~eof \/ Len(tasks) <= 2 * readersCount THEN "fill" ELSE "sort"
  /\ UNCHANGED <<input, in, m_eof, tasks, task, entries, dictionary, stats, pool>>

\* while (!m_eof || !tasks.empty())
LoopCondition ==
  /\ pc = "loop"
  /\ \E eof \in EofValues : pc' = IF ~eof \/ tasks # <<>> THEN "fill" ELSE "sort"
  /\ UNCHANGED <<input, in, m_eof, tasks, task, entries, dictionary, stats, pool>>

\* One task more than the list may hold.
SubmitTaskOneMore ==
  /\ pc = "fill"
  /\ FALSE \in EofValues /\ Len(tasks) <= 2 * readersCount + 1
  /\ LET t == Len(task) + 1
     IN  /\ tasks' = Append(tasks, t)
         /\ task' = Append(task, [at |-> "new", ended |-> FALSE, lines |-> <<>>,
                                  result |-> NoResult])
         /\ Pool!Accept(t)
  /\ UNCHANGED <<input, in, m_eof, pc, entries, dictionary, stats>>

\* while (!m_eof && tasks.size() <= 2 * readersCount): one more task
SubmitTask ==
  /\ pc = "fill"
  /\ FALSE \in EofValues /\ Len(tasks) <= 2 * readersCount
  /\ LET t == Len(task) + 1
     IN  /\ tasks' = Append(tasks, t)
         /\ task' = Append(task, [at |-> "new", ended |-> FALSE, lines |-> <<>>,
                                  result |-> NoResult])
         /\ Pool!Accept(t)
  /\ UNCHANGED <<input, in, m_eof, pc, entries, dictionary, stats>>

\* The end of that loop, and CHECK(!tasks.empty()).
StopFilling ==
  /\ pc = "fill"
  /\ TRUE \in EofValues \/ Len(tasks) > 2 * readersCount
  /\ pc' = IF tasks = <<>> THEN "check_failed" ELSE "get"
  /\ UNCHANGED <<input, in, m_eof, tasks, task, entries, dictionary, stats, pool>>

\* Keeps the positions of the task.
MovedEntryUnchanged(entry, from, to) == entry

\* The positions of an entry in the dictionary of its task become positions in
\* the dictionary of the hierarchy.
MovedEntry(entry, from, to) ==
  [entry EXCEPT !.address = [t \in DOMAIN @ |-> PositionOf(to, from[@[t]])]]

\* The dictionary of the hierarchy after the first n entries of a result.
MergedDictionary(result) ==
  LET merge[n \in 0..Len(result.entries)] ==
        IF n = 0 THEN dictionary
        ELSE LET address == result.entries[n].address
             IN  AddedNames(merge[n - 1],
                            [t \in DOMAIN address |-> result.dictionary[address[t]]])
  IN  merge[Len(result.entries)]

\* task.get() of the first task, and the merge of its result.
GetResult ==
  /\ pc = "get" /\ task[Head(tasks)].at = "ready"
  /\ LET result == task[Head(tasks)].result
         merged == MergedDictionary(result)
     IN  /\ dictionary' = merged
         /\ entries' = entries \o [n \in 1..Len(result.entries) |->
                         MovedEntry(result.entries[n], result.dictionary, merged)]
         /\ stats' = StatsSum(stats, result.stats)
  /\ task' = [task EXCEPT ![Head(tasks)].at = "taken"]
  /\ tasks' = Tail(tasks)
  /\ pc' = "loop"
  /\ UNCHANGED <<input, in, m_eof, pool>>

\* Ordered by id.
IsSorted(s) == \A k \in 1..(Len(s) - 1) : s[k].id <= s[k + 1].id

Orders(n) == {p \in [1..n -> 1..n] : \A k, l \in 1..n : p[k] = p[l] => k = l}

\* Counts the repetitions and not the repeated ids.
DuplicateOsmIdsEach(s) == Cardinality({k \in 2..Len(s) : s[k].id = s[k - 1].id})

\* CheckDuplicateOsmIds: the number of runs of equal ids in sorted entries.
DuplicateOsmIds(s) ==
  Cardinality({k \in 2..Len(s) :
    s[k].id = s[k - 1].id /\ (k = 2 \/ s[k - 2].id # s[k].id)})

\* std::sort by id, which may put entries with the same id in any order.
Sorted(s) ==
  {o \in {[k \in 1..Len(s) |-> s[p[k]]] : p \in Orders(Len(s))} : IsSorted(o)}

\* The entries of a Hierarchy: its constructor sorts those that are not sorted.
Constructed(s) == IF IsSorted(s) THEN {s} ELSE Sorted(s)

\* The end of Read, with the Hierarchy it returns.
SortEntries ==
  /\ pc = "sort"
  /\ \E sorted \in Sorted(entries) :
       /\ stats' = [stats EXCEPT !["duplicateOsmIds"] = @ + DuplicateOsmIds(sorted)]
       /\ entries' \in Constructed(sorted)
  /\ pc' = "done"
  /\ Pool!Close
  /\ UNCHANGED <<input, in, m_eof, tasks, task, dictionary>>

Ended == pc \in {"done", "no_version", "check_failed"} /\ UNCHANGED vars

----------------------------------------------------------------------------

Init ==
  /\ input \in Inputs
  /\ in = input.lines
  /\ m_eof = FALSE
  /\ pc = "open"
  /\ tasks = <<>>
  /\ task = <<>>
  /\ entries = <<>> /\ dictionary = <<>> /\ stats = ZeroStats
  /\ Pool!Init

ReaderStep ==
  ReadDataVersion \/ LoopCondition \/ SubmitTask \/ StopFilling \/ GetResult \/ SortEntries

TaskStep == StartTask \/ \E t \in 1..Len(task) : ReadBlock(t) \/ ParseBlock(t)

Next == ReaderStep \/ TaskStep \/ Ended

\* The threads of the pool and the reading thread are scheduled.
Spec == Init /\ [][Next]_vars /\ WF_vars(ReaderStep) /\ WF_vars(TaskStep)

----------------------------------------------------------------------------
(* Hierarchy *)

\* Goes past an entry that has the id.
LowerBoundPast(id) ==
  LET search[first \in 1..(Len(entries) + 1), count \in 0..Len(entries)] ==
        IF count = 0 THEN first
        ELSE LET half == count \div 2
             IN  IF entries[first + half].id <= id
                 THEN search[first + half + 1, count - half - 1]
                 ELSE search[first, half]
  IN  search[1, Len(entries)]

\* std::lower_bound over the entries from position first on.
LowerBound(id) ==
  LET search[first \in 1..(Len(entries) + 1), count \in 0..Len(entries)] ==
        IF count = 0 THEN first
        ELSE LET half == count \div 2
             IN  IF entries[first + half].id < id
                 THEN search[first + half + 1, count - half - 1]
                 ELSE search[first, half]
  IN  search[1, Len(entries)]

\* GetEntryForOsmId returns an entry.
IsFound(id) ==
  LET k == LowerBound(id) IN k <= Len(entries) /\ entries[k].id = id

----------------------------------------------------------------------------
(* Properties *)

\* The lines after the headline.
Body == IF input.dataVersionHeadline THEN Tail(input.lines) ELSE input.lines

\* What an entry says, and what a line says.
EntryView(entry) ==
  [id |-> entry.id, type |-> entry.type,
   names |-> [t \in DOMAIN entry.address |-> dictionary[entry.address[t]]]]

LineView(line) == [id |-> line.id, type |-> EntryType(line), names |-> line.address]

LoadedLines == {k \in 1..Len(Body) : IsLoaded(Body[k])}

\* Types, and the bound of the list of tasks.
TypeOK ==
  /\ Len(in) <= Len(input.lines)
  /\ in = SubSeq(input.lines, Len(input.lines) - Len(in) + 1, Len(input.lines))
  /\ m_eof \in BOOLEAN
  /\ pc \in {"open", "no_version", "loop", "fill", "get", "check_failed", "sort", "done"}
  /\ Len(tasks) <= 2 * readersCount + 1 /\ Elements(tasks) \subseteq 1..Len(task)
  /\ \A t \in 1..Len(task) : /\ task[t].at \in {"new", "parse", "ready", "taken"}
                              /\ task[t].ended \in BOOLEAN
                              /\ Len(task[t].lines) <= kReadBlockLineCount
  /\ stats \in [Counter -> Nat]
  /\ running \subseteq 1..Len(task) /\ Elements(todo) \subseteq 1..Len(task)

\* CHECK(!tasks.empty()) in Read never fails, although m_eof may change between
\* the two conditions that read it.
CheckHolds == pc # "check_failed"

\* Read returns every line that can be read exactly once, with the names of the
\* line, for any order in which the tasks take blocks and end; its positions
\* pass the CHECKs of NameDictionary::Get.
ReadIsComplete ==
  pc = "done" =>
    /\ \A k \in 1..Len(entries) :
         \A t \in DOMAIN entries[k].address : entries[k].address[t] \in 1..Len(dictionary)
    /\ Len(entries) = Cardinality(LoadedLines)
    /\ \A k \in LoadedLines :
         Cardinality({l \in LoadedLines : LineView(Body[l]) = LineView(Body[k])})
           = Cardinality({j \in 1..Len(entries) : EntryView(entries[j]) = LineView(Body[k])})

\* The dictionary of the hierarchy holds each name of its entries once, and
\* none that only a rejected line or a task's own dictionary had.
DictionaryIsExact ==
  pc = "done" =>
    /\ Elements(dictionary) =
         UNION {{dictionary[p] : p \in {entries[k].address[t] : t \in DOMAIN entries[k].address}}
                  : k \in 1..Len(entries)}
    /\ Len(dictionary) = Cardinality(Elements(dictionary))

\* The statistics do not depend on blocks and threads: they are those of one
\* pass over the input, and m_duplicateOsmIds is "Number of
\* base::GeoObjectsIds that occur as keys in at least two entries"
\* (hierarchy.hpp:39).
StatsAreSequential ==
  pc = "done" =>
    /\ \A c \in Counter \ {"duplicateOsmIds"} : stats[c] = DeserializeEntries(Body).stats[c]
    /\ stats["duplicateOsmIds"] =
         Cardinality({Body[k].id : k \in {l \in LoadedLines :
           \E j \in LoadedLines \ {l} : Body[j].id = Body[l].id}})

\* GetEntryForOsmId finds exactly the ids that were read.
LookupFindsWhatWasRead ==
  pc = "done" => \A id \in {input.lines[k].id : k \in 1..Len(input.lines)} :
    IsFound(id) <=> \E k \in LoadedLines : Body[k].id = id

\* Read returns, or the constructor throws NoVersion.
ReadEnds == <>(pc \in {"done", "no_version"})
=============================================================================
