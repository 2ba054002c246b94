---------------------------- MODULE RawGeneration ----------------------------
(***************************************************************************)
(* generator::RawGenerator (generator/raw_generator.cpp): Execute starts a *)
(* writer thread and threads that translate a part of the input each;      *)
(* features go to the writer in chunks (AffiliationsFeatureLayer); merge   *)
(* tasks then join the translators two by two on a pool, which is TaskPool *)
(* here; at last the final processors run by priority.                     *)
(*                                                                         *)
(* An element is abstracted to whether the filter accepts it and to how    *)
(* many features are made of it.  A feature is a pair of the position of   *)
(* its element and a number.  The collector keeps one entry per accepted   *)
(* element (CollectorRegionInfo).  All features have one affiliation.      *)
(***************************************************************************)
EXTENDS Naturals, FiniteSets, SeqOps

CONSTANTS
  Inputs,           \* sequences of elements, and the type of the file
  threadsCount,     \* translating threads
  chunkSize,        \* elements that a thread takes at a time
  bufferedItemsCountMax,
  FinalProcessor, Priority,
  poolSize          \* m_genInfo.m_threadsCount

ASSUME GenerationAssumption ==
  /\ threadsCount \in Nat \ {0} /\ chunkSize \in Nat \ {0} /\ poolSize \in Nat \ {0}
  /\ bufferedItemsCountMax \in Nat \ {0}
  /\ Inputs \subseteq [type : {"O5M", "XML"}, elements : Seq([accepted : BOOLEAN, features : Nat])]
  /\ Priority \in [FinalProcessor -> Nat]

Translator == 0..(threadsCount - 1)

VARIABLES
  input,
  translator,   \* translator[t]: m_elementCounter, the features to handle, what is collected
  layer,        \* layer[t]: the AffiliationsFeatureLayer of t, and its chunks on the heap
  m_queue,      \* chunks <<t, k>> (the k-th of translator t) and the empty message
  writer,       \* where the writer thread is, and the chunk it holds
  written,      \* the features in the output file
  pc,           \* where Execute is
  queue,        \* FinishTranslation: the futures, as the tasks or translators they are of
  merge,        \* merge[k]: the k-th merge task
  saved,        \* what the collector has saved
  final,        \* final[p]: the state of a final processor
  seen, todo, running, closed   \* the pool of FinishTranslation

pool == <<seen, todo, running, closed>>
vars == <<input, translator, layer, m_queue, writer, written, pc, queue, merge, saved, final, pool>>

\* The pool of FinishTranslation has queue.Size() / 2 + 1 threads.
Pool == INSTANCE TaskPool WITH Task <- Nat, Size <- (threadsCount \div 2) + 1

NoFeature == <<>>
EmptyMessage == <<>>

----------------------------------------------------------------------------
(* AffiliationsFeatureLayer *)

\* Ignores whether somebody still holds the chunk.
IsSharedNever(c) == FALSE

\* use_count() of a chunk in m_queuedChunks is greater than 1.
IsShared(c) == c \in Elements(m_queue) \/ writer.chunk = c

\* The chunk that Flush pushes.
NewChunk(t) == <<t, Len(layer[t].chunks) + 1>>
Pushed(t) == IF layer[t].count = 0 THEN <<>> ELSE <<NewChunk(t)>>

(***************************************************************************)
(* Flush with SetupItemsBuffer.  The new chunk is shared with the variable *)
(* itemsChunk until Flush returns.  Whether the writer gives back an older *)
(* chunk before or after the push makes no difference to the two.          *)
(***************************************************************************)
Flushed(t) ==
  LET l == layer[t]
      chunks == Append(l.chunks, SubSeq(l.buffer, 1, l.count))
      queued == Append(l.queued, NewChunk(t))
      front == Head(queued)
  IN  IF l.count = 0 THEN l
      ELSE IF front # NewChunk(t) /\ ~IsShared(front)
      THEN [buffer |-> chunks[front[2]], count |-> 0, queued |-> Tail(queued),
            chunks |-> [chunks EXCEPT ![front[2]] = <<>>]]
      ELSE [buffer |-> [k \in 1..bufferedItemsCountMax |-> NoFeature], count |-> 0,
            queued |-> queued, chunks |-> chunks]

\* PlaceNewItemInBuffer and the assignments of Handle; operator[] does not
\* check the position.
Placed(l, feature) ==
  [l EXCEPT !.buffer = [k \in DOMAIN @ |-> IF k = l.count + 1 THEN feature ELSE @[k]],
            !.count = @ + 1]

----------------------------------------------------------------------------
(* The translating threads *)

\* Whether task t reads the n-th element: of an O5M file the tasks take chunks
\* in turn, of an XML file each of them takes everything.
IsMine(t, n) ==
  input.type = "O5M" => (n \div chunkSize) % threadsCount = t

\* TryRead skips the elements of other tasks.
Mine(t) ==
  {n \in 0..(Len(input.elements) - 1) : n >= translator[t].counter /\ IsMine(t, n)}

\* Collects an element before the filter has seen it.
EmitUnfiltered(t) ==
  /\ pc = "translate" /\ translator[t].at = "translate" /\ translator[t].emit = <<>>
  /\ Mine(t) # {}
  /\ LET n == CHOOSE m \in Mine(t) : \A k \in Mine(t) : m <= k
         e == input.elements[n + 1]
     IN  translator' = [translator EXCEPT
           ![t].counter = n + 1,
           ![t].emit = IF e.accepted THEN [k \in 1..e.features |-> <<n, k>>] ELSE <<>>,
           ![t].collected = @ \cup {n}]
  /\ UNCHANGED <<input, layer, m_queue, writer, written, pc, queue, merge, saved, final, pool>>

\* TryRead and Translator::Emit up to the features.
Emit(t) ==
  /\ pc = "translate" /\ translator[t].at = "translate" /\ translator[t].emit = <<>>
  /\ Mine(t) # {}
  /\ LET n == CHOOSE m \in Mine(t) : \A k \in Mine(t) : m <= k
         e == input.elements[n + 1]
     IN  translator' = [translator EXCEPT
           ![t].counter = n + 1,
           ![t].emit = IF e.accepted THEN [k \in 1..e.features |-> <<n, k>>] ELSE <<>>,
           ![t].collected = IF e.accepted THEN @ \cup {n} ELSE @]
  /\ UNCHANGED <<input, layer, m_queue, writer, written, pc, queue, merge, saved, final, pool>>

\* Flushes also when the writer has nothing to do.
HandleEager(t) ==
  /\ translator[t].emit # <<>>
  /\ LET full == layer[t].count >= bufferedItemsCountMax \/ m_queue = <<>>
     IN  /\ layer' = [layer EXCEPT ![t] =
                        Placed(IF full THEN Flushed(t) ELSE @, Head(translator[t].emit))]
         /\ m_queue' = IF full THEN m_queue \o Pushed(t) ELSE m_queue
  /\ translator' = [translator EXCEPT ![t].emit = Tail(@)]
  /\ UNCHANGED <<input, writer, written, pc, queue, merge, saved, final, pool>>

\* m_processor->Process(feature) of the next feature.
Handle(t) ==
  /\ translator[t].emit # <<>>
  /\ LET full == layer[t].count >= bufferedItemsCountMax
     IN  /\ layer' = [layer EXCEPT ![t] =
                        Placed(IF full THEN Flushed(t) ELSE @, Head(translator[t].emit))]
         /\ m_queue' = IF full THEN m_queue \o Pushed(t) ELSE m_queue
  /\ translator' = [translator EXCEPT ![t].emit = Tail(@)]
  /\ UNCHANGED <<input, writer, written, pc, queue, merge, saved, final, pool>>

\* TryRead returns false.
EndOfInput(t) ==
  /\ pc = "translate" /\ translator[t].at = "translate" /\ translator[t].emit = <<>>
  /\ Mine(t) = {}
  /\ translator' = [translator EXCEPT ![t].at = "ended"]
  /\ UNCHANGED <<input, layer, m_queue, writer, written, pc, queue, merge, saved, final, pool>>

----------------------------------------------------------------------------
(* The writer thread: RawGeneratorWriter *)

\* Leaves the empty message in the queue for other readers.
PopForOthers ==
  /\ writer.at = "wait" /\ m_queue # <<>>
  /\ IF Head(m_queue) = EmptyMessage
     THEN UNCHANGED <<m_queue, writer>>
     ELSE m_queue' = Tail(m_queue) /\ writer' = [at |-> "write", chunk |-> Head(m_queue)]
  /\ UNCHANGED <<input, translator, layer, written, pc, queue, merge, saved, final, pool>>

Pop ==
  /\ writer.at = "wait" /\ m_queue # <<>>
  /\ m_queue' = Tail(m_queue)
  /\ writer' = IF Head(m_queue) = EmptyMessage
               THEN [at |-> "exit", chunk |-> EmptyMessage]
               ELSE [at |-> "write", chunk |-> Head(m_queue)]
  /\ UNCHANGED <<input, translator, layer, written, pc, queue, merge, saved, final, pool>>

\* Write, and the end of the scope of chunk.
Write ==
  /\ writer.at = "write"
  /\ written' = written \o layer[writer.chunk[1]].chunks[writer.chunk[2]]
  /\ writer' = [at |-> "wait", chunk |-> EmptyMessage]
  /\ UNCHANGED <<input, translator, layer, m_queue, pc, queue, merge, saved, final, pool>>

----------------------------------------------------------------------------
(* FinishTranslation *)

\* A future is a translator, or the number of the merge task that returns one.
OfTranslator(t) == [task |-> 0, translator |-> t]
IsReady(f) == f.task # 0 => merge[f.task].at = "ended"
Value(f) == IF f.task = 0 THEN f.translator ELSE merge[f.task].left

\* Finish of a translator: m_processor->Finish() flushes; called again it finds
\* nothing to flush.
Finish(t) ==
  /\ layer' = [layer EXCEPT ![t] = Flushed(t)]
  /\ m_queue' = m_queue \o Pushed(t)

\* The threads are joined.
JoinTranslators ==
  /\ pc = "translate"
  /\ \A t \in Translator : translator[t].at = "ended"
  /\ pc' = "merge"
  /\ queue' = [k \in 1..threadsCount |-> OfTranslator(k - 1)]
  /\ UNCHANGED <<input, translator, layer, m_queue, writer, written, merge, saved, final, pool>>

\* while (queue.Size() != 1): pool.Submit
SubmitMerge ==
  /\ pc = "merge" /\ Len(queue) # 1
  /\ merge' = Append(merge, [at |-> "get", futures |-> SubSeq(queue, 1, 2), left |-> 0, right |-> 0])
  /\ queue' = Append(SubSeq(queue, 3, Len(queue)), [task |-> Len(merge) + 1, translator |-> 0])
  /\ Pool!Accept(Len(merge) + 1)
  /\ UNCHANGED <<input, translator, layer, m_queue, writer, written, pc, saved, final>>

StartMerge ==
  /\ Pool!Start
  /\ UNCHANGED <<input, translator, layer, m_queue, writer, written, pc, queue, merge, saved, final>>

\* Goes on with whatever the futures hold.
GetBothAtOnce(k) ==
  /\ k \in running /\ merge[k].at = "get"
  /\ merge' = [merge EXCEPT ![k].at = "right", ![k].left = Value(merge[k].futures[1]),
                            ![k].right = Value(merge[k].futures[2])]
  /\ UNCHANGED <<input, translator, layer, m_queue, writer, written, pc, queue, saved, final, pool>>

\* left.get() and right.get() return.
GetBoth(k) ==
  /\ k \in running /\ merge[k].at = "get"
  /\ IsReady(merge[k].futures[1]) /\ IsReady(merge[k].futures[2])
  /\ merge' = [merge EXCEPT ![k].at = "right", ![k].left = Value(merge[k].futures[1]),
                            ![k].right = Value(merge[k].futures[2])]
  /\ UNCHANGED <<input, translator, layer, m_queue, writer, written, pc, queue, saved, final, pool>>

\* Forgets to finish the translator that is merged into the other.
FinishRightForgotten(k) ==
  /\ k \in running /\ merge[k].at = "right"
  /\ merge' = [merge EXCEPT ![k].at = "left"]
  /\ UNCHANGED <<input, translator, layer, m_queue, writer, written, pc, queue, saved, final, pool>>

FinishRight(k) ==
  /\ k \in running /\ merge[k].at = "right"
  /\ Finish(merge[k].right)
  /\ merge' = [merge EXCEPT ![k].at = "left"]
  /\ UNCHANGED <<input, translator, writer, written, pc, queue, saved, final, pool>>

FinishLeft(k) ==
  /\ k \in running /\ merge[k].at = "left"
  /\ Finish(merge[k].left)
  /\ merge' = [merge EXCEPT ![k].at = "merge"]
  /\ UNCHANGED <<input, translator, writer, written, pc, queue, saved, final, pool>>

\* The later collection replaces the earlier one.
MergeReplace(k) ==
  /\ k \in running /\ merge[k].at = "merge"
  /\ translator' = [translator EXCEPT ![merge[k].left].collected =
                      translator[merge[k].right].collected]
  /\ merge' = [merge EXCEPT ![k].at = "ended"]
  /\ Pool!Finish(k)
  /\ UNCHANGED <<input, layer, m_queue, writer, written, pc, queue, saved, final>>

\* leftTranslator->Merge(*rightTranslator): the collectors are joined.
Merge(k) ==
  /\ k \in running /\ merge[k].at = "merge"
  /\ translator' = [translator EXCEPT ![merge[k].left].collected =
                      @ \cup translator[merge[k].right].collected]
  /\ merge' = [merge EXCEPT ![k].at = "ended"]
  /\ Pool!Finish(k)
  /\ UNCHANGED <<input, layer, m_queue, writer, written, pc, queue, saved, final>>

\* The end of FinishTranslation: the last translator is finished and saved, and
\* the pool is destroyed.
FinishLast ==
  /\ pc = "merge" /\ Len(queue) = 1 /\ IsReady(queue[1])
  /\ Finish(Value(queue[1]))
  /\ saved' = translator[Value(queue[1])].collected
  /\ Pool!Close
  /\ pc' = "shutdown"
  /\ UNCHANGED <<input, translator, writer, written, queue, merge, final>>

----------------------------------------------------------------------------
(* GenerateFilteredFeatures and Execute *)

\* Tells the writer before the translators are finished.
ShutdownEarly ==
  LET told == writer.at = "exit" \/ EmptyMessage \in Elements(m_queue)
  IN  /\ pc = "shutdown" \/ (pc = "merge" /\ ~told)
      /\ m_queue' = IF told THEN m_queue ELSE Append(m_queue, EmptyMessage)
      /\ pc' = IF pc = "shutdown" THEN "join" ELSE pc
      /\ UNCHANGED <<input, translator, layer, writer, written, queue, merge, saved, final, pool>>

\* ShutdownAndJoin: the empty message, then the join.
Shutdown ==
  /\ pc = "shutdown"
  /\ m_queue' = Append(m_queue, EmptyMessage)
  /\ pc' = "join"
  /\ UNCHANGED <<input, translator, layer, writer, written, queue, merge, saved, final, pool>>

JoinWriter ==
  /\ pc = "join" /\ writer.at = "exit"
  /\ pc' = "final"
  /\ UNCHANGED <<input, translator, layer, m_queue, writer, written, queue, merge, saved, final, pool>>

InState(s) == {p \in FinalProcessor : final[p] = s}

\* The comparison of the priority queue the other way round.
IsTopLowest(p) == final[p] = "none" /\ \A q \in InState("none") : Priority[q] >= Priority[p]

\* m_finalProcessors.top()
IsTop(p) == final[p] = "none" /\ \A q \in InState("none") : Priority[q] <= Priority[p]

\* The processors that the pool of the present round has.
Round == InState("queued") \cup InState("run") \cup InState("ended")

\* The inner loop goes on while the next processor has the priority of the last.
SubmitFinal(p) ==
  /\ pc = "final" /\ IsTop(p)
  /\ \A q \in Round : Priority[q] = Priority[p]
  /\ final' = [final EXCEPT ![p] = "queued"]
  /\ UNCHANGED <<input, translator, layer, m_queue, writer, written, pc, queue, merge, saved, pool>>

RunFinal(p) ==
  /\ final[p] = "queued" /\ Cardinality(InState("run")) < poolSize
  /\ final' = [final EXCEPT ![p] = "run"]
  /\ UNCHANGED <<input, translator, layer, m_queue, writer, written, pc, queue, merge, saved, pool>>

EndFinal(p) ==
  /\ final[p] = "run"
  /\ final' = [final EXCEPT ![p] = "ended"]
  /\ UNCHANGED <<input, translator, layer, m_queue, writer, written, pc, queue, merge, saved, pool>>

\* The destructor of the pool at the end of a round.
JoinFinal ==
  /\ pc = "final" /\ Round # {} /\ Round = InState("ended")
  /\ \A p \in FinalProcessor : IsTop(p) => \E q \in Round : Priority[q] # Priority[p]
  /\ final' = [p \in FinalProcessor |-> IF p \in Round THEN "joined" ELSE final[p]]
  /\ UNCHANGED <<input, translator, layer, m_queue, writer, written, pc, queue, merge, saved, pool>>

Return ==
  /\ pc = "final" /\ InState("joined") = FinalProcessor
  /\ pc' = "done"
  /\ UNCHANGED <<input, translator, layer, m_queue, writer, written, queue, merge, saved, final, pool>>

Ended == pc = "done" /\ UNCHANGED vars

----------------------------------------------------------------------------

Init ==
  /\ input \in Inputs
  /\ translator = [t \in Translator |->
       [at |-> "translate", counter |-> 0, emit |-> <<>>, collected |-> {}]]
  /\ layer = [t \in Translator |->
       [buffer |-> [k \in 1..bufferedItemsCountMax |-> NoFeature], count |-> 0,
        queued |-> <<>>, chunks |-> <<>>]]
  /\ m_queue = <<>>
  /\ writer = [at |-> "wait", chunk |-> EmptyMessage]
  /\ written = <<>>
  /\ pc = "translate"
  /\ queue = <<>>
  /\ merge = <<>>
  /\ saved = {}
  /\ final = [p \in FinalProcessor |-> "none"]
  /\ Pool!Init

TranslatorStep(t) == Emit(t) \/ Handle(t) \/ EndOfInput(t)
WriterStep == Pop \/ Write
MergeStep == StartMerge \/ \E k \in 1..Len(merge) : GetBoth(k) \/ FinishRight(k) \/ FinishLeft(k) \/ Merge(k)
FinalStep == \E p \in FinalProcessor : RunFinal(p) \/ EndFinal(p)
MainStep ==
  \/ JoinTranslators \/ SubmitMerge \/ FinishLast
  \/ Shutdown \/ JoinWriter
  \/ \E p \in FinalProcessor : SubmitFinal(p)
  \/ JoinFinal \/ Return

Next ==
  \/ \E t \in Translator : TranslatorStep(t)
  \/ WriterStep \/ MergeStep \/ FinalStep \/ MainStep \/ Ended

\* Every thread that can go on is scheduled; the steps of a pool go on while one
\* of them can.
Spec ==
  /\ Init /\ [][Next]_vars
  /\ \A t \in Translator : WF_vars(TranslatorStep(t))
  /\ WF_vars(WriterStep) /\ WF_vars(MergeStep) /\ WF_vars(FinalStep) /\ WF_vars(MainStep)

----------------------------------------------------------------------------
(* Properties *)

Accepted == {n \in 0..(Len(input.elements) - 1) : input.elements[n + 1].accepted}
Features == UNION {{<<n, k>> : k \in 1..input.elements[n + 1].features} : n \in Accepted}

\* Types, and what the chunks of a translator are.
TypeOK ==
  /\ \A t \in Translator :
       /\ translator[t].counter \in 0..Len(input.elements)
       /\ Elements(translator[t].emit) \subseteq Features
       /\ translator[t].collected \subseteq Accepted
       /\ Len(layer[t].buffer) <= bufferedItemsCountMax
       /\ Elements(layer[t].buffer) \subseteq Features \cup {NoFeature}
       /\ Elements(layer[t].queued) \subseteq {<<t, k>> : k \in 1..Len(layer[t].chunks)}
  /\ writer.at \in {"wait", "write", "exit"}
  /\ Elements(written) \subseteq Features
  /\ pc \in {"translate", "merge", "shutdown", "join", "final", "done"}

\* PlaceNewItemInBuffer stays inside of m_itemsBufferPlace, although a chunk
\* that was flushed before it was full comes back shorter.
PlacedInRange == \A t \in Translator : layer[t].count <= Len(layer[t].buffer)

\* A chunk is not taken back while it is on its way to the writer: it holds
\* features as long as the queue or the writer has it.
SentChunkIsIntact ==
  \A t \in Translator : \A k \in 1..Len(layer[t].chunks) :
    <<t, k>> \in Elements(m_queue) \cup {writer.chunk} => layer[t].chunks[k] # <<>>

\* Every feature of an accepted element is in the output once for each thread
\* that reads the element: once for O5M files, as often as there are threads
\* for XML files.  It does not matter when chunks were flushed and taken back.
WrittenOnceByEachReader ==
  pc \in {"final", "done"} =>
    \A f \in Features : Cardinality({k \in 1..Len(written) : written[k] = f})
                          = IF input.type = "O5M" THEN 1 ELSE threadsCount

\* The empty message is the last one: "there is only one reader", and nothing
\* is left behind when the writer exits.
NothingAfterEmptyMessage == writer.at = "exit" => m_queue = <<>>

\* Save writes what all threads have collected.
SavedIsComplete == pc \in {"shutdown", "join", "final", "done"} => saved = Accepted

\* While a merge task works on two translators, nobody else does.
MergesAreApart ==
  \A k, l \in running :
    k # l /\ merge[k].at # "get" /\ merge[l].at # "get" =>
      {merge[k].left, merge[k].right} \cap {merge[l].left, merge[l].right} = {}

\* "Processors with higher priority will be called first."
\* (final_processor_intermediate_mwm.hpp:23)
HigherPriorityFirst ==
  \A p, q \in FinalProcessor :
    final[p] = "run" /\ Priority[q] > Priority[p] => final[q] \in {"ended", "joined"}

\* Execute comes to its end: no merge task waits for one that is never started,
\* and the writer gets its message.
ExecuteEnds == <>(pc = "done")
=============================================================================
