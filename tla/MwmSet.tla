------------------------------- MODULE MwmSet -------------------------------
(***************************************************************************)
(* The registry of map files (indexer/mwm_set.hpp, indexer/mwm_set.cpp).   *)
(*                                                                         *)
(* An MwmInfo object describes one version of a country's map file.        *)
(* Clients name it by an MwmId and keep its file open through MwmHandles.  *)
(* Every operation runs its body under m_lock and collects the events it   *)
(* causes; the events are sent to the observers after the lock is          *)
(* released (WithEventLog), so the body of an operation is one step and    *)
(* the delivery of each of its events is another.                          *)
(***************************************************************************)
EXTENDS Naturals, FiniteSets, SeqOps

CONSTANTS
  Country,       \* names of countries
  Version,       \* versions of map files
  Info,          \* MwmInfo objects; bounds how many the run creates
  Handle,        \* places that can hold an MwmHandle; bounds the live ones
  Thread,        \* client threads
  CacheSize,     \* m_cacheSize
  InfoOutcome,   \* what CreateInfo may do: "ok", "unsupported", "throw"
  ValueOutcome,  \* what CreateValue may do: "ok", "toomany", "throw"
  ClearAllowed,  \* whether clients call Clear
  NoInfo,        \* the null MwmId
  NoFile         \* the file of an MwmInfo that is not created yet

File == [country : Country, version : Version]

ASSUME MwmSetAssumption ==
  /\ IsFiniteSet(Handle)
  /\ Version \subseteq Nat
  /\ CacheSize \in Nat
  /\ NoInfo \notin Info
  /\ NoFile \notin File
  /\ InfoOutcome \subseteq {"ok", "unsupported", "throw"}
  /\ ValueOutcome \subseteq {"ok", "toomany", "throw"}
  /\ ClearAllowed \in BOOLEAN

VARIABLES
  file,      \* file[i]: MwmInfo::m_file, NoFile before i is created
  status,    \* status[i]: MwmInfo::m_status
  numRefs,   \* numRefs[i]: MwmInfo::m_numRefs
  m_info,    \* m_info[c]: the infos of country c, oldest first
  m_cache,   \* ids of the cached values, least recently released first
  handle,    \* handle[h]: the id locked by h, NoInfo for an empty place
  pending,   \* pending[t]: events thread t has not delivered yet
  view       \* what an observer that replays the events takes for registered

vars == <<file, status, numRefs, m_info, m_cache, handle, pending, view>>

Status == {"REGISTERED", "MARKED_TO_DEREGISTER", "DEREGISTERED"}

Event == [type : {"REGISTERED", "DEREGISTERED"}, file : File]
           \cup [type : {"UPDATED"}, file : File, oldFile : File]

----------------------------------------------------------------------------

\* MwmId::IsAlive; an info is DEREGISTERED until it is registered.
IsAlive(i) == i # NoInfo /\ status[i] # "DEREGISTERED"

GetMwmIdByCountryFileImpl(c) ==
  IF m_info[c] = <<>> THEN NoInfo ELSE Last(m_info[c])

IsLoaded(c) ==
  LET id == GetMwmIdByCountryFileImpl(c)
  IN  IsAlive(id) /\ status[id] = "REGISTERED"

\* The file of i has been created by CreateInfo: some client may hold its id.
Created(i) == file[i] # NoFile

\* Mutants of DeregisterImpl for the runs' properties.
DeregisterImplIgnoresRefs(i, refs) ==
  [ status  |-> [status EXCEPT ![i] = "DEREGISTERED"],
    m_info  |-> [m_info EXCEPT ![file[i].country] = RemoveFirst(@, i)],
    m_cache |-> RemoveFirst(m_cache, i),
    events  |-> <<[type |-> "DEREGISTERED", file |-> file[i]]>> ]

DeregisterImplSilent(i, refs) ==
  [ status  |-> [status EXCEPT ![i] = IF refs = 0 THEN "DEREGISTERED"
                                                  ELSE "MARKED_TO_DEREGISTER"],
    m_info  |-> IF refs = 0 THEN [m_info EXCEPT ![file[i].country] = RemoveFirst(@, i)]
                            ELSE m_info,
    m_cache |-> IF refs = 0 THEN RemoveFirst(m_cache, i) ELSE m_cache,
    events  |-> <<>> ]

(***************************************************************************)
(* DeregisterImpl(id) for an alive id whose counter is refs: the status,   *)
(* registry, cache and events it leaves.  An info is pushed once, so       *)
(* erase(remove(...)) takes one element out; the cache loop stops at the   *)
(* first value of the id.                                                  *)
(***************************************************************************)
DeregisterImpl(i, refs) ==
  IF refs = 0
  THEN [ status  |-> [status EXCEPT ![i] = "DEREGISTERED"],
         m_info  |-> [m_info EXCEPT ![file[i].country] = RemoveFirst(@, i)],
         m_cache |-> RemoveFirst(m_cache, i),
         events  |-> <<[type |-> "DEREGISTERED", file |-> file[i]]>> ]
  ELSE [ status  |-> [status EXCEPT ![i] = "MARKED_TO_DEREGISTER"],
         m_info  |-> m_info,
         m_cache |-> m_cache,
         events  |-> <<>> ]

\* Leaves everything as it is, in the shape DeregisterImpl returns.
NotDeregistered ==
  [status |-> status, m_info |-> m_info, m_cache |-> m_cache, events |-> <<>>]

\* A thread delivers the events of its last operation before the next one.
Idle(t) == pending[t] = <<>>

Log(t, events) == pending' = [pending EXCEPT ![t] = events]

----------------------------------------------------------------------------

\* Register of a country that has no alive map.  CreateInfo that throws or
\* returns null leaves everything as it was.
RegisterFirst(t, f) ==
  /\ Idle(t)
  /\ ~IsAlive(GetMwmIdByCountryFileImpl(f.country))
  /\ "ok" \in InfoOutcome
  /\ \E j \in Info :
       /\ ~Created(j)
       /\ file' = [file EXCEPT ![j] = f]
       /\ status' = [status EXCEPT ![j] = "REGISTERED"]
       /\ m_info' = [m_info EXCEPT ![f.country] = Append(@, j)]
  /\ Log(t, <<[type |-> "REGISTERED", file |-> f]>>)
  /\ UNCHANGED <<numRefs, m_cache, handle, view>>

\* Forgets to deregister the older map.
RegisterNewerKeepsOld(t, f) ==
  LET old == GetMwmIdByCountryFileImpl(f.country)
  IN  /\ Idle(t)
      /\ IsAlive(old)
      /\ file[old].version < f.version
      /\ "ok" \in InfoOutcome
      /\ \E j \in Info :
           /\ ~Created(j)
           /\ file' = [file EXCEPT ![j] = f]
           /\ status' = [status EXCEPT ![j] = "REGISTERED"]
           /\ m_info' = [m_info EXCEPT ![f.country] = Append(@, j)]
           /\ Log(t, <<[type |-> "UPDATED", file |-> f, oldFile |-> file[old]]>>)
      /\ UNCHANGED <<numRefs, m_cache, handle, view>>

(***************************************************************************)
(* Register of a version newer than the last one: the old map is           *)
(* deregistered first.  On success the sub-events become one UPDATED       *)
(* event; when CreateInfo returns null they are reported as they are; when *)
(* it throws, the exception leaves WithEventLog before any is delivered.   *)
(***************************************************************************)
RegisterNewer(t, f) ==
  LET old == GetMwmIdByCountryFileImpl(f.country)
      d   == DeregisterImpl(old, numRefs[old])
  IN  /\ Idle(t)
      /\ IsAlive(old)
      /\ file[old].version < f.version
      /\ \/ /\ "ok" \in InfoOutcome
            /\ \E j \in Info :
                 /\ ~Created(j)
                 /\ file' = [file EXCEPT ![j] = f]
                 /\ status' = [d.status EXCEPT ![j] = "REGISTERED"]
                 /\ m_info' = [d.m_info EXCEPT ![f.country] = Append(@, j)]
            /\ Log(t, <<[type |-> "UPDATED", file |-> f, oldFile |-> file[old]]>>)
         \/ /\ "unsupported" \in InfoOutcome
            /\ status' = d.status
            /\ m_info' = d.m_info
            /\ Log(t, d.events)
            /\ UNCHANGED file
         \/ /\ "throw" \in InfoOutcome
            /\ status' = d.status
            /\ m_info' = d.m_info
            /\ UNCHANGED <<file, pending>>
      /\ m_cache' = d.m_cache
      /\ UNCHANGED <<numRefs, handle, view>>

\* Does not announce that a marked map is registered again.
RegisterSameSilent(t, f) ==
  LET id == GetMwmIdByCountryFileImpl(f.country)
  IN  /\ Idle(t)
      /\ IsAlive(id)
      /\ file[id].version = f.version
      /\ status[id] # "REGISTERED"
      /\ status' = [status EXCEPT ![id] = "REGISTERED"]
      /\ UNCHANGED <<file, numRefs, m_info, m_cache, handle, pending, view>>

\* Register of the version the registry already has.  A version that is too
\* old changes nothing and is not a step.
RegisterSame(t, f) ==
  LET id == GetMwmIdByCountryFileImpl(f.country)
  IN  /\ Idle(t)
      /\ IsAlive(id)
      /\ file[id].version = f.version
      /\ status[id] # "REGISTERED"
      /\ status' = [status EXCEPT ![id] = "REGISTERED"]
      /\ Log(t, <<[type |-> "REGISTERED", file |-> file[id]]>>)
      /\ UNCHANGED <<file, numRefs, m_info, m_cache, handle, view>>

\* Deregister(countryFile): also drops every cached value of the id.
Deregister(t, c) ==
  LET id == GetMwmIdByCountryFileImpl(c)
      d  == DeregisterImpl(id, numRefs[id])
  IN  /\ Idle(t)
      /\ IsAlive(id)
      /\ status' = d.status
      /\ m_info' = d.m_info
      /\ m_cache' = RemoveEvery(d.m_cache, id)
      /\ Log(t, d.events)
      /\ UNCHANGED <<file, numRefs, handle, view>>

\* Hands the value out and leaves it in the cache; forgets to count it.
GetMwmHandleUncounted(t, h, i) ==
  /\ Idle(t)
  /\ handle[h] = NoInfo
  /\ IsAlive(i)
  /\ \/ i \in Elements(m_cache)
     \/ "ok" \in ValueOutcome
  /\ handle' = [handle EXCEPT ![h] = i]
  /\ UNCHANGED <<file, status, numRefs, m_info, m_cache, pending, view>>

\* Locks without asking whether the id is alive.
GetMwmHandleStale(t, h, i) ==
  /\ Idle(t)
  /\ handle[h] = NoInfo
  /\ Created(i)
  /\ \/ /\ numRefs' = [numRefs EXCEPT ![i] = @ + 1]
        /\ handle' = [handle EXCEPT ![h] = i]
        /\ m_cache' = RemoveFirst(m_cache, i)
        /\ UNCHANGED <<status, m_info, pending>>
     \/ LET d == DeregisterImpl(i, numRefs[i])
        IN  /\ status' = d.status
            /\ m_info' = d.m_info
            /\ m_cache' = d.m_cache
            /\ Log(t, d.events)
            /\ UNCHANGED <<numRefs, handle>>
  /\ UNCHANGED <<file, view>>

(***************************************************************************)
(* GetMwmHandleById(i), and GetMwmHandleByCountryFile with the last id of  *)
(* the country: LockValueImpl counts the reference, takes a cached value   *)
(* or creates one.  Too many open files gives the reference back and       *)
(* returns an empty handle; any other exception also deregisters the map.  *)
(***************************************************************************)
GetMwmHandle(t, h, i) ==
  /\ Idle(t)
  /\ handle[h] = NoInfo
  /\ IsAlive(i)
  /\ \/ /\ i \in Elements(m_cache)
        /\ m_cache' = RemoveFirst(m_cache, i)
        /\ numRefs' = [numRefs EXCEPT ![i] = @ + 1]
        /\ handle' = [handle EXCEPT ![h] = i]
        /\ UNCHANGED <<status, m_info, pending>>
     \/ /\ i \notin Elements(m_cache)
        /\ "ok" \in ValueOutcome
        /\ numRefs' = [numRefs EXCEPT ![i] = @ + 1]
        /\ handle' = [handle EXCEPT ![h] = i]
        /\ UNCHANGED <<status, m_info, m_cache, pending>>
     \/ /\ i \notin Elements(m_cache)
        /\ "toomany" \in ValueOutcome
        /\ UNCHANGED <<status, numRefs, m_info, m_cache, handle, pending>>
     \/ /\ i \notin Elements(m_cache)
        /\ "throw" \in ValueOutcome
        /\ LET d == DeregisterImpl(i, numRefs[i])
           IN  /\ status' = d.status
               /\ m_info' = d.m_info
               /\ m_cache' = d.m_cache
               /\ Log(t, d.events)
        /\ UNCHANGED <<numRefs, handle>>
  /\ UNCHANGED <<file, view>>

----------------------------------------------------------------------------

\* The cache never evicts.
PushToCacheUnbounded(cache, i) == Append(cache, i)

\* m_cache.push_back(value), evicting the oldest when the cache is over-full.
PushToCache(cache, i) ==
  LET pushed == Append(cache, i)
  IN  IF Len(pushed) > CacheSize THEN Tail(pushed) ELSE pushed

\* Forgets that a marked map is to be deregistered.
ReleaseHandleForgetsMarked(t, h) ==
  LET i == handle[h]
  IN  /\ Idle(t)
      /\ i # NoInfo
      /\ handle' = [handle EXCEPT ![h] = NoInfo]
      /\ numRefs' = [numRefs EXCEPT ![i] = @ - 1]
      /\ m_cache' = IF status[i] = "REGISTERED"
                    THEN PushToCache(m_cache, i) ELSE m_cache
      /\ UNCHANGED <<file, status, m_info, pending, view>>

(***************************************************************************)
(* ~MwmHandle: UnlockValueImpl.  The last handle of a marked map           *)
(* deregisters it; the value of an up-to-date map goes to the cache.       *)
(***************************************************************************)
ReleaseHandle(t, h) ==
  LET i    == handle[h]
      refs == numRefs[i] - 1
      d    == IF refs = 0 /\ status[i] = "MARKED_TO_DEREGISTER"
              THEN DeregisterImpl(i, refs) ELSE NotDeregistered
  IN  /\ Idle(t)
      /\ i # NoInfo
      /\ handle' = [handle EXCEPT ![h] = NoInfo]
      /\ \/ /\ IsAlive(i)
            /\ numRefs' = [numRefs EXCEPT ![i] = refs]
            /\ status' = d.status
            /\ m_info' = d.m_info
            /\ m_cache' = IF d.status[i] = "REGISTERED"
                          THEN PushToCache(d.m_cache, i) ELSE d.m_cache
            /\ Log(t, d.events)
         \/ /\ ~IsAlive(i)
            /\ UNCHANGED <<numRefs, status, m_info, m_cache, pending>>
      /\ UNCHANGED <<file, view>>

\* Clear: forgets the registry; "All known mwms won't be marked as
\* DEREGISTERED", so handles and ids given out before stay alive.
Clear(t) ==
  /\ Idle(t)
  /\ ClearAllowed
  /\ m_cache' = <<>>
  /\ m_info' = [c \in Country |-> <<>>]
  /\ UNCHANGED <<file, status, numRefs, handle, pending, view>>

ClearCache(t) ==
  /\ Idle(t)
  /\ m_cache' = <<>>
  /\ UNCHANGED <<file, status, numRefs, m_info, handle, pending, view>>

(***************************************************************************)
(* ProcessEventList, outside m_lock: the observers get the next event.     *)
(* view replays it: UPDATED is a registration of the new file and a        *)
(* deregistration of the old one, as the comment on OnMapUpdated allows.   *)
(***************************************************************************)
ProcessEvent(t) ==
  /\ pending[t] # <<>>
  /\ LET e == Head(pending[t])
     IN  view' = CASE e.type = "REGISTERED"   -> view \cup {e.file}
                   [] e.type = "UPDATED"      -> (view \ {e.oldFile}) \cup {e.file}
                   [] e.type = "DEREGISTERED" -> view \ {e.file}
  /\ pending' = [pending EXCEPT ![t] = Tail(@)]
  /\ UNCHANGED <<file, status, numRefs, m_info, m_cache, handle>>

----------------------------------------------------------------------------

\* MwmInfo's constructor: DEREGISTERED, no references.
Init ==
  /\ file = [i \in Info |-> NoFile]
  /\ status = [i \in Info |-> "DEREGISTERED"]
  /\ numRefs = [i \in Info |-> 0]
  /\ m_info = [c \in Country |-> <<>>]
  /\ m_cache = <<>>
  /\ handle = [h \in Handle |-> NoInfo]
  /\ pending = [t \in Thread |-> <<>>]
  /\ view = {}

Next ==
  \E t \in Thread :
    \/ \E f \in File : RegisterFirst(t, f) \/ RegisterNewer(t, f) \/ RegisterSame(t, f)
    \/ \E c \in Country : Deregister(t, c)
    \/ \E h \in Handle, i \in Info : GetMwmHandle(t, h, i)
    \/ \E h \in Handle : ReleaseHandle(t, h)
    \/ Clear(t)
    \/ ClearCache(t)
    \/ ProcessEvent(t)

Spec == Init /\ [][Next]_vars

----------------------------------------------------------------------------

\* Type correctness of every variable but the cache (see CacheBounded).
TypeOK ==
  /\ file \in [Info -> File \cup {NoFile}]
  /\ status \in [Info -> Status]
  /\ numRefs \in [Info -> Nat]
  /\ m_info \in [Country -> Seq(Info)]
  /\ handle \in [Handle -> Info \cup {NoInfo}]
  /\ pending \in [Thread -> Seq(Event)]
  /\ view \subseteq File

\* The cache holds at most m_cacheSize values, of infos that were created
\* (ASSERT_EQUAL at mwm_set.cpp:349).
CacheBounded ==
  /\ m_cache \in Seq(Info)
  /\ Len(m_cache) <= CacheSize
  /\ \A i \in Elements(m_cache) : Created(i)

\* The handles that lock i.
HandlesOf(i) == {h \in Handle : handle[h] = i}

\* m_numRefs counts the live handles of the map, along every path that locks,
\* unlocks or fails to create a value.
RefsCountHandles == \A i \in Info : numRefs[i] = Cardinality(HandlesOf(i))

\* A map that is locked by a handle is never deregistered under it
\* (ASSERT(id.IsAlive()) at mwm_set.cpp:330).
HandlesPinMaps == \A h \in Handle : handle[h] # NoInfo => IsAlive(handle[h])

\* "Marked to be deregistered as soon as possible": only a locked map stays
\* marked, so none is left behind when its last handle goes.
MarkedIsLocked ==
  \A i \in Info : status[i] = "MARKED_TO_DEREGISTER" => numRefs[i] > 0

\* The maps of a country are alive, its own, in strictly increasing order of
\* version, and all but the last wait for their handles to be released.
RegistryOrdered ==
  \A c \in Country :
    LET s == m_info[c]
    IN  /\ \A k \in 1..Len(s) : IsAlive(s[k]) /\ file[s[k]] \in File
                                  /\ file[s[k]].country = c
        /\ \A k, l \in 1..Len(s) :
             k < l => /\ file[s[k]].version < file[s[l]].version
                      /\ status[s[k]] = "MARKED_TO_DEREGISTER"

\* IsLoaded looks at the last map only, and misses no registered one.
LoadedIffRegistered ==
  \A c \in Country :
    IsLoaded(c) <=> \E k \in 1..Len(m_info[c]) : status[m_info[c][k]] = "REGISTERED"

\* Deregistration is final: a deregistered MwmInfo never comes back to life,
\* whatever stale ids clients keep.
DeregisteredIsFinal ==
  [][\A i \in Info : Created(i) /\ ~IsAlive(i) => ~IsAlive(i)']_vars

\* No single operation replaces the loaded map of a country by an older one.
LoadedVersionNeverDrops ==
  [][\A c \in Country :
       IsLoaded(c) /\ IsLoaded(c)' =>
         file[Last(m_info[c])].version <= (file[Last(m_info[c])].version)']_vars

----------------------------------------------------------------------------

\* All events are delivered.
Quiescent == \A t \in Thread : Idle(t)

FilesWith(S) == {file[i] : i \in {j \in Info : status[j] \in S}}

\* Once all events are delivered, an observer that replayed them knows every
\* registered map.
ObserverMissesNoMap == Quiescent => FilesWith({"REGISTERED"}) \subseteq view

\* Once all events are delivered, every map an observer takes for registered
\* can still be used: "Called when a map is deregistered and can no longer be
\* used" (mwm_set.hpp:261).
ObserverTrustsNoDeadMap ==
  Quiescent => view \subseteq FilesWith({"REGISTERED", "MARKED_TO_DEREGISTER"})

\* OnMapDeregistered is called for maps the observer still takes for
\* registered: OnMapUpdated stood for the deregistration of the old file
\* ("Feel free to treat it as combined OnMapRegistered(newFile) +
\* OnMapDeregistered(oldFile)", mwm_set.hpp:255).
DeregisteredOnce ==
  [][\A t \in Thread :
       /\ pending[t] # <<>> /\ pending'[t] = Tail(pending[t])
       /\ Head(pending[t]).type = "DEREGISTERED"
       => Head(pending[t]).file \in view]_vars

=============================================================================
