--------------------------- MODULE HierarchyEntry ---------------------------
(***************************************************************************)
(* How a line of the hierarchy becomes an entry: the loop of               *)
(* DeserializeEntries (geocoder/hierarchy_reader.cpp), Hierarchy::Entry    *)
(* (geocoder/hierarchy.cpp) and NameDictionary (name_dictionary.cpp).      *)
(*                                                                         *)
(* A line is a record: kind says how far it can be read, id is its osm id, *)
(* address gives the types that have a main name, null the types of which  *)
(* some locale has a null name, rank is 0 if there is none, and named says *)
(* whether the default name is not empty.                                  *)
(***************************************************************************)
EXTENDS Naturals, SeqOps

CONSTANT Name   \* the MultipleNames values

\* Type, from the more general to the more specific; Count is no type.
Country == 1
Region == 2
Subregion == 3
Locality == 4
Street == 7
Building == 8
Type == 1..8
Count == 9

Kind == {"version", "empty", "bad_id", "not_object", "bad_field", "entry"}

Line == [kind : Kind, id : Nat, address : UNION {[S -> Name] : S \in SUBSET Type},
         null : SUBSET Type, rank : Nat, named : BOOLEAN]

----------------------------------------------------------------------------
(* NameDictionary and NameDictionaryBuilder *)

\* Takes every use of a name as a new one.
AddedAgain(dictionary, name) == Append(dictionary, name)

\* The dictionary after Add: a known name keeps its position.
Added(dictionary, name) ==
  IF name \in Elements(dictionary) THEN dictionary ELSE Append(dictionary, name)

\* The position Add returns.
PositionOf(dictionary, name) == FirstPosition(dictionary, name)

\* Add of the names of an address, in the order of types, up to type n.
AddedNames(dictionary, names) ==
  LET upTo[n \in 0..8] ==
        IF n = 0 THEN dictionary
        ELSE IF n \in DOMAIN names THEN Added(upTo[n - 1], names[n]) ELSE upTo[n - 1]
  IN  upTo[8]

----------------------------------------------------------------------------
(* Hierarchy::Entry *)

\* RankToType takes the number of the json as an uint8_t.
RankToType(number) ==
  LET rank == number % 256 IN IF rank \in Country..Locality THEN rank ELSE Count

\* m_type after DeserializeAddressFromJSON: the most specific type with a name,
\* unless the rank names another one.
EntryType(line) ==
  LET named == DOMAIN line.address
  IN  IF RankToType(line.rank) \in named THEN RankToType(line.rank)
      ELSE IF named = {} THEN Count
      ELSE CHOOSE t \in named : \A u \in named : u <= t

HasLocality(line) == DOMAIN line.address \cap {Subregion, Locality} # {}

\* DeserializeFromJSON returns true.
IsReadable(line) ==
  /\ line.kind = "entry"
  /\ line.null = {}
  /\ EntryType(line) \in {Street, Building} => HasLocality(line)

\* The line is kept.
IsLoaded(line) == IsReadable(line) /\ EntryType(line) # Count

\* The address types that are looked at: FetchAddressFieldNames gives up at the
\* first null name.
Fetched(line) ==
  {t \in DOMAIN line.address : line.kind = "entry" /\ \A u \in line.null : t < u}

\* The counters of ParsingStats that reading the line increments.
Counted(line) ==
  CASE line.kind \in {"bad_id", "version"} -> {"badOsmIds"}
    [] line.kind = "not_object"            -> {"badJsons"}
    [] line.kind \in {"empty", "bad_field"} \/ line.null # {} -> {}
    [] OTHER ->
       IF ~IsReadable(line)
       THEN {IF EntryType(line) = Street THEN "noLocalityStreets" ELSE "noLocalityBuildings"}
       ELSE (IF line.named THEN {} ELSE {"emptyNames"})
              \cup {IF EntryType(line) = Count THEN "emptyAddresses" ELSE "numLoaded"}

Counter == {"numLoaded", "badJsons", "badOsmIds", "duplicateOsmIds", "emptyAddresses",
            "emptyNames", "noLocalityStreets", "noLocalityBuildings"}

ZeroStats == [c \in Counter |-> 0]

StatsSum(a, b) == [c \in Counter |-> a[c] + b[c]]

----------------------------------------------------------------------------
(* DeserializeEntries *)

\* One line after the result of the lines before it.
DeserializeLine(result, line) ==
  LET names == [t \in Fetched(line) |-> line.address[t]]
      dictionary == AddedNames(result.dictionary, names)
      entry == [id |-> line.id, type |-> EntryType(line),
                address |-> [t \in DOMAIN names |-> PositionOf(dictionary, names[t])]]
  IN  [entries    |-> IF IsLoaded(line) THEN Append(result.entries, entry) ELSE result.entries,
       dictionary |-> dictionary,
       stats      |-> [c \in Counter |->
                         result.stats[c] + (IF c \in Counted(line) THEN 1 ELSE 0)]]

NoResult == [entries |-> <<>>, dictionary |-> <<>>, stats |-> ZeroStats]

DeserializeEntries(lines) ==
  LET read[n \in 0..Len(lines)] ==
        IF n = 0 THEN NoResult ELSE DeserializeLine(read[n - 1], lines[n])
  IN  read[Len(lines)]
=============================================================================
