------------------------- MODULE MCHierarchyReader -------------------------
EXTENDS HierarchyReader

CONSTANTS NameA, NameB

ALine(kind, id, address, null, rank, named) ==
  [kind |-> kind, id |-> id, address |-> address, null |-> null, rank |-> rank, named |-> named]

NoAddress == [t \in {} |-> NameA]
InCity(name) == [t \in {Country, Locality} |-> IF t = Country THEN NameA ELSE name]

\* A line of each fate.
BadLines == {
  ALine("version", 0, NoAddress, {}, 0, TRUE),
  ALine("empty", 0, NoAddress, {}, 0, TRUE),
  ALine("bad_id", 0, NoAddress, {}, 0, TRUE),
  ALine("not_object", 3, NoAddress, {}, 0, TRUE),
  ALine("bad_field", 3, NoAddress, {}, 0, TRUE),
  ALine("entry", 3, InCity(NameB), {Street}, 0, TRUE),
  ALine("entry", 3, [t \in {Street} |-> NameB], {}, 0, TRUE),
  ALine("entry", 3, [t \in {Building} |-> NameB], {}, 0, TRUE),
  ALine("entry", 3, NoAddress, {}, 1, FALSE)}

Town == ALine("entry", 2, InCity(NameA), {}, Locality, TRUE)
Land == ALine("entry", 1, InCity(NameB), {}, 256 + Country, FALSE)
Way  == ALine("entry", 1, [t \in {Subregion, Street} |-> NameB], {}, 0, TRUE)

Headline == CHOOSE b \in BadLines : b.kind = "version"

Input(lines, headline) == [lines |-> lines, dataVersionHeadline |-> headline]

\* No line, a block that ends with the input, more than a block; a bad line
\* with a good one; a data version, or none where one is expected.
MCInputs ==
  {Input(s, FALSE) : s \in {<<>>, <<Land, Town, Way>>, <<Way, Land, Land>>, <<Town, Way, Town>>}
                             \cup [1..2 -> {Town, Land, Way}]}
  \cup {Input(<<b, Town>>, FALSE) : b \in BadLines}
  \cup {Input(s, TRUE) : s \in {<<>>, <<Town>>, <<Headline, Town, Way>>}}
=============================================================================
