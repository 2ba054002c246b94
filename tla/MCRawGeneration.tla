--------------------------- MODULE MCRawGeneration ---------------------------
EXTENDS RawGeneration

Made(n) == [accepted |-> TRUE, features |-> n]
Filtered == [accepted |-> FALSE, features |-> 1]

File(type, elements) == [type |-> type, elements |-> elements]

\* An O5M file in which some threads flush several times, some once and some
\* never; an empty one; an XML file.
MCInputs ==
  {File("O5M", <<Made(3), Made(1), Filtered, Made(3), Made(0), Filtered, Filtered, Filtered,
                 Filtered, Made(1), Made(1)>>),
   File("O5M", <<>>),
   File("XML", <<Made(1), Filtered>>)}

MCFinal == {"world", "countries", "coasts"}
MCPriority == [p \in MCFinal |-> IF p = "coasts" THEN 2 ELSE 1]
=============================================================================
