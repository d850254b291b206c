------------------------------ MODULE MCLibrary ------------------------------
\* Instance for model checking: what the searches find.
EXTENDS LibraryProperties

\* A speaker narrows, uploads have nothing, the flat view has more rows than the grouped,
\* and each change of the index takes a row away.
SomeHits(n, v, q, sources, speaker) ==
    CASE speaker # None -> 1
      [] speaker = None /\ "uploads" \in sources -> 0
      [] OTHER -> (IF v = "flat" THEN 3 ELSE 2) - n

\* The speaker is heard in the feeds only.
SomeSpeakers(sources) == IF "uploads" \in sources THEN {} ELSE {"ann"}

\* The queries are interchangeable: Hits does not tell them apart.
SomeSymmetry == Permutations(Queries)

\* The specification of the feeds page alone.
FeedsSpec == LibraryInit /\ site = "feeds" /\ [][OnFeeds]_libraryVars
=============================================================================
