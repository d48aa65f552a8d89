-------------------------- MODULE MCKnowledgeBase --------------------------
EXTENDS KnowledgeBase, TLC
CONSTANTS i1, i2, s1, s2, s3, w1, w2

\* Two searches share an instance with a writer; the rest is elsewhere.
MCHome == [x \in Searchers \union Writers |-> IF x \in {s1, s2, w1} THEN i1 ELSE i2]
Symmetry == Permutations({s1, s2})
=============================================================================
