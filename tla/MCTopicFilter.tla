----------------------------- MODULE MCTopicFilter -----------------------------
(***************************************************************************)
(* A small instance of TopicFilter.                                        *)
(***************************************************************************)
EXTENDS TopicFilter, SequencesExt

CONSTANT MaxLevels  \* bound: levels of a filter or topic

SmallInputs == UNION {[1 .. n -> Levels] : n \in 1 .. MaxLevels}

\* Every level but the empty one is one byte, mixed ones are two.
LevelLen(level) == IF level = Empty THEN 0 ELSE IF level \in Mixed THEN 2 ELSE 1
SmallWireLen(s) == FoldLeft(LAMBDA n, level : n + LevelLen(level), Len(s) - 1, s)

================================================================================
