-------------------------- MODULE MCFuriEventLoop ---------------------------
\* Model-checking instances of FuriEventLoop.
EXTENDS FuriEventLoop

CONSTANTS o1, o2

LevelIn == [dir |-> "in", edge |-> FALSE, once |-> FALSE]
LevelOut == [dir |-> "out", edge |-> FALSE, once |-> FALSE]
EdgeIn == [dir |-> "in", edge |-> TRUE, once |-> FALSE]
EdgeOut == [dir |-> "out", edge |-> TRUE, once |-> FALSE]
EdgeInOnce == [dir |-> "in", edge |-> TRUE, once |-> TRUE]

\* One object the loop reads from, for good or once, and one it writes to and,
\* by mistake, also reads from.
MixedEvents ==
    [o \in Object |-> IF o = o1 THEN {LevelIn, EdgeInOnce} ELSE {LevelOut, EdgeOut, EdgeIn}]
LevelEvents == [o \in Object |-> IF o = o1 THEN {LevelIn} ELSE {LevelOut}]
OnceEvents == [o \in Object |-> {EdgeInOnce}]

Symmetry == Permutations(Item)
=============================================================================
