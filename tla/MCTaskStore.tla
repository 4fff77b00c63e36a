---------------------------- MODULE MCTaskStore ----------------------------
(* A small instance of TaskStore: one adapter, so that the tasks compete    *)
(* for its slot.                                                            *)
EXTENDS TaskStore, TLC

CONSTANT OnlyAdapter

MCAdapterOf == [t \in Tasks |-> OnlyAdapter]
MCAdapters == {OnlyAdapter}

Symmetry == Permutations(Tasks) \cup Permutations(Interactions)

=============================================================================
