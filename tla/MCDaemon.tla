------------------------------ MODULE MCDaemon ------------------------------
(* Two tasks, each with an adapter of its own. *)
EXTENDS Daemon, TLC

MCAdapterOf == [t \in Tasks |-> t]
MCAdapters == Tasks

=============================================================================
