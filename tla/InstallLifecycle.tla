-------------------------- MODULE InstallLifecycle --------------------------
(***************************************************************************)
(* What one installation slot promises, without locks, files or crashes.   *)
(*                                                                         *)
(* `life' is the lifecycle a user of the slot can rely on and `serving' is *)
(* whether a daemon of this installation answers on its pipe.  A daemon    *)
(* begins to serve only an ACTIVE installation, an installation is         *)
(* RETAINED or PURGING only once no daemon serves it, and an identity is   *)
(* forgotten only from PURGING.                                            *)
(***************************************************************************)

VARIABLES life, serving

lifecycleVars == <<life, serving>>

(* install_record.rs:708: the only legal moves of a durable record.         *)
Moves == {<<"ABSENT", "INSTALLING">>, <<"INSTALLING", "ACTIVE">>, <<"ACTIVE", "REMOVING">>,
          <<"REMOVING", "RETAINED">>, <<"RETAINED", "INSTALLING">>,
          <<"RETAINED", "PURGING">>, <<"PURGING", "ABSENT">>}

Quiet == {"ABSENT", "INSTALLING", "RETAINED", "PURGING"}

LifecycleInit == life = "ABSENT" /\ serving = FALSE

Move(to) ==
  /\ <<life, to>> \in Moves
  /\ to \in Quiet => ~serving
  /\ life' = to
  /\ UNCHANGED serving

BeginServing == life = "ACTIVE" /\ serving' = TRUE /\ UNCHANGED life

StopServing == serving /\ serving' = FALSE /\ UNCHANGED life

LifecycleNext ==
  \/ \E to \in Quiet \union {"ACTIVE", "REMOVING"} : Move(to)
  \/ BeginServing
  \/ StopServing

LifecycleSpec == LifecycleInit /\ [][LifecycleNext]_lifecycleVars
=============================================================================
