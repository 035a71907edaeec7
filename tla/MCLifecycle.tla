---------------------------- MODULE MCLifecycle ----------------------------
(* Lifecycle with two sub-reactors, three tasks and two signals.           *)
EXTENDS Lifecycle
=============================================================================
