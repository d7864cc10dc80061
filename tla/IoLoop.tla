------------------------------- MODULE IoLoop -------------------------------
(***************************************************************************)
(* The io_context of a program, shared by its providers.  It runs on one   *)
(* thread until the process is told to stop, or ends by undefined          *)
(* behaviour.                                                              *)
(***************************************************************************)
VARIABLE loop

LoopStates == {"running", "stopped", "crashed"}

\* What the constructor of a listener leaves: no acceptor when it cannot be
\* opened, one that accepts nothing when the address cannot be bound, which
\* run does not notice (every accept fails and is tried again).
AcceptorStates == {"none", "unbound", "listening"}
=============================================================================
