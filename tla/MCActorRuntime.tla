--------------------------- MODULE MCActorRuntime ---------------------------
(* Model-checking instances of ActorRuntime. *)
EXTENDS ActorRuntime, TLC

\* Messages, actors and threads of one kind are interchangeable; used by the
\* runs that check invariants only.
Symmetry ==
  Permutations(Workers) \cup Permutations(Actors) \cup Permutations(Msgs)
=============================================================================
