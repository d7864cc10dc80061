--------------------------- MODULE ActorDelivery ---------------------------
(***************************************************************************)
(* What the actor runtime promises its users: a message passed to          *)
(* async_actor::send is handled exactly once by its actor, and an actor    *)
(* handles its messages in the order in which they were put into its       *)
(* mailbox.  Each actor has one FIFO queue and no other state.             *)
(***************************************************************************)
EXTENDS Naturals, Sequences

CONSTANTS
  Actors,   \* the actors of one environment
  Msgs      \* message identities; each is sent at most once

VARIABLES
  queue,    \* queue[a]: accepted by a and not yet handled, oldest first
  handled,  \* handled[a]: what a's handlers were invoked with, oldest first
  sent      \* the messages that have been sent

vars == <<queue, handled, sent>>

Init ==
  /\ queue = [a \in Actors |-> <<>>]
  /\ handled = [a \in Actors |-> <<>>]
  /\ sent = {}

\* A message is accepted at the end of its actor's queue.
Accept(a, m) ==
  /\ m \notin sent
  /\ sent' = sent \cup {m}
  /\ queue' = [queue EXCEPT ![a] = Append(@, m)]
  /\ UNCHANGED handled

\* The actor's handler is invoked with the oldest message.
Handle(a) ==
  /\ queue[a] # <<>>
  /\ handled' = [handled EXCEPT ![a] = Append(@, Head(queue[a]))]
  /\ queue' = [queue EXCEPT ![a] = Tail(@)]
  /\ UNCHANGED sent

Next ==
  \/ \E a \in Actors, m \in Msgs : Accept(a, m)
  \/ \E a \in Actors : Handle(a)

Spec == Init /\ [][Next]_vars
=============================================================================
