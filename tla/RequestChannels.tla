-------------------------- MODULE RequestChannels --------------------------
(***************************************************************************)
(* What the send queue promises a request: the tasks that queue frames     *)
(* have a first-in first-out channel each, whatever the others queue.      *)
(* Nothing is said of the order between two tasks.                         *)
(***************************************************************************)
EXTENDS Naturals, Sequences

CONSTANTS Tasks,      \* the tasks promised an order
          Size        \* Size[p]: how many frames p queues in all

VARIABLES put,        \* put[p]: how many frames p has queued
          delivered   \* delivered[p]: the places of the frames handed out

Init == /\ put = [p \in Tasks |-> 0]
        /\ delivered = [p \in Tasks |-> <<>>]

Put(p) == /\ put[p] < Size[p]
          /\ put' = [put EXCEPT ![p] = @ + 1]
          /\ UNCHANGED delivered

Get(p) == /\ Len(delivered[p]) < put[p]
          /\ delivered' = [delivered EXCEPT ![p] = Append(@, Len(@) + 1)]
          /\ UNCHANGED put

Next == \E p \in Tasks : Put(p) \/ Get(p)

Spec == Init /\ [][Next]_<<put, delivered>>
=============================================================================
