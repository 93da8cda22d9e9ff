------------------------------ MODULE IvcQueue ------------------------------
(***************************************************************************)
(* What an IVC channel promises its two clients: a FIFO queue of at most   *)
(* Nframes frames each way, and a reset that empties both queues at once.  *)
(***************************************************************************)
EXTENDS Integers, Sequences

CONSTANTS A, B, Nframes, Payload

VARIABLE queue  \* queue[e]: frames sent by e that its peer has not taken

Other(e) == IF e = A THEN B ELSE A

Init == queue = [e \in {A, B} |-> <<>>]

Send(e, v) == /\ Len(queue[e]) < Nframes
              /\ queue' = [queue EXCEPT ![e] = Append(@, v)]

Receive(e) == /\ queue[Other(e)] # <<>>
              /\ queue' = [queue EXCEPT ![Other(e)] = Tail(@)]

Flush == queue' = [e \in {A, B} |-> <<>>]

Next == \/ \E e \in {A, B} : (\E v \in Payload : Send(e, v)) \/ Receive(e)
        \/ Flush

Spec == Init /\ [][Next]_queue

=============================================================================
