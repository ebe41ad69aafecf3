----------------------------- MODULE ReplyFifo ------------------------------
(***************************************************************************)
(* What the agent's reply queue promises: every request it takes on gets a *)
(* place, and the places are served once each, in order.  A place holds    *)
(* the request's number, or 0 when the handler built no reply.             *)
(***************************************************************************)
EXTENDS Naturals, Sequences

CONSTANT Numbers   \* what a place may hold

VARIABLES
  places,   \* taken and not yet served
  sent      \* the replies handed to the transport

fifo == <<places, sent>>

Init == places = << >> /\ sent = << >>

Take(n) == places' = Append(places, n) /\ UNCHANGED sent

Serve ==
  /\ places # << >>
  /\ places' = Tail(places)
  /\ sent' = IF Head(places) = 0 THEN sent ELSE Append(sent, Head(places))

Next == Serve \/ \E n \in Numbers : Take(n)

Safe == Init /\ [][Next]_fifo
Spec == Safe /\ WF_fifo(Serve)
=============================================================================
