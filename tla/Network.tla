------------------------------- MODULE Network -------------------------------
(***************************************************************************)
(* The network interfaces of a machine (common/network.c), for the server  *)
(* and the agent.                                                          *)
(***************************************************************************)
EXTENDS Integers, Sequences

CONSTANTS
  Order,     \* the names if_nameindex returns, in its order, but the loopback's
  Wireless   \* those that start with 'w'

Interfaces  == {Order[i] : i \in DOMAIN Order}
NoInterface == ""

ASSUME OrderAssumption ==
  Order \in Seq(STRING \ {NoInterface}) /\ Wireless \subseteq Interfaces

(* net_select_interface, if the interfaces in up are up and running: the     *)
(* first wireless one, else the last one.                                    *)
SelectFrom(up) ==
  LET Up(names) == {i \in DOMAIN Order : Order[i] \in up \cap names}
      First(s) == CHOOSE i \in s : \A j \in s : i <= j
      Last(s)  == CHOOSE i \in s : \A j \in s : i >= j
  IN IF Up(Wireless) # {} THEN Order[First(Up(Wireless))]
     ELSE IF Up(Interfaces) # {} THEN Order[Last(Up(Interfaces))] ELSE NoInterface
=============================================================================
