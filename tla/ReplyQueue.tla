----------------------------- MODULE ReplyQueue -----------------------------
(***************************************************************************)
(* The agent's request handling (agent/datainfo_agent.c): a pass of        *)
(* datainfo_agent_update takes every request the reader holds, runs its    *)
(* handler and puts the reply into a circular buffer; then it sends the    *)
(* buffered replies.  The buffer keeps one slot free to tell full from     *)
(* empty.  What a handler computes is abstracted to the request's number.  *)
(***************************************************************************)
EXTENDS Integers, Sequences

CONSTANTS
  QUEUE_SIZE,    \* slots of datainfo_replys
  Burst,         \* most requests outstanding at one agent
  MaxRequests    \* bound: requests the servers ever send

ASSUME SizeAssumption == QUEUE_SIZE \in Nat /\ QUEUE_SIZE >= 2
ASSUME BoundAssumption == Burst \in Nat /\ MaxRequests \in Nat

(* A request may be addressed to other agents only, or carry a type this     *)
(* agent does not know.                                                      *)
Kinds == {"mine", "other", "unknown"}

VARIABLES
  inbox,     \* the reader's samples, oldest first
  pc,        \* "idle" between two calls of rmt_agent_running
  q_front, q_rear,
  replys,    \* datainfo_replys: the request answered, 0 for msg = NULL
  sent,      \* replies handed to dds_transport_send
  wild,      \* a reply was written outside datainfo_replys
  arrived    \* requests sent so far

queue == <<q_front, q_rear, replys>>
vars  == <<inbox, pc, queue, sent, wild, arrived>>

Slots   == 0..QUEUE_SIZE - 1
Request == [n : 1..MaxRequests, kind : Kinds]

Occupancy ==
  IF q_rear >= q_front THEN q_rear - q_front ELSE q_rear - q_front + QUEUE_SIZE

(* The slot i places behind the front.                                       *)
Slot(i) == IF q_front + i < QUEUE_SIZE THEN q_front + i ELSE q_front + i - QUEUE_SIZE

-----------------------------------------------------------------------------
Init ==
  /\ inbox = << >> /\ pc = "idle"
  /\ q_front = 0 /\ q_rear = 0 /\ replys = [s \in Slots |-> 0]
  /\ sent = << >> /\ wild = FALSE /\ arrived = 0

(* A request reaches the reader.                                             *)
Arrive ==
  /\ arrived < MaxRequests /\ Len(inbox) + Occupancy < Burst
  /\ \E kind \in Kinds : inbox' = Append(inbox, [n |-> arrived + 1, kind |-> kind])
  /\ arrived' = arrived + 1
  /\ UNCHANGED <<pc, queue, sent, wild>>

(* Seeded faults of the three operators that follow.                         *)
AfterUnwrapped(s) == s + 1
AfterStuck(s)     == IF s + 1 = QUEUE_SIZE THEN s ELSE s + 1

After(s) == (s + 1) % QUEUE_SIZE

FullOneEarly  == After(After(q_rear)) = q_front
EmptyOneEarly == After(q_front) = q_rear

Full  == After(q_rear) = q_front
Empty == q_front = q_rear

SlotKept(s) == replys   \* seeded fault of SlotSent

SlotSent(s) == [replys EXCEPT ![s] = 0]

(* rmt_agent_running calls datainfo_agent_update.                            *)
Update ==
  /\ pc = "idle" /\ pc' = "recv"
  /\ UNCHANGED <<inbox, queue, sent, wild, arrived>>

(* recv_request: the index q_enqueue returns, -1 when the queue is full, is  *)
(* used unchecked; a request of an unknown type keeps its slot.              *)
RecvRequest ==
  /\ pc = "recv" /\ inbox # << >>
  /\ inbox' = Tail(inbox)
  /\ LET r == Head(inbox) IN
       \/ /\ r.kind = "other"
          /\ UNCHANGED <<queue, wild>>
       \/ /\ r.kind # "other" /\ Full
          /\ wild' = (wild \/ r.kind = "mine")
          /\ UNCHANGED queue
       \/ /\ r.kind # "other" /\ ~Full
          /\ q_rear' = After(q_rear)
          /\ replys' = IF r.kind = "mine" THEN [replys EXCEPT ![After(q_rear)] = r.n]
                                          ELSE replys
          /\ UNCHANGED <<q_front, wild>>
  /\ UNCHANGED <<pc, sent, arrived>>

(* The reader is empty: the replies' turn.                                   *)
RecvDone ==
  /\ pc = "recv" /\ inbox = << >> /\ pc' = "send"
  /\ UNCHANGED <<inbox, queue, sent, wild, arrived>>

(* datainfo_agent_send_data: one slot.                                       *)
SendReply ==
  /\ pc = "send" /\ ~Empty
  /\ q_front' = After(q_front)
  /\ LET n == replys[After(q_front)] IN
       sent' = IF n = 0 THEN sent ELSE Append(sent, n)
  /\ replys' = SlotSent(After(q_front))
  /\ UNCHANGED <<inbox, pc, q_rear, wild, arrived>>

SendDone ==
  /\ pc = "send" /\ Empty /\ pc' = "idle"
  /\ UNCHANGED <<inbox, queue, sent, wild, arrived>>

(* rmt_agent_deinit and rmt_agent_init: a new reader, every msg NULL, the    *)
(* two indices as they were.                                                 *)
Restart ==
  /\ pc = "idle"
  /\ inbox' = << >> /\ replys' = [s \in Slots |-> 0]
  /\ UNCHANGED <<pc, q_front, q_rear, sent, wild, arrived>>

Pass == Update \/ RecvRequest \/ RecvDone \/ SendReply \/ SendDone
Next == Arrive \/ Pass \/ Restart

Spec     == Init /\ [][Next]_vars
FairSpec == Spec /\ WF_vars(Pass)   \* "the function should always run"

-----------------------------------------------------------------------------
TypeOK ==
  /\ inbox \in Seq(Request) /\ pc \in {"idle", "recv", "send"}
  /\ q_front \in Slots /\ q_rear \in Slots /\ replys \in [Slots -> 0..MaxRequests]
  /\ sent \in Seq(1..MaxRequests) /\ wild \in BOOLEAN /\ arrived \in 0..MaxRequests

(* No reply is written outside the buffer.                                   *)
InBounds == ~wild

(* Between two passes nothing waits in the buffer, so a restart drops no     *)
(* reply that was already built.                                             *)
IdleIsDrained == pc = "idle" => Empty /\ \A s \in Slots : replys[s] = 0

(* A request is answered at most once, and no later than one that came after *)
(* it, although requests of unknown types take slots and are not answered.   *)
OnceInOrder == \A i, j \in DOMAIN sent : i < j => sent[i] < sent[j]

(* The buffer serves its requests once each, in the order they were taken.   *)
Places == [i \in 1..Occupancy |-> replys[Slot(i)]]
Fifo   == INSTANCE ReplyFifo WITH places <- Places, Numbers <- 0..MaxRequests
ImplementsFifo == Fifo!Spec

-----------------------------------------------------------------------------
(* The inductive invariant behind them: what lies outside the occupied slots *)
(* is NULL, a pass ends with an empty buffer, the outstanding requests fit.  *)
NullOutside == \A s \in Slots : replys[s] # 0 => \E i \in 1..Occupancy : s = Slot(i)
BurstFits   == Len(inbox) + Occupancy <= Burst
QueueInv    == NullOutside /\ (pc = "idle" => Empty) /\ BurstFits
=============================================================================
