------------------------- MODULE ReplyQueue_proofs --------------------------
(* Theorems about ReplyQueue, for every buffer size and every bound on the   *)
(* outstanding requests that leaves one slot free.                           *)
EXTENDS ReplyQueue, SequenceTheorems, TLAPS

(* The index arithmetic of q_enqueue and q_dequeue.                          *)
LEMMA AfterWraps ==
  ASSUME NEW s \in Slots
  PROVE  After(s) = IF s = QUEUE_SIZE - 1 THEN 0 ELSE s + 1
<1>1. CASE s = QUEUE_SIZE - 1
  <2>1. (s + 1) = QUEUE_SIZE
    BY <1>1, SizeAssumption
  <2>2. QUEUE_SIZE % QUEUE_SIZE = 0
    BY SizeAssumption
  <2> QED
    BY <1>1, <2>1, <2>2 DEF After
<1>2. CASE s # QUEUE_SIZE - 1
  <2>1. s + 1 \in 0..QUEUE_SIZE - 1
    BY <1>2, SizeAssumption DEF Slots
  <2>2. (s + 1) % QUEUE_SIZE = s + 1
    BY <2>1, SizeAssumption
  <2> QED
    BY <1>2, <2>2 DEF After
<1> QED
  BY <1>1, <1>2

LEMMA AfterInRange ==
  ASSUME NEW s \in Slots PROVE After(s) \in Slots
<1>1. After(s) = IF s = QUEUE_SIZE - 1 THEN 0 ELSE s + 1
  BY AfterWraps
<1> QED
  BY <1>1, SizeAssumption DEF Slots

LEMMA OccupancyRange ==
  ASSUME q_front \in Slots, q_rear \in Slots
  PROVE  /\ Occupancy \in 0..QUEUE_SIZE - 1
         /\ Occupancy = 0 <=> Empty
         /\ Occupancy = QUEUE_SIZE - 1 <=> Full
         /\ \A i \in 1..QUEUE_SIZE - 1 : Slot(i) \in Slots
         /\ \A i, j \in 1..Occupancy : Slot(i) = Slot(j) => i = j
BY AfterWraps, SizeAssumption DEF Slots, Occupancy, Empty, Full, Slot

(* q_enqueue on a buffer that is not full: one more place, at the end.       *)
LEMMA Enqueue ==
  ASSUME q_front \in Slots, q_rear \in Slots, ~Full,
         q_rear' = After(q_rear), q_front' = q_front
  PROVE  /\ q_rear' \in Slots
         /\ Occupancy' = Occupancy + 1
         /\ After(q_rear) = Slot(Occupancy + 1)
         /\ \A i \in 1..Occupancy : Slot(i) # After(q_rear)
         /\ \A i \in 1..QUEUE_SIZE - 1 : Slot(i)' = Slot(i)
<1>1. After(q_rear) = IF q_rear = QUEUE_SIZE - 1 THEN 0 ELSE q_rear + 1
  BY AfterWraps
<1> QED
  <2>1. q_rear' \in Slots /\ Occupancy' = Occupancy + 1
    BY <1>1, SizeAssumption DEF Slots, Occupancy, Full
  <2>2. After(q_rear) = Slot(Occupancy + 1)
    BY <1>1, SizeAssumption DEF Slots, Occupancy, Full, Slot
  <2>3. \A i \in 1..Occupancy : Slot(i) # After(q_rear)
    BY <1>1, SizeAssumption DEF Slots, Occupancy, Full, Slot
  <2>4. \A i \in 1..QUEUE_SIZE - 1 : Slot(i)' = Slot(i)
    BY DEF Slot
  <2> QED
    BY <2>1, <2>2, <2>3, <2>4

(* q_dequeue on a buffer that is not empty: the places move up by one.       *)
LEMMA Dequeue ==
  ASSUME q_front \in Slots, q_rear \in Slots, ~Empty,
         q_front' = After(q_front), q_rear' = q_rear
  PROVE  /\ q_front' \in Slots
         /\ Occupancy' = Occupancy - 1
         /\ After(q_front) = Slot(1)
         /\ \A i \in 1..Occupancy - 1 : Slot(i)' = Slot(i + 1) /\ Slot(i + 1) # After(q_front)
<1>1. After(q_front) = IF q_front = QUEUE_SIZE - 1 THEN 0 ELSE q_front + 1
  BY AfterWraps
<1> QED
  BY <1>1, SizeAssumption DEF Slots, Occupancy, Empty, Slot

-----------------------------------------------------------------------------
LEMMA TypeInit == Init => TypeOK
BY SizeAssumption, BoundAssumption DEF Init, TypeOK, Slots, Request

LEMMA TypeStep == TypeOK /\ [Next]_vars => TypeOK'
<1> SUFFICES ASSUME TypeOK, [Next]_vars PROVE TypeOK'
  OBVIOUS
<1> USE SizeAssumption, BoundAssumption DEF TypeOK
<1>1. CASE Arrive
  <2>1. PICK kind \in Kinds : inbox' = Append(inbox, [n |-> arrived + 1, kind |-> kind])
    BY <1>1 DEF Arrive
  <2>2. [n |-> arrived + 1, kind |-> kind] \in Request /\ arrived + 1 \in 0..MaxRequests
    BY <1>1 DEF Arrive, Request
  <2>3. inbox' \in Seq(Request)
    BY <2>1, <2>2
  <2> QED
    BY <1>1, <2>2, <2>3 DEF Arrive, queue
<1>2. CASE RecvRequest
  <2>1. inbox' \in Seq(Request) /\ Head(inbox) \in Request
    BY <1>2 DEF RecvRequest
  <2>2. After(q_rear) \in Slots
    BY AfterInRange
  <2>3. Head(inbox).n \in 0..MaxRequests
    BY <2>1 DEF Request
  <2> QED
    BY <1>2, <2>1, <2>2, <2>3 DEF RecvRequest, queue
<1>3. CASE SendReply
  <2>1. After(q_front) \in Slots
    BY AfterInRange
  <2>2. replys[After(q_front)] \in 0..MaxRequests
    BY <2>1
  <2>3. sent' \in Seq(1..MaxRequests)
    <3>1. CASE replys[After(q_front)] = 0
      BY <1>3, <3>1 DEF SendReply
    <3>2. CASE replys[After(q_front)] # 0
      <4>1. replys[After(q_front)] \in 1..MaxRequests
        BY <2>2, <3>2
      <4> QED
        BY <1>3, <3>2, <4>1 DEF SendReply
    <3> QED
      BY <3>1, <3>2
  <2> QED
    BY <1>3, <2>1, <2>3 DEF SendReply, SlotSent
<1>4. CASE Restart
  BY <1>4 DEF Restart, Slots
<1>5. CASE Update \/ RecvDone \/ SendDone \/ UNCHANGED vars
  BY <1>5 DEF Update, RecvDone, SendDone, queue, vars
<1> QED
  BY <1>1, <1>2, <1>3, <1>4, <1>5 DEF Next, Pass

(* Type correctness, for every buffer size.                                  *)
THEOREM TypeCorrect == Spec => []TypeOK
BY TypeInit, TypeStep, PTL DEF Spec

-----------------------------------------------------------------------------
(* A state function of the indices alone changes only when they do.          *)
LEMMA SameQueue ==
  ASSUME UNCHANGED <<q_front, q_rear>>
  PROVE  /\ Occupancy' = Occupancy /\ (Empty' <=> Empty) /\ (Full' <=> Full)
         /\ \A i \in Nat : Slot(i)' = Slot(i)
BY DEF Occupancy, Empty, Full, After, Slot

LEMMA QueueInit == Init => QueueInv
BY BoundAssumption DEF Init, QueueInv, NullOutside, BurstFits, Empty, Occupancy

LEMMA QueueStep == TypeOK /\ QueueInv /\ [Next]_vars => QueueInv'
<1> SUFFICES ASSUME TypeOK, QueueInv, [Next]_vars PROVE QueueInv'
  OBVIOUS
<1> USE DEF QueueInv
<1>r. /\ q_front \in Slots /\ q_rear \in Slots /\ replys \in [Slots -> 0..MaxRequests]
      /\ inbox \in Seq(Request) /\ Occupancy \in 0..QUEUE_SIZE - 1
  BY OccupancyRange DEF TypeOK
<1>1. ASSUME UNCHANGED <<queue>>, Len(inbox') <= Len(inbox), pc' = "idle" => Empty
      PROVE  QueueInv'
  <2>1. Occupancy' = Occupancy /\ (Empty' <=> Empty) /\ UNCHANGED replys
        /\ \A i \in Nat : Slot(i)' = Slot(i)
    BY <1>1, SameQueue DEF queue
  <2> QED
    BY <1>1, <1>r, <2>1, BoundAssumption DEF NullOutside, BurstFits
<1>2. CASE Arrive
  <2>1. Len(inbox') = Len(inbox) + 1
    BY <1>2, <1>r, BoundAssumption DEF Arrive, Request, Kinds, TypeOK
  <2>2. Occupancy' = Occupancy /\ (Empty' <=> Empty) /\ UNCHANGED replys
        /\ \A i \in Nat : Slot(i)' = Slot(i)
    BY <1>2, SameQueue DEF Arrive, queue
  <2> QED
    BY <1>2, <1>r, <2>1, <2>2, BoundAssumption DEF Arrive, NullOutside, BurstFits
<1>3. CASE RecvRequest
  <2>1. Len(inbox') = Len(inbox) - 1 /\ Len(inbox) \in Nat
    BY <1>3, <1>r DEF RecvRequest
  <2>2. CASE UNCHANGED queue
    BY <1>1, <1>3, <2>1, <2>2 DEF RecvRequest
  <2>3. CASE /\ ~Full /\ q_rear' = After(q_rear) /\ q_front' = q_front
             /\ replys' \in {replys, [replys EXCEPT ![After(q_rear)] = Head(inbox).n]}
    <3>1. /\ Occupancy' = Occupancy + 1
          /\ After(q_rear) = Slot(Occupancy + 1)
          /\ \A i \in 1..QUEUE_SIZE - 1 : Slot(i)' = Slot(i)
      BY <2>3, <1>r, Enqueue
    <3>2. Occupancy + 1 \in 1..QUEUE_SIZE - 1
      <4>1. Occupancy # QUEUE_SIZE - 1
        BY <2>3, <1>r, OccupancyRange
      <4> QED
        BY <4>1, <1>r, SizeAssumption
    <3>3. NullOutside'
      <4> SUFFICES ASSUME NEW s \in Slots, replys'[s] # 0
                   PROVE  \E i \in 1..Occupancy' : s = Slot(i)'
        BY DEF NullOutside
      <4>1. CASE s = After(q_rear)
        BY <4>1, <3>1, <3>2, <1>r
      <4>2. CASE s # After(q_rear)
        <5>1. PICK i \in 1..Occupancy : s = Slot(i)
          BY <4>2, <2>3, <1>r DEF NullOutside
        <5>2. i \in 1..QUEUE_SIZE - 1 /\ i \in 1..Occupancy + 1
          BY <3>2, <1>r, SizeAssumption
        <5> QED
          BY <5>1, <5>2, <3>1
      <4> QED
        BY <4>1, <4>2
    <3> QED
      BY <1>3, <1>r, <2>1, <3>1, <3>3, BoundAssumption DEF RecvRequest, BurstFits
  <2> QED
    BY <1>3, <2>2, <2>3 DEF RecvRequest, queue
<1>4. CASE SendReply
  <2>1. /\ Occupancy' = Occupancy - 1
        /\ After(q_front) = Slot(1)
        /\ \A i \in 1..Occupancy - 1 : Slot(i)' = Slot(i + 1)
    BY <1>4, <1>r, Dequeue DEF SendReply
  <2>2. NullOutside'
    <3> SUFFICES ASSUME NEW s \in Slots, replys'[s] # 0
                 PROVE  \E i \in 1..Occupancy' : s = Slot(i)'
      BY DEF NullOutside
    <3>1. s # Slot(1) /\ replys[s] # 0
      BY <1>4, <2>1, <1>r DEF SendReply, SlotSent
    <3>2. PICK i \in 1..Occupancy : s = Slot(i)
      BY <3>1 DEF NullOutside
    <3>3. i - 1 \in 1..Occupancy - 1 /\ Slot(i - 1)' = Slot(i)
      BY <3>1, <3>2, <2>1, <1>r
    <3> QED
      BY <3>2, <3>3, <2>1
  <2> QED
    BY <1>4, <1>r, <2>1, <2>2, BoundAssumption DEF SendReply, BurstFits
<1>5. CASE Restart
  <2>1. Occupancy' = Occupancy /\ (Empty' <=> Empty) /\ Empty
    BY <1>5, SameQueue DEF Restart
  <2>2. Len(inbox') = 0 /\ Len(inbox) \in Nat
    BY <1>5, <1>r DEF Restart
  <2> QED
    BY <1>5, <1>r, <2>1, <2>2, BoundAssumption DEF Restart, NullOutside, BurstFits
<1>6. CASE Update \/ RecvDone \/ SendDone \/ UNCHANGED vars
  <2>1. Len(inbox) \in Nat
    BY <1>r
  <2> QED
    BY <1>1, <1>6, <2>1 DEF Update, RecvDone, SendDone, vars, queue
<1> QED
  BY <1>2, <1>3, <1>4, <1>5, <1>6 DEF Next, Pass

(* For every buffer size, also when requests find the buffer full: what lies *)
(* outside the occupied slots is NULL, nothing is buffered between passes,   *)
(* and the occupied slots are among the outstanding requests.                *)
THEOREM QueueInvariant == Spec => []QueueInv
BY TypeInit, TypeStep, QueueInit, QueueStep, PTL DEF Spec

(* Whatever is outstanding, a pass leaves the buffer drained.                *)
THEOREM PassDrains == Spec => []IdleIsDrained
<1>1. TypeOK /\ QueueInv => IdleIsDrained
  <2> SUFFICES ASSUME TypeOK, QueueInv, pc = "idle" PROVE Empty /\ \A s \in Slots : replys[s] = 0
    BY DEF IdleIsDrained
  <2>1. Empty /\ Occupancy = 0
    BY OccupancyRange DEF QueueInv, TypeOK
  <2> QED
    BY <2>1 DEF QueueInv, NullOutside
<1> QED
  BY <1>1, TypeInit, TypeStep, QueueInit, QueueStep, PTL DEF Spec

(* q_enqueue's -1 is never used as an index as long as fewer requests than   *)
(* slots are outstanding at one agent.                                       *)
THEOREM NoWildWrite == Burst < QUEUE_SIZE => (Spec => []InBounds)
<1> SUFFICES ASSUME Burst < QUEUE_SIZE PROVE Spec => []InBounds
  OBVIOUS
<1>1. Init => InBounds
  BY DEF Init, InBounds
<1>2. TypeOK /\ QueueInv /\ InBounds /\ [Next]_vars => InBounds'
  <2> SUFFICES ASSUME TypeOK, QueueInv, InBounds, RecvRequest PROVE ~Full
    BY DEF InBounds, Next, Pass, Arrive, Update, RecvRequest, RecvDone, SendReply, SendDone,
           Restart, vars
  <2>1. Len(inbox) \in Nat /\ Len(inbox) >= 1
    BY DEF RecvRequest, TypeOK
  <2> QED
    BY <2>1, OccupancyRange, SizeAssumption, BoundAssumption DEF QueueInv, BurstFits, TypeOK
<1> QED
  BY <1>1, <1>2, TypeInit, TypeStep, QueueInit, QueueStep, PTL DEF Spec

-----------------------------------------------------------------------------
(* The refinement: the occupied slots, in order, are the places of the FIFO. *)

PlacesOK ==
  /\ Places \in Seq(0..MaxRequests) /\ Len(Places) = Occupancy
  /\ \A i \in 1..Occupancy : Places[i] = replys[Slot(i)]
  /\ Occupancy \in 0..QUEUE_SIZE - 1

LEMMA PlacesType == TypeOK => PlacesOK
<1> SUFFICES ASSUME TypeOK PROVE PlacesOK
  OBVIOUS
<1>1. Occupancy \in 0..QUEUE_SIZE - 1 /\ Occupancy \in Nat
  BY OccupancyRange, SizeAssumption DEF TypeOK
<1>2. \A i \in 1..Occupancy : replys[Slot(i)] \in 0..MaxRequests
  <2> SUFFICES ASSUME NEW i \in 1..Occupancy PROVE replys[Slot(i)] \in 0..MaxRequests
    OBVIOUS
  <2>1. i \in 1..QUEUE_SIZE - 1
    BY <1>1, SizeAssumption
  <2> QED
    BY <2>1, OccupancyRange DEF TypeOK
<1>3. Places \in Seq(0..MaxRequests) /\ Len(Places) = Occupancy
  BY <1>1, <1>2 DEF Places
<1> QED
  BY <1>1, <1>3 DEF Places, PlacesOK

LEMMA PlacesTypeNext == TypeOK' => PlacesOK'
  BY PlacesType, PTL

(* A request that gets a slot is appended to the FIFO, as 0 if its type is   *)
(* not known.                                                                *)
LEMMA TakeRefines ==
  ASSUME TypeOK, TypeOK', QueueInv, RecvRequest, ~Full, Head(inbox).kind # "other"
  PROVE  \E n \in 0..MaxRequests : n \in {0, Head(inbox).n} /\ Fifo!Take(n)
<1> DEFINE n == IF Head(inbox).kind = "mine" THEN Head(inbox).n ELSE 0
<1>r. /\ q_front \in Slots /\ q_rear \in Slots /\ replys \in [Slots -> 0..MaxRequests]
      /\ Head(inbox) \in Request /\ Occupancy \in 0..QUEUE_SIZE - 1
  BY OccupancyRange DEF TypeOK, RecvRequest
<1>1. /\ q_rear' = After(q_rear) /\ q_front' = q_front /\ sent' = sent
      /\ replys' = IF Head(inbox).kind = "mine"
                   THEN [replys EXCEPT ![After(q_rear)] = Head(inbox).n] ELSE replys
  BY DEF RecvRequest
<1>2. /\ Occupancy' = Occupancy + 1
      /\ After(q_rear) = Slot(Occupancy + 1)
      /\ \A i \in 1..Occupancy : Slot(i) # After(q_rear)
      /\ \A i \in 1..QUEUE_SIZE - 1 : Slot(i)' = Slot(i)
  BY <1>1, <1>r, Enqueue
<1>3. Occupancy + 1 \in 1..QUEUE_SIZE - 1 /\ Occupancy \in Nat
  <2>1. Occupancy # QUEUE_SIZE - 1
    BY <1>r, OccupancyRange
  <2> QED
    BY <2>1, <1>r, SizeAssumption
<1>4. replys'[After(q_rear)] = n /\ n \in 0..MaxRequests
  <2>1. After(q_rear) \in Slots
    BY <1>r, AfterInRange
  <2>2. CASE Head(inbox).kind = "mine"
    BY <1>1, <1>r, <2>1, <2>2 DEF Request
  <2>3. CASE Head(inbox).kind # "mine"
    BY <1>1, <1>2, <2>1, <2>3, BoundAssumption DEF QueueInv, NullOutside
  <2> QED
    BY <2>2, <2>3
<1>5. \A i \in 1..Occupancy : Places'[i] = Places[i]
  <2> SUFFICES ASSUME NEW i \in 1..Occupancy PROVE Places'[i] = Places[i]
    OBVIOUS
  <2>1. i \in 1..QUEUE_SIZE - 1 /\ i \in 1..Occupancy + 1
    BY <1>3, SizeAssumption
  <2>2. Places'[i] = replys'[Slot(i)] /\ Places[i] = replys[Slot(i)]
    BY <1>2, <2>1 DEF Places
  <2>3. Slot(i) \in Slots /\ Slot(i) # After(q_rear)
    BY <1>2, <1>r, <2>1, OccupancyRange
  <2> QED
    BY <1>1, <1>r, <2>2, <2>3
<1>6. Places'[Occupancy + 1] = n
  <2>1. Places'[Occupancy + 1] = replys'[Slot(Occupancy + 1)]
    BY <1>2, <1>3 DEF Places
  <2> QED
    BY <2>1, <1>2, <1>4
<1>7. Places' = Append(Places, n)
  <2>1. Places \in Seq(0..MaxRequests) /\ Len(Places) = Occupancy
    BY PlacesType DEF PlacesOK
  <2>2. Places' \in Seq(0..MaxRequests) /\ Len(Places') = Occupancy + 1
    BY PlacesTypeNext, <1>2 DEF PlacesOK
  <2>3. /\ Append(Places, n) \in Seq(0..MaxRequests) /\ Len(Append(Places, n)) = Occupancy + 1
        /\ \A i \in 1..Occupancy : Append(Places, n)[i] = Places[i]
        /\ Append(Places, n)[Occupancy + 1] = n
    BY <2>1, <1>4, AppendProperties
  <2>4. \A i \in 1..Occupancy + 1 : Places'[i] = Append(Places, n)[i]
    BY <1>3, <1>5, <1>6, <2>3
  <2> QED
    BY <2>2, <2>3, <2>4, SeqEqual
<1> QED
  BY <1>1, <1>4, <1>7 DEF Fifo!Take

(* A slot that is sent is the FIFO's head.                                   *)
LEMMA ServeRefines ==
  ASSUME TypeOK, TypeOK', QueueInv, SendReply
  PROVE  Fifo!Serve
<1>r. /\ q_front \in Slots /\ q_rear \in Slots /\ replys \in [Slots -> 0..MaxRequests]
      /\ Occupancy \in 0..QUEUE_SIZE - 1 /\ Occupancy # 0
  BY OccupancyRange DEF TypeOK, SendReply
<1>1. /\ Occupancy' = Occupancy - 1
      /\ After(q_front) = Slot(1)
      /\ \A i \in 1..Occupancy - 1 : Slot(i)' = Slot(i + 1) /\ Slot(i + 1) # After(q_front)
  BY <1>r, Dequeue DEF SendReply
<1>2. /\ Places \in Seq(0..MaxRequests) /\ Len(Places) = Occupancy /\ Places # << >>
      /\ Places' \in Seq(0..MaxRequests) /\ Len(Places') = Occupancy - 1
  <2>1. Places \in Seq(0..MaxRequests) /\ Len(Places) = Occupancy
    BY PlacesType DEF PlacesOK
  <2>2. Places # << >>
    BY <2>1, <1>r, EmptySeq
  <2>3. Places' \in Seq(0..MaxRequests) /\ Len(Places') = Occupancy - 1
    BY PlacesTypeNext, <1>1 DEF PlacesOK
  <2> QED
    BY <2>1, <2>2, <2>3
<1>3. Head(Places) = replys[After(q_front)]
  <2>1. Head(Places) = Places[1]
    BY <1>2, HeadTailProperties
  <2> QED
    BY <2>1, <1>1, <1>r, PlacesType DEF PlacesOK
<1>4. /\ Tail(Places) \in Seq(0..MaxRequests) /\ Len(Tail(Places)) = Occupancy - 1
      /\ \A i \in 1..Occupancy - 1 : Tail(Places)[i] = Places[i + 1]
  BY <1>2, HeadTailProperties
<1>5. \A i \in 1..Occupancy - 1 : Places'[i] = Tail(Places)[i]
  <2> SUFFICES ASSUME NEW i \in 1..Occupancy - 1 PROVE Places'[i] = Tail(Places)[i]
    OBVIOUS
  <2>1. i + 1 \in 1..Occupancy /\ i + 1 \in 1..QUEUE_SIZE - 1
    BY <1>r, SizeAssumption
  <2>2. Places'[i] = replys'[Slot(i + 1)] /\ Tail(Places)[i] = replys[Slot(i + 1)]
    BY <1>1, <1>4, <2>1 DEF Places
  <2>3. Slot(i + 1) \in Slots /\ Slot(i + 1) # After(q_front)
    BY <1>1, <1>r, <2>1, OccupancyRange
  <2> QED
    BY <2>2, <2>3, <1>r DEF SendReply, SlotSent
<1>6. Places' = Tail(Places)
  BY <1>2, <1>4, <1>5, SeqEqual
<1> QED
  BY <1>2, <1>3, <1>6 DEF Fifo!Serve, SendReply

(* The circular buffer implements the FIFO, for every buffer size and also   *)
(* when requests find it full.                                               *)
THEOREM QueueImplementsFifo == Spec => Fifo!Safe
<1>1. Init => Fifo!Init
  BY DEF Init, Fifo!Init, Places, Occupancy
<1>2. TypeOK /\ TypeOK' /\ QueueInv /\ [Next]_vars => [Fifo!Next]_(Fifo!fifo)
  <2> SUFFICES ASSUME TypeOK, TypeOK', QueueInv, [Next]_vars
               PROVE  Fifo!Next \/ UNCHANGED <<Places, sent>>
    BY DEF Fifo!fifo
  <2>1. ASSUME UNCHANGED <<queue, sent>> PROVE UNCHANGED <<Places, sent>>
    BY <2>1 DEF queue, Places, Occupancy, Slot
  <2>2. CASE RecvRequest
    <3>1. CASE ~Full /\ Head(inbox).kind # "other"
      BY <2>2, <3>1, TakeRefines DEF Fifo!Next
    <3>2. CASE Full \/ Head(inbox).kind = "other"
      BY <2>1, <2>2, <3>2 DEF RecvRequest
    <3> QED
      BY <3>1, <3>2
  <2>3. CASE SendReply
    BY <2>3, ServeRefines DEF Fifo!Next
  <2>4. CASE Restart
    <3>1. Occupancy = 0 /\ Occupancy' = 0
      BY <2>4, OccupancyRange, SameQueue DEF Restart, QueueInv, TypeOK
    <3> QED
      BY <2>4, <3>1 DEF Restart, Places
  <2>5. CASE Arrive \/ Update \/ RecvDone \/ SendDone \/ UNCHANGED vars
    BY <2>1, <2>5 DEF Arrive, Update, RecvDone, SendDone, vars
  <2> QED
    BY <2>2, <2>3, <2>4, <2>5 DEF Next, Pass
<1> QED
  BY <1>1, <1>2, TypeInit, TypeStep, QueueInit, QueueStep, PTL DEF Spec, Fifo!Safe
-----------------------------------------------------------------------------
(* A request's number passes from the inbox to its place and to sent, and    *)
(* those behind it are larger.                                               *)
OrderInv ==
  /\ \A i, j \in DOMAIN sent   : i < j => sent[i] < sent[j]
  /\ \A i, j \in DOMAIN Places : i < j /\ Places[j] # 0 => Places[i] < Places[j]
  /\ \A i, j \in DOMAIN inbox  : i < j => inbox[i].n < inbox[j].n
  /\ \A i \in DOMAIN sent, j \in DOMAIN Places : Places[j] # 0 => sent[i] < Places[j]
  /\ \A i \in DOMAIN sent, j \in DOMAIN inbox : sent[i] < inbox[j].n
  /\ \A i \in DOMAIN Places, j \in DOMAIN inbox : Places[i] < inbox[j].n
  /\ \A i \in DOMAIN sent : sent[i] <= arrived
  /\ \A i \in DOMAIN Places : Places[i] <= arrived
  /\ \A i \in DOMAIN inbox : inbox[i].n <= arrived

(* Where the elements of a sequence come from.                               *)
LEMMA AppendFrom ==
  ASSUME NEW S, NEW s \in Seq(S), NEW e \in S, NEW t, t = Append(s, e)
  PROVE  \A i \in DOMAIN t : \/ i \in DOMAIN s /\ t[i] = s[i]
                             \/ i = Len(s) + 1 /\ t[i] = e /\ \A j \in DOMAIN s : j < i
OBVIOUS

LEMMA AppendPairs ==
  ASSUME NEW S, NEW s \in Seq(S), NEW e \in S, NEW t, t = Append(s, e)
  PROVE  \A i, j \in DOMAIN t : i < j => /\ i \in DOMAIN s /\ t[i] = s[i]
                                         /\ \/ j \in DOMAIN s /\ t[j] = s[j]
                                            \/ t[j] = e
<1>1. DOMAIN s = 1..Len(s) /\ DOMAIN t = 1..Len(s) + 1 /\ Len(s) \in Nat
  OBVIOUS
<1> SUFFICES ASSUME NEW i \in DOMAIN t, NEW j \in DOMAIN t, i < j
             PROVE  /\ i \in DOMAIN s /\ t[i] = s[i]
                    /\ (j \in DOMAIN s /\ t[j] = s[j]) \/ t[j] = e
  OBVIOUS
<1>2. i \in DOMAIN s
  BY <1>1
<1> QED
  BY <1>2, AppendFrom

LEMMA ElementsOf ==
  ASSUME NEW S, NEW s \in Seq(S)
  PROVE  \A i \in DOMAIN s : s[i] \in S
OBVIOUS

LEMMA TailFrom ==
  ASSUME NEW S, NEW s \in Seq(S), s # << >>, NEW t, t = Tail(s)
  PROVE  /\ \A i \in DOMAIN t : i \in Nat /\ i + 1 \in DOMAIN s /\ t[i] = s[i + 1] /\ i + 1 > 1
         /\ 1 \in DOMAIN s /\ Head(s) = s[1] /\ s[1] \in S
<1>1. Tail(s) \in Seq(S) /\ Len(Tail(s)) = Len(s) - 1
  BY HeadTailProperties
<1>2. \A i \in 1..Len(Tail(s)) : Tail(s)[i] = s[i + 1]
  BY HeadTailProperties
<1>3. 1 \in DOMAIN s /\ Head(s) = s[1] /\ s[1] \in S
  OBVIOUS
<1> QED
  BY <1>1, <1>2, <1>3

LEMMA OrderTypes ==
  ASSUME TypeOK
  PROVE  /\ Places \in Seq(0..MaxRequests) /\ sent \in Seq(1..MaxRequests)
         /\ inbox \in Seq(Request) /\ arrived \in Nat
         /\ \A i \in DOMAIN Places : Places[i] \in Nat
         /\ \A i \in DOMAIN sent   : sent[i] \in Nat /\ sent[i] >= 1
         /\ \A i \in DOMAIN inbox  : inbox[i].n \in Nat /\ inbox[i].n >= 1
<1>1. Places \in Seq(0..MaxRequests)
  BY PlacesType DEF PlacesOK
<1>2. sent \in Seq(1..MaxRequests) /\ inbox \in Seq(Request) /\ arrived \in Nat
  BY BoundAssumption DEF TypeOK
<1>3. \A i \in DOMAIN Places : Places[i] \in Nat
  <2>1. \A i \in DOMAIN Places : Places[i] \in 0..MaxRequests
    BY <1>1, ElementsOf
  <2> QED
    BY <2>1
<1>4. \A i \in DOMAIN sent : sent[i] \in Nat /\ sent[i] >= 1
  <2>1. \A i \in DOMAIN sent : sent[i] \in 1..MaxRequests
    BY <1>2, ElementsOf
  <2> QED
    BY <2>1
<1>5. \A i \in DOMAIN inbox : inbox[i] \in Request
  BY <1>2, ElementsOf
<1>6. \A i \in DOMAIN inbox : inbox[i].n \in Nat /\ inbox[i].n >= 1
  BY <1>5 DEF Request
<1> QED
  BY <1>1, <1>2, <1>3, <1>4, <1>6

LEMMA OrderStep ==
  ASSUME TypeOK, TypeOK', QueueInv, OrderInv, [Next]_vars
  PROVE  OrderInv'
<1>1. /\ Places \in Seq(0..MaxRequests) /\ sent \in Seq(1..MaxRequests)
      /\ inbox \in Seq(Request) /\ arrived \in Nat
      /\ \A i \in DOMAIN Places : Places[i] \in Nat
      /\ \A i \in DOMAIN sent   : sent[i] \in Nat /\ sent[i] >= 1
      /\ \A i \in DOMAIN inbox  : inbox[i].n \in Nat /\ inbox[i].n >= 1
  BY OrderTypes
<1>2. ASSUME UNCHANGED <<queue>> PROVE UNCHANGED Places
  BY <1>2 DEF queue, Places, Occupancy, Slot
<1>3. CASE Arrive
  <2>1. PICK kind \in Kinds : inbox' = Append(inbox, [n |-> arrived + 1, kind |-> kind])
    BY <1>3 DEF Arrive
  <2> DEFINE r == [n |-> arrived + 1, kind |-> kind]
  <2>2. r \in Request /\ r.n = arrived + 1
    BY <1>1, <1>3, BoundAssumption DEF Arrive, Request, TypeOK
  <2>3. arrived' = arrived + 1 /\ UNCHANGED <<Places, sent>>
    BY <1>2, <1>3 DEF Arrive
  <2> HIDE DEF r
  <2>4. \A i \in DOMAIN inbox' :
          \/ i \in DOMAIN inbox /\ inbox'[i] = inbox[i]
          \/ i = Len(inbox) + 1 /\ inbox'[i].n = arrived + 1 /\ \A j \in DOMAIN inbox : j < i
    BY <1>1, <2>1, <2>2, AppendFrom DEF r
  <2>5. \A i, j \in DOMAIN inbox' : i < j => inbox'[i].n < inbox'[j].n
    <3> SUFFICES ASSUME NEW i \in DOMAIN inbox', NEW j \in DOMAIN inbox', i < j
                 PROVE  inbox'[i].n < inbox'[j].n
      OBVIOUS
    <3>1. i \in DOMAIN inbox /\ inbox'[i] = inbox[i]
      BY <1>1, <2>1, <2>2, AppendPairs DEF r
    <3>2. inbox[i].n <= arrived /\ inbox[i].n \in Nat
      BY <1>1, <3>1 DEF OrderInv
    <3>3. CASE j \in DOMAIN inbox /\ inbox'[j] = inbox[j]
      BY <3>1, <3>3 DEF OrderInv
    <3>4. CASE inbox'[j].n = arrived + 1
      BY <1>1, <3>1, <3>2, <3>4
    <3> QED
      BY <2>4, <3>3, <3>4
  <2>6. \A j \in DOMAIN inbox' : /\ inbox'[j].n <= arrived'
                                 /\ \A i \in DOMAIN sent   : sent[i] < inbox'[j].n
                                 /\ \A i \in DOMAIN Places : Places[i] < inbox'[j].n
    BY <1>1, <2>3, <2>4 DEF OrderInv
  <2> QED
    BY <1>1, <2>3, <2>5, <2>6 DEF OrderInv
<1>4. CASE RecvRequest
  <2>1. inbox' = Tail(inbox) /\ inbox # << >> /\ UNCHANGED <<sent, arrived>>
    BY <1>4 DEF RecvRequest
  <2>2. /\ \A i \in DOMAIN inbox' : i \in Nat /\ i + 1 \in DOMAIN inbox /\ i + 1 > 1
        /\ \A i \in DOMAIN inbox' : inbox'[i] = inbox[i + 1]
        /\ 1 \in DOMAIN inbox /\ Head(inbox) = inbox[1]
    BY <1>1, <2>1, TailFrom
  <2>3. /\ \A i, j \in DOMAIN inbox' : i < j => inbox'[i].n < inbox'[j].n
        /\ \A j \in DOMAIN inbox' : /\ inbox'[j].n <= arrived /\ inbox[1].n < inbox'[j].n
                                    /\ \A i \in DOMAIN sent   : sent[i] < inbox'[j].n
                                    /\ \A i \in DOMAIN Places : Places[i] < inbox'[j].n
    BY <1>1, <2>2 DEF OrderInv
  <2>4. CASE ~Full /\ Head(inbox).kind # "other"
    <3>1. PICK n \in 0..MaxRequests : n \in {0, inbox[1].n} /\ Places' = Append(Places, n)
      BY <1>4, <2>2, <2>4, TakeRefines DEF Fifo!Take
    <3>2. n \in Nat /\ n <= arrived /\ n <= inbox[1].n
      BY <1>1, <2>2, <3>1 DEF OrderInv
    <3>3. \A i \in DOMAIN Places' :
            \/ i \in DOMAIN Places /\ Places'[i] = Places[i]
            \/ i = Len(Places) + 1 /\ Places'[i] = n /\ \A j \in DOMAIN Places : j < i
      BY <1>1, <3>1, AppendFrom
    <3>4. \A i \in DOMAIN Places : Places[i] < inbox[1].n
      BY <2>2 DEF OrderInv
    <3>5. \A i, j \in DOMAIN Places' : i < j /\ Places'[j] # 0 => Places'[i] < Places'[j]
      <4> SUFFICES ASSUME NEW i \in DOMAIN Places', NEW j \in DOMAIN Places',
                          i < j, Places'[j] # 0
                   PROVE  Places'[i] < Places'[j]
        OBVIOUS
      <4>1. i \in DOMAIN Places /\ Places'[i] = Places[i]
        BY <1>1, <3>1, AppendPairs
      <4>2. CASE j \in DOMAIN Places /\ Places'[j] = Places[j]
        BY <4>1, <4>2 DEF OrderInv
      <4>3. CASE Places'[j] = n
        BY <3>1, <3>4, <4>1, <4>3
      <4> QED
        BY <3>3, <4>2, <4>3
    <3>6. \A i \in DOMAIN sent, j \in DOMAIN Places' : Places'[j] # 0 => sent[i] < Places'[j]
      BY <1>1, <2>2, <3>1, <3>3 DEF OrderInv
    <3>7. \A i \in DOMAIN Places' : /\ Places'[i] <= arrived
                                    /\ \A j \in DOMAIN inbox' : Places'[i] < inbox'[j].n
      <4> SUFFICES ASSUME NEW i \in DOMAIN Places'
                   PROVE  /\ Places'[i] <= arrived
                          /\ \A j \in DOMAIN inbox' : Places'[i] < inbox'[j].n
        OBVIOUS
      <4>1. CASE i \in DOMAIN Places /\ Places'[i] = Places[i]
        BY <2>3, <4>1 DEF OrderInv
      <4>2. CASE Places'[i] = n
        BY <1>1, <2>2, <2>3, <3>2, <4>2
      <4> QED
        BY <3>3, <4>1, <4>2
    <3> QED
      BY <2>1, <2>3, <3>5, <3>6, <3>7 DEF OrderInv
  <2>5. CASE Full \/ Head(inbox).kind = "other"
    <3>1. UNCHANGED Places
      BY <1>2, <1>4, <2>5 DEF RecvRequest
    <3> QED
      BY <2>1, <2>3, <3>1 DEF OrderInv
  <2> QED
    BY <2>4, <2>5
<1>5. CASE SendReply
  <2>1. /\ Places # << >> /\ Places' = Tail(Places) /\ UNCHANGED <<inbox, arrived>>
        /\ sent' = IF Head(Places) = 0 THEN sent ELSE Append(sent, Head(Places))
    BY <1>5, ServeRefines DEF Fifo!Serve, SendReply
  <2>2. /\ \A i \in DOMAIN Places' : i \in Nat /\ i + 1 \in DOMAIN Places /\ i + 1 > 1
        /\ \A i \in DOMAIN Places' : Places'[i] = Places[i + 1]
        /\ 1 \in DOMAIN Places /\ Head(Places) = Places[1] /\ Places[1] \in 0..MaxRequests
    <3>1. Places \in Seq(0..MaxRequests) /\ Places # << >> /\ Places' = Tail(Places)
      BY <1>1, <2>1
    <3> DEFINE S == 0..MaxRequests
               P == Places
               Q == Places'
    <3>2. P \in Seq(S) /\ P # << >> /\ Q = Tail(P)
      BY <3>1
    <3> HIDE DEF S, P, Q
    <3>3. /\ \A i \in DOMAIN Q : i \in Nat /\ i + 1 \in DOMAIN P /\ Q[i] = P[i + 1] /\ i + 1 > 1
          /\ 1 \in DOMAIN P /\ Head(P) = P[1] /\ P[1] \in S
      BY <3>2, TailFrom
    <3> QED
      BY <3>3 DEF S, P, Q
  <2>3. /\ \A i, j \in DOMAIN Places' : i < j /\ Places'[j] # 0 => Places'[i] < Places'[j]
        /\ \A j \in DOMAIN Places' : /\ Places'[j] <= arrived
                                     /\ Places'[j] # 0 => Places[1] < Places'[j]
                                     /\ \A i \in DOMAIN inbox : Places'[j] < inbox[i].n
                                     /\ \A i \in DOMAIN sent :
                                          Places'[j] # 0 => sent[i] < Places'[j]
    BY <1>1, <2>2 DEF OrderInv
  <2>4. CASE Head(Places) = 0
    BY <2>1, <2>3, <2>4 DEF OrderInv
  <2>5. CASE Head(Places) # 0
    <3>1. sent' = Append(sent, Places[1]) /\ Places[1] \in 1..MaxRequests
      BY <2>1, <2>2, <2>5
    <3>2. \A i \in DOMAIN sent' :
            \/ i \in DOMAIN sent /\ sent'[i] = sent[i]
            \/ i = Len(sent) + 1 /\ sent'[i] = Places[1] /\ \A j \in DOMAIN sent : j < i
      BY <1>1, <3>1, AppendFrom
    <3>3. \A i \in DOMAIN sent : sent[i] < Places[1]
      BY <2>2, <2>5 DEF OrderInv
    <3>4. \A i, j \in DOMAIN sent' : i < j => sent'[i] < sent'[j]
      <4> SUFFICES ASSUME NEW i \in DOMAIN sent', NEW j \in DOMAIN sent', i < j
                   PROVE  sent'[i] < sent'[j]
        OBVIOUS
      <4>1. i \in DOMAIN sent /\ sent'[i] = sent[i]
        BY <1>1, <3>1, AppendPairs
      <4>2. CASE j \in DOMAIN sent /\ sent'[j] = sent[j]
        BY <4>1, <4>2 DEF OrderInv
      <4>3. CASE sent'[j] = Places[1]
        BY <3>3, <4>1, <4>3
      <4> QED
        BY <3>2, <4>2, <4>3
    <3>5. \A i \in DOMAIN sent' : /\ sent'[i] <= arrived
                                  /\ \A j \in DOMAIN inbox : sent'[i] < inbox[j].n
                                  /\ \A j \in DOMAIN Places' :
                                       Places'[j] # 0 => sent'[i] < Places'[j]
      <4> SUFFICES ASSUME NEW i \in DOMAIN sent'
                   PROVE  /\ sent'[i] <= arrived
                          /\ \A j \in DOMAIN inbox : sent'[i] < inbox[j].n
                          /\ \A j \in DOMAIN Places' : Places'[j] # 0 => sent'[i] < Places'[j]
        OBVIOUS
      <4>1. CASE i \in DOMAIN sent /\ sent'[i] = sent[i]
        BY <2>3, <4>1 DEF OrderInv
      <4>2. CASE sent'[i] = Places[1]
        BY <2>2, <2>3, <4>2 DEF OrderInv
      <4> QED
        BY <3>2, <4>1, <4>2
    <3> QED
      BY <2>1, <2>3, <3>4, <3>5 DEF OrderInv
  <2> QED
    BY <2>4, <2>5
<1>6. CASE Restart
  <2>1. Occupancy' = 0
    BY <1>6, OccupancyRange, SameQueue DEF Restart, QueueInv, TypeOK
  <2>2. DOMAIN Places' = {} /\ DOMAIN inbox' = {} /\ UNCHANGED <<sent, arrived>>
    BY <1>6, <2>1 DEF Restart, Places
  <2> QED
    BY <2>2 DEF OrderInv
<1>7. CASE Update \/ RecvDone \/ SendDone \/ UNCHANGED vars
  <2>1. UNCHANGED <<Places, sent, inbox, arrived>>
    BY <1>2, <1>7 DEF Update, RecvDone, SendDone, vars
  <2> QED
    BY <2>1 DEF OrderInv
<1> QED
  BY <1>3, <1>4, <1>5, <1>6, <1>7 DEF Next, Pass

(* For every buffer size, also when requests find the buffer full: no        *)
(* request is answered twice, and none after a later one.                    *)
THEOREM AnsweredOnceInOrder == Spec => []OnceInOrder
<1>1. Init => OrderInv
  BY DEF Init, OrderInv, Places, Occupancy
<1>2. TypeOK /\ TypeOK' /\ QueueInv /\ OrderInv /\ [Next]_vars => OrderInv'
  BY OrderStep
<1>3. OrderInv => OnceInOrder
  BY DEF OrderInv, OnceInOrder
<1> QED
  BY <1>1, <1>2, <1>3, TypeInit, TypeStep, QueueInit, QueueStep, PTL DEF Spec
=============================================================================
