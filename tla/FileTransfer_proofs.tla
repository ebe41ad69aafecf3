------------------------ MODULE FileTransfer_proofs ------------------------
(* Theorems about FileTransfer, for every set of clients and devices, every  *)
(* reply_timeout and every horizon.                                          *)
EXTENDS FileTransfer, FiniteSetTheorems, TLAPS

(* At least one group of stores: NoCall may point at the first.              *)
LEMMA FirstGroup == 1 \in 1..Len(StoreGroups)
<1>1. PICK k \in 1..Len(StoreGroups) : "status" \in StoreGroups[k]
  BY GroupsAssumption DEF Fields
<1>2. Len(StoreGroups) \in Nat
  BY GroupsAssumption
<1> QED
  BY <1>1, <1>2

(* What the callers of the cardinality of a set of devices need.             *)
LEMMA DeviceSets ==
  ASSUME NEW S \in SUBSET Devices
  PROVE  IsFiniteSet(S) /\ Cardinality(S) \in Nat
BY DevicesAssumption, FS_Subset, FS_CardinalityType

LEMMA NoCallType ==
  NoCall \in [pc : {"idle", "send", "mark", "store"}, type : Types,
              ids : SUBSET Devices, seq : Times,
              todo : SUBSET Devices, k : 1..Len(StoreGroups)]
BY FirstGroup, TimeAssumption DEF NoCall, Types, Times, MaxTime

LEMMA TypeInit == Init => TypeOK
BY NoCallType, TimeAssumption
   DEF Init, TypeOK, Types, Times, MaxTime, Status, Message

(* Every step of the program and of its environment keeps the types.         *)
LEMMA TypeStep == TypeOK /\ [Next]_vars => TypeOK'
<1> SUFFICES ASSUME TypeOK, [Next]_vars PROVE TypeOK'
  OBVIOUS
<1> USE TimeAssumption DEF TypeOK, Types, Status
<1> DEFINE Calls == [pc : {"idle", "send", "mark", "store"}, type : Types,
                     ids : SUBSET Devices, seq : Times,
                     todo : SUBSET Devices, k : 1..Len(StoreGroups)]
<1>t. /\ clock \in Nat /\ MaxTime \in Nat
      /\ clock < CallHorizon => clock \in Times
      /\ clock < MaxTime => clock + 1 \in Times
      /\ 0 \in Times
  BY DEF Times, MaxTime
<1>s. ASSUME NEW d \in Devices, NEW st \in Status, NEW res \in Times, SetStatus(d, st, res)
      PROVE  /\ agent_transfer_status' \in [Devices -> Status \cup {"ABSENT"}]
             /\ transfer_result' \in [Devices -> Times]
  BY <1>s DEF SetStatus, Listed
<1>1. ASSUME NEW c \in Clients, NEW t \in Types, NEW ids \in SUBSET Devices, Call(c, t, ids)
      PROVE  TypeOK'
  <2>1. [pc |-> "send", type |-> t, ids |-> ids, seq |-> clock, todo |-> {}, k |-> 1] \in Calls
    BY FirstGroup, <1>1, <1>t DEF Call
  <2> QED
    BY <1>1, <2>1 DEF Call, fts, devs, thread, network, history
<1>2. ASSUME NEW c \in Clients, Send(c) PROVE TypeOK'
  <2>1. PICK reached \in SUBSET cli[c].ids :
          requests' = requests \cup
            [id : reached, type : {cli[c].type}, random_seq : {cli[c].seq}]
    BY <1>2 DEF Send
  <2>2. cli[c] \in Calls
    OBVIOUS
  <2>3. requests' \in SUBSET Message
    BY <2>1, <2>2 DEF Message
  <2>4. cli' \in [Clients -> Calls]
    BY <1>2, <2>2 DEF Send
  <2> QED
    BY <1>2, <2>3, <2>4 DEF Send, fts, devs, thread, history
<1>3. ASSUME NEW c \in Clients, Mark(c) PROVE TypeOK'
  <2>2. cli[c] \in Calls
    OBVIOUS
  <2>1. PICK d \in cli[c].todo :
          /\ SetStatus(d, "RUNNING", 0)
          /\ asked_by' = [asked_by EXCEPT ![d] = cli[c].seq]
          /\ cli' = [cli EXCEPT ![c].todo = @ \ {d},
                                ![c].pc = IF cli[c].todo = {d} THEN "store" ELSE "mark"]
    BY <1>3 DEF Mark
  <2>3. d \in Devices /\ cli[c].seq \in Times /\ cli' \in [Clients -> Calls]
    BY <2>1, <2>2
  <2>4. asked_by' \in [Devices -> Times]
    BY <2>1, <2>3
  <2>5. /\ agent_transfer_status' \in [Devices -> Status \cup {"ABSENT"}]
        /\ transfer_result' \in [Devices -> Times]
    BY <2>1, <2>3, <1>s, <1>t
  <2> QED
    BY <1>3, <2>3, <2>4, <2>5 DEF Mark, fts, thread, network
<1>4. ASSUME NEW c \in Clients, Store(c) PROVE TypeOK'
  <2>1. cli[c] \in Calls
    OBVIOUS
  <2>2. Cardinality(cli[c].ids) \in Nat
    BY <2>1, DeviceSets
  <2>3. cli' \in [Clients -> Calls]
    <3>1. CASE cli[c].k = Len(StoreGroups)
      BY <1>4, <3>1, NoCallType DEF Store
    <3>2. CASE cli[c].k # Len(StoreGroups)
      <4>1. Len(StoreGroups) \in Nat /\ cli[c].k \in 1..Len(StoreGroups)
        BY <2>1, GroupsAssumption
      <4>2. cli[c].k + 1 \in 1..Len(StoreGroups)
        BY <4>1, <3>2
      <4>3. [cli[c] EXCEPT !.k = @ + 1] \in Calls
        BY <2>1, <4>2
      <4> QED
        BY <1>4, <3>2, <4>3 DEF Store
    <3> QED
      BY <3>1, <3>2
  <2>4. /\ status' \in {0, 1} /\ type' \in Types
        /\ start_time' \in Times /\ random_seq' \in Times
        /\ id_list' \in SUBSET Devices
        /\ id_num' \in Nat /\ recv_num' \in Nat
    BY <1>4, <2>1, <2>2 DEF Store
  <2> QED
    BY <1>4, <2>3, <2>4 DEF Store, devs, thread, network
<1>5. ASSUME RecvStep PROVE TypeOK'
  <2>1. CASE Instance
    BY <2>1 DEF Instance, fts, devs, network, history
  <2>2. CASE CheckRunning
    BY <2>2 DEF CheckRunning, FirstToPoll, fts, devs, network, history
  <2>3. CASE Take
    <3>1. PICK r \in replies :
            /\ replies' = replies \ {r}
            /\ IF ~ForMe(r)
               THEN UNCHANGED <<recv_num, devs, answered>>
               ELSE /\ recv_num' = recv_num + 1
                    /\ answered' = answered \cup {r.id}
                    /\ \E st \in {"DONE"} \cup IF type = "EXPORT" THEN {"SERVER_ERROR"} ELSE {} :
                         SetStatus(r.id, st, r.random_seq)
      BY <2>3 DEF Take
    <3>2. r.id \in Devices /\ r.random_seq \in Times
      BY DEF Message
    <3>3. /\ agent_transfer_status' \in [Devices -> Status \cup {"ABSENT"}]
          /\ transfer_result' \in [Devices -> Times]
          /\ recv_num' \in Nat /\ answered' \in SUBSET Devices
      <4>1. CASE ~ForMe(r)
        BY <3>1, <4>1 DEF devs
      <4>2. CASE ForMe(r)
        <5>1. PICK st \in {"DONE", "SERVER_ERROR"} : SetStatus(r.id, st, r.random_seq)
          BY <3>1, <4>2
        <5> QED
          BY <3>1, <4>2, <5>1, <3>2, <1>s
      <4> QED
        BY <4>1, <4>2
    <3> QED
      BY <2>3, <3>1, <3>3 DEF Take, thread
  <2>4. CASE TakeNothing
    BY <2>4 DEF TakeNothing, fts, devs, network, history
  <2>5. CASE CheckComplete
    BY <2>5 DEF CheckComplete, devs, network, history
  <2>6. CASE CheckTimeout
    BY <2>6 DEF CheckTimeout, fts, devs, network, history
  <2>7. CASE Expire
    <3>1. PICK d \in todo :
            /\ todo' = todo \ {d}
            /\ IF Expirable(d) THEN SetStatus(d, "AGENT_ERROR", 0) ELSE UNCHANGED devs
      BY <2>7 DEF Expire
    <3>2. /\ agent_transfer_status' \in [Devices -> Status \cup {"ABSENT"}]
          /\ transfer_result' \in [Devices -> Times]
      BY <3>1, <1>s, <1>t DEF devs
    <3> QED
      BY <2>7, <3>1, <3>2 DEF Expire, fts, network, history
  <2>8. CASE ExpireDone
    BY <2>8 DEF ExpireDone, devs, network, history
  <2>9. CASE Release
    BY <2>9 DEF Release, devs, network, history
  <2> QED
    BY <1>5, <2>1, <2>2, <2>3, <2>4, <2>5, <2>6, <2>7, <2>8, <2>9 DEF RecvStep
<1>6. CASE Reinit
  BY <1>6, <1>t DEF Reinit, thread, history
<1>7. ASSUME NEW d \in Devices, DeviceFound(d) \/ DeviceLost(d)
      PROVE  TypeOK'
  BY <1>7, <1>t, FreshAssumption
     DEF DeviceFound, DeviceLost, fts, devs, thread, network, history
<1>8. CASE AgentReply
  BY <1>8 DEF AgentReply, fts, devs, thread, history
<1>9. CASE Tick
  BY <1>9, <1>t DEF Tick, fts, devs, thread, network, history
<1>10. CASE UNCHANGED vars
  BY <1>10 DEF vars, fts, devs, thread, network, history
<1> QED
  BY <1>1, <1>2, <1>3, <1>4, <1>5, <1>6, <1>7, <1>8, <1>9, <1>10 DEF Next, ClientStep

(* Type correctness, for any number of clients and any order of the stores.  *)
THEOREM TypeCorrect == Spec => []TypeOK
BY TypeInit, TypeStep, PTL DEF Spec

-----------------------------------------------------------------------------
(* One API thread, and the stores to g_file_transfer_stat in any order and   *)
(* grouping that stores the status last: seen as one, in particular.         *)
OneClient  == \E client : Clients = {client}
StatusLast == \A k \in 1..Len(StoreGroups) :
                "status" \in StoreGroups[k] => k = Len(StoreGroups)

(* malloc'ed entries of the device list never happen to show RUNNING.        *)
EntriesStartSettled == "RUNNING" \notin FreshStatus

(* What a call has stored before the status stays as it stored it.           *)
StoredSoFar ==
  \A c \in Clients :
    /\ cli[c].pc # "store" => cli[c].k = 1
    /\ cli[c].pc = "store" => \A j \in 1..cli[c].k - 1 :
         /\ "recv_num" \in StoreGroups[j] => recv_num = 0
         /\ "random_seq" \in StoreGroups[j] => random_seq = cli[c].seq
         /\ "id_num" \in StoreGroups[j] => id_num = Cardinality(cli[c].ids)
         /\ "id_list" \in StoreGroups[j] => id_list = cli[c].ids

(* The part of TransferInv that does not depend on what malloc returns, and  *)
(* the part that does.                                                       *)
CoreInv ==
  /\ OneTransfer /\ FreshResult /\ PassIsShort /\ CountsAnswers /\ OneMessageEach
  /\ CallsAreFresh /\ AbsentIsEmpty /\ StoredSoFar

SettledInv == IdleSettled /\ ExpiryCovers

LEMMA TransferInit == Init => CoreInv /\ SettledInv
BY FS_EmptySet
   DEF Init, CoreInv, SettledInv, OneTransfer, AllIdle, NoCall, IdleSettled, Running,
       FreshResult, PassIsShort, ExpiryCovers, CountsAnswers, OneMessageEach,
       Messages, CallsAreFresh, AbsentIsEmpty, Listed, StoredSoFar

(* Taking one reply: what recv_file_transfer_reply may do.                   *)
LEMMA TransferTake ==
  ASSUME TypeOK, CoreInv, Take PROVE CoreInv' /\ (SettledInv => SettledInv')
<1>1. status = 1 /\ AllIdle /\ rpc = "poll"
  BY DEF Take, CoreInv, PassIsShort, OneTransfer
<1>2. PICK r \in replies :
        /\ replies' = replies \ {r}
        /\ IF ~ForMe(r)
           THEN UNCHANGED <<recv_num, devs, answered>>
           ELSE /\ recv_num' = recv_num + 1
                /\ answered' = answered \cup {r.id}
                /\ \E st \in {"DONE"} \cup IF type = "EXPORT" THEN {"SERVER_ERROR"} ELSE {} :
                     SetStatus(r.id, st, r.random_seq)
  BY DEF Take
<1>3. /\ UNCHANGED <<status, random_seq, id_list, id_num, cli, rpc, todo, requests, clock,
                     asked_by>>
      /\ r.id \in Devices
      /\ Messages' = Messages \ {r} /\ r \in Messages /\ r \notin requests
  BY <1>2 DEF Take, thread, Messages, TypeOK, Message, CoreInv, OneMessageEach
<1>4. /\ OneTransfer' /\ PassIsShort' /\ OneMessageEach' /\ CallsAreFresh' /\ StoredSoFar'
  BY <1>1, <1>2, <1>3
     DEF CoreInv, OneTransfer, AllIdle, PassIsShort, OneMessageEach, CallsAreFresh, StoredSoFar
<1>5. CASE ~ForMe(r)
  BY <1>1, <1>2, <1>3, <1>4, <1>5
     DEF CoreInv, SettledInv, IdleSettled, Running, FreshResult, ExpiryCovers, CountsAnswers,
         AbsentIsEmpty, Listed, devs
<1>6. CASE ForMe(r)
  <2>1. r.random_seq = random_seq /\ r.id \in id_list /\ r.id \notin answered
    BY <1>1, <1>3, <1>6 DEF ForMe, CoreInv, CountsAnswers
  <2>2. PICK st \in {"DONE", "SERVER_ERROR"} : SetStatus(r.id, st, random_seq)
    BY <1>2, <1>6, <2>1
  <2>3. /\ agent_transfer_status' =
             [agent_transfer_status EXCEPT ![r.id] = IF Listed(r.id) THEN st ELSE @]
        /\ transfer_result' =
             [transfer_result EXCEPT ![r.id] = IF Listed(r.id) THEN random_seq ELSE @]
    BY <2>2 DEF SetStatus
  <2>4. \A d \in Devices : /\ Listed(d)' <=> Listed(d)
                           /\ d \in Running' <=> d \in Running /\ d # r.id
    BY <2>3, <1>3 DEF TypeOK, Listed, Running
  <2>5. SettledInv => SettledInv'
    BY <1>1, <1>2, <1>3, <1>6, <2>4 DEF SettledInv, IdleSettled, ExpiryCovers, Running, AllIdle
  <2>6. FreshResult'
    BY <1>1, <1>3, <2>1, <2>3 DEF CoreInv, FreshResult, CountsAnswers, TypeOK
  <2>7. Cardinality(answered \cup {r.id}) = Cardinality(answered) + 1
    BY <2>1, DeviceSets, FS_AddElement DEF TypeOK
  <2>8. CountsAnswers'
    <3>1. /\ answered' = answered \cup {r.id} /\ recv_num' = recv_num + 1
      BY <1>2, <1>6
    <3>2. \A m \in Messages' : m.random_seq = random_seq => m.id \in id_list \ answered'
      BY <1>1, <1>3, <2>1, <3>1 DEF CoreInv, CountsAnswers, OneMessageEach
    <3> QED
      BY <1>1, <1>3, <2>1, <2>7, <3>1, <3>2 DEF CoreInv, CountsAnswers
  <2>9. AbsentIsEmpty'
    BY <1>1, <1>3, <2>3, <2>4 DEF CoreInv, AbsentIsEmpty, TypeOK
  <2> QED
    BY <1>4, <2>5, <2>6, <2>8, <2>9 DEF CoreInv
<1> QED
  BY <1>5, <1>6

(* The steps of the recv thread that take no reply.                          *)
LEMMA TransferPass ==
  ASSUME TypeOK, CoreInv, RecvStep, ~Take PROVE CoreInv' /\ (SettledInv => SettledInv')
<1> USE DEF CoreInv, SettledInv
<1>f. /\ UNCHANGED <<random_seq, recv_num, cli, requests, replies, clock, history>>
  BY DEF RecvStep, Instance, CheckRunning, TakeNothing, CheckComplete, CheckTimeout,
         Expire, ExpireDone, Release, fts, network, devs
<1>m. OneMessageEach' /\ CallsAreFresh' /\ Messages' = Messages
  BY <1>f DEF OneMessageEach, CallsAreFresh, Messages, history
<1>g. UNCHANGED <<id_list, id_num>> => StoredSoFar'
  BY <1>f DEF StoredSoFar
<1>1. CASE Instance \/ CheckRunning \/ TakeNothing
  BY <1>1, <1>m, <1>f, <1>g
     DEF Instance, CheckRunning, TakeNothing, fts, devs, history, network,
         OneTransfer, AllIdle, IdleSettled, Running, FreshResult, PassIsShort,
         ExpiryCovers, CountsAnswers, AbsentIsEmpty, Listed
<1>2. CASE CheckComplete
  <2>1. status = 1 /\ AllIdle /\ UNCHANGED <<devs, id_list, id_num, recv_num>>
    BY <1>2 DEF CheckComplete, PassIsShort, OneTransfer
  <2>2. AllReceived /\ SettledInv => Running = {}
    <3> SUFFICES ASSUME AllReceived, SettledInv PROVE Running = {}
      OBVIOUS
    <3>1. id_list \in SUBSET Devices /\ answered \subseteq id_list
          /\ Cardinality(answered) = Cardinality(id_list)
      BY <2>1 DEF AllReceived, CountsAnswers, TypeOK
    <3>2. answered = id_list
      BY <3>1, DeviceSets, FS_Subset
    <3> QED
      BY <3>2, <2>1 DEF IdleSettled, AllIdle
  <2>3. SettledInv => SettledInv'
    BY <1>2, <1>f, <2>1, <2>2
       DEF CheckComplete, IdleSettled, Running, ExpiryCovers, devs, history
  <2> QED
    BY <1>2, <1>m, <1>f, <1>g, <2>1, <2>3
       DEF CheckComplete, OneTransfer, AllIdle, FreshResult, PassIsShort, CountsAnswers,
           AbsentIsEmpty, Listed, devs, history
<1>3. CASE CheckTimeout
  <2>1. /\ UNCHANGED <<fts, devs>>
        /\ rpc' \in {"free", "crashed", "expire"}
        /\ rpc' = "expire" => todo' = id_list
    <3>1. CASE TimedOut
      BY <1>3, <3>1 DEF CheckTimeout
    <3>2. CASE ~TimedOut
      BY <1>3, <3>2 DEF CheckTimeout
    <3> QED
      BY <3>1, <3>2
  <2>2. rpc = "time"
    BY <1>3 DEF CheckTimeout
  <2>3. SettledInv => Running \subseteq id_list
    BY <2>2 DEF PassIsShort, IdleSettled
  <2>4. PassIsShort' /\ (SettledInv => SettledInv')
    BY <2>1, <2>2, <2>3, <1>f
       DEF IdleSettled, ExpiryCovers, PassIsShort, Running, devs, fts, history
  <2> QED
    BY <2>1, <2>4, <1>m, <1>f, <1>g
       DEF OneTransfer, AllIdle, FreshResult, CountsAnswers, AbsentIsEmpty, Listed,
           devs, history, fts
<1>4. CASE Expire
  <2>1. PICK d \in todo :
          /\ todo' = todo \ {d}
          /\ IF Expirable(d) THEN SetStatus(d, "AGENT_ERROR", 0) ELSE UNCHANGED devs
    BY <1>4 DEF Expire
  <2>2. /\ UNCHANGED <<fts, rpc>> /\ rpc = "expire" /\ d \in Devices
    BY <1>4 DEF Expire, TypeOK
  <2>3. /\ \A e \in Devices : Listed(e)' <=> Listed(e)
        /\ Running' = Running \ {d}
        /\ \A e \in Devices : transfer_result'[e] \in {0, transfer_result[e]}
    <3>1. CASE Expirable(d)
      BY <3>1, <2>1, <2>2 DEF SetStatus, TypeOK, Listed, Running
    <3>2. CASE ~Expirable(d)
      BY <3>2, <2>1, <2>2 DEF Expirable, GetStatus, TypeOK, Listed, Running, devs
    <3> QED
      BY <3>1, <3>2
  <2>4. FreshResult' /\ AbsentIsEmpty'
    BY <2>2, <2>3, <1>f DEF FreshResult, AbsentIsEmpty, history, TypeOK
  <2>5. SettledInv => SettledInv'
    BY <2>1, <2>2, <2>3, <1>f DEF ExpiryCovers, IdleSettled, history, fts
  <2> QED
    BY <2>2, <2>4, <2>5, <1>m, <1>f, <1>g
       DEF OneTransfer, AllIdle, PassIsShort, CountsAnswers, fts, history
<1>5. CASE ExpireDone
  <2>1. SettledInv => Running = {}
    BY <1>5 DEF ExpireDone, ExpiryCovers
  <2>2. SettledInv => SettledInv'
    BY <1>5, <2>1 DEF ExpireDone, IdleSettled, ExpiryCovers, Running, devs
  <2> QED
    BY <1>5, <2>2, <1>m, <1>f, <1>g
       DEF ExpireDone, OneTransfer, AllIdle, FreshResult, PassIsShort, CountsAnswers,
           AbsentIsEmpty, Listed, devs, history
<1>6. CASE Release
  <2>1. StoredSoFar'
    BY <1>6, <1>f DEF Release, PassIsShort, StoredSoFar
  <2> QED
    BY <1>6, <2>1, <1>m, <1>f
       DEF Release, OneTransfer, AllIdle, IdleSettled, Running, FreshResult,
           PassIsShort, ExpiryCovers, CountsAnswers, AbsentIsEmpty, Listed, devs, history
<1> QED
  BY <1>1, <1>2, <1>3, <1>4, <1>5, <1>6 DEF RecvStep

(* The stores of the one API thread: before the status, and with it.         *)
LEMMA StoreOutcome ==
  ASSUME TypeOK, CoreInv, OneClient, StatusLast, NEW c \in Clients, Store(c)
  PROVE  /\ cli[c].pc = "store" /\ cli[c].todo = {}
         /\ status = 0 /\ rpc \in {"top", "status"}
         /\ UNCHANGED <<devs, thread, network, clock, asked_by>> /\ answered' = {}
         /\ \/ /\ status' = 0
               /\ cli' = [cli EXCEPT ![c] = [cli[c] EXCEPT !.k = @ + 1]]
               /\ StoredSoFar'
            \/ /\ status' = 1 /\ recv_num' = 0 /\ random_seq' = cli[c].seq
               /\ id_num' = Cardinality(cli[c].ids) /\ id_list' = cli[c].ids
               /\ cli' = [cli EXCEPT ![c] = NoCall]
<1> USE DEF CoreInv
<1> DEFINE call == cli[c]
<1>c. \A e \in Clients : e = c
  BY DEF OneClient
<1>0. /\ call.pc = "store" /\ call.todo = {} /\ call.k \in 1..Len(StoreGroups)
      /\ Len(StoreGroups) \in Nat /\ cli \in [Clients -> [pc : {"idle", "send", "mark", "store"},
                type : Types, ids : SUBSET Devices, seq : Times,
                todo : SUBSET Devices, k : 1..Len(StoreGroups)]]
      /\ UNCHANGED <<devs, thread, network, clock, asked_by>> /\ answered' = {}
  BY GroupsAssumption DEF Store, TypeOK, CallsAreFresh
<1>s. status = 0 /\ rpc \in {"top", "status"}
  BY <1>0 DEF OneTransfer, AllIdle, PassIsShort, TypeOK
<1>n. /\ status' = IF "status" \in StoreGroups[call.k] THEN 1 ELSE status
      /\ recv_num' = IF "recv_num" \in StoreGroups[call.k] THEN 0 ELSE recv_num
      /\ random_seq' = IF "random_seq" \in StoreGroups[call.k] THEN call.seq ELSE random_seq
      /\ id_num' = IF "id_num" \in StoreGroups[call.k] THEN Cardinality(call.ids) ELSE id_num
      /\ id_list' = IF "id_list" \in StoreGroups[call.k] THEN call.ids ELSE id_list
      /\ cli' = [cli EXCEPT ![c] = IF call.k = Len(StoreGroups) THEN NoCall
                                   ELSE [call EXCEPT !.k = @ + 1]]
  BY DEF Store
<1>1. CASE call.k # Len(StoreGroups)
  <2>1. status' = 0
    BY <1>0, <1>1, <1>n, <1>s DEF StatusLast
  <2>2. cli' = [cli EXCEPT ![c] = [call EXCEPT !.k = @ + 1]]
    BY <1>1, <1>n
  <2>3. /\ cli'[c].pc = "store" /\ cli'[c].seq = call.seq /\ cli'[c].ids = call.ids
        /\ cli'[c].k = call.k + 1
    BY <1>0, <2>2
  <2>4. StoredSoFar'
    <3> SUFFICES ASSUME NEW j \in 1..call.k
                 PROVE  /\ "recv_num" \in StoreGroups[j] => recv_num' = 0
                        /\ "random_seq" \in StoreGroups[j] => random_seq' = call.seq
                        /\ "id_num" \in StoreGroups[j] => id_num' = Cardinality(call.ids)
                        /\ "id_list" \in StoreGroups[j] => id_list' = call.ids
      <4>1. cli'[c].k - 1 = call.k
        BY <1>0, <2>3
      <4> QED
        BY <1>c, <2>3, <4>1 DEF StoredSoFar
    <3>1. CASE j = call.k
      BY <1>n, <3>1
    <3>2. CASE j # call.k
      <4>1. j \in 1..call.k - 1
        BY <1>0, <3>2
      <4> QED
        BY <1>0, <1>n, <4>1 DEF StoredSoFar
    <3> QED
      BY <3>1, <3>2
  <2> QED
    BY <1>0, <1>s, <2>1, <2>2, <2>4
<1>2. CASE call.k = Len(StoreGroups)
  <2>1. ASSUME NEW f \in Fields
        PROVE  \/ f \in StoreGroups[call.k]
               \/ f # "status" /\ \E j \in 1..call.k - 1 : f \in StoreGroups[j]
    <3>1. PICK j \in 1..Len(StoreGroups) : f \in StoreGroups[j]
      BY GroupsAssumption
    <3>2. CASE j = call.k
      BY <3>1, <3>2
    <3>3. CASE j # call.k
      <4>1. j \in 1..call.k - 1
        BY <1>0, <1>2, <3>3
      <4>2. f # "status"
        BY <1>2, <3>1, <3>3 DEF StatusLast
      <4> QED
        BY <3>1, <4>1, <4>2
    <3> QED
      BY <3>2, <3>3
  <2>2. {"status", "recv_num", "random_seq", "id_num", "id_list"} \subseteq Fields
    BY DEF Fields
  <2>3. status' = 1
    BY <1>n, <2>1, <2>2
  <2>4. recv_num' = 0
    BY <1>0, <1>n, <2>1, <2>2 DEF StoredSoFar
  <2>5. random_seq' = call.seq
    BY <1>0, <1>n, <2>1, <2>2 DEF StoredSoFar
  <2>6. id_num' = Cardinality(call.ids)
    BY <1>0, <1>n, <2>1, <2>2 DEF StoredSoFar
  <2>7. id_list' = call.ids
    BY <1>0, <1>n, <2>1, <2>2 DEF StoredSoFar
  <2> QED
    BY <1>0, <1>s, <1>2, <1>n, <2>3, <2>4, <2>5, <2>6, <2>7
<1> QED
  BY <1>1, <1>2

LEMMA TransferStore ==
  ASSUME TypeOK, CoreInv, OneClient, StatusLast, NEW c \in Clients, Store(c)
  PROVE  CoreInv' /\ (SettledInv => SettledInv')
<1> USE DEF CoreInv, SettledInv
<1>c. \A e \in Clients : e = c
  BY DEF OneClient
<1>0. /\ cli[c].pc = "store" /\ cli[c].todo = {} /\ status = 0 /\ rpc \in {"top", "status"}
      /\ UNCHANGED <<devs, thread, network, clock, asked_by>> /\ answered' = {}
  BY StoreOutcome
<1>t. cli \in [Clients -> [pc : {"idle", "send", "mark", "store"}, type : Types,
                           ids : SUBSET Devices, seq : Times,
                           todo : SUBSET Devices, k : 1..Len(StoreGroups)]]
  BY DEF TypeOK
<1>g. FreshResult' /\ AbsentIsEmpty' /\ OneMessageEach' /\ ExpiryCovers' /\ Messages' = Messages
  BY <1>0
     DEF FreshResult, AbsentIsEmpty, Listed, OneMessageEach, ExpiryCovers, Messages,
         devs, network, thread
<1>1. CASE /\ status' = 0
           /\ cli' = [cli EXCEPT ![c] = [cli[c] EXCEPT !.k = @ + 1]]
           /\ StoredSoFar'
  <2>3. /\ cli'[c].pc = "store" /\ cli'[c].seq = cli[c].seq /\ cli'[c].ids = cli[c].ids
        /\ cli'[c].todo = {}
    BY <1>0, <1>t, <1>1
  <2>5. CallsAreFresh'
    BY <1>c, <1>0, <1>g, <2>3 DEF CallsAreFresh
  <2>6. IdleSettled => IdleSettled'
    BY <1>c, <1>0, <2>3 DEF IdleSettled, Running, devs
  <2> QED
    BY <1>0, <1>1, <1>g, <2>5, <2>6 DEF OneTransfer, PassIsShort, CountsAnswers, thread
<1>2. CASE /\ status' = 1 /\ recv_num' = 0 /\ random_seq' = cli[c].seq
           /\ id_num' = Cardinality(cli[c].ids) /\ id_list' = cli[c].ids
           /\ cli' = [cli EXCEPT ![c] = NoCall]
  <2>3. \A e \in Clients : cli'[e] = NoCall
    BY <1>c, <1>t, <1>2
  <2>4. \A e \in Clients : /\ cli'[e].pc = "idle" /\ cli'[e].todo = {} /\ cli'[e].k = 1
    BY <2>3 DEF NoCall
  <2>5. CountsAnswers'
    BY <1>0, <1>g, <1>2, FS_EmptySet DEF CountsAnswers, CallsAreFresh
  <2>6. IdleSettled => IdleSettled'
    BY <1>c, <1>0, <1>2 DEF IdleSettled, Running, devs
  <2> QED
    BY <1>0, <1>g, <2>4, <2>5, <2>6
       DEF OneTransfer, AllIdle, PassIsShort, CallsAreFresh, StoredSoFar, thread
<1> QED
  BY <1>1, <1>2, StoreOutcome

(* The steps of the one API thread.                                          *)
LEMMA TransferClient ==
  ASSUME TypeOK, CoreInv, OneClient, StatusLast, NEW c \in Clients,
         ClientStep(c) \/ \E t \in Types, ids \in SUBSET Devices : Call(c, t, ids)
  PROVE  CoreInv' /\ (SettledInv => SettledInv')
<1> USE DEF CoreInv, SettledInv
<1>c. \A e \in Clients : e = c
  BY DEF OneClient
<1>s. status = 0 /\ rpc # "poll"
  <2>1. status = 0 \/ cli[c].pc # "idle"
    BY DEF ClientStep, Call, Send, Mark, Store, NoTransfer
  <2>2. status = 0
    BY <2>1 DEF OneTransfer, AllIdle, TypeOK
  <2> QED
    BY <2>2 DEF PassIsShort
<1>r. clock \in Nat /\ cli[c].seq \in Nat
  BY DEF TypeOK, Times
<1>1. ASSUME NEW t \in Types, NEW ids \in SUBSET Devices, Call(c, t, ids)
      PROVE  CoreInv' /\ (SettledInv => SettledInv')
  <2>1. cli' = [cli EXCEPT ![c] = [pc |-> "send", type |-> t, ids |-> ids,
                                      seq |-> clock, todo |-> {}, k |-> 1]]
    BY <1>1 DEF Call
  <2>2. /\ cli'[c].pc = "send" /\ cli'[c].seq = clock /\ cli'[c].todo = {} /\ cli'[c].k = 1
        /\ cli[c].pc = "idle"
    BY <1>1, <2>1 DEF Call, TypeOK
  <2>3. UNCHANGED <<fts, devs, thread, network, clock, history>>
    BY <1>1 DEF Call
  <2>4. CallsAreFresh' /\ PassIsShort' /\ StoredSoFar'
    BY <1>c, <1>s, <2>2, <2>3, <1>r
       DEF CallsAreFresh, PassIsShort, OneMessageEach, Messages, StoredSoFar,
           thread, network, fts
  <2>5. SettledInv => SettledInv'
    BY <1>c, <1>s, <2>2, <2>3 DEF IdleSettled, ExpiryCovers, Running, devs, fts, thread, history
  <2> QED
    BY <1>s, <2>3, <2>4, <2>5
       DEF OneTransfer, FreshResult, CountsAnswers,
           AbsentIsEmpty, Listed, OneMessageEach, Messages, fts, devs, thread, network, history
<1>2. CASE Send(c)
  <2>1. PICK reached \in SUBSET cli[c].ids :
          requests' = requests \cup
            [id : reached, type : {cli[c].type}, random_seq : {cli[c].seq}]
    BY <1>2 DEF Send
  <2>2. /\ cli[c].pc = "send" /\ clock > cli[c].seq
        /\ cli' = [cli EXCEPT ![c].pc = "mark", ![c].todo = cli[c].ids]
        /\ UNCHANGED <<fts, devs, thread, replies, clock, history>>
    BY <1>2 DEF Send
  <2>3. /\ cli'[c].pc = "mark" /\ cli'[c].todo = cli'[c].ids /\ cli'[c].k = cli[c].k
        /\ cli'[c].seq = cli[c].seq /\ cli'[c].ids = cli[c].ids
    BY <2>2 DEF TypeOK
  <2>4. \A m \in Messages : m.random_seq < cli[c].seq /\ m.random_seq \in Nat
    BY <2>2 DEF CallsAreFresh, TypeOK, Message, Messages, Times
  <2>5. \A m \in Messages' : \/ m \in Messages
                             \/ /\ m.id \in cli[c].ids /\ m.random_seq = cli[c].seq
                                /\ m.type = cli[c].type
                                /\ m \in [id : Devices, type : Types, random_seq : Times]
    BY <2>1, <2>2 DEF Messages, TypeOK
  <2>6. OneMessageEach'
    <3>1. \A m \in Messages' : m.random_seq < clock'
      BY <2>2, <2>4, <2>5, <1>r DEF OneMessageEach
    <3>2. \A m, n \in Messages' : m.id = n.id /\ m.random_seq = n.random_seq => m = n
      BY <2>4, <2>5, <1>r DEF OneMessageEach
    <3>3. requests' \cap replies' = {}
      BY <2>1, <2>2, <2>4, <1>r DEF OneMessageEach, Messages
    <3> QED
      BY <3>1, <3>2, <3>3 DEF OneMessageEach
  <2>7. CallsAreFresh'
    <3>1. ASSUME NEW m \in Messages', m.random_seq = cli[c].seq PROVE m.id \in cli[c].ids
      BY <3>1, <2>4, <2>5, <1>r
    <3>2. cli'[c].seq <= clock'
      BY <1>r, <2>2, <2>3
    <3> QED
      BY <1>c, <2>3, <3>1, <3>2 DEF CallsAreFresh
  <2>8. PassIsShort' /\ StoredSoFar'
    <3>1. PassIsShort'
      BY <1>s, <1>c, <1>r, <2>2 DEF PassIsShort, thread
    <3>2. cli'[c].k = 1
      BY <2>2, <2>3 DEF StoredSoFar
    <3> QED
      BY <1>c, <2>3, <3>1, <3>2 DEF StoredSoFar
  <2>9. SettledInv => SettledInv'
    BY <1>s, <1>c, <2>2, <2>3 DEF IdleSettled, ExpiryCovers, Running, devs, fts, thread, history
  <2> QED
    BY <1>s, <2>2, <2>6, <2>7, <2>8, <2>9
       DEF OneTransfer, FreshResult, CountsAnswers, AbsentIsEmpty, Listed,
           fts, devs, thread, history
<1>3. CASE Mark(c)
  <2>1. PICK d \in cli[c].todo :
          /\ SetStatus(d, "RUNNING", 0)
          /\ asked_by' = [asked_by EXCEPT ![d] = cli[c].seq]
          /\ cli' = [cli EXCEPT ![c].todo = @ \ {d},
                                ![c].pc = IF cli[c].todo = {d} THEN "store" ELSE "mark"]
    BY <1>3 DEF Mark
  <2>2. /\ cli[c].pc = "mark" /\ d \in Devices
        /\ UNCHANGED <<fts, thread, network, clock, answered>>
    BY <1>3 DEF Mark, TypeOK
  <2>3. /\ cli'[c].todo = cli[c].todo \ {d} /\ cli'[c].pc \in {"mark", "store"}
        /\ cli'[c].pc = "store" => cli[c].todo = {d}
        /\ cli'[c].seq = cli[c].seq /\ cli'[c].ids = cli[c].ids /\ cli'[c].k = cli[c].k
    BY <2>1 DEF TypeOK
  <2>4. /\ \A e \in Devices : Listed(e)' <=> Listed(e)
        /\ Running' \subseteq Running \cup {d}
        /\ \A e \in Devices : e # d => transfer_result'[e] = transfer_result[e]
        /\ transfer_result'[d] = 0
    BY <2>1, <2>2 DEF SetStatus, TypeOK, Listed, Running, AbsentIsEmpty
  <2>5. Messages' = Messages /\ OneMessageEach'
    BY <2>2 DEF Messages, OneMessageEach, network
  <2>6. rpc \in {"top", "status"}
    BY <1>s, <2>2 DEF PassIsShort, TypeOK
  <2>7. IdleSettled => IdleSettled'
    <3> SUFFICES ASSUME IdleSettled, NEW e \in Running'
                 PROVE  cli'[c].pc \in {"mark", "store"} /\ e \in cli'[c].ids \ cli'[c].todo
      BY <1>c DEF IdleSettled
    <3>1. CASE e = d
      BY <3>1, <2>1, <2>3 DEF CallsAreFresh
    <3>2. CASE e # d
      BY <3>2, <1>c, <1>s, <2>3, <2>4 DEF IdleSettled
    <3> QED
      BY <3>1, <3>2
  <2>8. CallsAreFresh'
    BY <1>c, <2>1, <2>2, <2>3, <2>5 DEF CallsAreFresh, TypeOK
  <2>9. StoredSoFar'
    <3>1. cli[c].k = 1
      BY <2>2 DEF StoredSoFar
    <3> QED
      BY <1>c, <2>3, <3>1 DEF StoredSoFar
  <2> QED
    BY <1>s, <2>1, <2>2, <2>4, <2>5, <2>6, <2>7, <2>8, <2>9
       DEF OneTransfer, FreshResult, PassIsShort, ExpiryCovers, CountsAnswers,
           AbsentIsEmpty, fts, thread, TypeOK
<1>4. CASE Store(c)
  BY <1>4, TransferStore
<1> QED
  BY <1>1, <1>2, <1>3, <1>4 DEF ClientStep

(* The reinitialisation, and what devices, agents and the clock do.          *)
LEMMA TransferEnvironment ==
  ASSUME TypeOK, CoreInv,
         \/ Reinit \/ AgentReply \/ Tick
         \/ \E d \in Devices : DeviceFound(d) \/ DeviceLost(d)
  PROVE  CoreInv' /\ (EntriesStartSettled /\ SettledInv => SettledInv')
<1> USE DEF CoreInv, SettledInv
<1>1. CASE Reinit
  <2>1. /\ \A d \in Devices : ~Listed(d)' /\ transfer_result'[d] = 0
        /\ Running' = {} /\ Messages' = requests /\ status' = 0 /\ replies' = {}
    BY <1>1 DEF Reinit, Listed, Running, Messages
  <2>2. UNCHANGED <<cli, thread, requests, clock, history>> /\ rpc = "top" /\ AllIdle
    BY <1>1 DEF Reinit
  <2> QED
    BY <2>1, <2>2
       DEF OneTransfer, AllIdle, IdleSettled, FreshResult, PassIsShort, ExpiryCovers,
           CountsAnswers, OneMessageEach, CallsAreFresh, Messages, AbsentIsEmpty, StoredSoFar,
           thread, history
<1>2. CASE AgentReply
  <2>1. PICK r \in requests : requests' = requests \ {r} /\ replies' = replies \cup {r}
    BY <1>2 DEF AgentReply
  <2>2. Messages' = Messages /\ UNCHANGED <<fts, devs, cli, thread, clock, history>>
    BY <1>2, <2>1 DEF AgentReply, Messages
  <2>3. OneMessageEach'
    BY <2>1, <2>2 DEF OneMessageEach
  <2>4. StoredSoFar'
    BY <2>2 DEF StoredSoFar, fts
  <2> QED
    BY <2>2, <2>3, <2>4
       DEF OneTransfer, AllIdle, IdleSettled, Running, FreshResult, PassIsShort, ExpiryCovers,
           CountsAnswers, CallsAreFresh, AbsentIsEmpty, Listed, fts, devs, thread, history
<1>3. CASE Tick
  <2>1. /\ clock' = clock + 1 /\ clock \in Nat /\ rpc \in {"top", "status", "poll"}
        /\ UNCHANGED <<fts, devs, cli, thread, network, history>>
    BY <1>3 DEF Tick, TypeOK, Times
  <2>2. Messages' = Messages /\ \A m \in Messages : m.random_seq \in Nat
    BY <2>1 DEF Messages, network, TypeOK, Message, Times
  <2>3. OneMessageEach'
    BY <2>1, <2>2 DEF OneMessageEach, network
  <2>4. CallsAreFresh'
    <3>1. \A c \in Clients : cli[c].seq \in Nat
      BY DEF TypeOK, Times
    <3> QED
      BY <2>1, <2>2, <3>1 DEF CallsAreFresh, history
  <2>5. StoredSoFar'
    BY <2>1 DEF StoredSoFar, fts
  <2> QED
    BY <2>1, <2>2, <2>3, <2>4, <2>5
       DEF OneTransfer, AllIdle, IdleSettled, Running, FreshResult, PassIsShort, ExpiryCovers,
           CountsAnswers, AbsentIsEmpty, Listed, fts, devs, thread, history
<1>4. ASSUME NEW d \in Devices, DeviceFound(d) \/ DeviceLost(d)
      PROVE  CoreInv' /\ (EntriesStartSettled /\ SettledInv => SettledInv')
  <2>1. /\ UNCHANGED <<fts, cli, thread, network, clock, history>>
        /\ \A e \in Devices : \/ transfer_result'[e] = 0
                              \/ transfer_result'[e] = transfer_result[e]
        /\ \A e \in Devices : ~Listed(e)' => transfer_result'[e] = 0
    BY <1>4, FreshAssumption DEF DeviceFound, DeviceLost, Listed, AbsentIsEmpty, TypeOK, Status
  <2>2. EntriesStartSettled => Running' \subseteq Running
    BY <1>4, FreshAssumption
       DEF EntriesStartSettled, DeviceFound, DeviceLost, Running, TypeOK, Status
  <2>3. StoredSoFar'
    BY <2>1 DEF StoredSoFar, fts
  <2>4. EntriesStartSettled /\ SettledInv => SettledInv'
    BY <2>1, <2>2 DEF IdleSettled, ExpiryCovers, fts, thread, history
  <2> QED
    BY <2>1, <2>3, <2>4
       DEF OneTransfer, AllIdle, FreshResult, PassIsShort, CountsAnswers,
           OneMessageEach, CallsAreFresh, Messages, AbsentIsEmpty,
           fts, thread, network, history
<1> QED
  BY <1>1, <1>2, <1>3, <1>4

LEMMA TransferStep ==
  ASSUME OneClient, StatusLast, TypeOK, CoreInv, [Next]_vars
  PROVE  CoreInv' /\ (EntriesStartSettled /\ SettledInv => SettledInv')
<1>1. CASE UNCHANGED vars
  BY <1>1
     DEF vars, CoreInv, SettledInv, OneTransfer, AllIdle, IdleSettled, Running, FreshResult,
         PassIsShort, ExpiryCovers, CountsAnswers, OneMessageEach, CallsAreFresh, Messages,
         AbsentIsEmpty, StoredSoFar, Listed, fts, devs, thread, network, history
<1>2. CASE Next
  BY <1>2, TransferTake, TransferPass, TransferClient, TransferEnvironment DEF Next
<1> QED
  BY <1>1, <1>2

(* What the theorems below share.                                            *)
LEMMA CoreCorrect == OneClient /\ StatusLast => (Spec => [](TypeOK /\ CoreInv))
<1> SUFFICES ASSUME OneClient, StatusLast PROVE Spec => [](TypeOK /\ CoreInv)
  OBVIOUS
<1>1. TypeOK /\ CoreInv /\ [Next]_vars => CoreInv'
  BY TransferStep
<1>2. Init => CoreInv
  BY TransferInit
<1> QED
  BY <1>1, <1>2, TypeInit, TypeStep, PTL DEF Spec

(* With one API thread and the status stored last, no call overwrites a      *)
(* transfer that runs, whatever malloc'ed entries hold.                      *)
THEOREM NoTransferOverwritten == OneClient /\ StatusLast => (Spec => []OneTransfer)
<1>1. CoreInv => OneTransfer
  BY DEF CoreInv
<1> SUFFICES ASSUME OneClient, StatusLast PROVE Spec => []OneTransfer
  OBVIOUS
<1> QED
  BY <1>1, CoreCorrect, PTL

(* ... nor is a late reply to an earlier transfer recorded: it carries the   *)
(* random_seq of its own request.                                            *)
THEOREM LateRepliesAreDropped == OneClient /\ StatusLast => (Spec => []FreshResult)
<1>1. CoreInv => FreshResult
  BY DEF CoreInv
<1> SUFFICES ASSUME OneClient, StatusLast PROVE Spec => []FreshResult
  OBVIOUS
<1> QED
  BY <1>1, CoreCorrect, PTL

(* The inductive invariant, also when entries start settled.                 *)
THEOREM TransferInvariant ==
  OneClient /\ StatusLast /\ EntriesStartSettled => (Spec => []TransferInv)
<1>1. CoreInv /\ SettledInv => TransferInv
  BY DEF CoreInv, SettledInv, TransferInv
<1> SUFFICES ASSUME OneClient, StatusLast, EntriesStartSettled PROVE Spec => []TransferInv
  OBVIOUS
<1>2. TypeOK /\ CoreInv /\ SettledInv /\ [Next]_vars => CoreInv' /\ SettledInv'
  BY TransferStep
<1> QED
  BY <1>1, <1>2, TypeInit, TypeStep, TransferInit, PTL DEF Spec

(* If entries start settled too, no device is left RUNNING without somebody  *)
(* who will settle it: the transfer that addresses it, or the call that is   *)
(* about to start it.                                                        *)
THEOREM RunningWillSettle ==
  OneClient /\ StatusLast /\ EntriesStartSettled => (Spec => []IdleSettled)
<1>1. TransferInv => IdleSettled
  BY DEF TransferInv
<1> SUFFICES ASSUME OneClient, StatusLast, EntriesStartSettled PROVE Spec => []IdleSettled
  OBVIOUS
<1> QED
  BY <1>1, TransferInvariant, PTL

(* The comment on file_transfer_stat.status, "0: idle": between passes, with *)
(* no call in progress and status 0, every device is settled.                *)
THEOREM IdleIsSettled ==
  OneClient /\ StatusLast /\ EntriesStartSettled => (Spec => []IdleMeansSettled)
<1>1. IdleSettled => IdleMeansSettled
  BY DEF IdleSettled, IdleMeansSettled, AllIdle
<1> SUFFICES ASSUME OneClient, StatusLast, EntriesStartSettled
             PROVE  Spec => []IdleMeansSettled
  OBVIOUS
<1> QED
  BY <1>1, RunningWillSettle, PTL

-----------------------------------------------------------------------------
(* What the steps do to the entries of the device list.                      *)

(* A device that shows RUNNING, or is not listed, has no result yet.         *)
RunningIsEmpty == \A d \in Running : transfer_result[d] = 0

ResultInv == TypeOK /\ AbsentIsEmpty /\ RunningIsEmpty

(* No step but these writes an entry.                                        *)
LEMMA EntrySteps ==
  ASSUME [Next]_vars
  PROVE  \/ UNCHANGED devs
         \/ \E c \in Clients : Mark(c)
         \/ Take \/ Expire \/ Reinit
         \/ \E d \in Devices : DeviceFound(d) \/ DeviceLost(d)
BY DEF Next, vars, Call, ClientStep, Send, Store, RecvStep, Instance, CheckRunning, TakeNothing,
       CheckComplete, CheckTimeout, ExpireDone, Release, AgentReply, Tick

LEMMA ResultStep ==
  ASSUME ResultInv, [Next]_vars
  PROVE  ResultInv'
<1>0. /\ TypeOK'
      /\ agent_transfer_status \in [Devices -> Status \cup {"ABSENT"}]
      /\ transfer_result \in [Devices -> Times]
  BY TypeStep DEF ResultInv, TypeOK
<1> DEFINE Written(d, st, res) ==
      /\ agent_transfer_status' =
           [agent_transfer_status EXCEPT ![d] = IF Listed(d) THEN st ELSE @]
      /\ transfer_result' = [transfer_result EXCEPT ![d] = IF Listed(d) THEN res ELSE @]
<1>1. ASSUME NEW d \in Devices, NEW st, NEW res, Written(d, st, res),
             st # "ABSENT", st = "RUNNING" => res = 0
      PROVE  AbsentIsEmpty' /\ RunningIsEmpty'
  BY <1>0, <1>1 DEF ResultInv, AbsentIsEmpty, RunningIsEmpty, Running, Listed
<1>2. CASE UNCHANGED devs
  BY <1>0, <1>2 DEF ResultInv, AbsentIsEmpty, RunningIsEmpty, Running, Listed, devs
<1>3. ASSUME NEW c \in Clients, Mark(c) PROVE ResultInv'
  <2>1. PICK d \in cli[c].todo : Written(d, "RUNNING", 0)
    BY <1>3 DEF Mark, SetStatus
  <2>2. d \in Devices
    BY DEF ResultInv, TypeOK
  <2> HIDE DEF Written
  <2> QED
    BY <1>0, <1>1, <2>1, <2>2 DEF ResultInv
<1>4. CASE Take
  <2>1. PICK r \in replies :
          \/ UNCHANGED devs
          \/ \E st \in {"DONE", "SERVER_ERROR"} : Written(r.id, st, r.random_seq)
    BY <1>4 DEF Take, SetStatus
  <2>2. r.id \in Devices
    BY DEF ResultInv, TypeOK, Message
  <2>3. \/ UNCHANGED devs
        \/ AbsentIsEmpty' /\ RunningIsEmpty'
    <3> HIDE DEF Written
    <3> QED
      BY <1>1, <2>1, <2>2
  <2> QED
    BY <1>0, <1>2, <2>3 DEF ResultInv
<1>5. CASE Expire
  <2>1. PICK d \in todo : UNCHANGED devs \/ Written(d, "AGENT_ERROR", 0)
    BY <1>5 DEF Expire, SetStatus
  <2>2. d \in Devices
    BY DEF ResultInv, TypeOK
  <2>3. \/ UNCHANGED devs
        \/ AbsentIsEmpty' /\ RunningIsEmpty'
    <3> HIDE DEF Written
    <3> QED
      BY <1>1, <2>1, <2>2
  <2> QED
    BY <1>0, <1>2, <2>3 DEF ResultInv
<1>6. CASE Reinit
  BY <1>0, <1>6 DEF Reinit, ResultInv, AbsentIsEmpty, RunningIsEmpty, Running
<1>7. ASSUME NEW d \in Devices, DeviceFound(d) \/ DeviceLost(d) PROVE ResultInv'
  BY <1>0, <1>7
     DEF DeviceFound, DeviceLost, ResultInv, AbsentIsEmpty, RunningIsEmpty, Running, Listed
<1> QED
  BY <1>2, <1>3, <1>4, <1>5, <1>6, <1>7, EntrySteps

(* With one API thread and the status stored last, a delivered result stays  *)
(* until the device is asked again or leaves the list.  A second reply would *)
(* have to come from the same request, and a timeout writes to RUNNING       *)
(* devices only.                                                             *)
THEOREM ResultsStay == OneClient /\ StatusLast => (Spec => ResultKept)
<1>1. Init => ResultInv
  BY TypeInit DEF Init, ResultInv, AbsentIsEmpty, RunningIsEmpty, Running
<1>2. ResultInv /\ [Next]_vars => ResultInv'
  BY ResultStep
<1>3. ASSUME ResultInv, CoreInv, [Next]_vars, NEW d \in Devices,
             transfer_result[d] # 0, transfer_result'[d] # transfer_result[d]
      PROVE  agent_transfer_status'[d] \in {"RUNNING", "ABSENT"}
  <2>0. /\ agent_transfer_status \in [Devices -> Status \cup {"ABSENT"}]
        /\ transfer_result \in [Devices -> Times]
        /\ Listed(d) /\ agent_transfer_status[d] # "RUNNING"
    BY <1>3 DEF ResultInv, TypeOK, AbsentIsEmpty, RunningIsEmpty, Running
  <2>1. CASE UNCHANGED devs
    BY <1>3, <2>1 DEF devs
  <2>2. ASSUME NEW c \in Clients, Mark(c)
        PROVE  agent_transfer_status'[d] \in {"RUNNING", "ABSENT"}
    BY <1>3, <2>0, <2>2 DEF Mark, SetStatus
  <2>3. CASE Take
    <3>1. status = 1
      BY <1>3, <2>3 DEF Take, CoreInv, PassIsShort
    <3>2. PICK r \in replies :
            \/ UNCHANGED devs
            \/ ForMe(r) /\ \E st \in Status : SetStatus(r.id, st, r.random_seq)
      BY <2>3 DEF Take, Status
    <3>3. CASE UNCHANGED devs
      BY <1>3, <3>3 DEF devs
    <3>4. CASE ForMe(r) /\ \E st \in Status : SetStatus(r.id, st, r.random_seq)
      <4>1. r.random_seq = random_seq /\ r.id \in id_list
        BY <1>3, <3>1, <3>4 DEF ForMe, CoreInv, CountsAnswers, Messages
      <4>2. d = r.id /\ transfer_result'[d] = random_seq
        BY <1>3, <2>0, <3>4, <4>1 DEF SetStatus
      <4>3. transfer_result[d] = random_seq
        BY <1>3, <3>1, <4>1, <4>2 DEF CoreInv, FreshResult, CountsAnswers
      <4> QED
        BY <1>3, <4>2, <4>3
    <3> QED
      BY <3>2, <3>3, <3>4
  <2>4. CASE Expire
    <3>1. PICK e \in todo : UNCHANGED devs \/ (Expirable(e) /\ SetStatus(e, "AGENT_ERROR", 0))
      BY <2>4 DEF Expire
    <3>2. e # d => transfer_result'[d] = transfer_result[d]
      BY <2>0, <3>1 DEF SetStatus, devs
    <3>3. ~Expirable(d)
      BY <2>0 DEF Expirable, GetStatus
    <3> QED
      BY <1>3, <3>1, <3>2, <3>3 DEF devs
  <2>5. CASE Reinit
    BY <2>5 DEF Reinit
  <2>6. ASSUME NEW e \in Devices, DeviceFound(e) \/ DeviceLost(e)
        PROVE  agent_transfer_status'[d] \in {"RUNNING", "ABSENT"}
    BY <1>3, <2>0, <2>6 DEF DeviceFound, DeviceLost
  <2> QED
    BY <1>3, <2>1, <2>2, <2>3, <2>4, <2>5, <2>6, EntrySteps
<1>4. ResultInv /\ CoreInv /\ [Next]_vars =>
        [\A d \in Devices :
           transfer_result[d] # 0 /\ transfer_result'[d] # transfer_result[d]
             => agent_transfer_status'[d] \in {"RUNNING", "ABSENT"}]_vars
  BY <1>3
<1> SUFFICES ASSUME OneClient, StatusLast PROVE Spec => ResultKept
  OBVIOUS
<1>5. TypeOK /\ CoreInv /\ [Next]_vars => CoreInv'
  BY TransferStep
<1> QED
  BY <1>1, <1>2, <1>4, <1>5, TypeInit, TypeStep, TransferInit, PTL DEF Spec, ResultKept
-----------------------------------------------------------------------------
(* The refinement of Transfers.                                              *)

(* Requests are a second apart: each transfer has a number of its own,       *)
(* higher than the one before.                                               *)
RoundInv ==
  /\ random_seq < clock
  /\ \A c \in Clients : /\ cli[c].pc = "send" => random_seq < cli[c].seq
                        /\ cli[c].pc \in {"mark", "store"} => cli[c].seq < clock

LEMMA RoundStep ==
  ASSUME OneClient, StatusLast, TypeOK, CoreInv, RoundInv, [Next]_vars
  PROVE  RoundInv'
<1>0. /\ clock \in Nat /\ random_seq \in Nat /\ \A c \in Clients : cli[c].seq \in Nat
      /\ cli \in [Clients -> [pc : {"idle", "send", "mark", "store"}, type : Types,
                              ids : SUBSET Devices, seq : Times,
                              todo : SUBSET Devices, k : 1..Len(StoreGroups)]]
  BY DEF TypeOK, Times
<1>1. ASSUME NEW c \in Clients, NEW t \in Types, NEW ids \in SUBSET Devices, Call(c, t, ids)
      PROVE  RoundInv'
  BY <1>0, <1>1 DEF Call, RoundInv, fts
<1>2. ASSUME NEW c \in Clients, Send(c) PROVE RoundInv'
  BY <1>0, <1>2 DEF Send, RoundInv, fts
<1>3. ASSUME NEW c \in Clients, Mark(c) PROVE RoundInv'
  <2>1. /\ UNCHANGED <<random_seq, clock>> /\ cli[c].pc = "mark"
        /\ \E ts \in SUBSET Devices, pc \in {"mark", "store"} :
             cli' = [cli EXCEPT ![c].todo = ts, ![c].pc = pc]
    <3>1. PICK d \in cli[c].todo :
            cli' = [cli EXCEPT ![c].todo = @ \ {d},
                               ![c].pc = IF cli[c].todo = {d} THEN "store" ELSE "mark"]
      BY <1>3 DEF Mark
    <3>2. cli[c].todo \ {d} \in SUBSET Devices
      BY <1>0
    <3> QED
      BY <1>0, <1>3, <3>1, <3>2 DEF Mark, fts
  <2> QED
    BY <1>0, <2>1 DEF RoundInv
<1>4. ASSUME NEW c \in Clients, Store(c) PROVE RoundInv'
  <2>1. cli[c].pc = "store" /\ cli[c].seq < clock /\ clock' = clock /\ \A e \in Clients : e = c
    BY <1>4, StoreOutcome DEF RoundInv, OneClient
  <2>2. /\ random_seq' \in {random_seq, cli[c].seq}
        /\ cli'[c].pc = "idle" \/ (cli'[c].pc = "store" /\ cli'[c].seq = cli[c].seq)
    BY <1>0, <1>4, StoreOutcome DEF Store, NoCall
  <2> QED
    BY <1>0, <2>1, <2>2 DEF RoundInv
<1>5. CASE RecvStep
  <2>1. UNCHANGED <<random_seq, clock, cli>>
    BY <1>5 DEF RecvStep, Instance, CheckRunning, Take, TakeNothing, CheckComplete, CheckTimeout,
                Expire, ExpireDone, Release, fts
  <2> QED
    BY <2>1 DEF RoundInv
<1>6. CASE Reinit \/ AgentReply \/ UNCHANGED vars
           \/ \E d \in Devices : DeviceFound(d) \/ DeviceLost(d)
  <2>1. UNCHANGED <<random_seq, clock, cli>>
    BY <1>6 DEF Reinit, AgentReply, DeviceFound, DeviceLost, vars, fts
  <2> QED
    BY <2>1 DEF RoundInv
<1>7. CASE Tick
  BY <1>0, <1>7 DEF Tick, RoundInv, fts
<1> QED
  BY <1>1, <1>2, <1>3, <1>4, <1>5, <1>6, <1>7 DEF Next, ClientStep

(* The one client is the caller.                                             *)
LEMMA CallerIs ==
  ASSUME OneClient, NEW c \in Clients
  PROVE  /\ Asking <=> cli[c].pc \in {"mark", "store"}
         /\ Asking => Caller = cli[c]
         /\ Asking' <=> cli'[c].pc \in {"mark", "store"}
         /\ Asking' => Caller' = cli'[c]
BY DEF OneClient, Asking, Caller

LEMMA OwedIs ==
  /\ status = 1 /\ rpc = "expire" => Owed = todo \ answered
  /\ status = 1 /\ rpc # "expire" => Owed = id_list \ answered
  /\ status = 0 /\ Asking => Owed = Caller.ids \ Caller.todo
  /\ status = 0 /\ ~Asking => Owed = {}
BY DEF Owed

LEMMA OwedIsNext ==
  /\ status' = 1 /\ rpc' = "expire" => Owed' = todo' \ answered'
  /\ status' = 1 /\ rpc' # "expire" => Owed' = id_list' \ answered'
  /\ status' = 0 /\ Asking' => Owed' = Caller'.ids \ Caller'.todo
  /\ status' = 0 /\ ~Asking' => Owed' = {}
BY DEF Owed

(* devinfo_server_set_status_by_id shows the outcome.                        *)
LEMMA ShowIs ==
  ASSUME NEW d, NEW st, NEW res, SetStatus(d, st, res)
  PROVE  Service!Show(d, st, res)
BY DEF SetStatus, Service!Show, Listed

(* A step that touches neither the call nor the outcomes.                    *)
LEMMA SameTransfers ==
  ASSUME UNCHANGED <<fts, devs, cli, answered>>,
         rpc # "expire", rpc' # "expire"
  PROVE  UNCHANGED Service!transfers
<1>1. UNCHANGED <<status, id_list, random_seq, cli, answered, agent_transfer_status,
                  transfer_result>>
  BY DEF fts, devs
<1>2. UNCHANGED <<Asking, Caller>>
  BY <1>1 DEF Asking, Caller
<1>3. UNCHANGED <<Round, Owed>>
  BY <1>1, <1>2 DEF Round, Owed
<1> QED
  BY <1>1, <1>2, <1>3 DEF Service!transfers

(* The client: it begins a transfer, asks its devices, and has asked them.   *)
LEMMA ClientImplements ==
  ASSUME TypeOK, CoreInv, RoundInv, OneClient, StatusLast, NEW c \in Clients,
         ClientStep(c) \/ \E t \in Types, ids \in SUBSET Devices : Call(c, t, ids)
  PROVE  Service!Next \/ UNCHANGED Service!transfers
<1>0. /\ cli \in [Clients -> [pc : {"idle", "send", "mark", "store"}, type : Types,
                              ids : SUBSET Devices, seq : Times,
                              todo : SUBSET Devices, k : 1..Len(StoreGroups)]]
      /\ status \in {0, 1} /\ clock \in Nat /\ random_seq \in Nat /\ cli[c].seq \in Nat
  BY DEF TypeOK, Times
<1>s. status = 0 /\ (cli[c].pc \in {"mark", "store"} => rpc \in {"top", "status"})
  <2>1. status = 0 \/ cli[c].pc # "idle"
    BY DEF ClientStep, Call, Send, Mark, Store, NoTransfer
  <2>2. status = 0
    BY <1>0, <2>1 DEF CoreInv, OneTransfer, AllIdle
  <2> QED
    BY <2>2 DEF CoreInv, PassIsShort, TypeOK
<1>1. ASSUME NEW t \in Types, NEW ids \in SUBSET Devices, Call(c, t, ids)
      PROVE  UNCHANGED Service!transfers
  <2>1. /\ cli'[c].pc = "send" /\ cli[c].pc = "idle"
        /\ UNCHANGED <<fts, devs, thread, history>>
    BY <1>0, <1>1 DEF Call
  <2>2. ~Asking /\ ~Asking' /\ status' = 0
    BY <1>s, <2>1, CallerIs DEF fts
  <2>3. Owed = {} /\ Owed' = {} /\ Round' = Round
    BY <1>s, <2>1, <2>2, OwedIs, OwedIsNext DEF Round, fts
  <2>4. UNCHANGED Asking
    BY <2>2 DEF Asking
  <2> QED
    BY <2>1, <2>3, <2>4 DEF Service!transfers, devs
<1>2. CASE Send(c)
  <2>1. /\ cli[c].pc = "send" /\ cli'[c].pc = "mark" /\ cli'[c].todo = cli[c].ids
        /\ cli'[c].ids = cli[c].ids /\ cli'[c].seq = cli[c].seq
        /\ UNCHANGED <<fts, devs>>
    BY <1>0, <1>2 DEF Send
  <2>2. ~Asking /\ Asking' /\ Caller' = cli'[c]
    BY <2>1, CallerIs
  <2>3. Owed = {} /\ Owed' = {}
    BY <1>s, <2>1, <2>2, OwedIs, OwedIsNext DEF fts
  <2>4. Round = random_seq /\ Round' = cli[c].seq
    BY <2>1, <2>2 DEF Round
  <2>5. Round < cli[c].seq
    BY <2>1, <2>4 DEF RoundInv
  <2>6. Service!Begin
    BY <1>0, <2>1, <2>2, <2>3, <2>4, <2>5 DEF Service!Begin, devs
  <2> QED
    BY <2>6 DEF Service!Next
<1>3. CASE Mark(c)
  <2>1. PICK d \in cli[c].todo :
          /\ SetStatus(d, "RUNNING", 0)
          /\ cli' = [cli EXCEPT ![c].todo = @ \ {d},
                                ![c].pc = IF cli[c].todo = {d} THEN "store" ELSE "mark"]
    BY <1>3 DEF Mark
  <2>2. /\ cli[c].pc = "mark" /\ cli'[c].pc \in {"mark", "store"}
        /\ cli'[c].todo = cli[c].todo \ {d} /\ cli'[c].ids = cli[c].ids
        /\ cli'[c].seq = cli[c].seq /\ UNCHANGED fts
        /\ d \in Devices /\ d \in cli[c].ids
    BY <1>0, <1>3, <2>1 DEF Mark, CoreInv, CallsAreFresh
  <2>3. Asking /\ Asking' /\ Caller = cli[c] /\ Caller' = cli'[c]
    BY <2>2, CallerIs
  <2>4. Owed = cli[c].ids \ cli[c].todo /\ Owed' = cli'[c].ids \ cli'[c].todo
    BY <1>s, <2>2, <2>3, OwedIs, OwedIsNext DEF fts
  <2>5. d \notin Owed /\ Owed' = Owed \cup {d} /\ Round' = Round
    BY <2>1, <2>2, <2>3, <2>4 DEF Round
  <2>6. Service!Ask(d)
    BY <2>1, <2>3, <2>5, ShowIs DEF Service!Ask
  <2> QED
    BY <2>2, <2>6 DEF Service!Next
<1>4. CASE Store(c)
  <2>1. /\ cli[c].pc = "store" /\ cli[c].todo = {} /\ rpc \in {"top", "status"}
        /\ UNCHANGED <<devs, thread>> /\ answered' = {}
    BY <1>4, StoreOutcome
  <2>2. Asking /\ Caller = cli[c] /\ Owed = cli[c].ids /\ Round = cli[c].seq
    BY <1>s, <2>1, CallerIs, OwedIs DEF Round
  <2>3. CASE /\ status' = 0
             /\ cli' = [cli EXCEPT ![c] = [cli[c] EXCEPT !.k = @ + 1]]
    <3>1. /\ cli'[c].pc = "store" /\ cli'[c].ids = cli[c].ids /\ cli'[c].todo = {}
          /\ cli'[c].seq = cli[c].seq
      BY <1>0, <2>1, <2>3
    <3>2. Asking' /\ Caller' = cli'[c]
      BY <3>1, CallerIs
    <3>3. Owed' = Owed /\ Round' = Round
      BY <2>2, <2>3, <3>1, <3>2, OwedIsNext DEF Round
    <3> QED
      BY <2>1, <2>2, <3>2, <3>3 DEF Service!transfers, devs
  <2>4. CASE /\ status' = 1 /\ random_seq' = cli[c].seq /\ id_list' = cli[c].ids
             /\ cli' = [cli EXCEPT ![c] = NoCall]
    <3>1. cli'[c].pc = "idle"
      BY <1>0, <2>4 DEF NoCall
    <3>2. ~Asking'
      BY <3>1, CallerIs
    <3>3. rpc' # "expire"
      BY <2>1 DEF thread
    <3>4. Owed' = Owed /\ Round' = Round
      BY <2>1, <2>2, <2>4, <3>2, <3>3, OwedIsNext DEF Round
    <3>5. Service!Asked
      BY <2>1, <2>2, <3>2, <3>4 DEF Service!Asked, devs
    <3> QED
      BY <3>5 DEF Service!Next
  <2> QED
    BY <1>4, <2>3, <2>4, StoreOutcome
<1> QED
  BY <1>1, <1>2, <1>3, <1>4 DEF ClientStep

(* The recv thread: answers, and those that are given up.                    *)
LEMMA RecvImplements ==
  ASSUME TypeOK, CoreInv, SettledInv, RecvStep
  PROVE  Service!Next \/ UNCHANGED Service!transfers
<1>0. /\ UNCHANGED <<random_seq, cli>> /\ status \in {0, 1}
      /\ UNCHANGED <<Asking, Round>>
  <2>1. UNCHANGED <<random_seq, cli>> /\ status \in {0, 1}
    BY DEF RecvStep, Instance, CheckRunning, Take, TakeNothing, CheckComplete, CheckTimeout,
           Expire, ExpireDone, Release, fts, TypeOK
  <2> QED
    BY <2>1 DEF Asking, Caller, Round
<1>a. rpc \in {"poll", "time", "expire", "free"} => ~Asking
  BY DEF CoreInv, PassIsShort, OneTransfer, AllIdle, Asking
<1>b. ASSUME UNCHANGED <<devs, Owed>> PROVE UNCHANGED Service!transfers
  BY <1>0, <1>b DEF Service!transfers, devs
<1>1. CASE Instance \/ CheckRunning \/ TakeNothing
  <2>1. UNCHANGED <<fts, devs, cli, answered>> /\ rpc # "expire" /\ rpc' # "expire"
    BY <1>1 DEF Instance, CheckRunning, TakeNothing, history
  <2> QED
    BY <2>1, SameTransfers
<1>2. CASE Take
  <2>1. status = 1 /\ rpc = "poll" /\ ~Asking
    BY <1>2, <1>a DEF Take, CoreInv, PassIsShort
  <2>2. PICK r \in replies :
          IF ~ForMe(r)
          THEN UNCHANGED <<devs, answered>>
          ELSE /\ answered' = answered \cup {r.id}
               /\ \E st \in {"DONE"} \cup IF type = "EXPORT" THEN {"SERVER_ERROR"} ELSE {} :
                    SetStatus(r.id, st, r.random_seq)
    BY <1>2 DEF Take
  <2>3. UNCHANGED <<status, id_list, rpc>>
    BY <1>2 DEF Take, thread
  <2>4. Owed = id_list \ answered /\ Owed' = id_list \ answered'
    BY <2>1, <2>3, OwedIs, OwedIsNext
  <2>5. CASE ~ForMe(r)
    BY <1>b, <2>2, <2>4, <2>5
  <2>6. CASE ForMe(r)
    <3>1. r.random_seq = random_seq /\ r.id \in id_list \ answered /\ Round = random_seq
      BY <2>1, <2>6 DEF ForMe, CoreInv, CountsAnswers, Messages, Round
    <3>2. r.id \in Owed /\ Owed' = Owed \ {r.id} /\ r.id \in Devices
      BY <2>2, <2>4, <2>6, <3>1 DEF TypeOK
    <3>3. \E st \in {"DONE", "SERVER_ERROR"} : Service!Show(r.id, st, Round)
      BY <2>2, <2>6, <3>1, ShowIs
    <3>4. Service!Answer(r.id)
      BY <1>0, <2>1, <3>2, <3>3 DEF Service!Answer
    <3> QED
      BY <3>2, <3>4 DEF Service!Next, Service!Settle
  <2> QED
    BY <2>5, <2>6
<1>3. CASE CheckComplete
  <2>1. status = 1 /\ rpc = "poll" /\ rpc' = "time" /\ ~Asking /\ ~Asking'
        /\ UNCHANGED <<devs, id_list, answered>>
        /\ status' = IF AllReceived THEN 0 ELSE 1
    BY <1>0, <1>3, <1>a DEF CheckComplete, CoreInv, PassIsShort, history
  <2>2. AllReceived => id_list \ answered = {}
    <3> SUFFICES ASSUME AllReceived PROVE answered = id_list
      OBVIOUS
    <3>1. id_list \in SUBSET Devices /\ answered \subseteq id_list
          /\ Cardinality(answered) = Cardinality(id_list)
      BY <2>1 DEF AllReceived, CoreInv, CountsAnswers, TypeOK
    <3> QED
      BY <3>1, DeviceSets, FS_Subset
  <2>3. Owed' = Owed
    BY <2>1, <2>2, OwedIs, OwedIsNext
  <2> QED
    BY <1>b, <2>1, <2>3
<1>4. CASE CheckTimeout
  <2>1. /\ UNCHANGED <<fts, devs, answered>> /\ rpc = "time" /\ ~Asking /\ ~Asking'
        /\ rpc' = "expire" => todo' = id_list
    <3>1. CASE TimedOut
      BY <1>0, <1>4, <1>a, <3>1 DEF CheckTimeout, history
    <3>2. CASE ~TimedOut
      BY <1>0, <1>4, <1>a, <3>2 DEF CheckTimeout, history
    <3> QED
      BY <3>1, <3>2
  <2>2. Owed' = Owed
    BY <1>0, <2>1, OwedIs, OwedIsNext DEF fts
  <2> QED
    BY <1>b, <2>1, <2>2
<1>5. CASE Expire
  <2>1. PICK d \in todo :
          /\ todo' = todo \ {d}
          /\ IF Expirable(d) THEN SetStatus(d, "AGENT_ERROR", 0) ELSE UNCHANGED devs
    BY <1>5 DEF Expire
  <2>2. /\ UNCHANGED <<fts, rpc, answered>> /\ rpc = "expire" /\ d \in Devices
        /\ ~Asking /\ ~Asking'
    BY <1>0, <1>5, <1>a DEF Expire, TypeOK, history
  <2>3. Expirable(d) <=> agent_transfer_status[d] = "RUNNING"
    BY <2>2 DEF Expirable, GetStatus, Listed
  <2>4. Expirable(d) => status = 1 /\ d \notin answered
    BY <2>2, <2>3 DEF SettledInv, IdleSettled, Running, Asking
  <2>5. CASE status = 1 /\ d \notin answered
    <3>1. d \in Owed /\ Owed' = Owed \ {d}
      BY <2>1, <2>2, <2>5, OwedIs, OwedIsNext DEF fts
    <3>2. Service!GiveUp(d)
      BY <1>0, <2>1, <2>2, <2>3, <3>1, ShowIs DEF Service!GiveUp, devs
    <3> QED
      BY <2>2, <3>2 DEF Service!Next, Service!Settle
  <2>6. CASE ~(status = 1 /\ d \notin answered)
    <3>1. Owed' = Owed
      BY <1>0, <2>1, <2>2, <2>6, OwedIs, OwedIsNext DEF fts
    <3> QED
      BY <1>b, <2>1, <2>4, <2>6, <3>1
  <2> QED
    BY <2>5, <2>6
<1>6. CASE ExpireDone
  <2>1. /\ rpc = "expire" /\ todo = {} /\ status' = 0 /\ ~Asking /\ ~Asking'
        /\ UNCHANGED devs
    BY <1>0, <1>6, <1>a DEF ExpireDone
  <2>2. Owed' = Owed
    BY <1>0, <2>1, OwedIs, OwedIsNext
  <2> QED
    BY <1>b, <2>1, <2>2
<1>7. CASE Release
  <2>1. /\ rpc = "free" /\ rpc' = "top" /\ ~Asking /\ ~Asking'
        /\ UNCHANGED <<devs, answered, status>>
        /\ status = 1 => UNCHANGED id_list
    BY <1>0, <1>7, <1>a DEF Release, history
  <2>2. Owed' = Owed
    BY <1>0, <2>1, OwedIs, OwedIsNext
  <2> QED
    BY <1>b, <2>1, <2>2
<1> QED
  BY <1>1, <1>2, <1>3, <1>4, <1>5, <1>6, <1>7 DEF RecvStep

(* What the reinitialisation, devices, agents and the clock do.              *)
LEMMA EnvironmentImplements ==
  ASSUME TypeOK, CoreInv,
         \/ Reinit \/ AgentReply \/ Tick
         \/ \E d \in Devices : DeviceFound(d) \/ DeviceLost(d)
  PROVE  Service!Next \/ UNCHANGED Service!transfers
<1>1. CASE Reinit
  <2>1. /\ ~Asking /\ ~Asking' /\ status = 0 /\ status' = 0 /\ UNCHANGED random_seq
    BY <1>1 DEF Reinit, AllIdle, Asking
  <2>2. Owed = {} /\ Owed' = {} /\ Round' = Round
    BY <2>1, OwedIs, OwedIsNext DEF Round
  <2>3. UNCHANGED Asking
    BY <2>1 DEF Asking
  <2>4. Service!VanishAll
    BY <1>1, <2>1, <2>2, <2>3 DEF Reinit, Service!VanishAll
  <2> QED
    BY <2>4 DEF Service!Next
<1>2. ASSUME UNCHANGED <<fts, cli, thread, answered>> PROVE UNCHANGED <<Asking, Round, Owed>>
  BY <1>2 DEF Asking, Caller, Round, Owed, fts, thread
<1>3. CASE AgentReply \/ Tick
  <2>1. UNCHANGED <<fts, devs, cli, thread, answered>>
    BY <1>3 DEF AgentReply, Tick, history
  <2> QED
    BY <1>2, <2>1 DEF Service!transfers, devs
<1>4. ASSUME NEW d \in Devices, DeviceFound(d) PROVE Service!Appear(d)
  <2>1. UNCHANGED <<fts, cli, thread, answered>>
    BY <1>4 DEF DeviceFound, history
  <2> QED
    BY <1>2, <1>4, <2>1 DEF DeviceFound, Listed, Service!Appear
<1>5. ASSUME NEW d \in Devices, DeviceLost(d) PROVE Service!Vanish(d)
  <2>1. UNCHANGED <<fts, cli, thread, answered>>
    BY <1>5 DEF DeviceLost, history
  <2> QED
    BY <1>2, <1>5, <2>1 DEF DeviceLost, Service!Vanish
<1> QED
  BY <1>1, <1>3, <1>4, <1>5 DEF Service!Next

(* With one API thread, the status stored last and entries that start        *)
(* settled, the server's file transfer implements Transfers: one transfer    *)
(* after the other, one outcome for each device of a transfer, no answer     *)
(* before all are asked, and none recorded from another transfer.            *)
THEOREM TransfersImplemented ==
  OneClient /\ StatusLast /\ EntriesStartSettled => (Spec => Service!Safe)
<1>1. Init => RoundInv
  BY DEF Init, RoundInv, NoCall
<1>2. Init => Service!Init
  <2> SUFFICES ASSUME Init PROVE Service!Init
    OBVIOUS
  <2>1. ~Asking /\ status = 0 /\ random_seq = 0
    BY DEF Init, Asking, NoCall
  <2>2. Owed = {} /\ Round = 0
    BY <2>1, OwedIs DEF Round
  <2> QED
    BY <2>1, <2>2 DEF Init, Service!Init
<1> SUFFICES ASSUME OneClient, StatusLast, EntriesStartSettled PROVE Spec => Service!Safe
  OBVIOUS
<1>3. TypeOK /\ CoreInv /\ SettledInv /\ RoundInv /\ [Next]_vars
        => CoreInv' /\ SettledInv' /\ RoundInv'
  BY TransferStep, RoundStep
<1>4. TypeOK /\ CoreInv /\ SettledInv /\ RoundInv /\ [Next]_vars
        => [Service!Next]_(Service!transfers)
  <2> SUFFICES ASSUME TypeOK, CoreInv, SettledInv, RoundInv, [Next]_vars
               PROVE  Service!Next \/ UNCHANGED Service!transfers
    OBVIOUS
  <2>1. CASE Next
    BY <2>1, ClientImplements, RecvImplements, EnvironmentImplements DEF Next
  <2>2. CASE UNCHANGED vars
    BY <2>2
       DEF vars, fts, devs, thread, history, Service!transfers, Asking, Caller, Round, Owed
  <2> QED
    BY <2>1, <2>2
<1> QED
  BY <1>1, <1>2, <1>3, <1>4, TypeInit, TypeStep, TransferInit, PTL DEF Spec, Service!Safe
=============================================================================
