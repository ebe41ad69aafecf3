---------------------------- MODULE FileTransfer ----------------------------
(***************************************************************************)
(* The server's file transfer (server/datainfo_server.c).  An API thread   *)
(* sends an IMPORT or EXPORT request, marks the addressed devices RUNNING  *)
(* and fills g_file_transfer_stat; the recv thread polls that structure,   *)
(* without a lock, and settles the devices when replies arrive or when     *)
(* reply_timeout has passed.                                               *)
(*                                                                         *)
(* random_seq is rand() after srand(time(NULL)), a function of the second  *)
(* in which the request is built: it is modelled by that second.           *)
(***************************************************************************)
EXTENDS Integers, FiniteSets, Sequences

CONSTANTS
  Clients,        \* the API threads of the application
  Devices,        \* device IDs
  StoreGroups,    \* which stores to g_file_transfer_stat happen in one step
  FreshStatus,    \* what malloc'ed memory may hold in agent_transfer_status
  REPLY_TIMEOUT,  \* g_rmt_cfg.reply_timeout, in seconds
  CallHorizon     \* bound: calls are made, and finish, up to this second

Fields == {"status", "recv_num", "random_seq", "type",
           "id_num", "id_list", "start_time"}
Status == {"DONE", "RUNNING", "SERVER_ERROR", "AGENT_ERROR"}
Types  == {"IMPORT", "EXPORT"}

ASSUME DevicesAssumption == IsFiniteSet(Devices)
ASSUME FreshAssumption   == FreshStatus \subseteq Status
ASSUME TimeAssumption    == REPLY_TIMEOUT \in Nat /\ CallHorizon \in Nat
ASSUME GroupsAssumption  ==
  /\ StoreGroups \in Seq(SUBSET Fields)
  /\ \A f \in Fields : \E k \in 1..Len(StoreGroups) : f \in StoreGroups[k]

VARIABLES
  \* g_file_transfer_stat; id_list = {} stands for NULL
  status, start_time, type, random_seq, id_list, id_num, recv_num,
  \* the device list: status and result of each entry, "ABSENT" when not listed;
  \* a result is the random_seq of the reply it came from, 0 for empty_result
  agent_transfer_status, transfer_result,
  cli,        \* the API call of each client
  rpc, inst, idx, todo,   \* recv thread: where it is, and its locals
  requests, replies,      \* requests at the agents, replies in the reader cache
  clock,      \* time(), in seconds
  asked_by,   \* history: random_seq of the last transfer that addressed the device
  answered    \* history: the devices whose reply to this transfer was counted

fts     == <<status, start_time, type, random_seq, id_list, id_num, recv_num>>
devs    == <<agent_transfer_status, transfer_result>>
thread  == <<rpc, inst, idx, todo>>
network == <<requests, replies>>
history == <<asked_by, answered>>
vars    == <<fts, devs, cli, thread, network, clock, history>>

MaxTime == CallHorizon + REPLY_TIMEOUT + 1
Times   == 0..MaxTime
Message == [id : Devices, type : Types, random_seq : Times]
NoCall  == [pc |-> "idle", type |-> "IMPORT", ids |-> {}, seq |-> 0,
            todo |-> {}, k |-> 1]

Listed(d)  == agent_transfer_status[d] # "ABSENT"
Running    == {d \in Devices : agent_transfer_status[d] = "RUNNING"}
AllIdle    == \A c \in Clients : cli[c].pc = "idle"

-----------------------------------------------------------------------------
Init ==
  /\ status = 0 /\ start_time = 0 /\ type = "IMPORT" /\ random_seq = 0
  /\ id_list = {} /\ id_num = 0 /\ recv_num = 0
  /\ agent_transfer_status = [d \in Devices |-> "ABSENT"]
  /\ transfer_result = [d \in Devices |-> 0]
  /\ cli = [c \in Clients |-> NoCall]
  /\ rpc = "top" /\ inst = 0 /\ idx = 0 /\ todo = {}
  /\ requests = {} /\ replies = {}
  /\ clock = 1
  /\ asked_by = [d \in Devices |-> 0] /\ answered = {}

-----------------------------------------------------------------------------
(* devinfo_server_set_status_by_id: no effect when the device is not listed. *)
SetStatus(d, st, res) ==
  /\ agent_transfer_status' =
       [agent_transfer_status EXCEPT ![d] = IF Listed(d) THEN st ELSE @]
  /\ transfer_result' = [transfer_result EXCEPT ![d] = IF Listed(d) THEN res ELSE @]

(* devinfo_server_get_status_by_id, which is also all that                   *)
(* rmt_server_get_result does: it clears nothing.  A device that  *)
(* is not listed is an error.                                                *)
GetStatus(d) == IF Listed(d) THEN agent_transfer_status[d] ELSE "AGENT_ERROR"

-----------------------------------------------------------------------------
(* The API thread: rmt_server_send_file and rmt_server_recv_file.            *)

(* Seeded fault: the check for a running transfer is dropped.                *)
NoTransferUnchecked == TRUE

NoTransfer == status = 0

(* The call is refused (-1, no change) while a transfer is running.          *)
Call(c, t, ids) ==
  /\ cli[c].pc = "idle"
  /\ clock < CallHorizon
  /\ ids # {} /\ (t = "EXPORT" => Cardinality(ids) = 1)
  /\ NoTransfer
  /\ cli' = [cli EXCEPT ![c] = [pc |-> "send", type |-> t, ids |-> ids,
                                 seq |-> clock, todo |-> {}, k |-> 1]]
  /\ UNCHANGED <<fts, devs, thread, network, clock, history>>

(* dds_transport_send sleeps for a second before it writes; its result is    *)
(* ignored, so any subset of the addressed agents may get the request.       *)
Send(c) ==
  /\ cli[c].pc = "send"
  /\ clock > cli[c].seq
  /\ \E reached \in SUBSET cli[c].ids :
       requests' = requests \cup
         [id : reached, type : {cli[c].type}, random_seq : {cli[c].seq}]
  /\ cli' = [cli EXCEPT ![c].pc = "mark", ![c].todo = cli[c].ids]
  /\ UNCHANGED <<fts, devs, thread, replies, clock, history>>

(* "Mark all devices as running", one locked section per device.             *)
Mark(c) ==
  /\ cli[c].pc = "mark"
  /\ \E d \in cli[c].todo :
       /\ SetStatus(d, "RUNNING", 0)
       /\ asked_by' = [asked_by EXCEPT ![d] = cli[c].seq]
       /\ cli' = [cli EXCEPT ![c].todo = @ \ {d},
                             ![c].pc = IF cli[c].todo = {d} THEN "store" ELSE "mark"]
  /\ UNCHANGED <<fts, thread, network, clock, answered>>

(* "Trigger the file transfer to run": the unlocked stores, in the groups    *)
(* StoreGroups gives (one per field is the order of the source).             *)
Store(c) ==
  LET call == cli[c]
      New(f, v, old) == IF f \in StoreGroups[call.k] THEN v ELSE old
  IN /\ call.pc = "store"
     /\ status'     = New("status", 1, status)
     /\ recv_num'   = New("recv_num", 0, recv_num)
     /\ random_seq' = New("random_seq", call.seq, random_seq)
     /\ type'       = New("type", call.type, type)
     /\ id_num'     = New("id_num", Cardinality(call.ids), id_num)
     /\ id_list'    = New("id_list", call.ids, id_list)
     /\ start_time' = New("start_time", clock, start_time)
     /\ cli' = [cli EXCEPT ![c] = IF call.k = Len(StoreGroups)
                                  THEN NoCall
                                  ELSE [call EXCEPT !.k = @ + 1]]
     /\ answered' = {}
     /\ UNCHANGED <<devs, thread, network, clock, asked_by>>

-----------------------------------------------------------------------------
(* The recv thread: dataserver_info_file_transfer_thread, once per pass.     *)

(* Seeded faults: what the operator of the same stem would be with a bug.    *)
FirstToPollOneEarly == recv_num - 1
ForMeAnySeq(r)      == r.type = type
AllReceivedAny      == recv_num > 0
TimedOutNever       == clock - start_time > MaxTime
ExpirableAll(d)     == Listed(d)

FirstToPoll  == recv_num
ForMe(r)     == r.type = type /\ r.random_seq = random_seq
AllReceived  == recv_num = id_num
TimedOut     == clock - start_time > REPLY_TIMEOUT
Expirable(d) == GetStatus(d) = "RUNNING"

(* The instance to take from is fixed before status is looked at.            *)
Instance ==
  /\ rpc = "top"
  /\ inst' = random_seq
  /\ rpc' = "status"
  /\ UNCHANGED <<fts, devs, cli, idx, todo, network, clock, history>>

CheckRunning ==
  /\ rpc = "status"
  /\ IF status = 1 THEN rpc' = "poll" /\ idx' = FirstToPoll
                   ELSE rpc' = "top"  /\ UNCHANGED idx
  /\ UNCHANGED <<fts, devs, cli, inst, todo, network, clock, history>>

(* One sample of the instance, handled by recv_file_transfer_reply: a reply  *)
(* to another request is taken and dropped; EXPORT may run out of memory.    *)
Take ==
  /\ rpc = "poll" /\ idx < id_num
  /\ \E r \in replies :
       /\ r.random_seq = inst
       /\ replies' = replies \ {r}
       /\ IF ~ForMe(r)
          THEN UNCHANGED <<recv_num, devs, answered>>
          ELSE /\ recv_num' = recv_num + 1
               /\ answered' = answered \cup {r.id}
               /\ \E st \in {"DONE"} \cup IF type = "EXPORT" THEN {"SERVER_ERROR"} ELSE {} :
                    SetStatus(r.id, st, r.random_seq)
  /\ UNCHANGED <<status, start_time, type, random_seq, id_list, id_num,
                 cli, thread, requests, clock, asked_by>>

(* No sample left: dds_transport_try_recv_instance returns, the loop goes on. *)
TakeNothing ==
  /\ rpc = "poll" /\ idx < id_num
  /\ \A r \in replies : r.random_seq # inst
  /\ idx' = idx + 1
  /\ UNCHANGED <<fts, devs, cli, rpc, inst, todo, network, clock, history>>

(* "If we receive all the data".                                             *)
CheckComplete ==
  /\ rpc = "poll" /\ idx >= id_num
  /\ status' = IF AllReceived THEN 0 ELSE status
  /\ rpc' = "time"
  /\ UNCHANGED <<start_time, type, random_seq, id_list, id_num, recv_num, devs, cli,
                 inst, idx, todo, network, clock, history>>

(* "While receive timeout"; the loop over a NULL id_list is a crash.         *)
CheckTimeout ==
  /\ rpc = "time"
  /\ rpc' = CASE ~TimedOut -> "free"
              [] TimedOut /\ id_num > 0 /\ id_list = {} -> "crashed"
              [] OTHER -> "expire"
  /\ todo' = IF TimedOut THEN id_list ELSE {}
  /\ UNCHANGED <<fts, devs, cli, inst, idx, network, clock, history>>

(* "Mark all running device as agent error".                                 *)
Expire ==
  /\ rpc = "expire"
  /\ \E d \in todo :
       /\ todo' = todo \ {d}
       /\ IF Expirable(d) THEN SetStatus(d, "AGENT_ERROR", 0)
                                      ELSE UNCHANGED devs
  /\ UNCHANGED <<fts, cli, rpc, inst, idx, network, clock, history>>

ExpireDone ==
  /\ rpc = "expire" /\ todo = {}
  /\ status' = 0
  /\ rpc' = "free"
  /\ UNCHANGED <<start_time, type, random_seq, id_list, id_num, recv_num, devs, cli,
                 inst, idx, todo, network, clock, history>>

(* "free the resource": id_list is dropped, not freed.                       *)
Release ==
  /\ rpc = "free"
  /\ IF status = 0 THEN id_list' = {} /\ id_num' = 0
                   ELSE UNCHANGED <<id_list, id_num>>
  /\ rpc' = "top"
  /\ UNCHANGED <<status, start_time, type, random_seq, recv_num, devs, cli,
                 inst, idx, todo, network, clock, history>>

(* recv_thread_func reinitialises the server when no API is in use and no    *)
(* file is transferring: the device list is emptied, the new reader starts   *)
(* with an empty cache, and datainfo_server_init resets five of the fields.  *)
Reinit ==
  /\ rpc = "top"
  /\ AllIdle /\ status = 0
  /\ agent_transfer_status' = [d \in Devices |-> "ABSENT"]
  /\ transfer_result' = [d \in Devices |-> 0]
  /\ replies' = {}
  /\ status' = 0 /\ start_time' = 0 /\ recv_num' = 0 /\ id_list' = {} /\ id_num' = 0
  /\ UNCHANGED <<type, random_seq, cli, thread, requests, clock, history>>

-----------------------------------------------------------------------------
(* The environment: devices come and go, agents answer late or never.        *)

(* add_device of an unknown ID: a malloc'ed entry whose agent_transfer_status *)
(* nobody initialises.                                                       *)
DeviceFound(d) ==
  /\ ~Listed(d)
  /\ \E st \in FreshStatus :
       agent_transfer_status' = [agent_transfer_status EXCEPT ![d] = st]
  /\ UNCHANGED <<fts, transfer_result, cli, thread, network, clock, history>>

(* del_device, from the DDS listener.                                        *)
DeviceLost(d) ==
  /\ Listed(d)
  /\ agent_transfer_status' = [agent_transfer_status EXCEPT ![d] = "ABSENT"]
  /\ transfer_result' = [transfer_result EXCEPT ![d] = 0]
  /\ UNCHANGED <<fts, cli, thread, network, clock, history>>

(* The agent runs its callback and answers with the request's type and seq.  *)
AgentReply ==
  /\ \E r \in requests : requests' = requests \ {r} /\ replies' = replies \cup {r}
  /\ UNCHANGED <<fts, devs, cli, thread, clock, history>>

(* A second passes.  The part of a pass that follows the poll takes no lock  *)
(* but the device list's and blocks on nothing: it is taken to fit into the  *)
(* second an API call sleeps.  Past CallHorizon time passes between calls.   *)
Tick ==
  /\ clock < MaxTime
  /\ rpc \in {"top", "status", "poll"}
  /\ clock < CallHorizon \/ AllIdle
  /\ clock' = clock + 1
  /\ UNCHANGED <<fts, devs, cli, thread, network, history>>

-----------------------------------------------------------------------------
ClientStep(c) == Send(c) \/ Mark(c) \/ Store(c)
RecvStep == \/ Instance \/ CheckRunning \/ Take \/ TakeNothing \/ CheckComplete
            \/ CheckTimeout \/ Expire \/ ExpireDone \/ Release

Next ==
  \/ \E c \in Clients, t \in Types, ids \in SUBSET Devices : Call(c, t, ids)
  \/ \E c \in Clients : ClientStep(c)
  \/ RecvStep \/ Reinit
  \/ \E d \in Devices : DeviceFound(d) \/ DeviceLost(d)
  \/ AgentReply \/ Tick

Spec == Init /\ [][Next]_vars

(* The threads are scheduled; time passes, also if every other state of the  *)
(* recv thread forbids it (SF); agents owe nothing.                          *)
FairSpec == /\ Spec
            /\ WF_vars(RecvStep) /\ SF_vars(Tick)
            /\ \A c \in Clients : WF_vars(ClientStep(c))

-----------------------------------------------------------------------------
TypeOK ==
  /\ status \in {0, 1} /\ type \in Types
  /\ start_time \in Times /\ random_seq \in Times
  /\ id_list \in SUBSET Devices
  /\ id_num \in Nat /\ recv_num \in Nat
  /\ agent_transfer_status \in [Devices -> Status \cup {"ABSENT"}]
  /\ transfer_result \in [Devices -> Times]
  /\ cli \in [Clients -> [pc : {"idle", "send", "mark", "store"}, type : Types,
                          ids : SUBSET Devices, seq : Times,
                          todo : SUBSET Devices, k : 1..Len(StoreGroups)]]
  /\ rpc \in {"top", "status", "poll", "time", "expire", "free", "crashed"}
  /\ inst \in Times /\ idx \in Nat /\ todo \in SUBSET Devices
  /\ requests \in SUBSET Message /\ replies \in SUBSET Message
  /\ clock \in Times
  /\ asked_by \in [Devices -> Times]
  /\ answered \in SUBSET Devices

(* One transfer at a time: while a transfer runs, no call to send or receive *)
(* a file is past its check and about to overwrite g_file_transfer_stat.     *)
OneTransfer == status = 1 => AllIdle

(* A device shows RUNNING only while something is left that will settle it:  *)
(* a transfer in progress that addresses it and has not counted its reply,   *)
(* or a call that is about to start that transfer.                           *)
IdleSettled ==
  \A d \in Running :
    \/ status = 1 /\ d \in id_list \ answered
    \/ \E c \in Clients : cli[c].pc \in {"mark", "store"} /\ d \in cli[c].ids \ cli[c].todo

(* "0: idle" means settled: between passes, with no call in progress and     *)
(* status 0, no device is left RUNNING.                                      *)
IdleMeansSettled == status = 0 /\ AllIdle /\ rpc = "top" => Running = {}

(* The result an entry holds is that of the last transfer that addressed the *)
(* device: a late reply to an earlier one is never recorded.                 *)
FreshResult ==
  \A d \in Devices : transfer_result[d] # 0 => transfer_result[d] = asked_by[d]

(* A delivered result stays until the device is asked again or is gone: no   *)
(* second reply and no timeout overwrites it.                                *)
ResultKept ==
  [][\A d \in Devices :
       transfer_result[d] # 0 /\ transfer_result'[d] # transfer_result[d]
         => agent_transfer_status'[d] \in {"RUNNING", "ABSENT"}]_vars

(* A device does not show RUNNING for ever, whatever the agents do.          *)
TransferTerminates ==
  \A d \in Devices : [](d \in Running => <>(d \notin Running))

(* A device that shows RUNNING was asked for a file.                         *)
RunningWasAsked == \A d \in Running : asked_by[d] # 0

-----------------------------------------------------------------------------
(* The inductive invariant behind OneTransfer, IdleSettled and FreshResult,  *)
(* with one client that stores the status last, or all in one.               *)

Messages == requests \cup replies

(* While the recv thread winds a pass up, a call got at most as far as the   *)
(* second it sleeps; it polls only a running transfer.                       *)
PassIsShort ==
  /\ rpc = "poll" => status = 1
  /\ rpc \in {"time", "expire", "free", "crashed"} =>
       \A c \in Clients : cli[c].pc = "idle" \/ (cli[c].pc = "send" /\ cli[c].seq = clock)

(* The expiry loop has all the RUNNING devices still before it.              *)
ExpiryCovers == rpc = "expire" => Running \subseteq todo

(* recv_num counts the devices of id_list that answered.                     *)
CountsAnswers ==
  status = 1 => /\ id_num = Cardinality(id_list) /\ recv_num = Cardinality(answered)
                /\ answered \subseteq id_list
                /\ \A m \in Messages : m.random_seq = random_seq => m.id \in id_list \ answered
                /\ \A d \in id_list : asked_by[d] = random_seq

(* A device is sent at most one message per random_seq, and sends one back.  *)
OneMessageEach ==
  /\ \A m \in Messages : m.random_seq < clock
  /\ \A m, n \in Messages : m.id = n.id /\ m.random_seq = n.random_seq => m = n
  /\ requests \cap replies = {}

(* A call's random_seq is its own, and the devices it marked carry it.       *)
CallsAreFresh ==
  \A c \in Clients :
    /\ cli[c].pc # "idle" => cli[c].seq <= clock
    /\ cli[c].pc = "send" => \A m \in Messages : m.random_seq < cli[c].seq
    /\ cli[c].todo \subseteq cli[c].ids
    /\ cli[c].pc = "store" => cli[c].todo = {}
    /\ cli[c].pc \in {"mark", "store"} =>
         /\ \A m \in Messages : m.random_seq = cli[c].seq => m.id \in cli[c].ids
         /\ \A d \in cli[c].ids \ cli[c].todo : asked_by[d] = cli[c].seq

AbsentIsEmpty == \A d \in Devices : ~Listed(d) => transfer_result[d] = 0

TransferInv ==
  /\ OneTransfer /\ IdleSettled /\ FreshResult /\ PassIsShort /\ ExpiryCovers
  /\ CountsAnswers /\ OneMessageEach /\ CallsAreFresh /\ AbsentIsEmpty
-----------------------------------------------------------------------------
(* The transfer g_file_transfer_stat describes, or is about to, seen as the  *)
(* transfer of the abstract service: who is asked, and who has no outcome.   *)
Asking == \E c \in Clients : cli[c].pc \in {"mark", "store"}
Caller == cli[CHOOSE c \in Clients : cli[c].pc \in {"mark", "store"}]
Round  == IF Asking THEN Caller.seq ELSE random_seq
Owed   == CASE status = 1 /\ rpc = "expire" -> todo \ answered
            [] status = 1 /\ rpc # "expire" -> id_list \ answered
            [] status = 0 /\ Asking -> Caller.ids \ Caller.todo
            [] OTHER -> {}

Service == INSTANCE Transfers WITH
             shown <- agent_transfer_status, result <- transfer_result,
             round <- Round, asking <- Asking, owed <- Owed

(* With one client and its stores seen as one, the server keeps the promises *)
(* of Transfers: each device a transfer asks gets one outcome, in that       *)
(* transfer, and what a device shows changes for no other reason.            *)
ImplementsTransfers == Service!Spec
=============================================================================
