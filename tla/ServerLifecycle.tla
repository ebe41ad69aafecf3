--------------------------- MODULE ServerLifecycle ---------------------------
(***************************************************************************)
(* The server's life (server/rmt_server.c): the application starts and     *)
(* stops it, its threads call the API, and the recv thread moves the       *)
(* server to another network interface: it stops the server, waits until   *)
(* no call is counted and no file is being transferred, frees the          *)
(* transport and builds a new one.  An interface name stands for the name  *)
(* and its address.                                                        *)
(*                                                                         *)
(* A few coincidences that the code does not exclude break it; Avoided     *)
(* names the ones an instance leaves out.                                  *)
(***************************************************************************)
EXTENDS Network, FiniteSets

CONSTANTS
  Threads,       \* the application's threads
  AutoDetect,    \* g_rmt_cfg.auto_detect_interface
  Configured,    \* what g_rmt_cfg.net_interface may be, "" for none
  Avoided        \* coincidences left out

Coincidences == {
  "entry",       \* the server is stopped between a call's check and its count
  "count",       \* two threads change using_api at the same time
  "start",       \* the recv thread runs before rmt_server_init has returned
  "reinit",      \* rmt_reinit_server is called during a reinit
  "deinit",      \* the server is stopped while it has no transport
  "participant"} \* an entity of the new transport cannot be created

(* A call that sends and receives, one that starts a file transfer too, and  *)
(* one that only looks into the device list.                                 *)
Kinds == {"query", "file", "result"}

ASSUME ThreadsAssumption == IsFiniteSet(Threads)
ASSUME ConfigAssumption ==
  /\ Configured \subseteq Interfaces \cup {NoInterface}
  /\ AutoDetect \in BOOLEAN /\ Avoided \subseteq Coincidences

VARIABLES
  status, using_api, recv_thread_status, transport,   \* g_svr_info
  live,          \* the transport that exists, 0 for none
  dev_mutex,     \* g_dev_mutex can be locked
  transferring,  \* g_file_transfer_stat.status
  runtime,       \* g_rmt_runtime_cfg.net_interface
  up,            \* the interfaces that are up and running
  api,           \* each thread's call: where it is, kind, transport, copy of using_api
  rt, seen,      \* recv thread: where it is, and its local interface
  main,          \* the thread that starts and stops the server
  asked          \* history: a reinit is asked for and not yet done

info == <<status, using_api, recv_thread_status, transport>>
vars == <<info, live, dev_mutex, transferring, runtime, up, api, rt, seen, main, asked>>

(* Enough addresses for malloc never to return one that somebody still has.  *)
Transports == 1..Cardinality(Threads) + 2
Fresh      == CHOOSE n \in Transports :
                n # transport /\ \A t \in Threads : api[t].transport # n

Out     == [pc |-> "out", kind |-> "query", transport |-> 0, copy |-> 0]
Inside  == {t \in Threads : api[t].pc \notin {"out", "enter", "enter_loaded"}}
Avoid(x) == x \in Avoided

(* Seeded fault: the loopback interface is not excluded.                     *)
SelectLoopback == "lo"

Select == SelectFrom(up)

-----------------------------------------------------------------------------
Init ==
  /\ status = "STOP" /\ using_api = 0 /\ recv_thread_status = 0 /\ transport = 0
  /\ live = 0 /\ dev_mutex = FALSE /\ transferring = FALSE
  /\ runtime = NoInterface /\ up \in SUBSET Interfaces
  /\ api = [t \in Threads |-> Out]
  /\ rt = "none" /\ seen = NoInterface /\ main = "off"
  /\ asked = FALSE

-----------------------------------------------------------------------------
(* The application's main thread.                                            *)

(* rmt_server_init; when it fails it has no effect that matters here.        *)
Start(configured) ==
  /\ main = "off" /\ main' = "starting"
  /\ runtime' = CASE configured # NoInterface -> configured
                  [] configured = NoInterface /\ Select # NoInterface -> Select
                  [] OTHER -> runtime
  /\ dev_mutex' = TRUE /\ transferring' = FALSE
  /\ transport' = Fresh /\ live' = Fresh
  /\ recv_thread_status' = 1
  /\ rt' = IF Avoid("start") THEN "none" ELSE "top"
  /\ UNCHANGED <<using_api, status, up, api, seen, asked>>

(* The stores that follow pthread_create.                                    *)
Started ==
  /\ main = "starting" /\ main' = "on"
  /\ using_api' = 0 /\ status' = "RUNNING"
  /\ rt' = IF rt = "none" THEN "top" ELSE rt
  /\ UNCHANGED <<recv_thread_status, transport, live, dev_mutex, transferring, runtime,
                 up, api, seen, asked>>

(* rmt_server_deinit, which the application calls when its calls are over.   *)
Stop ==
  /\ main = "on" /\ \A t \in Threads : api[t] = Out
  /\ Avoid("deinit") => transport # 0
  /\ recv_thread_status' = 0 /\ main' = "joining"
  /\ UNCHANGED <<status, using_api, transport, live, dev_mutex, transferring, runtime,
                 up, api, rt, seen, asked>>

(* The recv thread has ended; the transport is freed, NULL or not.           *)
Join ==
  /\ main = "joining" /\ rt = "ended"
  /\ main' = IF transport = 0 THEN "crashed" ELSE "off"
  /\ live' = 0 /\ dev_mutex' = FALSE /\ rt' = "none" /\ asked' = FALSE
  /\ UNCHANGED <<info, transferring, runtime, up, api, seen>>

(* rmt_reinit_server.                                                        *)
RequestReinit ==
  /\ main = "on"
  /\ Avoid("reinit") => rt \notin {"config", "connect", "publish", "announce"}
  /\ status' = "STOP" /\ asked' = TRUE
  /\ UNCHANGED <<using_api, recv_thread_status, transport, live, dev_mutex, transferring,
                 runtime, up, api, rt, seen, main>>

-----------------------------------------------------------------------------
(* The API calls.  A call that finds the server stopped returns at once.     *)

(* Seeded fault: the call does not look at the status.                       *)
MayEnterAnyway == TRUE

MayEnter == status = "RUNNING"

Enter(t, kind) ==
  /\ main = "on" /\ api[t].pc = "out" /\ MayEnter
  /\ IF Avoid("entry")
     THEN using_api' = using_api + 1 /\ api' = [api EXCEPT ![t].pc = "in", ![t].kind = kind]
     ELSE UNCHANGED using_api /\ api' = [api EXCEPT ![t].pc = "enter", ![t].kind = kind]
  /\ UNCHANGED <<status, recv_thread_status, transport, live, dev_mutex, transferring,
                 runtime, up, rt, seen, main, asked>>

(* Seeded fault: one kind of call returns without using_api--.               *)
ReturnedUncounted(kind) == IF kind = "result" THEN 0 ELSE 1

Returned(kind) == 1

(* using_api++ and using_api--: one step, or a load and a store.             *)
Count(t) ==
  LET c        == api[t]
      entering == c.pc \in {"enter", "enter_loaded"}
      next     == IF entering THEN [c EXCEPT !.pc = "in", !.copy = 0] ELSE Out
      n        == IF entering THEN 1 ELSE -Returned(c.kind)
  IN
  /\ \/ /\ Avoid("count") /\ c.pc \in {"enter", "leave"}
        /\ using_api' = using_api + n /\ api' = [api EXCEPT ![t] = next]
     \/ /\ ~Avoid("count") /\ c.pc \in {"enter", "leave"}
        /\ api' = [api EXCEPT ![t].pc = IF entering THEN "enter_loaded" ELSE "leave_loaded",
                              ![t].copy = using_api]
        /\ UNCHANGED using_api
     \/ /\ c.pc \in {"enter_loaded", "leave_loaded"}
        /\ using_api' = c.copy + n /\ api' = [api EXCEPT ![t] = next]
  /\ UNCHANGED <<status, recv_thread_status, transport, live, dev_mutex, transferring,
                 runtime, up, rt, seen, main, asked>>

(* g_svr_info.transport is read for the whole call.                          *)
Begin(t) ==
  /\ api[t].pc = "in"
  /\ api' = [api EXCEPT ![t].pc = "busy",
                        ![t].transport = IF api[t].kind = "result" THEN 0 ELSE transport]
  /\ UNCHANGED <<info, live, dev_mutex, transferring, runtime, up, rt, seen, main, asked>>

(* The call is done; one for a file has started a transfer, unless the agent *)
(* list was refused because another one was running.                         *)
Finish(t) ==
  /\ api[t].pc = "busy"
  /\ transferring' = (transferring \/ api[t].kind = "file")
  /\ api' = [api EXCEPT ![t].pc = "leave", ![t].transport = 0]
  /\ UNCHANGED <<info, live, dev_mutex, runtime, up, rt, seen, main, asked>>

Call(t) == Count(t) \/ Begin(t) \/ Finish(t)

-----------------------------------------------------------------------------
(* The recv thread.                                                          *)

recv == <<status, transport, live, dev_mutex, transferring, runtime, seen, asked>>

(* Seeded faults of the operators below.                                     *)
KeepGoingAlways  == TRUE
ChangedNever     == status = "STOP"
ChangedAddress   == Select # runtime
StoppedNot       == status
QuietUncounted   == TRUE
NoFileUnchecked  == seen # NoInterface

KeepGoing  == recv_thread_status = 1
LookNeeded == AutoDetect \/ status = "STOP"
Stopped    == "STOP"
Changed    == Select # runtime \/ status = "STOP"
Quiet      == using_api = 0
NoFile     == ~transferring /\ seen # NoInterface

(* One pass over the device list and the file transfer, which may end it.    *)
Pass(ends) ==
  /\ rt = "top" /\ KeepGoing
  /\ ends => transferring /\ transport # 0
  /\ transferring' = (transferring /\ ~ends)
  /\ rt' = "look"
  /\ UNCHANGED <<info, live, dev_mutex, runtime, up, api, seen, main, asked>>

End ==
  /\ rt = "top" /\ ~KeepGoing /\ rt' = "ended"
  /\ UNCHANGED <<recv, using_api, recv_thread_status, up, api, main>>

(* "If interface changed": the server is stopped.                            *)
Look ==
  /\ rt = "look"
  /\ seen' = IF LookNeeded THEN Select ELSE seen
  /\ IF LookNeeded /\ Changed THEN status' = Stopped /\ rt' = "calls"
                              ELSE UNCHANGED status /\ rt' = "top"
  /\ UNCHANGED <<using_api, recv_thread_status, transport, live, dev_mutex, transferring,
                 runtime, up, api, main, asked>>

(* "Make sure all the API exist and no file is transfering", in this order,  *)
(* and "the available interface exist".                                      *)
CheckCalls ==
  /\ rt = "calls" /\ rt' = IF Quiet THEN "files" ELSE "top"
  /\ UNCHANGED <<recv, using_api, recv_thread_status, up, api, main>>

CheckFiles ==
  /\ rt = "files" /\ rt' = IF NoFile THEN "drop" ELSE "top"
  /\ UNCHANGED <<recv, using_api, recv_thread_status, up, api, main>>

(* "Free the communication resource", and the device list with its mutex.    *)
Drop ==
  /\ rt = "drop" /\ rt' = "config"
  /\ transport' = 0 /\ live' = 0 /\ asked' = FALSE
  /\ dev_mutex' = (dev_mutex /\ transport = 0)
  /\ UNCHANGED <<status, using_api, recv_thread_status, transferring, runtime, up, api,
                 seen, main>>

(* dds_transport_config_init; a failure is tried again in the next pass.     *)
MayFail == Avoid("deinit") => main = "on"

Configure(ok) ==
  /\ rt = "config" /\ (~ok => MayFail) /\ rt' = IF ok THEN "connect" ELSE "top"
  /\ UNCHANGED <<recv, using_api, recv_thread_status, up, api, main>>

(* dds_transport_server_init returns NULL only when there is no memory: when *)
(* an entity cannot be created the pointer it returns is already freed.      *)
Connect(outcome) ==
  /\ rt = "connect"
  /\ \/ outcome = "ok" /\ transport' = Fresh /\ live' = Fresh /\ rt' = "publish"
     \/ outcome = "null" /\ MayFail /\ rt' = "top" /\ UNCHANGED <<transport, live>>
     \/ /\ outcome = "freed" /\ ~Avoid("participant")
        /\ transport' = Fresh /\ rt' = "publish" /\ UNCHANGED live
  /\ UNCHANGED <<status, using_api, recv_thread_status, dev_mutex, transferring, runtime,
                 up, api, seen, main, asked>>

(* devinfo_server_init, datainfo_server_init and the runtime configuration.  *)
Publish ==
  /\ rt = "publish" /\ rt' = "announce"
  /\ dev_mutex' = TRUE /\ transferring' = FALSE /\ runtime' = seen
  /\ UNCHANGED <<info, live, up, api, seen, main, asked>>

Announce ==
  /\ rt = "announce" /\ rt' = "top" /\ status' = "RUNNING"
  /\ UNCHANGED <<using_api, recv_thread_status, transport, live, dev_mutex, transferring,
                 runtime, up, api, seen, main, asked>>

RecvStep ==
  \/ \E ends \in BOOLEAN : Pass(ends)
  \/ End \/ Look \/ CheckCalls \/ CheckFiles \/ Drop \/ Publish \/ Announce
  \/ \E ok \in BOOLEAN : Configure(ok)
  \/ \E outcome \in {"ok", "null", "freed"} : Connect(outcome)

-----------------------------------------------------------------------------
(* The environment: interfaces come and go.                                  *)
Toggle(i) ==
  /\ up' = (up \ {i}) \cup ({i} \ up)
  /\ UNCHANGED <<info, live, dev_mutex, transferring, runtime, api, rt, seen, main, asked>>

Next ==
  \/ \E configured \in Configured : Start(configured)
  \/ Started \/ Stop \/ Join \/ RequestReinit
  \/ \E t \in Threads : Call(t) \/ \E kind \in Kinds : Enter(t, kind)
  \/ RecvStep
  \/ \E i \in Interfaces : Toggle(i)

Spec == Init /\ [][Next]_vars

(* The threads are scheduled, a call returns (its waiting is bounded by      *)
(* reply_timeout), a transfer ends (FileTransfer's TransferTerminates), and  *)
(* what the reinit retries succeeds in the end.                              *)
FairSpec ==
  /\ Spec
  /\ WF_vars(RecvStep) /\ WF_vars(Started) /\ WF_vars(Join)
  /\ \A t \in Threads : WF_vars(Call(t))
  /\ SF_vars(Pass(TRUE)) /\ SF_vars(Configure(TRUE)) /\ SF_vars(Connect("ok"))

-----------------------------------------------------------------------------
TypeOK ==
  /\ status \in {"STOP", "RUNNING"} /\ using_api \in Int
  /\ recv_thread_status \in {0, 1}
  /\ transport \in Transports \cup {0} /\ live \in Transports \cup {0}
  /\ dev_mutex \in BOOLEAN /\ transferring \in BOOLEAN
  /\ runtime \in Interfaces \cup {NoInterface} /\ seen \in Interfaces \cup {NoInterface}
  /\ up \in SUBSET Interfaces
  /\ api \in [Threads -> [pc : {"out", "enter", "enter_loaded", "in", "busy", "leave",
                                 "leave_loaded"},
                          kind : Kinds, transport : Transports \cup {0}, copy : Int]]
  /\ rt \in {"none", "top", "look", "calls", "files", "drop", "config", "connect",
             "publish", "announce", "ended"}
  /\ main \in {"off", "starting", "on", "joining", "crashed"}
  /\ asked \in BOOLEAN

(* Whoever uses the transport or the device list finds it: the calls in      *)
(* progress, the recv thread's pass, and rmt_server_deinit.                  *)
NothingFreedInUse ==
  /\ \A t \in Threads : api[t].pc = "busy" =>
       dev_mutex /\ (api[t].kind # "result" => api[t].transport = live /\ live # 0)
  /\ rt = "top" /\ transport # 0 => transport = live /\ dev_mutex
  /\ main # "crashed"

(* using_api is the number of calls in progress.                             *)
CountExact == using_api = Cardinality(Inside)

(* While the server is RUNNING its transport exists, with the device list.   *)
RunningIsConnected ==
  status = "RUNNING" /\ main = "on" => transport = live /\ live # 0 /\ dev_mutex

(* The transport is replaced only when no call and no transfer uses it.      *)
ReplacedWhenQuiet ==
  [][live # 0 /\ live' # live => Inside = {} /\ (main = "on" => ~transferring)]_vars

(* If the selected interface stays the same, the server runs on it again and *)
(* again: neither calls nor transfers keep it stopped for ever.              *)
ComesBack ==
  \A i \in Interfaces :
    <>[](main = "on" /\ Select = i) => []<>(status = "RUNNING" /\ runtime = i)

(* A reinit that is asked for is done.                                       *)
RequestHonoured == [](asked => <>(~asked \/ main # "on" \/ Select = NoInterface))

(* rmt_server_deinit returns.                                                *)
StopReturns == main = "joining" ~> main = "off"

(* rmt.conf: the interface is switched while it is disconnected.             *)
SwitchedWhenDown ==
  [][main = "on" /\ main' = "on" /\ runtime' # runtime => runtime \notin up]_vars

-----------------------------------------------------------------------------
(* The inductive invariant behind these, when at most the coincidence        *)
(* "reinit" happens.                                                         *)

Closing == {"files", "drop", "config", "connect", "publish", "announce"}

(* Calls are made while the application runs the server, and what a call     *)
(* uses stays as long as it is counted.                                      *)
CallsInOrder ==
  \A t \in Threads :
    /\ api[t].pc \in {"out", "in", "busy", "leave"}
    /\ api[t].pc = "out" => api[t] = Out
    /\ api[t].pc # "out" => main = "on" /\ transport # 0 /\ dev_mutex
    /\ api[t].pc = "busy" /\ api[t].kind # "result" => api[t].transport = transport

(* The recv thread exists while the server is on, and is joined only when    *)
(* there is a transport to free.                                             *)
MainInOrder ==
  /\ main # "crashed"
  /\ main \in {"off", "starting"} <=> rt = "none"
  /\ main \in {"starting", "on"} => recv_thread_status = 1
  /\ main = "off" => live = 0
  /\ main # "off" => live = transport
  /\ main = "starting" => transport # 0
  /\ main = "joining" /\ transport = 0 => rt \in {"config", "connect"}

(* From the moment the recv thread has seen no call until it announces the   *)
(* server again, the server is stopped and no call gets in.                  *)
ReinitInOrder ==
  /\ rt \in Closing \cup {"calls"} => status = "STOP"
  /\ rt \in Closing => Inside = {}
  /\ rt = "drop" => ~transferring
  /\ rt \in {"config", "connect"} => transport = 0
  /\ rt \in {"publish", "announce"} => transport # 0
  /\ transport # 0 /\ rt # "publish" /\ main # "off" => dev_mutex
  /\ status = "RUNNING" /\ main = "on" => transport # 0

LifecycleInv == CountExact /\ CallsInOrder /\ MainInOrder /\ ReinitInOrder
=============================================================================
