# Verification of rmt_library

The server side of rmt_library keeps a list of the devices that agents announce
over DDS, sends them requests and files, and moves to another network interface
while it runs.  This directory models that behaviour in TLA+, checks it with TLC
and proves parts of it with TLAPS.  Source paths are relative to the repository.

## The system

| part | state | operations |
|---|---|---|
| server lifecycle (`server/rmt_server.c`) | `g_svr_info`: transport, recv thread flag, status, count of API calls | init, deinit, reinit request, API calls, recv thread |
| file transfer (`server/datainfo_server.c` 250-380) | `g_file_transfer_stat`; status and result in each device's entry | send_file, recv_file, get_result, one pass of the recv thread |
| get/set information (`server/datainfo_server.c` 30-248) | a static request per function, replies on the caller's stack | get_info, set_info, set_info_with_same_value |
| device list (`server/devinfo_server.c`) | linked list, its length, its mutex | add, delete, copy, free, init, deinit |
| agent requests (`agent/datainfo_agent.c`) | 16 reply slots, front and rear | take requests, run handlers, send replies |
| agent loop (`agent/rmt_agent.c`, `agent/devinfo_agent.c`) | transport, device information, `g_info_change` | init, one pass, deinit |
| transport (`common/dds_transport.c`) | domain, number of participants, delete callback | create, delete, send, take, listeners |
| network, configuration (`common/network.c`, `common/rmt_config.c`) | configured and current interface | select interface, generate ID, read file |

How they interact: the recv thread calls the device list, the file transfer and
then looks at the interfaces, every 10 ms.  API threads read the same transport,
take from the same readers, and fill `g_file_transfer_stat`, which the recv
thread polls.  DDS calls the device list from its own threads through listeners.
Server and agents exchange three topics: announcements (reliable,
transient-local, one per device ID), requests (to all agents, with a list of
addressed IDs) and replies (keyed by `random_seq`).

What is hard:

- Only the device list has a lock.  `g_svr_info` and `g_file_transfer_stat` are
  shared by plain loads and stores.
- The reinit frees the transport under the API; a check of `status`, a counter
  and an order of tests are what protects the calls.
- Replies may be lost, or come when the next request is already under way;
  `random_seq` is a function of the second.
- A device's announcement and the notice of its loss come through different
  paths and threads.  A restarted agent has the same ID and another writer.
- Several failures are half handled: the pointer to a freed transport is
  returned, a reinit stops in the middle, entries are not initialised.

What makes each part correct: a transfer settles every device it addressed and
records no reply to another one (file transfer); nobody uses a freed transport
and the server comes back (lifecycle); a running device is listed and a lost one
goes (device list); each request taken is answered once, in order (agent
requests); a get or set call returns its own replies and ends (get/set); an
agent follows the selected interface, and what it has announced there is what it
is (agent loop).
`PROJECT.json` lists the hazards one by one, with their lines.

## Modules

### FileTransfer and Transfers

One action per locked section or per shared access of the code.  `Call`, `Send`,
`Mark` and `Store` are `datainfo_server_send_file` and `datainfo_server_recv_file`;
`Instance` to `Release` are `dataserver_info_file_transfer_thread` in its order;
`Take` is `recv_file_transfer_reply`; `Reinit` is the recv thread's reinit as far
as it touches this state; `DeviceFound` and `DeviceLost` are the device list's
effect; `AgentReply`, `Tick` the rest of the world.  `random_seq` is the second
in which the request was built, because `srand(time(NULL))` makes `rand()` a
function of it.

`StoreGroups` says which of the unlocked stores to `g_file_transfer_stat` are
seen as one.  One per field is the source's order; one group of all fields is
what a lock would give.  `FreshStatus` is what uninitialised memory may hold.

`rmt_server_get_result` only reads (`GetStatus`).  `server/rmt_server.h` says that
the status is cleared when DONE is returned; the code does not do that, and the
model follows the code.

`Transfers` is what the file transfer promises, without messages, counters and
timeouts: a transfer asks its devices one by one, owes each of them an outcome,
and settles each once, with an answer or by giving up; the next transfer begins
when nothing is owed.  `FileTransfer` implements it, liveness included, with
`asking <- Asking` (a call is marking its devices or storing the transfer),
`round <- Round` (its `random_seq`, or that of the transfer that is stored) and
`owed <- Owed`: the devices marked so far while a call asks, those of `id_list` that
have not answered while the transfer runs, and those the expiring pass has still to
look at.  `ImplementsTransfers` is stated where `Transfers` is true of the code: one
API thread, status stored last, entries that start settled.

Assumption of `Tick`: the part of a pass after its polling, which blocks on
nothing but the list's lock, does not take as long as the second an API call
sleeps in `dds_transport_send`.  `OneTransfer` with one thread rests on it.

### ReplyQueue and ReplyFifo

`datainfo_agent_update` with its circular buffer.  `ReplyFifo` is what it
promises: places are taken at one end and served at the other, each once.
`ReplyQueue` implements it with `places <- Places`, the slots from front to rear.
A handler's result is the request's number; a request for other agents and one
of an unknown type are kinds of their own.  A FIFO may hand out a stale number that
was put in twice; `OnceInOrder` says of the numbers themselves that none is sent
twice and none after a larger one, although a request of an unknown type keeps the
slot it took.

### ServerLifecycle

`Start`/`Started` are the two halves of `rmt_server_init` around `pthread_create`,
`Stop`/`Join` of `rmt_server_deinit` around `pthread_join`.  A call is `Enter` (the
check of `status`), `Count` (`using_api++`), `Begin`, `Finish`, `Count`
(`using_api--`).  The recv thread's loop is `Pass`, `Look`, `CheckCalls`,
`CheckFiles`, `Drop`, `Configure`, `Connect`, `Publish`, `Announce`, with every
`continue` as a return to the loop's top.  `transport` is the pointer, `live` what
it ought to point to.

The code breaks in six coincidences it does not exclude.  The constant `Avoided`
names the ones an instance leaves out; the module says what each is.  The passing
run leaves out all six, `lifecycle_entry` all but the first.  Each of them alone
breaks a property of the passing run: "entry", "deinit" and "participant"
NothingFreedInUse, "count" CountExact, "start" RunningIsConnected, "reinit"
RequestHonoured.  The application is
taken to call `rmt_server_deinit` when its other calls have returned.

### DeviceRegistry

`Take` and `Add` are separate (`dds_transport_try_recv` takes, `add_device` locks
later); `Delete` is `del_device` called by a listener; `CreateList` and `FreeList`
the application's copy.  The agents and what DDS tells the server about them are
external: writers appear, are taken for dead after `keepalive_time`, come back, or
are given up; a new reader gets the announcements of the writers it finds.
`Overlap` lets two threads be between a take and its `add_device`; then
RunningIsListed fails, and the run registry leaves it out.

### RequestReply and Inquiry

`datainfo_server_get_info`, `_set_info` and `_set_info_with_same_value`, which have
the same shape and a static request each.  `Build` fills the request and draws
`random_seq`; `Send` is `dds_transport_send`, which sleeps a second and then
writes what the static request holds by then; `Take` is `recv_reply` for one sample
of the instance, `Return` the end of the loop.  `Answer` is the agent's
`recv_request` as far as it concerns the call: who is addressed, and which part of
a SET message a device sets (`NthPart`, the loop over `strtok`).  `random_seq` is the
second, as in FileTransfer.  A lost request or reply is one that is never answered.

Nothing in the code keeps two threads from using one function or one second, and
then the calls disturb each other: they may return each other's replies, too
many, or none.  `disturbed` remembers these calls.  `Inquiry` is the abstract
specification: a thread asks some devices, hears each at most once, and returns;
calls that clash are spoiled, and nothing is said of them but that they return.
The run has calls of both kinds.

### Network and AgentLoop

`Network` holds `net_select_interface`, for the server and the agent.  `AgentLoop`
is the agent: `SetConfig` (`rmt_agent_configure`), `Start`, `ConfigInit` and `Connect`
(`rmt_agent_init`), then `Detect`, `ConfigInit`, `Connect`, `Read`, `Send` and `Serve`,
the steps of one `rmt_agent_running` between which the world may change, and `Stop`
(`rmt_agent_deinit`).  The domain and the number of participants are those of
`dds_transport.c`; the configuration is the last line per key of the file, changed
by `rmt_agent_configure`; `GenerateId` is `net_generate_id`.  A use of a transport that
is not there leads to `pc = "crashed"`.

Three coincidences may be left out (`Avoided`): an entity that cannot be created,
after which the code goes on with a freed pointer; a transport for which there is
no memory, after which the domain stays on the old interface for ever; an
announcement that cannot be written, which is not repeated.  The run leaves all
three out.  A domain that cannot be created is not one of them: it is what happens
while an interface goes away, and the run has it at every point.

What the model shows of the code, without a run of its own: a move that fails and
is then undone ends in the use of a NULL transport (`NoBadUse` says that nothing
else does); a change of address that is read in a pass before the move is sent on
the old writer and not on the new one (`ToldLatest`); an agent started without an
interface has the ID 0 (`IdKept`); and the first domain is created for the
configured interface, which is empty unless configured, not for the selected one
(`DomainExact` says what the domain is, `rmt_agent.c` 35).  DeviceRegistry assumes
that a running agent announces itself once on each writer: `ToldLatest` says when
that is so.

## Runs

| run | configuration | shows |
|---|---|---|
| transfer | one API thread, two devices, timeout 0, calls up to second 4 | two transfers in sequence, an expired one whose reply arrives in the next one; safety, kept results, termination, the promises of Transfers |
| transfer_source_order | the stores one by one | finding: the recv thread reads a half-filled structure |
| transfer_fresh | any memory contents | finding: RUNNING without a transfer |
| reply_queue | 4 slots, at most 3 outstanding, 6 requests | a buffer that wraps, with a middle, is a FIFO that answers once and in order; restarts |
| reply_overflow | 4 outstanding | finding: index -1 |
| lifecycle | two threads, a wired and a wireless interface, no coincidence | no use after free, exact count, replacement only when quiet, progress |
| lifecycle_entry | one thread, check and count apart | finding: freed transport used |
| lifecycle_switch | as lifecycle, one thread | divergence from `rmt.conf` line 7 |
| registry | two devices, one with two writers | list sound, running listed, lost reported, gets listed |
| registry_copy | the same | finding: strings of the copy are freed |
| requests | two threads, two devices, GET to either and SET to both, one with an empty value list; timeout 0, calls up to second 4 | own replies, own values, nothing lost, every call returns, an inquiry |
| agent | a wired and a wireless interface, the latter with two addresses, the vendor's MAC and a high byte; two contents of the information | the only crash, the domain, the announcement, the ID; settles |

Bounds.  The run transfer has one client, stores seen as one and fresh entries
that read DONE: with any of the three changed a property fails, which is what the
two findings and the hazard of two API threads are about.  Two devices are enough for one that answers and one that does not; the
horizon of 4 seconds lets two transfers of at least a second each overlap with a
late reply.  Four slots are the fewest with a first, a middle, a last and a free
one; six requests wrap them.  Two threads are enough for one inside a call while
the other is refused, and two interfaces for a preferred and a last one.  Three
writers are two devices and one restart; a third device adds no pair that two do
not have.  In the run requests a thread makes up to three calls in sequence; two
calls meet in the same function, in the same second, in both and in neither, and
replies to an earlier call come in a later one.  In the run agent two interfaces
give a preferred and a last one, and none; the file sets `device_id` twice, and the
application may configure another.  `CHECK_DEADLOCK FALSE` appears where the model's clock stops, at
`MaxTime`, and nowhere else; the agent's application never stops, and a crashed
agent's interfaces still change.

Each property of a passing run has a seeded fault that TLC finds: the modules
hold these operators beside the ones they mutate.

### Fairness

- FileTransfer: the recv thread and a client in a call are scheduled (weak
  fairness of their steps); time passes (strong, because it cannot pass while the
  recv thread is between two of its steps).  Agents and DDS owe nothing.
- ReplyQueue: a pass goes on.  `agent/rmt_agent.h` asks the application to call
  `rmt_agent_running` for ever.
- ServerLifecycle: threads are scheduled, calls return (each waits at most
  `reply_timeout`), a transfer ends (TransferTerminates of FileTransfer), and what
  the reinit retries succeeds in the end.
- DeviceRegistry: threads are scheduled, the recv thread's pass takes until the
  reader is empty, a running agent announces itself once.

- RequestReply: the threads are scheduled and time passes.  The agents owe
  nothing.
- AgentLoop: `rmt_agent_running` is called for ever (`agent/rmt_agent.h` asks for
  it), its steps end, and a domain or a transport that is tried again and again
  succeeds in the end (strong fairness of these two outcomes).

## Proofs

`FileTransfer_proofs`: `TypeCorrect`, for all constants.  The other theorems have
hypotheses on the constants, each implied by the run's configuration.  `OneClient`:
one API thread.  `StatusLast`: `status` is among the last of the stores to
`g_file_transfer_stat`, however the others are ordered and grouped; that is what
moving line 282 behind line 291, and 326 behind 333, would give, and `transfer_source_order` shows what
happens without it.  `EntriesStartSettled`: a new entry does not happen to read
RUNNING.

- Under the first two: `NoTransferOverwritten` (`OneTransfer`),
  `LateRepliesAreDropped` (`FreshResult`) and `ResultsStay` (`ResultKept`).
- Under all three: `RunningWillSettle` (`IdleSettled`), `IdleIsSettled`,
  `TransferInvariant` and `TransfersImplemented`.

The properties are not inductive: that `recv_num = id_num` settles everybody needs
that `recv_num` counts the devices of `id_list` that answered (`CountsAnswers`), which
needs that a device has at most one message per `random_seq` (`OneMessageEach`),
which needs that a call's `random_seq` is older than the clock when it is sent
(`CallsAreFresh`); that a timeout leaves nobody behind needs `ExpiryCovers`; that a
call cannot overtake a pass needs `PassIsShort`.  `TransferInv` is the conjunction,
which TLC checks in the run transfer; with stores one after the other it also needs
`StoredSoFar`, that the fields stored before the status are those of the call.
`ResultKept` needs that a reply that is recorded twice would carry the `random_seq`
the entry has already, and that a timeout writes only to RUNNING devices, which
have no result yet (`RunningIsEmpty`).

`TransfersImplemented` maps every step: `Send` begins a round, `Mark` asks a device,
the store of the status ends the asking, `Take` is an answer, `Expire` gives a device
up, the rest stutters or is a device that comes or goes.  A round is larger than
the one before because a call builds its request in a later second than the last
one that was stored (`RoundInv`); a full count owes nothing because the answers are
as many as the devices of `id_list` (`CountsAnswers`).  The liveness of `Transfers` is
TLC's.

`ReplyQueue_proofs`: `TypeCorrect`, `QueueInvariant`, `PassDrains`, `NoWildWrite` (under
`Burst < QUEUE_SIZE`), `QueueImplementsFifo`, the step-by-step refinement, and
`AnsweredOnceInOrder`, for every queue size.  The invariant `QueueInv` says that slots outside the occupied
range are NULL and that a pass ends with none occupied.  The lemmas `Enqueue` and
`Dequeue` say what moving an index does to the occupied range.  `OrderInv` follows a
request's number from the reader through its place to `sent`: behind it are larger
numbers, or no reply.  It is stated of the FIFO's places, so that the refinement's
lemmas `TakeRefines` and `ServeRefines` give its steps.

`ServerLifecycle_proofs`: `TypeCorrect`, for all constants (that a fresh transport
exists is a counting argument over the addresses in use; that the selected
interface is one of the system's rests on least and greatest elements of sets of
numbers, in `Network_proofs`).  The others exclude the coincidences
they need to, and no others:

| theorem | property | excluded |
|---|---|---|
| `CountIsExact` | `CountExact` | count |
| `RunningMeansConnected` | `RunningIsConnected` | start, participant |
| `ReplacedOnlyWhenQuiet` | `ReplacedWhenQuiet` | entry, count, start |
| `LifecycleCorrect` | `NothingFreedInUse`, and the first two | all but reinit (`Careful`) |
| `LifecycleInvariant` | `LifecycleInv` | all but reinit |

`LifecycleInv` adds to the properties
that no call is in progress from the recv thread's test of `using_api` until it
announces the server again (`ReinitInOrder`), which holds because `status` is STOP
there and only a RUNNING server lets a call in; that a call in progress means a
transport and a list (`CallsInOrder`); and which of the threads exists when
(`MainInOrder`).  TLC checks it in the run lifecycle.  The first three theorems have
invariants of their own, parts of it that the other coincidences do not break:
`CountInv`, `ConnectedInv` and `QuietInv`.

`RequestReply_proofs`: `TypeCorrect`, `RepliesAreOwn`, `ValuesAreOwn`,
`RepliesReachTheirCall` and `CallsAreInquiries` (the step refinement of Inquiry), for
all constants.  The argument is that `random_seq` of an undisturbed call belongs to
no other request in any reader: whatever has it was sent by this call.  For that,
the invariant `CallInv` says that a `random_seq` of the present second belongs to a
call that still waits to send it (`SeqsPast`), because sending takes a second; that
the undisturbed call's static request is still its own and no other call has its
number (`Apart`); that requests and replies with its number come from it and go to
its devices (`Traffic`); and that each device has at most one of a request, a
reply and an entry of the list (`Once`).

`AgentLoop_proofs`: `TypeCorrect`, for all constants; `OnlyLostMovesCrash` unless
entities fail; `DomainFollows` unless transports fail; `AnnouncedIsLatest` unless
writes fail; `IdIsKept`, whatever fails.  `MoveInv` adds to `NoBadUse` that during a move the pointer is NULL and
that what is being moved to is not what was noted; `DomainInv` adds to `DomainExact`
that a domain is there while a transport is built; `ToldInv` adds to `ToldLatest` that
silence on a new transport means that nothing has changed.
`IdIsKept` needs what the loop of `net_generate_id` computes over any list of
interfaces.  The loop is a recursive function; that its n-th value is the foremost
of the first n interfaces is shown by induction in first-order form: the numbers
that have the property are a set, and the least number outside it leads to a
contradiction (`AllNumbers` in `Network_proofs`).

`Network_proofs`: `SelectionIsPreferred`, that `net_select_interface` returns the first
wireless interface that is up, without one the last that is up, and nothing only
if none is, for any interfaces; and the facts about numbers the others cite.

`DeviceRegistry_proofs`: `TypeCorrect`, `ListIsSound` and `LossIsNotForgotten`, for all
constants; `RunningStaysListed` under `~Overlap`.  The list is seen as the set of its
writers: adding one takes away those of its device (`StoredList`), deleting one takes
away that one, of which there is at most one entry (`RemovedList`).  `RunningIsListed`
needs that DDS reports a running agent's writer lost only after it took it for lost
(`AgentInv`), and that an older announcement is in the thread's hand only while the
newer one is still in the reader (`TakeInv`); the second is what overlapping threads
break.

Only model-checked: all liveness, that of the two refinements included (the prover
has no rule for fairness here, nor for ENABLED).  Every invariant and every action
property of the passing runs is stated by a theorem.

## Not modelled

The logger, the message definitions, the Python binding, the examples and the
zenoh build hold no protocol state of the library itself, or are optional.  The
encoding of single keys and values is left out, and so are the sizes of its
buffers; which device a part of a SET message belongs to is in RequestReply.  A
failing `dds_take` (after which `rmt_server_create_device_list` returns an
uninitialised pointer), a failing `rmt_server_init`, and a server and an agent in
one process, which would share `g_domain`, are not modelled.  Running out of memory is modelled
only where the code handles it.

## Plan

1. A server and an agent in one process: `g_domain` and `g_participant_num` are then
   shared, and the second `dds_transport_config_init` finds the domain there.
2. AgentLoop in the place of DeviceRegistry's agents, as a refinement of
   `AgentStart`, `Announce` and `AgentStop`.
