--------------------------- MODULE DeviceRegistry ---------------------------
(***************************************************************************)
(* The server's device list (server/devinfo_server.c).  The recv thread    *)
(* and every rmt_server_create_device_list take the agents' announcements  *)
(* out of the DeviceInfo reader and add them; the reader's listeners       *)
(* remove a device when DDS reports its writer lost.  A take and the       *)
(* add_device that follows are two steps; add_device, del_device and the   *)
(* copy of the list each hold g_dev_mutex throughout, and are one.         *)
(*                                                                         *)
(* A restarted agent comes back with a new writer.  What DDS tells the     *)
(* server about writers is its behaviour as the code uses it: a reader     *)
(* that keeps one announcement per device ID, transient-local redelivery   *)
(* to a new reader, and listener calls after the event they report.        *)
(***************************************************************************)
EXTENDS Integers, FiniteSets, Sequences, SequencesExt

CONSTANTS
  Writers,    \* bound: the DeviceInfo writers agents ever create
  deviceID,   \* the device ID each of them announces
  Takers,     \* the threads that take announcements, recv_thread one of them
  recv_thread,
  Overlap     \* two threads may be between a take and its add_device at once

ASSUME WritersAssumption == Writers \subseteq Nat /\ IsFiniteSet(Writers) /\ DOMAIN deviceID = Writers
ASSUME TakersAssumption  == recv_thread \in Takers /\ Overlap \in BOOLEAN

VARIABLES
  g_dev,       \* the list from g_dev_head on: the writer (internal_id), and whether
               \* the application's copy of the list points to the entry's strings
  g_dev_num,
  dangling,    \* strings that copy points to were freed
  server,      \* "up", or "joining": new reader, the list not yet initialised
  cache,       \* announcements in the reader
  hand,        \* each thread's announcement taken and not yet added, as a set
  pending,     \* writers a listener has yet to report lost
  writer,      \* what the server's DDS knows of each writer, "new" before it exists
  current,     \* writers of the agents that are running
  announced,   \* those of them that have sent the device's information
  flapped,     \* history: those of them that were taken for lost
  late         \* history: writers added after they were reported lost

list == <<g_dev, g_dev_num, dangling>>
dds  == <<cache, pending, writer, current, announced, flapped>>
vars == <<list, server, hand, dds, late>>

Listed   == {g_dev[i].internal_id : i \in DOMAIN g_dev}
Shared   == \E i \in DOMAIN g_dev : g_dev[i].shared
InHand   == UNION {hand[t] : t \in Takers}

-----------------------------------------------------------------------------
Init ==
  /\ g_dev = << >> /\ g_dev_num = 0 /\ dangling = FALSE
  /\ server = "up"
  /\ cache = {} /\ hand = [t \in Takers |-> {}] /\ pending = {}
  /\ writer = [w \in Writers |-> "new"]
  /\ current = {} /\ announced = {} /\ flapped = {} /\ late = {}

-----------------------------------------------------------------------------
(* Seeded faults of the two operators below, and of the deletion's search.   *)
ReplacedNoHandle(e, w) == [internal_id |-> 0, shared |-> FALSE]
ReplacedKeepId(e, w)   == [e EXCEPT !.shared = FALSE]
SameDeviceUnchecked(w) == {}
MatchHead(w)           == {i \in DOMAIN g_dev : i = 1 /\ g_dev[i].internal_id = w}
MatchDevice(w)         == {i \in DOMAIN g_dev : deviceID[g_dev[i].internal_id] = deviceID[w]}

(* The entry of a device that is already listed gets the new values; its old *)
(* strings are neither freed nor kept.                                       *)
Replaced(e, w) == [internal_id |-> w, shared |-> FALSE]
SameDevice(w)  == {i \in DOMAIN g_dev : deviceID[g_dev[i].internal_id] = deviceID[w]}
Match(w)       == {i \in DOMAIN g_dev : g_dev[i].internal_id = w}

(* dds_transport_try_recv: one announcement is taken.                        *)
Take(t, w) ==
  /\ server = "up" /\ hand[t] = {}
  /\ Overlap \/ InHand = {}
  /\ w \in cache /\ cache' = cache \ {w} /\ hand' = [hand EXCEPT ![t] = {w}]
  /\ UNCHANGED <<list, server, pending, writer, current, announced, flapped, late>>

(* add_device.                                                               *)
Add(t) ==
  /\ \E w \in hand[t] :
       /\ IF SameDevice(w) = {}
          THEN /\ g_dev' = << [internal_id |-> w, shared |-> FALSE] >> \o g_dev
               /\ g_dev_num' = g_dev_num + 1
          ELSE /\ g_dev' = [i \in DOMAIN g_dev |->
                              IF i \in SameDevice(w) THEN Replaced(g_dev[i], w) ELSE g_dev[i]]
               /\ UNCHANGED g_dev_num
       /\ late' = IF writer[w] = "none" /\ w \notin pending THEN late \cup {w} ELSE late
  /\ hand' = [hand EXCEPT ![t] = {}]
  /\ UNCHANGED <<dangling, server, dds>>

(* devinfo_server_create_list, after a pass over the reader of its own, and  *)
(* devinfo_server_free_list.  The application asks for one list at a time;   *)
(* a copy that points to no entry is as good as freed.                       *)
CreateList ==
  /\ server = "up" /\ ~Shared /\ ~dangling
  /\ g_dev' = [i \in DOMAIN g_dev |-> [g_dev[i] EXCEPT !.shared = TRUE]]
  /\ UNCHANGED <<g_dev_num, dangling, server, hand, dds, late>>

FreeList ==
  /\ Shared \/ dangling
  /\ dangling' = FALSE
  /\ g_dev' = [i \in DOMAIN g_dev |-> [g_dev[i] EXCEPT !.shared = FALSE]]
  /\ UNCHANGED <<g_dev_num, server, hand, dds, late>>

(* del_device, called by a listener; with no list there is nothing to do.    *)
Delete(w) ==
  /\ w \in pending /\ pending' = pending \ {w}
  /\ IF Match(w) = {}
     THEN UNCHANGED <<g_dev, g_dev_num, dangling>>
     ELSE LET i == CHOOSE j \in Match(w) : \A k \in Match(w) : j <= k IN
          /\ g_dev' = RemoveAt(g_dev, i) /\ g_dev_num' = g_dev_num - 1
          /\ dangling' = (dangling \/ g_dev[i].shared)
  /\ UNCHANGED <<server, hand, cache, writer, current, announced, flapped, late>>

(* The recv thread replaces the transport: devinfo_server_deinit empties the *)
(* list, and the new reader, whose listeners work at once, finds the running *)
(* agents' writers and gets their announcements again.                       *)
Reinit ==
  /\ server = "up" /\ InHand = {}
  /\ server' = "joining"
  /\ g_dev' = << >> /\ g_dev_num' = 0 /\ dangling' = (dangling \/ Shared)
  /\ cache' = current \cap announced /\ pending' = {}
  /\ writer' = [w \in Writers |-> IF w \in current THEN "alive"
                                  ELSE IF writer[w] = "new" THEN "new" ELSE "none"]
  /\ flapped' = {} /\ late' = {}
  /\ UNCHANGED <<hand, current, announced>>

(* devinfo_server_init, a second later.                                      *)
Reinitialised ==
  /\ server = "joining" /\ server' = "up"
  /\ g_dev' = << >> /\ g_dev_num' = 0
  /\ UNCHANGED <<dangling, hand, dds, late>>

-----------------------------------------------------------------------------
(* The agents, as the server's DDS sees them.                                *)

(* Device IDs are the agents' own; a device's writers are numbered in the    *)
(* order in which it creates them.                                           *)
AgentStart(w) ==
  /\ writer[w] = "new" /\ \A x \in current : deviceID[x] # deviceID[w]
  /\ \A x \in Writers : deviceID[x] = deviceID[w] /\ x < w => writer[x] # "new"
  /\ current' = current \cup {w}
  /\ writer' = [writer EXCEPT ![w] = "alive"]
  /\ UNCHANGED <<list, server, hand, cache, pending, announced, flapped, late>>

(* devinfo_agent_update: first, and when the information changes.            *)
Announce(w) ==
  /\ w \in current /\ writer[w] = "alive"
  /\ announced' = announced \cup {w}
  /\ cache' = {x \in cache : deviceID[x] # deviceID[w]} \cup {w}
  /\ UNCHANGED <<list, server, hand, pending, writer, current, flapped, late>>

Ends(w) ==
  /\ current' = current \ {w}
  /\ announced' = announced \ {w} /\ flapped' = flapped \ {w}

(* rmt_agent_deinit: the writer is unmatched.                                *)
AgentStop(w) ==
  /\ w \in current /\ writer[w] = "alive"
  /\ Ends(w)
  /\ writer' = [writer EXCEPT ![w] = "none"] /\ pending' = pending \cup {w}
  /\ UNCHANGED <<list, server, hand, cache, late>>

(* The agent dies; DDS still takes its writer for alive.                     *)
AgentCrash(w) ==
  /\ w \in current /\ Ends(w)
  /\ UNCHANGED <<list, server, hand, cache, pending, writer, late>>

(* keepalive_time without a sign of life: not_alive_count is not 0.          *)
Silence(w) ==
  /\ writer[w] = "alive" /\ writer' = [writer EXCEPT ![w] = "silent"]
  /\ pending' = pending \cup {w} /\ flapped' = flapped \cup ({w} \cap current)
  /\ UNCHANGED <<list, server, hand, cache, current, announced, late>>

(* A sign of life.  callback_liveliness_changed takes any not_alive_count    *)
(* but 0, also one that counts other writers, for the loss of this one.      *)
Regain(w) ==
  /\ w \in current /\ writer[w] = "silent"
  /\ writer' = [writer EXCEPT ![w] = "alive"]
  /\ pending' = IF \E x \in Writers \ {w} : writer[x] = "silent" THEN pending \cup {w}
                                                                 ELSE pending
  /\ UNCHANGED <<list, server, hand, cache, current, announced, flapped, late>>

(* DDS gives a dead agent's writer up: it is unmatched.                      *)
Expire(w) ==
  /\ writer[w] = "silent" /\ w \notin current
  /\ writer' = [writer EXCEPT ![w] = "none"] /\ pending' = pending \cup {w}
  /\ UNCHANGED <<list, server, hand, cache, current, announced, flapped, late>>

-----------------------------------------------------------------------------
Next ==
  \/ \E t \in Takers : Add(t) \/ \E w \in Writers : Take(t, w)
  \/ CreateList \/ FreeList \/ Reinit \/ Reinitialised
  \/ \E w \in Writers : Delete(w) \/ AgentStart(w) \/ Announce(w) \/ AgentStop(w) \/ AgentCrash(w)
                        \/ Silence(w) \/ Regain(w) \/ Expire(w)

Spec == Init /\ [][Next]_vars

(* The threads are scheduled, a pass takes until the reader is empty, and a  *)
(* running agent announces itself ("the function should always run").        *)
FairSpec ==
  /\ Spec
  /\ \A t \in Takers : WF_vars(Add(t))
  /\ WF_vars(Reinitialised)
  /\ \A w \in Writers : /\ WF_vars(w \notin announced /\ Announce(w))
                        /\ SF_vars(Take(recv_thread, w))

-----------------------------------------------------------------------------
TypeOK ==
  /\ g_dev \in Seq([internal_id : Writers, shared : BOOLEAN]) /\ g_dev_num \in Nat
  /\ dangling \in BOOLEAN
  /\ server \in {"up", "joining"}
  /\ cache \in SUBSET Writers /\ hand \in [Takers -> SUBSET Writers]
  /\ pending \in SUBSET Writers
  /\ writer \in [Writers -> {"new", "none", "alive", "silent"}]
  /\ current \in SUBSET Writers /\ announced \in SUBSET Writers
  /\ flapped \in SUBSET Writers /\ late \in SUBSET Writers

(* The loops over g_dev_num entries stay inside the list, in which a device  *)
(* occurs once.                                                              *)
SameId(e, f) == deviceID[e.internal_id] = deviceID[f.internal_id]

ListSound ==
  /\ g_dev_num = Len(g_dev)
  /\ \A i, j \in DOMAIN g_dev : SameId(g_dev[i], g_dev[j]) => i = j

(* A running agent that announced itself is listed with its own writer, so   *)
(* that no late report of an earlier writer's loss removes it: unless its    *)
(* announcement is still under way, or DDS once took it for lost.            *)
RunningIsListed ==
  \A w \in current \cap announced :
    w \in Listed \/ w \in cache \cup InHand \/ w \in flapped

(* A listed device whose writer is lost will be removed, but for those that  *)
(* were added when the report had already been made.                         *)
LostIsReported ==
  \A w \in Listed : writer[w] # "none" \/ w \in pending \/ w \in late

(* An agent that keeps running and is never taken for lost gets listed.      *)
GetsListed ==
  \A w \in Writers : <>[](w \in current \ flapped) => []<>(w \in Listed)

=============================================================================
