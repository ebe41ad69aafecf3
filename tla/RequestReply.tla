---------------------------- MODULE RequestReply ----------------------------
(***************************************************************************)
(* The server's get and set calls (server/datainfo_server.c): a call       *)
(* builds a request, sends it to the addressed agents and collects their   *)
(* replies until all have come or reply_timeout has passed.  The request   *)
(* is a static structure of each of the three functions, which the threads *)
(* of the application share; the replies go to a list of the call's own.   *)
(*                                                                         *)
(* random_seq, which tells replies to different requests apart, is rand()  *)
(* after srand(time(NULL)): it is modelled by the second it stands for.    *)
(***************************************************************************)
EXTENDS Integers, Sequences, FiniteSets

CONSTANTS
  Threads,        \* the application's threads
  Devices,        \* device IDs; one agent has each
  Calls,          \* bound: the calls that the threads make
  REPLY_TIMEOUT,  \* g_rmt_cfg.reply_timeout, in seconds
  CallHorizon     \* bound: calls are made up to this second

Types == {"GET", "SET", "SET_SAME_VALUE"}   \* a function and a static request each

Addressed(ids) == {ids[i] : i \in DOMAIN ids}

(* A call: an id_list without duplicates and, of SET, the devices whose      *)
(* value list is empty.                                                      *)
ASSUME CallsAssumption ==
  /\ IsFiniteSet(Devices)
  /\ Calls \subseteq [by : Threads, type : Types, ids : Seq(Devices), blank : SUBSET Devices]
  /\ \A c \in Calls :
       /\ c.type = "SET" \/ c.blank = {}
       /\ \A i, j \in DOMAIN c.ids : c.ids[i] = c.ids[j] => i = j
ASSUME TimeAssumption == REPLY_TIMEOUT \in Nat /\ CallHorizon \in Nat

VARIABLES
  req_msg,    \* each function's static request
  call,       \* each thread's call, with its reply_instance and its reply list
  requests,   \* requests in the agents' readers
  replies,    \* replies in the server's reader
  clock,      \* time(), in seconds
  disturbed   \* history: threads whose call met another one in its function or second

vars == <<req_msg, call, requests, replies, clock, disturbed>>

MaxTime == CallHorizon + REPLY_TIMEOUT + 1
Times   == 0..MaxTime

(* by and part are for the properties: the thread that sent the request, and *)
(* the device for which the values were meant that an agent has set.         *)
IdLists == {c.ids : c \in Calls} \cup {<< >>}
Content == [ids : IdLists, blank : SUBSET Devices, random_seq : Times]
Request == [to : Devices, type : Types, random_seq : Times, by : Threads,
            ids : IdLists, blank : SUBSET Devices]
Reply   == [deviceID : Devices, type : Types, random_seq : Times, by : Threads,
            part : Devices]
NoCall  == [pc |-> "idle", type |-> "GET", ids |-> << >>, blank |-> {},
            random_seq |-> 0, start_time |-> 0, list |-> << >>]

Busy == {t \in Threads : call[t].pc # "idle"}

-----------------------------------------------------------------------------
Init ==
  /\ req_msg = [type \in Types |-> [ids |-> << >>, blank |-> {}, random_seq |-> 0]]
  /\ call = [t \in Threads |-> NoCall]
  /\ requests = {} /\ replies = {} /\ clock = 1 /\ disturbed = {}

-----------------------------------------------------------------------------
(* Seeded faults of the operators that follow.                               *)
NewSeqUnseeded   == 1
NewSeqTwice      == clock * 2
TimedOutNever(c) == clock - c.start_time > MaxTime
InstanceAny(m, c) == m \in replies
NthPartNext(ids, blank, i) ==
  {ids[j] : j \in {k \in DOMAIN ids : ids[k] \notin blank /\ k > i}}
AddedFirst(list, m) == << m >>

NewSeq         == clock
TimedOut(c)    == clock - c.start_time > REPLY_TIMEOUT
Instance(m, c) == m.random_seq = c.random_seq
Added(list, m) == Append(list, m)

(* The other calls in progress whose request this one overwrites, or whose   *)
(* random_seq it gets.                                                       *)
Met(t, type) ==
  {u \in Busy \ {t} : call[u].type = type \/ call[u].random_seq = NewSeq}

(* "Build up request message".                                               *)
Build(c) ==
  LET t == c.by IN
  /\ call[t].pc = "idle" /\ clock < CallHorizon
  /\ req_msg' = [req_msg EXCEPT ![c.type] =
                   [ids |-> c.ids, blank |-> c.blank, random_seq |-> NewSeq]]
  /\ call' = [call EXCEPT ![t] =
                [pc |-> "send", type |-> c.type, ids |-> c.ids, blank |-> c.blank,
                 random_seq |-> NewSeq, start_time |-> 0, list |-> << >>]]
  /\ disturbed' = IF Met(t, c.type) = {} THEN disturbed \ {t}
                                       ELSE disturbed \cup Met(t, c.type) \cup {t}
  /\ UNCHANGED <<requests, replies, clock>>

(* dds_transport_send sleeps for a second and writes the static request as   *)
(* it is then.  An agent's reader keeps the last request of a random_seq.    *)
(* A request that is lost is one that is never answered; what another SET    *)
(* has freed by now is sent as it was.  A call that addresses nobody does    *)
(* not wait.                                                                 *)
Send(t) ==
  LET c == call[t]
      m == req_msg[c.type]
  IN /\ c.pc = "send" /\ clock > c.random_seq
     /\ requests' = {r \in requests : r.to \notin Addressed(m.ids) \/ r.random_seq # m.random_seq}
                     \cup [to : Addressed(m.ids), type : {c.type}, random_seq : {m.random_seq},
                           by : {t}, ids : {m.ids}, blank : {m.blank}]
     /\ call' = [call EXCEPT ![t] = IF c.ids = << >> THEN NoCall
                                    ELSE [c EXCEPT !.pc = "take", !.start_time = clock]]
     /\ UNCHANGED <<req_msg, replies, clock, disturbed>>

(* recv_reply, for one sample of reply_instance: the reply is compared with  *)
(* the static request; another one is taken and dropped.  list[num] is       *)
(* written whatever the list's allocated length.                             *)
ForMe(m, c) == m.type = c.type /\ m.random_seq = req_msg[c.type].random_seq

Take(t) ==
  /\ call[t].pc = "take"
  /\ \E m \in replies :
       /\ Instance(m, call[t])
       /\ replies' = replies \ {m}
       /\ call' = IF ForMe(m, call[t])
                  THEN [call EXCEPT ![t].list = Added(@, m)] ELSE call
  /\ UNCHANGED <<req_msg, requests, clock, disturbed>>

(* No sample is left: after 10 ms the loop looks at the time and at the      *)
(* number of replies and returns the list, or goes on as before.             *)
Return(t) ==
  LET c == call[t] IN
  /\ c.pc = "take" /\ \A m \in replies : ~Instance(m, c)
  /\ Len(c.list) = Len(c.ids) \/ TimedOut(c)
  /\ call' = [call EXCEPT ![t] = NoCall]
  /\ UNCHANGED <<req_msg, requests, replies, clock, disturbed>>

CallStep(t) == Send(t) \/ Take(t) \/ Return(t)

-----------------------------------------------------------------------------
(* The agents.                                                               *)

Position(ids, d) == CHOOSE i \in DOMAIN ids : ids[i] = d

(* The i-th part of a SET message, which has a "|" behind each part: strtok  *)
(* passes over the empty ones.  There may be none, and the agent crashes.    *)
NthPart(ids, blank, i) ==
  {ids[j] : j \in {k \in DOMAIN ids :
                     ids[k] \notin blank /\ Cardinality({n \in 1..k : ids[n] \notin blank}) = i}}

PartOf(r) == IF r.type = "SET" THEN NthPart(r.ids, r.blank, Position(r.ids, r.to)) ELSE {r.to}

(* recv_request: the values of the device's own part are set, or those it is *)
(* asked for are looked up, and the results are sent back.  An agent that    *)
(* answers never is one whose reply is lost.                                 *)
Answer(r) ==
  /\ r \in requests /\ requests' = requests \ {r}
  /\ replies' = replies \cup [deviceID : {r.to}, type : {r.type}, random_seq : {r.random_seq},
                              by : {r.by}, part : PartOf(r)]
  /\ UNCHANGED <<req_msg, call, clock, disturbed>>

(* A second passes; after CallHorizon only calls that wait for replies see it. *)
Tick ==
  /\ clock < MaxTime
  /\ clock < CallHorizon \/ \A t \in Threads : call[t].pc # "send"
  /\ clock' = clock + 1
  /\ UNCHANGED <<req_msg, call, requests, replies, disturbed>>

-----------------------------------------------------------------------------
Next ==
  \/ \E c \in Calls : Build(c)
  \/ \E t \in Threads : CallStep(t)
  \/ \E r \in requests : Answer(r)
  \/ Tick

Spec == Init /\ [][Next]_vars

(* The threads are scheduled and time passes; the agents owe nothing.        *)
FairSpec == Spec /\ WF_vars(Tick) /\ \A t \in Threads : WF_vars(CallStep(t))

-----------------------------------------------------------------------------
TypeOK ==
  /\ req_msg \in [Types -> Content]
  /\ call \in [Threads -> [pc : {"idle", "send", "take"}, type : Types,
                           ids : IdLists, blank : SUBSET Devices,
                           random_seq : Times, start_time : Times, list : Seq(Reply)]]
  /\ requests \in SUBSET Request /\ replies \in SUBSET Reply
  /\ clock \in Times /\ disturbed \in SUBSET Threads

(* The calls that nobody disturbs.                                           *)
Alone == Busy \ disturbed

(* What a call returns are replies to its own request, from devices it       *)
(* addressed, at most one of each, so that they fit into its list.           *)
OwnReplies ==
  \A t \in Alone :
    LET c == call[t] IN
    /\ \A i \in DOMAIN c.list :
         /\ c.list[i].by = t /\ c.list[i].random_seq = c.random_seq
         /\ c.list[i].type = c.type /\ c.list[i].deviceID \in Addressed(c.ids)
    /\ \A i, j \in DOMAIN c.list : c.list[i].deviceID = c.list[j].deviceID => i = j
    /\ Len(c.list) <= Len(c.ids)

(* A device sets its own values, if it and those before it in the list are   *)
(* given some.                                                               *)
OwnValues ==
  \A t \in Alone : \A i \in DOMAIN call[t].list :
    LET c == call[t]
        d == c.list[i].deviceID
    IN  (\A k \in 1..Position(c.ids, d) : c.ids[k] \notin c.blank) => c.list[i].part = d

(* A reply to a call in progress leaves the reader only into that call's     *)
(* list: no other thread takes it and drops it.                              *)
NoReplyLost ==
  [][\A t \in Alone : \A m \in replies \ replies' :
       m.by = t /\ m.random_seq = call[t].random_seq =>
         \E i \in DOMAIN call'[t].list : call'[t].list[i] = m]_vars

(* Every call returns.                                                       *)
CallReturns == \A t \in Threads : t \in Busy ~> t \notin Busy

-----------------------------------------------------------------------------
(* The abstract view: a question and the devices that have answered it.      *)
Asked(t) == IF t \in Alone THEN Addressed(call[t].ids) ELSE {}
Heard(t) == IF t \in Alone THEN {call[t].list[i].deviceID : i \in DOMAIN call[t].list} ELSE {}
Phase(t) == IF t \notin Busy THEN "idle" ELSE IF t \in Alone THEN "asking" ELSE "spoiled"

Inq == INSTANCE Inquiry WITH
         phase <- [t \in Threads |-> Phase(t)],
         asked <- [t \in Threads |-> Asked(t)],
         heard <- [t \in Threads |-> Heard(t)]
ImplementsInquiry == Inq!Spec
=============================================================================
