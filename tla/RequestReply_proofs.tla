------------------------ MODULE RequestReply_proofs -------------------------
(* Theorems about RequestReply, for every set of threads, devices and calls  *)
(* and every timeout.                                                        *)
EXTENDS RequestReply, FiniteSetTheorems, TLAPS

-----------------------------------------------------------------------------
(* The parts of a SET message.                                               *)

LEMMA IdListType ==
  ASSUME NEW ids \in IdLists
  PROVE  /\ ids \in Seq(Devices) /\ Addressed(ids) \subseteq Devices
         /\ Len(ids) \in Nat /\ DOMAIN ids = 1..Len(ids)
         /\ \A i, j \in DOMAIN ids : ids[i] = ids[j] => i = j
<1>1. ids \in Seq(Devices) /\ (\A i, j \in DOMAIN ids : ids[i] = ids[j] => i = j)
  <2>1. CASE ids = << >>
    BY <2>1
  <2>2. ASSUME NEW c \in Calls, ids = c.ids PROVE <1>1!1 /\ <1>1!2
    BY <2>2, CallsAssumption
  <2> QED
    BY <2>1, <2>2 DEF IdLists
<1> QED
  BY <1>1 DEF Addressed

LEMMA PositionType ==
  ASSUME NEW ids \in IdLists, NEW d \in Addressed(ids)
  PROVE  Position(ids, d) \in DOMAIN ids /\ ids[Position(ids, d)] = d
BY DEF Addressed, Position

(* The non-empty parts up to k: there are fewer up to an earlier one.        *)
Filled(ids, blank, k) == {n \in 1..k : ids[n] \notin blank}

LEMMA FilledFinite ==
  ASSUME NEW ids, NEW blank, NEW k \in Nat
  PROVE  /\ IsFiniteSet(Filled(ids, blank, k)) /\ Cardinality(Filled(ids, blank, k)) \in Nat
<1>1. IsFiniteSet(1..k)
  BY FS_Interval
<1>2. IsFiniteSet(Filled(ids, blank, k))
  BY <1>1, FS_Subset DEF Filled
<1> QED
  BY <1>2, FS_CardinalityType

LEMMA FilledGrows ==
  ASSUME NEW ids, NEW blank, NEW j \in Nat, NEW k \in Nat, j < k, ids[k] \notin blank
  PROVE  Cardinality(Filled(ids, blank, j)) < Cardinality(Filled(ids, blank, k))
<1>1. Filled(ids, blank, j) \subseteq Filled(ids, blank, k)
  BY DEF Filled
<1>2. k \in Filled(ids, blank, k) /\ k \notin Filled(ids, blank, j)
  BY DEF Filled
<1>3. IsFiniteSet(Filled(ids, blank, k))
  BY FilledFinite
<1>4. /\ Cardinality(Filled(ids, blank, j)) <= Cardinality(Filled(ids, blank, k))
      /\ Cardinality(Filled(ids, blank, j)) = Cardinality(Filled(ids, blank, k))
           => Filled(ids, blank, j) = Filled(ids, blank, k)
  BY <1>1, <1>3, FS_Subset
<1> QED
  BY <1>2, <1>4, FilledFinite

(* A SET message has at most one i-th part.                                  *)
LEMMA OnePart ==
  ASSUME NEW ids \in IdLists, NEW blank, NEW i,
         NEW p \in NthPart(ids, blank, i), NEW q \in NthPart(ids, blank, i)
  PROVE  p = q
<1>1. PICK j \in DOMAIN ids : /\ p = ids[j] /\ ids[j] \notin blank
                              /\ Cardinality(Filled(ids, blank, j)) = i
  BY DEF NthPart, Filled
<1>2. PICK k \in DOMAIN ids : /\ q = ids[k] /\ ids[k] \notin blank
                              /\ Cardinality(Filled(ids, blank, k)) = i
  BY DEF NthPart, Filled
<1>3. j \in Nat /\ k \in Nat
  BY IdListType
<1>4. ~(j < k) /\ ~(k < j)
  BY <1>1, <1>2, <1>3, FilledGrows, FilledFinite
<1>5. j = k
  BY <1>3, <1>4
<1> QED
  BY <1>1, <1>2, <1>5

(* The i-th part is the i-th device's, if none up to it is empty.            *)
LEMMA OwnPart ==
  ASSUME NEW ids \in IdLists, NEW blank, NEW i \in DOMAIN ids,
         \A k \in 1..i : ids[k] \notin blank,
         NEW p \in NthPart(ids, blank, i)
  PROVE  p = ids[i]
<1>1. i \in Nat /\ i >= 1
  BY IdListType
<1>2. Filled(ids, blank, i) = 1..i
  BY DEF Filled
<1>3. Cardinality(Filled(ids, blank, i)) = i
  <2>1. Cardinality(1..i) = IF 1 > i THEN 0 ELSE i - 1 + 1
    BY <1>1, FS_Interval
  <2> QED
    BY <1>1, <1>2, <2>1
<1>4. i \in DOMAIN ids /\ ids[i] \notin blank
  BY <1>1
<1>5. ids[i] \in NthPart(ids, blank, i)
  BY <1>3, <1>4 DEF NthPart, Filled
<1> QED
  BY <1>5, OnePart

-----------------------------------------------------------------------------
(* Types.                                                                    *)

CallRecord == [pc : {"idle", "send", "take"}, type : Types, ids : IdLists,
               blank : SUBSET Devices, random_seq : Times, start_time : Times,
               list : Seq(Reply)]

LEMMA CallsType ==
  ASSUME NEW c \in Calls
  PROVE  c.by \in Threads /\ c.type \in Types /\ c.ids \in IdLists /\ c.blank \in SUBSET Devices
BY CallsAssumption DEF IdLists

LEMMA TimesType == MaxTime \in Nat /\ 0 \in Times /\ 1 \in Times /\ Times \subseteq Nat
BY TimeAssumption DEF MaxTime, Times

LEMMA NoCallType == NoCall \in CallRecord
BY TimesType DEF NoCall, CallRecord, IdLists, Types

LEMMA TypeInit == Init => TypeOK
<1> SUFFICES ASSUME Init PROVE TypeOK
  OBVIOUS
<1>1. call \in [Threads -> CallRecord]
  BY NoCallType DEF Init
<1>2. req_msg \in [Types -> Content]
  BY TimesType DEF Init, Content, IdLists
<1> QED
  BY <1>1, <1>2, TimesType DEF Init, TypeOK, CallRecord

LEMMA PartType ==
  ASSUME NEW r \in Request
  PROVE  PartOf(r) \subseteq Devices
<1>1. r.ids \in IdLists /\ r.to \in Devices
  BY DEF Request
<1>2. \A j \in DOMAIN r.ids : r.ids[j] \in Devices
  BY <1>1, IdListType DEF Addressed
<1> QED
  BY <1>1, <1>2 DEF PartOf, NthPart

LEMMA TypeStep == TypeOK /\ [Next]_vars => TypeOK'
<1> SUFFICES ASSUME TypeOK, [Next]_vars PROVE TypeOK'
  OBVIOUS
<1>0. call \in [Threads -> CallRecord]
  BY DEF TypeOK, CallRecord
<1>1. ASSUME NEW c \in Calls, Build(c) PROVE TypeOK'
  <2> DEFINE new == [pc |-> "send", type |-> c.type, ids |-> c.ids, blank |-> c.blank,
                     random_seq |-> NewSeq, start_time |-> 0, list |-> << >>]
  <2>1. new \in CallRecord
    BY CallsType, TimesType DEF CallRecord, NewSeq, TypeOK
  <2>2. call' \in [Threads -> CallRecord]
    BY <1>0, <1>1, <2>1 DEF Build
  <2>3. req_msg' \in [Types -> Content]
    BY <1>1, CallsType DEF Build, TypeOK, NewSeq, Content
  <2>4. disturbed' \in SUBSET Threads
    BY <1>1, CallsType DEF Build, TypeOK, Met, Busy
  <2> QED
    BY <1>1, <2>2, <2>3, <2>4 DEF Build, TypeOK, CallRecord
<1>2. ASSUME NEW t \in Threads, Send(t) PROVE TypeOK'
  <2> DEFINE c == call[t]
             m == req_msg[c.type]
  <2>1. c \in CallRecord /\ m \in Content /\ c.type \in Types /\ m.ids \in IdLists
    BY <1>0 DEF CallRecord, TypeOK, Content
  <2>2. [c EXCEPT !.pc = "take", !.start_time = clock] \in CallRecord
    BY <2>1 DEF CallRecord, TypeOK
  <2>3. call' \in [Threads -> CallRecord]
    BY <1>0, <1>2, <2>2, NoCallType DEF Send
  <2>4. Addressed(m.ids) \subseteq Devices
    BY <2>1, IdListType
  <2>5. [to : Addressed(m.ids), type : {c.type}, random_seq : {m.random_seq},
         by : {t}, ids : {m.ids}, blank : {m.blank}] \subseteq Request
    BY <2>1, <2>4 DEF Request, Content
  <2>6. requests' \in SUBSET Request
    BY <1>2, <2>5 DEF Send, TypeOK
  <2> QED
    BY <1>2, <2>3, <2>6 DEF Send, TypeOK, CallRecord
<1>3. ASSUME NEW t \in Threads, Take(t) PROVE TypeOK'
  <2>1. PICK m \in replies :
          /\ replies' = replies \ {m}
          /\ call' = IF ForMe(m, call[t])
                     THEN [call EXCEPT ![t].list = Added(@, m)] ELSE call
    BY <1>3 DEF Take
  <2>2. call[t] \in CallRecord /\ m \in Reply
    BY <1>0 DEF TypeOK
  <2>3. Append(call[t].list, m) \in Seq(Reply)
    BY <2>2 DEF CallRecord
  <2>4. [call[t] EXCEPT !.list = Added(@, m)] \in CallRecord
    BY <2>2, <2>3 DEF CallRecord, Added
  <2>5. call' \in [Threads -> CallRecord]
    BY <1>0, <2>1, <2>4
  <2> QED
    BY <1>3, <2>1, <2>5 DEF Take, TypeOK, CallRecord
<1>4. ASSUME NEW t \in Threads, Return(t) PROVE TypeOK'
  <2>1. call' \in [Threads -> CallRecord]
    BY <1>0, <1>4, NoCallType DEF Return
  <2> QED
    BY <1>4, <2>1 DEF Return, TypeOK, CallRecord
<1>5. ASSUME NEW r \in requests, Answer(r) PROVE TypeOK'
  <2>1. r \in Request
    BY DEF TypeOK
  <2>2. [deviceID : {r.to}, type : {r.type}, random_seq : {r.random_seq},
         by : {r.by}, part : PartOf(r)] \subseteq Reply
    BY <2>1, PartType DEF Request, Reply
  <2> QED
    BY <1>5, <2>2 DEF Answer, TypeOK
<1>6. CASE Tick
  BY <1>6, TimesType DEF Tick, TypeOK, Times
<1>7. CASE UNCHANGED vars
  BY <1>7 DEF vars, TypeOK
<1> QED
  BY <1>1, <1>2, <1>3, <1>4, <1>5, <1>6, <1>7 DEF Next, CallStep

(* The requests, the calls and the messages have their types.                *)
THEOREM TypeCorrect == Spec => []TypeOK
BY TypeInit, TypeStep, PTL DEF Spec

-----------------------------------------------------------------------------
(* The inductive invariant.  A random_seq of the current second belongs to a *)
(* call that still waits to send, so that a new call which meets no such     *)
(* call gets a random_seq that nothing else in the system has.               *)

Fresh == \E u \in Threads : call[u].pc = "send" /\ call[u].random_seq = clock

Past(seq) == seq <= clock /\ (seq = clock => Fresh)

SeqsPast ==
  /\ \A t \in Busy : Past(call[t].random_seq)
  /\ \A type \in Types : Past(req_msg[type].random_seq)
  /\ \A r \in requests : Past(r.random_seq)
  /\ \A m \in replies : Past(m.random_seq)

(* An undisturbed call's request is in its function, and its random_seq is   *)
(* its own.                                                                  *)
Apart(t) ==
  LET c == call[t] IN
  /\ req_msg[c.type] = [ids |-> c.ids, blank |-> c.blank, random_seq |-> c.random_seq]
  /\ \A type \in Types \ {c.type} : req_msg[type].random_seq # c.random_seq
  /\ \A u \in Busy \ {t} : call[u].type # c.type /\ call[u].random_seq # c.random_seq

(* So are the messages with its random_seq, one per device at a time.        *)
Asks(r, c, t) ==
  /\ r.by = t /\ r.type = c.type /\ r.to \in Addressed(c.ids)
  /\ r.ids = c.ids /\ r.blank = c.blank

Answers(m, c, t) ==
  /\ m.by = t /\ m.type = c.type /\ m.deviceID \in Addressed(c.ids)
  /\ m.part \in PartOf([type |-> c.type, ids |-> c.ids, blank |-> c.blank,
                        to |-> m.deviceID])

InRequests(t) == {r \in requests : r.random_seq = call[t].random_seq}
InReplies(t)  == {m \in replies : m.random_seq = call[t].random_seq}
InList(t)     == {call[t].list[i] : i \in DOMAIN call[t].list}

Traffic(t) ==
  LET c == call[t] IN
  /\ c.pc = "send" => InRequests(t) = {} /\ InReplies(t) = {} /\ InList(t) = {}
  /\ \A r \in InRequests(t) : Asks(r, c, t)
  /\ \A m \in InReplies(t) \cup InList(t) : m.random_seq = c.random_seq /\ Answers(m, c, t)

Once(t) ==
  /\ \A r \in InRequests(t), m \in InReplies(t) \cup InList(t) : r.to # m.deviceID
  /\ \A m, n \in InReplies(t) : m.deviceID = n.deviceID => m = n
  /\ \A m \in InReplies(t), n \in InList(t) : m.deviceID # n.deviceID
  /\ \A i, j \in DOMAIN call[t].list : call[t].list[i].deviceID = call[t].list[j].deviceID => i = j

CallInv == SeqsPast /\ \A t \in Alone : Apart(t) /\ Traffic(t) /\ Once(t)

LEMMA InvInit == Init => CallInv
BY DEF Init, CallInv, SeqsPast, Past, Alone, Busy, NoCall

-----------------------------------------------------------------------------
LEMMA SeqsPastStep == TypeOK /\ SeqsPast /\ [Next]_vars => SeqsPast'
<1> SUFFICES ASSUME TypeOK, SeqsPast, [Next]_vars PROVE SeqsPast'
  OBVIOUS
<1>0. call \in [Threads -> CallRecord] /\ clock \in Nat
  BY TimesType DEF TypeOK, CallRecord
<1>1. ASSUME NEW c \in Calls, Build(c) PROVE SeqsPast'
  <2>1. c.by \in Threads /\ c.type \in Types /\ clock' = clock
    BY <1>1, CallsType DEF Build
  <2>2. call'[c.by].pc = "send" /\ call'[c.by].random_seq = clock'
    BY <1>0, <1>1, <2>1 DEF Build, NewSeq
  <2>3. Fresh'
    BY <2>1, <2>2 DEF Fresh
  <2>4. \A t \in Threads \ {c.by} : call'[t] = call[t]
    BY <1>0, <1>1 DEF Build
  <2>5. \A type \in Types : req_msg'[type].random_seq \in {req_msg[type].random_seq, clock}
    BY <1>1 DEF Build, TypeOK, NewSeq
  <2> QED
    BY <1>0, <1>1, <2>1, <2>2, <2>3, <2>4, <2>5 DEF SeqsPast, Past, Busy, Build
<1>2. ASSUME NEW t \in Threads, Send(t) PROVE SeqsPast'
  <2>1. call[t].type \in Types /\ clock > call[t].random_seq /\ clock' = clock
    BY <1>0, <1>2 DEF Send, CallRecord
  <2>2. Fresh => Fresh'
    BY <1>0, <1>2, <2>1 DEF Fresh, Send
  <2>3. \A u \in Busy' : u \in Busy /\ call'[u].random_seq = call[u].random_seq
    BY <1>0, <1>2 DEF Busy, Send, NoCall
  <2>4. \A r \in requests' : \/ r \in requests
                             \/ r.random_seq = req_msg[call[t].type].random_seq
    BY <1>2 DEF Send
  <2> QED
    BY <1>2, <2>1, <2>2, <2>3, <2>4 DEF SeqsPast, Past, Send
<1>3. ASSUME NEW t \in Threads, Take(t) \/ Return(t) PROVE SeqsPast'
  <2>1. Fresh => Fresh'
    BY <1>0, <1>3 DEF Fresh, Take, Return
  <2>2. \A u \in Busy' : u \in Busy /\ call'[u].random_seq = call[u].random_seq
    <3>1. \A u \in Threads \ {t} : call'[u] = call[u]
      BY <1>0, <1>3 DEF Take, Return
    <3>2. t \in Busy /\ (t \in Busy' => call'[t].random_seq = call[t].random_seq)
      <4>1. CASE Take(t)
        BY <1>0, <4>1 DEF Take, Busy
      <4>2. CASE Return(t)
        BY <1>0, <4>2 DEF Return, Busy, NoCall
      <4> QED
        BY <1>3, <4>1, <4>2
    <3> QED
      BY <3>1, <3>2 DEF Busy
  <2>3. replies' \subseteq replies /\ UNCHANGED <<req_msg, requests, clock>>
    BY <1>3 DEF Take, Return
  <2> QED
    BY <2>1, <2>2, <2>3 DEF SeqsPast, Past
<1>4. ASSUME NEW r \in requests, Answer(r) PROVE SeqsPast'
  <2>1. \A m \in replies' : m \in replies \/ m.random_seq = r.random_seq
    BY <1>4 DEF Answer
  <2> QED
    BY <1>4, <2>1 DEF Answer, SeqsPast, Past, Fresh, Busy
<1>5. CASE Tick
  <2>1. /\ \A t \in Threads : call[t].random_seq \in Nat
        /\ \A type \in Types : req_msg[type].random_seq \in Nat
        /\ \A r \in requests : r.random_seq \in Nat
        /\ \A m \in replies : m.random_seq \in Nat
    BY <1>0, TimesType DEF TypeOK, CallRecord, Content, Request, Reply
  <2>2. \A n \in Nat : Past(n) => n <= clock' /\ n # clock'
    BY <1>0, <1>5 DEF Tick, Past
  <2> QED
    BY <1>5, <2>1, <2>2 DEF Tick, SeqsPast, Past, Busy
<1>6. CASE UNCHANGED vars
  BY <1>6 DEF vars, SeqsPast, Past, Fresh, Busy
<1> QED
  BY <1>1, <1>2, <1>3, <1>4, <1>5, <1>6 DEF Next, CallStep

-----------------------------------------------------------------------------
(* What the steps do to an undisturbed call.                                 *)

LEMMA BuildStep ==
  ASSUME TypeOK, CallInv, NEW c \in Calls, Build(c), NEW u \in Alone'
  PROVE  Apart(u)' /\ Traffic(u)' /\ Once(u)'
<1> DEFINE t == c.by
<1>0. /\ call \in [Threads -> CallRecord] /\ t \in Threads /\ c.type \in Types
      /\ u \in Threads /\ u \notin disturbed' /\ u \in Busy'
      /\ call[t].pc = "idle"
  BY CallsType DEF TypeOK, CallRecord, Alone, Busy, Build
<1>1. /\ call'[t] = [pc |-> "send", type |-> c.type, ids |-> c.ids, blank |-> c.blank,
                     random_seq |-> clock, start_time |-> 0, list |-> << >>]
      /\ \A v \in Threads \ {t} : call'[v] = call[v]
  BY <1>0 DEF Build, NewSeq
<1>2. /\ req_msg'[c.type] = [ids |-> c.ids, blank |-> c.blank, random_seq |-> clock]
      /\ \A type \in Types \ {c.type} : req_msg'[type] = req_msg[type]
      /\ requests' = requests /\ replies' = replies
  BY <1>0 DEF Build, NewSeq, TypeOK
<1>3. CASE u = t
  <2>1. Met(t, c.type) = {}
    BY <1>0, <1>3 DEF Build
  <2>2. \A v \in Threads \ {t} : v \in Busy => call[v].type # c.type /\ call[v].random_seq # clock
    BY <2>1 DEF Met, NewSeq
  <2>3. ~Fresh
    BY <1>0, <2>2 DEF Fresh, Busy
  <2>4. /\ \A type \in Types : req_msg[type].random_seq # clock
        /\ \A r \in requests : r.random_seq # clock
        /\ \A m \in replies : m.random_seq # clock
    BY <2>3 DEF CallInv, SeqsPast, Past
  <2>5. Apart(u)'
    <3>1. \A v \in Busy' \ {t} : v \in Busy /\ call'[v] = call[v]
      BY <1>1 DEF Busy
    <3>2. \A v \in Busy' \ {t} : call'[v].type # c.type /\ call'[v].random_seq # clock
      BY <2>2, <3>1 DEF Busy
    <3> QED
      BY <1>1, <1>2, <1>3, <2>4, <3>2 DEF Apart
  <2>6. InRequests(u)' = {} /\ InReplies(u)' = {} /\ InList(u)' = {}
    BY <1>1, <1>2, <1>3, <2>4 DEF InRequests, InReplies, InList
  <2>7. call'[u].list = << >>
    BY <1>1, <1>3
  <2> QED
    BY <2>5, <2>6, <2>7 DEF Traffic, Once
<1>4. CASE u # t
  <2>1. u \in Busy /\ call'[u] = call[u]
    BY <1>0, <1>1, <1>4 DEF Busy
  <2>2. u \notin Met(t, c.type) /\ u \notin disturbed
    BY <1>0, <1>4 DEF Build
  <2>3. u \in Alone /\ call[u].type # c.type /\ call[u].random_seq # clock
    BY <2>1, <2>2, <1>4 DEF Met, Alone, NewSeq
  <2>4. call[u].type \in Types /\ Apart(u) /\ Traffic(u) /\ Once(u)
    BY <1>0, <2>3 DEF CallRecord, CallInv
  <2>5. Apart(u)'
    <3>1. \A v \in Busy' \ {u} : (v \in Busy /\ call'[v] = call[v]) \/ v = t
      BY <1>1 DEF Busy
    <3>2. \A v \in Busy' \ {u} : call'[v].type # call[u].type
                                /\ call'[v].random_seq # call[u].random_seq
      BY <1>1, <2>3, <2>4, <3>1 DEF Apart
    <3>3. /\ req_msg'[call[u].type] = req_msg[call[u].type]
          /\ \A type \in Types \ {call[u].type} : req_msg'[type].random_seq # call[u].random_seq
      BY <1>2, <2>3, <2>4 DEF Apart
    <3> QED
      BY <2>1, <2>4, <3>2, <3>3 DEF Apart
  <2>6. InRequests(u)' = InRequests(u) /\ InReplies(u)' = InReplies(u) /\ InList(u)' = InList(u)
    BY <1>2, <2>1 DEF InRequests, InReplies, InList
  <2> QED
    BY <2>1, <2>4, <2>5, <2>6 DEF Traffic, Once, Asks, Answers
<1> QED
  BY <1>3, <1>4

(* Apart is kept by whatever changes no request and starts no call.          *)
LEMMA ApartKept ==
  ASSUME TypeOK, CallInv, NEW u \in Alone', u \in Alone, req_msg' = req_msg,
         Busy' \subseteq Busy,
         \A v \in Busy' : /\ call'[v].type = call[v].type /\ call'[v].ids = call[v].ids
                          /\ call'[v].blank = call[v].blank
                          /\ call'[v].random_seq = call[v].random_seq
  PROVE  Apart(u)'
<1>1. u \in Busy' /\ Apart(u)
  BY DEF Alone, CallInv
<1> QED
  BY <1>1 DEF Apart

LEMMA SendStep ==
  ASSUME TypeOK, CallInv, NEW t \in Threads, Send(t), NEW u \in Alone'
  PROVE  u \in Alone /\ Apart(u)' /\ Traffic(u)' /\ Once(u)'
<1> DEFINE c == call[t]
           m == req_msg[c.type]
           sent == [to : Addressed(m.ids), type : {c.type}, random_seq : {m.random_seq},
                    by : {t}, ids : {m.ids}, blank : {m.blank}]
<1>0. /\ call \in [Threads -> CallRecord] /\ c.type \in Types /\ c.pc = "send"
      /\ u \in Threads /\ u \notin disturbed /\ u \in Busy' /\ t \in Busy
  BY DEF TypeOK, CallRecord, Alone, Busy, Send
<1>1. /\ call'[t] = IF c.ids = << >> THEN NoCall
                    ELSE [c EXCEPT !.pc = "take", !.start_time = clock]
      /\ \A v \in Threads \ {t} : call'[v] = call[v]
      /\ req_msg' = req_msg /\ replies' = replies
      /\ requests' \subseteq requests \cup sent
  BY <1>0 DEF Send
<1>2. \A v \in Busy' : /\ v \in Busy /\ call'[v].type = call[v].type /\ call'[v].ids = call[v].ids
                       /\ call'[v].blank = call[v].blank /\ call'[v].list = call[v].list
                       /\ call'[v].random_seq = call[v].random_seq
  <2>1. CASE c.ids = << >>
    BY <1>0, <1>1, <2>1 DEF Busy, NoCall
  <2>2. CASE c.ids # << >>
    <3>1. call'[t] = [c EXCEPT !.pc = "take", !.start_time = clock]
      BY <1>1, <2>2
    <3>2. /\ call'[t].type = c.type /\ call'[t].ids = c.ids /\ call'[t].blank = c.blank
          /\ call'[t].list = c.list /\ call'[t].random_seq = c.random_seq
      BY <3>1, <1>0 DEF CallRecord
    <3> QED
      BY <1>0, <1>1, <3>2 DEF Busy
  <2> QED
    BY <2>1, <2>2
<1>3. u \in Alone
  BY <1>0, <1>2 DEF Alone
<1>4. Apart(u) /\ Traffic(u) /\ Once(u) /\ Apart(u)'
  BY <1>1, <1>2, <1>3, ApartKept DEF CallInv
<1>5. /\ call'[u].type = call[u].type /\ call'[u].ids = call[u].ids /\ call'[u].blank = call[u].blank
      /\ call'[u].list = call[u].list /\ call'[u].random_seq = call[u].random_seq
  BY <1>0, <1>2
<1>6. InReplies(u)' = InReplies(u) /\ InList(u)' = InList(u)
  BY <1>1, <1>5 DEF InReplies, InList
<1>7. CASE u # t
  <2>1. m.random_seq # call[u].random_seq
    BY <1>0, <1>4, <1>7 DEF Apart
  <2>2. InRequests(u)' \subseteq InRequests(u)
    BY <1>1, <1>5, <2>1 DEF InRequests
  <2>3. call'[u].pc = call[u].pc
    BY <1>0, <1>1, <1>7
  <2>4. Traffic(u)'
    BY <1>4, <1>5, <1>6, <2>2, <2>3 DEF Traffic, Asks, Answers
  <2>5. Once(u)'
    BY <1>4, <1>5, <1>6, <2>2 DEF Once
  <2> QED
    BY <1>3, <1>4, <2>4, <2>5
<1>8. CASE u = t
  <2>1. InRequests(u) = {} /\ InReplies(u) = {} /\ InList(u) = {}
    BY <1>0, <1>4, <1>8 DEF Traffic
  <2>2. m = [ids |-> c.ids, blank |-> c.blank, random_seq |-> c.random_seq]
    BY <1>4, <1>8 DEF Apart
  <2>3. InRequests(u)' \subseteq sent
    BY <1>1, <1>5, <2>1 DEF InRequests
  <2>4. call'[u].pc # "send"
    <3>1. CASE c.ids = << >>
      BY <1>0, <1>1, <1>8, <3>1 DEF Busy, NoCall
    <3>2. CASE c.ids # << >>
      <4>1. call'[t] = [c EXCEPT !.pc = "take", !.start_time = clock]
        BY <1>1, <3>2
      <4> QED
        BY <1>0, <1>8, <4>1 DEF CallRecord
    <3> QED
      BY <3>1, <3>2
  <2>5. \A r \in InRequests(u)' : Asks(r, c, u)
    BY <1>8, <2>2, <2>3 DEF Asks
  <2>6. Traffic(u)'
    BY <1>5, <1>6, <1>8, <2>1, <2>4, <2>5 DEF Traffic, Asks
  <2>7. Once(u)'
    BY <1>4, <1>5, <1>6, <2>1 DEF Once
  <2> QED
    BY <1>3, <1>4, <2>6, <2>7
<1> QED
  BY <1>7, <1>8

(* A sample taken by t: it is t's own if t or its owner is undisturbed.      *)
LEMMA TakeFacts ==
  ASSUME TypeOK, CallInv, NEW t \in Threads, Take(t)
  PROVE  \E m \in replies :
           /\ m.random_seq = call[t].random_seq /\ replies' = replies \ {m}
           /\ t \in Alone => ForMe(m, call[t])
           /\ \A v \in Threads \ {t} : call'[v] = call[v]
           /\ ~ForMe(m, call[t]) => call' = call
           /\ ForMe(m, call[t]) => call'[t] = [call[t] EXCEPT !.list = Append(@, m)]
<1>0. call \in [Threads -> CallRecord] /\ t \in Busy
  BY DEF TypeOK, CallRecord, Take, Busy
<1>1. PICK m \in replies :
        /\ m.random_seq = call[t].random_seq /\ replies' = replies \ {m}
        /\ call' = IF ForMe(m, call[t])
                   THEN [call EXCEPT ![t].list = Append(@, m)] ELSE call
  BY DEF Take, Instance, Added
<1>2. ASSUME t \in Alone PROVE ForMe(m, call[t])
  <2>1. Apart(t) /\ Traffic(t) /\ m \in InReplies(t)
    BY <1>1, <1>2 DEF CallInv, InReplies
  <2>2. m.type = call[t].type
    BY <2>1 DEF Traffic, Answers
  <2>3. req_msg[call[t].type].random_seq = call[t].random_seq
    BY <2>1 DEF Apart
  <2> QED
    BY <1>1, <2>2, <2>3 DEF ForMe
<1> QED
  BY <1>0, <1>1, <1>2

LEMMA TakeStep ==
  ASSUME TypeOK, CallInv, NEW t \in Threads, Take(t), NEW u \in Alone'
  PROVE  u \in Alone /\ Apart(u)' /\ Traffic(u)' /\ Once(u)'
<1>0. /\ call \in [Threads -> CallRecord] /\ call[t].pc = "take"
      /\ req_msg' = req_msg /\ requests' = requests /\ disturbed' = disturbed
  BY DEF TypeOK, CallRecord, Take
<1>1. PICK m \in replies :
        /\ m.random_seq = call[t].random_seq /\ replies' = replies \ {m}
        /\ t \in Alone => ForMe(m, call[t])
        /\ \A v \in Threads \ {t} : call'[v] = call[v]
        /\ ~ForMe(m, call[t]) => call' = call
        /\ ForMe(m, call[t]) => call'[t] = [call[t] EXCEPT !.list = Append(@, m)]
  BY TakeFacts
<1>2. \A v \in Threads : /\ call'[v].type = call[v].type /\ call'[v].ids = call[v].ids
                         /\ call'[v].blank = call[v].blank /\ call'[v].pc = call[v].pc
                         /\ call'[v].random_seq = call[v].random_seq
  <2>1. CASE ForMe(m, call[t])
    <3>1. call'[t] = [call[t] EXCEPT !.list = Append(@, m)] /\ call[t] \in CallRecord
      BY <1>0, <1>1, <2>1
    <3>2. /\ call'[t].type = call[t].type /\ call'[t].ids = call[t].ids
          /\ call'[t].blank = call[t].blank /\ call'[t].pc = call[t].pc
          /\ call'[t].random_seq = call[t].random_seq
      BY <3>1 DEF CallRecord
    <3> QED
      BY <1>1, <3>2
  <2> QED
    BY <1>1, <2>1
<1>3. Busy' = Busy /\ u \in Alone
  BY <1>0, <1>2 DEF Busy, Alone
<1>4. u \in Threads /\ Apart(u) /\ Traffic(u) /\ Once(u) /\ Apart(u)'
  BY <1>0, <1>2, <1>3, ApartKept DEF CallInv, Alone, Busy
<1>5. InRequests(u)' = InRequests(u)
  BY <1>0, <1>2, <1>4 DEF InRequests
<1>6. CASE u # t
  <2>1. call'[u] = call[u]
    BY <1>1, <1>4, <1>6
  <2>2. InReplies(u)' \subseteq InReplies(u) /\ InList(u)' = InList(u)
    BY <1>1, <2>1 DEF InReplies, InList
  <2> QED
    BY <1>3, <1>4, <1>5, <2>1, <2>2 DEF Traffic, Once, Asks, Answers
<1>7. CASE u = t
  <2>1. call'[t] = [call[t] EXCEPT !.list = Append(@, m)] /\ call[t] \in CallRecord
    BY <1>0, <1>1, <1>3, <1>7
  <2>2. call'[t].list = Append(call[t].list, m) /\ call[t].list \in Seq(Reply)
    BY <2>1 DEF CallRecord
  <2>3. m \in InReplies(t)
    BY <1>1 DEF InReplies
  <2>4. /\ DOMAIN call'[t].list = 1..(Len(call[t].list) + 1)
        /\ DOMAIN call[t].list = 1..Len(call[t].list) /\ Len(call[t].list) \in Nat
        /\ \A i \in DOMAIN call[t].list : call'[t].list[i] = call[t].list[i]
        /\ call'[t].list[Len(call[t].list) + 1] = m
    BY <2>2
  <2>5. InReplies(t)' = InReplies(t) \ {m}
    BY <1>1, <1>2 DEF InReplies
  <2>6. InList(t)' = InList(t) \cup {m}
    BY <2>4 DEF InList
  <2>7. \A i, j \in DOMAIN call'[t].list :
          call'[t].list[i].deviceID = call'[t].list[j].deviceID => i = j
    <3>1. \A i \in DOMAIN call[t].list : call[t].list[i].deviceID # m.deviceID
      BY <1>4, <1>7, <2>3 DEF Once, InList
    <3>2. \A i \in DOMAIN call'[t].list : i \in DOMAIN call[t].list \/ i = Len(call[t].list) + 1
      BY <2>4
    <3> QED
      BY <1>4, <1>7, <2>4, <3>1, <3>2 DEF Once
  <2>8. \A r \in InRequests(t) : r.to # m.deviceID
    BY <1>4, <1>7, <2>3 DEF Once
  <2>9. \A n \in InReplies(t) \ {m} : n.deviceID # m.deviceID
    BY <1>4, <1>7, <2>3 DEF Once
  <2>10. Once(t)'
    BY <1>4, <1>5, <1>7, <2>5, <2>6, <2>7, <2>8, <2>9 DEF Once
  <2>11. Traffic(t)'
    BY <1>0, <1>2, <1>4, <1>5, <1>7, <2>3, <2>5, <2>6 DEF Traffic, Asks, Answers
  <2> QED
    BY <1>3, <1>4, <1>7, <2>10, <2>11
<1> QED
  BY <1>6, <1>7

LEMMA ReturnStep ==
  ASSUME TypeOK, CallInv, NEW t \in Threads, Return(t), NEW u \in Alone'
  PROVE  u \in Alone /\ Apart(u)' /\ Traffic(u)' /\ Once(u)'
<1>0. /\ call'[t].pc = "idle" /\ \A v \in Threads \ {t} : call'[v] = call[v]
      /\ UNCHANGED <<req_msg, requests, replies, disturbed>>
  BY DEF TypeOK, Return, NoCall
<1>1. /\ u \in Threads /\ u \in Alone /\ call'[u] = call[u]
      /\ \A v \in Busy' : v \in Busy /\ call'[v] = call[v]
  BY <1>0 DEF Alone, Busy
<1>2. Apart(u) /\ Traffic(u) /\ Once(u) /\ Apart(u)'
  BY <1>0, <1>1, ApartKept DEF CallInv
<1>3. InRequests(u)' = InRequests(u) /\ InReplies(u)' = InReplies(u) /\ InList(u)' = InList(u)
  BY <1>0, <1>1 DEF InRequests, InReplies, InList
<1> QED
  BY <1>1, <1>2, <1>3 DEF Traffic, Once, Asks, Answers

LEMMA AnswerStep ==
  ASSUME TypeOK, CallInv, NEW r \in requests, Answer(r), NEW u \in Alone'
  PROVE  u \in Alone /\ Apart(u)' /\ Traffic(u)' /\ Once(u)'
<1> DEFINE answer == [deviceID : {r.to}, type : {r.type}, random_seq : {r.random_seq},
                      by : {r.by}, part : PartOf(r)]
<1>0. /\ requests' = requests \ {r} /\ replies' = replies \cup answer
      /\ call' = call /\ req_msg' = req_msg /\ disturbed' = disturbed
  BY DEF Answer
<1>1. u \in Alone /\ Apart(u) /\ Traffic(u) /\ Once(u) /\ Busy' = Busy
  BY <1>0 DEF Alone, Busy, CallInv
<1>2. Apart(u)'
  BY <1>0, <1>1 DEF Apart
<1>3. InRequests(u)' = InRequests(u) \ {r} /\ InList(u)' = InList(u)
  BY <1>0 DEF InRequests, InList
<1>4. CASE r.random_seq # call[u].random_seq
  <2>1. InReplies(u)' = InReplies(u)
    BY <1>0, <1>4 DEF InReplies
  <2> QED
    BY <1>0, <1>1, <1>2, <1>3, <2>1 DEF Traffic, Once
<1>5. CASE r.random_seq = call[u].random_seq
  <2> DEFINE c == call[u]
  <2>1. r \in InRequests(u) /\ Asks(r, c, u) /\ c.pc # "send"
    BY <1>1, <1>5 DEF InRequests, Traffic
  <2>2. InReplies(u)' = InReplies(u) \cup answer
    BY <1>0, <1>5 DEF InReplies
  <2>3. c.ids \in IdLists /\ r.to \in Addressed(c.ids)
    <3>1. u \in Threads /\ call \in [Threads -> CallRecord]
      BY <1>1 DEF Alone, Busy, TypeOK, CallRecord
    <3> QED
      BY <2>1, <3>1 DEF CallRecord, Asks
  <2>4. PartOf(r) = PartOf([type |-> c.type, ids |-> c.ids, blank |-> c.blank, to |-> r.to])
    BY <2>1 DEF PartOf, Asks
  <2>5. \A p, q \in PartOf(r) : p = q
    <3>1. CASE r.type = "SET"
      <4>1. PartOf(r) = NthPart(c.ids, c.blank, Position(c.ids, r.to))
        BY <2>1, <3>1 DEF PartOf, Asks
      <4> QED
        BY <2>3, <4>1, OnePart
    <3>2. CASE r.type # "SET"
      BY <3>2 DEF PartOf
    <3> QED
      BY <3>1, <3>2
  <2>6. \A m \in answer : m.random_seq = c.random_seq /\ m.deviceID = r.to /\ Answers(m, c, u)
    BY <1>5, <2>1, <2>4 DEF Answers, Asks
  <2>7. \A m, n \in answer : m = n
    BY <2>5
  <2>8. Traffic(u)'
    BY <1>0, <1>1, <1>3, <2>1, <2>2, <2>6 DEF Traffic
  <2>9. /\ \A m \in InReplies(u) \cup InList(u) : m.deviceID # r.to
        /\ \A s \in InRequests(u) \ {r} : s.to # r.to
    <3>1. ASSUME NEW s \in InRequests(u) \ {r}, s.to = r.to PROVE FALSE
      <4>1. Asks(s, c, u) /\ s.random_seq = r.random_seq /\ s \in Request /\ r \in Request
        BY <1>1, <1>5, <2>1 DEF Traffic, InRequests, TypeOK
      <4>2. s = r
        BY <2>1, <3>1, <4>1 DEF Asks, Request
      <4> QED
        BY <3>1, <4>2
    <3> QED
      BY <1>1, <2>1, <3>1 DEF Once
  <2>10. Once(u)'
    <3>1. \A s \in InRequests(u)', m \in InReplies(u)' \cup InList(u)' : s.to # m.deviceID
      BY <1>1, <1>3, <2>2, <2>6, <2>9 DEF Once
    <3>2. \A m, n \in InReplies(u)' : m.deviceID = n.deviceID => m = n
      BY <1>1, <2>2, <2>6, <2>7, <2>9 DEF Once
    <3>3. \A m \in InReplies(u)', n \in InList(u)' : m.deviceID # n.deviceID
      BY <1>1, <1>3, <2>2, <2>6, <2>9 DEF Once
    <3> QED
      BY <1>0, <1>1, <3>1, <3>2, <3>3 DEF Once
  <2> QED
    BY <1>1, <1>2, <2>8, <2>10
<1> QED
  BY <1>4, <1>5

LEMMA InvStep == TypeOK /\ CallInv /\ [Next]_vars => CallInv'
<1> SUFFICES ASSUME TypeOK, CallInv, [Next]_vars,
                    NEW u \in Alone'
             PROVE  Apart(u)' /\ Traffic(u)' /\ Once(u)'
  BY SeqsPastStep DEF CallInv
<1>1. CASE Tick \/ UNCHANGED vars
  <2>1. u \in Alone /\ UNCHANGED <<req_msg, call, requests, replies, disturbed>>
    BY <1>1 DEF Tick, vars, Alone, Busy
  <2>2. Apart(u) /\ Traffic(u) /\ Once(u) /\ Busy' = Busy
    BY <2>1 DEF CallInv, Busy
  <2>3. InRequests(u)' = InRequests(u) /\ InReplies(u)' = InReplies(u) /\ InList(u)' = InList(u)
    BY <2>1 DEF InRequests, InReplies, InList
  <2>4. Apart(u)'
    BY <2>1, <2>2 DEF Apart
  <2>5. Traffic(u)' /\ Once(u)'
    BY <2>1, <2>2, <2>3 DEF Traffic, Once, Asks, Answers
  <2> QED
    BY <2>4, <2>5
<1> QED
  BY <1>1, BuildStep, SendStep, TakeStep, ReturnStep, AnswerStep DEF Next, CallStep

-----------------------------------------------------------------------------
(* The theorems.                                                             *)

LEMMA UpTo ==
  ASSUME NEW n \in Nat
  PROVE  IsFiniteSet(1..n) /\ Cardinality(1..n) = n
<1>1. IsFiniteSet(1..n) /\ Cardinality(1..n) = IF 1 > n THEN 0 ELSE n - 1 + 1
  BY FS_Interval
<1> QED
  BY <1>1

(* Different entries from different devices: no more than there are devices. *)
LEMMA ListFits ==
  ASSUME NEW ids \in IdLists, NEW list \in Seq(Reply),
         \A i \in DOMAIN list : list[i].deviceID \in Addressed(ids),
         \A i, j \in DOMAIN list : list[i].deviceID = list[j].deviceID => i = j
  PROVE  Len(list) <= Len(ids)
<1> DEFINE L == 1..Len(list)
           I == 1..Len(ids)
           F == [i \in L |-> Position(ids, list[i].deviceID)]
<1>1. Len(list) \in Nat /\ Len(ids) \in Nat /\ DOMAIN list = L /\ DOMAIN ids = I
  BY IdListType
<1>2. IsFiniteSet(L) /\ IsFiniteSet(I) /\ Cardinality(L) = Len(list) /\ Cardinality(I) = Len(ids)
  BY <1>1, UpTo
<1>3. \A i \in L : F[i] \in I /\ ids[F[i]] = list[i].deviceID
  BY <1>1, PositionType
<1>4. F \in Injection(L, I)
  <2>1. \A i, j \in L : F[i] = F[j] => i = j
    BY <1>1, <1>3
  <2> QED
    BY <1>3, <2>1 DEF Injection, IsInjective
<1>5. Cardinality(L) <= Cardinality(I)
  <2> HIDE DEF L, I, F
  <2> QED
    BY <1>2, <1>4, FS_Injection
<1> QED
  BY <1>2, <1>5

(* An undisturbed call returns only replies to its own request, of its own   *)
(* kind, from devices it addressed, one from each: they fit into the list    *)
(* that was allocated for id_num of them.                                    *)
THEOREM RepliesAreOwn == Spec => []OwnReplies
<1>1. TypeOK /\ CallInv => OwnReplies
  <2> SUFFICES ASSUME TypeOK, CallInv, NEW t \in Alone
               PROVE  LET c == call[t] IN
                      /\ \A i \in DOMAIN c.list :
                           /\ c.list[i].by = t /\ c.list[i].random_seq = c.random_seq
                           /\ c.list[i].type = c.type /\ c.list[i].deviceID \in Addressed(c.ids)
                      /\ \A i, j \in DOMAIN c.list :
                           c.list[i].deviceID = c.list[j].deviceID => i = j
                      /\ Len(c.list) <= Len(c.ids)
    BY DEF OwnReplies
  <2>1. t \in Threads /\ call[t] \in CallRecord /\ Traffic(t) /\ Once(t)
    BY DEF Alone, Busy, TypeOK, CallRecord, CallInv
  <2>2. \A i \in DOMAIN call[t].list :
          /\ call[t].list[i].by = t /\ call[t].list[i].random_seq = call[t].random_seq
          /\ call[t].list[i].type = call[t].type
          /\ call[t].list[i].deviceID \in Addressed(call[t].ids)
    BY <2>1 DEF Traffic, Answers, InList
  <2>3. \A i, j \in DOMAIN call[t].list :
          call[t].list[i].deviceID = call[t].list[j].deviceID => i = j
    BY <2>1 DEF Once
  <2>4. call[t].ids \in IdLists /\ call[t].list \in Seq(Reply)
    BY <2>1 DEF CallRecord
  <2>5. Len(call[t].list) <= Len(call[t].ids)
    BY <2>2, <2>3, <2>4, ListFits
  <2> QED
    BY <2>2, <2>3, <2>5
<1> QED
  BY <1>1, TypeInit, TypeStep, InvInit, InvStep, PTL DEF Spec

(* The device of an undisturbed SET sets the values meant for it, unless it  *)
(* or one before it in the list is given none.                               *)
THEOREM ValuesAreOwn == Spec => []OwnValues
<1>1. TypeOK /\ CallInv => OwnValues
  <2> SUFFICES ASSUME TypeOK, CallInv, NEW t \in Alone, NEW i \in DOMAIN call[t].list,
                      \A k \in 1..Position(call[t].ids, call[t].list[i].deviceID) :
                        call[t].ids[k] \notin call[t].blank
               PROVE  call[t].list[i].part = call[t].list[i].deviceID
    BY DEF OwnValues
  <2> DEFINE c == call[t]
             m == call[t].list[i]
  <2>1. t \in Threads /\ c \in CallRecord /\ Traffic(t) /\ m \in InList(t)
    BY DEF Alone, Busy, TypeOK, CallRecord, CallInv, InList
  <2>2. Answers(m, c, t)
    BY <2>1 DEF Traffic
  <2>3. c.ids \in IdLists /\ m.deviceID \in Addressed(c.ids)
    BY <2>1, <2>2 DEF CallRecord, Answers
  <2>4. CASE c.type = "SET"
    <3>1. m.part \in NthPart(c.ids, c.blank, Position(c.ids, m.deviceID))
      BY <2>2, <2>4 DEF Answers, PartOf
    <3>2. Position(c.ids, m.deviceID) \in DOMAIN c.ids
          /\ c.ids[Position(c.ids, m.deviceID)] = m.deviceID
      BY <2>3, PositionType
    <3> QED
      BY <2>3, <3>1, <3>2, OwnPart
  <2>5. CASE c.type # "SET"
    BY <2>2, <2>5 DEF Answers, PartOf
  <2> QED
    BY <2>4, <2>5
<1> QED
  BY <1>1, TypeInit, TypeStep, InvInit, InvStep, PTL DEF Spec

(* A reply to an undisturbed call is never taken by another call and never   *)
(* dropped by its own.                                                       *)
THEOREM RepliesReachTheirCall == Spec => NoReplyLost
<1>1. ASSUME TypeOK, CallInv, [Next]_vars, NEW t \in Alone, NEW m \in replies \ replies',
             m.by = t, m.random_seq = call[t].random_seq
      PROVE  \E i \in DOMAIN call'[t].list : call'[t].list[i] = m
  <2>1. PICK u \in Threads : Take(u)
    BY <1>1 DEF Next, CallStep, vars, Build, Send, Return, Answer, Tick
  <2>2. PICK n \in replies :
          /\ n.random_seq = call[u].random_seq /\ replies' = replies \ {n}
          /\ u \in Alone => ForMe(n, call[u])
          /\ ForMe(n, call[u]) => call'[u] = [call[u] EXCEPT !.list = Append(@, n)]
    BY <1>1, <2>1, TakeFacts
  <2>3. n = m /\ u \in Busy
    BY <1>1, <2>1, <2>2 DEF Take, Busy
  <2>4. u = t
    <3>1. Apart(t)
      BY <1>1 DEF CallInv
    <3>2. u # t => call[u].random_seq # call[t].random_seq
      BY <2>3, <3>1 DEF Apart
    <3> QED
      BY <1>1, <2>2, <2>3, <3>2
  <2>5. call'[t] = [call[t] EXCEPT !.list = Append(@, m)] /\ call[t] \in CallRecord
    BY <1>1, <2>1, <2>2, <2>3, <2>4 DEF TypeOK, CallRecord
  <2>6. call'[t].list = Append(call[t].list, m) /\ call[t].list \in Seq(Reply)
    BY <2>5 DEF CallRecord
  <2>7. /\ Len(call[t].list) + 1 \in DOMAIN call'[t].list
        /\ call'[t].list[Len(call[t].list) + 1] = m
    BY <2>6
  <2> QED
    BY <2>7
<1>2. TypeOK /\ CallInv /\ [Next]_vars
        => [\A t \in Alone : \A m \in replies \ replies' :
              m.by = t /\ m.random_seq = call[t].random_seq =>
                \E i \in DOMAIN call'[t].list : call'[t].list[i] = m]_vars
  BY <1>1
<1> QED
  BY <1>2, TypeInit, TypeStep, InvInit, InvStep, PTL DEF Spec, NoReplyLost

-----------------------------------------------------------------------------
(* The refinement.                                                           *)

phases  == [t \in Threads |-> Phase(t)]
askings == [t \in Threads |-> Asked(t)]
heards  == [t \in Threads |-> Heard(t)]

(* Threads whose calls do not change do not change in the abstract view.     *)
LEMMA SameView ==
  ASSUME NEW t, (t \in Busy)' <=> t \in Busy, (t \in Alone)' <=> t \in Alone,
         t \in Alone => /\ call'[t].ids = call[t].ids
                        /\ Heard(t)' = Heard(t)
  PROVE  Phase(t)' = Phase(t) /\ Asked(t)' = Asked(t) /\ Heard(t)' = Heard(t)
BY DEF Phase, Asked, Heard

LEMMA BuildRefines ==
  ASSUME TypeOK, NEW c \in Calls, Build(c)
  PROVE  Inq!Next
<1> DEFINE t == c.by
           met == Met(t, c.type)
<1>0. /\ call \in [Threads -> CallRecord] /\ t \in Threads /\ call[t].pc = "idle"
      /\ c.ids \in IdLists
  BY CallsType DEF TypeOK, CallRecord, Build
<1>1. /\ call'[t].pc = "send" /\ call'[t].ids = c.ids /\ call'[t].list = << >>
      /\ \A v \in Threads \ {t} : call'[v] = call[v]
      /\ disturbed' = IF met = {} THEN disturbed \ {t} ELSE disturbed \cup met \cup {t}
  BY <1>0 DEF Build
<1>2. t \notin Busy /\ Busy' = Busy \cup {t} /\ met \subseteq Busy \ {t}
  BY <1>0, <1>1 DEF Busy, Met
<1>3. Phase(t) = "idle" /\ Asked(t) = {} /\ Heard(t) = {}
  BY <1>2 DEF Phase, Asked, Heard, Alone
<1>4. \A v \in Threads \ ({t} \cup met) :
        Phase(v)' = Phase(v) /\ Asked(v)' = Asked(v) /\ Heard(v)' = Heard(v)
  <2> SUFFICES ASSUME NEW v \in Threads \ ({t} \cup met)
               PROVE  Phase(v)' = Phase(v) /\ Asked(v)' = Asked(v) /\ Heard(v)' = Heard(v)
    OBVIOUS
  <2>1. ((v \in Busy)' <=> v \in Busy) /\ ((v \in Alone)' <=> v \in Alone) /\ call'[v] = call[v]
    BY <1>1, <1>2 DEF Alone
  <2> QED
    BY <2>1, SameView DEF Heard
<1>5. CASE met = {}
  <2>1. t \in Alone' /\ t \in Busy'
    BY <1>1, <1>2, <1>5 DEF Alone
  <2>2. Phase(t)' = "asking" /\ Asked(t)' = Addressed(c.ids) /\ Heard(t)' = {}
    BY <1>1, <2>1 DEF Phase, Asked, Heard
  <2>3. phases[t] = "idle" /\ phases' = [phases EXCEPT ![t] = "asking"]
    BY <1>0, <1>3, <1>4, <1>5, <2>2 DEF phases
  <2>4. askings' = [askings EXCEPT ![t] = Addressed(c.ids)]
    BY <1>0, <1>4, <1>5, <2>2 DEF askings
  <2>5. heards' = heards
    BY <1>0, <1>3, <1>4, <1>5, <2>2 DEF heards
  <2>6. Inq!Ask(t, Addressed(c.ids))
    BY <2>3, <2>4, <2>5 DEF Inq!Ask, phases, askings, heards
  <2> QED
    BY <1>0, <2>6, IdListType DEF Inq!Next
<1>6. CASE met # {}
  <2>1. \A v \in met \cup {t} : v \in Threads /\ v \in Busy' /\ v \notin Alone'
    BY <1>0, <1>1, <1>2, <1>6 DEF Alone, Busy
  <2>2. \A v \in met \cup {t} : Phase(v)' = "spoiled" /\ Asked(v)' = {} /\ Heard(v)' = {}
    BY <2>1 DEF Phase, Asked, Heard
  <2>3. \A v \in met : v \in Threads \ {t} /\ phases[v] # "idle"
    BY <1>2, <2>1 DEF phases, Phase
  <2>4. phases[t] = "idle"
        /\ phases' = [v \in Threads |-> IF v \in met \cup {t} THEN "spoiled" ELSE phases[v]]
    BY <1>0, <1>3, <1>4, <2>2 DEF phases
  <2>5. askings' = [v \in Threads |-> IF v \in met \cup {t} THEN {} ELSE askings[v]]
    BY <1>4, <2>2 DEF askings
  <2>6. heards' = [v \in Threads |-> IF v \in met \cup {t} THEN {} ELSE heards[v]]
    BY <1>4, <2>2 DEF heards
  <2>7. Inq!Clash(t, met)
    BY <2>3, <2>4, <2>5, <2>6 DEF Inq!Clash, phases, askings, heards
  <2> QED
    BY <1>0, <2>3, <2>7 DEF Inq!Next
<1> QED
  BY <1>5, <1>6

(* A call that becomes idle returns in the abstract view.                    *)
LEMMA ReturnRefines ==
  ASSUME NEW t \in Threads, t \in Busy, call'[t].pc = "idle",
         \A v \in Threads \ {t} : call'[v] = call[v], disturbed' = disturbed
  PROVE  Inq!Next
<1>1. t \notin Busy' /\ Busy' = Busy \ {t}
  BY DEF Busy
<1>2. \A v \in Threads \ {t} :
        Phase(v)' = Phase(v) /\ Asked(v)' = Asked(v) /\ Heard(v)' = Heard(v)
  <2> SUFFICES ASSUME NEW v \in Threads \ {t}
               PROVE  Phase(v)' = Phase(v) /\ Asked(v)' = Asked(v) /\ Heard(v)' = Heard(v)
    OBVIOUS
  <2>1. ((v \in Busy)' <=> v \in Busy) /\ ((v \in Alone)' <=> v \in Alone) /\ call'[v] = call[v]
    BY <1>1 DEF Alone
  <2> QED
    BY <2>1, SameView DEF Heard
<1>3. Phase(t) # "idle" /\ Phase(t)' = "idle" /\ Asked(t)' = {} /\ Heard(t)' = {}
  BY <1>1 DEF Phase, Asked, Heard, Alone
<1>4. phases[t] # "idle" /\ phases' = [phases EXCEPT ![t] = "idle"]
  BY <1>2, <1>3 DEF phases
<1>5. askings' = [askings EXCEPT ![t] = {}] /\ heards' = [heards EXCEPT ![t] = {}]
  BY <1>2, <1>3 DEF askings, heards
<1>6. Inq!Return(t)
  BY <1>4, <1>5 DEF Inq!Return, phases, askings, heards
<1> QED
  BY <1>6 DEF Inq!Next

LEMMA SendRefines ==
  ASSUME TypeOK, NEW t \in Threads, Send(t)
  PROVE  Inq!Next \/ UNCHANGED <<phases, askings, heards>>
<1>0. call \in [Threads -> CallRecord] /\ t \in Busy /\ disturbed' = disturbed
  BY DEF TypeOK, CallRecord, Busy, Send
<1>1. CASE call[t].ids = << >>
  BY <1>0, <1>1, ReturnRefines DEF Send, NoCall
<1>2. CASE call[t].ids # << >>
  <2>1. call' = [call EXCEPT ![t] = [call[t] EXCEPT !.pc = "take", !.start_time = clock]]
    BY <1>2 DEF Send
  <2>2. call'[t] = [call[t] EXCEPT !.pc = "take", !.start_time = clock]
        /\ \A v \in Threads \ {t} : call'[v] = call[v]
    BY <1>0, <2>1
  <2>3. /\ call'[t].pc = "take" /\ call'[t].ids = call[t].ids /\ call'[t].list = call[t].list
    BY <1>0, <2>2 DEF CallRecord
  <2>4. Busy' = Busy /\ Alone' = Alone
    BY <1>0, <2>2, <2>3 DEF Busy, Alone
  <2>5. \A v \in Threads : Phase(v)' = Phase(v) /\ Asked(v)' = Asked(v) /\ Heard(v)' = Heard(v)
    <3> SUFFICES ASSUME NEW v \in Threads
                 PROVE  Phase(v)' = Phase(v) /\ Asked(v)' = Asked(v) /\ Heard(v)' = Heard(v)
      OBVIOUS
    <3>1. call'[v].ids = call[v].ids /\ call'[v].list = call[v].list
      BY <2>2, <2>3
    <3>2. Heard(v)' = Heard(v)
      BY <2>4, <3>1 DEF Heard
    <3> QED
      BY <2>4, <3>1, <3>2, SameView
  <2> QED
    BY <2>5 DEF phases, askings, heards
<1> QED
  BY <1>1, <1>2

LEMMA TakeRefines ==
  ASSUME TypeOK, CallInv, NEW t \in Threads, Take(t)
  PROVE  Inq!Next \/ UNCHANGED <<phases, askings, heards>>
<1>0. call \in [Threads -> CallRecord] /\ call[t].pc = "take" /\ disturbed' = disturbed
  BY DEF TypeOK, CallRecord, Take
<1>1. PICK m \in replies :
        /\ m.random_seq = call[t].random_seq
        /\ \A v \in Threads \ {t} : call'[v] = call[v]
        /\ ~ForMe(m, call[t]) => call' = call
        /\ ForMe(m, call[t]) => call'[t] = [call[t] EXCEPT !.list = Append(@, m)]
  BY TakeFacts
<1>2. CASE ~ForMe(m, call[t])
  <2>1. call' = call
    BY <1>1, <1>2
  <2>2. \A v \in Threads : Phase(v)' = Phase(v) /\ Asked(v)' = Asked(v) /\ Heard(v)' = Heard(v)
    BY <1>0, <2>1 DEF Phase, Asked, Heard, Alone, Busy
  <2> QED
    BY <2>2 DEF phases, askings, heards
<1>3. CASE ForMe(m, call[t])
  <2>1. call'[t] = [call[t] EXCEPT !.list = Append(@, m)]
    BY <1>1, <1>3
  <2>2. /\ call'[t].pc = "take" /\ call'[t].ids = call[t].ids
        /\ call'[t].list = Append(call[t].list, m) /\ call[t].list \in Seq(Reply)
    BY <1>0, <2>1 DEF CallRecord
  <2>3. Busy' = Busy /\ Alone' = Alone /\ t \in Busy
    BY <1>0, <1>1, <2>2 DEF Busy, Alone
  <2>4. \A v \in Threads : /\ Phase(v)' = Phase(v) /\ Asked(v)' = Asked(v)
                           /\ v # t \/ t \notin Alone => Heard(v)' = Heard(v)
    <3>1. Phase(t)' = Phase(t) /\ Asked(t)' = Asked(t) /\ (t \notin Alone => Heard(t)' = Heard(t))
      BY <2>2, <2>3 DEF Phase, Asked, Heard
    <3>2. ASSUME NEW v \in Threads \ {t}
          PROVE  Phase(v)' = Phase(v) /\ Asked(v)' = Asked(v) /\ Heard(v)' = Heard(v)
      <4>1. call'[v] = call[v]
        BY <1>1
      <4>2. Heard(v)' = Heard(v)
        BY <2>3, <4>1 DEF Heard
      <4> QED
        BY <2>3, <4>1, <4>2, SameView
    <3> QED
      BY <3>1, <3>2
  <2>5. CASE t \notin Alone
    BY <2>4, <2>5 DEF phases, askings, heards
  <2>6. CASE t \in Alone
    <3>1. Heard(t)' = Heard(t) \cup {m.deviceID}
      <4>1. /\ DOMAIN call'[t].list = 1..(Len(call[t].list) + 1)
            /\ DOMAIN call[t].list = 1..Len(call[t].list) /\ Len(call[t].list) \in Nat
            /\ \A i \in DOMAIN call[t].list : call'[t].list[i] = call[t].list[i]
            /\ call'[t].list[Len(call[t].list) + 1] = m
        BY <2>2
      <4>2. /\ Heard(t) = {call[t].list[i].deviceID : i \in DOMAIN call[t].list}
            /\ Heard(t)' = {call'[t].list[i].deviceID : i \in DOMAIN call'[t].list}
        BY <2>3, <2>6 DEF Heard
      <4>3. Heard(t)' \subseteq Heard(t) \cup {m.deviceID}
        <5>1. \A i \in DOMAIN call'[t].list : i \in DOMAIN call[t].list \/ i = Len(call[t].list) + 1
          BY <4>1
        <5> QED
          BY <4>1, <4>2, <5>1
      <4>4. Heard(t) \subseteq Heard(t)' /\ m.deviceID \in Heard(t)'
        <5>1. /\ \A i \in DOMAIN call[t].list : i \in DOMAIN call'[t].list
              /\ Len(call[t].list) + 1 \in DOMAIN call'[t].list
          BY <4>1
        <5> QED
          BY <4>1, <4>2, <5>1
      <4> QED
        BY <4>3, <4>4
    <3>2. m \in InReplies(t) /\ Traffic(t) /\ Once(t)
      BY <1>1, <2>6 DEF InReplies, CallInv
    <3>3. m.deviceID \in Addressed(call[t].ids)
      BY <3>2 DEF Traffic, Answers
    <3>4. m.deviceID \notin Heard(t)
      BY <2>6, <3>2 DEF Once, InList, Heard
    <3>5. Phase(t) = "asking" /\ m.deviceID \in Asked(t) \ Heard(t)
      BY <2>3, <2>6, <3>3, <3>4 DEF Phase, Asked
    <3>6. phases' = phases /\ askings' = askings
      BY <2>4 DEF phases, askings
    <3>7. heards' = [heards EXCEPT ![t] = @ \cup {m.deviceID}]
      BY <2>4, <3>1 DEF heards
    <3>8. phases[t] = "asking" /\ m.deviceID \in askings[t] \ heards[t]
      BY <3>5 DEF phases, askings, heards
    <3>9. Inq!Hear(t, m.deviceID)
      BY <3>6, <3>7, <3>8 DEF Inq!Hear, phases, askings, heards
    <3>10. m.deviceID \in Devices
      BY DEF TypeOK, Reply
    <3> QED
      BY <3>9, <3>10 DEF Inq!Next
  <2> QED
    BY <2>5, <2>6
<1> QED
  BY <1>2, <1>3

(* The get and set calls keep the safety part of what they promise: every    *)
(* step of them is one of the abstract view, or changes nothing there.       *)
THEOREM CallsAreInquiries == Spec => Inq!Safe
<1>1. Init => Inq!Init
  <2> SUFFICES ASSUME Init PROVE Inq!Init
    OBVIOUS
  <2>1. \A t \in Threads : Phase(t) = "idle" /\ Asked(t) = {} /\ Heard(t) = {}
    BY DEF Init, NoCall, Phase, Asked, Heard, Alone, Busy
  <2> QED
    BY <2>1 DEF Inq!Init
<1>2. TypeOK /\ CallInv /\ [Next]_vars => [Inq!Next]_(Inq!inquiry)
  <2> SUFFICES ASSUME TypeOK, CallInv, [Next]_vars
               PROVE  Inq!Next \/ UNCHANGED <<phases, askings, heards>>
    BY DEF Inq!inquiry, phases, askings, heards
  <2>1. ASSUME NEW t \in Threads, Return(t) PROVE Inq!Next
    BY <2>1, ReturnRefines DEF Return, NoCall, Busy, TypeOK
  <2>2. CASE (\E r \in requests : Answer(r)) \/ Tick \/ UNCHANGED vars
    <3>1. call' = call /\ disturbed' = disturbed
      BY <2>2 DEF Answer, Tick, vars
    <3>2. \A v \in Threads : Phase(v)' = Phase(v) /\ Asked(v)' = Asked(v) /\ Heard(v)' = Heard(v)
      BY <3>1 DEF Phase, Asked, Heard, Alone, Busy
    <3> QED
      BY <3>2 DEF phases, askings, heards
  <2> QED
    BY <2>1, <2>2, BuildRefines, SendRefines, TakeRefines DEF Next, CallStep
<1> QED
  BY <1>1, <1>2, TypeInit, TypeStep, InvInit, InvStep, PTL DEF Spec, Inq!Safe
=============================================================================
