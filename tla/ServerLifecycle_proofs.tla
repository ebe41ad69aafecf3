----------------------- MODULE ServerLifecycle_proofs -----------------------
(* Theorems about ServerLifecycle, for every set of threads, every list of   *)
(* interfaces and every configuration.                                       *)
EXTENDS ServerLifecycle, Network_proofs, FiniteSetTheorems, TLAPS

-----------------------------------------------------------------------------
LEMMA SelectType == Select \in Interfaces \cup {NoInterface}
BY SelectFromType DEF Select

(* There is always an address that neither the server nor a call has.        *)
LEMMA FreshExists ==
  Fresh \in Transports /\ Fresh # 0 /\ Fresh # transport
<1> DEFINE Theirs == {api[t].transport : t \in Threads}
           f      == [t \in Threads |-> api[t].transport]
<1>1. f \in Surjection(Threads, Theirs)
  BY DEF Surjection
<1>2. IsFiniteSet(Theirs) /\ Cardinality(Theirs) <= Cardinality(Threads)
  <2> HIDE DEF Theirs, f
  <2> QED
    BY <1>1, ThreadsAssumption, FS_Surjection
<1>3. Cardinality(Theirs) \in Nat /\ Cardinality(Threads) \in Nat
  BY <1>2, ThreadsAssumption, FS_CardinalityType
<1> DEFINE Used == Theirs \cup {transport}
<1>4. IsFiniteSet(Used) /\ Cardinality(Used) \in Nat
      /\ Cardinality(Used) <= Cardinality(Threads) + 1
  <2> HIDE DEF Theirs
  <2>1. /\ IsFiniteSet(Used)
        /\ \/ Cardinality(Used) = Cardinality(Theirs)
           \/ Cardinality(Used) = Cardinality(Theirs) + 1
    BY <1>2, FS_AddElement
  <2> QED
    BY <2>1, <1>2, <1>3
<1>5. IsFiniteSet(Transports) /\ Cardinality(Transports) = Cardinality(Threads) + 2
  <2> DEFINE n == Cardinality(Threads) + 2
  <2>1. 1 \in Int /\ n \in Int /\ ~(1 > n) /\ n - 1 + 1 = Cardinality(Threads) + 2
    BY <1>3
  <2>2. Transports = 1..n
    BY DEF Transports
  <2> HIDE DEF n
  <2> QED
    BY <2>1, <2>2, FS_Interval
<1>6. ~(Transports \subseteq Used)
  <2> HIDE DEF Used
  <2> QED
    BY <1>3, <1>4, <1>5, FS_Subset
<1>7. \E n \in Transports : n # transport /\ \A t \in Threads : api[t].transport # n
  BY <1>6
<1> QED
  BY <1>7, <1>3 DEF Fresh, Transports

-----------------------------------------------------------------------------
Calls == [pc : {"out", "enter", "enter_loaded", "in", "busy", "leave", "leave_loaded"},
          kind : Kinds, transport : Transports \cup {0}, copy : Int]

LEMMA OutType == Out \in Calls
BY DEF Out, Calls, Kinds

LEMMA TypeInit == Init => TypeOK
<1> SUFFICES ASSUME Init PROVE TypeOK
  OBVIOUS
<1>1. api \in [Threads -> Calls]
  BY OutType DEF Init
<1>2. using_api \in Int /\ transport \in Transports \cup {0} /\ live \in Transports \cup {0}
  BY DEF Init
<1> QED
  BY <1>1, <1>2 DEF Init, TypeOK, Calls

LEMMA TypeMain ==
  TypeOK /\ ((\E configured \in Configured : Start(configured)) \/ Started \/ Stop \/ Join
             \/ RequestReinit) => TypeOK'
<1> USE DEF TypeOK, info
<1>1. ASSUME TypeOK, NEW configured \in Configured, Start(configured) PROVE TypeOK'
  BY <1>1, FreshExists, SelectType, ConfigAssumption DEF Start
<1>2. ASSUME TypeOK, Started PROVE TypeOK'
  BY <1>2 DEF Started
<1>3. ASSUME TypeOK, Stop PROVE TypeOK'
  BY <1>3 DEF Stop
<1>4. ASSUME TypeOK, Join PROVE TypeOK'
  BY <1>4 DEF Join
<1>5. ASSUME TypeOK, RequestReinit PROVE TypeOK'
  BY <1>5 DEF RequestReinit
<1> QED
  BY <1>1, <1>2, <1>3, <1>4, <1>5

LEMMA TypeCalls ==
  ASSUME TypeOK, NEW t \in Threads, Call(t) \/ \E kind \in Kinds : Enter(t, kind)
  PROVE  TypeOK'
<1>0. api \in [Threads -> Calls] /\ using_api \in Int
  BY DEF TypeOK, Calls
<1>1. ASSUME api' \in [Threads -> Calls], using_api' \in Int,
             transferring' \in BOOLEAN,
             UNCHANGED <<status, recv_thread_status, transport, live, dev_mutex, runtime, up,
                         rt, seen, main, asked>>
      PROVE  TypeOK'
  BY <1>1 DEF TypeOK, Calls
<1>2. ASSUME NEW kind \in Kinds, Enter(t, kind) PROVE TypeOK'
  <2>1. api' \in [Threads -> Calls]
    BY <1>0, <1>2 DEF Enter, Calls
  <2> QED
    BY <1>0, <1>1, <1>2, <2>1 DEF Enter, TypeOK
<1>3. CASE Count(t)
  <2>1. api[t] \in Calls /\ api[t].copy \in Int
    BY <1>0 DEF Calls
  <2>2. ASSUME NEW pc \in {"in", "enter_loaded", "leave_loaded"}, NEW n \in Int
        PROVE  [api[t] EXCEPT !.pc = pc, !.copy = n] \in Calls
    BY <2>1 DEF Calls
  <2>3. \E c \in Calls : api' = [api EXCEPT ![t] = c]
    <3>1. CASE api' = [api EXCEPT ![t].pc = IF api[t].pc \in {"enter", "enter_loaded"}
                                            THEN "enter_loaded" ELSE "leave_loaded",
                                  ![t].copy = using_api]
      <4> DEFINE pc == IF api[t].pc \in {"enter", "enter_loaded"} THEN "enter_loaded"
                                                                 ELSE "leave_loaded"
      <4>1. [api[t] EXCEPT !.pc = pc, !.copy = using_api] \in Calls
        BY <1>0, <2>2
      <4>2. api' = [api EXCEPT ![t] = [api[t] EXCEPT !.pc = pc, !.copy = using_api]]
        BY <1>0, <3>1
      <4> QED
        BY <4>1, <4>2
    <3>2. CASE api' = [api EXCEPT ![t] = IF api[t].pc \in {"enter", "enter_loaded"}
                                         THEN [api[t] EXCEPT !.pc = "in", !.copy = 0] ELSE Out]
      <4>1. [api[t] EXCEPT !.pc = "in", !.copy = 0] \in Calls
        <5>1. 0 \in Int
          OBVIOUS
        <5> QED
          BY <5>1, <2>2
      <4> QED
        BY <3>2, <4>1, OutType
    <3> QED
      BY <1>3, <3>1, <3>2 DEF Count
  <2>4. api' \in [Threads -> Calls]
    BY <1>0, <2>3
  <2>5. using_api' \in Int
    BY <1>0, <1>3, <2>1 DEF Count, Returned
  <2> QED
    BY <1>1, <1>3, <2>4, <2>5 DEF Count, TypeOK
<1>4. CASE Begin(t)
  <2>2. /\ [api[t] EXCEPT !.pc = "busy", !.transport = 0] \in Calls
        /\ [api[t] EXCEPT !.pc = "busy", !.transport = transport] \in Calls
    BY <1>0 DEF Calls, TypeOK
  <2>3. \E c \in Calls : api' = [api EXCEPT ![t] = c]
    BY <1>4, <2>2 DEF Begin
  <2>1. api' \in [Threads -> Calls]
    BY <1>0, <2>3
  <2> QED
    BY <1>0, <1>1, <1>4, <2>1 DEF Begin, TypeOK, info
<1>5. CASE Finish(t)
  <2>1. api' \in [Threads -> Calls]
    BY <1>0, <1>5 DEF Finish, Calls
  <2> QED
    BY <1>0, <1>1, <1>5, <2>1 DEF Finish, TypeOK, info
<1> QED
  BY <1>2, <1>3, <1>4, <1>5 DEF Call

LEMMA TypeRecv == TypeOK /\ RecvStep => TypeOK'
<1> USE DEF TypeOK, info, recv
<1>1. ASSUME TypeOK, NEW ends \in BOOLEAN, Pass(ends) PROVE TypeOK'
  BY <1>1 DEF Pass
<1>2. ASSUME TypeOK, End PROVE TypeOK'
  BY <1>2 DEF End
<1>3. ASSUME TypeOK, Look PROVE TypeOK'
  BY <1>3, SelectType DEF Look, Stopped
<1>4. ASSUME TypeOK, CheckCalls \/ CheckFiles PROVE TypeOK'
  BY <1>4 DEF CheckCalls, CheckFiles
<1>5. ASSUME TypeOK, Drop PROVE TypeOK'
  BY <1>5 DEF Drop
<1>6. ASSUME TypeOK, NEW ok \in BOOLEAN, Configure(ok) PROVE TypeOK'
  BY <1>6 DEF Configure
<1>7. ASSUME TypeOK, NEW outcome \in {"ok", "null", "freed"}, Connect(outcome) PROVE TypeOK'
  BY <1>7, FreshExists DEF Connect
<1>8. ASSUME TypeOK, Publish \/ Announce PROVE TypeOK'
  BY <1>8 DEF Publish, Announce
<1> QED
  BY <1>1, <1>2, <1>3, <1>4, <1>5, <1>6, <1>7, <1>8 DEF RecvStep

LEMMA TypeStep == TypeOK /\ [Next]_vars => TypeOK'
<1> SUFFICES ASSUME TypeOK, [Next]_vars PROVE TypeOK'
  OBVIOUS
<1>1. ASSUME NEW i \in Interfaces, Toggle(i) PROVE TypeOK'
  BY <1>1 DEF Toggle, TypeOK, info
<1>2. CASE UNCHANGED vars
  BY <1>2 DEF vars, info, TypeOK
<1> QED
  BY <1>1, <1>2, TypeMain, TypeCalls, TypeRecv DEF Next

(* The recv thread, the calls and the application keep every variable in its *)
(* range; in particular a fresh transport is always at hand and the interface *)
(* is one the system has.                                                    *)
THEOREM TypeCorrect == Spec => []TypeOK
BY TypeInit, TypeStep, PTL DEF Spec

-----------------------------------------------------------------------------
LEMMA InsideFinite == IsFiniteSet(Inside) /\ Cardinality(Inside) \in Nat
BY ThreadsAssumption, FS_Subset, FS_CardinalityType DEF Inside

(* A step that touches no call leaves the counted ones as they are.          *)
LEMMA SameInside == api' = api => Inside' = Inside
BY DEF Inside

(* using_api changes in one step, and calls are made while the server is on. *)
CountInv ==
  /\ CountExact
  /\ \A t \in Threads : /\ api[t].pc \notin {"enter_loaded", "leave_loaded"}
                        /\ main # "on" => api[t].pc = "out"

LEMMA CountInit == Init => CountInv
<1> SUFFICES ASSUME Init PROVE CountInv
  OBVIOUS
<1>1. \A t \in Threads : api[t].pc = "out"
  BY DEF Init, Out
<1>2. Inside = {}
  BY <1>1 DEF Inside
<1> QED
  BY <1>1, <1>2, FS_EmptySet DEF CountInv, CountExact, Init

(* The steps of a call: it is counted from its own using_api++ to its own    *)
(* using_api--.                                                              *)
LEMMA CountCalls ==
  ASSUME Avoid("count"), TypeOK, CountInv, NEW t \in Threads,
         Call(t) \/ \E kind \in Kinds : Enter(t, kind)
  PROVE  CountInv'
<1>0. api \in [Threads -> Calls] /\ using_api \in Int /\ CountExact
      /\ api[t].pc \notin {"enter_loaded", "leave_loaded"}
      /\ (main # "on" => api[t].pc = "out") /\ Out.pc = "out"
  BY DEF TypeOK, Calls, CountInv, Out
<1>1. ASSUME main' = main, NEW c \in Calls, api' = [api EXCEPT ![t] = c],
             c.pc \notin {"enter_loaded", "leave_loaded"},
             main # "on" => c.pc = "out",
             \/ /\ c.pc \notin {"out", "enter"} /\ api[t].pc \in {"out", "enter"}
                /\ using_api' = using_api + 1
             \/ /\ c.pc \in {"out", "enter"} /\ api[t].pc \notin {"out", "enter"}
                /\ using_api' = using_api - 1
             \/ /\ c.pc \in {"out", "enter"} <=> api[t].pc \in {"out", "enter"}
                /\ using_api' = using_api
      PROVE  CountInv'
  <2>1. api'[t] = c /\ \A u \in Threads \ {t} : api'[u] = api[u]
    BY <1>0, <1>1
  <2>2. Inside' = IF c.pc \in {"out", "enter"} THEN Inside \ {t} ELSE Inside \cup {t}
    BY <1>1, <2>1 DEF Inside
  <2>3. t \in Inside <=> api[t].pc \notin {"out", "enter"}
    BY <1>0 DEF Inside
  <2>4. CountExact'
    <3>1. CASE c.pc \in {"out", "enter"} /\ t \in Inside
      <4>1. Cardinality(Inside \ {t}) = Cardinality(Inside) - 1
        BY <3>1, InsideFinite, FS_RemoveElement
      <4> QED
        BY <1>0, <1>1, <2>2, <2>3, <3>1, <4>1 DEF CountExact
    <3>2. CASE c.pc \in {"out", "enter"} /\ t \notin Inside
      <4>1. Inside' = Inside
        BY <2>2, <3>2
      <4> QED
        BY <1>0, <1>1, <2>3, <3>2, <4>1 DEF CountExact
    <3>3. CASE c.pc \notin {"out", "enter"} /\ t \notin Inside
      <4>1. Cardinality(Inside \cup {t}) = Cardinality(Inside) + 1
        BY <3>3, InsideFinite, FS_AddElement
      <4> QED
        BY <1>0, <1>1, <2>2, <2>3, <3>3, <4>1 DEF CountExact
    <3>4. CASE c.pc \notin {"out", "enter"} /\ t \in Inside
      <4>1. Inside' = Inside
        BY <2>2, <3>4
      <4> QED
        BY <1>0, <1>1, <2>3, <3>4, <4>1 DEF CountExact
    <3> QED
      BY <3>1, <3>2, <3>3, <3>4
  <2> QED
    BY <1>1, <2>1, <2>4 DEF CountInv
<1>2. ASSUME NEW kind \in Kinds, Enter(t, kind) PROVE CountInv'
  <2>1. api[t].pc = "out" /\ main = "on" /\ main' = main
    BY <1>2 DEF Enter
  <2>2. CASE Avoid("entry")
    <3> DEFINE c == [api[t] EXCEPT !.pc = "in", !.kind = kind]
    <3>1. /\ c \in Calls /\ c.pc = "in"
          /\ api' = [api EXCEPT ![t] = c] /\ using_api' = using_api + 1
      BY <1>0, <1>2, <2>2 DEF Enter, Calls
    <3> HIDE DEF c
    <3> QED
      BY <1>0, <1>1, <2>1, <3>1
  <2>3. CASE ~Avoid("entry")
    <3> DEFINE c == [api[t] EXCEPT !.pc = "enter", !.kind = kind]
    <3>1. /\ c \in Calls /\ c.pc = "enter"
          /\ api' = [api EXCEPT ![t] = c] /\ using_api' = using_api
      BY <1>0, <1>2, <2>3 DEF Enter, Calls
    <3> HIDE DEF c
    <3> QED
      BY <1>0, <1>1, <2>1, <3>1
  <2> QED
    BY <2>2, <2>3
<1>3. CASE Count(t)
  <2>1. /\ api[t].pc \in {"enter", "leave"} /\ main' = main
        /\ using_api' = using_api + IF api[t].pc = "enter" THEN 1 ELSE -1
        /\ api' = [api EXCEPT ![t] = IF api[t].pc = "enter"
                                     THEN [api[t] EXCEPT !.pc = "in", !.copy = 0] ELSE Out]
    BY <1>0, <1>3 DEF Count, Returned
  <2>2. main = "on"
    BY <1>0, <2>1
  <2>3. CASE api[t].pc = "enter"
    <3> DEFINE c == [api[t] EXCEPT !.pc = "in", !.copy = 0]
    <3>1. c \in Calls /\ c.pc = "in"
      <4>1. 0 \in Int /\ api[t] \in Calls
        BY <1>0
      <4> QED
        BY <4>1 DEF Calls
    <3>2. api' = [api EXCEPT ![t] = c] /\ using_api' = using_api + 1
      BY <1>0, <2>1, <2>3
    <3> HIDE DEF c
    <3> QED
      BY <1>0, <1>1, <2>1, <2>2, <2>3, <3>1, <3>2
  <2>4. CASE api[t].pc = "leave"
    <3> DEFINE c == Out
    <3>1. /\ c \in Calls /\ c.pc = "out"
          /\ api' = [api EXCEPT ![t] = c] /\ using_api' = using_api - 1
      BY <1>0, <2>1, <2>4, OutType
    <3> HIDE DEF c
    <3> QED
      BY <1>1, <2>1, <2>2, <2>4, <3>1
  <2> QED
    BY <2>1, <2>3, <2>4
<1>4. CASE Begin(t)
  <2> DEFINE c == [api[t] EXCEPT !.pc = "busy",
                                 !.transport = IF api[t].kind = "result" THEN 0 ELSE transport]
  <2>1. /\ api[t].pc = "in" /\ api' = [api EXCEPT ![t] = c]
        /\ main' = main /\ using_api' = using_api /\ main = "on"
    BY <1>0, <1>4 DEF Begin, info
  <2>2. c \in Calls /\ c.pc = "busy"
    BY <1>0 DEF Calls, TypeOK
  <2> HIDE DEF c
  <2> QED
    BY <1>0, <1>1, <2>1, <2>2
<1>5. CASE Finish(t)
  <2> DEFINE c == [api[t] EXCEPT !.pc = "leave", !.transport = 0]
  <2>1. /\ api[t].pc = "busy" /\ api' = [api EXCEPT ![t] = c]
        /\ main' = main /\ using_api' = using_api /\ main = "on"
    BY <1>0, <1>5 DEF Finish, info
  <2>2. c \in Calls /\ c.pc = "leave"
    BY <1>0 DEF Calls
  <2> HIDE DEF c
  <2> QED
    BY <1>0, <1>1, <2>1, <2>2
<1> QED
  BY <1>2, <1>3, <1>4, <1>5 DEF Call

LEMMA CountStep == Avoid("count") /\ TypeOK /\ CountInv /\ [Next]_vars => CountInv'
<1> SUFFICES ASSUME Avoid("count"), TypeOK, CountInv, [Next]_vars PROVE CountInv'
  OBVIOUS
<1> USE SameInside DEF CountInv, CountExact
<1>1. ASSUME NEW configured \in Configured, Start(configured) PROVE CountInv'
  BY <1>1 DEF Start
<1>2. CASE Started
  <2>1. Inside = {}
    BY <1>2 DEF Started, Inside
  <2> QED
    BY <1>2, <2>1, FS_EmptySet DEF Started
<1>3. CASE Stop
  BY <1>3 DEF Stop, Out
<1>4. CASE Join \/ RequestReinit
  BY <1>4 DEF Join, RequestReinit, info
<1>5. ASSUME RecvStep \/ (\E i \in Interfaces : Toggle(i)) \/ UNCHANGED vars PROVE CountInv'
  <2>1. UNCHANGED <<using_api, api, main>>
    BY <1>5
       DEF RecvStep, Pass, End, Look, CheckCalls, CheckFiles, Drop, Configure, Connect,
           Publish, Announce, Toggle, vars, info, recv
  <2> QED
    BY <2>1
<1> QED
  BY <1>1, <1>2, <1>3, <1>4, <1>5, CountCalls DEF Next

(* using_api is the number of calls in progress as long as no two threads    *)
(* change it at once: no other coincidence disturbs the count, the reset in  *)
(* rmt_server_init included.                                                 *)
THEOREM CountIsExact == Avoid("count") => (Spec => []CountExact)
<1>1. CountInv => CountExact
  BY DEF CountInv
<1> SUFFICES ASSUME Avoid("count") PROVE Spec => []CountExact
  OBVIOUS
<1>2. TypeOK /\ CountInv /\ [Next]_vars => CountInv'
  BY CountStep
<1> QED
  BY <1>1, <1>2, TypeInit, TypeStep, CountInit, PTL DEF Spec

-----------------------------------------------------------------------------
(* The reinit as the recv thread goes through it, whatever the calls do.     *)
ReinitSteps ==
  /\ main \in {"off", "starting", "crashed"} <=> rt = "none"
  /\ main = "off" => live = 0
  /\ main \in {"starting", "on"} => recv_thread_status = 1
  /\ rt \in Closing \cup {"calls"} => status = "STOP"
  /\ rt \in {"config", "connect"} => transport = 0 /\ live = 0
  /\ rt \in {"publish", "announce"} => transport # 0

LEMMA ReinitInit == Init => ReinitSteps
BY DEF Init, ReinitSteps, Closing

LEMMA ReinitStep == Avoid("start") /\ TypeOK /\ ReinitSteps /\ [Next]_vars => ReinitSteps'
<1> SUFFICES ASSUME Avoid("start"), TypeOK, ReinitSteps, [Next]_vars PROVE ReinitSteps'
  OBVIOUS
<1> USE DEF ReinitSteps, Closing
<1>1. ASSUME NEW configured \in Configured, Start(configured) PROVE ReinitSteps'
  BY <1>1 DEF Start
<1>2. CASE Started
  BY <1>2 DEF Started
<1>3. CASE Stop
  BY <1>3 DEF Stop
<1>4. CASE Join
  BY <1>4 DEF Join, info
<1>5. CASE RequestReinit
  BY <1>5 DEF RequestReinit
<1>6. CASE UNCHANGED vars
  BY <1>6 DEF vars, info
<1>7. ASSUME \/ \E t \in Threads : Call(t) \/ \E kind \in Kinds : Enter(t, kind)
             \/ \E i \in Interfaces : Toggle(i)
      PROVE  ReinitSteps'
  <2>1. UNCHANGED <<status, recv_thread_status, transport, live, rt, main>>
    BY <1>7 DEF Call, Count, Begin, Finish, Enter, Toggle, info
  <2> QED
    BY <2>1
<1>8. CASE RecvStep
  <2>0. UNCHANGED <<recv_thread_status, main>> /\ rt # "none"
    BY <1>8
       DEF RecvStep, Pass, End, Look, CheckCalls, CheckFiles, Drop, Configure, Connect,
           Publish, Announce, info, recv
  <2>1. CASE (\E ends \in BOOLEAN : Pass(ends)) \/ End
    BY <2>0, <2>1 DEF Pass, End, info, recv
  <2>2. CASE Look
    BY <2>0, <2>2 DEF Look, Stopped
  <2>3. CASE CheckCalls \/ CheckFiles
    BY <2>0, <2>3 DEF CheckCalls, CheckFiles, recv
  <2>4. CASE Drop
    BY <2>0, <2>4 DEF Drop
  <2>5. CASE \E ok \in BOOLEAN : Configure(ok)
    BY <2>0, <2>5 DEF Configure, recv
  <2>6. CASE \E outcome \in {"ok", "null", "freed"} : Connect(outcome)
    BY <2>0, <2>6, FreshExists DEF Connect
  <2>7. CASE Publish \/ Announce
    BY <2>0, <2>7 DEF Publish, Announce, info
  <2> QED
    BY <1>8, <2>1, <2>2, <2>3, <2>4, <2>5, <2>6, <2>7 DEF RecvStep
<1> QED
  BY <1>1, <1>2, <1>3, <1>4, <1>5, <1>6, <1>7, <1>8 DEF Next

(* What the transport and the device list are while the server is RUNNING,   *)
(* or about to be.                                                           *)
Connected == transport = live /\ transport # 0 /\ dev_mutex

ConnectedInv ==
  /\ main # "off" => live = transport
  /\ status = "RUNNING" /\ main = "on" => Connected
  /\ main = "starting" \/ rt = "announce" => Connected

LEMMA ConnectedStep ==
  Avoid("start") /\ Avoid("participant") /\ TypeOK /\ ReinitSteps /\ ConnectedInv /\ [Next]_vars
    => ConnectedInv'
<1> SUFFICES ASSUME Avoid("start"), Avoid("participant"), TypeOK, ReinitSteps, ConnectedInv,
                    [Next]_vars
             PROVE  ConnectedInv'
  OBVIOUS
<1> USE DEF ReinitSteps, ConnectedInv, Connected, Closing
<1>1. ASSUME NEW configured \in Configured, Start(configured) PROVE ConnectedInv'
  BY <1>1, FreshExists DEF Start
<1>2. CASE Started \/ Stop
  BY <1>2 DEF Started, Stop
<1>3. CASE Join
  BY <1>3 DEF Join, info
<1>4. CASE RequestReinit
  BY <1>4 DEF RequestReinit
<1>5. ASSUME \/ \E t \in Threads : Call(t) \/ \E kind \in Kinds : Enter(t, kind)
             \/ \E i \in Interfaces : Toggle(i)
             \/ UNCHANGED vars
      PROVE  ConnectedInv'
  <2>1. UNCHANGED <<status, transport, live, dev_mutex, rt, main>>
    BY <1>5 DEF Call, Count, Begin, Finish, Enter, Toggle, info, vars
  <2> QED
    BY <2>1
<1>6. CASE RecvStep
  <2>0. main' = main /\ rt # "none"
    BY <1>6
       DEF RecvStep, Pass, End, Look, CheckCalls, CheckFiles, Drop, Configure, Connect,
           Publish, Announce, info, recv
  <2>1. CASE (\E ends \in BOOLEAN : Pass(ends)) \/ End \/ CheckCalls \/ CheckFiles
             \/ \E ok \in BOOLEAN : Configure(ok)
    BY <2>0, <2>1 DEF Pass, End, CheckCalls, CheckFiles, Configure, info, recv
  <2>2. CASE Look
    BY <2>0, <2>2 DEF Look, Stopped
  <2>3. CASE Drop
    BY <2>0, <2>3 DEF Drop
  <2>4. CASE \E outcome \in {"ok", "null", "freed"} : Connect(outcome)
    BY <2>0, <2>4, FreshExists DEF Connect
  <2>5. CASE Publish \/ Announce
    BY <2>0, <2>5 DEF Publish, Announce, info
  <2> QED
    BY <1>6, <2>1, <2>2, <2>3, <2>4, <2>5 DEF RecvStep
<1> QED
  BY <1>1, <1>2, <1>3, <1>4, <1>5, <1>6 DEF Next

(* A server that is RUNNING has its transport and its device list, unless    *)
(* the recv thread outran rmt_server_init or an entity of a new transport    *)
(* could not be created: stray counts, calls that slip in and reinits on     *)
(* request make no difference.                                               *)
THEOREM RunningMeansConnected ==
  Avoid("start") /\ Avoid("participant") => (Spec => []RunningIsConnected)
<1>1. ConnectedInv => RunningIsConnected
  BY DEF ConnectedInv, Connected, RunningIsConnected
<1>2. Init => ConnectedInv
  BY DEF Init, ConnectedInv
<1> SUFFICES ASSUME Avoid("start"), Avoid("participant") PROVE Spec => []RunningIsConnected
  OBVIOUS
<1>3. TypeOK /\ ReinitSteps /\ ConnectedInv /\ [Next]_vars => ConnectedInv'
  BY ConnectedStep
<1>4. TypeOK /\ ReinitSteps /\ [Next]_vars => ReinitSteps'
  BY ReinitStep
<1> QED
  BY <1>1, <1>2, <1>3, <1>4, TypeInit, TypeStep, ReinitInit, PTL DEF Spec

-----------------------------------------------------------------------------
(* No coincidence happens but, at most, "reinit".                            *)
Careful == Coincidences \ {"reinit"} \subseteq Avoided

LEMMA CarefulAvoids ==
  Careful => \A x \in {"entry", "count", "start", "deinit", "participant"} : Avoid(x)
BY DEF Careful, Coincidences, Avoid

LEMMA InvInit == Init => LifecycleInv
<1> SUFFICES ASSUME Init PROVE LifecycleInv
  OBVIOUS
<1>1. \A t \in Threads : api[t] = Out /\ api[t].pc = "out"
  BY DEF Init, Out
<1>2. Inside = {}
  BY <1>1 DEF Inside
<1>3. CountExact
  BY <1>2, FS_EmptySet DEF CountExact, Init
<1> QED
  BY <1>1, <1>2, <1>3
     DEF Init, LifecycleInv, CallsInOrder, MainInOrder, ReinitInOrder, Closing

(* A call's steps: no call gets in after the recv thread has seen none.      *)
LEMMA InvCalls ==
  ASSUME Careful, TypeOK, LifecycleInv, NEW t \in Threads,
         Call(t) \/ \E kind \in Kinds : Enter(t, kind)
  PROVE  LifecycleInv'
<1> DEFINE Still == UNCHANGED <<status, recv_thread_status, transport, live, dev_mutex, rt, main>>
<1>0. /\ api \in [Threads -> Calls] /\ using_api \in Int
      /\ Avoid("entry") /\ Avoid("count")
  BY CarefulAvoids DEF TypeOK, Calls
<1>1. ASSUME Still, \A u \in Threads \ {t} : api'[u] = api[u],
             main = "on", transport # 0, dev_mutex,
             api'[t].pc \in {"in", "busy", "leave"} \/ api'[t] = Out,
             api'[t].pc = "busy" /\ api'[t].kind # "result" => api'[t].transport = transport
      PROVE  CallsInOrder'
  BY <1>1 DEF LifecycleInv, CallsInOrder, Out
<1>2. ASSUME Still, rt \notin Closing PROVE MainInOrder' /\ ReinitInOrder'
  BY <1>2 DEF LifecycleInv, MainInOrder, ReinitInOrder, Closing
<1>3. ASSUME NEW kind \in Kinds, Enter(t, kind) PROVE LifecycleInv'
  <2>1. /\ Still /\ using_api' = using_api + 1
        /\ api' = [api EXCEPT ![t].pc = "in", ![t].kind = kind]
        /\ status = "RUNNING" /\ main = "on" /\ api[t].pc = "out"
    BY <1>0, <1>3 DEF Enter, MayEnter
  <2>2. transport # 0 /\ dev_mutex /\ rt \notin Closing
    BY <2>1 DEF LifecycleInv, ReinitInOrder, Closing
  <2>3. api'[t].pc = "in" /\ \A u \in Threads \ {t} : api'[u] = api[u]
    BY <1>0, <2>1 DEF Calls
  <2>4. Inside' = Inside \cup {t} /\ t \notin Inside
    BY <2>1, <2>3 DEF Inside
  <2>5. CountExact'
    BY <2>1, <2>4, InsideFinite, FS_AddElement DEF CountExact, LifecycleInv
  <2> QED
    BY <1>1, <1>2, <2>1, <2>2, <2>3, <2>5 DEF LifecycleInv
<1>4. CASE Count(t)
  <2>1. api[t].pc = "leave"
    BY <1>4 DEF Count, LifecycleInv, CallsInOrder
  <2>2. Still /\ using_api' = using_api - 1 /\ api' = [api EXCEPT ![t] = Out]
    BY <1>0, <1>4, <2>1 DEF Count, Returned
  <2>3. api'[t] = Out /\ \A u \in Threads \ {t} : api'[u] = api[u]
    BY <1>0, <2>2
  <2>4. Inside' = Inside \ {t} /\ t \in Inside
    BY <2>1, <2>3 DEF Inside, Out
  <2>5. CountExact'
    BY <1>0, <2>2, <2>4, InsideFinite, FS_RemoveElement DEF CountExact, LifecycleInv
  <2>6. main = "on" /\ transport # 0 /\ dev_mutex /\ rt \notin Closing
    BY <2>1, <2>4 DEF LifecycleInv, CallsInOrder, ReinitInOrder
  <2>7. Out.pc = "out"
    BY DEF Out
  <2> QED
    BY <1>1, <1>2, <2>2, <2>3, <2>5, <2>6, <2>7 DEF LifecycleInv
<1>5. CASE Begin(t) \/ Finish(t)
  <2>1. /\ Still /\ using_api' = using_api
        /\ api'[t].pc \in {"busy", "leave"} /\ \A u \in Threads \ {t} : api'[u] = api[u]
        /\ api'[t].pc = "busy" /\ api'[t].kind # "result" => api'[t].transport = transport
        /\ api[t].pc \in {"in", "busy"}
    <3>1. CASE Begin(t)
      BY <1>0, <3>1 DEF Begin, Calls, info
    <3>2. CASE Finish(t)
      BY <1>0, <3>2 DEF Finish, Calls, info
    <3> QED
      BY <1>5, <3>1, <3>2
  <2>2. Inside' = Inside /\ t \in Inside
    BY <2>1 DEF Inside
  <2>3. CountExact'
    BY <2>1, <2>2 DEF CountExact, LifecycleInv
  <2>4. main = "on" /\ transport # 0 /\ dev_mutex /\ rt \notin Closing
    BY <2>1, <2>2 DEF LifecycleInv, CallsInOrder, ReinitInOrder
  <2> QED
    BY <1>1, <1>2, <2>1, <2>3, <2>4 DEF LifecycleInv
<1> QED
  BY <1>3, <1>4, <1>5 DEF Call

(* The application starts and stops the server when no call is in progress.  *)
LEMMA InvMain ==
  ASSUME Careful, TypeOK, LifecycleInv,
         (\E configured \in Configured : Start(configured)) \/ Started \/ Stop \/ Join
           \/ RequestReinit
  PROVE  LifecycleInv'
<1>0. /\ Avoid("start") /\ Avoid("deinit") /\ api' = api /\ Inside' = Inside
      /\ Out.pc = "out"
  BY CarefulAvoids, SameInside
     DEF Start, Started, Stop, Join, RequestReinit, info, Out
<1>1. ASSUME main # "on" PROVE Inside = {} /\ \A t \in Threads : api[t] = Out
  BY <1>1 DEF LifecycleInv, CallsInOrder, Inside
<1>2. ASSUME NEW configured \in Configured, Start(configured) PROVE LifecycleInv'
  <2>1. /\ transport' # 0 /\ live' = transport' /\ dev_mutex' /\ rt' = "none"
        /\ main = "off" /\ main' = "starting" /\ recv_thread_status' = 1
        /\ UNCHANGED <<using_api, status>>
    BY <1>0, <1>2, FreshExists DEF Start
  <2> QED
    BY <1>0, <1>1, <2>1
       DEF LifecycleInv, CountExact, CallsInOrder, MainInOrder, ReinitInOrder, Closing
<1>3. CASE Started
  <2>1. /\ main = "starting" /\ main' = "on" /\ rt = "none" /\ rt' = "top" /\ using_api' = 0
        /\ transport # 0 /\ dev_mutex
        /\ UNCHANGED <<recv_thread_status, transport, live, dev_mutex, api>>
    BY <1>3 DEF Started, LifecycleInv, MainInOrder, ReinitInOrder
  <2>2. CountExact'
    BY <1>0, <1>1, <2>1, FS_EmptySet DEF CountExact
  <2> QED
    BY <1>0, <1>1, <2>1, <2>2
       DEF LifecycleInv, CallsInOrder, MainInOrder, ReinitInOrder, Closing
<1>4. CASE Stop
  <2>1. /\ main = "on" /\ main' = "joining" /\ transport # 0
        /\ \A t \in Threads : api[t] = Out
        /\ UNCHANGED <<status, using_api, transport, live, dev_mutex, transferring, rt, api>>
    BY <1>0, <1>4 DEF Stop
  <2> QED
    BY <1>0, <2>1
       DEF LifecycleInv, CountExact, CallsInOrder, MainInOrder, ReinitInOrder, Closing
<1>5. CASE Join
  <2>1. /\ main = "joining" /\ rt = "ended" /\ live' = 0 /\ rt' = "none"
        /\ UNCHANGED <<status, using_api, recv_thread_status, transport, api>>
        /\ transport # 0
    BY <1>5 DEF Join, info, LifecycleInv, MainInOrder
  <2>2. main' = "off"
    BY <1>5, <2>1 DEF Join
  <2> QED
    BY <1>0, <1>1, <2>1, <2>2
       DEF LifecycleInv, CountExact, CallsInOrder, MainInOrder, ReinitInOrder, Closing
<1>6. CASE RequestReinit
  BY <1>0, <1>6
     DEF RequestReinit, LifecycleInv, CountExact, CallsInOrder, MainInOrder, ReinitInOrder,
         Closing
<1> QED
  BY <1>2, <1>3, <1>4, <1>5, <1>6

(* The recv thread: the reinit goes from the count 0 to the announcement     *)
(* without a call in progress.                                               *)
LEMMA InvRecv ==
  ASSUME Careful, TypeOK, LifecycleInv, RecvStep PROVE LifecycleInv'
<1>0. /\ Avoid("deinit") /\ Avoid("participant") /\ rt # "none"
      /\ UNCHANGED <<using_api, recv_thread_status, api, main>>
      /\ Inside' = Inside
  <2>1. /\ UNCHANGED <<using_api, recv_thread_status, api, main>> /\ rt # "none"
    BY DEF RecvStep, Pass, End, Look, CheckCalls, CheckFiles, Drop, Configure, Connect,
           Publish, Announce, info, recv
  <2> QED
    BY <2>1, CarefulAvoids, SameInside
<1>1. main \in {"on", "joining"}
  BY <1>0 DEF TypeOK, LifecycleInv, MainInOrder
<1>2. CountExact'
  BY <1>0 DEF LifecycleInv, CountExact
<1>3. ASSUME transport' = transport, live' = live, rt' # "none", dev_mutex => dev_mutex',
             main = "joining" /\ transport = 0 => rt' \in {"config", "connect"}
      PROVE  CallsInOrder' /\ MainInOrder'
  BY <1>0, <1>3 DEF LifecycleInv, CallsInOrder, MainInOrder
<1>4. ASSUME NEW ends \in BOOLEAN, Pass(ends) PROVE LifecycleInv'
  BY <1>0, <1>2, <1>3, <1>4 DEF Pass, info, LifecycleInv, MainInOrder, ReinitInOrder, Closing
<1>5. CASE End
  BY <1>0, <1>2, <1>3, <1>5 DEF End, recv, LifecycleInv, MainInOrder, ReinitInOrder, Closing
<1>6. CASE Look
  BY <1>0, <1>2, <1>3, <1>6
     DEF Look, Stopped, Changed, LifecycleInv, MainInOrder, ReinitInOrder, Closing
<1>7. CASE CheckCalls
  <2>1. Quiet => Inside = {}
    BY InsideFinite, FS_EmptySet DEF Quiet, LifecycleInv, CountExact
  <2> QED
    BY <1>0, <1>2, <1>3, <1>7, <2>1
       DEF CheckCalls, recv, LifecycleInv, MainInOrder, ReinitInOrder, Closing
<1>8. CASE CheckFiles
  BY <1>0, <1>2, <1>3, <1>8
     DEF CheckFiles, NoFile, recv, LifecycleInv, MainInOrder, ReinitInOrder, Closing
<1>9. CASE Drop
  <2>1. Inside = {} /\ \A t \in Threads : api[t] = Out
    BY <1>9 DEF Drop, LifecycleInv, ReinitInOrder, CallsInOrder, Closing, Inside
  <2> QED
    BY <1>0, <1>1, <1>2, <1>9, <2>1
       DEF Drop, LifecycleInv, CallsInOrder, MainInOrder, ReinitInOrder, Closing, Out
<1>10. ASSUME NEW ok \in BOOLEAN, Configure(ok) PROVE LifecycleInv'
  BY <1>0, <1>1, <1>2, <1>3, <1>10
     DEF Configure, MayFail, recv, LifecycleInv, MainInOrder, ReinitInOrder, Closing
<1>11. ASSUME NEW outcome \in {"ok", "null", "freed"}, Connect(outcome) PROVE LifecycleInv'
  <2>1. Inside = {} /\ \A t \in Threads : api[t] = Out
    BY <1>11 DEF Connect, LifecycleInv, ReinitInOrder, CallsInOrder, Closing, Inside
  <2> QED
    BY <1>0, <1>1, <1>2, <1>11, <2>1, FreshExists
       DEF Connect, MayFail, LifecycleInv, CallsInOrder, MainInOrder, ReinitInOrder, Closing, Out
<1>12. CASE Publish
  BY <1>0, <1>2, <1>3, <1>12
     DEF Publish, info, LifecycleInv, MainInOrder, ReinitInOrder, Closing
<1>13. CASE Announce
  BY <1>0, <1>2, <1>3, <1>13 DEF Announce, LifecycleInv, MainInOrder, ReinitInOrder, Closing
<1> QED
  BY <1>4, <1>5, <1>6, <1>7, <1>8, <1>9, <1>10, <1>11, <1>12, <1>13 DEF RecvStep

LEMMA InvStep == Careful /\ TypeOK /\ LifecycleInv /\ [Next]_vars => LifecycleInv'
<1> SUFFICES ASSUME Careful, TypeOK, LifecycleInv, [Next]_vars PROVE LifecycleInv'
  OBVIOUS
<1>1. ASSUME (\E i \in Interfaces : Toggle(i)) \/ UNCHANGED vars PROVE LifecycleInv'
  <2>1. UNCHANGED <<info, live, dev_mutex, transferring, api, rt, main>>
    BY <1>1 DEF Toggle, vars, info
  <2> QED
    BY <2>1, SameInside
       DEF info, LifecycleInv, CountExact, CallsInOrder, MainInOrder, ReinitInOrder
<1> QED
  BY <1>1, InvCalls, InvMain, InvRecv DEF Next

(* Unless the server is stopped between a call's check and its count, two    *)
(* threads count at once, the recv thread outruns rmt_server_init, an entity *)
(* cannot be created or the server is stopped without a transport: no call,  *)
(* no pass and no rmt_server_deinit meets a freed transport, the count is    *)
(* exact, and a server that is RUNNING is connected.                         *)
THEOREM LifecycleCorrect ==
  Careful => (Spec => [](NothingFreedInUse /\ CountExact /\ RunningIsConnected))
<1>1. TypeOK /\ LifecycleInv => NothingFreedInUse /\ CountExact /\ RunningIsConnected
  <2> SUFFICES ASSUME TypeOK, LifecycleInv
               PROVE  NothingFreedInUse /\ RunningIsConnected
    BY DEF LifecycleInv
  <2>1. RunningIsConnected
    BY DEF LifecycleInv, MainInOrder, ReinitInOrder, Closing, RunningIsConnected
  <2>2. \A t \in Threads : api[t].pc = "busy" =>
          dev_mutex /\ (api[t].kind # "result" => api[t].transport = live /\ live # 0)
    BY DEF LifecycleInv, CallsInOrder, MainInOrder
  <2>3. rt = "top" /\ transport # 0 => transport = live /\ dev_mutex
    BY DEF LifecycleInv, MainInOrder, ReinitInOrder
  <2> QED
    BY <2>1, <2>2, <2>3 DEF LifecycleInv, MainInOrder, NothingFreedInUse
<1> SUFFICES ASSUME Careful
             PROVE  Spec => [](NothingFreedInUse /\ CountExact /\ RunningIsConnected)
  OBVIOUS
<1>2. TypeOK /\ LifecycleInv /\ [Next]_vars => LifecycleInv'
  BY InvStep
<1> QED
  BY <1>1, <1>2, TypeInit, TypeStep, InvInit, PTL DEF Spec

(* The invariant itself, which says more than its consequences: calls are    *)
(* made while the server is on, on its transport, and the server is joined   *)
(* only when there is a transport to free.                                   *)
THEOREM LifecycleInvariant == Careful => (Spec => []LifecycleInv)
<1> SUFFICES ASSUME Careful PROVE Spec => []LifecycleInv
  OBVIOUS
<1>1. TypeOK /\ LifecycleInv /\ [Next]_vars => LifecycleInv'
  BY InvStep
<1> QED
  BY <1>1, TypeInit, TypeStep, InvInit, PTL DEF Spec

-----------------------------------------------------------------------------
(* From the count 0 to the announcement no call gets in.                     *)
QuietInv ==
  /\ \A t \in Threads : api[t].pc # "enter"
  /\ rt \in Closing => Inside = {}
  /\ rt = "drop" => ~transferring

LEMMA QuietInit == Init => QuietInv
BY DEF Init, QuietInv, Out, Closing

LEMMA QuietStep ==
  Avoid("entry") /\ Avoid("count") /\ TypeOK /\ CountInv /\ ReinitSteps /\ QuietInv
    /\ [Next]_vars => QuietInv'
<1> SUFFICES ASSUME Avoid("entry"), Avoid("count"), TypeOK, CountInv, ReinitSteps, QuietInv,
                    [Next]_vars
             PROVE  QuietInv'
  OBVIOUS
<1> USE SameInside DEF QuietInv, Closing
<1>1. ASSUME NEW configured \in Configured, Start(configured) PROVE QuietInv'
  BY <1>1 DEF Start
<1>2. CASE Started
  BY <1>2 DEF Started, ReinitSteps
<1>3. CASE Stop \/ RequestReinit
  BY <1>3 DEF Stop, RequestReinit
<1>4. CASE Join
  BY <1>4 DEF Join
<1>5. ASSUME NEW t \in Threads, Call(t) \/ \E kind \in Kinds : Enter(t, kind)
      PROVE  QuietInv'
  <2>1. rt' = rt /\ rt \notin Closing
    <3>1. CASE \E kind \in Kinds : Enter(t, kind)
      BY <3>1 DEF Enter, MayEnter, ReinitSteps
    <3>2. CASE Call(t)
      <4>1. t \in Inside
        BY <3>2 DEF Call, Count, Begin, Finish, CountInv, Inside
      <4> QED
        BY <3>2, <4>1 DEF Call, Count, Begin, Finish, info
    <3> QED
      BY <1>5, <3>1, <3>2
  <2>2. \A u \in Threads : api'[u].pc # "enter"
    <3>1. api \in [Threads -> Calls] /\ Out.pc = "out"
      BY DEF TypeOK, Calls, Out
    <3>2. ASSUME NEW kind \in Kinds, Enter(t, kind)
          PROVE  \A u \in Threads : api'[u].pc # "enter"
      BY <3>1, <3>2 DEF Enter, Calls
    <3>3. CASE Begin(t) \/ Finish(t)
      BY <3>1, <3>3 DEF Begin, Finish, Calls
    <3>4. CASE Count(t)
      <4>1. api' = [api EXCEPT ![t] = Out]
        BY <3>4 DEF Count, CountInv
      <4> QED
        BY <3>1, <4>1
    <3> QED
      BY <1>5, <3>2, <3>3, <3>4 DEF Call
  <2> QED
    BY <2>1, <2>2
<1>6. ASSUME (\E i \in Interfaces : Toggle(i)) \/ UNCHANGED vars PROVE QuietInv'
  BY <1>6 DEF Toggle, vars
<1>7. CASE RecvStep
  <2>0. UNCHANGED <<api, Inside>>
    BY <1>7
       DEF RecvStep, Pass, End, Look, CheckCalls, CheckFiles, Drop, Configure, Connect,
           Publish, Announce, info, recv
  <2>1. CASE CheckCalls
    <3>1. Quiet => Inside = {}
      BY InsideFinite, FS_EmptySet DEF Quiet, CountInv, CountExact
    <3> QED
      BY <2>0, <2>1, <3>1 DEF CheckCalls
  <2>2. CASE CheckFiles
    BY <2>0, <2>2 DEF CheckFiles, NoFile, recv
  <2>3. CASE RecvStep /\ ~CheckCalls /\ ~CheckFiles
    BY <2>0, <2>3
       DEF RecvStep, Pass, End, Look, Drop, Configure, Connect, Publish, Announce, recv
  <2> QED
    BY <1>7, <2>1, <2>2, <2>3
<1> QED
  BY <1>1, <1>2, <1>3, <1>4, <1>5, <1>6, <1>7 DEF Next

(* The transport is freed only when no call is in progress and, while the    *)
(* server is on, no file is being transferred: unless the server is stopped  *)
(* between a call's check and its count, two threads count at once, or the   *)
(* recv thread outruns rmt_server_init.  A server stopped without a          *)
(* transport and entities that cannot be created make no difference here.    *)
THEOREM ReplacedOnlyWhenQuiet ==
  Avoid("entry") /\ Avoid("count") /\ Avoid("start") => (Spec => ReplacedWhenQuiet)
<1>1. ASSUME CountInv, ReinitSteps, QuietInv, [Next]_vars, live # 0, live' # live
      PROVE  Inside = {} /\ (main = "on" => ~transferring)
  <2>1. CASE Join
    BY <1>1, <2>1 DEF Join, CountInv, Inside
  <2>2. CASE Drop
    BY <1>1, <2>2 DEF Drop, QuietInv, Closing
  <2>3. ASSUME NEW configured \in Configured, Start(configured) PROVE FALSE
    BY <1>1, <2>3 DEF Start, ReinitSteps
  <2>4. ASSUME NEW outcome \in {"ok", "null", "freed"}, Connect(outcome) PROVE FALSE
    BY <1>1, <2>4 DEF Connect, ReinitSteps
  <2>5. Next /\ live' # live
    BY <1>1 DEF vars
  <2> QED
    BY <2>1, <2>2, <2>3, <2>4, <2>5
       DEF Next, Started, Stop, RequestReinit, Call, Count, Begin, Finish, Enter, RecvStep,
           Pass, End, Look, CheckCalls, CheckFiles, Configure, Publish, Announce, Toggle,
           info, recv
<1> SUFFICES ASSUME Avoid("entry"), Avoid("count"), Avoid("start")
             PROVE  Spec => ReplacedWhenQuiet
  OBVIOUS
<1>2. CountInv /\ ReinitSteps /\ QuietInv /\ [Next]_vars
        => [live # 0 /\ live' # live => Inside = {} /\ (main = "on" => ~transferring)]_vars
  BY <1>1
<1>3. TypeOK /\ CountInv /\ [Next]_vars => CountInv'
  BY CountStep
<1>4. TypeOK /\ ReinitSteps /\ [Next]_vars => ReinitSteps'
  BY ReinitStep
<1>5. TypeOK /\ CountInv /\ ReinitSteps /\ QuietInv /\ [Next]_vars => QuietInv'
  BY QuietStep
<1> QED
  BY <1>2, <1>3, <1>4, <1>5, TypeInit, TypeStep, CountInit, ReinitInit, QuietInit, PTL
     DEF Spec, ReplacedWhenQuiet
=============================================================================
