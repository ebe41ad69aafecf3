-------------------------- MODULE AgentLoop_proofs --------------------------
(* Theorems about AgentLoop, for every list of interfaces with their MACs    *)
(* and addresses, every configuration file and every configuration.          *)
EXTENDS AgentLoop, Network_proofs

-----------------------------------------------------------------------------
(* The configuration and the identifier.                                     *)

(* The last of the lines with a key exists when there is one.                *)
LEMMA LastLine ==
  ASSUME NEW key, LinesWith(key) # {}
  PROVE  (CHOOSE n \in LinesWith(key) : \A m \in LinesWith(key) : m <= n) \in LinesWith(key)
<1>1. DOMAIN ConfigFile = 1..Len(ConfigFile) /\ Len(ConfigFile) \in Nat
  <2>1. ConfigFile \in Seq(Lines)
    BY AgentAssumption
  <2> QED
    BY <2>1
<1>2. LinesWith(key) \in SUBSET Nat /\ \A n \in LinesWith(key) : n <= Len(ConfigFile)
  BY <1>1 DEF LinesWith
<1>3. \E n \in LinesWith(key) : \A m \in LinesWith(key) : n >= m
  BY <1>1, <1>2, Greatest
<1>4. \E n \in LinesWith(key) : \A m \in LinesWith(key) : m <= n
  BY <1>2, <1>3
<1> QED
  BY <1>4

LEMMA LineType ==
  ASSUME NEW n \in DOMAIN ConfigFile
  PROVE  \/ ConfigFile[n] \in [net_interface : Names]
         \/ ConfigFile[n] \in [device_id : Nat]
         \/ ConfigFile[n] \in [auto_detect_interface : Nat]
<1>1. ConfigFile \in Seq(Lines)
  BY AgentAssumption
<1>2. ConfigFile[n] \in Lines
  BY <1>1
<1> QED
  BY <1>2 DEF Lines

LEMMA FromFileType ==
  FromFile \in Settings
<1>1. \A key : LinesWith(key) # {} =>
        \E n \in DOMAIN ConfigFile :
          key \in DOMAIN ConfigFile[n] /\ \A default : Setting(key, default) = ConfigFile[n][key]
  BY LastLine DEF Setting, LinesWith
<1>2. \A key, default : LinesWith(key) = {} => Setting(key, default) = default
  BY DEF Setting
<1>3. Setting("net_interface", NoInterface) \in Names
  <2>1. NoInterface \in Names
    BY DEF Names
  <2> QED
    BY <2>1, <1>1, <1>2, LineType
<1>4. Setting("device_id", 0) \in Nat
  BY <1>1, <1>2, LineType
<1>5. Setting("auto_detect_interface", 1) \in Nat
  BY <1>1, <1>2, LineType
<1> QED
  BY <1>3, <1>4, <1>5 DEF FromFile, Settings

LEMMA GenerateIdType == GenerateId \in Nat
<1>1. ASSUME NEW tail \in [1..3 -> Byte] PROVE Number(tail) \in Nat
  <2>1. tail[1] \in Nat /\ tail[2] \in Nat /\ tail[3] \in Nat
    BY DEF Byte
  <2> QED
    BY <2>1 DEF Number
<1> QED
  BY <1>1, MachineAssumption DEF GenerateId

-----------------------------------------------------------------------------
(* Type correctness.                                                         *)

LEMMA PlaceType ==
  ASSUME TypeOK, NEW i \in Names
  PROVE  Place(i) \in Places
BY DEF TypeOK, Place, Places, Names, IPs

LEMMA TypeInit == Init => TypeOK
<1> SUFFICES ASSUME Init PROVE TypeOK
  OBVIOUS
<1>1. g_rmt_cfg \in Settings /\ pc = "off" /\ deviceID = 0 /\ lonely \in BOOLEAN
  BY FromFileType DEF Init, Settings
<1>2. runtime \in Places /\ seen \in Places
  BY DEF Init, Places, Names
<1>3. g_dev \in Devices /\ told = Nothing
  BY AgentAssumption DEF Init, Devices, Names, NoInterface
<1>4. /\ g_transport = "null" /\ g_domain = "none" /\ g_participant_num = 0 /\ domain = "absent"
      /\ g_info_change \in BOOLEAN /\ unchanged \in BOOLEAN
      /\ up \subseteq Interfaces /\ info \in Infos /\ addr \in [Interfaces -> IPs]
      /\ \A i \in Interfaces : addr[i] \in Addresses[i]
  BY DEF Init
<1> QED
  BY <1>1, <1>2, <1>3, <1>4 DEF TypeOK

LEMMA TypeStep == TypeOK /\ [Next]_vars => TypeOK'
<1> SUFFICES ASSUME TypeOK, [Next]_vars PROVE TypeOK'
  OBVIOUS
<1> USE DEF config, dds, device, network
<1>0. Config \in Settings
  BY FromFileType DEF Config, TypeOK
<1>1. ASSUME NEW c \in Configs, SetConfig(c) PROVE TypeOK'
  <2>1. c.net_interface \in Names /\ c.device_id \in Nat
    BY AgentAssumption
  <2>2. g_rmt_cfg' \in Settings
    BY <1>0, <1>1, <2>1 DEF SetConfig, Settings
  <2> QED
    BY <1>1, <2>2 DEF SetConfig, TypeOK
<1>2. CASE Start
  <2> DEFINE i == IF Config.net_interface # NoInterface THEN Config.net_interface
                                                        ELSE SelectFrom(up)
  <2>1. i \in Names
    BY <1>0, SelectFromType DEF Names, Settings
  <2>2. g_rmt_cfg' \in Settings
        /\ deviceID' \in Nat /\ lonely' \in BOOLEAN
    BY <1>0, <1>2, GenerateIdType DEF Start, Settings
  <2>3. runtime' \in Places
    <3> HIDE DEF i
    <3>1. Place(i) \in Places
      BY <2>1, PlaceType
    <3>2. runtime' = runtime \/ runtime' = Place(i)
      BY <1>2 DEF Start, i
    <3> QED
      BY <3>1, <3>2 DEF TypeOK, Places
  <2>4. seen' \in Places
    BY <1>0, <1>2 DEF Start, Places, Settings
  <2>5. g_dev' \in Devices
    BY <1>2, AgentAssumption DEF Start, TypeOK, Devices
  <2> QED
    BY <1>2, <2>2, <2>3, <2>4, <2>5 DEF Start, TypeOK, Places
<1>3. ASSUME NEW ok \in BOOLEAN, ConfigInit(ok) PROVE TypeOK'
  BY <1>3 DEF ConfigInit, Failed, TypeOK, Places
<1>4. ASSUME NEW outcome \in Outcomes, Connect(outcome) PROVE TypeOK'
  BY <1>4 DEF Connect, Noted, Failed, TypeOK
<1>5. CASE Detect
  <2>1. Place(SelectFrom(up)) \in Places
    <3>1. SelectFrom(up) \in Names
      BY SelectFromType DEF Names
    <3> QED
      BY <3>1, PlaceType
  <2>2. seen' \in Places
    BY <1>5, <2>1 DEF Detect, TypeOK
  <2> QED
    BY <1>5, <2>2 DEF Detect, Deinit, Dropped, TypeOK
<1>6. CASE Read
  <2> DEFINE i == runtime.net_interface
             New(mac) == [ip |-> IF i = NoInterface THEN g_dev.ip ELSE addr[i],
                          mac |-> mac, info |-> info]
  <2>1. i \in Names
    BY DEF TypeOK, Places
  <2>2. g_dev.ip \in IPs \cup {""} /\ (i # NoInterface => addr[i] \in IPs)
    BY <2>1 DEF TypeOK, Devices, Names
  <2>3. PICK mac \in Names : g_dev' = New(mac) \/ g_dev' = g_dev
    BY <1>6, <2>1 DEF Read, Names, NoInterface
  <2>4. New(mac) \in Devices
    BY <2>2 DEF Devices, TypeOK
  <2>5. g_dev' \in Devices
    BY <2>3, <2>4 DEF TypeOK
  <2>6. /\ pc' \in {"send", "serve"} /\ g_info_change' \in BOOLEAN /\ unchanged' \in BOOLEAN
        /\ UNCHANGED <<config, runtime, seen, dds, told, network>>
    BY <1>6 DEF Read, TypeOK
  <2> QED
    BY <2>5, <2>6 DEF TypeOK
<1>7. ASSUME NEW ok \in BOOLEAN, Send(ok) PROVE TypeOK'
  BY <1>7 DEF Send, TypeOK
<1>8. CASE Serve
  BY <1>8 DEF Serve, TypeOK
<1>9. CASE Stop
  <2>1. g_rmt_cfg' \in Settings
    BY <1>9 DEF Stop, TypeOK, Settings
  <2> QED
    BY <1>9, <2>1 DEF Stop, Deinit, TypeOK
<1>10. ASSUME NEW i \in Interfaces, Toggle(i) \/ \E ip \in Addresses[i] : Move(i, ip)
       PROVE  TypeOK'
  BY <1>10 DEF Toggle, Move, IPs, TypeOK
<1>11. ASSUME NEW x \in Infos, Inform(x) PROVE TypeOK'
  BY <1>11 DEF Inform, TypeOK
<1>12. CASE UNCHANGED vars
  BY <1>12 DEF vars, TypeOK
<1> QED
  BY <1>1, <1>2, <1>3, <1>4, <1>5, <1>6, <1>7, <1>8, <1>9, <1>10, <1>11, <1>12
     DEF Next, Pass

(* The variables of the agent always have their types.                       *)
THEOREM TypeCorrect == Spec => []TypeOK
BY TypeInit, TypeStep, PTL DEF Spec

-----------------------------------------------------------------------------
(* What the agent uses, and the domain.                                      *)

(* The entities of a new transport can be created.                           *)
EntitiesWork == Avoid("entity")

(* A transport is missing only while it is being built, or where a move has  *)
(* failed and left behind what was selected before.                          *)
MoveInv ==
  /\ NoBadUse
  /\ Running => g_transport \in {"live", "null"}
  /\ pc \in {"config", "connect"} => g_transport = "null"
  /\ pc \in {"off", "start_config", "start_connect"} => g_transport # "live"

LEMMA MoveStep == EntitiesWork /\ TypeOK /\ MoveInv /\ [Next]_vars => MoveInv'
<1> SUFFICES ASSUME EntitiesWork, TypeOK, MoveInv, [Next]_vars PROVE MoveInv'
  OBVIOUS
<1> USE DEF config, dds, device, network
<1>1. ASSUME NEW c \in Configs, SetConfig(c) PROVE MoveInv'
  BY <1>1 DEF SetConfig, MoveInv, NoBadUse, Running
<1>2. CASE Start
  BY <1>2 DEF Start, MoveInv, NoBadUse, Running
<1>3. ASSUME NEW ok \in BOOLEAN, ConfigInit(ok) PROVE MoveInv'
  BY <1>3 DEF ConfigInit, Failed, MoveInv, NoBadUse, Running
<1>4. ASSUME NEW outcome \in Outcomes, Connect(outcome) PROVE MoveInv'
  <2>1. outcome \in {"ok", "null"}
    BY DEF Outcomes, EntitiesWork
  <2>2. CASE outcome = "ok"
    BY <1>4, <2>2 DEF Connect, Noted, MoveInv, NoBadUse, Running
  <2>3. CASE outcome = "null"
    BY <1>4, <2>3 DEF Connect, Noted, Failed, MoveInv, NoBadUse, Running
  <2> QED
    BY <2>1, <2>2, <2>3
<1>5. CASE Detect
  BY <1>5 DEF Detect, Changed, Dropped, MoveInv, NoBadUse, Running
<1>6. CASE Read
  BY <1>6 DEF Read, MoveInv, NoBadUse, Running
<1>7. ASSUME NEW ok \in BOOLEAN, Send(ok) PROVE MoveInv'
  BY <1>7 DEF Send, MoveInv, NoBadUse, Running
<1>8. CASE Serve
  BY <1>8 DEF Serve, MoveInv, NoBadUse, Running
<1>9. CASE Stop
  BY <1>9 DEF Stop, MoveInv, NoBadUse, Running
<1>10. ASSUME NEW i \in Interfaces, Toggle(i) \/ \E ip \in Addresses[i] : Move(i, ip)
       PROVE  MoveInv'
  BY <1>10 DEF Toggle, Move, MoveInv, NoBadUse, Running
<1>11. ASSUME NEW x \in Infos, Inform(x) PROVE MoveInv'
  BY <1>11 DEF Inform, MoveInv, NoBadUse, Running
<1>12. CASE UNCHANGED vars
  BY <1>12 DEF vars, MoveInv, NoBadUse, Running
<1> QED
  BY <1>1, <1>2, <1>3, <1>4, <1>5, <1>6, <1>7, <1>8, <1>9, <1>10, <1>11, <1>12
     DEF Next, Pass

(* When entities can be created, the agent uses a transport that is not      *)
(* there only after a failed move and the return of what was selected before *)
(* it, whatever else fails.                                                  *)
THEOREM OnlyLostMovesCrash == EntitiesWork => (Spec => []NoBadUse)
<1>1. Init => MoveInv
  BY DEF Init, MoveInv, NoBadUse, Running
<1>2. MoveInv => NoBadUse
  BY DEF MoveInv
<1> SUFFICES ASSUME EntitiesWork PROVE Spec => []NoBadUse
  OBVIOUS
<1>3. TypeOK /\ MoveInv /\ [Next]_vars => MoveInv'
  BY MoveStep
<1> QED
  BY TypeCorrect, <1>1, <1>2, <1>3, PTL DEF Spec

(* Neither is there ever too little memory for a transport.                  *)
TransportsWork == Avoid("entity") /\ Avoid("memory")

(* While a transport is being built, there is a domain for it.               *)
DomainInv ==
  /\ DomainExact
  /\ pc \in {"start_connect", "connect"} => domain = seen.net_interface

LEMMA DomainStep ==
  TransportsWork /\ TypeOK /\ MoveInv /\ DomainInv /\ [Next]_vars => DomainInv'
<1> SUFFICES ASSUME TransportsWork, TypeOK, MoveInv, DomainInv, [Next]_vars PROVE DomainInv'
  OBVIOUS
<1> USE DEF config, dds, device, network
<1>0. /\ seen.net_interface # "absent"
      /\ g_participant_num = (IF g_transport = "live" THEN 1 ELSE 0)
      /\ g_domain = "handle" <=> domain # "absent"
  BY MachineAssumption DEF TypeOK, Places, Names, NoInterface, DomainInv, DomainExact
<1>1. ASSUME NEW c \in Configs, SetConfig(c) PROVE DomainInv'
  BY <1>1 DEF SetConfig, DomainInv, DomainExact
<1>2. CASE Start
  BY <1>2 DEF Start, MoveInv, DomainInv, DomainExact
<1>3. ASSUME NEW ok \in BOOLEAN, ConfigInit(ok) PROVE DomainInv'
  <2>1. g_transport # "live" /\ g_transport' = g_transport /\ domain = "absent"
    BY <1>3 DEF ConfigInit, MoveInv, DomainInv, DomainExact
  <2>2. CASE ok
    BY <1>0, <1>3, <2>1, <2>2 DEF ConfigInit, DomainInv, DomainExact
  <2>3. CASE ~ok
    BY <1>0, <1>3, <2>1, <2>3 DEF ConfigInit, Failed, DomainInv, DomainExact
  <2> QED
    BY <2>2, <2>3
<1>4. ASSUME NEW outcome \in Outcomes, Connect(outcome) PROVE DomainInv'
  <2>1. outcome = "ok"
    BY DEF Outcomes, TransportsWork
  <2>2. g_transport # "live"
    BY <1>4 DEF Connect, MoveInv
  <2> QED
    BY <1>0, <1>4, <2>1, <2>2 DEF Connect, DomainInv, DomainExact
<1>5. ASSUME g_transport = "live", g_transport' # "live", Deinit,
             pc' \notin {"start_connect", "connect"}
      PROVE  DomainInv'
  <2>1. g_participant_num' = 0 /\ g_domain = "handle"
    BY <1>0, <1>5 DEF Deinit, DomainInv, DomainExact, TypeOK
  <2>2. g_domain' = "none" /\ domain' = "absent"
    BY <1>5, <2>1 DEF Deinit, Keeps
  <2> QED
    BY <1>5, <2>1, <2>2 DEF DomainInv, DomainExact
<1>6. CASE Detect
  <2>1. CASE UNCHANGED dds /\ (g_transport = "live" => seen' = seen)
    BY <1>6, <2>1 DEF Detect, DomainInv, DomainExact
  <2>2. CASE g_transport = "live" /\ g_transport' = Dropped /\ Deinit /\ pc' = "config"
    BY <1>5, <2>2 DEF Dropped
  <2> QED
    BY <1>6, <2>1, <2>2 DEF Detect
<1>7. CASE Read
  BY <1>7 DEF Read, DomainInv, DomainExact
<1>8. ASSUME NEW ok \in BOOLEAN, Send(ok) PROVE DomainInv'
  BY <1>8 DEF Send, DomainInv, DomainExact
<1>9. CASE Serve
  BY <1>9 DEF Serve, DomainInv, DomainExact
<1>10. CASE Stop
  BY <1>5, <1>10 DEF Stop, DomainInv, DomainExact
<1>11. ASSUME NEW i \in Interfaces, Toggle(i) \/ \E ip \in Addresses[i] : Move(i, ip)
       PROVE  DomainInv'
  BY <1>11 DEF Toggle, Move, DomainInv, DomainExact
<1>12. ASSUME NEW x \in Infos, Inform(x) PROVE DomainInv'
  BY <1>12 DEF Inform, DomainInv, DomainExact
<1>13. CASE UNCHANGED vars
  BY <1>13 DEF vars, DomainInv, DomainExact
<1> QED
  BY <1>1, <1>2, <1>3, <1>4, <1>6, <1>7, <1>8, <1>9, <1>10, <1>11, <1>12, <1>13
     DEF Next, Pass

(* When transports can be built, the agent's domain is the one of the        *)
(* interface that it moved to, and goes with its transport.                  *)
THEOREM DomainFollows == TransportsWork => (Spec => []DomainExact)
<1>1. Init => MoveInv /\ DomainInv
  BY DEF Init, MoveInv, NoBadUse, Running, DomainInv, DomainExact
<1>2. DomainInv => DomainExact
  BY DEF DomainInv
<1> SUFFICES ASSUME TransportsWork PROVE Spec => []DomainExact
  OBVIOUS
<1>3. TypeOK /\ MoveInv /\ [Next]_vars => MoveInv'
  BY MoveStep DEF TransportsWork, EntitiesWork
<1>4. TypeOK /\ MoveInv /\ DomainInv /\ [Next]_vars => DomainInv'
  BY DomainStep
<1> QED
  BY TypeCorrect, <1>1, <1>2, <1>3, <1>4, PTL DEF Spec

-----------------------------------------------------------------------------
(* What the agent has announced.                                             *)

(* What differs from the last announcement is marked as a change, except on  *)
(* a new transport, on which nothing has been announced.                     *)
ToldInv ==
  /\ ToldLatest
  /\ g_transport = "live" /\ told = Nothing /\ ~g_info_change => unchanged \/ told = g_dev
  /\ pc \in {"off", "start_config", "start_connect"} => g_transport # "live"

LEMMA ToldStep == Avoid("write") /\ TypeOK /\ ToldInv /\ [Next]_vars => ToldInv'
<1> SUFFICES ASSUME Avoid("write"), TypeOK, ToldInv, [Next]_vars PROVE ToldInv'
  OBVIOUS
<1> USE DEF config, dds, device, network
<1>1. ASSUME NEW c \in Configs, SetConfig(c) PROVE ToldInv'
  BY <1>1 DEF SetConfig, ToldInv, ToldLatest
<1>2. CASE Start
  BY <1>2 DEF Start, ToldInv, ToldLatest
<1>3. ASSUME NEW ok \in BOOLEAN, ConfigInit(ok) PROVE ToldInv'
  BY <1>3 DEF ConfigInit, Failed, ToldInv, ToldLatest
<1>4. ASSUME NEW outcome \in Outcomes, Connect(outcome) PROVE ToldInv'
  <2>1. outcome \in {"null", "freed", "freed_counted"} => g_transport' # "live"
    BY <1>4 DEF Connect
  <2>2. pc' # "serve" /\ told' = Nothing /\ unchanged'
    BY <1>4 DEF Connect, Failed
  <2>3. outcome = "ok" => pc' \in {"read", "top"}
    BY <1>4 DEF Connect
  <2>4. pc' \in {"off", "start_config", "start_connect"} => g_transport' # "live"
    BY <2>1, <2>3 DEF Outcomes
  <2> QED
    BY <2>2, <2>4 DEF ToldInv, ToldLatest
<1>5. CASE Detect
  BY <1>5 DEF Detect, Dropped, ToldInv, ToldLatest
<1>6. CASE Read
  <2>1. \/ g_dev' = g_dev /\ g_info_change' = g_info_change /\ unchanged' = unchanged
        \/ g_info_change'
    BY <1>6 DEF Read, News, TypeOK
  <2>2. /\ pc' = (IF g_info_change' THEN "send" ELSE "serve")
        /\ told' = told /\ g_transport' = g_transport
    BY <1>6 DEF Read
  <2> QED
    BY <2>1, <2>2 DEF ToldInv, ToldLatest
<1>7. ASSUME NEW ok \in BOOLEAN, Send(ok) PROVE ToldInv'
  BY <1>7 DEF Send, ToldInv, ToldLatest
<1>8. CASE Serve
  BY <1>8 DEF Serve, ToldInv, ToldLatest
<1>9. CASE Stop
  BY <1>9 DEF Stop, ToldInv, ToldLatest
<1>10. ASSUME NEW i \in Interfaces, Toggle(i) \/ \E ip \in Addresses[i] : Move(i, ip)
       PROVE  ToldInv'
  BY <1>10 DEF Toggle, Move, ToldInv, ToldLatest
<1>11. ASSUME NEW x \in Infos, Inform(x) PROVE ToldInv'
  BY <1>11 DEF Inform, ToldInv, ToldLatest
<1>12. CASE UNCHANGED vars
  BY <1>12 DEF vars, ToldInv, ToldLatest
<1> QED
  BY <1>1, <1>2, <1>3, <1>4, <1>5, <1>6, <1>7, <1>8, <1>9, <1>10, <1>11, <1>12
     DEF Next, Pass

(* When announcements can be written, the agent serves requests only after   *)
(* it has announced its present information on its transport, or with        *)
(* nothing announced there since nothing has changed.                        *)
THEOREM AnnouncedIsLatest == Avoid("write") => (Spec => []ToldLatest)
<1>1. Init => ToldInv
  BY DEF Init, ToldInv, ToldLatest
<1>2. ToldInv => ToldLatest
  BY DEF ToldInv
<1> SUFFICES ASSUME Avoid("write") PROVE Spec => []ToldLatest
  OBVIOUS
<1>3. TypeOK /\ ToldInv /\ [Next]_vars => ToldInv'
  BY ToldStep
<1> QED
  BY TypeCorrect, <1>1, <1>2, <1>3, PTL DEF Spec

-----------------------------------------------------------------------------
(* The device ID.                                                            *)

(* One round of the loop of net_generate_id, and the loop over the first     *)
(* limit interfaces.                                                         *)
Better(best, n) == IF Priority(best) < Priority(Order[n]) THEN Order[n] ELSE best

IsLoop(f, limit) ==
  f = [n \in 0..limit |-> IF n = 0 THEN "lo" ELSE Better(f[n - 1], n)]

(* The recursive definition defines a function: there is one for every limit. *)
LEMMA LoopExists ==
  ASSUME NEW limit \in Nat
  PROVE  \E f : IsLoop(f, limit)
<1> DEFINE S == {k \in Nat : \E f : IsLoop(f, k)}
<1>1. 0 \in S
  <2>1. IsLoop([n \in 0..0 |-> "lo"], 0)
    BY DEF IsLoop
  <2> QED
    BY <2>1
<1>2. ASSUME NEW k \in Nat, k \in S PROVE k + 1 \in S
  <2>1. PICK g : IsLoop(g, k)
    BY <1>2
  <2> DEFINE f == [n \in 0..k + 1 |-> IF n <= k THEN g[n] ELSE Better(g[k], k + 1)]
  <2>2. ASSUME NEW n \in 0..k + 1
        PROVE  f[n] = IF n = 0 THEN "lo" ELSE Better(f[n - 1], n)
    <3>1. CASE n = 0
      BY <2>1, <3>1 DEF IsLoop
    <3>2. CASE n # 0 /\ n <= k
      <4>1. n \in 0..k /\ n - 1 \in 0..k /\ n - 1 \in 0..k + 1 /\ n - 1 <= k
        BY <3>2
      <4>2. f[n] = g[n] /\ f[n - 1] = g[n - 1]
        BY <3>2, <4>1
      <4>3. g[n] = Better(g[n - 1], n)
        BY <2>1, <3>2, <4>1 DEF IsLoop
      <4> QED
        BY <3>2, <4>2, <4>3
    <3>3. CASE n = k + 1
      <4>1. k \in 0..k + 1 /\ ~(n <= k) /\ n - 1 = k /\ n # 0
        BY <3>3
      <4>2. f[n] = Better(g[k], k + 1) /\ f[k] = g[k]
        BY <3>3, <4>1
      <4> QED
        BY <3>3, <4>1, <4>2
    <3> QED
      BY <3>1, <3>2, <3>3
  <2>3. IsLoop(f, k + 1)
    BY <2>2 DEF IsLoop
  <2> QED
    BY <2>3
<1> HIDE DEF S
<1>3. limit \in S
  BY <1>1, <1>2, AllNumbers
<1> QED
  BY <1>3 DEF S

LEMMA SelectedIsLoop ==
  \E f : IsLoop(f, Len(Order)) /\ Selected = f[Len(Order)]
<1> DEFINE f == CHOOSE f : IsLoop(f, Len(Order))
<1>1. Len(Order) \in Nat
  BY OrderAssumption
<1>2. IsLoop(f, Len(Order))
  BY <1>1, LoopExists
<1>3. Selected = f[Len(Order)]
  BY DEF Selected, IsLoop, Better
<1> QED
  BY <1>2, <1>3

(* What the loop has after k rounds: the loopback, as long as no interface   *)
(* has a priority, or the first one of the highest priority.                 *)
ForemostOf(n, k) ==
  /\ n \in 1..k /\ Priority(Order[n]) > 0
  /\ \A m \in 1..k : \/ Priority(Order[m]) < Priority(Order[n])
                     \/ (Priority(Order[m]) = Priority(Order[n]) /\ n <= m)

BestOf(name, k) ==
  \/ name = "lo" /\ \A m \in 1..k : Priority(Order[m]) = 0
  \/ \E n \in 1..k : name = Order[n] /\ ForemostOf(n, k)

LEMMA PriorityType ==
  (\A i : Priority(i) \in Nat) /\ Priority("lo") = 0
<1>1. "lo" \notin Ethernet /\ "lo" \notin Adlink
  BY MachineAssumption
<1> QED
  BY <1>1 DEF Priority

LEMMA LoopRound ==
  ASSUME NEW name, NEW k \in Nat, BestOf(name, k)
  PROVE  BestOf(Better(name, k + 1), k + 1)
<1> DEFINE new == Priority(Order[k + 1])
<1>0. \A m \in 1..k + 1 : m \in 1..k \/ m = k + 1
  OBVIOUS
<1>1. k + 1 \in 1..k + 1 /\ \A m \in 1..k : m \in 1..k + 1 /\ m <= k + 1 /\ m # k + 1
  OBVIOUS
<1>2. \A i : Priority(i) \in Nat
  BY PriorityType
<1>3. CASE name = "lo" /\ \A m \in 1..k : Priority(Order[m]) = 0
  <2>1. CASE new > 0
    <3>1. Better(name, k + 1) = Order[k + 1]
      BY <1>3, <2>1, PriorityType DEF Better
    <3>2. ForemostOf(k + 1, k + 1)
      BY <1>0, <1>1, <1>2, <1>3, <2>1 DEF ForemostOf
    <3> QED
      BY <1>1, <3>1, <3>2 DEF BestOf
  <2>2. CASE ~(new > 0)
    <3>1. new = 0
      BY <1>2, <2>2
    <3>2. Better(name, k + 1) = name
      BY <1>3, <3>1, PriorityType DEF Better
    <3> QED
      BY <1>0, <1>3, <3>1, <3>2 DEF BestOf
  <2> QED
    BY <2>1, <2>2
<1>4. ASSUME NEW n \in 1..k, name = Order[n], ForemostOf(n, k)
      PROVE  BestOf(Better(name, k + 1), k + 1)
  <2>1. CASE Priority(name) < new
    <3>1. Better(name, k + 1) = Order[k + 1]
      BY <2>1 DEF Better
    <3>2. \A m \in 1..k : Priority(Order[m]) < new
      BY <1>2, <1>4, <2>1 DEF ForemostOf
    <3>3. new > 0
      BY <1>2, <2>1
    <3>4. ForemostOf(k + 1, k + 1)
      BY <1>0, <1>1, <3>2, <3>3 DEF ForemostOf
    <3> QED
      BY <1>1, <3>1, <3>4 DEF BestOf
  <2>2. CASE ~(Priority(name) < new)
    <3>1. Better(name, k + 1) = Order[n]
      BY <1>4, <2>2 DEF Better
    <3>2. new < Priority(Order[n]) \/ (new = Priority(Order[n]) /\ n <= k + 1)
      BY <1>2, <1>4, <2>2
    <3>3. ForemostOf(n, k + 1)
      BY <1>0, <1>1, <1>4, <3>2 DEF ForemostOf
    <3> QED
      BY <1>1, <3>1, <3>3 DEF BestOf
  <2> QED
    BY <2>1, <2>2
<1> QED
  BY <1>3, <1>4 DEF BestOf

(* net_generate_id takes the first interface of the highest priority, and    *)
(* the loopback only when none has a priority.                               *)
LEMMA SelectedIsForemost ==
  \/ Selected = "lo" /\ \A n \in DOMAIN Order : ~Foremost(n)
  \/ \E n \in DOMAIN Order : Selected = Order[n] /\ Foremost(n)
<1>0. DOMAIN Order = 1..Len(Order) /\ Len(Order) \in Nat
  BY OrderAssumption
<1> DEFINE limit == Len(Order)
<1>1. PICK f : IsLoop(f, limit) /\ Selected = f[limit]
  BY SelectedIsLoop
<1> DEFINE S == {k \in Nat : k <= limit => BestOf(f[k], k)}
<1>2. 0 \in S
  <2>1. f[0] = "lo"
    BY <1>0, <1>1 DEF IsLoop
  <2> QED
    BY <2>1 DEF BestOf
<1>3. ASSUME NEW k \in Nat, k \in S PROVE k + 1 \in S
  <2> SUFFICES ASSUME k + 1 <= limit PROVE BestOf(f[k + 1], k + 1)
    OBVIOUS
  <2>1. k + 1 \in 0..limit /\ k + 1 # 0 /\ (k + 1) - 1 = k /\ k <= limit
    BY <1>0
  <2>2. f[k + 1] = Better(f[k], k + 1)
    BY <1>1, <2>1 DEF IsLoop
  <2>3. BestOf(f[k], k)
    BY <1>3, <2>1
  <2> QED
    BY <2>2, <2>3, LoopRound
<1> HIDE DEF S
<1>4. limit \in S
  BY <1>0, <1>2, <1>3, AllNumbers
<1>5. BestOf(Selected, limit)
  BY <1>0, <1>1, <1>4 DEF S
<1>6. \A n \in DOMAIN Order : Foremost(n) <=> ForemostOf(n, limit)
  BY <1>0 DEF Foremost, ForemostOf
<1>7. (\A m \in 1..limit : Priority(Order[m]) = 0) => \A n \in DOMAIN Order : ~Foremost(n)
  BY <1>0 DEF Foremost
<1> QED
  BY <1>0, <1>5, <1>6, <1>7 DEF BestOf

LEMMA GenerateIdMeaning ==
  \/ GenerateId = 0 /\ \A n \in DOMAIN Order : ~Foremost(n)
  \/ \E n \in DOMAIN Order : Foremost(n) /\ GenerateId = Number(MacTail[Order[n]])
<1>1. CASE Selected = "lo" /\ \A n \in DOMAIN Order : ~Foremost(n)
  BY <1>1, MachineAssumption DEF GenerateId
<1>2. ASSUME NEW n \in DOMAIN Order, Selected = Order[n], Foremost(n)
      PROVE  GenerateId = Number(MacTail[Order[n]])
  BY <1>2 DEF GenerateId, Interfaces
<1> QED
  BY <1>1, <1>2, SelectedIsForemost

(* The ID in the configuration was configured or generated, and the agent's  *)
(* messages carry it; it is 0 only without an interface at the start or with *)
(* nothing to generate it from.                                              *)
IdInv ==
  /\ g_rmt_cfg.device_id \in Configured \cup {GenerateId}
  /\ pc # "off" => /\ deviceID = g_rmt_cfg.device_id
                   /\ deviceID = 0 => lonely \/ GenerateId = 0

LEMMA IdInit == Init => IdInv
BY DEF Init, IdInv, Configured, FromFile

LEMMA IdStep == TypeOK /\ IdInv /\ [Next]_vars => IdInv'
<1> SUFFICES ASSUME TypeOK, IdInv, [Next]_vars PROVE IdInv'
  OBVIOUS
<1> USE DEF config, dds, device, network
<1>0. g_rmt_cfg \in Settings /\ FromFile \in Settings
      /\ Config.device_id \in Configured \cup {GenerateId} /\ Config \in Settings
  BY FromFileType DEF TypeOK, IdInv, Config, Configured
<1>1. ASSUME NEW c \in Configs, SetConfig(c) PROVE IdInv'
  <2>1. g_rmt_cfg'.device_id = c.device_id /\ pc' = "off"
    BY <1>0, <1>1 DEF SetConfig, Settings
  <2> QED
    BY <2>1 DEF IdInv, Configured
<1>2. CASE Start
  <2> DEFINE i == IF Config.net_interface # NoInterface THEN Config.net_interface
                                                        ELSE SelectFrom(up)
  <2>1. CASE i # NoInterface /\ Config.device_id = 0
    <3>1. g_rmt_cfg' = [Config EXCEPT !.device_id = GenerateId] /\ deviceID' = GenerateId
      BY <1>0, <1>2, <2>1 DEF Start, Settings
    <3>2. g_rmt_cfg'.device_id = GenerateId
      BY <1>0, <3>1 DEF Settings
    <3> QED
      BY <3>1, <3>2 DEF IdInv
  <2>2. CASE ~(i # NoInterface /\ Config.device_id = 0)
    <3>1. g_rmt_cfg' = Config /\ deviceID' = Config.device_id /\ lonely' = (i = NoInterface)
      BY <1>2, <2>2 DEF Start
    <3> QED
      BY <1>0, <2>2, <3>1 DEF IdInv
  <2> QED
    BY <2>1, <2>2
<1>3. CASE Stop
  <2>1. UNCHANGED <<deviceID, lonely>> /\ g_rmt_cfg'.device_id = g_rmt_cfg.device_id /\ pc # "off"
    BY <1>0, <1>3 DEF Stop, Settings
  <2> QED
    BY <2>1 DEF IdInv
<1>4. ASSUME UNCHANGED config, pc # "off" \/ pc' = "off" PROVE IdInv'
  BY <1>4 DEF IdInv
<1>5. ASSUME NEW ok \in BOOLEAN, ConfigInit(ok) \/ Send(ok) PROVE IdInv'
  BY <1>4, <1>5 DEF ConfigInit, Send
<1>6. ASSUME NEW outcome \in Outcomes, Connect(outcome) PROVE IdInv'
  BY <1>4, <1>6 DEF Connect
<1>7. CASE Pass
  BY <1>4, <1>7 DEF Pass, Detect, Read, Serve
<1>8. ASSUME NEW i \in Interfaces, Toggle(i) \/ \E ip \in Addresses[i] : Move(i, ip)
      PROVE  IdInv'
  BY <1>4, <1>8 DEF Toggle, Move
<1>9. ASSUME NEW x \in Infos, Inform(x) PROVE IdInv'
  BY <1>4, <1>9 DEF Inform
<1>10. CASE UNCHANGED vars
  BY <1>4, <1>10 DEF vars
<1> QED
  BY <1>1, <1>2, <1>3, <1>5, <1>6, <1>7, <1>8, <1>9, <1>10 DEF Next

(* For every list of interfaces, every configuration file and every failure: *)
(* a running agent's ID is the configured one, or comes from the first       *)
(* interface of the highest priority, or is 0 where there was no interface   *)
(* at its start or none has a priority.                                      *)
THEOREM IdIsKept == Spec => []IdKept
<1>1. IdInv => IdKept
  <2> SUFFICES ASSUME IdInv, Running PROVE IdKept
    BY DEF IdKept
  <2>1. /\ deviceID = g_rmt_cfg.device_id /\ deviceID \in Configured \cup {GenerateId}
        /\ deviceID = 0 => lonely \/ GenerateId = 0
    BY DEF IdInv, Running
  <2>2. CASE deviceID = GenerateId
    BY <2>1, <2>2, GenerateIdMeaning DEF IdKept
  <2>3. CASE deviceID # GenerateId
    BY <2>1, <2>3, GenerateIdMeaning DEF IdKept
  <2> QED
    BY <2>2, <2>3
<1>2. TypeOK /\ IdInv /\ [Next]_vars => IdInv'
  BY IdStep
<1> QED
  BY TypeCorrect, IdInit, <1>1, <1>2, PTL DEF Spec
=============================================================================
