------------------------------ MODULE AgentLoop ------------------------------
(***************************************************************************)
(* The agent (agent/rmt_agent.c, agent/devinfo_agent.c) with its           *)
(* configuration (common/rmt_config.c) and its use of the DDS domain       *)
(* (common/dds_transport.c).  The application calls rmt_agent_running for  *)
(* ever; each call looks whether the selected interface or its address has *)
(* changed, moves to another transport if so, reads the device's           *)
(* information, announces it if it has changed, and serves requests.       *)
(*                                                                         *)
(* Avoided names the coincidences that the code does not survive and that  *)
(* an instance leaves out.  Host name and model do not change.             *)
(***************************************************************************)
EXTENDS Network

CONSTANTS
  Ethernet, Adlink,  \* interfaces that start with 'e', that have an ADLINK MAC
  MacTail,           \* the last three bytes of each one's MAC
  Addresses,         \* the IP addresses that each interface may have
  Infos,             \* bound: what the application's agent_devinfo_func returns
  ConfigFile,        \* the lines of rmt.conf that set one of the three settings below
  Configs,           \* bound: the arguments of rmt_agent_configure
  Avoided            \* coincidences left out

Coincidences == {
  "entity",   \* an entity of a new transport cannot be created
  "memory",   \* there is no memory for a new transport
  "write"}    \* an announcement cannot be written

Avoid(x) == x \in Avoided
IPs      == UNION {Addresses[i] : i \in Interfaces}
Byte     == 0..255
Names    == Interfaces \cup {NoInterface}
Lines    == [net_interface : Names] \cup [device_id : Nat] \cup [auto_detect_interface : Nat]

ASSUME MachineAssumption ==
  /\ Ethernet \subseteq Interfaces /\ Adlink \subseteq Interfaces
  /\ MacTail \in [Interfaces -> [1..3 -> Byte]]
  /\ DOMAIN Addresses = Interfaces /\ "" \notin IPs
  /\ Interfaces \cap {"lo", "absent"} = {}
ASSUME AgentAssumption ==
  /\ ConfigFile \in Seq(Lines) /\ Configs \subseteq [net_interface : Names, device_id : Nat]
  /\ "" \in Infos /\ Avoided \subseteq Coincidences

VARIABLES
  pc,             \* where the application's thread is
  g_rmt_cfg,      \* the configuration, with g_rmt_cfg_status
  runtime,        \* g_rmt_runtime_cfg: net_interface and net_ip
  seen,           \* the interface and address for which a transport is being built
  g_transport,    \* "null", "live" or "freed": what the pointer points to
  g_domain,       \* "none", "handle" or "error": 0, positive, negative
  g_participant_num,
  domain,         \* the interface that the process's DDS domain uses, "absent" if none
  g_dev,          \* the device's information: ip, mac and info (g_devinfo)
  g_info_change,
  deviceID,       \* g_msg.deviceID
  told,           \* what the transport's writer has announced
  unchanged,      \* history: no change of g_dev since the transport was created
  lonely,         \* history: no interface was up when the agent was started
  up, addr, info  \* the interfaces that are up, their addresses, the application's info

config  == <<g_rmt_cfg, deviceID, lonely>>
dds     == <<g_transport, g_domain, g_participant_num, domain>>
device  == <<g_dev, g_info_change, told, unchanged>>
network == <<up, addr, info>>
vars    == <<pc, config, runtime, seen, dds, device, network>>

Nothing == [ip |-> "nothing", mac |-> "", info |-> ""]
Place(i) == [net_interface |-> i, net_ip |-> IF i = NoInterface THEN "" ELSE addr[i]]

-----------------------------------------------------------------------------
(* Configuration.                                                            *)

LinesWith(key) == {n \in DOMAIN ConfigFile : key \in DOMAIN ConfigFile[n]}
Priority(i)    == (IF i \in Ethernet THEN 1 ELSE 0) + (IF i \in Adlink THEN 3 ELSE 0)

(* Seeded faults of the operators that follow.                               *)
NumberSigned(tail) ==
  LET Char(n) == IF tail[n] > 127 THEN tail[n] - 256 ELSE tail[n]
  IN (Char(1) * 256 + Char(2)) * 256 + Char(3)
SelectedUp == SelectFrom(up)

(* rmt_config_init: the last line with a key counts.                         *)
Setting(key, default) ==
  IF LinesWith(key) = {} THEN default
  ELSE ConfigFile[CHOOSE n \in LinesWith(key) : \A m \in LinesWith(key) : m <= n][key]

FromFile == [initialised |-> TRUE, net_interface |-> Setting("net_interface", NoInterface),
             device_id |-> Setting("device_id", 0),
             auto_detect_interface |-> Setting("auto_detect_interface", 1)]

Config == IF g_rmt_cfg.initialised THEN g_rmt_cfg ELSE FromFile

(* net_generate_id: the interface that the loop has selected among the first *)
(* n ones.  The loopback comes before them, with priority and MAC 0.         *)
Selected ==
  LET Best[n \in 0..Len(Order)] ==
        IF n = 0 THEN "lo"
        ELSE IF Priority(Best[n - 1]) < Priority(Order[n]) THEN Order[n] ELSE Best[n - 1]
  IN Best[Len(Order)]

Number(tail) == (tail[1] * 256 + tail[2]) * 256 + tail[3]
GenerateId   == IF Selected \in Interfaces THEN Number(MacTail[Selected]) ELSE 0

-----------------------------------------------------------------------------
Init ==
  /\ pc = "off"
  /\ g_rmt_cfg = [FromFile EXCEPT !.initialised = FALSE] /\ deviceID = 0 /\ lonely = FALSE
  /\ runtime = [net_interface |-> NoInterface, net_ip |-> ""] /\ seen = runtime
  /\ g_transport = "null" /\ g_domain = "none" /\ g_participant_num = 0 /\ domain = "absent"
  /\ g_dev = [ip |-> "", mac |-> "", info |-> ""] /\ g_info_change = TRUE
  /\ told = Nothing /\ unchanged = FALSE
  /\ up \in SUBSET Interfaces /\ addr \in [Interfaces -> IPs] /\ info \in Infos
  /\ \A i \in Interfaces : addr[i] \in Addresses[i]

-----------------------------------------------------------------------------
(* rmt_agent_configure.                                                      *)
SetConfig(c) ==
  /\ pc = "off"
  /\ g_rmt_cfg' = [Config EXCEPT !.device_id = c.device_id,
                                 !.net_interface = IF c.net_interface = NoInterface
                                                   THEN @ ELSE c.net_interface]
  /\ UNCHANGED <<pc, deviceID, lonely, runtime, seen, dds, device, network>>

(* rmt_agent_init up to devinfo_agent_init.  Without an interface the        *)
(* runtime configuration stays, and no device ID is generated.               *)
Start ==
  LET i == IF Config.net_interface # NoInterface THEN Config.net_interface ELSE SelectFrom(up)
      c == IF i # NoInterface /\ Config.device_id = 0
           THEN [Config EXCEPT !.device_id = GenerateId] ELSE Config
  IN /\ pc = "off" /\ pc' = "start_config"
     /\ g_rmt_cfg' = c /\ deviceID' = c.device_id /\ lonely' = (i = NoInterface)
     /\ runtime' = IF i = NoInterface THEN runtime ELSE Place(i)
     /\ seen' = [net_interface |-> c.net_interface, net_ip |-> ""]
     /\ g_dev' = [g_dev EXCEPT !.info = ""]
     /\ UNCHANGED <<dds, g_info_change, told, unchanged, network>>

(* What a failure returns to.                                                *)
Failed == IF pc \in {"start_config", "start_connect"} THEN "off" ELSE "top"

(* dds_transport_config_init: the domain is created, unless the process has  *)
(* it already, which is taken for a success.                                 *)
ConfigInit(ok) ==
  LET created == ok /\ domain = "absent"
  IN /\ pc \in {"start_config", "config"} /\ (domain # "absent" => ok)
     /\ g_domain' = (IF created THEN "handle" ELSE "error")
     /\ domain' = (IF created THEN seen.net_interface ELSE domain)
     /\ pc' = IF ~ok THEN Failed ELSE IF pc = "config" THEN "connect" ELSE "start_connect"
     /\ UNCHANGED <<config, runtime, seen, g_transport, g_participant_num, device, network>>

(* rmt_agent_running notes the new interface; rmt_agent_init has done so.    *)
Noted(connected) == IF connected /\ pc = "connect" THEN seen ELSE runtime

(* dds_transport_agent_init returns NULL only when there is no memory: when  *)
(* an entity cannot be created, its pointer is freed and returned, and the   *)
(* participant may have been counted.                                        *)
Outcomes == {"ok"} \cup (IF Avoid("memory") THEN {} ELSE {"null"})
                   \cup (IF Avoid("entity") THEN {} ELSE {"freed", "freed_counted"})

Connect(outcome) ==
  /\ pc \in {"start_connect", "connect"}
  /\ g_transport' = CASE outcome = "ok" -> "live" [] outcome = "null" -> "null" [] OTHER -> "freed"
  /\ g_participant_num' = g_participant_num + IF outcome \in {"ok", "freed_counted"} THEN 1 ELSE 0
  /\ pc' = IF outcome = "null" THEN Failed ELSE IF pc = "connect" THEN "read" ELSE "top"
  /\ runtime' = Noted(outcome # "null")
  /\ told' = Nothing /\ unchanged' = TRUE
  /\ UNCHANGED <<config, seen, g_domain, domain, g_dev, g_info_change, network>>

-----------------------------------------------------------------------------
(* One rmt_agent_running.                                                    *)

(* Seeded faults of the operators that follow.                               *)
DroppedDangling    == "freed"
ChangedNamesOnly   == SelectFrom(up) # runtime.net_interface
KeepsDomain(n)     == TRUE
NewsByAddress(new) == new.ip # g_dev.ip

Dropped      == "null"
Changed      == Place(SelectFrom(up)) # runtime
Keeps(n)     == n # 0 \/ g_domain # "handle"
News(new)    == new # g_dev

(* dds_transport_deinit; a NULL or freed transport is dereferenced.          *)
Deinit ==
  /\ g_participant_num' = g_participant_num - 1
  /\ IF Keeps(g_participant_num') THEN UNCHANGED <<g_domain, domain>>
                                  ELSE g_domain' = "none" /\ domain' = "absent"

Detect ==
  /\ pc = "top"
  /\ IF g_rmt_cfg.auto_detect_interface # 1 \/ ~Changed
     THEN pc' = "read" /\ UNCHANGED <<seen, dds>>
     ELSE /\ seen' = Place(SelectFrom(up))
          /\ \/ g_transport = "null" /\ pc' = "config" /\ UNCHANGED dds
             \/ g_transport = "live" /\ pc' = "config" /\ g_transport' = Dropped /\ Deinit
             \/ g_transport = "freed" /\ pc' = "crashed" /\ UNCHANGED dds
  /\ UNCHANGED <<config, runtime, device, network>>

(* get_device_info.  Without an interface the address stays, and the MAC is  *)
(* whatever is in the unset buffer.                                          *)
Read ==
  LET i == runtime.net_interface IN
  /\ pc = "read"
  /\ \E mac \in (IF i = NoInterface THEN Interfaces \cup {""} ELSE {i}) :
       LET new == [ip |-> IF i = NoInterface THEN g_dev.ip ELSE addr[i],
                   mac |-> mac, info |-> info]
       IN /\ g_dev' = IF News(new) THEN new ELSE g_dev
          /\ g_info_change' = (g_info_change \/ News(new))
          /\ unchanged' = (unchanged /\ new = g_dev)
  /\ pc' = IF g_info_change' THEN "send" ELSE "serve"
  /\ UNCHANGED <<config, runtime, seen, dds, told, network>>

(* The rest of devinfo_agent_update.                                         *)
Send(ok) ==
  /\ pc = "send" /\ (~ok => ~Avoid("write"))
  /\ IF g_transport # "live"
     THEN pc' = "crashed" /\ UNCHANGED <<told, g_info_change>>
     ELSE pc' = "serve" /\ told' = (IF ok THEN g_dev ELSE told) /\ g_info_change' = FALSE
  /\ UNCHANGED <<config, runtime, seen, dds, g_dev, unchanged, network>>

(* datainfo_agent_update, which ReplyQueue is about.                         *)
Serve ==
  /\ pc = "serve" /\ pc' = IF g_transport = "live" THEN "top" ELSE "crashed"
  /\ UNCHANGED <<config, runtime, seen, dds, device, network>>

(* rmt_agent_deinit; the pointer to the transport stays.                     *)
Stop ==
  /\ pc = "top"
  /\ IF g_transport # "live"
     THEN pc' = "crashed" /\ UNCHANGED <<dds, g_rmt_cfg>>
     ELSE /\ pc' = "off" /\ g_transport' = "freed" /\ Deinit
          /\ g_rmt_cfg' = [g_rmt_cfg EXCEPT !.initialised = FALSE]
  /\ UNCHANGED <<deviceID, lonely, runtime, seen, device, network>>

-----------------------------------------------------------------------------
(* The environment: interfaces come and go, their addresses change, and so   *)
(* does the application's information.                                       *)

Toggle(i) ==
  /\ up' = (up \ {i}) \cup ({i} \ up) /\ UNCHANGED <<addr, info>>
  /\ UNCHANGED <<pc, config, runtime, seen, dds, device>>

Move(i, ip) ==
  /\ ip # addr[i] /\ addr' = [addr EXCEPT ![i] = ip] /\ UNCHANGED <<up, info>>
  /\ UNCHANGED <<pc, config, runtime, seen, dds, device>>

Inform(x) ==
  /\ x # info /\ info' = x
  /\ UNCHANGED <<pc, config, runtime, seen, dds, device, up, addr>>

-----------------------------------------------------------------------------
Pass == Detect \/ Read \/ Serve

Next ==
  \/ \E c \in Configs : SetConfig(c)
  \/ Start \/ Stop \/ Pass
  \/ \E ok \in BOOLEAN : ConfigInit(ok) \/ Send(ok)
  \/ \E outcome \in Outcomes : Connect(outcome)
  \/ \E i \in Interfaces : Toggle(i) \/ \E ip \in Addresses[i] : Move(i, ip)
  \/ \E x \in Infos : Inform(x)

Spec == Init /\ [][Next]_vars

(* rmt_agent_running is called for ever, and what it retries succeeds in the *)
(* end.                                                                      *)
FairSpec ==
  /\ Spec
  /\ WF_vars(Pass) /\ WF_vars(Send(TRUE))
  /\ SF_vars(ConfigInit(TRUE)) /\ SF_vars(Connect("ok"))
-----------------------------------------------------------------------------
(* Properties.                                                               *)

Running == pc \notin {"off", "start_config", "start_connect", "crashed"}

Settings == [initialised : BOOLEAN, net_interface : Names, device_id : Nat,
             auto_detect_interface : Nat]
Places   == [net_interface : Names, net_ip : IPs \cup {""}]
Devices  == [ip : IPs \cup {""}, mac : Names, info : Infos]

(* Every variable has its type; a device ID made from a MAC is a number of   *)
(* three bytes, whatever the bytes are.                                      *)
TypeOK ==
  /\ pc \in {"off", "start_config", "start_connect", "top", "config", "connect",
             "read", "send", "serve", "crashed"}
  /\ g_rmt_cfg \in Settings /\ deviceID \in Nat /\ lonely \in BOOLEAN
  /\ runtime \in Places /\ seen \in Places
  /\ g_transport \in {"null", "live", "freed"} /\ g_domain \in {"none", "handle", "error"}
  /\ g_participant_num \in Int /\ domain \in Names \cup {"absent"}
  /\ g_dev \in Devices /\ told \in Devices \cup {Nothing}
  /\ g_info_change \in BOOLEAN /\ unchanged \in BOOLEAN
  /\ up \subseteq Interfaces /\ info \in Infos
  /\ addr \in [Interfaces -> IPs] /\ \A i \in Interfaces : addr[i] \in Addresses[i]

(* A pass and rmt_agent_deinit use a transport that is not there in one case *)
(* only: a move has failed after the old transport was dropped, and what was *)
(* selected before it is selected again, so that the next pass sees no       *)
(* change, or the application gives up (rmt_agent.c 59-82, 90).              *)
NoBadUse ==
  /\ pc = "crashed" => g_transport = "null" /\ seen # runtime
  /\ Running /\ g_transport # "live" => seen # runtime

(* dds_transport_deinit deletes the domain with the last participant and not *)
(* before: the agent has one participant or none, in a domain that was made  *)
(* for the interface it moved to, and it leaves no domain behind.            *)
DomainExact ==
  /\ g_participant_num = IF g_transport = "live" THEN 1 ELSE 0
  /\ g_domain = "handle" <=> domain # "absent"
  /\ g_transport = "live" => domain = seen.net_interface
  /\ g_transport # "live" /\ pc \notin {"start_connect", "connect"} => domain = "absent"

(* After a pass has announced what it had to, what the agent last wrote is   *)
(* its present information, or it has written nothing since it moved and its *)
(* information has not changed since: g_info_change does not say that the    *)
(* transport is new.                                                         *)
ToldLatest ==
  g_transport = "live" =>
    /\ pc = "serve" => told = g_dev \/ (told = Nothing /\ unchanged)
    /\ told # Nothing /\ told # g_dev => g_info_change

(* The device ID of the agent is the configured one; without one, it is made *)
(* from the first of the interfaces with the highest priority, whichever are *)
(* up, and is 0 only when none has a priority or when none was up at the     *)
(* start ("The ID should be consistent", network.c:98).                      *)
Foremost(n) ==
  /\ Priority(Order[n]) > 0
  /\ \A m \in DOMAIN Order : \/ Priority(Order[m]) < Priority(Order[n])
                           \/ (Priority(Order[m]) = Priority(Order[n]) /\ n <= m)
Configured == {c.device_id : c \in Configs} \cup {FromFile.device_id}

IdKept ==
  Running =>
    /\ deviceID = g_rmt_cfg.device_id
    /\ (deviceID \notin Configured \/ deviceID = 0) =>
         \/ (deviceID = 0 /\ (lonely \/ \A n \in DOMAIN Order : ~Foremost(n)))
         \/ \E n \in DOMAIN Order : Foremost(n) /\ deviceID = Number(MacTail[Order[n]])

(* If the agent stays up, and the selected interface and its address at last *)
(* stay, the agent comes to have a transport there and keeps it, and what it *)
(* has announced is that address, unless it uses a missing transport before. *)
Settles ==
  \A i \in Interfaces : \A ip \in Addresses[i] :
    LET here == [net_interface |-> i, net_ip |-> ip]
    IN <>[](pc # "off" /\ g_rmt_cfg.auto_detect_interface = 1 /\ Place(SelectFrom(up)) = here)
       => <>[](\/ pc = "crashed"
              \/ /\ Running /\ g_transport = "live" /\ runtime = here
                 /\ (told = Nothing \/ told.ip = ip))
=============================================================================
