---------------------------- MODULE MCAgentLoop ----------------------------
(***************************************************************************)
(* An instance of AgentLoop for TLC: a device with a wired and a wireless  *)
(* interface, of which the wireless one has two addresses and the MAC of   *)
(* the vendor, with a byte that is negative as a char.                     *)
(***************************************************************************)
EXTENDS AgentLoop

MCOrder      == << "eth0", "wlan0" >>
MCWireless   == {"wlan0"}
MCEthernet   == {"eth0"}
MCAdlink     == {"wlan0"}
MCMacTail    == [i \in {"eth0", "wlan0"} |->
                   IF i = "eth0" THEN << 0, 0, 7 >> ELSE << 144, 1, 2 >>]
MCAddresses  == [i \in {"eth0", "wlan0"} |-> IF i = "eth0" THEN {"a"} ELSE {"b", "c"}]
MCInfos      == {"", "x"}
MCConfigFile == << [device_id |-> 9], [auto_detect_interface |-> 1], [device_id |-> 0] >>
MCConfigs    == {[net_interface |-> "eth0", device_id |-> 5]}
=============================================================================
