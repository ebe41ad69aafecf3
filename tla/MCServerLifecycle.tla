-------------------------- MODULE MCServerLifecycle --------------------------
(* Instances of ServerLifecycle for TLC: a wired and a wireless interface. *)
EXTENDS ServerLifecycle

MCOrder    == << "eth0", "wlan0" >>
MCWireless == {"wlan0"}

(* No coincidence happens. *)
MCAvoidAll == Coincidences

(* Only the one between the check of the status and using_api++ does. *)
MCAvoidButEntry == Coincidences \ {"entry"}

MCConfigured == {NoInterface, "eth0"}
=============================================================================
