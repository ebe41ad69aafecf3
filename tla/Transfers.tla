----------------------------- MODULE Transfers ------------------------------
(***************************************************************************)
(* What the server's file transfer promises: transfers follow each other,  *)
(* a device of a transfer is owed an outcome from the moment it is asked,  *)
(* and gets one: the agent's answer to this very transfer, or none in      *)
(* time.  What is shown of a device changes in no other way, except that   *)
(* devices come and go.                                                    *)
(***************************************************************************)
EXTENDS Naturals

CONSTANTS Devices, FreshStatus   \* FreshStatus: what an entry may show at first

VARIABLES
  shown,    \* the status of each device, "ABSENT" for none
  result,   \* the transfer its answer belongs to, 0 for none
  round,    \* the last transfer
  asking,   \* its call still asks devices
  owed      \* the devices it has asked and owes an outcome

transfers == <<shown, result, round, asking, owed>>

Init ==
  /\ shown = [d \in Devices |-> "ABSENT"] /\ result = [d \in Devices |-> 0]
  /\ round = 0 /\ asking = FALSE /\ owed = {}

Show(d, st, res) ==
  /\ shown'  = [shown EXCEPT ![d] = IF @ = "ABSENT" THEN @ ELSE st]
  /\ result' = [result EXCEPT ![d] = IF shown[d] = "ABSENT" THEN @ ELSE res]

(* A transfer begins when the one before owes nothing any more.              *)
Begin ==
  /\ ~asking /\ owed = {}
  /\ asking' = TRUE /\ round' \in Nat /\ round' > round
  /\ UNCHANGED <<shown, result, owed>>

Ask(d) ==
  /\ asking /\ d \notin owed
  /\ owed' = owed \cup {d} /\ Show(d, "RUNNING", 0)
  /\ UNCHANGED <<round, asking>>

Asked == asking /\ asking' = FALSE /\ UNCHANGED <<shown, result, round, owed>>

Answer(d) ==
  /\ ~asking /\ d \in owed /\ owed' = owed \ {d}
  /\ \E st \in {"DONE", "SERVER_ERROR"} : Show(d, st, round)
  /\ UNCHANGED <<round, asking>>

GiveUp(d) ==
  /\ ~asking /\ d \in owed /\ owed' = owed \ {d}
  /\ IF shown[d] = "RUNNING" THEN Show(d, "AGENT_ERROR", 0) ELSE UNCHANGED <<shown, result>>
  /\ UNCHANGED <<round, asking>>

Appear(d) ==
  /\ shown[d] = "ABSENT"
  /\ \E st \in FreshStatus : shown' = [shown EXCEPT ![d] = st]
  /\ UNCHANGED <<result, round, asking, owed>>

Vanish(d) ==
  /\ shown' = [shown EXCEPT ![d] = "ABSENT"] /\ result' = [result EXCEPT ![d] = 0]
  /\ UNCHANGED <<round, asking, owed>>

VanishAll ==
  /\ ~asking /\ owed = {}
  /\ shown' = [d \in Devices |-> "ABSENT"] /\ result' = [d \in Devices |-> 0]
  /\ UNCHANGED <<round, asking, owed>>

Settle(d) == Answer(d) \/ GiveUp(d)

Next ==
  \/ Begin \/ Asked \/ VanishAll
  \/ \E d \in Devices : Ask(d) \/ Settle(d) \/ Appear(d) \/ Vanish(d)

Safe == Init /\ [][Next]_transfers
Spec == Safe /\ WF_transfers(Asked) /\ \A d \in Devices : WF_transfers(Settle(d))
=============================================================================
