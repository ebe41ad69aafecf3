------------------------------ MODULE Inquiry -------------------------------
(***************************************************************************)
(* What a get or set call promises: a thread asks some devices, each of    *)
(* them is heard at most once, and the thread gets its answer in the end,  *)
(* complete or not.  A call that clashes with another one is spoiled:      *)
(* nothing is said of it but that it returns.                              *)
(***************************************************************************)
CONSTANTS Threads, Devices

VARIABLES
  phase,   \* "idle", "asking" or "spoiled"
  asked,   \* the devices a thread asks
  heard    \* those that have answered

inquiry == <<phase, asked, heard>>

Init ==
  /\ phase = [t \in Threads |-> "idle"]
  /\ asked = [t \in Threads |-> {}] /\ heard = [t \in Threads |-> {}]

Ask(t, ds) ==
  /\ phase[t] = "idle" /\ phase' = [phase EXCEPT ![t] = "asking"]
  /\ asked' = [asked EXCEPT ![t] = ds] /\ UNCHANGED heard

Hear(t, d) ==
  /\ phase[t] = "asking" /\ d \in asked[t] \ heard[t]
  /\ heard' = [heard EXCEPT ![t] = @ \cup {d}]
  /\ UNCHANGED <<phase, asked>>

(* A new call spoils itself and calls in progress.                           *)
Clash(t, others) ==
  /\ phase[t] = "idle" /\ \A u \in others : phase[u] # "idle"
  /\ phase' = [u \in Threads |-> IF u \in others \cup {t} THEN "spoiled" ELSE phase[u]]
  /\ asked' = [u \in Threads |-> IF u \in others \cup {t} THEN {} ELSE asked[u]]
  /\ heard' = [u \in Threads |-> IF u \in others \cup {t} THEN {} ELSE heard[u]]

Return(t) ==
  /\ phase[t] # "idle" /\ phase' = [phase EXCEPT ![t] = "idle"]
  /\ asked' = [asked EXCEPT ![t] = {}] /\ heard' = [heard EXCEPT ![t] = {}]

Next ==
  \E t \in Threads :
    \/ Return(t)
    \/ \E ds \in SUBSET Devices : Ask(t, ds)
    \/ \E d \in Devices : Hear(t, d)
    \/ \E others \in SUBSET (Threads \ {t}) : Clash(t, others)

Safe == Init /\ [][Next]_inquiry
Spec == Safe /\ \A t \in Threads : WF_inquiry(Return(t))
=============================================================================
