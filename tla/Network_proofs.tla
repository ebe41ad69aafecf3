--------------------------- MODULE Network_proofs ---------------------------
(* Facts about Network that the theorems on the server and the agent cite.   *)
EXTENDS Network, WellFoundedInduction, TLAPS

(* The least and the greatest element of a set of numbers.                   *)
LEMMA Least ==
  ASSUME NEW S \in SUBSET Nat, S # {}
  PROVE  \E i \in S : \A j \in S : i <= j
<1>1. \E i \in S : \A j \in S : ~(<<j, i>> \in OpToRel(<, Nat))
  BY NatLessThanWellFounded, WFMin
<1>2. PICK i \in S : \A j \in S : ~(<<j, i>> \in OpToRel(<, Nat))
  BY <1>1
<1>3. ASSUME NEW j \in S PROVE i <= j
  <2>1. <<j, i>> \in Nat \X Nat /\ ~(<<j, i>> \in OpToRel(<, Nat))
    BY <1>2
  <2>2. ~(<<j, i>>[1] < <<j, i>>[2])
    BY <2>1 DEF OpToRel
  <2> QED
    BY <2>2
<1> QED
  BY <1>3

(* Induction, for a property given as the set of numbers that have it.       *)
LEMMA AllNumbers ==
  ASSUME NEW S, 0 \in S, \A n \in Nat : n \in S => n + 1 \in S
  PROVE  \A n \in Nat : n \in S
<1> SUFFICES ASSUME Nat \ S # {} PROVE FALSE
  OBVIOUS
<1>1. PICK m \in Nat \ S : \A k \in Nat \ S : m <= k
  BY Least
<1>2. m - 1 \in Nat /\ m - 1 \in S
  BY <1>1
<1> QED
  BY <1>1, <1>2

LEMMA Greatest ==
  ASSUME NEW S \in SUBSET Nat, S # {}, NEW n \in Nat, \A i \in S : i <= n
  PROVE  \E i \in S : \A j \in S : i >= j
<1> DEFINE T == {k \in Nat : \A i \in S : i <= k}
<1>1. PICK m \in T : \A k \in T : m <= k
  <2>1. T \in SUBSET Nat /\ n \in T
    OBVIOUS
  <2> QED
    BY <2>1, Least
<1>2. m \in S
  <2> SUFFICES ASSUME m \notin S PROVE FALSE
    OBVIOUS
  <2>1. PICK j \in S : TRUE
    OBVIOUS
  <2>2. m \in Nat /\ m - 1 \in Nat
    BY <2>1, <1>1
  <2>3. \A i \in S : i <= m - 1
    BY <2>2, <1>1
  <2>4. m - 1 \in T
    BY <2>2, <2>3
  <2> QED
    BY <2>2, <2>4, <1>1
<1> QED
  BY <1>1, <1>2

LEMMA ElementsAreNames == \A i \in DOMAIN Order : Order[i] # NoInterface
BY OrderAssumption

(* The first and the last index of a name in a set.                          *)
Indices(names)   == {i \in DOMAIN Order : Order[i] \in names}
FirstIndex(names) == CHOOSE i \in Indices(names) : \A j \in Indices(names) : i <= j
LastIndex(names)  == CHOOSE i \in Indices(names) : \A j \in Indices(names) : i >= j

LEMMA IndexOf ==
  ASSUME NEW names, names \cap Interfaces # {}
  PROVE  /\ Indices(names) # {}
         /\ FirstIndex(names) \in Indices(names)
         /\ LastIndex(names) \in Indices(names)
         /\ \A j \in Indices(names) : FirstIndex(names) <= j /\ LastIndex(names) >= j
<1>1. DOMAIN Order = 1..Len(Order) /\ Len(Order) \in Nat
  BY OrderAssumption
<1>2. Indices(names) # {}
  BY DEF Indices, Interfaces
<1>3. Indices(names) \in SUBSET Nat /\ \A i \in Indices(names) : i <= Len(Order)
  BY <1>1 DEF Indices
<1>4. /\ \E i \in Indices(names) : \A j \in Indices(names) : i <= j
      /\ \E i \in Indices(names) : \A j \in Indices(names) : i >= j
  BY <1>1, <1>2, <1>3, Least, Greatest
<1> QED
  BY <1>2, <1>4 DEF FirstIndex, LastIndex

LEMMA SelectFromIndices ==
  ASSUME NEW up
  PROVE  SelectFrom(up) = IF Indices(up \cap Wireless) # {}
                          THEN Order[FirstIndex(up \cap Wireless)]
                          ELSE IF Indices(up \cap Interfaces) # {}
                               THEN Order[LastIndex(up \cap Interfaces)] ELSE NoInterface
BY DEF SelectFrom, Indices, FirstIndex, LastIndex

(* What net_select_interface returns: of the interfaces that are up, the     *)
(* wireless one that the system names first, or if there is none the one it  *)
(* names last; and none only if none is up.                                  *)
THEOREM SelectionIsPreferred ==
  ASSUME NEW up \in SUBSET Interfaces
  PROVE  /\ up \cap Wireless # {} =>
              /\ SelectFrom(up) \in up \cap Wireless
              /\ \E i \in DOMAIN Order :
                   /\ Order[i] = SelectFrom(up)
                   /\ \A j \in DOMAIN Order : Order[j] \in up \cap Wireless => i <= j
         /\ up \cap Wireless = {} /\ up # {} =>
              /\ SelectFrom(up) \in up
              /\ \E i \in DOMAIN Order :
                   /\ Order[i] = SelectFrom(up)
                   /\ \A j \in DOMAIN Order : Order[j] \in up => i >= j
         /\ SelectFrom(up) = NoInterface <=> up = {}
<1>1. /\ Wireless \subseteq Interfaces /\ NoInterface \notin Interfaces
      /\ up \cap Interfaces = up /\ (up \cap Wireless) \cap Interfaces = up \cap Wireless
  BY OrderAssumption, ElementsAreNames DEF Interfaces
<1>2. CASE up \cap Wireless # {}
  <2>1. SelectFrom(up) = Order[FirstIndex(up \cap Wireless)]
    BY <1>1, <1>2, IndexOf, SelectFromIndices
  <2>2. /\ FirstIndex(up \cap Wireless) \in Indices(up \cap Wireless)
        /\ \A j \in Indices(up \cap Wireless) : FirstIndex(up \cap Wireless) <= j
    BY <1>1, <1>2, IndexOf
  <2> QED
    BY <1>1, <1>2, <2>1, <2>2 DEF Indices
<1>3. CASE up \cap Wireless = {} /\ up # {}
  <2>1. Indices(up \cap Wireless) = {}
    BY <1>3 DEF Indices
  <2>2. SelectFrom(up) = Order[LastIndex(up)]
    BY <1>1, <1>3, <2>1, IndexOf, SelectFromIndices
  <2>3. /\ LastIndex(up) \in Indices(up)
        /\ \A j \in Indices(up) : LastIndex(up) >= j
    BY <1>1, <1>3, IndexOf
  <2> QED
    BY <1>1, <1>3, <2>2, <2>3 DEF Indices
<1>4. CASE up = {}
  <2>1. Indices(up \cap Wireless) = {} /\ Indices(up \cap Interfaces) = {}
    BY <1>4 DEF Indices
  <2> QED
    BY <1>4, <2>1, SelectFromIndices
<1> QED
  BY <1>2, <1>3, <1>4

LEMMA SelectFromType ==
  ASSUME NEW up
  PROVE  SelectFrom(up) \in Interfaces \cup {NoInterface}
<1>1. /\ Indices(up \cap Wireless) # {} => FirstIndex(up \cap Wireless) \in DOMAIN Order
      /\ Indices(up \cap Interfaces) # {} => LastIndex(up \cap Interfaces) \in DOMAIN Order
  <2>1. \A names : Indices(names) # {} => names \cap Interfaces # {}
    BY DEF Indices, Interfaces
  <2>2. \A names : Indices(names) \subseteq DOMAIN Order
    BY DEF Indices
  <2> QED
    BY <2>1, <2>2, IndexOf
<1> QED
  BY <1>1, SelectFromIndices DEF Interfaces
=============================================================================
