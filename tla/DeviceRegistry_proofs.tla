----------------------- MODULE DeviceRegistry_proofs ------------------------
(* Theorems about DeviceRegistry, for every set of writers, every            *)
(* distribution of device IDs over them and every set of threads.            *)
EXTENDS DeviceRegistry, TLAPS

Entry == [internal_id : Writers, shared : BOOLEAN]

-----------------------------------------------------------------------------
(* The sequence operators.                                                   *)

LEMMA RemoveAtFacts ==
  ASSUME NEW S, NEW s \in Seq(S), NEW i \in 1..Len(s)
  PROVE  /\ RemoveAt(s, i) \in Seq(S)
         /\ Len(RemoveAt(s, i)) = Len(s) - 1
         /\ \A j \in 1..Len(s) - 1 : RemoveAt(s, i)[j] = IF j < i THEN s[j] ELSE s[j + 1]
<1>1. Len(s) \in Nat /\ \A j \in 1..Len(s) : s[j] \in S
  OBVIOUS
<1>2. /\ SubSeq(s, 1, i - 1) \in Seq(S)
      /\ Len(SubSeq(s, 1, i - 1)) = i - 1
      /\ \A j \in 1..i - 1 : SubSeq(s, 1, i - 1)[j] = s[j]
  BY <1>1
<1>3. /\ SubSeq(s, i + 1, Len(s)) \in Seq(S)
      /\ Len(SubSeq(s, i + 1, Len(s))) = Len(s) - i
      /\ \A j \in 1..Len(s) - i : SubSeq(s, i + 1, Len(s))[j] = s[i + j]
  BY <1>1
<1> DEFINE a == SubSeq(s, 1, i - 1)
           b == SubSeq(s, i + 1, Len(s))
<1>4. RemoveAt(s, i) = a \o b
  BY DEF RemoveAt
<1> HIDE DEF a, b
<1>5. a \in Seq(S) /\ b \in Seq(S) /\ Len(a) = i - 1 /\ Len(b) = Len(s) - i
  BY <1>2, <1>3 DEF a, b
<1>6. ASSUME NEW j \in 1..Len(s) - 1
      PROVE  (a \o b)[j] = IF j < i THEN s[j] ELSE s[j + 1]
  <2>1. CASE j < i
    <3>1. (a \o b)[j] = a[j]
      BY <1>1, <1>5, <2>1
    <3> QED
      BY <1>1, <1>2, <2>1, <3>1 DEF a
  <2>2. CASE ~(j < i)
    <3>1. (a \o b)[j] = b[j - (i - 1)]
      BY <1>1, <1>5, <2>2
    <3>2. j - (i - 1) \in 1..Len(s) - i /\ i + (j - (i - 1)) = j + 1
      BY <1>1, <2>2
    <3> QED
      BY <1>3, <2>2, <3>1, <3>2 DEF b
  <2> QED
    BY <2>1, <2>2
<1>7. a \o b \in Seq(S) /\ Len(a \o b) = Len(s) - 1
  <2>1. a \o b \in Seq(S) /\ Len(a \o b) = Len(a) + Len(b)
    BY <1>5
  <2>2. (i - 1) + (Len(s) - i) = Len(s) - 1
    BY <1>1
  <2> QED
    BY <1>5, <2>1, <2>2
<1> QED
  BY <1>4, <1>6, <1>7

LEMMA PushFacts ==
  ASSUME NEW S, NEW s \in Seq(S), NEW e \in S
  PROVE  /\ << e >> \o s \in Seq(S)
         /\ Len(<< e >> \o s) = Len(s) + 1
         /\ \A j \in 1..Len(s) + 1 : (<< e >> \o s)[j] = IF j = 1 THEN e ELSE s[j - 1]
<1>1. << e >> \in Seq(S) /\ Len(<< e >>) = 1 /\ << e >>[1] = e /\ Len(s) \in Nat
  OBVIOUS
<1> QED
  BY <1>1

LEMMA MapFacts ==
  ASSUME NEW S, NEW s \in Seq(S), NEW f, f \in [DOMAIN s -> S]
  PROVE  f \in Seq(S) /\ Len(f) = Len(s) /\ DOMAIN f = DOMAIN s
<1>1. DOMAIN s = 1..Len(s) /\ Len(s) \in Nat
  OBVIOUS
<1> QED
  BY <1>1

-----------------------------------------------------------------------------
(* What the operations do to the list.                                       *)

(* add_device stores the device with its new writer, in place of any entry   *)
(* of the same device.                                                       *)
Stored(w) ==
  IF SameDevice(w) = {}
  THEN /\ g_dev' = << [internal_id |-> w, shared |-> FALSE] >> \o g_dev
       /\ g_dev_num' = g_dev_num + 1
  ELSE /\ g_dev' = [i \in DOMAIN g_dev |->
                      IF i \in SameDevice(w) THEN Replaced(g_dev[i], w) ELSE g_dev[i]]
       /\ UNCHANGED g_dev_num

ListType == g_dev \in Seq(Entry) /\ g_dev_num \in Nat

LEMMA StoredList ==
  ASSUME ListType, ListSound, NEW w \in Writers, Stored(w)
  PROVE  /\ ListType' /\ ListSound'
         /\ Listed' = {x \in Listed : deviceID[x] # deviceID[w]} \cup {w}
<1>0. /\ DOMAIN g_dev = 1..Len(g_dev) /\ Len(g_dev) \in Nat
      /\ \A i \in DOMAIN g_dev : g_dev[i] \in Entry
  BY DEF ListType
<1>1. CASE SameDevice(w) = {}
  <2> DEFINE e == [internal_id |-> w, shared |-> FALSE]
  <2>1. e \in Entry /\ e.internal_id = w
    BY DEF Entry
  <2> HIDE DEF e
  <2>2. g_dev' = << e >> \o g_dev /\ g_dev_num' = g_dev_num + 1
    BY <1>1 DEF Stored, e
  <2>3. /\ g_dev' \in Seq(Entry) /\ Len(g_dev') = Len(g_dev) + 1
        /\ \A j \in 1..Len(g_dev) + 1 : g_dev'[j] = IF j = 1 THEN e ELSE g_dev[j - 1]
    BY <2>1, <2>2, PushFacts DEF ListType
  <2>4. DOMAIN g_dev' = 1..Len(g_dev) + 1
    BY <2>3
  <2>5. g_dev'[1] = e /\ 1 \in DOMAIN g_dev'
    BY <1>0, <2>3, <2>4
  <2>6. \A j \in DOMAIN g_dev' \ {1} : j - 1 \in DOMAIN g_dev /\ g_dev'[j] = g_dev[j - 1]
    BY <1>0, <2>3, <2>4
  <2>7. \A i \in DOMAIN g_dev : i + 1 \in DOMAIN g_dev' \ {1} /\ g_dev'[i + 1] = g_dev[i]
    BY <1>0, <2>3, <2>4
  <2>8. \A i \in DOMAIN g_dev : deviceID[g_dev[i].internal_id] # deviceID[w]
    BY <1>1 DEF SameDevice
  <2>9. ListType'
    BY <2>2, <2>3 DEF ListType
  <2>10. ListSound'
    <3>1. g_dev_num' = Len(g_dev')
      BY <2>2, <2>3 DEF ListSound
    <3>2. ASSUME NEW i \in DOMAIN g_dev', NEW j \in DOMAIN g_dev', SameId(g_dev'[i], g_dev'[j])
          PROVE  i = j
      <4>1. CASE i = 1 /\ j # 1
        BY <2>1, <2>5, <2>6, <2>8, <3>2, <4>1 DEF SameId
      <4>2. CASE i # 1 /\ j = 1
        BY <2>1, <2>5, <2>6, <2>8, <3>2, <4>2 DEF SameId
      <4>3. CASE i # 1 /\ j # 1
        <5>1. i - 1 = j - 1
          BY <2>6, <3>2, <4>3 DEF ListSound
        <5>2. i \in Int /\ j \in Int
          BY <2>4
        <5> QED
          BY <5>1, <5>2
      <4> QED
        BY <4>1, <4>2, <4>3
    <3> QED
      BY <3>1, <3>2 DEF ListSound
  <2>11. Listed' = Listed \cup {w}
    BY <2>1, <2>5, <2>6, <2>7 DEF Listed
  <2>12. \A x \in Listed : deviceID[x] # deviceID[w]
    BY <2>8 DEF Listed
  <2> QED
    BY <2>9, <2>10, <2>11, <2>12
<1>2. CASE SameDevice(w) # {}
  <2>1. /\ g_dev' = [i \in DOMAIN g_dev |->
                       IF i \in SameDevice(w) THEN Replaced(g_dev[i], w) ELSE g_dev[i]]
        /\ g_dev_num' = g_dev_num
    BY <1>2 DEF Stored
  <2>2. \A e \in Entry : Replaced(e, w) \in Entry /\ Replaced(e, w).internal_id = w
    BY DEF Entry, Replaced
  <2>3. g_dev' \in [DOMAIN g_dev -> Entry]
    BY <1>0, <2>1, <2>2
  <2>4. g_dev' \in Seq(Entry) /\ Len(g_dev') = Len(g_dev) /\ DOMAIN g_dev' = DOMAIN g_dev
    BY <2>3, MapFacts DEF ListType
  <2>5. \A i \in DOMAIN g_dev :
          g_dev'[i].internal_id = IF i \in SameDevice(w) THEN w ELSE g_dev[i].internal_id
    BY <1>0, <2>1, <2>2
  <2>6. \A i \in DOMAIN g_dev : i \in SameDevice(w) <=> deviceID[g_dev[i].internal_id] = deviceID[w]
    BY DEF SameDevice
  <2>7. \A i \in DOMAIN g_dev : deviceID[g_dev'[i].internal_id] = deviceID[g_dev[i].internal_id]
    BY <2>5, <2>6
  <2>8. ListType'
    BY <2>1, <2>4 DEF ListType
  <2>9. ListSound'
    BY <2>1, <2>4, <2>7 DEF ListSound, SameId
  <2>10. PICK k \in DOMAIN g_dev : k \in SameDevice(w)
    BY <1>2 DEF SameDevice
  <2>11. ASSUME NEW x
         PROVE  x \in Listed' <=> x \in {y \in Listed : deviceID[y] # deviceID[w]} \cup {w}
    <3>1. x \in Listed' <=> \E i \in DOMAIN g_dev : x = g_dev'[i].internal_id
      BY <2>4 DEF Listed
    <3>2. x \in Listed <=> \E i \in DOMAIN g_dev : x = g_dev[i].internal_id
      BY DEF Listed
    <3> QED
      BY <2>5, <2>6, <2>10, <3>1, <3>2
  <2> QED
    BY <2>8, <2>9, <2>11
<1> QED
  BY <1>1, <1>2

(* del_device removes the entry of the writer, of which there is at most one.*)
Removed(w) ==
  IF Match(w) = {}
  THEN UNCHANGED <<g_dev, g_dev_num>>
  ELSE LET i == CHOOSE j \in Match(w) : \A k \in Match(w) : j <= k IN
       g_dev' = RemoveAt(g_dev, i) /\ g_dev_num' = g_dev_num - 1

LEMMA MatchFirst ==
  ASSUME ListType, ListSound, NEW w, Match(w) # {}
  PROVE  /\ (CHOOSE j \in Match(w) : \A k \in Match(w) : j <= k) \in Match(w)
         /\ \A j, k \in Match(w) : j = k
<1>1. Match(w) \subseteq Int
  BY DEF Match, ListType
<1>2. \A j, k \in Match(w) : j = k
  BY DEF Match, ListSound, SameId
<1>3. \E j \in Match(w) : \A k \in Match(w) : j <= k
  BY <1>1, <1>2
<1> QED
  BY <1>2, <1>3

LEMMA RemovedList ==
  ASSUME ListType, ListSound, NEW w, Removed(w)
  PROVE  ListType' /\ ListSound' /\ Listed' = Listed \ {w}
<1>0. /\ DOMAIN g_dev = 1..Len(g_dev) /\ Len(g_dev) \in Nat
      /\ \A i \in DOMAIN g_dev : g_dev[i] \in Entry
  BY DEF ListType
<1>1. CASE Match(w) = {}
  <2>1. g_dev' = g_dev /\ g_dev_num' = g_dev_num
    BY <1>1 DEF Removed
  <2>2. w \notin Listed
    BY <1>1 DEF Match, Listed
  <2> QED
    BY <2>1, <2>2 DEF ListType, ListSound, SameId, Listed
<1>2. CASE Match(w) # {}
  <2> DEFINE i == CHOOSE j \in Match(w) : \A k \in Match(w) : j <= k
  <2>1. i \in Match(w) /\ \A k \in Match(w) : k = i
    BY <1>2, MatchFirst
  <2>2. g_dev' = RemoveAt(g_dev, i) /\ g_dev_num' = g_dev_num - 1
    BY <1>2 DEF Removed
  <2> HIDE DEF i
  <2>3. i \in 1..Len(g_dev) /\ g_dev[i].internal_id = w
    BY <1>0, <2>1 DEF Match
  <2>4. /\ g_dev' \in Seq(Entry) /\ Len(g_dev') = Len(g_dev) - 1
        /\ \A j \in 1..Len(g_dev) - 1 : g_dev'[j] = IF j < i THEN g_dev[j] ELSE g_dev[j + 1]
    BY <2>2, <2>3, RemoveAtFacts DEF ListType
  <2>5. DOMAIN g_dev' = 1..Len(g_dev) - 1
    BY <2>4
  <2> DEFINE from(j) == IF j < i THEN j ELSE j + 1
  <2>6. \A j \in DOMAIN g_dev' : from(j) \in DOMAIN g_dev \ {i} /\ g_dev'[j] = g_dev[from(j)]
    BY <1>0, <2>3, <2>4, <2>5
  <2>7. \A j, k \in DOMAIN g_dev' : from(j) = from(k) => j = k
    BY <2>3, <2>5
  <2>8. \A k \in DOMAIN g_dev \ {i} : \E j \in DOMAIN g_dev' : from(j) = k
    <3> SUFFICES ASSUME NEW k \in DOMAIN g_dev \ {i}
                 PROVE  \E j \in DOMAIN g_dev' : from(j) = k
      OBVIOUS
    <3>1. CASE k < i
      BY <1>0, <2>3, <2>5, <3>1
    <3>2. CASE ~(k < i)
      <4>1. k - 1 \in DOMAIN g_dev' /\ from(k - 1) = k
        BY <1>0, <2>3, <2>5, <3>2
      <4> QED
        BY <4>1
    <3> QED
      BY <3>1, <3>2
  <2> HIDE DEF from
  <2>9. ListType'
    <3>1. g_dev_num = Len(g_dev) /\ Len(g_dev) - 1 \in Nat
      BY <1>0, <2>3 DEF ListSound
    <3> QED
      BY <2>2, <2>4, <3>1 DEF ListType
  <2>10. ListSound'
    BY <2>2, <2>4, <2>6, <2>7 DEF ListSound, SameId
  <2>11. \A k \in DOMAIN g_dev \ {i} : g_dev[k].internal_id # w
    BY <2>1 DEF Match
  <2>12. ASSUME NEW x
         PROVE  x \in Listed' <=> x \in Listed \ {w}
    <3>1. x \in Listed' <=> \E j \in DOMAIN g_dev' : x = g_dev'[j].internal_id
      BY DEF Listed
    <3>2. x \in Listed <=> \E k \in DOMAIN g_dev : x = g_dev[k].internal_id
      BY DEF Listed
    <3> QED
      BY <2>3, <2>6, <2>8, <2>11, <3>1, <3>2
  <2> QED
    BY <2>9, <2>10, <2>12
<1> QED
  BY <1>1, <1>2

(* The copy and its release mark the entries; nothing else changes.          *)
LEMMA MarkedList ==
  ASSUME ListType, ListSound, NEW b \in BOOLEAN, g_dev_num' = g_dev_num,
         g_dev' = [i \in DOMAIN g_dev |-> [g_dev[i] EXCEPT !.shared = b]]
  PROVE  ListType' /\ ListSound' /\ Listed' = Listed
<1>0. \A i \in DOMAIN g_dev : g_dev[i] \in Entry
  BY DEF ListType
<1>1. \A e \in Entry : /\ [e EXCEPT !.shared = b] \in Entry
                       /\ [e EXCEPT !.shared = b].internal_id = e.internal_id
  BY DEF Entry
<1>2. g_dev' \in [DOMAIN g_dev -> Entry]
  BY <1>0, <1>1
<1>3. g_dev' \in Seq(Entry) /\ Len(g_dev') = Len(g_dev) /\ DOMAIN g_dev' = DOMAIN g_dev
  BY <1>2, MapFacts DEF ListType
<1>4. \A i \in DOMAIN g_dev : g_dev'[i].internal_id = g_dev[i].internal_id
  BY <1>0, <1>1
<1>5. ListType'
  BY <1>3 DEF ListType
<1>6. ListSound'
  <2>1. g_dev_num' = Len(g_dev')
    BY <1>3 DEF ListSound
  <2>2. \A i, j \in DOMAIN g_dev' : SameId(g_dev'[i], g_dev'[j]) => SameId(g_dev[i], g_dev[j])
    BY <1>3, <1>4 DEF SameId
  <2>3. \A i, j \in DOMAIN g_dev' : SameId(g_dev'[i], g_dev'[j]) => i = j
    BY <1>3, <2>2 DEF ListSound
  <2> QED
    BY <2>1, <2>3 DEF ListSound
<1>7. Listed' = {g_dev[i].internal_id : i \in DOMAIN g_dev}
  BY <1>3, <1>4 DEF Listed
<1> QED
  BY <1>5, <1>6, <1>7 DEF Listed

LEMMA EmptyList ==
  ASSUME g_dev = << >>, g_dev_num = 0
  PROVE  ListType /\ ListSound /\ Listed = {}
BY DEF ListType, ListSound, Listed

-----------------------------------------------------------------------------
(* Type correctness and soundness of the list.                               *)

(* An action that leaves the list alone.                                     *)
LEMMA SameList ==
  ASSUME UNCHANGED <<g_dev, g_dev_num>>
  PROVE  /\ ListType' <=> ListType
         /\ ListSound' <=> ListSound
         /\ Listed' = Listed
BY DEF ListType, ListSound, SameId, Listed

LEMMA TypeParts ==
  TypeOK <=> /\ ListType
             /\ dangling \in BOOLEAN /\ server \in {"up", "joining"}
             /\ cache \in SUBSET Writers /\ hand \in [Takers -> SUBSET Writers]
             /\ pending \in SUBSET Writers
             /\ writer \in [Writers -> {"new", "none", "alive", "silent"}]
             /\ current \in SUBSET Writers /\ announced \in SUBSET Writers
             /\ flapped \in SUBSET Writers /\ late \in SUBSET Writers
BY DEF TypeOK, ListType, Entry

SoundInv == TypeOK /\ ListSound

(* What each operation on the list does to it, seen as a set of writers.     *)
LEMMA ListSteps ==
  ASSUME SoundInv
  PROVE  /\ \A t \in Takers : Add(t) =>
              /\ ListType' /\ ListSound'
              /\ \E w \in hand[t] : Listed' = {x \in Listed : deviceID[x] # deviceID[w]} \cup {w}
         /\ \A w \in Writers : Delete(w) => ListType' /\ ListSound' /\ Listed' = Listed \ {w}
         /\ CreateList \/ FreeList => ListType' /\ ListSound' /\ Listed' = Listed
         /\ Reinit \/ Reinitialised => ListType' /\ ListSound' /\ Listed' = {}
<1>0. ListType /\ ListSound /\ hand \in [Takers -> SUBSET Writers]
  BY TypeParts DEF SoundInv
<1>1. ASSUME NEW t \in Takers, Add(t)
      PROVE  /\ ListType' /\ ListSound'
             /\ \E w \in hand[t] : Listed' = {x \in Listed : deviceID[x] # deviceID[w]} \cup {w}
  <2>1. PICK w \in hand[t] : Stored(w)
    BY <1>1 DEF Add, Stored
  <2>2. w \in Writers
    BY <1>0
  <2> QED
    BY <1>0, <2>1, <2>2, StoredList
<1>2. ASSUME NEW w \in Writers, Delete(w)
      PROVE  ListType' /\ ListSound' /\ Listed' = Listed \ {w}
  <2>1. Removed(w)
    BY <1>2 DEF Delete, Removed
  <2> QED
    BY <1>0, <2>1, RemovedList
<1>3. CreateList \/ FreeList => ListType' /\ ListSound' /\ Listed' = Listed
  BY <1>0, MarkedList DEF CreateList, FreeList
<1>4. Reinit \/ Reinitialised => ListType' /\ ListSound' /\ Listed' = {}
  <2> SUFFICES ASSUME Reinit \/ Reinitialised PROVE ListType' /\ ListSound' /\ Listed' = {}
    OBVIOUS
  <2>1. g_dev' = << >> /\ g_dev_num' = 0
    BY DEF Reinit, Reinitialised
  <2> QED
    BY <2>1 DEF ListType, ListSound, Listed
<1> QED
  BY <1>1, <1>2, <1>3, <1>4

LEMMA SoundInit == Init => SoundInv
<1> SUFFICES ASSUME Init PROVE SoundInv
  OBVIOUS
<1>1. ListType /\ ListSound
  BY EmptyList DEF Init
<1>2. TypeOK
  BY <1>1, TypeParts DEF Init
<1> QED
  BY <1>1, <1>2 DEF SoundInv

LEMMA SoundStep == SoundInv /\ [Next]_vars => SoundInv'
<1> SUFFICES ASSUME SoundInv, [Next]_vars PROVE SoundInv'
  OBVIOUS
<1> DEFINE Rest == /\ dangling \in BOOLEAN /\ server \in {"up", "joining"}
                   /\ cache \in SUBSET Writers /\ hand \in [Takers -> SUBSET Writers]
                   /\ pending \in SUBSET Writers
                   /\ writer \in [Writers -> {"new", "none", "alive", "silent"}]
                   /\ current \in SUBSET Writers /\ announced \in SUBSET Writers
                   /\ flapped \in SUBSET Writers /\ late \in SUBSET Writers
<1>0. ListType /\ ListSound /\ Rest
  BY TypeParts DEF SoundInv
<1>a. ListType' /\ Rest' => TypeOK'
  BY DEF TypeOK, ListType, Entry
<1>b. SUFFICES ListType' /\ ListSound' /\ Rest'
  BY <1>a DEF SoundInv
<1>1. ASSUME NEW t \in Takers, Add(t) PROVE ListType' /\ ListSound' /\ Rest'
  BY <1>0, <1>1, ListSteps DEF Add, dds
<1>2. ASSUME NEW t \in Takers, NEW w \in Writers, Take(t, w)
      PROVE  ListType' /\ ListSound' /\ Rest'
  BY <1>0, <1>2, SameList DEF Take, list
<1>3. ASSUME CreateList \/ FreeList PROVE ListType' /\ ListSound' /\ Rest'
  BY <1>0, <1>3, ListSteps DEF CreateList, FreeList, dds
<1>4. CASE Reinit
  BY <1>0, <1>4, ListSteps DEF Reinit, Shared
<1>5. CASE Reinitialised
  BY <1>0, <1>5, ListSteps DEF Reinitialised, dds
<1>6. ASSUME NEW w \in Writers, Delete(w) PROVE ListType' /\ ListSound' /\ Rest'
  <2>1. dangling' \in BOOLEAN
    <3>1. CASE Match(w) = {}
      BY <1>0, <1>6, <3>1 DEF Delete
    <3>2. CASE Match(w) # {}
      <4> DEFINE i == CHOOSE j \in Match(w) : \A k \in Match(w) : j <= k
      <4>1. i \in DOMAIN g_dev
        BY <1>0, <3>2, MatchFirst DEF Match
      <4>2. g_dev[i].shared \in BOOLEAN
        <5>1. \A j \in DOMAIN g_dev : g_dev[j] \in Entry
          BY <1>0 DEF ListType
        <5> HIDE DEF i
        <5> QED
          BY <4>1, <5>1 DEF Entry
      <4>3. dangling' = (dangling \/ g_dev[i].shared)
        BY <1>6, <3>2 DEF Delete
      <4> HIDE DEF i
      <4> QED
        BY <1>0, <4>2, <4>3
    <3> QED
      BY <3>1, <3>2
  <2> QED
    BY <1>0, <1>6, <2>1, ListSteps DEF Delete
<1>7. ASSUME NEW w \in Writers,
             \/ AgentStart(w) \/ Announce(w) \/ AgentStop(w) \/ AgentCrash(w)
             \/ Silence(w) \/ Regain(w) \/ Expire(w)
      PROVE  ListType' /\ ListSound' /\ Rest'
  <2>1. UNCHANGED list
    BY <1>7 DEF AgentStart, Announce, AgentStop, AgentCrash, Silence, Regain, Expire
  <2>2. ListType' /\ ListSound'
    BY <1>0, <2>1, SameList DEF list
  <2>3. Rest'
    BY <1>0, <1>7, <2>1
    DEF list, AgentStart, Announce, AgentStop, AgentCrash, Silence, Regain, Expire, Ends
  <2> QED
    BY <2>2, <2>3
<1>8. CASE UNCHANGED vars
  BY <1>0, <1>8, SameList DEF vars, list, dds
<1> QED
  BY <1>1, <1>2, <1>3, <1>4, <1>5, <1>6, <1>7, <1>8 DEF Next

(* Every variable keeps its type: with any number of threads that take.      *)
THEOREM TypeCorrect == Spec => []TypeOK
<1>1. Init => SoundInv
  BY SoundInit
<1>2. SoundInv /\ [Next]_vars => SoundInv'
  BY SoundStep
<1>3. SoundInv => TypeOK
  BY DEF SoundInv
<1> QED
  BY <1>1, <1>2, <1>3, PTL DEF Spec

(* g_dev_num is the length of the list, and a device occurs in it once,      *)
(* however often it announces itself, with whichever of its writers, and     *)
(* however the threads' additions, the listeners' deletions and the reinit   *)
(* follow each other.                                                        *)
THEOREM ListIsSound == Spec => []ListSound
<1>1. Init => SoundInv
  BY SoundInit
<1>2. SoundInv /\ [Next]_vars => SoundInv'
  BY SoundStep
<1>3. SoundInv => ListSound
  BY DEF SoundInv
<1> QED
  BY <1>1, <1>2, <1>3, PTL DEF Spec

-----------------------------------------------------------------------------
(* Lost devices.                                                             *)

LEMMA LostInit == Init => LostIsReported
<1>1. Init => Listed = {}
  BY EmptyList DEF Init
<1> QED
  BY <1>1 DEF LostIsReported

LEMMA LostStep == SoundInv /\ LostIsReported /\ [Next]_vars => LostIsReported'
<1> SUFFICES ASSUME SoundInv, LostIsReported, [Next]_vars PROVE LostIsReported'
  OBVIOUS
<1>0. /\ hand \in [Takers -> SUBSET Writers]
      /\ writer \in [Writers -> {"new", "none", "alive", "silent"}]
      /\ ListType
  BY TypeParts DEF SoundInv
<1>a. Listed \subseteq Writers
  <2>1. \A i \in DOMAIN g_dev : g_dev[i] \in Entry
    BY <1>0 DEF ListType
  <2> QED
    BY <2>1 DEF Listed, Entry
<1> SUFFICES ASSUME NEW x \in Listed', writer'[x] = "none", x \notin pending'
             PROVE  x \in late'
  BY DEF LostIsReported
<1>1. ASSUME NEW t \in Takers, Add(t) PROVE x \in late'
  <2>1. PICK w \in hand[t] : /\ Listed' = {y \in Listed : deviceID[y] # deviceID[w]} \cup {w}
                             /\ ListType' /\ ListSound'
    BY <1>1, ListSteps
  <2>2. PICK v \in hand[t] :
          /\ Stored(v)
          /\ late' = IF writer[v] = "none" /\ v \notin pending THEN late \cup {v} ELSE late
    BY <1>1 DEF Add, Stored
  <2>3. Listed' = {y \in Listed : deviceID[y] # deviceID[v]} \cup {v}
    BY <1>0, <2>2, StoredList, TypeParts DEF SoundInv
  <2>4. writer' = writer /\ pending' = pending
    BY <1>1 DEF Add, dds
  <2>5. CASE x = v
    BY <2>2, <2>4, <2>5
  <2>6. CASE x # v
    BY <2>2, <2>3, <2>4, <2>6 DEF LostIsReported
  <2> QED
    BY <2>5, <2>6
<1>2. ASSUME NEW t \in Takers, NEW w \in Writers, Take(t, w) PROVE x \in late'
  BY <1>2, SameList DEF Take, list, LostIsReported
<1>3. ASSUME CreateList \/ FreeList PROVE x \in late'
  BY <1>3, ListSteps DEF CreateList, FreeList, dds, LostIsReported
<1>4. ASSUME Reinit \/ Reinitialised PROVE x \in late'
  BY <1>4, ListSteps
<1>5. ASSUME NEW w \in Writers, Delete(w) PROVE x \in late'
  BY <1>5, ListSteps DEF Delete, LostIsReported
<1>6. ASSUME NEW w \in Writers,
             \/ AgentStart(w) \/ Announce(w) \/ AgentStop(w) \/ AgentCrash(w)
             \/ Silence(w) \/ Regain(w) \/ Expire(w)
      PROVE  x \in late'
  <2>1. UNCHANGED list /\ late' = late
    BY <1>6 DEF AgentStart, Announce, AgentStop, AgentCrash, Silence, Regain, Expire
  <2>2. x \in Listed
    BY <2>1, SameList DEF list
  <2>3. writer[x] = "none" /\ x \notin pending
    BY <1>0, <1>a, <1>6, <2>2
    DEF AgentStart, Announce, AgentStop, AgentCrash, Silence, Regain, Expire
  <2> QED
    BY <2>1, <2>2, <2>3 DEF LostIsReported
<1>7. CASE UNCHANGED vars
  BY <1>7, SameList DEF vars, list, dds, LostIsReported
<1> QED
  BY <1>1, <1>2, <1>3, <1>4, <1>5, <1>6, <1>7 DEF Next

(* A listed device that is lost will be removed, unless it was added when    *)
(* its loss had been reported already: also with threads that overlap.       *)
THEOREM LossIsNotForgotten == Spec => []LostIsReported
<1>1. Init => SoundInv /\ LostIsReported
  BY SoundInit, LostInit
<1>2. (SoundInv /\ LostIsReported) /\ [Next]_vars => (SoundInv /\ LostIsReported)'
  BY SoundStep, LostStep
<1> QED
  BY <1>1, <1>2, PTL DEF Spec

-----------------------------------------------------------------------------
(* Running devices.                                                          *)

(* A device has one running agent, and DDS reports that agent's writer lost  *)
(* only after it once took it for lost.                                      *)
AgentInv ==
  /\ announced \subseteq current
  /\ \A x, y \in current : deviceID[x] = deviceID[y] => x = y
  /\ \A w \in current : writer[w] \in {"alive", "silent"}
  /\ \A w \in pending : writer[w] # "new"
  /\ \A w \in current : w \in pending \/ writer[w] = "silent" => w \in flapped

(* With one thread at a time between take and add: the reader holds no older *)
(* announcement of a device that has sent a newer one, and the thread holds  *)
(* one only while the newer is still in the reader.  A server that waits to  *)
(* join has no list and takes nothing.                                       *)
TakeInv ==
  /\ \A t, u \in Takers : \A x \in hand[t], y \in hand[u] : t = u /\ x = y
  /\ server = "joining" => InHand = {} /\ Listed = {}
  /\ \A x \in cache, w \in announced : deviceID[x] = deviceID[w] => x = w
  /\ \A x \in InHand, w \in announced : deviceID[x] = deviceID[w] => x = w \/ w \in cache

RunningInv == SoundInv /\ AgentInv /\ TakeInv /\ RunningIsListed

LEMMA RunningInit == Init => RunningInv
<1> SUFFICES ASSUME Init PROVE RunningInv
  OBVIOUS
<1>1. SoundInv
  BY SoundInit
<1>2. InHand = {} /\ Listed = {}
  BY EmptyList DEF Init, InHand
<1>3. AgentInv /\ RunningIsListed
  BY DEF Init, AgentInv, RunningIsListed
<1>4. TakeInv
  BY <1>2 DEF Init, TakeInv
<1> QED
  BY <1>1, <1>3, <1>4 DEF RunningInv

LEMMA AgentStep == SoundInv /\ AgentInv /\ [Next]_vars => AgentInv'
<1> SUFFICES ASSUME SoundInv, AgentInv, [Next]_vars PROVE AgentInv'
  OBVIOUS
<1>0. /\ writer \in [Writers -> {"new", "none", "alive", "silent"}]
      /\ current \subseteq Writers /\ announced \subseteq Writers /\ pending \subseteq Writers
  BY DEF SoundInv, TypeOK
<1>1. ASSUME NEW t \in Takers, Add(t) PROVE AgentInv'
  BY <1>1 DEF Add, dds, AgentInv
<1>2. ASSUME NEW t \in Takers, NEW w \in Writers, Take(t, w) PROVE AgentInv'
  BY <1>2 DEF Take, AgentInv
<1>3. ASSUME CreateList \/ FreeList \/ Reinitialised \/ UNCHANGED vars PROVE AgentInv'
  BY <1>3 DEF CreateList, FreeList, Reinitialised, vars, dds, AgentInv
<1>4. CASE Reinit
  BY <1>0, <1>4 DEF Reinit, AgentInv
<1>5. ASSUME NEW w \in Writers, Delete(w) PROVE AgentInv'
  BY <1>5 DEF Delete, AgentInv
<1>6. ASSUME NEW w \in Writers, AgentStart(w) PROVE AgentInv'
  BY <1>0, <1>6 DEF AgentStart, AgentInv
<1>7. ASSUME NEW w \in Writers, Announce(w) PROVE AgentInv'
  BY <1>0, <1>7 DEF Announce, AgentInv
<1>8. ASSUME NEW w \in Writers, AgentStop(w) PROVE AgentInv'
  BY <1>0, <1>8 DEF AgentStop, Ends, AgentInv
<1>9. ASSUME NEW w \in Writers, AgentCrash(w) PROVE AgentInv'
  BY <1>0, <1>9 DEF AgentCrash, Ends, AgentInv
<1>10. ASSUME NEW w \in Writers, Silence(w) PROVE AgentInv'
  BY <1>0, <1>10 DEF Silence, AgentInv
<1>11. ASSUME NEW w \in Writers, Regain(w) PROVE AgentInv'
  BY <1>0, <1>11 DEF Regain, AgentInv
<1>12. ASSUME NEW w \in Writers, Expire(w) PROVE AgentInv'
  BY <1>0, <1>12 DEF Expire, AgentInv
<1> QED
  BY <1>1, <1>2, <1>3, <1>4, <1>5, <1>6, <1>7, <1>8, <1>9, <1>10, <1>11, <1>12 DEF Next

LEMMA TakeStep ==
  ASSUME ~Overlap, SoundInv, AgentInv, TakeInv, [Next]_vars
  PROVE  TakeInv'
<1>0. /\ hand \in [Takers -> SUBSET Writers]
      /\ current \subseteq Writers /\ announced \subseteq Writers
      /\ announced \subseteq current
  BY DEF SoundInv, TypeOK, AgentInv
<1>1. \A t \in Takers : hand[t] \subseteq InHand
  BY DEF InHand
<1>2. ASSUME NEW t \in Takers, Add(t) PROVE TakeInv'
  <2>1. \A u \in Takers : hand'[u] \subseteq hand[u]
    BY <1>0, <1>2 DEF Add
  <2>2. InHand' \subseteq InHand
    BY <2>1 DEF InHand
  <2>3. server # "joining" /\ server' = server
    BY <1>1, <1>2 DEF Add, TakeInv
  <2> QED
    BY <1>2, <2>1, <2>2, <2>3 DEF Add, dds, TakeInv
<1>3. ASSUME NEW t \in Takers, NEW w \in Writers, Take(t, w) PROVE TakeInv'
  <2>1. InHand = {} /\ \A u \in Takers : hand[u] = {}
    BY <1>1, <1>3 DEF Take
  <2>2. \A u \in Takers : hand'[u] = IF u = t THEN {w} ELSE {}
    BY <1>0, <1>3, <2>1 DEF Take
  <2>3. InHand' = {w}
    BY <2>2 DEF InHand
  <2> QED
    BY <1>3, <2>2, <2>3 DEF Take, TakeInv
<1>4. ASSUME UNCHANGED hand PROVE InHand' = InHand
  BY <1>4 DEF InHand
<1>5. ASSUME CreateList \/ FreeList \/ Reinitialised \/ UNCHANGED vars PROVE TakeInv'
  <2>1. UNCHANGED <<hand, dds>> /\ (server' = server \/ server' # "joining")
    BY <1>5 DEF CreateList, FreeList, Reinitialised, vars
  <2>2. server' = "joining" => Listed' = Listed
    BY <1>5, ListSteps, SameList DEF CreateList, FreeList, Reinitialised, vars, list
  <2> QED
    BY <1>4, <1>5, <2>1, <2>2 DEF dds, TakeInv
<1>6. CASE Reinit
  <2>1. /\ UNCHANGED <<hand, announced, current>> /\ InHand = {} /\ cache' \subseteq current
        /\ Listed' = {}
    BY <1>6, ListSteps DEF Reinit
  <2> QED
    BY <1>0, <1>4, <2>1 DEF TakeInv, AgentInv
<1>7. ASSUME NEW w \in Writers, Announce(w) PROVE TakeInv'
  <2>1. /\ UNCHANGED <<hand, server, current>> /\ w \in current
        /\ announced' = announced \cup {w}
        /\ cache' = {x \in cache : deviceID[x] # deviceID[w]} \cup {w}
    BY <1>7 DEF Announce
  <2>2. InHand' = InHand
    BY <1>4, <2>1
  <2>3. \A x \in cache', v \in announced' : deviceID[x] = deviceID[v] => x = v
    BY <1>0, <2>1 DEF TakeInv, AgentInv
  <2>4. \A x \in InHand', v \in announced' : deviceID[x] = deviceID[v] => x = v \/ v \in cache'
    BY <1>0, <2>1, <2>2 DEF TakeInv, AgentInv
  <2>5. Listed' = Listed
    BY <1>7, SameList DEF Announce, list
  <2> QED
    BY <2>1, <2>2, <2>3, <2>4, <2>5 DEF TakeInv
<1>8. ASSUME NEW w \in Writers,
             \/ Delete(w) \/ AgentStart(w) \/ AgentStop(w) \/ AgentCrash(w)
             \/ Silence(w) \/ Regain(w) \/ Expire(w)
      PROVE  TakeInv'
  <2>1. UNCHANGED <<hand, server, cache>> /\ announced' \subseteq announced
    BY <1>8 DEF Delete, AgentStart, AgentStop, AgentCrash, Silence, Regain, Expire, Ends
  <2>2. InHand' = InHand
    BY <1>4, <2>1
  <2>3. Listed' \subseteq Listed
    <3>1. CASE Delete(w)
      BY <3>1, ListSteps
    <3>2. CASE UNCHANGED list
      BY <3>2, SameList DEF list
    <3> QED
      BY <1>8, <3>1, <3>2
      DEF AgentStart, AgentStop, AgentCrash, Silence, Regain, Expire
  <2> QED
    BY <2>1, <2>2, <2>3 DEF TakeInv
<1> QED
  BY <1>2, <1>3, <1>5, <1>6, <1>7, <1>8 DEF Next

LEMMA RunningStep ==
  ASSUME ~Overlap, RunningInv, [Next]_vars
  PROVE  RunningIsListed'
<1>0. /\ hand \in [Takers -> SUBSET Writers]
      /\ current \subseteq Writers /\ announced \subseteq current
      /\ SoundInv
  BY DEF RunningInv, SoundInv, TypeOK, AgentInv
<1> SUFFICES ASSUME NEW x \in current' \cap announced', x \notin flapped'
             PROVE  x \in Listed' \/ x \in cache' \/ x \in InHand'
  BY DEF RunningIsListed
<1> DEFINE Safe == x \in Listed' \/ x \in cache' \/ x \in InHand'
<1>1. x \in current \cap announced /\ x \notin flapped =>
        x \in Listed \/ x \in cache \/ x \in InHand
  BY DEF RunningInv, RunningIsListed
<1>2. ASSUME UNCHANGED hand PROVE InHand' = InHand
  BY <1>2 DEF InHand
<1>3. ASSUME NEW t \in Takers, Add(t) PROVE Safe
  <2>1. PICK w \in hand[t] : Listed' = {y \in Listed : deviceID[y] # deviceID[w]} \cup {w}
    BY <1>0, <1>3, ListSteps
  <2>2. UNCHANGED dds /\ hand' = [hand EXCEPT ![t] = {}]
    BY <1>3 DEF Add
  <2>3. \A y \in InHand : y = w /\ w \in InHand
    BY DEF InHand, RunningInv, TakeInv
  <2>4. w \in InHand
    BY DEF InHand
  <2>5. deviceID[w] = deviceID[x] => w = x \/ x \in cache
    BY <2>2, <2>4 DEF dds, RunningInv, TakeInv
  <2> QED
    BY <1>1, <2>1, <2>2, <2>3, <2>5 DEF dds
<1>4. ASSUME NEW t \in Takers, NEW w \in Writers, Take(t, w) PROVE Safe
  <2>1. UNCHANGED list /\ UNCHANGED <<current, announced, flapped>> /\ cache' = cache \ {w}
    BY <1>4 DEF Take
  <2>2. w \in hand'[t] /\ InHand = {}
    BY <1>0, <1>4 DEF Take
  <2>3. w \in InHand' /\ Listed' = Listed
    BY <2>1, <2>2, SameList DEF InHand, list
  <2> QED
    BY <1>1, <2>1, <2>2, <2>3
<1>5. ASSUME CreateList \/ FreeList PROVE Safe
  <2>1. Listed' = Listed /\ UNCHANGED dds /\ UNCHANGED hand
    BY <1>0, <1>5, ListSteps DEF CreateList, FreeList
  <2> QED
    BY <1>1, <1>2, <2>1 DEF dds
<1>6. CASE Reinit
  BY <1>6 DEF Reinit
<1>7. CASE Reinitialised
  <2>1. UNCHANGED <<hand, dds>> /\ Listed = {}
    BY <1>7 DEF Reinitialised, RunningInv, TakeInv
  <2> QED
    BY <1>1, <1>2, <2>1 DEF dds
<1>8. ASSUME NEW w \in Writers, Delete(w) PROVE Safe
  <2>1. UNCHANGED <<hand, cache, current, announced, flapped>> /\ w \in pending
    BY <1>8 DEF Delete
  <2>2. Listed' = Listed \ {w}
    BY <1>0, <1>8, ListSteps
  <2>3. w \in current => w \in flapped
    BY <2>1 DEF RunningInv, AgentInv
  <2> QED
    BY <1>1, <1>2, <2>1, <2>2, <2>3
<1>9. ASSUME NEW w \in Writers, Announce(w) PROVE Safe
  <2>1. /\ UNCHANGED <<list, hand, current, flapped>> /\ w \in current
        /\ announced' = announced \cup {w}
        /\ cache' = {y \in cache : deviceID[y] # deviceID[w]} \cup {w}
    BY <1>9 DEF Announce
  <2>2. Listed' = Listed /\ InHand' = InHand
    BY <1>2, <2>1, SameList DEF list
  <2>3. deviceID[x] = deviceID[w] => x = w
    BY <2>1 DEF RunningInv, AgentInv
  <2> QED
    BY <1>1, <2>1, <2>2, <2>3
<1>10. ASSUME NEW w \in Writers,
              \/ AgentStart(w) \/ AgentStop(w) \/ AgentCrash(w)
              \/ Silence(w) \/ Regain(w) \/ Expire(w)
       PROVE  Safe
  <2>1. UNCHANGED <<list, hand, cache>>
    BY <1>10 DEF AgentStart, AgentStop, AgentCrash, Silence, Regain, Expire
  <2>2. Listed' = Listed /\ InHand' = InHand
    BY <1>2, <2>1, SameList DEF list
  <2>3. x \in current \cap announced /\ x \notin flapped
    BY <1>0, <1>10 DEF AgentStart, AgentStop, AgentCrash, Silence, Regain, Expire, Ends
  <2> QED
    BY <1>1, <2>1, <2>2, <2>3
<1>11. CASE UNCHANGED vars
  <2>1. UNCHANGED <<list, hand, dds>>
    BY <1>11 DEF vars
  <2>2. Listed' = Listed /\ InHand' = InHand
    BY <1>2, <2>1, SameList DEF list
  <2> QED
    BY <1>1, <2>1, <2>2 DEF dds
<1> QED
  BY <1>3, <1>4, <1>5, <1>6, <1>7, <1>8, <1>9, <1>10, <1>11 DEF Next

(* While one thread at a time is between its take and its add, a running     *)
(* agent that announced itself is never dropped from the list: neither an    *)
(* earlier announcement of its device, nor a late report of that one's loss, *)
(* nor a reinit takes its place for longer than its own is under way.        *)
THEOREM RunningStaysListed ==
  ASSUME ~Overlap
  PROVE  Spec => []RunningIsListed
<1>1. Init => RunningInv
  BY RunningInit
<1>2. RunningInv /\ [Next]_vars => RunningInv'
  BY SoundStep, AgentStep, TakeStep, RunningStep DEF RunningInv
<1>3. RunningInv => RunningIsListed
  BY DEF RunningInv
<1> QED
  BY <1>1, <1>2, <1>3, PTL DEF Spec
=============================================================================
