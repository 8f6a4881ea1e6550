------------------------ MODULE BrokerHierarchyProofs ------------------------
(* Proofs about BrokerHierarchy, for any design, brokers, names and presets.  *)
(* UsedIsRegistered need not know where Route leads: a broker's maps are only *)
(* ever changed together, whichever broker a request ends at.  The others     *)
(* follow the walks up the brokers, by induction on the broker's number: a    *)
(* parent is always built before its children.                                *)
EXTENDS BrokerHierarchy, WellFoundedInduction, TLAPS

Slots == [Broker -> [Name -> Value \cup {NoValue}]]

\* UsedIsRegistered with the types it needs.
UInv ==
  /\ registry \in [Broker -> SUBSET Name]
  /\ unused \in Slots
  /\ used \in Slots
  /\ UsedIsRegistered

LEMMA WriteSlot ==
  ASSUME NEW f \in Slots, NEW h, NEW n \in Name, NEW v,
         h \in Broker => v \in Value \cup {NoValue}
  PROVE  [f EXCEPT ![h][n] = v] \in Slots
<1>1. CASE h \in Broker
  <2>1. [f[h] EXCEPT ![n] = v] \in [Name -> Value \cup {NoValue}]
    BY <1>1 DEF Slots
  <2> QED  BY <2>1, <1>1 DEF Slots
<1>2. CASE h \notin Broker
  BY <1>2 DEF Slots
<1> QED  BY <1>1, <1>2

LEMMA ReadSlot ==
  ASSUME NEW f \in Slots, NEW h \in Broker, NEW n \in Name
  PROVE  f[h][n] \in Value \cup {NoValue}
BY DEF Slots

\* A preset goes to one slot of one broker, according to whether it is in use.
LEMMA SetPresetKeeps ==
  ASSUME UInv, NEW b \in Broker, NEW n \in Name, NEW v \in Value,
         NEW o \in Originator, SetPreset(b, n, v, o)
  PROVE  UInv'
<1> DEFINE h == Route(b, n)
<1>1. /\ registry' = registry
      /\ \/ used[h][n] # NoValue /\ used' = [used EXCEPT ![h][n] = v]
              /\ unused' = unused
         \/ used[h][n] = NoValue /\ unused' = [unused EXCEPT ![h][n] = v]
              /\ used' = used
  BY DEF SetPreset
<1> HIDE DEF h
<1>2. unused' \in Slots /\ used' \in Slots
  <2>1. [used EXCEPT ![h][n] = v] \in Slots /\ [unused EXCEPT ![h][n] = v] \in Slots
    BY WriteSlot DEF UInv
  <2> QED  BY <1>1, <2>1 DEF UInv
<1>3. ASSUME NEW c \in Broker, NEW m \in Name, used'[c][m] # NoValue
      PROVE  m \in registry'[c] /\ unused'[c][m] = NoValue
  <2>1. CASE c = h /\ m = n
    BY <1>1, <1>3, <2>1 DEF UInv, Slots, UsedIsRegistered
  <2>2. CASE ~(c = h /\ m = n)
    <3>1. used'[c][m] = used[c][m] /\ unused'[c][m] = unused[c][m]
      BY <1>1, <2>2 DEF UInv, Slots
    <3> QED  BY <3>1, <1>1, <1>3 DEF UInv, UsedIsRegistered
  <2> QED  BY <2>1, <2>2
<1> QED  BY <1>1, <1>2, <1>3 DEF UInv, UsedIsRegistered

\* The parameter enters the registry in the step that takes its preset.
LEMMA AddParamKeeps ==
  ASSUME UInv, NEW b \in Broker, NEW n \in Name, AddParam(b, n)
  PROVE  UInv'
<1> DEFINE h == Route(b, n)
<1>1. /\ registry' = [registry EXCEPT ![h] = @ \cup {n}]
      /\ \/ /\ unused[h][n] # NoValue
            /\ used' = [used EXCEPT ![h][n] = unused[h][n]]
            /\ unused' = [unused EXCEPT ![h][n] = NoValue]
         \/ used' = used /\ unused' = unused
  BY DEF AddParam
<1> HIDE DEF h
<1>2. registry' \in [Broker -> SUBSET Name] /\ unused' \in Slots /\ used' \in Slots
  <2>1. /\ h \in Broker => used[h][n] \in Value \cup {NoValue}
        /\ h \in Broker => unused[h][n] \in Value \cup {NoValue}
    BY ReadSlot DEF UInv
  <2>2. /\ [used EXCEPT ![h][n] = unused[h][n]] \in Slots
        /\ [unused EXCEPT ![h][n] = used[h][n]] \in Slots
    BY WriteSlot, <2>1 DEF UInv
  <2>3. /\ [used EXCEPT ![h][n] = NoValue] \in Slots
        /\ [unused EXCEPT ![h][n] = NoValue] \in Slots
    BY WriteSlot DEF UInv
  <2>4. registry' \in [Broker -> SUBSET Name]
    BY <1>1 DEF UInv
  <2> QED  BY <1>1, <2>2, <2>3, <2>4 DEF UInv
<1>3. ASSUME NEW c \in Broker, NEW m \in Name, used'[c][m] # NoValue
      PROVE  m \in registry'[c] /\ unused'[c][m] = NoValue
  <2>1. registry[c] \subseteq registry'[c]
    BY <1>1 DEF UInv
  <2>2. CASE c = h /\ m = n
    BY <1>1, <1>3, <2>2 DEF UInv, Slots, UsedIsRegistered
  <2>3. CASE ~(c = h /\ m = n)
    <3>1. used'[c][m] = used[c][m] /\ unused'[c][m] = unused[c][m]
      BY <1>1, <2>3 DEF UInv, Slots
    <3> QED  BY <3>1, <2>1, <1>3 DEF UInv, UsedIsRegistered
  <2> QED  BY <2>2, <2>3
<1> QED  BY <1>2, <1>3 DEF UInv, UsedIsRegistered

\* It leaves the registry in the step that gives its preset back.
LEMMA LeaveKeeps ==
  ASSUME UInv, NEW n \in Name, NEW h, Leave(n, h)
  PROVE  UInv'
<1>1. /\ registry' = [registry EXCEPT ![h] = @ \ {n}]
      /\ \/ /\ used[h][n] # NoValue
            /\ unused' = [unused EXCEPT ![h][n] = used[h][n]]
            /\ used' = [used EXCEPT ![h][n] = NoValue]
         \/ used[h][n] = NoValue /\ used' = used /\ unused' = unused
  BY DEF Leave
<1>2. registry' \in [Broker -> SUBSET Name] /\ unused' \in Slots /\ used' \in Slots
  <2>1. /\ h \in Broker => used[h][n] \in Value \cup {NoValue}
        /\ h \in Broker => unused[h][n] \in Value \cup {NoValue}
    BY ReadSlot DEF UInv
  <2>2. /\ [used EXCEPT ![h][n] = unused[h][n]] \in Slots
        /\ [unused EXCEPT ![h][n] = used[h][n]] \in Slots
    BY WriteSlot, <2>1 DEF UInv
  <2>3. /\ [used EXCEPT ![h][n] = NoValue] \in Slots
        /\ [unused EXCEPT ![h][n] = NoValue] \in Slots
    BY WriteSlot DEF UInv
  <2>4. registry' \in [Broker -> SUBSET Name]
    BY <1>1 DEF UInv
  <2> QED  BY <1>1, <2>2, <2>3, <2>4 DEF UInv
<1>3. ASSUME NEW c \in Broker, NEW m \in Name, used'[c][m] # NoValue
      PROVE  m \in registry'[c] /\ unused'[c][m] = NoValue
  <2>1. ~(c = h /\ m = n)
    BY <1>1, <1>3 DEF UInv, Slots
  <2>2. used'[c][m] = used[c][m] /\ unused'[c][m] = unused[c][m]
    BY <1>1, <2>1 DEF UInv, Slots
  <2>3. m \in registry[c] => m \in registry'[c]
    BY <1>1, <2>1 DEF UInv
  <2> QED  BY <2>2, <2>3, <1>3 DEF UInv, UsedIsRegistered
<1> QED  BY <1>2, <1>3 DEF UInv, UsedIsRegistered

\* Every other action leaves the maps alone.
LEMMA QuietKeeps ==
  ASSUME UInv, UNCHANGED <<registry, unused, used>>
  PROVE  UInv'
BY DEF UInv, UsedIsRegistered

LEMMA UInvInit == Init => UInv
BY DEF Init, UInv, Slots, UsedIsRegistered

LEMMA UInvStep == UInv /\ [Next]_vars => UInv'
<1> SUFFICES ASSUME UInv, [Next]_vars PROVE UInv'
  OBVIOUS
<1>1. ASSUME NEW m \in Place, NEW names \in Exposable,
             PrivateBroker(m, names) \/ RegisterBroker(m, names)
      PROVE  UInv'
  BY <1>1, QuietKeeps DEF PrivateBroker, RegisterBroker, Build
<1>2. ASSUME NEW b \in Broker, NEW n \in Name, LockPreset(b, n)
      PROVE  UInv'
  BY <1>2, QuietKeeps DEF LockPreset
<1>3. ASSUME NEW n \in Name, RemoveParam(n)
      PROVE  UInv'
  BY <1>3, LeaveKeeps DEF RemoveParam
<1>4. ASSUME NEW n \in Name, Reset(n) \/ \E o \in Originator : Write(n, o)
      PROVE  UInv'
  BY <1>4, QuietKeeps DEF Reset, Write, stores
<1>5. CASE UNCHANGED vars
  BY <1>5, QuietKeeps DEF vars
<1> QED
  BY <1>1, <1>2, <1>3, <1>4, <1>5, SetPresetKeeps, AddParamKeeps
  DEF Next, BrokerCalls, ParamCalls

(* A preset is in use only in the broker that holds its parameter, and is     *)
(* never in both value registries (broker.cpp, consuming_broker.cpp).         *)
THEOREM PresetsAreUsedWhereRegistered == Spec => []UsedIsRegistered
<1>1. UInv => UsedIsRegistered
  BY DEF UInv
<1> QED
  BY <1>1, UInvInit, UInvStep, PTL DEF Spec

-----------------------------------------------------------------------------
(* Walking up the brokers.  A broker is built after its parent, so walks end, *)
(* and what a walk returns is shown by induction over the brokers' numbers:   *)
(* there is no least broker a claim fails for.                                *)

Inductive(N, G) == \A k \in 0..N : (\A j \in 0..N : j < k => j \in G) => k \in G

LEMMA BrokerInduction ==
  ASSUME NEW N \in Nat, NEW G, Inductive(N, G)
  PROVE  \A k \in 0..N : k \in G
<1> DEFINE Bad == {k \in 0..N : k \notin G}
<1> SUFFICES ASSUME Bad # {} PROVE FALSE
  OBVIOUS
<1>1. Bad \in SUBSET Nat
  OBVIOUS
<1> HIDE DEF Bad
<1>2. PICK i \in Bad : \A y \in Bad : ~(<<y, i>> \in OpToRel(<, Nat))
  BY <1>1, NatLessThanWellFounded, WFMin
<1>3. \A y \in Bad : y \in Nat /\ ~(y < i)
  BY <1>1, <1>2 DEF OpToRel
<1> QED BY <1>2, <1>3 DEF Bad, Inductive

Climbs(up, N) == N \in Nat /\ \A c \in 1..N : up[c] \in 0..c - 1

\* A walk that stops at the first broker of S.
LEMMA WalkExists ==
  ASSUME NEW N, NEW up, Climbs(up, N), NEW S, 0 \in S
  PROVE  \E f : f = [c \in 0..N |-> IF c \in S THEN c ELSE f[up[c]]]
<1> DEFINE Walk(f, k) == f = [c \in 0..k |-> IF c \in S THEN c ELSE f[up[c]]]
           G == {k \in 0..N : \E f : Walk(f, k)}
<1>0. N \in Nat /\ \A c \in 1..N : up[c] \in 0..c - 1
  BY DEF Climbs
<1>1. ASSUME NEW k \in 0..N, \A j \in 0..N : j < k => j \in G
      PROVE  k \in G
  <2>1. CASE k = 0
    <3> DEFINE g == [c \in 0..0 |-> c]
    <3>1. Walk(g, 0)
      OBVIOUS
    <3> QED BY <2>1, <3>1
  <2>2. CASE k # 0
    <3>1. k - 1 \in 0..N /\ k - 1 < k
      BY <1>0, <2>2
    <3>2. PICK f : Walk(f, k - 1)
      BY <1>1, <3>1
    <3> DEFINE g == [c \in 0..k |-> IF c < k THEN f[c]
                                    ELSE IF k \in S THEN k ELSE f[up[k]]]
    <3>3. ASSUME NEW c \in 0..k
          PROVE  g[c] = IF c \in S THEN c ELSE g[up[c]]
      <4>1. c \notin S => up[c] \in 0..c - 1 /\ g[up[c]] = f[up[c]]
        BY <1>0
      <4>2. CASE c = k
        BY <4>1, <4>2
      <4>3. CASE c < k
        <5>1. f[c] = IF c \in S THEN c ELSE f[up[c]]
          BY <1>0, <3>2, <4>3
        <5> QED BY <4>1, <4>3, <5>1
      <4> QED BY <1>0, <4>2, <4>3
    <3>4. Walk(g, k)
      <4> HIDE DEF Walk
      <4>1. g = [c \in 0..k |-> g[c]]
        OBVIOUS
      <4> HIDE DEF g
      <4> QED BY <3>3, <4>1 DEF Walk
    <3> HIDE DEF g, Walk
    <3> QED BY <3>4
  <2> QED BY <2>1, <2>2
<1> HIDE DEF G
<1>2. Inductive(N, G)
  BY <1>1 DEF Inductive
<1>3. N \in G
  BY <1>0, <1>2, BrokerInduction
<1> QED BY <1>3 DEF G

\* A walk to the top that gathers the sets of M on its way.
Gathers(f, N, up, M) == f = [c \in 0..N |-> IF c = 0 THEN {} ELSE M[c] \cup f[up[c]]]

LEMMA GatherExists ==
  ASSUME NEW N, NEW up, Climbs(up, N), NEW M
  PROVE  \E f : Gathers(f, N, up, M)
<1> DEFINE Walk(f, k) == f = [c \in 0..k |-> IF c = 0 THEN {} ELSE M[c] \cup f[up[c]]]
           G == {k \in 0..N : \E f : Walk(f, k)}
<1>0. N \in Nat /\ \A c \in 1..N : up[c] \in 0..c - 1
  BY DEF Climbs
<1>1. ASSUME NEW k \in 0..N, \A j \in 0..N : j < k => j \in G
      PROVE  k \in G
  <2>1. CASE k = 0
    <3> DEFINE g == [c \in 0..0 |-> {}]
    <3>1. Walk(g, 0)
      OBVIOUS
    <3> QED BY <2>1, <3>1
  <2>2. CASE k # 0
    <3>1. k - 1 \in 0..N /\ k - 1 < k
      BY <1>0, <2>2
    <3>2. PICK f : Walk(f, k - 1)
      BY <1>1, <3>1
    <3> DEFINE g == [c \in 0..k |-> IF c < k THEN f[c] ELSE M[k] \cup f[up[k]]]
    <3>3. ASSUME NEW c \in 0..k
          PROVE  g[c] = IF c = 0 THEN {} ELSE M[c] \cup g[up[c]]
      <4>1. c # 0 => up[c] \in 0..c - 1 /\ g[up[c]] = f[up[c]]
        BY <1>0
      <4>2. CASE c = k
        BY <2>2, <4>1, <4>2
      <4>3. CASE c < k
        <5>1. c \in 0..k - 1
          BY <1>0, <4>3
        <5>2. f[c] = IF c = 0 THEN {} ELSE M[c] \cup f[up[c]]
          BY <3>2, <5>1, Zenon
        <5> QED BY <4>1, <4>3, <5>2
      <4> QED BY <1>0, <4>2, <4>3
    <3>4. Walk(g, k)
      <4> HIDE DEF Walk
      <4>1. g = [c \in 0..k |-> g[c]]
        OBVIOUS
      <4> HIDE DEF g
      <4> QED BY <3>3, <4>1 DEF Walk
    <3> HIDE DEF g, Walk
    <3> QED BY <3>4
  <2> QED BY <2>1, <2>2
<1> HIDE DEF G
<1>2. Inductive(N, G)
  BY <1>1 DEF Inductive
<1>3. N \in G
  BY <1>0, <1>2, BrokerInduction
<1> QED BY <1>3 DEF G, Gathers


-----------------------------------------------------------------------------
(* What the walks of the brokers return.                                      *)

TInv ==
  /\ built \in 0..MaxBrokers
  /\ m_brokers \in [Place -> 0..built]
  /\ parent \in [Broker -> 0..built]
  /\ expose \in [Broker -> SUBSET Name]
  /\ registry \in [Broker -> SUBSET Name]
  /\ via \in [Name -> 0..built]
  /\ \A b \in 1..built : parent[b] < b

LEMMA Parents ==
  ASSUME TInv
  PROVE  /\ built \in Nat /\ 1..built \subseteq Broker
         /\ \A c \in 1..built : parent[c] \in 0..c - 1
         /\ Climbs(parent, built)
<1>1. built \in Nat /\ 1..built \subseteq Broker
  BY BrokersAreBounded DEF TInv, Broker
<1>2. ASSUME NEW c \in 1..built
      PROVE  parent[c] \in 0..c - 1
  <2>1. c \in Broker
    BY <1>1
  <2>2. parent[c] \in 0..built /\ parent[c] < c
    BY <2>1 DEF TInv
  <2> QED BY <1>1, <2>2
<1> QED BY <1>1, <1>2 DEF Climbs

RouteSteps ==
  \A n \in Name, b \in 0..built :
    Route(b, n) = IF b # 0 /\ sendToParent(b, n) THEN Route(parent[b], n) ELSE b

LEMMA RouteIsWalk == TInv => RouteSteps
<1> SUFFICES ASSUME TInv, NEW n \in Name
             PROVE  \A b \in 0..built :
                      Route(b, n) = IF b # 0 /\ sendToParent(b, n)
                                    THEN Route(parent[b], n) ELSE b
  BY DEF RouteSteps
<1> DEFINE S == {c \in 0..built : ~(c # 0 /\ sendToParent(c, n))}
           walk(f) == [c \in 0..built |-> IF c # 0 /\ sendToParent(c, n)
                                          THEN f[parent[c]] ELSE c]
           r == CHOOSE f : f = walk(f)
<1>1. Climbs(parent, built) /\ 0 \in S
  BY Parents
<1>2. PICK f : f = [c \in 0..built |-> IF c \in S THEN c ELSE f[parent[c]]]
  <2> HIDE DEF S
  <2> QED BY <1>1, WalkExists
<1>3. f = walk(f)
  <2>1. \A c \in 0..built : (c \in S) <=> ~(c # 0 /\ sendToParent(c, n))
    OBVIOUS
  <2> HIDE DEF S
  <2> QED BY <1>2, <2>1
<1>4. r = walk(r)
  BY <1>3
<1>5. \A c : Route(c, n) = r[c]
  BY DEF Route
<1> HIDE DEF r
<1>6. \A b \in 0..built : r[b] = IF b # 0 /\ sendToParent(b, n) THEN r[parent[b]] ELSE b
  BY <1>4, Zenon
<1> QED BY <1>5, <1>6

Stops(c, n) == c = 0 \/ (c # 0 /\ ~sendToParent(c, n) /\ n \in registry[c])

FoundSteps ==
  \A n \in Name, b \in 0..built :
    FoundAt(b, n) = IF Stops(b, n) THEN b ELSE FoundAt(parent[b], n)

LEMMA FoundIsWalk == TInv => FoundSteps
<1> SUFFICES ASSUME TInv, NEW n \in Name
             PROVE  \A b \in 0..built :
                      FoundAt(b, n) = IF Stops(b, n) THEN b ELSE FoundAt(parent[b], n)
  BY DEF FoundSteps
<1> DEFINE S == {c \in 0..built : Stops(c, n)}
           walk(f) == [c \in 0..built |->
                         IF c = 0 \/ (c # 0 /\ ~sendToParent(c, n) /\ n \in registry[c])
                         THEN c ELSE f[parent[c]]]
           r == CHOOSE f : f = walk(f)
<1>1. Climbs(parent, built) /\ 0 \in S
  BY Parents DEF Stops
<1>2. PICK f : f = [c \in 0..built |-> IF c \in S THEN c ELSE f[parent[c]]]
  <2> HIDE DEF S
  <2> QED BY <1>1, WalkExists
<1>3. f = walk(f)
  <2>1. \A c \in 0..built : (c \in S) <=>
          (c = 0 \/ (c # 0 /\ ~sendToParent(c, n) /\ n \in registry[c]))
    BY DEF Stops
  <2> HIDE DEF S
  <2> QED BY <1>2, <2>1
<1>4. r = walk(r)
  BY <1>3
<1>5. \A c : FoundAt(c, n) = r[c]
  BY DEF FoundAt
<1> HIDE DEF r
<1>6. \A b \in 0..built : r[b] = IF Stops(b, n) THEN b ELSE r[parent[b]]
  BY <1>4, Zenon DEF Stops
<1> QED BY <1>5, <1>6

ListSteps ==
  \A b \in 0..built :
    get_param_handles(b) =
      IF b = 0 THEN {} ELSE registry[b] \cup get_param_handles(parent[b])

LEMMA ListIsWalk == TInv => ListSteps
<1> SUFFICES ASSUME TInv
             PROVE  \A b \in 0..built :
                      get_param_handles(b) =
                        IF b = 0 THEN {} ELSE registry[b] \cup get_param_handles(parent[b])
  BY DEF ListSteps
<1> DEFINE walk(f) == [c \in 0..built |-> IF c = 0 THEN {} ELSE registry[c] \cup f[parent[c]]]
           r == CHOOSE f : f = walk(f)
<1>1. Climbs(parent, built)
  BY Parents
<1>2. \E f : Gathers(f, built, parent, registry)
  BY <1>1, GatherExists
<1>3. r = walk(r)
  BY <1>2 DEF Gathers
<1>4. \A c : get_param_handles(c) = r[c]
  BY DEF get_param_handles
<1> HIDE DEF r
<1>5. \A b \in 0..built : r[b] = IF b = 0 THEN {} ELSE registry[b] \cup r[parent[b]]
  BY <1>3, Zenon
<1> QED BY <1>4, <1>5

AboveSteps ==
  \A b \in 0..built : Above(b) = IF b = 0 THEN {} ELSE {b} \cup Above(parent[b])

LEMMA AboveIsWalk == TInv => AboveSteps
<1> SUFFICES ASSUME TInv
             PROVE  \A b \in 0..built :
                      Above(b) = IF b = 0 THEN {} ELSE {b} \cup Above(parent[b])
  BY DEF AboveSteps
<1> DEFINE M == [c \in 1..built |-> {c}]
           walk(f) == [c \in 0..built |-> IF c = 0 THEN {} ELSE {c} \cup f[parent[c]]]
           r == CHOOSE f : f = walk(f)
<1>1. /\ Climbs(parent, built)
      /\ \A c \in 0..built : c # 0 => M[c] = {c}
  BY Parents
<1>2. PICK f : Gathers(f, built, parent, M)
  <2> HIDE DEF M
  <2> QED BY <1>1, GatherExists
<1>3. f = walk(f)
  <2> HIDE DEF M
  <2> QED BY <1>1, <1>2 DEF Gathers
<1>4. r = walk(r)
  BY <1>3
<1>5. \A c : Above(c) = r[c]
  BY DEF Above
<1> HIDE DEF r
<1>6. \A b \in 0..built : r[b] = IF b = 0 THEN {} ELSE {b} \cup r[parent[b]]
  BY <1>4, Zenon
<1> QED BY <1>5, <1>6

\* A request ends at a broker that does not forward it.
RouteEnds ==
  \A n \in Name, b \in 1..built :
    Route(b, n) \in 1..built /\ ~sendToParent(Route(b, n), n)

LEMMA RoutesEnd == TInv => RouteEnds
<1> SUFFICES ASSUME TInv, NEW n \in Name
             PROVE  \A b \in 1..built : Route(b, n) \in 1..built
                                          /\ ~sendToParent(Route(b, n), n)
  BY DEF RouteEnds
<1> DEFINE G == {k \in 0..built : k # 0 => Route(k, n) \in 1..built
                                             /\ ~sendToParent(Route(k, n), n)}
<1>1. built \in Nat /\ \A c \in 1..built : parent[c] \in 0..c - 1
  BY Parents
<1>2. ASSUME NEW k \in 0..built, \A j \in 0..built : j < k => j \in G
      PROVE  k \in G
  <2> SUFFICES ASSUME k # 0
               PROVE  Route(k, n) \in 1..built /\ ~sendToParent(Route(k, n), n)
    OBVIOUS
  <2>1. CASE sendToParent(k, n)
    <3>1. Route(k, n) = Route(parent[k], n)
      BY <2>1, RouteIsWalk DEF RouteSteps
    <3>2. parent[k] \in 0..built /\ parent[k] < k /\ parent[k] # 0
      BY <1>1, <2>1 DEF sendToParent
    <3>3. parent[k] \in G
      BY <1>2, <3>2
    <3> QED BY <3>1, <3>2, <3>3
  <2>2. CASE ~sendToParent(k, n)
    <3>1. Route(k, n) = k /\ k \in 1..built
      BY <1>1, <2>2, RouteIsWalk DEF RouteSteps
    <3> QED BY <2>2, <3>1
  <2> QED BY <2>1, <2>2
<1>3. Inductive(built, G)
  <2> HIDE DEF G
  <2> QED BY <1>2 DEF Inductive
<1>4. \A k \in 0..built : k \in G
  <2> HIDE DEF G
  <2> QED BY <1>1, <1>3, BrokerInduction
<1> QED BY <1>1, <1>4

\* What looking up and listing see: the brokers above.
SeenAbove ==
  \A b \in 0..built :
    /\ Above(b) \subseteq 1..built
    /\ get_param_handles(b) = {n \in Name : \E c \in Above(b) : n \in registry[c]}
    /\ \A n \in Name : (FoundAt(b, n) # 0) <=>
         \E c \in Above(b) : ~sendToParent(c, n) /\ n \in registry[c]

LEMMA WalksSeeAbove == TInv => SeenAbove
<1> SUFFICES ASSUME TInv PROVE SeenAbove
  OBVIOUS
<1> DEFINE Lists(b) ==
             get_param_handles(b) = {n \in Name : \E c \in Above(b) : n \in registry[c]}
           Finds(b, n) ==
             (FoundAt(b, n) # 0) <=>
                \E c \in Above(b) : ~sendToParent(c, n) /\ n \in registry[c]
           G == {b \in 0..built : /\ Above(b) \subseteq 1..built /\ Lists(b)
                                  /\ \A n \in Name : Finds(b, n)}
<1>1. /\ built \in Nat /\ 1..built \subseteq Broker
      /\ \A c \in 1..built : parent[c] \in 0..c - 1
  BY Parents
<1>2. ASSUME NEW k \in 0..built, \A j \in 0..built : j < k => j \in G
      PROVE  k \in G
  <2>1. CASE k = 0
    <3>1. Above(k) = {} /\ get_param_handles(k) = {}
      BY <2>1, AboveIsWalk, ListIsWalk DEF AboveSteps, ListSteps
    <3>2. \A n \in Name : FoundAt(k, n) = 0
      BY <2>1, FoundIsWalk DEF FoundSteps, Stops
    <3> QED BY <3>1, <3>2
  <2>2. CASE k # 0
    <3>1. k \in 1..built /\ parent[k] \in 0..built /\ parent[k] < k /\ k \in Broker
      BY <1>1, <2>2
    <3>2. parent[k] \in G
      BY <1>2, <3>1
    <3>3. Above(k) = {k} \cup Above(parent[k])
      BY <2>2, AboveIsWalk DEF AboveSteps
    <3>4. get_param_handles(k) = registry[k] \cup get_param_handles(parent[k])
      BY <2>2, ListIsWalk DEF ListSteps
    <3>5. registry[k] \subseteq Name
      BY <3>1 DEF TInv
    <3>6. Lists(k)
      BY <3>2, <3>3, <3>4, <3>5
    <3>7. ASSUME NEW n \in Name
          PROVE  Finds(k, n)
      <4>1. Stops(k, n) <=> ~sendToParent(k, n) /\ n \in registry[k]
        BY <2>2 DEF Stops
      <4>2. FoundAt(k, n) = IF Stops(k, n) THEN k ELSE FoundAt(parent[k], n)
        BY FoundIsWalk DEF FoundSteps
      <4>3. Finds(parent[k], n)
        BY <3>2
      <4>4. CASE Stops(k, n)
        <5>1. FoundAt(k, n) = k /\ k \in Above(k)
          BY <3>3, <4>2, <4>4
        <5> QED BY <2>2, <4>1, <4>4, <5>1
      <4>5. CASE ~Stops(k, n)
        <5>1. FoundAt(k, n) = FoundAt(parent[k], n)
          BY <4>2, <4>5
        <5> QED BY <3>3, <4>1, <4>3, <4>5, <5>1
      <4> QED BY <4>4, <4>5
    <3>8. Above(k) \subseteq 1..built
      BY <3>1, <3>2, <3>3
    <3> QED BY <3>6, <3>7, <3>8
  <2> QED BY <2>1, <2>2
<1>3. Inductive(built, G)
  <2> HIDE DEF G
  <2> QED BY <1>2 DEF Inductive
<1>4. \A k \in 0..built : k \in G
  <2> HIDE DEF G
  <2> QED BY <1>1, <1>3, BrokerInduction
<1> QED BY <1>4 DEF SeenAbove

-----------------------------------------------------------------------------
(* Brokers are only added: the walks of those built before stay the same.     *)

Grown ==
  /\ built <= built'
  /\ \A b \in 1..built : parent'[b] = parent[b] /\ expose'[b] = expose[b]

LEMMA WalksStay ==
  ASSUME TInv, TInv', Grown
  PROVE  \A b \in 0..built : /\ Above(b)' = Above(b)
                             /\ \A n \in Name : Route(b, n)' = Route(b, n)
<1> DEFINE G == {b \in 0..built : /\ Above(b)' = Above(b)
                                  /\ \A n \in Name : Route(b, n)' = Route(b, n)}
<1>1. /\ built \in Nat /\ 1..built \subseteq Broker
      /\ \A c \in 1..built : parent[c] \in 0..c - 1
  BY Parents
<1>2. built' \in Nat /\ built <= built'
  BY BrokersAreBounded DEF TInv, Grown
<1>3. RouteSteps /\ AboveSteps
  BY RouteIsWalk, AboveIsWalk
<1>4. (TInv => RouteSteps)' /\ (TInv => AboveSteps)'
  BY RouteIsWalk, AboveIsWalk, PTL
<1>5. ASSUME NEW k \in 0..built, \A j \in 0..built : j < k => j \in G
      PROVE  k \in G
  <2>0. k \in 0..built'
    BY <1>1, <1>2
  <2>1. CASE k = 0
    <3>1. Above(k)' = Above(k)
      BY <1>3, <1>4, <2>0, <2>1 DEF AboveSteps
    <3>2. \A n \in Name : Route(k, n)' = Route(k, n)
      BY <1>3, <1>4, <2>0, <2>1 DEF RouteSteps
    <3> QED BY <3>1, <3>2
  <2>2. CASE k # 0
    <3>1. k \in 1..built /\ parent[k] \in 0..built /\ parent[k] < k
      BY <1>1, <2>2
    <3>2. parent[k] \in G
      BY <1>5, <3>1
    <3>3. parent'[k] = parent[k] /\ expose'[k] = expose[k]
      BY <3>1 DEF Grown
    <3>4. Above(k)' = Above(k)
      BY <1>3, <1>4, <2>0, <2>2, <3>2, <3>3 DEF AboveSteps
    <3>5. ASSUME NEW n \in Name
          PROVE  Route(k, n)' = Route(k, n)
      <4>1. sendToParent(k, n)' = sendToParent(k, n)
        BY <3>3 DEF sendToParent
      <4> QED BY <1>3, <1>4, <2>0, <2>2, <3>2, <3>3, <4>1 DEF RouteSteps
    <3> QED BY <3>4, <3>5
  <2> QED BY <2>1, <2>2
<1>6. Inductive(built, G)
  <2> HIDE DEF G
  <2> QED BY <1>5 DEF Inductive
<1>7. \A k \in 0..built : k \in G
  <2> HIDE DEF G
  <2> QED BY <1>1, <1>6, BrokerInduction
<1> QED BY <1>7

-----------------------------------------------------------------------------
(* Where a parameter is registered.                                           *)

RInv == TInv /\ RegisteredAtRoute

\* get_broker(m) is the broker at the nearest place where there is one.
Nearest(m, i) ==
  /\ i \in 1..Len(Path[m]) /\ m_brokers[Path[m][i]] # 0
  /\ \A j \in 1..Len(Path[m]) : m_brokers[Path[m][j]] # 0 => i <= j

LEMMA PathFacts ==
  ASSUME NEW m \in Place
  PROVE  /\ Path[m] \in Seq(Place) /\ Len(Path[m]) \in Nat \ {0}
         /\ \A i \in 1..Len(Path[m]) : Path[m][i] \in Place
<1>1. Path[m] \in Seq(Place) /\ Path[m] # <<>>
  BY PathsLeadOutside
<1> QED BY <1>1

NearestServes ==
  \A m \in Place :
    /\ \A i : Nearest(m, i) => get_broker(m) = m_brokers[Path[m][i]]
    /\ (\E i \in 1..Len(Path[m]) : m_brokers[Path[m][i]] # 0)
         => \E i : Nearest(m, i)
    /\ get_broker(m) # 0 => \E i : Nearest(m, i)

LEMMA BrokerIsNearest == NearestServes
<1> SUFFICES ASSUME NEW m \in Place
             PROVE  /\ \A i : Nearest(m, i) => get_broker(m) = m_brokers[Path[m][i]]
                    /\ (\E i \in 1..Len(Path[m]) : m_brokers[Path[m][i]] # 0)
                         => \E i : Nearest(m, i)
                    /\ get_broker(m) # 0 => \E i : Nearest(m, i)
  BY DEF NearestServes
<1> DEFINE some == {i \in 1..Len(Path[m]) : m_brokers[Path[m][i]] # 0}
<1>1. Len(Path[m]) \in Nat
  BY PathFacts
<1>2. ASSUME NEW i, Nearest(m, i)
      PROVE  get_broker(m) = m_brokers[Path[m][i]]
  <2>1. i \in some /\ \A j \in some : i <= j
    BY <1>2 DEF Nearest
  <2>2. \A k \in some : (\A j \in some : k <= j) => k = i
    BY <1>1, <2>1
  <2>3. (CHOOSE k \in some : \A j \in some : k <= j) = i
    BY <2>1, <2>2
  <2> QED BY <2>1, <2>3 DEF get_broker
<1>3. ASSUME some # {}
      PROVE  \E i : Nearest(m, i)
  <2>1. some \in SUBSET Nat
    BY <1>1
  <2>2. PICK i \in some : \A y \in some : ~(<<y, i>> \in OpToRel(<, Nat))
    <3> HIDE DEF some
    <3> QED BY <1>3, <2>1, NatLessThanWellFounded, WFMin
  <2>3. \A y \in some : i <= y
    <3> HIDE DEF some
    <3>1. i \in Nat
      BY <2>1, <2>2
    <3>2. ASSUME NEW y \in some
          PROVE  i <= y
      <4>1. y \in Nat /\ ~(<<y, i>> \in OpToRel(<, Nat))
        BY <2>1, <2>2
      <4>2. y < i => <<y, i>> \in OpToRel(<, Nat)
        BY <3>1, <4>1 DEF OpToRel
      <4> HIDE <2>2
      <4>3. ~(y < i)
        BY <4>1, <4>2, Zenon
      <4>4. y \in Nat
        BY <4>1
      <4> QED BY <3>1, <4>3, <4>4
    <3> QED BY <3>2
  <2>4. Nearest(m, i)
    BY <2>2, <2>3 DEF Nearest
  <2> QED BY <2>4
<1>4. get_broker(m) # 0 => some # {}
  BY DEF get_broker
<1> QED BY <1>2, <1>3, <1>4

LEMMA BrokerType ==
  ASSUME TInv, NEW m \in Place
  PROVE  get_broker(m) \in 0..built
<1>1. CASE get_broker(m) = 0
  BY <1>1, Parents
<1>2. CASE get_broker(m) # 0
  <2>1. PICK i : Nearest(m, i)
    BY <1>2, BrokerIsNearest DEF NearestServes
  <2>2. get_broker(m) = m_brokers[Path[m][i]] /\ Path[m][i] \in Place
    BY <2>1, BrokerIsNearest, PathFacts DEF Nearest, NearestServes
  <2> QED BY <2>2 DEF TInv
<1> QED BY <1>1, <1>2

LEMMA BuildGrows ==
  ASSUME TInv, NEW m \in Place, NEW names \in Exposable, Build(m, names),
         m_brokers' \in [Place -> 0..built']
  PROVE  TInv' /\ Grown
<1>1. /\ built \in Nat /\ built < MaxBrokers /\ MaxBrokers \in Nat
      /\ built' = built + 1
      /\ parent' = [parent EXCEPT ![built + 1] = ParentAt(m)]
      /\ expose' = [expose EXCEPT ![built + 1] = names]
      /\ UNCHANGED <<registry, via>>
  BY BrokersAreBounded DEF TInv, Build, MayBuild
<1>2. ParentAt(m) \in 0..built
  BY <1>1, BrokerType DEF ParentAt
<1>3. names \subseteq Name
  BY ExposableIsNames
<1>4. built + 1 \in Broker /\ built + 1 \notin 1..built /\ 1..built \subseteq Broker
  BY <1>1 DEF Broker
<1>5. /\ parent' \in [Broker -> 0..built'] /\ expose' \in [Broker -> SUBSET Name]
      /\ via' \in [Name -> 0..built'] /\ registry' \in [Broker -> SUBSET Name]
      /\ built' \in 0..MaxBrokers
  BY <1>1, <1>2, <1>3, <1>4 DEF TInv
<1>6. \A b \in 1..built : parent'[b] = parent[b] /\ expose'[b] = expose[b]
  BY <1>1, <1>4 DEF TInv
<1>7. parent'[built + 1] = ParentAt(m)
  BY <1>1, <1>4 DEF TInv
<1>8. \A b \in 1..built' : parent'[b] < b
  <2> TAKE b \in 1..built'
  <2>1. CASE b = built + 1
    BY <1>1, <1>2, <1>7, <2>1
  <2>2. CASE b # built + 1
    <3>1. b \in 1..built
      BY <1>1, <2>2
    <3> QED BY <1>6, <3>1 DEF TInv
  <2> QED BY <2>1, <2>2
<1> QED BY <1>1, <1>5, <1>6, <1>8 DEF TInv, Grown

\* Where every step leaves the brokers.
LEMMA StepGrows ==
  ASSUME TInv, [Next]_vars
  PROVE  TInv' /\ Grown
<1>0. built \in Nat
  BY Parents
<1>1. ASSUME NEW m \in Place, NEW names \in Exposable, PrivateBroker(m, names)
      PROVE  TInv' /\ Grown
  <2>1. m_brokers' \in [Place -> 0..built']
    BY <1>0, <1>1 DEF TInv, PrivateBroker, Build
  <2> QED BY <1>1, <2>1, BuildGrows DEF PrivateBroker
<1>2. ASSUME NEW m \in Place, NEW names \in Exposable, RegisterBroker(m, names)
      PROVE  TInv' /\ Grown
  <2>1. built' = built + 1
    BY <1>2 DEF RegisterBroker, Build
  <2>2. m_brokers' \in [Place -> 0..built']
    BY <1>0, <1>2, <2>1 DEF TInv, RegisterBroker
  <2> QED BY <1>2, <2>2, BuildGrows DEF RegisterBroker
<1>3. ASSUME UNCHANGED topology, registry' \in [Broker -> SUBSET Name],
             via' \in [Name -> 0..built]
      PROVE  TInv' /\ Grown
  BY <1>0, <1>3 DEF TInv, Grown, topology
<1>4. ASSUME NEW b \in Broker, NEW n \in Name, AddParam(b, n)
      PROVE  TInv' /\ Grown
  <2>1. /\ UNCHANGED topology /\ via' = [via EXCEPT ![n] = b] /\ b \in 0..built
        /\ registry' = [registry EXCEPT ![Route(b, n)] = @ \cup {n}]
    BY <1>0, <1>4 DEF AddParam, Broker
  <2>2. registry' \in [Broker -> SUBSET Name]
    BY <2>1 DEF TInv
  <2>3. via' \in [Name -> 0..built]
    BY <2>1 DEF TInv
  <2> QED BY <1>3, <2>1, <2>2, <2>3
<1>5. ASSUME NEW n \in Name, RemoveParam(n)
      PROVE  TInv' /\ Grown
  <2>1. /\ UNCHANGED topology /\ via' = [via EXCEPT ![n] = 0]
        /\ registry' = [registry EXCEPT ![Route(via[n], n)] = @ \ {n}]
    BY <1>5 DEF RemoveParam, Leave
  <2>2. registry' \in [Broker -> SUBSET Name]
    BY <2>1 DEF TInv
  <2>3. via' \in [Name -> 0..built]
    BY <1>0, <2>1 DEF TInv
  <2> QED BY <1>3, <2>1, <2>2, <2>3
<1>6. ASSUME UNCHANGED <<topology, registry, via>>
      PROVE  TInv' /\ Grown
  BY <1>3, <1>6 DEF TInv
<1>7. ASSUME NEW b \in Broker, NEW n \in Name,
             LockPreset(b, n) \/ \E v \in Value, o \in Originator : SetPreset(b, n, v, o)
      PROVE  TInv' /\ Grown
  BY <1>6, <1>7 DEF LockPreset, SetPreset, topology
<1>8. ASSUME NEW n \in Name, Reset(n) \/ \E o \in Originator : Write(n, o)
      PROVE  TInv' /\ Grown
  BY <1>6, <1>8 DEF Reset, Write, stores
<1>9. CASE UNCHANGED vars
  BY <1>6, <1>9 DEF vars, topology
<1> QED BY <1>1, <1>2, <1>4, <1>5, <1>7, <1>8, <1>9 DEF Next, BrokerCalls, ParamCalls

LEMMA RegistrationStep ==
  ASSUME RInv, [Next]_vars
  PROVE  RInv'
<1>1. TInv' /\ Grown
  BY StepGrows DEF RInv
<1>2. \A b \in 0..built, n \in Name : Route(b, n)' = Route(b, n)
  BY <1>1, WalksStay DEF RInv
<1>3. /\ via \in [Name -> 0..built] /\ registry \in [Broker -> SUBSET Name]
      /\ built \in Nat /\ 1..built \subseteq Broker
  BY Parents DEF RInv, TInv
<1>4. ASSUME UNCHANGED <<registry, via>>
      PROVE  RegisteredAtRoute'
  <2> SUFFICES ASSUME NEW n \in Name
               PROVE  {b \in Broker : n \in registry'[b]} =
                        IF via'[n] = 0 THEN {} ELSE {Route(via[n], n)'}
    BY DEF RegisteredAtRoute
  <2>1. via'[n] = via[n] /\ Route(via[n], n)' = Route(via[n], n)
    BY <1>2, <1>3, <1>4
  <2> QED BY <1>4, <2>1 DEF RInv, RegisteredAtRoute
<1>5. ASSUME NEW b \in Broker, NEW n \in Name, AddParam(b, n)
      PROVE  RegisteredAtRoute'
  <2> DEFINE h == Route(b, n)
  <2>1. /\ via[n] = 0 /\ via' = [via EXCEPT ![n] = b] /\ b \in 1..built
        /\ registry' = [registry EXCEPT ![h] = @ \cup {n}]
    BY <1>3, <1>5 DEF AddParam, Broker
  <2>2. h \in Broker
    BY <1>3, <2>1, RoutesEnd DEF RInv, RouteEnds
  <2>3. Route(b, n)' = h
    BY <1>2, <1>3, <2>1
  <2> HIDE DEF h
  <2> SUFFICES ASSUME NEW m \in Name
               PROVE  {c \in Broker : m \in registry'[c]} =
                        IF via'[m] = 0 THEN {} ELSE {Route(via[m], m)'}
    BY DEF RegisteredAtRoute
  <2>4. {c \in Broker : m \in registry[c]} =
          IF via[m] = 0 THEN {} ELSE {Route(via[m], m)}
    BY DEF RInv, RegisteredAtRoute
  <2>5. CASE m = n
    <3>1. via'[m] = b /\ b # 0 /\ Route(via[m], m)' = h
      BY <1>3, <2>1, <2>3, <2>5
    <3>2. {c \in Broker : m \in registry[c]} = {}
      BY <2>1, <2>4, <2>5
    <3>3. {c \in Broker : m \in registry'[c]} = {h}
      BY <1>3, <2>1, <2>2, <2>5, <3>2
    <3> QED BY <3>1, <3>3
  <2>6. CASE m # n
    <3>1. via'[m] = via[m] /\ Route(via[m], m)' = Route(via[m], m)
      BY <1>2, <1>3, <2>1, <2>6
    <3>2. {c \in Broker : m \in registry'[c]} = {c \in Broker : m \in registry[c]}
      BY <1>3, <2>1, <2>6
    <3> QED BY <2>4, <3>1, <3>2
  <2> QED BY <2>5, <2>6
<1>6. ASSUME NEW n \in Name, RemoveParam(n)
      PROVE  RegisteredAtRoute'
  <2> DEFINE h == Route(via[n], n)
  <2>1. /\ via[n] # 0 /\ via' = [via EXCEPT ![n] = 0]
        /\ registry' = [registry EXCEPT ![h] = @ \ {n}]
    BY <1>6 DEF RemoveParam, Leave
  <2> SUFFICES ASSUME NEW m \in Name
               PROVE  {c \in Broker : m \in registry'[c]} =
                        IF via'[m] = 0 THEN {} ELSE {Route(via[m], m)'}
    BY DEF RegisteredAtRoute
  <2>4. {c \in Broker : m \in registry[c]} =
          IF via[m] = 0 THEN {} ELSE {Route(via[m], m)}
    BY DEF RInv, RegisteredAtRoute
  <2>5. CASE m = n
    <3>1. via'[m] = 0
      BY <1>3, <2>1, <2>5
    <3>2. {c \in Broker : m \in registry[c]} = {h}
      BY <2>1, <2>4, <2>5
    <3> HIDE DEF h
    <3>3. {c \in Broker : m \in registry'[c]} = {}
      BY <1>3, <2>1, <2>5, <3>2
    <3> QED BY <3>1, <3>3
  <2> HIDE DEF h
  <2>6. CASE m # n
    <3>1. via'[m] = via[m] /\ Route(via[m], m)' = Route(via[m], m)
      BY <1>2, <1>3, <2>1, <2>6
    <3>2. {c \in Broker : m \in registry'[c]} = {c \in Broker : m \in registry[c]}
      BY <1>3, <2>1, <2>6
    <3> QED BY <2>4, <3>1, <3>2
  <2> QED BY <2>5, <2>6
<1>7. ASSUME NEW m \in Place, NEW names \in Exposable,
             PrivateBroker(m, names) \/ RegisterBroker(m, names)
      PROVE  RegisteredAtRoute'
  BY <1>4, <1>7 DEF PrivateBroker, RegisterBroker, Build
<1>8. ASSUME NEW b \in Broker, NEW n \in Name,
             LockPreset(b, n) \/ \E v \in Value, o \in Originator : SetPreset(b, n, v, o)
      PROVE  RegisteredAtRoute'
  BY <1>4, <1>8 DEF LockPreset, SetPreset
<1>9. ASSUME NEW n \in Name, Reset(n) \/ \E o \in Originator : Write(n, o)
      PROVE  RegisteredAtRoute'
  BY <1>4, <1>9 DEF Reset, Write, stores
<1>10. ASSUME UNCHANGED vars
       PROVE  RegisteredAtRoute'
  <2>1. UNCHANGED <<registry, via>>
    BY <1>10 DEF vars
  <2> QED BY <1>4, <2>1
<1>11. RegisteredAtRoute'
  <2> SUFFICES ASSUME Next
               PROVE  RegisteredAtRoute'
    BY <1>10
  <2>1. CASE \E m \in Place, names \in Exposable :
               PrivateBroker(m, names) \/ RegisterBroker(m, names)
    BY <1>7, <2>1
  <2>2. CASE \E b \in Broker, n \in Name : BrokerCalls(b, n)
    BY <1>5, <1>8, <2>2 DEF BrokerCalls
  <2>3. CASE \E n \in Name : ParamCalls(n)
    BY <1>6, <1>9, <2>3 DEF ParamCalls
  <2> QED BY <2>1, <2>2, <2>3 DEF Next
<1> QED BY <1>1, <1>11 DEF RInv

LEMMA RegistrationInvariant == Spec => []RInv
<1>1. Init => RInv
  BY BrokersAreBounded DEF Init, RInv, TInv, RegisteredAtRoute, Broker
<1>2. RInv /\ [Next]_vars => RInv'
  BY RegistrationStep
<1> QED BY <1>1, <1>2, PTL DEF Spec

(* A parameter is in the registry of the broker its own broker routes its     *)
(* name to and in no other, for any design and however many brokers forward   *)
(* the name (broker.cpp, add_param and remove_param).                         *)
THEOREM ParamsAreWhereRouted == Spec => []RegisteredAtRoute
<1>1. RInv => RegisteredAtRoute
  BY DEF RInv
<1> QED BY <1>1, RegistrationInvariant, PTL

\* The broker that holds a parameter does not forward its name.
LEMMA HolderKeeps ==
  ASSUME RInv, NEW n \in Name, NEW c \in 1..built
  PROVE  (~sendToParent(c, n) /\ n \in registry[c])
           <=> (via[n] # 0 /\ Route(via[n], n) = c)
<1>1. built \in Nat /\ 1..built \subseteq Broker /\ via[n] \in 0..built
  BY Parents DEF RInv, TInv
<1>2. {b \in Broker : n \in registry[b]} =
        IF via[n] = 0 THEN {} ELSE {Route(via[n], n)}
  BY DEF RInv, RegisteredAtRoute
<1>3. n \in registry[c] <=> via[n] # 0 /\ Route(via[n], n) = c
  BY <1>1, <1>2
<1>4. ASSUME via[n] # 0 PROVE ~sendToParent(Route(via[n], n), n)
  BY <1>1, <1>4, RoutesEnd DEF RInv, RouteEnds
<1> QED BY <1>3, <1>4

LEMMA Scoped == RInv => HiddenOrShared
<1> SUFFICES ASSUME RInv
             PROVE  HiddenOrShared
  OBVIOUS
<1> SUFFICES ASSUME NEW b \in 1..built, NEW n \in Name
             PROVE  (FoundAt(b, n) # 0)
                      <=> via[n] # 0 /\ Route(via[n], n) \in Above(b)
  BY DEF HiddenOrShared
<1>1. b \in 0..built
  OBVIOUS
<1>2. /\ Above(b) \subseteq 1..built
      /\ (FoundAt(b, n) # 0) <=>
           \E c \in Above(b) : ~sendToParent(c, n) /\ n \in registry[c]
  BY <1>1, WalksSeeAbove DEF RInv, SeenAbove
<1>3. \A c \in Above(b) : (~sendToParent(c, n) /\ n \in registry[c])
                            <=> (via[n] # 0 /\ Route(via[n], n) = c)
  BY <1>2, HolderKeeps
<1> QED BY <1>2, <1>3

(* A broker finds a parameter exactly if the broker that holds it is the same *)
(* or one above, for any design, depth of forwarding and sets of exposed      *)
(* names (broker.cpp, get_param_handle).                                      *)
THEOREM LookupIsScoped == Spec => []HiddenOrShared
BY Scoped, RegistrationInvariant, PTL

(* The parameters a broker lists are those a lookup by name finds, for any    *)
(* design (broker.cpp, get_param_handles and get_param_handle).               *)
THEOREM ListingIsLookup == Spec => []ListIsWhatIsFound
<1>1. ASSUME RInv
      PROVE  ListIsWhatIsFound
  <2> SUFFICES ASSUME NEW b \in 1..built
               PROVE  get_param_handles(b) = {n \in Name : FoundAt(b, n) # 0}
    BY DEF ListIsWhatIsFound
  <2>1. b \in 0..built
    OBVIOUS
  <2>2. /\ Above(b) \subseteq 1..built
        /\ get_param_handles(b) = {n \in Name : \E c \in Above(b) : n \in registry[c]}
        /\ \A n \in Name : (FoundAt(b, n) # 0) <=>
             \E c \in Above(b) : ~sendToParent(c, n) /\ n \in registry[c]
    BY <1>1, <2>1, WalksSeeAbove DEF RInv, SeenAbove
  <2>3. ASSUME NEW n \in Name, NEW c \in Above(b), n \in registry[c]
        PROVE  ~sendToParent(c, n)
    <3>1. c \in 1..built /\ c \in Broker
      BY <1>1, <2>2, Parents DEF RInv
    <3>2. via[n] # 0 /\ Route(via[n], n) = c
      BY <1>1, <2>3, <3>1 DEF RInv, RegisteredAtRoute
    <3> QED BY <1>1, <3>1, <3>2, HolderKeeps
  <2> QED BY <2>2, <2>3
<1> QED BY <1>1, RegistrationInvariant, PTL

-----------------------------------------------------------------------------
(* What code at a place sees.                                                 *)

\* The paths of the places around a place are the ends of its own path.
LEMMA PathEnds ==
  ASSUME NEW m \in Place, NEW i \in 1..Len(Path[m])
  PROVE  /\ Len(Path[Path[m][i]]) = Len(Path[m]) - i + 1
         /\ \A j \in 1..Len(Path[m]) - i + 1 : Path[Path[m][i]][j] = Path[m][i + j - 1]
         /\ Path[m][i] = Outside => i = Len(Path[m])
<1>1. Path[m] \in Seq(Place) /\ Len(Path[m]) \in Nat \ {0}
  BY PathFacts
<1>2. \A k \in 1..Len(Path[m]) : Path[Path[m][k]] = SubSeq(Path[m], k, Len(Path[m]))
  BY PathsNest
<1>3. ASSUME NEW k \in 1..Len(Path[m])
      PROVE  /\ Len(Path[Path[m][k]]) = Len(Path[m]) - k + 1
             /\ \A j \in 1..Len(Path[m]) - k + 1 :
                  Path[Path[m][k]][j] = Path[m][k + j - 1]
  <2>1. /\ Len(SubSeq(Path[m], k, Len(Path[m]))) = Len(Path[m]) - k + 1
        /\ \A j \in 1..Len(Path[m]) - k + 1 :
             SubSeq(Path[m], k, Len(Path[m]))[j] = Path[m][k + j - 1]
    BY <1>1
  <2> QED BY <1>2, <2>1
<1>4. Len(Path[m]) \in 1..Len(Path[m]) /\ Path[m][Len(Path[m])] = Outside
  BY <1>1, PathsLeadOutside
<1>5. Len(Path[Outside]) = Len(Path[m]) - Len(Path[m]) + 1
  BY <1>3, <1>4
<1>6. ASSUME Path[m][i] = Outside
      PROVE  i = Len(Path[m])
  <2>1. Len(Path[Outside]) = Len(Path[m]) - i + 1
    BY <1>3, <1>6
  <2>2. Len(Path[m]) \in Nat /\ i \in Nat
    BY <1>1
  <2>3. Len(Path[m]) - i + 1 = Len(Path[m]) - Len(Path[m]) + 1
    BY <1>5, <2>1
  <2> QED BY <2>2, <2>3
<1> QED BY <1>3, <1>6

\* A place keeps its nearest broker, or gets a new one in front of it.
InFront(m) ==
  \/ get_broker(m)' = get_broker(m)
  \/ get_broker(m)' \in 1..built' /\ parent'[get_broker(m)'] = get_broker(m)

LEMMA RegisterInFront ==
  ASSUME TInv, NEW p \in Place, NEW names \in Exposable, RegisterBroker(p, names),
         NEW m \in Place, get_broker(m) # 0
  PROVE  InFront(m)
<1>1. PICK k : Nearest(m, k)
  BY BrokerIsNearest DEF NearestServes
<1>2. NearestServes /\ NearestServes'
  BY BrokerIsNearest, PTL
<1>3. Path[m] \in Seq(Place) /\ Len(Path[m]) \in Nat
      /\ \A i \in 1..Len(Path[m]) : Path[m][i] \in Place
  BY PathFacts
<1>4. /\ k \in 1..Len(Path[m]) /\ m_brokers[Path[m][k]] # 0
      /\ \A j \in 1..Len(Path[m]) : m_brokers[Path[m][j]] # 0 => k <= j
      /\ get_broker(m) = m_brokers[Path[m][k]]
  BY <1>1, <1>2 DEF Nearest, NearestServes
<1>5. CASE m_brokers[p] # 0
  <2>1. m_brokers' = m_brokers
    BY <1>5 DEF RegisterBroker
  <2>2. get_broker(m)' = get_broker(m)
    BY <2>1 DEF get_broker
  <2> QED BY <2>2 DEF InFront
<1>6. CASE m_brokers[p] = 0
  <2>1. /\ m_brokers' = [m_brokers EXCEPT ![p] = built + 1]
        /\ built' = built + 1 /\ parent' = [parent EXCEPT ![built + 1] = ParentAt(p)]
        /\ built < MaxBrokers
    BY <1>6 DEF RegisterBroker, Build, MayBuild
  <2>2. /\ built \in Nat /\ built + 1 \in Broker /\ built + 1 \in 1..built'
        /\ m_brokers \in [Place -> 0..built] /\ parent \in [Broker -> 0..built]
    BY <2>1, BrokersAreBounded DEF TInv, Broker
  <2>3. \A q \in Place : q # p => m_brokers'[q] = m_brokers[q]
    BY <2>1, <2>2
  <2>4. m_brokers'[p] = built + 1 /\ parent'[built + 1] = ParentAt(p)
    BY <2>1, <2>2
  <2>5. Path[m][k] # p /\ Path[m][k] \in Place
    BY <1>3, <1>4, <1>6
  <2>6. m_brokers'[Path[m][k]] # 0
    BY <1>4, <2>3, <2>5
  <2>7. PICK i : Nearest(m, i)'
    BY <1>2, <1>4, <2>6 DEF NearestServes
  <2>8. /\ i \in 1..Len(Path[m]) /\ m_brokers'[Path[m][i]] # 0
        /\ \A j \in 1..Len(Path[m]) : m_brokers'[Path[m][j]] # 0 => i <= j
        /\ get_broker(m)' = m_brokers'[Path[m][i]]
    BY <1>2, <2>7 DEF Nearest, NearestServes
  <2>9. i <= k /\ Path[m][i] \in Place
    BY <1>3, <1>4, <2>6, <2>8
  <2>10. CASE Path[m][i] # p
    <3>1. m_brokers'[Path[m][i]] = m_brokers[Path[m][i]]
      BY <2>3, <2>9, <2>10
    <3>2. k <= i
      BY <1>4, <2>8, <3>1
    <3>3. i = k
      BY <1>3, <1>4, <2>8, <2>9, <3>2
    <3> QED BY <1>4, <2>8, <3>1, <3>3 DEF InFront
  <2>11. CASE Path[m][i] = p
    <3>1. i < k
      <4>1. i # k
        BY <2>5, <2>11
      <4> QED BY <1>3, <1>4, <2>8, <2>9, <4>1
    <3>2. /\ Len(Path[p]) = Len(Path[m]) - i + 1
          /\ \A j \in 1..Len(Path[m]) - i + 1 : Path[p][j] = Path[m][i + j - 1]
          /\ p = Outside => i = Len(Path[m])
      BY <2>8, <2>11, PathEnds
    <3>3. p # Outside
      BY <1>3, <1>4, <2>8, <3>1, <3>2
    <3> DEFINE l == k - i + 1
    <3>4. l \in 1..Len(Path[p]) /\ Path[p][l] = Path[m][k]
      <4>1. l \in 1..Len(Path[m]) - i + 1 /\ i + l - 1 = k
        BY <1>3, <1>4, <2>8, <3>1
      <4> HIDE DEF l
      <4> QED BY <3>2, <4>1
    <3>5. ASSUME NEW j \in 1..Len(Path[p]), m_brokers[Path[p][j]] # 0
          PROVE  l <= j
      <4>1. j \in 1..Len(Path[m]) - i + 1 /\ i + j - 1 \in 1..Len(Path[m])
        BY <1>3, <2>8, <3>2, <3>5
      <4>2. k <= i + j - 1
        BY <1>4, <3>2, <3>5, <4>1
      <4> QED BY <1>3, <1>4, <2>8, <4>1, <4>2
    <3> HIDE DEF l
    <3>6. Nearest(p, l)
      BY <1>4, <3>4, <3>5 DEF Nearest
    <3>7. get_broker(p) = get_broker(m)
      BY <1>2, <1>4, <3>4, <3>6 DEF NearestServes
    <3>8. get_broker(m)' = built + 1 /\ parent'[built + 1] = get_broker(m)
      BY <2>4, <2>8, <2>11, <3>3, <3>7 DEF ParentAt
    <3> QED BY <2>2, <3>8 DEF InFront
  <2> QED BY <2>10, <2>11
<1> QED BY <1>5, <1>6

LEMMA NearestStays ==
  ASSUME TInv, [Next]_vars, NEW m \in Place, get_broker(m) # 0
  PROVE  InFront(m)
<1>1. ASSUME m_brokers' = m_brokers
      PROVE  InFront(m)
  <2>1. get_broker(m)' = get_broker(m)
    BY <1>1 DEF get_broker
  <2> QED BY <2>1 DEF InFront
<1>2. CASE \E p \in Place, names \in Exposable : RegisterBroker(p, names)
  BY <1>2, RegisterInFront
<1>3. CASE \E p \in Place, names \in Exposable : PrivateBroker(p, names)
  BY <1>1, <1>3 DEF PrivateBroker
<1>4. CASE \E b \in Broker, n \in Name : BrokerCalls(b, n)
  BY <1>1, <1>4 DEF BrokerCalls, SetPreset, LockPreset, AddParam, topology
<1>5. CASE \E n \in Name : ParamCalls(n)
  BY <1>1, <1>5 DEF ParamCalls, RemoveParam, Leave, Write, Reset, topology
<1>6. CASE UNCHANGED vars
  BY <1>1, <1>6 DEF vars
<1> QED BY <1>2, <1>3, <1>4, <1>5, <1>6 DEF Next

\* A parameter stays with its broker as long as it lives.
LEMMA ViaStays ==
  ASSUME TInv, [Next]_vars, NEW n \in Name, via[n] # 0, via'[n] # 0
  PROVE  via'[n] = via[n]
<1>1. via \in [Name -> 0..built]
  BY DEF TInv
<1>2. CASE \E p \in Place, names \in Exposable :
             PrivateBroker(p, names) \/ RegisterBroker(p, names)
  BY <1>2 DEF PrivateBroker, RegisterBroker, Build
<1>3. CASE \E b \in Broker, a \in Name : BrokerCalls(b, a)
  BY <1>1, <1>3 DEF BrokerCalls, SetPreset, LockPreset, AddParam
<1>4. CASE \E a \in Name : ParamCalls(a)
  BY <1>1, <1>4 DEF ParamCalls, RemoveParam, Leave, Write, Reset
<1>5. CASE UNCHANGED vars
  BY <1>5 DEF vars
<1> QED BY <1>2, <1>3, <1>4, <1>5 DEF Next

LEMMA SeenStep ==
  ASSUME RInv, [Next]_vars, NEW m \in Place, NEW n \in SeenFrom(m), via'[n] # 0
  PROVE  n \in SeenFrom(m)'
<1> DEFINE g == get_broker(m)
<1>1. RInv' /\ TInv' /\ Grown
  BY RegistrationStep, StepGrows DEF RInv
<1>2. HiddenOrShared /\ HiddenOrShared'
  <2>1. (RInv => HiddenOrShared)'
    BY Scoped, PTL
  <2> QED BY <1>1, <2>1, Scoped
<1>3. n \in Name /\ g # 0 /\ g \in 1..built /\ FoundAt(g, n) # 0
  BY BrokerType, Parents DEF SeenFrom, RInv
<1>4. via[n] # 0 /\ Route(via[n], n) \in Above(g)
  BY <1>2, <1>3 DEF HiddenOrShared
<1>5. via'[n] = via[n] /\ via[n] \in 0..built
  BY <1>3, <1>4, ViaStays DEF RInv, TInv
<1>6. Route(via[n], n)' = Route(via[n], n)
  BY <1>1, <1>3, <1>5, WalksStay DEF RInv
<1>7. PICK h : h = get_broker(m)'
  OBVIOUS
<1>8. PICK b : b = g
  OBVIOUS
<1>9. Above(b)' = Above(b)
  BY <1>1, <1>3, <1>8, WalksStay DEF RInv
<1>10. h = b \/ (h \in 1..built' /\ parent'[h] = b)
  BY <1>3, <1>7, <1>8, NearestStays DEF InFront, RInv
<1>11. built \in Nat /\ built' \in Nat /\ built <= built'
  BY <1>1, BrokersAreBounded DEF RInv, TInv, Grown
<1>12. h \in 1..built'
  BY <1>3, <1>8, <1>10, <1>11
<1>13. Route(via[n], n)' \in Above(h)'
  <2>1. Route(via[n], n) \in Above(b)
    BY <1>4, <1>8
  <2>2. CASE h = b
    BY <1>6, <1>9, <2>1, <2>2
  <2>3. CASE h # b
    <3>1. (TInv => AboveSteps)'
      BY AboveIsWalk, PTL
    <3>2. Above(h)' = {h} \cup Above(b)'
      BY <1>1, <1>10, <1>12, <2>3, <3>1 DEF AboveSteps
    <3> QED BY <1>6, <1>9, <2>1, <3>2
  <2> QED BY <2>2, <2>3
<1>14. FoundAt(h, n)' # 0
  BY <1>2, <1>3, <1>5, <1>12, <1>13 DEF HiddenOrShared
<1>15. FoundAt(get_broker(m), n)' # 0 /\ get_broker(m)' # 0
  BY <1>7, <1>12, <1>14 DEF FoundAt
<1> QED BY <1>3, <1>15 DEF SeenFrom

(* No step hides a living parameter from the code of a module: a broker that  *)
(* is registered between the module and its broker so far has that broker as  *)
(* its parent (cci_broker_manager.cpp, get_broker and register_broker;        *)
(* broker.h, get_parent_broker).                                              *)
THEOREM RegisteringHidesNothing == Spec => SeenStaysSeen
<1>1. ASSUME RInv, [Next]_vars
      PROVE  \A m \in Place :
               SeenFrom(m) \cap {n \in Name : via'[n] # 0} \subseteq SeenFrom(m)'
  BY <1>1, SeenStep
<1>2. RInv /\ [Next]_vars
        => [\A m \in Place :
              SeenFrom(m) \cap {n \in Name : via'[n] # 0} \subseteq SeenFrom(m)']_vars
  BY <1>1
<1> QED BY <1>2, RegistrationInvariant, PTL DEF Spec, SeenStaysSeen

-----------------------------------------------------------------------------
(* Each broker as one store of presets.                                       *)

VInv ==
  /\ RInv
  /\ UInv
  /\ presetOrig \in [Broker -> [Name -> Originator \cup {Unknown}]]
  /\ locked \in [Broker -> SUBSET Name]

\* The preset broker h itself has for a name.
PresetAt(h, n) ==
  IF used[h][n] # NoValue \/ unused[h][n] # NoValue
  THEN [value |-> IF used[h][n] # NoValue THEN used[h][n] ELSE unused[h][n],
        orig |-> presetOrig[h][n]]
  ELSE NoValue

LEMMA ViewTypes ==
  ASSUME VInv, [Next]_vars
  PROVE  VInv'
<1>1. RInv' /\ UInv'
  BY RegistrationStep, UInvStep DEF VInv
<1>2. ASSUME UNCHANGED <<presetOrig, locked>>
      PROVE  VInv'
  BY <1>1, <1>2 DEF VInv
<1>3. ASSUME NEW b \in Broker, NEW n \in Name, NEW v \in Value, NEW o \in Originator,
             SetPreset(b, n, v, o)
      PROVE  VInv'
  <2> DEFINE h == Route(b, n)
  <2>1. presetOrig' = [presetOrig EXCEPT ![h][n] = o] /\ locked' = locked
    BY <1>3 DEF SetPreset
  <2> HIDE DEF h
  <2>2. presetOrig' \in [Broker -> [Name -> Originator \cup {Unknown}]]
    <3>1. CASE h \in Broker
      <4>1. [presetOrig[h] EXCEPT ![n] = o] \in [Name -> Originator \cup {Unknown}]
        BY <3>1 DEF VInv
      <4> QED BY <2>1, <3>1, <4>1 DEF VInv
    <3>2. CASE h \notin Broker
      BY <2>1, <3>2 DEF VInv
    <3> QED BY <3>1, <3>2
  <2> QED BY <1>1, <2>1, <2>2 DEF VInv
<1>4. ASSUME NEW b \in Broker, NEW n \in Name, LockPreset(b, n)
      PROVE  VInv'
  <2>1. locked' = [locked EXCEPT ![Route(b, n)] = @ \cup {n}] /\ presetOrig' = presetOrig
    BY <1>4 DEF LockPreset
  <2>2. locked' \in [Broker -> SUBSET Name]
    BY <2>1 DEF VInv
  <2> QED BY <1>1, <2>1, <2>2 DEF VInv
<1>5. CASE \E m \in Place, names \in Exposable :
             PrivateBroker(m, names) \/ RegisterBroker(m, names)
  BY <1>2, <1>5 DEF PrivateBroker, RegisterBroker, Build
<1>6. CASE \E b \in Broker, n \in Name : AddParam(b, n)
  BY <1>2, <1>6 DEF AddParam
<1>7. CASE \E n \in Name : ParamCalls(n)
  BY <1>2, <1>7 DEF ParamCalls, RemoveParam, Leave, Write, Reset, stores
<1>8. CASE UNCHANGED vars
  BY <1>2, <1>8 DEF vars
<1> QED BY <1>3, <1>4, <1>5, <1>6, <1>7, <1>8 DEF Next, BrokerCalls

LEMMA ViewInvariant == Spec => []VInv
<1>1. Init => VInv
  <2>1. Init => RInv
    BY BrokersAreBounded DEF Init, RInv, TInv, RegisteredAtRoute, Broker
  <2>2. Init => /\ presetOrig \in [Broker -> [Name -> Originator \cup {Unknown}]]
                /\ locked \in [Broker -> SUBSET Name]
    BY DEF Init
  <2> QED BY <2>1, <2>2, UInvInit DEF VInv
<1>2. VInv /\ [Next]_vars => VInv'
  BY ViewTypes
<1> QED BY <1>1, <1>2, PTL DEF Spec

\* What the view of broker b shows, in terms of the broker requests end at.
LEMMA ViewOfRoute ==
  ASSUME NEW b, NEW n
  PROVE  PresetSeenBy(b, n) = PresetAt(Route(b, n), n)
BY DEF PresetSeenBy, PresetAt, has_preset_value, get_preset_cci_value

\* Steps of the view, name by name.
ViewStep(b) == View(b)!Next \/ UNCHANGED View(b)!presets

LEMMA ViewQuiet ==
  ASSUME NEW b,
         \A n \in Name : /\ PresetSeenBy(b, n)' = PresetSeenBy(b, n)
                         /\ (n \in locked[Route(b, n)])' <=> (n \in locked[Route(b, n)])
  PROVE  ViewStep(b)
<1>1. [n \in Name |-> PresetSeenBy(b, n)]' = [n \in Name |-> PresetSeenBy(b, n)]
  OBVIOUS
<1>2. {n \in Name : n \in locked[Route(b, n)]}' = {n \in Name : n \in locked[Route(b, n)]}
  OBVIOUS
<1> QED BY <1>1, <1>2 DEF ViewStep, View!presets

LEMMA ViewSet ==
  ASSUME NEW b, NEW a \in Name, NEW v \in Value, NEW o \in Originator,
         a \notin locked[Route(b, a)],
         PresetSeenBy(b, a)' = [value |-> v, orig |-> o],
         \A n \in Name \ {a} : PresetSeenBy(b, n)' = PresetSeenBy(b, n),
         \A n \in Name : (n \in locked[Route(b, n)])' <=> (n \in locked[Route(b, n)])
  PROVE  ViewStep(b)
<1>1. [n \in Name |-> PresetSeenBy(b, n)]' =
        [[n \in Name |-> PresetSeenBy(b, n)] EXCEPT ![a] = [value |-> v, orig |-> o]]
  OBVIOUS
<1>2. {n \in Name : n \in locked[Route(b, n)]}' = {n \in Name : n \in locked[Route(b, n)]}
  OBVIOUS
<1>3. a \notin {n \in Name : n \in locked[Route(b, n)]}
  OBVIOUS
<1>4. View(b)!Set(a, v, o)
  BY <1>1, <1>2, <1>3 DEF View!Set
<1> QED BY <1>4 DEF ViewStep, View!Next

LEMMA ViewFreeze ==
  ASSUME NEW b, NEW a \in Name,
         \A n \in Name : PresetSeenBy(b, n)' = PresetSeenBy(b, n),
         \A n \in Name : (n \in locked[Route(b, n)])'
                           <=> (n \in locked[Route(b, n)] \/ n = a)
  PROVE  ViewStep(b)
<1>1. [n \in Name |-> PresetSeenBy(b, n)]' = [n \in Name |-> PresetSeenBy(b, n)]
  OBVIOUS
<1>2. {n \in Name : n \in locked[Route(b, n)]}' =
        {n \in Name : n \in locked[Route(b, n)]} \cup {a}
  OBVIOUS
<1>3. View(b)!Freeze(a)
  BY <1>1, <1>2 DEF View!Freeze
<1> QED BY <1>3 DEF ViewStep, View!Next

\* A step that leaves what every broker has for every name as it is.
LEMMA ViewsQuiet ==
  ASSUME VInv, [Next]_vars, NEW b \in 1..built, locked' = locked,
         \A h \in Broker, n \in Name : PresetAt(h, n)' = PresetAt(h, n)
  PROVE  ViewStep(b)
<1>1. ASSUME NEW n \in Name
      PROVE  /\ PresetSeenBy(b, n)' = PresetSeenBy(b, n)
             /\ (n \in locked[Route(b, n)])' <=> (n \in locked[Route(b, n)])
  <2>1. PICK h : h = Route(b, n)
    OBVIOUS
  <2>2. h \in Broker /\ Route(b, n)' = h
    BY <2>1, StepGrows, WalksStay, RoutesEnd, Parents DEF VInv, RInv, RouteEnds
  <2>3. PresetSeenBy(b, n) = PresetAt(h, n)
    BY <2>1, ViewOfRoute
  <2>4. PresetSeenBy(b, n)' = PresetAt(h, n)'
    BY <2>2 DEF PresetSeenBy, PresetAt, has_preset_value, get_preset_cci_value
  <2> QED BY <2>1, <2>2, <2>3, <2>4
<1> QED BY <1>1, ViewQuiet

\* Where requests to broker b end, before and after a step.
LEMMA RoutesStay ==
  ASSUME VInv, [Next]_vars, NEW b \in 1..built, NEW n \in Name
  PROVE  /\ Route(b, n) \in Broker /\ Route(b, n)' = Route(b, n)
         /\ PresetSeenBy(b, n)' = PresetAt(Route(b, n), n)'
BY StepGrows, WalksStay, RoutesEnd, Parents
   DEF VInv, RInv, RouteEnds, PresetSeenBy, PresetAt, has_preset_value,
       get_preset_cci_value

LEMMA SetPresetViews ==
  ASSUME VInv, [Next]_vars, NEW b \in 1..built, NEW c \in Broker, NEW a \in Name,
         NEW v \in Value, NEW o \in Originator, SetPreset(c, a, v, o)
  PROVE  ViewStep(b)
<1>1. PICK h : h = Route(c, a)
  OBVIOUS
<1>2. /\ a \notin locked[h] /\ locked' = locked
      /\ presetOrig' = [presetOrig EXCEPT ![h][a] = o]
      /\ \/ used[h][a] # NoValue /\ used' = [used EXCEPT ![h][a] = v]
              /\ unused' = unused
         \/ used[h][a] = NoValue /\ unused' = [unused EXCEPT ![h][a] = v]
              /\ used' = used
  BY <1>1 DEF SetPreset
<1>3. /\ used \in Slots /\ unused \in Slots
      /\ presetOrig \in [Broker -> [Name -> Originator \cup {Unknown}]]
  BY DEF VInv, UInv
<1>4. c \in 1..built /\ h \in Broker
  <2>1. c \in 1..built
    BY Parents DEF SetPreset, Broker, VInv, RInv
  <2> QED BY <1>1, <2>1, RoutesStay
<1>5. PresetAt(h, a)' = [value |-> v, orig |-> o]
  <2>1. presetOrig'[h][a] = o /\ v # NoValue
    BY <1>2, <1>3, <1>4, NoValueIsNoValue
  <2>2. \/ used'[h][a] = v
        \/ used'[h][a] = NoValue /\ unused'[h][a] = v
    BY <1>2, <1>3, <1>4 DEF Slots
  <2> QED BY <2>1, <2>2 DEF PresetAt
<1>6. ASSUME NEW k \in Broker, NEW n \in Name, ~(k = h /\ n = a)
      PROVE  PresetAt(k, n)' = PresetAt(k, n)
  <2>1. /\ used'[k][n] = used[k][n] /\ unused'[k][n] = unused[k][n]
        /\ presetOrig'[k][n] = presetOrig[k][n]
    BY <1>2, <1>3, <1>6 DEF Slots
  <2> QED BY <2>1 DEF PresetAt
<1>7. \A n \in Name : (n \in locked[Route(b, n)])' <=> (n \in locked[Route(b, n)])
  BY <1>2, RoutesStay
<1>8. ASSUME NEW n \in Name, ~(Route(b, n) = h /\ n = a)
      PROVE  PresetSeenBy(b, n)' = PresetSeenBy(b, n)
  BY <1>6, <1>8, RoutesStay, ViewOfRoute
<1>9. CASE Route(b, a) = h
  <2>1. PresetSeenBy(b, a)' = [value |-> v, orig |-> o]
    BY <1>5, <1>9, RoutesStay
  <2>2. a \notin locked[Route(b, a)]
    BY <1>2, <1>9
  <2>3. \A n \in Name \ {a} : PresetSeenBy(b, n)' = PresetSeenBy(b, n)
    BY <1>8
  <2> QED BY <1>7, <2>1, <2>2, <2>3, ViewSet
<1>10. CASE Route(b, a) # h
  <2>1. \A n \in Name : PresetSeenBy(b, n)' = PresetSeenBy(b, n)
    BY <1>8, <1>10
  <2> QED BY <1>7, <2>1, ViewQuiet
<1> QED BY <1>9, <1>10

LEMMA LockPresetViews ==
  ASSUME VInv, [Next]_vars, NEW b \in 1..built, NEW c \in Broker, NEW a \in Name,
         LockPreset(c, a)
  PROVE  ViewStep(b)
<1>1. PICK h : h = Route(c, a)
  OBVIOUS
<1>2. /\ locked' = [locked EXCEPT ![h] = @ \cup {a}]
      /\ UNCHANGED <<used, unused, presetOrig>>
      /\ locked \in [Broker -> SUBSET Name]
  BY <1>1 DEF LockPreset, VInv
<1>3. h \in Broker
  <2>1. c \in 1..built
    BY Parents DEF LockPreset, Broker, VInv, RInv
  <2> QED BY <1>1, <2>1, RoutesStay
<1>4. \A n \in Name : PresetSeenBy(b, n)' = PresetSeenBy(b, n)
  <2>1. \A k \in Broker, n \in Name : PresetAt(k, n)' = PresetAt(k, n)
    BY <1>2 DEF PresetAt
  <2> QED BY <2>1, RoutesStay, ViewOfRoute
<1>5. ASSUME NEW n \in Name
      PROVE  (n \in locked[Route(b, n)])'
               <=> (n \in locked[Route(b, n)] \/ (n = a /\ Route(b, n) = h))
  <2>1. Route(b, n) \in Broker /\ Route(b, n)' = Route(b, n)
    BY RoutesStay
  <2>2. \A k \in Broker : n \in locked'[k] <=> (n \in locked[k] \/ (n = a /\ k = h))
    BY <1>2, <1>3
  <2> QED BY <2>1, <2>2
<1>6. CASE Route(b, a) = h
  <2>1. \A n \in Name : (n \in locked[Route(b, n)])'
                          <=> (n \in locked[Route(b, n)] \/ n = a)
    BY <1>5, <1>6
  <2> QED BY <1>4, <2>1, ViewFreeze
<1>7. CASE Route(b, a) # h
  <2>1. \A n \in Name : (n \in locked[Route(b, n)])' <=> (n \in locked[Route(b, n)])
    BY <1>5, <1>7
  <2> QED BY <1>4, <2>1, ViewQuiet
<1> QED BY <1>6, <1>7

\* A preset changes hands between the value registries of one broker.
LEMMA HandOver ==
  ASSUME VInv, NEW h \in Broker, NEW a \in Name,
         presetOrig' = presetOrig,
         \/ used[h][a] = NoValue /\ used' = [used EXCEPT ![h][a] = unused[h][a]]
              /\ unused' = [unused EXCEPT ![h][a] = NoValue]
         \/ unused[h][a] = NoValue /\ unused' = [unused EXCEPT ![h][a] = used[h][a]]
              /\ used' = [used EXCEPT ![h][a] = NoValue]
         \/ UNCHANGED <<used, unused>>
  PROVE  \A k \in Broker, n \in Name : PresetAt(k, n)' = PresetAt(k, n)
<1> SUFFICES ASSUME NEW k \in Broker, NEW n \in Name
             PROVE  PresetAt(k, n)' = PresetAt(k, n)
  OBVIOUS
<1>1. used \in Slots /\ unused \in Slots
  BY DEF VInv, UInv
<1>2. CASE k = h /\ n = a
  <2>1. \/ used[k][n] = NoValue /\ used'[k][n] = unused[k][n] /\ unused'[k][n] = NoValue
        \/ unused[k][n] = NoValue /\ unused'[k][n] = used[k][n] /\ used'[k][n] = NoValue
        \/ used'[k][n] = used[k][n] /\ unused'[k][n] = unused[k][n]
    BY <1>1, <1>2 DEF Slots
  <2> QED BY <2>1 DEF PresetAt
<1>3. CASE ~(k = h /\ n = a)
  <2>1. used'[k][n] = used[k][n] /\ unused'[k][n] = unused[k][n]
    BY <1>1, <1>3 DEF Slots
  <2> QED BY <2>1 DEF PresetAt
<1> QED BY <1>2, <1>3

LEMMA ViewsStep ==
  ASSUME VInv, [Next]_vars, NEW b \in 1..built
  PROVE  ViewStep(b)
<1>1. ASSUME UNCHANGED <<used, unused, presetOrig, locked>>
      PROVE  ViewStep(b)
  <2>1. \A k \in Broker, n \in Name : PresetAt(k, n)' = PresetAt(k, n)
    BY <1>1 DEF PresetAt
  <2> QED BY <1>1, <2>1, ViewsQuiet
<1>2. ASSUME NEW c \in Broker, NEW a \in Name, AddParam(c, a)
      PROVE  ViewStep(b)
  <2>1. c \in 1..built
    BY <1>2, Parents DEF AddParam, Broker, VInv, RInv
  <2>2. PICK h : h = Route(c, a)
    OBVIOUS
  <2>3. h \in Broker
    BY <2>1, <2>2, RoutesStay
  <2>4. /\ UNCHANGED <<presetOrig, locked>>
        /\ \/ unused[h][a] # NoValue /\ used' = [used EXCEPT ![h][a] = unused[h][a]]
                /\ unused' = [unused EXCEPT ![h][a] = NoValue]
           \/ UNCHANGED <<used, unused>>
    BY <1>2, <2>2 DEF AddParam
  <2>5. unused[h][a] # NoValue => used[h][a] = NoValue
    BY <2>3 DEF VInv, UInv, UsedIsRegistered
  <2>6. \A k \in Broker, n \in Name : PresetAt(k, n)' = PresetAt(k, n)
    BY <2>3, <2>4, <2>5, HandOver
  <2> QED BY <2>4, <2>6, ViewsQuiet
<1>3. ASSUME NEW a \in Name, RemoveParam(a)
      PROVE  ViewStep(b)
  <2>1. via[a] \in 1..built
    BY <1>3, Parents DEF RemoveParam, VInv, RInv, TInv
  <2>2. PICK h : h = Route(via[a], a)
    OBVIOUS
  <2>3. h \in Broker
    BY <2>1, <2>2, RoutesEnd, Parents DEF VInv, RInv, RouteEnds
  <2>4. /\ UNCHANGED <<presetOrig, locked>>
        /\ \/ used[h][a] # NoValue /\ unused' = [unused EXCEPT ![h][a] = used[h][a]]
                /\ used' = [used EXCEPT ![h][a] = NoValue]
           \/ UNCHANGED <<used, unused>>
    BY <1>3, <2>2 DEF RemoveParam, Leave
  <2>5. used[h][a] # NoValue => unused[h][a] = NoValue
    BY <2>3 DEF VInv, UInv, UsedIsRegistered
  <2>6. \A k \in Broker, n \in Name : PresetAt(k, n)' = PresetAt(k, n)
    BY <2>3, <2>4, <2>5, HandOver
  <2> QED BY <2>4, <2>6, ViewsQuiet
<1>4. CASE \E m \in Place, names \in Exposable :
             PrivateBroker(m, names) \/ RegisterBroker(m, names)
  BY <1>1, <1>4 DEF PrivateBroker, RegisterBroker, Build
<1>5. CASE \E c \in Broker, a \in Name : BrokerCalls(c, a)
  BY <1>2, <1>5, SetPresetViews, LockPresetViews DEF BrokerCalls
<1>6. CASE \E a \in Name : ParamCalls(a)
  BY <1>1, <1>3, <1>6 DEF ParamCalls, Write, Reset, stores
<1>7. CASE UNCHANGED vars
  BY <1>1, <1>7 DEF vars
<1> QED BY <1>4, <1>5, <1>6, <1>7 DEF Next

(* Every broker of a design is to its users one store of presets: a step      *)
(* sets a preset that is not locked, locks one, or changes nothing in it,     *)
(* whatever the brokers it shares names with do and whichever of its two      *)
(* value registries holds the preset (broker.cpp, set_preset_cci_value,       *)
(* lock_preset_value and add_param; consuming_broker.cpp, remove_param).      *)
THEOREM BrokersAreStores == Spec => ViewsAreStores
<1>1. VInv /\ [Next]_vars
        => [\A b \in 1..built : View(b)!Next \/ UNCHANGED View(b)!presets]_vars
  BY ViewsStep DEF ViewStep
<1> QED BY <1>1, ViewInvariant, PTL DEF Spec, ViewsAreStores

-----------------------------------------------------------------------------
(* Where the value of each parameter comes from.                              *)

OriginTyped == origin \in [Name -> Originator \cup {Unknown}]

LEMMA OriginStep == VInv /\ OriginTyped /\ [Next]_vars => OriginTyped'
<1> SUFFICES ASSUME VInv, OriginTyped, [Next]_vars PROVE OriginTyped'
  OBVIOUS
<1> DEFINE Known == Originator \cup {Unknown}
<1>1. \A h \in Broker, n \in Name : presetOrig[h][n] \in Known
  BY DEF VInv
<1>2. CASE UNCHANGED origin
  BY <1>2 DEF OriginTyped
<1>3. ASSUME NEW n \in Name, NEW o \in Known, origin' = [origin EXCEPT ![n] = o]
      PROVE  OriginTyped'
  BY <1>3 DEF OriginTyped
<1>4. ASSUME NEW b \in Broker, NEW n \in Name, AddParam(b, n)
      PROVE  OriginTyped'
  <2>1. b \in 1..built
    BY <1>4 DEF AddParam, Broker, VInv, RInv, TInv
  <2>2. Route(b, n) \in Broker
    BY <2>1, RoutesEnd, Parents DEF VInv, RInv, RouteEnds
  <2>3. get_value_origin(b, n) \in Known
    BY <1>1, <2>2 DEF get_value_origin, OriginTyped
  <2> QED BY <1>3, <1>4, <2>3, OwnerIsKnown DEF AddParam
<1>5. ASSUME NEW n \in Name, Reset(n)
      PROVE  OriginTyped'
  <2>1. via[n] \in Broker
    BY <1>5, Parents DEF Reset, VInv, RInv, TInv
  <2>2. get_preset_value_origin(via[n], n) \in Known
    BY <1>1, <2>1 DEF get_preset_value_origin
  <2> QED BY <1>3, <1>5, <2>2, OwnerIsKnown DEF Reset
<1>6. ASSUME NEW n \in Name, NEW o \in Originator, Write(n, o)
      PROVE  OriginTyped'
  BY <1>3, <1>6 DEF Write
<1>7. CASE \E m \in Place, names \in Exposable :
             PrivateBroker(m, names) \/ RegisterBroker(m, names)
  BY <1>2, <1>7 DEF PrivateBroker, RegisterBroker, Build
<1>8. CASE \E b \in Broker, n \in Name : BrokerCalls(b, n)
  BY <1>2, <1>4, <1>8 DEF BrokerCalls, SetPreset, LockPreset
<1>9. CASE \E n \in Name : ParamCalls(n)
  BY <1>2, <1>5, <1>6, <1>9 DEF ParamCalls, RemoveParam, Leave
<1>10. CASE UNCHANGED vars
  BY <1>2, <1>10 DEF vars
<1> QED BY <1>7, <1>8, <1>9, <1>10 DEF Next

(* Type correctness: a broker's parent was built before it, so that every     *)
(* walk up the hierarchy ends, no call is forwarded to a broker that does not *)
(* exist, and the originator of a value is never read from such a broker      *)
(* (broker.h, m_parent; broker.cpp, add_param and get_value_origin).          *)
THEOREM HierarchyIsTyped == Spec => []TypeOK
<1>1. Init => OriginTyped
  BY DEF Init, OriginTyped
<1>2. VInv /\ OriginTyped => TypeOK
  BY DEF VInv, RInv, TInv, UInv, Slots, OriginTyped, TypeOK
<1> QED BY <1>1, <1>2, OriginStep, ViewInvariant, PTL DEF Spec
=============================================================================
