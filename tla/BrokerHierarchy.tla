--------------------------- MODULE BrokerHierarchy ---------------------------
(* cci_utils::broker and cci_broker_manager: brokers of the modules of a      *)
(* design, each forwarding the names it exposes to the broker that was        *)
(* nearest above when it was built, and the parameters that use them.         *)
(*                                                                            *)
(* What one broker does with a name is that of ConsumingBroker, taken here    *)
(* without callbacks: a parameter enters and leaves in one step.  "expose" is *)
(* a public set; its owner fills it when it builds the broker.                *)
EXTENDS Integers, Sequences, FiniteSets

CONSTANTS
  Place,         \* modules of the design, and Outside
  Outside,       \* no current object: sc_main before and after elaboration
  Path,          \* a place and the places around it, innermost first
  MaxBrokers,    \* bound: brokers built
  Name,          \* hierarchical names of parameters
  Exposable,     \* the sets of names a broker may expose
  Value,         \* preset values
  NoValue,       \* a name a value registry does not hold
  Originator,
  Unknown,       \* the unknown originator
  Owner          \* the originator of a parameter's default value

ASSUME PathsLeadOutside ==
  /\ Path \in [Place -> Seq(Place)]
  /\ \A m \in Place : /\ Path[m] # <<>>
                      /\ Path[m][1] = m
                      /\ Path[m][Len(Path[m])] = Outside
ASSUME PathsNest ==
  \A m \in Place : \A i \in 1..Len(Path[m]) :
    Path[Path[m][i]] = SubSeq(Path[m], i, Len(Path[m]))
ASSUME BrokersAreBounded == MaxBrokers \in Nat
ASSUME ExposableIsNames == Exposable \subseteq SUBSET Name
ASSUME NoValueIsNoValue == NoValue \notin Value
ASSUME OwnerIsKnown == Owner \in Originator /\ Unknown \notin Originator

VARIABLES
  built,       \* brokers are numbered in the order they are built
  m_brokers,   \* the broker registered at each place, 0 if none
  parent,      \* m_parent, 0 if ~has_parent
  expose,
  registry,    \* the names each m_param_registry holds
  unused,      \* m_unused_value_registry
  used,        \* m_used_value_registry
  presetOrig,  \* m_preset_value_originator_map, Unknown where it has no entry
  locked,
  via,         \* m_broker_handle of the parameter of each name, 0 if none
  origin       \* its m_value_origin

stores == <<registry, unused, used, presetOrig, locked>>
topology == <<built, m_brokers, parent, expose>>
vars == <<built, m_brokers, parent, expose, registry, unused, used,
          presetOrig, locked, via, origin>>

Broker == 1..MaxBrokers

TypeOK ==
  /\ built \in 0..MaxBrokers
  /\ m_brokers \in [Place -> 0..built]
  /\ parent \in [Broker -> 0..built]
  /\ expose \in [Broker -> SUBSET Name]
  /\ registry \in [Broker -> SUBSET Name]
  /\ unused \in [Broker -> [Name -> Value \cup {NoValue}]]
  /\ used \in [Broker -> [Name -> Value \cup {NoValue}]]
  /\ presetOrig \in [Broker -> [Name -> Originator \cup {Unknown}]]
  /\ locked \in [Broker -> SUBSET Name]
  /\ via \in [Name -> 0..built]
  /\ origin \in [Name -> Originator \cup {Unknown}]
  /\ \A b \in 1..built : parent[b] < b

Init ==
  /\ built = 0
  /\ m_brokers = [m \in Place |-> 0]
  /\ parent = [b \in Broker |-> 0]
  /\ expose = [b \in Broker |-> {}]
  /\ registry = [b \in Broker |-> {}]
  /\ unused = [b \in Broker |-> [n \in Name |-> NoValue]]
  /\ used = [b \in Broker |-> [n \in Name |-> NoValue]]
  /\ presetOrig = [b \in Broker |-> [n \in Name |-> Unknown]]
  /\ locked = [b \in Broker |-> {}]
  /\ via = [n \in Name |-> 0]
  /\ origin = [n \in Name |-> Unknown]

-----------------------------------------------------------------------------
(* Finding a broker.                                                          *)

\* The broker registered nearest to a place, 0 if there is none.
get_broker(m) ==
  LET some == {i \in 1..Len(Path[m]) : m_brokers[Path[m][i]] # 0}
  IN IF some = {} THEN 0
     ELSE m_brokers[Path[m][CHOOSE i \in some : \A j \in some : i <= j]]

\* Mutant: the parent is always the global broker.
ParentAtGlobal(m) == IF m = Outside THEN 0 ELSE m_brokers[Outside]

\* get_parent_broker: a broker built outside of the modules is a global one.
ParentAt(m) == IF m = Outside THEN 0 ELSE get_broker(m)

\* Without a broker above, the error of get_broker aborts the program.
MayBuild(m) == built < MaxBrokers /\ (m = Outside \/ get_broker(m) # 0)

Build(m, names) ==
  /\ MayBuild(m)
  /\ built' = built + 1
  /\ parent' = [parent EXCEPT ![built + 1] = ParentAt(m)]
  /\ expose' = [expose EXCEPT ![built + 1] = names]
  /\ UNCHANGED <<registry, unused, used, presetOrig, locked, via, origin>>

\* A broker that is only handed to parameters.
PrivateBroker(m, names) ==
  /\ Build(m, names)
  /\ UNCHANGED m_brokers

\* A broker built and registered at a place.  The second one there is refused.
RegisterBroker(m, names) ==
  /\ Build(m, names)
  /\ m_brokers' = IF m_brokers[m] = 0 THEN [m_brokers EXCEPT ![m] = built + 1]
                                      ELSE m_brokers

-----------------------------------------------------------------------------
(* Forwarding.                                                                *)

sendToParent(b, n) == n \in expose[b] /\ parent[b] # 0

\* The broker whose own maps serve a request for n made of b.
Route(b, n) ==
  LET route[c \in 0..built] ==
        IF c # 0 /\ sendToParent(c, n) THEN route[parent[c]] ELSE c
  IN route[b]

\* Mutant: an unexposed name is looked for in b alone.
FoundAtPrivate(b, n) == IF n \in registry[Route(b, n)] THEN Route(b, n) ELSE 0

\* get_param_handle: the broker whose parameter is found, 0 if none is.
FoundAt(b, n) ==
  LET found[c \in 0..built] ==
        IF c = 0 \/ (c # 0 /\ ~sendToParent(c, n) /\ n \in registry[c])
        THEN c ELSE found[parent[c]]
  IN found[b]

\* Mutant: the parent's parameters are not listed.
get_param_handles_own(b) == registry[b]

get_param_handles(b) ==
  LET list[c \in 0..built] ==
        IF c = 0 THEN {} ELSE registry[c] \cup list[parent[c]]
  IN list[b]

\* A parameter, if any, answers for its preset.
get_value_origin(b, n) ==
  LET h == Route(b, n)
  IN IF n \in registry[h] THEN origin[n] ELSE presetOrig[h][n]

\* Not forwarded: broker inherits it from consuming_broker.
get_preset_value_origin(b, n) == presetOrig[b][n]

has_preset_value(b, n) ==
  LET h == Route(b, n) IN used[h][n] # NoValue \/ unused[h][n] # NoValue

get_preset_cci_value(b, n) ==
  LET h == Route(b, n)
  IN IF used[h][n] # NoValue THEN used[h][n] ELSE unused[h][n]

-----------------------------------------------------------------------------
(* Presets.                                                                   *)

\* Mutant: the lock is looked for in the broker that was asked.
SetPresetHere(b, n, v, o) ==
  LET h == Route(b, n)
  IN /\ b <= built /\ n \notin locked[b]
     /\ IF used[h][n] # NoValue
        THEN used' = [used EXCEPT ![h][n] = v] /\ UNCHANGED unused
        ELSE unused' = [unused EXCEPT ![h][n] = v] /\ UNCHANGED used
     /\ presetOrig' = [presetOrig EXCEPT ![h][n] = o]
     /\ UNCHANGED <<built, m_brokers, parent, expose, registry, locked, via,
                    origin>>

SetPreset(b, n, v, o) ==
  LET h == Route(b, n)
  IN /\ b <= built /\ n \notin locked[h]
     /\ IF used[h][n] # NoValue
        THEN used' = [used EXCEPT ![h][n] = v] /\ UNCHANGED unused
        ELSE unused' = [unused EXCEPT ![h][n] = v] /\ UNCHANGED used
     /\ presetOrig' = [presetOrig EXCEPT ![h][n] = o]
     /\ UNCHANGED <<built, m_brokers, parent, expose, registry, locked, via,
                    origin>>

LockPreset(b, n) ==
  /\ b <= built
  /\ locked' = [locked EXCEPT ![Route(b, n)] = @ \cup {n}]
  /\ UNCHANGED <<topology, registry, unused, used, presetOrig, via, origin>>

-----------------------------------------------------------------------------
(* Parameters.  Names are unique: one parameter of a name at a time.          *)

\* The constructor: init() applies a preset, then add_param.
AddParam(b, n) ==
  LET h == Route(b, n)
  IN /\ b <= built /\ via[n] = 0
     /\ via' = [via EXCEPT ![n] = b]
     /\ origin' = [origin EXCEPT ![n] =
                     IF has_preset_value(b, n) THEN get_value_origin(b, n)
                                               ELSE Owner]
     /\ registry' = [registry EXCEPT ![h] = @ \cup {n}]
     /\ IF unused[h][n] # NoValue
        THEN /\ used' = [used EXCEPT ![h][n] = unused[h][n]]
             /\ unused' = [unused EXCEPT ![h][n] = NoValue]
        ELSE UNCHANGED <<used, unused>>
     /\ UNCHANGED <<topology, presetOrig, locked>>

\* The parameter's name leaves broker h, its preset waits there for the next.
Leave(n, h) ==
  /\ via' = [via EXCEPT ![n] = 0]
  /\ registry' = [registry EXCEPT ![h] = @ \ {n}]
  /\ IF used[h][n] # NoValue
     THEN /\ unused' = [unused EXCEPT ![h][n] = used[h][n]]
          /\ used' = [used EXCEPT ![h][n] = NoValue]
     ELSE UNCHANGED <<used, unused>>
  /\ UNCHANGED <<topology, presetOrig, locked, origin>>

\* Mutants: the removal is not forwarded; the preset is not given back.
RemoveParamHere(n) == via[n] # 0 /\ Leave(n, via[n])

RemoveParamUsed(n) ==
  /\ via[n] # 0
  /\ via' = [via EXCEPT ![n] = 0]
  /\ registry' = [registry EXCEPT ![Route(via[n], n)] = @ \ {n}]
  /\ UNCHANGED <<topology, unused, used, presetOrig, locked, origin>>

RemoveParam(n) == via[n] # 0 /\ Leave(n, Route(via[n], n))

\* A write through a handle, or by the owner.
Write(n, o) ==
  /\ via[n] # 0
  /\ origin' = [origin EXCEPT ![n] = o]
  /\ UNCHANGED <<topology, stores, via>>

\* reset(): the preset, with the originator the broker names, or the default.
Reset(n) ==
  /\ via[n] # 0
  /\ origin' = [origin EXCEPT ![n] =
                  IF has_preset_value(via[n], n)
                  THEN get_preset_value_origin(via[n], n) ELSE Owner]
  /\ UNCHANGED <<topology, stores, via>>

-----------------------------------------------------------------------------
\* Calls of the brokers' interface, made through handles that add the
\* originator, and of the parameters.
BrokerCalls(b, n) ==
  \/ \E v \in Value, o \in Originator : SetPreset(b, n, v, o)
  \/ LockPreset(b, n)
  \/ AddParam(b, n)

ParamCalls(n) ==
  \/ RemoveParam(n)
  \/ \E o \in Originator : Write(n, o)
  \/ Reset(n)

Next ==
  \/ \E m \in Place, names \in Exposable :
       PrivateBroker(m, names) \/ RegisterBroker(m, names)
  \/ \E b \in Broker, n \in Name : BrokerCalls(b, n)
  \/ \E n \in Name : ParamCalls(n)

Spec == Init /\ [][Next]_vars

-----------------------------------------------------------------------------
(* Properties.                                                                *)

(* Through all the forwarding, a parameter is in the registry of exactly the  *)
(* broker its own broker routes its name to, so that its destructor takes it  *)
(* out of the registry it entered (broker.cpp, add_param and remove_param).   *)
RegisteredAtRoute ==
  \A n \in Name :
    {b \in Broker : n \in registry[b]} =
      IF via[n] = 0 THEN {} ELSE {Route(via[n], n)}

(* A preset is consumed only in the broker that holds the parameter, and is   *)
(* never in both value registries (consuming_broker.cpp, reached through      *)
(* broker.cpp).                                                               *)
UsedIsRegistered ==
  \A b \in Broker, n \in Name :
    used[b][n] # NoValue => n \in registry[b] /\ unused[b][n] = NoValue

Above(b) ==
  LET above[c \in 0..built] ==
        IF c = 0 THEN {} ELSE {c} \cup above[parent[c]]
  IN above[b]

(* A parameter is hidden or shared: a broker finds it exactly if the broker   *)
(* that holds it is the same or one above; nothing below or beside leaks out, *)
(* nothing above is cut off by a name exposed in between (broker.cpp,         *)
(* get_param_handle).                                                         *)
HiddenOrShared ==
  \A b \in 1..built, n \in Name :
    (FoundAt(b, n) # 0)
      <=> via[n] # 0 /\ Route(via[n], n) \in Above(b)

(* The list of handles holds the parameters a lookup by name finds, and no    *)
(* others, although the two walk up the brokers differently (broker.cpp,      *)
(* get_param_handles and get_param_handle).                                   *)
ListIsWhatIsFound ==
  \A b \in 1..built :
    get_param_handles(b) = {n \in Name : FoundAt(b, n) # 0}

SeenFrom(m) == {n \in Name : get_broker(m) # 0 /\ FoundAt(get_broker(m), n) # 0}

(* Building and registering another broker, here or anywhere above, hides no  *)
(* parameter from code that saw it before (cci_broker_manager.cpp, get_broker *)
(* and register_broker; broker.h, get_parent_broker).                         *)
SeenStaysSeen ==
  [][\A m \in Place :
       SeenFrom(m) \cap {n \in Name : via'[n] # 0} \subseteq SeenFrom(m)']_vars

PresetSeenBy(b, n) ==
  IF has_preset_value(b, n)
  THEN [value |-> get_preset_cci_value(b, n), orig |-> presetOrig[Route(b, n)][n]]
  ELSE NoValue

View(b) == INSTANCE PresetStore WITH
  NoPreset <- NoValue,
  presetOf <- [n \in Name |-> PresetSeenBy(b, n)],
  locked <- {n \in Name : n \in locked[Route(b, n)]}

(* To its users each broker is one store of presets, whatever is set, locked, *)
(* constructed and destroyed through the brokers it shares names with         *)
(* (broker.cpp, set_preset_cci_value, lock_preset_value, add_param).          *)
ViewsAreStores ==
  [][\A b \in 1..built : View(b)!Next \/ UNCHANGED View(b)!presets]_vars

-----------------------------------------------------------------------------
(* What the documentation promises and the code does not keep.                *)

(* "Upon success, the value originator will be updated to reflect the origin  *)
(* of the initial value." (cci_param_if.h, reset)                             *)
ResetNamesOrigin ==
  [][\A n \in Name :
       (Reset(n) /\ has_preset_value(via[n], n))
         => origin'[n] = presetOrig[Route(via[n], n)][n]]_vars
=============================================================================
