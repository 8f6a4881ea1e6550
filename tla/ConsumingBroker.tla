--------------------------- MODULE ConsumingBroker ---------------------------
(* cci_utils::consuming_broker: the registry of parameters, the preset values *)
(* waiting for a parameter (unused) or taken by one (used), the originators   *)
(* of the presets, the locked names, and the create and destroy callbacks.    *)
(*                                                                            *)
(* A parameter enters at the end of its constructor (cci_param_if::init) and  *)
(* leaves in its destructor (cci_param_if::destroy).  Both run callbacks,     *)
(* user code that may use the broker, construct and destroy other parameters, *)
(* or wait().  As in CciParam, a step is the library code between two such    *)
(* points and stack[p] holds the constructors and destructors of p that are   *)
(* waiting for a callback, innermost first.  A name is a parameter's own      *)
(* until its destructor has ended or its constructor is unwound               *)
(* (cci_gen_unique_name, cci_unregister_name).                                *)
EXTENDS Naturals, Sequences, FiniteSets, CallbackVectors

CONSTANTS
  Proc,           \* SystemC processes (and the elaboration code)
  Name,           \* hierarchical names of parameters
  Value,          \* preset values
  NoValue,        \* a name a value registry does not hold
  Originator,
  NoOriginator,   \* a name the originator map does not hold
  Callback,       \* callback handles
  Ignorable,      \* the sets of names the ignore predicates may match
  MaxCallbacks    \* bound: callbacks registered at a time

ASSUME NoValueIsNone == NoValue \notin Value
ASSUME NoOriginatorIsNone == NoOriginator \notin Originator
ASSUME IgnorableIsNames == Ignorable \subseteq SUBSET Name

VARIABLES
  registry,     \* the names m_param_registry holds
  unused,       \* m_unused_value_registry
  used,         \* m_used_value_registry
  presetOrig,   \* m_preset_value_originator_map
  locked,       \* locked
  ignored,      \* the names m_ignored_unconsumed_predicates match
  cbs,          \* m_create_callbacks ("add"), m_destroy_callbacks ("remove")
  phase,        \* how far the parameter of each name has come
  stack         \* add_param and remove_param in progress, innermost first

vars == <<registry, unused, used, presetOrig, locked, ignored, cbs, phase,
          stack>>

Kind == {"add", "remove"}

\* "orphaned": the constructor was unwound after it had entered the registry.
Phase == {"none", "adding", "live", "removing", "orphaned"}

Entry == [cb : Callback, orig : Originator]

Frame == [op : Kind, name : Name, at : Nat]

TypeOK ==
  /\ registry \subseteq Name
  /\ unused \in [Name -> Value \cup {NoValue}]
  /\ used \in [Name -> Value \cup {NoValue}]
  /\ presetOrig \in [Name -> Originator \cup {NoOriginator}]
  /\ locked \subseteq Name
  /\ ignored \subseteq Name
  /\ cbs \in [Kind -> Seq(Entry)]
  /\ phase \in [Name -> Phase]
  /\ stack \in [Proc -> Seq(Frame)]

Init ==
  /\ registry = {}
  /\ unused = [n \in Name |-> NoValue]
  /\ used = [n \in Name |-> NoValue]
  /\ presetOrig = [n \in Name |-> NoOriginator]
  /\ locked = {}
  /\ ignored = {}
  /\ cbs = [k \in Kind |-> <<>>]
  /\ phase = [n \in Name |-> "none"]
  /\ stack = [p \in Proc |-> <<>>]

Busy(p) == stack[p] # <<>>
Top(p) == Head(stack[p])

-----------------------------------------------------------------------------
(* Queries.                                                                   *)

has_preset_value(n) == used[n] # NoValue \/ unused[n] # NoValue

get_preset_cci_value(n) == IF used[n] # NoValue THEN used[n] ELSE unused[n]

get_unconsumed_preset_values == {n \in Name \ ignored : unused[n] # NoValue}

-----------------------------------------------------------------------------
(* Preset values.                                                             *)

\* Mutant: the lock only protects presets no parameter has taken.
SetPresetLocked(n, v, o) ==
  /\ n \notin locked \/ used[n] # NoValue
  /\ used' = [used EXCEPT ![n] = IF @ # NoValue THEN v ELSE @]
  /\ unused' = [unused EXCEPT ![n] = IF used[n] # NoValue THEN @ ELSE v]
  /\ presetOrig' = [presetOrig EXCEPT ![n] = o]
  /\ UNCHANGED <<registry, locked, ignored, cbs, phase, stack>>

\* Mutant: a preset whose parameter exists is kept with the unused ones too.
SetPresetBoth(n, v, o) ==
  /\ n \notin locked
  /\ unused' = [unused EXCEPT ![n] = v]
  /\ presetOrig' = [presetOrig EXCEPT ![n] = o]
  /\ UNCHANGED <<registry, used, locked, ignored, cbs, phase, stack>>

\* A locked name is left alone (and reported as an error).
SetPreset(n, v, o) ==
  /\ n \notin locked
  /\ \/ /\ used[n] # NoValue
        /\ used' = [used EXCEPT ![n] = v]
        /\ UNCHANGED unused
     \/ /\ used[n] = NoValue
        /\ unused' = [unused EXCEPT ![n] = v]
        /\ UNCHANGED used
  /\ presetOrig' = [presetOrig EXCEPT ![n] = o]
  /\ UNCHANGED <<registry, locked, ignored, cbs, phase, stack>>

LockPreset(n) ==
  /\ locked' = locked \cup {n}
  /\ UNCHANGED <<registry, unused, used, presetOrig, ignored, cbs, phase,
                 stack>>

IgnoreUnconsumed(pred) ==
  /\ ignored' = ignored \cup pred
  /\ UNCHANGED <<registry, unused, used, presetOrig, locked, cbs, phase,
                 stack>>

-----------------------------------------------------------------------------
(* Parameters.  "rest" is the stack under the operation that ends.            *)

\* Moves n's value between the registries; std::map::insert keeps what is there.
Take(n) ==
  /\ used' = [used EXCEPT ![n] = IF @ = NoValue THEN unused[n] ELSE @]
  /\ unused' = [unused EXCEPT ![n] = NoValue]

GiveBack(n) ==
  /\ unused' = [unused EXCEPT ![n] = IF @ = NoValue THEN used[n] ELSE @]
  /\ used' = [used EXCEPT ![n] = NoValue]

Invoke(p, f, rest) == stack' = [stack EXCEPT ![p] = <<f>> \o rest]

Call(op, n) == [op |-> op, name |-> n, at |-> 1]

\* The constructor of the parameter named n: add_param up to its first callback.
AddParam(p, n) ==
  /\ phase[n] \in {"none", "orphaned"}
  /\ n \notin registry    \* asserted: "added twice"
  /\ registry' = registry \cup {n}
  /\ Take(n)
  /\ \/ /\ cbs["add"] = <<>>
        /\ phase' = [phase EXCEPT ![n] = "live"]
        /\ UNCHANGED stack
     \/ /\ cbs["add"] # <<>>
        /\ phase' = [phase EXCEPT ![n] = "adding"]
        /\ Invoke(p, Call("add", n), stack[p])
  /\ UNCHANGED <<presetOrig, locked, ignored, cbs>>

\* After the last destroy callback the preset may be taken again.
RemoveDone(p, n, rest) ==
  /\ GiveBack(n)
  /\ phase' = [phase EXCEPT ![n] = "none"]
  /\ stack' = [stack EXCEPT ![p] = rest]

\* Mutant: the registry is updated after the callbacks, or never.
RemoveParamLate(p, n) ==
  /\ phase[n] = "live"
  /\ \/ /\ cbs["remove"] = <<>>
        /\ registry' = registry \ {n}
        /\ RemoveDone(p, n, stack[p])
     \/ /\ cbs["remove"] # <<>>
        /\ phase' = [phase EXCEPT ![n] = "removing"]
        /\ Invoke(p, Call("remove", n), stack[p])
        /\ UNCHANGED <<registry, unused, used>>
  /\ UNCHANGED <<presetOrig, locked, ignored, cbs>>

\* The destructor: the name leaves the registry, then the callbacks run.
RemoveParam(p, n) ==
  /\ phase[n] = "live"
  /\ registry' = registry \ {n}
  /\ \/ /\ cbs["remove"] = <<>>
        /\ RemoveDone(p, n, stack[p])
     \/ /\ cbs["remove"] # <<>>
        /\ phase' = [phase EXCEPT ![n] = "removing"]
        /\ Invoke(p, Call("remove", n), stack[p])
        /\ UNCHANGED <<unused, used>>
  /\ UNCHANGED <<presetOrig, locked, ignored, cbs>>

\* A callback returns; the size of the vector is read again.
CallbackReturns(p) ==
  /\ Busy(p)
  /\ LET f == Top(p)
         rest == Tail(stack[p])
     IN \/ /\ f.at < Len(cbs[f.op])
           /\ Invoke(p, [f EXCEPT !.at = @ + 1], rest)
           /\ UNCHANGED <<unused, used, phase>>
        \/ /\ f.at >= Len(cbs[f.op]) /\ f.op = "add"
           /\ phase' = [phase EXCEPT ![f.name] = "live"]
           /\ stack' = [stack EXCEPT ![p] = rest]
           /\ UNCHANGED <<unused, used>>
        \/ /\ f.at >= Len(cbs[f.op]) /\ f.op = "remove"
           /\ RemoveDone(p, f.name, rest)
  /\ UNCHANGED <<registry, presetOrig, locked, ignored, cbs>>

\* Mutant: the unwinding leaves the registry but keeps the preset used.
CallbackThrowsHalf(p) ==
  /\ Busy(p) /\ Top(p).op = "add"
  /\ registry' = registry \ {Top(p).name}
  /\ phase' = [phase EXCEPT ![Top(p).name] = "none"]
  /\ stack' = [stack EXCEPT ![p] = Tail(@)]
  /\ UNCHANGED <<unused, used, presetOrig, locked, ignored, cbs>>

\* A create callback throws: the constructor is unwound, without destroy(),
\* and the name is free again.  A destructor does not let exceptions out.
CallbackThrows(p) ==
  /\ Busy(p) /\ Top(p).op = "add"
  /\ phase' = [phase EXCEPT ![Top(p).name] = "orphaned"]
  /\ stack' = [stack EXCEPT ![p] = Tail(@)]
  /\ UNCHANGED <<registry, unused, used, presetOrig, locked, ignored, cbs>>

-----------------------------------------------------------------------------
(* Registration of callbacks, through broker handles.                         *)

Registered == Len(cbs["add"]) + Len(cbs["remove"])

RegisterCallback(k, cb, o) ==
  /\ Registered < MaxCallbacks
  /\ cbs' = [cbs EXCEPT ![k] = Append(@, [cb |-> cb, orig |-> o])]
  /\ UNCHANGED <<registry, unused, used, presetOrig, locked, ignored, phase,
                 stack>>

UnregisterCallback(k, cb, o) ==
  /\ cbs' = [cbs EXCEPT ![k] = EraseFirst(@, cb, o)]
  /\ UNCHANGED <<registry, unused, used, presetOrig, locked, ignored, phase,
                 stack>>

UnregisterAllCallbacks(o) ==
  /\ cbs' = [k \in Kind |-> EraseAllOf(cbs[k], o)]
  /\ UNCHANGED <<registry, unused, used, presetOrig, locked, ignored, phase,
                 stack>>

-----------------------------------------------------------------------------
Next ==
  \/ \E n \in Name, v \in Value, o \in Originator : SetPreset(n, v, o)
  \/ \E n \in Name : LockPreset(n)
  \/ \E pred \in Ignorable : IgnoreUnconsumed(pred)
  \/ \E p \in Proc, n \in Name : AddParam(p, n) \/ RemoveParam(p, n)
  \/ \E p \in Proc : CallbackReturns(p) \/ CallbackThrows(p)
  \/ \E k \in Kind, c \in Callback, o \in Originator :
       RegisterCallback(k, c, o) \/ UnregisterCallback(k, c, o)
  \/ \E o \in Originator : UnregisterAllCallbacks(o)

Spec == Init /\ [][Next]_vars

-----------------------------------------------------------------------------
(* Properties.                                                                *)

(* The registry holds the parameters whose constructor has announced them and *)
(* whose destructor has not begun, and the orphans of constructors that       *)
(* failed; a lookup never returns an object whose destructor has begun        *)
(* (consuming_broker.cpp, add_param and remove_param).                        *)
RegistryIsLive ==
  registry = {n \in Name : phase[n] \in {"adding", "live", "orphaned"}}

(* A preset counts as consumed only while its parameter exists: once the      *)
(* parameter is gone the value waits for the next one and is reported as      *)
(* unconsumed (consuming_broker.cpp, remove_param).                           *)
UsedHasParam == \A n \in Name : used[n] # NoValue => phase[n] # "none"

(* A preset is either waiting or taken.  With two copies set_preset_cci_value *)
(* would update one, and remove_param's insert would silently keep the other  *)
(* (consuming_broker.cpp, set_preset_cci_value).                              *)
PresetIsSingle == \A n \in Name : used[n] = NoValue \/ unused[n] = NoValue

PresetOf(n) ==
  IF has_preset_value(n)
  THEN [value |-> get_preset_cci_value(n), orig |-> presetOrig[n]]
  ELSE NoValue

Store == INSTANCE PresetStore WITH
  NoPreset <- NoValue, presetOf <- [n \in Name |-> PresetOf(n)]

(* Through any number of constructions, destructions and callbacks, the two   *)
(* value registries and the originator map together answer as one store of    *)
(* presets, never losing one and never changing a locked one                  *)
(* (consuming_broker.cpp, lock_preset_value and set_preset_cci_value).        *)
ImplementsPresetStore == Store!Spec
=============================================================================
