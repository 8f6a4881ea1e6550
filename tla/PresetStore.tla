----------------------------- MODULE PresetStore -----------------------------
(* What a broker promises about preset values: one per parameter name, with   *)
(* its originator, kept for as long as the broker lives, replaced only by a   *)
(* new preset and frozen once locked, whatever parameters come and go.        *)
CONSTANTS
  Name, Value, Originator,
  NoPreset         \* no preset value was ever set

VARIABLES presetOf, locked

presets == <<presetOf, locked>>

Preset == [value : Value, orig : Originator]

Init ==
  /\ presetOf = [n \in Name |-> NoPreset]
  /\ locked = {}

Set(n, v, o) ==
  /\ n \notin locked
  /\ presetOf' = [presetOf EXCEPT ![n] = [value |-> v, orig |-> o]]
  /\ UNCHANGED locked

Freeze(n) ==
  /\ locked' = locked \cup {n}
  /\ UNCHANGED presetOf

Next ==
  \E n \in Name :
    \/ \E v \in Value, o \in Originator : Set(n, v, o)
    \/ Freeze(n)

Spec == Init /\ [][Next]_presets
=============================================================================
