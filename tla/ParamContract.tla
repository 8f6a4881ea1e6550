---------------------------- MODULE ParamContract ----------------------------
(* What one parameter promises its users, without callbacks, fast paths or    *)
(* nested calls: a value, a lock, and at most one write under validation.     *)
CONSTANTS
  Value, DefaultValue,
  InitialPreset,   \* the values a preset may give the parameter at first
  NoProposal,      \* no write is being validated
  Key,             \* passwords a lock can be taken with
  SecretKey,       \* those no writer presents
  NoPwd            \* unlocked

VARIABLES value, lock, proposal

contract == <<value, lock, proposal>>

Init ==
  /\ value \in {DefaultValue} \cup InitialPreset
  /\ lock = NoPwd
  /\ proposal = NoProposal

\* A write may be started by someone who holds the key, or while none is needed.
MayStart == proposal = NoProposal /\ lock \notin SecretKey

Write(v) ==
  /\ MayStart
  /\ value' = v
  /\ UNCHANGED <<lock, proposal>>

\* A write that is shown to validators first, and then lands or does not.
Propose(v) ==
  /\ MayStart
  /\ proposal' = v
  /\ UNCHANGED <<value, lock>>

Commit ==
  /\ proposal # NoProposal
  /\ value' = proposal
  /\ proposal' = NoProposal
  /\ UNCHANGED lock

Withdraw ==
  /\ proposal' = NoProposal
  /\ UNCHANGED <<value, lock>>

TakeLock(k) ==
  /\ lock \in {NoPwd, k}
  /\ lock' = k
  /\ UNCHANGED <<value, proposal>>

ReleaseLock ==
  /\ lock' = NoPwd
  /\ UNCHANGED <<value, proposal>>

Next ==
  \/ \E v \in Value : Write(v) \/ Propose(v)
  \/ Commit
  \/ Withdraw
  \/ \E k \in Key : TakeLock(k)
  \/ ReleaseLock

Spec == Init /\ [][Next]_contract
=============================================================================
