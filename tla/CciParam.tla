------------------------------ MODULE CciParam ------------------------------
(* One CCI parameter (cci_param_typed<T,TM> over cci_param_untyped): its      *)
(* value, the originator of the value, its lock, its four vectors of          *)
(* callbacks and the two flags that let the owner's reads and writes bypass   *)
(* the callbacks.                                                             *)
(*                                                                            *)
(* An operation runs on a SystemC process p.  The library gives up control    *)
(* only where it invokes a registered callback: the callback is user code,    *)
(* which may call any operation of the same parameter (a nested operation)    *)
(* and may wait(), letting another process run.  So a step of this module is  *)
(* the library code between two such points, and stack[p] holds the           *)
(* operations of p that are waiting for a callback to return, innermost       *)
(* first.                                                                     *)
EXTENDS Naturals, Sequences, FiniteSets, CallbackVectors

CONSTANTS
  Proc,          \* SystemC processes (and the elaboration code)
  Value,         \* values of the parameter's type
  DefaultValue,  \* the value given to the constructor
  NoValue,       \* an old value not yet saved
  Originator,    \* who may access the parameter
  Owner,         \* m_originator, the parameter's creator
  Callback,      \* callback handles
  Registrant,    \* the originators callbacks are registered by
  HookKind,      \* the kinds of callbacks that are registered
  Key,           \* passwords a lock can be taken with
  Self,          \* the parameter's address, the password of a lock(NULL)
  NoPwd,         \* the NULL password
  WriterPwd,     \* the passwords writers present
  Mutable,       \* TM = CCI_MUTABLE_PARAM
  Presets,       \* presets the broker may hold: [value, orig] or NoPreset
  NoPreset,      \* the broker holds no preset for this parameter
  ReportThrows,  \* what SC_ERROR reports may do: throw (TRUE), return (FALSE)
  MaxCallbacks   \* bound: callbacks registered at a time

ASSUME DefaultIsValue == DefaultValue \in Value /\ NoValue \notin Value
ASSUME OwnerIsOriginator == Owner \in Originator
ASSUME RegistrantsAreOriginators == Registrant \subseteq Originator
ASSUME HookKindsAreKinds ==
  HookKind \subseteq {"pre_write", "post_write", "pre_read", "post_read"}
ASSUME KeysAreKeys == Self \in Key /\ NoPwd \notin Key
ASSUME WriterPwdsArePwds == WriterPwd \subseteq Key \cup {NoPwd}
ASSUME MutableIsBoolean == Mutable \in BOOLEAN
ASSUME ReportsAreBoolean == ReportThrows \subseteq BOOLEAN
ASSUME PresetsArePresets ==
  Presets \subseteq [value : Value, orig : Originator] \cup {NoPreset}
ASSUME NoPresetIsNone == NoPreset \notin [value : Value, orig : Originator]

VARIABLES
  value,      \* m_value
  origin,     \* m_value_origin
  lockPwd,    \* m_lock_pwd, NoPwd when unlocked
  cbs,        \* m_<kind>_callbacks.vec, by kind
  oncall,     \* m_<kind>_callbacks.oncall, by kind
  fastRead,   \* fast_read
  fastWrite,  \* fast_write
  preset,     \* what the broker answers has/get_preset_value(name) with
  stack,      \* the operations in progress on each process, innermost first
  outcome     \* how the last operation of each process ended

store == <<value, origin>>
vars == <<value, origin, lockPwd, cbs, oncall, fastRead, fastWrite, preset,
          stack, outcome>>

Kind == {"pre_write", "post_write", "pre_read", "post_read"}

(* "dropped": a write returned normally and wrote nothing.                    *)
Outcome == {"done", "refused", "error", "dropped"}

Entry == [cb : Callback, orig : Registrant]

(* An operation waiting for callback number "at" of the vector "kind".        *)
(* "ok" is the running result of the pre-write callbacks.                     *)
WriteOp == [op   : {"set", "preset", "default"},
            kind : {"pre_write", "post_write"},
            at   : Nat,
            new  : Value,
            old  : Value \cup {NoValue},
            orig : Originator,
            ok   : BOOLEAN]

ReadOp == [op : {"get"}, kind : {"pre_read", "post_read"}, at : Nat,
           new : {NoValue}, old : {NoValue}, orig : {Owner}, ok : {TRUE}]

Frame == WriteOp \cup ReadOp

Locked == lockPwd # NoPwd
Busy(p) == stack[p] # <<>>
Top(p) == Head(stack[p])

TypeOK ==
  /\ value \in Value
  /\ origin \in Originator
  /\ lockPwd \in Key \cup {NoPwd}
  /\ cbs \in [Kind -> Seq(Entry)]
  /\ oncall \in [Kind -> BOOLEAN]
  /\ fastRead \in BOOLEAN
  /\ fastWrite \in BOOLEAN
  /\ preset \in Presets
  /\ stack \in [Proc -> Seq(Frame)]
  /\ outcome \in [Proc -> Outcome]

(* The constructor stores the default, then init() applies a preset if the    *)
(* broker has one.  No callback is registered yet.                            *)
Init ==
  /\ preset \in Presets
  /\ value = IF preset = NoPreset THEN DefaultValue ELSE preset.value
  /\ origin = IF preset = NoPreset THEN Owner ELSE preset.orig
  /\ lockPwd = NoPwd
  /\ cbs = [k \in Kind |-> <<>>]
  /\ oncall = [k \in Kind |-> FALSE]
  /\ fastRead = FALSE
  /\ fastWrite = FALSE
  /\ stack = [p \in Proc |-> <<>>]
  /\ outcome = [p \in Proc |-> "done"]

-----------------------------------------------------------------------------
(* Running the callbacks of one kind.  "rest" is the stack under the          *)
(* operation, "busy" the oncall flags at this point of the step.              *)

Suspend(p, f, rest, busy) ==
  /\ stack' = [stack EXCEPT ![p] = <<f>> \o rest]
  /\ oncall' = [busy EXCEPT ![f.kind] = TRUE]

Leave(p, rest, busy, how) ==
  /\ stack' = [stack EXCEPT ![p] = rest]
  /\ oncall' = busy
  /\ outcome' = [outcome EXCEPT ![p] = how]

\* Nested invocations of a kind are skipped; so is an empty vector.
Passes(k, busy) == busy[k] \/ cbs[k] = <<>>

\* Mutant: the flag forgets the vector of pre-write callbacks.
MayWriteFastNoPre(orig) ==
  Mutable /\ ~Locked /\ cbs["post_write"] = <<>> /\ orig = Owner

MayWriteFast(orig) ==
  /\ Mutable
  /\ ~Locked
  /\ cbs["pre_write"] = <<>>
  /\ cbs["post_write"] = <<>>
  /\ orig = Owner

\* The end of an operation that wrote; only set_raw_value updates fast_write.
WriteDone(p, f, rest, busy) ==
  /\ Leave(p, rest, busy, "done")
  /\ fastWrite' = IF f.op = "set" THEN MayWriteFast(f.orig) ELSE fastWrite

\* Mutant: the old value is stored in place of the new one.
StoreOld(p, f, rest, busy) ==
  /\ value' = f.old
  /\ origin' = f.orig
  /\ WriteDone(p, f, rest, busy)

\* A write no callback has denied: store, update the origin, tell observers.
Store(p, f, rest, busy) ==
  /\ value' = f.new
  /\ origin' = f.orig
  /\ \/ /\ Passes("post_write", busy)
        /\ WriteDone(p, f, rest, busy)
     \/ /\ ~Passes("post_write", busy)
        /\ Suspend(p, [f EXCEPT !.kind = "post_write", !.at = 1,
                         !.old = IF f.op = "preset" THEN f.old ELSE value],
                   rest, busy)
        /\ UNCHANGED <<fastWrite, outcome>>

\* pre_write_callback returned false: the caller returns without a write; a
\* reset() to a preset returns true all the same.
Denied(p, f, rest, busy, how) ==
  /\ Leave(p, rest, busy, CASE f.op = "set"     -> how
                            [] f.op = "preset"  -> "done"
                            [] f.op = "default" -> "refused")
  /\ UNCHANGED <<value, origin, fastWrite>>

\* Mutant: the oncall tag does not stop a nested validation.
BeginWriteNested(p, f) ==
  \/ /\ cbs["pre_write"] = <<>>
     /\ Store(p, f, stack[p], oncall)
  \/ /\ cbs["pre_write"] # <<>>
     /\ Suspend(p, f, stack[p], oncall)
     /\ UNCHANGED <<value, origin, fastWrite, outcome>>

BeginWrite(p, f) ==
  \/ /\ oncall["pre_write"]
     /\ Denied(p, f, stack[p], oncall, "dropped")
  \/ /\ ~oncall["pre_write"] /\ cbs["pre_write"] = <<>>
     /\ Store(p, f, stack[p], oncall)
  \/ /\ ~Passes("pre_write", oncall)
     /\ Suspend(p, f, stack[p], oncall)
     /\ UNCHANGED <<value, origin, fastWrite, outcome>>

WriteFrame(op, new, old, orig) ==
  [op |-> op, kind |-> "pre_write", at |-> 1, new |-> new, old |-> old,
   orig |-> orig, ok |-> TRUE]

-----------------------------------------------------------------------------
(* Writes.                                                                    *)

\* Mutants: one of the checks is missing.
WriteRefusedUnlocked(pwd) == ~Mutable \/ (pwd # NoPwd /\ pwd # lockPwd)
WriteRefusedMutable(pwd) ==
  (pwd = NoPwd /\ Locked) \/ (pwd # NoPwd /\ pwd # lockPwd)

\* The check at the head of set_raw_value, in its order.
WriteRefused(pwd) ==
  \/ ~Mutable
  \/ pwd = NoPwd /\ Locked
  \/ pwd # NoPwd /\ pwd # lockPwd

\* set_raw_value, reached by set_cci_value, by handles and with a password.
SetRawValue(p, new, pwd, orig) ==
  /\ \/ /\ WriteRefused(pwd)
        /\ Leave(p, stack[p], oncall, "error")
        /\ UNCHANGED <<value, origin, fastWrite>>
     \/ /\ ~WriteRefused(pwd)
        /\ BeginWrite(p, WriteFrame("set", new, NoValue, orig))
  /\ UNCHANGED <<lockPwd, cbs, fastRead, preset>>

\* The owner's set_value(v): stores directly when fast_write is set.
SetValue(p, new) ==
  \/ /\ fastWrite
     /\ value' = new
     /\ outcome' = [outcome EXCEPT ![p] = "done"]
     /\ UNCHANGED <<origin, lockPwd, cbs, oncall, fastRead, fastWrite, preset,
                    stack>>
  \/ /\ ~fastWrite
     /\ SetRawValue(p, new, NoPwd, Owner)

\* Mutant: reset() ignores the lock.
ResetLocked(p) ==
  /\ \/ /\ preset # NoPreset
        /\ BeginWrite(p, WriteFrame("preset", preset.value, value,
                                    preset.orig))
     \/ /\ preset = NoPreset
        /\ BeginWrite(p, WriteFrame("default", DefaultValue, NoValue, Owner))
  /\ UNCHANGED <<lockPwd, cbs, fastRead, preset>>

\* reset(): back to the preset, or to the default value if there is none.
Reset(p) ==
  /\ \/ /\ Locked
        /\ Leave(p, stack[p], oncall, "refused")
        /\ UNCHANGED <<value, origin, fastWrite>>
     \/ /\ ~Locked /\ preset # NoPreset
        /\ BeginWrite(p, WriteFrame("preset", preset.value, value,
                                    preset.orig))
     \/ /\ ~Locked /\ preset = NoPreset
        /\ BeginWrite(p, WriteFrame("default", DefaultValue, NoValue, Owner))
  /\ UNCHANGED <<lockPwd, cbs, fastRead, preset>>

-----------------------------------------------------------------------------
(* Reads.  Who reads is seen by the callbacks only.                           *)

\* Mutant: the flag forgets the post-read callbacks.
ReadDoneNoPost(p, rest, busy) ==
  /\ Leave(p, rest, busy, "done")
  /\ fastRead' = (cbs["pre_read"] = <<>>)

ReadDone(p, rest, busy) ==
  /\ Leave(p, rest, busy, "done")
  /\ fastRead' = (cbs["pre_read"] = <<>> /\ cbs["post_read"] = <<>>)

PostRead(p, f, rest, busy) ==
  \/ /\ Passes("post_read", busy)
     /\ ReadDone(p, rest, busy)
  \/ /\ ~Passes("post_read", busy)
     /\ Suspend(p, [f EXCEPT !.kind = "post_read", !.at = 1], rest, busy)
     /\ UNCHANGED <<fastRead, outcome>>

GetRawValue(p) ==
  LET f == [op |-> "get", kind |-> "pre_read", at |-> 1, new |-> NoValue,
            old |-> NoValue, orig |-> Owner, ok |-> TRUE]
  IN /\ \/ /\ Passes("pre_read", oncall)
           /\ PostRead(p, f, stack[p], oncall)
        \/ /\ ~Passes("pre_read", oncall)
           /\ Suspend(p, f, stack[p], oncall)
           /\ UNCHANGED <<fastRead, outcome>>
     /\ UNCHANGED <<value, origin, lockPwd, cbs, fastWrite, preset>>

\* The owner's get_value() reads directly when fast_read is set.
GetValue(p) ==
  \/ /\ fastRead
     /\ outcome' = [outcome EXCEPT ![p] = "done"]
     /\ UNCHANGED <<value, origin, lockPwd, cbs, oncall, fastRead, fastWrite,
                    preset, stack>>
  \/ /\ ~fastRead
     /\ GetRawValue(p)

-----------------------------------------------------------------------------
(* A callback returns to the operation that invoked it.  The size of the      *)
(* vector is read again after each callback, which may have changed it.       *)

After(f) == [oncall EXCEPT ![f.kind] = FALSE]

NextCallback(p, f) ==
  /\ f.at < Len(cbs[f.kind])
  /\ Suspend(p, [f EXCEPT !.at = @ + 1], Tail(stack[p]), oncall)
  /\ UNCHANGED <<value, origin, fastRead, fastWrite, outcome>>

AfterLast(p, f) ==
  LET rest == Tail(stack[p])
  IN \/ /\ f.kind = "pre_write" /\ f.ok
        /\ Store(p, f, rest, After(f))
        /\ UNCHANGED fastRead
     \/ /\ f.kind = "pre_write" /\ ~f.ok
        /\ Denied(p, f, rest, After(f), "error")
        /\ UNCHANGED fastRead
     \/ /\ f.kind = "post_write"
        /\ WriteDone(p, f, rest, After(f))
        /\ UNCHANGED <<value, origin, fastRead>>
     \/ /\ f.kind = "pre_read"
        /\ PostRead(p, f, rest, After(f))
        /\ UNCHANGED <<value, origin, fastWrite>>
     \/ /\ f.kind = "post_read"
        /\ ReadDone(p, rest, After(f))
        /\ UNCHANGED <<value, origin, fastWrite>>

\* Mutant: the loop ends at i == size() instead of i >= size().
LastCallbackExactly(p, f) ==
  f.at = Len(cbs[f.kind]) /\ AfterLast(p, f)

LastCallback(p, f) ==
  f.at >= Len(cbs[f.kind]) /\ AfterLast(p, f)

Continue(p, f) ==
  /\ NextCallback(p, f) \/ LastCallback(p, f)
  /\ UNCHANGED <<lockPwd, cbs, preset>>

\* Mutant: the tag is not reset when an exception leaves the callback.
UnwindTagged(p) ==
  /\ Leave(p, Tail(stack[p]), oncall, "error")
  /\ UNCHANGED <<value, origin, lockPwd, cbs, fastRead, fastWrite, preset>>

\* An exception leaves the callback: scoped_true resets the flag of its kind
\* and the operation ends, whatever it had done.
Unwind(p) ==
  /\ Leave(p, Tail(stack[p]), After(Top(p)), "error")
  /\ UNCHANGED <<value, origin, lockPwd, cbs, fastRead, fastWrite, preset>>

\* Mutant: the result is that of the last callback.
CallbackReturnsOver(p) ==
  /\ Busy(p)
  /\ Continue(p, [Top(p) EXCEPT !.ok = TRUE])

CallbackReturns(p) ==
  /\ Busy(p)
  /\ Continue(p, Top(p))

\* A pre-write callback returns false: the rejection is reported as an error,
\* which throws, or lets the remaining callbacks run.
CallbackRejects(p) ==
  /\ Busy(p)
  /\ Top(p).kind = "pre_write"
  /\ \E throws \in ReportThrows :
       \/ throws /\ Unwind(p)
       \/ ~throws /\ Continue(p, [Top(p) EXCEPT !.ok = FALSE])

CallbackThrows(p) ==
  /\ Busy(p)
  /\ Unwind(p)

-----------------------------------------------------------------------------
(* Locking.  cci_param_typed::lock also clears fast_write, even when the lock *)
(* is refused.                                                                *)

KeyOf(pwd) == IF pwd = NoPwd THEN Self ELSE pwd

\* Mutant: fast_write survives the lock.
LockFast(p, pwd) ==
  /\ ~Locked \/ lockPwd = KeyOf(pwd)
  /\ lockPwd' = KeyOf(pwd)
  /\ outcome' = [outcome EXCEPT ![p] = "done"]
  /\ UNCHANGED <<value, origin, cbs, oncall, fastRead, fastWrite, preset,
                 stack>>

Lock(p, pwd) ==
  /\ fastWrite' = FALSE
  /\ \/ /\ Locked /\ lockPwd # KeyOf(pwd)
        /\ outcome' = [outcome EXCEPT ![p] = "refused"]
        /\ UNCHANGED lockPwd
     \/ /\ ~Locked \/ lockPwd = KeyOf(pwd)
        /\ lockPwd' = KeyOf(pwd)
        /\ outcome' = [outcome EXCEPT ![p] = "done"]
  /\ UNCHANGED <<value, origin, cbs, oncall, fastRead, preset, stack>>

Unlock(p, pwd) ==
  /\ \/ /\ lockPwd = KeyOf(pwd)
        /\ lockPwd' = NoPwd
        /\ outcome' = [outcome EXCEPT ![p] = "done"]
     \/ /\ lockPwd # KeyOf(pwd)
        /\ outcome' = [outcome EXCEPT ![p] = "refused"]
        /\ UNCHANGED lockPwd
  /\ UNCHANGED <<value, origin, cbs, oncall, fastRead, fastWrite, preset,
                 stack>>

-----------------------------------------------------------------------------
(* Registration, by the owner or through a handle.                            *)

Registered == Len(cbs["pre_write"]) + Len(cbs["post_write"])
              + Len(cbs["pre_read"]) + Len(cbs["post_read"])

\* Mutant: only the read flag is cleared.
RegisterCallbackFast(k, cb, orig) ==
  /\ Registered < MaxCallbacks
  /\ cbs' = [cbs EXCEPT ![k] = Append(@, [cb |-> cb, orig |-> orig])]
  /\ fastRead' = FALSE
  /\ UNCHANGED <<value, origin, lockPwd, oncall, fastWrite, preset, stack,
                 outcome>>

RegisterCallback(k, cb, orig) ==
  /\ Registered < MaxCallbacks
  /\ cbs' = [cbs EXCEPT ![k] = Append(@, [cb |-> cb, orig |-> orig])]
  /\ fastRead' = FALSE
  /\ fastWrite' = FALSE
  /\ UNCHANGED <<value, origin, lockPwd, oncall, preset, stack, outcome>>

UnregisterCallback(k, cb, orig) ==
  /\ cbs' = [cbs EXCEPT ![k] = EraseFirst(@, cb, orig)]
  /\ UNCHANGED <<value, origin, lockPwd, oncall, fastRead, fastWrite, preset,
                 stack, outcome>>

UnregisterAllCallbacks(orig) ==
  /\ cbs' = [k \in Kind |-> EraseAllOf(cbs[k], orig)]
  /\ UNCHANGED <<value, origin, lockPwd, oncall, fastRead, fastWrite, preset,
                 stack, outcome>>

-----------------------------------------------------------------------------
ValueCalls(p) ==
  \/ \E v \in Value : SetValue(p, v)
  \/ \E v \in Value, pwd \in WriterPwd, o \in Originator :
       SetRawValue(p, v, pwd, o)
  \/ Reset(p)
  \/ GetValue(p)
  \/ GetRawValue(p)

LockCalls(p) == \E pwd \in Key \cup {NoPwd} : Lock(p, pwd) \/ Unlock(p, pwd)

Call(p) == ValueCalls(p) \/ LockCalls(p)

Return(p) == CallbackReturns(p) \/ CallbackRejects(p) \/ CallbackThrows(p)

Registration ==
  \E o \in Registrant :
    \/ \E k \in HookKind, c \in Callback :
         RegisterCallback(k, c, o) \/ UnregisterCallback(k, c, o)
    \/ UnregisterAllCallbacks(o)

Next ==
  \/ \E p \in Proc : Call(p) \/ Return(p)
  \/ Registration

Spec == Init /\ [][Next]_vars

-----------------------------------------------------------------------------
(* Properties.                                                                *)

(* The owner's set_value(v) stores without a check only while a full write    *)
(* would have nothing to check and nobody to tell: the flag is computed at    *)
(* the end of set_raw_value and must be cleared by whatever invalidates it,   *)
(* from whichever callback or process (cci_param_typed.h, set_value).         *)
FastWriteSound ==
  fastWrite => /\ Mutable
               /\ ~Locked
               /\ cbs["pre_write"] = <<>>
               /\ cbs["post_write"] = <<>>

(* The owner's get_value() skips the read callbacks only while there are none *)
(* (cci_param_typed.h, get_value and get_raw_value).                          *)
FastReadSound ==
  fastRead => cbs["pre_read"] = <<>> /\ cbs["post_read"] = <<>>

FramesOf(p, k) == {i \in 1..Len(stack[p]) : stack[p][i].kind = k}

(* The oncall tag of a kind is set exactly while one operation, of one        *)
(* process, is running the callbacks of that kind.  A tag left set (by an     *)
(* exception, by a nested operation that resets it early) would disable the   *)
(* callbacks, and with pre_write every slow write, for good                   *)
(* (cci_param_typed.h, scoped_true).                                          *)
OncallIsOneFrame ==
  \A k \in Kind :
    /\ oncall[k] <=> \E p \in Proc : FramesOf(p, k) # {}
    /\ \A p, q \in Proc : \A i \in FramesOf(p, k), j \in FramesOf(q, k) :
         p = q /\ i = j

(* While a write is being validated the value its validators were shown is    *)
(* not replaced under them: the old value reset() saved before its pre-write  *)
(* callbacks ran is still the current one (cci_param_typed.h,                 *)
(* preset_cci_value reads old_value first, set_raw_value reads it after).     *)
ValidatedOldIsCurrent ==
  \A p \in Proc : \A i \in 1..Len(stack[p]) :
    (stack[p][i].kind = "pre_write" /\ stack[p][i].op = "preset")
       => stack[p][i].old = value

(* An immutable parameter only ever holds its default or its preset, whatever *)
(* handles, callbacks and the owner do (cci_param_untyped.cpp,                *)
(* set_cci_value_allowed; reset() writes without that check).                 *)
ImmutableHoldsInitial ==
  ~Mutable => value \in {DefaultValue}
                          \cup (IF preset = NoPreset THEN {} ELSE {preset.value})

\* The write that process p lets through in this step, once its validators
\* have all returned.
CommitsValidated(p) ==
  /\ Busy(p)
  /\ Top(p).kind = "pre_write"
  /\ stack'[p] # stack[p]
  /\ value' = Top(p).new

(* While validators are registered, the value changes only by the end of a    *)
(* validation: no path, the owner's fast one, a nested write or a reset,      *)
(* bypasses them (cci_param_typed.h, pre_write_callback).                     *)
NoUncheckedWrite ==
  [][(value' # value /\ cbs["pre_write"] # <<>>)
       => \E p \in Proc : CommitsValidated(p)]_vars

(* A change of value with observers registered starts notifying them, unless  *)
(* a notification is already running (cci_param_typed.h,                      *)
(* post_write_callback).                                                      *)
NoSilentWrite ==
  [][(value' # value /\ cbs["post_write"] # <<>> /\ ~oncall["post_write"])
       => oncall'["post_write"]]_vars

(* A write that one callback rejected stays rejected when later callbacks     *)
(* accept it and errors do not throw: it goes on and ends without touching    *)
(* the value or its origin (cci_param_typed.h, "result" of                    *)
(* pre_write_callback).                                                       *)
RejectionIsFinal ==
  [][\A p \in Proc :
       (Busy(p) /\ Top(p).kind = "pre_write" /\ ~Top(p).ok
          /\ stack'[p] # stack[p] /\ Len(stack'[p]) <= Len(stack[p]))
       => UNCHANGED <<value, origin>>]_vars

(* A lock whose key no writer presents keeps the value, except for a write or *)
(* reset that was already being validated when the lock was taken             *)
(* (cci_param_typed.h, set_raw_value checks the lock before the callbacks).   *)
LockKeepsValue ==
  [][(Locked /\ lockPwd' = lockPwd /\ lockPwd \notin WriterPwd
        /\ value' # value)
       => \E p \in Proc : CommitsValidated(p)]_vars

(* Every operation ends: callbacks that return, however often they call the   *)
(* parameter, leave no operation and no oncall tag behind (cci_param_typed.h, *)
(* the callback loops re-read the size of the vector they walk).              *)
EveryCallEnds == \A p \in Proc : Busy(p) ~> ~Busy(p)

(* A callback of each kind returns, with either verdict, if it is given the   *)
(* chance often enough; it need not throw.                                    *)
ReturnOf(p, k) ==
  Busy(p) /\ Top(p).kind = k /\ (CallbackReturns(p) \/ CallbackRejects(p))
Fairness == \A p \in Proc, k \in HookKind : SF_vars(ReturnOf(p, k))
FairSpec == Spec /\ Fairness

-----------------------------------------------------------------------------
(* What the documentation promises and the code does not keep.                *)

(* "Unregister all callbacks" (cci_param_untyped.h, unregister_all_callbacks) *)
UnregisterAllLeavesNone ==
  [][\A o \in Originator :
       UnregisterAllCallbacks(o)
         => \A k \in Kind : \A i \in 1..Len(cbs'[k]) : cbs'[k][i].orig # o]_vars
=============================================================================
