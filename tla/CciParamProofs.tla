--------------------------- MODULE CciParamProofs ---------------------------
(* The parameter, for every set of processes, values, originators, callbacks  *)
(* and keys: first its types and the soundness of its fast paths; then what   *)
(* its steps do to the operations in progress and to the value, and from it   *)
(* the oncall tags, the action properties and, for a parameter used from one  *)
(* process, its contract.                                                     *)
EXTENDS CciParamContract, CallbackVectorProofs

(* The invariant the step proofs need: the flags are sound where they stand,  *)
(* and every operation keeps the state well typed.                            *)
IInv == TypeOK /\ FastWriteSound /\ FastReadSound

-----------------------------------------------------------------------------
(* The helpers operations are built from.                                     *)

LEMMA InitialFrames ==
  ASSUME TypeOK, NEW v \in Value, NEW o \in Originator
  PROVE  /\ WriteFrame("set", v, NoValue, o) \in WriteOp
         /\ WriteFrame("preset", v, value, o) \in WriteOp
         /\ WriteFrame("default", DefaultValue, NoValue, Owner) \in WriteOp
  BY DefaultIsValue, OwnerIsOriginator DEF TypeOK, WriteFrame, WriteOp

LEMMA SuspendType ==
  ASSUME TypeOK, NEW p \in Proc, NEW f \in Frame, NEW rest \in Seq(Frame),
         NEW busy \in [Kind -> BOOLEAN], Suspend(p, f, rest, busy)
  PROVE  stack' \in [Proc -> Seq(Frame)] /\ oncall' \in [Kind -> BOOLEAN]
<1>1. <<f>> \in Seq(Frame)
  OBVIOUS
<1>2. <<f>> \o rest \in Seq(Frame)
  BY <1>1, ConcatProperties
<1>3. f.kind \in Kind
  BY DEF Frame, WriteOp, ReadOp, Kind
<1> QED BY <1>2, <1>3 DEF Suspend, TypeOK

LEMMA LeaveType ==
  ASSUME TypeOK, NEW p \in Proc, NEW rest \in Seq(Frame),
         NEW busy \in [Kind -> BOOLEAN], NEW how \in Outcome,
         Leave(p, rest, busy, how)
  PROVE  /\ stack' \in [Proc -> Seq(Frame)]
         /\ oncall' \in [Kind -> BOOLEAN]
         /\ outcome' \in [Proc -> Outcome]
  BY DEF Leave, TypeOK

(* A step that ends, suspends or denies a write, seen by the invariant.       *)
WriteStep ==
  /\ value' \in Value
  /\ origin' \in Originator
  /\ oncall' \in [Kind -> BOOLEAN]
  /\ stack' \in [Proc -> Seq(Frame)]
  /\ outcome' \in [Proc -> Outcome]
  /\ fastWrite' \in BOOLEAN
  /\ fastWrite' => \/ fastWrite
                   \/ /\ Mutable /\ ~Locked
                      /\ cbs["pre_write"] = <<>> /\ cbs["post_write"] = <<>>

LEMMA WriteDoneStep ==
  ASSUME TypeOK, NEW p \in Proc, NEW f \in Frame, NEW rest \in Seq(Frame),
         NEW busy \in [Kind -> BOOLEAN], WriteDone(p, f, rest, busy)
  PROVE  /\ oncall' \in [Kind -> BOOLEAN]
         /\ stack' \in [Proc -> Seq(Frame)]
         /\ outcome' \in [Proc -> Outcome]
         /\ fastWrite' \in BOOLEAN
         /\ fastWrite' => \/ fastWrite
                          \/ /\ Mutable /\ ~Locked
                             /\ cbs["pre_write"] = <<>>
                             /\ cbs["post_write"] = <<>>
<1>1. Leave(p, rest, busy, "done")
  BY DEF WriteDone
<1>2. "done" \in Outcome
  BY DEF Outcome
<1>3. fastWrite' = (IF f.op = "set" THEN MayWriteFast(f.orig) ELSE fastWrite)
  BY DEF WriteDone
<1>4. MayWriteFast(f.orig) \in BOOLEAN
  BY MutableIsBoolean DEF MayWriteFast
<1>5. fastWrite' \in BOOLEAN
  BY <1>3, <1>4 DEF TypeOK
<1> QED BY <1>1, <1>2, <1>3, <1>5, LeaveType DEF MayWriteFast

LEMMA StoreStep ==
  ASSUME TypeOK, NEW p \in Proc, NEW f \in WriteOp, NEW rest \in Seq(Frame),
         NEW busy \in [Kind -> BOOLEAN], Store(p, f, rest, busy)
  PROVE  WriteStep
<1>1. value' \in Value /\ origin' \in Originator
  BY DEF Store, WriteOp
<1>2. CASE WriteDone(p, f, rest, busy)
  BY <1>1, <1>2, WriteDoneStep DEF WriteStep, Frame
<1>3. CASE /\ Suspend(p, [f EXCEPT !.kind = "post_write", !.at = 1,
                            !.old = IF f.op = "preset" THEN f.old ELSE value],
                      rest, busy)
           /\ UNCHANGED <<fastWrite, outcome>>
  <2> DEFINE g == [f EXCEPT !.kind = "post_write", !.at = 1,
                     !.old = IF f.op = "preset" THEN f.old ELSE value]
  <2>1. g \in Frame
    BY DEF WriteOp, Frame, TypeOK
  <2>2. Suspend(p, g, rest, busy) /\ UNCHANGED <<fastWrite, outcome>>
    BY <1>3
  <2> HIDE DEF g
  <2>3. stack' \in [Proc -> Seq(Frame)] /\ oncall' \in [Kind -> BOOLEAN]
    BY <2>1, <2>2, SuspendType
  <2> QED BY <1>1, <2>2, <2>3 DEF WriteStep, TypeOK
<1> QED BY <1>2, <1>3 DEF Store

LEMMA DeniedStep ==
  ASSUME TypeOK, NEW p \in Proc, NEW f \in WriteOp, NEW rest \in Seq(Frame),
         NEW busy \in [Kind -> BOOLEAN], NEW how \in Outcome,
         Denied(p, f, rest, busy, how)
  PROVE  WriteStep
<1> DEFINE res == CASE f.op = "set"     -> how
                    [] f.op = "preset"  -> "done"
                    [] f.op = "default" -> "refused"
<1>1. res \in Outcome
  BY DEF Outcome, WriteOp
<1>2. Leave(p, rest, busy, res) /\ UNCHANGED <<value, origin, fastWrite>>
  BY DEF Denied
<1> HIDE DEF res
<1> QED BY <1>1, <1>2, LeaveType DEF WriteStep, TypeOK

LEMMA BeginWriteStep ==
  ASSUME TypeOK, NEW p \in Proc, NEW f \in WriteOp, BeginWrite(p, f)
  PROVE  WriteStep
<1>1. stack[p] \in Seq(Frame) /\ oncall \in [Kind -> BOOLEAN]
  BY DEF TypeOK
<1>2. CASE Denied(p, f, stack[p], oncall, "dropped")
  BY <1>1, <1>2, DeniedStep DEF Outcome
<1>3. CASE Store(p, f, stack[p], oncall)
  BY <1>1, <1>3, StoreStep
<1>4. CASE /\ Suspend(p, f, stack[p], oncall)
           /\ UNCHANGED <<value, origin, fastWrite, outcome>>
  BY <1>1, <1>4, SuspendType DEF WriteStep, TypeOK, Frame
<1> QED BY <1>2, <1>3, <1>4 DEF BeginWrite

(* The same for a step of a read.                                             *)
ReadStep ==
  /\ oncall' \in [Kind -> BOOLEAN]
  /\ stack' \in [Proc -> Seq(Frame)]
  /\ outcome' \in [Proc -> Outcome]
  /\ fastRead' \in BOOLEAN
  /\ fastRead' => \/ fastRead
                  \/ cbs["pre_read"] = <<>> /\ cbs["post_read"] = <<>>

LEMMA ReadDoneStep ==
  ASSUME TypeOK, NEW p \in Proc, NEW rest \in Seq(Frame),
         NEW busy \in [Kind -> BOOLEAN], ReadDone(p, rest, busy)
  PROVE  ReadStep
  BY LeaveType DEF ReadDone, ReadStep, Outcome

LEMMA PostReadStep ==
  ASSUME TypeOK, NEW p \in Proc, NEW f \in ReadOp, NEW rest \in Seq(Frame),
         NEW busy \in [Kind -> BOOLEAN], PostRead(p, f, rest, busy)
  PROVE  ReadStep
<1>1. CASE ReadDone(p, rest, busy)
  BY <1>1, ReadDoneStep
<1>2. CASE /\ Suspend(p, [f EXCEPT !.kind = "post_read", !.at = 1], rest, busy)
           /\ UNCHANGED <<fastRead, outcome>>
  <2> DEFINE g == [f EXCEPT !.kind = "post_read", !.at = 1]
  <2>1. g \in Frame
    BY DEF ReadOp, Frame
  <2>2. Suspend(p, g, rest, busy) /\ UNCHANGED <<fastRead, outcome>>
    BY <1>2
  <2> HIDE DEF g
  <2> QED BY <2>1, <2>2, SuspendType DEF ReadStep, TypeOK
<1> QED BY <1>1, <1>2 DEF PostRead

-----------------------------------------------------------------------------
(* Each action preserves the invariant.                                       *)

LEMMA SetRawValueInv ==
  ASSUME IInv, NEW p \in Proc, NEW v \in Value, NEW pwd, NEW o \in Originator,
         SetRawValue(p, v, pwd, o)
  PROVE  IInv'
<1>1. WriteStep
  <2>1. CASE /\ Leave(p, stack[p], oncall, "error")
             /\ UNCHANGED <<value, origin, fastWrite>>
    BY <2>1, LeaveType DEF IInv, TypeOK, WriteStep, Outcome
  <2>2. CASE BeginWrite(p, WriteFrame("set", v, NoValue, o))
    BY <2>2, InitialFrames, BeginWriteStep DEF IInv
  <2> QED BY <2>1, <2>2 DEF SetRawValue
<1>2. UNCHANGED <<lockPwd, cbs, fastRead, preset>>
  BY DEF SetRawValue
<1> QED BY <1>1, <1>2
        DEF IInv, TypeOK, FastWriteSound, FastReadSound, WriteStep, Locked

LEMMA SetValueInv ==
  ASSUME IInv, NEW p \in Proc, NEW v \in Value, SetValue(p, v)
  PROVE  IInv'
<1>1. CASE fastWrite
  <2>1. outcome' \in [Proc -> Outcome]
    BY <1>1 DEF SetValue, IInv, TypeOK, Outcome
  <2> QED BY <1>1, <2>1
          DEF SetValue, IInv, TypeOK, FastWriteSound, FastReadSound, Locked
<1>2. CASE ~fastWrite
  BY <1>2, OwnerIsOriginator, SetRawValueInv DEF SetValue
<1> QED BY <1>1, <1>2

LEMMA ResetInv ==
  ASSUME IInv, NEW p \in Proc, Reset(p)
  PROVE  IInv'
<1>1. WriteStep
  <2>1. CASE /\ Leave(p, stack[p], oncall, "refused")
             /\ UNCHANGED <<value, origin, fastWrite>>
    BY <2>1, LeaveType DEF IInv, TypeOK, WriteStep, Outcome
  <2>2. CASE /\ preset # NoPreset
             /\ BeginWrite(p, WriteFrame("preset", preset.value, value,
                                         preset.orig))
    <3>1. preset.value \in Value /\ preset.orig \in Originator
      BY <2>2, PresetsArePresets DEF IInv, TypeOK
    <3> QED BY <2>2, <3>1, InitialFrames, BeginWriteStep DEF IInv
  <2>3. CASE BeginWrite(p, WriteFrame("default", DefaultValue, NoValue, Owner))
    BY <2>3, DefaultIsValue, OwnerIsOriginator, InitialFrames, BeginWriteStep
       DEF IInv
  <2> QED BY <2>1, <2>2, <2>3 DEF Reset
<1>2. UNCHANGED <<lockPwd, cbs, fastRead, preset>>
  BY DEF Reset
<1> QED BY <1>1, <1>2
        DEF IInv, TypeOK, FastWriteSound, FastReadSound, WriteStep, Locked

LEMMA GetRawValueInv ==
  ASSUME IInv, NEW p \in Proc, GetRawValue(p)
  PROVE  IInv'
<1> DEFINE f == [op |-> "get", kind |-> "pre_read", at |-> 1, new |-> NoValue,
                 old |-> NoValue, orig |-> Owner, ok |-> TRUE]
<1>1. f \in ReadOp
  BY DEF ReadOp
<1>2. stack[p] \in Seq(Frame) /\ oncall \in [Kind -> BOOLEAN]
  BY DEF IInv, TypeOK
<1>3. \/ PostRead(p, f, stack[p], oncall)
      \/ /\ Suspend(p, f, stack[p], oncall)
         /\ UNCHANGED <<fastRead, outcome>>
  BY DEF GetRawValue
<1>4. UNCHANGED <<value, origin, lockPwd, cbs, fastWrite, preset>>
  BY DEF GetRawValue
<1> HIDE DEF f
<1>5. ReadStep
  <2>1. CASE PostRead(p, f, stack[p], oncall)
    BY <1>1, <1>2, <2>1, PostReadStep DEF IInv
  <2>2. CASE /\ Suspend(p, f, stack[p], oncall)
             /\ UNCHANGED <<fastRead, outcome>>
    BY <1>1, <1>2, <2>2, SuspendType DEF IInv, ReadStep, TypeOK, Frame
  <2> QED BY <1>3, <2>1, <2>2
<1> QED BY <1>4, <1>5
        DEF IInv, TypeOK, FastWriteSound, FastReadSound, ReadStep, Locked

LEMMA GetValueInv ==
  ASSUME IInv, NEW p \in Proc, GetValue(p)
  PROVE  IInv'
<1>1. CASE fastRead
  <2>1. outcome' \in [Proc -> Outcome]
    BY <1>1 DEF GetValue, IInv, TypeOK, Outcome
  <2> QED BY <1>1, <2>1
          DEF GetValue, IInv, TypeOK, FastWriteSound, FastReadSound, Locked
<1>2. CASE ~fastRead
  BY <1>2, GetRawValueInv DEF GetValue
<1> QED BY <1>1, <1>2

LEMMA TopType ==
  ASSUME TypeOK, NEW p \in Proc, Busy(p)
  PROVE  /\ Top(p) \in Frame
         /\ Tail(stack[p]) \in Seq(Frame)
         /\ After(Top(p)) \in [Kind -> BOOLEAN]
<1>1. stack[p] \in Seq(Frame) /\ stack[p] # <<>>
  BY DEF TypeOK, Busy
<1>2. Head(stack[p]) \in Frame /\ Tail(stack[p]) \in Seq(Frame)
  BY <1>1, HeadTailProperties
<1> QED BY <1>2 DEF Top, After, TypeOK

LEMMA ContinueInv ==
  ASSUME IInv, NEW p \in Proc, NEW f \in Frame,
         Tail(stack[p]) \in Seq(Frame), Continue(p, f)
  PROVE  IInv'
<1> DEFINE rest == Tail(stack[p])
<1>1. UNCHANGED <<lockPwd, cbs, preset>>
  BY DEF Continue
<1>2. oncall \in [Kind -> BOOLEAN] /\ After(f) \in [Kind -> BOOLEAN]
  BY DEF IInv, TypeOK, After
<1>3. ASSUME WriteStep, UNCHANGED fastRead
      PROVE  IInv'
  BY <1>1, <1>3
     DEF IInv, TypeOK, FastWriteSound, FastReadSound, WriteStep, Locked
<1>4. ASSUME ReadStep, UNCHANGED <<value, origin, fastWrite>>
      PROVE  IInv'
  BY <1>1, <1>4
     DEF IInv, TypeOK, FastWriteSound, FastReadSound, ReadStep, Locked
<1>5. CASE NextCallback(p, f)
  <2> DEFINE g == [f EXCEPT !.at = @ + 1]
  <2>1. g \in Frame
    <3>1. f.at + 1 \in Nat
      <4>1. f.at \in Nat
        <5>1. f \in WriteOp => f.at \in Nat
          BY DEF WriteOp
        <5>2. f \in ReadOp => f.at \in Nat
          BY DEF ReadOp
        <5> QED BY <5>1, <5>2 DEF Frame
      <4> QED BY <4>1
    <3>2. f \in WriteOp => g \in WriteOp
      BY <3>1 DEF WriteOp
    <3>3. f \in ReadOp => g \in ReadOp
      BY <3>1 DEF ReadOp
    <3> QED BY <3>2, <3>3 DEF Frame
  <2>2. /\ Suspend(p, g, rest, oncall)
        /\ UNCHANGED <<value, origin, fastRead, fastWrite, outcome>>
    BY <1>5 DEF NextCallback
  <2> HIDE DEF g
  <2>3. stack' \in [Proc -> Seq(Frame)] /\ oncall' \in [Kind -> BOOLEAN]
    BY <1>2, <2>1, <2>2, SuspendType DEF IInv
  <2> QED BY <1>1, <2>2, <2>3
          DEF IInv, TypeOK, FastWriteSound, FastReadSound, Locked
<1>6. CASE /\ f.kind = "pre_write"
           /\ Store(p, f, rest, After(f))
           /\ UNCHANGED fastRead
  <2>1. f \in WriteOp
    BY <1>6 DEF Frame, ReadOp
  <2>2. WriteStep
    BY <1>2, <1>6, <2>1, StoreStep DEF IInv
  <2> QED BY <1>3, <1>6, <2>2
<1>7. CASE /\ f.kind = "pre_write"
           /\ Denied(p, f, rest, After(f), "error")
           /\ UNCHANGED fastRead
  <2>1. f \in WriteOp
    BY <1>7 DEF Frame, ReadOp
  <2>2. WriteStep
    BY <1>2, <1>7, <2>1, DeniedStep DEF IInv, Outcome
  <2> QED BY <1>3, <1>7, <2>2
<1>8. CASE /\ f.kind = "post_write"
           /\ WriteDone(p, f, rest, After(f))
           /\ UNCHANGED <<value, origin, fastRead>>
  <2>1. WriteStep
    BY <1>2, <1>8, WriteDoneStep DEF IInv, TypeOK, WriteStep
  <2> QED BY <1>3, <1>8, <2>1
<1>9. CASE /\ f.kind = "pre_read"
           /\ PostRead(p, f, rest, After(f))
           /\ UNCHANGED <<value, origin, fastWrite>>
  <2>1. f \in ReadOp
    BY <1>9 DEF Frame, WriteOp
  <2>2. ReadStep
    BY <1>2, <1>9, <2>1, PostReadStep DEF IInv
  <2> QED BY <1>4, <1>9, <2>2
<1>10. CASE /\ f.kind = "post_read"
            /\ ReadDone(p, rest, After(f))
            /\ UNCHANGED <<value, origin, fastWrite>>
  <2>1. ReadStep
    BY <1>2, <1>10, ReadDoneStep DEF IInv
  <2> QED BY <1>4, <1>10, <2>1
<1> QED BY <1>5, <1>6, <1>7, <1>8, <1>9, <1>10
        DEF Continue, LastCallback, AfterLast

LEMMA UnwindInv ==
  ASSUME IInv, NEW p \in Proc, Busy(p), Unwind(p)
  PROVE  IInv'
<1>1. Tail(stack[p]) \in Seq(Frame) /\ After(Top(p)) \in [Kind -> BOOLEAN]
  BY TopType DEF IInv
<1>2. "error" \in Outcome
  BY DEF Outcome
<1> QED BY <1>1, <1>2, LeaveType
        DEF Unwind, IInv, TypeOK, FastWriteSound, FastReadSound, Locked

LEMMA ReturnInv ==
  ASSUME IInv, NEW p \in Proc, Return(p)
  PROVE  IInv'
<1>1. Busy(p)
  BY DEF Return, CallbackReturns, CallbackRejects, CallbackThrows
<1>2. Top(p) \in Frame /\ Tail(stack[p]) \in Seq(Frame)
  BY <1>1, TopType DEF IInv
<1>3. CASE Continue(p, Top(p))
  BY <1>2, <1>3, ContinueInv
<1>4. CASE Top(p).kind = "pre_write" /\ Continue(p, [Top(p) EXCEPT !.ok = FALSE])
  <2>1. [Top(p) EXCEPT !.ok = FALSE] \in Frame
    BY <1>2, <1>4 DEF Frame, WriteOp, ReadOp
  <2> QED BY <1>2, <1>4, <2>1, ContinueInv
<1>5. CASE Unwind(p)
  BY <1>1, <1>5, UnwindInv
<1> QED BY <1>3, <1>4, <1>5
        DEF Return, CallbackReturns, CallbackRejects, CallbackThrows

LEMMA LockInv ==
  ASSUME IInv, NEW p \in Proc, NEW pwd \in Key \cup {NoPwd},
         Lock(p, pwd) \/ Unlock(p, pwd)
  PROVE  IInv'
<1>1. KeyOf(pwd) \in Key
  BY KeysAreKeys DEF KeyOf
<1>2. CASE Lock(p, pwd)
  <2>1. lockPwd' \in Key \cup {NoPwd} /\ outcome' \in [Proc -> Outcome]
    BY <1>1, <1>2 DEF Lock, IInv, TypeOK, Outcome
  <2> QED BY <1>2, <2>1
          DEF Lock, IInv, TypeOK, FastWriteSound, FastReadSound
<1>3. CASE Unlock(p, pwd)
  <2>1. lockPwd' \in Key \cup {NoPwd} /\ outcome' \in [Proc -> Outcome]
    BY <1>3 DEF Unlock, IInv, TypeOK, Outcome
  <2>2. Locked' => Locked
    BY <1>3 DEF Unlock, Locked
  <2> QED BY <1>3, <2>1, <2>2
          DEF Unlock, IInv, TypeOK, FastWriteSound, FastReadSound
<1> QED BY <1>2, <1>3

LEMMA RegistrationInv ==
  ASSUME IInv, Registration
  PROVE  IInv'
<1>1. PICK o \in Registrant :
        \/ \E k \in HookKind, c \in Callback :
             RegisterCallback(k, c, o) \/ UnregisterCallback(k, c, o)
        \/ UnregisterAllCallbacks(o)
  BY DEF Registration
<1>2. ASSUME NEW k \in HookKind, NEW c \in Callback, RegisterCallback(k, c, o)
      PROVE  IInv'
  <2>1. k \in Kind
    BY HookKindsAreKinds DEF Kind
  <2>2. [cb |-> c, orig |-> o] \in Entry
    BY DEF Entry
  <2>3. cbs' \in [Kind -> Seq(Entry)]
    BY <1>2, <2>1, <2>2 DEF RegisterCallback, IInv, TypeOK
  <2> QED BY <1>2, <2>3
          DEF RegisterCallback, IInv, TypeOK, FastWriteSound, FastReadSound
<1>3. ASSUME NEW k \in HookKind, NEW c \in Callback, UnregisterCallback(k, c, o)
      PROVE  IInv'
  <2>1. k \in Kind /\ cbs \in [Kind -> Seq(Entry)]
    BY HookKindsAreKinds DEF Kind, IInv, TypeOK
  <2>2. /\ EraseFirst(cbs[k], c, o) \in Seq(Entry)
        /\ cbs[k] = <<>> => EraseFirst(cbs[k], c, o) = <<>>
    BY <2>1, EraseFirstType
  <2>3. cbs' = [cbs EXCEPT ![k] = EraseFirst(cbs[k], c, o)]
    BY <1>3 DEF UnregisterCallback
  <2>4. cbs' \in [Kind -> Seq(Entry)]
    BY <2>1, <2>2, <2>3
  <2>5. \A j \in Kind : cbs[j] = <<>> => cbs'[j] = <<>>
    BY <2>1, <2>2, <2>3
  <2> QED BY <1>3, <2>4, <2>5
          DEF UnregisterCallback, IInv, TypeOK, FastWriteSound, FastReadSound,
              Locked, Kind
<1>4. ASSUME UnregisterAllCallbacks(o)
      PROVE  IInv'
  <2>1. \A j \in Kind : /\ EraseAllOf(cbs[j], o) \in Seq(Entry)
                        /\ cbs[j] = <<>> => EraseAllOf(cbs[j], o) = <<>>
    BY EraseAllOfType DEF IInv, TypeOK
  <2>2. cbs' = [j \in Kind |-> EraseAllOf(cbs[j], o)]
    BY <1>4 DEF UnregisterAllCallbacks
  <2>3. cbs' \in [Kind -> Seq(Entry)]
    BY <2>1, <2>2
  <2>4. \A j \in Kind : cbs[j] = <<>> => cbs'[j] = <<>>
    BY <2>1, <2>2
  <2> QED BY <1>4, <2>3, <2>4
          DEF UnregisterAllCallbacks, IInv, TypeOK, FastWriteSound,
              FastReadSound, Locked, Kind
<1> QED BY <1>1, <1>2, <1>3, <1>4

-----------------------------------------------------------------------------
(* IInv is inductive.                                                         *)

LEMMA InitInv == Init => IInv
<1> SUFFICES ASSUME Init PROVE IInv
  OBVIOUS
<1>1. value \in Value /\ origin \in Originator
  BY PresetsArePresets, DefaultIsValue, OwnerIsOriginator DEF Init
<1>2. cbs \in [Kind -> Seq(Entry)] /\ stack \in [Proc -> Seq(Frame)]
  BY EmptySeq DEF Init
<1> QED BY <1>1, <1>2
        DEF Init, IInv, TypeOK, FastWriteSound, FastReadSound, Outcome

LEMMA NextInv == IInv /\ [Next]_vars => IInv'
<1> SUFFICES ASSUME IInv, [Next]_vars PROVE IInv'
  OBVIOUS
<1>1. ASSUME NEW p \in Proc, Call(p)
      PROVE  IInv'
  <2>1. ASSUME NEW v \in Value, SetValue(p, v) PROVE IInv'
    BY <2>1, SetValueInv
  <2>2. ASSUME NEW v \in Value, NEW pwd \in WriterPwd, NEW o \in Originator,
               SetRawValue(p, v, pwd, o)
        PROVE  IInv'
    BY <2>2, SetRawValueInv
  <2>3. CASE Reset(p)
    BY <2>3, ResetInv
  <2>4. CASE GetValue(p)
    BY <2>4, GetValueInv
  <2>5. CASE GetRawValue(p)
    BY <2>5, GetRawValueInv
  <2>6. ASSUME NEW pwd \in Key \cup {NoPwd}, Lock(p, pwd) \/ Unlock(p, pwd)
        PROVE  IInv'
    BY <2>6, LockInv
  <2> QED BY <1>1, <2>1, <2>2, <2>3, <2>4, <2>5, <2>6
      DEF Call, ValueCalls, LockCalls
<1>2. ASSUME NEW p \in Proc, Return(p)
      PROVE  IInv'
  BY <1>2, ReturnInv
<1>3. CASE Registration
  BY <1>3, RegistrationInv
<1>4. CASE UNCHANGED vars
  BY <1>4 DEF vars, IInv, TypeOK, FastWriteSound, FastReadSound, Locked
<1> QED BY <1>1, <1>2, <1>3, <1>4 DEF Next

(* The state of a parameter stays well typed, through nested operations,      *)
(* exceptions and vectors that change while they are walked.                  *)
THEOREM TypeCorrect == Spec => []TypeOK
<1>1. IInv => TypeOK
  BY DEF IInv
<1> QED BY <1>1, InitInv, NextInv, PTL DEF Spec

(* The owner's fast write never bypasses a lock, a validator or an observer.  *)
THEOREM FastWriteIsSound == Spec => []FastWriteSound
<1>1. IInv => FastWriteSound
  BY DEF IInv
<1> QED BY <1>1, InitInv, NextInv, PTL DEF Spec

(* The owner's fast read never bypasses a read callback.                      *)
THEOREM FastReadIsSound == Spec => []FastReadSound
<1>1. IInv => FastReadSound
  BY DEF IInv
<1> QED BY <1>1, InitInv, NextInv, PTL DEF Spec

-----------------------------------------------------------------------------
(* Every step of the parameter is one of a few shapes.                        *)

\* An operation of p starts, moves on and ends.
Push(p, f) ==
  /\ f \in Frame /\ ~oncall[f.kind]
  /\ stack' = [stack EXCEPT ![p] = <<f>> \o stack[p]]
  /\ oncall' = [oncall EXCEPT ![f.kind] = TRUE]

Turn(p, g) ==
  /\ Busy(p) /\ g \in Frame
  /\ g.kind = Top(p).kind \/ ~oncall[g.kind]
  /\ stack' = [stack EXCEPT ![p] = <<g>> \o Tail(stack[p])]
  /\ oncall' = [After(Top(p)) EXCEPT ![g.kind] = TRUE]

Pop(p) ==
  /\ Busy(p)
  /\ stack' = [stack EXCEPT ![p] = Tail(stack[p])]
  /\ oncall' = After(Top(p))

\* A write that has passed the checks: by whom, and with which value.
MayOpen(f) ==
  /\ f \in WriteOp /\ f.kind = "pre_write" /\ f.ok
  /\ ~Locked \/ lockPwd \in WriterPwd
  /\ f.op = "set" => Mutable
  /\ f.op = "preset" =>
       preset # NoPreset /\ f.new = preset.value /\ f.old = value
  /\ f.op = "default" => f.new = DefaultValue

SameWrite(f, g) == f.op = g.op /\ f.new = g.new /\ f.old = g.old

\* Nothing is written and no operation moves.
Quiet ==
  /\ UNCHANGED <<value, origin, stack, oncall>>
  /\ fastWrite' => fastWrite
  /\ \/ lockPwd' \in {lockPwd, NoPwd}
     \/ \E k \in Key : lockPwd \in {NoPwd, k} /\ lockPwd' = k

FastStore ==
  /\ fastWrite /\ value' \in Value
  /\ UNCHANGED <<origin, stack, oncall, lockPwd, cbs, fastWrite>>

OpenDirect(f) ==
  /\ value' = f.new
  /\ cbs["pre_write"] = <<>> /\ ~oncall["pre_write"]
  /\ Passes("post_write", oncall)
  /\ UNCHANGED <<stack, oncall, lockPwd, cbs>>

OpenChecked(p, f) ==
  /\ cbs["pre_write"] # <<>>
  /\ Push(p, f)
  /\ UNCHANGED <<value, origin, lockPwd, cbs, fastWrite>>

OpenObserved(p, f) ==
  /\ value' = f.new
  /\ cbs["pre_write"] = <<>> /\ ~oncall["pre_write"]
  /\ \E g \in WriteOp : g.kind = "post_write" /\ g.op = f.op /\ g.new = f.new
                        /\ Push(p, g)
  /\ UNCHANGED <<lockPwd, cbs, fastWrite>>

OpenRead(p) ==
  /\ \E f \in ReadOp : Push(p, f)
  /\ UNCHANGED <<value, origin, lockPwd, cbs, fastWrite>>

\* The next callback, and the change from pre-read to post-read callbacks.
MoveOn(p) ==
  /\ \E g \in Frame :
       /\ \/ g.kind = Top(p).kind
          \/ Top(p).kind = "pre_read" /\ g.kind = "post_read"
       /\ SameWrite(g, Top(p)) /\ Turn(p, g)
  /\ UNCHANGED <<value, origin, lockPwd, cbs, fastWrite>>

\* The write that was validated lands, with or without observers to tell.
Land(p) ==
  /\ Busy(p) /\ Top(p).kind = "pre_write" /\ Top(p).ok
  /\ Top(p) \in WriteOp /\ value' = Top(p).new
  /\ \/ /\ \E g \in WriteOp : g.kind = "post_write" /\ g.op = Top(p).op
                              /\ g.new = Top(p).new /\ Turn(p, g)
        /\ UNCHANGED fastWrite
     \/ Passes("post_write", oncall) /\ Pop(p)
  /\ UNCHANGED <<lockPwd, cbs>>

End(p) ==
  /\ Pop(p)
  /\ fastWrite' => fastWrite \/ Top(p).kind = "post_write"
  /\ UNCHANGED <<value, origin, lockPwd, cbs>>

Open(p) ==
  \E f \in WriteOp :
    MayOpen(f) /\ (OpenDirect(f) \/ OpenChecked(p, f) \/ OpenObserved(p, f))

Shape(p) == Open(p) \/ OpenRead(p) \/ MoveOn(p) \/ Land(p) \/ End(p)

-----------------------------------------------------------------------------
LEMMA KindsOfFrames ==
  ASSUME NEW f \in Frame
  PROVE  /\ f.kind \in Kind
         /\ f.kind \in {"pre_write", "post_write"} => f \in WriteOp
         /\ f.kind \in {"pre_read", "post_read"} => f \in ReadOp
  BY DEF Frame, WriteOp, ReadOp, Kind

LEMMA BeginWriteShape ==
  ASSUME IInv, NEW p \in Proc, NEW f \in WriteOp, MayOpen(f),
         BeginWrite(p, f), UNCHANGED <<lockPwd, cbs>>
  PROVE  Quiet \/ Open(p)
<1>1. stack[p] \in Seq(Frame) /\ stack \in [Proc -> Seq(Frame)]
      /\ oncall \in [Kind -> BOOLEAN] /\ f \in Frame /\ f.kind = "pre_write"
  BY DEF IInv, TypeOK, MayOpen, Frame
<1>2. CASE Denied(p, f, stack[p], oncall, "dropped")
  BY <1>1, <1>2 DEF Denied, Leave, Quiet
<1>3. CASE /\ ~oncall["pre_write"] /\ cbs["pre_write"] = <<>>
           /\ Store(p, f, stack[p], oncall)
  <2>1. value' = f.new
    BY <1>3 DEF Store
  <2>2. CASE Passes("post_write", oncall) /\ WriteDone(p, f, stack[p], oncall)
    <3>1. UNCHANGED <<stack, oncall>>
      BY <1>1, <2>2 DEF WriteDone, Leave
    <3> QED BY <1>3, <2>1, <2>2, <3>1 DEF Open, OpenDirect
  <2>3. CASE /\ ~Passes("post_write", oncall)
             /\ Suspend(p, [f EXCEPT !.kind = "post_write", !.at = 1,
                              !.old = IF f.op = "preset" THEN f.old ELSE value],
                        stack[p], oncall)
             /\ UNCHANGED <<fastWrite, outcome>>
    <3> DEFINE g == [f EXCEPT !.kind = "post_write", !.at = 1,
                       !.old = IF f.op = "preset" THEN f.old ELSE value]
    <3>1. g \in WriteOp /\ g.kind = "post_write" /\ g.op = f.op /\ g.new = f.new
      BY DEF WriteOp, IInv, TypeOK
    <3>2. Suspend(p, g, stack[p], oncall)
      BY <2>3
    <3> HIDE DEF g
    <3>3. Push(p, g)
      BY <2>3, <3>1, <3>2 DEF Suspend, Push, Frame, Passes
    <3> QED BY <1>3, <2>1, <2>3, <3>1, <3>3 DEF Open, OpenObserved
  <2> QED BY <1>3, <2>2, <2>3 DEF Store
<1>4. CASE /\ ~Passes("pre_write", oncall)
           /\ Suspend(p, f, stack[p], oncall)
           /\ UNCHANGED <<value, origin, fastWrite, outcome>>
  BY <1>1, <1>4 DEF Suspend, Push, Passes, Open, OpenChecked
<1> QED BY <1>2, <1>3, <1>4 DEF BeginWrite

LEMMA SetRawValueShape ==
  ASSUME IInv, NEW p \in Proc, NEW v \in Value, NEW o \in Originator,
         NEW pwd \in WriterPwd \cup {NoPwd}, SetRawValue(p, v, pwd, o)
  PROVE  Quiet \/ Open(p)
<1>1. UNCHANGED <<lockPwd, cbs>>
  BY DEF SetRawValue
<1>2. CASE Leave(p, stack[p], oncall, "error")
           /\ UNCHANGED <<value, origin, fastWrite>>
  BY <1>1, <1>2 DEF Leave, Quiet, IInv, TypeOK
<1>3. CASE ~WriteRefused(pwd) /\ BeginWrite(p, WriteFrame("set", v, NoValue, o))
  <2>1. WriteFrame("set", v, NoValue, o) \in WriteOp
    BY InitialFrames DEF IInv
  <2>2. MayOpen(WriteFrame("set", v, NoValue, o))
    BY <1>3, <2>1 DEF MayOpen, WriteFrame, WriteRefused, Locked
  <2> QED BY <1>1, <1>3, <2>1, <2>2, BeginWriteShape
<1> QED BY <1>2, <1>3 DEF SetRawValue

LEMMA ResetShape ==
  ASSUME IInv, NEW p \in Proc, Reset(p)
  PROVE  Quiet \/ Open(p)
<1>1. UNCHANGED <<lockPwd, cbs>>
  BY DEF Reset
<1>2. CASE Leave(p, stack[p], oncall, "refused")
           /\ UNCHANGED <<value, origin, fastWrite>>
  BY <1>1, <1>2 DEF Leave, Quiet, IInv, TypeOK
<1>3. CASE /\ ~Locked /\ preset # NoPreset
           /\ BeginWrite(p, WriteFrame("preset", preset.value, value,
                                       preset.orig))
  <2>1. preset.value \in Value /\ preset.orig \in Originator
    BY <1>3, PresetsArePresets DEF IInv, TypeOK
  <2>2. WriteFrame("preset", preset.value, value, preset.orig) \in WriteOp
    BY <2>1, InitialFrames DEF IInv
  <2>3. MayOpen(WriteFrame("preset", preset.value, value, preset.orig))
    BY <1>3, <2>2 DEF MayOpen, WriteFrame
  <2> QED BY <1>1, <1>3, <2>2, <2>3, BeginWriteShape
<1>4. CASE /\ ~Locked
           /\ BeginWrite(p, WriteFrame("default", DefaultValue, NoValue, Owner))
  <2>1. WriteFrame("default", DefaultValue, NoValue, Owner) \in WriteOp
    BY DefaultIsValue, OwnerIsOriginator, InitialFrames DEF IInv
  <2>2. MayOpen(WriteFrame("default", DefaultValue, NoValue, Owner))
    BY <1>4, <2>1 DEF MayOpen, WriteFrame
  <2> QED BY <1>1, <1>4, <2>1, <2>2, BeginWriteShape
<1> QED BY <1>2, <1>3, <1>4 DEF Reset

LEMMA SetValueShape ==
  ASSUME IInv, NEW p \in Proc, NEW v \in Value, SetValue(p, v)
  PROVE  Quiet \/ FastStore \/ Open(p)
<1>1. CASE fastWrite
  BY <1>1 DEF SetValue, FastStore
<1>2. CASE ~fastWrite
  BY <1>2, OwnerIsOriginator, SetRawValueShape DEF SetValue
<1> QED BY <1>1, <1>2

LEMMA GetRawValueShape ==
  ASSUME IInv, NEW p \in Proc, GetRawValue(p)
  PROVE  Quiet \/ OpenRead(p)
<1> DEFINE f == [op |-> "get", kind |-> "pre_read", at |-> 1, new |-> NoValue,
                 old |-> NoValue, orig |-> Owner, ok |-> TRUE]
           g == [f EXCEPT !.kind = "post_read", !.at = 1]
<1>1. f \in ReadOp /\ f.kind = "pre_read" /\ g \in ReadOp /\ g.kind = "post_read"
  BY DEF ReadOp
<1>2. UNCHANGED <<value, origin, lockPwd, cbs, fastWrite>>
  BY DEF GetRawValue
<1>3. \/ ReadDone(p, stack[p], oncall)
      \/ ~Passes("post_read", oncall) /\ Suspend(p, g, stack[p], oncall)
      \/ ~Passes("pre_read", oncall) /\ Suspend(p, f, stack[p], oncall)
  BY DEF GetRawValue, PostRead
<1> HIDE DEF f, g
<1>4. CASE ReadDone(p, stack[p], oncall)
  BY <1>2, <1>4 DEF ReadDone, Leave, Quiet, IInv, TypeOK
<1>5. CASE ~Passes("post_read", oncall) /\ Suspend(p, g, stack[p], oncall)
  <2>1. Push(p, g)
    BY <1>1, <1>5 DEF Suspend, Push, Passes, Frame
  <2> QED BY <1>1, <1>2, <2>1 DEF OpenRead
<1>6. CASE ~Passes("pre_read", oncall) /\ Suspend(p, f, stack[p], oncall)
  <2>1. Push(p, f)
    BY <1>1, <1>6 DEF Suspend, Push, Passes, Frame
  <2> QED BY <1>1, <1>2, <2>1 DEF OpenRead
<1> QED BY <1>3, <1>4, <1>5, <1>6

LEMMA GetValueShape ==
  ASSUME IInv, NEW p \in Proc, GetValue(p)
  PROVE  Quiet \/ OpenRead(p)
<1>1. CASE fastRead
  BY <1>1 DEF GetValue, Quiet
<1>2. CASE ~fastRead
  BY <1>2, GetRawValueShape DEF GetValue
<1> QED BY <1>1, <1>2

LEMMA ContinueShape ==
  ASSUME IInv, NEW p \in Proc, Busy(p), NEW f \in Frame,
         \/ f = Top(p)
         \/ Top(p).kind = "pre_write" /\ f = [Top(p) EXCEPT !.ok = FALSE],
         Continue(p, f)
  PROVE  MoveOn(p) \/ Land(p) \/ End(p)
<1> DEFINE rest == Tail(stack[p])
<1>1. /\ Top(p) \in Frame
      /\ stack \in [Proc -> Seq(Frame)] /\ oncall \in [Kind -> BOOLEAN]
  BY TopType DEF IInv, TypeOK
<1>2. f.kind = Top(p).kind /\ SameWrite(f, Top(p)) /\ (f.ok => f = Top(p))
  BY <1>1, KindsOfFrames DEF SameWrite, WriteOp
<1>3. After(f) = After(Top(p)) /\ f.kind \in Kind
  BY <1>2, KindsOfFrames DEF After
<1>4. UNCHANGED <<lockPwd, cbs>>
  BY DEF Continue
<1>5. ASSUME NEW how, Leave(p, rest, After(f), how)
      PROVE  Pop(p)
  BY <1>3, <1>5 DEF Leave, Pop
<1>6. CASE NextCallback(p, f)
  <2> DEFINE g == [f EXCEPT !.at = @ + 1]
  <2>1. g \in Frame /\ g.kind = f.kind /\ SameWrite(g, f)
    <3>1. f.at \in Nat
      <4>1. f \in WriteOp => f.at \in Nat
        BY DEF WriteOp
      <4>2. f \in ReadOp => f.at \in Nat
        BY DEF ReadOp
      <4> QED BY <4>1, <4>2 DEF Frame
    <3>2. f.at + 1 \in Nat
      BY <3>1
    <3>3. f \in WriteOp => g \in WriteOp /\ g.kind = f.kind /\ SameWrite(g, f)
      BY <3>2 DEF WriteOp, SameWrite
    <3>4. f \in ReadOp => g \in ReadOp /\ g.kind = f.kind /\ SameWrite(g, f)
      BY <3>2 DEF ReadOp, SameWrite
    <3> QED BY <3>3, <3>4 DEF Frame
  <2>2. /\ Suspend(p, g, rest, oncall)
        /\ UNCHANGED <<value, origin, fastWrite>>
    BY <1>6 DEF NextCallback
  <2> HIDE DEF g
  <2>3. [After(Top(p)) EXCEPT ![g.kind] = TRUE] = [oncall EXCEPT ![g.kind] = TRUE]
    BY <1>1, <1>2, <1>3, <2>1 DEF After
  <2>4. Turn(p, g)
    BY <1>2, <2>1, <2>2, <2>3 DEF Suspend, Turn
  <2> QED BY <1>2, <1>4, <2>1, <2>2, <2>4 DEF MoveOn, SameWrite
<1>7. CASE /\ f.kind = "pre_write" /\ f.ok
           /\ Store(p, f, rest, After(f))
  <2>1. f = Top(p) /\ f \in WriteOp /\ value' = f.new
    BY <1>2, <1>7, KindsOfFrames DEF Store
  <2>2. Passes("post_write", After(f)) <=> Passes("post_write", oncall)
    BY <1>1, <1>7 DEF Passes, After, Kind
  <2>3. CASE Passes("post_write", After(f)) /\ WriteDone(p, f, rest, After(f))
    BY <1>4, <1>5, <1>7, <2>1, <2>2, <2>3 DEF WriteDone, Land
  <2>4. CASE /\ ~Passes("post_write", After(f))
             /\ Suspend(p, [f EXCEPT !.kind = "post_write", !.at = 1,
                              !.old = IF f.op = "preset" THEN f.old ELSE value],
                        rest, After(f))
             /\ UNCHANGED <<fastWrite, outcome>>
    <3> DEFINE g == [f EXCEPT !.kind = "post_write", !.at = 1,
                       !.old = IF f.op = "preset" THEN f.old ELSE value]
    <3>1. g \in WriteOp /\ g.kind = "post_write" /\ g.op = f.op /\ g.new = f.new
      BY <2>1 DEF WriteOp, IInv, TypeOK
    <3>2. Suspend(p, g, rest, After(f))
      BY <2>4
    <3> HIDE DEF g
    <3>3. Turn(p, g)
      BY <1>3, <2>2, <2>4, <3>1, <3>2 DEF Suspend, Turn, Frame, Passes
    <3> QED BY <1>4, <1>7, <2>1, <2>4, <3>1, <3>3 DEF Land
  <2> QED BY <1>7, <2>3, <2>4 DEF Store
<1>8. CASE Denied(p, f, rest, After(f), "error")
  BY <1>4, <1>5, <1>8 DEF Denied, End
<1>9. CASE /\ f.kind = "post_write"
           /\ WriteDone(p, f, rest, After(f))
           /\ UNCHANGED <<value, origin>>
  BY <1>2, <1>4, <1>5, <1>9 DEF WriteDone, End
<1>10. CASE ReadDone(p, rest, After(f)) /\ UNCHANGED <<value, origin, fastWrite>>
  BY <1>4, <1>5, <1>10 DEF ReadDone, End
<1>11. CASE /\ f.kind = "pre_read" /\ ~Passes("post_read", After(f))
            /\ Suspend(p, [f EXCEPT !.kind = "post_read", !.at = 1],
                       rest, After(f))
            /\ UNCHANGED <<value, origin, fastWrite>>
  <2> DEFINE g == [f EXCEPT !.kind = "post_read", !.at = 1]
  <2>1. g \in ReadOp /\ g.kind = "post_read" /\ SameWrite(g, f)
    BY <1>11, KindsOfFrames DEF ReadOp, SameWrite
  <2>2. Suspend(p, g, rest, After(f))
    BY <1>11
  <2> HIDE DEF g
  <2>3. ~oncall["post_read"]
    BY <1>1, <1>11 DEF Passes, After, Kind
  <2>4. Turn(p, g)
    BY <1>3, <2>1, <2>2, <2>3 DEF Suspend, Turn, Frame
  <2> QED BY <1>2, <1>4, <1>11, <2>1, <2>4 DEF MoveOn, SameWrite, Frame
<1> QED BY <1>6, <1>7, <1>8, <1>9, <1>10, <1>11
        DEF Continue, LastCallback, AfterLast, PostRead

LEMMA ReturnShape ==
  ASSUME IInv, NEW p \in Proc, Return(p)
  PROVE  MoveOn(p) \/ Land(p) \/ End(p)
<1>1. Busy(p)
  BY DEF Return, CallbackReturns, CallbackRejects, CallbackThrows
<1>2. Top(p) \in Frame
  BY <1>1, TopType DEF IInv
<1>3. CASE Continue(p, Top(p))
  BY <1>1, <1>2, <1>3, ContinueShape
<1>4. CASE Top(p).kind = "pre_write" /\ Continue(p, [Top(p) EXCEPT !.ok = FALSE])
  <2>1. [Top(p) EXCEPT !.ok = FALSE] \in Frame
    BY <1>2, <1>4 DEF Frame, WriteOp, ReadOp
  <2> QED BY <1>1, <1>4, <2>1, ContinueShape
<1>5. CASE Unwind(p)
  BY <1>1, <1>5 DEF Unwind, Leave, End, Pop
<1> QED BY <1>3, <1>4, <1>5
        DEF Return, CallbackReturns, CallbackRejects, CallbackThrows

LEMMA LockShape ==
  ASSUME IInv, NEW p \in Proc, NEW pwd \in Key \cup {NoPwd},
         Lock(p, pwd) \/ Unlock(p, pwd)
  PROVE  Quiet
<1>1. KeyOf(pwd) \in Key
  BY KeysAreKeys DEF KeyOf
<1> QED BY <1>1 DEF Lock, Unlock, Quiet, Locked

LEMMA RegistrationShape ==
  ASSUME Registration
  PROVE  Quiet
<1>1. /\ UNCHANGED <<value, origin, lockPwd, oncall, stack>>
      /\ fastWrite' = FALSE \/ fastWrite' = fastWrite
  BY DEF Registration, RegisterCallback, UnregisterCallback,
         UnregisterAllCallbacks
<1> QED BY <1>1 DEF Quiet

(* Every step of a parameter, on whichever process and from whichever         *)
(* callback, has one of the shapes; none changes what the broker answers.     *)
LEMMA StepShape ==
  ASSUME IInv, [Next]_vars
  PROVE  /\ Quiet \/ FastStore \/ \E p \in Proc : Shape(p)
         /\ preset' = preset
<1>1. ASSUME NEW p \in Proc, Call(p)
      PROVE  (Quiet \/ FastStore \/ Shape(p)) /\ preset' = preset
  <2>1. ASSUME NEW v \in Value, SetValue(p, v)
        PROVE  (Quiet \/ FastStore \/ Shape(p)) /\ preset' = preset
    BY <2>1, SetValueShape DEF SetValue, SetRawValue, Shape
  <2>2. ASSUME NEW v \in Value, NEW pwd \in WriterPwd, NEW o \in Originator,
               SetRawValue(p, v, pwd, o)
        PROVE  (Quiet \/ FastStore \/ Shape(p)) /\ preset' = preset
    BY <2>2, SetRawValueShape DEF SetRawValue, Shape
  <2>3. ASSUME Reset(p)
        PROVE  (Quiet \/ FastStore \/ Shape(p)) /\ preset' = preset
    BY <2>3, ResetShape DEF Reset, Shape
  <2>4. ASSUME GetValue(p)
        PROVE  (Quiet \/ FastStore \/ Shape(p)) /\ preset' = preset
    BY <2>4, GetValueShape DEF GetValue, GetRawValue, Shape
  <2>5. ASSUME GetRawValue(p)
        PROVE  (Quiet \/ FastStore \/ Shape(p)) /\ preset' = preset
    BY <2>5, GetRawValueShape DEF GetRawValue, Shape
  <2>6. ASSUME NEW pwd \in Key \cup {NoPwd}, Lock(p, pwd) \/ Unlock(p, pwd)
        PROVE  (Quiet \/ FastStore \/ Shape(p)) /\ preset' = preset
    BY <2>6, LockShape DEF Lock, Unlock
  <2> QED BY <1>1, <2>1, <2>2, <2>3, <2>4, <2>5, <2>6
      DEF Call, ValueCalls, LockCalls
<1>2. ASSUME NEW p \in Proc, Return(p)
      PROVE  Shape(p) /\ preset' = preset
  BY <1>2, ReturnShape
     DEF Shape, Return, CallbackReturns, CallbackRejects, CallbackThrows,
         Continue, Unwind
<1>3. ASSUME Registration
      PROVE  Quiet /\ preset' = preset
  BY <1>3, RegistrationShape
     DEF Registration, RegisterCallback, UnregisterCallback,
         UnregisterAllCallbacks
<1>4. CASE UNCHANGED vars
  BY <1>4 DEF vars, Quiet
<1> QED BY <1>1, <1>2, <1>3, <1>4 DEF Next

-----------------------------------------------------------------------------
(* Where the frames of a stack are after it was pushed, turned or popped.     *)

LEMMA PushFrames ==
  ASSUME TypeOK, NEW p \in Proc, NEW f, Push(p, f)
  PROVE  /\ \A q \in Proc : q # p => stack'[q] = stack[q]
         /\ Len(stack'[p]) = Len(stack[p]) + 1
         /\ stack'[p][1] = f
         /\ \A i \in 2..Len(stack'[p]) : stack'[p][i] = stack[p][i - 1]
<1>1. stack[p] \in Seq(Frame) /\ stack'[p] = <<f>> \o stack[p] /\ f \in Frame
  BY DEF Push, TypeOK
<1>2. \A q \in Proc : q # p => stack'[q] = stack[q]
  BY DEF Push, TypeOK
<1> QED BY <1>1, <1>2, ConsFacts

LEMMA TurnFrames ==
  ASSUME TypeOK, NEW p \in Proc, NEW g, Turn(p, g)
  PROVE  /\ \A q \in Proc : q # p => stack'[q] = stack[q]
         /\ Len(stack[p]) \in Nat \ {0} /\ Top(p) = stack[p][1]
         /\ Len(stack'[p]) = Len(stack[p])
         /\ stack'[p][1] = g
         /\ \A i \in 2..Len(stack[p]) : stack'[p][i] = stack[p][i]
<1>1. /\ stack[p] \in Seq(Frame) /\ stack[p] # <<>> /\ g \in Frame
      /\ stack'[p] = <<g>> \o Tail(stack[p])
  BY DEF Turn, TypeOK, Busy
<1>2. \A q \in Proc : q # p => stack'[q] = stack[q]
  BY DEF Turn, TypeOK
<1>3. /\ Len(stack[p]) \in Nat \ {0} /\ Top(p) = stack[p][1]
      /\ Tail(stack[p]) \in Seq(Frame)
      /\ Len(Tail(stack[p])) = Len(stack[p]) - 1
      /\ \A i \in 1..Len(stack[p]) - 1 : Tail(stack[p])[i] = stack[p][i + 1]
  BY <1>1, TailFacts DEF Top
<1>4. /\ Len(stack'[p]) = Len(stack[p]) /\ stack'[p][1] = g
      /\ \A i \in 2..Len(stack[p]) : stack'[p][i] = Tail(stack[p])[i - 1]
  BY <1>1, <1>3, ConsFacts
<1>5. \A i \in 2..Len(stack[p]) : i - 1 \in 1..Len(stack[p]) - 1 /\ (i - 1) + 1 = i
  BY <1>3
<1>6. \A i \in 2..Len(stack[p]) : stack'[p][i] = stack[p][i]
  BY <1>3, <1>4, <1>5
<1> QED BY <1>2, <1>3, <1>4, <1>6

LEMMA PopFrames ==
  ASSUME TypeOK, NEW p \in Proc, Pop(p)
  PROVE  /\ \A q \in Proc : q # p => stack'[q] = stack[q]
         /\ Len(stack[p]) \in Nat \ {0} /\ Top(p) = stack[p][1]
         /\ Len(stack'[p]) = Len(stack[p]) - 1
         /\ \A i \in 1..Len(stack'[p]) : stack'[p][i] = stack[p][i + 1]
<1>1. /\ stack[p] \in Seq(Frame) /\ stack[p] # <<>>
      /\ stack'[p] = Tail(stack[p])
  BY DEF Pop, TypeOK, Busy
<1>2. \A q \in Proc : q # p => stack'[q] = stack[q]
  BY DEF Pop, TypeOK
<1> QED BY <1>1, <1>2, TailFacts DEF Top

(* The same, for the frames of one kind.                                      *)
LEMMA FramesElsewhere ==
  ASSUME NEW q \in Proc, stack'[q] = stack[q]
  PROVE  \A k \in Kind : FramesOf(q, k)' = FramesOf(q, k)
  BY DEF FramesOf

LEMMA PushKinds ==
  ASSUME TypeOK, NEW p \in Proc, NEW f, Push(p, f), NEW k \in Kind
  PROVE  /\ \A q \in Proc : q # p => FramesOf(q, k)' = FramesOf(q, k)
         /\ \A i \in FramesOf(p, k)' :
              \/ i = 1 /\ f.kind = k
              \/ i - 1 \in FramesOf(p, k) /\ i \in Nat /\ i > 1
         /\ f.kind = k => 1 \in FramesOf(p, k)'
         /\ \A i \in FramesOf(p, k) : i + 1 \in FramesOf(p, k)'
<1>1. Len(stack[p]) \in Nat
  BY LenProperties DEF TypeOK
<1>2. \A q \in Proc : q # p => FramesOf(q, k)' = FramesOf(q, k)
  BY PushFrames, FramesElsewhere
<1>3. /\ Len(stack'[p]) = Len(stack[p]) + 1 /\ stack'[p][1] = f
      /\ \A i \in 2..Len(stack'[p]) : stack'[p][i] = stack[p][i - 1]
  BY PushFrames
<1>4. ASSUME NEW i \in FramesOf(p, k)', i # 1
      PROVE  i - 1 \in FramesOf(p, k) /\ i \in Nat /\ i > 1
  <2>1. i \in 2..Len(stack'[p]) /\ stack'[p][i].kind = k
    BY <1>1, <1>3, <1>4 DEF FramesOf
  <2>2. stack[p][i - 1].kind = k /\ i - 1 \in 1..Len(stack[p])
    BY <1>1, <1>3, <2>1
  <2> QED BY <2>1, <2>2 DEF FramesOf
<1>5. ASSUME NEW i \in FramesOf(p, k)', i = 1
      PROVE  f.kind = k
  BY <1>3, <1>5 DEF FramesOf
<1>6. f.kind = k => 1 \in FramesOf(p, k)'
  BY <1>1, <1>3 DEF FramesOf
<1>7. ASSUME NEW i \in FramesOf(p, k)
      PROVE  i + 1 \in FramesOf(p, k)'
  <2>1. i \in 1..Len(stack[p]) /\ stack[p][i].kind = k
    BY <1>7 DEF FramesOf
  <2>2. i + 1 \in 2..Len(stack'[p]) /\ (i + 1) - 1 = i
    BY <1>1, <1>3, <2>1
  <2>3. stack'[p][i + 1] = stack[p][i]
    BY <1>3, <2>2
  <2> QED BY <1>1, <1>3, <2>1, <2>2, <2>3 DEF FramesOf
<1> QED BY <1>2, <1>4, <1>5, <1>6, <1>7

LEMMA TurnKinds ==
  ASSUME TypeOK, NEW p \in Proc, NEW g, Turn(p, g), NEW k \in Kind
  PROVE  /\ \A q \in Proc : q # p => FramesOf(q, k)' = FramesOf(q, k)
         /\ \A i \in FramesOf(p, k)' :
              (i = 1 /\ g.kind = k) \/ (i # 1 /\ i \in FramesOf(p, k))
         /\ g.kind = k => 1 \in FramesOf(p, k)'
         /\ Top(p).kind = k => 1 \in FramesOf(p, k)
         /\ \A i \in FramesOf(p, k) :
              (i = 1 /\ Top(p).kind = k) \/ (i # 1 /\ i \in FramesOf(p, k)')
<1>1. \A q \in Proc : q # p => FramesOf(q, k)' = FramesOf(q, k)
  BY TurnFrames, FramesElsewhere
<1>2. /\ Len(stack[p]) \in Nat \ {0} /\ Top(p) = stack[p][1]
      /\ Len(stack'[p]) = Len(stack[p]) /\ stack'[p][1] = g
      /\ \A i \in 2..Len(stack[p]) : stack'[p][i] = stack[p][i]
  BY TurnFrames
<1>3. \A i \in 1..Len(stack[p]) : i = 1 \/ i \in 2..Len(stack[p])
  BY <1>2
<1>4. ASSUME NEW i \in 2..Len(stack[p])
      PROVE  i # 1 /\ (i \in FramesOf(p, k)' <=> i \in FramesOf(p, k))
  <2>1. stack'[p][i] = stack[p][i] /\ i \in 1..Len(stack[p]) /\ i # 1
        /\ i \in 1..Len(stack'[p])
    BY <1>2
  <2> QED BY <2>1 DEF FramesOf
<1>5. /\ 1 \in FramesOf(p, k)' => g.kind = k
      /\ 1 \in FramesOf(p, k) => Top(p).kind = k
      /\ \A i \in FramesOf(p, k)' : i \in 1..Len(stack[p])
      /\ \A i \in FramesOf(p, k) : i \in 1..Len(stack[p])
  BY <1>2 DEF FramesOf
<1>6. /\ g.kind = k => 1 \in FramesOf(p, k)'
      /\ Top(p).kind = k => 1 \in FramesOf(p, k)
  BY <1>2 DEF FramesOf
<1>7. ASSUME NEW i \in FramesOf(p, k)'
      PROVE  (i = 1 /\ g.kind = k) \/ (i # 1 /\ i \in FramesOf(p, k))
  BY <1>3, <1>4, <1>5, <1>7
<1>8. ASSUME NEW i \in FramesOf(p, k)
      PROVE  (i = 1 /\ Top(p).kind = k) \/ (i # 1 /\ i \in FramesOf(p, k)')
  BY <1>3, <1>4, <1>5, <1>8
<1> QED BY <1>1, <1>6, <1>7, <1>8

LEMMA PopKinds ==
  ASSUME TypeOK, NEW p \in Proc, Pop(p), NEW k \in Kind
  PROVE  /\ \A q \in Proc : q # p => FramesOf(q, k)' = FramesOf(q, k)
         /\ \A i \in FramesOf(p, k)' : i \in Nat /\ i + 1 \in FramesOf(p, k)
         /\ Top(p).kind = k => 1 \in FramesOf(p, k)
         /\ \A i \in FramesOf(p, k) :
              \/ i = 1 /\ Top(p).kind = k
              \/ i - 1 \in FramesOf(p, k)' /\ i \in Nat /\ i > 1
  BY PopFrames, FramesElsewhere DEF FramesOf

-----------------------------------------------------------------------------
(* The oncall tags.                                                           *)

LEMMA PushOncall ==
  ASSUME TypeOK, OncallIsOneFrame, NEW p \in Proc, NEW f, Push(p, f)
  PROVE  OncallIsOneFrame'
<1> SUFFICES ASSUME NEW k \in Kind
             PROVE  /\ oncall'[k] <=> \E q \in Proc : FramesOf(q, k)' # {}
                    /\ \A q, r \in Proc :
                         \A i \in FramesOf(q, k)', j \in FramesOf(r, k)' :
                           q = r /\ i = j
  BY DEF OncallIsOneFrame
<1>1. CASE f.kind = k
  <2>1. ~oncall[k] /\ oncall'[k]
    BY <1>1 DEF Push, TypeOK
  <2>2. \A q \in Proc : FramesOf(q, k) = {}
    BY <2>1 DEF OncallIsOneFrame
  <2>3. \A q \in Proc : \A i \in FramesOf(q, k)' : q = p /\ i = 1
    BY <2>2, PushKinds
  <2>4. 1 \in FramesOf(p, k)'
    BY <1>1, PushKinds
  <2> QED BY <2>1, <2>3, <2>4
<1>2. CASE f.kind # k
  <2>1. oncall'[k] = oncall[k]
    BY <1>2 DEF Push, TypeOK
  <2>2. \A q \in Proc : \A i \in FramesOf(q, k)' :
          \/ q # p /\ i \in FramesOf(q, k)
          \/ q = p /\ i - 1 \in FramesOf(q, k) /\ i \in Nat
    BY <1>2, PushKinds
  <2>3. \A q \in Proc : FramesOf(q, k) # {} => FramesOf(q, k)' # {}
    BY <1>2, PushKinds
  <2>4. oncall'[k] <=> \E q \in Proc : FramesOf(q, k)' # {}
    BY <2>1, <2>2, <2>3 DEF OncallIsOneFrame
  <2>5. ASSUME NEW q \in Proc, NEW r \in Proc, NEW i \in FramesOf(q, k)',
               NEW j \in FramesOf(r, k)'
        PROVE  q = r /\ i = j
    <3>1. q = r
      BY <2>2 DEF OncallIsOneFrame
    <3>2. CASE q # p
      BY <2>2, <3>1, <3>2 DEF OncallIsOneFrame
    <3>3. CASE q = p
      <4>1. i - 1 \in FramesOf(p, k) /\ j - 1 \in FramesOf(p, k)
            /\ i \in Nat /\ j \in Nat
        BY <2>2, <3>1, <3>3
      <4>2. i - 1 = j - 1
        BY <4>1 DEF OncallIsOneFrame
      <4> QED BY <3>1, <4>1, <4>2
    <3> QED BY <3>2, <3>3
  <2> QED BY <2>4, <2>5
<1> QED BY <1>1, <1>2

LEMMA TurnOncall ==
  ASSUME TypeOK, OncallIsOneFrame, NEW p \in Proc, NEW g, Turn(p, g)
  PROVE  OncallIsOneFrame'
<1> SUFFICES ASSUME NEW k \in Kind
             PROVE  /\ oncall'[k] <=> \E q \in Proc : FramesOf(q, k)' # {}
                    /\ \A q, r \in Proc :
                         \A i \in FramesOf(q, k)', j \in FramesOf(r, k)' :
                           q = r /\ i = j
  BY DEF OncallIsOneFrame
<1>0. Top(p).kind \in Kind /\ g.kind \in Kind
  BY TopType, KindsOfFrames DEF Turn
<1>1. CASE g.kind = k
  <2>1. oncall'[k]
    BY <1>1 DEF Turn, TypeOK, After
  <2>2. \A q \in Proc : \A i \in FramesOf(q, k) : q = p /\ i = 1
    <3>1. CASE Top(p).kind = k
      BY <3>1, TurnKinds DEF OncallIsOneFrame
    <3>2. CASE ~oncall[k]
      BY <3>2 DEF OncallIsOneFrame
    <3> QED BY <1>1, <3>1, <3>2 DEF Turn
  <2>3. \A q \in Proc : \A i \in FramesOf(q, k)' : q = p /\ i = 1
    BY <2>2, TurnKinds
  <2>4. 1 \in FramesOf(p, k)'
    BY <1>1, TurnKinds
  <2> QED BY <2>1, <2>3, <2>4
<1>2. CASE g.kind # k /\ Top(p).kind = k
  <2>1. ~oncall'[k]
    BY <1>0, <1>2 DEF Turn, TypeOK, After
  <2>2. 1 \in FramesOf(p, k)
    BY <1>2, TurnKinds
  <2>3. \A q \in Proc : \A i \in FramesOf(q, k) : q = p /\ i = 1
    BY <2>2 DEF OncallIsOneFrame
  <2>4. \A q \in Proc : FramesOf(q, k)' = {}
    BY <1>2, <2>3, TurnKinds
  <2> QED BY <2>1, <2>4
<1>3. CASE g.kind # k /\ Top(p).kind # k
  <2>1. oncall'[k] = oncall[k]
    BY <1>0, <1>3 DEF Turn, TypeOK, After
  <2>2. \A q \in Proc : FramesOf(q, k)' = FramesOf(q, k)
    BY <1>3, TurnKinds
  <2> QED BY <2>1, <2>2 DEF OncallIsOneFrame
<1> QED BY <1>1, <1>2, <1>3

LEMMA PopOncall ==
  ASSUME TypeOK, OncallIsOneFrame, NEW p \in Proc, Pop(p)
  PROVE  OncallIsOneFrame'
<1> SUFFICES ASSUME NEW k \in Kind
             PROVE  /\ oncall'[k] <=> \E q \in Proc : FramesOf(q, k)' # {}
                    /\ \A q, r \in Proc :
                         \A i \in FramesOf(q, k)', j \in FramesOf(r, k)' :
                           q = r /\ i = j
  BY DEF OncallIsOneFrame
<1>0. Top(p).kind \in Kind
  BY TopType, KindsOfFrames DEF Pop
<1>1. CASE Top(p).kind = k
  <2>1. ~oncall'[k]
    BY <1>0, <1>1 DEF Pop, TypeOK, After
  <2>2. 1 \in FramesOf(p, k)
    BY <1>1, PopKinds
  <2>3. \A q \in Proc : \A i \in FramesOf(q, k) : q = p /\ i = 1
    BY <2>2 DEF OncallIsOneFrame
  <2>4. ASSUME NEW q \in Proc, NEW i \in FramesOf(q, k)'
        PROVE  FALSE
    <3>1. q = p /\ i + 1 \in FramesOf(p, k) /\ i \in Nat
      BY <2>3, <2>4, PopKinds
    <3>2. i = 0
      BY <2>3, <3>1
    <3>3. i >= 1
      BY <3>1, <2>4 DEF FramesOf
    <3> QED BY <3>2, <3>3
  <2> QED BY <2>1, <2>4
<1>2. CASE Top(p).kind # k
  <2>1. oncall'[k] = oncall[k]
    BY <1>0, <1>2 DEF Pop, TypeOK, After
  <2>2. \A q \in Proc : \A i \in FramesOf(q, k)' :
          \/ q # p /\ i \in FramesOf(q, k)
          \/ q = p /\ i + 1 \in FramesOf(q, k) /\ i \in Nat
    BY PopKinds
  <2>3. \A q \in Proc : FramesOf(q, k) # {} => FramesOf(q, k)' # {}
    BY <1>2, PopKinds
  <2>4. oncall'[k] <=> \E q \in Proc : FramesOf(q, k)' # {}
    BY <2>1, <2>2, <2>3 DEF OncallIsOneFrame
  <2>5. ASSUME NEW q \in Proc, NEW r \in Proc, NEW i \in FramesOf(q, k)',
               NEW j \in FramesOf(r, k)'
        PROVE  q = r /\ i = j
    <3>1. q = r
      BY <2>2 DEF OncallIsOneFrame
    <3>2. CASE q # p
      BY <2>2, <3>1, <3>2 DEF OncallIsOneFrame
    <3>3. CASE q = p
      <4>1. i + 1 \in FramesOf(p, k) /\ j + 1 \in FramesOf(p, k)
            /\ i \in Nat /\ j \in Nat
        BY <2>2, <3>1, <3>3
      <4>2. i + 1 = j + 1
        BY <4>1 DEF OncallIsOneFrame
      <4> QED BY <3>1, <4>1, <4>2
    <3> QED BY <3>2, <3>3
  <2> QED BY <2>4, <2>5
<1> QED BY <1>1, <1>2

LEMMA SameOncall ==
  ASSUME OncallIsOneFrame, UNCHANGED <<stack, oncall>>
  PROVE  OncallIsOneFrame'
  BY DEF OncallIsOneFrame, FramesOf

LEMMA NextOncall ==
  ASSUME IInv, OncallIsOneFrame, [Next]_vars
  PROVE  OncallIsOneFrame'
<1>1. TypeOK
  BY DEF IInv
<1>2. CASE Quiet \/ FastStore
  BY <1>2, SameOncall DEF Quiet, FastStore
<1>3. ASSUME NEW p \in Proc, Shape(p)
      PROVE  OncallIsOneFrame'
  <2>1. \/ UNCHANGED <<stack, oncall>>
        \/ \E f : Push(p, f)
        \/ \E g : Turn(p, g)
        \/ Pop(p)
    BY <1>3 DEF Shape, Open, OpenDirect, OpenChecked, OpenObserved, OpenRead,
                MoveOn, Land, End
  <2> QED BY <1>1, <2>1, SameOncall, PushOncall, TurnOncall, PopOncall
<1> QED BY <1>2, <1>3, StepShape

(* The oncall tag of a kind of callbacks is set exactly while one operation   *)
(* of one process runs the callbacks of that kind, through nesting,           *)
(* interleaving and exceptions (cci_param_typed.h, scoped_true).              *)
THEOREM OncallIsExact == Spec => []OncallIsOneFrame
<1>1. Init => OncallIsOneFrame
  BY EmptySeq DEF Init, OncallIsOneFrame, FramesOf
<1>2. IInv /\ OncallIsOneFrame /\ [Next]_vars => OncallIsOneFrame'
  BY NextOncall
<1> QED BY <1>1, <1>2, InitInv, NextInv, PTL DEF Spec

-----------------------------------------------------------------------------
(* What an operation in progress is entitled to write.  The check for         *)
(* mutability comes before the callbacks, so the value is safe only if every  *)
(* write that waits for one was entitled to start.                            *)

Rightful(f) ==
  /\ f.op = "set" => Mutable
  /\ f.op = "preset" => preset # NoPreset /\ f.new = preset.value
  /\ f.op = "default" => f.new = DefaultValue

FramesRightful ==
  \A p \in Proc : \A i \in 1..Len(stack[p]) : Rightful(stack[p][i])

ImmutableInv == ImmutableHoldsInitial /\ FramesRightful

LEMMA RightfulShape ==
  ASSUME IInv, FramesRightful, preset' = preset, NEW p \in Proc, Shape(p)
  PROVE  FramesRightful'
<1> USE DEF Rightful
<1>1. TypeOK
  BY DEF IInv
<1>2. ASSUME NEW f, Push(p, f), Rightful(f)
      PROVE  FramesRightful'
  <2>1. Len(stack[p]) \in Nat
    BY <1>1, LenProperties DEF TypeOK
  <2>2. ASSUME NEW q \in Proc, NEW i \in 1..Len(stack'[q]), q # p
        PROVE  Rightful(stack[q][i])'
    BY <1>1, <1>2, <2>2, PushFrames DEF FramesRightful
  <2>3. ASSUME NEW i \in 1..Len(stack'[p])
        PROVE  Rightful(stack[p][i])'
    <3>1. /\ Len(stack'[p]) = Len(stack[p]) + 1 /\ stack'[p][1] = f
          /\ \A j \in 2..Len(stack'[p]) : stack'[p][j] = stack[p][j - 1]
      BY <1>1, <1>2, PushFrames
    <3>2. CASE i = 1
      BY <1>2, <3>1, <3>2
    <3>3. CASE i # 1
      <4>1. i \in 2..Len(stack'[p]) /\ i - 1 \in 1..Len(stack[p])
        BY <2>1, <2>3, <3>1, <3>3
      <4>2. stack'[p][i] = stack[p][i - 1] /\ Rightful(stack[p][i - 1])
        BY <3>1, <4>1 DEF FramesRightful
      <4> QED BY <4>2
    <3> QED BY <3>2, <3>3
  <2> QED BY <2>2, <2>3 DEF FramesRightful
<1>3. ASSUME NEW g, Turn(p, g), Rightful(Top(p)) => Rightful(g)
      PROVE  FramesRightful'
  <2>1. Rightful(Top(p)) /\ Len(stack[p]) \in Nat
    BY <1>1, <1>3, TurnFrames DEF FramesRightful
  <2>2. ASSUME NEW q \in Proc, NEW i \in 1..Len(stack'[q]), q # p
        PROVE  Rightful(stack[q][i])'
    BY <1>1, <1>3, <2>2, TurnFrames DEF FramesRightful
  <2>3. ASSUME NEW i \in 1..Len(stack'[p])
        PROVE  Rightful(stack[p][i])'
    <3>1. i = 1 \/ (i \in 2..Len(stack[p]) /\ i \in 1..Len(stack[p]))
      BY <1>1, <1>3, <2>1, <2>3, TurnFrames
    <3> QED BY <1>1, <1>3, <2>1, <3>1, TurnFrames DEF FramesRightful
  <2> QED BY <2>2, <2>3 DEF FramesRightful
<1>4. ASSUME Pop(p)
      PROVE  FramesRightful'
  <2>1. ASSUME NEW q \in Proc, NEW i \in 1..Len(stack'[q]), q # p
        PROVE  Rightful(stack[q][i])'
    BY <1>1, <1>4, <2>1, PopFrames DEF FramesRightful
  <2>2. ASSUME NEW i \in 1..Len(stack'[p])
        PROVE  Rightful(stack[p][i])'
    <3>1. i + 1 \in 1..Len(stack[p]) /\ stack'[p][i] = stack[p][i + 1]
      BY <1>1, <1>4, <2>2, PopFrames
    <3> QED BY <3>1 DEF FramesRightful
  <2> QED BY <2>1, <2>2 DEF FramesRightful
<1>5. CASE Open(p)
  <2>1. PICK f \in WriteOp :
          MayOpen(f) /\ (OpenDirect(f) \/ OpenChecked(p, f) \/ OpenObserved(p, f))
    BY <1>5 DEF Open
  <2>2. Rightful(f)
    BY <2>1 DEF MayOpen
  <2>3. CASE OpenDirect(f)
    BY <2>3 DEF OpenDirect, FramesRightful
  <2>4. CASE OpenChecked(p, f)
    BY <1>2, <2>2, <2>4 DEF OpenChecked
  <2>5. CASE OpenObserved(p, f)
    BY <1>2, <2>2, <2>5 DEF OpenObserved
  <2> QED BY <2>1, <2>3, <2>4, <2>5
<1>6. CASE OpenRead(p)
  BY <1>2, <1>6 DEF OpenRead, ReadOp
<1>7. CASE MoveOn(p)
  BY <1>3, <1>7 DEF MoveOn, SameWrite
<1>8. CASE Land(p)
  BY <1>3, <1>4, <1>8 DEF Land
<1>9. CASE End(p)
  BY <1>4, <1>9 DEF End
<1> QED BY <1>5, <1>6, <1>7, <1>8, <1>9 DEF Shape

LEMMA TopRightful ==
  ASSUME IInv, FramesRightful, NEW p \in Proc, Busy(p)
  PROVE  Rightful(Top(p))
<1>1. stack[p] \in Seq(Frame) /\ stack[p] # <<>>
  BY DEF IInv, TypeOK, Busy
<1>2. 1 \in 1..Len(stack[p]) /\ Top(p) = stack[p][1]
  BY <1>1, TailFacts DEF Top
<1> QED BY <1>2 DEF FramesRightful

LEMMA NextImmutable ==
  ASSUME IInv, ImmutableInv, [Next]_vars
  PROVE  ImmutableInv'
<1>1. preset' = preset /\ FramesRightful /\ ImmutableHoldsInitial
  BY StepShape DEF ImmutableInv
<1>2. CASE Quiet
  BY <1>1, <1>2
     DEF Quiet, ImmutableInv, ImmutableHoldsInitial, FramesRightful, Rightful
<1>3. CASE FastStore
  BY <1>1, <1>3
     DEF FastStore, IInv, FastWriteSound, ImmutableInv, ImmutableHoldsInitial,
         FramesRightful, Rightful
<1>4. ASSUME NEW p \in Proc, Shape(p)
      PROVE  ImmutableInv'
  <2>1. FramesRightful'
    BY <1>1, <1>4, RightfulShape
  <2>2. \/ value' = value
        \/ \E f : Rightful(f) /\ f \in WriteOp /\ value' = f.new
    <3>1. CASE Open(p)
      BY <3>1 DEF Open, MayOpen, OpenDirect, OpenChecked, OpenObserved, Rightful
    <3>2. CASE OpenRead(p) \/ MoveOn(p) \/ End(p)
      BY <3>2 DEF OpenRead, MoveOn, End
    <3>3. CASE Land(p)
      BY <1>1, <3>3, TopRightful DEF Land
    <3> QED BY <1>4, <3>1, <3>2, <3>3 DEF Shape
  <2>3. ImmutableHoldsInitial'
    BY <1>1, <2>2 DEF ImmutableHoldsInitial, Rightful, WriteOp
  <2> QED BY <2>1, <2>3 DEF ImmutableInv
<1> QED BY <1>2, <1>3, <1>4, StepShape

(* An immutable parameter holds its default or its preset for ever: the check *)
(* of set_cci_value_allowed guards every path to the value but reset(), which *)
(* only puts back one of the two, and init() (cci_param_typed.h).             *)
THEOREM ImmutableIsInitial == Spec => []ImmutableHoldsInitial
<1>1. Init => ImmutableInv
  BY EmptySeq DEF Init, ImmutableInv, ImmutableHoldsInitial, FramesRightful
<1>2. IInv /\ ImmutableInv /\ [Next]_vars => ImmutableInv'
  BY NextImmutable
<1>3. ImmutableInv => ImmutableHoldsInitial
  BY DEF ImmutableInv
<1> QED BY <1>1, <1>2, <1>3, InitInv, NextInv, PTL DEF Spec

-----------------------------------------------------------------------------
(* What a step may do to the value.                                           *)

\* A write that lands was being validated when the step began.
LEMMA LandCommits ==
  ASSUME IInv, NEW p \in Proc, Land(p)
  PROVE  CommitsValidated(p)
<1>1. TypeOK
  BY DEF IInv
<1>2. Busy(p) /\ Top(p).kind = "pre_write" /\ value' = Top(p).new
  BY DEF Land
<1>3. stack'[p] # stack[p]
  <2>1. ASSUME NEW g \in WriteOp, g.kind = "post_write", Turn(p, g)
        PROVE  stack'[p] # stack[p]
    <3>1. stack'[p][1] = g /\ stack[p][1] = Top(p)
      BY <1>1, <2>1, TurnFrames
    <3> QED BY <1>2, <2>1, <3>1
  <2>2. ASSUME Pop(p)
        PROVE  stack'[p] # stack[p]
    BY <1>1, <2>2, PopFrames
  <2> QED BY <2>1, <2>2 DEF Land
<1> QED BY <1>2, <1>3 DEF CommitsValidated

\* Where a new value can come from.
LEMMA ValueChanges ==
  ASSUME IInv, [Next]_vars, value' # value
  PROVE  \/ fastWrite /\ lockPwd' = lockPwd
         \/ \E p \in Proc : CommitsValidated(p)
         \/ /\ cbs["pre_write"] = <<>>
            /\ ~Locked \/ lockPwd \in WriterPwd
<1>1. CASE Quiet
  BY <1>1 DEF Quiet
<1>2. CASE FastStore
  BY <1>2 DEF FastStore
<1>3. ASSUME NEW p \in Proc, Shape(p)
      PROVE  \/ CommitsValidated(p)
             \/ /\ cbs["pre_write"] = <<>>
                /\ ~Locked \/ lockPwd \in WriterPwd
  <2>1. CASE Open(p)
    BY <2>1 DEF Open, MayOpen, OpenDirect, OpenChecked, OpenObserved
  <2>2. CASE Land(p)
    BY <2>2, LandCommits
  <2> QED BY <1>3, <2>1, <2>2 DEF Shape, OpenRead, MoveOn, End
<1> QED BY <1>1, <1>2, <1>3, StepShape

(* While validators are registered the value changes only by the end of a     *)
(* validation: the fast path, nested writes, resets and other processes all   *)
(* respect pre_write_callback (cci_param_typed.h).                            *)
THEOREM NoWriteIsUnchecked == Spec => NoUncheckedWrite
<1>1. IInv /\ [Next]_vars
        => [(value' # value /\ cbs["pre_write"] # <<>>)
              => \E p \in Proc : CommitsValidated(p)]_vars
  BY ValueChanges DEF IInv, FastWriteSound
<1> QED BY <1>1, InitInv, NextInv, PTL DEF Spec, NoUncheckedWrite

(* A lock whose key no writer presents keeps the value, except for a write    *)
(* that was under validation when the lock was taken (cci_param_typed.h,      *)
(* set_raw_value, reset, lock).                                               *)
THEOREM LockHoldsValue == Spec => LockKeepsValue
<1>1. IInv /\ [Next]_vars
        => [(Locked /\ lockPwd' = lockPwd /\ lockPwd \notin WriterPwd
               /\ value' # value)
              => \E p \in Proc : CommitsValidated(p)]_vars
  BY ValueChanges DEF IInv, FastWriteSound
<1> QED BY <1>1, InitInv, NextInv, PTL DEF Spec, LockKeepsValue

(* A change of value with observers registered, and none of them running,     *)
(* starts to notify them (cci_param_typed.h, post_write_callback).            *)
THEOREM NoWriteIsSilent == Spec => NoSilentWrite
<1>1. ASSUME IInv, [Next]_vars, value' # value, cbs["post_write"] # <<>>,
             ~oncall["post_write"]
      PROVE  oncall'["post_write"]
  <2>1. CASE Quiet \/ FastStore
    BY <1>1, <2>1 DEF Quiet, FastStore, IInv, FastWriteSound
  <2>2. ASSUME NEW p \in Proc, Shape(p)
        PROVE  oncall'["post_write"]
    <3>1. ~Passes("post_write", oncall)
      BY <1>1 DEF Passes
    <3>2. oncall \in [Kind -> BOOLEAN] /\ "post_write" \in Kind
      BY <1>1 DEF IInv, TypeOK, Kind
    <3>3. CASE Open(p)
      BY <1>1, <3>1, <3>2, <3>3
         DEF Open, OpenDirect, OpenChecked, OpenObserved, Push
    <3>4. CASE Land(p)
      BY <3>1, <3>2, <3>4 DEF Land, Turn, After
    <3> QED BY <1>1, <2>2, <3>3, <3>4 DEF Shape, OpenRead, MoveOn, End
  <2> QED BY <1>1, <2>1, <2>2, StepShape
<1>2. IInv /\ [Next]_vars
        => [(value' # value /\ cbs["post_write"] # <<>>
               /\ ~oncall["post_write"])
              => oncall'["post_write"]]_vars
  BY <1>1
<1> QED BY <1>2, InitInv, NextInv, PTL DEF Spec, NoSilentWrite

(* A write that one validator rejected goes on and ends without touching the  *)
(* value or its origin, whatever the later validators answer                  *)
(* (cci_param_typed.h, "result" of pre_write_callback).                       *)
THEOREM RejectionStands == Spec => RejectionIsFinal
<1>1. ASSUME IInv, [Next]_vars, NEW p \in Proc, Busy(p),
             Top(p).kind = "pre_write", ~Top(p).ok, stack'[p] # stack[p],
             Len(stack'[p]) <= Len(stack[p])
      PROVE  UNCHANGED <<value, origin>>
  <2>1. TypeOK /\ Len(stack[p]) \in Nat
    BY <1>1, LenProperties DEF IInv, TypeOK
  <2>2. CASE Quiet \/ FastStore
    BY <1>1, <2>2 DEF Quiet, FastStore
  <2>3. ASSUME NEW q \in Proc, Shape(q)
        PROVE  UNCHANGED <<value, origin>>
    <3>1. \A f : ~Push(q, f)
      BY <1>1, <2>1, PushFrames
    <3>2. q = p
      BY <1>1, <2>1, <2>3, <3>1, TurnFrames, PopFrames
         DEF Shape, Open, OpenDirect, OpenChecked, OpenObserved, OpenRead,
             MoveOn, Land, End
    <3> QED BY <1>1, <2>3, <3>1, <3>2
            DEF Shape, Open, OpenDirect, OpenChecked, OpenObserved, OpenRead,
                MoveOn, Land, End
  <2> QED BY <1>1, <2>2, <2>3, StepShape
<1>2. IInv /\ [Next]_vars
        => [\A p \in Proc :
              (Busy(p) /\ Top(p).kind = "pre_write" /\ ~Top(p).ok
                 /\ stack'[p] # stack[p] /\ Len(stack'[p]) <= Len(stack[p]))
              => UNCHANGED <<value, origin>>]_vars
  BY <1>1
<1> QED BY <1>2, InitInv, NextInv, PTL DEF Spec, RejectionIsFinal

-----------------------------------------------------------------------------
(* A parameter used from one process: its operations are nested, so the write *)
(* under validation is inside every operation that is telling observers, and  *)
(* none of those can end, and set fast_write, before it.                      *)

OneProcess == \A p, q \in Proc : p = q

InnermostValidated ==
  /\ fastWrite => ~oncall["pre_write"]
  /\ \A p \in Proc :
       \A i \in FramesOf(p, "pre_write"), j \in FramesOf(p, "post_write") : i < j

OneInv == InnermostValidated /\ ValidatedOldIsCurrent

\* With nothing under validation there is nothing to show.
LEMMA IdleOneInv ==
  ASSUME OncallIsOneFrame, ~oncall["pre_write"]
  PROVE  OneInv
<1>1. \A p \in Proc : FramesOf(p, "pre_write") = {}
  BY DEF OncallIsOneFrame, Kind
<1> QED BY <1>1 DEF OneInv, InnermostValidated, ValidatedOldIsCurrent, FramesOf

LEMMA IdleOneInvNext ==
  ASSUME OncallIsOneFrame', ~oncall'["pre_write"]
  PROVE  OneInv'
<1>1. \A p \in Proc : FramesOf(p, "pre_write")' = {}
  BY DEF OncallIsOneFrame, Kind
<1> QED BY <1>1 DEF OneInv, InnermostValidated, ValidatedOldIsCurrent, FramesOf

LEMMA OneInvChecked ==
  ASSUME IInv, OncallIsOneFrame, OncallIsOneFrame', OneProcess,
         NEW p \in Proc, NEW f \in WriteOp, MayOpen(f), OpenChecked(p, f)
  PROVE  OneInv'
<1>1. TypeOK /\ Push(p, f) /\ f.kind = "pre_write" /\ value' = value
      /\ fastWrite' = fastWrite /\ ~fastWrite
  BY DEF IInv, FastWriteSound, MayOpen, OpenChecked
<1>2. {"pre_write", "post_write"} \subseteq Kind
  BY DEF Kind
<1>3. 1 \in FramesOf(p, "pre_write")' /\ stack'[p][1] = f
  BY <1>1, <1>2, PushKinds, PushFrames
<1>4. \A q \in Proc : \A i \in FramesOf(q, "pre_write")' : q = p /\ i = 1
  BY <1>2, <1>3 DEF OncallIsOneFrame
<1>5. \A j \in FramesOf(p, "post_write")' : j \in Nat /\ j > 1
  BY <1>1, <1>2, PushKinds
<1>6. InnermostValidated'
  BY <1>1, <1>4, <1>5 DEF InnermostValidated
<1>7. ValidatedOldIsCurrent'
  <2>1. f.op = "preset" => f.old = value'
    BY <1>1 DEF MayOpen
  <2> QED BY <1>3, <1>4, <2>1 DEF ValidatedOldIsCurrent, FramesOf
<1> QED BY <1>6, <1>7 DEF OneInv

\* The steps that leave a validation in progress where it is.
LEMMA OneInvOpenRead ==
  ASSUME IInv, OneInv, OneProcess, NEW p \in Proc, OpenRead(p)
  PROVE  OneInv'
<1>1. PICK f \in ReadOp : Push(p, f)
  BY DEF OpenRead
<1>2. TypeOK /\ value' = value /\ fastWrite' = fastWrite
  BY DEF IInv, OpenRead
<1>3. {"pre_write", "post_write"} \subseteq Kind
      /\ f.kind \notin {"pre_write", "post_write"} /\ f.kind \in Kind
  BY DEF Kind, ReadOp
<1>4. oncall'["pre_write"] = oncall["pre_write"]
  BY <1>1, <1>2, <1>3 DEF Push, TypeOK
<1>5. \A k \in {"pre_write", "post_write"} : \A i \in FramesOf(p, k)' :
        i - 1 \in FramesOf(p, k) /\ i \in Nat
  BY <1>1, <1>2, <1>3, PushKinds
<1>6. InnermostValidated'
  <2>1. ASSUME NEW q \in Proc, NEW i \in FramesOf(q, "pre_write")',
               NEW j \in FramesOf(q, "post_write")'
        PROVE  i < j
    <3>1. q = p
      BY DEF OneProcess
    <3>2. i - 1 \in FramesOf(p, "pre_write") /\ j - 1 \in FramesOf(p, "post_write")
          /\ i \in Nat /\ j \in Nat
      BY <1>5, <2>1, <3>1
    <3>3. i - 1 < j - 1
      BY <3>2 DEF OneInv, InnermostValidated
    <3> QED BY <3>2, <3>3
  <2> QED BY <1>2, <1>4, <2>1 DEF OneInv, InnermostValidated
<1>7. ValidatedOldIsCurrent'
  <2> SUFFICES ASSUME NEW q \in Proc, NEW i \in 1..Len(stack'[q]),
                      stack'[q][i].kind = "pre_write",
                      stack'[q][i].op = "preset"
               PROVE  stack'[q][i].old = value'
    BY DEF ValidatedOldIsCurrent
  <2>1. q = p /\ Len(stack[p]) \in Nat
    BY <1>2, LenProperties DEF OneProcess, TypeOK
  <2>2. /\ Len(stack'[p]) = Len(stack[p]) + 1 /\ stack'[p][1] = f
        /\ \A j \in 2..Len(stack'[p]) : stack'[p][j] = stack[p][j - 1]
    BY <1>1, <1>2, PushFrames
  <2>3. i # 1
    BY <1>3, <2>1, <2>2
  <2>4. i \in 2..Len(stack'[p]) /\ i - 1 \in 1..Len(stack[p])
    BY <2>1, <2>2, <2>3
  <2>5. stack'[p][i] = stack[p][i - 1]
    BY <2>2, <2>4
  <2> QED BY <1>2, <2>1, <2>4, <2>5 DEF OneInv, ValidatedOldIsCurrent
<1> QED BY <1>6, <1>7 DEF OneInv

LEMMA OneInvMoveOn ==
  ASSUME IInv, OncallIsOneFrame, OneInv, OneProcess, NEW p \in Proc, MoveOn(p)
  PROVE  OneInv'
<1>1. PICK g \in Frame :
        /\ \/ g.kind = Top(p).kind
           \/ Top(p).kind = "pre_read" /\ g.kind = "post_read"
        /\ SameWrite(g, Top(p)) /\ Turn(p, g)
  BY DEF MoveOn
<1>2. TypeOK /\ value' = value /\ fastWrite' = fastWrite
  BY DEF IInv, MoveOn
<1>3. {"pre_write", "post_write"} \subseteq Kind
      /\ g.kind \in Kind /\ Top(p).kind \in Kind
  BY <1>1, <1>2, TopType, KindsOfFrames DEF Kind, Turn
<1>4. fastWrite => ~oncall'["pre_write"]
  <2>1. CASE g.kind = "pre_write"
    <3>1. 1 \in FramesOf(p, "pre_write")
      BY <1>1, <1>2, <1>3, <2>1, TurnKinds
    <3> QED BY <1>3, <3>1 DEF OneInv, InnermostValidated, OncallIsOneFrame
  <2>2. CASE g.kind # "pre_write"
    BY <1>1, <1>2, <1>3, <2>2
       DEF OneInv, InnermostValidated, Turn, After, TypeOK
  <2> QED BY <2>1, <2>2
<1>5. \A k \in {"pre_write", "post_write"} : FramesOf(p, k)' = FramesOf(p, k)
  BY <1>1, <1>2, <1>3, TurnKinds
<1>6. InnermostValidated'
  BY <1>2, <1>4, <1>5 DEF OneInv, InnermostValidated, OneProcess
<1>7. ValidatedOldIsCurrent'
  <2> SUFFICES ASSUME NEW q \in Proc, NEW i \in 1..Len(stack'[q]),
                      stack'[q][i].kind = "pre_write",
                      stack'[q][i].op = "preset"
               PROVE  stack'[q][i].old = value'
    BY DEF ValidatedOldIsCurrent
  <2>1. q = p
    BY DEF OneProcess
  <2>2. /\ Len(stack[p]) \in Nat \ {0} /\ Top(p) = stack[p][1]
        /\ Len(stack'[p]) = Len(stack[p]) /\ stack'[p][1] = g
        /\ \A j \in 2..Len(stack[p]) : stack'[p][j] = stack[p][j]
    BY <1>1, <1>2, TurnFrames
  <2>3. CASE i = 1
    <3>1. Top(p).kind = "pre_write" /\ Top(p).op = "preset" /\ Top(p).old = g.old
      BY <1>1, <2>1, <2>2, <2>3 DEF SameWrite
    <3> QED BY <1>2, <2>1, <2>2, <2>3, <3>1 DEF OneInv, ValidatedOldIsCurrent
  <2>4. CASE i # 1
    <3>1. i \in 2..Len(stack[p]) /\ i \in 1..Len(stack[p])
      BY <2>1, <2>2, <2>4
    <3> QED BY <1>2, <2>1, <2>2, <3>1 DEF OneInv, ValidatedOldIsCurrent
  <2> QED BY <2>3, <2>4
<1> QED BY <1>6, <1>7 DEF OneInv

LEMMA OneInvEnd ==
  ASSUME IInv, OncallIsOneFrame, OncallIsOneFrame', OneInv, OneProcess,
         NEW p \in Proc, End(p)
  PROVE  OneInv'
<1>1. TypeOK /\ Pop(p) /\ value' = value
  BY DEF IInv, End
<1>2. {"pre_write", "post_write"} \subseteq Kind /\ Top(p).kind \in Kind
  BY <1>1, TopType, KindsOfFrames DEF Kind, Pop
<1>3. CASE Top(p).kind = "pre_write"
  <2>1. ~oncall'["pre_write"]
    BY <1>1, <1>2, <1>3 DEF Pop, After, TypeOK
  <2> QED BY <2>1, IdleOneInvNext
<1>4. CASE Top(p).kind = "post_write"
  <2>1. 1 \in FramesOf(p, "post_write")
    BY <1>1, <1>2, <1>4, PopKinds
  <2>2. FramesOf(p, "pre_write") = {}
    <3>1. \A i \in FramesOf(p, "pre_write") : i < 1
      BY <2>1 DEF OneInv, InnermostValidated
    <3>2. \A i \in FramesOf(p, "pre_write") : i \in 1..Len(stack[p])
      BY DEF FramesOf
    <3>3. Len(stack[p]) \in Nat
      BY <1>1, LenProperties DEF TypeOK
    <3> QED BY <3>1, <3>2, <3>3
  <2>3. ~oncall["pre_write"]
    BY <1>2, <2>2 DEF OncallIsOneFrame, OneProcess
  <2>4. ~oncall'["pre_write"]
    BY <1>1, <1>2, <1>4, <2>3 DEF Pop, After, TypeOK
  <2> QED BY <2>4, IdleOneInvNext
<1>5. CASE Top(p).kind \notin {"pre_write", "post_write"}
  <2>1. /\ fastWrite' => fastWrite
        /\ oncall'["pre_write"] = oncall["pre_write"]
    BY <1>1, <1>2, <1>5 DEF End, Pop, After, TypeOK
  <2>2. \A k \in {"pre_write", "post_write"} : \A i \in FramesOf(p, k)' :
          i + 1 \in FramesOf(p, k) /\ i \in Nat
    BY <1>1, <1>2, PopKinds
  <2>3. InnermostValidated'
    <3>1. ASSUME NEW q \in Proc, NEW i \in FramesOf(q, "pre_write")',
                 NEW j \in FramesOf(q, "post_write")'
          PROVE  i < j
      <4>1. q = p
        BY DEF OneProcess
      <4>2. /\ i + 1 \in FramesOf(p, "pre_write") /\ i \in Nat
            /\ j + 1 \in FramesOf(p, "post_write") /\ j \in Nat
        BY <2>2, <3>1, <4>1
      <4>3. i + 1 < j + 1
        BY <4>2 DEF OneInv, InnermostValidated
      <4> QED BY <4>2, <4>3
    <3> QED BY <2>1, <3>1 DEF OneInv, InnermostValidated
  <2>4. ValidatedOldIsCurrent'
    <3> SUFFICES ASSUME NEW q \in Proc, NEW i \in 1..Len(stack'[q]),
                        stack'[q][i].kind = "pre_write",
                        stack'[q][i].op = "preset"
                 PROVE  stack'[q][i].old = value'
      BY DEF ValidatedOldIsCurrent
    <3>1. q = p
      BY DEF OneProcess
    <3>2. stack'[p][i] = stack[p][i + 1] /\ i + 1 \in 1..Len(stack[p])
      BY <1>1, <3>1, PopFrames
    <3> QED BY <1>1, <3>1, <3>2 DEF OneInv, ValidatedOldIsCurrent
  <2> QED BY <2>3, <2>4 DEF OneInv
<1> QED BY <1>3, <1>4, <1>5

LEMMA NextOneInv ==
  ASSUME OneProcess, IInv, OncallIsOneFrame, OneInv, [Next]_vars
  PROVE  OneInv'
<1>1. OncallIsOneFrame'
  BY NextOncall
<1>2. oncall \in [Kind -> BOOLEAN] /\ "pre_write" \in Kind
  BY DEF IInv, TypeOK, Kind
<1>3. CASE Quiet
  BY <1>3 DEF Quiet, OneInv, InnermostValidated, ValidatedOldIsCurrent, FramesOf
<1>4. CASE FastStore
  <2>1. ~oncall'["pre_write"]
    BY <1>4 DEF FastStore, OneInv, InnermostValidated
  <2> QED BY <1>1, <2>1, IdleOneInvNext
<1>5. ASSUME NEW p \in Proc, Shape(p)
      PROVE  OneInv'
  <2>1. CASE Open(p)
    <3>1. PICK f \in WriteOp :
            /\ MayOpen(f)
            /\ OpenDirect(f) \/ OpenChecked(p, f) \/ OpenObserved(p, f)
      BY <2>1 DEF Open
    <3>2. CASE OpenDirect(f) \/ OpenObserved(p, f)
      <4>1. ~oncall'["pre_write"]
        BY <1>2, <3>2 DEF OpenDirect, OpenObserved, Push
      <4> QED BY <1>1, <4>1, IdleOneInvNext
    <3>3. CASE OpenChecked(p, f)
      BY <1>1, <3>1, <3>3, OneInvChecked
    <3> QED BY <3>1, <3>2, <3>3
  <2>2. CASE OpenRead(p)
    BY <2>2, OneInvOpenRead
  <2>3. CASE MoveOn(p)
    BY <2>3, OneInvMoveOn
  <2>4. CASE Land(p)
    <3>1. ~oncall'["pre_write"]
      BY <1>2, <2>4 DEF Land, Turn, Pop, After
    <3> QED BY <1>1, <3>1, IdleOneInvNext
  <2>5. CASE End(p)
    BY <1>1, <2>5, OneInvEnd
  <2> QED BY <1>5, <2>1, <2>2, <2>3, <2>4, <2>5 DEF Shape
<1> QED BY <1>3, <1>4, <1>5, StepShape

LEMMA InitOneInv == Init => OneInv /\ OncallIsOneFrame
<1>1. Init => OncallIsOneFrame
  BY EmptySeq DEF Init, OncallIsOneFrame, FramesOf
<1>2. Init => ~oncall["pre_write"]
  BY DEF Init, Kind
<1> QED BY <1>1, <1>2, IdleOneInv

(* On one process, the old value a reset() to the preset shows its validators *)
(* is the current one for as long as they run, whatever they call             *)
(* (cci_param_typed.h, preset_cci_value).                                     *)
THEOREM ValidatedOldStaysCurrent ==
  ASSUME OneProcess
  PROVE  Spec => []ValidatedOldIsCurrent
<1>1. IInv /\ OncallIsOneFrame /\ OneInv /\ [Next]_vars
        => OncallIsOneFrame' /\ OneInv'
  BY NextOncall, NextOneInv
<1>2. OneInv => ValidatedOldIsCurrent
  BY DEF OneInv
<1> QED BY <1>1, <1>2, InitInv, NextInv, InitOneInv, PTL DEF Spec

-----------------------------------------------------------------------------
(* The refinement of ParamContract.                                           *)

Proposal == IF Validating = {} THEN NoValue
            ELSE (CHOOSE f \in Validating : TRUE).new

LEMMA IdleProposal ==
  ASSUME OncallIsOneFrame, ~oncall["pre_write"]
  PROVE  Proposal = NoValue
<1>1. \A p \in Proc : FramesOf(p, "pre_write") = {}
  BY DEF OncallIsOneFrame, Kind
<1>2. Validating = {}
  BY <1>1 DEF Validating, FramesOf
<1> QED BY <1>2 DEF Proposal

LEMMA RunningProposal ==
  ASSUME OncallIsOneFrame, NEW p \in Proc, NEW i \in FramesOf(p, "pre_write")
  PROVE  Proposal = stack[p][i].new
<1>1. stack[p][i] \in Validating
  BY DEF Validating, FramesOf
<1>2. \A f \in Validating : f = stack[p][i]
  <2> TAKE f \in Validating
  <2>1. PICK q \in Proc : \E j \in 1..Len(stack[q]) :
          f = stack[q][j] /\ f.kind = "pre_write"
    BY DEF Validating
  <2>2. PICK j \in 1..Len(stack[q]) :
          f = stack[q][j] /\ f.kind = "pre_write"
    BY <2>1
  <2>3. j \in FramesOf(q, "pre_write")
    BY <2>2 DEF FramesOf
  <2>4. q = p /\ j = i
    BY <2>3 DEF OncallIsOneFrame, Kind
  <2> QED BY <2>2, <2>4
<1> QED BY <1>1, <1>2 DEF Proposal

\* The same, of the state after a step.
LEMMA IdleProposalNext ==
  ASSUME OncallIsOneFrame', ~oncall'["pre_write"]
  PROVE  Proposal' = NoValue
<1>1. \A p \in Proc : FramesOf(p, "pre_write")' = {}
  BY DEF OncallIsOneFrame, Kind
<1>2. Validating' = {}
  BY <1>1 DEF Validating, FramesOf
<1> QED BY <1>2 DEF Proposal

LEMMA RunningProposalNext ==
  ASSUME OncallIsOneFrame', NEW p \in Proc, NEW i \in FramesOf(p, "pre_write")'
  PROVE  Proposal' = stack'[p][i].new
<1>1. stack'[p][i] \in Validating'
  BY DEF Validating, FramesOf
<1>2. \A f \in Validating' : f = stack'[p][i]
  <2> TAKE f \in Validating'
  <2>1. PICK q \in Proc : \E j \in 1..Len(stack'[q]) :
          f = stack'[q][j] /\ f.kind = "pre_write"
    BY DEF Validating
  <2>2. PICK j \in 1..Len(stack'[q]) :
          f = stack'[q][j] /\ f.kind = "pre_write"
    BY <2>1
  <2>3. j \in FramesOf(q, "pre_write")'
    BY <2>2 DEF FramesOf
  <2>4. q = p /\ j = i
    BY <2>3 DEF OncallIsOneFrame, Kind
  <2> QED BY <2>2, <2>4
<1> QED BY <1>1, <1>2 DEF Proposal

\* A step that does not touch the stack of a validation keeps its proposal.
LEMMA SameStackProposal ==
  ASSUME UNCHANGED stack
  PROVE  Proposal' = Proposal
  BY DEF Proposal, Validating

LEMMA ReadProposal ==
  ASSUME IInv, OncallIsOneFrame, OncallIsOneFrame', NEW p \in Proc,
         OpenRead(p) \/ MoveOn(p) \/ (End(p) /\ Top(p).kind # "pre_write")
  PROVE  Proposal' = Proposal
<1>1. TypeOK /\ "pre_write" \in Kind /\ oncall \in [Kind -> BOOLEAN]
  BY DEF IInv, TypeOK, Kind
<1>2. CASE OpenRead(p)
  <2>1. PICK f \in ReadOp : Push(p, f)
    BY <1>2 DEF OpenRead
  <2>2. f.kind # "pre_write" /\ oncall'["pre_write"] = oncall["pre_write"]
    BY <1>1, <2>1 DEF Push, ReadOp
  <2>3. CASE ~oncall["pre_write"]
    BY <2>2, <2>3, IdleProposal, IdleProposalNext
  <2>4. CASE oncall["pre_write"]
    <3>1. PICK q \in Proc : FramesOf(q, "pre_write") # {}
      BY <1>1, <2>4 DEF OncallIsOneFrame
    <3>2. PICK j \in FramesOf(q, "pre_write") : TRUE
      BY <3>1
    <3>3. CASE q # p
      <4>1. j \in FramesOf(q, "pre_write")' /\ stack'[q] = stack[q]
        BY <1>1, <2>1, <3>2, <3>3, PushKinds, PushFrames
      <4> QED BY <3>2, <4>1, RunningProposal, RunningProposalNext
    <3>4. CASE q = p
      <4>1. j + 1 \in FramesOf(p, "pre_write")' /\ j \in 1..Len(stack[p])
        BY <1>1, <2>1, <3>2, <3>4, PushKinds DEF FramesOf
      <4>2. /\ Len(stack'[p]) = Len(stack[p]) + 1 /\ Len(stack[p]) \in Nat
            /\ \A i \in 2..Len(stack'[p]) : stack'[p][i] = stack[p][i - 1]
        BY <1>1, <2>1, PushFrames, LenProperties DEF TypeOK
      <4>3. j + 1 \in 2..Len(stack'[p]) /\ (j + 1) - 1 = j
        BY <4>1, <4>2
      <4>4. stack'[p][j + 1] = stack[p][j]
        BY <4>2, <4>3
      <4> QED BY <3>2, <3>4, <4>1, <4>4, RunningProposal, RunningProposalNext
    <3> QED BY <3>3, <3>4
  <2> QED BY <2>3, <2>4
<1>3. CASE MoveOn(p)
  <2>1. PICK g \in Frame :
          /\ \/ g.kind = Top(p).kind
             \/ Top(p).kind = "pre_read" /\ g.kind = "post_read"
          /\ SameWrite(g, Top(p)) /\ Turn(p, g)
    BY <1>3 DEF MoveOn
  <2>2. \A q \in Proc : FramesOf(q, "pre_write")' = FramesOf(q, "pre_write")
    BY <1>1, <2>1, TurnKinds
  <2>3. CASE oncall["pre_write"]
    <3>1. PICK q \in Proc : FramesOf(q, "pre_write") # {}
      BY <1>1, <2>3 DEF OncallIsOneFrame
    <3>2. PICK j \in FramesOf(q, "pre_write") : TRUE
      BY <3>1
    <3>3. stack'[q][j].new = stack[q][j].new
      <4>1. CASE q # p
        BY <1>1, <2>1, <4>1, TurnFrames
      <4>2. CASE q = p /\ j = 1
        BY <1>1, <2>1, <4>2, TurnFrames DEF SameWrite
      <4>3. CASE q = p /\ j # 1
        <5>1. j \in 2..Len(stack[p])
          BY <1>1, <2>1, <3>2, <4>3, TurnFrames DEF FramesOf
        <5> QED BY <1>1, <2>1, <4>3, <5>1, TurnFrames
      <4> QED BY <4>1, <4>2, <4>3
    <3> QED BY <2>2, <3>2, <3>3, RunningProposal, RunningProposalNext
  <2>4. CASE ~oncall["pre_write"]
    <3>1. ~oncall'["pre_write"]
      BY <1>1, <2>2, <2>4 DEF OncallIsOneFrame
    <3> QED BY <2>4, <3>1, IdleProposal, IdleProposalNext
  <2> QED BY <2>3, <2>4
<1>4. CASE End(p) /\ Top(p).kind # "pre_write"
  <2>1. Pop(p) /\ Top(p).kind \in Kind
    BY <1>1, <1>4, TopType, KindsOfFrames DEF End, Pop
  <2>2. oncall'["pre_write"] = oncall["pre_write"]
    BY <1>1, <1>4, <2>1 DEF Pop, After
  <2>3. CASE ~oncall["pre_write"]
    BY <2>2, <2>3, IdleProposal, IdleProposalNext
  <2>4. CASE oncall["pre_write"]
    <3>1. PICK q \in Proc : FramesOf(q, "pre_write") # {}
      BY <1>1, <2>4 DEF OncallIsOneFrame
    <3>2. PICK j \in FramesOf(q, "pre_write") : TRUE
      BY <3>1
    <3>3. CASE q # p
      <4>1. j \in FramesOf(q, "pre_write")' /\ stack'[q] = stack[q]
        BY <1>1, <2>1, <3>2, <3>3, PopKinds, PopFrames
      <4> QED BY <3>2, <4>1, RunningProposal, RunningProposalNext
    <3>4. CASE q = p
      <4>1. j - 1 \in FramesOf(p, "pre_write")' /\ j \in Nat /\ j > 1
        BY <1>1, <1>4, <2>1, <3>2, <3>4, PopKinds
      <4>2. j - 1 \in 1..Len(stack'[p]) /\ (j - 1) + 1 = j
        BY <4>1 DEF FramesOf
      <4>3. stack'[p][j - 1] = stack[p][j]
        BY <1>1, <2>1, <4>2, PopFrames
      <4> QED BY <3>2, <3>4, <4>1, <4>3, RunningProposal, RunningProposalNext
    <3> QED BY <3>3, <3>4
  <2> QED BY <2>3, <2>4
<1> QED BY <1>2, <1>3, <1>4

LEMMA ContractStep ==
  ASSUME OneProcess, IInv, OncallIsOneFrame, OneInv, [Next]_vars
  PROVE  [Contract!Next]_(Contract!contract)
<1>1. OncallIsOneFrame' /\ IInv'
  BY NextOncall, NextInv
<1>2. TypeOK /\ "pre_write" \in Kind /\ oncall \in [Kind -> BOOLEAN]
      /\ value' \in Value
  BY <1>1 DEF IInv, TypeOK, Kind
<1>3. ASSUME UNCHANGED <<value, lockPwd>>, Proposal' = Proposal
      PROVE  UNCHANGED Contract!contract
  BY <1>3 DEF Contract!contract, Proposal
<1>4. ASSUME ~Locked \/ lockPwd \in WriterPwd, Proposal = NoValue,
             Proposal' = NoValue, lockPwd' = lockPwd
      PROVE  Contract!Next
  <2>1. Contract!MayStart
    BY <1>4, KeysAreKeys DEF Contract!MayStart, Proposal, Locked
  <2>2. Contract!Write(value')
    BY <1>4, <2>1 DEF Contract!Write, Proposal
  <2> QED BY <1>2, <2>2 DEF Contract!Next
<1>5. CASE Quiet
  <2>1. value' = value /\ Proposal' = Proposal
    BY <1>5, SameStackProposal DEF Quiet
  <2>2. CASE lockPwd' = lockPwd
    BY <1>3, <2>1, <2>2
  <2>3. CASE lockPwd' = NoPwd
    BY <2>1, <2>3 DEF Contract!Next, Contract!ReleaseLock, Proposal
  <2>4. CASE \E k \in Key : lockPwd \in {NoPwd, k} /\ lockPwd' = k
    BY <2>1, <2>4 DEF Contract!Next, Contract!TakeLock, Proposal
  <2> QED BY <1>5, <2>2, <2>3, <2>4 DEF Quiet
<1>6. CASE FastStore
  <2>1. ~oncall["pre_write"] /\ ~Locked /\ UNCHANGED <<stack, lockPwd>>
    BY <1>6 DEF FastStore, OneInv, InnermostValidated, IInv, FastWriteSound
  <2> QED BY <1>4, <2>1, IdleProposal, SameStackProposal
<1>7. ASSUME NEW p \in Proc, Shape(p)
      PROVE  [Contract!Next]_(Contract!contract)
  <2>1. CASE Open(p)
    <3>1. PICK f \in WriteOp :
            /\ MayOpen(f)
            /\ OpenDirect(f) \/ OpenChecked(p, f) \/ OpenObserved(p, f)
      BY <2>1 DEF Open
    <3>2. ~Locked \/ lockPwd \in WriterPwd
      BY <3>1 DEF MayOpen
    <3>3. CASE OpenDirect(f) \/ OpenObserved(p, f)
      <4>1. ~oncall["pre_write"] /\ ~oncall'["pre_write"] /\ lockPwd' = lockPwd
        BY <1>2, <3>3 DEF OpenDirect, OpenObserved, Push
      <4> QED BY <1>1, <1>4, <3>2, <4>1, IdleProposal, IdleProposalNext
    <3>4. CASE OpenChecked(p, f)
      <4>1. /\ Push(p, f) /\ f.kind = "pre_write" /\ ~oncall["pre_write"]
            /\ UNCHANGED <<value, lockPwd>>
        BY <3>1, <3>4 DEF OpenChecked, MayOpen, Push
      <4>2. Proposal = NoValue
        BY <4>1, IdleProposal
      <4>3. Proposal' = f.new
        <5>1. 1 \in FramesOf(p, "pre_write")' /\ stack'[p][1] = f
          BY <1>2, <4>1, PushKinds, PushFrames
        <5> QED BY <1>1, <5>1, RunningProposalNext
      <4>4. Contract!MayStart
        BY <3>2, <4>2, KeysAreKeys DEF Contract!MayStart, Proposal, Locked
      <4>5. Contract!Propose(f.new)
        BY <4>1, <4>3, <4>4 DEF Contract!Propose, Proposal
      <4> QED BY <4>5 DEF Contract!Next, WriteOp
    <3> QED BY <3>1, <3>3, <3>4
  <2>2. CASE OpenRead(p) \/ MoveOn(p) \/ (End(p) /\ Top(p).kind # "pre_write")
    <3>1. UNCHANGED <<value, lockPwd>>
      BY <2>2 DEF OpenRead, MoveOn, End
    <3> QED BY <1>1, <1>3, <2>2, <3>1, ReadProposal
  <2>3. ASSUME Pop(p) \/ \E g : Turn(p, g), Busy(p), Top(p).kind = "pre_write"
        PROVE  Proposal = Top(p).new
    <3>1. 1 \in FramesOf(p, "pre_write") /\ Top(p) = stack[p][1]
      BY <1>2, <2>3, PopKinds, TurnKinds, PopFrames, TurnFrames
    <3> QED BY <3>1, RunningProposal
  <2>4. CASE Land(p)
    <3>1. /\ Busy(p) /\ Top(p).kind = "pre_write" /\ Top(p) \in WriteOp
          /\ Pop(p) \/ \E g : Turn(p, g)
          /\ value' = Top(p).new /\ lockPwd' = lockPwd
      BY <2>4 DEF Land
    <3>2. Proposal = Top(p).new /\ Proposal # NoValue
      BY <2>3, <3>1, DefaultIsValue DEF WriteOp
    <3>3. ~oncall'["pre_write"]
      BY <1>2, <2>4 DEF Land, Turn, Pop, After
    <3>4. Proposal' = NoValue
      BY <1>1, <3>3, IdleProposalNext
    <3>5. Contract!Commit
      BY <3>1, <3>2, <3>4 DEF Contract!Commit, Proposal
    <3> QED BY <3>5 DEF Contract!Next
  <2>5. CASE End(p) /\ Top(p).kind = "pre_write"
    <3>1. ~oncall'["pre_write"] /\ UNCHANGED <<value, lockPwd>>
      BY <1>2, <2>5 DEF End, Pop, After
    <3>2. Proposal' = NoValue
      BY <1>1, <3>1, IdleProposalNext
    <3>3. Contract!Withdraw
      BY <3>1, <3>2 DEF Contract!Withdraw, Proposal
    <3> QED BY <3>3 DEF Contract!Next
  <2> QED BY <1>7, <2>1, <2>2, <2>4, <2>5 DEF Shape
<1> QED BY <1>5, <1>6, <1>7, StepShape

(* A parameter used from one process keeps its contract: whatever its         *)
(* callbacks call, a value changes by a write that starts with nothing under  *)
(* validation and with the key of a lock, or by the landing of the one write  *)
(* under validation (cci_param_typed.h, set_value, set_raw_value,             *)
(* preset_cci_value, reset).                                                  *)
THEOREM KeepsContract ==
  ASSUME OneProcess
  PROVE  Spec => ImplementsContract
<1>1. Init => Contract!Init
  <2> SUFFICES ASSUME Init PROVE Contract!Init
    OBVIOUS
  <2>1. OncallIsOneFrame /\ ~oncall["pre_write"]
    BY InitOneInv DEF Init, Kind
  <2>2. Proposal = NoValue
    BY <2>1, IdleProposal
  <2>3. value \in {DefaultValue} \cup {pr.value : pr \in Presets \ {NoPreset}}
    BY DEF Init
  <2>4. lockPwd = NoPwd
    BY DEF Init
  <2> QED BY <2>2, <2>3, <2>4 DEF Contract!Init, Proposal
<1>2. IInv /\ OncallIsOneFrame /\ OneInv /\ [Next]_vars
        => OncallIsOneFrame' /\ OneInv' /\ [Contract!Next]_(Contract!contract)
  BY NextOncall, NextOneInv, ContractStep
<1> QED BY <1>1, <1>2, InitInv, NextInv, InitOneInv, PTL
        DEF Spec, ImplementsContract, Contract!Spec
=============================================================================
