----------------------- MODULE ConsumingBrokerProofs ------------------------
(* ConsumingBroker keeps one copy of every preset and implements PresetStore, *)
(* for any names, values, originators, processes and callbacks.               *)
EXTENDS ConsumingBroker, CallbackVectorProofs

(* The maps of presets, and that none is in both value registries.            *)
MapsOK ==
  /\ unused \in [Name -> Value \cup {NoValue}]
  /\ used \in [Name -> Value \cup {NoValue}]
  /\ presetOrig \in [Name -> Originator \cup {NoOriginator}]

SInv == MapsOK /\ PresetIsSingle

SameStore == \A n \in Name : PresetOf(n)' = PresetOf(n)

\* Taking and giving back a preset moves it and changes no answer.
LEMMA TakeMoves ==
  ASSUME SInv, NEW n, Take(n), UNCHANGED presetOrig
  PROVE  SInv' /\ SameStore
<1>1. MapsOK' BY DEF SInv, MapsOK, Take
<1>2. PresetIsSingle' BY DEF SInv, MapsOK, PresetIsSingle, Take
<1>3. SameStore
  BY DEF SInv, MapsOK, SameStore, PresetOf, has_preset_value,
         get_preset_cci_value, Take
<1> QED BY <1>1, <1>2, <1>3 DEF SInv

LEMMA GiveBackMoves ==
  ASSUME SInv, NEW n, GiveBack(n), UNCHANGED presetOrig
  PROVE  SInv' /\ SameStore
<1>1. MapsOK' BY DEF SInv, MapsOK, GiveBack
<1>2. PresetIsSingle' BY DEF SInv, MapsOK, PresetIsSingle, GiveBack
<1>3. SameStore
  BY DEF SInv, MapsOK, PresetIsSingle, SameStore, PresetOf,
         has_preset_value, get_preset_cci_value, GiveBack
<1> QED BY <1>1, <1>2, <1>3 DEF SInv

LEMMA RestKeeps ==
  ASSUME SInv, UNCHANGED <<unused, used, presetOrig>>
  PROVE  SInv' /\ SameStore
BY DEF SInv, MapsOK, PresetIsSingle, SameStore, PresetOf, has_preset_value,
       get_preset_cci_value

\* The only step that changes an answer sets one preset whose name is unlocked.
LEMMA SetPresetSets ==
  ASSUME SInv, NEW n \in Name, NEW v \in Value, NEW o \in Originator,
         SetPreset(n, v, o)
  PROVE  /\ SInv'
         /\ n \notin locked
         /\ PresetOf(n)' = [value |-> v, orig |-> o]
         /\ \A m \in Name \ {n} : PresetOf(m)' = PresetOf(m)
<1>1. MapsOK' BY DEF SInv, MapsOK, SetPreset
<1>2. PresetIsSingle' BY DEF SInv, MapsOK, PresetIsSingle, SetPreset
<1>3. PresetOf(n)' = [value |-> v, orig |-> o]
  BY NoValueIsNone DEF SInv, MapsOK, PresetOf, has_preset_value,
     get_preset_cci_value, SetPreset
<1>4. \A m \in Name \ {n} : PresetOf(m)' = PresetOf(m)
  BY DEF SInv, MapsOK, PresetOf, has_preset_value, get_preset_cci_value,
         SetPreset
<1> QED BY <1>1, <1>2, <1>3, <1>4 DEF SInv, SetPreset

\* Every other step leaves all the answers as they are.
LEMMA QuietSteps ==
  ASSUME SInv,
         \/ \E n \in Name : LockPreset(n)
         \/ \E pred \in Ignorable : IgnoreUnconsumed(pred)
         \/ \E p \in Proc, n \in Name : AddParam(p, n) \/ RemoveParam(p, n)
         \/ \E p \in Proc : CallbackReturns(p) \/ CallbackThrows(p)
         \/ \E k \in Kind, c \in Callback, o \in Originator :
              RegisterCallback(k, c, o) \/ UnregisterCallback(k, c, o)
         \/ \E o \in Originator : UnregisterAllCallbacks(o)
         \/ UNCHANGED vars
  PROVE  SInv' /\ SameStore
<1>1. CASE \E n \in Name : LockPreset(n)
  BY <1>1, RestKeeps DEF LockPreset
<1>2. CASE \E pred \in Ignorable : IgnoreUnconsumed(pred)
  BY <1>2, RestKeeps DEF IgnoreUnconsumed
<1>3. ASSUME NEW p \in Proc, NEW n \in Name, AddParam(p, n)
      PROVE  SInv' /\ SameStore
  BY <1>3, TakeMoves DEF AddParam
<1>4. ASSUME NEW p \in Proc, NEW n \in Name, RemoveParam(p, n)
      PROVE  SInv' /\ SameStore
  <2>1. CASE GiveBack(n) BY <1>4, <2>1, GiveBackMoves DEF RemoveParam
  <2>2. CASE UNCHANGED <<unused, used>>
    BY <1>4, <2>2, RestKeeps DEF RemoveParam
  <2> QED BY <1>4, <2>1, <2>2 DEF RemoveParam, RemoveDone
<1>5. ASSUME NEW p \in Proc, CallbackReturns(p)
      PROVE  SInv' /\ SameStore
  <2>1. UNCHANGED presetOrig BY <1>5 DEF CallbackReturns
  <2>2. GiveBack(Top(p).name) \/ UNCHANGED <<unused, used>>
    BY <1>5 DEF CallbackReturns, RemoveDone
  <2> QED BY <2>1, <2>2, GiveBackMoves, RestKeeps
<1>6. CASE \E p \in Proc : CallbackThrows(p)
  BY <1>6, RestKeeps DEF CallbackThrows
<1>7. CASE \E k \in Kind, c \in Callback, o \in Originator :
             RegisterCallback(k, c, o) \/ UnregisterCallback(k, c, o)
  BY <1>7, RestKeeps DEF RegisterCallback, UnregisterCallback
<1>8. CASE \E o \in Originator : UnregisterAllCallbacks(o)
  BY <1>8, RestKeeps DEF UnregisterAllCallbacks
<1>9. CASE UNCHANGED vars
  BY <1>9, RestKeeps DEF vars
<1> QED BY <1>1, <1>2, <1>3, <1>4, <1>5, <1>6, <1>7, <1>8, <1>9

LEMMA SInvInit == Init => SInv
BY DEF Init, SInv, MapsOK, PresetIsSingle

LEMMA SInvStep == SInv /\ [Next]_vars => SInv'
<1> SUFFICES ASSUME SInv, [Next]_vars PROVE SInv'
  OBVIOUS
<1>1. CASE \E n \in Name, v \in Value, o \in Originator : SetPreset(n, v, o)
  BY <1>1, SetPresetSets
<1>2. CASE ~\E n \in Name, v \in Value, o \in Originator : SetPreset(n, v, o)
  BY <1>2, QuietSteps DEF Next
<1> QED BY <1>1, <1>2

(* No preset is ever in both value registries (consuming_broker.cpp,          *)
(* set_preset_cci_value, add_param and remove_param).                         *)
THEOREM PresetsAreSingle == Spec => []PresetIsSingle
<1>1. SInv => PresetIsSingle BY DEF SInv
<1> QED BY <1>1, SInvInit, SInvStep, PTL DEF Spec

\* What the store makes of a quiet step: nothing, or a lock.
LEMMA LockedGrows ==
  ASSUME [Next]_vars,
         ~\E n \in Name, v \in Value, o \in Originator : SetPreset(n, v, o)
  PROVE  UNCHANGED locked \/ \E n \in Name : locked' = locked \cup {n}
BY DEF Next, vars, LockPreset, IgnoreUnconsumed, AddParam, RemoveParam,
       CallbackReturns, CallbackThrows, RegisterCallback, UnregisterCallback,
       UnregisterAllCallbacks

LEMMA StoreInit == Init => Store!Init
BY DEF Init, Store!Init, PresetOf, has_preset_value

LEMMA StoreStep == SInv /\ [Next]_vars => [Store!Next]_(Store!presets)
<1> SUFFICES ASSUME SInv, [Next]_vars PROVE [Store!Next]_(Store!presets)
  OBVIOUS
<1> DEFINE answers == [n \in Name |-> PresetOf(n)]
<1>1. ASSUME NEW n \in Name, NEW v \in Value, NEW o \in Originator,
             SetPreset(n, v, o)
      PROVE  Store!Next
  <2>1. answers' = [answers EXCEPT ![n] = [value |-> v, orig |-> o]]
    BY <1>1, SetPresetSets
  <2>2. n \notin locked /\ UNCHANGED locked BY <1>1 DEF SetPreset
  <2> QED BY <2>1, <2>2 DEF Store!Next, Store!Set
<1>2. CASE ~\E n \in Name, v \in Value, o \in Originator : SetPreset(n, v, o)
  <2>1. SameStore BY <1>2, QuietSteps DEF Next
  <2>2. answers' = answers BY <2>1 DEF SameStore
  <2>3. CASE UNCHANGED locked BY <2>2, <2>3 DEF Store!presets
  <2>4. ASSUME NEW n \in Name, locked' = locked \cup {n}
        PROVE  Store!Next
    BY <2>2, <2>4 DEF Store!Next, Store!Freeze
  <2> QED BY <1>2, <2>3, <2>4, LockedGrows
<1> QED BY <1>1, <1>2

(* The broker implements the preset store: no preset is lost or changed by    *)
(* the coming and going of parameters, and a locked one is frozen             *)
(* (consuming_broker.cpp, set_preset_cci_value and lock_preset_value).        *)
THEOREM BrokerImplementsPresetStore == Spec => ImplementsPresetStore
<1>1. Spec => []SInv BY SInvInit, SInvStep, PTL DEF Spec
<1> QED BY <1>1, StoreInit, StoreStep, PTL
        DEF Spec, ImplementsPresetStore, Store!Spec

-----------------------------------------------------------------------------
(* Constructors and destructors in progress.  A parameter is in the phase     *)
(* that its frame says, and no two frames are about the same parameter: when  *)
(* a callback returns, whatever it constructed and destroyed meanwhile, the   *)
(* operation it returns to still finds its own parameter as it left it.       *)

LifeOK ==
  /\ registry \subseteq Name
  /\ phase \in [Name -> Phase]
  /\ stack \in [Proc -> Seq(Frame)]

FramesInPhase ==
  \A p \in Proc : \A i \in 1..Len(stack[p]) :
    phase[stack[p][i].name]
      = IF stack[p][i].op = "add" THEN "adding" ELSE "removing"

FramesApart ==
  \A p, q \in Proc : \A i \in 1..Len(stack[p]), j \in 1..Len(stack[q]) :
    stack[p][i].name = stack[q][j].name => p = q /\ i = j

LInv == LifeOK /\ RegistryIsLive /\ FramesInPhase /\ FramesApart

\* The frames after a step, as the frames before it and one new one.
LEMMA InvokeFrames ==
  ASSUME LifeOK, NEW p \in Proc, NEW f \in Frame, Invoke(p, f, stack[p])
  PROVE  /\ stack' \in [Proc -> Seq(Frame)]
         /\ \A q \in Proc : q # p => stack'[q] = stack[q]
         /\ Len(stack[p]) \in Nat /\ Len(stack'[p]) = Len(stack[p]) + 1
         /\ stack'[p][1] = f
         /\ \A i \in 1..Len(stack'[p]) :
              i # 1 => /\ i - 1 \in 1..Len(stack[p])
                       /\ stack'[p][i] = stack[p][i - 1]
<1>1. stack[p] \in Seq(Frame) /\ Len(stack[p]) \in Nat
  BY LenProperties DEF LifeOK
<1>2. /\ <<f>> \o stack[p] \in Seq(Frame)
      /\ Len(<<f>> \o stack[p]) = Len(stack[p]) + 1
      /\ (<<f>> \o stack[p])[1] = f
      /\ \A i \in 2..Len(stack[p]) + 1 : (<<f>> \o stack[p])[i] = stack[p][i - 1]
  BY <1>1, ConsFacts
<1>3. stack'[p] = <<f>> \o stack[p]
  BY DEF Invoke, LifeOK
<1>4. stack' \in [Proc -> Seq(Frame)] /\ \A q \in Proc : q # p => stack'[q] = stack[q]
  BY <1>2 DEF Invoke, LifeOK
<1>5. ASSUME NEW i \in 1..Len(stack'[p]), i # 1
      PROVE  i - 1 \in 1..Len(stack[p]) /\ i \in 2..Len(stack[p]) + 1
  BY <1>1, <1>2, <1>3, <1>5
<1> QED BY <1>1, <1>2, <1>3, <1>4, <1>5

LEMMA ReturnFrames ==
  ASSUME LifeOK, NEW p \in Proc, Busy(p),
         stack' = [stack EXCEPT ![p] = Tail(stack[p])]
  PROVE  /\ stack' \in [Proc -> Seq(Frame)]
         /\ \A q \in Proc : q # p => stack'[q] = stack[q]
         /\ 1 \in 1..Len(stack[p]) /\ Top(p) = stack[p][1] /\ Top(p) \in Frame
         /\ \A i \in 1..Len(stack'[p]) :
              /\ i + 1 \in 1..Len(stack[p]) /\ i + 1 # 1
              /\ stack'[p][i] = stack[p][i + 1]
<1>1. stack[p] \in Seq(Frame) /\ stack[p] # <<>>
  BY DEF LifeOK, Busy
<1>2. /\ Len(stack[p]) \in Nat \ {0} /\ Head(stack[p]) = stack[p][1]
      /\ stack[p][1] \in Frame
      /\ Tail(stack[p]) \in Seq(Frame)
      /\ Len(Tail(stack[p])) = Len(stack[p]) - 1
      /\ \A i \in 1..Len(stack[p]) - 1 : Tail(stack[p])[i] = stack[p][i + 1]
  BY <1>1, TailFacts
<1>3. stack'[p] = Tail(stack[p]) /\ stack' \in [Proc -> Seq(Frame)]
      /\ \A q \in Proc : q # p => stack'[q] = stack[q]
  BY <1>2 DEF LifeOK
<1>4. ASSUME NEW i \in 1..Len(stack'[p])
      PROVE  /\ i \in 1..Len(stack[p]) - 1
             /\ i + 1 \in 1..Len(stack[p]) /\ i + 1 # 1
  BY <1>2, <1>3, <1>4
<1> QED BY <1>2, <1>3, <1>4 DEF Top

\* A parameter starts to be announced, at its creation or its destruction.
LEMMA InvokeLInv ==
  ASSUME LInv, NEW p \in Proc, NEW n \in Name, NEW op \in Kind,
         phase[n] \notin {"adding", "removing"},
         phase' = [phase EXCEPT
                     ![n] = IF op = "add" THEN "adding" ELSE "removing"],
         Invoke(p, Call(op, n), stack[p])
  PROVE  stack' \in [Proc -> Seq(Frame)] /\ FramesInPhase' /\ FramesApart'
<1> DEFINE f == Call(op, n)
<1>1. f \in Frame /\ f.name = n /\ f.op = op
  BY DEF Call, Frame
<1>2. Invoke(p, f, stack[p])
  OBVIOUS
<1> HIDE DEF f
<1>3. /\ stack' \in [Proc -> Seq(Frame)]
      /\ \A q \in Proc : q # p => stack'[q] = stack[q]
      /\ Len(stack[p]) \in Nat /\ Len(stack'[p]) = Len(stack[p]) + 1
      /\ stack'[p][1] = f
      /\ \A i \in 1..Len(stack'[p]) :
           i # 1 => /\ i - 1 \in 1..Len(stack[p])
                    /\ stack'[p][i] = stack[p][i - 1]
  BY <1>1, <1>2, InvokeFrames DEF LInv
<1>4. \A q \in Proc : \A i \in 1..Len(stack[q]) :
        stack[q][i].name \in Name /\ stack[q][i].name # n
  <2> TAKE q \in Proc
  <2> TAKE i \in 1..Len(stack[q])
  <2>1. stack[q][i] \in Frame
    BY ElementOfSeq DEF LInv, LifeOK
  <2> QED BY <2>1 DEF LInv, FramesInPhase, Frame
<1>5. ASSUME NEW q \in Proc, NEW i \in 1..Len(stack'[q])
      PROVE  \/ q = p /\ i = 1 /\ stack'[q][i] = f
             \/ /\ q # p \/ i # 1
                /\ \E j \in 1..Len(stack[q]) :
                     /\ stack'[q][i] = stack[q][j]
                     /\ j = IF q = p THEN i - 1 ELSE i
  BY <1>3, <1>5
<1>6. FramesInPhase'
  <2> SUFFICES ASSUME NEW q \in Proc, NEW i \in 1..Len(stack'[q])
               PROVE  phase'[stack'[q][i].name]
                        = IF stack'[q][i].op = "add" THEN "adding" ELSE "removing"
    BY DEF FramesInPhase
  <2>1. CASE stack'[q][i] = f
    BY <1>1, <2>1 DEF LInv, LifeOK
  <2>2. ASSUME NEW j \in 1..Len(stack[q]), stack'[q][i] = stack[q][j]
        PROVE  phase'[stack'[q][i].name]
                 = IF stack'[q][i].op = "add" THEN "adding" ELSE "removing"
    BY <1>4, <2>2 DEF LInv, LifeOK, FramesInPhase
  <2> QED BY <1>5, <2>1, <2>2
<1>7. FramesApart'
  <2> SUFFICES ASSUME NEW q \in Proc, NEW r \in Proc,
                      NEW i \in 1..Len(stack'[q]), NEW j \in 1..Len(stack'[r]),
                      stack'[q][i].name = stack'[r][j].name
               PROVE  q = r /\ i = j
    BY DEF FramesApart
  <2>1. CASE q = p /\ i = 1
    BY <1>1, <1>3, <1>4, <1>5, <2>1
  <2>2. CASE r = p /\ j = 1
    BY <1>1, <1>3, <1>4, <1>5, <2>2
  <2>3. CASE ~(q = p /\ i = 1) /\ ~(r = p /\ j = 1)
    <3>1. PICK k \in 1..Len(stack[q]) : stack'[q][i] = stack[q][k]
                                        /\ k = IF q = p THEN i - 1 ELSE i
      BY <1>5, <2>3
    <3>2. PICK m \in 1..Len(stack[r]) : stack'[r][j] = stack[r][m]
                                        /\ m = IF r = p THEN j - 1 ELSE j
      BY <1>5, <2>3
    <3>3. q = r /\ k = m
      BY <3>1, <3>2 DEF LInv, FramesApart
    <3>4. i \in Int /\ j \in Int
      OBVIOUS
    <3> QED BY <3>1, <3>2, <3>3, <3>4
  <2> QED BY <2>1, <2>2, <2>3
<1> QED BY <1>3, <1>6, <1>7

\* The operation on top of p's stack ends and leaves its parameter in phase ph.
LEMMA ReturnLInv ==
  ASSUME LInv, NEW p \in Proc, Busy(p), NEW ph \in Phase,
         stack' = [stack EXCEPT ![p] = Tail(stack[p])],
         phase' = [phase EXCEPT ![Top(p).name] = ph],
         registry' = registry,
         (Top(p).op = "add") <=> (ph \in {"adding", "live", "orphaned"})
  PROVE  LInv'
<1> DEFINE n == Top(p).name
<1>1. /\ stack' \in [Proc -> Seq(Frame)]
      /\ \A q \in Proc : q # p => stack'[q] = stack[q]
      /\ 1 \in 1..Len(stack[p]) /\ Top(p) = stack[p][1] /\ Top(p) \in Frame
      /\ \A i \in 1..Len(stack'[p]) :
           /\ i + 1 \in 1..Len(stack[p]) /\ i + 1 # 1
           /\ stack'[p][i] = stack[p][i + 1]
  BY ReturnFrames DEF LInv
<1>2. n \in Name /\ phase[n] = IF Top(p).op = "add" THEN "adding" ELSE "removing"
  BY <1>1 DEF LInv, FramesInPhase, Frame
<1>3. LifeOK'
  BY <1>1, <1>2 DEF LInv, LifeOK
<1>4. RegistryIsLive'
  <2>1. \A m \in Name : (m \in registry) <=>
          phase'[m] \in {"adding", "live", "orphaned"}
    BY <1>2 DEF LInv, RegistryIsLive, LifeOK
  <2> QED BY <2>1 DEF LInv, RegistryIsLive, LifeOK
<1>5. ASSUME NEW q \in Proc, NEW i \in 1..Len(stack'[q])
      PROVE  \E j \in 1..Len(stack[q]) :
               /\ stack'[q][i] = stack[q][j]
               /\ q # p \/ j # 1
               /\ j = IF q = p THEN i + 1 ELSE i
  BY <1>1, <1>5
<1>6. FramesInPhase'
  <2> SUFFICES ASSUME NEW q \in Proc, NEW i \in 1..Len(stack'[q])
               PROVE  phase'[stack'[q][i].name]
                        = IF stack'[q][i].op = "add" THEN "adding" ELSE "removing"
    BY DEF FramesInPhase
  <2>1. PICK j \in 1..Len(stack[q]) : /\ stack'[q][i] = stack[q][j]
                                      /\ q # p \/ j # 1
    BY <1>5
  <2>2. stack[q][j].name # n
    BY <1>1, <2>1 DEF LInv, FramesApart
  <2>3. stack[q][j] \in Frame
    BY ElementOfSeq DEF LInv, LifeOK
  <2> QED BY <2>1, <2>2, <2>3 DEF LInv, LifeOK, FramesInPhase, Frame
<1>7. FramesApart'
  <2> SUFFICES ASSUME NEW q \in Proc, NEW r \in Proc,
                      NEW i \in 1..Len(stack'[q]), NEW j \in 1..Len(stack'[r]),
                      stack'[q][i].name = stack'[r][j].name
               PROVE  q = r /\ i = j
    BY DEF FramesApart
  <2>1. PICK k \in 1..Len(stack[q]) : stack'[q][i] = stack[q][k]
                                      /\ k = IF q = p THEN i + 1 ELSE i
    BY <1>5
  <2>2. PICK m \in 1..Len(stack[r]) : stack'[r][j] = stack[r][m]
                                      /\ m = IF r = p THEN j + 1 ELSE j
    BY <1>5
  <2>3. q = r /\ k = m
    BY <2>1, <2>2 DEF LInv, FramesApart
  <2> QED BY <2>1, <2>2, <2>3
<1> QED BY <1>3, <1>4, <1>6, <1>7 DEF LInv

\* The next callback of the operation on top of p's stack.
LEMMA AdvanceLInv ==
  ASSUME LInv, NEW p \in Proc, Busy(p),
         Invoke(p, [Top(p) EXCEPT !.at = @ + 1], Tail(stack[p])),
         UNCHANGED <<phase, registry>>
  PROVE  LInv'
<1> DEFINE f == [Top(p) EXCEPT !.at = @ + 1]
<1>1. stack[p] \in Seq(Frame) /\ stack[p] # <<>>
  BY DEF LInv, LifeOK, Busy
<1>2. /\ Len(stack[p]) \in Nat \ {0} /\ Top(p) = stack[p][1] /\ Top(p) \in Frame
      /\ Tail(stack[p]) \in Seq(Frame)
      /\ Len(Tail(stack[p])) = Len(stack[p]) - 1
      /\ \A i \in 1..Len(stack[p]) - 1 : Tail(stack[p])[i] = stack[p][i + 1]
  BY <1>1, TailFacts DEF Top
<1>3. f \in Frame /\ f.name = Top(p).name /\ f.op = Top(p).op
  BY <1>2 DEF Frame
<1>4. stack' = [stack EXCEPT ![p] = <<f>> \o Tail(stack[p])]
  BY DEF Invoke
<1> HIDE DEF f
<1>5. /\ <<f>> \o Tail(stack[p]) \in Seq(Frame)
      /\ Len(<<f>> \o Tail(stack[p])) = Len(stack[p])
      /\ (<<f>> \o Tail(stack[p]))[1] = f
      /\ \A i \in 2..Len(stack[p]) :
           (<<f>> \o Tail(stack[p]))[i] = Tail(stack[p])[i - 1]
  BY <1>2, <1>3, ConsFacts
<1>6. stack' \in [Proc -> Seq(Frame)] /\ stack'[p] = <<f>> \o Tail(stack[p])
      /\ \A q \in Proc : q # p => stack'[q] = stack[q]
  BY <1>4, <1>5 DEF LInv, LifeOK
<1>7. \A q \in Proc : /\ Len(stack'[q]) = Len(stack[q])
                      /\ \A i \in 1..Len(stack[q]) :
                           /\ stack'[q][i].name = stack[q][i].name
                           /\ stack'[q][i].op = stack[q][i].op
  <2> TAKE q \in Proc
  <2>1. CASE q # p
    BY <1>6, <2>1
  <2>2. CASE q = p
    <3>1. ASSUME NEW i \in 1..Len(stack[p]), i # 1
          PROVE  stack'[p][i] = stack[p][i]
      <4>1. i \in 2..Len(stack[p]) /\ i - 1 \in 1..Len(stack[p]) - 1
            /\ (i - 1) + 1 = i
        BY <1>2, <3>1
      <4> QED BY <1>2, <1>5, <1>6, <4>1
    <3> QED BY <1>2, <1>3, <1>5, <1>6, <2>2, <3>1
  <2> QED BY <2>1, <2>2
<1>8. LifeOK' /\ RegistryIsLive'
  BY <1>6 DEF LInv, LifeOK, RegistryIsLive
<1>9. FramesInPhase'
  BY <1>7 DEF LInv, FramesInPhase
<1>10. FramesApart'
  <2> SUFFICES ASSUME NEW q \in Proc, NEW r \in Proc,
                      NEW i \in 1..Len(stack'[q]), NEW j \in 1..Len(stack'[r]),
                      stack'[q][i].name = stack'[r][j].name
               PROVE  q = r /\ i = j
    BY DEF FramesApart
  <2>1. i \in 1..Len(stack[q]) /\ j \in 1..Len(stack[r])
        /\ stack[q][i].name = stack[r][j].name
    BY <1>7
  <2> QED BY <2>1 DEF LInv, FramesApart
<1> QED BY <1>8, <1>9, <1>10 DEF LInv

LEMMA AddParamLInv ==
  ASSUME LInv, NEW p \in Proc, NEW n \in Name, AddParam(p, n)
  PROVE  LInv'
<1>1. phase[n] = "none"
  BY DEF AddParam, LInv, RegistryIsLive
<1>2. registry' = registry \cup {n}
      /\ \E ph \in {"live", "adding"} : phase' = [phase EXCEPT ![n] = ph]
  BY DEF AddParam
<1>3. RegistryIsLive' /\ registry' \subseteq Name /\ phase' \in [Name -> Phase]
  BY <1>2 DEF LInv, RegistryIsLive, LifeOK, Phase
<1>4. CASE phase' = [phase EXCEPT ![n] = "live"] /\ UNCHANGED stack
  <2>1. \A q \in Proc : \A i \in 1..Len(stack[q]) : stack[q][i].name # n
    BY <1>1 DEF LInv, FramesInPhase
  <2>2. FramesInPhase'
    <3> SUFFICES ASSUME NEW q \in Proc, NEW i \in 1..Len(stack[q])
                 PROVE  phase'[stack[q][i].name] = phase[stack[q][i].name]
      BY <1>4 DEF LInv, FramesInPhase
    <3>1. stack[q][i] \in Frame
      BY ElementOfSeq DEF LInv, LifeOK
    <3> QED BY <1>4, <2>1, <3>1 DEF LInv, LifeOK, Frame
  <2> QED BY <1>3, <1>4, <2>2 DEF LInv, LifeOK, FramesApart
<1>5. CASE /\ phase' = [phase EXCEPT ![n] = "adding"]
           /\ Invoke(p, Call("add", n), stack[p])
  <2>1. "add" \in Kind
    BY DEF Kind
  <2>2. stack' \in [Proc -> Seq(Frame)] /\ FramesInPhase' /\ FramesApart'
    BY <1>1, <1>5, <2>1, InvokeLInv
  <2> QED BY <1>3, <2>2 DEF LInv, LifeOK
<1> QED BY <1>4, <1>5 DEF AddParam

LEMMA RemoveParamLInv ==
  ASSUME LInv, NEW p \in Proc, NEW n \in Name, RemoveParam(p, n)
  PROVE  LInv'
<1>1. phase[n] = "live"
  BY DEF RemoveParam
<1>2. registry' = registry \ {n}
      /\ \E ph \in {"none", "removing"} : phase' = [phase EXCEPT ![n] = ph]
  BY DEF RemoveParam, RemoveDone
<1>3. RegistryIsLive' /\ registry' \subseteq Name /\ phase' \in [Name -> Phase]
  BY <1>2 DEF LInv, RegistryIsLive, LifeOK, Phase
<1>4. CASE phase' = [phase EXCEPT ![n] = "none"] /\ UNCHANGED stack
  <2>1. \A q \in Proc : \A i \in 1..Len(stack[q]) : stack[q][i].name # n
    BY <1>1 DEF LInv, FramesInPhase
  <2>2. FramesInPhase'
    <3> SUFFICES ASSUME NEW q \in Proc, NEW i \in 1..Len(stack[q])
                 PROVE  phase'[stack[q][i].name] = phase[stack[q][i].name]
      BY <1>4 DEF LInv, FramesInPhase
    <3>1. stack[q][i] \in Frame
      BY ElementOfSeq DEF LInv, LifeOK
    <3> QED BY <1>4, <2>1, <3>1 DEF LInv, LifeOK, Frame
  <2> QED BY <1>3, <1>4, <2>2 DEF LInv, LifeOK, FramesApart
<1>5. CASE /\ phase' = [phase EXCEPT ![n] = "removing"]
           /\ Invoke(p, Call("remove", n), stack[p])
  <2>1. "remove" \in Kind
    BY DEF Kind
  <2>2. stack' \in [Proc -> Seq(Frame)] /\ FramesInPhase' /\ FramesApart'
    BY <1>1, <1>5, <2>1, InvokeLInv
  <2> QED BY <1>3, <2>2 DEF LInv, LifeOK
<1>6. RemoveDone(p, n, stack[p]) => UNCHANGED stack
  BY DEF RemoveDone, LInv, LifeOK
<1> QED BY <1>4, <1>5, <1>6 DEF RemoveParam, RemoveDone

LEMMA CallbackLInv ==
  ASSUME LInv, NEW p \in Proc, CallbackReturns(p) \/ CallbackThrows(p)
  PROVE  LInv'
<1>1. Busy(p) /\ registry' = registry
  BY DEF CallbackReturns, CallbackThrows
<1>2. CASE /\ Invoke(p, [Top(p) EXCEPT !.at = @ + 1], Tail(stack[p]))
           /\ UNCHANGED phase
  BY <1>1, <1>2, AdvanceLInv
<1>3. CASE /\ Top(p).op = "add"
           /\ phase' = [phase EXCEPT ![Top(p).name] = "live"]
           /\ stack' = [stack EXCEPT ![p] = Tail(stack[p])]
  BY <1>1, <1>3, ReturnLInv DEF Phase
<1>4. CASE /\ Top(p).op = "remove"
           /\ phase' = [phase EXCEPT ![Top(p).name] = "none"]
           /\ stack' = [stack EXCEPT ![p] = Tail(stack[p])]
  BY <1>1, <1>4, ReturnLInv DEF Phase
<1>5. CASE /\ Top(p).op = "add"
           /\ phase' = [phase EXCEPT ![Top(p).name] = "orphaned"]
           /\ stack' = [stack EXCEPT ![p] = Tail(stack[p])]
  BY <1>1, <1>5, ReturnLInv DEF Phase
<1> QED BY <1>2, <1>3, <1>4, <1>5 DEF CallbackReturns, CallbackThrows, RemoveDone

LEMMA LInvInit == Init => LInv
<1> SUFFICES ASSUME Init PROVE LInv
  OBVIOUS
<1>1. LifeOK
  BY EmptySeq DEF Init, LifeOK, Phase
<1>2. \A p \in Proc : Len(stack[p]) = 0
  BY EmptySeq DEF Init
<1>3. FramesInPhase /\ FramesApart
  BY <1>2 DEF FramesInPhase, FramesApart
<1> QED BY <1>1, <1>3 DEF LInv, Init, RegistryIsLive

LEMMA LInvStep == LInv /\ [Next]_vars => LInv'
<1> SUFFICES ASSUME LInv, [Next]_vars PROVE LInv'
  OBVIOUS
<1>1. ASSUME UNCHANGED <<registry, phase, stack>>
      PROVE  LInv'
  BY <1>1 DEF LInv, LifeOK, RegistryIsLive, FramesInPhase, FramesApart
<1>2. ASSUME NEW p \in Proc, NEW n \in Name, AddParam(p, n) \/ RemoveParam(p, n)
      PROVE  LInv'
  BY <1>2, AddParamLInv, RemoveParamLInv
<1>3. ASSUME NEW p \in Proc, CallbackReturns(p) \/ CallbackThrows(p)
      PROVE  LInv'
  BY <1>3, CallbackLInv
<1> QED BY <1>1, <1>2, <1>3
        DEF Next, vars, SetPreset, LockPreset, IgnoreUnconsumed,
            RegisterCallback, UnregisterCallback, UnregisterAllCallbacks

(* The registry holds exactly the parameters that have been announced and not *)
(* begun to be destroyed, and the orphans of constructors that were unwound,  *)
(* whatever the create and destroy callbacks construct, destroy and throw     *)
(* (consuming_broker.cpp, add_param and remove_param).                        *)
THEOREM RegistryStaysLive == Spec => []RegistryIsLive
<1>1. LInv => RegistryIsLive
  BY DEF LInv
<1> QED BY <1>1, LInvInit, LInvStep, PTL DEF Spec

-----------------------------------------------------------------------------
(* A preset counts as consumed only while its parameter exists.               *)

UInv == MapsOK /\ phase \in [Name -> Phase] /\ UsedHasParam

LEMMA UInvStep == LInv /\ SInv /\ UInv /\ [Next]_vars => UInv'
<1> SUFFICES ASSUME LInv, SInv, UInv, [Next]_vars PROVE UInv'
  OBVIOUS
<1>1. MapsOK' /\ phase' \in [Name -> Phase]
  BY SInvStep, LInvStep DEF SInv, LInv, LifeOK
<1>2. CASE UNCHANGED <<used, phase>>
  BY <1>1, <1>2 DEF UInv, UsedHasParam
<1>3. ASSUME NEW n \in Name, NEW v \in Value, NEW o \in Originator,
             SetPreset(n, v, o)
      PROVE  UsedHasParam'
  BY <1>3 DEF SetPreset, UInv, MapsOK, UsedHasParam
<1>4. ASSUME NEW p \in Proc, NEW n \in Name, AddParam(p, n)
      PROVE  UsedHasParam'
  BY <1>4 DEF AddParam, Take, UInv, MapsOK, UsedHasParam
<1>5. ASSUME NEW p \in Proc, NEW n \in Name, RemoveParam(p, n)
      PROVE  UsedHasParam'
  BY <1>5 DEF RemoveParam, RemoveDone, GiveBack, UInv, MapsOK, UsedHasParam
<1>6. ASSUME NEW p \in Proc, CallbackReturns(p)
      PROVE  UsedHasParam'
  <2> DEFINE n == Top(p).name
  <2>1. \/ UNCHANGED <<used, phase>>
        \/ used' = used /\ phase' = [phase EXCEPT ![n] = "live"]
        \/ used' = [used EXCEPT ![n] = NoValue]
           /\ phase' = [phase EXCEPT ![n] = "none"]
    BY <1>6 DEF CallbackReturns, RemoveDone, GiveBack
  <2> HIDE DEF n
  <2> QED BY <2>1 DEF UInv, MapsOK, UsedHasParam
<1>7. ASSUME NEW p \in Proc, CallbackThrows(p)
      PROVE  UsedHasParam'
  BY <1>7 DEF CallbackThrows, UInv, UsedHasParam
<1> QED BY <1>1, <1>2, <1>3, <1>4, <1>5, <1>6, <1>7
        DEF Next, vars, UInv, LockPreset, IgnoreUnconsumed, RegisterCallback,
            UnregisterCallback, UnregisterAllCallbacks

(* A preset counts as consumed only while its parameter exists or was left    *)
(* behind by a constructor that failed; once it is destroyed the value is     *)
(* reported as unconsumed again (consuming_broker.cpp, remove_param and       *)
(* get_unconsumed_preset_values).                                             *)
THEOREM UsedHaveParams == Spec => []UsedHasParam
<1>1. Init => UInv
  BY DEF Init, UInv, MapsOK, UsedHasParam, Phase
<1>2. UInv => UsedHasParam
  BY DEF UInv
<1> QED BY <1>1, <1>2, LInvInit, LInvStep, SInvInit, SInvStep, UInvStep, PTL
        DEF Spec

-----------------------------------------------------------------------------
(* What the invariants above leave out: locks, ignored names and callbacks.   *)

CInv ==
  /\ locked \subseteq Name
  /\ ignored \subseteq Name
  /\ cbs \in [Kind -> Seq(Entry)]

LEMMA CInvStep == CInv /\ [Next]_vars => CInv'
<1> SUFFICES ASSUME CInv, [Next]_vars PROVE CInv'
  OBVIOUS
<1>1. CASE UNCHANGED <<locked, ignored, cbs>>
  BY <1>1 DEF CInv
<1>2. ASSUME NEW n \in Name, LockPreset(n)
      PROVE  CInv'
  BY <1>2 DEF LockPreset, CInv
<1>3. ASSUME NEW pred \in Ignorable, IgnoreUnconsumed(pred)
      PROVE  CInv'
  BY <1>3, IgnorableIsNames DEF IgnoreUnconsumed, CInv
<1>4. ASSUME NEW k \in Kind, NEW c \in Callback, NEW o \in Originator,
             RegisterCallback(k, c, o)
      PROVE  CInv'
  <2>1. [cb |-> c, orig |-> o] \in Entry
    BY DEF Entry
  <2>2. Append(cbs[k], [cb |-> c, orig |-> o]) \in Seq(Entry)
    BY <2>1 DEF CInv
  <2> QED BY <1>4, <2>2 DEF RegisterCallback, CInv
<1>5. ASSUME NEW k \in Kind, NEW c \in Callback, NEW o \in Originator,
             UnregisterCallback(k, c, o)
      PROVE  CInv'
  <2>1. EraseFirst(cbs[k], c, o) \in Seq(Entry)
    BY EraseFirstType DEF CInv
  <2> QED BY <1>5, <2>1 DEF UnregisterCallback, CInv
<1>6. ASSUME NEW o \in Originator, UnregisterAllCallbacks(o)
      PROVE  CInv'
  <2>1. \A k \in Kind : EraseAllOf(cbs[k], o) \in Seq(Entry)
    BY EraseAllOfType DEF CInv
  <2> QED BY <1>6, <2>1 DEF UnregisterAllCallbacks, CInv
<1> QED BY <1>1, <1>2, <1>3, <1>4, <1>5, <1>6
        DEF Next, vars, SetPreset, AddParam, RemoveParam, CallbackReturns,
            CallbackThrows

(* Type correctness: however calls, callbacks and exceptions interleave, the  *)
(* registries stay maps from names to presets, and erasing from the vectors   *)
(* of callbacks leaves vectors of callbacks (consuming_broker.h, the members  *)
(* of consuming_broker).                                                      *)
THEOREM BrokerIsTyped == Spec => []TypeOK
<1>1. Init => CInv
  BY EmptySeq DEF Init, CInv
<1>2. SInv /\ LInv /\ CInv => TypeOK
  BY DEF SInv, MapsOK, LInv, LifeOK, CInv, TypeOK
<1> QED BY <1>1, <1>2, CInvStep, SInvInit, SInvStep, LInvInit, LInvStep, PTL DEF Spec
=============================================================================
