--------------------------- MODULE CallbackObjects ---------------------------
(* Callback objects (cci_callback), the handles that share them and the       *)
(* reference counts underneath (callback_impl, callback_generic_adapt), with  *)
(* the callback vector of a parameter that runs them.                         *)
(*                                                                            *)
(* A signature is the type of the event; the generic one takes cci_values,    *)
(* and a callback of the generic signature serves every other one through an  *)
(* adapter.  No adapter has the generic signature, so adapters do not nest.   *)
EXTENDS Naturals, Sequences, FiniteSets

CONSTANTS
  Impl,       \* addresses of implementation objects
  Null, Free, Gone,
  Holder,     \* cci_callback objects and handles of the program
  ClassOf,    \* what a holder is: [kind, sig]
  Generic,    \* the signature with cci_values
  ParamSig,   \* the signature of the parameter's own events
  MaxVec,     \* bound: callbacks registered at a time
  MaxNest     \* bound: callbacks running inside each other

Kind == {"callback", "untyped", "typed"}

ASSUME SignaturesAreKnown ==
  /\ \A h \in Holder : ClassOf[h].kind \in Kind
  /\ ParamSig # Generic
  /\ Null \notin Impl /\ Free # Null /\ MaxVec \in Nat /\ MaxNest \in Nat

VARIABLES
  heap,    \* an implementation object: signature, m_refcnt, wrapped m_func
  hold,    \* m_cb of each holder; Gone when the holder does not exist
  vec,     \* m_cb of the handles in the parameter's vector
  run,     \* m_cb of the local handle of each running invocation, last first
  unchecked \* history, not of the code: the typed handles whose content came
            \* through the untyped base class, where nobody compares signatures

vars == <<heap, hold, vec, run, unchecked>>

Sig == {Generic, ParamSig} \cup {ClassOf[h].sig : h \in Holder}

\* excess is not of the code: references nobody will release.
Object == [sig : Sig, cnt : Nat \ {0}, func : Impl \cup {Null}, excess : {0, 1}]

ASSUME AddressesAreFinite == IsFiniteSet(Impl) /\ IsFiniteSet(Holder)
ASSUME MarksAreDistinct == Gone \notin Impl \cup {Null} /\ Free \notin Object

TypeOK ==
  /\ heap \in [Impl -> Object \cup {Free}]
  /\ hold \in [Holder -> Impl \cup {Null, Gone}]
  /\ vec \in Seq(Impl \cup {Null}) /\ Len(vec) <= MaxVec
  /\ run \in Seq(Impl) /\ Len(run) <= MaxNest
  /\ unchecked \subseteq Holder

Init ==
  /\ heap = [i \in Impl |-> Free]
  /\ hold = [h \in Holder |-> Gone]
  /\ vec = <<>>
  /\ run = <<>>
  /\ unchecked = {}

Alive(h) == hold[h] # Gone
IsCallback(h) == ClassOf[h].kind = "callback"
SameClass(h, s) == ClassOf[h] = ClassOf[s]
Unused == {i \in Impl : heap[i] = Free}

-----------------------------------------------------------------------------
(* Implementation objects: each operator returns the heap afterwards.         *)

Acquire(hp, i) == IF i = Null THEN hp ELSE [hp EXCEPT ![i].cnt = @ + 1]

Drop(hp, i) ==
  [hp EXCEPT ![i] = IF hp[i].cnt = 1 THEN Free ELSE [hp[i] EXCEPT !.cnt = @ - 1]]

\* The last release deletes the object; an adapter releases what it wraps.
Release(hp, i) ==
  IF i = Null THEN hp
  ELSE IF hp[i].func # Null /\ hp[i].cnt = 1 THEN Drop(Drop(hp, i), hp[i].func)
  ELSE Drop(hp, i)

NewObject(sig, f) == [sig |-> sig, cnt |-> 1, func |-> f, excess |-> 0]

NewFunctor(hp, i, sig) == [hp EXCEPT ![i] = NewObject(sig, Null)]

\* Mutant: the adapter does not acquire what it wraps.
NewAdapterShares(hp, i, sig, f) ==
  [hp EXCEPT ![i] = NewObject(sig, f)]

NewAdapter(hp, i, sig, f) ==
  Acquire([hp EXCEPT ![i] = NewObject(sig, f)], f)

\* A clone of the object s at i.  For an adapter, a clone at j of what it wraps,
\* which the new adapter acquires although it is the only owner.
Clone(hp, s, i, j) ==
  IF hp[s].func = Null THEN NewFunctor(hp, i, hp[s].sig)
  ELSE LET inner == NewFunctor(hp, j, hp[hp[s].func].sig) IN
       NewAdapter([inner EXCEPT ![j].excess = 1], i, hp[s].sig, j)

\* The functor at the end: what handles compare.
Functor(i) == IF heap[i].func = Null THEN i ELSE heap[i].func

-----------------------------------------------------------------------------
(* cci_callback.                                                              *)

MakeCallback(h) ==
  /\ IsCallback(h) /\ ~Alive(h)
  /\ \E i \in Unused :
       /\ heap' = NewFunctor(heap, i, ClassOf[h].sig)
       /\ hold' = [hold EXCEPT ![h] = i]
  /\ UNCHANGED <<vec, run, unchecked>>

\* h becomes a copy of s and what it held before is released.
Cloned(h, s) ==
  LET old == IF Alive(h) THEN hold[h] ELSE Null IN
  \/ /\ hold[s] = Null
     /\ heap' = Release(heap, old)
     /\ hold' = [hold EXCEPT ![h] = Null]
  \/ /\ hold[s] \in Impl
     /\ \E i, j \in Unused :
          /\ i = j <=> heap[hold[s]].func = Null
          /\ heap' = Release(Clone(heap, hold[s], i, j), old)
          /\ hold' = [hold EXCEPT ![h] = i]

CopyCallback(h, s) ==
  /\ IsCallback(h) /\ SameClass(h, s) /\ ~Alive(h) /\ Alive(s)
  /\ Cloned(h, s)
  /\ UNCHANGED <<vec, run, unchecked>>

MoveCallback(h, s) ==
  /\ IsCallback(h) /\ SameClass(h, s) /\ ~Alive(h) /\ Alive(s)
  /\ hold' = [hold EXCEPT ![h] = hold[s], ![s] = Null]
  /\ UNCHANGED <<heap, vec, run, unchecked>>

\* A generic callback that was moved from is not looked at.
AdaptCallback(h, s) ==
  /\ IsCallback(h) /\ IsCallback(s) /\ ~Alive(h) /\ hold[s] \in Impl
  /\ ClassOf[s].sig = Generic /\ ClassOf[h].sig # Generic
  /\ \E i \in Unused :
       /\ heap' = NewAdapter(heap, i, ClassOf[h].sig, hold[s])
       /\ hold' = [hold EXCEPT ![h] = i]
  /\ UNCHANGED <<vec, run, unchecked>>

\* The copy is made first, the old object is released with the copy.
AssignCallback(h, s) ==
  /\ IsCallback(h) /\ SameClass(h, s) /\ Alive(h) /\ Alive(s)
  /\ Cloned(h, s)
  /\ UNCHANGED <<vec, run, unchecked>>

AssignMoved(h, s) ==
  /\ IsCallback(h) /\ SameClass(h, s) /\ Alive(h) /\ Alive(s) /\ h # s
  /\ heap' = Release(heap, hold[h])
  /\ hold' = [hold EXCEPT ![h] = hold[s], ![s] = Null]
  /\ UNCHANGED <<vec, run, unchecked>>

SwapCallbacks(h, s) ==
  /\ IsCallback(h) /\ SameClass(h, s) /\ Alive(h) /\ Alive(s) /\ h # s
  /\ hold' = [hold EXCEPT ![h] = hold[s], ![s] = hold[h]]
  /\ UNCHANGED <<heap, vec, run, unchecked>>

Destroy(h) ==
  /\ Alive(h)
  /\ heap' = Release(heap, hold[h])
  /\ hold' = [hold EXCEPT ![h] = Gone]
  /\ unchecked' = unchecked \ {h}
  /\ UNCHANGED <<vec, run>>

-----------------------------------------------------------------------------
(* Handles.                                                                   *)

\* A handle of class c may be initialised from s without a conversion.
Shares(h, s) ==
  /\ ~IsCallback(h)
  /\ IF ClassOf[h].kind = "untyped" THEN TRUE
     ELSE ClassOf[s].kind # "untyped" /\ ClassOf[s].sig = ClassOf[h].sig

\* The typed handle h takes what s holds and no signature was compared, now or
\* when s got it.
TakesUnchecked(h, s) ==
  ClassOf[h].kind = "typed" /\ (Shares(h, s) => s \in unchecked)

\* The handle h takes what s holds.
Taken(h, s) ==
  IF TakesUnchecked(h, s) THEN unchecked \cup {h} ELSE unchecked \ {h}

MakeHandle(h, s) ==
  /\ Shares(h, s) /\ ~Alive(h) /\ Alive(s)
  /\ heap' = Acquire(heap, hold[s])
  /\ hold' = [hold EXCEPT ![h] = hold[s]]
  /\ unchecked' = Taken(h, s)
  /\ UNCHANGED <<vec, run>>

DefaultHandle(h) ==
  /\ ~IsCallback(h) /\ ~Alive(h)
  /\ hold' = [hold EXCEPT ![h] = Null]
  /\ UNCHANGED <<heap, vec, run, unchecked>>

\* Mutant: the signature is not compared.
ConvertsUnchecked(sig, i, c, hp) ==
  \/ i = Null /\ c = Null /\ hp = heap
  \/ i # Null /\ c = i /\ hp = Acquire(heap, i)

\* The typed handle c of signature sig made from an untyped one to i leaves the
\* heap hp: it shares a callback of the signature, adapts a generic one and is
\* invalid otherwise.
Converts(sig, i, c, hp) ==
  \/ i = Null /\ c = Null /\ hp = heap
  \/ i # Null /\ heap[i].sig = sig /\ c = i /\ hp = Acquire(heap, i)
  \/ /\ i # Null /\ heap[i].sig # sig
     /\ IF sig # Generic /\ heap[Functor(i)].sig = Generic
        THEN c \in Unused /\ hp = NewAdapter(heap, c, sig, Functor(i))
        ELSE c = Null /\ hp = heap

ConvertHandle(h, s) ==
  /\ ClassOf[h].kind = "typed" /\ ~IsCallback(s)
  /\ ~Alive(h) /\ Alive(s)
  /\ \E c \in Impl \cup {Null} :
       /\ Converts(ClassOf[h].sig, hold[s], c, heap')
       /\ hold' = [hold EXCEPT ![h] = c]
  /\ UNCHANGED <<vec, run, unchecked>>

\* operator= and swap of the untyped class take handles of any signature, the
\* operator callbacks too.  Typed handles inherit swap, and are assigned that way
\* through a reference to their base.
AssignHandle(h, s) ==
  /\ ~IsCallback(h) /\ Alive(h) /\ Alive(s)
  /\ heap' = Release(Acquire(heap, hold[s]), hold[h])
  /\ hold' = [hold EXCEPT ![h] = hold[s]]
  /\ unchecked' = Taken(h, s)
  /\ UNCHANGED <<vec, run>>

SwapHandles(h, s) ==
  /\ ~IsCallback(h) /\ ~IsCallback(s) /\ Alive(h) /\ Alive(s) /\ h # s
  /\ hold' = [hold EXCEPT ![h] = hold[s], ![s] = hold[h]]
  /\ unchecked' = {x \in Holder :
       CASE x = h -> TakesUnchecked(h, s)
         [] x = s -> TakesUnchecked(s, h)
         [] OTHER -> x \in unchecked}
  /\ UNCHANGED <<heap, vec, run>>

ClearHandle(h) ==
  /\ ~IsCallback(h) /\ hold[h] \in Impl
  /\ heap' = Release(heap, hold[h])
  /\ hold' = [hold EXCEPT ![h] = Null]
  /\ unchecked' = unchecked \ {h}
  /\ UNCHANGED <<vec, run>>

-----------------------------------------------------------------------------
(* The vector of the parameter.                                               *)

Register(s) ==
  /\ hold[s] \in Impl /\ Len(vec) < MaxVec
  /\ heap' = Acquire(heap, hold[s])
  /\ vec' = Append(vec, hold[s])
  /\ UNCHANGED <<hold, run, unchecked>>

Unregister(n) ==
  /\ heap' = Release(heap, vec[n])
  /\ vec' = SubSeq(vec, 1, n - 1) \o SubSeq(vec, n + 1, Len(vec))
  /\ UNCHANGED <<hold, run, unchecked>>

\* Mutant: the callback is invoked in place, without a handle of the loop's own.
InvokeInPlace(n) ==
  /\ Len(run) < MaxNest
  /\ heap[vec[n]].sig = ParamSig
  /\ run' = <<vec[n]>> \o run
  /\ UNCHANGED <<heap, hold, vec, unchecked>>

\* The loop makes a typed handle for the entry; an invalid one is not invoked.
Invoke(n) ==
  /\ Len(run) < MaxNest
  /\ \E c \in Impl : Converts(ParamSig, vec[n], c, heap') /\ run' = <<c>> \o run
  /\ UNCHANGED <<hold, vec, unchecked>>

CallbackReturns ==
  /\ run # <<>>
  /\ heap' = Release(heap, Head(run))
  /\ run' = Tail(run)
  /\ UNCHANGED <<hold, vec, unchecked>>

-----------------------------------------------------------------------------
CallbackSteps(h) ==
  \/ MakeCallback(h)
  \/ \E s \in Holder : CopyCallback(h, s)
  \/ \E s \in Holder : MoveCallback(h, s)
  \/ \E s \in Holder : AdaptCallback(h, s)
  \/ \E s \in Holder : AssignCallback(h, s)
  \/ \E s \in Holder : AssignMoved(h, s)
  \/ \E s \in Holder : SwapCallbacks(h, s)

HandleSteps(h) ==
  \/ DefaultHandle(h)
  \/ ClearHandle(h)
  \/ \E s \in Holder : MakeHandle(h, s)
  \/ \E s \in Holder : ConvertHandle(h, s)
  \/ \E s \in Holder : AssignHandle(h, s)
  \/ \E s \in Holder : SwapHandles(h, s)

ParamSteps ==
  \/ \E h \in Holder : Register(h)
  \/ \E n \in DOMAIN vec : Unregister(n)
  \/ \E n \in DOMAIN vec : Invoke(n)
  \/ CallbackReturns

Next ==
  \/ \E h \in Holder : CallbackSteps(h) \/ HandleSteps(h)
  \/ \E h \in Holder : Destroy(h)
  \/ ParamSteps

Spec == Init /\ [][Next]_vars

-----------------------------------------------------------------------------
\* The pointers to i: of holders, of the vector, of running loops, of adapters.
Pointers(i) ==
  {<<"holder", h>> : h \in {h \in Holder : hold[h] = i}}
    \cup {<<"vec", n>> : n \in {n \in DOMAIN vec : vec[n] = i}}
    \cup {<<"run", n>> : n \in {n \in DOMAIN run : run[n] = i}}
    \cup {<<"adapter", a>> : a \in {a \in Impl : heap[a] # Free /\ heap[a].func = i}}

\* A holder that says what signature it has and took nothing without a check.
Checked(h) ==
  IsCallback(h) \/ (ClassOf[h].kind = "typed" /\ h \notin unchecked)

(* An implementation object is there as long as somebody points to it, and    *)
(* its count is the number of pointers, whatever was copied, moved, adapted   *)
(* and converted; only the functor that an adapter's clone brought with it    *)
(* has one more (callback_generic_adapt::clone).                              *)
CountsMatchPointers ==
  \A i \in Impl :
    IF heap[i] = Free THEN Pointers(i) = {}
    ELSE heap[i].cnt = Cardinality(Pointers(i)) + heap[i].excess

(* A callback that runs is not deleted before it returns, also when it        *)
(* unregisters itself and drops every handle it has (the loops of             *)
(* cci_param_typed hold a handle of their own), and has the signature of the  *)
(* event it is given.                                                         *)
RunningCallbackLives ==
  \A n \in DOMAIN run :
    /\ heap[run[n]] # Free /\ heap[run[n]].sig = ParamSig
    /\ heap[Functor(run[n])] # Free

(* A callback, and a typed handle that took nothing through its untyped base  *)
(* class, leads to a functor of its signature, or through one adapter to a    *)
(* generic one, whatever the other handles hold: its static_cast is right     *)
(* (unchecked_invoke).                                                        *)
SignaturesMatch ==
  \A h \in Holder : hold[h] \in Impl /\ Checked(h) =>
    LET o == heap[hold[h]] IN
    /\ o # Free /\ o.sig = ClassOf[h].sig
    /\ o.func # Null => heap[o.func] # Free /\ heap[o.func].sig = Generic
=============================================================================
