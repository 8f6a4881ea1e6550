# TLA+ specifications of the SystemC CCI library

This directory holds TLA+ models of the configuration library in `src/src/cci`
(the proof-of-concept implementation of the SystemC Configuration, Control and
Inspection standard), the TLC instances that check them, and TLAPS proofs about
them. It says which code each model stands for, what was checked, what was
proved and what was left out.

## 1. The system

A model is a tree of SystemC modules. Modules own *parameters* and may own
*brokers*. Everything runs in one operating system thread; concurrency comes
from SystemC processes, which give up control only in `wait()`. The library
never waits itself, so control is lost only where it invokes user code:
parameter callbacks, broker callbacks and, during elaboration, constructors.
There user code may do anything: call the same parameter again, register
callbacks, lock, throw, construct and destroy other parameters, or wait.

| component | source | state | operations |
|---|---|---|---|
| Parameter | `cfg/cci_param_typed.h`, `cfg/cci_param_untyped.{h,cpp}`, `cfg/cci_param_if.{h,cpp}` | value and originator, default, lock password, four callback vectors with their `oncall` tags, the `fast_read`/`fast_write` flags, list of handles | get, set, reset, lock, unlock, (un)register callbacks, construct, destroy |
| Consuming broker | `utils/consuming_broker.{h,cpp}` | registry of parameters, unused and used presets, preset originators, locked names, ignore predicates, create/destroy callbacks | presets, locks, queries, add/remove a parameter, (un)register callbacks |
| Broker hierarchy | `utils/broker.{h,cpp}` | the parent broker and the set `expose` | forwards requests for exposed names to the parent; lookups fall back to it |
| Broker manager, broker handles | `cfg/cci_broker_manager.{h,cpp}`, `cfg/cci_broker_handle.{h,cpp}`, `cfg/cci_broker_if.h` | the broker registered at each object | register, find the nearest one upwards |
| Parameter handles | `cfg/cci_param_untyped_handle.{h,cpp}`, `cfg/cci_param_typed_handle.h` | pointer to the parameter, originator | create, copy, move, assign, cast, invalidate, forward |
| Originators | `cfg/cci_originator.{h,cpp}` | an object or an owned string | copy, move, swap, compare |
| Callback objects | `core/cci_callback.h`, `core/cci_callback_impl.h` | reference-counted function objects | make, convert, compare, invoke |
| Unique names | `core/cci_name_gen.{h,cpp}` | names in use | generate, unregister |
| Filtered ranges | `core/cci_filtered_range.h` | a snapshot and a predicate | iterate |
| Variant values | `core/cci_value.{h,cpp}`, `core/cci_value_iterator.h` | a JSON-like tree, handles into it | list and map operations, copy, move, swap |
| Value converters | `core/cci_value_converter.{h,cpp}` | none | pack and unpack |
| Report handler | `cfg/cci_report_handler.{h,cpp}` | none | report, decode an exception |

How they interact. A parameter's constructor asks its broker for a preset,
stores it and then calls `add_param`, which runs the create callbacks; its
destructor calls `remove_param`, which runs the destroy callbacks, and then
invalidates the handles. `reset()` reads the preset from the broker again.
Handles are obtained from brokers, which may look for the name in a parent
broker. A parameter packs its value into a variant value, and unpacks what it is
given, through the converter of its type. Registered callbacks are handles that
share reference-counted objects with the caller's. The example programs in
`examples/cci` put all of it to use: modules that own parameters, and others that
configure and observe them from threads of their own. The vendored RapidJSON
library and the build files hold none of this logic and are not modelled.

What is hard here, and what `PROJECT.json` lists line by line under `hazards`:

* re-entrancy: a write validated by a callback that writes, resets, locks or
  unregisters callbacks of the same parameter, and the loops that walk a vector
  while it changes;
* state checked before user code runs and used after it: the lock, the saved
  old value, the fast-path flags;
* the `oncall` tags belong to the parameter, not to a process, while a callback
  may wait and let another process in;
* exceptions leaving callbacks, and errors that by configuration do not throw;
* parameters constructed and destroyed while presets, callbacks and handles
  refer to them, and addresses and names used again;
* values, references and callbacks that share storage: pooled cells used again,
  counts kept by hand, casts that trust an earlier comparison;
* conversions without range checks, and those that fail half way;
* typed handles that inherit the unchecked swap and assignment of their untyped
  base;
* threads that write and observe the same parameters;
* brokers that answer for each other, where one forgotten forward makes the
  answers disagree.

## 2. The modules

| module | models | notes |
|---|---|---|
| `Vectors` | erasing from a `std::vector` | pure operators |
| `CallbackVectors` | the erase loops of parameters and brokers | pure operators on `Vectors` |
| `CciParam` | one parameter: values, lock, callbacks, fast paths | core |
| `ParamContract` | abstract: a value, a lock, one write under validation | refined by `CciParam` |
| `CciParamContract` | the refinement mapping | |
| `ConsumingBroker` | one broker: registry, presets, callbacks | |
| `PresetStore` | abstract: one preset per name, frozen when locked | refined by `ConsumingBroker`, and by every broker's view in `BrokerHierarchy` |
| `BrokerHierarchy` | several brokers, the manager, forwarding | composes brokers with the parameters' `reset` |
| `ParamHandles` | handles and the list a parameter keeps of them | |
| `WeakReferences` | abstract: a reference to a living object, or none | refined by `ParamHandles` |
| `VariantData` | the content of a variant value, and operators on it | pure operators |
| `VariantValues` | `cci_value` objects, the pool of cells, references into them | |
| `ValueStore` | abstract: objects that each hold a value of their own | refined by `VariantValues` |
| `CallbackObjects` | callback objects, their counts, adapters and handles | with the vector of one parameter that runs them |
| `ValueConverters` | pack and unpack of every family of types | |
| `ExampleScripts` | 22 example programs as scripts of library calls | |
| `ExamplePlatform` | the library as the examples use it, and a SystemC kernel | runs the scripts |
| `ExampleReports` | the examples' golden logs as facts, and the properties | |
| `MC*` | instances for TLC | |
| `*Proofs` | the TLAPS proofs | |

### CciParam

A step is the library code between two invocations of user code. `stack[p]`
holds the operations process `p` has begun and not ended, innermost first, each
a record with the callback it waits for; `oncall` are the tags, one per kind of
callback. `SetValue`, `SetRawValue`, `Reset`, `GetValue` and `GetRawValue` begin
an operation; `CallbackReturns`, `CallbackRejects` and `CallbackThrows` continue
or unwind the innermost one; `Lock`, `Unlock` and the registrations are steps of
their own, possible whenever user code runs, so also inside a callback.
`BeginWrite`, `Store`, `Denied`, `NextCallback`, `LastCallback` follow
`pre_write_callback` and `post_write_callback`. An error report throws or
returns according to the report handler; `ReportThrows` says which are possible.

Left out: handles (see `ParamHandles`), the description and metadata, the
destruction of a parameter during its own operation (undefined behaviour that
nothing in the library prevents), and the conversion of values from `cci_value`.
Callback verdicts are free: a callback may return, reject or throw.

### ConsumingBroker

`phase` says how far the parameter of each name has come. `AddParam` and
`RemoveParam` are the parts of the constructor and destructor inside the broker
before the first callback, `CallbackReturns` the rest. A create callback that
throws unwinds the constructor without `remove_param`: the name becomes
"orphaned", free to be used again while the registry still holds it. A destructor
does not let exceptions out (the program ends), so destroy callbacks do not
throw. Names are unique at a time, as `cci_gen_unique_name` makes them.

### BrokerHierarchy

Brokers are numbered in the order they are built. `Path` gives each module the
modules around it. `get_broker` is the walk of the manager; a broker takes as
its parent the nearest one registered when it is built, or none outside of the
modules. `Route(b, n)` is where a request for `n` made of `b` ends after
`sendToParent` has been asked at every broker on the way; `FoundAt` and
`get_param_handles` are the two lookups, which walk differently. Each broker's
own maps do what `ConsumingBroker` says, here without callbacks. A broker is
built and registered in one step or stays private; `expose` is filled when the
broker is built, as the examples do.

### ParamHandles

`Param` and `Handle` are addresses, so that an object may be made where another
one died. Create callbacks run while a parameter is "adding", destroy callbacks
while it is "removing", and both may make handles. `remove_param_handle` erases
every occurrence (`std::remove`), so the list is a set here. The originator a
handle carries is left out. When a create callback throws, the base class's
destructor asserts that no handle is left; the model takes the assertion as the
guard of `Unwound`. An assignment through an untyped reference to a typed handle,
which C++ allows and no code of the repository does, is left out.

### VariantValues

`own` is `own_pimpl_`: the cell an object has taken from the pool, or none while
it is null. A place is a cell or an element of the list or map in it; a reference
points to a place. What RapidJSON does inside a cell is external and taken as the
operators of `VariantData`. An operation that frees, shifts or may reallocate
elements makes the caller forget the references to them, as C++ containers
demand (`ForgetElements`); a swap or a move of contents lets references follow.
Left out: the move of a map entry's value, the move out of a string reference,
the swap of list and map references, `reserve` (no effect on the content), and
the assignment of its own element to a list, which RapidJSON leaves undefined.

### CallbackObjects

An implementation object has a signature, a count and, if it is an adapter, the
generic callback it wraps. `hold`, `vec` and `run` are all the pointers to it:
the program's callbacks and handles, the handles in the parameter's vector and
the local handle of each running invocation. `Invoke` copies the handle before
it calls, as the loops of `cci_param_typed` do; the callback that runs may copy,
unregister and destroy anything, itself included. An adapter's clone keeps one
reference to its functor that nobody releases (`callback_generic_adapt::clone`);
`excess` counts it, so that the counts can be stated exactly.

A typed handle inherits `swap` of `cci_callback_untyped_handle`, and its
`operator=` can be called through a reference to the base class; both take
handles of any signature. `AssignHandle` and
`SwapHandles` therefore relate any two handles, and a typed handle may end up
with an object of another signature. The history variable `unchecked` holds the
typed handles that took their content that way, or from such a handle;
`SignaturesMatch` is about all the others. The loop of a parameter makes a typed
handle of its own, with a comparison, so `RunningCallbackLives` holds whatever
was registered. The instance has one typed handle; what a second one copies from
an unchecked one is covered by the proof.

### ValueConverters

A relay: an object is packed, the value is read into an object of another type,
that one is packed again, without end. Integers have scaled-down widths, the
order of which is that of the real ones (`WidthsAreOrdered`); doubles have fewer
significant bits than the widest integers, and wide integers travel as decimal
strings where the code does so. Documents add values that no pack produces, such
as mixed lists. `Wrap` and `Round` are the conversions of C++ itself.

Half of `cci_value_converter.cpp` assigns a text to an object of SystemC's data
types, whose code is not in the repository. What is assumed of it:

* errors are reported, and reports of errors throw, as they do by default;
* `sc_int`, `sc_uint`, `sc_signed` and `sc_unsigned` convert a text before they
  assign: a text that is no number leaves them alone;
* `sc_bv` sets its bits from the lowest on and reports the first character that
  is no bit, so that the bits below it are those of the text; it does not read
  more characters than it has bits (`UnpackBits`, `DigitFor`);
* `sc_lv` does the same, but takes any other character as X without an error
  (`UnpackLogicVector`); both report an empty text first;
* `sc_fxval` takes a text that is no number as not-a-number without an error,
  `sc_fxval_fast` likewise (in a double, `Float`); `sc_fix` and `sc_ufix` hold the
  not-a-number and report it (`UnpackFx`);
* `sc_time::from_string` reports before it returns a time.

A text is a decimal numeral or no number in any notation: prefixes, exponents,
a leading plus sign and the names of infinity are left out. Fixed-point numbers
are whole, in as many bits as the widest integers; their fractions and
`sc_fix_fast`, `sc_ufix_fast` are not modelled.

### The examples

`ExampleScripts` gives each program the calls its modules make in constructors,
elaboration callbacks, threads and destructors, in program order. What a program
prints of the library's state becomes an observation in the log of its module;
wording is left out. `ExamplePlatform` executes one call per step with the
library's rules in small (the other modules treat the same rules in depth): the
checks and callbacks of a write, locks and passwords, presets, unique names,
private and exposed names, casts, predicates. The kernel runs one thread until
it waits, picks any thread that is due, and advances time when none is. An error
ends the program unless the call is in a `try` block or the program has turned
exceptions off. The callbacks a call invokes, and the calls they make, are
evaluated within its step: two callbacks that wrote each other without end would
not be a step at all, so `EveryProgramEnds` says nothing of them. Where the due
times of a program's threads never coincide (as in ex13, but for time zero), the
kernel leaves one schedule only.

## 3. The runs

| run | instance | what it shows |
|---|---|---|
| `param` | 1 process, pre- and post-write callbacks, 2 registered at a time, 2 values, 2 originators, a preset, passwords | the fast write is enabled only when a full write would do the same; no write escapes validators or observers; a rejection is final; the lock holds except for a write already under validation; the parameter implements `ParamContract` |
| `param_reads` | immutable, callbacks of all four kinds | the value stays an initial one, reads never skip read callbacks, each tag belongs to one operation |
| `param_procs` | 2 processes, 1 callback | each tag belongs to one operation under interleaving too, and every operation ends |
| `broker` | 2 names, 2 processes, 2 presets, 2 callbacks | registry, used presets and phases agree; the broker implements `PresetStore` |
| `handles` | 4 handles, 2 parameters, 2 types | lists and pointers agree, nothing dangles, typed handles fit, handles implement `WeakReferences` |
| `hierarchy` | 3 brokers over `Outside`, `top`, `leaf`, exposing the name or not | a parameter leaves the registry it entered, is found exactly from the brokers at or below the one holding it, both lookups agree, another broker hides nothing, and each broker is one store of presets |
| `values` | two `cci_value`s and a list, one reference, 3 cells, one key, elements up to 2 | each cell has one owner or is free, references that may be used find their element in a living object, objects implement `ValueStore` |
| `converters` | widths 2, 3, 4 and 6, doubles of 3 bits, char[3], T[2], 9 texts, 6 lists, 6 times, 10 documents | a number arrives unchanged if every type on its way can hold it, and otherwise in its low-order bits; every type reads back what it packed; failed unpacks change only what is written in place: char[], T[N], the bits of an sc_bv, and an sc_fix or sc_ufix, which becomes not-a-number |
| `callbacks` | a generic and two typed callbacks, an untyped and a typed handle, 4 addresses, 1 registered, 1 running | counts match pointers, a running callback lives and has the signature of its event, casts are right for callbacks and for the typed handles whose content was checked |
| `examples` | 22 programs, every schedule | every program ends with the reports of its `golden.log`, and tied parameters agree between calls |

The bounds. Two callbacks at a time are what the erase loops, the re-reading of
the vector's size and a verdict followed by another need; with one process no
operation nests deeper than one per kind of callback, since the tag stops the
next. Two processes are what it takes for a tag to be seen set by somebody else.
`MaxCallbacks` also hides a callback that registers another one for ever. In the
hierarchy all maps are keyed by name, so one name is enough, with all ways of
exposing it; three brokers make a chain with a middle, and two below one parent.
Four handles allow a list of two, one elsewhere and a temporary. In `values`
one reference is enough, since no operation relates two of them, and two
elements are what an insertion, an erasure and a shift need; three objects allow
a swap or a move beside a bystander that must not change. In `converters` each
width is the smallest that keeps the order of the real ones with numbers between
any two. Four addresses hold a functor, its clone, an adapter and the adapter's
clone. The examples are finite programs (some threads loop until `sc_start`
returns) and need no bound. The names and processes of `broker`, the addresses
and types of `handles`, the values of `hierarchy`, the cells and alike objects of
`values` and `callbacks` are interchangeable and declared symmetric; the runs of
`CciParam` use no symmetry, nor does any run with a liveness property.

Fairness. In `param_procs`, `Fairness` asks that a callback of each kind
returns, with either verdict, if it is given the chance again and again; it is
strong because other processes and nested calls may intervene. It is an
assumption on the user's callbacks, not on the scheduler alone: a process that
waits inside a callback is resumed by the SystemC kernel, and callbacks that
loop for ever are the user's. Nothing requires that an operation be started.
Errors do not throw in this run; throwing would only end operations sooner.
In `examples`, weak fairness of the whole next-state relation says only that the
simulator does not stop by itself: which thread runs is left open, and no thread
needs more than to be picked when nothing else is due. Deadlock is checked
everywhere but there, where a program that has ended does nothing more.

`ValidatedOldIsCurrent` is checked with one process only: with two it is false,
since a post-write that ends after the callbacks were removed lets another write
in; no document promises otherwise.

### Where the code and its documentation differ

Two runs find a behaviour of the code against one documented line (`findings` in
`PROJECT.json` quotes it):

* `param_unregister`: `unregister_all_callbacks` skips the neighbour of each
  callback it erases.
* `hierarchy_reset`: `get_preset_value_origin` is not forwarded for exposed
  names, so `reset()` gives the value the unknown originator.

Reachable in the models, without a run of their own:

* a write under validation lands after a callback locked the parameter
  (`cci_param_typed.h:653`; `cci_param_untyped.h:482` says lock "Makes a
  parameter read-only"). `LockKeepsValue` states what the lock does hold.
* `reset()` to a preset leaves `fast_write` set, so the owner's next write keeps
  the preset's originator (`cci_param_typed.h:966`, against the comment at 679).
* a write nested in a validation is dropped without a report
  (`cci_param_typed.h:458`; `cci_param_if.h:74` promises one).
* a create callback that throws leaves a dead parameter in the registry, and the
  next parameter of the name trips the assertion at `consuming_broker.cpp:311`.
* the clone of an adapter holds a reference to its functor that nobody releases
  (`cci_callback_impl.h:224`): the functor is never deleted, although
  `cci_callback.h` ends its life with the last handle.
* a typed callback handle takes a callback of any signature through the `swap`
  it inherits (`cci_callback.h:212`), or through `operator=` of a reference to its
  base (line 204), and `invoke` then casts the object to a class it is not (line 390), although the class hides
  other inherited members as "untyped/templated overloads" (line 323) and makes
  a handle of another signature invalid when it converts one (line 340).
  `SignaturesMatch` states what remains right.

Seen while modelling: `reset()` to a preset returns true even if
a callback rejected it (`cci_param_typed.h:966`); `lock(pwd)` on a parameter
locked without a password returns false although `cci_param_untyped.h:489` says
it may be locked anew; a preset set after its parameter was constructed is
reported as unconsumed (`cci_broker_if.h:116` defines unconsumed as "no
parameter is ever created"); `lock_preset_value` locks names that have no preset
and never throws (`cci_broker_if.h:168`); `init` applies the preset before it
registers the parameter (`cci_param_if.h:281` says after); `broker` drops the
originator in `get_cci_value` and in the parent part of `get_param_handles`;
a broker invokes create and destroy callbacks through its own vector, which the
callback may change (`consuming_broker.cpp:321`), while parameters copy the
handle first; ex15 tests `memory_size < (1 << lines) - 1` where
`sc_main` announces `x <= 2^n - 1` (`ex15_processor.h:153`).

## 4. The proofs

All are checked by TLAPS for every value of the constants that satisfies the
modules' named assumptions (which TLC evaluates on each run): any numbers of
processes, values, callbacks, names, brokers, handles, objects and cells.

| module | theorems | argument |
|---|---|---|
| `CallbackVectorProofs` | lemmas only: what erasing from a vector returns | `KeepAt` picks an element for each rank (`RankExists`, by counting the chosen indices up to each position), so it yields a sequence of entries; `LeastExists` and the facts on heads and tails serve the other modules too |
| `CciParamProofs` | `TypeCorrect`, `FastWriteIsSound`, `FastReadIsSound`, `OncallIsExact`, `ImmutableIsInitial`, `NoWriteIsUnchecked`, `LockHoldsValue`, `NoWriteIsSilent`, `RejectionStands`, `ValidatedOldStaysCurrent`, `KeepsContract` | the first three from `IInv` = types and both flags: every step that touches what a flag depends on clears or recomputes it; the registrations need that the erase loops return sequences of entries and empty vectors stay empty; one lemma per operation. For the others every action is shown once to be one of a few shapes of step (an operation is pushed, turned into its next part or popped, with or without a store; the owner's fast store; a step that writes nothing), and each property is proved of the shapes |
| `ConsumingBrokerProofs` | `PresetsAreSingle`, `BrokerImplementsPresetStore`, `RegistryStaysLive`, `UsedHaveParams`, `BrokerIsTyped` | `SInv` = types of the maps and `PresetIsSingle`; moving a preset between the registries then leaves `PresetOf` alone (`TakeMoves`, `GiveBackMoves`), so every step but a set or a lock is a stutter of the store. `LInv` adds that a frame in progress is in the phase of its name and that no two frames share one |
| `BrokerHierarchyProofs` | `PresetsAreUsedWhereRegistered`, `ParamsAreWhereRouted`, `LookupIsScoped`, `ListingIsLookup`, `RegisteringHidesNothing`, `BrokersAreStores`, `HierarchyIsTyped` | below |
| `ParamHandlesProofs` | `HandlesAreTyped`, `LinksAgree`, `HandlesNeverDangle`, `TypedHandlesAlwaysFit`, `HandlesAreWeakReferences` | `HInv` is the conjunction of the four invariants; invalidation reaches every handle because of `BackLinks`, and an address may be reused only because no handle dangles |
| `VariantValuesProofs` | `OwnersAreUnique`, `ReferencesPointAtLiveCells`, `ObjectsAreValues`, `ValuesAreTyped` | below |
| `CallbackObjectsProofs` | `CountsAreExact`, `RunningOnesLive`, `SignaturesHold`, `CallbacksAreTyped` | below |
| `ValueConverterProofs` | `ConvertersKeepTypes`, `NumbersArrive`, `PackedValuesComeBack`, `FailuresKeepTheDestination` | below |

The parameter. `OncallIsOneFrame` is inductive with the types: a push needs the
tag clear, a turn or a pop gives back the tag of the frame it ends.
`ImmutableHoldsInitial` is not: it needs that every write in progress was allowed
to begin (`FramesRightful`), so that an immutable parameter has only resets under
way, with the preset or the default as their value. `ValidatedOldStaysCurrent`
and `KeepsContract` have the hypothesis `OneProcess`, that no two processes call
the parameter: while one process is held in its validation another one may write
once the validators are unregistered, and TLC finds both properties false then.
With one process the write under validation is nested inside every operation that
is notifying observers, so none of those can end and enable the fast write before
it, and any other write meanwhile is dropped (`OneInv`).

The hierarchy. `Route`, `FoundAt`, `Above` and `get_param_handles` are recursive
functions over broker numbers. What they return is proved by induction written as
a least counterexample: the set of brokers for which the fact fails has a least
element (`BrokerInduction`), whose parent was built earlier and so is not in it.
`TInv` says that a parent is an earlier broker and `RInv` adds `RegisteredAtRoute`,
which is inductive since brokers are only added and the walks of earlier ones stay
the same. `RegisteringHidesNothing` needs that a broker registered in front of
another has that one as its parent, hence the assumption `PathsNest`: the modules
around a module's parent are those around the module itself, without it.
`BrokersAreStores` follows each operation to the one broker where it is carried
out: every other broker's view either ends there as well, and changes with it, or
ends elsewhere and stays.

Values. `OInv` = the shape of `own` and `free` and `CellsHaveOneOwner`: an object
opens a cell only from `free`, and every operation that makes it lose one gives it
back or hands it over, never both. `RefsAreLive` needs more (`LInv`): cells hold
data, a list or map object always has a cell of its kind, free cells are null, and
every reference in use points at a cell in use and at a position that exists
(`LiveRefs`). With `LInv` every step is shown to be one of `ValueStore`: a write
changes a cell and a cell has one owner, and a move, a swap or a `push_back` of a
moved value is a hand-over of a value the source held, as a whole or as an
element. `AbsentIsNoData` tells an object that does not exist from one that is null.

Callback objects. `CInv` says that the count of an object is the number of
pointers to it, of adapters that wrap it and of references a clone never releases
(a cardinality, so the addresses are assumed finite), that an address without an
object has none, that adapters wrap functors that exist, and that callbacks,
running invocations and the typed handles that took nothing unchecked
(`unchecked` grows with every other way to fill one) have objects of their
signature. Each heap operator is
shown to keep heap and pointers in agreement (`Agrees`), then each action is a
few of them in a row, with pointers that no variable holds in between.

Converters. The theorems hold for every choice of the widths in the order of the
real ones, for every set of texts, lists and times of the program
(`ProgramsContents`) and for all documents made of values (`DocumentsAreValues`).
Three recursive functions had to be reasoned about: the figures of a number, the
number of a numeral and the power of two. Powers are proved by counting the
subsets of an interval; the other two by `NumberInduction`, again as a least
counterexample, on a lemma that says what a function defined by recursion on an
interval returns (`RecursionExists`). `NumeralIsRead` then says that reading the
figures of a number gives the number. `Wrap` keeps a number modulo the width and is the
identity on those that fit (`Same`), and `Round` is the identity on numbers with
no more significant bits than the type, hence on its own results and on those of
a narrower type.

`Typed` is inductive by itself: an object has content of its own type and a value
that was packed is `Pack` of that object, so `RoundTrips` is a fact about `Pack`
and `Unpack` of every content of a type and `FailureKeepsDestination` one about
every failing `Unpack`. An `sc_fix` or `sc_ufix` that was left not-a-number is
excluded from `RoundTrips`: reading it back throws. `NumbersSurvive` needs `Survives`: besides the congruence
it says that as long as low-order bits are promised the object in hand is a
number at all, and that "fits" is only recorded of a number. A step from one
type to the next is split into what a value carries (`PackCarries`) and what a
type makes of a value that carries a number (`UnpackCarries`): it arrives
unchanged if the type can hold it, else in as many low-order bits as the type has.

Type correctness (`TypeOK`) of the broker, the hierarchy, the callback objects and
the variant values follows from these invariants with few additions: what the
erase loops return, the bounds on registered and running callbacks, and that the
broker a value's originator is read from exists. It is proved only; the runs
spend their properties on what could more easily be wrong.

Only model-checked: liveness (`EveryCallEnds`, `EveryProgramEnds`), which these
provers do not do; and the examples (`LogsAreGolden`, `TiedParamsAgree`), finite
programs whose schedules the model checker visits in full.

## 5. Not modelled, and the plan

Modelled so far: the parameter, one broker, handles, the hierarchy and the
manager, variant values, callback objects, converters and the examples.

Two limits of the properties. `LockKeepsValue` exempts the write that was under
validation when the lock was taken, since the code lets it land (section 3).
`ParamContract` says who may replace a lock's key, but leaves it open who may
release the lock: the key presented is not part of the state, and the test of
`unlock` is a guard of the action `Unlock`.

Not modelled yet, in this order:

1. `Originators`: owned strings through copy, move and swap, and the promotion of
   originators in handles. Everywhere else originators are opaque values.
2. `UniqueNames`: the release of names, composed with the "orphaned" parameters of
   `ConsumingBroker`; `ExamplePlatform` has the generation only.
3. Filtered ranges backwards and the validity of their iterators; the decoding of
   exceptions in the report handler.
4. Compositions: `CciParam` with `ConsumingBroker` (presets that change between
   a parameter's construction and `reset`, create callbacks that reset), with a
   broker whose `expose` changes.

Not planned: the RapidJSON bridge and the JSON text format; ex09, most of which is
TLM transport between an initiator, a router and targets; the build files; and
the end of brokers (the manager keeps a pointer to a registered broker for ever,
and no program of the repository destroys one before the simulation ends).

## 6. Running

`tlc -config MCParam.cfg MCCciParam` and the like, one configuration per run of
`PROJECT.json`; `tlapm CciParamProofs.tla` and the like for the proofs.
