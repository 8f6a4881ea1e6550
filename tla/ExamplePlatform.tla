-------------------------- MODULE ExamplePlatform --------------------------
(***************************************************************************)
(* The programs of ExampleScripts run on the library and a SystemC kernel. *)
(*                                                                         *)
(* "world" is the library's state and what has been reported so far: the   *)
(* parameters, the presets, the handles and one log per module.  A step    *)
(* executes one call of sc_main or of the thread that is running.  Threads *)
(* are co-operative: one runs until it waits, then the kernel picks any    *)
(* thread that is due; time advances when none is.                         *)
(***************************************************************************)
EXTENDS ExampleScripts, FiniteSets, TLC

VARIABLES program, phase, pc, now, wake, running, world
vars == <<program, phase, pc, now, wake, running, world>>

Roles == {"main", "owner", "cfgr", "observer", "child"}
(* the key lock() and unlock() use without a password *)
OwnKey == -1

-----------------------------------------------------------------------------
(* What a name or a handle denotes *)
NameOf(w, x) == IF x \in DOMAIN w.handles THEN w.handles[x].name ELSE x
Live(w, x) == /\ NameOf(w, x) \in DOMAIN w.params
              /\ x \in DOMAIN w.handles =>
                    w.handles[x].id = w.params[NameOf(w, x)].id
(* whose originator a call through x carries *)
By(w, x) == IF x \in DOMAIN w.handles THEN w.handles[x].by ELSE w.params[x].owner
Visible(w, who) == {p \in DOMAIN w.params :
    w.params[p].at = "global" \/ w.broker[who] = "private"}
Remember(f, k, v) == [j \in DOMAIN f \cup {k} |-> IF j = k THEN v ELSE f[j]]
Say(w, who, entry) == [w EXCEPT !.log[who] = Append(@, entry)]
Fail(w) == [w EXCEPT !.failed = TRUE]

IsPresetValue(w, p) == p \in DOMAIN w.presets /\ w.presets[p].value = w.params[p].value
IsDefaultValue(w, p) == w.params[p].value = w.params[p].default
Details(w, p) == <<"track", p, w.params[p].value, w.params[p].lock # 0,
                   IsDefaultValue(w, p), IsPresetValue(w, p), w.params[p].origin>>
HooksOf(w, p, kind) == SelectSeq(w.params[p].hooks, LAMBDA k : k.kind = kind)
LogHooks(w, p, kind, entry) ==
    FoldLeft(LAMBDA u, k : Say(u, k.role, entry), w, HooksOf(w, p, kind))

(* ex15: the verdict on the two parameters; "check" is a static variable *)
TestCondition(w, who) ==
    LET ok == Ex15Addresses(w.params["lines"].value, w.params["mem_size"].value)
        verdict == IF ~ok THEN "cannot" ELSE IF w.check THEN "now" ELSE "proceed"
    IN  [Say(w, who, <<"test", verdict>>) EXCEPT !.check = ~ok]

RECURSIVE Store(_, _, _, _)
(* handle.set_cci_value, parameter.set_value: checks, then the write *)
SetValue(w, x, v, key) ==
    IF \/ ~Live(w, x)
       \/ ~w.params[NameOf(w, x)].mutable
       \/ key = 0 /\ w.params[NameOf(w, x)].lock # 0
       \/ key # 0 /\ w.params[NameOf(w, x)].lock # key
    THEN Fail(w)
    ELSE Store(w, NameOf(w, x), v, By(w, x))

(* what a post-write callback of an example does *)
CallHook(w, k, p, old, v, by) ==
    CASE w.failed -> w
      [] k.does = "log" -> Say(w, k.role, <<"post_write", p, old, v, by>>)
      [] k.does = "sync" ->
           SetValue(Say(w, k.role, <<"sync", p, v>>), k.to, (v * k.num) \div k.den, 0)
      [] k.does = "forward" -> Say(SetValue(w, k.to, v, 0), k.role, <<"forward", p, v>>)
      [] k.does = "test" -> TestCondition(w, k.role)
      [] k.does = "track" -> Say(w, k.role, Details(w, p))

(* pre-write callbacks, the assignment, post-write callbacks; a write from *)
(* inside the parameter's own post-write callbacks does not call them      *)
Store(w, p, v, by) ==
    LET old == w.params[p].value
        asked == LogHooks(w, p, "pre_write", <<"pre_write", p, old, v, by>>)
        stored == [asked EXCEPT !.params[p].value = v, !.params[p].origin = by]
        called == FoldLeft(LAMBDA u, k : CallHook(u, k, p, old, v, by),
                           [stored EXCEPT !.busy = @ \cup {p}],
                           HooksOf(w, p, "post_write"))
    IN  CASE \E k \in Range(HooksOf(w, p, "pre_write")) : k.does = "reject" -> Fail(asked)
          [] p \in w.busy -> stored
          [] OTHER -> [called EXCEPT !.busy = w.busy]

(* Mutant: reset() forgets the preset value *)
ResetValueToDefault(w, p) ==
    IF w.params[p].lock # 0 THEN w ELSE Store(w, p, w.params[p].default, w.params[p].owner)
(* reset(): the preset value if there is one, else the default *)
ResetValue(w, p) ==
    CASE w.params[p].lock # 0 -> w
      [] p \in DOMAIN w.presets -> Store(w, p, w.presets[p].value, w.presets[p].by)
      [] OTHER -> Store(w, p, w.params[p].default, w.params[p].owner)

GetValue(w, who, x) ==
    LET p == NameOf(w, x)
        v == w.params[p].value
        before == LogHooks(w, p, "pre_read", <<"pre_read", p, v, By(w, x)>>)
        after == LogHooks(before, p, "post_read", <<"post_read", p, v, By(w, x)>>)
    IN  IF ~Live(w, x) THEN Fail(w) ELSE Say(after, who, <<"value", v>>)

(* lock(pwd) and unlock(pwd): they answer false instead of failing *)
LockValue(w, p, key) ==
    IF w.params[p].lock \in {0, key} THEN [w EXCEPT !.params[p].lock = key] ELSE w
(* Mutant: a password does not open the lock it closed *)
UnlockValueOwnOnly(w, p, key) ==
    IF key = OwnKey /\ w.params[p].lock = key THEN [w EXCEPT !.params[p].lock = 0] ELSE w
UnlockValue(w, p, key) ==
    IF w.params[p].lock = key THEN [w EXCEPT !.params[p].lock = 0] ELSE w

(* the name itself if it is free, else the first free one of name_0, ... *)
UniqueName(w, name) ==
    LET taken == w.reserved \cup DOMAIN w.params
        nth(i) == name \o "_" \o ToString(i)
        i == CHOOSE n \in 0 .. Cardinality(taken) :
                nth(n) \notin taken /\ \A m \in 0 .. n - 1 : nth(m) \in taken
    IN  IF name \notin taken THEN name ELSE nth(i)

(* the constructor: a unique name, the preset value, the create callbacks *)
Hooked(role) == [i \in 1 .. 3 |->
    [kind |-> <<"pre_read", "pre_write", "post_write">>[i], does |-> "log",
     to |-> "", num |-> 1, den |-> 1, role |-> role]]
Construct(w, who, name, default, mutable) ==
    LET p == UniqueName(w, name)
        ispreset == p \in DOMAIN w.presets
        value == IF ispreset THEN w.presets[p].value ELSE default
        param == [id |-> w.births + 1, value |-> value, default |-> default,
                  mutable |-> mutable, lock |-> 0, owner |-> who,
                  origin |-> IF ispreset THEN w.presets[p].by ELSE who,
                  hooks |-> IF w.observer = "none" THEN <<>> ELSE Hooked(w.observer),
                  at |-> IF p \in w.expose THEN "global" ELSE w.broker[who]]
        made == [w EXCEPT !.params = Remember(@, p, param), !.births = @ + 1,
                          !.used = @ \cup (IF ispreset THEN {p} ELSE {})]
    IN  IF w.observer = "none" THEN made
        ELSE Say(made, w.observer, <<"created", p, value>>)
Destruct(w, p) == [w EXCEPT !.params = [n \in DOMAIN @ \ {p} |-> @[n]]]

GetParamHandle(w, who, h, name) == [w EXCEPT !.handles = Remember(@, h,
    [name |-> name, by |-> who,
     id |-> IF name \in Visible(w, who) THEN w.params[name].id ELSE 0])]
(* a typed handle is valid if the type is the parameter's, in ex02 its name *)
CastHandle(w, h, of, type) == [w EXCEPT !.handles = Remember(@, h,
    [w.handles[of] EXCEPT !.id = IF w.handles[of].name = type THEN @ ELSE 0])]
SetPreset(w, who, name, v) == [w EXCEPT !.presets = Remember(@, name, [value |-> v, by |-> who])]
UnconsumedPresets(w, vs) ==
    {p \in DOMAIN w.presets \ (w.used \cup w.ignored) : w.presets[p].value \in vs}
Selected(w, who, which) == {p \in Visible(w, who) : Satisfies(which, p, w.params[p].value)}
SetSelected(w, who, which, v) ==
    FoldLeft(LAMBDA u, p : SetValue(u, p, v, 0), w, SetToSeq(Selected(w, who, which)))

-----------------------------------------------------------------------------
(* One call c of module who *)
KeyOf(c) == IF c.key = 0 THEN OwnKey ELSE c.key
Holds(w, c) ==
    CASE c.when = "always" -> TRUE
      [] c.when = "valid" -> Live(w, c.x)
      [] c.when = "invalid" -> ~Live(w, c.x)
      [] c.when = "unlocked" -> w.params[NameOf(w, c.x)].lock = 0
      [] c.when = "preset" -> IsPresetValue(w, NameOf(w, c.x))

Asks(w, who, c) ==
    LET p == NameOf(w, c.x)
    IN  CASE c.op = "status" -> <<"status", w.params[p].lock # 0, w.params[p].value>>
          [] c.op = "is_valid" -> <<"valid", Live(w, c.x)>>
          [] c.op = "is_default" -> <<"default", IsDefaultValue(w, p)>>
          [] c.op = "is_preset" -> <<"preset", IsPresetValue(w, p)>>
          [] c.op = "category" -> <<"integral", Satisfies("integral", p, 0)>>
          [] c.op = "origin" -> <<"origin", w.params[p].origin>>
          [] c.op = "track" -> Details(w, p)
          [] c.op = "unconsumed" -> <<"unconsumed", UnconsumedPresets(w, c.v)>>
          [] c.op = "show_list" -> <<"list", {q \in w.lists[who] : q \in DOMAIN w.params}>>
          [] c.op = "list_values" ->
               <<"values", {<<q, w.params[q].value>> : q \in Selected(w, who, c.v)}>>

Changes(w, who, c) ==
    LET p == NameOf(w, c.x)
    IN  CASE c.op = "create" -> Construct(w, who, c.x, c.v, TRUE)
          [] c.op = "create_immutable" -> Construct(w, who, c.x, c.v, FALSE)
          [] c.op = "delete" -> Destruct(w, c.x)
          [] c.op = "handle" -> GetParamHandle(w, who, c.x, c.v)
          [] c.op = "get" -> GetValue(w, who, c.x)
          [] c.op = "set" -> SetValue(w, c.x, c.v, c.key)
          [] c.op = "reset" -> ResetValue(w, p)
          [] c.op = "lock" -> LockValue(w, p, KeyOf(c))
          [] c.op = "unlock" -> UnlockValue(w, p, KeyOf(c))
          [] c.op \in {"preset", "preset_of"} -> SetPreset(w, who, p, c.v)
          [] c.op = "reserve" -> [w EXCEPT !.reserved = @ \cup {c.x}]
          [] c.op = "ignore" -> [w EXCEPT !.ignored = @ \cup c.v]
          [] c.op = "take_list" -> [w EXCEPT !.lists[who] = Visible(w, who)]
          [] c.op = "cast" -> CastHandle(w, c.x, c.v.of, c.v.type)
          [] c.op = "set_all" -> SetSelected(w, who, c.x, c.v)
          [] c.op = "hook" -> [w EXCEPT !.params[p].hooks =
                 Append(@, [kind |-> c.v.kind, does |-> c.v.does, to |-> c.v.to,
                            num |-> c.v.num, den |-> c.v.den, role |-> who])]
          [] c.op = "copy" -> SetValue(w, c.v.to, (w.params[p].value * c.v.num) \div c.v.den, 0)
          [] c.op = "test" -> TestCondition(w, who)
          [] c.op = "on_create" -> [w EXCEPT !.observer = who]
          [] OTHER -> Say(w, who, Asks(w, who, c))

Execute(w, who, c) == IF Holds(w, c) THEN Changes(w, who, c) ELSE w

-----------------------------------------------------------------------------
(* sc_main: set-up, constructors, elaboration callbacks; after sc_start    *)
(* its last calls and the destructors, in reverse                          *)
Tagged(role, calls) == [i \in DOMAIN calls |-> <<role, calls[i]>>]
Concat(f(_), mods) == FlattenSeq([i \in DOMAIN mods |-> Tagged(mods[i].role, f(mods[i]))])
Elaboration(e) ==
    Tagged("main", e.setup) \o Concat(LAMBDA m : m.ctor, e.modules) \o Tagged("main", e.late)
    \o Concat(LAMBDA m : m.beoe, e.modules) \o Concat(LAMBDA m : m.eoe, e.modules)
Finish(e) == Tagged("main", e.finish) \o Concat(LAMBDA m : m.dtor, Reverse(e.modules))

Example == Programs[program]
ModuleOf(role) == LET ms == Example.modules
                  IN  ms[CHOOSE i \in DOMAIN ms : ms[i].role = role]
Threads == {m.role : m \in {n \in Range(Example.modules) : n.run # <<>>}}
(* a thread that has returned is never due again *)
Ended == Forever + 1

Init ==
    /\ \E e \in DOMAIN Programs :
         /\ program = e
         /\ world = [params |-> <<>>, presets |-> <<>>, used |-> {}, ignored |-> {},
                     handles |-> <<>>, births |-> 0, reserved |-> {}, busy |-> {},
                     lists |-> [r \in Roles |-> {}], check |-> FALSE, observer |-> "none",
                     log |-> [r \in Roles |-> <<>>], failed |-> FALSE,
                     expose |-> Programs[e].expose,
                     broker |-> [r \in Roles |->
                        IF \E m \in Range(Programs[e].modules) :
                              m.role = r /\ m.broker = "private"
                        THEN "private" ELSE "global"]]
    /\ phase = "elaboration" /\ running = "main" /\ now = 0
    /\ pc = [r \in Roles |-> 1] /\ wake = [r \in Roles |-> 0]

(* the calls that are left to whoever runs *)
Script == CASE running # "main" -> ModuleOf(running).run
            [] phase = "elaboration" -> Elaboration(Example)
            [] OTHER -> Finish(Example)
Here == IF running = "main" THEN Script[pc["main"]] ELSE <<running, Script[pc[running]]>>
More == running # "none" /\ phase \notin {"done", "aborted"} /\ pc[running] <= Len(Script)

(* An error report throws, unless the program has turned that off; only a  *)
(* try block of the caller stops the exception                             *)
Step ==
    /\ More /\ Here[2].op # "wait"
    /\ LET w == Execute(world, Here[1], Here[2])
           caught == Here[2].try \/ Example.tolerant
       IN  /\ world' = [w EXCEPT !.failed = FALSE]
           /\ phase' = IF w.failed /\ ~caught THEN "aborted" ELSE phase
    /\ pc' = [pc EXCEPT ![running] = @ + 1]
    /\ UNCHANGED <<program, now, wake, running>>

WaitFor ==
    /\ More /\ Here[2].op = "wait"
    /\ wake' = [wake EXCEPT ![running] = now + Here[2].v]
    /\ pc' = [pc EXCEPT ![running] = @ + 1]
    /\ running' = "none"
    /\ UNCHANGED <<program, phase, now, world>>

(* the thread function returns, or its while(1) starts over *)
Return ==
    /\ phase = "simulation" /\ running \in Threads /\ ~More
    /\ IF ModuleOf(running).loop
       THEN pc' = [pc EXCEPT ![running] = 1] /\ UNCHANGED <<running, wake>>
       ELSE running' = "none" /\ wake' = [wake EXCEPT ![running] = Ended] /\ UNCHANGED pc
    /\ UNCHANGED <<program, phase, now, world>>

Due == {t \in Threads : wake[t] = now}
Start ==
    /\ phase = "elaboration" /\ ~More
    /\ phase' = "simulation" /\ running' = "none"
    /\ UNCHANGED <<program, pc, now, wake, world>>
Dispatch ==
    /\ phase = "simulation" /\ running = "none"
    /\ \E t \in Due : running' = t
    /\ UNCHANGED <<program, phase, pc, now, wake, world>>
(* time goes to the next thread that is due before sc_start returns *)
Later == {wake[t] : t \in Threads} \cap (now + 1) .. (Example.stop - 1)
Advance ==
    /\ phase = "simulation" /\ running = "none" /\ Due = {} /\ Later # {}
    /\ now' = CHOOSE t \in Later : \A u \in Later : t <= u
    /\ UNCHANGED <<program, phase, pc, wake, running, world>>
Stop ==
    /\ phase = "simulation" /\ running = "none" /\ Due = {} /\ Later = {}
    /\ phase' = "finish" /\ running' = "main" /\ pc' = [pc EXCEPT !["main"] = 1]
    /\ UNCHANGED <<program, now, wake, world>>
Exit ==
    /\ phase = "finish" /\ ~More
    /\ phase' = "done"
    /\ UNCHANGED <<program, pc, now, wake, running, world>>

Next == Step \/ WaitFor \/ Return \/ Start \/ Dispatch \/ Advance \/ Stop \/ Exit
Spec == Init /\ [][Next]_vars /\ WF_vars(Next)
=============================================================================
