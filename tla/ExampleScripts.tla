--------------------------- MODULE ExampleScripts ---------------------------
(***************************************************************************)
(* The example programs of examples/cci as scripts of library calls.       *)
(*                                                                         *)
(* An example is an sc_main that instantiates a few SC_MODULEs: the owner  *)
(* of some parameters, a configurator that reaches them through broker     *)
(* handles, sometimes an observer.  A module contributes the calls its     *)
(* constructor, its elaboration callbacks, its thread and its destructor   *)
(* make, in program order; reports are left out, except that what a report *)
(* prints of the library's state is an observation (Get, Status, ...).     *)
(* Parameter names drop the module path where that is unambiguous, string  *)
(* values are numbered, and reals are written in thousandths.              *)
(***************************************************************************)
EXTENDS Integers, Sequences, SequencesExt

(* One call: "op" on the parameter or handle x with argument v, a password *)
(* key (0: none), executed if "when" holds of x, inside a try block or not *)
Call(o, x, v) == [op |-> o, x |-> x, v |-> v, key |-> 0,
                  when |-> "always", try |-> FALSE]
When(g, c) == [c EXCEPT !.when = g]
Try(c) == [c EXCEPT !.try = TRUE]
WithKey(k, c) == [c EXCEPT !.key = k]

Create(p, d) == Call("create", p, d)
CreateImmutable(p, d) == Call("create_immutable", p, d)
Delete(p) == Call("delete", p, 0)
Handle(h, p) == Call("handle", h, p)
Set(x, v) == Call("set", x, v)
Reset(x) == Call("reset", x, 0)
Lock(x) == Call("lock", x, 0)
Unlock(x) == Call("unlock", x, 0)
Get(x) == Call("get", x, 0)
Status(x) == Call("status", x, 0)
IsValid(x) == Call("is_valid", x, 0)
IsDefault(x) == Call("is_default", x, 0)
IsPreset(x) == Call("is_preset", x, 0)
Origin(x) == Call("origin", x, 0)
Track(x) == Call("track", x, 0)
Preset(p, v) == Call("preset", p, v)
Unconsumed(vs) == Call("unconsumed", "", vs)
Ignore(ps) == Call("ignore", "", ps)
TakeList == Call("take_list", "", 0)
ShowList == Call("show_list", "", 0)
ListValues(which) == Call("list_values", "", which)
SetAll(which, v) == Call("set_all", which, v)
Wait(t) == Call("wait", "", t)
Hook(x, kind, does) == Call("hook", x,
    [kind |-> kind, does |-> does, to |-> "", num |-> 1, den |-> 1])
Link(x, to, num, den) == Call("hook", x,
    [kind |-> "post_write", does |-> "sync", to |-> to, num |-> num, den |-> den])
Forward(x, to) == Call("hook", x,
    [kind |-> "post_write", does |-> "forward", to |-> to, num |-> 1, den |-> 1])
Cast(h, of, type) == Call("cast", h, [of |-> of, type |-> type])
OnCreate == Call("on_create", "", 0)

(* A module that does nothing: the examples fill in the parts they have *)
Module(role) == [role |-> role, broker |-> "global", ctor |-> <<>>,
                 beoe |-> <<>>, eoe |-> <<>>, run |-> <<>>,
                 loop |-> FALSE, dtor |-> <<>>]

(* A program: what sc_main does before it builds its modules, the modules  *)
(* in construction order, what it does before and after sc_start, when the *)
(* simulation is stopped, whether a failing set only logs an error, and    *)
(* the names a private broker exposes                                      *)
Forever == 1000
Program(modules) == [setup |-> <<>>, modules |-> modules, late |-> <<>>,
                     finish |-> <<>>, stop |-> Forever, tolerant |-> FALSE,
                     expose |-> {}]

(***************************************************************************)
(* ex01: a parameter set by its owner and by a configurator.               *)
(***************************************************************************)
Ex01SimpleIp == [Module("owner") EXCEPT
    !.ctor = <<Create("int_param", 0), Get("int_param")>>,
    !.run  = <<Wait(10), Set("int_param", 1), Get("int_param")>>,
    !.dtor = <<Get("int_param")>>]
Ex01ConfigIp == [Module("cfgr") EXCEPT
    !.run = <<Wait(20), Handle("h", "int_param"),
              When("valid", Set("h", 2)), When("valid", Get("h"))>>]
Ex01 == Program(<<Ex01SimpleIp, Ex01ConfigIp>>)

(***************************************************************************)
(* ex02: parameters of the basic types, here named for their type, and     *)
(* untyped handles cast to typed ones.                                     *)
(***************************************************************************)
Ex02Types == <<"bool", "char", "uchar", "int", "uint", "int16", "int64", "float", "double",
               "string">>
Ex02Default == <<1, 65000, 85000, -1000, 2000000000, 4660000, 2000000001, 3140, 2714, 7>>
Ex02SimpleIp == [Module("owner") EXCEPT
    !.ctor = [i \in DOMAIN Ex02Types |-> Create(Ex02Types[i], Ex02Default[i])]
             \o [i \in DOMAIN Ex02Types |-> Get(Ex02Types[i])],
    !.run  = <<Wait(20)>>]
Ex02ConfigIp == [Module("cfgr") EXCEPT
    !.run = <<Wait(10), Handle("h", "int"), When("valid", Call("category", "h", 0)),
              Cast("hi", "h", "int"), IsValid("hi"), When("valid", Get("hi")),
              Cast("hu", "h", "uint"), IsValid("hu"), When("valid", Get("hu")),
              Cast("hs", "h", "string"), IsValid("hs"), When("valid", Get("hs"))>>]
Ex02 == Program(<<Ex02SimpleIp, Ex02ConfigIp>>)

(***************************************************************************)
(* ex03: a parameter that its owner locks at the end of elaboration.       *)
(***************************************************************************)
Ex03SimpleIp == [Module("owner") EXCEPT
    !.ctor = <<Create("struc_param", 0), Get("struc_param")>>,
    !.beoe = <<Set("struc_param", 1), Get("struc_param")>>,
    !.eoe  = <<Lock("struc_param")>>,
    !.run  = <<Wait(10), Set("struc_param", 2), Get("struc_param")>>,
    !.dtor = <<Get("struc_param")>>]
Ex03ConfigIp == [Module("cfgr") EXCEPT
    !.run = <<Wait(20), Handle("h", "struc_param"),
              When("valid", Set("h", 3)), When("valid", Get("h"))>>]
Ex03 == [Program(<<Ex03SimpleIp, Ex03ConfigIp>>) EXCEPT !.tolerant = TRUE]

(***************************************************************************)
(* ex04: immutable parameters, one of them with a preset value.            *)
(***************************************************************************)
Ex04ConfigIp == [Module("cfgr") EXCEPT
    !.ctor = <<Handle("h1", "param_1"), When("invalid", Call("preset_of", "h1", 100))>>,
    !.run  = <<Wait(20), Handle("h2", "param_2"), When("valid", Try(Set("h2", 200)))>>]
Ex04SimpleIp == [Module("owner") EXCEPT
    !.ctor = <<CreateImmutable("param_1", 1), CreateImmutable("param_2", 2),
               Get("param_1"), Get("param_2")>>,
    !.run  = <<Wait(10), Get("param_1"), Try(Set("param_1", 10)), Get("param_1"),
               Wait(11), Get("param_2"),
               Wait(9), Try(Set("param_2", 20)), Get("param_2")>>]
Ex04 == [Program(<<Ex04ConfigIp, Ex04SimpleIp>>) EXCEPT !.tolerant = TRUE]

(***************************************************************************)
(* ex05: presets, consumed or not.  Both threads start at time 0.          *)
(***************************************************************************)
Ex05ConfigIp == [Module("cfgr") EXCEPT
    !.ctor = <<Handle("h1", "param_1"), When("invalid", Call("preset_of", "h1", 10)),
               Preset("cfg_ip.param_implicit_3", 3)>>,
    !.run  = <<Preset("param_1", 5), Handle("h", "param_1"), When("valid", Get("h"))>>]
Ex05SimpleIp == [Module("owner") EXCEPT
    !.ctor = <<Create("param_1", 1), Create("param_2", 2), Get("param_1"), Get("param_2")>>,
    !.run  = <<Preset("param_implicit_1", 1), Preset("param_implicit_2", 2),
               Unconsumed({1, 2, 3}), Ignore({"cfg_ip.param_implicit_3"}),
               Unconsumed({1, 2, 3}), Unconsumed({2})>>,
    !.dtor = <<Get("param_1"), Get("param_2")>>]
Ex05 == Program(<<Ex05ConfigIp, Ex05SimpleIp>>)

(***************************************************************************)
(* ex06: names that collide with a module or another parameter.            *)
(***************************************************************************)
Ex06SimpleIp == [Module("owner") EXCEPT
    !.ctor = <<Call("reserve", "sub_ip", 0), Create("sub_ip", 1), Create("int_param_ip", 1),
               Create("int_param_ip", 2), Create("int_param_top", 3),
               Create("int_param_custom", 4), Get("int_param_ip"), Get("int_param_ip_0"),
               Get("int_param_top"), Get("int_param_custom")>>,
    !.run  = <<Wait(10), Get("int_param_ip"), Get("int_param_ip_0"), Get("int_param_top"),
               Get("int_param_custom"), Set("int_param_ip", 10), Set("int_param_ip_0", 20),
               Set("int_param_top", 30), Set("int_param_custom", 40), Get("int_param_ip"),
               Get("int_param_ip_0"), Get("int_param_top"), Get("int_param_custom")>>,
    !.dtor = <<Get("int_param_ip"), Get("int_param_ip_0"), Get("int_param_top"),
               Get("int_param_custom")>>]
Ex06ReadWriteRead(p, v) == <<Handle(p \o ".h", p), When("valid", Get(p \o ".h")),
                             When("valid", Set(p \o ".h", v)), When("valid", Get(p \o ".h"))>>
Ex06ConfigIp == [Module("cfgr") EXCEPT
    !.run = <<Wait(20)>> \o Ex06ReadWriteRead("int_param_ip", 50)
            \o Ex06ReadWriteRead("int_param_ip_0", 60)
            \o Ex06ReadWriteRead("int_param_top", 70)
            \o Ex06ReadWriteRead("int_param_custom", 80)]
Ex06 == [Program(<<Ex06SimpleIp, Ex06ConfigIp>>) EXCEPT
    !.setup = <<Create("tool.external_param", 10)>>,
    !.late  = <<Create("sc_main_param", 1)>>,
    !.finish = <<TakeList, ShowList, Handle("m1", "tool.external_param"), Get("m1"),
                 Handle("m2", "sc_main_param"), Get("m2")>>]

(***************************************************************************)
(* ex07: what can be asked of a parameter, watched by an observer.  The    *)
(* strings: 1 "Default_Value", 2 "Initialized within sc_main", 3           *)
(* "Hello_New_String", 4 "String_Value_Set_by_OWNER", 5 "String_Value_A".  *)
(***************************************************************************)
Ex07Owner == [Module("owner") EXCEPT
    !.ctor = <<Create("int", 0), Create("string", 1), Get("int"), IsPreset("int")>>,
    !.run  = <<Wait(1), Set("int", 1), Wait(25), Set("string", 4),
               Wait(2), Get("string"), Wait(10)>>,
    !.loop = TRUE]
Ex07Defaults == <<IsDefault("hi"), Wait(2), IsDefault("hi"), Get("hs"), Wait(2),
                  Get("hi"), Wait(2), Set("hi", 10), Wait(4), Get("hi"), Wait(2)>>
Ex07Locking == <<Status("hi"), WithKey(1, Lock("hi")), Wait(2),
                 Status("hi"), WithKey(1, Unlock("hi")), Wait(2), Status("hi"), Wait(2)>>
Ex07Strings == <<Wait(4), Set("hs", 3), Wait(2), Origin("hs"), Get("hs"),
                 Get("hs"), Wait(2), Wait(20)>>
Ex07Configurer == [Module("cfgr") EXCEPT
    !.ctor = <<Handle("hi", "int"), Handle("hs", "string"),
               When("preset", Get("hs")), IsPreset("hs")>>,
    !.run  = Ex07Defaults \o Ex07Locking \o Ex07Strings,
    !.loop = TRUE]
Ex07Observer == [Module("observer") EXCEPT
    !.ctor = <<Handle("ho", "int"), Hook("ho", "pre_read", "log"),
               Hook("ho", "pre_write", "log"), Hook("ho", "post_write", "log")>>]
Ex07 == [Program(<<Ex07Owner, Ex07Configurer, Ex07Observer>>) EXCEPT
    !.setup = <<Preset("string", 2), Create("string_mutab", 5),
                CreateImmutable("string_immutab", 5), Get("string_mutab"),
                Get("string_immutab")>>,
    !.stop  = 30]

(***************************************************************************)
(* ex08: value callbacks; those of param_2 reject every write.             *)
(***************************************************************************)
Ex08ConfigIp == [Module("cfgr") EXCEPT
    !.eoe = <<Handle("h1", "param_1"), When("valid", Set("h1", 10)), When("valid", Get("h1")),
              Handle("h2", "param_2"), When("valid", Try(Set("h2", 20))),
              When("valid", Get("h2"))>>]
Ex08SimpleIp == [Module("owner") EXCEPT
    !.ctor = <<Create("param_1", 1), Create("param_2", 2),
               Hook("param_1", "pre_read", "log"), Hook("param_1", "pre_write", "log"),
               Hook("param_1", "post_write", "log"), Hook("param_2", "pre_read", "log"),
               Hook("param_2", "pre_write", "reject"), Hook("param_2", "post_write", "log"),
               Get("param_1"), Get("param_2")>>,
    !.run  = <<Wait(0)>>,
    !.dtor = <<Get("param_1"), Get("param_2")>>]
Ex08 == Program(<<Ex08ConfigIp, Ex08SimpleIp>>)

(***************************************************************************)
(* ex10: owner and configurator share one parameter object.                *)
(***************************************************************************)
Ex10Owner == [Module("owner") EXCEPT
    !.ctor = <<Create("int_param", 5), Get("int_param")>>,
    !.run  = <<Get("int_param"), Wait(5), Set("int_param", 15), Wait(15),
               Get("int_param"), Wait(50)>>,
    !.loop = TRUE]
Ex10Configurator == [Module("cfgr") EXCEPT
    !.ctor = <<Handle("h", "int_param"), IsValid("h"), Set("h", 10)>>,
    !.run  = <<Wait(10), Get("int_param"), Wait(5), Set("int_param", 20), Wait(50)>>,
    !.loop = TRUE]
Ex10 == [Program(<<Ex10Owner, Ex10Configurator>>) EXCEPT !.stop = 50]

(***************************************************************************)
(* ex11: two parameters kept equal by a pair of post-write callbacks, each *)
(* of which writes the other one.                                          *)
(***************************************************************************)
Ex11Owner(p, v) == <<Create(p, v), Get(p)>>
(* the sync module takes the first value over and links both ways *)
Ex11Sync(h1, h2) == <<Call("copy", h1, [to |-> h2, num |-> 1, den |-> 1]),
                      Link(h1, h2, 1, 1), Link(h2, h1, 1, 1)>>
Ex11Top == [Module("owner") EXCEPT
    !.ctor = Ex11Owner("clk1", 1000) \o Ex11Owner("clk2", 2000)
             \o <<Handle("t1", "clk1"), When("valid", Get("t1")),
                  Handle("t2", "clk2"), When("valid", Get("t2"))>>
             \o Ex11Sync("t1", "t2")]
Ex11Configurator == [Module("cfgr") EXCEPT
    !.ctor = <<Handle("h1", "clk1"), When("valid", Get("h1")),
               Handle("h2", "clk2"), When("valid", Get("h2"))>>,
    !.beoe = <<When("valid", Set("h1", 5000)), Get("h1"), Get("h2")>>,
    !.run  = <<When("valid", Set("h2", 12000)), Get("h1"), Get("h2"), Wait(50)>>,
    !.loop = TRUE]
Ex11 == [Program(<<Ex11Top, Ex11Configurator>>) EXCEPT !.stop = 30]

(***************************************************************************)
(* ex12: the same with a conversion factor, taken from the unit at the end *)
(* of the two names (Hz to KHz), and its inverse.                          *)
(***************************************************************************)
Ex12Scale == [Hz |-> 1, KHz |-> 1000, MHz |-> 1000000]
(* multiplyWithConversionFactor as a fraction *)
Ex12Factor(u1, u2) == <<Ex12Scale[u1], Ex12Scale[u2]>>
(* Mutant: both directions multiply by the same factor *)
Ex12SyncSameFactor(h1, h2, f) == <<Call("copy", h1, [to |-> h2, num |-> f[1], den |-> f[2]]),
                                   Link(h1, h2, f[1], f[2]), Link(h2, h1, f[1], f[2])>>
Ex12Sync(h1, h2, f) == <<Call("copy", h1, [to |-> h2, num |-> f[1], den |-> f[2]]),
                         Link(h1, h2, f[1], f[2]), Link(h2, h1, f[2], f[1])>>
Ex12Top == [Module("owner") EXCEPT
    !.ctor = <<Create("clk1", 1000), Get("clk1"), Create("clk2", 2000), Get("clk2"),
               Handle("t1", "clk1"), When("valid", Get("t1")),
               Handle("t2", "clk2"), When("valid", Get("t2"))>>
             \o Ex12Sync("t1", "t2", Ex12Factor("Hz", "KHz"))]
Ex12Configurator == [Module("cfgr") EXCEPT
    !.ctor = <<Handle("h1", "clk1"), When("valid", Get("h1")),
               Handle("h2", "clk2"), When("valid", Get("h2"))>>,
    !.beoe = <<When("valid", Set("h1", 5000000)), Get("h1"), Get("h2")>>,
    !.run  = <<When("valid", Set("h2", 12000)), Get("h1"), Get("h2"), Wait(50)>>,
    !.loop = TRUE]
Ex12 == [Program(<<Ex12Top, Ex12Configurator>>) EXCEPT !.stop = 30]

(***************************************************************************)
(* ex13: locking with and without a password; 1 is the owner's password,   *)
(* 2 the configurator's.                                                   *)
(***************************************************************************)
Ex13Owner == [Module("owner") EXCEPT
    !.ctor = <<Create("int_param", 0), Status("int_param")>>,
    !.run  = <<Lock("int_param"), Status("int_param"), Try(Set("int_param", 1)),
               Status("int_param"), Wait(5), Unlock("int_param"), Status("int_param"),
               Wait(5), Status("int_param"), WithKey(1, Lock("int_param")),
               Status("int_param"), WithKey(1, Set("int_param", 4)),
               Status("int_param"), Wait(30)>>,
    !.loop = TRUE]
Ex13Configurator == [Module("cfgr") EXCEPT
    !.ctor = <<Handle("h", "int_param")>>,
    !.run  = <<Wait(2), Status("h"), When("unlocked", Set("h", 2)), Status("h"),
               Wait(5), Status("h"), Set("h", 3), Status("h"), Lock("h"), Status("h"),
               Unlock("h"), Status("h"), WithKey(2, Lock("h")), Status("h"),
               Try(Set("h", 4)), Status("h"), WithKey(2, Unlock("h")), Status("h"),
               Wait(50)>>,
    !.loop = TRUE]
Ex13 == [Program(<<Ex13Owner, Ex13Configurator>>) EXCEPT !.stop = 25]

(***************************************************************************)
(* ex14: parent and child behind a private broker that exposes two names.  *)
(***************************************************************************)
Ex14Child == [Module("child") EXCEPT
    !.broker = "private",
    !.ctor = <<Create("priv_int_param", 100), Create("pub_int_param", 150),
               Get("priv_int_param"), Get("pub_int_param")>>,
    !.run  = <<TakeList, ShowList, Wait(25), Get("priv_int_param"), Wait(10)>>,
    !.loop = TRUE]
Ex14Parent == [Module("owner") EXCEPT
    !.broker = "private",
    !.ctor = <<Create("parent_int_param", 300), Create("parent_int_buffer", 350),
               Get("parent_int_param"), Handle("hc", "priv_int_param"),
               Forward("parent_int_buffer", "hc"), Get("parent_int_buffer")>>,
    !.run  = <<Wait(5), TakeList, ShowList, Wait(30)>>,
    !.loop = TRUE]
Ex14Configurator == [Module("cfgr") EXCEPT
    !.ctor = <<Handle("h", "parent_int_buffer"), When("valid", Get("h"))>>,
    !.run  = <<TakeList, Wait(15), ShowList, Wait(5), Set("h", 1000), Get("h"), Wait(5)>>,
    !.loop = TRUE]
Ex14 == [Program(<<Ex14Child, Ex14Parent, Ex14Configurator>>) EXCEPT
    !.expose = {"parent_int_buffer", "pub_int_param"}, !.stop = 26]

(***************************************************************************)
(* ex15: a constraint between two parameters, tested after every write of  *)
(* either.                                                                 *)
(***************************************************************************)
Ex15AddressLines == <<Create("lines", 9), Get("lines")>>
Ex15MemoryBlock == <<Create("mem_size", 500), Get("mem_size")>>
Ex15Processor == [Module("owner") EXCEPT
    !.ctor = Ex15AddressLines \o Ex15MemoryBlock
             \o <<Handle("ha", "lines"), Handle("hm", "mem_size"),
                  Call("test", "", 0), Hook("ha", "post_write", "test"),
                  Hook("hm", "post_write", "test")>>]
(* TestCondition: can that many address lines address the memory? *)
Ex15Addresses(lines, mem) == mem < 2 ^ lines - 1
Ex15Configurator == [Module("cfgr") EXCEPT
    !.ctor = <<Handle("h1", "lines"), Handle("h2", "mem_size")>>,
    !.run  = <<Set("h2", 640), Wait(5), Set("h1", 10), Wait(5), Set("h2", 800), Wait(5)>>,
    !.loop = TRUE]
Ex15 == [Program(<<Ex15Processor, Ex15Configurator>>) EXCEPT !.stop = 15]

(***************************************************************************)
(* ex16: a user-defined type; a routing table is named by its index.       *)
(***************************************************************************)
Ex16Owner == [Module("owner") EXCEPT
    !.ctor = <<Create("udt", 1), Get("udt")>>,
    !.run  = <<Set("udt", 2), Wait(2), Get("udt"), Wait(28)>>,
    !.loop = TRUE]
Ex16Configurer == [Module("cfgr") EXCEPT
    !.ctor = <<Handle("h", "udt")>>,
    !.run  = <<Wait(4), Get("h"), Wait(2), Set("h", 3), Wait(2), Get("h"), Wait(20)>>,
    !.loop = TRUE]
Ex16Observer == [Module("observer") EXCEPT
    !.ctor = <<Handle("ho", "udt"), Hook("ho", "pre_read", "log"),
               Hook("ho", "post_read", "log"), Hook("ho", "pre_write", "log"),
               Hook("ho", "post_write", "log")>>]
Ex16 == [Program(<<Ex16Owner, Ex16Configurer, Ex16Observer>>) EXCEPT
    !.setup = <<Preset("udt", 0)>>, !.stop = 12]

(***************************************************************************)
(* ex17 and ex18: presets from a configuration file.  A line defines a     *)
(* macro or gives a parameter a text, which a macro defined above may      *)
(* replace; the last line about a name wins.  The two macro names stand    *)
(* for any name in capitals.                                               *)
(***************************************************************************)
(* A line is its words; the texts of the two files as JSON values, -2 for  *)
(* the string "preset"                                                     *)
FromJson == [t \in {"10", "15", "100", "200", "300", "400", "preset"} |->
    CASE t = "10" -> 10 [] t = "15" -> 15 [] t = "100" -> 100 [] t = "200" -> 200
      [] t = "300" -> 300 [] t = "400" -> 400 [] t = "preset" -> -2]
MacroNames == {"MACRO_A", "MACRO_B"}
(* ConfigSet::add: an entry replaces an earlier one of the same name *)
ConfigAdd(f, name, text) == [n \in DOMAIN f \cup {name} |-> IF n = name THEN text ELSE f[n]]
(* interpret_config_line: the words before a comment, a name and its text; *)
(* a line of one word is refused                                           *)
Uncommented(line) == LET is == {i \in DOMAIN line : line[i] = "#"}
                     IN  IF is = {} THEN line
                         ELSE SubSeq(line, 1, (CHOOSE i \in is : \A j \in is : i <= j) - 1)
Interpret(line) == LET words == Uncommented(line)
                   IN  IF Len(words) < 2 THEN <<>> ELSE words
(* create_config_set_from_file: "NAME = text" defines a macro, if the name *)
(* is in capitals; any other pair is an entry, its macro replaced          *)
ConfigSet(lines) ==
    LET read(f, line) == LET ws == Interpret(line)
            IN  CASE ws = <<>> -> f
                  [] ws # <<>> /\ ws[2] = "=" ->
                       IF ws[1] \in MacroNames
                       THEN [f EXCEPT !.macros = ConfigAdd(@, ws[1], ws[3])] ELSE f
                  [] OTHER -> [f EXCEPT !.config = ConfigAdd(@, ws[1],
                       IF ws[2] \in DOMAIN f.macros THEN f.macros[ws[2]] ELSE ws[2])]
    IN  FoldLeft(read, [macros |-> <<>>, config |-> <<>>], lines).config
(* config(filename): a preset for every name of the set *)
Presets(set) == LET names == SetToSeq(DOMAIN set)
                IN  [i \in DOMAIN names |-> Preset(names[i], FromJson[set[names[i]]])]
Ex17Config(lines) == Presets(ConfigSet(lines))
(* ex18 has a copy of the tool that differs in its names only *)
Ex18ConfigSet(lines) == ConfigSet(lines)
Ex18Config(lines) == Presets(Ex18ConfigSet(lines))

Ex17Owner == [Module("owner") EXCEPT
    !.ctor = <<Create("int", 5), Create("float", 123450), Create("string", -1),
               Get("int"), Get("float"), Get("string")>>,
    !.run  = <<Wait(5), Get("int"), Get("float"), Get("string"), Wait(50)>>,
    !.loop = TRUE]
Ex17Configurator == [Module("cfgr") EXCEPT
    !.ctor = <<Handle("hi", "int"), IsValid("hi"), Handle("hf", "float"), IsValid("hf"),
               Handle("hs", "string"), IsValid("hs")>>,
    !.run  = <<Set("hi", 20), Set("hs", -3), Wait(50)>>,
    !.loop = TRUE]
Ex17 == [Program(<<Ex17Owner, Ex17Configurator>>) EXCEPT
    !.setup = Ex17Config(<<<<"int", "10">>, <<"string", "preset">>, <<"int", "15">>>>),
    !.stop  = 50]

Ex18Owner == [Module("owner") EXCEPT
    !.ctor = <<Create("int_param_1", 10), Create("int_param_2", 20)>>]
Ex18Configurator == [Module("cfgr") EXCEPT
    !.ctor = <<TakeList>>,
    !.eoe  = <<ShowList, Unconsumed({100, 200, 300, 400})>>]
Ex18 == [Program(<<Ex18Owner, Ex18Configurator>>) EXCEPT
    !.setup = Ex18Config(<<<<"int_param_1", "100">>, <<"int_param_2", "200">>,
                           <<"int_param_3", "300">>, <<"int_param_4", "400">>>>),
    !.stop  = 10]

(***************************************************************************)
(* ex19: reset of mutable, preset, locked and immutable parameters, each   *)
(* watched by a param_tracker.                                             *)
(***************************************************************************)
Ex19ConfigIp == [Module("cfgr") EXCEPT
    !.ctor = <<Preset("B", 10)>>,
    !.run  = <<Wait(10), Handle("hA", "A"), Set("hA", 100), Handle("hB", "B"), Set("hB", 200),
               Wait(20), Preset("A", 1000), Preset("B", 2000), Preset("C", 3000),
               Preset("D", 4000)>>]
Ex19ResetAll == <<Reset("A"), Reset("B"), Reset("C"), Reset("D")>>
Ex19SimpleIp == [Module("owner") EXCEPT
    !.ctor = <<Create("A", 1), Create("B", 2), Create("C", 3), CreateImmutable("D", 4),
               Lock("C")>>,
    !.run  = <<Wait(20)>> \o Ex19ResetAll \o <<Wait(20)>> \o Ex19ResetAll
             \o <<Wait(10), Unlock("C"), Reset("C"), Lock("C")>>]
ParamTracker(h, p) == <<Handle(h, p), Track(h), Hook(h, "post_write", "track")>>
Ex19 == [Program(<<Ex19ConfigIp, Ex19SimpleIp>>) EXCEPT
    !.late = ParamTracker("tA", "A") \o ParamTracker("tB", "B")
             \o ParamTracker("tC", "C") \o ParamTracker("tD", "D")]

(***************************************************************************)
(* ex20: an observer that hooks itself onto every parameter created.       *)
(***************************************************************************)
Ex20Observer == [Module("observer") EXCEPT !.ctor = <<OnCreate>>]
Ex20Owner == [Module("owner") EXCEPT
    !.ctor = <<Create("int_param", 10)>>,
    !.run  = <<Set("int_param", 15), Wait(5), Create("double_param", 12345), Wait(15)>>,
    !.loop = TRUE]
Ex20 == [Program(<<Ex20Observer, Ex20Owner>>) EXCEPT !.stop = 15]

(***************************************************************************)
(* ex21: a parameter is destroyed and created again under its old name.    *)
(***************************************************************************)
Ex21SimpleIp == [Module("owner") EXCEPT
    !.ctor = <<Create("int_param", 10), Get("int_param")>>,
    !.run  = <<Wait(10), Set("int_param", 20), Get("int_param"), Wait(20),
               Delete("int_param"), Wait(30), Create("int_param", -10), Wait(40)>>,
    !.dtor = <<Get("int_param")>>]
Ex21ConfigIp == [Module("cfgr") EXCEPT
    !.run = <<Wait(20), Handle("h", "int_param"), When("valid", Set("h", 2)),
              When("valid", Get("h")), Wait(30), IsValid("h"), Wait(40),
              Handle("h", "int_param"), IsValid("h"), Get("h")>>]
Ex21 == Program(<<Ex21SimpleIp, Ex21ConfigIp>>)

(***************************************************************************)
(* ex22 and ex23: parameters selected by predicates.  In ex02 and      *)
(* here 0xFEEDF00D stands for a number beyond every bound of them.         *)
(***************************************************************************)
Ex22SimpleIp == [Module("owner") EXCEPT
    !.ctor = <<Create("bool", 1), Create("char", 65000), Create("uchar", 85000),
               Create("int", -1000), Create("uint", 2000000000), Create("float", 3140),
               Create("double", 2714), Create("string", 7), Get("bool"), Get("char"),
               Get("uchar"), Get("int"), Get("uint"), Get("float"), Get("double"),
               Get("string")>>]
Ex22SearchIp == [Module("cfgr") EXCEPT
    !.run = <<ListValues("all"), ListValues("integral"), ListValues("string"),
              ListValues("range"), ListValues("has_t")>>]
Ex22 == Program(<<Ex22SimpleIp, Ex22SearchIp>>)

Ex23SubSimpleIp == <<Create("sub.log_level", 0), Create("sub.int_param1", 0),
                     Create("sub.int_param2", 0)>>
Ex23SimpleIp == [Module("owner") EXCEPT
    !.ctor = <<Create("log_level", 0), Create("int_param1", 0), Create("int_param2", 0)>>
             \o Ex23SubSimpleIp]
Ex23ConfigIp == [Module("cfgr") EXCEPT
    !.run = <<ListValues("all"), ListValues("log_level"), SetAll("log_level", 500),
              ListValues("log_level")>>]
Ex23 == Program(<<Ex23SimpleIp, Ex23ConfigIp>>)

(* The predicates of ex22 and ex23 on a parameter p of value v *)
Satisfies(which, p, v) ==
    CASE which = "all"       -> TRUE
      [] which = "integral"  -> p \in {"char", "uchar", "int", "uint"}
      [] which = "string"    -> p = "string"
      [] which = "range"     -> p \notin {"bool", "string"} /\ v >= 3000 /\ v < 85000
      [] which = "has_t"     -> p \in {"int", "uint", "float", "string"}
      [] which = "log_level" -> p \in {"log_level", "sub.log_level"}

Programs ==
    [ex01 |-> Ex01, ex02 |-> Ex02, ex03 |-> Ex03, ex04 |-> Ex04, ex05 |-> Ex05, ex06 |-> Ex06,
     ex07 |-> Ex07, ex08 |-> Ex08, ex10 |-> Ex10, ex11 |-> Ex11, ex12 |-> Ex12,
     ex13 |-> Ex13, ex14 |-> Ex14, ex15 |-> Ex15, ex16 |-> Ex16, ex17 |-> Ex17,
     ex18 |-> Ex18, ex19 |-> Ex19, ex20 |-> Ex20, ex21 |-> Ex21, ex22 |-> Ex22,
     ex23 |-> Ex23]
=============================================================================
