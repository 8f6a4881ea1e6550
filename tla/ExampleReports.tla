--------------------------- MODULE ExampleReports ---------------------------
(***************************************************************************)
(* What the examples print, from the golden.log next to each of them, and  *)
(* what their parameters must satisfy while they run.                      *)
(***************************************************************************)
EXTENDS ExamplePlatform

Values(vs) == [i \in DOMAIN vs |-> <<"value", vs[i]>>]
Valid(bs) == [i \in DOMAIN bs |-> <<"valid", bs[i]>>]
(* A callback before or after an access: parameter, values, originator *)
Reads(p, v, by) == <<<<"pre_read", p, v, by>>>>
Reads2(p, v, by) == <<<<"pre_read", p, v, by>>, <<"post_read", p, v, by>>>>
Writes(p, old, v, by) == <<<<"pre_write", p, old, v, by>>, <<"post_write", p, old, v, by>>>>
States(ss) == [i \in DOMAIN ss |-> <<"status", ss[i][1], ss[i][2]>>]
Silent == [r \in Roles |-> <<>>]

Ex06Names == {"int_param_top", "sc_main_param", "int_param_ip", "int_param_ip_0",
              "sub_ip_0", "tool.external_param", "int_param_custom"}
Ex07Log == [Silent EXCEPT
    !["main"] = Values(<<5, 5>>),
    !["owner"] = Values(<<0>>) \o <<<<"preset", FALSE>>>> \o Values(<<4>>),
    !["cfgr"] = Values(<<2>>) \o <<<<"preset", TRUE>>, <<"default", TRUE>>, <<"default", FALSE>>>>
        \o Values(<<2, 1, 10>>) \o States(<<<<FALSE, 10>>, <<TRUE, 10>>, <<FALSE, 10>>>>)
        \o <<<<"origin", "cfgr">>>> \o Values(<<3, 3>>),
    !["observer"] = Writes("int", 0, 1, "owner") \o Reads("int", 1, "cfgr")
        \o Writes("int", 1, 10, "cfgr") \o Reads("int", 10, "cfgr")]
Ex08Log == [Silent EXCEPT
    !["cfgr"] = Values(<<10, 2>>),
    !["owner"] = Reads("param_1", 1, "owner") \o Values(<<1>>)
        \o Reads("param_2", 2, "owner") \o Values(<<2>>)
        \o Writes("param_1", 1, 10, "cfgr") \o Reads("param_1", 10, "cfgr")
        \o <<<<"pre_write", "param_2", 2, 20, "cfgr">>>> \o Reads("param_2", 2, "cfgr")
        \o Reads("param_1", 10, "owner") \o Values(<<10>>)
        \o Reads("param_2", 2, "owner") \o Values(<<2>>)]
Ex13Log == [Silent EXCEPT
    !["owner"] = States(<<<<FALSE, 0>>, <<TRUE, 0>>, <<TRUE, 0>>, <<FALSE, 0>>,
                          <<FALSE, 3>>, <<TRUE, 3>>, <<TRUE, 4>>>>),
    !["cfgr"] = States(<<<<TRUE, 0>>, <<TRUE, 0>>, <<FALSE, 0>>, <<FALSE, 3>>, <<TRUE, 3>>,
                         <<FALSE, 3>>, <<TRUE, 3>>, <<TRUE, 3>>, <<FALSE, 3>>>>)]
Ex14All == {"priv_int_param", "parent_int_param", "pub_int_param", "parent_int_buffer"}
Ex14Log == [Silent EXCEPT
    !["child"] = Values(<<100, 150>>) \o <<<<"list", Ex14All>>>> \o Values(<<1000>>),
    !["owner"] = Values(<<300, 350>>)
        \o <<<<"list", Ex14All>>, <<"forward", "parent_int_buffer", 1000>>>>,
    !["cfgr"] = Values(<<350>>) \o <<<<"list", {"pub_int_param", "parent_int_buffer"}>>>>
        \o Values(<<1000>>)]
Ex16Log == [Silent EXCEPT
    !["owner"] = Values(<<0, 2>>), !["cfgr"] = Values(<<2, 3>>),
    !["observer"] = Writes("udt", 0, 2, "owner") \o Reads2("udt", 2, "owner")
        \o Reads2("udt", 2, "cfgr") \o Writes("udt", 2, 3, "cfgr") \o Reads2("udt", 3, "cfgr")]
(* value, locked, is default, is preset, the value's originator *)
Ex19Log == [Silent EXCEPT !["main"] =
    <<<<"track", "A", 1, FALSE, TRUE, FALSE, "owner">>,
      <<"track", "B", 10, FALSE, FALSE, TRUE, "cfgr">>,
      <<"track", "C", 3, TRUE, TRUE, FALSE, "owner">>,
      <<"track", "D", 4, FALSE, TRUE, FALSE, "owner">>,
      <<"track", "A", 100, FALSE, FALSE, FALSE, "cfgr">>,
      <<"track", "B", 200, FALSE, FALSE, FALSE, "cfgr">>,
      <<"track", "A", 1, FALSE, TRUE, FALSE, "owner">>,
      <<"track", "B", 10, FALSE, FALSE, TRUE, "cfgr">>,
      <<"track", "D", 4, FALSE, TRUE, FALSE, "owner">>,
      <<"track", "A", 1000, FALSE, FALSE, TRUE, "cfgr">>,
      <<"track", "B", 2000, FALSE, FALSE, TRUE, "cfgr">>,
      <<"track", "D", 4000, FALSE, FALSE, TRUE, "cfgr">>,
      <<"track", "C", 3000, FALSE, FALSE, TRUE, "cfgr">>>>]
Listed(ps, value) == <<"values", {<<p, value[p]>> : p \in ps}>>
Ex22Value == [bool |-> 1, char |-> 65000, double |-> 2714, float |-> 3140, int |-> -1000,
              string |-> 7, uchar |-> 85000, uint |-> 2000000000]
Ex22Log == [Silent EXCEPT
    !["owner"] = Values(<<1, 65000, 85000, -1000, 2000000000, 3140, 2714, 7>>),
    !["cfgr"] = <<Listed(DOMAIN Ex22Value, Ex22Value),
                  Listed({"char", "int", "uchar", "uint"}, Ex22Value),
                  Listed({"string"}, Ex22Value), Listed({"char", "float"}, Ex22Value),
                  Listed({"float", "int", "string", "uint"}, Ex22Value)>>]
Ex23Levels == {"log_level", "sub.log_level"}
Ex23Names == Ex23Levels \cup {"int_param1", "int_param2", "sub.int_param1", "sub.int_param2"}

Golden ==
    [ex01 |-> [Silent EXCEPT !["owner"] = Values(<<0, 1, 2>>), !["cfgr"] = Values(<<2>>)],
     ex02 |-> [Silent EXCEPT
        !["owner"] = Values(<<1, 65000, 85000, -1000, 2000000000, 4660000, 2000000001, 3140, 2714, 7>>),
        !["cfgr"] = <<<<"integral", TRUE>>>> \o Valid(<<TRUE>>) \o Values(<<-1000>>)
            \o Valid(<<FALSE, FALSE>>)],
     ex03 |-> [Silent EXCEPT !["owner"] = Values(<<0, 1, 1, 1>>), !["cfgr"] = Values(<<1>>)],
     ex04 |-> [Silent EXCEPT !["owner"] = Values(<<100, 2, 100, 100, 2, 2>>)],
     ex05 |-> [Silent EXCEPT !["cfgr"] = Values(<<10>>), !["owner"] = Values(<<10, 2>>)
        \o <<<<"unconsumed", {"cfg_ip.param_implicit_3", "param_implicit_2", "param_implicit_1"}>>,
             <<"unconsumed", {"param_implicit_2", "param_implicit_1"}>>,
             <<"unconsumed", {"param_implicit_2"}>>>> \o Values(<<10, 2>>)],
     ex06 |-> [Silent EXCEPT
        !["owner"] = Values(<<1, 2, 3, 4, 1, 2, 3, 4, 10, 20, 30, 40, 50, 60, 70, 80>>),
        !["cfgr"] = Values(<<10, 50, 20, 60, 30, 70, 40, 80>>),
        !["main"] = <<<<"list", Ex06Names>>>> \o Values(<<10, 1>>)],
     ex07 |-> Ex07Log, ex08 |-> Ex08Log,
     ex10 |-> [Silent EXCEPT !["owner"] = Values(<<5, 10, 20>>),
                             !["cfgr"] = Valid(<<TRUE>>) \o Values(<<15>>)],
     ex11 |-> [Silent EXCEPT
        !["owner"] = Values(<<1000, 2000, 1000, 2000>>)
            \o <<<<"sync", "clk1", 5000>>, <<"sync", "clk2", 5000>>,
                 <<"sync", "clk2", 12000>>, <<"sync", "clk1", 12000>>>>,
        !["cfgr"] = Values(<<1000, 1000, 5000, 5000, 12000, 12000>>)],
     ex12 |-> [Silent EXCEPT
        !["owner"] = Values(<<1000, 2000, 1000, 2000>>)
            \o <<<<"sync", "clk1", 5000000>>, <<"sync", "clk2", 5000>>,
                 <<"sync", "clk2", 12000>>, <<"sync", "clk1", 12000000>>>>,
        !["cfgr"] = Values(<<1000, 1, 5000000, 5000, 12000000, 12000>>)],
     ex13 |-> Ex13Log, ex14 |-> Ex14Log,
     ex15 |-> [Silent EXCEPT !["owner"] = Values(<<9, 500>>)
        \o <<<<"test", "proceed">>, <<"test", "cannot">>, <<"test", "now">>, <<"test", "proceed">>>>],
     ex16 |-> Ex16Log,
     ex17 |-> [Silent EXCEPT !["owner"] = Values(<<15, 123450, -2, 20, 123450, -3>>),
                             !["cfgr"] = Valid(<<TRUE, TRUE, TRUE>>)],
     ex18 |-> [Silent EXCEPT !["cfgr"] = <<<<"list", {"int_param_1", "int_param_2"}>>,
                                           <<"unconsumed", {"int_param_3", "int_param_4"}>>>>],
     ex19 |-> Ex19Log,
     ex20 |-> [Silent EXCEPT !["observer"] = <<<<"created", "int_param", 10>>>>
        \o Writes("int_param", 10, 15, "owner") \o <<<<"created", "double_param", 12345>>>>],
     ex21 |-> [Silent EXCEPT !["owner"] = Values(<<10, 20, -10>>),
        !["cfgr"] = Values(<<2>>) \o Valid(<<FALSE, TRUE>>) \o Values(<<-10>>)],
     ex22 |-> Ex22Log,
     ex23 |-> [Silent EXCEPT !["cfgr"] =
        <<Listed(Ex23Names, [p \in Ex23Names |-> 0]), Listed(Ex23Levels, [p \in Ex23Levels |-> 0]),
          Listed(Ex23Levels, [p \in Ex23Levels |-> 500])>>]]

-----------------------------------------------------------------------------
(* Whatever the kernel's choices, each module reports what the example's   *)
(* golden.log says it does, in that order, and a program that ends has     *)
(* reported all of it: presets, locks, originators, callbacks, unique      *)
(* names, private brokers and predicates as the examples document them.    *)
LogsAreGolden == \A r \in Roles :
    /\ IsPrefix(world.log[r], Golden[program][r])
    /\ phase = "done" => world.log[r] = Golden[program][r]

(* Between two calls, parameters tied by callbacks agree, whichever of     *)
(* them was written, and by whom: the clocks of ex11 and ex12 once both    *)
(* links are registered (the two post-write callbacks write each other),   *)
(* ex14's hidden parameter and the buffer that is forwarded to it, ex15's  *)
(* last verdict and the condition on the current values.                   *)
Linked(p) == p \in DOMAIN world.params /\ HooksOf(world, p, "post_write") # <<>>
TiedParamsAgree ==
    LET value(p) == world.params[p].value
    IN  /\ program = "ex11" /\ Linked("clk2") => value("clk1") = value("clk2")
        /\ program = "ex12" /\ Linked("clk2") => value("clk1") = 1000 * value("clk2")
        /\ program = "ex14" /\ Linked("parent_int_buffer") =>
              \/ value("priv_int_param") = value("parent_int_buffer")
              \/ world.params["parent_int_buffer"].origin = "owner"
        /\ program = "ex15" /\ Linked("mem_size") =>
              (Last(world.log["owner"])[2] = "cannot") =
                 ~Ex15Addresses(value("lines"), value("mem_size"))

(* Every example runs to the end of sc_main: no call fails outside a try   *)
(* block, no thread runs for ever without waiting.                         *)
EveryProgramEnds == <>(phase = "done")
=============================================================================
