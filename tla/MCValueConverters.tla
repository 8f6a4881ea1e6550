-------------------------- MODULE MCValueConverters --------------------------
(* Widths 2, 3, 4 and 6 for short, int, int64 and beyond; a double keeps 3    *)
(* bits: every int is exact, not every int64.                                 *)
EXTENDS ValueConverters

TheText == {<<>>, <<"7">>, <<"1">>, <<"Z">>, <<"Z", "1">>, <<"-", "3">>, <<"1", "2">>, <<"1", "0", "1">>, <<"3", "k">>}
TheLists == {<<>>, <<1>>, <<1, 7>>, <<7, 1>>, <<3, 2, 1>>, <<2, 3>>}
TheTimes == {0, 3, 8, 12, 13, 14}
TheDocuments ==
  { <<"null", 0>>,
    <<"integer", 15>>, <<"real", 3>>, <<"bool", 1>>,
    <<"list", << <<"integer", 1>>, <<"string", <<"1">> >> >> >>,
    <<"list", << <<"integer", 3>>, <<"integer", 1>> >> >>,
    <<"list", << <<"integer", 3>>, <<"integer", 2>> >> >>,
    <<"list", << <<"real", 3>>, <<"string", <<"Z">> >> >> >>,
    <<"map", [value |-> <<"integer", 3>>, unit |-> <<"string", <<"k">> >>]>>,
    <<"map", [value |-> <<"string", <<"3">> >>, unit |-> <<"string", <<"k">> >>]>> }
=============================================================================
