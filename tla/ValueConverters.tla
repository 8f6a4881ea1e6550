--------------------------- MODULE ValueConverters ---------------------------
(* The conversions between C++ objects and cci_values: pack and unpack of     *)
(* cci_value_converter<T>, and the relay a program builds from them: an       *)
(* object is packed into a value, the value is read into an object of some    *)
(* other type, that one is packed again, and so on.                           *)
(*                                                                            *)
(* Integers keep their widths, scaled down by the constants; a double keeps   *)
(* DoubleBits significant bits.  A cci_value is a pair <<category, content>>: *)
(* RapidJSON decides from a number alone which integer types it fits.  Texts  *)
(* are sequences of characters, as their lengths and digits matter here: a    *)
(* text is a decimal numeral or no number in any notation.                    *)
(* long is as int64 here and sc_bit as bool; numbers are whole.               *)
(*                                                                            *)
(* The assignments of SystemC's types from a text are not in the repository.  *)
(* Their errors throw, which is what the reports of SystemC do by default.    *)
EXTENDS Integers, Sequences, SequencesExt

CONSTANTS
  ShortBits, IntBits, LongBits,   \* char and short; int; int64
  SmallBits, WideBits,            \* sc_dt integers up to 64 bits, and wider
  DoubleBits, FloatBits,          \* significant bits
  VectorBits,                     \* length of sc_bv and sc_lv
  CharN, ArrayN,                  \* N of char[N] and of T[N]
  Text,                           \* strings of the program
  Lists,                          \* contents of its vectors
  Times,                          \* its sc_times, in multiples of the resolution
  Documents,                      \* cci_values that come from JSON
  NoNumber                        \* also what is not a number in a double

ASSUME WidthsAreOrdered ==
  /\ {ShortBits, IntBits, LongBits, SmallBits, WideBits, DoubleBits, FloatBits,
      VectorBits, CharN, ArrayN} \subseteq Nat \ {0}
  /\ ShortBits < IntBits /\ IntBits < LongBits
  /\ SmallBits <= LongBits /\ LongBits < WideBits
  /\ FloatBits <= DoubleBits /\ IntBits <= DoubleBits /\ DoubleBits < LongBits
  /\ NoNumber \notin Int

ASSUME ProgramsContents ==
  /\ Text \subseteq Seq(STRING) /\ <<>> \in Text
  /\ Lists \subseteq Seq(Int) /\ <<>> \in Lists
  /\ Times \subseteq 0 .. (2^LongBits - 1) /\ 0 \in Times

\* A cci_value, as far as the converters look at it.
IsValue(c) ==
  /\ c[1] = "bool" => c[2] \in {0, 1}
  /\ c[1] \in {"integer", "real"} => c[2] \in Int
  /\ c[1] = "string" => c[2] \in Seq(STRING)
  /\ c[1] = "list" => Len(c[2]) \in Nat

ASSUME DocumentsAreValues == \A c \in Documents : IsValue(c)

VARIABLES
  obj,      \* the object the relay has reached: <<type, content>>
  val,      \* the cci_value
  stage,    \* which of the two is current
  last,     \* how the last unpack ended, and what its destination held before
  sent      \* ghost: the number on its way, and what the types passed can hold

vars == <<obj, val, stage, last, sent>>

-----------------------------------------------------------------------------
(* Types.                                                                     *)

Signed(w) == -(2^(w-1)) .. (2^(w-1) - 1)
Unsigned(w) == 0 .. (2^w - 1)

SignedBits == [char |-> ShortBits, int |-> IntBits, int64 |-> LongBits, sc_int |-> SmallBits,
               sc_signed |-> SmallBits, sc_bigint |-> WideBits]
UnsignedBits == [uchar |-> ShortBits, unsigned |-> IntBits, uint64 |-> LongBits,
                 sc_uint |-> SmallBits, sc_unsigned |-> SmallBits, sc_biguint |-> WideBits]

IsSigned(t) == t \in DOMAIN SignedBits
IsUnsigned(t) == t \in DOMAIN UnsignedBits
Bits(t) == IF IsSigned(t) THEN SignedBits[t] ELSE UnsignedBits[t]
Integer(t) == IF IsSigned(t) THEN Signed(Bits(t)) ELSE Unsigned(Bits(t))

\* What is left of n in an object of the integer type t (static_cast, and the
\* assignments of the sc_dt integers).
Wrap(t, n) == CHOOSE m \in Integer(t) : (m - n) % 2^Bits(t) = 0

Magnitude(n) == IF n < 0 THEN -n ELSE n

\* The bits of a beyond the b most significant ones.
Excess(a, b) == CHOOSE k \in 0..a : a < 2^(b+k) /\ (k > 0 => a >= 2^(b+k-1))

\* n rounded to b significant bits, to the nearest and then to even.
Round(n, b) ==
  LET a    == Magnitude(n)
      unit == 2^Excess(a, b)
      low  == a \div unit
      down == 2*(a % unit) < unit \/ (2*(a % unit) = unit /\ low % 2 = 0)
      near == unit * IF down THEN low ELSE low + 1
  IN IF n < 0 THEN -near ELSE near

\* n in a floating-point object of b significant bits.
Float(n, b) == IF n = NoNumber THEN n ELSE Round(n, b)

Digit == <<"0", "1", "2", "3", "4", "5", "6", "7", "8", "9">>
Digits == Range(Digit)

Figures[n \in Nat] ==
  (IF n >= 10 THEN Figures[n \div 10] ELSE <<>>) \o <<Digit[(n % 10) + 1]>>
Numeral(n) == IF n < 0 THEN <<"-">> \o Figures[-n] ELSE Figures[n]

Unsign(s) == IF s # <<>> /\ s[1] = "-" THEN Tail(s) ELSE s
IsNumeral(s) == Unsign(s) # <<>> /\ \A i \in DOMAIN Unsign(s) : Unsign(s)[i] \in Digits
DigitValue(d) == (CHOOSE i \in 1..10 : Digit[i] = d) - 1
DigitsValue(d) ==
  LET value[i \in 0..Len(d)] == IF i = 0 THEN 0 ELSE 10 * value[i-1] + DigitValue(d[i])
  IN value[Len(d)]
NumeralValue(s) == IF s[1] = "-" THEN -DigitsValue(Tail(s)) ELSE DigitsValue(s)
TextNumber(s) == IF IsNumeral(s) THEN NumeralValue(s) ELSE NoNumber

Logic == <<"0", "1", "Z", "X">>
LogicOf(d) == CASE d \in {"0", "1", "Z"} -> d [] d = "z" -> "Z" [] OTHER -> "X"

\* sc_time units, in multiples of the resolution; SC_SEC is the last one.
Unit == [u |-> 1, k |-> 4]
UnitOfCode == <<"u", "k">>

Builtin == {"bool", "int", "unsigned", "int64", "uint64", "double", "string"}
Underlying == [char |-> "int", uchar |-> "unsigned", float |-> "double"]
Element == [vector_int |-> "int", vector_int64 |-> "int64"]
\* Fixed-point types of WideBits integer bits wrap as integers of that width.
Fixed == [sc_fix |-> "sc_bigint", sc_ufix |-> "sc_biguint"]
Types == Builtin \cup DOMAIN Underlying \cup DOMAIN Element \cup DOMAIN Fixed \cup
         DOMAIN SignedBits \cup DOMAIN UnsignedBits \cup
         {"sc_logic", "sc_bv", "sc_lv", "sc_time", "sc_fxval", "sc_fxval_fast", "chars", "array"}

\* The contents a program gives an object of type t.
Contents(t) ==
  CASE IsSigned(t) \/ IsUnsigned(t) -> Integer(t)
    [] t = "bool"     -> {0, 1}
    [] t = "double"   -> {Round(n, DoubleBits) : n \in Signed(WideBits)}
    [] t = "float"    -> {Round(n, FloatBits) : n \in Signed(WideBits)}
    [] t = "string"   -> Text
    [] t = "chars"    -> {s \in Text : Len(s) < CharN}
    [] t = "sc_logic" -> Range(Logic)
    [] t = "sc_bv"    -> [1..VectorBits -> {"0", "1"}]
    [] t = "sc_lv"    -> [1..VectorBits -> Range(Logic)]
    [] t = "sc_time"  -> Times
    [] t = "sc_fxval" -> Signed(WideBits)
    [] t = "sc_fxval_fast" -> {Round(n, DoubleBits) : n \in Signed(WideBits)}
    [] t = "array"    -> [1..ArrayN -> {0, 1}]
    [] t \in DOMAIN Fixed -> Integer(Fixed[t])
    [] t \in DOMAIN Element -> {l \in Lists : Range(l) \subseteq Integer(Element[t])}

-----------------------------------------------------------------------------
(* cci_values.                                                                *)

IsBool(c) == c[1] = "bool"
IsInteger(c, t) == c[1] = "integer" /\ c[2] \in Integer(t)   \* is_int, is_uint64, ...
IsNumber(c) == c[1] \in {"integer", "real"}
IsString(c) == c[1] = "string"
IsList(c) == c[1] = "list"
GetDouble(c) == Float(c[2], DoubleBits)

Is(t, c) ==
  CASE t = "bool"   -> IsBool(c)
    [] t = "double" -> IsNumber(c)
    [] t = "string" -> IsString(c)
    [] OTHER        -> IsInteger(c, t)

Done(x) == <<"done", x>>
Refused(x) == <<"refused", x>>
Thrown(x) == <<"thrown", x>>

-----------------------------------------------------------------------------
(* pack: the value an object becomes.                                         *)

PackInteger(n) == <<"integer", n>>
PackReal(n) == <<"real", n>>
PackString(s) == <<"string", s>>

\* The tuple of the largest unit that divides the time.
PackTime(n) ==
  LET u == IF n % Unit["k"] = 0 THEN "k" ELSE "u"
  IN <<"list", <<PackInteger(n \div Unit[u]), PackString(<<u>>)>> >>

PackLogic(x) == IF x \in {"0", "1"} THEN <<"bool", IF x = "1" THEN 1 ELSE 0>>
                ELSE PackString(<<x>>)

\* Mutant: the length is not looked at.
PackWideAlwaysInteger(t, n) ==
  PackInteger(Wrap(IF IsSigned(t) THEN "int64" ELSE "uint64", n))

\* sc_signed and sc_unsigned: a decimal string beyond 64 bits.
PackWide(t, n) == IF Bits(t) <= LongBits THEN PackInteger(n) ELSE PackString(Numeral(n))

FxText(n) == IF n = NoNumber THEN <<"N", "a", "N">> ELSE Numeral(n)

PackList(l) == <<"list", [i \in DOMAIN l |-> PackInteger(l[i])]>>

Pack(t, x) ==
  CASE t = "bool" -> <<"bool", x>>
    [] t \in {"int", "unsigned", "int64", "uint64", "char", "uchar", "sc_int", "sc_uint"}
         -> PackInteger(x)
    [] t \in {"double", "float", "sc_fxval_fast"} -> PackReal(x)
    [] t \in {"string", "chars", "sc_bv", "sc_lv"} -> PackString(x)
    [] t \in {"sc_fxval"} \cup DOMAIN Fixed -> PackString(FxText(x))
    [] t = "sc_time"  -> PackTime(x)
    [] t = "sc_logic" -> PackLogic(x)
    [] t \in {"sc_signed", "sc_bigint", "sc_unsigned", "sc_biguint"} -> PackWide(t, x)
    [] t \in {"array"} \cup DOMAIN Element -> PackList(x)

-----------------------------------------------------------------------------
(* unpack: how it ends and what the destination, before it x, then holds.     *)

UnpackBuiltin(t, c, x) ==
  IF ~Is(t, c) THEN Refused(x) ELSE Done(IF t = "double" THEN GetDouble(c) ELSE c[2])

\* Narrower types: unpack the underlying type, then cast without a range test.
Cast(t, n) == IF t = "float" THEN Float(n, FloatBits) ELSE Wrap(t, n)
UnpackDelegate(t, c, x) ==
  LET u == UnpackBuiltin(Underlying[t], c, NoNumber) IN
  IF u[1] = "done" THEN Done(Cast(t, u[2])) ELSE Refused(x)

UnpackTime(c, x) ==
  LET whole == IsList(c) /\ Len(c[2]) = 2
      pair  == IF whole THEN c[2]
               ELSE IF c[1] = "map" /\ DOMAIN c[2] = {"value", "unit"}
                    THEN <<c[2]["value"], c[2]["unit"]>>
                    ELSE << <<"null", 0>>, <<"null", 0>> >>
      value == pair[1]
      unit  == pair[2]
  IN CASE IsString(c) ->
            IF c[2] # <<>> /\ IsNumeral(Front(c[2])) /\ Last(c[2]) \in DOMAIN Unit
            THEN Done(NumeralValue(Front(c[2])) * Unit[Last(c[2])])
            ELSE Thrown(x)
       [] ~IsString(c) /\ ~IsNumber(value) -> Refused(x)
       [] IsNumber(value) /\ IsString(unit) ->
            IF unit[2] # <<>> /\ Len(unit[2]) = 1 /\ unit[2][1] \in DOMAIN Unit
            THEN Done(GetDouble(value) * Unit[unit[2][1]])
            ELSE Thrown(x)
       [] IsNumber(value) /\ IsInteger(unit, "unsigned") /\ unit[2] < Len(UnitOfCode) ->
            Done(GetDouble(value) * Unit[UnitOfCode[unit[2] + 1]])
       [] OTHER -> Refused(x)

UnpackLogic(c, x) ==
  CASE IsBool(c) -> Done(Logic[c[2] + 1])
    [] IsInteger(c, "int") -> IF c[2] \in 0..3 THEN Done(Logic[c[2] + 1]) ELSE Thrown(x)
    [] IsString(c) /\ Len(c[2]) = 1 /\ c[2][1] \in Range(Logic) \cup {"z", "x"}
         -> Done(LogicOf(c[2][1]))
    [] OTHER -> Refused(x)

FromNumeral(t, s, x) == IF IsNumeral(s) THEN Done(Wrap(t, NumeralValue(s))) ELSE Thrown(x)

\* sc_int_base, sc_uint_base, sc_signed, sc_unsigned: a text is converted first.
UnpackWide(t, c, x) ==
  CASE IsInteger(c, IF IsSigned(t) THEN "int64" ELSE "uint64") -> Done(Wrap(t, c[2]))
    [] IsString(c) -> FromNumeral(t, c[2], x)
    [] OTHER -> Refused(x)

\* The characters of s for the bits of a vector, the highest bit first.
DigitFor(s, i) ==
  LET j == Len(s) - VectorBits + i IN IF j >= 1 THEN s[j] ELSE "0"

\* sc_bv_base: the bits are set from the lowest on, up to the first character
\* that is none; what is before the last VectorBits characters is not read.
UnpackBits(c, x) ==
  LET s      == c[2]
      set(i) == \A j \in i..VectorBits : DigitFor(s, j) \in {"0", "1"}
      y      == [i \in 1..VectorBits |-> IF set(i) THEN DigitFor(s, i) ELSE x[i]]
  IN CASE ~IsString(c) -> Refused(x)
       [] IsString(c) /\ s = <<>> -> Thrown(x)
       [] IsString(c) /\ s # <<>> -> IF set(1) THEN Done(y) ELSE Thrown(y)

\* sc_lv_base: what is no logic value becomes X, silently.
UnpackLogicVector(c, x) ==
  CASE ~IsString(c) -> Refused(x)
    [] IsString(c) /\ c[2] = <<>> -> Thrown(x)
    [] IsString(c) /\ c[2] # <<>> ->
         Done([i \in 1..VectorBits |-> LogicOf(DigitFor(c[2], i))])

\* What a fixed-point object keeps of n.
FxKept(t, n) ==
  CASE n = NoNumber \/ t = "sc_fxval" -> n
    [] n # NoNumber /\ t = "sc_fxval_fast" -> Round(n, DoubleBits)
    [] n # NoNumber /\ t \in DOMAIN Fixed -> Wrap(Fixed[t], n)

\* A text that is no numeral is assigned as not-a-number; sc_fix and sc_ufix
\* report that, when they hold it.
UnpackFx(t, c, x) ==
  IF ~IsNumber(c) /\ ~IsString(c) THEN Refused(x)
  ELSE LET y == FxKept(t, IF IsNumber(c) THEN c[2] ELSE TextNumber(c[2]))
       IN IF y = NoNumber /\ t \in DOMAIN Fixed THEN Thrown(y) ELSE Done(y)

\* Mutant: the terminating zero is counted twice.
UnpackCharsShort(c, x) ==
  CASE c[1] = "null" -> Done(<<>>)
    [] IsString(c) -> IF Len(c[2]) < CharN - 1 THEN Done(c[2])
                      ELSE Refused(SubSeq(c[2], 1, CharN - 1))
    [] OTHER -> Refused(x)

UnpackChars(c, x) ==
  CASE c[1] = "null" -> Done(<<>>)
    [] IsString(c) -> IF Len(c[2]) < CharN THEN Done(c[2])
                      ELSE Refused(SubSeq(c[2], 1, CharN - 1))
    [] OTHER -> Refused(x)

\* The elements that convert, up to the first one that does not.
Convertible(t, l) ==
  CHOOSE n \in 0..Len(l) : /\ \A i \in 1..n : Is(t, l[i])
                           /\ n < Len(l) => ~Is(t, l[n+1])

UnpackArray(c, x) ==
  IF ~IsList(c) THEN Refused(x)
  ELSE LET n == Min({ArrayN, Convertible("int", c[2])})
           y == [i \in 1..ArrayN |-> IF i <= n THEN c[2][i][2] ELSE x[i]]
       IN IF n = Len(c[2]) THEN Done(y) ELSE Refused(y)

\* Mutant: the elements are appended to the destination itself.
UnpackVectorInPlace(t, c, x) ==
  IF ~IsList(c) THEN Refused(x)
  ELSE LET n == Convertible(Element[t], c[2])
           y == [i \in 1..n |-> c[2][i][2]]
       IN IF n = Len(c[2]) THEN Done(y) ELSE Refused(y)

UnpackVector(t, c, x) ==
  IF ~IsList(c) THEN Refused(x)
  ELSE LET n == Convertible(Element[t], c[2])
           y == [i \in 1..n |-> c[2][i][2]]
       IN IF n = Len(c[2]) THEN Done(y) ELSE Refused(x)

Unpack(t, c, x) ==
  CASE t \in Builtin -> UnpackBuiltin(t, c, x)
    [] t \in DOMAIN Underlying -> UnpackDelegate(t, c, x)
    [] t \in {"sc_int", "sc_uint", "sc_signed", "sc_bigint", "sc_unsigned", "sc_biguint"}
         -> UnpackWide(t, c, x)
    [] t \in {"sc_fxval", "sc_fxval_fast"} \cup DOMAIN Fixed -> UnpackFx(t, c, x)
    [] t = "sc_bv"    -> UnpackBits(c, x)
    [] t = "sc_lv"    -> UnpackLogicVector(c, x)
    [] t = "sc_time"  -> UnpackTime(c, x)
    [] t = "sc_logic" -> UnpackLogic(c, x)
    [] t = "chars"    -> UnpackChars(c, x)
    [] t = "array"    -> UnpackArray(c, x)
    [] t \in DOMAIN Element -> UnpackVector(t, c, x)

-----------------------------------------------------------------------------
(* The number on its way.  Bit vectors, times and lists stand for none.       *)

NumberOf(t, x) ==
  CASE \/ IsSigned(t) \/ IsUnsigned(t) \/ t \in DOMAIN Fixed
       \/ t \in {"bool", "double", "float", "sc_fxval", "sc_fxval_fast"}
         -> x
    [] t = "sc_logic" /\ x \in {"0", "1"} -> IF x = "1" THEN 1 ELSE 0
    [] t \in {"string", "chars"} -> TextNumber(x)
    [] OTHER -> NoNumber

\* The numbers type t holds exactly, and how many low-order bits it keeps.
Holds(t, n) ==
  CASE n = NoNumber -> FALSE
    [] n # NoNumber /\ (IsSigned(t) \/ IsUnsigned(t)) -> n \in Integer(t)
    [] t \in {"bool", "sc_logic"} -> n \in {0, 1}
    [] t \in {"double", "sc_fxval_fast"} -> Round(n, DoubleBits) = n
    [] t = "float" -> Round(n, FloatBits) = n
    [] t = "chars" -> Len(Numeral(n)) < CharN
    [] t \in {"string", "sc_fxval"} -> TRUE
    [] t \in DOMAIN Fixed -> n \in Integer(Fixed[t])
    [] OTHER -> FALSE

LowBits(t) == IF IsSigned(t) \/ IsUnsigned(t) THEN Bits(t)
              ELSE IF t \in {"string", "sc_fxval"} \cup DOMAIN Fixed THEN WideBits ELSE 0

Fresh(t, x) == LET n == NumberOf(t, x) IN
  [number |-> n, fits |-> n # NoNumber, low |-> LowBits(t)]

Passed(t) == [sent EXCEPT !.fits = @ /\ Holds(t, sent.number), !.low = Min({@, LowBits(t)})]

-----------------------------------------------------------------------------
Init ==
  /\ \E t \in Types : \E x \in Contents(t) : obj = <<t, x>> /\ sent = Fresh(t, x)
  /\ val = <<"null", 0>>
  /\ stage = "object"
  /\ last = <<"none", 0>>

\* set: the object is packed.
Store ==
  /\ stage = "object"
  /\ val' = Pack(obj[1], obj[2])
  /\ stage' = "value"
  /\ last' = <<"none", 0>>
  /\ UNCHANGED <<obj, sent>>

\* The value is replaced by a document.
FromJson(c) ==
  /\ stage = "value" /\ last[1] = "none"
  /\ val' = c
  /\ obj' = <<"none", 0>> /\ sent' = [number |-> NoNumber, fits |-> FALSE, low |-> 0]
  /\ UNCHANGED <<stage, last>>

\* Conversions whose C++ result is undefined are left out: a time that is
\* negative or beyond 64 bits.
Defined(t, out) == t = "sc_time" => out[2] \in 0 .. (2^LongBits - 1)

\* try_get: the value is read into an object of type t that holds x.
TryGet(t, x) ==
  LET out == Unpack(t, val, x) IN
  /\ stage = "value" /\ Defined(t, out)
  /\ obj' = <<t, out[2]>>
  /\ last' = <<out[1], x>>
  /\ sent' = IF out[1] = "done" THEN Passed(t) ELSE Fresh(t, out[2])
  /\ stage' = "object"
  /\ UNCHANGED val

\* x = get<T>(): read into a temporary; a failure is reported, which throws, and
\* the destination, a parameter's value for instance, is not assigned.
Get(t, x) ==
  LET out  == Unpack(t, val, x)
      done == out[1] = "done"
  IN /\ stage = "value" /\ Defined(t, out) /\ t \notin {"chars", "array"}
     /\ obj' = <<t, IF done THEN out[2] ELSE x>>
     /\ last' = <<IF done THEN "done" ELSE "thrown", x>>
     /\ sent' = IF done THEN Passed(t) ELSE Fresh(t, x)
     /\ stage' = "object"
     /\ UNCHANGED val

\* The destination's earlier content does not decide how an unpack ends: one
\* stands for all.
Held(t) == CHOOSE x \in Contents(t) : TRUE

Next ==
  \/ Store
  \/ \E c \in Documents : FromJson(c)
  \/ \E t \in Types : TryGet(t, Held(t)) \/ Get(t, Held(t))

Spec == Init /\ [][Next]_vars

-----------------------------------------------------------------------------
(* Properties.                                                                *)

\* A number that travels through any sequence of packs and successful unpacks
\* arrives unchanged when every type on the way can hold it; and as long as only
\* integer types, decimal strings and exact fixed-point types are passed, the
\* low-order bits that the narrowest of them has room for arrive, although the converters have
\* no range tests ("without range checks for now").
NumbersSurvive ==
  LET n == NumberOf(obj[1], obj[2]) IN
  /\ sent.fits => n = sent.number
  /\ sent.low > 0 /\ sent.number # NoNumber => (n - sent.number) % 2^sent.low = 0

\* An sc_fix that is left not-a-number cannot be read back.
FixedWithoutNumber == IF obj[2] = NoNumber THEN DOMAIN Fixed ELSE {}

\* What is packed is read back by the same type as it was, whatever the
\* destination held; a time only up to the precision of a double, and an sc_fix
\* or sc_ufix only if it is a number.
RoundTrips ==
  stage = "value" /\ obj[1] \in Types \ FixedWithoutNumber =>
    LET t == obj[1]
        out == Unpack(t, val, Held(t))
    IN /\ out[1] = "done"
       /\ t # "sc_time" => out[2] = obj[2]
       /\ t = "sc_time" => \E u \in DOMAIN Unit :
            obj[2] % Unit[u] = 0 /\ out[2] = Unit[u] * Round(obj[2] \div Unit[u], DoubleBits)

\* An unpack that fails leaves its destination alone, except for a char array,
\* which then holds the beginning of the string; for an array, of which a proper
\* part of the list has replaced the elements before the first one that does not
\* convert; for an sc_bv, whose lowest bits are those of the text; and for an
\* sc_fix or sc_ufix, which is not a number then.
FailureKeepsDestination ==
  last[1] \in {"refused", "thrown"} =>
    CASE obj[1] = "chars" -> obj[2] = last[2] \/ (IsString(val) /\ IsStrictPrefix(obj[2], val[2]))
      [] obj[1] = "array" ->
           \A i \in 1..ArrayN :
             \/ obj[2][i] = last[2][i]
             \/ /\ obj[2][i] = val[2][i][2] /\ i <= Len(val[2])
                /\ \A j \in 1..i : obj[2][j] = val[2][j][2]
      [] obj[1] = "sc_bv" ->
           \A i \in 1..VectorBits :
             \/ obj[2][i] = last[2][i]
             \/ IsString(val) /\ \A j \in i..VectorBits : obj[2][j] = DigitFor(val[2], j)
      [] obj[1] \in DOMAIN Fixed ->
           obj[2] = last[2] \/ (last[1] = "thrown" /\ obj[2] = NoNumber)
      [] OTHER -> obj[2] = last[2]

=============================================================================
