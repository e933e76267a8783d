----------------------------- MODULE TypeDescr -----------------------------
(***************************************************************************)
(* Type descriptions, "video/x-raw, format=(string)I420, width=(int)320":  *)
(* the class Type, which builds, parses and serializes them, and the       *)
(* parser of the Python wrapper, which is another one.                     *)
(*                                                                         *)
(* A text is a sequence of tokens: one of the characters with a meaning    *)
(* for a parser, a digit, or a word.  A value is an int, a text, a number  *)
(* of another type, which no parser knows, or of a C++ type that str does  *)
(* not know.                                                               *)
(***************************************************************************)
EXTENDS Integers, FiniteSets, SequencesExt

CONSTANTS
  Alphabet,   \* tokens of the string values set or read
  MaxLen,     \* bound: their length, for each key
  Ints,       \* integer values
  Numbers,    \* number types other than int: long, long long, unsigned, double...
  Customs,    \* custom type names
  Keys        \* names of properties, a sequence in the order of the map

ASSUME IntsAssumption == Ints \subseteq Int
ASSUME CustomsAssumption == \A ty \in Customs : Len(ty) = 1 /\ ty # <<"int">>
ASSUME MaxLenAssumption == \A i \in 1..Len(Keys) : MaxLen[Keys[i]] \in Nat

VARIABLE
  type        \* the Type being built: properties_ and str_types_

Digits == {"0", "1", "2", "3", "4", "5", "6", "7", "8", "9"}
Special == {" ", ",", "=", "(", ")", "\\", "\"", "-"}
IsWord(c) == c \notin Special          \* \w
Name == <<"video">>
NoProps == [k \in {} |-> <<>>]

IntValue(n) == [kind |-> "int", n |-> n]
StringValue(s) == [kind |-> "string", s |-> s]
NumberValue(ty, n) == [kind |-> "number", type |-> ty, n |-> n]
OtherValue == [kind |-> "other"]

-----------------------------------------------------------------------------
(* Texts.                                                                  *)

\* The elements of s at the indices that satisfy Keep.
Filter(s, Keep(_)) ==
  LET kept == SelectSeq([i \in 1..Len(s) |-> i], Keep)
  IN [j \in 1..Len(kept) |-> s[kept[j]]]

\* regex_replace of an escaped c by another token.
Unslash(s, c, new) ==
  LET second(i) == i > 1 /\ s[i] = c /\ s[i - 1] = "\\"
      first(i) == i < Len(s) /\ s[i] = "\\" /\ s[i + 1] = c
      marked == [i \in 1..Len(s) |-> IF first(i) THEN new ELSE s[i]]
  IN Filter(marked, LAMBDA i : ~second(i))

Rename(s, old, new) == [i \in 1..Len(s) |-> IF s[i] = old THEN new ELSE s[i]]

\* Deletion of the spaces around every c, as in the patterns " *, *" and "\s*=\s*".
TrimAround(s, c) ==
  LET touches(i) == s[i] = " " /\ \E j \in 1..Len(s) :
        s[j] = c /\ \A k \in 1..Len(s) : (i < k /\ k < j) \/ (j < k /\ k < i) => s[k] = " "
  IN Filter(s, LAMBDA i : ~touches(i))

\* The parts between commas.
Split(s) ==
  LET commas == SetToSortSeq({i \in 1..Len(s) : s[i] = ","}, <)
      at == <<0>> \o commas \o <<Len(s) + 1>>
  IN [i \in 1..Len(commas) + 1 |-> SubSeq(s, at[i] + 1, at[i + 1] - 1)]

Rest(s, n) == SubSeq(s, n + 1, Len(s))

-----------------------------------------------------------------------------
(* Type::str.                                                              *)

Escaped == {",", "=", "(", ")"}

\* get_serialized_string_value.
SerializedString(s) ==
  LET res == FlattenSeq([i \in 1..Len(s) |->
               IF s[i] \in Escaped THEN <<"\\", s[i]>> ELSE <<s[i]>>])
  IN IF \E i \in 1..Len(res) : res[i] \in {" ", ",", "="}
       THEN <<"\"">> \o res \o <<"\"">> ELSE res

\* std::to_string.
IntText(n) ==
  LET text[m \in Nat] ==
        (IF m < 10 THEN <<>> ELSE text[m \div 10]) \o <<ToString(m % 10)>>
  IN IF n < 0 THEN <<"-">> \o text[-n] ELSE text[n]

\* The name written before the value of property k: that of str_types_, or else of
\* the C++ type.
TypeName(t, k) ==
  IF k \in DOMAIN t.types THEN t.types[k]
  ELSE IF t.props[k].kind = "number" THEN t.props[k].type ELSE <<t.props[k].kind>>

\* A str_types_ entry on a value that is not a string is a bad_any_cast (never
\* reached: see SetCustom).
PropText(t, k) ==
  <<"(">> \o TypeName(t, k) \o <<")">> \o
  (IF t.props[k].kind = "string" THEN SerializedString(t.props[k].s) ELSE IntText(t.props[k].n))

\* Type::str: properties in the order of the map.  One of an unknown type is
\* written to serialization_errors_ only.
Str(t) ==
  LET known == SelectSeq(Keys, LAMBDA k : k \in DOMAIN t.props /\ t.props[k].kind # "other")
  IN Name \o FlattenSeq([i \in 1..Len(known) |->
                            <<",", " ", known[i], "=">> \o PropText(t, known[i])])

-----------------------------------------------------------------------------
(* Type::Type.                                                             *)

Escape(s) == Unslash(Unslash(s, ",", "__COMA__"), "=", "__EQUAL__")

Unescape(s) ==
  LET coma == Rename(s, "__COMA__", ",")
      noquot == Filter(coma, LAMBDA i : coma[i] # "\"")
  IN Unslash(Unslash(Rename(noquot, "__EQUAL__", "="), "(", "("), ")", ")")

\* The value of a sequence of digits, with a sign; stoi, and istream >> int up to
\* the first other character.
DigitsValue(s) == FoldLeft(LAMBDA n, c : 10 * n + (CHOOSE d \in 0..9 : ToString(d) = c), 0, s)
Signed(s) == s # <<>> /\ s[1] = "-"
IsInt(s) ==
  LET body == IF Signed(s) THEN Tail(s) ELSE s
  IN s # <<>> /\ s # <<"-">> /\ \A i \in 1..Len(body) : body[i] \in Digits
ToInt(s) == IF Signed(s) THEN -DigitsValue(Tail(s)) ELSE DigitsValue(s)
NumberLens(s) == {n \in 1..Len(s) : IsInt(SubSeq(s, 1, n))}
SkipSpaces(s) == Rest(s, Max({n \in 0..Len(s) : \A i \in 1..n : s[i] = " "}))

\* iss >> tmp_int: 0 if there is no number, and tmp_int as it was, which is not
\* initialized, if there is nothing.
LeadingInt(text, tmp_int) ==
  LET s == SkipSpaces(text)
  IN IF s = <<>> THEN tmp_int
     ELSE IF NumberLens(s) = {} THEN 0 ELSE ToInt(SubSeq(s, 1, Max(NumberLens(s))))

\* "[\w-]+=[^=]+": where the equal sign is, 0 if the text is no key and value.
KeyEnd(s) ==
  LET p == SelectInSeq(s, LAMBDA c : c = "=")
  IN IF /\ p > 1 /\ p < Len(s)
        /\ \A i \in 1..p - 1 : IsWord(s[i]) \/ s[i] = "-"
        /\ \A i \in p + 1..Len(s) : s[i] # "="
     THEN p ELSE 0

\* The first "\([\w]+\)" in a value: its length and the name in it.
LiteralType(v) ==
  LET found == {<<i, j>> \in (1..Len(v)) \X (1..Len(v)) :
                  /\ i + 1 < j /\ v[i] = "(" /\ v[j] = ")"
                  /\ \A k \in i + 1..j - 1 : IsWord(v[k])}
      first == CHOOSE m \in found : \A o \in found : m[1] <= o[1]
  IN IF found = {} THEN [length |-> 0, name |-> <<>>]
     ELSE [length |-> first[2] - first[1] + 1, name |-> SubSeq(v, first[1] + 1, first[2] - 1)]

\* Mutant: a value that looks like an integer is one, whatever its type says.
AnyValueByLook(v, tmp_int) ==
  LET u == Unescape(Rest(v, LiteralType(v).length))
  IN IF IsInt(u) THEN IntValue(ToInt(u)) ELSE StringValue(u)

\* The value: by its type if it has one, which is cut off by its length, else by
\* its look.
AnyValue(v, tmp_int) ==
  LET lit == LiteralType(v)
      rest == Rest(v, lit.length)
  IN IF lit.name = <<"int">> THEN IntValue(LeadingInt(rest, tmp_int))
     ELSE IF lit.length = 0 /\ IsInt(Unescape(v)) THEN IntValue(ToInt(Unescape(v)))
     ELSE StringValue(Unescape(rest))

\* std::map::emplace: a key that is there keeps its value.
Emplace(m, k, v) == [j \in DOMAIN m \cup {k} |-> IF j \in DOMAIN m THEN m[j] ELSE v]

AddPart(t, part, tmp_int) ==
  LET prop == TrimAround(part, "=")
      p == KeyEnd(prop)
      v == Rest(prop, p)
  IN IF p = 0 THEN t     \* parsing_errors_
     ELSE [props |-> Emplace(t.props, prop[1], AnyValue(v, tmp_int)),
           types |-> IF LiteralType(v).name \in {<<>>, <<"int">>} THEN t.types
                     ELSE Emplace(t.types, prop[1], LiteralType(v).name)]

\* Type::Type of a text that begins with the name.
Parse(s, tmp_int) ==
  LET parts == Split(TrimAround(Escape(s), ","))
  IN FoldLeft(LAMBDA t, part : AddPart(t, part, tmp_int),
              [props |-> NoProps, types |-> NoProps], Tail(parts))

-----------------------------------------------------------------------------
(* Reader_parse_datatype of the Python wrapper.                            *)

\* Py_BuildValue("I", stoi(val)): a negative integer becomes a large one, and a
\* text without number is an exception.
PyInt(s) ==
  LET n == LeadingInt(s, 0)
  IN CASE NumberLens(s) = {} -> [kind |-> "thrown"]
       [] NumberLens(s) # {} /\ n < 0 -> [kind |-> "wrapped", n |-> n]
       [] NumberLens(s) # {} /\ n >= 0 -> IntValue(n)

\* Mutant: the type is cut off from integers only.
PyValueWithType(v) ==
  LET lit == LiteralType(v)
  IN IF lit.name = <<"int">> THEN PyInt(Rest(v, lit.length)) ELSE StringValue(v)

\* What lies between the first parentheses is the type, if the value begins with
\* them, and is cut off.  (Of "a/b" of type fraction the quotient is computed.)
PyValue(v) ==
  LET open == SelectInSeq(v, LAMBDA c : c = "(")
      close == SelectInSeq(v, LAMBDA c : c = ")")
      name == IF open = 1 THEN SubSeq(v, 2, close - 1) ELSE <<>>
      rest == SubSeq(v, 1, open - 1) \o Rest(v, close)
  IN IF open = 0 \/ close = 0 THEN StringValue(v)
     ELSE CASE name = <<"int">> -> PyInt(rest)
            [] name = <<"fraction">> -> [kind |-> "float", s |-> rest]
            [] OTHER -> StringValue(rest)

\* A part without equal sign is the "type", and the last one counts.
PyAddPart(dict, part) ==
  LET p == SelectInSeq(part, LAMBDA c : c = "=")
  IN (IF p = 0 THEN "type" :> StringValue(part)
      ELSE part[1] :> PyValue(Rest(part, p))) @@ dict

PyParse(s) == FoldLeft(PyAddPart, NoProps, Split(SelectSeq(s, LAMBDA c : c # " ")))

-----------------------------------------------------------------------------
(* Building a Type.                                                        *)

Init == type = [props |-> NoProps, types |-> NoProps]

\* set_prop of a value of any type; emplace makes it a stutter if the key is there.
SetProp(k, v) ==
  /\ k \notin DOMAIN type.props
  /\ type' = [type EXCEPT !.props = Emplace(@, k, v)]

\* set_prop with a custom type: on a key that is there the value stays and the
\* type is new.  If that value is no string str throws; this is left out.
SetCustom(k, ty, s) ==
  /\ k \in DOMAIN type.props => type.props[k].kind = "string"
  /\ type' = [props |-> Emplace(type.props, k, StringValue(s)),
              types |-> Emplace(type.types, k, ty)]

\* A Type from a text that somebody wrote, with one property without type.
Read(k, s) ==
  /\ type.props = NoProps
  /\ \E tmp_int \in Ints :
       type' = Parse(Name \o <<" ", ",", k, " ", "=">> \o s, tmp_int)

KeySet == {Keys[i] : i \in 1..Len(Keys)}
Texts(k) == SeqOf(Alphabet, MaxLen[k])

Next ==
  \E k \in KeySet :
    \/ SetProp(k, OtherValue)
    \/ \E n \in Ints :
         SetProp(k, IntValue(n)) \/ \E ty \in Numbers : SetProp(k, NumberValue(ty, n))
    \/ \E s \in Texts(k) : SetProp(k, StringValue(s)) \/ Read(k, s)
    \/ \E ty \in Customs, s \in IF k \in DOMAIN type.props THEN {<<>>} ELSE Texts(k) :
         SetCustom(k, ty, s)

Spec == Init /\ [][Next]_type

-----------------------------------------------------------------------------
(* Properties.                                                             *)

\* The Type made from the serialization of another.
Again == Parse(Str(type), 0)

\* A name of two words, as that of long long, is no type for the parser.
KnownAsType(v) == v.kind = "number" => Len(v.type) = 1

\* A Type made from the serialization of another has the same integers and strings,
\* whatever else there is; and it has the same serialization exactly if no value is
\* of a number type with a name of two words (the others come back as texts of that
\* type, and values of types that str does not know are not written).
RoundTrip ==
  LET again == Again
  IN /\ \A k \in DOMAIN type.props : type.props[k].kind \in {"int", "string"} =>
          k \in DOMAIN again.props /\ again.props[k] = type.props[k]
     /\ (Str(again) = Str(type)) <=> \A k \in DOMAIN type.props : KnownAsType(type.props[k])

\* A value that the Python wrapper's parser, which unescapes nothing and takes
\* integers for unsigned, can read.
Plain(v) ==
  \/ v.kind = "int" /\ v.n >= 0
  \/ v.kind = "string" /\ \A i \in 1..Len(v.s) : IsWord(v.s[i]) \/ v.s[i] = "-"

IsFraction(k) == k \in DOMAIN type.types /\ type.types[k] = <<"fraction">>

\* The Python wrapper reads the same values from the serialization, if all are
\* plain: another parser, same result.
PythonReadsSame ==
  (\A k \in DOMAIN type.props : Plain(type.props[k]) /\ ~IsFraction(k)) =>
    PyParse(Str(type)) = ("type" :> StringValue(Name)) @@ type.props
=============================================================================
