-------------------------------- MODULE Json --------------------------------
(***************************************************************************)
(* The JSON library of the repository: values, the operations of maps and  *)
(* arrays, the writer (operator<<) and the parser, which calls itself for  *)
(* every nested container.                                                 *)
(*                                                                         *)
(* A value is <<type>> or <<type, content>>.  A string is a sequence of    *)
(* symbols; a symbol stands for one character, or for a run of characters  *)
(* that need no escape.  A text is a sequence of tuples: <<c>> for a       *)
(* character, <<"int", n>> and <<"real", r>> for the digits of a number,   *)
(* <<"u", x>> for the hexadecimal digits of a UTF-16 unit.  Reals are      *)
(* counted in quarters, and a text has digits for halves only; Infinity is *)
(* an integer of the model that no finite real reaches.                    *)
(***************************************************************************)
EXTENDS Integers, Sequences, SequencesExt

CONSTANTS
    IntBits,    \* width of int, what atoi returns
    LongBits,   \* width of int_t, an integer of a value
    FloatMax,   \* the largest float, what strtof returns
    Infinity,   \* stands for the infinite real
    Exponent,   \* the stream writes reals from here on with an exponent: 10^6
    Keys,       \* names of members
    Leaves,     \* values a program stores
    MaxEdits    \* bound on operations on a document

VARIABLES
    doc,     \* a json_map: name |-> value
    edits    \* operations so far

docVars == <<doc, edits>>

----------------------------------------------------------------------------
(* Values *)

\* value::type and the alternatives of variant_t.
Types == {"null", "integer", "real", "boolean", "string", "map", "array"}

Null == <<"null">>

Integer(n) == <<"integer", n>>

Real(quarters) == <<"real", quarters>>

Boolean(b) == <<"boolean", b>>

String(s) == <<"string", s>>

Map(m) == <<"map", m>>

Array(a) == <<"array", a>>

\* value::get_type.
TypeOf(v) == v[1]

\* detail::is_convertible: what a value can be made of.
IsConvertible(v) == TypeOf(v) \in Types

ASSUME JsonAssumption ==
    /\ IntBits \in Nat \ {0} /\ LongBits \in Nat \ {0}
    /\ IntBits < LongBits /\ MaxEdits \in Nat
    /\ FloatMax \in Nat /\ Exponent \in Nat
    /\ Infinity \in Nat /\ FloatMax < Infinity
    /\ \A v \in Leaves : IsConvertible(v)

\* to_value<T> and value::is.
Is(v, type) == TypeOf(v) = type

\* Two's complement of the given width.
Wrap(n, bits) == ((n + 2^(bits - 1)) % 2^bits) - 2^(bits - 1)

\* normalize<T>: every integral type but bool becomes int_t.
Normalize(v) == IF Is(v, "integer") THEN Integer(Wrap(v[2], LongBits)) ELSE v

----------------------------------------------------------------------------
(* Maps and arrays *)

\* map::find, map::has.
Has(m, k) == k \in DOMAIN m

\* map::has<VT>.
HasType(m, k, type) == Has(m, k) /\ Is(m[k], type)

\* map::get and operator[]: the map after the call.  values_ is mutable, so
\* that reading a missing member of a const map adds a null.
Touch(m, k) == IF Has(m, k) THEN m ELSE (k :> Null) @@ m

\* map::set.
MapSet(m, k, v) == (k :> Normalize(v)) @@ m

\* map::get with a fallback.
GetOr(m, k, fallback) == IF Has(m, k) THEN m[k] ELSE fallback

\* map::merge: insert keeps the members that are there.
Merge(m, n) == m @@ n

\* map::erase.
MapErase(m, k) == [x \in DOMAIN m \ {k} |-> m[x]]

\* map::get_keys and get_values; a std::map has one order.
GetKeys(m) == LET ks == SetToSeq(DOMAIN m) IN [i \in DOMAIN ks |-> String(ks[i])]

GetValues(m) == LET ks == SetToSeq(DOMAIN m) IN [i \in DOMAIN ks |-> m[ks[i]]]

\* map::get_for_path for a path of two names: the map after the call.  When the
\* first name is not a map, get<map_t> throws after it has added a null.
TouchPath(m, k, l) ==
    LET n == Touch(m, k)
    IN  IF Is(n[k], "map") THEN [n EXCEPT ![k] = Map(Touch(@[2], l))] ELSE n

\* map::get_for_path with a fallback, for a map or nothing under the first name.
GetPathOr(m, k, l, fallback) ==
    IF Has(m, k) THEN GetOr(m[k][2], l, fallback) ELSE fallback

\* operator== of values: of one type, and equal as that type.
Equal(v, w) == TypeOf(v) = TypeOf(w) /\ v = w

\* array(initializer_list<T>): elements of one type, each normalized.
ArrayOf(list) == [i \in DOMAIN list |-> Normalize(list[i])]

\* array::get with a fallback.
ArrayGetOr(a, i, fallback) == IF i \in DOMAIN a THEN a[i] ELSE fallback

\* array::find: the first index of an equal element, or end().
ArrayFind(a, v) ==
    CHOOSE i \in 1..(Len(a) + 1) : /\ i \in DOMAIN a => Equal(a[i], v)
                                  /\ \A j \in 1..(i - 1) : ~Equal(a[j], v)

\* array::set.
ArraySet(a, i, v) == [a EXCEPT ![i] = Normalize(v)]

\* array::push_back.
ArrayPush(a, v) == Append(a, Normalize(v))

\* array::erase of an index, and of an amount from an index.
ArrayErase(a, i, amount) == SubSeq(a, 1, i - 1) \o SubSeq(a, i + amount, Len(a))

----------------------------------------------------------------------------
(* The writer *)

\* Characters that escape changes, with the letter that follows the backslash.
Escapes == [c \in {"\"", "\\", "BS", "FF", "NL", "CR", "TAB"} |->
    CASE c = "BS" -> "b" [] c = "FF" -> "f" [] c = "NL" -> "n"
      [] c = "CR" -> "r" [] c = "TAB" -> "t" [] OTHER -> c]

\* Mutant: escape knows the quote only.
EscapeQuotes(s) == FlattenSeq([i \in DOMAIN s |->
    IF s[i] = "\"" THEN <<<<"\\">>, <<"\"">>>> ELSE <<<<s[i]>>>>])

\* detail::escape.
Escape(s) == FlattenSeq([i \in DOMAIN s |->
    IF s[i] \in DOMAIN Escapes THEN <<<<"\\">>, <<Escapes[s[i]]>>>> ELSE <<<<s[i]>>>>])

\* The UTF-16 units of a character: "emoji" stands for one beyond the first plane.
Utf16(c) == IF c = "emoji" THEN <<"high", "low">> ELSE <<c>>

\* A writer other than this library: \u for what is not ASCII, and \/.
EscapeForeign(s) == FlattenSeq([i \in DOMAIN s |->
    CASE s[i] \in {"accent", "emoji"} ->
            LET u == Utf16(s[i])
            IN  FlattenSeq([j \in DOMAIN u |-> <<<<"\\">>, <<"u", u[j]>>>>])
      [] s[i] = "/"                -> <<<<"\\">>, <<"/">>>>
      [] OTHER                     -> Escape(<<s[i]>>)])

Quoted(s, style) ==
    <<<<"\"">>>> \o (IF style = "own" THEN Escape(s) ELSE EscapeForeign(s)) \o <<<<"\"">>>>

\* A symbol between values; other writers put spaces around it.
Symbol(s, style) ==
    IF style = "own" THEN <<<<s>>>> ELSE <<<<" ">>, <<s>>, <<" ">>>>

\* streamjoin.
StreamJoin(texts, style) ==
    FlattenSeq([i \in DOMAIN texts |->
        IF i = 1 THEN texts[i] ELSE Symbol(",", style) \o texts[i]])

\* A double with the digits of the stream: a small one without a fraction looks
\* like an integer, and an infinite one is a word.
Digits(quarters) ==
    LET kept  == 2 * (quarters \div 2)
        whole == kept % 4 = 0 /\ kept \in (1 - Exponent)..(Exponent - 1)
    IN  CASE quarters = Infinity  -> <<<<"inf">>>>
          [] quarters = -Infinity -> <<<<"-">>, <<"inf">>>>
          [] OTHER -> <<IF whole THEN <<"int", kept \div 4>> ELSE <<"real", kept>>>>

RECURSIVE Text(_, _)

\* operator<< of values, arrays, maps and their members.
Text(v, style) ==
    CASE Is(v, "null")    -> <<<<"null">>>>
      [] Is(v, "integer") -> <<<<"int", v[2]>>>>
      [] Is(v, "real")    -> Digits(v[2])
      [] Is(v, "boolean") -> <<IF v[2] THEN <<"true">> ELSE <<"false">>>>
      [] Is(v, "string")  -> Quoted(v[2], style)
      [] Is(v, "array")   ->
            Symbol("[", style)
            \o StreamJoin([i \in DOMAIN v[2] |-> Text(v[2][i], style)], style)
            \o Symbol("]", style)
      [] Is(v, "map")     ->
            LET ks == SetToSeq(DOMAIN v[2])
            IN  Symbol("{", style)
                \o StreamJoin([i \in DOMAIN ks |->
                      Quoted(ks[i], style) \o Symbol(":", style) \o Text(v[2][ks[i]], style)],
                      style)
                \o Symbol("}", style)

----------------------------------------------------------------------------
(* The parser *)

\* detail::escaped.
Escaped(c) ==
    IF \E x \in DOMAIN Escapes : Escapes[x] = c
    THEN CHOOSE x \in DOMAIN Escapes : Escapes[x] = c ELSE c

\* utf_to_utf: a high unit and the low one after it are one character.
Utf8(units) ==
    LET starts == SelectSeq([i \in DOMAIN units |-> i], LAMBDA i : units[i] # "low")
    IN  [j \in DOMAIN starts |->
            IF units[starts[j]] = "high" THEN "emoji" ELSE units[starts[j]]]

\* How many \u escapes follow one another from position it.
RECURSIVE UnitsFrom(_, _)

UnitsFrom(t, it) ==
    IF it < Len(t) /\ t[it] = <<"\\">> /\ t[it + 1][1] = "u"
    THEN 1 + UnitsFrom(t, it + 2) ELSE 0

RECURSIVE ParseString(_, _, _)

\* parser::parse, the loops over the characters of a value and of a name.
ParseString(t, it, s) ==
    CASE t[it] = <<"\"">>       -> [it |-> it, s |-> s]
      [] t[it] = <<"\\">>       ->
            LET n == UnitsFrom(t, it)
            IN  IF n = 0 THEN ParseString(t, it + 2, Append(s, Escaped(t[it + 1][1])))
                ELSE ParseString(t, it + 2 * n,
                        s \o Utf8([j \in 1..n |-> t[it + 2 * j - 1][2]]))
      [] OTHER                  -> ParseString(t, it + 1, Append(s, t[it][1]))

\* detail::push_back.
PushBack(c, name, v) ==
    IF Is(c, "map") THEN Map(MapSet(c[2], name, v))
                    ELSE Array(ArrayPush(c[2], v))

\* detail::get_map and get_array: the container that was pushed back last.
GetNested(c, name) == IF Is(c, "map") THEN c[2][name] ELSE Last(c[2])

\* state_t at the start of a container and after each of its values.
ParseState(c) == IF Is(c, "map") THEN "parse_name" ELSE "parse_value"

\* strtof: a double that no float reaches becomes infinite.
Strtof(quarters) ==
    CASE quarters > FloatMax  -> Infinity
      [] quarters < -FloatMax -> -Infinity
      [] OTHER                -> quarters

\* The value of a number: atoi returns an int whatever the text holds, and 0
\* where a word follows the sign.
Number(s) ==
    CASE s[1] = "real" -> Real(Strtof(s[2]))
      [] s[1] = "int"  -> Integer(Wrap(s[2], IntBits))
      [] s[1] = "-"    -> Integer(0)

\* null, true or anything else that reaches the letter of a literal, as the n
\* of inf does.
Literal(s) == IF s = "null" THEN Null ELSE Boolean(s = "true")

\* The position of the next comma or closing symbol.
NextElement(t, it) ==
    CHOOSE i \in it..Len(t) : /\ t[i][1] \in {",", "}", "]"}
                              /\ \A j \in it..(i - 1) : t[j][1] \notin {",", "}", "]"}

RECURSIVE ParseInto(_, _, _, _, _)

\* parser::parse(container, it): the container filled, and where the text goes
\* on after its closing symbol.
ParseInto(t, it, c, name, state) ==
    LET s       == t[it][1]
        add(v)  == PushBack(c, name, v)
        more(c2, it2) == ParseInto(t, it2, c2, name, ParseState(c))
        nested  == GetNested(add(IF s = "{" THEN Map(<<>>) ELSE Array(<<>>)), name)
        child   == ParseInto(t, it + 1, nested, <<>>, ParseState(nested))
        str     == ParseString(t, it + 1, <<>>)
    IN  CASE it > Len(t)                       -> [c |-> c, it |-> it]
          [] s \in {"{", "["}                  -> more(add(child.c), child.it)
          [] s \in {"}", "]"}                  -> [c |-> c, it |-> it + 1]
          [] s = "\"" /\ state = "parse_value" -> more(add(String(str.s)), str.it + 1)
          [] s = "\"" /\ state = "parse_name"  ->
                ParseInto(t, str.it + 1, c, str.s, "parse_value")
          [] s \in {"int", "real", "-"}        -> more(add(Number(t[it])), it + 1)
          [] s \in {"null", "true", "false", "inf"} ->
                more(add(Literal(s)), NextElement(t, it))
          [] OTHER                             -> ParseInto(t, it + 1, c, name, state)

\* parser::parse<map>(string): from the first opening symbol on.
Parse(t) ==
    LET open == CHOOSE i \in DOMAIN t : t[i] = <<"{">> /\ \A j \in 1..(i - 1) : t[j] # <<"{">>
    IN  ParseInto(t, open + 1, Map(<<>>), <<>>, "parse_name").c[2]

\* parser::parse<map>(file): nothing of the text of a file is lost.
ParseFile(text) == Parse(text)

\* parser::save and map::to_string.
Save(m, style) == Text(Map(m), style)

----------------------------------------------------------------------------
(* A program that edits a document *)

DocInit == doc = <<>> /\ edits = 0

Edit(m) == edits < MaxEdits /\ edits' = edits + 1 /\ doc' = m

\* doc[k] = v.
EditSet(k) == \E v \in Leaves : Edit(MapSet(doc, k, v))

\* doc[k], or a const map's, and erase, clear, merge of another document.
EditMap(k) ==
    \/ Edit(Touch(doc, k))
    \/ Has(doc, k) /\ Edit(MapErase(doc, k))
    \/ Edit(<<>>)
    \/ \E v \in Leaves : Edit(Merge(doc, (k :> Normalize(v))))

\* doc[k][l] = v: value::operator[] throws when doc[k] is not a map.
EditMember(k, l) ==
    LET m == Touch(doc, k)
    IN  \E v \in Leaves :
            Edit(IF Is(m[k], "map") THEN MapSet(m, k, Map(MapSet(m[k][2], l, v))) ELSE m)

\* Reads of a path, with and without a fallback, one kept under k.
EditPath(k, l) ==
    \/ Edit(TouchPath(doc, k, l))
    \/ /\ Has(doc, k) => HasType(doc, k, "map")
       /\ Edit(MapSet(doc, k, GetPathOr(doc, k, l, Integer(1))))
    \/ Edit(MapSet(doc, k, Array(GetKeys(doc))))
    \/ Edit(MapSet(doc, k, Array(GetValues(doc))))

\* map::reset with the text of the document, or of a file that holds it; when
\* there is no such file it throws and the document stays.
EditReset ==
    \/ \E style \in {"own", "foreign"} : Edit(ParseFile(Save(doc, style)))
    \/ Edit(doc)

\* doc[k] = {v, w}.
EditList(k) ==
    \E v, w \in Leaves :
        TypeOf(v) = TypeOf(w) /\ Edit(MapSet(doc, k, Array(ArrayOf(<<v, w>>))))

\* The operations of an array: push_back, set, get, erase of indices and of what
\* find returns, clear.
EditArray(k) ==
    LET a == doc[k][2]
        keep(b) == Edit(MapSet(doc, k, Array(b)))
    IN  /\ HasType(doc, k, "array")
        /\ \/ \E v \in Leaves : keep(ArrayPush(a, v))
           \/ \E i \in DOMAIN a : \E v \in Leaves : keep(ArraySet(a, i, v))
           \/ \E i \in 1..(Len(a) + 1) : Edit(MapSet(doc, k, ArrayGetOr(a, i, Null)))
           \/ \E v \in Leaves : ArrayFind(a, v) \in DOMAIN a
                                 /\ keep(ArrayErase(a, ArrayFind(a, v), 1))
           \/ \E i \in DOMAIN a : \E n \in 1..(Len(a) - i + 1) : keep(ArrayErase(a, i, n))
           \/ keep(<<>>)

DocNext ==
    \/ EditReset
    \/ \E k \in Keys :
        \/ EditSet(k) \/ EditMap(k) \/ EditList(k) \/ EditArray(k)
        \/ \E l \in Keys : EditMember(k, l) \/ EditPath(k, l)

----------------------------------------------------------------------------
(* Properties *)

RECURSIVE Narrowed(_)

\* What is left of a value after a text: integers have the width of an int,
\* reals the digits of the stream and the range of a float, a whole real below
\* 10^6 is an integer, and an infinite real is false.  In an array the sign of
\* -inf leaves an element of its own, 0, before it.
Narrowed(v) ==
    CASE Is(v, "integer") -> Integer(Wrap(v[2], IntBits))
      [] Is(v, "real")    -> IF v[2] \in {Infinity, -Infinity} THEN Boolean(FALSE)
                             ELSE Number(Digits(v[2])[1])
      [] Is(v, "array")   -> Array(FlattenSeq([i \in DOMAIN v[2] |->
            IF v[2][i] = Real(-Infinity) THEN <<Integer(0), Boolean(FALSE)>>
                                         ELSE <<Narrowed(v[2][i])>>]))
      [] Is(v, "map")     -> Map([k \in DOMAIN v[2] |-> Narrowed(v[2][k])])
      [] OTHER            -> v

\* Writing a document and parsing the text gives the document back, whatever
\* operations built it, up to what Narrowed says of its numbers: the parser,
\* which never refuses a text, puts every member back under its name and every
\* element of an array in its place, but for one place more after each -inf.
\* So do texts with spaces and \u escapes, as other writers make them.  A
\* document gets an infinite real when the parser reads one beyond a float.
TextRoundTrip ==
    \A style \in {"own", "foreign"} :
        Map(Parse(Save(doc, style))) = Narrowed(Map(doc))
=============================================================================
