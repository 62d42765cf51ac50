------------------------------ MODULE JsonText ------------------------------
(***************************************************************************)
(* How ytfs reads the answer of its server: json.hpp's scanner, fed line   *)
(* by line from metadata.json, its parser and the decoding of strings.     *)
(* A text is a sequence of bytes; the state is one text put together from  *)
(* pieces whose tokens and meaning are known.                              *)
(***************************************************************************)
EXTENDS Naturals, Sequences, SequencesExt

\* [open, pieces, close, most]: texts of at most `most` pieces between two others.
\* A piece is [text, tokens, means].
CONSTANT Shapes

VARIABLES shape, pieces

jsonVars == <<shape, pieces>>
---------------------------------------------------------------------------
(* Bytes and code points.                                                  *)

NUL == 0  LF == 10  QUOTE == 34  BACKSLASH == 92  LETTER_U == 117
Digit == 48 .. 57
Hex == Digit \cup 65 .. 70 \cup 97 .. 102
Space == {9, LF, 13, 32}
Below(s, i) == IF i <= Len(s) THEN s[i] ELSE NUL

HexValue(c) == IF c \in Digit THEN c - 48 ELSE IF c < 97 THEN c - 55 ELSE c - 87

\* strtoul of four hex digits; what a garbled escape yields is left at zero.
CodePoint(s, i) ==
  IF \A k \in i .. i + 3 : Below(s, k) \in Hex
  THEN 4096 * HexValue(s[i]) + 256 * HexValue(s[i + 1]) + 16 * HexValue(s[i + 2]) + HexValue(s[i + 3])
  ELSE 0

High(point) == point \in 55296 .. 56319
Low(point) == point \in 56320 .. 57343

\* UTF-8 of a code point.
Utf8(p) ==
  LET Trail(shift) == 128 + ((p \div shift) % 64) IN
  CASE p < 128 -> <<p>>
    [] p \in 128 .. 2047 -> <<192 + ((p \div 64) % 32), Trail(1)>>
    [] p \in 2048 .. 65535 -> <<224 + ((p \div 4096) % 16), Trail(64), Trail(1)>>
    [] OTHER -> <<240 + ((p \div 262144) % 8), Trail(4096), Trail(64), Trail(1)>>

\* The second point counts only behind a high surrogate.
to_unicode(point1, point2) ==
  Utf8(IF High(point1) THEN point1 * 1024 + point2 - 56613888 ELSE point1)
---------------------------------------------------------------------------
(* The scanner.                                                            *)

\* What the buffer holds in the end: getline drops each line feed and yyfill
\* puts one in front of each line it adds, the one it fails to read included.
Buffer(text) == IF text = <<>> \/ Last(text) = LF THEN text ELSE Append(text, LF)

RECURSIVE SkipSpace(_, _), SkipDigits(_, _)
SkipSpace(s, i) == IF Below(s, i) \in Space THEN SkipSpace(s, i + 1) ELSE i
SkipDigits(s, i) == IF Below(s, i) \in Digit THEN SkipDigits(s, i + 1) ELSE i

\* What may follow a backslash, and what get_string makes of it.
Escapes == [c \in {QUOTE, BACKSLASH, 47, 98, 102, 110, 114, 116} |->
              CASE c = 98 -> 8 [] c = 102 -> 12 [] c = 110 -> LF [] c = 114 -> 13 [] c = 116 -> 9 [] OTHER -> c]

EscapeLength(s, i) ==
  CASE Below(s, i + 1) \in DOMAIN Escapes -> 2
    [] Below(s, i + 1) = LETTER_U /\ \A k \in 2 .. 5 : Below(s, i + k) \in Hex -> 6
    [] OTHER -> 0

\* Behind the closing quote, or 0: bytes below 16 end a string badly.
RECURSIVE StringEnd(_, _)
StringEnd(s, i) ==
  LET c == Below(s, i) IN
  CASE c = QUOTE -> i + 1
    [] c = BACKSLASH -> IF EscapeLength(s, i) = 0 THEN 0 ELSE StringEnd(s, i + EscapeLength(s, i))
    [] c < 16 -> 0
    [] OTHER -> StringEnd(s, i + 1)

\* The longest number at i: the scanner falls back to its marker when a point
\* or an exponent has no digits.
WithFraction(s, i) == IF Below(s, i) = 46 THEN SkipDigits(s, i + 1) ELSE i
WithExponent(s, i) ==
  LET j == IF Below(s, i + 1) \in {43, 45} THEN i + 2 ELSE i + 1 IN
  IF Below(s, i) \in {69, 101} /\ Below(s, j) \in Digit THEN SkipDigits(s, j) ELSE i
Unsigned(s, i) == IF Below(s, i) = 45 THEN i + 1 ELSE i
NumberEnd(s, i) ==
  LET j == Unsigned(s, i)
      whole == IF Below(s, j) = 48 THEN j + 1 ELSE SkipDigits(s, j)
      fraction == IF WithFraction(s, whole) > whole + 1 THEN WithFraction(s, whole) ELSE whole
  IN  IF whole = j THEN 0 ELSE WithExponent(s, fraction)

\* get_number: strtold must stop where the token does, or there is no number.
\* strtold takes leading zeros and a point without digits.
GetNumber(s, token) ==
  LET whole == SkipDigits(s, Unsigned(s, token.from)) IN
  IF WithExponent(s, WithFraction(s, whole)) = token.to THEN SubSeq(s, token.from, token.to - 1) ELSE <<>>

Literals == [true |-> <<116, 114, 117, 101>>, false |-> <<102, 97, 108, 115, 101>>, null |-> <<110, 117, 108, 108>>]
Punctuation ==
  [c \in {44, 58, 91, 93, 123, 125} |->
     CASE c = 44 -> "," [] c = 58 -> ":" [] c = 91 -> "[" [] c = 93 -> "]" [] c = 123 -> "{" [] OTHER -> "}"]
Token(type, from, to) == [type |-> type, from |-> from, to |-> to]

Scan(s, start) ==
  LET i == SkipSpace(s, start)
      c == Below(s, i)
      Spelt(name) == \A k \in DOMAIN Literals[name] : Below(s, i + k - 1) = Literals[name][k]
      literal == {name \in DOMAIN Literals : Spelt(name)}
      end == CASE c = QUOTE -> StringEnd(s, i + 1)
               [] c \in Digit \cup {45} -> NumberEnd(s, i)
               [] OTHER -> 0
  IN  CASE c = NUL -> Token("end", i, i + 1)
        [] c \in DOMAIN Punctuation -> Token(Punctuation[c], i, i + 1)
        [] literal # {} -> LET name == CHOOSE n \in literal : TRUE IN Token(name, i, i + Len(Literals[name]))
        [] end > 0 -> Token(IF c = QUOTE THEN "string" ELSE "number", i, end)
        [] OTHER -> Token("error", i, i + 1)

\* What get_token yields up to the end, or the error that ends any parse.
RECURSIVE Tokens(_, _)
Tokens(s, i) ==
  LET token == Scan(s, i) IN
  <<token>> \o (IF token.type \in {"end", "error"} THEN <<>> ELSE Tokens(s, token.to))

\* get_string between its quotes, as far as it is put together.  A pair of
\* surrogates takes twelve bytes and this skips thirteen: the byte behind it is lost.
RECURSIVE Decode(_, _, _)
Decode(s, i, end) ==
  LET escaped == Below(s, i + 1)
      point == CodePoint(s, i + 2)
      second == CodePoint(s, i + 8)
      Then(bytes, next) == LET rest == Decode(s, next, end) IN [rest EXCEPT !.bytes = bytes \o @]
  IN  IF i >= end THEN [ok |-> TRUE, bytes |-> <<>>]
      ELSE IF s[i] # BACKSLASH THEN Then(<<s[i]>>, i + 1)
      ELSE IF escaped \in DOMAIN Escapes THEN Then(<<Escapes[escaped]>>, i + 2)
      ELSE IF escaped # LETTER_U THEN Then(<<>>, i + 2)
      ELSE IF ~High(point) THEN Then(to_unicode(point, 0), i + 6)
      ELSE IF Below(s, i + 6) = BACKSLASH /\ Below(s, i + 7) = LETTER_U /\ Low(second)
           THEN Then(to_unicode(point, second), i + 13)
      ELSE [ok |-> FALSE, bytes |-> <<>>]

GetString(s, token) == Decode(s, token.from + 1, token.to - 1)
---------------------------------------------------------------------------
(* The parser.  Every complaint is thrown and ends the parse.              *)

Value(is, text, items) == [is |-> is, text |-> text, items |-> items]
Null == Value("null", <<>>, <<>>)

\* A value read, and the place of the token behind it; 0 where something was thrown.
Read(value, next) == [value |-> value, next |-> next]
Refused == Read(Null, 0)

\* result[key] = value: a key met again keeps the later value.
PutMember(items, key, value) ==
  IF \E i \in DOMAIN items : items[i].key = key
  THEN [i \in DOMAIN items |-> IF items[i].key = key THEN [items[i] EXCEPT !.value = value] ELSE items[i]]
  ELSE Append(items, [key |-> key, value |-> value])

Type(tokens, k) == IF k \in DOMAIN tokens THEN tokens[k].type ELSE "error"

RECURSIVE ParseInternal(_, _, _), Members(_, _, _, _), Elements(_, _, _, _)

\* Mutant: a comma may come before an element.
ElementsAfterComma(s, tokens, k, items) ==
  LET v == ParseInternal(s, tokens, IF Type(tokens, k) = "," THEN k + 1 ELSE k)
      more == Append(items, [key |-> <<>>, value |-> v.value])
  IN  CASE Type(tokens, v.next) = "," -> Elements(s, tokens, v.next + 1, more)
        [] Type(tokens, v.next) = "]" -> Read(Value("array", <<>>, more), v.next + 1)
        [] OTHER -> Refused

\* The elements of an array from token k on.
Elements(s, tokens, k, items) ==
  LET v == ParseInternal(s, tokens, k)
      more == Append(items, [key |-> <<>>, value |-> v.value])
  IN  CASE Type(tokens, v.next) = "," -> Elements(s, tokens, v.next + 1, more)
        [] Type(tokens, v.next) = "]" -> Read(Value("array", <<>>, more), v.next + 1)
        [] OTHER -> Refused

\* The members of an object from token k on.
Members(s, tokens, k, items) ==
  LET key == GetString(s, tokens[k])
      v == ParseInternal(s, tokens, k + 2)
      more == PutMember(items, key.bytes, v.value)
  IN  IF Type(tokens, k) # "string" \/ Type(tokens, k + 1) # ":" \/ ~key.ok THEN Refused
      ELSE CASE Type(tokens, v.next) = "," -> Members(s, tokens, v.next + 1, more)
             [] Type(tokens, v.next) = "}" -> Read(Value("object", <<>>, more), v.next + 1)
             [] OTHER -> Refused

Scalar(s, token) ==
  CASE token.type = "string" -> Value("string", GetString(s, token).bytes, <<>>)
    [] token.type = "number" -> Value("number", GetNumber(s, token), <<>>)
    [] OTHER -> Value(token.type, <<>>, <<>>)
Thrown(s, token) ==
  \/ token.type = "string" /\ ~GetString(s, token).ok
  \/ token.type = "number" /\ GetNumber(s, token) = <<>>

ParseInternal(s, tokens, k) ==
  LET type == Type(tokens, k)  next == Type(tokens, k + 1) IN
  CASE type = "{" /\ next = "}" -> Read(Value("object", <<>>, <<>>), k + 2)
    [] type = "{" /\ next # "}" -> Members(s, tokens, k + 1, <<>>)
    [] type = "[" /\ next = "]" -> Read(Value("array", <<>>, <<>>), k + 2)
    [] type = "[" /\ next # "]" -> Elements(s, tokens, k + 1, <<>>)
    [] type \in {"string", "number"} \cup DOMAIN Literals ->
         IF Thrown(s, tokens[k]) THEN Refused ELSE Read(Scalar(s, tokens[k]), k + 1)
    [] OTHER -> Refused

parse(text) ==
  LET s == Buffer(text)
      tokens == Tokens(s, 1)
      r == ParseInternal(s, tokens, 1)
  IN  [ok |-> Type(tokens, r.next) = "end", value |-> r.value]
---------------------------------------------------------------------------
(* Texts.                                                                  *)

Texts(ps) == FlattenSeq([i \in DOMAIN ps |-> ps[i].text])
TheText == shape.open.text \o Texts(pieces) \o shape.close.text
TheTokens == shape.open.tokens \o FlattenSeq([i \in DOMAIN pieces |-> pieces[i].tokens]) \o shape.close.tokens
ThePoints == FlattenSeq([i \in DOMAIN pieces |-> pieces[i].means])

JsonInit == shape \in Shapes /\ pieces = <<>>

Extend ==
  /\ Len(pieces) < shape.most
  /\ \E p \in shape.pieces : pieces' = Append(pieces, p)
  /\ UNCHANGED shape
---------------------------------------------------------------------------
(* Properties.                                                             *)

\* The grammar of RFC 7159 over tokens.
RECURSIVE IsValue(_), AreElements(_), AreMembers(_)
Inner(t) == SubSeq(t, 2, Len(t) - 1)
Splits(t) == {k \in DOMAIN t : t[k] = ","}
Before(t, k) == SubSeq(t, 1, k - 1)
Behind(t, k) == SubSeq(t, k + 1, Len(t))
IsMember(t) == Len(t) > 2 /\ t[1] = "string" /\ t[2] = ":" /\ IsValue(Behind(t, 2))
AreElements(t) == IsValue(t) \/ \E k \in Splits(t) : IsValue(Before(t, k)) /\ AreElements(Behind(t, k))
AreMembers(t) == IsMember(t) \/ \E k \in Splits(t) : IsMember(Before(t, k)) /\ AreMembers(Behind(t, k))
IsValue(t) ==
  \/ t \in {<<"string">>, <<"number">>, <<"true">>, <<"false">>, <<"null">>}
  \/ Len(t) > 1 /\ Head(t) = "[" /\ Last(t) = "]" /\ (Len(t) = 2 \/ AreElements(Inner(t)))
  \/ Len(t) > 1 /\ Head(t) = "{" /\ Last(t) = "}" /\ (Len(t) = 2 \/ AreMembers(Inner(t)))

\* ... and of its numbers over bytes.
Digits(t) == t # <<>> /\ Range(t) \subseteq Digit
IsWhole(t) == Digits(t) /\ (Head(t) = 48 => Len(t) = 1)
IsFraction(t) == IsWhole(t) \/ \E k \in DOMAIN t : t[k] = 46 /\ IsWhole(Before(t, k)) /\ Digits(Behind(t, k))
IsExponent(t) == Digits(t) \/ (Len(t) > 1 /\ Head(t) \in {43, 45} /\ Digits(Tail(t)))
IsPositive(t) ==
  IsFraction(t) \/ \E k \in DOMAIN t : t[k] \in {69, 101} /\ IsFraction(Before(t, k)) /\ IsExponent(Behind(t, k))
IsNumber(t) == IsPositive(t) \/ (Len(t) > 1 /\ Head(t) = 45 /\ IsPositive(Tail(t)))

\* The tokens a value is written with.
RECURSIVE Written(_)
Written(v) ==
  LET Item(i) == (IF i > 1 THEN <<",">> ELSE <<>>)
                 \o (IF v.is = "object" THEN <<"string", ":">> ELSE <<>>) \o Written(v.items[i].value)
      body == FlattenSeq([i \in DOMAIN v.items |-> Item(i)])
  IN  CASE v.is = "array" -> <<"[">> \o body \o <<"]">>
        [] v.is = "object" -> <<"{">> \o body \o <<"}">>
        [] OTHER -> <<v.is>>

\* parse takes exactly the texts of the grammar, a half-written metadata.json
\* never, and the value holds every token of the text.
ParsesGrammar ==
  LET r == parse(TheText) IN
  /\ shape.kind = "tokens" => /\ r.ok = IsValue(TheTokens)
                              /\ r.ok => Written(r.value) = TheTokens
  /\ shape.kind = "number" => r.ok = IsNumber(TheText)

\* The points of well-formed UTF-8.
RECURSIVE Points(_)
Points(b) ==
  LET n == IF b[1] < 128 THEN 1 ELSE IF b[1] < 224 THEN 2 ELSE IF b[1] < 240 THEN 3 ELSE 4
      lead == CASE n = 1 -> b[1] [] n = 2 -> b[1] - 192 [] n = 3 -> b[1] - 224 [] OTHER -> b[1] - 240
      Place(p, c) == 64 * p + c - 128
  IN  IF b = <<>> THEN <<>> ELSE <<FoldLeft(Place, lead, SubSeq(b, 2, n))>> \o Points(SubSeq(b, n + 1, Len(b)))

\* Surrogates put together; a lone high one is none.
RECURSIVE Paired(_)
Paired(ps) ==
  CASE ps = <<>> -> <<>>
    [] High(ps[1]) /\ Len(ps) > 1 -> <<65536 + (ps[1] - 55296) * 1024 + (ps[2] - 56320)>> \o Paired(SubSeq(ps, 3, Len(ps)))
    [] OTHER -> <<ps[1]>> \o Paired(Tail(ps))
LoneHigh(ps) == \E i \in DOMAIN ps : High(ps[i]) /\ ~(i < Len(ps) /\ Low(ps[i + 1]))
PairInside(ps) == \E i \in DOMAIN ps : High(ps[i]) /\ i + 1 < Len(ps)

\* A string has the characters its text stands for, and one with half a pair is
\* refused.
StringRead ==
  LET r == parse(TheText) IN
  shape.kind = "string" =>
    /\ r.ok = ~LoneHigh(ThePoints)
    /\ r.ok => Points(r.value.text) = Paired(ThePoints)

\* What ytfs takes metadata.json to say is what it says, as long as no character
\* comes behind a pair of surrogates (json.hpp:6690-7130).
MetadataRead == ParsesGrammar /\ (PairInside(ThePoints) \/ StringRead)
=============================================================================
