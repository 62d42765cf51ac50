----------------------------- MODULE MCJsonText -----------------------------
(***************************************************************************)
(* JsonText for TLC: tokens in every order, the characters of numbers, and *)
(* strings of plain, escaped and coded characters.                         *)
(***************************************************************************)
EXTENDS JsonText, TLC

P(text, tokens, means) == [text |-> text, tokens |-> tokens, means |-> means]
Nothing == P(<<>>, <<>>, <<>>)
Shape(kind, open, ps, close, most) == [kind |-> kind, open |-> open, pieces |-> ps, close |-> close, most |-> most]

Brackets == {P(<<c>>, <<Punctuation[c]>>, <<>>) : c \in DOMAIN Punctuation}
StringA == P(<<QUOTE, 97, QUOTE>>, <<"string">>, <<>>)
True == P(Literals["true"], <<"true">>, <<>>)
One == P(<<49, 32>>, <<"number">>, <<>>)
NullLine == P(<<LF>> \o Literals["null"] \o <<13, LF>>, <<"null">>, <<>>)
Member(c) == P(<<QUOTE, c, QUOTE, 58, 49, 32>>, <<"string", ":", "number">>, <<>>)
Comma == P(<<44, LF>>, <<",">>, <<>>)

Code(a, b, c, d) == <<BACKSLASH, LETTER_U, a, b, c, d>>
Quoted == P(<<QUOTE>>, <<>>, <<>>)
Characters ==
  {P(<<120>>, <<>>, <<120>>), P(<<31>>, <<>>, <<31>>), P(<<BACKSLASH, 110>>, <<>>, <<LF>>),
   P(<<BACKSLASH, BACKSLASH>>, <<>>, <<BACKSLASH>>), P(<<BACKSLASH, QUOTE>>, <<>>, <<QUOTE>>),
   P(Code(48, 48, 69, 57), <<>>, <<233>>), P(Code(48, 55, 102, 102), <<>>, <<2047>>),
   P(Code(48, 56, 48, 48), <<>>, <<2048>>), P(Code(70, 70, 70, 70), <<>>, <<65535>>),
   P(Code(100, 56, 51, 99), <<>>, <<55356>>), P(Code(100, 98, 102, 102), <<>>, <<56319>>),
   P(Code(68, 70, 66, 53), <<>>, <<57269>>)}

MCShapes ==
  {Shape("tokens", Nothing, Brackets \cup {StringA, One}, Nothing, 5),
   Shape("tokens", P(<<91>>, <<"[">>, <<>>), {Comma, True, NullLine, StringA}, P(<<93, LF>>, <<"]">>, <<>>), 4),
   Shape("tokens", P(<<123>>, <<"{">>, <<>>), {Comma, Member(97)}, P(<<125>>, <<"}">>, <<>>), 1),
   Shape("tokens", P(<<123>>, <<"{">>, <<>>), {Comma, Member(98), One}, P(<<44>> \o Member(97).text \o <<125>>, <<",", "string", ":", "number", "}">>, <<>>), 2),
   Shape("number", Nothing, {P(<<c>>, <<>>, <<>>) : c \in {43, 45, 46, 48, 49, 69}}, Nothing, 5),
   Shape("string", Quoted, Characters, Quoted, 3)}

JsonSpec == JsonInit /\ [][Extend]_jsonVars
=============================================================================
