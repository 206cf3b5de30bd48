---------------------------- MODULE SqlExpression ----------------------------
(***************************************************************************)
(* Conditions written as SQL (sql_expr_parser.cpp): the lexer and the       *)
(* recursive descent, which answers with a condition or refuses the text.   *)
(* A text is a sequence of pieces: words, digits, signs, quotes, blanks.    *)
(* Numbers are whole.  An exception of the code is a result that is not ok. *)
(***************************************************************************)
EXTENDS Conditions

CONSTANTS
    MaxDepth,       \* kMaxDepth, the nesting that is read
    Words,          \* the pieces that are words
    UpperOf,        \* the words and their capital form
    AnyMatchWords   \* the words that begin with any_match

Digits == {"0", "1", "2", "3", "4", "5", "6", "7", "8", "9"}
DigitOf(piece) == CHOOSE n \in 0..9 : ToString(n) = piece
Blank == " "
Quotes == {"'", "\""}
WordPieces == Words \union Digits \union {"_"}
Upper(piece) == IF piece \in DOMAIN UpperOf THEN UpperOf[piece] ELSE piece

Trim(text) ==
    LET solid == {i \in DOMAIN text : text[i] # Blank}
    IN IF solid = {} THEN <<>> ELSE SubSeq(text, Min(solid), Max(solid))

\* The first place in a set of places, or past the end.
FirstOf(places, text) == IF places = {} THEN Len(text) + 1 ELSE Min(places)

-----------------------------------------------------------------------------
(* The lexer *)

NumberIn(pieces) ==
    LET digits == SelectSeq(pieces, LAMBDA p : p \in Digits)
        size == FoldLeft(LAMBDA n, p : 10 * n + DigitOf(p), 0, digits)
    IN IF pieces[1] = "-" THEN -size ELSE size

Token(kind, text, num, next) == [kind |-> kind, text |-> text, num |-> num, next |-> next]

\* The token at a place that is not blank, and where the next one begins.
TokenAt(text, at) ==
    LET piece == text[at]
        run(from, set) == FirstOf({i \in from..Len(text) : text[i] \notin set}, text)
        word == run(at, WordPieces \union {"."})
        number == run(at + 1, Digits)
        quote == FirstOf({i \in (at + 1)..Len(text) : text[i] = piece}, text)
        joined == at < Len(text) /\ (text[at + 1] = "=" \/ (piece = "<" /\ text[at + 1] = ">"))
        taken(next) == SubSeq(text, at, next - 1)
    IN CASE piece \in {"(", ")", ","} -> Token(piece, <<piece>>, 0, at + 1)
         [] piece \in Quotes -> IF quote > Len(text) THEN Token("BAD", <<>>, 0, quote)
                                ELSE Token("STRING", SubSeq(text, at + 1, quote - 1), 0, quote + 1)
         [] piece \in {">", "<", "=", "!"} ->
              Token("OP", IF joined THEN <<piece, text[at + 1]>> ELSE <<piece>>, 0,
                    IF joined THEN at + 2 ELSE at + 1)
         [] piece \in Digits \union {"-", "+"} ->
              IF \E p \in ToSet(taken(number)) : p \in Digits
              THEN Token("NUMBER", taken(number), NumberIn(taken(number)), number)
              ELSE Token("BAD", <<>>, 0, number)
         [] piece \in Words \union {"_"} -> Token("IDENT", taken(word), 0, word)
         [] OTHER -> Token("BAD", <<>>, 0, at + 1)

RECURSIVE TokensFrom(_, _)
TokensFrom(text, at) ==
    IF at > Len(text) THEN <<Token("END", <<>>, 0, at)>>
    ELSE IF text[at] = Blank THEN TokensFrom(text, at + 1)
    ELSE LET token == TokenAt(text, at) IN <<token>> \o TokensFrom(text, token.next)

Keyword(token, word) == token.kind = "IDENT" /\ Len(token.text) = 1 /\ Upper(token.text[1]) = word

-----------------------------------------------------------------------------
(* The descent: a result holds the conditions read and the place after them *)

Refused == [ok |-> FALSE, nodes |-> <<>>, at |-> 0]
Read(node, at) == [ok |-> TRUE, nodes |-> <<node>>, at |-> at]

NumericOp(op) ==
    CASE op = <<">">> -> "GT" [] op = <<"<">> -> "LT" [] op = <<">", "=">> -> "GTE"
      [] op = <<"<", "=">> -> "LTE" [] op \in {<<"=">>, <<"=", "=">>} -> "EQ"
      [] op \in {<<"!", "=">>, <<"<", ">">>} -> "NEQ" [] OTHER -> "INVALID"

RECURSIVE NumberText(_)
NumberText(n) ==
    IF n < 0 THEN <<"-">> \o NumberText(-n)
    ELSE IF n < 10 THEN <<ToString(n)>> ELSE Append(NumberText(n \div 10), ToString(n % 10))

IsValue(token) == token.kind \in {"NUMBER", "STRING", "IDENT"}
ValueText(token) == IF token.kind = "NUMBER" THEN NumberText(token.num) ELSE token.text

\* The values up to the one no comma follows; a list may be empty and may end in a comma.
RECURSIVE ListFrom(_, _)
ListFrom(toks, at) ==
    CASE toks[at].kind = ")" -> [ok |-> TRUE, texts |-> <<>>, at |-> at + 1]
      [] toks[at].kind # ")" /\ ~IsValue(toks[at]) -> [ok |-> FALSE, texts |-> <<>>, at |-> at]
      [] OTHER ->
           LET comma == toks[at + 1].kind = ","
               rest == IF comma THEN ListFrom(toks, at + 2)
                       ELSE [ok |-> toks[at + 1].kind = ")", texts |-> <<>>, at |-> at + 2]
           IN [rest EXCEPT !.texts = <<ValueText(toks[at])>> \o @]

\* A pattern without a sign of its own is looked for anywhere.
LikeCondition(field, pattern) ==
    LET lead == pattern # <<>> /\ Head(pattern) = "%"
        trail == pattern # <<>> /\ Last(pattern) = "%"
        tail == IF lead THEN Tail(pattern) ELSE pattern
        core == IF trail /\ tail # <<>> THEN Front(tail) ELSE tail
    IN Condition("String", CASE lead = trail -> "CONTAINS" [] trail /\ ~lead -> "STARTS_WITH"
                             [] OTHER -> "ENDS_WITH", <<field>>, <<0>>, <<core>>)

ParseComparison(toks, at) ==
    LET field == toks[at].text
        is(i, word) == Keyword(toks[at + i], word)
        negated == IF is(1, "NOT") THEN 1 ELSE 0
        list == ListFrom(toks, at + 3 + negated)
        op == toks[at + 1].text
        value == toks[at + 2]
        null == Condition("Null", IF is(2, "NOT") THEN "IS_NOT_NULL" ELSE "IS_NULL", <<field>>, <<>>, <<>>)
    IN CASE toks[at].kind # "IDENT" -> Refused
         [] toks[at].kind = "IDENT" /\ is(1, "IS") ->
              IF is(2, "NULL") THEN Read(null, at + 3)
              ELSE IF is(2, "NOT") /\ is(3, "NULL") THEN Read(null, at + 4) ELSE Refused
         [] toks[at].kind = "IDENT" /\ (is(1, "IN") \/ is(1, "NOT")) ->
              IF is(1 + negated, "IN") /\ toks[at + 2 + negated].kind = "(" /\ list.ok
              THEN Read(Condition("Categorical", IF negated = 1 THEN "NOT_IN" ELSE "IN",
                                  <<field>>, <<>>, list.texts), list.at)
              ELSE Refused
         [] toks[at].kind = "IDENT" /\ is(1, "BETWEEN") ->
              IF value.kind = "NUMBER" /\ is(3, "AND") /\ toks[at + 4].kind = "NUMBER"
              THEN Read(Condition("NumericRange", "BETWEEN_INCLUDING", <<field>>,
                                  <<value.num, toks[at + 4].num>>, <<>>), at + 5)
              ELSE Refused
         [] toks[at].kind = "IDENT" /\ (is(1, "LIKE") \/ is(1, "ILIKE")) ->
              IF value.kind = "STRING" THEN Read(LikeCondition(field, value.text), at + 3) ELSE Refused
         [] OTHER ->
              IF toks[at + 1].kind # "OP" \/ ~IsValue(value) THEN Refused
              ELSE IF value.kind = "NUMBER" /\ NumericOp(op) # "INVALID"
              THEN Read(Condition("Numeric", NumericOp(op), <<field>>, <<value.num>>, <<>>), at + 3)
              ELSE IF value.kind # "NUMBER" /\ NumericOp(op) \in {"EQ", "NEQ"}
              THEN Read(Condition("Categorical", NumericOp(op), <<field>>, <<>>, <<value.text>>), at + 3)
              ELSE Refused

\* A mutant: the loop for AND makes the node of the loop for OR.
Joined_AsOr(kind, result) ==
    IF result.ok /\ Len(result.nodes) > 1
    THEN [result EXCEPT !.nodes = <<Junction("Or", result.nodes)>>] ELSE result
\* One operand stands for itself.
Joined(kind, result) ==
    IF result.ok /\ Len(result.nodes) > 1
    THEN [result EXCEPT !.nodes = <<Junction(kind, result.nodes)>>] ELSE result

\* What becomes of an operand: it is negated, or it ends in a parenthesis.
Negated(operand) == IF operand.ok THEN Read(Junction("Not", operand.nodes), operand.at) ELSE Refused
Closed(toks, inner) == IF inner.ok /\ toks[inner.at].kind = ")" THEN [inner EXCEPT !.at = @ + 1] ELSE Refused

RECURSIVE ParseOr(_, _, _), ParseAnd(_, _, _), ParseNot(_, _, _), Operands(_, _, _, _), After(_, _, _, _)
\* Operands with a word between them.
Operands(word, toks, at, depth) ==
    After(IF word = "OR" THEN ParseAnd(toks, at, depth) ELSE ParseNot(toks, at, depth), word, toks, depth)
After(first, word, toks, depth) ==
    IF ~first.ok \/ ~Keyword(toks[first.at], word) THEN first
    ELSE [Operands(word, toks, first.at + 1, depth) EXCEPT !.nodes = first.nodes \o @]
ParseOr(toks, at, depth) ==
    IF depth >= MaxDepth THEN Refused ELSE Joined("Or", Operands("OR", toks, at, depth + 1))
ParseAnd(toks, at, depth) == Joined("And", Operands("AND", toks, at, depth))
ParseNot(toks, at, depth) ==
    CASE depth >= MaxDepth -> Refused
      [] depth < MaxDepth /\ Keyword(toks[at], "NOT") -> Negated(ParseNot(toks, at + 1, depth + 1))
      [] depth < MaxDepth /\ toks[at].kind = "(" -> Closed(toks, ParseOr(toks, at + 1, depth + 1))
      [] OTHER -> ParseComparison(toks, at)

\* The whole text, or nothing.
AtEnd(toks, result) == IF result.ok /\ toks[result.at].kind = "END" THEN result ELSE Refused
ParseTokens(toks) ==
    IF \E i \in DOMAIN toks : toks[i].kind = "BAD" THEN Refused ELSE AtEnd(toks, ParseOr(toks, 1, 0))
ParseText(text) == ParseTokens(TokensFrom(text, 1))

-----------------------------------------------------------------------------
(* any_match(path, alias -> condition), which is read only as a whole text *)

\* Every "alias." that no letter precedes goes, in string literals too.
RECURSIVE StripAlias(_, _, _)
StripAlias(body, alias, at) ==
    LET prefix == Append(alias, ".")
        here == SubSeq(body, at, at + Len(prefix) - 1) = prefix
        boundary == at = 1 \/ body[at - 1] \notin WordPieces
    IN IF at + Len(prefix) - 1 > Len(body) THEN body
       ELSE IF here /\ boundary
       THEN StripAlias(SubSeq(body, 1, at - 1) \o SubSeq(body, at + Len(prefix), Len(body)), alias, at)
       ELSE StripAlias(body, alias, IF here THEN at + Len(prefix) ELSE at + 1)

\* The first comma outside quotes and parentheses, or past the end.
RECURSIVE CommaFrom(_, _, _, _)
CommaFrom(text, at, nesting, quote) ==
    CASE at > Len(text) -> at
      [] at <= Len(text) /\ quote # Blank ->
           CommaFrom(text, at + 1, nesting, IF text[at] = quote THEN Blank ELSE quote)
      [] at <= Len(text) /\ quote = Blank /\ text[at] = "," /\ nesting = 0 -> at
      [] OTHER ->
           CommaFrom(text, at + 1,
                     nesting + (CASE text[at] = "(" -> 1 [] text[at] = ")" -> -1 [] OTHER -> 0),
                     IF text[at] \in Quotes THEN text[at] ELSE Blank)

ArrayAny(path, where, text) ==
    [Condition("ArrayAny", "NONE", <<<<"array_any", path, text>>>>, <<>>, <<path>>)
        EXCEPT !.children = where]

IsAnyMatch(text) == Trim(text) # <<>> /\ Head(Trim(text)) \in AnyMatchWords
\* A text cut at a place, the parts without blanks around them; no part when the place is past its end.
CutAt(text, at, width) ==
    IF at > Len(text) THEN <<>>
    ELSE <<Trim(SubSeq(text, 1, at - 1)), Trim(SubSeq(text, at + width, Len(text)))>>
ArrowIn(lambda) == FirstOf({i \in 1..(Len(lambda) - 1) : lambda[i] = "-" /\ lambda[i + 1] = ">"}, lambda)
Matched(path, nested, text) == IF nested.ok THEN Read(ArrayAny(path, nested.nodes, text), 0) ELSE Refused
\* The alias and the body, then the path and the lambda, then the call.
ParseLambda(path, parts, text) ==
    IF path = <<>> \/ parts = <<>> \/ (\E i \in DOMAIN parts : parts[i] = <<>>) THEN Refused
    ELSE Matched(path, ParseText(StripAlias(parts[2], parts[1], 1)), text)
ParseArguments(parts, text) ==
    IF parts = <<>> THEN Refused ELSE ParseLambda(parts[1], CutAt(parts[2], ArrowIn(parts[2]), 2), text)
ParseCall(whole, text) ==
    LET open == FirstOf({i \in DOMAIN whole : whole[i] = "("}, whole)
        inner == SubSeq(whole, open + 1, Len(whole) - 1)
    IN IF open > Len(whole) \/ Last(whole) # ")" THEN Refused
       ELSE ParseArguments(CutAt(inner, CommaFrom(inner, 1, 0, Blank), 1), text)
ParseAnyMatch(text) == ParseCall(Trim(text), text)

ParseSqlExpression(text) == IF IsAnyMatch(text) THEN ParseAnyMatch(text) ELSE ParseText(text)
=============================================================================
