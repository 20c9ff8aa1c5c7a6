------------------------------ MODULE MCAmounts ------------------------------
(* Numbers of up to three digits around the bounds, strings that end in    *)
(* every way a string may, and times on both sides of a second.            *)
EXTENDS Amounts

Mark(m, digits) == [mark |-> m, digits |-> digits]
Text(neg, int, point, frac, exp) ==
    [neg |-> neg, int |-> int, point |-> point, frac |-> frac, exp |-> exp]

MCNumbers ==
    {[kind |-> "literal",
      num |-> Text(neg, int, frac # <<>>, frac, exp)] :
        neg \in BOOLEAN,
        int \in {<<0>>, <<7>>, <<1, 0>>, <<1, 6>>, <<3, 1>>, <<3, 3>>, <<0, 7>>, <<9, 9>>, <<1, 0, 0>>},
        frac \in {<<>>, <<3>>, <<5>>, <<9, 9>>},
        exp \in {NoExp, Mark("", <<1>>), Mark("-", <<1>>), Mark("+", <<0, 1>>)}}

MCStrings ==
    {[kind |-> "string", body |-> FlattenSeq(pieces)] :
        pieces \in SeqOf({<<"7">>, <<"\\", "\"">>, <<"\\", "\\">>, <<",">>}, 3)}

MCValues == MCNumbers \cup MCStrings
MCFollowing ==
    {[kind |-> "literal", num |-> Text(FALSE, <<3, 3>>, FALSE, <<>>, NoExp)],
     [kind |-> "literal", num |-> Text(TRUE, <<3, 3>>, TRUE, <<5, 5>>, NoExp)],
     [kind |-> "string", body |-> <<"7", "7">>]}

MCBodies ==
    {[shape |-> shape, values |-> <<v>>] : shape \in {"value", "object"}, v \in MCValues}
    \cup {[shape |-> "list", values |-> <<v, w>>] : v \in MCValues, w \in MCFollowing}
    \cup {[shape |-> "cut", values |-> <<v>>] : v \in MCStrings}
    \cup {[shape |-> "list", values |-> <<w, v>>] : v \in MCStrings, w \in MCFollowing}

(* Fractions that are no doubles: the one rounds to an integer.            *)
MCFractions ==
    {[shape |-> "value",
      values |-> <<[kind |-> "literal", num |-> Text(FALSE, <<7>>, TRUE, frac, NoExp)]>>] :
        frac \in {<<3>>, <<9, 9>>}}

MCTyped ==
    {Text(neg, int, point, frac, exp) :
        neg \in BOOLEAN,
        int \in {<<>>, <<0>>, <<5>>, <<0, 5>>, <<9, 9>>, <<1, 0>>, <<9, 9, 9>>, <<1, 0, 0, 0>>},
        point \in {FALSE}, frac \in {<<>>},
        exp \in {NoExp, Mark("", <<1>>), Mark("-", <<1>>), Mark("-", <<4>>), Mark("+", <<5>>)}}
    \cup
    {Text(neg, int, TRUE, frac, exp) :
        neg \in BOOLEAN,
        int \in {<<>>, <<0>>, <<5>>, <<9, 9>>},
        frac \in {<<>>, <<4>>, <<5>>, <<0, 5>>, <<4, 9>>, <<9, 5>>, <<9, 9, 9>>, <<0, 0, 5>>, <<9, 9, 9, 5>>},
        exp \in {NoExp, Mark("", <<1>>), Mark("", <<2>>), Mark("-", <<1>>), Mark("-", <<4>>)}}

MCTimes == {-401, -400, -399, -21, -20, -1, 0, 1, 2, 19, 20, 21, 199, 200, 201, 380, 399, 400}
MCStamps == {[seconds |-> s, nanos |-> n] : s \in 0..2, n \in {<<0>>, <<5>>, <<0, 9>>, <<1, 0>>, <<9, 9>>}}
=============================================================================
