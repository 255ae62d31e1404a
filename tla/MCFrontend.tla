----------------------------- MODULE MCFrontend -----------------------------
(* Programs written from all trees of one operator in another and from blocks, *)
(* inputs that end or break off in every state of the scanner, and prompts.    *)
EXTENDS FrontendSpec, Automaton

x == Leaf("identifier", "x")
s == Leaf("string", "s")
one == Leaf("integer", "1")
no == Leaf("singleton", "None")

\* One tree for each operator, with the operand under test on the left or right.
Around(e) ==
  {Node(op, <<e, x>>) : op \in {"or", "and", "LT", "SUBTRACT", "MULTIPLY", "subscript"}}
  \cup {Node(op, <<one, e>>) : op \in {"or", "and", "EQUALS", "ADD", "DIVIDE", "subscript"}}
  \cup {Node(op, <<e>>) : op \in {"not", "NEGATE", "call", "list"}}
  \cup {Node("call", <<x, s, e>>), Node("dict", <<e, no, s, e>>)}
Expressions == {Node("list", <<>>), Node("dict", <<>>), no, s} \cup UNION {Around(e) : e \in Around(x)}

simple(n) == Node("sequence", <<n>>)
file(stmts) == Node("sequence", stmts)
assign == Node("assign", <<x, one>>)
both == Node("sequence", <<assign, Node("del", <<x>>)>>)
block == Node("sequence", <<simple(assign), both>>)
While(body) == Node("while", <<x, body>>)
If(body, rest) == Node("if", <<x, body, rest>>)
Blocks3 == {block, both, Node("sequence", <<While(block)>>)}
Programs ==
  {file(<<simple(e)>>) : e \in Expressions}
  \cup {file(<<If(b, If(c, NULL)), simple(x)>>) : b, c \in Blocks3}
  \cup {file(<<simple(x), If(b, c)>>) : b, c \in Blocks3}
  \cup {file(<<If(both, If(block, If(both, block)))>>), file(<<While(block), While(both)>>)}
FromTrees == {[stream |-> "script", lines |-> Render(t), tree |-> t] : t \in Programs}

\* Lines by hand.
Tokens(names) == [k \in DOMAIN names |-> IF names[k] = "x" THEN TokenOf(x) ELSE Token(names[k])]
L(ws, names) == [ws |-> ws, body |-> Tokens(names), nl |-> TRUE]
Open(ws, names) == [L(ws, names) EXCEPT !.nl = FALSE]
sp == <<"space">>
Head1 == L(<<>>, <<"IF", "x", "COLON">>)
Long == [name |-> "STRING", text |-> "long", length |-> 70]
deep == [k \in 1 .. 13 |-> "LPAREN"]
shut == [k \in 1 .. 13 |-> "RPAREN"]

Lists ==
  { <<>>, <<Open(<<>>, <<"x">>)>>, <<L(<<>>, <<"x">>), Open(sp, <<>>)>>, <<L(<<>>, <<"x">>), Open(<<>>, <<"#">>)>>,
    <<L(<<>>, <<"x">>), L(sp, <<"#">>), L(<<>>, <<>>)>>, <<L(<<>>, <<"x", "#">>)>>, <<L(sp, <<"x">>)>>,
    <<L(<<>>, <<"LBRACKET", "x", "COMMA">>), L(sp, <<"x">>), L(<<>>, <<"RBRACKET", "PLUS", "BACKSLASH">>), L(sp \o sp, <<"x">>)>>,
    <<L(<<>>, <<"LBRACE", "x", "COLON">>), L(<<>>, <<"x", "RBRACE">>), L(<<>>, <<"x">>)>>,
    <<L(<<>>, <<"LPAREN", "x">>), L(<<>>, <<"RPAREN", "RPAREN">>), L(<<>>, <<"x">>)>>,
    <<L(<<>>, <<"LPAREN", "x">>)>>, <<L(<<>>, <<"LBRACE", "x">>), L(<<>>, <<"#">>)>>,
    <<Head1, L(sp, <<"x">>), L(<<>>, <<>>), L(<<>>, <<"x">>)>>,
    <<Head1, L(sp, <<"x">>), L(<<>>, <<"x">>), L(<<>>, <<>>)>>,
    <<Head1, Open(sp, <<"x">>)>>, <<Head1>>, <<Head1, L(sp, <<"x">>)>>, <<Head1, L(<<>>, <<"x">>)>>,
    <<Head1, L(<<"tab">>, <<"IF", "x", "COLON">>), L(<<"space", "tab", "space">>, <<"x">>), L(sp \o sp, <<"x">>), L(<<>>, <<>>)>>,
    <<Head1, L(sp, <<"IF", "x", "COLON">>), L(sp \o sp, <<"WHILE", "x", "COLON">>), L(<<"tab">>, <<"x">>)>>,
    <<L(<<>>, deep \o <<"x">> \o shut)>>, <<L(<<>>, deep \o deep)>>, <<L(<<>>, <<"x", "FLOAT">>), L(<<>>, <<"x">>)>>,
    <<L(<<>>, <<"x", "LT", "x", "LT", "x">>)>>, <<L(<<>>, <<"BREAK">>)>>,
    <<[ws |-> <<>>, body |-> <<Long, Token("SEMICOLON"), Long>>, nl |-> TRUE]>> }

Interactive(lines) == \A k \in DOMAIN lines : lines[k].nl
ByHand == {[stream |-> "script", lines |-> l] : l \in Lists}
          \cup {[stream |-> "tty", lines |-> l] : l \in {m \in Lists : Interactive(m)}}

MCScripts == FromTrees \cup ByHand \cup {[stream |-> "missing", lines |-> <<>>]}
MCCommandLines == {<<>>, <<"d", "h">>, <<"m0">>, <<"m", "?">>}
=============================================================================
