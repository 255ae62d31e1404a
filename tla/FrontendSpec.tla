---------------------------- MODULE FrontendSpec -----------------------------
(***************************************************************************)
(* What Subpython's front end promises: a program written down from a      *)
(* syntax tree, with the parentheses Python's precedences call for and one *)
(* more space per block, is parsed back to that tree, and the tree of any  *)
(* accepted input shows all of its tokens in their order.                  *)
(***************************************************************************)
EXTENDS Frontend

BinaryToken ==
  [or |-> "OR", and |-> "AND", EQUALS |-> "EQUALS", LT |-> "LT", GT |-> "GT", LE |-> "LE", GE |-> "GE",
   ADD |-> "PLUS", SUBTRACT |-> "MINUS", MULTIPLY |-> "ASTERISK", DIVIDE |-> "FSLASH", MODULO |-> "PERCENT"]
UnaryToken == [not |-> "NOT", IDENTITY |-> "PLUS", NEGATE |-> "MINUS"]
SingletonToken == [None |-> "NONE", True |-> "TRUE", False |-> "FALSE"]
LeafToken == [identifier |-> "IDENT", string |-> "STRING", integer |-> "INTEGER"]

Precedence(n) ==
  CASE n.type = "or" -> 1 [] n.type = "and" -> 2 [] n.type = "not" -> 3
    [] n.type \in {"EQUALS", "LT", "GT", "LE", "GE"} -> 4
    [] n.type \in {"ADD", "SUBTRACT"} -> 5 [] n.type \in {"MULTIPLY", "DIVIDE", "MODULO"} -> 6
    [] n.type \in {"IDENTITY", "NEGATE"} -> 7 [] OTHER -> 8

TokenOf(n) ==
  IF n.type = "singleton" THEN Token(SingletonToken[n.text])
  ELSE [name |-> LeafToken[n.type], text |-> n.text, length |-> 1]

\* Sequences joined by a token.
Joined(seqs, name) ==
  FoldLeft(LAMBDA all, s : IF all = <<>> THEN s ELSE all \o <<Token(name)>> \o s, <<>>, seqs)

\* The tokens of an expression in a place that wants at least this precedence.
RECURSIVE Expr(_, _)
Expr(n, level) ==
  LET p == Precedence(n)
      k == n.kids
      All(from) == [j \in 1 .. Len(k) - from + 1 |-> Expr(k[j + from - 1], 1)]
      Pairs == [j \in 1 .. Len(k) \div 2 |-> Expr(k[2 * j - 1], 1) \o <<Token("COLON")>> \o Expr(k[2 * j], 1)]
      tokens ==
        CASE n.type \in DOMAIN BinaryToken ->
               Expr(k[1], IF p = 4 THEN 5 ELSE p) \o <<Token(BinaryToken[n.type])>> \o Expr(k[2], p + 1)
          [] n.type \in DOMAIN UnaryToken -> <<Token(UnaryToken[n.type])>> \o Expr(k[1], p)
          [] n.type = "call" ->
               Expr(k[1], 8) \o <<Token("LPAREN")>> \o Joined(All(2), "COMMA") \o <<Token("RPAREN")>>
          [] n.type = "subscript" ->
               Expr(k[1], 8) \o <<Token("LBRACKET")>> \o Expr(k[2], 1) \o <<Token("RBRACKET")>>
          [] n.type = "list" -> <<Token("LBRACKET")>> \o Joined(All(1), "COMMA") \o <<Token("RBRACKET")>>
          [] n.type = "dict" -> <<Token("LBRACE")>> \o Joined(Pairs, "COMMA") \o <<Token("RBRACE")>>
          [] OTHER -> <<TokenOf(n)>>
  IN  IF p < level THEN <<Token("LPAREN")>> \o tokens \o <<Token("RPAREN")>> ELSE tokens

Small(n) ==
  CASE n.type = "assign" -> Expr(n.kids[1], 1) \o <<Token("ASSIGN")>> \o Expr(n.kids[2], 1)
    [] n.type = "del" -> <<Token("DEL")>> \o Expr(n.kids[1], 1)
    [] OTHER -> Expr(n, 1)

Line(depth, tokens) == [ws |-> [k \in 1 .. depth |-> "space"], body |-> tokens, nl |-> TRUE]

Compound == {"sequence", "if", "while"}

\* The lines of a statement; a suite of small statements stays on its line.
RECURSIVE Lines(_, _, _), Suite(_, _, _)
Lines(n, depth, word) ==
  CASE n.type = "sequence" ->
         <<Line(depth, Joined([j \in DOMAIN n.kids |-> Small(n.kids[j])], "SEMICOLON"))>>
    [] n.type = "while" ->
         Suite(depth, <<Token("WHILE")>> \o Expr(n.kids[1], 1) \o <<Token("COLON")>>, n.kids[2])
    [] n.type = "if" ->
         Suite(depth, <<Token(word)>> \o Expr(n.kids[1], 1) \o <<Token("COLON")>>, n.kids[2])
         \o CASE n.kids[3] = NULL -> <<>>
              [] n.kids[3].type = "if" -> Lines(n.kids[3], depth, "ELIF")
              [] OTHER -> Suite(depth, <<Token("ELSE"), Token("COLON")>>, n.kids[3])
Suite(depth, head, body) ==
  IF body.kids[1].type \in Compound
  THEN <<Line(depth, head)>> \o FoldLeft(LAMBDA all, s : all \o Lines(s, depth + 1, "IF"), <<>>, body.kids)
  ELSE <<Line(depth, head \o Lines(body, 0, "IF")[1].body)>>

Render(tree) == FoldLeft(LAMBDA all, s : all \o Lines(s, 0, "IF"), <<>>, tree.kids)

-----------------------------------------------------------------------------
\* The words of a tree in the order of the text, without punctuation.
RECURSIVE Yield(_)
Yield(n) ==
  LET k == n.kids
      All == FoldLeft(LAMBDA all, x : all \o Yield(x), <<>>, k)
  IN  CASE n.type \in DOMAIN BinaryToken -> Yield(k[1]) \o <<BinaryToken[n.type]>> \o Yield(k[2])
        [] n.type \in DOMAIN UnaryToken  -> <<UnaryToken[n.type]>> \o Yield(k[1])
        [] n.type = "assign"    -> Yield(k[1]) \o <<"ASSIGN">> \o Yield(k[2])
        [] n.type = "del"       -> <<"DEL">> \o All
        [] n.type = "while"     -> <<"WHILE">> \o All
        [] n.type = "if"        -> <<"IF">> \o Yield(k[1]) \o Yield(k[2]) \o
                                   CASE k[3] = NULL -> <<>>
                                     [] k[3].type = "if" -> <<"ELIF">> \o Tail(Yield(k[3]))
                                     [] OTHER -> <<"ELSE">> \o Yield(k[3])
        [] n.type = "subscript" -> Yield(k[1]) \o <<"LBRACKET">> \o Yield(k[2]) \o <<"RBRACKET">>
        [] n.type = "list"      -> <<"LBRACKET">> \o All \o <<"RBRACKET">>
        [] n.type = "dict"      -> <<"LBRACE">> \o All \o <<"RBRACE">>
        [] n.type = "singleton" -> <<SingletonToken[n.text]>>
        [] n.type \in DOMAIN LeafToken -> <<n.text>>
        [] OTHER -> All

Punctuation == {"START_SINGLE", "START_FILE", "SEMICOLON", "LINE_END", "INPUT_END", "INDENT", "DEDENT",
                "LPAREN", "RPAREN", "COMMA", "COLON"}
Words(tokens) ==
  LET kept == SelectSeq(tokens, LAMBDA x : x.name \notin Punctuation)
  IN  [j \in DOMAIN kept |-> IF kept[j].text = "" THEN kept[j].name ELSE kept[j].text]

-----------------------------------------------------------------------------
\* An accepted input is all in the tree: no token of a statement is dropped, repeated
\* or moved, neither by the scanner's joining of lines nor by the lists' appends.
NothingLost == phase = "eval" /\ result = RESULT_SUCCESS => Yield(root) = Words(seen)

\* The tables and actions give every expression the operands that Python's precedence
\* and associativity give it, and every block the statements indented under
\* it; what was not written down from a tree is in the tree without loss.
ParsesBack ==
  /\ NothingLost
  /\ phase = "eval" /\ result # RESULT_OOM /\ "tree" \in DOMAIN script =>
       result = RESULT_SUCCESS /\ root = script.tree
=============================================================================
