------------------------------ MODULE Grammar --------------------------------
(***************************************************************************)
(* The tables and the semantic actions of Subpython's grammar (project05   *)
(* grammar.y.c, made by bison) and the nodes they allocate (ast.c).        *)
(*                                                                         *)
(* A node is a record of its type, its text if it has one and its          *)
(* children; a NodeList is the sequence of its nodes, a pair of lists a    *)
(* pair of sequences.  Tables are indexed from 0 as in C.                  *)
(***************************************************************************)
EXTENDS Integers, Sequences, TLC

yytname == <<
  "$end", "error", "$undefined", "START_SINGLE", "START_FILE", "SEMICOLON", "LINE_END",
  "INPUT_END", "INDENT", "DEDENT", "INDENT_ERROR", "INDENT_OVERFLOW", "IF", "ELIF", "ELSE", "DO",
  "WHILE", "CONTINUE", "BREAK", "DEL", "NONE", "TRUE", "FALSE", "ASSIGN", "EQUALS", "LT", "GT",
  "LE", "GE", "OR", "AND", "NOT", "PLUS", "MINUS", "ASTERISK", "FSLASH", "PERCENT", "LPAREN",
  "RPAREN", "LBRACKET", "RBRACKET", "LBRACE", "RBRACE", "COMMA", "COLON", "INVALID_TOKEN",
  "STRING", "INTEGER", "FLOAT", "IDENT" >>

\* The number of a token's symbol.
yytranslate == [name \in {yytname[k] : k \in DOMAIN yytname} |->
                  (CHOOSE k \in DOMAIN yytname : yytname[k] = name) - 1]

YYFINAL     == 48
YYLAST      == 309
YYNTOKENS   == 50
YYPACT_NINF == -71

at(table, n) == table[n + 1]

\* Where the row of a state starts in yytable.
yypact == <<
  44, 3, 117, 21, -71, -71, 238, 238, 238, -71, -71, -71, 238, 260, 260, 238, 171, 193, -71,
  -71, -71, -71, -71, 67, -71, 2, -71, -71, -71, -71, 16, 0, -71, -71, 33, 74, -71, 55, -71,
  -71, -71, -71, -71, 30, 149, -71, -71, -71, -71, -13, -12, 24, -71, -71, -71, -9, -71, 24,
  31, -71, -11, 39, -71, 58, -71, -71, 238, 238, 238, 260, 260, 260, 260, 260, 260, 260,
  260, 260, 260, 216, 238, -71, -71, 81, 81, -71, -71, 238, 238, -71, 238, -71, -71, 24, 0,
  -71, 93, 93, 93, 93, 93, 74, 74, -71, -71, -71, -71, 8, -2, 20, -71, 118, -71, 24, 24,
  -71, -71, -71, 149, 238, 11, -71, 76, -3, 81, -71, 81, -71, 118, -71 >>

\* The rule a state reduces by default; 0 is an error.
yydefact == <<
  0, 0, 0, 0, 5, 6, 0, 0, 0, 68, 69, 70, 0, 0, 0, 0, 0, 0, 66, 67, 58, 2, 7, 0, 16, 0, 18,
  19, 20, 21, 24, 32, 34, 36, 38, 44, 47, 51, 54, 59, 71, 72, 3, 0, 9, 10, 12, 13, 1, 0, 0,
  26, 37, 52, 53, 0, 73, 61, 0, 75, 0, 0, 63, 0, 14, 8, 0, 0, 0, 0, 0, 0, 0, 0, 0, 0, 0, 0,
  0, 0, 0, 4, 11, 0, 0, 60, 74, 0, 0, 76, 0, 15, 17, 25, 33, 35, 39, 40, 41, 42, 43, 45, 46,
  48, 49, 50, 55, 0, 0, 0, 22, 30, 31, 62, 65, 64, 56, 57, 0, 0, 0, 27, 0, 0, 0, 23, 0, 29,
  30, 28 >>

\* Where the column of a nonterminal starts in yytable.
yypgoto == <<
  -71, -71, -71, -51, -71, 49, -1, -71, 25, 95, -70, -71, -71, -71, -30, -71, -4, 52, -5,
  -71, 71, 60, -8, -71, -71, 27, -71, 26, -71, -71, -71 >>

\* The state a nonterminal leads to by default.
yydefgoto == <<
  -1, 3, 21, 43, 44, 45, 110, 23, 24, 47, 111, 26, 27, 28, 121, 29, 30, 31, 32, 33, 34, 35,
  36, 37, 38, 58, 61, 62, 39, 40, 41 >>

\* The state to go to.
yytable == <<
  22, 46, 49, 50, 51, 53, 54, 52, 65, 4, 5, 55, 57, 60, 112, 6, 67, 67, 67, 7, 67, 48, 8, 9,
  10, 11, 67, 67, 118, 85, 68, 83, 84, 88, 12, 13, 14, 81, 117, 66, 15, 126, 16, 46, 17, 67,
  116, 1, 2, 18, 19, 87, 20, 67, 127, 124, 128, 69, 70, 71, 72, 73, 93, 95, 91, 74, 75, 122,
  103, 104, 105, 86, 63, 64, 87, 57, 108, 8, 9, 10, 11, 89, 90, 113, 114, 125, 60, 109, 92,
  12, 13, 14, 79, 82, 80, 15, 25, 16, 129, 17, 8, 9, 10, 11, 18, 19, 107, 20, 76, 77, 78, 0,
  12, 13, 14, 123, 115, 46, 15, 94, 16, 0, 17, 0, 42, 74, 75, 18, 19, 6, 20, 119, 120, 7,
  101, 102, 8, 9, 10, 11, 96, 97, 98, 99, 100, 0, 0, 0, 12, 13, 14, 0, 0, 0, 15, 0, 16, 0,
  17, 0, 0, 6, 0, 18, 19, 7, 20, 0, 8, 9, 10, 11, 0, 0, 0, 0, 0, 0, 0, 0, 12, 13, 14, 0, 0,
  0, 15, 0, 16, 0, 17, 9, 10, 11, 0, 18, 19, 0, 20, 0, 0, 0, 12, 13, 14, 0, 0, 0, 15, 0, 16,
  56, 17, 9, 10, 11, 0, 18, 19, 0, 20, 0, 0, 0, 12, 13, 14, 0, 0, 0, 15, 0, 16, 0, 17, 59,
  9, 10, 11, 18, 19, 0, 20, 0, 0, 0, 0, 12, 13, 14, 0, 0, 0, 15, 106, 16, 0, 17, 9, 10, 11,
  0, 18, 19, 0, 20, 0, 0, 0, 12, 13, 14, 0, 0, 0, 15, 0, 16, 0, 17, 9, 10, 11, 0, 18, 19, 0,
  20, 0, 0, 0, 0, 13, 14, 0, 0, 0, 15, 0, 16, 0, 17, 0, 0, 0, 0, 18, 19, 0, 20 >>

\* The token (in a row) or state (in a column) an entry of yytable is for.
yycheck == <<
  1, 2, 6, 7, 8, 13, 14, 12, 6, 6, 7, 15, 16, 17, 84, 12, 29, 29, 29, 16, 29, 0, 19, 20, 21,
  22, 29, 29, 8, 38, 30, 44, 44, 44, 31, 32, 33, 7, 40, 23, 37, 44, 39, 44, 41, 29, 38, 3,
  4, 46, 47, 43, 49, 29, 124, 44, 126, 24, 25, 26, 27, 28, 66, 68, 6, 32, 33, 118, 76, 77,
  78, 40, 5, 6, 43, 79, 80, 19, 20, 21, 22, 42, 43, 87, 88, 9, 90, 6, 63, 31, 32, 33, 37,
  44, 39, 37, 1, 39, 128, 41, 19, 20, 21, 22, 46, 47, 79, 49, 34, 35, 36, -1, 31, 32, 33,
  119, 90, 118, 37, 67, 39, -1, 41, -1, 7, 32, 33, 46, 47, 12, 49, 13, 14, 16, 74, 75, 19,
  20, 21, 22, 69, 70, 71, 72, 73, -1, -1, -1, 31, 32, 33, -1, -1, -1, 37, -1, 39, -1, 41,
  -1, -1, 12, -1, 46, 47, 16, 49, -1, 19, 20, 21, 22, -1, -1, -1, -1, -1, -1, -1, -1, 31,
  32, 33, -1, -1, -1, 37, -1, 39, -1, 41, 20, 21, 22, -1, 46, 47, -1, 49, -1, -1, -1, 31,
  32, 33, -1, -1, -1, 37, -1, 39, 40, 41, 20, 21, 22, -1, 46, 47, -1, 49, -1, -1, -1, 31,
  32, 33, -1, -1, -1, 37, -1, 39, -1, 41, 42, 20, 21, 22, 46, 47, -1, 49, -1, -1, -1, -1,
  31, 32, 33, -1, -1, -1, 37, 38, 39, -1, 41, 20, 21, 22, -1, 46, 47, -1, 49, -1, -1, -1,
  31, 32, 33, -1, -1, -1, 37, -1, 39, -1, 41, 20, 21, 22, -1, 46, 47, -1, 49, -1, -1, -1,
  -1, 32, 33, -1, -1, -1, 37, -1, 39, -1, 41, -1, -1, -1, -1, 46, 47, -1, 49 >>

\* The symbol by which a state is entered.
yystos == <<
  0, 3, 4, 51, 6, 7, 12, 16, 19, 20, 21, 22, 31, 32, 33, 37, 39, 41, 46, 47, 49, 52, 56, 57,
  58, 59, 61, 62, 63, 65, 66, 67, 68, 69, 70, 71, 72, 73, 74, 78, 79, 80, 7, 53, 54, 55, 56,
  59, 0, 66, 66, 66, 68, 72, 72, 66, 40, 66, 75, 42, 66, 76, 77, 5, 6, 6, 23, 29, 30, 24,
  25, 26, 27, 28, 32, 33, 34, 35, 36, 37, 39, 7, 55, 44, 44, 38, 40, 43, 44, 42, 43, 6, 58,
  66, 67, 68, 70, 70, 70, 70, 70, 71, 71, 72, 72, 72, 38, 75, 66, 6, 56, 60, 60, 66, 66, 77,
  38, 40, 8, 13, 14, 64, 53, 66, 44, 9, 44, 60, 60, 64 >>

\* The symbol a rule derives.
yyr1 == <<
  0, 50, 51, 51, 51, 52, 52, 52, 52, 53, 54, 54, 55, 55, 56, 56, 57, 57, 58, 58, 59, 59, 60,
  60, 61, 61, 62, 63, 64, 64, 64, 65, 66, 66, 67, 67, 68, 68, 69, 69, 69, 69, 69, 69, 70,
  70, 70, 71, 71, 71, 71, 72, 72, 72, 73, 73, 73, 73, 74, 74, 74, 75, 75, 76, 76, 77, 78,
  78, 78, 78, 78, 78, 78, 79, 79, 80, 80 >>

\* The number of symbols on the right of a rule.
yyr2 == <<
  0, 2, 2, 2, 3, 1, 1, 1, 2, 1, 1, 2, 1, 1, 2, 3, 1, 3, 1, 1, 1, 1, 1, 4, 1, 3, 2, 5, 5, 3,
  0, 4, 1, 3, 1, 3, 1, 2, 1, 3, 3, 3, 3, 3, 1, 3, 3, 1, 3, 3, 3, 1, 2, 2, 1, 3, 4, 4, 1, 1,
  3, 1, 3, 1, 3, 3, 1, 1, 1, 1, 1, 1, 1, 2, 3, 2, 3 >>

-----------------------------------------------------------------------------
(* The driver's questions to the tables.                                     *)

\* Does the state reduce without looking at a token?
IsConsistent(state) == at(yypact, state) = YYPACT_NINF

\* The entry of the state's row for the symbol: the state to shift to, 0 if none.
Shifted(state, symbol) ==
  LET n == at(yypact, state) + symbol
  IN  IF n \in 0 .. YYLAST /\ at(yycheck, n) = symbol THEN at(yytable, n) ELSE 0

\* Can the state shift the error token?
Recovers(state) == ~IsConsistent(state) /\ Shifted(state, 1) > 0

\* The state the rule's nonterminal leads to.
Goto(state, rule) ==
  LET lhs == at(yyr1, rule) - YYNTOKENS
      n   == at(yypgoto, lhs) + state
  IN  IF n \in 0 .. YYLAST /\ at(yycheck, n) = state THEN at(yytable, n) ELSE at(yydefgoto, lhs)

-----------------------------------------------------------------------------
(* The semantic actions.                                                     *)

Node(type, kids) == [type |-> type, text |-> "", kids |-> kids]
Leaf(type, text) == [type |-> type, text |-> text, kids |-> <<>>]
NULL == Node("NULL", <<>>)

\* Rules whose value is a node of two operands, of one operand, and a singleton.
Binary == 33 :> "or" @@ 35 :> "and" @@ 39 :> "EQUALS" @@ 40 :> "LT" @@ 41 :> "GT" @@ 42 :> "LE"
          @@ 43 :> "GE" @@ 45 :> "ADD" @@ 46 :> "SUBTRACT" @@ 48 :> "MULTIPLY" @@ 49 :> "DIVIDE"
          @@ 50 :> "MODULO"
Unary  == 37 :> "not" @@ 52 :> "IDENTITY" @@ 53 :> "NEGATE"
Singleton == 68 :> "None" @@ 69 :> "True" @@ 70 :> "False"

\* Keys and values in turn.
Interleaved(keys, values) ==
  [k \in 1 .. 2 * Len(keys) |-> IF k % 2 = 1 THEN keys[(k + 1) \div 2] ELSE values[k \div 2]]

\* The node of a binary operator.  Mutant: its operands are swapped.
BinaryNode_swapped(rule, left, right) == Node(Binary[rule], <<right, left>>)
BinaryNode(rule, left, right) == Node(Binary[rule], <<left, right>>)

ast_nodelist_append(list, node) == Append(list, node)

\* The value of a rule whose right side has the values v; by default that of v[1].
yyval(rule, v) ==
  CASE rule \in {5, 30}          -> NULL
    [] rule \in {9, 14, 15}      -> Node("sequence", v[1])
    [] rule \in {10, 16, 61}     -> <<v[1]>>
    [] rule = 11                 -> ast_nodelist_append(v[1], v[2])
    [] rule \in {17, 62}         -> ast_nodelist_append(v[1], v[3])
    [] rule \in {23, 29}         -> v[3]
    [] rule \in {60, 74, 76}     -> v[2]
    [] rule = 25                 -> Node("assign", <<v[1], v[3]>>)
    [] rule = 26                 -> Node("del", <<v[2]>>)
    [] rule \in {27, 28}         -> Node("if", <<v[2], v[4], v[5]>>)
    [] rule = 31                 -> Node("while", <<v[2], v[4]>>)
    [] rule \in DOMAIN Binary    -> BinaryNode(rule, v[1], v[3])
    [] rule \in DOMAIN Unary     -> Node(Unary[rule], <<v[2]>>)
    [] rule = 55                 -> Node("call", <<v[1]>>)
    [] rule = 56                 -> Node("call", <<v[1]>> \o v[3])
    [] rule = 57                 -> Node("subscript", <<v[1], v[3]>>)
    [] rule = 58                 -> Leaf("identifier", v[1].text)
    [] rule = 63                 -> <<<<v[1][1]>>, <<v[1][2]>>>>
    [] rule = 64                 -> <<ast_nodelist_append(v[1][1], v[3][1]), ast_nodelist_append(v[1][2], v[3][2])>>
    [] rule = 65                 -> <<v[1], v[3]>>
    [] rule = 66                 -> Leaf("string", v[1].text)
    [] rule = 67                 -> Leaf("integer", v[1].text)
    [] rule \in DOMAIN Singleton -> Leaf("singleton", Singleton[rule])
    [] rule = 71                 -> Node("list", v[1])
    [] rule = 72                 -> Node("dict", Interleaved(v[1][1], v[1][2]))
    [] rule = 73                 -> <<>>
    [] rule = 75                 -> <<<<>>, <<>>>>
    [] OTHER                     -> v[1]

\* sizeof of the nodes, of NodeList and of NodeListEntry.
NodeListSize == 24
EntrySize    == 16
NodeSize(type) ==
  CASE type = "singleton" -> 8
    [] type \in {"sequence", "del", "not", "identifier", "string", "integer", "list"} -> 16
    [] type = "if" -> 32
    [] OTHER -> 24

\* The sizes the action of a rule asks the arena for, in order: of its node and the
\* copy of its text, or of the lists and entries of a list.
Allocations(rule, v) ==
  CASE rule \in {10, 16, 61}             -> <<NodeListSize, EntrySize>>
    [] rule \in {11, 17, 62}             -> <<EntrySize>>
    [] rule = 63                         -> <<NodeListSize, EntrySize, NodeListSize, EntrySize>>
    [] rule = 64                         -> <<EntrySize, EntrySize>>
    [] rule \in {73, 75}                 -> <<NodeListSize>>
    [] rule \in {58, 66}                 -> <<16, v[1].length + 1>>
    [] rule \in {9, 14, 15, 25, 26, 27, 28, 31, 55, 56, 57, 67, 71, 72}
                \cup DOMAIN Binary \cup DOMAIN Unary \cup DOMAIN Singleton -> <<NodeSize(yyval(rule, v).type)>>
    [] OTHER                             -> <<>>
=============================================================================
