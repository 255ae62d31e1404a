---------------------------- MODULE BasicParser -----------------------------
(***************************************************************************)
(* The TeenyBASIC parser (project03 parser.c) and the AST it makes         *)
(* (ast.c): recursive descent over a file that is read a character at a    *)
(* time and rewound by one.                                                *)
(*                                                                         *)
(* A text is a sequence of symbols: white space, operators and words (a    *)
(* keyword, name, number, label or "#").  Nothing rewinds into a word of a *)
(* text that ends with white space, so that a word is one symbol.          *)
(***************************************************************************)
EXTENDS Integers, Sequences, FiniteSetsExt

CONSTANTS Variables,   \* the names of variables, A to Z in the code
          strtol       \* the number a word stands for

EOF  == ""
NULL == [type |-> "NULL"]
\* No node: strcmp has been given NULL.
CRASHED == [type |-> "CRASHED"]

Spaces    == {" ", "\n"}
Operators == {"+", "-", "*", "/", "<", "=", ">", "(", ")"}

is_variable_name(c)    == \E i \in DOMAIN Variables : Variables[i] = c
is_number_start(c)     == c \in {"+", "-"} \cup DOMAIN strtol
is_expression_start(c) == c = "(" \/ is_variable_name(c) \/ is_number_start(c)
is_operator(c)         == c \in Operators

-----------------------------------------------------------------------------
(* AST nodes.  The constructors return NULL for a node with a part missing.  *)

NoWord == <<EOF>>
Node(n, parts) == IF CRASHED \in parts THEN CRASHED ELSE IF NULL \in parts THEN NULL ELSE n

init_num_node(word) ==
  IF word = NoWord THEN NULL
  ELSE [type |-> "NUM", value |-> (IF word[1] = "-" THEN -1 ELSE 1) * strtol[word[Len(word)]]]
init_var_node(x)           == [type |-> "VAR", name |-> x]
init_binary_node(op, l, r) == Node([type |-> "BINARY_OP", op |-> op, left |-> l, right |-> r], {l, r})
init_print_node(e)         == Node([type |-> "PRINT", expr |-> e], {e})
init_let_node(x, e)        == Node([type |-> "LET", name |-> x, expr |-> e], {e})
init_label_node(l)         == IF l = NoWord THEN NULL ELSE [type |-> "LABEL", label |-> l]
init_goto_node(l)          == IF l = NoWord THEN NULL ELSE [type |-> "GOTO", label |-> l]
init_cond_node(c, s)       == Node([type |-> "COND", condition |-> c, if_branch |-> s], {c, s})

-----------------------------------------------------------------------------
(* The file: the number of symbols read, and whether the end has been met.   *)

At(n)     == [read |-> n, feof |-> FALSE]
AtEnd(t)  == [read |-> Len(t), feof |-> TRUE]

\* fseek forgets that the end has been met.
rewind_one(p) == At(p.read - 1)

\* Where a loop over the symbols stops, 0 if it meets the end of the file first.
First(stops) == IF stops = {} THEN 0 ELSE Min(stops)

advance(t, p) ==
  LET k == First({i \in p.read + 1 .. Len(t) : t[i] \notin Spaces})
  IN  IF k = 0 THEN [char |-> EOF, p |-> AtEnd(t)] ELSE [char |-> t[k], p |-> At(k)]

peek(t, p) == LET a == advance(t, p) IN [a EXCEPT !.p = rewind_one(@)]

\* White space is consumed, an operator is not.  Mutant: neither is.
Past_none(t, k) == At(k - 1)
Past(t, k) == At(IF t[k] \in Spaces THEN k ELSE k - 1)

advance_until_separator(t, p) ==
  LET begin == p.read + 1
      k == First({i \in begin .. Len(t) : t[i] \in Spaces \/ (is_operator(t[i]) /\ i > begin)})
  IN  IF k = 0 THEN [word |-> NoWord, p |-> AtEnd(t)]
      ELSE [word |-> SubSeq(t, begin, k - 1), p |-> Past(t, k)]

skip_line(t, p) ==
  LET k == First({i \in p.read .. Len(t) : t[i] = "\n"})
  IN  IF k = 0 THEN AtEnd(t) ELSE At(k)

-----------------------------------------------------------------------------
(* Expressions.  Each function returns a node and where it stopped.          *)

Parsed(node, p) == [node |-> node, p |-> p]

\* The loops of term and expression: operators of one precedence group to the left.
Products == {"*", "/"}
Sums     == {"+", "-"}
Join(left, op, right) == Parsed(init_binary_node(op, left.node, right.node), right.p)

RECURSIVE factor(_, _), expression(_, _), More(_, _, _, _)

MoreFactors(t, left) == More(t, Products, left, advance(t, left.p))
MoreTerms(t, left)   == More(t, Sums, left, advance(t, left.p))

term(t, p) == MoreFactors(t, factor(t, p))

More(t, ops, left, next) ==
  IF next.char \notin ops THEN Parsed(left.node, rewind_one(next.p))
  ELSE IF ops = Products THEN MoreFactors(t, Join(left, next.char, factor(t, next.p)))
  ELSE MoreTerms(t, Join(left, next.char, term(t, next.p)))

Closed(inner, next) ==
  IF next.char = ")" THEN Parsed(inner.node, next.p) ELSE Parsed(NULL, rewind_one(next.p))
Parenthesis(t, inner) == Closed(inner, advance(t, inner.p))
Variable(next) == Parsed(init_var_node(next.char), next.p)
Number(next)   == Parsed(init_num_node(next.word), next.p)

FactorAt(t, next) ==
  IF next.char = "(" THEN Parenthesis(t, expression(t, advance(t, next.p).p))
  ELSE IF is_variable_name(next.char) THEN Variable(advance(t, next.p))
  ELSE IF is_number_start(next.char) THEN Number(advance_until_separator(t, next.p))
  ELSE Parsed(NULL, next.p)
factor(t, p) == FactorAt(t, peek(t, p))

ExpressionAt(t, next) ==
  IF is_expression_start(next.char) THEN MoreTerms(t, term(t, next.p)) ELSE Parsed(NULL, next.p)
expression(t, p) == ExpressionAt(t, peek(t, p))

Compared(t, left, next) ==
  IF next.char \in {"<", "=", ">"} THEN Join(left, next.char, expression(t, next.p))
  ELSE Parsed(NULL, next.p)
Operand(t, left) == Compared(t, left, advance(t, left.p))
comparison(t, p) == Operand(t, expression(t, p))

-----------------------------------------------------------------------------
(* Statements, by the word they begin with. *)

RECURSIVE statement(_, _)

Goto(next)  == Parsed(init_goto_node(next.word), next.p)
Output(expr) == Parsed(init_print_node(expr.node), expr.p)

Value(name, expr) == Parsed(init_let_node(name, expr.node), expr.p)
Equals(t, name, next) ==
  IF next.char = "=" THEN Value(name, expression(t, next.p)) ELSE Parsed(NULL, next.p)
Let(t, var) ==
  IF is_variable_name(var.char) THEN Equals(t, var.char, advance(t, var.p)) ELSE Parsed(NULL, var.p)

Branch(cond, body) == Parsed(init_cond_node(cond.node, body.node), body.p)
\* The word is compared without looking whether there is one.
Then(t, cond, next) ==
  IF next.word = <<"THEN">> THEN Branch(cond, statement(t, next.p))
  ELSE Parsed(IF next.word = NoWord THEN CRASHED ELSE NULL, next.p)
If(t, cond) == Then(t, cond, advance_until_separator(t, cond.p))

Statement(t, next) ==
  CASE next.word \in {NoWord, <<>>} -> Parsed(NULL, next.p)
    [] next.word # <<>> /\ next.word[1] = "#" -> Parsed(NULL, skip_line(t, next.p))
    [] next.word = <<"GOTO">>  -> Goto(advance_until_separator(t, next.p))
    [] next.word = <<"PRINT">> -> Output(expression(t, next.p))
    [] next.word = <<"LET">>   -> Let(t, advance(t, next.p))
    [] next.word = <<"IF">>    -> If(t, comparison(t, next.p))
    [] OTHER -> Parsed(init_label_node(next.word), next.p)
statement(t, p) == Statement(t, advance_until_separator(t, p))

parse(t, p) == statement(t, p)
=============================================================================
