------------------------------ MODULE MCBasic -------------------------------
(* All programs of up to three statements from a small set that has every     *)
(* kind of statement, nested and recursive expressions and nested IFs, each   *)
(* written with as few and with many spaces, comments and empty lines, and one *)
(* text that is cut off.                                                       *)
EXTENDS Basic, SequencesExt

MCVariables == <<"A", "B">>
MCstrtol == [w \in {"0", "1", "2", "3", "4"} |->
               CHOOSE n \in 0 .. 4 : ToString(n) = w]

A == init_var_node("A")
B == init_var_node("B")
N(v) == [type |-> "NUM", value |-> v]
Op(op, l, r) == init_binary_node(op, l, r)
Label == <<"10">>

Statements ==
  { init_let_node("A", Op("-", B, N(1))),
    init_let_node("B", Op("+", A, Op("*", B, N(2)))),
    init_let_node("B", Op("-", Op("/", A, B), Op("-", N(3), B))),
    init_print_node(Op("/", N(-4), A)),
    init_label_node(Label),
    init_goto_node(Label),
    init_cond_node(Op("=", A, B), init_label_node(Label)),
    init_cond_node(Op("<", A, B), init_goto_node(Label)),
    init_cond_node(Op(">", A, N(0)), init_cond_node(Op("=", B, N(1)), init_print_node(B))),
    init_cond_node(Op("<", Op("/", B, A), N(1)),
                   init_cond_node(Op("<", A, N(2)), init_let_node("A", Op("+", A, N(1))))) }

Has(s, type) == s.type = type \/ (s.type = "COND" /\ s.if_branch.type = type)

\* A label is defined once, and where it is used.
Resolved(p) ==
  LET defs == {i \in DOMAIN p : Has(p[i], "LABEL")}
  IN  Cardinality(defs) <= 1 /\ ((\E i \in DOMAIN p : Has(p[i], "GOTO")) => defs # {})

MCGarbage == {-4, 1}

Precedence(e) ==
  CASE e.type # "BINARY_OP" -> 3 [] e.op \in {"*", "/"} -> 2 [] e.op \in {"+", "-"} -> 1 [] OTHER -> 0

\* How an expression is written, with `gap' around operators.
RECURSIVE ExprText(_, _)
ExprText(e, gap) ==
  LET part(f, least) == IF Precedence(f) >= least THEN ExprText(f, gap)
                        ELSE <<"(">> \o gap \o ExprText(f, gap) \o gap \o <<")">>
  IN  CASE e.type = "NUM" -> (IF e.value < 0 THEN <<"-", ToString(-e.value)>> ELSE <<ToString(e.value)>>)
        [] e.type = "VAR" -> <<e.name>>
        [] e.type = "BINARY_OP" ->
             part(e.left, Precedence(e)) \o gap \o <<e.op>> \o gap \o part(e.right, Precedence(e) + 1)

RECURSIVE StatementText(_, _)
StatementText(s, gap) ==
  CASE s.type = "PRINT" -> <<"PRINT", " ">> \o ExprText(s.expr, gap)
    [] s.type = "LET"   -> <<"LET", " ", s.name>> \o gap \o <<"=">> \o gap \o ExprText(s.expr, gap)
    [] s.type = "LABEL" -> s.label
    [] s.type = "GOTO"  -> <<"GOTO", " ">> \o s.label
    [] s.type = "COND"  -> <<"IF", " ">> \o ExprText(s.condition, gap)
                           \o <<" ", "THEN", " ">> \o StatementText(s.if_branch, gap)

Lines(p, before, gap) ==
  FoldLeft(LAMBDA t, s : t \o before \o StatementText(s, gap) \o gap \o <<"\n">>, <<>>, p)

Comment == <<"#", "-", "1", "\n", "\n">>

\* An IF that the file ends in: the compiler dies before it has written anything.
Unfinished == <<"IF", " ", "A", "\n">>

MCPrograms ==
  LET programs == {p \in UNION {[1 .. n -> Statements] : n \in 1 .. 3} : Resolved(p)}
  IN  {[statements |-> p, text |-> Lines(p, <<>>, <<>>)] : p \in programs}
      \cup {[statements |-> p, text |-> Lines(p, Comment, <<" ">>)] : p \in programs}
      \cup {[statements |-> <<>>, text |-> Unfinished]}
=============================================================================
