------------------------------ MODULE Automaton ------------------------------
(***************************************************************************)
(* The automaton in bison's tables (Grammar): which state can lie on which *)
(* on the parser's stack, and what the tables satisfy so that the parser   *)
(* pops only what it has pushed, reduces a bracket or a block as a whole   *)
(* and has copied a text before it asks for another token.  Everything     *)
(* here is constant and about tables that are written out: TLC evaluates   *)
(* the assumption, for these tables once and for all.                      *)
(***************************************************************************)
EXTENDS Frontend

States    == 0 .. Len(yypact) - 1
Terminals == DOMAIN yytranslate
Symbol(state) == at(yystos, state)
SymbolsOf(names) == {yytranslate[name] : name \in names}

RuleOf(state)   == at(yydefact, state)
LengthOf(state) == at(yyr2, RuleOf(state))

\* The rules that end the parse, and none at all.
Returns == {0, 2, 3, 4, 6}
Popping(k) == {s \in States : RuleOf(s) \notin Returns /\ LengthOf(s) >= k}
LONGEST == 5

-----------------------------------------------------------------------------
(* The stacks the tables can build.                                         *)

\* <<s, p>> if state p can lie k places below a state s that pops at least k states;
\* `on' are the pairs <<p, q>> of states of which q can lie on p.
Below(on) ==
  LET below[k \in 0 .. LONGEST] ==
        IF k = 0 THEN {<<s, s>> : s \in Popping(0)}
        ELSE LET above == {b \in below[k - 1] : b[1] \in Popping(k)}
             IN  UNION {{<<b[1], pair[1]>> : pair \in {e \in on : e[2] = b[2]}} : b \in above}
  IN  below

ShiftPairs ==
  {<<s, Shifted(s, yytranslate[name])>> : s \in {q \in States : ~IsConsistent(q)}, name \in Terminals}
  \ (States \X {0})
GotoPairs(on) ==
  UNION {{<<b[2], Goto(b[2], RuleOf(b[1]))>> : b \in {c \in Below(on)[k] : LengthOf(c[1]) = k}} :
           k \in 0 .. LONGEST}

\* Which state can lie directly on which: what shifts push, and what reductions push on
\* the states they uncover.
ROUNDS == 16
Neighbours ==
  LET on[n \in 0 .. ROUNDS] ==
        IF n = 0 THEN ShiftPairs ELSE LET before == on[n - 1] IN before \cup GotoPairs(before)
  IN  on[ROUNDS]

\* <<k, s, p>>: state p can lie k places below state s.
Beneath == UNION {{<<k, b[1], b[2]>> : b \in Below(Neighbours)[k]} : k \in 0 .. LONGEST}

-----------------------------------------------------------------------------
(* What the tables satisfy.                                                 *)

\* Every token that is pushed has a number of its own, as the end has, that of state 0.
TokensNumbered ==
  /\ 0 \in States /\ Symbol(0) = yytranslate["$end"]
  /\ {"$end", "START_SINGLE", "START_FILE", "LINE_END", "INPUT_END", "INDENT", "DEDENT", "INDENT_OVERFLOW",
      "INVALID_TOKEN", "STRING", "IDENT"} \cup Opening \cup Closing \subseteq Terminals
  /\ \A a \in Terminals :
       yytranslate[a] \in 0 .. YYNTOKENS - 1 /\ \A b \in Terminals : yytranslate[a] = yytranslate[b] => a = b

\* A shift leads to a state of the token's symbol.
ShiftsFit ==
  \A s \in States : ~IsConsistent(s) => \A name \in Terminals :
    LET q == Shifted(s, yytranslate[name])
    IN  q > 0 => q \in States /\ <<s, q>> \in Neighbours /\ Symbol(q) = yytranslate[name]

\* Beneath is what its name says.
BeneathFits ==
  /\ \A s \in Popping(0) : LengthOf(s) \in 0 .. LONGEST /\ <<0, s, s>> \in Beneath
  /\ \A b \in Beneath : b[1] < LengthOf(b[2]) =>
       \A e \in Neighbours : e[2] = b[3] => <<b[1] + 1, b[2], e[1]>> \in Beneath

\* A reduction never pops state 0, with which the stack starts, and leads to a state of
\* a nonterminal.
ReducesFit ==
  \A b \in Beneath :
    /\ b[1] < LengthOf(b[2]) => b[3] # 0
    /\ b[1] = LengthOf(b[2]) =>
         LET q == Goto(b[3], RuleOf(b[2]))
         IN  q \in States \ {0} /\ <<b[3], q>> \in Neighbours /\ Symbol(q) \in Nat /\ Symbol(q) >= YYNTOKENS

\* Nothing lies on a state that reduces without a token; such are the states that a text,
\* a closing bracket, a DEDENT and INPUT_END lead to, and the last ends the parse.
Prompt ==
  /\ \A e \in Neighbours : ~IsConsistent(e[1])
  /\ \A s \in States :
       /\ Symbol(s) \in SymbolsOf({"STRING", "IDENT", "DEDENT", "INPUT_END"} \cup Closing) => IsConsistent(s)
       /\ Symbol(s) = yytranslate["INPUT_END"] => RuleOf(s) \in Returns \ {0}
       /\ RuleOf(s) \in {58, 66} => LengthOf(s) = 1 /\ Symbol(s) < YYNTOKENS

\* A reduction pops either none of the opening symbols, or just one and, on top, a closing
\* one.
Matched(opens, closes) ==
  \A s \in Popping(0) :
    LET Opens(k) == {b[3] : b \in {c \in Beneath : c[1] = k /\ c[2] = s /\ Symbol(c[3]) \in SymbolsOf(opens)}}
        All(k)   == {b[3] : b \in {c \in Beneath : c[1] = k /\ c[2] = s}}
    IN  IF Symbol(s) \in SymbolsOf(closes)
        THEN \E k \in 0 .. LengthOf(s) - 1 :
               Opens(k) = All(k) /\ \A j \in 0 .. LengthOf(s) - 1 : j # k => Opens(j) = {}
        ELSE \A j \in 0 .. LengthOf(s) - 1 : Opens(j) = {}

ASSUME TablesAssumption ==
  /\ Neighbours \subseteq States \X States /\ \A s \in States : LengthOf(s) \in Nat
  /\ TokensNumbered /\ ShiftsFit /\ BeneathFits /\ ReducesFit /\ Prompt
  /\ Matched(Opening, Closing) /\ Matched({"INDENT"}, {"DEDENT"})
=============================================================================
