------------------------------ MODULE Frontend -------------------------------
(***************************************************************************)
(* The front end of Subpython (project05): the read-eval-print loop        *)
(* (repl.c), the parser object and its input (parser.c), the scanner with  *)
(* its indentation and brackets (grammar.l.c), the push parser             *)
(* (grammar.y.c), the arena of the tree (arena.c, ast.c) and the pending   *)
(* exception (exception.c).                                                *)
(*                                                                         *)
(* The input is a sequence of lines.  A line is its leading whitespace,    *)
(* its lexemes and whether a newline ends it; a comment is one lexeme.     *)
(* The scanner's regular expressions are abstracted to that; positions,    *)
(* which only error messages show, are left out.  Evaluation is abstract:  *)
(* it returns, and it may raise an exception.                              *)
(***************************************************************************)
EXTENDS Grammar, Arena, SequencesExt, FiniteSets

CONSTANTS
  CommandLines,         \* the options main may be started with
  Scripts,              \* the inputs: [stream, lines]
  MAX_INDENT_LEVELS,    \* 100 in the code
  YYINITDEPTH,          \* 200 in the code
  YYMAXDEPTH            \* 10000 in the code

ASSUME FrontendAssumption ==
  /\ MAX_INDENT_LEVELS \in Nat \ {0} /\ YYINITDEPTH \in Nat /\ YYINITDEPTH > 1
  /\ YYMAXDEPTH \in Nat /\ YYINITDEPTH <= YYMAXDEPTH

VARIABLES
  argv,         \* options still to be read
  script,       \* the input of this run
  input,        \* lines not read yet
  phase,        \* what the program is doing
  code,         \* the exit code
  scan,         \* the scanner and the locals of yylex
  yyps,         \* the push parser
  yychar,       \* the lookahead: a sequence of at most one token
  todo,         \* sizes the semantic action under way still allocates
  root, arena,  \* the tree
  result,       \* what yylex returned
  owned,        \* what parser_destroy frees
  exception,    \* the pending exception
  seen          \* tokens of this parse, which only properties read

mainVars  == <<argv, script, code>>
parseVars == <<yyps, yychar, todo, root, arena, result>>
vars == <<mainVars, input, phase, scan, parseVars, owned, exception, seen>>

RESULT_SUCCESS == 0
RESULT_FAILED  == 1
RESULT_OOM     == 2
RESULT_EXIT    == 3

Token(name) == [name |-> name, text |-> "", length |-> 0]
Comment == Token("#")

\* The lexemes of the scanner's rules; the tokens that stand for lines, levels and the
\* ends of the input are its own.
Lexemes ==
  LET Made == {"$end", "error", "$undefined", "START_SINGLE", "START_FILE", "LINE_END", "INPUT_END",
               "INDENT", "DEDENT", "INDENT_ERROR", "INDENT_OVERFLOW"}
  IN  {Comment, Token("BACKSLASH")} \cup [name : DOMAIN yytranslate \ Made, text : STRING, length : Nat]
InputLines == [ws : Seq({"space", "tab"}), body : Seq(Lexemes), nl : BOOLEAN]

ASSUME ScriptsAssumption == \A s \in Scripts : s.lines \in Seq(InputLines)

interactive == script.stream = "tty"

-----------------------------------------------------------------------------
(* main.                                                                     *)

Exit(n) == phase' = "exit" /\ code' = n

\* -m must be given a positive number.
Option ==
  LET c == Head(argv)
  IN  /\ phase = "options" /\ argv # <<>> /\ argv' = Tail(argv)
      /\ CASE c = "h" -> Exit(0)
           [] c \in {"m0", "?"} -> Exit(1)
           [] OTHER -> UNCHANGED <<phase, code>>
      /\ UNCHANGED <<script, input, scan, parseVars, owned, exception, seen>>

Start ==
  /\ phase = "options" /\ argv = <<>>
  /\ IF script.stream = "missing" THEN Exit(2) ELSE phase' = "repl" /\ UNCHANGED code
  /\ UNCHANGED <<argv, script, input, scan, parseVars, owned, exception, seen>>

-----------------------------------------------------------------------------
(* parse: parser_init and the start of yylex.                                *)

NewScan == [state |-> "START", buf |-> <<>>, bracket_depth |-> 0, indent |-> <<0>>, push |-> <<>>, eof |-> FALSE]
NewParser == [new |-> TRUE, ss |-> <<>>, vs |-> <<>>, size |-> YYINITDEPTH, heap |-> FALSE]

Parse ==
  /\ phase = "repl" /\ phase' = "scan"
  /\ scan' = [NewScan EXCEPT !.push = <<Token(IF interactive THEN "START_SINGLE" ELSE "START_FILE")>>]
  /\ yyps' = NewParser /\ yychar' = <<>> /\ todo' = <<>>
  /\ root' = NULL /\ arena' = arena_new /\ owned' = {"parser", "scanner"} /\ seen' = <<>>
  /\ UNCHANGED <<mainVars, input, result, exception>>

-----------------------------------------------------------------------------
(* The scanner.  A rule's action pushes tokens, one after the other.         *)

INDENT_SIZE == 8

\* The column the whitespace reaches.
Level(ws) ==
  LET column[n \in 0 .. Len(ws)] ==
        IF n = 0 THEN 0
        ELSE IF ws[n] = "tab" THEN (column[n - 1] \div INDENT_SIZE + 1) * INDENT_SIZE
        ELSE column[n - 1] + 1
  IN  column[Len(ws)]

\* The position of the topmost level that is not above `level'.
Staying(indent, level) ==
  CHOOSE k \in DOMAIN indent : indent[k] <= level /\ \A j \in k + 1 .. Len(indent) : indent[j] > level

\* CHECK_INDENT_V: leaves the levels above `level', then enters it if the line is
\* deeper than the one before.  Mutant: several levels are left with one DEDENT.
check_indent_once(sc, level) ==
  IF Last(sc.indent) > level
  THEN [sc EXCEPT !.indent = SubSeq(@, 1, Staying(@, level)), !.push = <<Token("DEDENT")>>]
  ELSE IF Last(sc.indent) < level /\ Len(sc.indent) < MAX_INDENT_LEVELS
  THEN [sc EXCEPT !.indent = Append(@, level), !.push = <<Token("INDENT")>>] ELSE sc
check_indent(sc, level) ==
  LET kept == SubSeq(sc.indent, 1, Staying(sc.indent, level))
      left == [k \in 1 .. Len(sc.indent) - Len(kept) |-> Token("DEDENT")]
  IN  IF Last(sc.indent) >= level THEN [sc EXCEPT !.indent = kept, !.push = left]
      ELSE IF Len(sc.indent) < MAX_INDENT_LEVELS
      THEN [sc EXCEPT !.indent = Append(@, level), !.push = <<Token("INDENT")>>]
      ELSE [sc EXCEPT !.push = <<Token("INDENT_OVERFLOW")>>]

Pushing(sc, names) == [sc EXCEPT !.push = @ \o [k \in DOMAIN names |-> Token(names[k])]]

Scanning == phase = "scan" /\ scan.push = <<>>
line == Head(scan.buf)
Blank(l) == l.body = <<>> \/ l.body = <<Comment>>

ScanUnchanged == UNCHANGED <<mainVars, phase, parseVars, exception, seen>>

\* The buffer is empty: fread, or yywrap with a new prompt.
parser_input_wrap ==
  /\ Scanning /\ scan.buf = <<>> /\ input # <<>>
  /\ scan' = [scan EXCEPT !.buf = <<Head(input)>>] /\ input' = Tail(input)
  /\ owned' = IF interactive THEN owned \cup {"buffer"} ELSE owned
  /\ ScanUnchanged

\* Rule 1, a line of nothing but whitespace and a comment.  At a prompt it ends the
\* statement.
BlankLine ==
  /\ Scanning /\ scan.state = "START" /\ scan.buf # <<>> /\ Blank(line) /\ line.nl
  /\ LET sc == [scan EXCEPT !.buf = <<>>]
     IN  scan' = IF interactive THEN Pushing(check_indent(sc, 0), <<"LINE_END">>) ELSE sc
  /\ ScanUnchanged /\ UNCHANGED <<input, owned>>

\* Rule 2, the whitespace in front of some character: of whitespace at the end of the
\* input that is the last one.
Indentation ==
  LET ws == IF line.body = <<>> THEN Front(line.ws) ELSE line.ws
      sc == [scan EXCEPT !.state = "INNER"]
  IN  /\ Scanning /\ scan.state = "START" /\ scan.buf # <<>>
      /\ ~(Blank(line) /\ line.nl) /\ (line.body # <<>> \/ line.ws # <<>>)
      /\ scan' = IF scan.bracket_depth = 0 THEN check_indent(sc, Level(ws)) ELSE sc
      /\ ScanUnchanged /\ UNCHANGED <<input, owned>>

Opening == {"LPAREN", "LBRACKET", "LBRACE"}
Closing == {"RPAREN", "RBRACKET", "RBRACE"}

\* What a bracket adds to the depth.
BracketStep(name) == IF name \in Opening THEN 1 ELSE IF name \in Closing THEN -1 ELSE 0

\* Rules 4 and 7 to 44.  A comment that follows a lexeme is an invalid token.
Lexeme ==
  LET token == Head(line.body)
  IN  /\ Scanning /\ scan.state = "INNER" /\ scan.buf # <<>> /\ line.body # <<>> /\ token.name # "BACKSLASH"
      /\ scan' = [scan EXCEPT !.buf = <<[line EXCEPT !.body = Tail(@)]>>,
                              !.bracket_depth = @ + BracketStep(token.name),
                              !.push = <<IF token = Comment THEN Token("INVALID_TOKEN") ELSE token>>]
      /\ ScanUnchanged /\ UNCHANGED <<input, owned>>

\* Rule 6: a backslash and a newline.
Continuation ==
  /\ Scanning /\ scan.state = "INNER" /\ scan.buf # <<>> /\ line.body = <<Token("BACKSLASH")>> /\ line.nl
  /\ scan' = [scan EXCEPT !.buf = <<>>]
  /\ ScanUnchanged /\ UNCHANGED <<input, owned>>

\* Rule 5: a newline ends the line unless a bracket is open.
Newline ==
  /\ Scanning /\ scan.state = "INNER" /\ scan.buf # <<>> /\ line.body = <<>> /\ line.nl
  /\ LET sc == [scan EXCEPT !.buf = <<>>]
     IN  scan' = IF scan.bracket_depth = 0 THEN Pushing([sc EXCEPT !.state = "START"], <<"LINE_END">>) ELSE sc
  /\ ScanUnchanged /\ UNCHANGED <<input, owned>>

AtEnd == input = <<>> /\ (scan.buf # <<>> => line.body = <<>> /\ ~line.nl)

\* The end of the input within a line: no level is left.
EofInner ==
  /\ Scanning /\ scan.state = "INNER" /\ AtEnd
  /\ scan' = Pushing([scan EXCEPT !.buf = <<>>, !.state = "START", !.eof = TRUE], <<"LINE_END", "INPUT_END">>)
  /\ ScanUnchanged /\ UNCHANGED <<input, owned>>

\* The end of the input at the start of a line.
EofStart ==
  /\ Scanning /\ scan.state = "START" /\ AtEnd /\ (scan.buf # <<>> => line.ws = <<>>) /\ ~scan.eof
  /\ scan' = Pushing(check_indent([scan EXCEPT !.buf = <<>>, !.eof = TRUE], 0), <<"INPUT_END">>)
  /\ ScanUnchanged /\ UNCHANGED <<input, owned>>

-----------------------------------------------------------------------------
(* yypush_parse.                                                             *)

\* The next token is pushed; the first one starts the parser.
PushToken ==
  /\ phase = "scan" /\ scan.push # <<>> /\ phase' = "parse"
  /\ yychar' = <<Head(scan.push)>> /\ scan' = [scan EXCEPT !.push = Tail(@)]
  /\ seen' = Append(seen, Head(scan.push))
  /\ yyps' = IF yyps.new THEN [yyps EXCEPT !.new = FALSE, !.ss = <<0>>, !.vs = <<NULL>>] ELSE yyps
  /\ UNCHANGED <<mainVars, input, todo, root, arena, result, owned, exception>>

Parsing == phase = "parse" /\ todo = <<>>
yystate == Last(yyps.ss)

\* The state the lookahead leads to, 0 if it is not looked at or not expected.
ShiftTo == IF IsConsistent(yystate) \/ yychar = <<>> THEN 0
           ELSE Shifted(yystate, yytranslate[Head(yychar).name])
rule == at(yydefact, yystate)
Reducing == Parsing /\ ShiftTo = 0 /\ (IsConsistent(yystate) \/ yychar # <<>>)
rhs == SubSeq(yyps.vs, Len(yyps.vs) - at(yyr2, rule) + 1, Len(yyps.vs))

ParseUnchanged == UNCHANGED <<mainVars, input, scan, arena, owned, exception, seen>>

\* yyreturn: the stacks are emptied and freed.  Mutant: a stack that has grown is not.
yyreturn_kept(status) ==
  /\ result' = status /\ phase' = "parsed" /\ yyps' = [NewParser EXCEPT !.heap = yyps.heap] /\ yychar' = <<>>
yyreturn(status) ==
  /\ result' = status /\ phase' = "parsed" /\ yyps' = NewParser /\ yychar' = <<>>

\* The size of a grown stack.
Grown(size) == IF YYMAXDEPTH < 2 * size THEN YYMAXDEPTH ELSE 2 * size

\* yynewstate: the stacks grow when they are full, which may fail.
yynewstate(ss, vs, ahead) ==
  IF Len(ss) < yyps.size
  THEN yyps' = [yyps EXCEPT !.ss = ss, !.vs = vs] /\ yychar' = ahead /\ UNCHANGED <<phase, result>>
  ELSE \E fails \in {FALSE, TRUE} :
         IF fails \/ YYMAXDEPTH <= yyps.size THEN yyreturn(RESULT_OOM)
         ELSE /\ yyps' = [yyps EXCEPT !.ss = ss, !.vs = vs, !.heap = TRUE, !.size = Grown(@)]
              /\ yychar' = ahead /\ UNCHANGED <<phase, result>>

\* Mutant: the next token is asked for in every state.
MoreTokens_eager ==
  /\ Parsing /\ yychar = <<>> /\ phase' = "scan"
  /\ ParseUnchanged /\ UNCHANGED <<yyps, yychar, todo, root, result>>
MoreTokens ==
  /\ Parsing /\ ~IsConsistent(yystate) /\ yychar = <<>> /\ phase' = "scan"
  /\ ParseUnchanged /\ UNCHANGED <<yyps, yychar, todo, root, result>>

Shift ==
  /\ Parsing /\ ShiftTo > 0
  /\ yynewstate(Append(yyps.ss, ShiftTo), Append(yyps.vs, Head(yychar)), <<>>)
  /\ ParseUnchanged /\ UNCHANGED <<todo, root>>

Reduce ==
  LET left == Len(yyps.ss) - at(yyr2, rule)
      ss   == SubSeq(yyps.ss, 1, left)
  IN  /\ Reducing /\ rule \notin {0, 2, 3, 4, 6}
      /\ todo' = Allocations(rule, rhs)
      /\ yynewstate(Append(ss, Goto(Last(ss), rule)), Append(SubSeq(yyps.vs, 1, left), yyval(rule, rhs)), yychar)
      /\ ParseUnchanged /\ UNCHANGED root

\* A node, list or string of the semantic action.
Allocate ==
  /\ todo # <<>> /\ arena' = arena_malloc(arena, Head(todo)) /\ todo' = Tail(todo)
  /\ UNCHANGED <<mainVars, input, phase, scan, yyps, yychar, root, result, owned, exception, seen>>

\* The rules of `input': $end is never asked for.
Accept ==
  /\ Reducing /\ rule \in {2, 3, 4}
  /\ root' = CASE rule = 2 -> rhs[2] [] rule = 3 -> NULL [] rule = 4 -> rhs[2]
  /\ yyreturn(RESULT_SUCCESS) /\ ParseUnchanged /\ UNCHANGED todo

\* INPUT_END at a prompt.  Mutant: it is taken for an empty statement.
EndOfFile_success ==
  Reducing /\ rule = 6 /\ yyreturn(RESULT_SUCCESS) /\ ParseUnchanged /\ UNCHANGED <<todo, root>>
EndOfFile ==
  Reducing /\ rule = 6 /\ yyreturn(RESULT_EXIT) /\ ParseUnchanged /\ UNCHANGED <<todo, root>>

\* yyerrlab: every state is popped, as none can shift the error token.
SyntaxError ==
  /\ Reducing /\ rule = 0 /\ \A k \in DOMAIN yyps.ss : ~Recovers(yyps.ss[k])
  /\ yyreturn(RESULT_FAILED) /\ ParseUnchanged /\ UNCHANGED <<todo, root>>

-----------------------------------------------------------------------------
(* try_parse, once the parser has returned.                                  *)

parser_destroy ==
  /\ phase = "parsed" /\ todo = <<>> /\ phase' = "eval" /\ owned' = {}
  /\ UNCHANGED <<mainVars, input, scan, parseVars, exception, seen>>

exception_set   == exception' = "raised"
exception_clear == exception' = "none"

eval ==
  /\ phase = "eval" /\ phase' = "evaluated"
  /\ \/ UNCHANGED exception
     \/ result = RESULT_SUCCESS /\ root # NULL /\ exception_set
  /\ UNCHANGED <<mainVars, input, scan, parseVars, owned, seen>>

\* exception_print and exception_clear, parse_result_destroy, and the next statement.
TryParseEnd ==
  /\ phase = "evaluated" /\ arena' = NoArena /\ exception_clear
  /\ IF interactive /\ result # RESULT_EXIT THEN phase' = "repl" /\ UNCHANGED code
     ELSE Exit(IF interactive \/ (result = RESULT_SUCCESS /\ exception = "none") THEN 0 ELSE 1)
  /\ UNCHANGED <<argv, script, input, scan, yyps, yychar, todo, root, result, owned, seen>>

Init ==
  /\ argv \in CommandLines /\ script \in Scripts /\ input = script.lines
  /\ phase = "options" /\ code = 0 /\ scan = NewScan /\ yyps = NewParser /\ yychar = <<>> /\ todo = <<>>
  /\ root = NULL /\ arena = NoArena /\ result = RESULT_SUCCESS
  /\ owned = {} /\ exception = "none" /\ seen = <<>>

Next ==
  \/ Option \/ Start \/ Parse
  \/ parser_input_wrap \/ BlankLine \/ Indentation \/ Lexeme \/ Continuation \/ Newline \/ EofInner \/ EofStart
  \/ PushToken \/ MoreTokens \/ Shift \/ Reduce \/ Allocate \/ Accept \/ EndOfFile \/ SyntaxError
  \/ parser_destroy \/ eval \/ TryParseEnd

Spec == Init /\ [][Next]_vars /\ WF_vars(Next)
-----------------------------------------------------------------------------
(* Properties.                                                               *)

\* What the actions ask the arena for are sizes.
SizesOK == todo \in Seq(Nat)

TypeOK ==
  /\ SizesOK
  /\ phase \in {"options", "repl", "scan", "parse", "parsed", "eval", "evaluated", "exit"}
  /\ scan.indent # <<>> /\ Len(scan.indent) <= MAX_INDENT_LEVELS
  /\ Len(yyps.ss) = Len(yyps.vs) /\ Len(yyps.ss) < yyps.size /\ yyps.size \in YYINITDEPTH .. YYMAXDEPTH
  /\ Len(yychar) <= 1 /\ result \in RESULT_SUCCESS .. RESULT_EXIT /\ code \in 0 .. 2

\* The states of the stack that were entered by one of the symbols.
Entered(names) == {k \in DOMAIN yyps.ss : at(yystos, yyps.ss[k]) \in {yytranslate[name] : name \in names}}

\* bracket_depth, which yylex counts by itself, is the number of brackets that are
\* open in the parser: a newline is never swallowed outside brackets and never ends a
\* statement within them, also not after a closing bracket too many.
BracketsAgree == Scanning => scan.bracket_depth = Cardinality(Entered(Opening))

\* yylex's stack of indentation levels grows from 0 and has one level for each INDENT
\* the parser has not seen the DEDENT of.
IndentsAgree ==
  Scanning => /\ scan.indent[1] = 0 /\ \A k \in 2 .. Len(scan.indent) : scan.indent[k - 1] < scan.indent[k]
              /\ Len(scan.indent) = 1 + Cardinality(Entered({"INDENT"}))

\* The text of a string or an identifier is a pointer into the scanner's buffer: it has
\* been copied to the arena before yylex goes on and overwrites the buffer.
NoStaleText == phase = "scan" => Entered({"STRING", "IDENT"}) = {}

\* The parser decides at the end of the input: yylex never falls out of its
\* end-of-file rules and reports success for a tree that is not there.
EndDecides == Scanning => ~scan.eof

\* What the scanner keeps on its own agrees with the parser it feeds, to the end.
ScannerAgrees == TypeOK /\ BracketsAgree /\ IndentsAgree /\ EndDecides

\* The nodes of a tree lie in blocks of its arena and do not overlap.
ArenaOK == Blocks(arena) /\ Inside(arena) /\ Apart(arena)

\* Whatever way a statement ends, its parser, scanner, line, grown stacks, tree and
\* exception do not outlive it.
Released ==
  phase \in {"repl", "exit"} => owned = {} /\ ~yyps.heap /\ arena = NoArena /\ todo = <<>> /\ exception = "none"

\* The program ends once its input does, in whatever statement that happens, provided
\* evaluation returns.
Exits == <>(phase = "exit")
=============================================================================
