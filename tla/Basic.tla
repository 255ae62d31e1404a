------------------------------- MODULE Basic --------------------------------
(***************************************************************************)
(* The TeenyBASIC compiler (project03 compile.c, compiler.c) and the       *)
(* x86-64 program it writes.  The compiler parses one statement after the  *)
(* other and turns it into instructions; the processor then executes them. *)
(*                                                                         *)
(* Memory is addressed in words.  The frame pointer of main is address 0;  *)
(* the variables lie at 0, -1, -2 ..., main's return address at 1.         *)
(***************************************************************************)
EXTENDS BasicParser, TLC

CONSTANTS
  Programs,     \* the programs that may be compiled: texts and their statements
  Width,        \* bits of a register, 64 in the code
  Garbage,      \* what uninitialized words and clobbered registers may hold
  MaxDepth,     \* bound on the depth of expressions: size of the modelled stack
  MaxOut        \* bound on what a program prints

NumVars == Len(Variables)

ASSUME BasicAssumption ==
  /\ NumVars \in Nat \ {0} /\ Width \in Nat \ {0} /\ MaxDepth \in Nat /\ MaxOut \in Nat
  /\ Garbage \subseteq -(2^(Width - 1)) .. 2^(Width - 1) - 1

VARIABLES
  program,      \* the statements that were written, which only properties read
  text,         \* the file they were written to
  file,         \* how far the file has been read
  label_no,     \* number of the next C label
  code,         \* the assembly file
  begin,        \* where the code of each statement begins
  cpu           \* the processor

vars == <<program, text, file, label_no, code, begin, cpu>>

-----------------------------------------------------------------------------
(* Code generation.  Operands follow the AT&T order: source, destination.    *)

I(op, src, dst) == [op |-> op, src |-> src, dst |-> dst]
Mov(src, dst)   == I("mov", src, dst)
Const(v, dst)   == I("const", v, dst)

\* The words between rbp and a variable.
Offset(name) == (CHOOSE i \in DOMAIN Variables : Variables[i] = name) - 1

\* rdi by rax.  Mutant: the dividend is not extended to two words.
Division_single == <<Mov("rax", "rsi"), Mov("rdi", "rax"), I("idiv", "rsi", "rax")>>
Division == <<Mov("rax", "rsi"), Mov("rdi", "rax"), I("cqto", "rax", "rdx"), I("idiv", "rsi", "rax")>>

\* What is done with the left operand in rdi and the right one in rax.
Operate(op) ==
  CASE op = "+" -> <<I("add", "rdi", "rax")>>
    [] op = "-" -> <<I("sub", "rax", "rdi"), Mov("rdi", "rax")>>
    [] op = "*" -> <<I("imul", "rdi", "rax")>>
    [] op = "/" -> Division
    [] OTHER    -> <<I("cmp", "rax", "rdi"), Const(0, "rax"), Const(1, "rsi"),
                     I("cmov", "rsi", op)>>

RECURSIVE compile_expr(_)
compile_expr(e) ==
  CASE e.type = "NUM"       -> <<Const(e.value, "rax")>>
    [] e.type = "VAR"       -> <<I("load", Offset(e.name), "rax")>>
    [] e.type = "BINARY_OP" ->
         compile_expr(e.left) \o <<I("push", "rax", "")>>
         \o compile_expr(e.right) \o <<I("pop", "", "rdi")>> \o Operate(e.op)

\* The label after an IF carries the number label_no has by then; the code of a
\* nested IF has counted it up.  Mutant: it is never counted up.
AfterIf_same(branch) == [code |-> branch.code \o <<I("C:", branch.no, "")>>, no |-> branch.no]
AfterIf(branch) == [code |-> branch.code \o <<I("C:", branch.no, "")>>, no |-> branch.no + 1]

RECURSIVE compile_ast(_, _)
compile_ast(s, no) ==
  CASE s.type = "PRINT" -> [code |-> compile_expr(s.expr)
                                     \o <<Mov("rax", "rdi"), I("call", "print_int", "")>>,
                            no |-> no]
    [] s.type = "LET"   -> [code |-> compile_expr(s.expr) \o <<I("store", "rax", Offset(s.name))>>,
                            no |-> no]
    [] s.type = "LABEL" -> [code |-> <<I("L:", s.label, "")>>, no |-> no]
    [] s.type = "GOTO"  -> [code |-> <<I("jmp", s.label, "")>>, no |-> no]
    [] s.type = "COND"  ->
         LET branch == compile_ast(s.if_branch, no)
         IN  AfterIf([branch EXCEPT
                        !.code = compile_expr(s.condition)
                                 \o <<I("test", "rax", "rax"), I("je", no, "")>> \o @])

\* A frame of a word per variable, the first of which stays unused: A lies where
\* the caller's rbp has been saved.
header == <<I("push", "rbp", ""), Mov("rsp", "rbp"), I("frame", -NumVars, "rsp")>>
\* Mutant: the frame is not taken down.
footer_leak == <<I("pop", "", "rbp"), Const(0, "rax"), I("ret", "", "")>>
footer == <<I("frame", NumVars, "rsp"), I("pop", "", "rbp"), Const(0, "rax"), I("ret", "", "")>>

\* main of compiler.c: header, the statements until the end of the file is met,
\* footer.  A comment or an empty line is no statement.
CompileStatement ==
  LET ast == parse(text, file)
      c   == compile_ast(ast.node, label_no)
  IN  /\ cpu.status = "compiling" /\ ~file.feof
      /\ file' = ast.p
      /\ IF ast.node \in {NULL, CRASHED} THEN UNCHANGED <<code, label_no, begin>>
         ELSE /\ code' = code \o c.code /\ label_no' = c.no
              /\ begin' = Append(begin, Len(code) + 1)
      /\ cpu' = IF ast.node = CRASHED THEN [cpu EXCEPT !.status = "crashed"] ELSE cpu
      /\ UNCHANGED <<program, text>>

CompileFooter ==
  /\ cpu.status = "compiling" /\ file.feof
  /\ code' = code \o footer
  /\ begin' = Append(begin, Len(code) + 1)
  /\ cpu' = [cpu EXCEPT !.status = "running"]
  /\ UNCHANGED <<program, text, file, label_no>>

-----------------------------------------------------------------------------
(* The processor (external).  Labels are positions in the code. *)

Words == -(NumVars + MaxDepth) .. 1
Instr == code[cpu.pc]
Reg(r) == cpu.reg[r]

Wrap(n) == ((n + 2^(Width - 1)) % 2^Width) - 2^(Width - 1)
InRange(n) == n = Wrap(n)

\* The instruction at or after position q.
Land(q) == Min({k \in q .. Len(code) : code[k].op \notin {"L:", "C:"}})

Executes(ops) == cpu.status = "running" /\ Instr.op \in ops

SetReg(r, v) == cpu' = [cpu EXCEPT !.reg[r] = v, !.pc = Land(@ + 1)]

Move ==
  /\ Executes({"mov", "const", "load", "store", "cmov"})
  /\ \/ Instr.op = "mov"   /\ SetReg(Instr.dst, Reg(Instr.src))
     \/ Instr.op = "const" /\ SetReg(Instr.dst, Instr.src)
     \/ Instr.op = "load"  /\ SetReg(Instr.dst, cpu.mem[Reg("rbp") - Instr.src])
     \/ /\ Instr.op = "store"
        /\ cpu' = [cpu EXCEPT !.mem[Reg("rbp") - Instr.dst] = Reg(Instr.src),
                              !.pc = Land(@ + 1)]
     \/ /\ Instr.op = "cmov"
        /\ LET holds == \/ Instr.dst = "<" /\ cpu.flag < 0
                        \/ Instr.dst = ">" /\ cpu.flag > 0
                        \/ Instr.dst = "=" /\ cpu.flag = 0
           IN  SetReg("rax", Reg(IF holds THEN Instr.src ELSE "rax"))

Arithmetic ==
  /\ Executes({"add", "sub", "imul", "cqto", "frame"})
  /\ \/ Instr.op = "add"   /\ SetReg(Instr.dst, Wrap(Reg(Instr.dst) + Reg(Instr.src)))
     \/ Instr.op = "sub"   /\ SetReg(Instr.dst, Wrap(Reg(Instr.dst) - Reg(Instr.src)))
     \/ Instr.op = "imul"  /\ SetReg(Instr.dst, Wrap(Reg(Instr.dst) * Reg(Instr.src)))
     \/ Instr.op = "cqto"  /\ SetReg("rdx", IF Reg("rax") < 0 THEN -1 ELSE 0)
     \/ Instr.op = "frame" /\ SetReg("rsp", Reg("rsp") + Instr.src)

\* idiv divides the double word rdx:rax, truncating towards zero; a quotient that
\* does not fit is an error as well as a divisor of zero.
Divide ==
  LET dividend == Reg("rdx") * 2^Width + (Reg("rax") % 2^Width)
      divisor  == Reg(Instr.src)
      abs(n)   == IF n < 0 THEN -n ELSE n
      q        == (abs(dividend) \div abs(divisor)) * (IF (dividend < 0) = (divisor < 0) THEN 1 ELSE -1)
  IN  /\ Executes({"idiv"})
      /\ IF divisor # 0 /\ InRange(q)
         THEN cpu' = [cpu EXCEPT !.reg["rax"] = q, !.reg["rdx"] = dividend - q * divisor,
                                 !.pc = Land(@ + 1)]
         ELSE cpu' = [cpu EXCEPT !.status = "trap"]

Compare ==
  /\ Executes({"cmp", "test"})
  /\ LET l == Reg(Instr.dst)
         r == IF Instr.op = "cmp" THEN Reg(Instr.src) ELSE 0
     IN  cpu' = [cpu EXCEPT !.flag = IF l < r THEN -1 ELSE IF l > r THEN 1 ELSE 0,
                            !.pc = Land(@ + 1)]

PushPop ==
  /\ Executes({"push", "pop"})
  /\ \/ /\ Instr.op = "push"
        /\ cpu' = [cpu EXCEPT !.mem[Reg("rsp") - 1] = Reg(Instr.src), !.reg["rsp"] = @ - 1,
                              !.pc = Land(@ + 1)]
     \/ /\ Instr.op = "pop"
        /\ cpu' = [cpu EXCEPT !.reg = [@ EXCEPT ![Instr.dst] = cpu.mem[Reg("rsp")],
                                                !["rsp"] = @ + 1],
                              !.pc = Land(@ + 1)]

Targets(q) ==
  {k \in DOMAIN code : /\ code[k].op = (IF code[q].op = "jmp" THEN "L:" ELSE "C:")
                       /\ code[k].src = code[q].src}

Jump ==
  /\ Executes({"jmp", "je"})
  /\ \E k \in Targets(cpu.pc) :
       cpu' = [cpu EXCEPT !.pc = Land(IF Instr.op = "jmp" \/ cpu.flag = 0 THEN k ELSE @ + 1)]

\* print_int calls printf, which keeps only rsp and rbp.
CallPrintInt ==
  /\ Executes({"call"}) /\ Len(cpu.out) < MaxOut
  /\ \E g \in Garbage :
       cpu' = [cpu EXCEPT !.out = Append(@, Reg("rdi")), !.pc = Land(@ + 1),
                          !.reg = [r \in DOMAIN @ |-> IF r \in {"rsp", "rbp"} THEN @[r] ELSE g]]

Return ==
  /\ Executes({"ret"})
  /\ cpu' = [cpu EXCEPT !.status = "exited", !.reg["rsp"] = @ + 1]

Run == UNCHANGED <<program, text, file, label_no, code, begin>>
       /\ (Move \/ Arithmetic \/ Divide \/ Compare \/ PushPop \/ Jump \/ CallPrintInt \/ Return)

-----------------------------------------------------------------------------
Caller == Max(Garbage)      \* the caller's rbp

Init ==
  /\ \E p \in Programs : program = p.statements /\ text = p.text
  /\ file = At(0) /\ label_no = 0 /\ code = header /\ begin = <<>>
  /\ \E g \in [0 .. NumVars - 1 -> Garbage] :
       cpu = [reg |-> [r \in {"rax", "rdi", "rsi", "rdx"} |-> g[0]] @@ ("rsp" :> 1) @@ ("rbp" :> Caller),
              mem |-> [a \in Words |-> IF -a \in DOMAIN g THEN g[-a] ELSE g[0]],
              flag |-> 0, pc |-> 1, out |-> <<>>, status |-> "compiling"]

Next == CompileStatement \/ CompileFooter \/ Run

Spec == Init /\ [][Next]_vars

-----------------------------------------------------------------------------
(* Properties. *)

Compiled == cpu.status \notin {"compiling", "crashed"}

\* Types: registers hold numbers of the machine's width, and the stack pointer
\* stays within the modelled words.
TypeOK ==
  /\ \A r \in DOMAIN cpu.reg \ {"rsp"} : InRange(cpu.reg[r])
  /\ \A a \in Words : InRange(cpu.mem[a])
  /\ cpu.reg["rsp"] \in -(NumVars + MaxDepth) .. 2
  /\ cpu.flag \in -1 .. 1 /\ cpu.pc \in 1 .. Len(code)
  /\ cpu.status \in {"compiling", "crashed", "running", "exited", "trap"}

\* Every jump has one target; that of an IF is behind all the instructions of
\* its statement, also when IFs are nested and the inner one's label serves both.
StatementAt(q) == Max({i \in DOMAIN begin : begin[i] <= q} \cup {0})
JumpsResolve ==
  Compiled =>
    \A q \in DOMAIN code :
      code[q].op \in {"jmp", "je"} =>
        /\ Cardinality(Targets(q)) = 1
        /\ code[q].op = "je" =>
             \A k \in Targets(q) :
               k > q /\ begin[StatementAt(q) + 1] <= Land(k) /\ StatementAt(k) = StatementAt(q)

\* The program never leaves its frame and the words below it for operands, between
\* statements nothing is left on the stack, and at the end the caller gets
\* its stack and, unless the program assigns A, its frame pointer back.
RECURSIVE Assigns(_, _)
Assigns(s, x) == \/ s.type = "LET" /\ s.name = x
                 \/ s.type = "COND" /\ Assigns(s.if_branch, x)
FrameKept ==
  /\ TypeOK
  /\ cpu.status = "running" /\ (\E i \in DOMAIN begin : cpu.pc = Land(begin[i]))
       => cpu.reg["rsp"] = -NumVars /\ cpu.reg["rbp"] = 0
  /\ cpu.status = "exited" =>
       /\ cpu.reg["rsp"] = 2
       /\ cpu.reg["rbp"] = Caller \/ \E i \in DOMAIN program : Assigns(program[i], Variables[1])

\* The compiler ends: although the parser looks ahead, rewinds the file and so
\* forgets that its end has been met, every call of parse gets further or meets it.
ParserAdvances ==
  ~Compiled /\ ~file.feof =>
    LET p == parse(text, file).p IN p.feof \/ p.read > file.read

\* The compiled program does what the source says: it assigns, prints, jumps and
\* fails exactly as BasicSpec does, one statement at a time.
SetUp == cpu.pc > Len(header)
FirstStatement == Min({i \in DOMAIN program : program[i].type # "LABEL"} \cup {Len(program) + 1})
Source == INSTANCE BasicSpec WITH
  Names   <- {Variables[i] : i \in DOMAIN Variables},
  Numbers <- Garbage,
  at      <- IF SetUp THEN StatementAt(cpu.pc) ELSE FirstStatement,
  env     <- [x \in {Variables[i] : i \in DOMAIN Variables} |->
                IF x = Variables[1] /\ ~SetUp THEN Caller ELSE cpu.mem[-Offset(x)]],
  out     <- cpu.out,
  trapped <- cpu.status = "trap"
ImplementsSource == Source!ASpec
=============================================================================
