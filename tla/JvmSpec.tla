------------------------------- MODULE JvmSpec -------------------------------
(***************************************************************************)
(* What the Java virtual machine does with the integer instructions of the *)
(* methods of a class: every activation has local variables and an operand *)
(* stack, jumps name the instruction they lead to, arguments become the    *)
(* first local variables, and numbers have Width bits.                     *)
(***************************************************************************)
EXTENDS Integers, Sequences

CONSTANTS Width,     \* bits of a number, 32 in Java
          Garbage    \* what a local variable may hold before it is assigned

VARIABLES methods,   \* the source: name, parameters, number of locals and instructions
          calls,     \* the activations, the running one last
          out,       \* what has been printed
          state      \* "ready", "running", "returned", or "stopped" by a division by zero

avars == <<methods, calls, out, state>>

Wrapped(n) == ((n + 2^(Width - 1)) % 2^Width) - 2^(Width - 1)

Size(n) == IF n < 0 THEN -n ELSE n
Ratio(a, b) == LET q == Size(a) \div Size(b) IN IF (a < 0) = (b < 0) THEN q ELSE -q

Computed(op, a, b) ==
  CASE op = "iadd" -> Wrapped(a + b)
    [] op = "isub" -> Wrapped(a - b)
    [] op = "imul" -> Wrapped(a * b)
    [] op = "idiv" -> Wrapped(Ratio(a, b))
    [] op = "irem" -> a - b * Ratio(a, b)

\* A division by zero, which Java ends with an exception.  The smallest number
\* divided by -1 is no such case: the quotient wraps and the remainder is zero.
Refused(op, b) == op \in {"idiv", "irem"} /\ b = 0

Related(rel, a, b) ==
  CASE rel = "eq" -> a = b  [] rel = "ne" -> a # b  [] rel = "lt" -> a < b
    [] rel = "ge" -> a >= b [] rel = "gt" -> a > b  [] rel = "le" -> a <= b

Now  == calls[Len(calls)]
Inst == methods[Now.m].code[Now.at]
\* The n-th operand from the top.
Operand(n) == Now.stack[Len(Now.stack) + 1 - n]
\* The stack without its first n operands.
Below(n) == SubSeq(Now.stack, 1, Len(Now.stack) - n)

Fresh(m, args, locals) ==
  /\ DOMAIN locals = 0 .. methods[m].locals - 1
  /\ \A i \in DOMAIN locals : IF i < Len(args) THEN locals[i] = args[i + 1] ELSE locals[i] \in Garbage

Enter(m, args, suspended) ==
  \E locals \in [0 .. methods[m].locals - 1 -> Garbage \cup {args[i] : i \in DOMAIN args}] :
    /\ Fresh(m, args, locals)
    /\ calls' = Append(suspended, [m |-> m, at |-> 1, locals |-> locals, stack |-> <<>>])

Start ==
  /\ state = "ready" /\ state' = "running"
  /\ \E m \in DOMAIN methods : methods[m].name = <<"main">> /\ Enter(m, <<>>, <<>>)
  /\ UNCHANGED <<methods, out>>

Continue(stack, locals, at) ==
  /\ calls' = [calls EXCEPT ![Len(calls)] = [@ EXCEPT !.stack = stack, !.locals = locals, !.at = at]]
  /\ UNCHANGED <<methods, state>>

Then(stack) == Continue(stack, Now.locals, Now.at + 1) /\ UNCHANGED out
Jump(stack, taken) == Continue(stack, Now.locals, IF taken THEN Inst.target ELSE Now.at + 1) /\ UNCHANGED out

Return(result) ==
  /\ UNCHANGED <<methods, out>>
  /\ IF Len(calls) = 1 THEN calls' = calls /\ state' = "returned"
     ELSE /\ state' = state
          /\ calls' = [SubSeq(calls, 1, Len(calls) - 1) EXCEPT
                         ![Len(calls) - 1] = [@ EXCEPT !.stack = @ \o result, !.at = @ + 1]]

Execute ==
  /\ state = "running"
  /\ \/ Inst.op = "push"   /\ Then(Append(Now.stack, Inst.value))
     \/ Inst.op = "load"   /\ Then(Append(Now.stack, Now.locals[Inst.var]))
     \/ /\ Inst.op = "store" /\ UNCHANGED out
        /\ Continue(Below(1), [Now.locals EXCEPT ![Inst.var] = Operand(1)], Now.at + 1)
     \/ /\ Inst.op = "iinc" /\ UNCHANGED out
        /\ Continue(Now.stack, [Now.locals EXCEPT ![Inst.var] = Wrapped(@ + Inst.value)], Now.at + 1)
     \/ /\ Inst.op \in {"iadd", "isub", "imul", "idiv", "irem"}
        /\ ~Refused(Inst.op, Operand(1))
        /\ Then(Append(Below(2), Computed(Inst.op, Operand(2), Operand(1))))
     \/ /\ Refused(Inst.op, Operand(1))
        /\ state' = "stopped" /\ UNCHANGED <<methods, calls, out>>
     \/ Inst.op = "ineg" /\ Then(Append(Below(1), Wrapped(-Operand(1))))
     \/ Inst.op = "if"     /\ Jump(Below(1), Related(Inst.rel, Operand(1), 0))
     \/ Inst.op = "if_icmp" /\ Jump(Below(2), Related(Inst.rel, Operand(2), Operand(1)))
     \/ Inst.op = "goto"   /\ Jump(Now.stack, TRUE)
     \/ Inst.op \in {"nop", "getstatic"} /\ Then(Now.stack)
     \/ /\ Inst.op = "print" /\ out' = Append(out, Operand(1))
        /\ Continue(Below(1), Now.locals, Now.at + 1)
     \/ /\ Inst.op = "call"
        /\ LET n == methods[Inst.method].params
               k == Len(Now.stack) - n
           IN  Enter(Inst.method, SubSeq(Now.stack, k + 1, Len(Now.stack)),
                     Append(SubSeq(calls, 1, Len(calls) - 1), [Now EXCEPT !.stack = Below(n)]))
        /\ UNCHANGED <<methods, out, state>>
     \/ Inst.op = "ireturn" /\ Return(<<Operand(1)>>)
     \/ Inst.op = "return"  /\ Return(<<>>)

Begin == calls = <<>> /\ out = <<>> /\ state = "ready"
=============================================================================
