----------------------------- MODULE BasicSpec ------------------------------
(***************************************************************************)
(* What a TeenyBASIC program means: its statements are executed one after  *)
(* the other, on variables of a fixed width.  A division that the machine  *)
(* cannot carry out stops the program.                                     *)
(***************************************************************************)
EXTENDS Integers, Sequences

CONSTANTS Width,     \* bits of a number, 64 in the code
          Numbers,   \* the values of variables before they are assigned
          Names

VARIABLES program,   \* the statements
          at,        \* the next statement
          env,       \* the variables
          out,       \* what has been printed
          trapped    \* has a division failed?

avars == <<program, at, env, out, trapped>>

Trap == 2^Width      \* no number

Wrapped(n) == ((n + 2^(Width - 1)) % 2^Width) - 2^(Width - 1)

Magnitude(n) == IF n < 0 THEN -n ELSE n
\* Division truncates towards zero.
Quotient(a, b) ==
  LET q == Magnitude(a) \div Magnitude(b) IN IF (a < 0) = (b < 0) THEN q ELSE -q

Apply(op, l, r) ==
  CASE l = Trap \/ r = Trap -> Trap
    [] op = "+" -> Wrapped(l + r)
    [] op = "-" -> Wrapped(l - r)
    [] op = "*" -> Wrapped(l * r)
    [] op = "/" -> IF r = 0 \/ Quotient(l, r) # Wrapped(Quotient(l, r))
                   THEN Trap ELSE Quotient(l, r)
    [] op = "<" -> IF l < r THEN 1 ELSE 0
    [] op = ">" -> IF l > r THEN 1 ELSE 0
    [] op = "=" -> IF l = r THEN 1 ELSE 0

RECURSIVE Eval(_, _)
Eval(e, vals) ==
  CASE e.type = "NUM"       -> e.value
    [] e.type = "VAR"       -> vals[e.name]
    [] e.type = "BINARY_OP" -> Apply(e.op, Eval(e.left, vals), Eval(e.right, vals))

\* The statement that runs when s is reached: s itself, the branch of an IF whose
\* condition holds, or none.
RECURSIVE Chosen(_, _)
Chosen(s, vals) ==
  IF s.type # "COND" THEN s
  ELSE LET c == Eval(s.condition, vals)
       IN  IF c = Trap THEN [type |-> "TRAP"]
           ELSE IF c = 0 THEN [type |-> "NONE"] ELSE Chosen(s.if_branch, vals)

RECURSIVE Declares(_, _)
Declares(s, label) ==
  \/ s.type = "LABEL" /\ s.label = label
  \/ s.type = "COND" /\ Declares(s.if_branch, label)

\* The first statement from i on that is not a label.
RECURSIVE Past(_)
Past(i) == IF i <= Len(program) /\ program[i].type = "LABEL" THEN Past(i + 1) ELSE i

Execute ==
  LET s == Chosen(program[at], env)
      v == Eval(s.expr, env)
  IN  /\ ~trapped /\ at <= Len(program) /\ UNCHANGED program
      /\ \/ /\ s.type \in {"NONE", "LABEL"}
            /\ at' = Past(at + 1) /\ UNCHANGED <<env, out, trapped>>
         \/ /\ s.type = "GOTO"
            /\ \E i \in DOMAIN program : Declares(program[i], s.label) /\ at' = Past(i + 1)
            /\ UNCHANGED <<env, out, trapped>>
         \/ /\ s.type = "LET" /\ v # Trap
            /\ env' = [env EXCEPT ![s.name] = v] /\ at' = Past(at + 1)
            /\ UNCHANGED <<out, trapped>>
         \/ /\ s.type = "PRINT" /\ v # Trap
            /\ out' = Append(out, v) /\ at' = Past(at + 1)
            /\ UNCHANGED <<env, trapped>>
         \/ /\ s.type = "TRAP" \/ (s.type \in {"LET", "PRINT"} /\ v = Trap)
            /\ trapped' = TRUE /\ UNCHANGED <<at, env, out>>

ASpec ==
  /\ at = Past(1) /\ env \in [Names -> Numbers] /\ out = <<>> /\ trapped = FALSE
  /\ [][Execute]_avars
=============================================================================
