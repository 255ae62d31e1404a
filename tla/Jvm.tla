--------------------------------- MODULE Jvm ---------------------------------
(***************************************************************************)
(* TeenyJVM (project01 jvm.c): the interpreter of the methods of a class   *)
(* file, a byte at a time.  A call of execute is a frame; the operand      *)
(* stack of a frame is an array of max_stack words, its locals an array of *)
(* max_locals words that starts uninitialized.                             *)
(***************************************************************************)
EXTENDS ClassFile

CONSTANTS
  Garbage       \* what an uninitialized word may hold

VARIABLES
  frames,       \* the calls of execute, the running one last
  result,       \* what the running call has returned: NULL or a box with a number
  out,          \* the lines printed to standard output
  ended         \* "no", or how the program came to its end

vars == <<readVars, frames, result, out, ended>>

MAIN_METHOD     == <<"main">>
MAIN_DESCRIPTOR == <<"(", "[Ljava/lang/String;", ")", "V">>

PENDING == <<>>         \* the call is still running
NULL    == << <<>> >>

\* Numbers wrap around.
Int32(n) == ((n + 2^(4 * B - 1)) % 2^(4 * B)) - 2^(4 * B - 1)

frame  == frames[Len(frames)]
method == class.methods[frame.m]
\* A byte of the code, counted from the one at pc.
code(k) == method.code[frame.pc + 1 + k]
opcode  == code(0)
U2(k) == code(k) * 2^B + code(k + 1)
\* The k-th word from the top of the operand stack.
stack(k) == frame.stack[Len(frame.stack) + 1 - k]

Running == stage = "ready" /\ ended = "no" /\ frames # <<>> /\ result = PENDING
At(first, last) == Running /\ opcode \in first .. last

-----------------------------------------------------------------------------
\* The end of a turn of the loop: n words are popped and the words of `pushed'
\* are pushed, and pc++.  Leaving the stack or the code is undefined.
Turn(n, pushed, locals, pc) ==
  /\ UNCHANGED <<readVars, result>>
  /\ IF /\ Len(frame.stack) >= n
        /\ Len(frame.stack) - n + Len(pushed) <= method.max_stack
        /\ pc + 1 \in 0 .. Len(method.code) - 1
     THEN /\ ended' = ended
          /\ frames' = [frames EXCEPT ![Len(frames)] =
                          [@ EXCEPT !.stack = SubSeq(@, 1, Len(@) - n) \o pushed,
                                    !.locals = locals, !.pc = pc + 1]]
     ELSE ended' = "overrun" /\ UNCHANGED frames

Fits(k, index) ==      \* are there k words on the stack, and is index a local?
  Len(frame.stack) >= k /\ index \in DOMAIN frame.locals
Overrun == ended' = "overrun" /\ UNCHANGED <<readVars, frames, result, out>>

const_offset      == 3
load_offset       == 26
store_offset      == 59
arithmetic_offset == 96
jump_zero_offset  == 153
jump_offset       == 159

iconst == At(2, 8) /\ Turn(0, <<opcode - const_offset>>, frame.locals, frame.pc) /\ UNCHANGED out

bipush == At(16, 16) /\ Turn(0, <<Signed(code(1), B)>>, frame.locals, frame.pc + 1) /\ UNCHANGED out

sipush == At(17, 17) /\ Turn(0, <<Signed(U2(1), 2 * B)>>, frame.locals, frame.pc + 2) /\ UNCHANGED out

ldc ==
  /\ At(18, 18) /\ UNCHANGED out
  /\ IF IsConstant(code(1), Integer)
     THEN Turn(0, <<get_constant(code(1)).bytes>>, frame.locals, frame.pc + 1)
     ELSE Overrun

Load(var, pc) ==
  /\ UNCHANGED out
  /\ IF Fits(0, var) THEN Turn(0, <<frame.locals[var]>>, frame.locals, pc) ELSE Overrun
iload   == At(21, 21) /\ Load(code(1), frame.pc + 1)
iload_n == At(26, 29) /\ Load(opcode - load_offset, frame.pc)

Store(var, pc) ==
  /\ UNCHANGED out
  /\ IF Fits(1, var) THEN Turn(1, <<>>, [frame.locals EXCEPT ![var] = stack(1)], pc) ELSE Overrun
istore   == At(54, 54) /\ Store(code(1), frame.pc + 1)
istore_n == At(59, 62) /\ Store(opcode - store_offset, frame.pc)

Magnitude(n) == IF n < 0 THEN -n ELSE n
\* Division truncates towards zero.
divide(a, b) == LET q == Magnitude(a) \div Magnitude(b) IN IF (a < 0) = (b < 0) THEN q ELSE -q
remain(a, b) == a - b * divide(a, b)

arithmetic(i, a, b) ==
  CASE i = 0 -> Int32(a + b)
    [] i = 1 -> Int32(a - b)
    [] i = 2 -> Int32(a * b)
    [] i = 3 -> divide(a, b)
    [] i = 4 -> remain(a, b)

\* The processor raises an exception for a quotient it cannot represent.
Traps(i, a, b) == i \in {3, 4} /\ (b = 0 \/ (a = -(2^(4 * B - 1)) /\ b = -1))

binary ==
  LET i == (opcode - arithmetic_offset) \div 4
  IN  /\ Running /\ opcode \in {96, 100, 104, 108, 112} /\ UNCHANGED out
      /\ IF Len(frame.stack) < 2 THEN Overrun
         ELSE IF Traps(i, stack(2), stack(1))
              THEN ended' = "trapped" /\ UNCHANGED <<readVars, frames, result>>
              ELSE Turn(2, <<arithmetic(i, stack(2), stack(1))>>, frame.locals, frame.pc)

ineg ==
  /\ At(116, 116) /\ UNCHANGED out
  /\ IF Len(frame.stack) < 1 THEN Overrun
     ELSE Turn(1, <<Int32(stack(1) * (-1))>>, frame.locals, frame.pc)

iinc ==
  /\ At(132, 132) /\ UNCHANGED out
  /\ IF ~Fits(0, code(1)) THEN Overrun
     ELSE Turn(0, <<>>, [frame.locals EXCEPT ![code(1)] = Int32(@ + Signed(code(2), B))], frame.pc + 2)

compare(i, a, b) ==
  CASE i = 0 -> a = b  [] i = 1 -> a # b  [] i = 2 -> a < b
    [] i = 3 -> a >= b [] i = 4 -> a > b  [] i = 5 -> a <= b

\* pc++ follows.  Mutant: the offset has no sign.
conditional_jump_unsigned(condition) == frame.pc + (IF condition THEN U2(1) - 1 ELSE 2)
conditional_jump(condition) == frame.pc + (IF condition THEN Signed(U2(1), 2 * B) - 1 ELSE 2)

ifzero ==
  /\ At(153, 158) /\ UNCHANGED out
  /\ IF Len(frame.stack) < 1 THEN Overrun
     ELSE Turn(1, <<>>, frame.locals, conditional_jump(compare(opcode - jump_zero_offset, stack(1), 0)))

if_icmp ==
  /\ At(159, 164) /\ UNCHANGED out
  /\ IF Len(frame.stack) < 2 THEN Overrun
     ELSE Turn(2, <<>>, frame.locals, conditional_jump(compare(opcode - jump_offset, stack(2), stack(1))))

goto == At(167, 167) /\ Turn(0, <<>>, frame.locals, conditional_jump(TRUE)) /\ UNCHANGED out

getstatic == At(178, 178) /\ Turn(0, <<>>, frame.locals, frame.pc + 2) /\ UNCHANGED out

\* Always println.
invokevirtual ==
  /\ At(182, 182) /\ Turn(1, <<>>, frame.locals, frame.pc + 2)
  /\ out' = Append(out, stack(1))

Known == (2 .. 8) \cup (16 .. 18) \cup {21} \cup (26 .. 29) \cup {54} \cup (59 .. 62)
         \cup {96, 100, 104, 108, 112, 116, 132} \cup (153 .. 164) \cup {167, 172, 177, 178, 182, 184}

\* An opcode the program does not know is reported and skipped.
unrecognized ==
  Running /\ opcode \notin Known /\ Turn(0, <<>>, frame.locals, frame.pc) /\ UNCHANGED out

-----------------------------------------------------------------------------
(* Calls.                                                                    *)

\* The number of the method, 0 for NULL.
find_method(name, descriptor) ==
  LET same == {i \in DOMAIN class.methods :
                 class.methods[i].name = name /\ class.methods[i].descriptor = descriptor}
  IN  IF same = {} THEN 0 ELSE CHOOSE i \in same : \A j \in same : i <= j

get_method_name_and_type(index) == get_constant(get_constant(index).name_and_type_index)

\* The assertions of find_method_from_index and of what it calls.
Resolves(index) ==
  /\ IsConstant(index, Methodref)
  /\ IsConstant(get_constant(index).name_and_type_index, NameAndType)
  /\ IsConstant(get_method_name_and_type(index).name_index, Utf8)
  /\ IsConstant(get_method_name_and_type(index).descriptor_index, Utf8)

\* The class a Methodref names is not looked at.
find_method_from_index(index) ==
  find_method(get_constant(get_method_name_and_type(index).name_index).text,
              get_constant(get_method_name_and_type(index).descriptor_index).text)

\* Brackets and result are no parameters.
get_number_of_parameters(m) == Len(class.methods[m].descriptor) - 3

\* Mutant: the first argument popped becomes the first local.
Argument_popped(params, i) == stack(i + 1)
Argument(params, i) == stack(params - i)

NewFrame(m, locals) == [m |-> m, pc |-> 0, locals |-> locals, stack |-> <<>>]

\* Up to the recursive call.
invokestatic ==
  LET next   == find_method_from_index(U2(1))
      params == get_number_of_parameters(next)
      size   == class.methods[next].max_locals
  IN  /\ At(184, 184) /\ UNCHANGED <<result, out>>
      /\ IF ~Resolves(U2(1))
         THEN ended' = "died" /\ UNCHANGED <<readVars, frames>>
         ELSE IF next = 0 \/ params > size \/ params > Len(frame.stack)
              THEN ended' = "overrun" /\ UNCHANGED <<readVars, frames>>
              ELSE /\ \E rest \in [params .. size - 1 -> Garbage] :
                        frames' = Append(
                          [frames EXCEPT ![Len(frames)].stack = SubSeq(@, 1, Len(@) - params)],
                          NewFrame(next, [i \in 0 .. size - 1 |->
                                            IF i < params THEN Argument(params, i) ELSE rest[i]]))
                   /\ Allocate("locals")
                   /\ UNCHANGED <<input, pos, stage, count, found_code, class, ended>>

\* The box is allocated; the operand stack dies with the call.
ireturn ==
  /\ At(172, 172) /\ UNCHANGED <<frames, out, input, pos, stage, count, found_code, class>>
  /\ IF Len(frame.stack) < 1 THEN ended' = "overrun" /\ UNCHANGED <<result, allocated>>
     ELSE result' = << <<stack(1)>> >> /\ Allocate("result") /\ ended' = ended

vreturn == At(177, 177) /\ result' = NULL /\ UNCHANGED <<readVars, frames, out, ended>>

\* The caller goes on behind the invokestatic it was at, with the locals and the
\* box of the call freed.  Mutant: the box is kept.
AfterCall(freed) ==
  LET caller == frames[Len(frames) - 1]
  IN  /\ stage = "ready" /\ ended = "no" /\ result # PENDING /\ Len(frames) > 1
      /\ UNCHANGED <<input, pos, stage, count, found_code, class, out>>
      /\ result' = PENDING
      /\ allocated' = [allocated EXCEPT !["locals"] = @ - 1, !["result"] = @ - freed]
      /\ IF /\ Len(caller.stack) + Len(result[1]) <= class.methods[caller.m].max_stack
            /\ caller.pc + 3 \in 0 .. Len(class.methods[caller.m].code) - 1
         THEN /\ ended' = ended
              /\ frames' = [SubSeq(frames, 1, Len(frames) - 1) EXCEPT ![Len(frames) - 1] =
                              [@ EXCEPT !.stack = @ \o result[1], !.pc = @ + 3]]
         ELSE ended' = "overrun" /\ UNCHANGED frames
returned_value_kept == AfterCall(0)
returned_value == AfterCall(Len(result[1]))

-----------------------------------------------------------------------------
main ==
  LET m == find_method(MAIN_METHOD, MAIN_DESCRIPTOR)
  IN  /\ stage = "ready" /\ ended = "no" /\ frames = <<>>
      /\ UNCHANGED <<readVars, result, out>>
      /\ IF m = 0 THEN ended' = "died" /\ UNCHANGED frames
         ELSE /\ \E locals \in [0 .. class.methods[m].max_locals - 1 -> Garbage] :
                   frames' = <<NewFrame(m, locals)>>
              /\ ended' = ended

\* "main() should return void"
main_returned ==
  /\ stage = "ready" /\ ended = "no" /\ result # PENDING /\ Len(frames) = 1
  /\ UNCHANGED <<input, pos, stage, count, found_code, class, frames, result, out>>
  /\ IF result = NULL THEN ended' = "returned" /\ allocated' = free_class
     ELSE ended' = "died" /\ allocated' = allocated

execute ==
  \/ iconst \/ bipush \/ sipush \/ ldc \/ iload \/ iload_n \/ istore \/ istore_n
  \/ binary \/ ineg \/ iinc \/ ifzero \/ if_icmp \/ goto \/ getstatic \/ invokevirtual
  \/ unrecognized \/ invokestatic \/ ireturn \/ vreturn \/ returned_value

Init == ReadInit /\ frames = <<>> /\ result = PENDING /\ out = <<>> /\ ended = "no"

Next ==
  \/ get_class /\ UNCHANGED <<frames, result, out, ended>>
  \/ main
  \/ execute
  \/ main_returned

Spec == Init /\ [][Next]_vars /\ WF_vars(Next)

-----------------------------------------------------------------------------
(* Properties.                                                               *)

TypeOK ==
  /\ pos \in Nat /\ found_code \in BOOLEAN
  /\ stage \in {"header", "count", "constants", "method_count", "methods", "attributes",
                "ready", "died"}
  /\ \A k \in DOMAIN count : count[k] \in 0 .. 2^(2 * B) - 1
  /\ \A k \in DOMAIN allocated : allocated[k] \in Nat
  /\ ended \in {"no", "returned", "trapped", "died", "overrun"}
  /\ \A i \in DOMAIN frames :
       /\ frames[i].m \in DOMAIN class.methods /\ frames[i].pc \in Nat
       /\ \A k \in DOMAIN frames[i].stack :
            frames[i].stack[k] \in -(2^(4 * B - 1)) .. 2^(4 * B - 1) - 1

\* The reader accepts every class a compiler writes, however its attributes are
\* laid out, and what it has read when it is done is the source's methods, in
\* their order, with their code, even if the file has been cut off.
LoadFaithful ==
  /\ stage = "died" => ~input.valid
  /\ stage = "ready" =>
       /\ Len(class.methods) = Len(input.methods)
       /\ \A i \in DOMAIN class.methods :
            /\ class.methods[i].name = input.methods[i].name
            /\ class.methods[i].max_locals = input.methods[i].locals
            /\ class.methods[i].code = input.bytes[i]

\* execute never leaves the operand stack, the locals or the code of a method when
\* the code is what a compiler writes, whatever the order of jumps and calls, and
\* every word of a stack is a number of 32 bits.
InBounds == TypeOK /\ ended # "overrun"

\* Every block is freed once: the locals of the calls that are under way, and the
\* box of a result until the caller has it, are what execute owns; nothing is left
\* when main has returned.
BlocksFreed ==
  /\ ended = "returned" => \A k \in DOMAIN allocated : allocated[k] = 0
  /\ frames # <<>> /\ ended = "no" =>
       /\ allocated["locals"] = Len(frames) - 1
       /\ allocated["result"] = IF result \in {PENDING, NULL} THEN 0 ELSE 1

\* The instruction of the source that begins at a byte, 0 if there is none.
Instruction(m, pc) ==
  LET at == {i \in DOMAIN input.starts[m] : input.starts[m][i] = pc}
  IN  IF at = {} THEN 0 ELSE CHOOSE i \in at : TRUE

Source == INSTANCE JvmSpec WITH
  Width   <- 4 * B,
  methods <- input.methods,
  calls   <- [i \in DOMAIN frames |->
                [m |-> frames[i].m, at |-> Instruction(frames[i].m, frames[i].pc),
                 locals |-> frames[i].locals, stack |-> frames[i].stack]],
  state   <- CASE ended = "no"       -> IF frames = <<>> THEN "ready" ELSE "running"
               [] ended = "trapped"  -> "stopped"
               [] ended = "returned" -> "returned"
               [] ended = "died"     -> IF frames = <<>> THEN "ready" ELSE "died"
               [] OTHER              -> "overrun"

\* A program that ends in Java comes to its end.
Ends == <>(stage = "died" \/ ended # "no")

\* Where it differs: Java divides the smallest number by -1 and goes on with the
\* smallest number, or zero as remainder; a / b and a % b in C stop the process.
QuotientOverflows ==
  /\ frames # <<>> /\ ended = "no" /\ ended' = "trapped"
  /\ Source!Inst.op \in {"idiv", "irem"}
  /\ Source!Operand(2) = -(2^(4 * B - 1)) /\ Source!Operand(1) = -1
  /\ UNCHANGED <<input, frames, out>>

\* The interpreter does what the Java virtual machine does with the instructions of
\* the source: the encodings of constants and variables, the index arithmetic on
\* opcodes, the offsets of jumps, the order of arguments and the width of numbers,
\* with the one exception of a quotient that overflows; and it comes to the end that
\* every program of the source has.
ImplementsJava ==
  Source!Begin /\ [][Source!Start \/ Source!Execute \/ QuotientOverflows]_(Source!avars) /\ Ends
=============================================================================
