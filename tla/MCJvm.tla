------------------------------- MODULE MCJvm --------------------------------
(* Class files as javac lays them out: every arithmetic instruction on numbers *)
(* at the ends of their range, loops in both directions, both kinds of jump    *)
(* with every relation, recursion, overloading, methods without a result, and  *)
(* one file cut off at every byte or damaged.                                  *)
EXTENDS Jvm, SequencesExt

MCGarbage == {-7}

Push(v)      == [op |-> "push", value |-> v]
LoadVar(v)   == [op |-> "load", var |-> v]
StoreVar(v)  == [op |-> "store", var |-> v]
Inc(v, n)    == [op |-> "iinc", var |-> v, value |-> n]
If(rel, t)   == [op |-> "if", rel |-> rel, target |-> t]
IfCmp(rel, t) == [op |-> "if_icmp", rel |-> rel, target |-> t]
Goto(t)      == [op |-> "goto", target |-> t]
Call(m)      == [op |-> "call", method |-> m]
Do(op)       == [op |-> op]

Source0(name, params, returns, locals, body) ==
  [name |-> <<name>>, params |-> params, locals |-> locals, code |-> body,
   descriptor |-> IF name = "main" THEN MAIN_DESCRIPTOR
                  ELSE <<"(">> \o [i \in 1 .. params |-> "I"] \o <<")", returns>>]

Rels == <<"eq", "ne", "lt", "ge", "gt", "le">>
RelNo(rel) == (CHOOSE i \in DOMAIN Rels : Rels[i] = rel) - 1

(* The file.                                                                  *)
Unsigned(v, bits) == v % 2^bits
Bytes1(v) == <<Unsigned(v, B)>>
Bytes2(v) == <<Unsigned(v, 2 * B) \div 2^B, v % 2^B>>
Bytes4(v) == Bytes2(Unsigned(v, 4 * B) \div 2^(2 * B)) \o Bytes2(v)

NeedsPool(v) == v \notin -(2^(2 * B - 1)) .. 2^(2 * B - 1) - 1
Ints(p) == SetToSeq({v \in UNION {{p[m].code[i].value : i \in {j \in DOMAIN p[m].code : p[m].code[j].op = "push"}}
                                   : m \in DOMAIN p} : NeedsPool(v)})
IndexOfInt(p, v) == CHOOSE i \in DOMAIN Ints(p) : Ints(p)[i] = v

\* Behind the integers: four shared constants, then four of each method.
SharedIndex(p, i) == Len(Ints(p)) + i
MethodIndex(p, m, i) == Len(Ints(p)) + 5 + 4 * (m - 1) + i

Size0(ins) ==
  CASE ins.op = "push" -> (IF ins.value \in -1 .. 5 THEN 1
                           ELSE IF ins.value \in -(2^(B - 1)) .. 2^(B - 1) - 1 THEN 2
                           ELSE IF NeedsPool(ins.value) THEN 2 ELSE 3)
    [] ins.op \in {"load", "store"} -> (IF ins.var < 4 THEN 1 ELSE 2)
    [] ins.op \in {"iinc", "if", "if_icmp", "goto", "call", "getstatic", "print"} -> 3
    [] OTHER -> 1

Starts(body) == [i \in DOMAIN body |-> FoldLeft(LAMBDA n, ins : n + Size0(ins), 0, SubSeq(body, 1, i - 1))]

Encoded(p, body, i) ==
  LET ins == body[i]
      offset(t) == Bytes2(Starts(body)[t] - Starts(body)[i])
  IN  CASE ins.op = "push" ->
             (IF ins.value \in -1 .. 5 THEN <<3 + ins.value>>
              ELSE IF Size0(ins) = 3 THEN <<17>> \o Bytes2(ins.value)
              ELSE IF NeedsPool(ins.value) THEN <<18, IndexOfInt(p, ins.value)>>
              ELSE <<16>> \o Bytes1(ins.value))
        [] ins.op = "load"  -> (IF ins.var < 4 THEN <<26 + ins.var>> ELSE <<21, ins.var>>)
        [] ins.op = "store" -> (IF ins.var < 4 THEN <<59 + ins.var>> ELSE <<54, ins.var>>)
        [] ins.op = "iinc"  -> <<132, ins.var>> \o Bytes1(ins.value)
        [] ins.op = "if"    -> <<153 + RelNo(ins.rel)>> \o offset(ins.target)
        [] ins.op = "if_icmp" -> <<159 + RelNo(ins.rel)>> \o offset(ins.target)
        [] ins.op = "goto"  -> <<167>> \o offset(ins.target)
        [] ins.op = "call"  -> <<184>> \o Bytes2(MethodIndex(p, ins.method, 4))
        [] ins.op = "getstatic" -> <<178>> \o Bytes2(SharedIndex(p, 5))
        [] ins.op = "print" -> <<182>> \o Bytes2(SharedIndex(p, 5))
        [] OTHER -> <<[iadd |-> 96, isub |-> 100, imul |-> 104, idiv |-> 108, irem |-> 112,
                       ineg |-> 116, ireturn |-> 172, return |-> 177, nop |-> 0, aload_0 |-> 42][ins.op]>>

Assembled(p, body) == FlattenSeq([i \in DOMAIN body |-> Encoded(p, body, i)])

Utf8Bytes(text) == <<Utf8>> \o Bytes2(Len(text)) \o text

PoolBytes(p) ==
  FlattenSeq([i \in DOMAIN Ints(p) |-> <<Integer>> \o Bytes4(Ints(p)[i])])
  \o Utf8Bytes(CODE_NAME) \o Utf8Bytes(<<"Deprecated">>) \o Utf8Bytes(<<"Lines">>)
  \o <<Class>> \o Bytes2(SharedIndex(p, 3))
  \o <<Fieldref>> \o Bytes2(SharedIndex(p, 4)) \o Bytes2(MethodIndex(p, 1, 3))
  \o FlattenSeq([m \in DOMAIN p |->
       Utf8Bytes(p[m].name) \o Utf8Bytes(p[m].descriptor)
       \o <<NameAndType>> \o Bytes2(MethodIndex(p, m, 1)) \o Bytes2(MethodIndex(p, m, 2))
       \o <<Methodref>> \o Bytes2(SharedIndex(p, 4)) \o Bytes2(MethodIndex(p, m, 3))])

LineTable(p) == Bytes2(0) \o Bytes2(1) \o Bytes2(SharedIndex(p, 3)) \o Bytes4(2) \o Bytes2(7)

CodeBytes(p, m) ==
  LET body == Bytes2(3) \o Bytes2(p[m].locals) \o Bytes4(Len(Assembled(p, p[m].code)))
              \o Assembled(p, p[m].code) \o LineTable(p)
  IN  Bytes2(SharedIndex(p, 1)) \o Bytes4(Len(body)) \o body
Marker(p) == Bytes2(SharedIndex(p, 2)) \o Bytes4(0)

\* Damage: what is wrong with the last method or with the head of the file.
MethodBytes(p, m, damage) ==
  LET here == IF m = Len(p) THEN damage ELSE "none"
  IN  Bytes2(IF p[m].name = INIT_NAME THEN 1 ELSE IF here = "instance" THEN 1 ELSE 9)
      \o Bytes2(IF here = "name" THEN 0 ELSE MethodIndex(p, m, 1))
      \o Bytes2(MethodIndex(p, m, 2))
      \o (CASE here = "no code"  -> Bytes2(1) \o Marker(p)
            [] here = "two codes" -> Bytes2(2) \o CodeBytes(p, m) \o CodeBytes(p, m)
            [] OTHER -> IF m % 2 = 0 THEN Bytes2(2) \o Marker(p) \o CodeBytes(p, m)
                        ELSE Bytes2(2) \o CodeBytes(p, m) \o Marker(p))

FileOf(p, damage) ==
  <<202, 254, 186, 190, 0, 0, 0, 7>>
  \o Bytes2(Len(Ints(p)) + 5 + 4 * Len(p) + 1)
  \o (IF damage = "tag" THEN <<99>> \o Tail(PoolBytes(p)) ELSE PoolBytes(p))
  \o Bytes2(1) \o Bytes2(0) \o Bytes2(0) \o Bytes2(IF damage = "interface" THEN 1 ELSE 0) \o Bytes2(0)
  \o Bytes2(Len(p)) \o FlattenSeq([m \in DOMAIN p |-> MethodBytes(p, m, damage)])
  \o Bytes2(0)

InputOf(p, damage) ==
  [file |-> FileOf(p, damage), methods |-> p, valid |-> damage = "none",
   bytes |-> [m \in DOMAIN p |-> Assembled(p, p[m].code)],
   starts |-> [m \in DOMAIN p |-> Starts(p[m].code)]]

(* The programs.                                                              *)
Constructor == Source0("<init>", 0, "V", 1, <<Do("aload_0"), Do("return")>>)
Main(locals, body) == Source0("main", 1, "V", locals, body \o <<Do("return")>>)

Extremes == {-2048, -3, -1, 0, 7, 40, 2047}
Computations ==
  {<<Constructor,
     Main(1, <<Do("getstatic"), Push(a), Push(b), Call(3), Do("print")>>),
     Source0("f", 2, "I", 2, <<LoadVar(0), LoadVar(1), Do(op), Do("ireturn")>>)>> :
     a \in Extremes, b \in Extremes, op \in {"iadd", "isub", "imul", "idiv", "irem"}}

\* for (v = a; v rel b; v += c) println(-v), with the test at the top.
Loops ==
  {<<Constructor,
     Main(6, <<Push(l[1]), StoreVar(v), LoadVar(v), Push(l[3]), IfCmp(l[2], 12), Do("nop"),
               Do("getstatic"), LoadVar(v), Do("ineg"), Do("print"), Goto(13), Do("return"),
               Inc(v, l[4]), Goto(3)>>)>> :
     l \in {<<0, "ge", 3, 1>>, <<2, "lt", -2, -1>>, <<-4, "eq", 2, 3>>, <<2047, "ne", 2047, 1>>,
            <<-30, "gt", -24, 3>>, <<-2046, "le", -2047, -1>>, <<2046, "le", 0, 1>>},
     v \in {1, 5}}

Branches ==
  {<<Main(2, <<Push(a), StoreVar(1), Do("getstatic"), LoadVar(1), Call(2), Do("print")>>),
     Source0("f", 1, "I", 1, <<LoadVar(0), If(rel, 5), Push(1), Do("ireturn"), Push(a), Do("ireturn")>>)>> :
     a \in {-5, 0, 6}, rel \in ToSet(Rels)}

\* A recursive method, one of the same name with another parameter, and one without
\* a result that prints its arguments.
Recursion(n) ==
  <<Constructor,
    Main(1, <<Push(n), Call(3), Push(n), Call(4), Push(n), Call(5)>>),
    Source0("f", 1, "I", 1,
      <<LoadVar(0), If("gt", 5), Push(1), Do("ireturn"),
        LoadVar(0), LoadVar(0), Push(1), Do("isub"), Call(3), Do("imul"), Do("ireturn")>>),
    Source0("f", 2, "I", 3,
      <<LoadVar(0), StoreVar(2), LoadVar(2), LoadVar(1), Do("isub"), Do("ireturn")>>),
    Source0("show", 2, "V", 2,
      <<Do("getstatic"), LoadVar(0), Do("print"), Do("getstatic"), LoadVar(1), Do("print"), Do("return")>>)>>

Cut(n, input0) == [input0 EXCEPT !.file = SubSeq(@, 1, n), !.valid = FALSE]

MCInputs ==
  {InputOf(p, "none") : p \in Computations \cup Loops \cup Branches \cup {Recursion(n) : n \in {0, 3, 7}}}
  \cup {InputOf(Recursion(2), d) : d \in {"instance", "name", "no code", "two codes", "tag", "interface"}}
  \cup LET whole == InputOf(Recursion(2), "none") IN {Cut(n, whole) : n \in 0 .. Len(whole.file) - 1}
  \cup {[InputOf(<<Constructor>>, "none") EXCEPT !.valid = FALSE]}
=============================================================================
