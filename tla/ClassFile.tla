------------------------------ MODULE ClassFile ------------------------------
(***************************************************************************)
(* Reading a class file (project01 read_class.c, class_file.h).  The file  *)
(* is a sequence of bytes of B bits; an opcode, a tag and a character take *)
(* a byte each, whatever B is.  A file that ends too early, an index that  *)
(* is no constant of the expected kind and everything else the reader      *)
(* asserts stop the program.                                               *)
(***************************************************************************)
EXTENDS Integers, Sequences

CONSTANTS
  Inputs,       \* what the program may be given: a file and the source it was made from
  B             \* bits of a byte, 8 in the code

ASSUME ByteAssumption == B \in Nat \ {0}

VARIABLES
  input,        \* the file being read, with its source, which only properties read
  pos,          \* the bytes of it that have been read
  stage,        \* how far the reader is; "ready" once the class has been read
  count,        \* constants, methods and attributes still to be read
  found_code,   \* does the method being read have its code?
  class,        \* the constant pool and the methods
  allocated     \* the live blocks of the C heap, by what they hold

readVars == <<input, pos, stage, count, found_code, class, allocated>>

Utf8         == 1
Integer      == 3
Class        == 7
Fieldref     == 9
Methodref    == 10
NameAndType  == 12

\* The names and strings the program compares with, one character each.
INIT_NAME == <<"<init>">>
CODE_NAME == <<"Code">>
IS_STATIC == 8

file == input.file
\* May n bytes be read from p on?
Has(p, n) == p + n <= Len(file)

\* Two's complement.
Signed(n, bits) == IF n >= 2^(bits - 1) THEN n - 2^bits ELSE n

\* Big-endian numbers.
read_u1(p) == file[p + 1]
read_u2(p) == read_u1(p) * 2^B + read_u1(p + 1)
read_u4(p) == read_u2(p) * 2^(2 * B) + read_u2(p + 2)

IsConstant(index, tag) ==
  0 < index /\ index <= Len(class.constant_pool) /\ class.constant_pool[index].tag = tag
\* Constants are counted from one.
get_constant(index) == class.constant_pool[index]

Allocate(kind) == allocated' = [allocated EXCEPT ![kind] = @ + 1]

\* A failed assertion, or exit(1).
Die == stage' = "died" /\ UNCHANGED <<input, pos, count, found_code, class, allocated>>

-----------------------------------------------------------------------------
get_class_header ==
  /\ stage = "header"
  /\ IF Has(pos, 8)
     THEN /\ pos' = pos + 8 /\ stage' = "count"
          /\ UNCHANGED <<input, count, found_code, class, allocated>>
     ELSE Die

\* The count includes the unused constant 0.
constant_pool_count ==
  /\ stage = "count"
  /\ IF Has(pos, 2)
     THEN /\ pos' = pos + 2 /\ stage' = "constants"
          /\ count' = [count EXCEPT !.constants = (read_u2(pos) - 1) % 2^(2 * B)]
          /\ Allocate("pool") /\ UNCHANGED <<input, found_code, class>>
     ELSE Die

\* The bytes that follow a tag at p.
ConstantSize(p) ==
  CASE read_u1(p) = Utf8    -> IF Has(p, 3) THEN 2 + read_u2(p + 1) ELSE 2
    [] read_u1(p) = Integer -> 4
    [] read_u1(p) = Class   -> 2
    [] OTHER                -> 4

Constant(p) ==
  CASE read_u1(p) = Utf8    -> [tag |-> Utf8, text |-> SubSeq(file, p + 4, p + 3 + read_u2(p + 1))]
    [] read_u1(p) = Integer -> [tag |-> Integer, bytes |-> Signed(read_u4(p + 1), 4 * B)]
    [] read_u1(p) = Class   -> [tag |-> Class, string_index |-> read_u2(p + 1)]
    [] read_u1(p) = NameAndType ->
         [tag |-> NameAndType, name_index |-> read_u2(p + 1), descriptor_index |-> read_u2(p + 3)]
    [] OTHER -> [tag |-> read_u1(p), class_index |-> read_u2(p + 1),
                 name_and_type_index |-> read_u2(p + 3)]

get_constant_pool ==
  /\ stage = "constants" /\ count.constants > 0
  /\ IF /\ Has(pos, 1)
        /\ read_u1(pos) \in {Utf8, Integer, Class, Fieldref, Methodref, NameAndType}
        /\ Has(pos, 1 + ConstantSize(pos))
     THEN /\ class' = [class EXCEPT !.constant_pool = Append(@, Constant(pos))]
          /\ pos' = pos + 1 + ConstantSize(pos)
          /\ count' = [count EXCEPT !.constants = @ - 1]
          /\ Allocate("info") /\ UNCHANGED <<input, stage, found_code>>
     ELSE Die

\* Access flags, this class, its super class, and no interfaces and fields.
get_class_info ==
  /\ stage = "constants" /\ count.constants = 0
  /\ IF Has(pos, 10) /\ read_u2(pos + 6) = 0 /\ read_u2(pos + 8) = 0
     THEN /\ pos' = pos + 10 /\ stage' = "method_count"
          /\ UNCHANGED <<input, count, found_code, class, allocated>>
     ELSE Die

method_count ==
  /\ stage = "method_count"
  /\ IF Has(pos, 2)
     THEN /\ count' = [count EXCEPT !.methods = read_u2(pos)]
          /\ pos' = pos + 2 /\ stage' = "methods"
          /\ Allocate("methods") /\ UNCHANGED <<input, found_code, class>>
     ELSE Die

NewMethod(p) == [name |-> get_constant(read_u2(p + 2)).text,
                 descriptor |-> get_constant(read_u2(p + 4)).text,
                 max_stack |-> 0, max_locals |-> 0, code |-> <<>>]

\* Only the constructor need not be static.
MayBeCalled(p) ==
  get_constant(read_u2(p + 2)).text # INIT_NAME => (read_u2(p) \div IS_STATIC) % 2 = 1

get_methods ==
  /\ stage = "methods" /\ count.methods > 0
  /\ IF /\ Has(pos, 8) /\ IsConstant(read_u2(pos + 2), Utf8)
        /\ IsConstant(read_u2(pos + 4), Utf8) /\ MayBeCalled(pos)
     THEN /\ class' = [class EXCEPT !.methods = Append(@, NewMethod(pos))]
          /\ count' = [count EXCEPT !.methods = @ - 1, !.attributes = read_u2(pos + 6)]
          /\ found_code' = FALSE /\ pos' = pos + 8 /\ stage' = "attributes"
          /\ UNCHANGED <<input, allocated>>
     ELSE Die

\* The code of the last method, if its attribute's body starts at p.
WithCode(p) ==
  [class EXCEPT !.methods[Len(class.methods)] =
     [@ EXCEPT !.max_stack = read_u2(p), !.max_locals = read_u2(p + 2),
               !.code = SubSeq(file, p + 9, p + 8 + read_u4(p + 4))]]

\* The rest of an attribute is skipped by seeking to where it ends, which succeeds
\* beyond the end of the file too.  Mutant: reading goes on behind the code.
attribute_end_code(p) ==
  IF get_constant(read_u2(p)).text = CODE_NAME THEN p + 14 + read_u4(p + 10) ELSE p + 6 + read_u4(p + 2)
attribute_end(p) == p + 6 + read_u4(p + 2)

read_method_attributes ==
  /\ stage = "attributes" /\ count.attributes > 0
  /\ IF Has(pos, 6) /\ IsConstant(read_u2(pos), Utf8)
     THEN IF get_constant(read_u2(pos)).text # CODE_NAME
          THEN /\ pos' = attribute_end(pos) /\ count' = [count EXCEPT !.attributes = @ - 1]
               /\ UNCHANGED <<input, stage, found_code, class, allocated>>
          ELSE IF ~found_code /\ Has(pos, 14) /\ Has(pos, 14 + read_u4(pos + 10))
               THEN /\ class' = WithCode(pos + 6) /\ found_code' = TRUE
                    /\ pos' = attribute_end(pos) /\ count' = [count EXCEPT !.attributes = @ - 1]
                    /\ Allocate("code") /\ UNCHANGED <<input, stage>>
               ELSE Die
     ELSE Die

\* Behind the last attribute.
MethodRead ==
  /\ stage = "attributes" /\ count.attributes = 0
  /\ IF found_code
     THEN stage' = "methods" /\ UNCHANGED <<input, pos, count, found_code, class, allocated>>
     ELSE Die

ClassRead ==
  /\ stage = "methods" /\ count.methods = 0
  /\ stage' = "ready" /\ UNCHANGED <<input, pos, count, found_code, class, allocated>>

get_class ==
  \/ get_class_header \/ constant_pool_count \/ get_constant_pool \/ get_class_info
  \/ method_count \/ get_methods \/ read_method_attributes \/ MethodRead \/ ClassRead

\* What is left when free_class has given its blocks back.
free_class == [allocated EXCEPT !["info"] = @ - Len(class.constant_pool), !["pool"] = @ - 1,
                                !["code"] = @ - Len(class.methods), !["methods"] = @ - 1]

ReadInit ==
  /\ input \in Inputs
  /\ pos = 0 /\ stage = "header" /\ found_code = FALSE
  /\ count = [constants |-> 0, methods |-> 0, attributes |-> 0]
  /\ class = [constant_pool |-> <<>>, methods |-> <<>>]
  /\ allocated = [k \in {"pool", "info", "methods", "code", "locals", "result"} |-> 0]
=============================================================================
