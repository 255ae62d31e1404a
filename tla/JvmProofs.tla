------------------------------ MODULE JvmProofs -------------------------------
(***************************************************************************)
(* What holds of TeenyJVM for every file it may be given, whether or not a *)
(* compiler wrote it: the blocks of the C heap are those the reader and    *)
(* the calls under way own, and none is left when main has returned.       *)
(***************************************************************************)
EXTENDS Jvm, TLAPS

Kinds == {"pool", "info", "methods", "code", "locals", "result"}

IsSeq(s) == \E S : s \in Seq(S)

\* Sequences stay sequences.
LEMMA SeqGrows ==
  ASSUME NEW s, IsSeq(s), NEW x
  PROVE  IsSeq(Append(s, x)) /\ Len(Append(s, x)) = Len(s) + 1 /\ Len(s) \in Nat
<1>1. PICK S : s \in Seq(S)
  BY DEF IsSeq
<1>2. s \in Seq(S \cup {x})
  BY <1>1
<1>3. Append(s, x) \in Seq(S \cup {x}) /\ Len(Append(s, x)) = Len(s) + 1 /\ Len(s) \in Nat
  BY <1>2
<1> QED BY <1>3 DEF IsSeq

\* So they do when one of their elements is replaced.
LEMMA SeqChanged ==
  ASSUME NEW s, IsSeq(s), NEW i, NEW x
  PROVE  IsSeq([s EXCEPT ![i] = x]) /\ Len([s EXCEPT ![i] = x]) = Len(s)
<1>1. PICK S : s \in Seq(S)
  BY DEF IsSeq
<1>2. s \in Seq(S \cup {x})
  BY <1>1
<1>3. [s EXCEPT ![i] = x] \in Seq(S \cup {x}) /\ Len([s EXCEPT ![i] = x]) = Len(s)
  <2>1. CASE i \in 1 .. Len(s)
    BY <1>2, <2>1
  <2>2. CASE i \notin 1 .. Len(s)
    <3>1. [s EXCEPT ![i] = x] = s
      BY <1>2, <2>2
    <3> QED BY <1>2, <3>1
  <2> QED BY <2>1, <2>2
<1> QED BY <1>3 DEF IsSeq

\* So they do when the last element goes.
LEMMA SeqCut ==
  ASSUME NEW s, IsSeq(s), Len(s) > 1
  PROVE  IsSeq(SubSeq(s, 1, Len(s) - 1)) /\ Len(SubSeq(s, 1, Len(s) - 1)) = Len(s) - 1
<1>1. PICK S : s \in Seq(S)
  BY DEF IsSeq
<1>2. SubSeq(s, 1, Len(s) - 1) \in Seq(S) /\ Len(SubSeq(s, 1, Len(s) - 1)) = Len(s) - 1
  BY <1>1
<1> QED BY <1>2 DEF IsSeq

\* Only the empty sequence has no elements.
LEMMA SeqEmpty ==
  ASSUME NEW s, IsSeq(s)
  PROVE  Len(s) \in Nat /\ (s = <<>> <=> Len(s) = 0)
<1>1. PICK S : s \in Seq(S)
  BY DEF IsSeq
<1> QED BY <1>1

-----------------------------------------------------------------------------
(* Who owns the blocks. *)

ReaderTypes ==
  /\ allocated \in [Kinds -> Int]
  /\ class = [constant_pool |-> class.constant_pool, methods |-> class.methods]
  /\ IsSeq(class.constant_pool) /\ IsSeq(class.methods)

\* The reader owns the pool, a block for every constant, the methods and the code of
\* every method but one whose code has not been found yet.
ReaderOwns ==
  stage # "died" /\ ended # "returned" =>
    /\ allocated["pool"] = IF stage \in {"header", "count"} THEN 0 ELSE 1
    /\ allocated["info"] = Len(class.constant_pool)
    /\ allocated["methods"] = IF stage \in {"methods", "attributes", "ready"} THEN 1 ELSE 0
    /\ allocated["code"] = Len(class.methods) - (IF stage = "attributes" /\ ~found_code THEN 1 ELSE 0)

IsResult(r) == r \in {PENDING, NULL} \/ \E v : r = << <<v>> >>

\* A call owns its locals unless it is main's, whose locals are on the stack; a
\* result other than NULL is in a box.
CallsOwn ==
  /\ IsSeq(frames) /\ IsResult(result)
  /\ stage # "ready" => Len(frames) = 0 /\ ended = "no"
  /\ Len(frames) = 0 => result = PENDING
  /\ ended = "no" =>
       /\ allocated["locals"] = IF Len(frames) = 0 THEN 0 ELSE Len(frames) - 1
       /\ allocated["result"] = IF result \in {PENDING, NULL} THEN 0 ELSE 1
  /\ ended = "returned" => \A k \in Kinds : allocated[k] = 0

Ownership == ReaderTypes /\ ReaderOwns /\ CallsOwn

\* NULL, PENDING and a box are told apart by their lengths.
LEMMA Results ==
  /\ PENDING # NULL /\ Len(NULL[1]) = 0
  /\ \A v : << <<v>> >> # NULL /\ << <<v>> >> # PENDING /\ Len(<< <<v>> >>[1]) = 1
BY DEF PENDING, NULL

\* Before a byte is read.
LEMMA OwnershipInit == Init => Ownership
<1> SUFFICES ASSUME Init PROVE Ownership
  OBVIOUS
<1>1. IsSeq(<<>>) /\ Len(<<>>) = 0
  <2>1. <<>> \in Seq({}) /\ Len(<<>>) = 0
    OBVIOUS
  <2> QED BY <2>1 DEF IsSeq
<1>2. ReaderTypes
  BY <1>1 DEF Init, ReadInit, ReaderTypes, Kinds
<1>3. ReaderOwns
  BY <1>1 DEF Init, ReadInit, ReaderOwns
<1>4. CallsOwn
  BY <1>1 DEF Init, ReadInit, CallsOwn, IsResult
<1> QED BY <1>2, <1>3, <1>4 DEF Ownership

\* The reader dies: whatever it had is the operating system's.
LEMMA OwnershipDie ==
  ASSUME Ownership, Die, UNCHANGED <<frames, result, out, ended>>, stage # "ready"
  PROVE  Ownership'
<1>1. ReaderTypes'
  BY DEF Ownership, ReaderTypes, Die
<1>2. ReaderOwns'
  BY DEF ReaderOwns, Die
<1>3. CallsOwn'
  BY DEF Ownership, CallsOwn, IsResult, Die
<1> QED BY <1>1, <1>2, <1>3 DEF Ownership

\* A block of one kind more.
LEMMA OneMore ==
  ASSUME ReaderTypes, NEW kind \in Kinds, Allocate(kind)
  PROVE  /\ allocated' \in [Kinds -> Int] /\ allocated'[kind] = allocated[kind] + 1
         /\ \A k \in Kinds : k # kind => allocated'[k] = allocated[k]
BY DEF ReaderTypes, Allocate

\* While the class is read nothing runs.
LEMMA ReadingCalls ==
  ASSUME Ownership, UNCHANGED <<frames, result, ended>>, stage \notin {"ready", "died"},
         allocated'["locals"] = allocated["locals"], allocated'["result"] = allocated["result"]
  PROVE  CallsOwn'
BY DEF Ownership, CallsOwn, IsResult

\* Steps of the reader that allocate nothing.
LEMMA ReadPlain ==
  ASSUME Ownership, UNCHANGED <<frames, result, out, ended>>,
         get_class_header \/ get_class_info \/ MethodRead \/ ClassRead
  PROVE  Ownership'
<1>1. CASE Die
  <2>1. stage # "ready"
    BY DEF get_class_header, get_class_info, MethodRead, ClassRead
  <2> QED BY <1>1, <2>1, OwnershipDie
<1>2. CASE ~Die
  <2>1. /\ UNCHANGED <<class, allocated, found_code>>
        /\ \/ stage = "header" /\ stage' = "count"
           \/ stage = "constants" /\ stage' = "method_count"
           \/ stage = "attributes" /\ stage' = "methods" /\ found_code
           \/ stage = "methods" /\ stage' = "ready"
    BY <1>2 DEF get_class_header, get_class_info, MethodRead, ClassRead
  <2>2. ReaderTypes'
    BY <2>1 DEF Ownership, ReaderTypes
  <2>3. ReaderOwns'
    BY <2>1 DEF Ownership, ReaderOwns
  <2>4. CallsOwn'
    BY <2>1, ReadingCalls
  <2> QED BY <2>2, <2>3, <2>4 DEF Ownership
<1> QED BY <1>1, <1>2

\* The arrays of constants and of methods.
LEMMA ReadCounts ==
  ASSUME Ownership, UNCHANGED <<frames, result, out, ended>>, constant_pool_count \/ method_count
  PROVE  Ownership'
<1>1. CASE Die
  BY <1>1, OwnershipDie DEF constant_pool_count, method_count
<1>2. CASE ~Die
  <2>1. /\ UNCHANGED <<class, found_code>>
        /\ \/ stage = "count" /\ stage' = "constants" /\ Allocate("pool")
           \/ stage = "method_count" /\ stage' = "methods" /\ Allocate("methods")
    BY <1>2 DEF constant_pool_count, method_count
  <2>2. /\ allocated' \in [Kinds -> Int] /\ \A k \in Kinds \ {"pool", "methods"} : allocated'[k] = allocated[k]
        /\ \/ /\ stage = "count" /\ stage' = "constants"
              /\ allocated'["pool"] = allocated["pool"] + 1 /\ allocated'["methods"] = allocated["methods"]
           \/ /\ stage = "method_count" /\ stage' = "methods"
              /\ allocated'["methods"] = allocated["methods"] + 1 /\ allocated'["pool"] = allocated["pool"]
    <3>1. ReaderTypes
      BY DEF Ownership
    <3>2. CASE stage = "count" /\ stage' = "constants" /\ Allocate("pool")
      BY <3>1, <3>2, OneMore DEF Kinds
    <3>3. CASE stage = "method_count" /\ stage' = "methods" /\ Allocate("methods")
      BY <3>1, <3>3, OneMore DEF Kinds
    <3> QED BY <2>1, <3>2, <3>3
  <2>3. ReaderTypes'
    BY <2>1, <2>2 DEF Ownership, ReaderTypes
  <2>4. ReaderOwns'
    <3>1. allocated'["info"] = allocated["info"] /\ allocated'["code"] = allocated["code"]
      BY <2>2 DEF Kinds
    <3>2. CASE stage = "count"
      BY <2>1, <2>2, <3>1, <3>2 DEF Ownership, ReaderOwns
    <3>3. CASE stage = "method_count"
      BY <2>1, <2>2, <3>1, <3>3 DEF Ownership, ReaderOwns
    <3> QED BY <2>1, <3>2, <3>3
  <2>5. allocated'["locals"] = allocated["locals"] /\ allocated'["result"] = allocated["result"]
    BY <2>2 DEF Kinds
  <2>6. CallsOwn'
    BY <2>2, <2>5, ReadingCalls
  <2> QED BY <2>3, <2>4, <2>6 DEF Ownership
<1> QED BY <1>1, <1>2

\* A constant, with a block for what it says.
LEMMA ReadConstant ==
  ASSUME Ownership, UNCHANGED <<frames, result, out, ended>>, get_constant_pool
  PROVE  Ownership'
<1>1. CASE Die
  BY <1>1, OwnershipDie DEF get_constant_pool
<1>2. CASE ~Die
  <2>1. /\ stage = "constants" /\ class' = [class EXCEPT !.constant_pool = Append(@, Constant(pos))]
        /\ Allocate("info") /\ UNCHANGED <<stage, found_code>>
    BY <1>2 DEF get_constant_pool
  <2>2. ReaderTypes
    BY DEF Ownership
  <2>. DEFINE pool == Append(class.constant_pool, Constant(pos))
  <2>3. class' = [constant_pool |-> pool, methods |-> class.methods]
    BY <2>1, <2>2 DEF ReaderTypes
  <2>4. IsSeq(pool) /\ Len(pool) = Len(class.constant_pool) + 1
    BY <2>2, SeqGrows DEF ReaderTypes
  <2>5. /\ allocated' \in [Kinds -> Int] /\ allocated'["info"] = allocated["info"] + 1
        /\ \A k \in Kinds \ {"info"} : allocated'[k] = allocated[k]
    BY <2>1, <2>2, OneMore DEF Kinds
  <2>. HIDE DEF pool
  <2>6. class'.constant_pool = pool /\ class'.methods = class.methods
    BY <2>3
  <2>7. ReaderTypes'
    BY <2>2, <2>3, <2>4, <2>5, <2>6 DEF ReaderTypes
  <2>8. /\ allocated'["pool"] = allocated["pool"] /\ allocated'["methods"] = allocated["methods"]
        /\ allocated'["code"] = allocated["code"]
        /\ allocated'["locals"] = allocated["locals"] /\ allocated'["result"] = allocated["result"]
    BY <2>5 DEF Kinds
  <2>9. ReaderOwns'
    BY <2>1, <2>4, <2>5, <2>6, <2>8 DEF Ownership, ReaderOwns
  <2>10. CallsOwn'
    BY <2>1, <2>8, ReadingCalls
  <2> QED BY <2>7, <2>9, <2>10 DEF Ownership
<1> QED BY <1>1, <1>2

\* A method, whose code is not there yet.
LEMMA ReadMethod ==
  ASSUME Ownership, UNCHANGED <<frames, result, out, ended>>, get_methods
  PROVE  Ownership'
<1>1. CASE Die
  BY <1>1, OwnershipDie DEF get_methods
<1>2. CASE ~Die
  <2>1. /\ stage = "methods" /\ stage' = "attributes" /\ found_code' = FALSE
        /\ class' = [class EXCEPT !.methods = Append(@, NewMethod(pos))] /\ UNCHANGED allocated
    BY <1>2 DEF get_methods
  <2>2. ReaderTypes
    BY DEF Ownership
  <2>. DEFINE methods == Append(class.methods, NewMethod(pos))
  <2>3. class' = [constant_pool |-> class.constant_pool, methods |-> methods]
    BY <2>1, <2>2 DEF ReaderTypes
  <2>4. IsSeq(methods) /\ Len(methods) = Len(class.methods) + 1 /\ Len(class.methods) \in Nat
    BY <2>2, SeqGrows DEF ReaderTypes
  <2>. HIDE DEF methods
  <2>5. class'.constant_pool = class.constant_pool /\ class'.methods = methods
    BY <2>3
  <2>6. ReaderTypes'
    BY <2>1, <2>2, <2>3, <2>4, <2>5 DEF ReaderTypes
  <2>7. ReaderOwns'
    BY <2>1, <2>4, <2>5 DEF Ownership, ReaderOwns
  <2>8. CallsOwn'
    BY <2>1, ReadingCalls
  <2> QED BY <2>6, <2>7, <2>8 DEF Ownership
<1> QED BY <1>1, <1>2

\* An attribute: the code, once, or something that is skipped.
LEMMA ReadAttribute ==
  ASSUME Ownership, UNCHANGED <<frames, result, out, ended>>, read_method_attributes
  PROVE  Ownership'
<1>1. CASE Die
  BY <1>1, OwnershipDie DEF read_method_attributes
<1>2. CASE stage = "attributes" /\ UNCHANGED <<stage, found_code, class, allocated>>
  <2>1. ReaderTypes' /\ ReaderOwns'
    BY <1>2 DEF Ownership, ReaderTypes, ReaderOwns
  <2>2. CallsOwn'
    BY <1>2, ReadingCalls
  <2> QED BY <2>1, <2>2 DEF Ownership
<1>3. CASE /\ stage = "attributes" /\ ~found_code /\ class' = WithCode(pos + 6) /\ found_code' = TRUE
           /\ Allocate("code") /\ UNCHANGED stage
  <2>1. ReaderTypes
    BY DEF Ownership
  <2>2. \E x : class' = [class EXCEPT !.methods = [class.methods EXCEPT ![Len(class.methods)] = x]]
    BY <1>3, <2>1 DEF WithCode, ReaderTypes
  <2>3. PICK x : class' = [class EXCEPT !.methods = [class.methods EXCEPT ![Len(class.methods)] = x]]
    BY <2>2
  <2>. DEFINE methods == [class.methods EXCEPT ![Len(class.methods)] = x]
  <2>4. class' = [constant_pool |-> class.constant_pool, methods |-> methods]
    BY <2>1, <2>3 DEF ReaderTypes
  <2>5. IsSeq(methods) /\ Len(methods) = Len(class.methods) /\ Len(class.methods) \in Nat
    BY <2>1, SeqChanged, SeqEmpty DEF ReaderTypes
  <2>6. /\ allocated' \in [Kinds -> Int] /\ allocated'["code"] = allocated["code"] + 1
        /\ \A k \in Kinds \ {"code"} : allocated'[k] = allocated[k]
    BY <1>3, <2>1, OneMore DEF Kinds
  <2>. HIDE DEF methods
  <2>7. class'.constant_pool = class.constant_pool /\ class'.methods = methods
    BY <2>4
  <2>8. ReaderTypes'
    BY <2>1, <2>4, <2>5, <2>6, <2>7 DEF ReaderTypes
  <2>9. /\ allocated'["pool"] = allocated["pool"] /\ allocated'["methods"] = allocated["methods"]
        /\ allocated'["info"] = allocated["info"]
        /\ allocated'["locals"] = allocated["locals"] /\ allocated'["result"] = allocated["result"]
    BY <2>6 DEF Kinds
  <2>10. ReaderOwns'
    BY <1>3, <2>5, <2>6, <2>7, <2>9 DEF Ownership, ReaderOwns
  <2>11. CallsOwn'
    BY <1>3, <2>9, ReadingCalls
  <2> QED BY <2>8, <2>10, <2>11 DEF Ownership
<1> QED BY <1>1, <1>2, <1>3 DEF read_method_attributes

-----------------------------------------------------------------------------
(* execute. *)

\* A turn of the loop changes the frame of the running call and no other.
LEMMA Turned ==
  ASSUME Ownership, NEW n, NEW pushed, NEW locals, NEW pc, Turn(n, pushed, locals, pc)
  PROVE  /\ UNCHANGED <<readVars, result>> /\ IsSeq(frames') /\ Len(frames') = Len(frames)
         /\ ended' \in {ended, "overrun"}
<1>1. IsSeq(frames)
  BY DEF Ownership, CallsOwn
<1>2. \A x : IsSeq([frames EXCEPT ![Len(frames)] = x]) /\ Len([frames EXCEPT ![Len(frames)] = x]) = Len(frames)
  BY <1>1, SeqChanged
<1>3. frames' = frames \/ \E x : frames' = [frames EXCEPT ![Len(frames)] = x]
  BY DEF Turn
<1>4. UNCHANGED <<readVars, result>> /\ ended' \in {ended, "overrun"}
  BY DEF Turn
<1> QED BY <1>1, <1>2, <1>3, <1>4

\* The calls under way stay the same, or the program comes to its end.
LEMMA SameCalls ==
  ASSUME Ownership, ended = "no", stage = "ready",
         UNCHANGED <<readVars, result>>, IsSeq(frames'), Len(frames') = Len(frames),
         ended' \in {"no", "overrun", "trapped", "died"}
  PROVE  Ownership'
<1>1. ReaderTypes'
  BY DEF Ownership, ReaderTypes, readVars
<1>2. ReaderOwns'
  BY DEF Ownership, ReaderOwns, readVars
<1>3. IsResult(result')
  BY DEF Ownership, CallsOwn, IsResult
<1>4. CallsOwn'
  BY <1>3 DEF Ownership, CallsOwn, readVars
<1> QED BY <1>1, <1>2, <1>4 DEF Ownership

\* Every instruction but a call and a return.
LEMMA Instructions ==
  ASSUME Ownership,
         \/ iconst \/ bipush \/ sipush \/ ldc \/ iload \/ iload_n \/ istore \/ istore_n
         \/ binary \/ ineg \/ iinc \/ ifzero \/ if_icmp \/ goto \/ getstatic \/ invokevirtual
         \/ unrecognized
  PROVE  Ownership'
<1>1. ended = "no" /\ stage = "ready"
  BY DEF iconst, bipush, sipush, ldc, iload, iload_n, istore, istore_n, binary, ineg, iinc, ifzero,
         if_icmp, goto, getstatic, invokevirtual, unrecognized, At, Running
<1>2. \/ \E n, pushed, locals, pc : Turn(n, pushed, locals, pc)
      \/ Overrun
      \/ ended' = "trapped" /\ UNCHANGED <<readVars, frames, result>>
  <2>1. CASE iconst \/ bipush \/ sipush \/ ldc
    BY <2>1 DEF iconst, bipush, sipush, ldc
  <2>2. CASE iload \/ iload_n
    BY <2>2 DEF iload, iload_n, Load
  <2>3. CASE istore \/ istore_n
    BY <2>3 DEF istore, istore_n, Store
  <2>4. CASE binary
    BY <2>4 DEF binary
  <2>5. CASE ineg \/ iinc \/ ifzero
    BY <2>5 DEF ineg, iinc, ifzero
  <2>6. CASE if_icmp \/ goto \/ getstatic
    BY <2>6 DEF if_icmp, goto, getstatic
  <2>7. CASE invokevirtual \/ unrecognized
    BY <2>7 DEF invokevirtual, unrecognized
  <2> QED BY <2>1, <2>2, <2>3, <2>4, <2>5, <2>6, <2>7
<1>3. CASE \E n, pushed, locals, pc : Turn(n, pushed, locals, pc)
  <2>1. PICK n, pushed, locals, pc : Turn(n, pushed, locals, pc)
    BY <1>3
  <2>2. /\ UNCHANGED <<readVars, result>> /\ IsSeq(frames') /\ Len(frames') = Len(frames)
        /\ ended' \in {ended, "overrun"}
    BY <2>1, Turned
  <2> QED BY <1>1, <2>2, SameCalls
<1>4. CASE Overrun \/ (ended' = "trapped" /\ UNCHANGED <<readVars, frames, result>>)
  <2>1. IsSeq(frames') /\ Len(frames') = Len(frames) /\ UNCHANGED <<readVars, result>>
        /\ ended' \in {"overrun", "trapped"}
    BY <1>4 DEF Overrun, Ownership, CallsOwn
  <2> QED BY <1>1, <2>1, SameCalls
<1> QED BY <1>2, <1>3, <1>4

\* What the reader owns does not change while calls come and go.
LEMMA ReaderKeeps ==
  ASSUME Ownership, stage = "ready", ended = "no", ended' # "returned",
         UNCHANGED <<stage, found_code, class>>, allocated' \in [Kinds -> Int],
         \A k \in Kinds \ {"locals", "result"} : allocated'[k] = allocated[k]
  PROVE  ReaderTypes' /\ ReaderOwns'
<1>1. ReaderTypes'
  BY DEF Ownership, ReaderTypes
<1>2. /\ allocated'["pool"] = allocated["pool"] /\ allocated'["info"] = allocated["info"]
      /\ allocated'["methods"] = allocated["methods"] /\ allocated'["code"] = allocated["code"]
  BY DEF Kinds
<1>3. ReaderOwns'
  BY <1>2 DEF Ownership, ReaderOwns
<1> QED BY <1>1, <1>3

\* A call has locals of its own.
LEMMA Called ==
  ASSUME Ownership, invokestatic
  PROVE  Ownership'
<1>1. ended = "no" /\ stage = "ready" /\ result = PENDING /\ result' = result /\ frames # <<>>
  BY DEF invokestatic, At, Running
<1>2. IsSeq(frames) /\ Len(frames) \in Nat /\ Len(frames) # 0
  BY <1>1, SeqEmpty DEF Ownership, CallsOwn
<1>3. CASE ended' \in {"died", "overrun"} /\ UNCHANGED <<readVars, frames>>
  BY <1>1, <1>2, <1>3, SameCalls
<1>4. CASE /\ \E x, y : frames' = Append([frames EXCEPT ![Len(frames)] = x], y)
           /\ Allocate("locals") /\ UNCHANGED <<stage, found_code, class, ended>>
  <2>1. PICK x, y : frames' = Append([frames EXCEPT ![Len(frames)] = x], y)
    BY <1>4
  <2>2. IsSeq([frames EXCEPT ![Len(frames)] = x]) /\ Len([frames EXCEPT ![Len(frames)] = x]) = Len(frames)
    BY <1>2, SeqChanged
  <2>3. IsSeq(frames') /\ Len(frames') = Len(frames) + 1
    BY <2>1, <2>2, SeqGrows
  <2>4. /\ allocated' \in [Kinds -> Int] /\ allocated'["locals"] = allocated["locals"] + 1
        /\ \A k \in Kinds \ {"locals"} : allocated'[k] = allocated[k]
    BY <1>4, OneMore DEF Ownership, Kinds
  <2>5. ReaderTypes' /\ ReaderOwns'
    BY <1>1, <1>4, <2>4, ReaderKeeps
  <2>6. allocated'["result"] = allocated["result"]
    BY <2>4 DEF Kinds
  <2>7. CallsOwn'
    BY <1>1, <1>2, <1>4, <2>3, <2>4, <2>6 DEF Ownership, CallsOwn, IsResult
  <2> QED BY <2>5, <2>7 DEF Ownership
<1>5. \/ ended' \in {"died", "overrun"} /\ UNCHANGED <<readVars, frames>>
      \/ /\ \E x, y : frames' = Append([frames EXCEPT ![Len(frames)] = x], y)
         /\ Allocate("locals") /\ UNCHANGED <<stage, found_code, class, ended>>
  BY DEF invokestatic
<1> QED BY <1>3, <1>4, <1>5

\* A value is returned in a box, or nothing is.
LEMMA Returned ==
  ASSUME Ownership, ireturn \/ vreturn
  PROVE  Ownership'
<1>1. /\ ended = "no" /\ stage = "ready" /\ result = PENDING /\ frames # <<>>
      /\ UNCHANGED <<frames, stage, found_code, class>>
  BY DEF ireturn, vreturn, At, Running, readVars
<1>2. IsSeq(frames) /\ Len(frames) \in Nat /\ Len(frames) # 0
  BY <1>1, SeqEmpty DEF Ownership, CallsOwn
<1>3. CASE ended' = "overrun" /\ UNCHANGED <<result, allocated>>
  <2>1. ReaderTypes' /\ ReaderOwns'
    BY <1>1, <1>3 DEF Ownership, ReaderTypes, ReaderOwns
  <2>2. CallsOwn'
    BY <1>1, <1>2, <1>3 DEF Ownership, CallsOwn, IsResult
  <2> QED BY <2>1, <2>2 DEF Ownership
<1>4. CASE result' = << <<stack(1)>> >> /\ Allocate("result") /\ ended' = ended
  <2>1. /\ allocated' \in [Kinds -> Int] /\ allocated'["result"] = allocated["result"] + 1
        /\ \A k \in Kinds \ {"result"} : allocated'[k] = allocated[k]
    BY <1>4, OneMore DEF Ownership, Kinds
  <2>2. ReaderTypes' /\ ReaderOwns'
    BY <1>1, <1>4, <2>1, ReaderKeeps
  <2>3. allocated'["locals"] = allocated["locals"]
    BY <2>1 DEF Kinds
  <2>4. IsResult(result') /\ result' \notin {PENDING, NULL}
    BY <1>4, Results DEF IsResult
  <2>5. CallsOwn'
    BY <1>1, <1>2, <1>4, <2>1, <2>3, <2>4 DEF Ownership, CallsOwn
  <2> QED BY <2>2, <2>5 DEF Ownership
<1>5. CASE result' = NULL /\ UNCHANGED <<allocated, ended>>
  <2>1. ReaderTypes' /\ ReaderOwns'
    BY <1>1, <1>5 DEF Ownership, ReaderTypes, ReaderOwns
  <2>2. CallsOwn'
    BY <1>1, <1>2, <1>5 DEF Ownership, CallsOwn, IsResult
  <2> QED BY <2>1, <2>2 DEF Ownership
<1> QED BY <1>3, <1>4, <1>5 DEF ireturn, vreturn, readVars

\* The caller frees the locals of the call and the box of its result.
LEMMA CallerGoesOn ==
  ASSUME Ownership, returned_value
  PROVE  Ownership'
<1>1. /\ ended = "no" /\ stage = "ready" /\ result # PENDING /\ Len(frames) > 1
      /\ UNCHANGED <<stage, found_code, class>> /\ result' = PENDING
      /\ allocated' = [allocated EXCEPT !["locals"] = @ - 1, !["result"] = @ - Len(result[1])]
      /\ ended' \in {"no", "overrun"}
  BY DEF returned_value, AfterCall
<1>2. Len(result[1]) = IF result = NULL THEN 0 ELSE 1
  BY <1>1, Results DEF Ownership, CallsOwn, IsResult
<1>3. allocated \in [Kinds -> Int]
  BY DEF Ownership, ReaderTypes
<1>4. /\ allocated' \in [Kinds -> Int] /\ allocated'["locals"] = allocated["locals"] - 1
      /\ allocated'["result"] = allocated["result"] - (IF result = NULL THEN 0 ELSE 1)
      /\ \A k \in Kinds \ {"locals", "result"} : allocated'[k] = allocated[k]
  BY <1>1, <1>2, <1>3 DEF Kinds
<1>5. ReaderTypes' /\ ReaderOwns'
  BY <1>1, <1>4, ReaderKeeps
<1>6. IsSeq(frames) /\ Len(frames) \in Nat
  BY SeqEmpty DEF Ownership, CallsOwn
<1>7. \/ ended' = "no" /\ IsSeq(frames') /\ Len(frames') = Len(frames) - 1
      \/ ended' = "overrun" /\ frames' = frames
  <2>. DEFINE rest == SubSeq(frames, 1, Len(frames) - 1)
  <2>1. IsSeq(rest) /\ Len(rest) = Len(frames) - 1
    BY <1>1, <1>6, SeqCut
  <2>2. \A x : IsSeq([rest EXCEPT ![Len(frames) - 1] = x]) /\ Len([rest EXCEPT ![Len(frames) - 1] = x]) = Len(rest)
    BY <2>1, SeqChanged
  <2>3. \/ ended' = "no" /\ \E x : frames' = [rest EXCEPT ![Len(frames) - 1] = x]
        \/ ended' = "overrun" /\ frames' = frames
    BY <1>1 DEF returned_value, AfterCall
  <2>. HIDE DEF rest
  <2> QED BY <2>1, <2>2, <2>3
<1>8. IsResult(result')
  BY <1>1 DEF IsResult
<1>9. allocated["locals"] = Len(frames) - 1 /\ allocated["result"] = IF result = NULL THEN 0 ELSE 1
  BY <1>1, <1>6 DEF Ownership, CallsOwn
<1>10. CallsOwn'
  BY <1>1, <1>4, <1>6, <1>7, <1>8, <1>9 DEF CallsOwn
<1> QED BY <1>5, <1>10 DEF Ownership

\* main is called once, with locals that are on the stack.
LEMMA MainCalled ==
  ASSUME Ownership, main
  PROVE  Ownership'
<1>1. /\ ended = "no" /\ stage = "ready" /\ frames = <<>> /\ UNCHANGED <<readVars, result>>
      /\ (ended' = "died" /\ frames' = frames) \/ (ended' = ended /\ \E x : frames' = <<x>>)
  BY DEF main
<1>2. IsSeq(frames) /\ Len(frames) = 0
  BY <1>1, SeqEmpty DEF Ownership, CallsOwn
<1>3. CASE ended' = "died" /\ frames' = frames
  BY <1>1, <1>2, <1>3, SameCalls
<1>4. CASE ended' = ended /\ \E x : frames' = <<x>>
  <2>1. PICK x : frames' = <<x>>
    BY <1>4
  <2>2. IsSeq(<<x>>) /\ Len(<<x>>) = 1
    <3>1. <<x>> \in Seq({x}) /\ Len(<<x>>) = 1
      OBVIOUS
    <3> QED BY <3>1 DEF IsSeq
  <2>3. ReaderTypes' /\ ReaderOwns'
    BY <1>1, <1>4 DEF Ownership, ReaderTypes, ReaderOwns, readVars
  <2>4. result = PENDING /\ IsResult(result')
    BY <1>1, <1>2 DEF Ownership, CallsOwn, IsResult
  <2>5. allocated'["locals"] = 0 /\ allocated'["result"] = 0
    BY <1>1, <1>2, <2>4 DEF Ownership, CallsOwn, readVars
  <2>6. CallsOwn'
    BY <1>1, <1>4, <2>1, <2>2, <2>4, <2>5 DEF CallsOwn, readVars
  <2> QED BY <2>3, <2>6 DEF Ownership
<1> QED BY <1>1, <1>3, <1>4

\* When main has returned nothing, the class is freed; otherwise an assertion fails.
LEMMA MainReturned ==
  ASSUME Ownership, main_returned
  PROVE  Ownership'
<1>1. /\ ended = "no" /\ stage = "ready" /\ result # PENDING /\ Len(frames) = 1
      /\ UNCHANGED <<input, pos, stage, count, found_code, class, frames, result, out>>
      /\ \/ result = NULL /\ ended' = "returned" /\ allocated' = free_class
         \/ ended' = "died" /\ allocated' = allocated
  BY DEF main_returned
<1>2. CASE ended' = "died" /\ allocated' = allocated
  BY <1>1, <1>2, SameCalls DEF readVars, Ownership, CallsOwn
<1>3. CASE result = NULL /\ ended' = "returned" /\ allocated' = free_class
  <2>1. /\ allocated \in [Kinds -> Int] /\ IsSeq(class.constant_pool) /\ IsSeq(class.methods)
    BY DEF Ownership, ReaderTypes
  <2>2. Len(class.constant_pool) \in Nat /\ Len(class.methods) \in Nat
    BY <2>1, SeqEmpty
  <2>3. /\ allocated["pool"] = 1 /\ allocated["info"] = Len(class.constant_pool)
        /\ allocated["methods"] = 1 /\ allocated["code"] = Len(class.methods)
    BY <1>1, <2>2 DEF Ownership, ReaderOwns
  <2>4. allocated["locals"] = 0 /\ allocated["result"] = 0
    BY <1>1, <1>3 DEF Ownership, CallsOwn
  <2>5. /\ allocated' \in [Kinds -> Int]
        /\ allocated'["pool"] = 0 /\ allocated'["info"] = 0 /\ allocated'["methods"] = 0
        /\ allocated'["code"] = 0 /\ allocated'["locals"] = 0 /\ allocated'["result"] = 0
    BY <1>3, <2>1, <2>2, <2>3, <2>4 DEF free_class, Kinds
  <2>6. ReaderTypes'
    BY <1>1, <2>5 DEF Ownership, ReaderTypes
  <2>7. ReaderOwns'
    BY <1>3 DEF ReaderOwns
  <2>8. CallsOwn'
    BY <1>1, <1>3, <2>5 DEF Ownership, CallsOwn, IsResult, Kinds
  <2> QED BY <2>6, <2>7, <2>8 DEF Ownership
<1> QED BY <1>1, <1>2, <1>3

\* The blocks are owned as described after every step.
LEMMA OwnershipStep ==
  ASSUME Ownership, [Next]_vars
  PROVE  Ownership'
<1>1. CASE get_class /\ UNCHANGED <<frames, result, out, ended>>
  BY <1>1, ReadPlain, ReadCounts, ReadConstant, ReadMethod, ReadAttribute DEF get_class
<1>2. CASE execute
  BY <1>2, Instructions, Called, Returned, CallerGoesOn DEF execute
<1>3. CASE UNCHANGED vars
  BY <1>3 DEF vars, readVars, Ownership, ReaderTypes, ReaderOwns, CallsOwn, IsResult
<1> QED BY <1>1, <1>2, <1>3, MainCalled, MainReturned DEF Next

\* Whatever file the program is given, every block is freed exactly once: a call that
\* is under way owns its locals, a result on its way to the caller owns its box, and
\* nothing is left when main has returned.
THEOREM NoLeaks == Spec => []BlocksFreed
<1>1. Ownership /\ [Next]_vars => Ownership'
  BY OwnershipStep
<1>2. Ownership => BlocksFreed
  <2> SUFFICES ASSUME Ownership PROVE BlocksFreed
    OBVIOUS
  <2>1. DOMAIN allocated = Kinds
    BY DEF Ownership, ReaderTypes
  <2>2. IsSeq(frames) /\ (frames # <<>> => Len(frames) # 0)
    BY SeqEmpty DEF Ownership, CallsOwn
  <2> QED BY <2>1, <2>2 DEF Ownership, CallsOwn, BlocksFreed
<1> QED BY <1>1, <1>2, OwnershipInit, PTL DEF Spec
=============================================================================
