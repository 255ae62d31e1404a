--------------------------- MODULE FrontendProofs ----------------------------
(***************************************************************************)
(* What holds of Subpython's front end for every input and every limit:    *)
(* nothing a statement needed outlives it, the arena hands out memory      *)
(* without overlap, and yylex and the parser it feeds agree: on the open   *)
(* brackets and blocks, which each counts on its own, on the end of the    *)
(* input, and on how long a text is valid.  What is used of bison's tables *)
(* is TablesAssumption, which TLC evaluates.                               *)
(***************************************************************************)
EXTENDS Frontend, TLAPS, Automaton, FiniteSetTheorems, WellFoundedInduction

Phases == {"options", "repl", "scan", "parse", "parsed", "eval", "evaluated", "exit"}

\* The parser's stacks live while tokens are scanned and parsed, the parser object
\* until parser_destroy, the allocations of an action as long as yypush_parse, the
\* exception until it is printed and the tree until parse_result_destroy.
Held ==
  /\ phase \in Phases
  /\ phase \notin {"scan", "parse"} => yyps = NewParser
  /\ phase \notin {"scan", "parse", "parsed"} => owned = {}
  /\ todo # <<>> => phase \in {"parse", "parsed"}
  /\ phase # "evaluated" => exception = "none"
  /\ phase \in {"options", "repl", "exit"} => arena = NoArena

\* Before anything is read nothing is held.
LEMMA HeldInit == Init => Held
BY DEF Init, Held, Phases

\* main: options are read and the first statement is awaited without a parser.
LEMMA HeldMain ==
  ASSUME Held, Option \/ Start \/ Parse
  PROVE  Held'
<1>1. CASE Option
  <2>1. phase = "options" /\ (phase' = "exit" \/ phase' = phase)
    BY <1>1 DEF Option, Exit
  <2>2. UNCHANGED <<yyps, todo, arena, owned, exception>>
    BY <1>1 DEF Option, parseVars
  <2> QED BY <2>1, <2>2 DEF Held, Phases, NewParser
<1>2. CASE Start
  <2>1. phase = "options" /\ phase' \in {"exit", "repl"}
    BY <1>2 DEF Start, Exit
  <2>2. UNCHANGED <<yyps, todo, arena, owned, exception>>
    BY <1>2 DEF Start, parseVars
  <2> QED BY <2>1, <2>2 DEF Held, Phases, NewParser
<1>3. CASE Parse
  BY <1>3 DEF Parse, Held, Phases
<1> QED BY <1>1, <1>2, <1>3

\* The rules of the scanner only touch the scanner and its line.
LEMMA HeldScan ==
  ASSUME Held,
         \/ parser_input_wrap \/ BlankLine \/ Indentation \/ Lexeme
         \/ Continuation \/ Newline \/ EofInner \/ EofStart
  PROVE  Held'
<1>1. phase = "scan" /\ UNCHANGED <<phase, yyps, todo, arena, exception>>
  BY DEF parser_input_wrap, BlankLine, Indentation, Lexeme, Continuation, Newline, EofInner,
         EofStart, Scanning, ScanUnchanged, parseVars
<1> QED BY <1>1 DEF Held, Phases

\* A shift or a reduction goes on, or gives up and frees the stacks.
LEMMA NewState ==
  ASSUME NEW ss, NEW vs, NEW ahead, phase = "parse", yynewstate(ss, vs, ahead)
  PROVE  phase' = "parse" \/ (phase' = "parsed" /\ yyps' = NewParser)
BY DEF yynewstate, yyreturn

\* yypush_parse frees the stacks on every way out.
LEMMA HeldParse ==
  ASSUME Held,
         PushToken \/ MoreTokens \/ Shift \/ Reduce \/ Allocate \/ Accept \/ EndOfFile \/ SyntaxError
  PROVE  Held'
<1>1. CASE PushToken
  BY <1>1 DEF PushToken, Held, Phases
<1>2. CASE MoreTokens
  BY <1>2 DEF MoreTokens, Parsing, ParseUnchanged, Held, Phases
<1>3. CASE Shift
  <2>1. phase = "parse" /\ UNCHANGED <<arena, owned, exception, todo>>
    BY <1>3 DEF Shift, Parsing, ParseUnchanged
  <2>2. phase' = "parse" \/ (phase' = "parsed" /\ yyps' = NewParser)
    BY <1>3, <2>1, NewState DEF Shift
  <2> QED BY <2>1, <2>2 DEF Held, Phases, NewParser
<1>4. CASE Reduce
  <2>1. phase = "parse" /\ UNCHANGED <<arena, owned, exception>>
    BY <1>4 DEF Reduce, Reducing, Parsing, ParseUnchanged
  <2>2. phase' = "parse" \/ (phase' = "parsed" /\ yyps' = NewParser)
    BY <1>4, <2>1, NewState DEF Reduce
  <2> QED BY <2>1, <2>2 DEF Held, Phases, NewParser
<1>5. CASE Allocate
  <2>1. phase \in {"parse", "parsed"} /\ UNCHANGED <<phase, yyps, owned, exception>>
    BY <1>5 DEF Allocate, Held
  <2> QED BY <2>1 DEF Held, Phases, NewParser
<1>6. CASE Accept \/ EndOfFile \/ SyntaxError
  <2>1. phase = "parse" /\ todo = <<>> /\ UNCHANGED <<arena, owned, exception, todo>>
    BY <1>6 DEF Accept, EndOfFile, SyntaxError, Reducing, Parsing, ParseUnchanged
  <2>2. phase' = "parsed" /\ yyps' = NewParser
    BY <1>6 DEF Accept, EndOfFile, SyntaxError, yyreturn
  <2> QED BY <2>1, <2>2 DEF Held, Phases, NewParser
<1> QED BY <1>1, <1>2, <1>3, <1>4, <1>5, <1>6

\* try_parse frees the parser, evaluates, and frees the tree and the exception.
LEMMA HeldEval ==
  ASSUME Held, parser_destroy \/ eval \/ TryParseEnd
  PROVE  Held'
<1>1. CASE parser_destroy
  BY <1>1 DEF parser_destroy, parseVars, Held, Phases, NewParser
<1>2. CASE eval
  <2>1. phase = "eval" /\ phase' = "evaluated" /\ UNCHANGED <<yyps, todo, arena, owned>>
    BY <1>2 DEF eval, parseVars
  <2> QED BY <2>1 DEF Held, Phases, NewParser
<1>3. CASE TryParseEnd
  <2>1. phase = "evaluated" /\ phase' \in {"repl", "exit"}
    BY <1>3 DEF TryParseEnd, Exit
  <2>2. UNCHANGED <<yyps, todo, owned>> /\ arena' = NoArena /\ exception' = "none"
    BY <1>3 DEF TryParseEnd, exception_clear
  <2> QED BY <2>1, <2>2 DEF Held, Phases, NewParser
<1> QED BY <1>1, <1>2, <1>3

\* Every step keeps the account.
LEMMA HeldNext == Held /\ [Next]_vars => Held'
<1> SUFFICES ASSUME Held, [Next]_vars
             PROVE  Held'
  OBVIOUS
<1>1. CASE UNCHANGED vars
  BY <1>1 DEF vars, parseVars, Held, Phases, NewParser
<1>2. CASE Next
  BY <1>2, HeldMain, HeldScan, HeldParse, HeldEval DEF Next
<1> QED BY <1>1, <1>2

\* For every script, however it ends and whatever allocation of the parser's stacks
\* fails: between statements and at exit parser, scanner, line, stacks, tree and
\* exception are gone.
THEOREM NothingOutlives == Spec => []Released
<1>1. Held => Released
  BY DEF Held, Released, NewParser, Phases
<1> QED BY <1>1, HeldInit, HeldNext, PTL DEF Spec

-----------------------------------------------------------------------------
(* The arena.                                                              *)

BlockType == [size : Nat, allocated : Nat]
ChunkType == [block : Nat, lo : Nat, size : Nat]

\* Chunks lie one behind the other in what is allocated of their block, and the
\* next one starts at a multiple of ALIGNMENT.
Packed(a) ==
  /\ a.blocks \in Seq(BlockType) /\ a.chunks \subseteq ChunkType
  /\ \A b \in DOMAIN a.blocks : a.blocks[b].allocated % ALIGNMENT = 0
  /\ Blocks(a) /\ Inside(a) /\ Apart(a)

\* Rounding up loses nothing of the size and ends at a multiple of ALIGNMENT.
LEMMA AlignedUp ==
  ASSUME NEW size \in Nat
  PROVE  Aligned(size) \in Nat /\ Aligned(size) >= size /\ Aligned(size) % ALIGNMENT = 0
BY DEF Aligned, ALIGNMENT

\* The last block has room for n bytes, a new one if need be.
LEMMA Room ==
  ASSUME NEW blocks \in Seq(BlockType), blocks # <<>>, NEW n \in Nat,
         \A b \in DOMAIN blocks : blocks[b].allocated % ALIGNMENT = 0 /\ blocks[b].allocated <= blocks[b].size
  PROVE  LET room == WithRoom(blocks, n)
         IN  /\ room \in Seq(BlockType) /\ room # <<>> /\ Len(blocks) <= Len(room)
             /\ \A b \in DOMAIN blocks : room[b] = blocks[b]
             /\ \A b \in DOMAIN room : room[b].allocated % ALIGNMENT = 0 /\ room[b].allocated <= room[b].size
             /\ room[Len(room)].allocated + n <= room[Len(room)].size
             /\ Len(room) > Len(blocks) => room[Len(room)].allocated = 0
<1> DEFINE last == blocks[Len(blocks)]
           new  == block_new(IF n > DEFAULT_BLOCK_SIZE THEN n ELSE DEFAULT_BLOCK_SIZE)
<1>1. Len(blocks) \in DOMAIN blocks /\ last \in BlockType
  OBVIOUS
<1>2. new \in BlockType /\ new.allocated = 0 /\ new.size >= n
  BY ArenaAssumption DEF block_new, BlockType
<1>3. CASE last.allocated + n > last.size
  <2>1. WithRoom(blocks, n) = Append(blocks, new)
    BY <1>3 DEF WithRoom
  <2> HIDE DEF new, last
  <2> QED BY SMTT(40), <2>1, <1>2 DEF ALIGNMENT, BlockType
<1>4. CASE ~(last.allocated + n > last.size)
  <2>1. WithRoom(blocks, n) = blocks
    BY <1>4 DEF WithRoom
  <2>2. last.allocated + n <= last.size
    BY <1>1, <1>4 DEF BlockType
  <2> QED BY <2>1, <2>2
<1> QED BY <1>3, <1>4

\* arena_malloc keeps chunks packed, for every size.
LEMMA MallocPacked ==
  ASSUME NEW a, Packed(a), a.blocks # <<>>, NEW size \in Nat
  PROVE  LET b == arena_malloc(a, size) IN Packed(b) /\ b.blocks # <<>>
<1> DEFINE n     == Aligned(size)
           room  == WithRoom(a.blocks, n)
           last  == Len(room)
           start == room[last].allocated
           grown == [room EXCEPT ![last].allocated = start + n]
           chunk == [block |-> last, lo |-> start, size |-> size]
           b     == arena_malloc(a, size)
<1>1. b.blocks = grown /\ b.chunks = a.chunks \cup {chunk}
  BY DEF arena_malloc
<1>2. n \in Nat /\ n >= size /\ n % ALIGNMENT = 0
  BY AlignedUp
<1>3. /\ a.blocks \in Seq(BlockType) /\ a.chunks \subseteq ChunkType
      /\ \A c \in DOMAIN a.blocks : /\ a.blocks[c].allocated % ALIGNMENT = 0
                                    /\ a.blocks[c].allocated <= a.blocks[c].size
  BY DEF Packed, Blocks, BlockType
<1> HIDE DEF n
<1>4. /\ room \in Seq(BlockType) /\ room # <<>> /\ Len(a.blocks) <= last
      /\ \A c \in DOMAIN a.blocks : room[c] = a.blocks[c]
      /\ \A c \in DOMAIN room : room[c].allocated % ALIGNMENT = 0 /\ room[c].allocated <= room[c].size
      /\ start + n <= room[last].size
      /\ last > Len(a.blocks) => start = 0
  BY <1>2, <1>3, Room
<1> HIDE DEF room
<1>5. /\ last \in Nat \ {0} /\ last \in DOMAIN room /\ DOMAIN room = 1 .. last
      /\ room[last] \in BlockType /\ start \in Nat /\ room[last].size \in Nat /\ start % ALIGNMENT = 0
  <2>1. last \in Nat /\ last # 0 /\ DOMAIN room = 1 .. last
    BY <1>4
  <2>2. last \in DOMAIN room
    BY <2>1
  <2>3. room[last] \in BlockType
    BY <2>2, <1>4
  <2>4. start % ALIGNMENT = 0
    BY <2>2, <1>4
  <2> QED BY <2>1, <2>2, <2>3, <2>4 DEF BlockType
<1>6. /\ grown \in Seq(BlockType) /\ DOMAIN grown = DOMAIN room /\ Len(grown) = last
      /\ \A c \in DOMAIN room : c # last => grown[c] = room[c]
      /\ grown[last].allocated = start + n /\ grown[last].size = room[last].size
  <2>1. [room[last] EXCEPT !.allocated = start + n] \in BlockType
    BY <1>2, <1>5 DEF BlockType
  <2>2. grown = [room EXCEPT ![last] = [room[last] EXCEPT !.allocated = start + n]]
    OBVIOUS
  <2> QED BY <2>1, <2>2, <1>4, <1>5 DEF BlockType
<1>7. (start + n) % ALIGNMENT = 0
  BY <1>2, <1>5 DEF ALIGNMENT
<1> HIDE DEF grown, last, start
<1>8. \A c \in DOMAIN grown : grown[c].allocated % ALIGNMENT = 0 /\ grown[c].allocated \in 0 .. grown[c].size
  <2> SUFFICES ASSUME NEW c \in DOMAIN grown
               PROVE  grown[c].allocated % ALIGNMENT = 0 /\ grown[c].allocated \in 0 .. grown[c].size
    OBVIOUS
  <2>1. CASE c = last
    BY <2>1, <1>2, <1>4, <1>5, <1>6, <1>7
  <2>2. CASE c # last
    <3>1. c \in DOMAIN room /\ grown[c] = room[c] /\ room[c] \in BlockType
      BY <2>2, <1>4, <1>6
    <3> QED BY <3>1, <1>4 DEF BlockType
  <2> QED BY <2>1, <2>2
\* What was handed out before lies below what is handed out now.
<1>9. ASSUME NEW c \in a.chunks
      PROVE  /\ c.block \in DOMAIN grown /\ c.lo % ALIGNMENT = 0
             /\ c.lo + c.size <= grown[c.block].allocated
             /\ c.block = last => c.lo + c.size <= start
  <2>1. /\ c.block \in DOMAIN a.blocks /\ c.lo % ALIGNMENT = 0
        /\ c.lo + c.size <= a.blocks[c.block].allocated
        /\ c.lo \in Nat /\ c.size \in Nat
    BY <1>3, <1>9 DEF Packed, Inside, ChunkType
  <2>2. c.block \in DOMAIN room /\ room[c.block] = a.blocks[c.block]
    BY SMTT(40), <2>1, <1>3, <1>4, <1>5
  <2>3. CASE c.block = last
    BY <2>1, <2>2, <2>3, <1>2, <1>5, <1>6 DEF start
  <2>4. CASE c.block # last
    BY <2>1, <2>2, <2>4, <1>6
  <2> QED BY <2>3, <2>4
<1>10. b.chunks \subseteq ChunkType
  BY <1>1, <1>3, <1>5 DEF ChunkType
<1>11. Inside(b)
  <2>1. chunk.block \in DOMAIN grown /\ chunk.lo % ALIGNMENT = 0
        /\ chunk.lo + chunk.size <= grown[chunk.block].allocated
    BY <1>2, <1>5, <1>6
  <2> QED BY <2>1, <1>1, <1>9 DEF Inside
<1>12. Apart(b)
  <2> HIDE DEF chunk
  <2>1. \A c \in a.chunks : c.block = chunk.block => c.lo + c.size <= chunk.lo
    BY <1>9 DEF chunk
  <2>2. \A c, d \in a.chunks : c # d /\ c.block = d.block => c.lo + c.size <= d.lo \/ d.lo + d.size <= c.lo
    BY DEF Packed, Apart
  <2>3. \A c, d \in a.chunks \cup {chunk} :
          c # d /\ c.block = d.block => c.lo + c.size <= d.lo \/ d.lo + d.size <= c.lo
    BY <2>1, <2>2
  <2> QED BY <2>3, <1>1 DEF Apart
<1>13. b.blocks # <<>>
  BY <1>1, <1>5, <1>6
<1> QED BY <1>1, <1>6, <1>8, <1>10, <1>11, <1>12, <1>13 DEF Packed, Blocks

\* A parse has an arena of at least one block, and what was cut out of it is packed.
ArenaInv ==
  /\ Packed(arena)
  /\ phase \in {"scan", "parse", "parsed"} => arena.blocks # <<>>

\* A new arena, and none at all, are packed.
LEMMA FreshPacked == Packed(NoArena) /\ Packed(arena_new) /\ arena_new.blocks # <<>>
<1>1. Packed(NoArena)
  BY DEF NoArena, Packed, Blocks, Inside, Apart
<1>2. block_new(DEFAULT_BLOCK_SIZE) \in BlockType /\ block_new(DEFAULT_BLOCK_SIZE).allocated = 0
  BY ArenaAssumption DEF block_new, BlockType
<1>3. Packed(arena_new) /\ arena_new.blocks # <<>>
  BY <1>2 DEF arena_new, Packed, Blocks, Inside, Apart, BlockType, ALIGNMENT
<1> QED BY <1>1, <1>3

\* Only Parse, Allocate and TryParseEnd touch the arena.
LEMMA ArenaNext == ArenaInv /\ Held /\ SizesOK /\ [Next]_vars => ArenaInv'
<1> SUFFICES ASSUME ArenaInv, Held, SizesOK, [Next]_vars
             PROVE  ArenaInv'
  OBVIOUS
<1>1. CASE Parse
  BY <1>1, FreshPacked DEF Parse, ArenaInv
<1>2. CASE TryParseEnd
  <2>1. arena' = NoArena /\ phase' \in {"repl", "exit"}
    BY <1>2 DEF TryParseEnd, Exit
  <2> QED BY <2>1, FreshPacked DEF ArenaInv
<1>3. CASE Allocate
  <2>1. /\ phase \in {"parse", "parsed"} /\ Head(todo) \in Nat
        /\ arena' = arena_malloc(arena, Head(todo)) /\ phase' = phase
    BY <1>3 DEF Allocate, Held, SizesOK
  <2>2. Packed(arena) /\ arena.blocks # <<>>
    BY <2>1 DEF ArenaInv
  <2>3. Packed(arena_malloc(arena, Head(todo))) /\ arena_malloc(arena, Head(todo)).blocks # <<>>
    BY <2>1, <2>2, MallocPacked
  <2> QED BY <2>1, <2>3 DEF ArenaInv
<1>4. ASSUME arena' = arena, phase' \in {"scan", "parse", "parsed"} => phase \in {"scan", "parse", "parsed"}
      PROVE  ArenaInv'
  BY <1>4 DEF ArenaInv
<1>5. CASE UNCHANGED vars
  BY <1>5, <1>4 DEF vars, parseVars
<1>6. CASE Option \/ Start
  BY <1>6, <1>4 DEF Option, Start, Exit, parseVars
<1>7. CASE \/ parser_input_wrap \/ BlankLine \/ Indentation \/ Lexeme
           \/ Continuation \/ Newline \/ EofInner \/ EofStart
  <2>1. UNCHANGED <<arena, phase>>
    BY <1>7 DEF parser_input_wrap, BlankLine, Indentation, Lexeme, Continuation, Newline, EofInner,
                EofStart, ScanUnchanged, parseVars
  <2> QED BY <2>1, <1>4
<1>8. CASE PushToken \/ MoreTokens \/ Shift \/ Reduce \/ Accept \/ EndOfFile \/ SyntaxError
  <2>1. arena' = arena /\ phase \in {"scan", "parse"}
    BY <1>8 DEF PushToken, MoreTokens, Shift, Reduce, Accept, EndOfFile, SyntaxError, Reducing,
                Parsing, ParseUnchanged
  <2> QED BY <2>1, <1>4
<1>9. CASE parser_destroy \/ eval
  BY <1>9, <1>4 DEF parser_destroy, eval, parseVars
<1> QED BY <1>1, <1>2, <1>3, <1>5, <1>6, <1>7, <1>8, <1>9 DEF Next

\* As long as what the actions ask for are sizes, the nodes, lists and strings of a
\* tree never overlap and lie in the blocks of its arena, whatever DEFAULT_BLOCK_SIZE
\* is and however long the program.
THEOREM NodesApart == Spec /\ []SizesOK => []ArenaOK
<1>1. Init => ArenaInv
  BY FreshPacked DEF Init, ArenaInv
<1>2. ArenaInv => ArenaOK
  BY DEF ArenaInv, Packed, ArenaOK
<1> QED BY <1>1, <1>2, ArenaNext, HeldInit, HeldNext, PTL DEF Spec

-----------------------------------------------------------------------------
(***************************************************************************)
(* The scanner and the parser.                                             *)
(***************************************************************************)

\* A token, with the empty text if it has none.
TokenType == [name : Terminals, text : STRING \cup {""}, length : Nat]
ScanType  == [state : {"START", "INNER"}, buf : Seq(InputLines), bracket_depth : Int, indent : Seq(Nat),
              push : Seq(TokenType), eof : BOOLEAN]
IsSeq(s) == s \in Seq({s[k] : k \in DOMAIN s})

Typed ==
  /\ input \in Seq(InputLines) /\ scan \in ScanType
  /\ yychar \in Seq(TokenType) /\ Len(yychar) <= 1
  /\ result \in RESULT_SUCCESS .. RESULT_EXIT /\ code \in 0 .. 2

\* The levels of indentation grow from 0.
Rising(indent) ==
  /\ Len(indent) \in 1 .. MAX_INDENT_LEVELS /\ indent[1] = 0
  /\ \A k \in 2 .. Len(indent) : indent[k - 1] < indent[k]

\* The stacks of the parser: a path of the automaton, with a token for each terminal.
Path(ss, vs) ==
  /\ ss \in Seq(States) /\ IsSeq(vs) /\ Len(ss) = Len(vs) /\ (ss # <<>> => ss[1] = 0)
  /\ \A k \in 2 .. Len(ss) :
       <<ss[k - 1], ss[k]>> \in Neighbours /\ (Symbol(ss[k]) < YYNTOKENS => vs[k].length \in Nat)

ParserType(ss, vs) == [new : BOOLEAN, ss : {ss}, vs : {vs}, size : Int, heap : BOOLEAN]
IsParser(ps) == ps \in ParserType(ps.ss, ps.vs)
Stacked ==
  /\ IsParser(yyps) /\ Path(yyps.ss, yyps.vs) /\ yyps.new = (yyps.ss = <<>>)
  /\ yyps.size \in YYINITDEPTH .. YYMAXDEPTH /\ Len(yyps.ss) < yyps.size

\* A token is asked for when the parser is new, or waits for one.
Flow ==
  /\ phase = "parse" => yyps.ss # <<>>
  /\ phase = "scan" => yychar = <<>> /\ IF yyps.ss = <<>> THEN scan.push # <<>> ELSE ~IsConsistent(yystate)

\* What a token adds to the number of open brackets or blocks.
Adds(opens, closes, token) == IF token.name \in opens THEN 1 ELSE IF token.name \in closes THEN -1 ELSE 0

\* What the tokens still to be pushed add: one that opens, or some that close, come first.
OpensFirst(opens, closes, push) ==
  /\ push # <<>> /\ push[1].name \in opens
  /\ \A k \in 2 .. Len(push) : push[k].name \notin opens \cup closes
ClosesFirst(opens, closes, push, n) ==
  /\ n \in 0 .. Len(push)
  /\ \A k \in 1 .. n : push[k].name \in closes
  /\ \A k \in n + 1 .. Len(push) : push[k].name \notin opens \cup closes
Pends(opens, closes, push, d) ==
  (d = 1 /\ OpensFirst(opens, closes, push)) \/ (d <= 0 /\ ClosesFirst(opens, closes, push, 0 - d))

\* What the lookahead adds, and what is closed but not reduced yet.
Ahead(opens, closes, ahead) == IF ahead = <<>> THEN 0 ELSE Adds(opens, closes, ahead[1])
Shut(closes, ss) == IF ss # <<>> /\ Symbol(ss[Len(ss)]) \in SymbolsOf(closes) THEN 1 ELSE 0
OpenIn(opens, ss) == {k \in DOMAIN ss : Symbol(ss[k]) \in SymbolsOf(opens)}

\* What is open on the stack and not closed.
Net(opens, closes, ss) == Cardinality(OpenIn(opens, ss)) - Shut(closes, ss)

\* The scanner's number is the parser's, but for what is on the way between them.
InBalance(opens, closes, push, ss, ahead, depth) ==
  \E d \in Int : Pends(opens, closes, push, d) /\ Net(opens, closes, ss) + Ahead(opens, closes, ahead) + d = depth
Balanced(opens, closes, depth) == InBalance(opens, closes, scan.push, yyps.ss, yychar, depth)

\* After the end of the input INPUT_END is on its way to the parser, or in its last state.
Ending ==
  scan.eof =>
    IF scan.push # <<>> THEN scan.push[Len(scan.push)].name = "INPUT_END"
    ELSE /\ phase = "parse"
         /\ IF yychar = <<>> THEN Symbol(yystate) = yytranslate["INPUT_END"] ELSE yychar[1].name = "INPUT_END"

Agreement ==
  /\ Typed /\ Rising(scan.indent) /\ Stacked /\ Flow
  /\ phase \in {"scan", "parse"} =>
       /\ Balanced(Opening, Closing, scan.bracket_depth)
       /\ Balanced({"INDENT"}, {"DEDENT"}, Len(scan.indent) - 1)
       /\ Ending

-----------------------------------------------------------------------------
(* Sequences.                                                              *)

\* Induction over the natural numbers, for the elements of a set.
LEMMA SetInduction ==
  ASSUME NEW S, 0 \in S, \A n \in Nat : n \in S => n + 1 \in S
  PROVE  Nat \subseteq S
<1> DEFINE D == Nat \ S
<1> SUFFICES ASSUME D # {} PROVE FALSE
  OBVIOUS
<1>1. PICK d \in D : \A e \in D : ~ (<<e, d>> \in OpToRel(<, Nat))
  BY WFMin, NatLessThanWellFounded
<1>2. d \in Nat /\ d \notin S
  BY <1>1
<1>3. d # 0
  BY <1>2
<1>4. d - 1 \in Nat /\ d - 1 < d /\ (d - 1) + 1 = d
  BY <1>2, <1>3
<1>5. d - 1 \notin D
  <2>1. <<d - 1, d>> \in OpToRel(<, Nat)
    BY <1>2, <1>4 DEF OpToRel
  <2> HIDE DEF D
  <2> QED BY <1>1, <2>1
<1>6. d - 1 \in S
  BY <1>4, <1>5
<1> QED BY <1>2, <1>4, <1>6

\* A sequence stays one when it grows.
LEMMA GrownSeq ==
  ASSUME NEW s, IsSeq(s), NEW x
  PROVE  /\ IsSeq(Append(s, x)) /\ Len(Append(s, x)) = Len(s) + 1 /\ Append(s, x)[Len(s) + 1] = x
         /\ \A k \in 1 .. Len(s) : Append(s, x)[k] = s[k]
<1> DEFINE S == {s[k] : k \in DOMAIN s} \cup {x}
           u == Append(s, x)
<1>1. s \in Seq(S)
  BY DEF IsSeq
<1> HIDE DEF S
<1>2. x \in S
  BY DEF S
<1>3. u \in Seq(S) /\ Len(u) = Len(s) + 1 /\ u[Len(s) + 1] = x /\ \A k \in 1 .. Len(s) : u[k] = s[k]
  BY <1>1, <1>2
<1> HIDE DEF u
<1>4. u \in Seq({u[k] : k \in DOMAIN u})
  BY <1>3
<1> QED BY <1>3, <1>4 DEF IsSeq, u

\* And when it is cut.
LEMMA CutSeq ==
  ASSUME NEW s, IsSeq(s), NEW n \in 0 .. Len(s)
  PROVE  /\ IsSeq(SubSeq(s, 1, n)) /\ Len(SubSeq(s, 1, n)) = n
         /\ \A k \in 1 .. n : SubSeq(s, 1, n)[k] = s[k]
<1> DEFINE S == {s[k] : k \in DOMAIN s}
           u == SubSeq(s, 1, n)
<1>1. s \in Seq(S)
  BY DEF IsSeq
<1> HIDE DEF S
<1>2. u \in Seq(S) /\ Len(u) = n /\ \A k \in 1 .. n : u[k] = s[k]
  BY <1>1
<1> HIDE DEF u
<1>3. u \in Seq({u[k] : k \in DOMAIN u})
  BY <1>2
<1> QED BY <1>2, <1>3 DEF IsSeq, u

-----------------------------------------------------------------------------
(* The parser's stacks.                                                    *)

\* A state that can lie on the top one is pushed.
LEMMA PathPush ==
  ASSUME NEW ss, NEW vs, Path(ss, vs), ss # <<>>, NEW q \in States, NEW v,
         <<ss[Len(ss)], q>> \in Neighbours, Symbol(q) < YYNTOKENS => v.length \in Nat
  PROVE  /\ Path(Append(ss, q), Append(vs, v)) /\ Append(ss, q) # <<>>
         /\ Len(Append(ss, q)) = Len(ss) + 1 /\ Append(ss, q)[Len(ss) + 1] = q
         /\ \A k \in 1 .. Len(ss) : Append(ss, q)[k] = ss[k]
<1>1. /\ ss \in Seq(States) /\ IsSeq(vs) /\ Len(ss) = Len(vs) /\ ss[1] = 0
      /\ \A k \in 2 .. Len(ss) :
           <<ss[k - 1], ss[k]>> \in Neighbours /\ (Symbol(ss[k]) < YYNTOKENS => vs[k].length \in Nat)
  BY DEF Path
<1> DEFINE tt == Append(ss, q)
           us == Append(vs, v)
<1>2. /\ tt \in Seq(States) /\ Len(tt) = Len(ss) + 1 /\ tt[Len(ss) + 1] = q /\ Len(ss) \in Nat \ {0}
      /\ \A k \in 1 .. Len(ss) : tt[k] = ss[k]
  BY <1>1
<1>3. /\ IsSeq(us) /\ Len(us) = Len(vs) + 1 /\ us[Len(vs) + 1] = v
      /\ \A k \in 1 .. Len(vs) : us[k] = vs[k]
  BY <1>1, GrownSeq
<1> HIDE DEF tt, us
<1>4. ASSUME NEW k \in 2 .. Len(tt)
      PROVE  <<tt[k - 1], tt[k]>> \in Neighbours /\ (Symbol(tt[k]) < YYNTOKENS => us[k].length \in Nat)
  <2>1. CASE k = Len(ss) + 1
    <3>1. k - 1 = Len(ss) /\ tt[k - 1] = ss[Len(ss)] /\ tt[k] = q /\ us[k] = v
      BY <2>1, <1>1, <1>2, <1>3
    <3> QED BY <3>1
  <2>2. CASE k # Len(ss) + 1
    <3>1. k \in 2 .. Len(ss) /\ tt[k - 1] = ss[k - 1] /\ tt[k] = ss[k] /\ us[k] = vs[k]
      BY <2>2, <1>1, <1>2, <1>3
    <3> QED BY <3>1, <1>1
  <2> QED BY <2>1, <2>2
<1>5. tt[1] = 0 /\ tt # <<>>
  BY <1>1, <1>2
<1>6. Path(tt, us)
  BY <1>1, <1>2, <1>3, <1>4, <1>5 DEF Path
<1> QED BY <1>2, <1>5, <1>6 DEF tt, us

\* States are popped.
LEMMA PathPop ==
  ASSUME NEW ss, NEW vs, Path(ss, vs), NEW n \in 1 .. Len(ss)
  PROVE  /\ Path(SubSeq(ss, 1, n), SubSeq(vs, 1, n)) /\ SubSeq(ss, 1, n) # <<>>
         /\ Len(SubSeq(ss, 1, n)) = n /\ \A k \in 1 .. n : SubSeq(ss, 1, n)[k] = ss[k]
<1>1. /\ ss \in Seq(States) /\ IsSeq(vs) /\ Len(ss) = Len(vs) /\ ss # <<>> /\ ss[1] = 0
      /\ \A k \in 2 .. Len(ss) :
           <<ss[k - 1], ss[k]>> \in Neighbours /\ (Symbol(ss[k]) < YYNTOKENS => vs[k].length \in Nat)
  BY DEF Path
<1> DEFINE tt == SubSeq(ss, 1, n)
           us == SubSeq(vs, 1, n)
<1>2. tt \in Seq(States) /\ Len(tt) = n /\ \A k \in 1 .. n : tt[k] = ss[k]
  BY <1>1
<1>3. IsSeq(us) /\ Len(us) = n /\ \A k \in 1 .. n : us[k] = vs[k]
  <2>1. n \in 0 .. Len(vs)
    BY <1>1
  <2> QED BY <2>1, <1>1, CutSeq
<1> HIDE DEF tt, us
<1>4. ASSUME NEW k \in 2 .. Len(tt)
      PROVE  <<tt[k - 1], tt[k]>> \in Neighbours /\ (Symbol(tt[k]) < YYNTOKENS => us[k].length \in Nat)
  <2>1. k \in 2 .. Len(ss) /\ tt[k - 1] = ss[k - 1] /\ tt[k] = ss[k] /\ us[k] = vs[k]
    BY <1>1, <1>2, <1>3
  <2> QED BY <2>1, <1>1
<1>5. tt # <<>> /\ tt[1] = 0
  BY <1>1, <1>2
<1>6. Path(tt, us)
  BY <1>2, <1>3, <1>4, <1>5 DEF Path
<1> QED BY <1>2, <1>5, <1>6 DEF tt, us

\* What lies below a state that is about to pop.
LEMMA PathBeneath ==
  ASSUME NEW ss, NEW vs, Path(ss, vs), ss # <<>>, ss[Len(ss)] \in Popping(0)
  PROVE  LET s == ss[Len(ss)]
         IN  /\ LengthOf(s) \in 0 .. Len(ss) - 1
             /\ \A k \in 0 .. LengthOf(s) : <<k, s, ss[Len(ss) - k]>> \in Beneath
<1> DEFINE s == ss[Len(ss)]
           n == Len(ss)
           S == {k \in Nat : k <= LengthOf(s) /\ k < n => <<k, s, ss[n - k]>> \in Beneath}
<1>1. /\ ss \in Seq(States) /\ ss[1] = 0 /\ n \in Nat \ {0}
      /\ \A k \in 2 .. n : <<ss[k - 1], ss[k]>> \in Neighbours
  BY DEF Path
<1>2. BeneathFits /\ ReducesFit
  BY TablesAssumption
<1>3. LengthOf(s) \in Nat /\ <<0, s, s>> \in Beneath
  BY <1>2 DEF BeneathFits, LONGEST
<1> HIDE DEF s
<1>4. 0 \in S
  BY <1>1, <1>3 DEF s
<1>5. ASSUME NEW k \in Nat, k \in S
      PROVE  k + 1 \in S
  <2> SUFFICES ASSUME k + 1 <= LengthOf(s), k + 1 < n
               PROVE  <<k + 1, s, ss[n - (k + 1)]>> \in Beneath
    OBVIOUS
  <2>1. k < LengthOf(s) /\ k < n /\ n - k \in 2 .. n /\ (n - k) - 1 = n - (k + 1)
    BY <1>1, <1>3
  <2>2. <<k, s, ss[n - k]>> \in Beneath
    BY <1>5, <2>1, <1>3
  <2>3. <<ss[n - (k + 1)], ss[n - k]>> \in Neighbours
    BY <2>1, <1>1
  <2> DEFINE b == <<k, s, ss[n - k]>>
             e == <<ss[n - (k + 1)], ss[n - k]>>
  <2>4. b[1] = k /\ b[2] = s /\ b[3] = ss[n - k] /\ e[1] = ss[n - (k + 1)] /\ e[2] = ss[n - k]
    OBVIOUS
  <2>5. b \in Beneath /\ e \in Neighbours
    BY <2>2, <2>3
  <2> HIDE DEF b, e
  <2>6. <<b[1] + 1, b[2], e[1]>> \in Beneath
    BY <2>1, <2>4, <2>5, <1>2 DEF BeneathFits
  <2> QED BY <2>4, <2>6
<1>6. Nat \subseteq S
  <2> HIDE DEF S
  <2> QED BY <1>4, <1>5, SetInduction
<1>7. LengthOf(s) <= n - 1
  <2> SUFFICES ASSUME ~(LengthOf(s) <= n - 1)
               PROVE  FALSE
    OBVIOUS
  <2>1. n - 1 \in Nat /\ n - 1 < LengthOf(s) /\ n - 1 < n /\ n - (n - 1) = 1
    BY <1>1, <1>3
  <2>2. <<n - 1, s, ss[1]>> \in Beneath
    BY <2>1, <1>6, <1>3, <1>1
  <2> DEFINE b == <<n - 1, s, 0>>
  <2>3. b \in Beneath /\ b[1] = n - 1 /\ b[2] = s /\ b[3] = 0
    BY <2>2, <1>1
  <2> HIDE DEF b
  <2> QED BY <2>1, <2>3, <1>2 DEF ReducesFit
<1>8. ASSUME NEW k \in 0 .. LengthOf(s)
      PROVE  <<k, s, ss[n - k]>> \in Beneath
  <2>1. k \in Nat /\ k <= LengthOf(s) /\ k < n
    BY <1>1, <1>3, <1>7
  <2> QED BY <2>1, <1>6
<1> QED BY <1>1, <1>3, <1>7, <1>8 DEF s

-----------------------------------------------------------------------------
(* Open brackets and blocks on the stack.                                  *)

\* Names of tokens that open and close: they are reduced together.
Pair(opens, closes) ==
  /\ opens \subseteq Terminals /\ closes \subseteq Terminals /\ opens \cap closes = {}
  /\ \A s \in States : Symbol(s) \in SymbolsOf(closes) => IsConsistent(s)
  /\ Matched(opens, closes)

\* Brackets, and the tokens around blocks, are such names.
LEMMA Pairs == Pair(Opening, Closing) /\ Pair({"INDENT"}, {"DEDENT"})
<1>1. TokensNumbered /\ Prompt /\ Matched(Opening, Closing) /\ Matched({"INDENT"}, {"DEDENT"})
  BY TablesAssumption
<1>2. /\ Opening \subseteq Terminals /\ Closing \subseteq Terminals
      /\ {"INDENT"} \subseteq Terminals /\ {"DEDENT"} \subseteq Terminals
  BY <1>1 DEF TokensNumbered
<1>3. Opening \cap Closing = {} /\ {"INDENT"} \cap {"DEDENT"} = {}
  BY DEF Opening, Closing
<1>4. ASSUME NEW s \in States, Symbol(s) \in SymbolsOf(Closing) \cup SymbolsOf({"DEDENT"})
      PROVE  IsConsistent(s)
  <2>1. Symbol(s) \in SymbolsOf({"STRING", "IDENT", "DEDENT", "INPUT_END"} \cup Closing)
    BY <1>4 DEF SymbolsOf
  <2> QED BY <2>1, <1>1 DEF Prompt
<1> QED BY <1>1, <1>2, <1>3, <1>4 DEF Pair

\* The number of a token tells its name, and no nonterminal's.
LEMMA SymbolTells ==
  ASSUME NEW names, names \subseteq Terminals
  PROVE  /\ \A a \in Terminals : yytranslate[a] \in SymbolsOf(names) <=> a \in names
         /\ \A y \in SymbolsOf(names) : y < YYNTOKENS /\ y \in Int
<1>1. TokensNumbered
  BY TablesAssumption
<1> QED BY <1>1 DEF TokensNumbered, SymbolsOf, YYNTOKENS

\* What is open on a stack can be counted.
LEMMA OpenCounted ==
  ASSUME NEW opens, NEW ss \in Seq(States)
  PROVE  IsFiniteSet(OpenIn(opens, ss)) /\ Cardinality(OpenIn(opens, ss)) \in Nat
<1>1. IsFiniteSet(1 .. Len(ss))
  <2>1. 1 \in Int /\ Len(ss) \in Int
    OBVIOUS
  <2> QED BY <2>1, FS_Interval
<1>2. OpenIn(opens, ss) \in SUBSET (1 .. Len(ss))
  BY DEF OpenIn
<1>3. IsFiniteSet(OpenIn(opens, ss))
  BY <1>1, <1>2, FS_Subset
<1> QED BY <1>3, FS_CardinalityType

\* A state is pushed.
LEMMA OpenPush ==
  ASSUME NEW opens, NEW ss \in Seq(States), NEW q \in States
  PROVE  Cardinality(OpenIn(opens, Append(ss, q)))
           = Cardinality(OpenIn(opens, ss)) + (IF Symbol(q) \in SymbolsOf(opens) THEN 1 ELSE 0)
<1> DEFINE tt == Append(ss, q)
           A  == OpenIn(opens, ss)
<1>1. /\ DOMAIN tt = 1 .. Len(ss) + 1 /\ tt[Len(ss) + 1] = q /\ Len(ss) \in Nat /\ DOMAIN ss = 1 .. Len(ss)
      /\ \A k \in 1 .. Len(ss) : tt[k] = ss[k]
  OBVIOUS
<1>2. IsFiniteSet(A) /\ Cardinality(A) \in Nat
  BY OpenCounted
<1> HIDE DEF tt
<1>3. Len(ss) + 1 \notin A
  BY <1>1 DEF OpenIn
<1>4. CASE Symbol(q) \in SymbolsOf(opens)
  <2>1. OpenIn(opens, tt) = A \cup {Len(ss) + 1}
    BY <1>1, <1>4 DEF OpenIn
  <2>2. Cardinality(A \cup {Len(ss) + 1}) = Cardinality(A) + 1
    BY <1>2, <1>3, FS_AddElement
  <2> QED BY <2>1, <2>2, <1>4 DEF tt
<1>5. CASE Symbol(q) \notin SymbolsOf(opens)
  <2>1. OpenIn(opens, tt) = A
    BY <1>1, <1>5 DEF OpenIn
  <2> QED BY <2>1, <1>2, <1>5 DEF tt
<1> QED BY <1>4, <1>5

\* A token is shifted in a state that waits for one.
LEMMA NetShift ==
  ASSUME NEW opens, NEW closes, Pair(opens, closes),
         NEW ss \in Seq(States), ss # <<>>, ~IsConsistent(ss[Len(ss)]), NEW q \in States,
         NEW token, token.name \in Terminals, Symbol(q) = yytranslate[token.name]
  PROVE  Net(opens, closes, Append(ss, q)) = Net(opens, closes, ss) + Adds(opens, closes, token)
<1>1. /\ Symbol(q) \in SymbolsOf(opens) <=> token.name \in opens
      /\ Symbol(q) \in SymbolsOf(closes) <=> token.name \in closes
  BY SymbolTells DEF Pair
<1>2. ss[Len(ss)] \in States
  OBVIOUS
<1>3. Shut(closes, ss) = 0
  BY <1>2 DEF Shut, Pair
<1>4. Append(ss, q) # <<>> /\ Append(ss, q)[Len(Append(ss, q))] = q
  OBVIOUS
<1>5. Shut(closes, Append(ss, q)) = IF token.name \in closes THEN 1 ELSE 0
  BY <1>1, <1>4 DEF Shut
<1>6. Cardinality(OpenIn(opens, Append(ss, q)))
        = Cardinality(OpenIn(opens, ss)) + (IF token.name \in opens THEN 1 ELSE 0)
  BY <1>1, OpenPush
<1>7. Cardinality(OpenIn(opens, ss)) \in Nat
  BY OpenCounted
<1>8. ~(token.name \in opens /\ token.name \in closes)
  BY DEF Pair
<1> QED BY <1>3, <1>5, <1>6, <1>7, <1>8 DEF Net, Adds

\* A nonterminal is pushed.
LEMMA NetGoto ==
  ASSUME NEW opens, NEW closes, Pair(opens, closes),
         NEW ss \in Seq(States), NEW q \in States, Symbol(q) >= YYNTOKENS
  PROVE  Net(opens, closes, Append(ss, q)) = Cardinality(OpenIn(opens, ss))
<1>1. Symbol(q) \notin SymbolsOf(opens) /\ Symbol(q) \notin SymbolsOf(closes)
  BY SymbolTells DEF Pair, YYNTOKENS
<1>2. Append(ss, q)[Len(Append(ss, q))] = q
  OBVIOUS
<1>3. Shut(closes, Append(ss, q)) = 0
  BY <1>1, <1>2 DEF Shut
<1>4. Cardinality(OpenIn(opens, Append(ss, q))) = Cardinality(OpenIn(opens, ss)) /\ Cardinality(OpenIn(opens, ss)) \in Nat
  BY <1>1, OpenPush, OpenCounted
<1> QED BY <1>3, <1>4 DEF Net

\* A reduction pops as many that open as that close.
LEMMA NetPop ==
  ASSUME NEW opens, NEW closes, Pair(opens, closes),
         NEW ss, NEW vs, Path(ss, vs), ss # <<>>, ss[Len(ss)] \in Popping(0)
  PROVE  Cardinality(OpenIn(opens, SubSeq(ss, 1, Len(ss) - LengthOf(ss[Len(ss)])))) = Net(opens, closes, ss)
<1> DEFINE s    == ss[Len(ss)]
           len  == LengthOf(s)
           left == Len(ss) - len
           tt   == SubSeq(ss, 1, left)
           A    == OpenIn(opens, tt)
<1>1. len \in 0 .. Len(ss) - 1 /\ \A k \in 0 .. len : <<k, s, ss[Len(ss) - k]>> \in Beneath
  BY PathBeneath
<1>2. ss \in Seq(States) /\ Len(ss) \in Nat \ {0}
  BY DEF Path
<1>3. left \in 1 .. Len(ss)
  BY <1>1, <1>2
<1> HIDE DEF s, len
<1>4. tt \in Seq(States) /\ DOMAIN tt = 1 .. left /\ \A k \in 1 .. left : tt[k] = ss[k]
  BY <1>2, <1>3
<1>5. IsFiniteSet(A) /\ Cardinality(A) \in Nat
  <2> HIDE DEF tt
  <2> QED BY <1>4, OpenCounted
<1> HIDE DEF tt, left
\* What is popped and opens lies where Matched says.
<1> DEFINE Opens(k) == {b[3] : b \in {c \in Beneath : c[1] = k /\ c[2] = s /\ Symbol(c[3]) \in SymbolsOf(opens)}}
           All(k)   == {b[3] : b \in {c \in Beneath : c[1] = k /\ c[2] = s}}
<1>6. ASSUME NEW k \in 0 .. len
      PROVE  /\ ss[Len(ss) - k] \in All(k)
             /\ ss[Len(ss) - k] \in Opens(k) <=> Symbol(ss[Len(ss) - k]) \in SymbolsOf(opens)
  <2> DEFINE b == <<k, s, ss[Len(ss) - k]>>
  <2>1. b \in Beneath /\ b[1] = k /\ b[2] = s /\ b[3] = ss[Len(ss) - k]
    BY <1>1
  <2> HIDE DEF b
  <2> QED BY <2>1
<1>7. /\ Symbol(s) \in SymbolsOf(closes) =>
           \E k \in 0 .. len - 1 : Opens(k) = All(k) /\ \A j \in 0 .. len - 1 : j # k => Opens(j) = {}
      /\ Symbol(s) \notin SymbolsOf(closes) => \A j \in 0 .. len - 1 : Opens(j) = {}
  BY DEF Pair, Matched, s, len
<1> HIDE DEF Opens, All
<1>8. /\ \A j \in left + 1 .. Len(ss) : Len(ss) - j \in 0 .. len - 1 /\ Len(ss) - j \in 0 .. len /\ Len(ss) - (Len(ss) - j) = j
      /\ DOMAIN ss = 1 .. Len(ss) /\ left \in 1 .. Len(ss)
  BY <1>1, <1>2, <1>3 DEF left
<1>9. ASSUME NEW j \in left + 1 .. Len(ss)
      PROVE  Symbol(ss[j]) \in SymbolsOf(opens) <=> ss[j] \in Opens(Len(ss) - j)
  BY <1>6, <1>8
<1>10. CASE Symbol(s) \in SymbolsOf(closes)
  <2>1. PICK k \in 0 .. len - 1 : Opens(k) = All(k) /\ \A j \in 0 .. len - 1 : j # k => Opens(j) = {}
    BY <1>7, <1>10
  <2> DEFINE at1 == Len(ss) - k
  <2>2. at1 \in left + 1 .. Len(ss) /\ Len(ss) - at1 = k /\ k \in 0 .. len
    BY <1>1, <1>2 DEF left
  <2>3. Symbol(ss[at1]) \in SymbolsOf(opens)
    BY <2>1, <2>2, <1>6
  <2> HIDE DEF at1
  <2>4. ASSUME NEW j \in left + 1 .. Len(ss), j # at1
        PROVE  Symbol(ss[j]) \notin SymbolsOf(opens)
    <3>1. Len(ss) - j # k
      BY <2>2, <2>4, <1>2, <1>8
    <3> QED BY <3>1, <2>1, <1>8, <1>9
  <2>5. OpenIn(opens, ss) = A \cup {at1}
    BY <2>2, <2>3, <2>4, <1>4, <1>8 DEF OpenIn
  <2>6. at1 \notin A
    BY <2>2, <1>4, <1>8 DEF OpenIn
  <2>7. Cardinality(OpenIn(opens, ss)) = Cardinality(A) + 1
    BY <2>5, <2>6, <1>5, FS_AddElement
  <2>8. Shut(closes, ss) = 1
    BY <1>10 DEF Shut, s
  <2> QED BY <2>7, <2>8, <1>5 DEF Net, tt, left, len, s
<1>11. CASE Symbol(s) \notin SymbolsOf(closes)
  <2>1. OpenIn(opens, ss) = A
    BY <1>4, <1>7, <1>8, <1>9, <1>11 DEF OpenIn
  <2>2. Shut(closes, ss) = 0
    BY <1>11 DEF Shut, s
  <2> QED BY <2>1, <2>2, <1>5 DEF Net, tt, left, len, s
<1> QED BY <1>10, <1>11

-----------------------------------------------------------------------------
(* The scanner.                                                            *)

\* Whitespace reaches some column.
LEMMA LevelNat ==
  ASSUME NEW ws, Len(ws) \in Nat
  PROVE  Level(ws) \in Nat
<1> DEFINE Next1(f, n) == IF n = 0 THEN 0
                          ELSE IF ws[n] = "tab" THEN (f[n - 1] \div INDENT_SIZE + 1) * INDENT_SIZE
                          ELSE f[n - 1] + 1
           Rec(f, m) == f = [n \in 0 .. m |-> Next1(f, n)]
           S == {m \in Nat : \E f : Rec(f, m) /\ \A n \in 0 .. m : f[n] \in Nat}
<1>1. 0 \in S
  <2> DEFINE f == [n \in 0 .. 0 |-> 0]
  <2>1. Rec(f, 0) /\ \A n \in 0 .. 0 : f[n] \in Nat
    OBVIOUS
  <2> QED BY <2>1
<1>2. ASSUME NEW m \in Nat, m \in S PROVE m + 1 \in S
  <2>1. PICK f : Rec(f, m) /\ \A n \in 0 .. m : f[n] \in Nat
    BY <1>2
  <2> DEFINE g == [n \in 0 .. m + 1 |-> IF n = m + 1 THEN Next1(f, m + 1) ELSE f[n]]
  <2>2. Next1(f, m + 1) \in Nat
    <3>1. f[m] \in Nat /\ (m + 1) - 1 = m /\ m + 1 # 0
      BY <2>1
    <3> QED BY <3>1 DEF INDENT_SIZE
  <2>3. ASSUME NEW n \in 0 .. m + 1
        PROVE  g[n] = Next1(g, n) /\ g[n] \in Nat
    <3>1. CASE n = m + 1
      <4>1. g[n] = Next1(f, m + 1) /\ n # 0 /\ n - 1 = m /\ g[m] = f[m]
        BY <3>1
      <4> QED BY <3>1, <4>1, <2>2
    <3>2. CASE n # m + 1
      <4>1. n \in 0 .. m /\ g[n] = f[n] /\ (n # 0 => g[n - 1] = f[n - 1])
        BY <3>2
      <4>2. f[n] = Next1(f, n) /\ f[n] \in Nat
        <5> HIDE DEF Next1
        <5> QED BY <2>1, <4>1
      <4> QED BY <4>1, <4>2
    <3> QED BY <3>1, <3>2
  <2>4. Rec(g, m + 1) /\ \A n \in 0 .. m + 1 : g[n] \in Nat
    <3>1. g = [n \in 0 .. m + 1 |-> g[n]]
      OBVIOUS
    <3>2. [n \in 0 .. m + 1 |-> g[n]] = [n \in 0 .. m + 1 |-> Next1(g, n)]
      <4> HIDE DEF g, Next1
      <4> QED BY <2>3
    <3>3. g = [n \in 0 .. m + 1 |-> Next1(g, n)]
      BY <3>1, <3>2
    <3> HIDE DEF g, Next1
    <3> QED BY <2>3, <3>3
  <2> HIDE DEF g, Rec
  <2> QED BY <2>4
<1>3. Len(ws) \in S
  <2> HIDE DEF S
  <2> QED BY <1>1, <1>2, SetInduction
<1> DEFINE c == CHOOSE f : Rec(f, Len(ws))
<1>4. Level(ws) = c[Len(ws)]
  BY DEF Level
<1>5. PICK f : Rec(f, Len(ws)) /\ \A n \in 0 .. Len(ws) : f[n] \in Nat
  BY <1>3
<1>6. Rec(c, Len(ws))
  <2> HIDE DEF Rec
  <2> QED BY <1>5
\* There is only one such function.
<1> DEFINE T == {n \in Nat : n <= Len(ws) => c[n] \in Nat}
<1> HIDE DEF c
<1>7. \A n \in 0 .. Len(ws) : c[n] = Next1(c, n)
  <2> HIDE DEF Next1
  <2> QED BY <1>6
<1>8. 0 \in T
  BY <1>7
<1>9. ASSUME NEW n \in Nat, n \in T PROVE n + 1 \in T
  <2> SUFFICES ASSUME n + 1 <= Len(ws) PROVE c[n + 1] \in Nat
    OBVIOUS
  <2>1. c[n] \in Nat /\ n + 1 \in 0 .. Len(ws) /\ n + 1 # 0 /\ (n + 1) - 1 = n
    BY <1>9
  <2>2. c[n + 1] = Next1(c, n + 1)
    <3> HIDE DEF Next1
    <3> QED BY <1>7, <2>1
  <2> QED BY <2>1, <2>2 DEF INDENT_SIZE
<1>10. Nat \subseteq T
  <2> HIDE DEF T
  <2> QED BY <1>8, <1>9, SetInduction
<1> QED BY <1>4, <1>10

\* The levels below a level of a rising stack are a prefix of it.
LEMMA StayingIs ==
  ASSUME NEW indent \in Seq(Nat), Rising(indent), NEW level \in Nat
  PROVE  /\ Staying(indent, level) \in DOMAIN indent /\ indent[Staying(indent, level)] <= level
         /\ \A j \in Staying(indent, level) + 1 .. Len(indent) : indent[j] > level
<1> DEFINE D == {n \in Nat : n < Len(indent) /\ indent[Len(indent) - n] <= level}
<1>1. Len(indent) \in Nat \ {0} /\ indent[1] = 0
  BY DEF Rising
<1>2. Len(indent) - 1 \in D
  BY <1>1
<1>3. PICK d \in D : \A e \in D : ~ (<<e, d>> \in OpToRel(<, Nat))
  BY <1>2, WFMin, NatLessThanWellFounded
<1> DEFINE k == Len(indent) - d
<1>4. d \in Nat /\ k \in DOMAIN indent /\ indent[k] <= level
  <2>1. d \in Nat /\ d < Len(indent) /\ indent[Len(indent) - d] <= level
    OBVIOUS
  <2> QED BY <2>1, <1>1
<1>5. ASSUME NEW j \in k + 1 .. Len(indent)
      PROVE  indent[j] > level
  <2> DEFINE e == Len(indent) - j
  <2>1. e \in Nat /\ e < d /\ e < Len(indent) /\ Len(indent) - e = j /\ indent[j] \in Nat
    BY <1>1, <1>4
  <2>2. <<e, d>> \in OpToRel(<, Nat)
    BY <2>1, <1>4 DEF OpToRel
  <2>3. e \notin D
    <3> HIDE DEF D, e
    <3> QED BY <2>2, <1>3
  <2> QED BY <2>1, <2>3
<1>6. \E x \in DOMAIN indent : indent[x] <= level /\ \A j \in x + 1 .. Len(indent) : indent[j] > level
  <2> HIDE DEF k
  <2> QED BY <1>4, <1>5
<1> QED BY <1>6 DEF Staying

\* What the tokens of a rule say about the scanner's own numbers.
Counted(old, new, push) ==
  /\ \E d \in Int : Pends({"INDENT"}, {"DEDENT"}, push, d) /\ Len(new.indent) = Len(old.indent) + d
  /\ \E d \in Int : Pends(Opening, Closing, push, d) /\ new.bracket_depth = old.bracket_depth + d

\* Neither lines nor the ends of the input open or close anything.
Neutral == {"LINE_END", "INPUT_END", "INVALID_TOKEN", "START_SINGLE", "START_FILE", "INDENT_OVERFLOW"}

\* The tokens yylex makes up are tokens, and the neutral ones are no brackets and no levels.
LEMMA MadeTokens ==
  /\ \A name \in Neutral \cup {"INDENT", "DEDENT"} : Token(name) \in TokenType /\ Token(name).name = name
  /\ \A name \in Neutral : name \notin {"INDENT"} \cup {"DEDENT"} /\ name \notin Opening \cup Closing
<1>1. Neutral \cup {"INDENT", "DEDENT"} \subseteq Terminals
  BY TablesAssumption DEF TokensNumbered, Neutral
<1>3. \A name \in Neutral \cup {"INDENT", "DEDENT"} : Token(name) \in TokenType /\ Token(name).name = name
  BY <1>1 DEF TokenType, Token
<1> QED BY <1>3 DEF Neutral, Opening, Closing

\* Tokens that neither open nor close come last.
LEMMA PendsMore ==
  ASSUME NEW opens, NEW closes, NEW push \in Seq(TokenType), NEW d \in Int, Pends(opens, closes, push, d),
         NEW more \in Seq(TokenType), \A k \in DOMAIN more : more[k].name \notin opens \cup closes
  PROVE  Pends(opens, closes, push \o more, d)
<1> DEFINE all == push \o more
<1>1. /\ all \in Seq(TokenType) /\ Len(all) = Len(push) + Len(more) /\ Len(push) \in Nat /\ Len(more) \in Nat
      /\ \A k \in 1 .. Len(push) : all[k] = push[k]
      /\ \A k \in Len(push) + 1 .. Len(all) : all[k] = more[k - Len(push)] /\ k - Len(push) \in DOMAIN more
  OBVIOUS
<1> HIDE DEF all
<1>2. CASE d = 1 /\ OpensFirst(opens, closes, push)
  <2>1. push # <<>> /\ push[1].name \in opens /\ \A k \in 2 .. Len(push) : push[k].name \notin opens \cup closes
    BY <1>2 DEF OpensFirst
  <2>2. all # <<>> /\ all[1] = push[1]
    BY <2>1, <1>1
  <2>3. \A k \in 2 .. Len(all) : all[k].name \notin opens \cup closes
    BY <2>1, <1>1
  <2> QED BY <1>2, <2>1, <2>2, <2>3 DEF Pends, OpensFirst, all
<1>3. CASE d <= 0 /\ ClosesFirst(opens, closes, push, 0 - d)
  <2> DEFINE n == 0 - d
  <2>1. /\ n \in 0 .. Len(push) /\ \A k \in 1 .. n : push[k].name \in closes
        /\ \A k \in n + 1 .. Len(push) : push[k].name \notin opens \cup closes
    BY <1>3 DEF ClosesFirst
  <2> HIDE DEF n
  <2>2. /\ n \in 0 .. Len(all) /\ \A k \in 1 .. n : all[k].name \in closes
        /\ \A k \in n + 1 .. Len(all) : all[k].name \notin opens \cup closes
    <3>1. n \in 0 .. Len(all) /\ \A k \in 1 .. n : k \in 1 .. Len(push)
      BY <2>1, <1>1
    <3>2. ASSUME NEW k \in n + 1 .. Len(all)
          PROVE  all[k].name \notin opens \cup closes
      <4>1. CASE k <= Len(push)
        <5>1. k \in 1 .. Len(push) /\ k \in n + 1 .. Len(push)
          BY <4>1, <2>1, <1>1
        <5> QED BY <5>1, <2>1, <1>1
      <4>2. CASE ~(k <= Len(push))
        <5>1. k \in Len(push) + 1 .. Len(all)
          BY <4>2, <2>1, <1>1
        <5> QED BY <5>1, <1>1
      <4> QED BY <4>1, <4>2
    <3> QED BY <3>1, <3>2, <2>1, <1>1
  <2>3. ClosesFirst(opens, closes, all, n)
    BY <2>2 DEF ClosesFirst
  <2> QED BY <2>3, <1>3 DEF Pends, n, all
<1> QED BY <1>2, <1>3 DEF Pends

\* Nothing to be pushed adds nothing.
LEMMA PendsNone ==
  ASSUME NEW opens, NEW closes, NEW push \in Seq(TokenType),
         \A k \in DOMAIN push : push[k].name \notin opens \cup closes
  PROVE  Pends(opens, closes, push, 0)
<1>1. ClosesFirst(opens, closes, push, 0)
  BY DEF ClosesFirst
<1> QED BY <1>1 DEF Pends

\* The same, of the scanner before and after a rule.
LEMMA CountedMore ==
  ASSUME NEW old, NEW new, NEW push \in Seq(TokenType), Counted(old, new, push),
         NEW more \in Seq(TokenType), \A k \in DOMAIN more : more[k].name \in Neutral
  PROVE  Counted(old, new, push \o more)
<1>1. \A k \in DOMAIN more : more[k].name \notin {"INDENT"} \cup {"DEDENT"} /\ more[k].name \notin Opening \cup Closing
  BY MadeTokens
<1>2. PICK d \in Int : Pends({"INDENT"}, {"DEDENT"}, push, d) /\ Len(new.indent) = Len(old.indent) + d
  BY DEF Counted
<1>3. Pends({"INDENT"}, {"DEDENT"}, push \o more, d)
  BY <1>1, <1>2, PendsMore
<1>4. PICK e \in Int : Pends(Opening, Closing, push, e) /\ new.bracket_depth = old.bracket_depth + e
  BY DEF Counted
<1>5. Pends(Opening, Closing, push \o more, e)
  BY <1>1, <1>4, PendsMore
<1> QED BY <1>2, <1>3, <1>4, <1>5 DEF Counted

\* A rule that leaves both numbers alone.
LEMMA CountedSame ==
  ASSUME NEW old, old \in ScanType, NEW new, new.indent = old.indent, new.bracket_depth = old.bracket_depth
  PROVE  Counted(old, new, <<>>)
<1>1. <<>> \in Seq(TokenType) /\ DOMAIN <<>> = {}
  OBVIOUS
<1>2. Pends({"INDENT"}, {"DEDENT"}, <<>>, 0) /\ Pends(Opening, Closing, <<>>, 0)
  BY PendsNone DEF Pends, ClosesFirst
<1>3. Len(old.indent) \in Int /\ old.bracket_depth \in Int
  BY DEF ScanType
<1>4. Len(new.indent) = Len(old.indent) + 0 /\ new.bracket_depth = old.bracket_depth + 0 /\ 0 \in Int
  BY <1>3
<1> QED BY <1>2, <1>4 DEF Counted

\* CHECK_INDENT_V keeps the levels rising and pushes what it changes of them.
LEMMA CheckIndent ==
  ASSUME NEW sc \in ScanType, Rising(sc.indent), sc.push = <<>>, NEW level \in Nat
  PROVE  LET c == check_indent(sc, level)
         IN  /\ c \in ScanType /\ Rising(c.indent) /\ Counted(sc, c, c.push)
             /\ c.state = sc.state /\ c.buf = sc.buf /\ c.bracket_depth = sc.bracket_depth /\ c.eof = sc.eof
<1> DEFINE indent == sc.indent
           top  == indent[Len(indent)]
           k    == Staying(indent, level)
           kept == SubSeq(indent, 1, k)
           c    == check_indent(sc, level)
<1>1. /\ indent \in Seq(Nat) /\ Len(indent) \in 1 .. MAX_INDENT_LEVELS /\ indent[1] = 0
      /\ \A j \in 2 .. Len(indent) : indent[j - 1] < indent[j]
      /\ MAX_INDENT_LEVELS \in Nat /\ top \in Nat /\ Last(indent) = top
  <2>1. indent \in Seq(Nat)
    BY DEF ScanType
  <2>2. Rising(indent) /\ Last(indent) = top
    BY DEF Last
  <2> HIDE DEF indent
  <2>3. MAX_INDENT_LEVELS \in Nat
    BY FrontendAssumption
  <2>4. /\ Len(indent) \in 1 .. MAX_INDENT_LEVELS /\ indent[1] = 0
        /\ \A j \in 2 .. Len(indent) : indent[j - 1] < indent[j]
    BY <2>2 DEF Rising
  <2>5. top \in Nat
    BY <2>1, <2>3, <2>4
  <2> QED BY <2>1, <2>2, <2>3, <2>4, <2>5
<1>2. k \in 1 .. Len(indent) /\ \A j \in k + 1 .. Len(indent) : indent[j] > level
  <2>1. Rising(indent) /\ DOMAIN indent = 1 .. Len(indent)
    BY <1>1
  <2> HIDE DEF indent
  <2> QED BY <1>1, <2>1, StayingIs
\* The tokens of levels are no brackets.
<1>3. ASSUME NEW push \in Seq(TokenType),
             \A j \in DOMAIN push : push[j].name \in {"INDENT", "DEDENT", "INDENT_OVERFLOW"}
      PROVE  \E d \in Int : Pends(Opening, Closing, push, d) /\ sc.bracket_depth = sc.bracket_depth + d
  <2>1. \A j \in DOMAIN push : push[j].name \notin Opening \cup Closing
    BY <1>3 DEF Opening, Closing
  <2>2. Pends(Opening, Closing, push, 0)
    BY <2>1, PendsNone
  <2>3. sc.bracket_depth = sc.bracket_depth + 0 /\ 0 \in Int
    BY DEF ScanType
  <2> QED BY <2>2, <2>3
<1>4. CASE top >= level
  <2> DEFINE n    == Len(indent) - Len(kept)
             left == [j \in 1 .. n |-> Token("DEDENT")]
  <2>1. kept \in Seq(Nat) /\ Len(kept) = k /\ \A j \in 1 .. k : kept[j] = indent[j]
    BY <1>1, <1>2
  <2> HIDE DEF kept, k
  <2>2. n \in Nat
    BY <2>1, <1>1, <1>2
  <2>3. c = [sc EXCEPT !.indent = kept, !.push = left]
    BY <1>1, <1>4 DEF check_indent, kept, k
  <2> HIDE DEF n
  <2>4. left \in Seq(TokenType) /\ Len(left) = n /\ \A j \in 1 .. n : left[j].name = "DEDENT"
    BY <2>2, MadeTokens
  <2> HIDE DEF left
  <2>5. c \in ScanType /\ c.indent = kept /\ c.push = left /\ c.state = sc.state /\ c.buf = sc.buf
        /\ c.bracket_depth = sc.bracket_depth /\ c.eof = sc.eof
    <3> HIDE DEF c
    <3> QED BY <2>1, <2>3, <2>4 DEF ScanType
  <2> HIDE DEF c
  <2>6. Rising(kept)
    <3>1. ASSUME NEW j \in 2 .. Len(kept) PROVE kept[j - 1] < kept[j]
      <4>1. j \in 2 .. Len(indent) /\ j \in 1 .. k /\ j - 1 \in 1 .. k
        BY <2>1, <1>1, <1>2
      <4>2. kept[j - 1] = indent[j - 1] /\ kept[j] = indent[j]
        BY <4>1, <2>1
      <4> QED BY <4>1, <4>2, <1>1
    <3>2. Len(kept) \in 1 .. MAX_INDENT_LEVELS /\ kept[1] = 0
      BY <2>1, <1>1, <1>2
    <3> QED BY <3>1, <3>2 DEF Rising
  <2>7. ClosesFirst({"INDENT"}, {"DEDENT"}, left, n)
    BY <2>2, <2>4 DEF ClosesFirst
  <2>8. 0 - n \in Int /\ 0 - n <= 0 /\ 0 - (0 - n) = n /\ Len(kept) = Len(indent) + (0 - n)
    BY <2>1, <2>2, <1>1, <1>2 DEF n
  <2>9. Pends({"INDENT"}, {"DEDENT"}, left, 0 - n)
    BY <2>7, <2>8 DEF Pends
  <2>10. \A j \in DOMAIN left : left[j].name \in {"INDENT", "DEDENT", "INDENT_OVERFLOW"}
    BY <2>2, <2>4
  <2>11. Counted(sc, c, left)
    BY <2>4, <2>5, <2>8, <2>9, <2>10, <1>3 DEF Counted
  <2> QED BY <2>5, <2>6, <2>11 DEF c
<1>5. CASE ~(top >= level) /\ Len(indent) < MAX_INDENT_LEVELS
  <2> DEFINE deep == Append(indent, level)
             push == <<Token("INDENT")>>
  <2>1. deep \in Seq(Nat) /\ Len(deep) = Len(indent) + 1 /\ deep[Len(indent) + 1] = level
        /\ \A j \in 1 .. Len(indent) : deep[j] = indent[j]
    BY <1>1
  <2> HIDE DEF deep
  <2>2. c = [sc EXCEPT !.indent = deep, !.push = push]
    BY <1>1, <1>5 DEF check_indent, deep
  <2>3. push \in Seq(TokenType) /\ Len(push) = 1 /\ push # <<>> /\ push[1].name = "INDENT"
    BY MadeTokens
  <2> HIDE DEF push
  <2>4. c \in ScanType /\ c.indent = deep /\ c.push = push /\ c.state = sc.state /\ c.buf = sc.buf
        /\ c.bracket_depth = sc.bracket_depth /\ c.eof = sc.eof
    <3> HIDE DEF c
    <3> QED BY <2>1, <2>2, <2>3 DEF ScanType
  <2> HIDE DEF c
  <2>5. Rising(deep)
    <3>1. ASSUME NEW j \in 2 .. Len(deep) PROVE deep[j - 1] < deep[j]
      <4>1. CASE j = Len(indent) + 1
        <5>1. j - 1 = Len(indent) /\ Len(indent) \in 1 .. Len(indent)
          BY <4>1, <1>1
        <5>2. deep[j - 1] = top /\ deep[j] = level
          BY <5>1, <4>1, <2>1
        <5> QED BY <5>2, <1>1, <1>5
      <4>2. CASE j # Len(indent) + 1
        <5>1. j \in 2 .. Len(indent) /\ j \in 1 .. Len(indent) /\ j - 1 \in 1 .. Len(indent)
          BY <4>2, <2>1, <1>1
        <5>2. deep[j - 1] = indent[j - 1] /\ deep[j] = indent[j]
          BY <5>1, <2>1
        <5> QED BY <5>1, <5>2, <1>1
      <4> QED BY <4>1, <4>2
    <3>2. Len(deep) \in 1 .. MAX_INDENT_LEVELS /\ deep[1] = 0
      BY SMTT(40), <2>1, <1>1, <1>5
    <3> QED BY <3>1, <3>2 DEF Rising
  <2>6. Pends({"INDENT"}, {"DEDENT"}, push, 1)
    BY <2>3 DEF Pends, OpensFirst
  <2>7. \A j \in DOMAIN push : push[j].name \in {"INDENT", "DEDENT", "INDENT_OVERFLOW"}
    BY <2>3
  <2>8. Counted(sc, c, push)
    BY <2>1, <2>3, <2>4, <2>6, <2>7, <1>3 DEF Counted
  <2> QED BY <2>4, <2>5, <2>8 DEF c
<1>6. CASE ~(top >= level) /\ ~(Len(indent) < MAX_INDENT_LEVELS)
  <2> DEFINE push == <<Token("INDENT_OVERFLOW")>>
  <2>2. c = [sc EXCEPT !.push = push]
    BY <1>1, <1>6 DEF check_indent
  <2>3. push \in Seq(TokenType) /\ Len(push) = 1 /\ push[1].name = "INDENT_OVERFLOW"
    BY MadeTokens DEF Neutral
  <2> HIDE DEF push
  <2>4. c \in ScanType /\ c.indent = indent /\ c.push = push /\ c.state = sc.state /\ c.buf = sc.buf
        /\ c.bracket_depth = sc.bracket_depth /\ c.eof = sc.eof
    <3> HIDE DEF c
    <3> QED BY <2>2, <2>3 DEF ScanType
  <2> HIDE DEF c
  <2>5. \A j \in DOMAIN push : /\ push[j].name \in {"INDENT", "DEDENT", "INDENT_OVERFLOW"}
                               /\ push[j].name \notin {"INDENT"} \cup {"DEDENT"}
    BY <2>3
  <2>6. Pends({"INDENT"}, {"DEDENT"}, push, 0)
    BY <2>3, <2>5, PendsNone
  <2>7. Len(c.indent) = Len(sc.indent) + 0 /\ 0 \in Int
    BY <2>4, <1>1
  <2>8. Counted(sc, c, push)
    BY <2>3, <2>4, <2>5, <2>6, <2>7, <1>3 DEF Counted
  <2> QED BY <2>4, <2>8 DEF c
<1> QED BY <1>4, <1>5, <1>6

\* What a rule leaves behind: the scanner, tokens that account for what it changed, and
\* INPUT_END as the last of them at the end of the input.
Fed(old, new) ==
  /\ new \in ScanType /\ Rising(new.indent) /\ Counted(old, new, new.push)
  /\ new.eof => new.push # <<>> /\ new.push[Len(new.push)].name = "INPUT_END"

\* The tokens behind those of CHECK_INDENT_V.
LEMMA FedPushing ==
  ASSUME NEW old, NEW sc \in ScanType, Rising(sc.indent), Counted(old, sc, sc.push),
         NEW names \in Seq(Neutral), names # <<>>, sc.eof => names[Len(names)] = "INPUT_END"
  PROVE  Fed(old, Pushing(sc, names))
<1> DEFINE more == [k \in DOMAIN names |-> Token(names[k])]
           all  == sc.push \o more
           c    == Pushing(sc, names)
<1>1. /\ more \in Seq(TokenType) /\ Len(more) = Len(names) /\ Len(names) \in Nat \ {0}
      /\ \A k \in DOMAIN more : more[k].name \in Neutral
      /\ more[Len(names)].name = names[Len(names)]
  <2>1. names \in [1 .. Len(names) -> Neutral] /\ Len(names) \in Nat \ {0}
    OBVIOUS
  <2>2. \A k \in 1 .. Len(names) : Token(names[k]) \in TokenType /\ Token(names[k]).name = names[k]
    BY <2>1, MadeTokens
  <2>3. more \in [1 .. Len(names) -> TokenType]
    BY <2>1, <2>2
  <2>4. more \in Seq(TokenType) /\ Len(more) = Len(names)
    <3> HIDE DEF more
    <3> QED BY <2>1, <2>3
  <2> QED BY <2>1, <2>2, <2>4
<1>2. sc.push \in Seq(TokenType)
  BY DEF ScanType
<1>3. c = [sc EXCEPT !.push = all]
  BY DEF Pushing
<1> HIDE DEF more
<1>4. all \in Seq(TokenType) /\ all # <<>> /\ all[Len(all)] = more[Len(names)]
  BY <1>1, <1>2
<1>5. Counted(old, sc, all)
  BY <1>1, <1>2, CountedMore
<1> HIDE DEF all, c
<1>6. c \in ScanType /\ c.push = all /\ c.indent = sc.indent /\ c.bracket_depth = sc.bracket_depth /\ c.eof = sc.eof
  BY <1>3, <1>4 DEF ScanType
<1>7. Counted(old, c, c.push)
  BY <1>5, <1>6 DEF Counted
<1> QED BY <1>1, <1>4, <1>6, <1>7 DEF Fed, c

\* CHECK_INDENT_V on the scanner as a rule finds it.
LEMMA FedCheck ==
  ASSUME NEW old \in ScanType, Rising(old.indent), NEW sc \in ScanType, sc.push = <<>>,
         sc.indent = old.indent, sc.bracket_depth = old.bracket_depth, NEW level \in Nat
  PROVE  LET c == check_indent(sc, level)
         IN  c \in ScanType /\ Rising(c.indent) /\ Counted(old, c, c.push) /\ c.eof = sc.eof
<1> DEFINE c == check_indent(sc, level)
<1>1. c \in ScanType /\ Rising(c.indent) /\ Counted(sc, c, c.push) /\ c.eof = sc.eof
  BY CheckIndent
<1> HIDE DEF c
<1>2. Counted(old, c, c.push)
  BY <1>1 DEF Counted
<1> QED BY <1>1, <1>2 DEF c

\* No token is pushed and no number changes.
LEMMA FedNothing ==
  ASSUME NEW old \in ScanType, Rising(old.indent), ~old.eof, NEW sc \in ScanType, sc.push = <<>>,
         sc.indent = old.indent, sc.bracket_depth = old.bracket_depth, sc.eof = old.eof
  PROVE  Fed(old, sc)
<1>1. Counted(old, sc, <<>>)
  BY CountedSame
<1> QED BY <1>1 DEF Fed

\* A token other than those for levels comes from a lexeme.
LEMMA LexemeToken ==
  ASSUME NEW token \in Lexemes, token.name # "BACKSLASH"
  PROVE  LET pushed == IF token = Comment THEN Token("INVALID_TOKEN") ELSE token
         IN  /\ pushed \in TokenType /\ pushed.name \notin {"INDENT"} \cup {"DEDENT"}
             /\ BracketStep(token.name) = Adds(Opening, Closing, pushed)
<1>1. CASE token = Comment
  <2>1. Token("INVALID_TOKEN") \in TokenType /\ Token("INVALID_TOKEN").name = "INVALID_TOKEN"
    BY MadeTokens DEF Neutral
  <2>2. token.name = "#"
    BY <1>1 DEF Comment, Token
  <2> QED BY <1>1, <2>1, <2>2 DEF BracketStep, Adds, Opening, Closing
<1>2. CASE token # Comment
  <2>1. token # Token("BACKSLASH")
    <3>1. Token("BACKSLASH").name = "BACKSLASH"
      BY DEF Token
    <3> QED BY <3>1
  <2>2. token \in TokenType /\ token.name \notin {"INDENT"} \cup {"DEDENT"}
    BY <1>2, <2>1 DEF Lexemes, TokenType, Terminals
  <2> QED BY <1>2, <2>2 DEF BracketStep, Adds
<1> QED BY <1>1, <1>2

\* A lexeme is pushed alone.
LEMMA FedLexeme ==
  ASSUME NEW old \in ScanType, Rising(old.indent), ~old.eof, NEW sc \in ScanType, NEW token \in TokenType,
         sc.push = <<token>>, token.name \notin {"INDENT"} \cup {"DEDENT"}, sc.indent = old.indent,
         sc.bracket_depth = old.bracket_depth + Adds(Opening, Closing, token), sc.eof = old.eof
  PROVE  Fed(old, sc)
<1> DEFINE push == <<token>>
<1>1. push \in Seq(TokenType) /\ Len(push) = 1 /\ push # <<>> /\ push[1] = token
  OBVIOUS
<1> HIDE DEF push
<1>2. Pends({"INDENT"}, {"DEDENT"}, push, 0)
  BY <1>1, PendsNone
<1>3. Len(sc.indent) = Len(old.indent) + 0 /\ 0 \in Int
  BY DEF ScanType
<1>4. \E d \in Int : Pends(Opening, Closing, push, d) /\ d = Adds(Opening, Closing, token)
  <2>1. CASE token.name \in Opening
    <3>1. Pends(Opening, Closing, push, 1)
      BY <2>1, <1>1 DEF Pends, OpensFirst
    <3> QED BY <3>1, <2>1 DEF Adds
  <2>2. CASE token.name \notin Opening /\ token.name \in Closing
    <3>1. ClosesFirst(Opening, Closing, push, 1) /\ 0 - (-1) = 1 /\ -1 <= 0 /\ -1 \in Int
      BY <2>2, <1>1 DEF ClosesFirst
    <3>2. Pends(Opening, Closing, push, -1)
      BY <3>1 DEF Pends
    <3> QED BY <3>1, <3>2, <2>2 DEF Adds
  <2>3. CASE token.name \notin Opening \cup Closing
    <3>1. Pends(Opening, Closing, push, 0)
      BY <2>3, <1>1, PendsNone
    <3> QED BY <3>1, <2>3 DEF Adds
  <2> QED BY <2>1, <2>2, <2>3
<1>5. Counted(old, sc, push)
  BY <1>2, <1>3, <1>4 DEF Counted
<1> QED BY <1>5 DEF Fed, push

\* Fields of the scanner are set.
LEMMA SetScan ==
  ASSUME NEW sc \in ScanType, NEW b \in Seq(InputLines), NEW st \in {"START", "INNER"}, NEW e \in BOOLEAN
  PROVE  /\ [sc EXCEPT !.buf = b] \in ScanType /\ [sc EXCEPT !.state = st] \in ScanType
         /\ [sc EXCEPT !.buf = b, !.eof = e] \in ScanType
         /\ [sc EXCEPT !.buf = b, !.state = st, !.eof = e] \in ScanType
BY DEF ScanType

\* What a lexeme changes of the scanner.
Taken(sc, new, b, d, p) == new = [sc EXCEPT !.buf = b, !.bracket_depth = d, !.push = p]

\* It keeps the scanner's type and the other fields.
LEMMA SetLexeme ==
  ASSUME NEW sc \in ScanType, NEW b \in Seq(InputLines), NEW d \in Int, NEW p \in Seq(TokenType),
         NEW new, Taken(sc, new, b, d, p)
  PROVE  new \in ScanType /\ new.push = p /\ new.indent = sc.indent /\ new.eof = sc.eof /\ new.bracket_depth = d
<1>1. new = [sc EXCEPT !.buf = b, !.bracket_depth = d, !.push = p]
  BY DEF Taken
<1>2. new \in ScanType
  BY <1>1 DEF ScanType
<1> QED BY <1>1, <1>2 DEF ScanType

ScanRule ==
  \/ parser_input_wrap \/ BlankLine \/ Indentation \/ Lexeme
  \/ Continuation \/ Newline \/ EofInner \/ EofStart

\* Every rule of the scanner accounts for what it changes.
LEMMA RuleFeeds ==
  ASSUME Typed, Rising(scan.indent), ~scan.eof, scan.push = <<>>, ScanRule
  PROVE  Fed(scan, scan') /\ input' \in Seq(InputLines)
<1>1. scan \in ScanType /\ scan.buf \in Seq(InputLines) /\ input \in Seq(InputLines) /\ scan.bracket_depth \in Int
  BY DEF Typed, ScanType
<1>2. <<"LINE_END">> \in Seq(Neutral) /\ <<"INPUT_END">> \in Seq(Neutral) /\ <<"LINE_END", "INPUT_END">> \in Seq(Neutral)
  BY DEF Neutral
\* The line that is being scanned.
<1>3. scan.buf # <<>> => /\ line \in InputLines /\ line.ws \in Seq({"space", "tab"}) /\ line.body \in Seq(Lexemes)
  <2>1. scan.buf # <<>> => line \in InputLines
    BY <1>1 DEF line
  <2> QED BY <2>1 DEF InputLines
<1>12. /\ <<>> \in Seq(InputLines) /\ "START" \in {"START", "INNER"} /\ "INNER" \in {"START", "INNER"}
       /\ TRUE \in BOOLEAN
  OBVIOUS
<1>4. CASE parser_input_wrap
  <2> DEFINE sc == [scan EXCEPT !.buf = <<Head(input)>>]
  <2>1. input # <<>> /\ input' = Tail(input) /\ scan' = sc
    BY <1>4 DEF parser_input_wrap
  <2>2. <<Head(input)>> \in Seq(InputLines) /\ Tail(input) \in Seq(InputLines)
    BY <2>1, <1>1
  <2>3. sc \in ScanType /\ sc.push = <<>> /\ sc.indent = scan.indent /\ sc.bracket_depth = scan.bracket_depth
        /\ sc.eof = scan.eof
    BY <2>2, <1>1 DEF ScanType
  <2> HIDE DEF sc
  <2>4. Fed(scan, sc)
    BY <2>3, <1>1, FedNothing
  <2> QED BY <2>1, <2>2, <2>4
<1>5. CASE BlankLine
  <2> DEFINE sc == [scan EXCEPT !.buf = <<>>]
             c  == check_indent(sc, 0)
  <2>1. input' = input /\ scan' = IF interactive THEN Pushing(c, <<"LINE_END">>) ELSE sc
    BY <1>5 DEF BlankLine
  <2>2. sc \in ScanType /\ sc.push = <<>> /\ sc.indent = scan.indent /\ sc.bracket_depth = scan.bracket_depth
        /\ sc.eof = scan.eof
    <3>1. sc \in ScanType
      BY <1>1, <1>12, SetScan
    <3> QED BY <3>1, <1>1 DEF ScanType
  <2> HIDE DEF sc
  <2>3. c \in ScanType /\ Rising(c.indent) /\ Counted(scan, c, c.push) /\ c.eof = sc.eof
    <3>1. 0 \in Nat
      OBVIOUS
    <3> QED BY <3>1, <2>2, <1>1, FedCheck
  <2> HIDE DEF c
  <2>4. Fed(scan, Pushing(c, <<"LINE_END">>))
    BY <2>2, <2>3, <1>2, FedPushing
  <2>5. Fed(scan, sc)
    BY <2>2, <1>1, FedNothing
  <2> QED BY <2>1, <2>4, <2>5, <1>1
<1>6. CASE Indentation
  <2> DEFINE ws == IF line.body = <<>> THEN Front(line.ws) ELSE line.ws
             sc == [scan EXCEPT !.state = "INNER"]
             c  == check_indent(sc, Level(ws))
  <2>1. /\ input' = input /\ scan' = (IF scan.bracket_depth = 0 THEN c ELSE sc)
        /\ scan.buf # <<>> /\ (line.body # <<>> \/ line.ws # <<>>)
    BY <1>6 DEF Indentation
  <2>2. sc \in ScanType /\ sc.push = <<>> /\ sc.indent = scan.indent /\ sc.bracket_depth = scan.bracket_depth
        /\ sc.eof = scan.eof
    <3>1. sc \in ScanType
      BY <1>1, <1>12, SetScan
    <3> QED BY <3>1, <1>1 DEF ScanType
  <2> HIDE DEF sc
  <2>3. Len(ws) \in Nat
    <3>1. CASE line.body = <<>>
      <4>1. line.ws # <<>> /\ line.ws \in Seq({"space", "tab"})
        BY <3>1, <2>1, <1>3
      <4>2. ws = SubSeq(line.ws, 1, Len(line.ws) - 1)
        BY <3>1 DEF Front
      <4> QED BY <4>1, <4>2
    <3>2. CASE line.body # <<>>
      BY <3>2, <2>1, <1>3
    <3> QED BY <3>1, <3>2
  <2> HIDE DEF ws
  <2>4. Level(ws) \in Nat
    BY <2>3, LevelNat
  <2>5. c \in ScanType /\ Rising(c.indent) /\ Counted(scan, c, c.push) /\ c.eof = sc.eof
    BY <2>2, <2>4, <1>1, FedCheck
  <2> HIDE DEF c
  <2>6. Fed(scan, c)
    BY <2>2, <2>5 DEF Fed
  <2>7. Fed(scan, sc)
    BY <2>2, <1>1, FedNothing
  <2> QED BY <2>1, <2>6, <2>7, <1>1
<1>7. CASE Lexeme
  <2> DEFINE token  == Head(line.body)
             pushed == IF token = Comment THEN Token("INVALID_TOKEN") ELSE token
             rest   == [line EXCEPT !.body = Tail(@)]
             sc     == [scan EXCEPT !.buf = <<rest>>, !.bracket_depth = @ + BracketStep(token.name), !.push = <<pushed>>]
  <2>1. /\ scan.buf # <<>> /\ line.body # <<>> /\ token.name # "BACKSLASH" /\ input' = input
        /\ scan' = sc
    BY <1>7 DEF Lexeme
  <2>2. token \in Lexemes /\ rest \in InputLines
    <3>1. token \in Lexemes /\ Tail(line.body) \in Seq(Lexemes)
      BY <2>1, <1>3
    <3>2. rest \in InputLines
      BY <2>1, <3>1, <1>3 DEF InputLines
    <3> QED BY <3>1, <3>2
  <2> HIDE DEF token, rest
  <2>3. /\ pushed \in TokenType /\ pushed.name \notin {"INDENT"} \cup {"DEDENT"}
        /\ BracketStep(token.name) = Adds(Opening, Closing, pushed)
    BY <2>1, <2>2, LexemeToken
  <2>4. BracketStep(token.name) \in Int
    BY DEF BracketStep
  <2> HIDE DEF pushed
  <2>5. sc \in ScanType /\ sc.push = <<pushed>> /\ sc.indent = scan.indent /\ sc.eof = scan.eof
        /\ sc.bracket_depth = scan.bracket_depth + Adds(Opening, Closing, pushed)
    <3>1. <<rest>> \in Seq(InputLines) /\ <<pushed>> \in Seq(TokenType)
      BY <2>2, <2>3
    <3> DEFINE d == scan.bracket_depth + BracketStep(token.name)
    <3>2. d \in Int /\ sc = [scan EXCEPT !.buf = <<rest>>, !.bracket_depth = d, !.push = <<pushed>>]
      BY <2>4, <1>1
    <3>3. d = scan.bracket_depth + Adds(Opening, Closing, pushed)
      BY <2>3
    <3> HIDE DEF d, sc
    <3> DEFINE b == <<rest>>
               p == <<pushed>>
    <3>4. b \in Seq(InputLines) /\ p \in Seq(TokenType) /\ Taken(scan, sc, b, d, p) /\ d \in Int /\ scan \in ScanType
      BY <3>1, <3>2, <1>1 DEF Taken
    <3> HIDE DEF b, p
    <3>5. sc \in ScanType /\ sc.push = p /\ sc.indent = scan.indent /\ sc.eof = scan.eof /\ sc.bracket_depth = d
      BY <3>4, SetLexeme
    <3> QED BY <3>3, <3>5 DEF p
  <2> HIDE DEF sc
  <2>6. Fed(scan, sc)
    BY <2>3, <2>5, <1>1, FedLexeme
  <2> QED BY <2>1, <2>6, <1>1
<1>8. CASE Continuation
  <2> DEFINE sc == [scan EXCEPT !.buf = <<>>]
  <2>1. input' = input /\ scan' = sc
    BY <1>8 DEF Continuation
  <2>2. sc \in ScanType /\ sc.push = <<>> /\ sc.indent = scan.indent /\ sc.bracket_depth = scan.bracket_depth
        /\ sc.eof = scan.eof
    <3>1. sc \in ScanType
      BY <1>1, <1>12, SetScan
    <3> QED BY <3>1, <1>1 DEF ScanType
  <2> HIDE DEF sc
  <2> QED BY <2>1, <2>2, <1>1, FedNothing
<1>9. CASE Newline
  <2> DEFINE sc == [scan EXCEPT !.buf = <<>>]
             s2 == [sc EXCEPT !.state = "START"]
  <2>1. input' = input /\ scan' = IF scan.bracket_depth = 0 THEN Pushing(s2, <<"LINE_END">>) ELSE sc
    BY <1>9 DEF Newline
  <2>2. sc \in ScanType /\ sc.push = <<>> /\ sc.indent = scan.indent /\ sc.bracket_depth = scan.bracket_depth
        /\ sc.eof = scan.eof
    <3>1. sc \in ScanType
      BY <1>1, <1>12, SetScan
    <3> QED BY <3>1, <1>1 DEF ScanType
  <2>3. s2 \in ScanType /\ s2.push = <<>> /\ s2.indent = scan.indent /\ s2.bracket_depth = scan.bracket_depth
        /\ s2.eof = scan.eof
    <3>1. s2 \in ScanType
      BY <1>1, <1>12, SetScan
    <3> QED BY <3>1, <1>1 DEF ScanType
  <2> HIDE DEF sc, s2
  <2>4. Counted(scan, s2, s2.push)
    BY <2>3, <1>1, CountedSame
  <2>5. Fed(scan, Pushing(s2, <<"LINE_END">>))
    BY <2>3, <2>4, <1>2, FedPushing
  <2>6. Fed(scan, sc)
    BY <2>2, <1>1, FedNothing
  <2> QED BY <2>1, <2>5, <2>6, <1>1
<1>10. CASE EofInner
  <2> DEFINE sc == [scan EXCEPT !.buf = <<>>, !.state = "START", !.eof = TRUE]
  <2>1. input' = input /\ scan' = Pushing(sc, <<"LINE_END", "INPUT_END">>)
    BY <1>10 DEF EofInner
  <2>2. sc \in ScanType /\ sc.push = <<>> /\ sc.indent = scan.indent /\ sc.bracket_depth = scan.bracket_depth
    <3>1. sc \in ScanType
      BY <1>1, <1>12, SetScan
    <3> QED BY <3>1, <1>1 DEF ScanType
  <2> HIDE DEF sc
  <2>3. Counted(scan, sc, sc.push)
    BY <2>2, <1>1, CountedSame
  <2>4. <<"LINE_END", "INPUT_END">>[Len(<<"LINE_END", "INPUT_END">>)] = "INPUT_END"
    OBVIOUS
  <2>5. Fed(scan, Pushing(sc, <<"LINE_END", "INPUT_END">>))
    BY <2>2, <2>3, <2>4, <1>2, FedPushing
  <2> QED BY <2>1, <2>5, <1>1
<1>11. CASE EofStart
  <2> DEFINE sc == [scan EXCEPT !.buf = <<>>, !.eof = TRUE]
             c  == check_indent(sc, 0)
  <2>1. input' = input /\ scan' = Pushing(c, <<"INPUT_END">>)
    BY <1>11 DEF EofStart
  <2>2. sc \in ScanType /\ sc.push = <<>> /\ sc.indent = scan.indent /\ sc.bracket_depth = scan.bracket_depth
    <3>1. sc \in ScanType
      BY <1>1, <1>12, SetScan
    <3> QED BY <3>1, <1>1 DEF ScanType
  <2> HIDE DEF sc
  <2>3. c \in ScanType /\ Rising(c.indent) /\ Counted(scan, c, c.push) /\ c.eof = sc.eof
    <3>1. 0 \in Nat
      OBVIOUS
    <3> QED BY <3>1, <2>2, <1>1, FedCheck
  <2> HIDE DEF c
  <2>4. <<"INPUT_END">>[Len(<<"INPUT_END">>)] = "INPUT_END" /\ <<"INPUT_END">> # <<>>
    OBVIOUS
  <2>5. Fed(scan, Pushing(c, <<"INPUT_END">>))
    BY <2>3, <2>4, <1>2, FedPushing
  <2> QED BY <2>1, <2>5, <1>1
<1> QED BY <1>4, <1>5, <1>6, <1>7, <1>8, <1>9, <1>10, <1>11 DEF ScanRule

-----------------------------------------------------------------------------
(* One step.                                                               *)

\* Without tokens to be pushed nothing is on the way but the lookahead.
LEMMA PendsNothing ==
  ASSUME NEW opens, NEW closes, NEW d \in Int, Pends(opens, closes, <<>>, d)
  PROVE  d = 0
<1>1. Len(<<>>) = 0
  OBVIOUS
<1> QED BY <1>1 DEF Pends, OpensFirst, ClosesFirst

\* The first of the tokens to be pushed is taken.
LEMMA PendsTail ==
  ASSUME NEW opens, NEW closes, opens \cap closes = {}, NEW push \in Seq(TokenType), push # <<>>,
         NEW d \in Int, Pends(opens, closes, push, d)
  PROVE  /\ Adds(opens, closes, push[1]) \in Int
         /\ Pends(opens, closes, Tail(push), d - Adds(opens, closes, push[1]))
<1> DEFINE rest == Tail(push)
           a    == Adds(opens, closes, push[1])
<1>1. /\ rest \in Seq(TokenType) /\ Len(push) \in Nat \ {0} /\ Len(rest) = Len(push) - 1
      /\ \A k \in 1 .. Len(rest) : rest[k] = push[k + 1]
  OBVIOUS
<1> HIDE DEF rest
<1>2. a \in Int
  BY DEF Adds
<1>3. CASE d = 1 /\ OpensFirst(opens, closes, push)
  <2>1. push[1].name \in opens /\ \A k \in 2 .. Len(push) : push[k].name \notin opens \cup closes
    BY <1>3 DEF OpensFirst
  <2>2. a = 1 /\ d - a = 0
    BY <2>1, <1>3 DEF Adds
  <2>3. ASSUME NEW k \in DOMAIN rest PROVE rest[k].name \notin opens \cup closes
    <3>1. k \in 1 .. Len(rest) /\ k + 1 \in 2 .. Len(push)
      BY <1>1
    <3> QED BY <3>1, <2>1, <1>1
  <2>4. Pends(opens, closes, rest, 0)
    BY <2>3, <1>1, PendsNone
  <2> QED BY <2>2, <2>4, <1>2 DEF rest
<1>4. CASE d <= 0 /\ ClosesFirst(opens, closes, push, 0 - d)
  <2> DEFINE n == 0 - d
  <2>1. /\ n \in 0 .. Len(push) /\ \A k \in 1 .. n : push[k].name \in closes
        /\ \A k \in n + 1 .. Len(push) : push[k].name \notin opens \cup closes
    BY <1>4 DEF ClosesFirst
  <2>2. CASE n = 0
    <3>1. 1 \in n + 1 .. Len(push)
      BY <2>2, <1>1
    <3>2. a = 0 /\ d - a = 0
      BY <3>1, <2>1, <2>2 DEF Adds
    <3>3. ASSUME NEW k \in DOMAIN rest PROVE rest[k].name \notin opens \cup closes
      <4>1. k \in 1 .. Len(rest) /\ k + 1 \in n + 1 .. Len(push)
        BY <1>1, <2>2
      <4> QED BY <4>1, <2>1, <1>1
    <3>4. Pends(opens, closes, rest, 0)
      BY <3>3, <1>1, PendsNone
    <3> QED BY <3>2, <3>4, <1>2 DEF rest
  <2>3. CASE n # 0
    <3>1. 1 \in 1 .. n /\ n - 1 \in 0 .. Len(rest)
      BY <2>1, <2>3, <1>1
    <3>2. push[1].name \in closes /\ push[1].name \notin opens
      BY <3>1, <2>1
    <3>3. a = -1 /\ d - a <= 0 /\ 0 - (d - a) = n - 1
      BY <3>2, <2>1, <2>3 DEF Adds
    <3> HIDE DEF n, a
    <3>4. ASSUME NEW k \in 1 .. n - 1 PROVE rest[k].name \in closes
      <4>1. k \in 1 .. Len(rest) /\ k + 1 \in 1 .. n
        BY <3>1, <2>1, <1>1
      <4> QED BY <4>1, <2>1, <1>1
    <3>5. ASSUME NEW k \in (n - 1) + 1 .. Len(rest) PROVE rest[k].name \notin opens \cup closes
      <4>1. k \in 1 .. Len(rest) /\ k + 1 \in n + 1 .. Len(push)
        BY <3>1, <2>1, <1>1
      <4> QED BY <4>1, <2>1, <1>1
    <3>6. ClosesFirst(opens, closes, rest, n - 1)
      BY <3>1, <3>4, <3>5 DEF ClosesFirst
    <3> QED BY <3>3, <3>6, <1>2 DEF Pends, rest, a
  <2> QED BY <2>2, <2>3
<1> QED BY <1>3, <1>4 DEF Pends

\* A rule of the scanner: what it adds to the number is what it pushes.
LEMMA BalanceScan ==
  ASSUME NEW opens, NEW closes, NEW ss \in Seq(States), NEW ahead, NEW depth \in Int,
         InBalance(opens, closes, <<>>, ss, ahead, depth),
         NEW push, NEW d \in Int, Pends(opens, closes, push, d)
  PROVE  InBalance(opens, closes, push, ss, ahead, depth + d)
<1>1. PICK e \in Int : /\ Pends(opens, closes, <<>>, e)
                       /\ Net(opens, closes, ss) + Ahead(opens, closes, ahead) + e = depth
  BY DEF InBalance
<1>2. e = 0
  BY <1>1, PendsNothing
<1>3. Net(opens, closes, ss) \in Int /\ Ahead(opens, closes, ahead) \in Int
  BY OpenCounted DEF Net, Shut, Ahead, Adds
<1>4. Net(opens, closes, ss) + Ahead(opens, closes, ahead) + d = depth + d
  BY <1>1, <1>2, <1>3
<1> QED BY <1>4 DEF InBalance

\* A token goes from the scanner to the lookahead.
LEMMA BalancePush ==
  ASSUME NEW opens, NEW closes, Pair(opens, closes), NEW ss \in Seq(States), NEW tt \in Seq(States),
         Net(opens, closes, tt) = Net(opens, closes, ss), NEW depth \in Int,
         NEW push \in Seq(TokenType), push # <<>>, InBalance(opens, closes, push, ss, <<>>, depth)
  PROVE  InBalance(opens, closes, Tail(push), tt, <<Head(push)>>, depth)
<1>1. PICK d \in Int : Pends(opens, closes, push, d) /\ Net(opens, closes, ss) + Ahead(opens, closes, <<>>) + d = depth
  BY DEF InBalance
<1> DEFINE a == Adds(opens, closes, push[1])
<1>2. a \in Int /\ Pends(opens, closes, Tail(push), d - a)
  BY <1>1, PendsTail DEF Pair
<1>3. Ahead(opens, closes, <<>>) = 0 /\ Ahead(opens, closes, <<Head(push)>>) = a
  BY DEF Ahead
<1>4. Net(opens, closes, ss) \in Int
  BY OpenCounted DEF Net, Shut
<1>5. Net(opens, closes, tt) + Ahead(opens, closes, <<Head(push)>>) + (d - a) = depth /\ d - a \in Int
  BY <1>1, <1>2, <1>3, <1>4
<1> QED BY <1>2, <1>5 DEF InBalance

\* The lookahead goes to the stack.
LEMMA BalanceShift ==
  ASSUME NEW opens, NEW closes, Pair(opens, closes), NEW push, NEW depth \in Int,
         NEW ss \in Seq(States), ss # <<>>, ~IsConsistent(ss[Len(ss)]), NEW q \in States,
         NEW ahead \in Seq(TokenType), ahead # <<>>, Symbol(q) = yytranslate[ahead[1].name],
         InBalance(opens, closes, push, ss, ahead, depth)
  PROVE  InBalance(opens, closes, push, Append(ss, q), <<>>, depth)
<1>1. PICK d \in Int : Pends(opens, closes, push, d) /\ Net(opens, closes, ss) + Ahead(opens, closes, ahead) + d = depth
  BY DEF InBalance
<1> DEFINE token == ahead[1]
           a == Adds(opens, closes, token)
<1>2. token.name \in Terminals
  <2>1. ahead[1] \in TokenType
    OBVIOUS
  <2> QED BY <2>1 DEF TokenType
<1> HIDE DEF token
<1>3. Net(opens, closes, Append(ss, q)) = Net(opens, closes, ss) + a
  BY <1>2, NetShift DEF token
<1>4. Ahead(opens, closes, ahead) = a /\ Ahead(opens, closes, <<>>) = 0 /\ a \in Int
  BY DEF Ahead, Adds, token
<1>5. Net(opens, closes, ss) \in Int
  BY OpenCounted DEF Net, Shut
<1>6. Net(opens, closes, Append(ss, q)) + Ahead(opens, closes, <<>>) + d = depth
  BY <1>1, <1>3, <1>4, <1>5
<1> QED BY <1>1, <1>6 DEF InBalance

\* A reduction changes nothing of what is open.
LEMMA BalanceReduce ==
  ASSUME NEW opens, NEW closes, Pair(opens, closes), NEW push, NEW depth, NEW ahead,
         NEW ss, NEW vs, Path(ss, vs), ss # <<>>, ss[Len(ss)] \in Popping(0),
         NEW q \in States, Symbol(q) >= YYNTOKENS, InBalance(opens, closes, push, ss, ahead, depth)
  PROVE  InBalance(opens, closes, push, Append(SubSeq(ss, 1, Len(ss) - LengthOf(ss[Len(ss)])), q), ahead, depth)
<1> DEFINE n  == Len(ss) - LengthOf(ss[Len(ss)])
           tt == SubSeq(ss, 1, n)
<1>1. LengthOf(ss[Len(ss)]) \in 0 .. Len(ss) - 1
  BY PathBeneath
<1>2. ss \in Seq(States)
  BY DEF Path
<1>3. n \in 1 .. Len(ss)
  BY <1>1, <1>2
<1>4. tt \in Seq(States)
  BY <1>2, <1>3
<1>5. Cardinality(OpenIn(opens, tt)) = Net(opens, closes, ss)
  BY NetPop
<1> HIDE DEF n, tt
<1>6. Net(opens, closes, Append(tt, q)) = Net(opens, closes, ss)
  BY <1>4, <1>5, NetGoto
<1>7. InBalance(opens, closes, push, Append(tt, q), ahead, depth)
  BY <1>6 DEF InBalance
<1> QED BY <1>7 DEF tt, n

\* The stacks of the parser are replaced, or grow, or the parser gives up.
LEMMA NewStacks ==
  ASSUME Stacked, phase = "parse", yyps.ss # <<>>, NEW ss, NEW vs, NEW ahead, Path(ss, vs), ss # <<>>,
         Len(ss) <= Len(yyps.ss) + 1, yynewstate(ss, vs, ahead)
  PROVE  \/ /\ phase' = "parse" /\ Stacked' /\ yyps'.ss = ss /\ yyps'.vs = vs
            /\ yychar' = ahead /\ result' = result
         \/ phase' = "parsed" /\ yyps' = NewParser /\ yychar' = <<>> /\ result' = RESULT_OOM
<1>1. /\ IsParser(yyps) /\ yyps.new = FALSE /\ yyps.size \in YYINITDEPTH .. YYMAXDEPTH /\ Len(yyps.ss) < yyps.size
      /\ yyps.ss \in Seq(States)
  BY DEF Stacked, Path
<1>2. YYINITDEPTH \in Nat /\ YYINITDEPTH > 1 /\ YYMAXDEPTH \in Nat
  BY FrontendAssumption
<1>3. ss \in Seq(States)
  BY DEF Path
<1>4. CASE Len(ss) < yyps.size
  <2> DEFINE q == [yyps EXCEPT !.ss = ss, !.vs = vs]
  <2>1. yyps' = q /\ yychar' = ahead /\ phase' = phase /\ result' = result
    BY <1>4 DEF yynewstate
  <2>2. IsParser(q) /\ q.ss = ss /\ q.vs = vs /\ q.new = FALSE /\ q.size = yyps.size
    <3>1. q \in ParserType(ss, vs) /\ q.ss = ss /\ q.vs = vs /\ q.new = FALSE /\ q.size = yyps.size
      BY <1>1 DEF IsParser, ParserType
    <3> HIDE DEF q
    <3> QED BY <3>1 DEF IsParser
  <2> HIDE DEF q
  <2>3. Stacked'
    BY <2>1, <2>2, <1>1, <1>4 DEF Stacked
  <2> QED BY <2>1, <2>2, <2>3
<1>5. CASE ~(Len(ss) < yyps.size)
  <2>1. PICK fails \in {FALSE, TRUE} :
          IF fails \/ YYMAXDEPTH <= yyps.size THEN yyreturn(RESULT_OOM)
          ELSE /\ yyps' = [yyps EXCEPT !.ss = ss, !.vs = vs, !.heap = TRUE, !.size = Grown(@)]
               /\ yychar' = ahead /\ UNCHANGED <<phase, result>>
    BY <1>5 DEF yynewstate
  <2>2. CASE fails \/ YYMAXDEPTH <= yyps.size
    BY <2>1, <2>2 DEF yyreturn
  <2>3. CASE ~(fails \/ YYMAXDEPTH <= yyps.size)
    <3> DEFINE size == Grown(yyps.size)
               q == [yyps EXCEPT !.ss = ss, !.vs = vs, !.heap = TRUE, !.size = size]
    <3>1. yyps' = q /\ yychar' = ahead /\ phase' = phase /\ result' = result
      BY <2>1, <2>3
    <3>2. size \in YYINITDEPTH .. YYMAXDEPTH /\ Len(ss) < size
      BY <2>3, <1>1, <1>2, <1>3 DEF Grown
    <3> HIDE DEF size
    <3>3. IsParser(q) /\ q.ss = ss /\ q.vs = vs /\ q.new = FALSE /\ q.size = size
      <4>1. size \in Int
        BY <3>2, <1>2
      <4>2. q \in ParserType(ss, vs) /\ q.ss = ss /\ q.vs = vs /\ q.new = FALSE /\ q.size = size
        BY <4>1, <1>1 DEF IsParser, ParserType
      <4> HIDE DEF q
      <4> QED BY <4>2 DEF IsParser
    <3> HIDE DEF q
    <3>4. Stacked'
      BY <3>1, <3>2, <3>3 DEF Stacked
    <3> QED BY <3>1, <3>3, <3>4
  <2> QED BY <2>2, <2>3
<1> QED BY <1>4, <1>5

\* No stack at all.
LEMMA NewStacked ==
  /\ IsParser(NewParser) /\ Path(NewParser.ss, NewParser.vs) /\ NewParser.new = (NewParser.ss = <<>>)
  /\ NewParser.size \in YYINITDEPTH .. YYMAXDEPTH /\ Len(NewParser.ss) < NewParser.size
<1>1. IsParser(NewParser) /\ NewParser.ss = <<>> /\ NewParser.vs = <<>> /\ NewParser.new = TRUE
      /\ NewParser.size = YYINITDEPTH
  BY FrontendAssumption DEF NewParser, IsParser, ParserType
<1>2. IsSeq(<<>>) /\ Len(<<>>) = 0 /\ <<>> \in Seq(States)
  BY DEF IsSeq
<1>3. Path(<<>>, <<>>)
  BY <1>2 DEF Path
<1>4. YYINITDEPTH \in YYINITDEPTH .. YYMAXDEPTH /\ 0 < YYINITDEPTH
  BY FrontendAssumption
<1> HIDE DEF NewParser
<1> QED BY <1>1, <1>2, <1>3, <1>4

\* Outside a parse nothing is on the stacks, and the scanner rests.
LEMMA AgreeApart ==
  ASSUME Agreement, phase' \notin {"scan", "parse"}, scan' = scan, input' = input,
         \/ yyps' = yyps \/ yyps' = NewParser, \/ yychar' = yychar \/ yychar' = <<>>,
         result' \in RESULT_SUCCESS .. RESULT_EXIT, code' \in 0 .. 2
  PROVE  Agreement'
<1>1. Stacked'
  <2>1. CASE yyps' = yyps
    BY <2>1 DEF Agreement, Stacked
  <2>2. CASE yyps' = NewParser
    BY <2>2, NewStacked DEF Stacked
  <2> QED BY <2>1, <2>2
<1>2. Typed'
  <2>1. <<>> \in Seq(TokenType) /\ Len(<<>>) <= 1
    OBVIOUS
  <2> QED BY <2>1 DEF Agreement, Typed
<1>3. Flow' /\ Rising(scan.indent)'
  BY DEF Agreement, Flow
<1> QED BY <1>1, <1>2, <1>3 DEF Agreement

\* A rule of the scanner.
LEMMA AgreeScan ==
  ASSUME Agreement, ScanRule
  PROVE  Agreement'
<1>1. /\ phase = "scan" /\ scan.push = <<>>
      /\ phase' = phase /\ yyps' = yyps /\ yychar' = yychar /\ result' = result /\ code' = code
  BY DEF ScanRule, parser_input_wrap, BlankLine, Indentation, Lexeme, Continuation, Newline, EofInner,
         EofStart, Scanning, ScanUnchanged, parseVars, mainVars
<1>2. /\ Typed /\ Rising(scan.indent) /\ Stacked /\ Flow /\ Ending
      /\ InBalance(Opening, Closing, <<>>, yyps.ss, yychar, scan.bracket_depth)
      /\ InBalance({"INDENT"}, {"DEDENT"}, <<>>, yyps.ss, yychar, Len(scan.indent) - 1)
  BY <1>1 DEF Agreement, Balanced
<1>3. ~scan.eof
  BY <1>1, <1>2 DEF Ending
<1>4. Fed(scan, scan') /\ input' \in Seq(InputLines)
  BY <1>1, <1>2, <1>3, RuleFeeds
<1>5. yyps.ss \in Seq(States) /\ scan.bracket_depth \in Int /\ Len(scan.indent) \in Int
  BY <1>2 DEF Stacked, Path, Typed, ScanType
<1>6. InBalance(Opening, Closing, scan'.push, yyps.ss, yychar, scan'.bracket_depth)
  <2>1. PICK d \in Int : Pends(Opening, Closing, scan'.push, d) /\ scan'.bracket_depth = scan.bracket_depth + d
    BY <1>4 DEF Fed, Counted
  <2> QED BY <2>1, <1>2, <1>5, BalanceScan
<1>7. InBalance({"INDENT"}, {"DEDENT"}, scan'.push, yyps.ss, yychar, Len(scan'.indent) - 1)
  <2>1. PICK d \in Int : Pends({"INDENT"}, {"DEDENT"}, scan'.push, d) /\ Len(scan'.indent) = Len(scan.indent) + d
    BY <1>4 DEF Fed, Counted
  <2>2. Len(scan'.indent) - 1 = (Len(scan.indent) - 1) + d /\ Len(scan.indent) - 1 \in Int
    BY <2>1, <1>5
  <2>3. InBalance({"INDENT"}, {"DEDENT"}, scan'.push, yyps.ss, yychar, (Len(scan.indent) - 1) + d)
    BY <2>1, <2>2, <1>2, <1>5, BalanceScan
  <2> QED BY <2>2, <2>3
<1>8. Typed' /\ Rising(scan.indent)' /\ Stacked'
  BY <1>1, <1>2, <1>4 DEF Typed, Stacked, Fed
<1>9. Flow'
  BY <1>1, <1>2 DEF Flow, yystate
<1>10. Ending'
  BY <1>4 DEF Ending, Fed
<1> QED BY <1>1, <1>6, <1>7, <1>8, <1>9, <1>10 DEF Agreement, Balanced

\* The first state of the stack is nobody's.
LEMMA FirstState ==
  ASSUME NEW opens, NEW closes, Pair(opens, closes), "$end" \notin opens \cup closes
  PROVE  /\ <<0>> \in Seq(States) /\ <<>> \in Seq(States) /\ Path(<<0>>, <<NULL>>)
         /\ Net(opens, closes, <<0>>) = Net(opens, closes, <<>>)
<1>1. 0 \in States /\ Symbol(0) = yytranslate["$end"] /\ "$end" \in Terminals
  BY TablesAssumption DEF TokensNumbered
<1>2. Symbol(0) \notin SymbolsOf(opens) /\ Symbol(0) \notin SymbolsOf(closes)
  BY <1>1, SymbolTells DEF Pair
<1>3. OpenIn(opens, <<0>>) = {} /\ OpenIn(opens, <<>>) = {}
  BY <1>2 DEF OpenIn
<1>4. Shut(closes, <<0>>) = 0 /\ Shut(closes, <<>>) = 0
  BY <1>2 DEF Shut
<1>5. IsSeq(<<NULL>>)
  <2> DEFINE n == NULL
  <2> HIDE DEF n
  <2>1. IsSeq(<<n>>)
    BY DEF IsSeq
  <2> QED BY <2>1 DEF n
<1>6. Path(<<0>>, <<NULL>>)
  <2> DEFINE n == NULL
  <2> HIDE DEF n
  <2>1. <<0>> \in Seq(States) /\ Len(<<0>>) = 1 /\ Len(<<n>>) = 1 /\ <<0>>[1] = 0
    BY <1>1
  <2>2. Path(<<0>>, <<n>>)
    BY <2>1, <1>5 DEF Path, n
  <2> QED BY <2>2 DEF n
<1>7. Net(opens, closes, <<0>>) = Net(opens, closes, <<>>)
  BY <1>3, <1>4 DEF Net
<1>8. <<0>> \in Seq(States) /\ <<>> \in Seq(States)
  BY <1>1
<1> QED BY <1>6, <1>7, <1>8

\* A token is pushed.
LEMMA AgreePush ==
  ASSUME Agreement, PushToken
  PROVE  Agreement'
<1> DEFINE push == scan.push
           token == Head(push)
<1>1. /\ phase = "scan" /\ push # <<>> /\ phase' = "parse" /\ yychar' = <<token>>
      /\ scan' = [scan EXCEPT !.push = Tail(push)]
      /\ yyps' = IF yyps.new THEN [yyps EXCEPT !.new = FALSE, !.ss = <<0>>, !.vs = <<NULL>>] ELSE yyps
      /\ input' = input /\ result' = result /\ code' = code
  BY DEF PushToken, mainVars
<1>2. /\ Typed /\ Rising(scan.indent) /\ Stacked /\ Flow /\ Ending /\ yychar = <<>>
      /\ InBalance(Opening, Closing, push, yyps.ss, <<>>, scan.bracket_depth)
      /\ InBalance({"INDENT"}, {"DEDENT"}, push, yyps.ss, <<>>, Len(scan.indent) - 1)
  BY <1>1 DEF Agreement, Balanced, Flow
<1>3. scan \in ScanType /\ push \in Seq(TokenType)
  BY <1>2 DEF Typed, ScanType
<1>4. /\ scan' \in ScanType /\ scan'.push = Tail(push) /\ scan'.indent = scan.indent
      /\ scan'.bracket_depth = scan.bracket_depth /\ scan'.eof = scan.eof
  <2> DEFINE rest == Tail(push)
             sc   == [scan EXCEPT !.push = rest]
  <2>1. rest \in Seq(TokenType)
    BY <1>1, <1>3
  <2> HIDE DEF rest
  <2>2. sc \in ScanType
    BY <2>1, <1>3 DEF ScanType
  <2>3. sc.push = rest /\ sc.indent = scan.indent /\ sc.bracket_depth = scan.bracket_depth /\ sc.eof = scan.eof
    BY <2>2, <1>3 DEF ScanType
  <2> HIDE DEF sc
  <2> QED BY <1>1, <2>2, <2>3 DEF sc, rest
<1>5. scan.bracket_depth \in Int /\ Len(scan.indent) - 1 \in Int
  BY <1>3 DEF ScanType
<1>6. "$end" \notin Opening \cup Closing /\ "$end" \notin {"INDENT"} \cup {"DEDENT"}
  BY DEF Opening, Closing
\* The stack starts with state 0.
<1>7. /\ Stacked' /\ yyps'.ss # <<>> /\ yyps'.ss \in Seq(States)
      /\ \A opens, closes : Pair(opens, closes) /\ "$end" \notin opens \cup closes =>
           Net(opens, closes, yyps'.ss) = Net(opens, closes, yyps.ss)
  <2>1. CASE yyps.new
    <3> DEFINE n == <<NULL>>
               q == [yyps EXCEPT !.new = FALSE, !.ss = <<0>>, !.vs = n]
    <3>1. yyps.ss = <<>> /\ IsParser(yyps) /\ yyps.size \in YYINITDEPTH .. YYMAXDEPTH
      BY <2>1, <1>2 DEF Stacked
    <3>2. Path(<<0>>, n) /\ <<0>> \in Seq(States)
      BY <1>6, Pairs, FirstState
    <3> HIDE DEF n
    <3>3. yyps' = q
      BY <1>1, <2>1 DEF n
    <3>4. q \in ParserType(<<0>>, n) /\ q.ss = <<0>> /\ q.vs = n /\ q.new = FALSE /\ q.size = yyps.size
      BY <3>1 DEF IsParser, ParserType
    <3> HIDE DEF q
    <3>5. IsParser(q) /\ Len(<<0>>) < q.size /\ <<0>> # <<>>
      BY <3>1, <3>4, FrontendAssumption DEF IsParser
    <3>6. Stacked'
      BY <3>1, <3>2, <3>3, <3>4, <3>5 DEF Stacked
    <3>7. ASSUME NEW opens, NEW closes, Pair(opens, closes), "$end" \notin opens \cup closes
          PROVE  Net(opens, closes, yyps'.ss) = Net(opens, closes, yyps.ss)
      BY <3>1, <3>3, <3>4, <3>7, FirstState
    <3> QED BY <3>2, <3>3, <3>4, <3>6, <3>7
  <2>2. CASE ~yyps.new
    <3>1. yyps' = yyps /\ yyps.ss # <<>>
      BY <1>1, <1>2, <2>2 DEF Stacked
    <3> QED BY <3>1, <1>2 DEF Stacked, Path
  <2> QED BY <2>1, <2>2
<1>8. yyps.ss \in Seq(States)
  BY <1>2 DEF Stacked, Path
<1>9. InBalance(Opening, Closing, scan'.push, yyps'.ss, yychar', scan'.bracket_depth)
  <2>1. Net(Opening, Closing, yyps'.ss) = Net(Opening, Closing, yyps.ss)
    BY <1>6, <1>7, Pairs
  <2>2. InBalance(Opening, Closing, Tail(push), yyps'.ss, <<token>>, scan.bracket_depth)
    BY <2>1, <1>1, <1>2, <1>3, <1>5, <1>7, <1>8, Pairs, BalancePush
  <2> QED BY <2>2, <1>1, <1>4
<1>10. InBalance({"INDENT"}, {"DEDENT"}, scan'.push, yyps'.ss, yychar', Len(scan'.indent) - 1)
  <2>1. Net({"INDENT"}, {"DEDENT"}, yyps'.ss) = Net({"INDENT"}, {"DEDENT"}, yyps.ss)
    BY <1>6, <1>7, Pairs
  <2>2. InBalance({"INDENT"}, {"DEDENT"}, Tail(push), yyps'.ss, <<token>>, Len(scan.indent) - 1)
    BY <2>1, <1>1, <1>2, <1>3, <1>5, <1>7, <1>8, Pairs, BalancePush
  <2> QED BY <2>2, <1>1, <1>4
<1>11. token \in TokenType
  BY <1>1, <1>3
<1>12. Typed'
  <2>1. <<token>> \in Seq(TokenType) /\ Len(<<token>>) <= 1
    BY <1>11
  <2> QED BY <2>1, <1>1, <1>2, <1>4 DEF Typed
<1>13. Flow' /\ Rising(scan.indent)'
  BY <1>1, <1>2, <1>4, <1>7 DEF Flow
<1>14. Ending'
  <2> SUFFICES ASSUME scan.eof
               PROVE  IF Tail(push) # <<>> THEN Tail(push)[Len(Tail(push))].name = "INPUT_END"
                      ELSE token.name = "INPUT_END"
    BY <1>1, <1>4 DEF Ending
  <2>1. push[Len(push)].name = "INPUT_END"
    BY <1>1, <1>2 DEF Ending
  <2>2. Tail(push) # <<>> => Tail(push)[Len(Tail(push))] = push[Len(push)]
    BY <1>1, <1>3
  <2>3. Tail(push) = <<>> => token = push[Len(push)]
    <3>1. Len(push) \in Nat /\ Len(push) # 0 /\ Len(Tail(push)) = Len(push) - 1 /\ token = push[1]
      BY <1>1, <1>3
    <3>2. Tail(push) = <<>> => Len(Tail(push)) = 0
      <4>1. Len(<<>>) = 0
        OBVIOUS
      <4> QED BY <4>1, Zenon
    <3>3. Tail(push) = <<>> => Len(push) = 1
      BY <3>1, <3>2
    <3> QED BY <3>1, <3>3
  <2> QED BY <2>1, <2>2, <2>3
<1> QED BY <1>1, <1>7, <1>9, <1>10, <1>12, <1>13, <1>14 DEF Agreement, Balanced

\* The parser between two steps of it.
LEMMA ParserFacts ==
  ASSUME Agreement, phase = "parse"
  PROVE  /\ Typed /\ Rising(scan.indent) /\ Stacked /\ Ending /\ Path(yyps.ss, yyps.vs) /\ yyps.ss # <<>>
         /\ yyps.ss \in Seq(States) /\ Len(yyps.ss) \in Nat \ {0} /\ Len(yyps.vs) = Len(yyps.ss)
         /\ yystate = yyps.ss[Len(yyps.ss)] /\ yystate \in States
         /\ InBalance(Opening, Closing, scan.push, yyps.ss, yychar, scan.bracket_depth)
         /\ InBalance({"INDENT"}, {"DEDENT"}, scan.push, yyps.ss, yychar, Len(scan.indent) - 1)
         /\ scan.bracket_depth \in Int /\ Len(scan.indent) - 1 \in Int /\ yychar \in Seq(TokenType)
<1>1. /\ Typed /\ Rising(scan.indent) /\ Stacked /\ Ending /\ yyps.ss # <<>> /\ Path(yyps.ss, yyps.vs)
      /\ InBalance(Opening, Closing, scan.push, yyps.ss, yychar, scan.bracket_depth)
      /\ InBalance({"INDENT"}, {"DEDENT"}, scan.push, yyps.ss, yychar, Len(scan.indent) - 1)
  BY DEF Agreement, Flow, Stacked, Balanced
<1>2. yyps.ss \in Seq(States) /\ Len(yyps.vs) = Len(yyps.ss)
  BY <1>1 DEF Path
<1>3. Len(yyps.ss) \in Nat \ {0} /\ yyps.ss[Len(yyps.ss)] \in States
  BY <1>1, <1>2
<1>4. yystate = yyps.ss[Len(yyps.ss)]
  BY DEF yystate, Last
<1>5. scan.bracket_depth \in Int /\ Len(scan.indent) - 1 \in Int /\ yychar \in Seq(TokenType)
  BY <1>1 DEF Typed, ScanType
<1> QED BY <1>1, <1>2, <1>3, <1>4, <1>5

\* A state INPUT_END leads to ends the parse, without another token.
LEMMA LastState ==
  ASSUME NEW s \in States, Symbol(s) = yytranslate["INPUT_END"]
  PROVE  IsConsistent(s) /\ RuleOf(s) \in Returns
<1>1. Prompt
  BY TablesAssumption
<1>2. Symbol(s) \in SymbolsOf({"STRING", "IDENT", "DEDENT", "INPUT_END"} \cup Closing)
  BY DEF SymbolsOf
<1> QED BY <1>1, <1>2 DEF Prompt

\* The parser waits for a token.
LEMMA AgreeMore ==
  ASSUME Agreement, MoreTokens
  PROVE  Agreement'
<1>1. /\ phase = "parse" /\ ~IsConsistent(yystate) /\ yychar = <<>> /\ phase' = "scan"
      /\ UNCHANGED <<yyps, yychar, result, input, scan, code>>
  BY DEF MoreTokens, Parsing, ParseUnchanged, mainVars
<1>2. /\ Typed /\ Rising(scan.indent) /\ Stacked /\ Ending /\ yyps.ss # <<>> /\ yystate \in States
      /\ InBalance(Opening, Closing, scan.push, yyps.ss, yychar, scan.bracket_depth)
      /\ InBalance({"INDENT"}, {"DEDENT"}, scan.push, yyps.ss, yychar, Len(scan.indent) - 1)
  BY <1>1, ParserFacts
<1>3. Ending'
  <2>1. scan.eof => scan.push # <<>>
    BY <1>1, <1>2, LastState DEF Ending
  <2> QED BY <2>1, <1>1, <1>2 DEF Ending
<1>4. Typed' /\ Rising(scan.indent)' /\ Stacked'
  BY <1>1, <1>2 DEF Typed, Stacked
<1>5. Flow'
  BY <1>1, <1>2 DEF Flow, yystate
<1> QED BY <1>1, <1>2, <1>3, <1>4, <1>5 DEF Agreement, Balanced

\* The parser goes on after a shift or a reduction.
LEMMA AgreeGoesOn ==
  ASSUME Agreement, phase = "parse", phase' = "parse", UNCHANGED <<input, scan, code, result>>,
         Stacked', yyps'.ss # <<>>, yychar' \in Seq(TokenType), Len(yychar') <= 1, Ending',
         InBalance(Opening, Closing, scan.push, yyps'.ss, yychar', scan.bracket_depth),
         InBalance({"INDENT"}, {"DEDENT"}, scan.push, yyps'.ss, yychar', Len(scan.indent) - 1)
  PROVE  Agreement'
<1>1. Typed /\ Rising(scan.indent)
  BY DEF Agreement
<1>2. Typed' /\ Rising(scan.indent)'
  BY <1>1 DEF Typed
<1>3. Flow'
  BY DEF Flow
<1> QED BY <1>2, <1>3 DEF Agreement, Balanced

\* The lookahead is shifted.
LEMMA AgreeShift ==
  ASSUME Agreement, Shift
  PROVE  Agreement'
<1> DEFINE ss == yyps.ss
           vs == yyps.vs
           q  == ShiftTo
           token == Head(yychar)
<1>1. /\ phase = "parse" /\ q > 0 /\ UNCHANGED <<input, scan, code>>
      /\ yynewstate(Append(ss, q), Append(vs, token), <<>>)
  BY DEF Shift, Parsing, ParseUnchanged, mainVars
<1>2. /\ Typed /\ Stacked /\ Ending /\ Path(ss, vs) /\ ss # <<>>
      /\ ss \in Seq(States) /\ Len(ss) \in Nat \ {0} /\ yystate = ss[Len(ss)] /\ yystate \in States
      /\ InBalance(Opening, Closing, scan.push, ss, yychar, scan.bracket_depth)
      /\ InBalance({"INDENT"}, {"DEDENT"}, scan.push, ss, yychar, Len(scan.indent) - 1)
      /\ scan.bracket_depth \in Int /\ Len(scan.indent) - 1 \in Int /\ yychar \in Seq(TokenType)
  BY <1>1, ParserFacts
<1>3. ~IsConsistent(yystate) /\ yychar # <<>> /\ q = Shifted(yystate, yytranslate[token.name])
  BY <1>1 DEF ShiftTo
<1>4. token \in TokenType /\ token = yychar[1]
  BY <1>2, <1>3
<1>5. token.name \in Terminals /\ token.length \in Nat
  BY <1>4 DEF TokenType
<1> HIDE DEF q, token
<1>6. q \in States /\ <<yystate, q>> \in Neighbours /\ Symbol(q) = yytranslate[token.name]
  <2>1. ShiftsFit
    BY TablesAssumption
  <2> QED BY <2>1, <1>1, <1>2, <1>3, <1>5 DEF ShiftsFit
<1>7. /\ Path(Append(ss, q), Append(vs, token)) /\ Append(ss, q) # <<>> /\ Len(Append(ss, q)) = Len(ss) + 1
      /\ Append(ss, q)[Len(ss) + 1] = q
  BY <1>2, <1>5, <1>6, PathPush
<1>8. InBalance(Opening, Closing, scan.push, Append(ss, q), <<>>, scan.bracket_depth)
  BY <1>2, <1>3, <1>4, <1>6, Pairs, BalanceShift
<1>9. InBalance({"INDENT"}, {"DEDENT"}, scan.push, Append(ss, q), <<>>, Len(scan.indent) - 1)
  BY <1>2, <1>3, <1>4, <1>6, Pairs, BalanceShift
<1> DEFINE tt == Append(ss, q)
           us == Append(vs, token)
<1> HIDE DEF tt, us
<1>10. /\ Path(tt, us) /\ tt # <<>> /\ Len(tt) = Len(ss) + 1 /\ tt[Len(ss) + 1] = q /\ yynewstate(tt, us, <<>>)
       /\ InBalance(Opening, Closing, scan.push, tt, <<>>, scan.bracket_depth)
       /\ InBalance({"INDENT"}, {"DEDENT"}, scan.push, tt, <<>>, Len(scan.indent) - 1)
  BY <1>1, <1>7, <1>8, <1>9 DEF tt, us
<1>11. Len(tt) <= Len(ss) + 1
  BY <1>2, <1>10
<1>12. \/ /\ phase' = "parse" /\ Stacked' /\ yyps'.ss = tt /\ yyps'.vs = us
          /\ yychar' = <<>> /\ result' = result
       \/ phase' = "parsed" /\ yyps' = NewParser /\ yychar' = <<>> /\ result' = RESULT_OOM
  BY <1>1, <1>2, <1>10, <1>11, NewStacks
<1>13. CASE phase' = "parse" /\ Stacked' /\ yyps'.ss = tt /\ yychar' = <<>> /\ result' = result
  <2>1. (scan.eof /\ scan.push = <<>>) => Symbol(q) = yytranslate["INPUT_END"]
    BY <1>2, <1>3, <1>4, <1>6 DEF Ending
  <2>2. yystate' = q
    BY <1>10, <1>13 DEF yystate, Last
  <2>3. Ending'
    BY <2>1, <2>2, <1>1, <1>2, <1>13 DEF Ending
  <2>4. <<>> \in Seq(TokenType) /\ Len(<<>>) <= 1
    OBVIOUS
  <2> QED BY <2>3, <2>4, <1>1, <1>10, <1>13, AgreeGoesOn
<1>14. CASE phase' = "parsed" /\ yyps' = NewParser /\ yychar' = <<>> /\ result' = RESULT_OOM
  BY <1>1, <1>2, <1>14, AgreeApart DEF Typed, RESULT_OOM, RESULT_SUCCESS, RESULT_EXIT
<1> QED BY <1>12, <1>13, <1>14

\* The states of a rule's right side are replaced by that of its left side.
LEMMA AgreeReduce ==
  ASSUME Agreement, Reduce
  PROVE  Agreement'
<1> DEFINE ss   == yyps.ss
           vs   == yyps.vs
           s    == yystate
           left == Len(ss) - LengthOf(s)
           lo   == SubSeq(ss, 1, left)
           lv   == SubSeq(vs, 1, left)
           q    == Goto(lo[Len(lo)], RuleOf(s))
           v    == yyval(rule, rhs)
<1>1. /\ phase = "parse" /\ RuleOf(s) \notin Returns /\ UNCHANGED <<input, scan, code>>
      /\ IsConsistent(s) \/ yychar # <<>>
      /\ yynewstate(Append(lo, q), Append(lv, v), yychar)
  BY DEF Reduce, Reducing, Parsing, ParseUnchanged, mainVars, rule, RuleOf, LengthOf, Returns, Last
<1> HIDE DEF v
<1>2. /\ Typed /\ Stacked /\ Ending /\ Path(ss, vs) /\ ss # <<>>
      /\ ss \in Seq(States) /\ Len(ss) \in Nat \ {0} /\ s = ss[Len(ss)] /\ s \in States
      /\ InBalance(Opening, Closing, scan.push, ss, yychar, scan.bracket_depth)
      /\ InBalance({"INDENT"}, {"DEDENT"}, scan.push, ss, yychar, Len(scan.indent) - 1)
  BY <1>1, ParserFacts
<1>3. s \in Popping(0)
  <2>1. LengthOf(s) \in Nat
    BY <1>2, TablesAssumption
  <2> QED BY <2>1, <1>1, <1>2 DEF Popping
<1> HIDE DEF s
<1>4. LengthOf(s) \in 0 .. Len(ss) - 1 /\ <<LengthOf(s), s, ss[Len(ss) - LengthOf(s)]>> \in Beneath
  <2>1. LengthOf(s) \in 0 .. Len(ss) - 1 /\ \A k \in 0 .. LengthOf(s) : <<k, s, ss[Len(ss) - k]>> \in Beneath
    BY <1>2, <1>3, PathBeneath
  <2>2. LengthOf(s) \in 0 .. LengthOf(s)
    BY <2>1
  <2> QED BY <2>1, <2>2
<1>5. left \in 1 .. Len(ss)
  BY <1>2, <1>4
<1>6. Path(lo, lv) /\ lo # <<>> /\ Len(lo) = left /\ lo[Len(lo)] = ss[left]
  <2>1. Path(lo, lv) /\ lo # <<>> /\ Len(lo) = left /\ \A k \in 1 .. left : lo[k] = ss[k]
    BY <1>2, <1>5, PathPop
  <2>2. left \in 1 .. left
    BY <1>2, <1>5
  <2> HIDE DEF lo
  <2> QED BY <2>1, <2>2
<1>7. q \in States /\ <<ss[left], q>> \in Neighbours /\ Symbol(q) \in Nat /\ Symbol(q) >= YYNTOKENS
  <2>1. ReducesFit
    BY TablesAssumption
  <2> DEFINE b == <<LengthOf(s), s, ss[left]>>
  <2>2. b \in Beneath /\ b[1] = LengthOf(s) /\ b[2] = s /\ b[3] = ss[left]
    BY <1>4
  <2> HIDE DEF b, left
  <2>3. LET r == Goto(ss[left], RuleOf(s))
        IN  /\ r \in States \ {0} /\ <<ss[left], r>> \in Neighbours
            /\ Symbol(r) \in Nat /\ Symbol(r) >= YYNTOKENS
    BY <2>1, <2>2 DEF ReducesFit
  <2> HIDE DEF lo
  <2> QED BY <2>3, <1>6
<1> DEFINE tt == Append(lo, q)
           us == Append(lv, v)
<1>8. /\ InBalance(Opening, Closing, scan.push, tt, yychar, scan.bracket_depth)
      /\ InBalance({"INDENT"}, {"DEDENT"}, scan.push, tt, yychar, Len(scan.indent) - 1)
  <2> HIDE DEF q
  <2>1. InBalance(Opening, Closing, scan.push, tt, yychar, scan.bracket_depth)
    BY <1>2, <1>3, <1>7, Pairs, BalanceReduce
  <2>2. InBalance({"INDENT"}, {"DEDENT"}, scan.push, tt, yychar, Len(scan.indent) - 1)
    BY <1>2, <1>3, <1>7, Pairs, BalanceReduce
  <2> QED BY <2>1, <2>2
<1> HIDE DEF q, lo, lv
<1>9. Path(tt, us) /\ tt # <<>> /\ Len(tt) = Len(lo) + 1
  <2>1. ~(Symbol(q) < YYNTOKENS)
    BY <1>7 DEF YYNTOKENS
  <2> QED BY <2>1, <1>6, <1>7, PathPush
<1>10. yynewstate(tt, us, yychar)
  BY <1>1 DEF q, lo, lv
<1> HIDE DEF tt, us
<1>11. Len(tt) <= Len(ss) + 1
  BY <1>2, <1>5, <1>6, <1>9
<1>12. \/ /\ phase' = "parse" /\ Stacked' /\ yyps'.ss = tt /\ yyps'.vs = us
          /\ yychar' = yychar /\ result' = result
       \/ phase' = "parsed" /\ yyps' = NewParser /\ yychar' = <<>> /\ result' = RESULT_OOM
  BY <1>1, <1>2, <1>9, <1>10, <1>11, NewStacks
<1>13. CASE phase' = "parse" /\ Stacked' /\ yyps'.ss = tt /\ yychar' = yychar /\ result' = result
  <2>1. (scan.eof /\ scan.push = <<>>) => yychar # <<>>
    BY <1>1, <1>2, LastState DEF Ending, s
  <2>2. Ending'
    BY <2>1, <1>1, <1>2, <1>13 DEF Ending
  <2>3. yychar \in Seq(TokenType) /\ Len(yychar) <= 1
    BY <1>2 DEF Typed
  <2> QED BY <2>2, <2>3, <1>1, <1>8, <1>9, <1>13, AgreeGoesOn
<1>14. CASE phase' = "parsed" /\ yyps' = NewParser /\ yychar' = <<>> /\ result' = RESULT_OOM
  BY <1>1, <1>2, <1>14, AgreeApart DEF Typed, RESULT_OOM, RESULT_SUCCESS, RESULT_EXIT
<1> QED BY <1>12, <1>13, <1>14

\* The parse ends.
LEMMA AgreeReturn ==
  ASSUME Agreement, Accept \/ EndOfFile \/ SyntaxError
  PROVE  Agreement'
<1>1. /\ UNCHANGED <<input, scan, code>> /\ phase' = "parsed" /\ yyps' = NewParser /\ yychar' = <<>>
      /\ result' \in {RESULT_SUCCESS, RESULT_EXIT, RESULT_FAILED}
  BY DEF Accept, EndOfFile, SyntaxError, yyreturn, ParseUnchanged, mainVars
<1>2. result' \in RESULT_SUCCESS .. RESULT_EXIT
  BY <1>1 DEF RESULT_SUCCESS, RESULT_EXIT, RESULT_FAILED
<1> QED BY <1>1, <1>2, AgreeApart DEF Agreement, Typed

\* A parse starts with the token for its kind of input.
LEMMA AgreeStart ==
  ASSUME Agreement, Parse
  PROVE  Agreement'
<1> DEFINE kind == Token(IF interactive THEN "START_SINGLE" ELSE "START_FILE")
           push == <<kind>>
<1>1. /\ phase' = "scan" /\ scan' = [NewScan EXCEPT !.push = push] /\ yyps' = NewParser /\ yychar' = <<>>
      /\ UNCHANGED <<input, result, code>>
  BY DEF Parse, mainVars
<1>2. kind \in TokenType /\ kind.name \in Neutral
  BY MadeTokens DEF Neutral
<1> HIDE DEF kind
<1>3. push \in Seq(TokenType) /\ Len(push) = 1 /\ push # <<>> /\ push[1] = kind
  BY <1>2
<1> HIDE DEF push
<1>4. /\ scan'.push = push /\ scan'.indent = <<0>> /\ scan'.bracket_depth = 0 /\ scan'.eof = FALSE
      /\ scan' \in ScanType
  <2>1. <<>> \in Seq(InputLines) /\ <<0>> \in Seq(Nat)
    OBVIOUS
  <2>2. <<>> \in Seq(TokenType)
    OBVIOUS
  <2>3. /\ NewScan \in ScanType /\ NewScan.indent = <<0>> /\ NewScan.bracket_depth = 0 /\ NewScan.eof = FALSE
    BY <2>1, <2>2 DEF NewScan, ScanType
  <2> DEFINE sc == [NewScan EXCEPT !.push = push]
  <2>4. sc \in ScanType
    BY <2>3, <1>3 DEF ScanType
  <2>5. sc.push = push /\ sc.indent = NewScan.indent /\ sc.bracket_depth = NewScan.bracket_depth /\ sc.eof = NewScan.eof
    BY <2>3, <2>4 DEF ScanType
  <2> HIDE DEF sc
  <2> QED BY <2>3, <2>4, <2>5, <1>1 DEF sc
<1>5. Rising(<<0>>) /\ Len(<<0>>) - 1 = 0
  BY FrontendAssumption DEF Rising
<1>6. Stacked' /\ yyps'.ss = <<>>
  BY <1>1, NewStacked DEF Stacked, NewParser
<1>7. ASSUME NEW opens, NEW closes, Pair(opens, closes), kind.name \notin opens \cup closes
      PROVE  InBalance(opens, closes, push, <<>>, <<>>, 0)
  <2>1. \A k \in DOMAIN push : push[k].name \notin opens \cup closes
    BY <1>3, <1>7
  <2>2. Pends(opens, closes, push, 0)
    BY <2>1, <1>3, PendsNone
  <2>3. OpenIn(opens, <<>>) = {} /\ Shut(closes, <<>>) = 0 /\ Ahead(opens, closes, <<>>) = 0
    BY DEF OpenIn, Shut, Ahead
  <2>4. Net(opens, closes, <<>>) = 0
    BY <2>3, FS_EmptySet DEF Net
  <2>5. Net(opens, closes, <<>>) + Ahead(opens, closes, <<>>) + 0 = 0 /\ 0 \in Int
    BY <2>3, <2>4
  <2> QED BY <2>2, <2>5 DEF InBalance
<1>8. kind.name \notin {"INDENT"} \cup {"DEDENT"} /\ kind.name \notin Opening \cup Closing
  BY <1>2, MadeTokens
<1>9. /\ InBalance(Opening, Closing, push, <<>>, <<>>, 0)
      /\ InBalance({"INDENT"}, {"DEDENT"}, push, <<>>, <<>>, 0)
  BY <1>7, <1>8, Pairs
<1>10. Typed'
  <2>1. <<>> \in Seq(TokenType) /\ Len(<<>>) <= 1
    OBVIOUS
  <2> QED BY <2>1, <1>1, <1>4 DEF Agreement, Typed
<1>11. Flow' /\ Ending' /\ Rising(scan.indent)'
  BY <1>1, <1>3, <1>4, <1>5, <1>6 DEF Flow, Ending
<1> QED BY <1>1, <1>4, <1>5, <1>6, <1>9, <1>10, <1>11 DEF Agreement, Balanced

\* What the other steps leave alone.
LEMMA AgreeRest ==
  ASSUME Agreement, Held,
         Option \/ Start \/ Allocate \/ parser_destroy \/ eval \/ TryParseEnd \/ UNCHANGED vars
  PROVE  Agreement'
<1>1. UNCHANGED <<input, scan, yyps, yychar, result>>
  BY DEF Option, Start, Allocate, parser_destroy, eval, TryParseEnd, vars, parseVars
<1>2. result' \in RESULT_SUCCESS .. RESULT_EXIT
  BY <1>1 DEF Agreement, Typed
<1>3. CASE Option \/ Start \/ parser_destroy \/ eval \/ TryParseEnd
  <2>1. code' \in 0 .. 2
    BY <1>3 DEF Agreement, Typed, Option, Start, parser_destroy, eval, TryParseEnd, Exit, mainVars
  <2>2. phase' \notin {"scan", "parse"}
    BY <1>3 DEF Option, Start, parser_destroy, eval, TryParseEnd, Exit
  <2> QED BY <2>1, <2>2, <1>1, <1>2, AgreeApart
<1>4. CASE Allocate \/ UNCHANGED vars
  <2>1. UNCHANGED <<phase, code>>
    BY <1>4 DEF Allocate, vars, mainVars
  <2>2. Typed' /\ Stacked' /\ Rising(scan.indent)'
    BY <2>1, <1>1 DEF Agreement, Typed, Stacked
  <2>3. yystate' = yystate
    BY <1>1 DEF yystate
  <2>4. Flow'
    BY <2>1, <2>3, <1>1 DEF Agreement, Flow
  <2>5. Ending => Ending'
    BY <2>1, <2>3, <1>1 DEF Ending
  <2> QED BY <2>1, <2>2, <2>4, <2>5, <1>1 DEF Agreement, Balanced
<1> QED BY <1>3, <1>4

\* Before anything is read scanner and parser agree.
LEMMA AgreeInit == Init => Agreement
<1> SUFFICES ASSUME Init
             PROVE  Agreement
  OBVIOUS
<1>1. /\ input = script.lines /\ script \in Scripts /\ phase = "options" /\ code = 0 /\ scan = NewScan
      /\ yyps = NewParser /\ yychar = <<>> /\ result = RESULT_SUCCESS
  BY DEF Init
<1>2. scan \in ScanType /\ scan.indent = <<0>>
  <2>1. <<>> \in Seq(InputLines) /\ <<0>> \in Seq(Nat) /\ <<>> \in Seq(TokenType)
    OBVIOUS
  <2> QED BY <2>1, <1>1 DEF NewScan, ScanType
<1>3. Typed
  <2>1. <<>> \in Seq(TokenType) /\ Len(<<>>) <= 1
    OBVIOUS
  <2>2. input \in Seq(InputLines)
    BY <1>1, ScriptsAssumption
  <2> QED BY <2>1, <2>2, <1>1, <1>2 DEF Typed, RESULT_SUCCESS, RESULT_EXIT
<1>4. Rising(<<0>>)
  BY FrontendAssumption DEF Rising
<1>5. Stacked
  BY <1>1, NewStacked DEF Stacked
<1>6. Flow
  BY <1>1 DEF Flow
<1> QED BY <1>1, <1>2, <1>3, <1>4, <1>5, <1>6 DEF Agreement

\* Every step keeps the agreement.
LEMMA AgreeNext == Agreement /\ Held /\ [Next]_vars => Agreement'
<1> SUFFICES ASSUME Agreement, Held, [Next]_vars
             PROVE  Agreement'
  OBVIOUS
<1> QED BY AgreeScan, AgreePush, AgreeMore, AgreeShift, AgreeReduce, AgreeReturn, AgreeStart, AgreeRest
        DEF Next, ScanRule

-----------------------------------------------------------------------------
(* What the semantic actions ask for.                                      *)

\* Only the size of a copied text is not a constant.
LEMMA AllocationSizes ==
  ASSUME NEW r, NEW v, r \in {58, 66} => v[1].length \in Nat
  PROVE  Allocations(r, v) \in Seq(Nat)
<1> DEFINE nodes == {9, 14, 15, 25, 26, 27, 28, 31, 55, 56, 57, 67, 71, 72}
                      \cup DOMAIN Binary \cup DOMAIN Unary \cup DOMAIN Singleton
           size  == NodeSize(yyval(r, v).type)
<1>1. size \in Nat
  <2> DEFINE type == yyval(r, v).type
  <2> HIDE DEF type
  <2>1. NodeSize(type) \in Nat
    BY DEF NodeSize
  <2> QED BY <2>1 DEF type
<1> HIDE DEF nodes, size
<1>2. Allocations(r, v) =
        CASE r \in {10, 16, 61} -> <<NodeListSize, EntrySize>>
          [] r \in {11, 17, 62} -> <<EntrySize>>
          [] r = 63             -> <<NodeListSize, EntrySize, NodeListSize, EntrySize>>
          [] r = 64             -> <<EntrySize, EntrySize>>
          [] r \in {73, 75}     -> <<NodeListSize>>
          [] r \in {58, 66}     -> <<16, v[1].length + 1>>
          [] r \in nodes        -> <<size>>
          [] OTHER              -> <<>>
  BY DEF Allocations, nodes, size
<1>3. CASE r \in {58, 66}
  <2>1. v[1].length + 1 \in Nat
    BY <1>3
  <2> QED BY <2>1, <1>1, <1>2 DEF NodeListSize, EntrySize
<1>4. CASE r \notin {58, 66}
  BY <1>1, <1>2, <1>4 DEF NodeListSize, EntrySize
<1> QED BY <1>3, <1>4

\* A rule that copies a text has a token, with the length of its text, on top of the stack.
LEMMA SizesNext == SizesOK /\ Agreement /\ [Next]_vars => SizesOK'
<1> SUFFICES ASSUME SizesOK, Agreement, [Next]_vars
             PROVE  SizesOK'
  OBVIOUS
<1>1. CASE Reduce
  <2> DEFINE vs == yyps.vs
             s  == yystate
  <2>1. phase = "parse" /\ rule = RuleOf(s) /\ rule \notin Returns /\ todo' = Allocations(rule, rhs)
    BY <1>1 DEF Reduce, Reducing, Parsing, rule, RuleOf, Returns
  <2>2. rule \in {58, 66} => rhs[1].length \in Nat
    <3> SUFFICES ASSUME rule \in {58, 66} PROVE rhs[1].length \in Nat
      OBVIOUS
    <3>1. /\ Path(yyps.ss, vs) /\ yyps.ss # <<>> /\ Len(yyps.ss) \in Nat \ {0} /\ Len(vs) = Len(yyps.ss)
          /\ s = yyps.ss[Len(yyps.ss)] /\ s \in States
      BY <2>1, ParserFacts
    <3>2. LengthOf(s) = 1 /\ Symbol(s) < YYNTOKENS
      <4>1. Prompt
        BY TablesAssumption
      <4> QED BY <4>1, <2>1, <3>1 DEF Prompt
    <3>3. s \in Popping(0)
      BY <2>1, <3>1, <3>2 DEF Popping
    <3>4. LengthOf(s) \in 0 .. Len(yyps.ss) - 1
      BY <3>1, <3>3, PathBeneath
    <3>5. Len(yyps.ss) \in 2 .. Len(yyps.ss)
      BY <3>1, <3>2, <3>4
    <3>6. vs[Len(vs)].length \in Nat
      BY <3>1, <3>2, <3>5 DEF Path
    <3>7. at(yyr2, rule) = 1
      BY <2>1, <3>2 DEF LengthOf
    <3>8. rhs = SubSeq(vs, Len(vs), Len(vs))
      BY <3>1, <3>7 DEF rhs
    <3>9. rhs[1] = vs[Len(vs)]
      <4>1. vs \in Seq({vs[k] : k \in DOMAIN vs})
        BY <3>1 DEF Path, IsSeq
      <4> DEFINE S == {vs[k] : k \in DOMAIN vs}
      <4> HIDE DEF S, vs
      <4>2. vs \in Seq(S) /\ Len(vs) \in Nat \ {0}
        BY <4>1, <3>1 DEF S
      <4>3. SubSeq(vs, Len(vs), Len(vs))[1] = vs[Len(vs)]
        BY <4>2
      <4> QED BY <4>3, <3>8
    <3> QED BY <3>6, <3>9
  <2> QED BY <2>1, <2>2, AllocationSizes DEF SizesOK
<1>2. CASE Allocate
  BY <1>2 DEF Allocate, SizesOK
<1>3. CASE Parse
  BY <1>3 DEF Parse, SizesOK
<1>4. CASE UNCHANGED todo
  BY <1>4 DEF SizesOK
<1>5. CASE \/ Option \/ Start \/ PushToken \/ MoreTokens \/ Shift \/ Accept \/ EndOfFile \/ SyntaxError
           \/ parser_destroy \/ eval \/ TryParseEnd \/ UNCHANGED vars
  <2>1. UNCHANGED todo
    BY <1>5 DEF Option, Start, PushToken, MoreTokens, Shift, Accept, EndOfFile, SyntaxError,
                parser_destroy, eval, TryParseEnd, vars, parseVars
  <2> QED BY <2>1, <1>4
<1>6. CASE ScanRule
  <2>1. UNCHANGED todo
    BY <1>6 DEF ScanRule, parser_input_wrap, BlankLine, Indentation, Lexeme, Continuation, Newline,
                EofInner, EofStart, ScanUnchanged, parseVars
  <2> QED BY <2>1, <1>4
<1> QED BY <1>1, <1>2, <1>3, <1>5, <1>6 DEF Next, ScanRule

\* Nothing is asked for before anything is read.
LEMMA SizesInit == Init => SizesOK
BY DEF Init, SizesOK

-----------------------------------------------------------------------------
(* The theorems.                                                           *)

\* With nothing on the way the two numbers are the same.
LEMMA NothingBetween ==
  ASSUME NEW opens, NEW closes, Pair(opens, closes), Agreement, Scanning, NEW depth,
         InBalance(opens, closes, <<>>, yyps.ss, <<>>, depth)
  PROVE  depth = Cardinality(Entered(opens))
<1>1. Stacked /\ Flow /\ phase = "scan" /\ scan.push = <<>>
  BY DEF Agreement, Scanning
<1>2. yyps.ss \in Seq(States) /\ yyps.ss # <<>> /\ ~IsConsistent(yystate)
  BY <1>1 DEF Stacked, Path, Flow
<1>3. yystate = yyps.ss[Len(yyps.ss)] /\ yyps.ss[Len(yyps.ss)] \in States
  <2>1. yystate = yyps.ss[Len(yyps.ss)]
    BY DEF yystate, Last
  <2> QED BY <2>1, <1>2
<1>4. Shut(closes, yyps.ss) = 0
  BY <1>2, <1>3 DEF Shut, Pair
<1>5. PICK d \in Int : /\ Pends(opens, closes, <<>>, d)
                       /\ Net(opens, closes, yyps.ss) + Ahead(opens, closes, <<>>) + d = depth
  BY DEF InBalance
<1>6. d = 0
  BY <1>5, PendsNothing
<1>7. Ahead(opens, closes, <<>>) = 0 /\ Cardinality(OpenIn(opens, yyps.ss)) \in Nat
  BY <1>2, OpenCounted DEF Ahead
<1>8. depth = Cardinality(OpenIn(opens, yyps.ss))
  BY <1>4, <1>5, <1>6, <1>7 DEF Net
<1>9. OpenIn(opens, yyps.ss) = Entered(opens)
  BY DEF OpenIn, Entered, Symbol, SymbolsOf
<1> QED BY <1>8, <1>9

\* The invariant implies what the run checks.
LEMMA AgreementSuffices == Agreement /\ Held /\ SizesOK => ScannerAgrees
<1> SUFFICES ASSUME Agreement, Held, SizesOK
             PROVE  ScannerAgrees
  OBVIOUS
<1>1. Typed /\ Rising(scan.indent) /\ Stacked /\ Flow
  BY DEF Agreement
<1>2. TypeOK
  <2>1. scan.indent # <<>> /\ Len(scan.indent) <= MAX_INDENT_LEVELS
    <3>1. Len(scan.indent) \in 1 .. MAX_INDENT_LEVELS /\ MAX_INDENT_LEVELS \in Nat
      BY <1>1, FrontendAssumption DEF Rising
    <3> QED BY <3>1
  <2>2. phase \in {"options", "repl", "scan", "parse", "parsed", "eval", "evaluated", "exit"}
    BY DEF Held, Phases
  <2>3. Len(yyps.ss) = Len(yyps.vs) /\ Len(yyps.ss) < yyps.size /\ yyps.size \in YYINITDEPTH .. YYMAXDEPTH
    BY <1>1 DEF Stacked, Path
  <2> QED BY <2>1, <2>2, <2>3, <1>1 DEF TypeOK, Typed
<1>3. ASSUME Scanning
      PROVE  /\ InBalance(Opening, Closing, <<>>, yyps.ss, <<>>, scan.bracket_depth)
             /\ InBalance({"INDENT"}, {"DEDENT"}, <<>>, yyps.ss, <<>>, Len(scan.indent) - 1)
             /\ ~scan.eof
  <2>1. phase = "scan" /\ scan.push = <<>> /\ yychar = <<>>
    BY <1>1, <1>3 DEF Scanning, Flow
  <2> QED BY <2>1 DEF Agreement, Balanced, Ending
<1>4. BracketsAgree
  BY <1>3, Pairs, NothingBetween DEF BracketsAgree
<1>5. IndentsAgree
  <2> SUFFICES ASSUME Scanning
               PROVE  /\ scan.indent[1] = 0 /\ \A k \in 2 .. Len(scan.indent) : scan.indent[k - 1] < scan.indent[k]
                      /\ Len(scan.indent) = 1 + Cardinality(Entered({"INDENT"}))
    BY DEF IndentsAgree
  <2>1. Len(scan.indent) - 1 = Cardinality(Entered({"INDENT"}))
    BY <1>3, Pairs, NothingBetween
  <2>2. Len(scan.indent) \in Int
    BY <1>1 DEF Rising
  <2>3. Len(scan.indent) = 1 + Cardinality(Entered({"INDENT"}))
    BY <2>1, <2>2
  <2> QED BY <2>3, <1>1 DEF Rising
<1>6. EndDecides
  BY <1>3 DEF EndDecides
<1> QED BY <1>2, <1>4, <1>5, <1>6 DEF ScannerAgrees

\* For every input, at every prompt and with every limit on levels and stacks: whenever
\* yylex looks at the next characters, the brackets and the indentation levels it has
\* counted are the ones open on the parser's stack, and it never goes on after the end.
THEOREM ScannerInStep == Spec => []ScannerAgrees
BY AgreementSuffices, AgreeInit, AgreeNext, SizesInit, SizesNext, HeldInit, HeldNext, PTL DEF Spec

\* A state that a text leads to reduces at once: none is left on the stack when yylex
\* overwrites the buffer the text lies in.
THEOREM TextsCopied == Spec => []NoStaleText
<1>1. ASSUME Agreement
      PROVE  NoStaleText
  <2> SUFFICES ASSUME phase = "scan", NEW k \in Entered({"STRING", "IDENT"})
               PROVE  FALSE
    BY DEF NoStaleText
  <2> DEFINE ss == yyps.ss
  <2>1. Path(ss, yyps.vs) /\ (ss # <<>> => ~IsConsistent(yystate))
    BY <1>1 DEF Agreement, Stacked, Flow
  <2>2. /\ ss \in Seq(States) /\ \A j \in 2 .. Len(ss) : <<ss[j - 1], ss[j]>> \in Neighbours
    BY <2>1 DEF Path
  <2>3. k \in DOMAIN ss /\ Symbol(ss[k]) \in SymbolsOf({"STRING", "IDENT"})
    BY DEF Entered, Symbol, SymbolsOf
  <2>4. k \in 1 .. Len(ss) /\ Len(ss) \in Nat /\ ss[k] \in States /\ ss # <<>>
    BY <2>2, <2>3
  <2>5. Prompt
    BY TablesAssumption
  <2>6. IsConsistent(ss[k])
    <3>1. Symbol(ss[k]) \in SymbolsOf({"STRING", "IDENT", "DEDENT", "INPUT_END"} \cup Closing)
      BY <2>3 DEF SymbolsOf
    <3> QED BY <3>1, <2>4, <2>5 DEF Prompt
  <2>7. CASE k = Len(ss)
    <3>1. yystate = ss[Len(ss)]
      BY DEF yystate, Last
    <3> QED BY <3>1, <2>1, <2>4, <2>6, <2>7
  <2>8. CASE k # Len(ss)
    <3>1. k + 1 \in 2 .. Len(ss) /\ (k + 1) - 1 = k
      BY <2>4, <2>8
    <3> DEFINE e == <<ss[k], ss[k + 1]>>
    <3>2. e \in Neighbours /\ e[1] = ss[k]
      BY <3>1, <2>2
    <3> HIDE DEF e
    <3> QED BY <3>2, <2>5, <2>6 DEF Prompt
  <2> QED BY <2>7, <2>8
<1> QED BY <1>1, AgreeInit, AgreeNext, HeldInit, HeldNext, PTL DEF Spec

\* The sizes the semantic actions ask for are numbers, so that NodesApart holds without
\* a condition: the nodes, lists and texts of every tree lie in its arena, apart.
THEOREM TreesApart == Spec => []ArenaOK
<1>1. Spec => []SizesOK
  BY SizesInit, SizesNext, AgreeInit, AgreeNext, HeldInit, HeldNext, PTL DEF Spec
<1> QED BY <1>1, NodesApart, PTL
=============================================================================
