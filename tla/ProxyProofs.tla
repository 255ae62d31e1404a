---------------------------- MODULE ProxyProofs -----------------------------
(***************************************************************************)
(* What holds of the web proxy for any number of connections, descriptors, *)
(* header lines and chunks: threads use their own descriptors only, a      *)
(* client gets its own response, a request that went out is complete and   *)
(* the cache of a request stays within its size.                           *)
(***************************************************************************)
EXTENDS Proxy, TLAPS, WellFoundedInduction

-----------------------------------------------------------------------------
(* The descriptor table. *)

\* The number the kernel hands out is one that nobody uses.
LEMMA LowestUnused ==
  ASSUME Unused # {}
  PROVE  LowestFd \in Fds /\ fds[LowestFd] = FREE
<1>1. Unused \subseteq Nat
  BY ProxyAssumption DEF Unused, Fds
<1>2. PICK n \in Unused : \A m \in Unused : ~ (<<m, n>> \in OpToRel(<, Nat))
  BY <1>1, WFMin, NatLessThanWellFounded
<1>3. ASSUME NEW m \in Unused PROVE n <= m
  <2>1. m \in Nat /\ n \in Nat
    BY <1>1, <1>2
  <2>2. <<m, n>> \notin OpToRel(<, Nat)
    BY <1>2
  <2>3. ~(m < n)
    BY <2>1, <2>2 DEF OpToRel
  <2> QED BY <2>1, <2>3
<1>4. LowestFd \in Unused
  BY <1>2, <1>3 DEF LowestFd
<1> QED BY <1>4 DEF Unused

\* What the table and the thread of a connection know of each other: the numbers the
\* thread is going to use are its own, and every number that refers to the
\* connection is known to its thread or is the socket of a failed attempt.
Ledger(c) ==
  /\ pc[c] = "created" => cell[c] \in Fds /\ fds[cell[c]] = Open(c, "client")
  /\ UsesClient(c) => client_fd[c] \in Fds /\ fds[client_fd[c]] = Open(c, "client")
  /\ UsesServer(c) => server_fd[c] \in Fds /\ fds[server_fd[c]] = Open(c, "server")
  /\ \A n \in Fds : fds[n] = Open(c, "client") =>
       (pc[c] = "created" /\ n = cell[c]) \/ (UsesClient(c) /\ n = client_fd[c])
  /\ \A n \in Fds : fds[n] = Open(c, "server") =>
       /\ n = server_fd[c]
       /\ UsesServer(c) \/ (c \in failed /\ sent[c] = {} /\ pc[c] \in {"close client", "done"})
  /\ pc[c] \in {"connecting", "created", "request", "open", "connect"} => sent[c] = {}

FdInv ==
  /\ TypeOK /\ served \in [Conns -> Nat]
  /\ fds[0] = LISTEN
  /\ \A c \in Conns : Ledger(c)

\* The three kinds of entries differ.
LEMMA EntriesDiffer ==
  /\ \A c, d : Open(c, "client") # Open(d, "server")
  /\ \A c, d, e : Open(c, e) = Open(d, e) => c = d
  /\ \A c : Open(c, "client") # FREE /\ Open(c, "server") # FREE
  /\ \A c : Open(c, "client") # LISTEN /\ Open(c, "server") # LISTEN
  /\ FREE # LISTEN
BY DEF Open, FREE, LISTEN

\* Before anybody connects.
LEMMA FdInit == Init => FdInv
<1> SUFFICES ASSUME Init PROVE FdInv
  OBVIOUS
<1> USE ProxyAssumption
<1>1. TypeOK
  <2>1. fds \in [Fds -> {FREE, LISTEN} \cup [conn : Conns, end : {"client", "server"}]]
    BY DEF Init
  <2>2. /\ cell \in [Conns -> Fds \cup {NoFd}]
        /\ client_fd \in [Conns -> Fds \cup {NoFd}] /\ server_fd \in [Conns -> Fds \cup {NoFd}]
    BY DEF Init
  <2>3. /\ pc \in [Conns -> Labels] /\ sent \in [Conns -> SUBSET (Headers \cup {"end"})]
        /\ flags \in [Conns -> SUBSET Required]
    BY DEF Init, Labels
  <2>4. /\ lines \in [Conns -> 0 .. MaxHeaders] /\ \A c \in Conns : served[c] \in 0 .. MaxChunks[c]
        /\ length \in [Conns -> Nat]
    BY DEF Init
  <2>5. /\ failed \subseteq Conns /\ aborted \in BOOLEAN
        /\ DOMAIN received = Conns /\ DOMAIN cache = Conns
    BY DEF Init
  <2> QED BY <2>1, <2>2, <2>3, <2>4, <2>5 DEF TypeOK
<1>2. served \in [Conns -> Nat]
  BY DEF Init
<1>3. fds[0] = LISTEN
  BY DEF Init, Fds
<1>4. ASSUME NEW c \in Conns PROVE Ledger(c)
  <2>1. \A n \in Fds : fds[n] \in {FREE, LISTEN}
    BY DEF Init
  <2>2. pc[c] = "connecting" /\ sent[c] = {}
    BY DEF Init
  <2> QED BY <2>1, <2>2, EntriesDiffer DEF Ledger, UsesClient, UsesServer
<1> QED BY <1>1, <1>2, <1>3, <1>4 DEF FdInv

\* A step in which nothing of d's changes, and no entry that is or becomes d's.
LEMMA LedgerFrame ==
  ASSUME NEW d \in Conns, Ledger(d),
         pc'[d] = pc[d], cell'[d] = cell[d], client_fd'[d] = client_fd[d],
         server_fd'[d] = server_fd[d], sent'[d] = sent[d], d \in failed => d \in failed',
         \A n \in Fds : \/ fds'[n] = fds[n]
                        \/ /\ fds[n] # Open(d, "client") /\ fds'[n] # Open(d, "client")
                           /\ fds[n] # Open(d, "server") /\ fds'[n] # Open(d, "server")
  PROVE  Ledger(d)'
<1>1. UsesClient(d)' = UsesClient(d) /\ UsesServer(d)' = UsesServer(d)
  BY DEF UsesClient, UsesServer
<1> QED BY <1>1, Zenon DEF Ledger

\* accept: the new entry is the connection's only one.
LEMMA FdAccept ==
  ASSUME FdInv, NEW c \in Conns, Accept(c)
  PROVE  FdInv'
<1>1. LowestFd \in Fds /\ fds[LowestFd] = FREE
  BY LowestUnused DEF Accept
<1>. DEFINE n == LowestFd
<1>2. /\ fds' = [fds EXCEPT ![n] = Open(c, "client")] /\ cell' = [cell EXCEPT ![c] = n]
      /\ pc' = [pc EXCEPT ![c] = "created"] /\ pc[c] = "connecting"
      /\ UNCHANGED <<client_fd, server_fd, sent, flags, lines, served, length,
                     received, failed, cache, aborted>>
  BY DEF Accept, CellOf
<1>. HIDE DEF n
<1>3. n \in Fds /\ fds[n] = FREE
  BY <1>1 DEF n
<1>4. TypeOK'
  BY <1>2, <1>3 DEF FdInv, TypeOK, Labels, Open
<1>5. fds'[0] = LISTEN
  BY <1>2, <1>3, EntriesDiffer DEF FdInv, TypeOK
<1>6. /\ fds'[n] = Open(c, "client") /\ \A m \in Fds : m # n => fds'[m] = fds[m]
      /\ pc'[c] = "created" /\ cell'[c] = n
      /\ \A d \in Conns : d # c => pc'[d] = pc[d] /\ cell'[d] = cell[d]
  BY <1>2, <1>3 DEF FdInv, TypeOK
<1>7. \A d \in Conns : Ledger(d)
  BY DEF FdInv
<1>8. Ledger(c)'
  <2>1. \A m \in Fds : fds[m] # Open(c, "client") /\ fds[m] # Open(c, "server")
    BY <1>2, <1>7 DEF Ledger, UsesClient, UsesServer
  <2>2. pc[c] = "connecting" /\ sent'[c] = {}
    BY <1>2, <1>7 DEF Ledger
  <2>3. ~UsesClient(c)' /\ ~UsesServer(c)'
    BY <1>6 DEF UsesClient, UsesServer
  <2>4. \A m \in Fds : fds'[m] # Open(c, "server") /\ (fds'[m] = Open(c, "client") => m = n)
    BY <1>6, <2>1, EntriesDiffer
  <2> QED BY <1>3, <1>6, <2>2, <2>3, <2>4 DEF Ledger
<1>9. ASSUME NEW d \in Conns, d # c PROVE Ledger(d)'
  BY <1>2, <1>3, <1>6, <1>7, <1>9, EntriesDiffer, LedgerFrame
<1> QED BY <1>2, <1>4, <1>5, <1>8, <1>9 DEF FdInv

\* A step of c's thread between two system calls that open or close something: only
\* the socket of a failed attempt is forgotten.
LEMMA FdQuiet ==
  ASSUME FdInv, NEW c \in Conns, TypeOK', served' \in [Conns -> Nat],
         UNCHANGED <<fds, cell, client_fd, server_fd>>, failed \subseteq failed',
         \A d \in Conns : d # c => pc'[d] = pc[d] /\ sent'[d] = sent[d],
         UsesClient(c), UsesClient(c)', pc[c] # "close client",
         UsesServer(c)' => UsesServer(c),
         UsesServer(c) =>
           UsesServer(c)' \/ (pc'[c] = "close client" /\ c \in failed' /\ sent'[c] = {}),
         pc'[c] \in {"request", "open", "connect"} => sent'[c] = {}
  PROVE  FdInv'
<1>1. \A d \in Conns : Ledger(d)
  BY DEF FdInv
<1>2. ASSUME NEW d \in Conns, d # c PROVE Ledger(d)'
  BY <1>1, <1>2, LedgerFrame
<1>3. Ledger(c)'
  <2>1. pc[c] \notin {"connecting", "created", "done"} /\ pc'[c] \notin {"connecting", "created", "done"}
    BY DEF UsesClient
  <2>2. ASSUME NEW n \in Fds, fds[n] = Open(c, "server")
        PROVE  n = server_fd[c] /\ UsesServer(c)
    BY <1>1, <2>1, <2>2 DEF Ledger
  <2>3. ASSUME NEW n \in Fds, fds[n] = Open(c, "client")
        PROVE  n = client_fd[c]
    BY <1>1, <2>1, <2>3 DEF Ledger
  <2>4. client_fd[c] \in Fds /\ fds[client_fd[c]] = Open(c, "client")
    BY <1>1 DEF Ledger
  <2>5. UsesServer(c) => server_fd[c] \in Fds /\ fds[server_fd[c]] = Open(c, "server")
    BY <1>1 DEF Ledger
  <2> QED BY <2>1, <2>2, <2>3, <2>4, <2>5 DEF Ledger
<1> QED BY <1>2, <1>3 DEF FdInv

\* Types are kept by the steps that neither open nor close a descriptor.
LEMMA TypeQuiet ==
  ASSUME FdInv, NEW c \in Conns, NEW label \in Labels,
         pc' = [pc EXCEPT ![c] = label], UNCHANGED <<fds, cell, client_fd, server_fd>>,
         sent' \in [Conns -> SUBSET (Headers \cup {"end"})], flags' \in [Conns -> SUBSET Required],
         lines' \in [Conns -> 0 .. MaxHeaders], \A d \in Conns : served'[d] \in 0 .. MaxChunks[d],
         length' \in [Conns -> Nat], failed' \in {failed, failed \cup {c}}, aborted' \in BOOLEAN,
         DOMAIN received' = Conns, DOMAIN cache' = Conns
  PROVE  TypeOK'
<1>1. pc' \in [Conns -> Labels]
  BY DEF FdInv, TypeOK
<1>2. failed' \subseteq Conns
  BY DEF FdInv, TypeOK
<1> QED BY <1>1, <1>2 DEF FdInv, TypeOK

\* A write changes what one client has received, if anything.
LEMMA DeliveredDomain ==
  ASSUME NEW n, NEW msg, DOMAIN received = Conns
  PROVE  DOMAIN Delivered(n, msg) = Conns
BY DEF Delivered

\* The request is read, and the connection to the server made or given up.
LEMMA FdRequest ==
  ASSUME FdInv, NEW c \in Conns, ReadRequest(c) \/ Connect(c) \/ SendGet(c)
  PROVE  FdInv'
<1>. DEFINE label == pc'[c]
<1>1. /\ UNCHANGED <<fds, cell, client_fd, server_fd, sent, flags, lines, served, length, cache, aborted>>
      /\ failed' \in {failed, failed \cup {c}} /\ DOMAIN received' = Conns
  <2>1. DOMAIN received = Conns
    BY DEF FdInv, TypeOK
  <2>2. CASE ReadRequest(c)
    BY <2>1, <2>2, DeliveredDomain DEF ReadRequest, GiveUp, Failing
  <2>3. CASE Connect(c)
    BY <2>1, <2>3, DeliveredDomain DEF Connect, GiveUp, Failing
  <2>4. CASE SendGet(c)
    BY <2>1, <2>4 DEF SendGet, ServerError, Failing
  <2> QED BY <2>2, <2>3, <2>4
<1>2. pc \in [Conns -> Labels]
  BY DEF FdInv, TypeOK
<1>3. /\ pc' = [pc EXCEPT ![c] = label] /\ label \in Labels
      /\ \/ pc[c] = "request" /\ label \in {"open", "close client"}
         \/ pc[c] = "connect" /\ (label = "send get" \/ (label = "close client" /\ c \in failed'))
         \/ pc[c] = "send get" /\ label \in {"headers", "server error"}
  BY <1>2 DEF ReadRequest, Connect, SendGet, GiveUp, ServerError, Failing, At, Goto, Labels
<1>4. TypeOK'
  BY <1>1, <1>3, TypeQuiet DEF FdInv, TypeOK
<1>5. pc[c] \in {"request", "connect"} => sent[c] = {}
  BY DEF FdInv, Ledger
<1>6. \A d \in Conns : d # c => pc'[d] = pc[d]
  BY <1>2, <1>3
<1>7. /\ UsesClient(c) /\ UsesClient(c)' /\ pc[c] # "close client"
      /\ UsesServer(c)' => UsesServer(c)
      /\ UsesServer(c) => UsesServer(c)' \/ (pc'[c] = "close client" /\ c \in failed' /\ sent'[c] = {})
      /\ pc'[c] \in {"request", "open", "connect"} => sent'[c] = {}
  BY <1>1, <1>3, <1>5 DEF UsesClient, UsesServer
<1>8. failed \subseteq failed' /\ served' \in [Conns -> Nat] /\ \A d \in Conns : sent'[d] = sent[d]
  BY <1>1 DEF FdInv
<1> QED BY <1>1, <1>4, <1>6, <1>7, <1>8, FdQuiet

\* Headers are forwarded to the server.
LEMMA FdHeaders ==
  ASSUME FdInv, NEW c \in Conns, ReadHeader(c) \/ EndHeaders(c)
  PROVE  FdInv'
<1>. DEFINE label == pc'[c]
<1>1. /\ UNCHANGED <<fds, cell, client_fd, server_fd, served, length, received, cache, aborted>>
      /\ failed' \in {failed, failed \cup {c}}
  BY DEF ReadHeader, EndHeaders, ServerError, Failing
<1>2. pc \in [Conns -> Labels]
  BY DEF FdInv, TypeOK
<1>3. /\ pc' = [pc EXCEPT ![c] = label] /\ label \in Labels
      /\ pc[c] \in {"headers", "end headers"}
      /\ label \in {"headers", "end headers", "server error", "close server", "reply"}
  <2>1. CASE ReadHeader(c)
    BY <1>2, <2>1 DEF ReadHeader, ServerError, At, Goto, Labels
  <2>2. CASE EndHeaders(c)
    BY <1>2, <2>2 DEF EndHeaders, ServerError, At, Goto, Labels
  <2> QED BY <2>1, <2>2
<1>4. /\ sent' \in [Conns -> SUBSET (Headers \cup {"end"})] /\ flags' \in [Conns -> SUBSET Required]
      /\ \A d \in Conns : d # c => sent'[d] = sent[d]
  <2>. sent \in [Conns -> SUBSET (Headers \cup {"end"})] /\ flags \in [Conns -> SUBSET Required]
    BY DEF FdInv, TypeOK
  <2>1. CASE ReadHeader(c)
    <3>1. CASE UNCHANGED <<sent, flags>>
      BY <3>1
    <3>2. CASE \E h \in Headers : /\ sent'  = [sent EXCEPT ![c] = @ \cup Forwarded(h)]
                                  /\ flags' = [flags EXCEPT ![c] = @ \cup Marked(h)]
      <4>1. PICK h \in Headers : /\ sent'  = [sent EXCEPT ![c] = @ \cup Forwarded(h)]
                                 /\ flags' = [flags EXCEPT ![c] = @ \cup Marked(h)]
        BY <3>2
      <4>2. Forwarded(h) \subseteq Headers /\ Marked(h) \subseteq Required
        BY DEF Forwarded, Marked
      <4> QED BY <4>1, <4>2
    <3> QED BY <2>1, <3>1, <3>2 DEF ReadHeader
  <2>2. CASE EndHeaders(c)
    <3>1. flags' = flags /\ sent' \in {sent, [sent EXCEPT ![c] = @ \cup (Required \ flags[c]) \cup {"end"}]}
      BY <2>2 DEF EndHeaders
    <3>2. Required \subseteq Headers
      BY DEF Required, Headers
    <3> QED BY <3>1, <3>2
  <2> QED BY <2>1, <2>2
<1>5. lines' \in [Conns -> 0 .. MaxHeaders]
  <2>1. lines \in [Conns -> 0 .. MaxHeaders]
    BY DEF FdInv, TypeOK
  <2>2. lines' = lines \/ (lines[c] < MaxHeaders /\ lines' = [lines EXCEPT ![c] = @ + 1])
    BY DEF ReadHeader, EndHeaders
  <2> QED BY <2>1, <2>2, ProxyAssumption
<1>6. TypeOK'
  BY <1>1, <1>3, <1>4, <1>5, TypeQuiet DEF FdInv, TypeOK
<1>7. /\ UsesClient(c) /\ UsesClient(c)' /\ pc[c] # "close client"
      /\ UsesServer(c) /\ UsesServer(c)' /\ pc'[c] \notin {"request", "open", "connect"}
  BY <1>3 DEF UsesClient, UsesServer
<1>8. \A d \in Conns : d # c => pc'[d] = pc[d]
  BY <1>2, <1>3
<1>9. failed \subseteq failed' /\ served' \in [Conns -> Nat]
  BY <1>1 DEF FdInv
<1> QED BY <1>1, <1>4, <1>6, <1>7, <1>8, <1>9, FdQuiet

\* The response is copied; its cache is the thread's own.
LEMMA FdReply ==
  ASSUME FdInv, NEW c \in Conns,
         ForwardChunk(c) \/ EndReply(c) \/ RejectChunk(c) \/ EvictForChunk(c) \/ InsertChunk(c)
  PROVE  FdInv'
<1>. DEFINE label == pc'[c]
<1>1. UNCHANGED <<fds, cell, client_fd, server_fd, sent, flags, lines>>
  BY DEF ForwardChunk, EndReply, RejectChunk, EvictForChunk, InsertChunk, CacheStep
<1>2. pc \in [Conns -> Labels]
  BY DEF FdInv, TypeOK
<1>3. /\ pc' = [pc EXCEPT ![c] = label] /\ label \in Labels
      /\ pc[c] \in {"reply", "insert"} /\ label \in {"reply", "insert", "close server"}
  <2>1. CASE ForwardChunk(c) \/ EndReply(c)
    BY <1>2, <2>1 DEF ForwardChunk, EndReply, At, Goto, Labels
  <2>2. CASE RejectChunk(c) \/ EvictForChunk(c) \/ InsertChunk(c)
    BY <1>2, <2>2 DEF RejectChunk, EvictForChunk, InsertChunk, CacheStep, At, Goto, Labels
  <2> QED BY <2>1, <2>2
<1>4. failed' \in {failed, failed \cup {c}} /\ aborted' \in BOOLEAN
  <2>1. CASE ForwardChunk(c) \/ EndReply(c)
    BY <2>1 DEF ForwardChunk, EndReply, Failing, FdInv, TypeOK
  <2>2. CASE RejectChunk(c) \/ EvictForChunk(c) \/ InsertChunk(c)
    BY <2>2 DEF RejectChunk, EvictForChunk, InsertChunk, CacheStep
  <2> QED BY <2>1, <2>2
<1>5. DOMAIN received' = Conns /\ DOMAIN cache' = Conns
  <2>1. DOMAIN received = Conns /\ DOMAIN cache = Conns
    BY DEF FdInv, TypeOK
  <2>2. CASE ForwardChunk(c)
    BY <2>1, <2>2, DeliveredDomain DEF ForwardChunk
  <2>3. CASE EndReply(c)
    BY <2>1, <2>3 DEF EndReply
  <2>4. CASE RejectChunk(c) \/ EvictForChunk(c) \/ InsertChunk(c)
    BY <2>1, <2>4 DEF RejectChunk, EvictForChunk, InsertChunk, CacheStep
  <2> QED BY <2>2, <2>3, <2>4
<1>6. (\A d \in Conns : served'[d] \in 0 .. MaxChunks[d]) /\ served' \in [Conns -> Nat]
  <2>1. (\A d \in Conns : served[d] \in 0 .. MaxChunks[d]) /\ served \in [Conns -> Nat]
    BY DEF FdInv, TypeOK
  <2>2. served' = served \/ (served[c] < MaxChunks[c] /\ served' = [served EXCEPT ![c] = @ + 1])
    BY DEF ForwardChunk, EndReply, RejectChunk, EvictForChunk, InsertChunk, CacheStep
  <2> QED BY <2>1, <2>2, ProxyAssumption
<1>7. length' \in [Conns -> Nat]
  <2>1. length \in [Conns -> Nat] /\ ChunkLens[c] \subseteq Nat
    BY ProxyAssumption DEF FdInv, TypeOK
  <2>2. length' = length \/ \E n \in ChunkLens[c] : length' = [length EXCEPT ![c] = @ + n]
    BY DEF ForwardChunk, EndReply, RejectChunk, EvictForChunk, InsertChunk, CacheStep
  <2> QED BY <2>1, <2>2
<1>8. TypeOK'
  BY <1>1, <1>3, <1>4, <1>5, <1>6, <1>7, TypeQuiet DEF FdInv, TypeOK
<1>9. /\ UsesClient(c) /\ UsesClient(c)' /\ pc[c] # "close client"
      /\ UsesServer(c) /\ UsesServer(c)' /\ pc'[c] \notin {"request", "open", "connect"}
  BY <1>3 DEF UsesClient, UsesServer
<1>10. \A d \in Conns : d # c => pc'[d] = pc[d]
  BY <1>2, <1>3
<1>11. failed \subseteq failed'
  BY <1>4
<1> QED BY <1>1, <1>6, <1>8, <1>9, <1>10, <1>11, FdQuiet

\* The end of a request that succeeded.
LEMMA FdShutdown ==
  ASSUME FdInv, NEW c \in Conns, Shutdown(c) \/ Drain(c)
  PROVE  FdInv'
<1>. DEFINE label == pc'[c]
<1>1. UNCHANGED <<fds, cell, client_fd, server_fd, sent, flags, lines, served, length,
                  received, failed, cache, aborted>>
  BY DEF Shutdown, Drain
<1>2. pc \in [Conns -> Labels]
  BY DEF FdInv, TypeOK
<1>3. /\ pc' = [pc EXCEPT ![c] = label] /\ label \in Labels
      /\ pc[c] \in {"shutdown", "drain"} /\ label \in {"drain", "close client"}
  BY <1>2 DEF Shutdown, Drain, At, Goto, Labels
<1>4. TypeOK'
  BY <1>1, <1>3, TypeQuiet DEF FdInv, TypeOK
<1>5. /\ UsesClient(c) /\ UsesClient(c)' /\ pc[c] # "close client"
      /\ ~UsesServer(c) /\ ~UsesServer(c)' /\ pc'[c] \notin {"request", "open", "connect"}
  BY <1>3 DEF UsesClient, UsesServer
<1>6. (\A d \in Conns : d # c => pc'[d] = pc[d]) /\ failed \subseteq failed' /\ served' \in [Conns -> Nat]
  BY <1>1, <1>2, <1>3 DEF FdInv
<1> QED BY <1>1, <1>4, <1>5, <1>6, FdQuiet

\* The thread takes over the number that main put on the heap for it.
LEMMA FdStart ==
  ASSUME FdInv, NEW c \in Conns, Start(c)
  PROVE  FdInv'
<1>1. /\ pc' = [pc EXCEPT ![c] = "request"] /\ pc[c] = "created"
      /\ client_fd' = [client_fd EXCEPT ![c] = cell[c]] /\ cell' = [cell EXCEPT ![c] = NoFd]
      /\ cache' = [cache EXCEPT ![c] = init_cache]
      /\ UNCHANGED <<fds, server_fd, sent, flags, lines, served, length, received, failed, aborted>>
  BY DEF Start, At, Goto, CellOf
<1>2. TypeOK'
  BY <1>1 DEF FdInv, TypeOK, Labels
<1>3. /\ pc'[c] = "request" /\ client_fd'[c] = cell[c]
      /\ \A d \in Conns : d # c => pc'[d] = pc[d] /\ cell'[d] = cell[d] /\ client_fd'[d] = client_fd[d]
  BY <1>1 DEF FdInv, TypeOK
<1>4. \A d \in Conns : Ledger(d)
  BY DEF FdInv
<1>5. Ledger(c)'
  <2>1. ~UsesServer(c) /\ ~UsesServer(c)' /\ ~UsesClient(c) /\ UsesClient(c)'
    BY <1>1, <1>3 DEF UsesClient, UsesServer
  <2>2. sent[c] = {} /\ cell[c] \in Fds /\ fds[cell[c]] = Open(c, "client")
    BY <1>1, <1>4 DEF Ledger
  <2>3. \A n \in Fds : fds[n] # Open(c, "server") /\ (fds[n] = Open(c, "client") => n = cell[c])
    BY <1>1, <1>4, <2>1 DEF Ledger
  <2> QED BY <1>1, <1>3, <2>1, <2>2, <2>3 DEF Ledger
<1>6. ASSUME NEW d \in Conns, d # c PROVE Ledger(d)'
  BY <1>1, <1>3, <1>4, <1>6, LedgerFrame
<1> QED BY <1>1, <1>2, <1>5, <1>6 DEF FdInv

\* A socket is made for the server, or none is.
LEMMA FdOpenSocket ==
  ASSUME FdInv, NEW c \in Conns, OpenSocket(c)
  PROVE  FdInv'
<1>1. /\ pc[c] = "open"
      /\ UNCHANGED <<cell, client_fd, sent, flags, lines, served, length, received, cache, aborted>>
  BY DEF OpenSocket, At
<1>2. pc \in [Conns -> Labels]
  BY DEF FdInv, TypeOK
<1>3. \A d \in Conns : Ledger(d)
  BY DEF FdInv
<1>4. /\ sent[c] = {} /\ client_fd[c] \in Fds /\ fds[client_fd[c]] = Open(c, "client")
      /\ UsesClient(c) /\ ~UsesServer(c)
  BY <1>1, <1>3 DEF Ledger, UsesClient, UsesServer
<1>5. CASE Goto(c, "close client") /\ Failing(c) /\ UNCHANGED <<fds, server_fd>>
  <2>1. pc' = [pc EXCEPT ![c] = "close client"] /\ failed' = failed \cup {c}
    BY <1>5 DEF Goto, Failing
  <2>2. "close client" \in Labels
    BY DEF Labels
  <2>3. TypeOK'
    BY <1>1, <1>5, <2>1, <2>2, TypeQuiet DEF FdInv, TypeOK
  <2>4. pc'[c] = "close client" /\ (\A d \in Conns : d # c => pc'[d] = pc[d])
        /\ failed \subseteq failed' /\ served' \in [Conns -> Nat]
    BY <1>1, <1>2, <2>1 DEF FdInv
  <2>5. UsesClient(c)' /\ ~UsesServer(c)' /\ pc'[c] \notin {"request", "open", "connect"}
    BY <2>4 DEF UsesClient, UsesServer
  <2> QED BY <1>1, <1>4, <1>5, <2>3, <2>4, <2>5, FdQuiet
<1>6. CASE /\ Unused # {} /\ Goto(c, "connect")
           /\ fds' = [fds EXCEPT ![LowestFd] = Open(c, "server")]
           /\ server_fd' = [server_fd EXCEPT ![c] = LowestFd]
           /\ UNCHANGED failed
  <2>. DEFINE n == LowestFd
  <2>1. n \in Fds /\ fds[n] = FREE
    BY <1>6, LowestUnused
  <2>2. /\ fds' = [fds EXCEPT ![n] = Open(c, "server")]
        /\ server_fd' = [server_fd EXCEPT ![c] = n] /\ pc' = [pc EXCEPT ![c] = "connect"]
    BY <1>6 DEF Goto
  <2>. HIDE DEF n
  <2>3. TypeOK'
    <3>1. Open(c, "server") \in [conn : Conns, end : {"client", "server"}]
      BY DEF Open
    <3>2. /\ fds' \in [Fds -> {FREE, LISTEN} \cup [conn : Conns, end : {"client", "server"}]]
          /\ server_fd' \in [Conns -> Fds \cup {NoFd}]
      BY <2>1, <2>2, <3>1 DEF FdInv, TypeOK
    <3>3. pc' \in [Conns -> Labels]
      BY <1>2, <2>2 DEF Labels
    <3> QED BY <1>1, <1>6, <3>2, <3>3 DEF FdInv, TypeOK
  <2>4. fds'[0] = LISTEN
    BY <2>1, <2>2, EntriesDiffer DEF FdInv, TypeOK
  <2>5. /\ fds'[n] = Open(c, "server") /\ \A m \in Fds : m # n => fds'[m] = fds[m]
        /\ pc'[c] = "connect" /\ server_fd'[c] = n
        /\ \A d \in Conns : d # c => pc'[d] = pc[d] /\ server_fd'[d] = server_fd[d]
    BY <2>1, <2>2 DEF FdInv, TypeOK
  <2>6. Ledger(c)'
    <3>1. UsesClient(c)' /\ UsesServer(c)'
      BY <2>5 DEF UsesClient, UsesServer
    <3>2. \A m \in Fds : fds[m] # Open(c, "server") /\ (fds[m] = Open(c, "client") => m = client_fd[c])
      BY <1>1, <1>3, <1>4 DEF Ledger
    <3>3. \A m \in Fds : /\ fds'[m] = Open(c, "server") => m = n
                         /\ fds'[m] = Open(c, "client") => m = client_fd[c]
      BY <2>5, <3>2, EntriesDiffer
    <3>4. fds'[client_fd[c]] = Open(c, "client")
      BY <1>4, <2>1, <2>5, EntriesDiffer
    <3> QED BY <1>1, <1>4, <2>1, <2>5, <3>1, <3>3, <3>4 DEF Ledger
  <2>7. ASSUME NEW d \in Conns, d # c PROVE Ledger(d)'
    BY <1>1, <1>3, <1>6, <2>1, <2>5, <2>7, EntriesDiffer, LedgerFrame
  <2> QED BY <1>1, <2>3, <2>4, <2>6, <2>7 DEF FdInv
<1> QED BY <1>5, <1>6 DEF OpenSocket

\* close: the number is freed and the thread never uses it again.
LEMMA FdClose ==
  ASSUME FdInv, NEW c \in Conns, CloseServer(c) \/ CloseServerError(c) \/ CloseClient(c)
  PROVE  FdInv'
<1>. DEFINE n == IF pc[c] = "close client" THEN client_fd[c] ELSE server_fd[c]
            label == pc'[c]
<1>1. UNCHANGED <<cell, client_fd, server_fd, sent, flags, lines, served, length,
                  received, failed, cache, aborted>>
  BY DEF CloseServer, CloseServerError, CloseClient
<1>2. pc \in [Conns -> Labels] /\ fds \in [Fds -> {FREE, LISTEN} \cup [conn : Conns, end : {"client", "server"}]]
  BY DEF FdInv, TypeOK
<1>3. \A d \in Conns : Ledger(d)
  BY DEF FdInv
<1>4. /\ pc' = [pc EXCEPT ![c] = label] /\ label \in Labels
      /\ \/ pc[c] = "close server" /\ label = "shutdown"
         \/ pc[c] = "server error" /\ label = "close client"
         \/ pc[c] = "close client" /\ label = "done"
  BY <1>2 DEF CloseServer, CloseServerError, CloseClient, AfterServer, At, Goto, Labels
<1>5. UsesClient(c) /\ client_fd[c] \in Fds /\ fds[client_fd[c]] = Open(c, "client")
  BY <1>3, <1>4 DEF Ledger, UsesClient
<1>6. pc[c] # "close client" => UsesServer(c) /\ server_fd[c] \in Fds /\ fds[server_fd[c]] = Open(c, "server")
  BY <1>3, <1>4 DEF Ledger, UsesServer
<1>7. n \in Fds /\ fds[n] \in {Open(c, "client"), Open(c, "server")}
  BY <1>5, <1>6
<1>8. fds' = [fds EXCEPT ![n] = FREE]
  BY <1>7 DEF CloseServer, CloseServerError, CloseClient, Close, At
<1>9. TypeOK'
  BY <1>1, <1>4, <1>7, <1>8 DEF FdInv, TypeOK
<1>10. fds'[n] = FREE /\ \A m \in Fds : m # n => fds'[m] = fds[m]
  BY <1>2, <1>7, <1>8
<1>11. fds'[0] = LISTEN
  <2>1. 0 \in Fds /\ fds[0] = LISTEN
    BY ProxyAssumption DEF FdInv, Fds
  <2>2. n # 0
    BY <1>7, <2>1, EntriesDiffer
  <2> QED BY <1>10, <2>1, <2>2
<1>12. \A d \in Conns : d # c => pc'[d] = pc[d]
  BY <1>2, <1>4
<1>13. ASSUME NEW d \in Conns, d # c PROVE Ledger(d)'
  <2>1. /\ fds[n] # Open(d, "client") /\ fds'[n] # Open(d, "client")
        /\ fds[n] # Open(d, "server") /\ fds'[n] # Open(d, "server")
    <3> HIDE DEF n
    <3> QED BY <1>7, <1>10, <1>13, EntriesDiffer
  <2>2. \A m \in Fds : \/ fds'[m] = fds[m]
                       \/ /\ fds[m] # Open(d, "client") /\ fds'[m] # Open(d, "client")
                          /\ fds[m] # Open(d, "server") /\ fds'[m] # Open(d, "server")
    BY <1>10, <2>1
  <2> HIDE DEF n, label
  <2> QED BY <1>1, <1>3, <1>12, <1>13, <2>2, LedgerFrame
<1>14. Ledger(c)'
  <2>1. \A m \in Fds : fds[m] = Open(c, "client") => m = client_fd[c]
    <3>1. pc[c] # "created" /\ Ledger(c)
      BY <1>3, <1>4
    <3> QED BY <3>1 DEF Ledger
  <2>2. CASE pc[c] = "close client"
    <3>1. n = client_fd[c] /\ pc'[c] = "done"
      BY <1>4, <2>2
    <3>2. \A m \in Fds : fds[m] = Open(c, "server") => m = server_fd[c] /\ c \in failed /\ sent[c] = {}
      BY <1>3, <2>2 DEF Ledger, UsesServer
    <3>3. ~UsesClient(c)' /\ ~UsesServer(c)'
      BY <3>1 DEF UsesClient, UsesServer
    <3>4. \A m \in Fds : /\ fds'[m] # Open(c, "client")
                         /\ fds'[m] = Open(c, "server") => fds[m] = Open(c, "server")
      BY <1>10, <2>1, <3>1, EntriesDiffer
    <3> HIDE DEF n, label
    <3> QED BY <1>1, <3>1, <3>2, <3>3, <3>4 DEF Ledger
  <2>3. CASE pc[c] # "close client"
    <3>1. n = server_fd[c] /\ pc'[c] \in {"shutdown", "close client"}
      BY <1>4, <2>3
    <3>2. \A m \in Fds : fds[m] = Open(c, "server") => m = server_fd[c]
      BY <1>3 DEF Ledger
    <3>3. UsesClient(c)' /\ ~UsesServer(c)'
      BY <3>1 DEF UsesClient, UsesServer
    <3>4. \A m \in Fds : /\ fds'[m] # Open(c, "server")
                         /\ fds'[m] = Open(c, "client") => m = client_fd[c]
      BY <1>10, <2>1, <3>1, <3>2, EntriesDiffer
    <3>5. fds'[client_fd[c]] = Open(c, "client")
      BY <1>5, <1>6, <1>10, <2>3, <3>1, EntriesDiffer
    <3> HIDE DEF n, label
    <3> QED BY <1>1, <1>5, <3>1, <3>3, <3>4, <3>5 DEF Ledger
  <2> QED BY <2>2, <2>3
<1> QED BY <1>1, <1>9, <1>11, <1>13, <1>14 DEF FdInv

\* The invariant of the descriptor table is kept by every step.
LEMMA FdStep ==
  ASSUME FdInv, [Next]_vars
  PROVE  FdInv'
<1>1. CASE Next
  <2>1. PICK c \in Conns : Accept(c) \/ Waits(c) \/ Works(c)
    BY <1>1 DEF Next
  <2> QED BY <2>1, FdAccept, FdRequest, FdHeaders, FdReply, FdShutdown, FdStart,
             FdOpenSocket, FdClose DEF Waits, Works
<1>2. CASE UNCHANGED vars
  <2>1. TypeOK'
    BY <1>2 DEF vars, FdInv, TypeOK
  <2>2. ASSUME NEW d \in Conns PROVE Ledger(d)'
    BY <1>2, LedgerFrame DEF vars, FdInv
  <2> QED BY <1>2, <2>1, <2>2 DEF vars, FdInv
<1> QED BY <1>1, <1>2

\* A thread that is done is known to the table at most by its failed attempt.
LEMMA FdInvOwned == FdInv => FdsOwned
<1> SUFFICES ASSUME FdInv PROVE FdsOwned
  OBVIOUS
<1>1. ASSUME NEW c \in Conns, pc[c] = "done", NEW n \in Fds, fds[n].conn = c
      PROVE  c \in failed /\ sent[c] = {} /\ fds[n] = Open(c, "server") /\ n = server_fd[c]
  <2>1. fds[n] \in {FREE, LISTEN} \cup [conn : Conns, end : {"client", "server"}]
    BY DEF FdInv, TypeOK
  <2>2. fds[n] \notin {FREE, LISTEN}
    BY <1>1, ProxyAssumption DEF FREE, LISTEN
  <2>3. fds[n] \in [conn : Conns, end : {"client", "server"}]
    BY <2>1, <2>2
  <2>4. fds[n] \in {Open(c, "client"), Open(c, "server")}
    BY <1>1, <2>3 DEF Open
  <2>5. ~UsesClient(c) /\ ~UsesServer(c) /\ Ledger(c)
    BY <1>1 DEF UsesClient, UsesServer, FdInv
  <2> QED BY <1>1, <2>4, <2>5 DEF Ledger
<1>2. OnlyFailedConnectLeaks
  BY <1>1 DEF OnlyFailedConnectLeaks
<1> QED BY <1>2 DEF FdInv, FdsOwned, Ledger, CellOf

\* For any number of connections and any table size, a descriptor that a thread of
\* the proxy is going to use is open and its own, and a finished thread leaves none
\* open but the socket of a failed connection attempt.
THEOREM DescriptorsOwned == Spec => []FdsOwned
<1>1. Init => FdInv
  BY FdInit
<1>2. FdInv /\ [Next]_vars => FdInv'
  BY FdStep
<1> QED BY <1>1, <1>2, FdInvOwned, PTL DEF Spec

-----------------------------------------------------------------------------
(* The request and the response. *)

Early == {"connecting", "created", "request", "open", "connect", "send get", "headers",
          "end headers"}

\* The first n chunks of c's response.
Chunks(c, n) == [i \in 1 .. n |-> <<c, i>>]

Complete(c) == Required \cup {"end"} \subseteq sent[c]

Answered(c) ==
  \/ \E n \in 0 .. served[c] : received[c] = Chunks(c, n) /\ (n = served[c] \/ c \in failed)
  \/ served[c] = 0 /\ c \in failed /\ received[c] \in {<<"400">>, <<"501">>, <<"502">>}

\* How far the exchange between client and server is: nothing is received before
\* the headers have been sent, and as long as the reply is read the client has all of it.
Exchange(c) ==
  /\ "Keep-Alive" \notin sent[c] /\ flags[c] \subseteq sent[c]
  /\ pc[c] \in Early => served[c] = 0 /\ received[c] = <<>>
  /\ pc[c] \in {"reply", "insert"} => Complete(c) /\ received[c] = Chunks(c, served[c])
  /\ served[c] > 0 => Complete(c)
  /\ Answered(c)

ExchangeInv == FdInv /\ \A c \in Conns : Exchange(c)

\* What c's thread writes reaches c's client and nobody else.
LEMMA DeliveredOwn ==
  ASSUME FdInv, NEW c \in Conns, UsesClient(c), NEW msg
  PROVE  Delivered(client_fd[c], msg) = [received EXCEPT ![c] = Append(@, msg)]
<1>1. client_fd[c] \in Fds /\ fds[client_fd[c]] = Open(c, "client")
  BY DEF FdInv, Ledger
<1> QED BY <1>1 DEF Delivered, Open

\* No chunk is the empty response, and one more chunk is appended.
LEMMA ChunksGrow ==
  ASSUME NEW c \in Conns, NEW n \in Nat
  PROVE  Chunks(c, 0) = <<>> /\ Append(Chunks(c, n), <<c, n + 1>>) = Chunks(c, n + 1)
<1>1. Chunks(c, 0) = <<>>
  BY DEF Chunks
<1>2. Chunks(c, n) \in Seq(Conns \X Nat) /\ Len(Chunks(c, n)) = n
  BY DEF Chunks
<1>3. Append(Chunks(c, n), <<c, n + 1>>) = Chunks(c, n + 1)
  BY <1>2 DEF Chunks
<1> QED BY <1>1, <1>3

\* A step in which nothing of d's changes.
LEMMA ExchangeFrame ==
  ASSUME NEW d, Exchange(d), pc'[d] = pc[d], sent'[d] = sent[d], flags'[d] = flags[d],
         served'[d] = served[d], received'[d] = received[d], d \in failed => d \in failed'
  PROVE  Exchange(d)'
<1>1. Answered(d)'
  BY DEF Exchange, Answered
<1> QED BY <1>1 DEF Exchange, Complete

\* Before anybody connects.
LEMMA ExchangeInit == Init => ExchangeInv
<1> SUFFICES ASSUME Init, NEW c \in Conns PROVE Exchange(c)
  BY FdInit DEF ExchangeInv
<1>1. /\ pc[c] = "connecting" /\ sent[c] = {} /\ flags[c] = {} /\ served[c] = 0
      /\ received[c] = <<>>
  BY DEF Init
<1>2. Answered(c)
  BY <1>1, ChunksGrow DEF Answered
<1> QED BY <1>1, <1>2 DEF Exchange, Complete

\* Steps that send and receive nothing: they never go back before the reply, and
\* come to it with a complete request only.
LEMMA ExchangeQuiet ==
  ASSUME ExchangeInv, NEW c \in Conns,
         UNCHANGED <<sent, flags, served, received>>, failed \subseteq failed',
         \A d \in Conns : d # c => pc'[d] = pc[d],
         pc'[c] \in Early => pc[c] \in Early,
         pc'[c] \in {"reply", "insert"} => pc[c] \in {"reply", "insert"}
  PROVE  \A d \in Conns : Exchange(d)'
<1> SUFFICES ASSUME NEW d \in Conns PROVE Exchange(d)'
  OBVIOUS
<1>1. Exchange(d)
  BY DEF ExchangeInv
<1>2. CASE d # c
  BY <1>1, <1>2, ExchangeFrame
<1>3. CASE d = c
  <2>1. Answered(c)'
    BY <1>1, <1>3 DEF Exchange, Answered
  <2> QED BY <1>1, <1>3, <2>1 DEF Exchange, Complete
<1> QED BY <1>2, <1>3

\* The steps of that kind.
LEMMA ExchangeQuietSteps ==
  ASSUME ExchangeInv, NEW c \in Conns,
         \/ Accept(c) \/ Start(c) \/ OpenSocket(c) \/ SendGet(c) \/ EndReply(c)
         \/ RejectChunk(c) \/ EvictForChunk(c) \/ InsertChunk(c)
         \/ CloseServer(c) \/ CloseServerError(c) \/ Shutdown(c) \/ Drain(c) \/ CloseClient(c)
  PROVE  \A d \in Conns : Exchange(d)'
<1>1. UNCHANGED <<sent, flags, served, received>>
  BY DEF Accept, Start, OpenSocket, SendGet, EndReply, RejectChunk, EvictForChunk, InsertChunk,
         CacheStep, CloseServer, CloseServerError, Shutdown, Drain, CloseClient
<1>2. failed' \in {failed, failed \cup {c}}
  BY DEF Accept, Start, OpenSocket, SendGet, EndReply, RejectChunk, EvictForChunk, InsertChunk,
         CacheStep, CloseServer, CloseServerError, Shutdown, Drain, CloseClient, ServerError, Failing
<1>3. pc \in [Conns -> Labels]
  BY DEF ExchangeInv, FdInv, TypeOK
<1>4. \/ pc' = [pc EXCEPT ![c] = "created"] /\ pc[c] = "connecting"
      \/ pc' = [pc EXCEPT ![c] = "request"] /\ pc[c] = "created"
      \/ pc' = [pc EXCEPT ![c] = "connect"] /\ pc[c] = "open"
      \/ pc' = [pc EXCEPT ![c] = "headers"] /\ pc[c] = "send get"
      \/ pc' = [pc EXCEPT ![c] = "insert"] /\ pc[c] = "insert"
      \/ pc' = [pc EXCEPT ![c] = "reply"] /\ pc[c] = "insert"
      \/ \E l \in {"close client", "server error", "close server", "shutdown", "drain", "done"} :
           pc' = [pc EXCEPT ![c] = l]
  <2>1. CASE Accept(c) \/ Start(c) \/ OpenSocket(c) \/ SendGet(c)
    BY <2>1 DEF Accept, Start, OpenSocket, SendGet, ServerError, At, Goto
  <2>2. CASE EndReply(c) \/ RejectChunk(c) \/ EvictForChunk(c) \/ InsertChunk(c)
    BY <2>2 DEF EndReply, RejectChunk, EvictForChunk, InsertChunk, CacheStep, At, Goto
  <2>3. CASE CloseServer(c) \/ CloseServerError(c) \/ Shutdown(c) \/ Drain(c) \/ CloseClient(c)
    BY <2>3 DEF CloseServer, CloseServerError, Shutdown, Drain, CloseClient, AfterServer, Goto
  <2> QED BY <2>1, <2>2, <2>3
<1>5. /\ \A d \in Conns : d # c => pc'[d] = pc[d]
      /\ pc'[c] \in Early => pc[c] \in Early
      /\ pc'[c] \in {"reply", "insert"} => pc[c] \in {"reply", "insert"}
  BY <1>3, <1>4 DEF Early
<1>6. failed \subseteq failed'
  BY <1>2
<1> QED BY <1>1, <1>5, <1>6, ExchangeQuiet

\* A request is read, a connection made: the only thing a client can get is one
\* status page, and the thread has nothing else to tell it.
LEMMA ExchangeRequest ==
  ASSUME ExchangeInv, NEW c \in Conns, ReadRequest(c) \/ Connect(c)
  PROVE  \A d \in Conns : Exchange(d)'
<1>1. FdInv /\ pc \in [Conns -> Labels] /\ DOMAIN received = Conns
  BY DEF ExchangeInv, FdInv, TypeOK
<1>2. UNCHANGED <<sent, flags, served>> /\ pc[c] \in {"request", "connect"}
  BY DEF ReadRequest, Connect, At
<1>3. CASE (Goto(c, "open") \/ Goto(c, "send get")) /\ UNCHANGED <<received, failed>>
  <2>1. /\ \A d \in Conns : d # c => pc'[d] = pc[d]
        /\ pc'[c] \in {"open", "send get"}
    BY <1>1, <1>3 DEF Goto
  <2>2. /\ pc'[c] \in Early => pc[c] \in Early
        /\ pc'[c] \in {"reply", "insert"} => pc[c] \in {"reply", "insert"}
    BY <1>2, <2>1 DEF Early
  <2> QED BY <1>2, <1>3, <2>1, <2>2, ExchangeQuiet
<1>4. CASE \E status \in {"400", "501", "502"} : GiveUp(c, status)
  <2>1. PICK status \in {"400", "501", "502"} : GiveUp(c, status)
    BY <1>4
  <2>2. /\ pc' = [pc EXCEPT ![c] = "close client"] /\ failed' = failed \cup {c}
        /\ received' = Delivered(client_fd[c], status) \/ received' = received
    BY <2>1 DEF GiveUp, Goto, Failing
  <2>3. UsesClient(c)
    BY <1>2 DEF UsesClient
  <2>4. received' = [received EXCEPT ![c] = Append(@, status)] \/ received' = received
    BY <1>1, <2>2, <2>3, DeliveredOwn
  <2>5. served[c] = 0 /\ received[c] = <<>> /\ Exchange(c)
    BY <1>2 DEF ExchangeInv, Exchange, Early
  <2>6. received'[c] \in {<<>>, <<status>>}
    BY <1>1, <2>4, <2>5
  <2>7. Answered(c)'
    <3>1. served'[c] = 0 /\ c \in failed'
      BY <1>2, <2>2, <2>5
    <3>2. CASE received'[c] = <<>>
      BY <3>1, <3>2, ChunksGrow DEF Answered
    <3>3. CASE received'[c] = <<status>>
      BY <3>1, <3>3 DEF Answered
    <3> QED BY <2>6, <3>2, <3>3
  <2>8. pc'[c] = "close client"
    BY <1>1, <2>2
  <2>9. Exchange(c)'
    BY <1>2, <2>5, <2>7, <2>8 DEF Exchange, Early, Complete
  <2>10. ASSUME NEW d \in Conns, d # c PROVE Exchange(d)'
    BY <1>1, <1>2, <2>2, <2>4, <2>10, ExchangeFrame DEF ExchangeInv
  <2> QED BY <2>9, <2>10
<1> QED BY <1>3, <1>4 DEF ReadRequest, Connect

\* Headers: the flags only claim what was forwarded, so that what is added at the
\* blank line completes the request.
LEMMA ExchangeHeaders ==
  ASSUME ExchangeInv, NEW c \in Conns, ReadHeader(c) \/ EndHeaders(c)
  PROVE  \A d \in Conns : Exchange(d)'
<1>1. /\ pc \in [Conns -> Labels] /\ sent \in [Conns -> SUBSET (Headers \cup {"end"})]
      /\ flags \in [Conns -> SUBSET Required]
  BY DEF ExchangeInv, FdInv, TypeOK
<1>2. UNCHANGED <<served, received>> /\ pc[c] \in {"headers", "end headers"}
  BY DEF ReadHeader, EndHeaders, At
<1>3. Exchange(c) /\ served[c] = 0 /\ received[c] = <<>>
  BY <1>2 DEF ExchangeInv, Exchange, Early
<1>4. failed' \in {failed, failed \cup {c}}
  BY DEF ReadHeader, EndHeaders, ServerError, Failing
<1>5. Answered(c)'
  <2>1. served'[c] = 0 /\ received'[c] = Chunks(c, 0)
    BY <1>2, <1>3, ChunksGrow
  <2> QED BY <2>1 DEF Answered
<1>6. /\ "Keep-Alive" \notin sent'[c] /\ flags'[c] \subseteq sent'[c]
      /\ pc'[c] \in {"headers", "end headers", "server error", "close server"} \/ (pc'[c] = "reply" /\ Complete(c)')
      /\ \A d \in Conns : d # c => pc'[d] = pc[d] /\ sent'[d] = sent[d] /\ flags'[d] = flags[d]
  <2>1. "Keep-Alive" \notin sent[c] /\ flags[c] \subseteq sent[c]
    BY <1>3 DEF Exchange
  <2>2. CASE ReadHeader(c)
    <3>1. CASE /\ \E h \in Headers : /\ sent'  = [sent EXCEPT ![c] = @ \cup Forwarded(h)]
                                     /\ flags' = [flags EXCEPT ![c] = @ \cup Marked(h)]
               /\ UNCHANGED pc
      <4>1. PICK h \in Headers : /\ sent'  = [sent EXCEPT ![c] = @ \cup Forwarded(h)]
                                 /\ flags' = [flags EXCEPT ![c] = @ \cup Marked(h)]
        BY <3>1
      <4>2. "Keep-Alive" \notin Forwarded(h) /\ Marked(h) \subseteq Forwarded(h)
        BY DEF Forwarded, Marked, Required
      <4> QED BY <1>1, <1>2, <2>1, <3>1, <4>1, <4>2
    <3>2. CASE UNCHANGED <<sent, flags>> /\ (Goto(c, "end headers") \/ Goto(c, "server error"))
      BY <1>1, <2>1, <3>2 DEF Goto
    <3> QED BY <2>2, <3>1, <3>2 DEF ReadHeader, ServerError
  <2>3. CASE EndHeaders(c)
    <3>1. CASE /\ sent' = [sent EXCEPT ![c] = @ \cup (Required \ flags[c]) \cup {"end"}]
               /\ Goto(c, IF contains(cache[c]) THEN "close server" ELSE "reply")
      <4>1. sent'[c] = sent[c] \cup (Required \ flags[c]) \cup {"end"} /\ flags'[c] = flags[c]
        BY <1>1, <2>3, <3>1 DEF EndHeaders
      <4>2. Complete(c)'
        BY <2>1, <4>1 DEF Complete
      <4>3. "Keep-Alive" \notin sent'[c]
        BY <2>1, <4>1 DEF Required
      <4>4. pc'[c] \in {"close server", "reply"}
        BY <1>1, <3>1 DEF Goto
      <4>5. \A d \in Conns : d # c => pc'[d] = pc[d] /\ sent'[d] = sent[d] /\ flags'[d] = flags[d]
        BY <1>1, <2>3, <3>1 DEF EndHeaders, Goto
      <4> QED BY <2>1, <4>1, <4>2, <4>3, <4>4, <4>5
    <3>2. CASE UNCHANGED sent /\ Goto(c, "server error")
      BY <1>1, <2>1, <2>3, <3>2 DEF EndHeaders, Goto
    <3> QED BY <2>3, <3>1, <3>2 DEF EndHeaders, ServerError
  <2> QED BY <2>2, <2>3
<1>7. Exchange(c)'
  <2>1. pc'[c] \in {"reply", "insert"} => Complete(c)' /\ received'[c] = Chunks(c, served'[c])
    BY <1>2, <1>3, <1>6, ChunksGrow
  <2>2. served'[c] = 0 /\ received'[c] = <<>>
    BY <1>2, <1>3
  <2>3. ~(served'[c] > 0)
    BY <2>2
  <2> QED BY <1>5, <1>6, <2>1, <2>2, <2>3, Zenon DEF Exchange
<1>8. ASSUME NEW d \in Conns, d # c PROVE Exchange(d)'
  BY <1>2, <1>4, <1>6, <1>8, ExchangeFrame DEF ExchangeInv
<1> QED BY <1>7, <1>8

\* A chunk goes to the client, or the thread gives up before it is written.
LEMMA ExchangeForward ==
  ASSUME ExchangeInv, NEW c \in Conns, ForwardChunk(c)
  PROVE  \A d \in Conns : Exchange(d)'
<1>1. /\ FdInv /\ pc \in [Conns -> Labels] /\ DOMAIN received = Conns /\ served \in [Conns -> Nat]
  BY DEF ExchangeInv, FdInv, TypeOK
<1>2. pc[c] = "reply" /\ UNCHANGED <<sent, flags>> /\ served' = [served EXCEPT ![c] = @ + 1]
  BY DEF ForwardChunk, At
<1>3. Exchange(c) /\ Complete(c) /\ received[c] = Chunks(c, served[c]) /\ UsesClient(c)
  BY <1>2 DEF ExchangeInv, Exchange, UsesClient
<1>4. served'[c] = served[c] + 1 /\ served[c] \in Nat /\ Complete(c)'
  BY <1>1, <1>2, <1>3 DEF Complete
<1>5. CASE received' = Delivered(client_fd[c], <<c, served[c] + 1>>) /\ Goto(c, "insert") /\ UNCHANGED failed
  <2>1. received' = [received EXCEPT ![c] = Append(@, <<c, served[c] + 1>>)]
    BY <1>1, <1>3, <1>5, DeliveredOwn
  <2>2. received'[c] = Chunks(c, served'[c])
    BY <1>1, <1>3, <1>4, <2>1, ChunksGrow
  <2>3. Answered(c)'
    BY <1>4, <2>2 DEF Answered
  <2>4. pc'[c] = "insert"
    BY <1>1, <1>5 DEF Goto
  <2>5. Exchange(c)'
    BY <1>2, <1>3, <1>4, <2>2, <2>3, <2>4 DEF Exchange, Early
  <2>6. ASSUME NEW d \in Conns, d # c PROVE Exchange(d)'
    BY <1>1, <1>2, <1>5, <2>1, <2>6, ExchangeFrame DEF ExchangeInv, Goto
  <2> QED BY <2>5, <2>6
<1>6. CASE Goto(c, "close server") /\ Failing(c) /\ UNCHANGED received
  <2>1. received'[c] = Chunks(c, served[c]) /\ c \in failed' /\ pc'[c] = "close server"
    BY <1>1, <1>3, <1>6 DEF Goto, Failing
  <2>2. Answered(c)'
    <3>1. served[c] \in 0 .. served'[c]
      BY <1>4
    <3>2. \E n \in 0 .. served'[c] : received'[c] = Chunks(c, n) /\ (n = served'[c] \/ c \in failed')
      BY <2>1, <3>1
    <3> QED BY <3>2 DEF Answered
  <2>3. Exchange(c)'
    BY <1>2, <1>3, <1>4, <2>1, <2>2 DEF Exchange, Early
  <2>4. ASSUME NEW d \in Conns, d # c PROVE Exchange(d)'
    BY <1>1, <1>2, <1>6, <2>4, ExchangeFrame DEF ExchangeInv, Goto, Failing
  <2> QED BY <2>3, <2>4
<1> QED BY <1>5, <1>6 DEF ForwardChunk

\* The invariant of the exchange is kept by every step.
LEMMA ExchangeStep ==
  ASSUME ExchangeInv, [Next]_vars
  PROVE  ExchangeInv'
<1>1. FdInv'
  BY FdStep DEF ExchangeInv
<1>2. CASE Next
  <2>1. PICK c \in Conns : Accept(c) \/ Waits(c) \/ Works(c)
    BY <1>2 DEF Next
  <2>2. \A d \in Conns : Exchange(d)'
    BY <2>1, ExchangeQuietSteps, ExchangeRequest, ExchangeHeaders, ExchangeForward DEF Waits, Works
  <2> QED BY <1>1, <2>2 DEF ExchangeInv
<1>3. CASE UNCHANGED vars
  <2>1. ASSUME NEW d \in Conns PROVE Exchange(d)'
    BY <1>3, ExchangeFrame DEF vars, ExchangeInv
  <2> QED BY <1>1, <2>1 DEF ExchangeInv
<1> QED BY <1>2, <1>3

\* For any number of connections, a request that went out has its Host and Connection
\* headers and no Keep-Alive, whatever headers the client sent and in whatever order.
THEOREM RequestsComplete == Spec => []RequestComplete
<1>1. ExchangeInv /\ [Next]_vars => ExchangeInv'
  BY ExchangeStep
<1>2. ExchangeInv => RequestComplete
  BY DEF ExchangeInv, Exchange, Complete, RequestComplete
<1> QED BY <1>1, <1>2, ExchangeInit, PTL DEF Spec

\* For any number of connections, a client gets the chunks of its own response, in
\* order and without a gap, all of them unless a system call failed, or one status page.
THEOREM RepliesFaithful == Spec => []ReplyFaithful
<1>1. ExchangeInv /\ [Next]_vars => ExchangeInv'
  BY ExchangeStep
<1>2. ExchangeInv => ReplyFaithful
  BY DEF ExchangeInv, Exchange, Answered, Chunks, ReplyFaithful
<1> QED BY <1>1, <1>2, ExchangeInit, PTL DEF Spec

-----------------------------------------------------------------------------
(* The cache of a request. *)

Node  == [prev : Nat, next : Nat, hash_table_next : Nat]
Cache == [size : 0 .. MAX_CACHE_SIZE - 1, lock : BOOLEAN, front : Nat, back : Nat, arr : Nat,
          nodes : Seq(Node), freed : SUBSET Nat, head : Nat, ok : BOOLEAN]

\* As long as nothing has been evicted, the nodes from the first to the front of the
\* queue are linked both ways in the order of their numbers, and the others not at all.
Shape(q) ==
  /\ q.front \in 0 .. Len(q.nodes)
  /\ q.arr = (IF q.front = 0 THEN 0 ELSE 1) /\ q.back = q.arr
  /\ \A i \in 1 .. Len(q.nodes) :
       /\ q.nodes[i].hash_table_next = IF i < q.front THEN i + 1 ELSE 0
       /\ q.nodes[i].prev = IF i < q.front THEN i + 1 ELSE 0
       /\ q.nodes[i].next = IF 1 < i /\ i <= q.front THEN i - 1 ELSE 0

\* Once a response is too long no node is linked any more; until then the node of the
\* insertion under way is the only one that is not.
Stored(c) ==
  /\ cache[c] \in Cache /\ (aborted \/ cache[c].ok)
  /\ cache[c].freed = {} =>
       /\ Shape(cache[c])
       /\ pc[c] = "insert" => cache[c].head = cache[c].arr
       /\ \/ TooBig(length[c])
          \/ Len(cache[c].nodes) = cache[c].front + (IF pc[c] = "insert" THEN 1 ELSE 0)

CacheInv == FdInv /\ \A c \in Conns : Stored(c)

\* Changing a node of a sequence of nodes.
LEMMA NodeChanged ==
  ASSUME NEW s \in Seq(Node), NEW i, NEW e, i \in 1 .. Len(s) => e \in Node
  PROVE  [s EXCEPT ![i] = e] \in Seq(Node) /\ Len([s EXCEPT ![i] = e]) = Len(s)
<1>1. CASE i \in 1 .. Len(s)
  BY <1>1
<1>2. CASE i \notin 1 .. Len(s)
  <2>1. [s EXCEPT ![i] = e] = s
    BY <1>2
  <2> QED BY <2>1
<1> QED BY <1>1, <1>2

\* The cache a thread begins with.
LEMMA NewCache == init_cache \in Cache /\ init_cache.freed = {} /\ Shape(init_cache) /\ init_cache.nodes = <<>> /\ init_cache.front = 0
<1>1. init_cache \in Cache
  BY CacheAssumption DEF init_cache, Cache, NIL
<1>2. init_cache.freed = {} /\ init_cache.nodes = <<>> /\ init_cache.front = 0
      /\ init_cache.arr = 0 /\ init_cache.back = 0
  BY DEF init_cache, NIL
<1> QED BY <1>1, <1>2 DEF Shape

\* A new node is linked nowhere yet.
LEMMA Entered ==
  ASSUME NEW q \in Cache
  PROVE  /\ EnterInsert(q) \in Cache /\ EnterInsert(q).freed = q.freed
         /\ EnterInsert(q).head = q.arr /\ EnterInsert(q).arr = q.arr
         /\ EnterInsert(q).front = q.front /\ EnterInsert(q).ok = q.ok
         /\ Len(EnterInsert(q).nodes) = Len(q.nodes) + 1
         /\ Shape(q) => Shape(EnterInsert(q))
<1>. DEFINE r == EnterInsert(q)
<1>1. init_node \in Node /\ init_node = [prev |-> 0, next |-> 0, hash_table_next |-> 0]
  BY DEF init_node, Node, NIL
<1>2. q.nodes \in Seq(Node)
  BY DEF Cache
<1>3. /\ r.nodes = Append(q.nodes, init_node) /\ r.head = q.arr /\ r.arr = q.arr /\ r.back = q.back
      /\ r.front = q.front /\ r.freed = q.freed /\ r.ok = q.ok /\ r.size = q.size
  BY DEF EnterInsert, Cache
<1>4. r.nodes \in Seq(Node) /\ Len(r.nodes) = Len(q.nodes) + 1
  BY <1>1, <1>2, <1>3
<1>5. r \in Cache
  <2>1. /\ r.size \in 0 .. MAX_CACHE_SIZE - 1 /\ r.front \in Nat /\ r.back \in Nat /\ r.arr \in Nat
        /\ r.freed \in SUBSET Nat /\ r.head \in Nat /\ r.ok \in BOOLEAN
    BY <1>3 DEF Cache
  <2>2. r = [q EXCEPT !.lock = TRUE, !.nodes = r.nodes, !.head = q.arr]
    BY DEF EnterInsert, Cache
  <2>3. r.nodes \in Seq(Node)
    BY <1>4
  <2>. HIDE DEF r
  <2> QED BY <2>1, <2>2, <2>3 DEF Cache
<1>6. ASSUME Shape(q) PROVE Shape(r)
  <2>1. r.front \in 0 .. Len(r.nodes)
    BY <1>2, <1>3, <1>4, <1>6 DEF Shape
  <2>2. ASSUME NEW i \in 1 .. Len(r.nodes)
        PROVE  /\ r.nodes[i].hash_table_next = IF i < r.front THEN i + 1 ELSE 0
               /\ r.nodes[i].prev = IF i < r.front THEN i + 1 ELSE 0
               /\ r.nodes[i].next = IF 1 < i /\ i <= r.front THEN i - 1 ELSE 0
    <3>1. CASE i \in 1 .. Len(q.nodes)
      <4>1. r.nodes[i] = q.nodes[i]
        BY <1>1, <1>2, <1>3, <3>1
      <4> QED BY <1>3, <1>6, <3>1, <4>1 DEF Shape
    <3>2. CASE i = Len(q.nodes) + 1
      <4>1. r.nodes[i] = init_node
        BY <1>2, <1>3, <3>2
      <4>2. ~(i < r.front) /\ ~(i <= r.front)
        BY <1>2, <1>3, <1>6, <3>2 DEF Shape
      <4>3. r.nodes[i].hash_table_next = 0 /\ r.nodes[i].prev = 0 /\ r.nodes[i].next = 0
        BY <1>1, <4>1
      <4> HIDE DEF r
      <4> QED BY <4>2, <4>3
    <3> QED BY <1>2, <1>4, <3>1, <3>2
  <2>3. r.arr = (IF r.front = 0 THEN 0 ELSE 1) /\ r.back = r.arr
    BY <1>3, <1>6 DEF Shape
  <2> HIDE DEF r
  <2> QED BY <2>1, <2>2, <2>3 DEF Shape
<1> QED BY <1>3, <1>4, <1>5, <1>6

\* A field of a node is overwritten with the number of a node.
LEMMA NodeField ==
  ASSUME NEW e \in Node, NEW v \in Nat
  PROVE  /\ [e EXCEPT !.next = v] \in Node /\ [e EXCEPT !.prev = v] \in Node
         /\ [e EXCEPT !.hash_table_next = v] \in Node
BY DEF Node

\* The same in a cache.
LEMMA FieldChanged ==
  ASSUME NEW q \in Cache, NEW i, NEW v \in Nat
  PROVE  /\ [q EXCEPT !.nodes[i].next = v] \in Cache
         /\ [q EXCEPT !.nodes[i].prev = v] \in Cache
         /\ [q EXCEPT !.nodes[i].hash_table_next = v] \in Cache
<1>1. q.nodes \in Seq(Node)
  BY DEF Cache
<1>2. /\ i \in 1 .. Len(q.nodes) => [q.nodes[i] EXCEPT !.next = v] \in Node
      /\ i \in 1 .. Len(q.nodes) => [q.nodes[i] EXCEPT !.prev = v] \in Node
      /\ i \in 1 .. Len(q.nodes) => [q.nodes[i] EXCEPT !.hash_table_next = v] \in Node
  <2>1. i \in 1 .. Len(q.nodes) => q.nodes[i] \in Node
    BY <1>1
  <2> QED BY <2>1, NodeField
<1>3. ASSUME NEW s \in Seq(Node) PROVE [q EXCEPT !.nodes = s] \in Cache
  BY DEF Cache
<1>4. /\ [q.nodes EXCEPT ![i] = [q.nodes[i] EXCEPT !.next = v]] \in Seq(Node)
      /\ [q.nodes EXCEPT ![i] = [q.nodes[i] EXCEPT !.prev = v]] \in Seq(Node)
      /\ [q.nodes EXCEPT ![i] = [q.nodes[i] EXCEPT !.hash_table_next = v]] \in Seq(Node)
  BY <1>1, <1>2, NodeChanged
<1>5. /\ [q EXCEPT !.nodes[i].next = v] = [q EXCEPT !.nodes = [q.nodes EXCEPT ![i] = [q.nodes[i] EXCEPT !.next = v]]]
      /\ [q EXCEPT !.nodes[i].prev = v] = [q EXCEPT !.nodes = [q.nodes EXCEPT ![i] = [q.nodes[i] EXCEPT !.prev = v]]]
      /\ [q EXCEPT !.nodes[i].hash_table_next = v]
           = [q EXCEPT !.nodes = [q.nodes EXCEPT ![i] = [q.nodes[i] EXCEPT !.hash_table_next = v]]]
  BY DEF Cache
<1> QED BY <1>3, <1>4, <1>5

\* An eviction subtracts a length that is smaller than the size: the cache is nearly
\* full, and an object is at most half of it.
LEMMA Evicted ==
  ASSUME NEW q \in Cache, NEW len \in Nat, ~TooBig(len), Full(q, len)
  PROVE  /\ cache_remove(q, len) \in Cache
         /\ cache_remove(q, len).freed = {} => cache_remove(q, len) = [q EXCEPT !.ok = FALSE]
<1>1. CASE ~Allocated(q, q.back)
  BY <1>1 DEF cache_remove, Cache
<1>2. CASE Allocated(q, q.back)
  <2>1. dequeue(q) \in Cache /\ dequeue(q).size = q.size
    <3>1. dequeue(q) \in {q, [q EXCEPT !.front = NIL], [q EXCEPT !.nodes[q.nodes[q.back].prev].next = NIL]}
      BY DEF dequeue
    <3>2. [q EXCEPT !.nodes[q.nodes[q.back].prev].next = NIL] \in Cache
      BY FieldChanged DEF NIL
    <3>3. [q EXCEPT !.front = NIL] \in Cache
      BY DEF Cache, NIL
    <3>4. [q EXCEPT !.front = NIL].size = q.size /\ [q EXCEPT !.nodes[q.nodes[q.back].prev].next = NIL].size = q.size
      BY DEF Cache
    <3> QED BY <3>1, <3>2, <3>3, <3>4
  <2>2. q.size - len \in 0 .. MAX_CACHE_SIZE - 1
    <3>1. q.size \in 0 .. MAX_CACHE_SIZE - 1 /\ len < MAX_OBJECT_SIZE /\ q.size + len >= MAX_CACHE_SIZE
      BY CacheAssumption DEF Cache, TooBig, Full
    <3> QED BY <3>1, CacheAssumption
  <2>. DEFINE d == dequeue(q)
             r == [d EXCEPT !.freed = @ \cup {q.arr}, !.arr = NIL, !.size = @ - len]
  <2>3. cache_remove(q, len) = r
    BY <1>2 DEF cache_remove
  <2>4. q.arr \in Nat
    BY DEF Cache
  <2>. HIDE DEF d
  <2>5. d \in Cache /\ d.size = q.size
    BY <2>1 DEF d
  <2>6. r \in Cache /\ r.freed # {}
    BY <2>2, <2>4, <2>5 DEF Cache, NIL
  <2> QED BY <2>3, <2>6
<1> QED BY <1>1, <1>2

\* The end of the chain is the node in front of the queue.
LEMMA EndOfChain ==
  ASSUME NEW q \in Cache, Shape(q), q.head = 1, q.front > 0
  PROVE  ChainEnd(q) = q.front
<1>. DEFINE X == ({q.head} \cup {q.nodes[m].hash_table_next : m \in DOMAIN q.nodes}) \ {NIL}
<1>1. /\ q.nodes \in Seq(Node) /\ DOMAIN q.nodes = 1 .. Len(q.nodes)
      /\ q.front \in 1 .. Len(q.nodes) /\ Len(q.nodes) \in Nat
  BY DEF Cache, Shape
<1>2. \A m \in 1 .. Len(q.nodes) : q.nodes[m].hash_table_next = IF m < q.front THEN m + 1 ELSE 0
  BY DEF Shape
<1>3. q.front \in X
  <2>1. CASE q.front = 1
    BY <2>1 DEF NIL
  <2>2. CASE q.front > 1
    <3>1. q.front - 1 \in 1 .. Len(q.nodes) /\ q.nodes[q.front - 1].hash_table_next = q.front
      BY <1>1, <1>2, <2>2
    <3> QED BY <1>1, <2>2, <3>1 DEF NIL
  <2> QED BY <1>1, <2>1, <2>2
<1>4. q.nodes[q.front].hash_table_next = NIL
  BY <1>1, <1>2 DEF NIL
<1>5. ASSUME NEW n \in X, q.nodes[n].hash_table_next = NIL PROVE n = q.front
  <2>1. n \in 1 .. q.front
    BY <1>1, <1>2, <1>5 DEF NIL
  <2>2. n \in 1 .. Len(q.nodes) /\ ~(n < q.front)
    BY <1>1, <1>2, <1>5, <2>1 DEF NIL
  <2> QED BY <1>1, <2>1, <2>2
<1>6. ChainEnd(q) = CHOOSE n \in X : q.nodes[n].hash_table_next = NIL
  BY DEF ChainEnd
<1>. HIDE DEF X
<1> QED BY <1>3, <1>4, <1>5, <1>6

\* Linking keeps the size below the limit and frees nothing.
LEMMA LinkedType ==
  ASSUME NEW q \in Cache, NEW len \in Nat, ~Full(q, len)
  PROVE  LeaveInsert(q, len) \in Cache /\ LeaveInsert(q, len).freed = q.freed
<1>. DEFINE n == Len(q.nodes)
            linked == AddToBin(q, n)
            p == [linked EXCEPT !.size = @ + len, !.lock = FALSE]
<1>1. n \in Nat
  BY DEF Cache
<1>2. linked \in Cache /\ linked.freed = q.freed /\ linked.size = q.size
  <2>. HIDE DEF n
  <2>1. linked \in {[q EXCEPT !.arr = n], [q EXCEPT !.ok = FALSE], [q EXCEPT !.nodes[ChainEnd(q)].hash_table_next = n]}
    BY DEF AddToBin
  <2>2. [q EXCEPT !.nodes[ChainEnd(q)].hash_table_next = n] \in Cache
    BY <1>1, FieldChanged
  <2>3. [q EXCEPT !.arr = n] \in Cache /\ [q EXCEPT !.ok = FALSE] \in Cache
    BY <1>1 DEF Cache
  <2>4. \A v, i : /\ [q EXCEPT !.arr = v].freed = q.freed /\ [q EXCEPT !.arr = v].size = q.size
                  /\ [q EXCEPT !.ok = v].freed = q.freed /\ [q EXCEPT !.ok = v].size = q.size
                  /\ [q EXCEPT !.nodes[i].hash_table_next = v].freed = q.freed
                  /\ [q EXCEPT !.nodes[i].hash_table_next = v].size = q.size
    BY DEF Cache
  <2>. HIDE DEF linked
  <2>5. CASE linked = [q EXCEPT !.arr = n]
    BY <2>3, <2>4, <2>5
  <2>6. CASE linked = [q EXCEPT !.ok = FALSE]
    BY <2>3, <2>4, <2>6
  <2>7. CASE linked = [q EXCEPT !.nodes[ChainEnd(q)].hash_table_next = n]
    BY <2>2, <2>4, <2>7
  <2> QED BY <2>1, <2>5, <2>6, <2>7
<1>3. q.size + len \in 0 .. MAX_CACHE_SIZE - 1
  BY CacheAssumption DEF Cache, Full
<1>. HIDE DEF n, linked
<1>4. p \in Cache /\ p.freed = q.freed
  BY <1>2, <1>3 DEF Cache
<1>. HIDE DEF p
<1>5. enqueue(p, n) \in Cache /\ enqueue(p, n).freed = q.freed
  <2>. DEFINE p1 == [p EXCEPT !.nodes[n].next = p.front]
              p2 == [p1 EXCEPT !.nodes[p.front].prev = n]
  <2>1. p.front \in Nat
    BY <1>4 DEF Cache
  <2>2. p1 \in Cache /\ p1.freed = p.freed
    BY <1>4, <2>1, FieldChanged DEF Cache
  <2>. HIDE DEF p1
  <2>3. p2 \in Cache /\ p2.freed = p.freed
    BY <1>1, <2>2, FieldChanged DEF Cache
  <2>. HIDE DEF p2
  <2>4. [p2 EXCEPT !.front = n] \in Cache /\ [p2 EXCEPT !.front = n].freed = p.freed
    BY <1>1, <2>3 DEF Cache
  <2>5. [p EXCEPT !.nodes[n].next = p.front, !.nodes[p.front].prev = n, !.front = n] = [p2 EXCEPT !.front = n]
    BY DEF p1, p2
  <2>6. /\ [p EXCEPT !.front = n, !.back = n] \in Cache /\ [p EXCEPT !.front = n, !.back = n].freed = p.freed
        /\ [p EXCEPT !.ok = FALSE] \in Cache /\ [p EXCEPT !.ok = FALSE].freed = p.freed
    BY <1>1, <1>4 DEF Cache
  <2> QED BY <1>4, <2>4, <2>5, <2>6 DEF enqueue
<1>6. LeaveInsert(q, len) = IF ~linked.ok THEN linked ELSE enqueue(p, n)
  BY DEF LeaveInsert, linked, n, p
<1> QED BY <1>2, <1>5, <1>6

\* The new node is linked behind the end of the chain and in front of the queue.
LEMMA LinkedShape ==
  ASSUME NEW q \in Cache, NEW len \in Nat, Shape(q), q.freed = {}, q.ok, q.head = q.arr,
         Len(q.nodes) = q.front + 1
  PROVE  Shape(LeaveInsert(q, len)) /\ LeaveInsert(q, len).front = Len(LeaveInsert(q, len).nodes)
<1>. DEFINE n == Len(q.nodes)
            linked == AddToBin(q, n)
            p == [linked EXCEPT !.size = @ + len, !.lock = FALSE]
            r == LeaveInsert(q, len)
<1>1. q.nodes \in Seq(Node) /\ n \in Nat /\ q.front \in Nat /\ n = q.front + 1 /\ DOMAIN q.nodes = 1 .. n
  BY DEF Cache, Shape
<1>2. r = IF ~linked.ok THEN linked ELSE enqueue(p, n)
  BY DEF LeaveInsert
<1>3. CASE q.front = 0
  <2>1. q.arr = 0 /\ q.back = 0 /\ n = 1 /\ q.head = 0
    BY <1>1, <1>3 DEF Shape
  <2>2. linked = [q EXCEPT !.arr = n]
    BY <2>1 DEF AddToBin, NIL
  <2>. HIDE DEF linked
  <2>3. linked \in Cache /\ linked.ok /\ linked.arr = 1 /\ linked.back = 0 /\ linked.nodes = q.nodes
    <3>1. linked \in Cache
      BY <1>1, <2>2 DEF Cache
    <3>2. linked.arr = n /\ linked.ok = q.ok /\ linked.back = q.back /\ linked.nodes = q.nodes
      BY <2>2 DEF Cache
    <3> QED BY <2>1, <3>1, <3>2
  <2>4. p.back = 0 /\ p.arr = 1 /\ p.nodes = q.nodes /\ p = [p EXCEPT !.ok = p.ok]
        /\ {"front", "back", "arr", "nodes"} \subseteq DOMAIN p
    BY <2>3 DEF Cache
  <2>. HIDE DEF p
  <2>5. r = [p EXCEPT !.front = n, !.back = n]
    BY <1>2, <2>3, <2>4 DEF enqueue, NIL
  <2>6. r.front = 1 /\ r.back = 1 /\ r.arr = 1 /\ r.nodes = q.nodes
    BY <2>1, <2>4, <2>5
  <2>. HIDE DEF r
  <2>7. \A i \in 1 .. 1 : q.nodes[i].hash_table_next = 0 /\ q.nodes[i].prev = 0 /\ q.nodes[i].next = 0
    BY <1>3, <2>1 DEF Shape
  <2>8. \A i \in 1 .. 1 : ~(i < 1) /\ ~(1 < i)
    OBVIOUS
  <2>9. Len(r.nodes) = 1
    BY <2>1, <2>6
  <2>10. Shape(r)
    BY <2>6, <2>7, <2>8, <2>9 DEF Shape
  <2> QED BY <2>6, <2>9, <2>10 DEF r
<1>4. CASE q.front # 0
  <2>. DEFINE f == q.front
  <2>1. f > 0 /\ f < n /\ f \in 1 .. n /\ n \in 1 .. n /\ q.arr = 1 /\ q.back = 1 /\ q.head = 1
    BY <1>1, <1>4 DEF Shape
  <2>2. ChainEnd(q) = f /\ Allocated(q, q.head)
    BY <1>1, <2>1, EndOfChain DEF Allocated
  <2>3. linked = [q EXCEPT !.nodes[f].hash_table_next = n]
    BY <2>1, <2>2 DEF AddToBin, NIL
  <2>. DEFINE N1 == [q.nodes EXCEPT ![f] = [q.nodes[f] EXCEPT !.hash_table_next = n]]
  <2>4. N1 \in Seq(Node) /\ Len(N1) = n
    <3>1. q.nodes[f] \in Node
      BY <1>1, <2>1
    <3>2. [q.nodes[f] EXCEPT !.hash_table_next = n] \in Node
      BY <1>1, <3>1, NodeField
    <3> QED BY <1>1, <3>2, NodeChanged
  <2>5. /\ linked.nodes = N1 /\ linked.ok /\ linked.arr = 1 /\ linked.back = 1 /\ linked.front = f
        /\ linked.freed = {}
    BY <2>1, <2>3 DEF Cache
  <2>6. DOMAIN linked = DOMAIN q /\ {"front", "back", "arr", "nodes", "freed"} \subseteq DOMAIN q
    BY <2>3 DEF Cache
  <2>. HIDE DEF linked, N1, n
  <2>7. /\ p.nodes = N1 /\ p.arr = 1 /\ p.back = 1 /\ p.front = f /\ p.freed = {}
        /\ DOMAIN p = DOMAIN q
    BY <2>5, <2>6
  <2>. HIDE DEF p
  <2>8. Allocated(p, p.front)
    BY <2>1, <2>4, <2>7 DEF Allocated
  <2>9. r = [p EXCEPT !.nodes[n].next = f, !.nodes[f].prev = n, !.front = n]
    BY <1>2, <2>5, <2>7, <2>8 DEF enqueue, NIL
  <2>. DEFINE N2 == [N1 EXCEPT ![n] = [N1[n] EXCEPT !.next = f]]
              N3 == [N2 EXCEPT ![f] = [N2[f] EXCEPT !.prev = n]]
  <2>10. N2 \in Seq(Node) /\ Len(N2) = n
    <3>1. N1[n] \in Node
      BY <1>1, <2>1, <2>4
    <3>2. [N1[n] EXCEPT !.next = f] \in Node
      BY <1>1, <3>1, NodeField
    <3> QED BY <2>4, <3>2, NodeChanged
  <2>11. N3 \in Seq(Node) /\ Len(N3) = n
    <3>1. N2[f] \in Node
      BY <1>1, <2>1, <2>10
    <3>2. [N2[f] EXCEPT !.prev = n] \in Node
      BY <1>1, <3>1, NodeField
    <3>. HIDE DEF N2
    <3> QED BY <2>10, <3>2, NodeChanged
  <2>12. r.nodes = N3 /\ r.front = n /\ r.arr = 1 /\ r.back = 1
    BY <2>6, <2>7, <2>9
  <2>13. \A i \in 1 .. n : i # n /\ i # f => N3[i] = q.nodes[i]
    BY <1>1, <2>1, <2>4, <2>10 DEF N1
  <2>14. N3[f].hash_table_next = n /\ N3[f].prev = n /\ N3[f].next = q.nodes[f].next
    <3>1. q.nodes[f] \in Node
      BY <1>1, <2>1
    <3>2. N1[f] = [q.nodes[f] EXCEPT !.hash_table_next = n]
      BY <1>1, <2>1 DEF N1
    <3>3. N2[f] = N1[f]
      BY <2>1, <2>4
    <3>4. N3[f] = [N2[f] EXCEPT !.prev = n]
      BY <2>1, <2>10
    <3>5. N3[f] = [q.nodes[f] EXCEPT !.hash_table_next = n, !.prev = n]
      BY <3>2, <3>3, <3>4
    <3>. HIDE DEF N3
    <3> QED BY <3>1, <3>5 DEF Node
  <2>15. N3[n].next = f /\ N3[n].prev = q.nodes[n].prev /\ N3[n].hash_table_next = q.nodes[n].hash_table_next
    <3>1. q.nodes[n] \in Node
      BY <1>1, <2>1
    <3>2. N1[n] = q.nodes[n]
      BY <1>1, <2>1 DEF N1
    <3>3. N2[n] = [N1[n] EXCEPT !.next = f]
      BY <2>1, <2>4
    <3>4. N3[n] = N2[n]
      BY <2>1, <2>10
    <3>5. N3[n] = [q.nodes[n] EXCEPT !.next = f]
      BY <3>2, <3>3, <3>4
    <3>. HIDE DEF N3
    <3> QED BY <3>1, <3>5 DEF Node
  <2>. HIDE DEF N3, r
  <2>16. \A i \in 1 .. n : /\ q.nodes[i].hash_table_next = IF i < f THEN i + 1 ELSE 0
                           /\ q.nodes[i].prev = IF i < f THEN i + 1 ELSE 0
                           /\ q.nodes[i].next = IF 1 < i /\ i <= f THEN i - 1 ELSE 0
    BY DEF Shape, n
  <2>17. ASSUME NEW i \in 1 .. n
         PROVE  /\ N3[i].hash_table_next = IF i < n THEN i + 1 ELSE 0
                /\ N3[i].prev = IF i < n THEN i + 1 ELSE 0
                /\ N3[i].next = IF 1 < i /\ i <= n THEN i - 1 ELSE 0
    <3>1. CASE i # n /\ i # f
      <4>1. i < f /\ i < n /\ i <= f /\ i <= n
        BY <1>1, <2>1, <3>1 DEF n
      <4>2. N3[i] = q.nodes[i]
        BY <2>13, <3>1
      <4> QED BY <2>16, <4>1, <4>2
    <3>2. CASE i = f
      BY <1>1, <2>1, <2>14, <2>16, <3>2
    <3>3. CASE i = n
      BY <1>1, <2>1, <2>15, <2>16, <3>3
    <3> QED BY <3>1, <3>2, <3>3
  <2>18. Shape(r)
    BY <1>1, <2>1, <2>11, <2>12, <2>17 DEF Shape
  <2> QED BY <2>11, <2>12, <2>18 DEF r
<1> QED BY <1>3, <1>4

\* A step in which neither the cache of d nor what it depends on changes.
LEMMA StoredFrame ==
  ASSUME NEW d, Stored(d), cache'[d] = cache[d], length'[d] = length[d],
         (pc'[d] = "insert") <=> (pc[d] = "insert"), aborted => aborted'
  PROVE  Stored(d)'
BY DEF Stored, Shape, TooBig, Cache, Node

\* Before anybody connects.
LEMMA CacheInit == Init => CacheInv
<1> SUFFICES ASSUME Init, NEW c \in Conns PROVE Stored(c)
  BY FdInit DEF CacheInv
<1>1. cache[c] = init_cache /\ pc[c] = "connecting"
  BY DEF Init
<1>2. init_cache.ok
  BY DEF init_cache
<1> QED BY <1>1, <1>2, NewCache DEF Stored

\* Steps that leave the caches alone.
LEMMA CacheQuiet ==
  ASSUME CacheInv, NEW c \in Conns,
         \/ Accept(c) \/ ReadRequest(c) \/ OpenSocket(c) \/ Connect(c) \/ SendGet(c)
         \/ ReadHeader(c) \/ EndHeaders(c) \/ EndReply(c)
         \/ CloseServer(c) \/ CloseServerError(c) \/ Shutdown(c) \/ Drain(c) \/ CloseClient(c)
  PROVE  \A d \in Conns : Stored(d)'
<1>1. UNCHANGED <<cache, length, aborted>>
  BY DEF Accept, ReadRequest, OpenSocket, Connect, SendGet, ReadHeader, EndHeaders, EndReply,
         CloseServer, CloseServerError, Shutdown, Drain, CloseClient
<1>2. pc \in [Conns -> Labels]
  BY DEF CacheInv, FdInv, TypeOK
<1>3. pc[c] # "insert" /\ \E l \in Labels \ {"insert"} : pc' = [pc EXCEPT ![c] = l]
  <2>1. CASE Accept(c) \/ ReadRequest(c) \/ OpenSocket(c) \/ Connect(c) \/ SendGet(c)
    BY <2>1 DEF Accept, ReadRequest, OpenSocket, Connect, SendGet, GiveUp, ServerError, At, Goto, Labels
  <2>2. CASE ReadHeader(c)
    <3>1. pc[c] = "headers" /\ (pc' = pc \/ Goto(c, "end headers") \/ Goto(c, "server error"))
      BY <2>2 DEF ReadHeader, ServerError, At
    <3>2. pc = [pc EXCEPT ![c] = "headers"]
      BY <1>2, <3>1
    <3> QED BY <3>1, <3>2 DEF Goto, Labels
  <2>3. CASE EndHeaders(c) \/ EndReply(c)
    BY <2>3 DEF EndHeaders, EndReply, ServerError, At, Goto, Labels
  <2>4. CASE CloseServer(c) \/ CloseServerError(c) \/ Shutdown(c) \/ Drain(c) \/ CloseClient(c)
    BY <2>4 DEF CloseServer, CloseServerError, Shutdown, Drain, CloseClient, AfterServer, At, Goto, Labels
  <2> QED BY <2>1, <2>2, <2>3, <2>4
<1>4. \A d \in Conns : (pc'[d] = "insert") <=> (pc[d] = "insert")
  BY <1>2, <1>3
<1> QED BY <1>1, <1>4, StoredFrame DEF CacheInv

\* The thread makes its own cache.
LEMMA CacheStart ==
  ASSUME CacheInv, NEW c \in Conns, Start(c)
  PROVE  \A d \in Conns : Stored(d)'
<1>1. /\ cache' = [cache EXCEPT ![c] = init_cache] /\ pc' = [pc EXCEPT ![c] = "request"]
      /\ pc[c] = "created" /\ UNCHANGED <<length, aborted>>
  BY DEF Start, At, Goto
<1>2. pc \in [Conns -> Labels] /\ DOMAIN cache = Conns
  BY DEF CacheInv, FdInv, TypeOK
<1>3. cache'[c] = init_cache /\ pc'[c] = "request"
  BY <1>1, <1>2
<1>4. Stored(c)'
  <2>1. init_cache.ok
    BY DEF init_cache
  <2> QED BY <1>3, <2>1, NewCache DEF Stored
<1>5. ASSUME NEW d \in Conns, d # c PROVE Stored(d)'
  BY <1>1, <1>2, <1>5, StoredFrame DEF CacheInv
<1> QED BY <1>4, <1>5

\* A chunk makes the response longer and begins an insertion.
LEMMA CacheForward ==
  ASSUME CacheInv, NEW c \in Conns, ForwardChunk(c)
  PROVE  \A d \in Conns : Stored(d)'
<1>1. pc[c] = "reply" /\ aborted' = aborted /\ ~aborted
  BY DEF ForwardChunk, At
<1>2. pc \in [Conns -> Labels] /\ DOMAIN cache = Conns /\ length \in [Conns -> Nat]
  BY DEF CacheInv, FdInv, TypeOK
<1>3. CASE /\ \E n \in ChunkLens[c] : length' = [length EXCEPT ![c] = @ + n]
           /\ cache' = [cache EXCEPT ![c] = EnterInsert(@)]
           /\ Goto(c, "insert")
  <2>1. PICK n \in ChunkLens[c] : length' = [length EXCEPT ![c] = @ + n]
    BY <1>3
  <2>2. n \in Nat
    BY ProxyAssumption
  <2>3. /\ cache'[c] = EnterInsert(cache[c]) /\ pc'[c] = "insert"
        /\ length'[c] = length[c] + n /\ length[c] \in Nat
        /\ \A d \in Conns : d # c => cache'[d] = cache[d] /\ pc'[d] = pc[d] /\ length'[d] = length[d]
    BY <1>2, <1>3, <2>1 DEF Goto
  <2>4. TooBig(length[c]) => TooBig(length'[c])
    BY <2>2, <2>3, CacheAssumption DEF TooBig
  <2>5. Stored(c) /\ cache[c] \in Cache
    BY DEF CacheInv, Stored
  <2>6. Stored(c)'
    <3>. DEFINE q == cache[c]
                r == EnterInsert(q)
    <3>1. /\ r \in Cache /\ r.freed = q.freed /\ r.head = r.arr /\ r.front = q.front /\ r.ok = q.ok
          /\ Len(r.nodes) = Len(q.nodes) + 1 /\ (Shape(q) => Shape(r))
      BY <2>5, Entered
    <3>2. cache'[c] = r
      BY <2>3
    <3>3. /\ q.freed = {} => Shape(q)
          /\ q.freed = {} => TooBig(length[c]) \/ Len(q.nodes) = q.front
      <4>1. q.front \in Nat /\ q.front + 0 = q.front
        BY <2>5 DEF Cache
      <4> QED BY <1>1, <2>5, <4>1 DEF Stored
    <3>4. q.ok
      BY <1>1, <2>5 DEF Stored
    <3>. HIDE DEF q, r
    <3> QED BY <2>3, <2>4, <3>1, <3>2, <3>3, <3>4 DEF Stored
  <2>7. ASSUME NEW d \in Conns, d # c PROVE Stored(d)'
    BY <1>1, <2>3, <2>7, StoredFrame DEF CacheInv
  <2> QED BY <2>6, <2>7
<1>4. CASE Goto(c, "close server") /\ UNCHANGED <<length, cache>>
  <2>1. \A d \in Conns : (pc'[d] = "insert") <=> (pc[d] = "insert")
    BY <1>1, <1>2, <1>4 DEF Goto
  <2> QED BY <1>1, <1>4, <2>1, StoredFrame DEF CacheInv
<1> QED BY <1>3, <1>4 DEF ForwardChunk

\* An insertion gives up, evicts or links.
LEMMA CacheInsert ==
  ASSUME CacheInv, NEW c \in Conns, RejectChunk(c) \/ EvictForChunk(c) \/ InsertChunk(c)
  PROVE  \A d \in Conns : Stored(d)'
<1>. DEFINE q == cache[c]
            r == cache'[c]
<1>1. pc[c] = "insert" /\ ~aborted /\ length' = length
  BY DEF RejectChunk, EvictForChunk, InsertChunk, CacheStep, At
<1>2. pc \in [Conns -> Labels] /\ DOMAIN cache = Conns /\ length[c] \in Nat
  BY DEF CacheInv, FdInv, TypeOK
<1>3. /\ q \in Cache /\ q.ok
      /\ q.freed = {} => Shape(q) /\ q.head = q.arr /\ (TooBig(length[c]) \/ Len(q.nodes) = q.front + 1)
  BY <1>1 DEF CacheInv, Stored
<1>4. \/ TooBig(length[c]) /\ r = q /\ pc'[c] = "reply"
      \/ ~TooBig(length[c]) /\ Full(q, length[c]) /\ r = cache_remove(q, length[c]) /\ pc'[c] = "insert"
      \/ ~TooBig(length[c]) /\ ~Full(q, length[c]) /\ r = LeaveInsert(q, length[c]) /\ pc'[c] = "reply"
  BY <1>2 DEF RejectChunk, EvictForChunk, InsertChunk, CacheStep, Goto
<1>5. /\ aborted' = ~r.ok
      /\ \A d \in Conns : d # c => cache'[d] = cache[d] /\ pc'[d] = pc[d]
  BY <1>2 DEF RejectChunk, EvictForChunk, InsertChunk, CacheStep, Goto
<1>6. Stored(c)'
  <2>1. CASE TooBig(length[c]) /\ r = q /\ pc'[c] = "reply"
    BY <1>1, <1>3, <2>1 DEF Stored
  <2>2. CASE ~TooBig(length[c]) /\ Full(q, length[c]) /\ r = cache_remove(q, length[c]) /\ pc'[c] = "insert"
    <3>1. r \in Cache /\ (r.freed = {} => r = [q EXCEPT !.ok = FALSE])
      BY <1>2, <1>3, <2>2, Evicted
    <3>2. /\ q.freed = [q EXCEPT !.ok = FALSE].freed
          /\ q.front = [q EXCEPT !.ok = FALSE].front /\ q.back = [q EXCEPT !.ok = FALSE].back
          /\ q.arr = [q EXCEPT !.ok = FALSE].arr /\ q.head = [q EXCEPT !.ok = FALSE].head
          /\ q.nodes = [q EXCEPT !.ok = FALSE].nodes
      BY <1>3 DEF Cache
    <3>. HIDE DEF q, r
    <3>3. ASSUME r.freed = {} PROVE Shape(r) /\ r.head = r.arr /\ Len(r.nodes) = r.front + 1
      <4>1. /\ q.freed = {} /\ r.freed = q.freed /\ r.front = q.front /\ r.back = q.back
            /\ r.arr = q.arr /\ r.head = q.head /\ r.nodes = q.nodes
        BY <3>1, <3>2, <3>3
      <4>2. Shape(q) /\ q.head = q.arr /\ Len(q.nodes) = q.front + 1
        BY <1>3, <2>2, <4>1
      <4> QED BY <4>1, <4>2 DEF Shape
    <3> QED BY <1>5, <2>2, <3>1, <3>3 DEF Stored, r
  <2>3. CASE ~TooBig(length[c]) /\ ~Full(q, length[c]) /\ r = LeaveInsert(q, length[c]) /\ pc'[c] = "reply"
    <3>1. r \in Cache /\ r.freed = q.freed
      BY <1>2, <1>3, <2>3, LinkedType
    <3>2. ASSUME r.freed = {} PROVE Shape(r) /\ r.front = Len(r.nodes)
      BY <1>2, <1>3, <2>3, <3>1, <3>2, LinkedShape
    <3>3. r.front \in Nat
      BY <3>1 DEF Cache
    <3>4. r.front + 0 = r.front
      BY <3>3
    <3>. HIDE DEF q
    <3> QED BY <1>5, <2>3, <3>1, <3>2, <3>4 DEF Stored
  <2> QED BY <1>4, <2>1, <2>2, <2>3
<1>7. ASSUME NEW d \in Conns, d # c PROVE Stored(d)'
  BY <1>1, <1>5, <1>7, StoredFrame DEF CacheInv
<1> QED BY <1>6, <1>7

\* The invariant of the caches is kept by every step.
LEMMA CacheInvStep ==
  ASSUME CacheInv, [Next]_vars
  PROVE  CacheInv'
<1>1. FdInv'
  BY FdStep DEF CacheInv
<1>2. CASE Next
  <2>1. PICK c \in Conns : Accept(c) \/ Waits(c) \/ Works(c)
    BY <1>2 DEF Next
  <2>2. \A d \in Conns : Stored(d)'
    BY <2>1, CacheQuiet, CacheStart, CacheForward, CacheInsert DEF Waits, Works
  <2> QED BY <1>1, <2>2 DEF CacheInv
<1>3. CASE UNCHANGED vars
  <2>1. ASSUME NEW d \in Conns PROVE Stored(d)'
    BY <1>3, StoredFrame DEF vars, CacheInv
  <2> QED BY <1>1, <2>1 DEF CacheInv
<1> QED BY <1>2, <1>3

\* In the shape the invariant describes, the two lists mirror each other.
LEMMA StoredSound == CacheInv => CacheSound
<1> SUFFICES ASSUME CacheInv PROVE SizeInRange /\ QueueMirrorsBin
  BY DEF CacheSound
<1>1. SizeInRange
  BY DEF CacheInv, Stored, Cache, SizeInRange
<1>2. ASSUME NEW c \in Conns, cache[c].freed = {}
      PROVE  /\ \A n \in {m \in DOMAIN cache[c].nodes : cache[c].nodes[m].hash_table_next # NIL} :
                  LET m == cache[c].nodes[n].hash_table_next
                  IN  cache[c].nodes[m].next = n /\ cache[c].nodes[n].prev = m
             /\ cache[c].arr = cache[c].back
             /\ cache[c].arr # NIL => /\ cache[c].nodes[cache[c].front].hash_table_next = NIL
                                      /\ cache[c].nodes[cache[c].front].prev = NIL
  <2>. DEFINE q == cache[c]
  <2>1. q \in Cache /\ Shape(q)
    BY <1>2 DEF CacheInv, Stored
  <2>. HIDE DEF q
  <2>2. DOMAIN q.nodes = 1 .. Len(q.nodes) /\ q.front \in 0 .. Len(q.nodes) /\ Len(q.nodes) \in Nat
    BY <2>1 DEF Cache, Shape
  <2>3. ASSUME NEW n \in DOMAIN q.nodes, q.nodes[n].hash_table_next # NIL
        PROVE  /\ q.nodes[q.nodes[n].hash_table_next].next = n
               /\ q.nodes[n].prev = q.nodes[n].hash_table_next
    <3>1. n \in 1 .. Len(q.nodes) /\ n < q.front /\ q.nodes[n].hash_table_next = n + 1 /\ q.nodes[n].prev = n + 1
      BY <2>1, <2>2, <2>3 DEF Shape, NIL
    <3>2. n + 1 \in 1 .. Len(q.nodes) /\ 1 < n + 1 /\ n + 1 <= q.front /\ (n + 1) - 1 = n
      BY <2>2, <3>1
    <3>3. q.nodes[n + 1].next = n
      BY <2>1, <3>2 DEF Shape
    <3> QED BY <3>1, <3>3
  <2>4. q.arr = q.back
    BY <2>1 DEF Shape
  <2>5. ASSUME q.arr # NIL PROVE q.nodes[q.front].hash_table_next = NIL /\ q.nodes[q.front].prev = NIL
    <3>1. q.front \in 1 .. Len(q.nodes)
      BY <2>1, <2>2, <2>5 DEF Shape, NIL
    <3> QED BY <2>1, <2>2, <3>1 DEF Shape, NIL
  <2> QED BY <2>3, <2>4, <2>5 DEF q
<1>3. QueueMirrorsBin
  BY <1>2 DEF QueueMirrorsBin
<1> QED BY <1>1, <1>3

\* For any number and length of chunks, the size of a cache never leaves its range
\* and, until something is evicted, the queue and the bin hold the same nodes in
\* opposite orders.
THEOREM CachesSound == Spec => []CacheSound
<1>1. CacheInv /\ [Next]_vars => CacheInv'
  BY CacheInvStep
<1> QED BY <1>1, CacheInit, StoredSound, PTL DEF Spec
=============================================================================
