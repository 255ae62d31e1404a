------------------------------- MODULE Proxy --------------------------------
(***************************************************************************)
(* The web proxy of project07: proxy.c accepts connections and starts one  *)
(* detached thread for each, client_thread.c reads the request, connects   *)
(* to the server, forwards the filtered headers and copies the response.   *)
(*                                                                         *)
(* The threads share the process's descriptor table, in which the kernel   *)
(* hands out the lowest free number, so a number closed by one thread is   *)
(* soon another's.  Every system call on a descriptor is one step and      *)
(* acts on whatever that number refers to then.  What peers send, and      *)
(* whether a call fails, is the environment's choice.                      *)
(***************************************************************************)
EXTENDS ProxyCache, FiniteSets

CONSTANTS
  Conns,       \* the connections clients make
  MaxFds,      \* size of the descriptor table, standard streams aside
  MaxHeaders,  \* bound on the header lines of a request
  MaxChunks,   \* bound on the chunks of each response
  ChunkLens,   \* how much a read from each server returns
  Prompt       \* connections whose client and server answer

ASSUME ProxyAssumption ==
  /\ MaxFds \in Nat \ {0} /\ MaxHeaders \in Nat /\ MaxChunks \in [Conns -> Nat]
  /\ ChunkLens \in [Conns -> SUBSET (Nat \ {0})] /\ IsFiniteSet(Conns) /\ Prompt \subseteq Conns
  /\ NIL \notin Conns

VARIABLES
  fds,        \* the descriptor table: what each number refers to
  cell,       \* *cfd: the number main passes to a thread on the heap
  pc,         \* where each connection's thread is
  client_fd, server_fd,
  sent,       \* header kinds written to the server
  flags,      \* sent_host_header, sent_connection_header
  lines,      \* header lines read
  served,     \* chunks read from the server
  length,     \* buffer_length of the response so far
  received,   \* what each client was sent
  failed,     \* connections one of whose system calls failed
  cache,      \* each request's cache
  aborted     \* the sanitizer stopped the process

vars == <<fds, cell, pc, client_fd, server_fd, sent, flags, lines, served, length,
          received, failed, cache, aborted>>

NoFd   == -1
Fds    == 0 .. MaxFds - 1
FREE   == [conn |-> NIL, end |-> "free"]
LISTEN == [conn |-> NIL, end |-> "listen"]
Open(c, end) == [conn |-> c, end |-> end]

Unused    == {n \in Fds : fds[n] = FREE}
LowestFd  == CHOOSE n \in Unused : \A m \in Unused : n <= m
Close(n)  == fds' = IF n \in Fds THEN [fds EXCEPT ![n] = FREE] ELSE fds

\* write(n, msg): the client that n refers to now gets msg.
Delivered(n, msg) ==
  IF n \in Fds /\ fds[n].end = "client"
  THEN [received EXCEPT ![fds[n].conn] = Append(@, msg)]
  ELSE received

Headers  == {"Host", "Connection", "Keep-Alive", "Proxy-Connection", "other"}
Required == {"Host", "Connection"}

-----------------------------------------------------------------------------
(* proxy.c *)

Init ==
  /\ fds = [n \in Fds |-> IF n = 0 THEN LISTEN ELSE FREE]
  /\ cell = [c \in Conns |-> NoFd]
  /\ pc = [c \in Conns |-> "connecting"]
  /\ client_fd = [c \in Conns |-> NoFd]
  /\ server_fd = [c \in Conns |-> NoFd]
  /\ sent = [c \in Conns |-> {}]
  /\ flags = [c \in Conns |-> {}]
  /\ lines = [c \in Conns |-> 0]
  /\ served = [c \in Conns |-> 0]
  /\ length = [c \in Conns |-> 0]
  /\ received = [c \in Conns |-> <<>>]
  /\ failed = {}
  /\ cache = [c \in Conns |-> init_cache]
  /\ aborted = FALSE

\* The heap cell accept's result is put in.  Mutant: one static variable.
CellOf_static(c) == CHOOSE d \in Conns : TRUE
CellOf(c) == c

\* When does main accept?  Mutant: it handles one request at a time.
Accepting_serially(c) == \A d \in Conns : pc[d] \in {"connecting", "done"}
Accepting(c) == pc[c] = "connecting"

\* accept, pthread_create, pthread_detach.  With the table full accept fails and
\* main tries again.
Accept(c) ==
  /\ ~aborted /\ pc[c] = "connecting" /\ Accepting(c)
  /\ Unused # {}
  /\ fds' = [fds EXCEPT ![LowestFd] = Open(c, "client")]
  /\ cell' = [cell EXCEPT ![CellOf(c)] = LowestFd]
  /\ pc' = [pc EXCEPT ![c] = "created"]
  /\ UNCHANGED <<client_fd, server_fd, sent, flags, lines, served, length,
                 received, failed, cache, aborted>>

-----------------------------------------------------------------------------
(* client_thread.c: handle_request. *)

At(c, label)   == ~aborted /\ pc[c] = label
Goto(c, label) == pc' = [pc EXCEPT ![c] = label]
Failing(c)     == failed' = failed \cup {c}

\* The thread starts: its own cache, its descriptor.
Start(c) ==
  /\ At(c, "created") /\ Goto(c, "request")
  /\ client_fd' = [client_fd EXCEPT ![c] = cell[CellOf(c)]]
  /\ cell' = [cell EXCEPT ![CellOf(c)] = NoFd]
  /\ cache' = [cache EXCEPT ![c] = init_cache]
  /\ UNCHANGED <<fds, server_fd, sent, flags, lines, served, length, received,
                 failed, aborted>>

\* An error before there is a server: perhaps a status page, whose failure
\* nobody looks at.
GiveUp(c, status) ==
  /\ Goto(c, "close client")
  /\ Failing(c)
  /\ \/ received' = Delivered(client_fd[c], status)
     \/ UNCHANGED received

\* make_get_header: a GET request, another method, or anything else.
ReadRequest(c) ==
  /\ At(c, "request")
  /\ \/ Goto(c, "open") /\ UNCHANGED <<received, failed>>
     \/ \E status \in {"400", "501"} : GiveUp(c, status)
  /\ UNCHANGED <<fds, cell, client_fd, server_fd, sent, flags, lines, served,
                 length, cache, aborted>>

\* open_server_connection and open_client_fd: check the port, make a socket.
OpenSocket(c) ==
  /\ At(c, "open")
  /\ \/ /\ Goto(c, "close client") /\ Failing(c)
        /\ UNCHANGED <<fds, server_fd>>
     \/ /\ Unused # {}
        /\ Goto(c, "connect")
        /\ fds' = [fds EXCEPT ![LowestFd] = Open(c, "server")]
        /\ server_fd' = [server_fd EXCEPT ![c] = LowestFd]
        /\ UNCHANGED failed
  /\ UNCHANGED <<cell, client_fd, sent, flags, lines, served, length, received,
                 cache, aborted>>

\* getaddrinfo and connect: on failure the socket is forgotten, not closed.
Connect(c) ==
  /\ At(c, "connect")
  /\ \/ Goto(c, "send get") /\ UNCHANGED <<received, failed>>
     \/ GiveUp(c, "502")
  /\ UNCHANGED <<fds, cell, client_fd, server_fd, sent, flags, lines, served,
                 length, cache, aborted>>

\* A system call on the server or the client fails: close both.
ServerError(c) == Goto(c, "server error") /\ Failing(c)

SendGet(c) ==
  /\ At(c, "send get")
  /\ \/ Goto(c, "headers") /\ UNCHANGED failed
     \/ ServerError(c)
  /\ UNCHANGED <<fds, cell, client_fd, server_fd, sent, flags, lines, served,
                 length, received, cache, aborted>>

\* filter_rest_headers: what is forwarded of a line, and the flag it sets.
\* Mutant: Proxy-Connection counts as Connection.
Forwarded(h) == IF h = "Keep-Alive" THEN {} ELSE {h}

Marked_proxy(h) == IF h = "Proxy-Connection" THEN {"Connection"} ELSE {h} \cap Required
Marked(h) == {h} \cap Required

ReadHeader(c) ==
  /\ At(c, "headers")
  /\ \/ /\ lines[c] < MaxHeaders
        /\ \E h \in Headers : /\ sent'  = [sent EXCEPT ![c] = @ \cup Forwarded(h)]
                              /\ flags' = [flags EXCEPT ![c] = @ \cup Marked(h)]
        /\ lines' = [lines EXCEPT ![c] = @ + 1]
        /\ UNCHANGED <<pc, failed>>
     \/ Goto(c, "end headers") /\ UNCHANGED <<sent, flags, lines, failed>>
     \/ ServerError(c) /\ UNCHANGED <<sent, flags, lines>>
  /\ UNCHANGED <<fds, cell, client_fd, server_fd, served, length, received, cache, aborted>>

\* The blank line: missing headers are added; then send_response begins.
EndHeaders(c) ==
  /\ At(c, "end headers")
  /\ \/ /\ sent' = [sent EXCEPT ![c] = @ \cup (Required \ flags[c]) \cup {"end"}]
        /\ Goto(c, IF contains(cache[c]) THEN "close server" ELSE "reply")
        /\ UNCHANGED failed
     \/ ServerError(c) /\ UNCHANGED sent
  /\ UNCHANGED <<fds, cell, client_fd, server_fd, flags, lines, served, length,
                 received, cache, aborted>>

-----------------------------------------------------------------------------
(* send_response. *)

\* A chunk is read from the server and written to the client.
ForwardChunk(c) ==
  /\ At(c, "reply")
  /\ served[c] < MaxChunks[c]
  /\ served' = [served EXCEPT ![c] = @ + 1]
  /\ \/ /\ received' = Delivered(client_fd[c], <<c, served[c] + 1>>)
        /\ \E n \in ChunkLens[c] : length' = [length EXCEPT ![c] = @ + n]
        /\ cache' = [cache EXCEPT ![c] = EnterInsert(@)]
        /\ Goto(c, "insert")
        /\ UNCHANGED failed
     \/ Goto(c, "close server") /\ Failing(c) /\ UNCHANGED <<length, received, cache>>
  /\ UNCHANGED <<fds, cell, client_fd, server_fd, sent, flags, lines, aborted>>

\* The server sends EOF, or reading fails.
EndReply(c) ==
  /\ At(c, "reply")
  /\ Goto(c, "close server")
  /\ Failing(c) \/ UNCHANGED failed
  /\ UNCHANGED <<fds, cell, client_fd, server_fd, sent, flags, lines, served,
                 length, received, cache, aborted>>

\* One step of cache_insert on the whole response so far: give up, evict or link.
CacheStep(c, new, label) ==
  /\ cache' = [cache EXCEPT ![c] = new]
  /\ aborted' = ~new.ok
  /\ Goto(c, label)
  /\ UNCHANGED <<fds, cell, client_fd, server_fd, sent, flags, lines, served,
                 length, received, failed>>

RejectChunk(c) ==
  /\ At(c, "insert") /\ TooBig(length[c])
  /\ CacheStep(c, cache[c], "reply")

EvictForChunk(c) ==
  /\ At(c, "insert") /\ ~TooBig(length[c]) /\ Full(cache[c], length[c])
  /\ CacheStep(c, cache_remove(cache[c], length[c]), "insert")

InsertChunk(c) ==
  /\ At(c, "insert") /\ ~TooBig(length[c]) /\ ~Full(cache[c], length[c])
  /\ CacheStep(c, LeaveInsert(cache[c], length[c]), "reply")

-----------------------------------------------------------------------------
(* The end of handle_request. *)

\* Where the end of a successful request goes after closing the server.
\* Mutant: on to the error exit, which closes it once more.
AfterServer_again(c) == "server error"
AfterServer(c) == "shutdown"

CloseServer(c) ==
  /\ At(c, "close server") /\ Goto(c, AfterServer(c))
  /\ Close(server_fd[c])
  /\ UNCHANGED <<cell, client_fd, server_fd, sent, flags, lines, served,
                 length, received, failed, cache, aborted>>

\* SERVER_ERROR, which falls through to CLIENT_ERROR.
CloseServerError(c) ==
  /\ At(c, "server error") /\ Goto(c, "close client")
  /\ Close(server_fd[c])
  /\ UNCHANGED <<cell, client_fd, server_fd, sent, flags, lines, served,
                 length, received, failed, cache, aborted>>

\* shutdown(client_fd, SHUT_WR); the client's EOF is waited for unless it failed.
Shutdown(c) ==
  /\ At(c, "shutdown")
  /\ Goto(c, "drain") \/ Goto(c, "close client")
  /\ UNCHANGED <<fds, cell, client_fd, server_fd, sent, flags, lines, served,
                 length, received, failed, cache, aborted>>

Drain(c) ==
  /\ At(c, "drain") /\ Goto(c, "close client")
  /\ UNCHANGED <<fds, cell, client_fd, server_fd, sent, flags, lines, served,
                 length, received, failed, cache, aborted>>

CloseClient(c) ==
  /\ At(c, "close client") /\ Goto(c, "done")
  /\ Close(client_fd[c])
  /\ UNCHANGED <<cell, client_fd, server_fd, sent, flags, lines, served,
                 length, received, failed, cache, aborted>>

-----------------------------------------------------------------------------
\* Steps that wait for a peer, and steps that do not.
Waits(c)   == ReadRequest(c) \/ Connect(c) \/ ReadHeader(c) \/ ForwardChunk(c) \/ EndReply(c) \/ Drain(c)
Works(c)   == \/ Start(c) \/ OpenSocket(c) \/ SendGet(c) \/ EndHeaders(c)
              \/ RejectChunk(c) \/ EvictForChunk(c) \/ InsertChunk(c)
              \/ CloseServer(c) \/ CloseServerError(c) \/ Shutdown(c) \/ CloseClient(c)

Next == \E c \in Conns : Accept(c) \/ Waits(c) \/ Works(c)

\* The scheduler runs main and every thread that can run; only the peers of
\* the Prompt connections can be relied upon to answer.
Spec ==
  /\ Init /\ [][Next]_vars
  /\ \A c \in Conns : WF_vars(Accept(c)) /\ WF_vars(Works(c))
  /\ \A c \in Prompt : WF_vars(Waits(c))

-----------------------------------------------------------------------------
(* Properties. *)

Labels ==
  {"connecting", "created", "request", "open", "connect", "send get", "headers",
   "end headers", "reply", "insert", "close server", "server error", "shutdown",
   "drain", "close client", "done"}

\* Types: descriptors are numbers of the table or -1, threads are at known places.
TypeOK ==
  /\ fds \in [Fds -> {FREE, LISTEN} \cup [conn : Conns, end : {"client", "server"}]]
  /\ cell \in [Conns -> Fds \cup {NoFd}]
  /\ pc \in [Conns -> Labels]
  /\ client_fd \in [Conns -> Fds \cup {NoFd}] /\ server_fd \in [Conns -> Fds \cup {NoFd}]
  /\ sent \in [Conns -> SUBSET (Headers \cup {"end"})]
  /\ flags \in [Conns -> SUBSET Required]
  /\ lines \in [Conns -> 0 .. MaxHeaders] /\ \A c \in Conns : served[c] \in 0 .. MaxChunks[c]
  /\ length \in [Conns -> Nat]
  /\ failed \subseteq Conns /\ aborted \in BOOLEAN
  /\ DOMAIN received = Conns /\ DOMAIN cache = Conns

UsesClient(c) == pc[c] \notin {"connecting", "created", "done"}
UsesServer(c) == pc[c] \in {"connect", "send get", "headers", "end headers", "reply",
                            "insert", "close server", "server error"}

\* A finished thread has closed its descriptors, except the socket of a
\* connection attempt that failed.
OnlyFailedConnectLeaks ==
  \A c \in Conns : pc[c] = "done" =>
    \A n \in Fds : fds[n].conn = c =>
      c \in failed /\ sent[c] = {} /\ fds[n] = Open(c, "server") /\ n = server_fd[c]

\* A descriptor a thread is going to use is open and is its own: it was not
\* closed, by that thread or another, and handed out again; and a thread that has
\* finished leaves none open but that of a failed connection attempt.
FdsOwned ==
  /\ TypeOK /\ OnlyFailedConnectLeaks
  /\ fds[0] = LISTEN
  /\ \A c \in Conns :
       /\ pc[c] = "created" =>
            cell[CellOf(c)] \in Fds /\ fds[cell[CellOf(c)]] = Open(c, "client")
       /\ UsesClient(c) =>
            client_fd[c] \in Fds /\ fds[client_fd[c]] = Open(c, "client")
       /\ UsesServer(c) =>
            server_fd[c] \in Fds /\ fds[server_fd[c]] = Open(c, "server")

\* A client gets the chunks of its own response, in order, none lost, none
\* repeated, and all of them unless a system call failed; or one status page.
ReplyFaithful ==
  \A c \in Conns :
    \/ \E n \in 0 .. served[c] :
         /\ received[c] = [i \in 1 .. n |-> <<c, i>>]
         /\ n = served[c] \/ c \in failed
    \/ served[c] = 0 /\ c \in failed /\ received[c] \in {<<"400">>, <<"501">>, <<"502">>}

\* A request that went out is complete: it has Host and Connection headers and
\* no Keep-Alive, and the response is only read after it.
RequestComplete ==
  \A c \in Conns :
    /\ "Keep-Alive" \notin sent[c]
    /\ served[c] > 0 => Required \cup {"end"} \subseteq sent[c]

\* The lengths counted against MAX_CACHE_SIZE never reach it, and subtracting the
\* present length of an evicted buffer never goes below zero (a size_t).
SizeInRange == \A c \in Conns : cache[c].size \in 0 .. MAX_CACHE_SIZE - 1

\* Between calls, until something is evicted, the queue from front to back is the
\* bin's chain from end to head, and prev undoes next.
QueueMirrorsBin ==
  \A c \in Conns :
    LET q == cache[c]
        N == {n \in DOMAIN q.nodes : q.nodes[n].hash_table_next # NIL}
    IN  pc[c] # "insert" /\ q.freed = {} =>
          /\ \A n \in N : LET m == q.nodes[n].hash_table_next
                          IN  q.nodes[m].next = n /\ q.nodes[n].prev = m
          /\ q.arr = q.back
          /\ q.arr # NIL => q.nodes[q.front].hash_table_next = NIL /\ q.nodes[q.front].prev = NIL

\* The cache of a request stays within its size and keeps its two lists in step.
CacheSound == SizeInRange /\ QueueMirrorsBin

\* With descriptors enough, a connection is accepted and handled to the end even
\* if the peers of all other connections stay silent (tests/concurrent.sh), unless
\* the sanitizer stops the process.
PromptServed ==
  \A c \in Prompt : (pc[c] = "connecting") ~> (pc[c] = "done" \/ aborted)

\* "if the cache would be over capacity after the insertion, evict": making room
\* uses no memory that was freed.
EvictionSafe == ~aborted
=============================================================================
