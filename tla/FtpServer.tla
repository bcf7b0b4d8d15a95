----------------------------- MODULE FtpServer -----------------------------
(***************************************************************************)
(* The server of src/asg1/myftpserver.c and, where `tls` is TRUE, of       *)
(* src/easg1/myftpserver.c: main_loop(), which accepts connections and     *)
(* starts a thread for each, and option() with list(), get() and put(),    *)
(* which the threads run.  main_loop() and option() of                     *)
(* src/asg2/myftpserver.c are those of asg1.                               *)
(*                                                                         *)
(* main_loop() stores the descriptors in the slots of accept_fd, in turn,  *)
(* and gives each thread the address of its slot.  The server of asg1      *)
(* reads the slot again for each call, up to that of list(), get() or      *)
(* put(); the one of easg1 reads it once.                                  *)
(*                                                                         *)
(* Connections, the directory data/ and the files in it share the          *)
(* descriptors of the process.  get() never closes the directory.  The     *)
(* directory is there, and every name is one of a file in it or of one     *)
(* that may be made there: opendir() and fopen() fail for want of a        *)
(* descriptor only.                                                        *)
(*                                                                         *)
(* A client lives until it has what it asked for or sees a reply it did    *)
(* not expect; one that dies before it sends a request is "silent".  The   *)
(* file's way through a connection is modelled in Transfer, with clients   *)
(* and servers killed at any point of it; here it is one step.             *)
(*                                                                         *)
(* A thread whose connection is closed without a request finds in its      *)
(* buffer what an earlier thread left on the stack, or junk.  option()     *)
(* frees pl_buff, which it only sets for a request with a name: otherwise  *)
(* this may do nothing or end the process.                                 *)
(***************************************************************************)
EXTENDS Integers, FiniteSets

CONSTANTS
  Slots,      \* slots of accept_fd that are used (14)
  NumFds,     \* bound: descriptors the process may have for its threads
  MaxConns,   \* bound: connections that clients open
  Requests    \* what clients may ask for

ASSUME SlotsAssumption == Slots \in Nat \ {0}
ASSUME BoundAssumption == NumFds \in Nat /\ MaxConns \in Nat

(* A put of a file the client does not have is sent with length 0 and no   *)
(* more; a silent client closes without a request.                         *)
ASSUME RequestsAssumption ==
  Requests \subseteq {"list", "get", "put", "missing", "silent"}

Conns == 1..MaxConns      \* in the order in which they are accepted
Fds   == 0..(NumFds - 1)

(* What may be behind a descriptor: the connection of a client, or the     *)
(* directory or the file that the thread of a connection opened.           *)
Nobody == 0
Free      == [what |-> "none", conn |-> Nobody]
Socket(c) == [what |-> "socket", conn |-> c]
Dir(c)    == [what |-> "dir", conn |-> c]
File(c)   == [what |-> "file", conn |-> c]

Things == {Free} \cup [what : {"socket", "dir", "file"}, conn : Conns]

VARIABLES
  tls,        \* which of the servers this is
  accepted,   \* how many connections were accepted
  i,          \* the next slot
  acceptFd,   \* accept_fd
  open,       \* what is behind each descriptor
  request,    \* what each client asks for
  unread,     \* what waits in each connection: "header", "name" or "end"
  client,     \* a client waits for the reply, has its data to come or go, or left
  pc,         \* where the thread of each connection is
  fd,         \* the descriptor it took out of its slot
  kind,       \* the type of the request it read
  served,     \* history: who answered which connection
  lapped,     \* history: a thread was left behind by Slots connections
  exited      \* the process ended

threads == <<pc, fd, kind>>
clients == <<request, unread, client>>
loop    == <<tls, accepted, i, acceptFd>>
vars == <<loop, open, clients, threads, served, lapped, exited>>

Labels == {"none", "begin", "header", "name", "ready", "open", "listing", "reply",
           "file", "data", "free", "done"}

TypeOK ==
  /\ tls \in BOOLEAN
  /\ accepted \in 0..MaxConns
  /\ i \in 0..Slots
  /\ acceptFd \in [0..(Slots - 1) -> Fds \cup {-1}]
  /\ open \in [Fds -> Things]
  /\ request \in [Conns -> Requests \cup {"none"}]
  /\ unread \in [Conns -> {"header", "name", "end"}]
  /\ client \in [Conns -> {"asking", "data", "gone"}]
  /\ pc \in [Conns -> Labels]
  /\ fd \in [Conns -> Fds \cup {-1}]
  /\ kind \in [Conns -> Requests \cup {"none"}]
  /\ served \subseteq [thread : Conns, conn : Conns, lapped : BOOLEAN]
  /\ lapped \in BOOLEAN
  /\ exited \in BOOLEAN

Init ==
  /\ tls \in BOOLEAN
  /\ accepted = 0
  /\ i = 0
  /\ acceptFd = [s \in 0..(Slots - 1) |-> -1]
  /\ open = [f \in Fds |-> Free]
  /\ request = [c \in Conns |-> "none"]
  /\ unread = [c \in Conns |-> "end"]
  /\ client = [c \in Conns |-> "asking"]
  /\ pc = [c \in Conns |-> "none"]
  /\ fd = [c \in Conns |-> -1]
  /\ kind = [c \in Conns |-> "none"]
  /\ served = {}
  /\ lapped = FALSE
  /\ exited = FALSE

-----------------------------------------------------------------------------

(* The thread will read its slot again.                                    *)
WillRead(c) ==
  \/ pc[c] = "begin"
  \/ ~tls /\ pc[c] \in {"header", "name", "ready"}

(* Slots connections were accepted, or tried, after that of such a thread. *)
Lapped(c) == lapped \/ \E t \in Conns : WillRead(t) /\ c - t >= Slots

FreeFds == {f \in Fds : open[f] = Free}

(* accept(), opendir() and fopen() give the lowest free descriptor.        *)
Lowest(f) == f \in FreeFds /\ \A g \in FreeFds : f <= g

(* Mutants: every connection uses the first slot; the index runs one past  *)
(* the last slot.                                                          *)
NextSlotStuck == 0
NextSlotLate  == IF i = Slots + 1 THEN 0 ELSE i

(* if(i == 14) i=0;                                                        *)
NextSlot == IF i = Slots THEN 0 ELSE i

(* The slot whose address the thread of a connection got: a failed accept  *)
(* does not raise the index, so the connections use the slots in turn.     *)
SlotOf(c) == (c - 1) % Slots

(* The client has sent its request, or will before anybody notices.        *)
Accept(c) ==
  /\ ~exited
  /\ c = accepted + 1
  /\ accepted' = c
  /\ \E f \in Fds :
       /\ Lowest(f)
       /\ acceptFd' = [acceptFd EXCEPT ![NextSlot] = f]
       /\ open' = [open EXCEPT ![f] = Socket(c)]
  /\ \E r \in Requests :
       /\ request' = [request EXCEPT ![c] = r]
       /\ unread' = [unread EXCEPT ![c] = IF r = "silent" THEN "end" ELSE "header"]
       /\ client' = [client EXCEPT ![c] =
                       IF r \in {"silent", "missing"} THEN "gone" ELSE "asking"]
  /\ i' = NextSlot + 1
  /\ pc' = [pc EXCEPT ![c] = "begin"]
  /\ lapped' = Lapped(c)
  /\ UNCHANGED <<tls, fd, kind, served, exited>>

(* Mutant: the index is raised although accept() failed.                   *)
AcceptFailsMoves ==
  /\ ~exited
  /\ FreeFds = {}
  /\ acceptFd' = [acceptFd EXCEPT ![NextSlot] = -1]
  /\ i' = NextSlot + 1
  /\ lapped' = Lapped(accepted + 1)
  /\ UNCHANGED <<tls, accepted, open, clients, threads, served, exited>>

(* Without a descriptor accept() fails: -1 is in the slot, and the loop    *)
(* tries again at once.                                                    *)
AcceptFails ==
  /\ ~exited
  /\ FreeFds = {}
  /\ acceptFd' = [acceptFd EXCEPT ![NextSlot] = -1]
  /\ i' = NextSlot
  /\ lapped' = Lapped(accepted + 1)
  /\ UNCHANGED <<tls, accepted, open, clients, threads, served, exited>>

-----------------------------------------------------------------------------

(* The thread of a connection is where `label` says, in a process that     *)
(* runs.                                                                   *)
At(c, label) == ~exited /\ pc[c] = label
Goto(c, label) == pc' = [pc EXCEPT ![c] = label]

Exit ==
  /\ exited' = TRUE
  /\ UNCHANGED <<loop, open, clients, threads, served, lapped>>

(* The connection behind a descriptor: recv() and send() fail on others.   *)
ConnOf(f) == IF f # -1 /\ open[f].what = "socket" THEN open[f].conn ELSE Nobody

(* A client that sends its file.                                           *)
Sending(d) == client[d] = "data" /\ request[d] = "put"

(* The thread reads its slot and calls recvn().                            *)
Begin(c) ==
  /\ At(c, "begin")
  /\ fd' = [fd EXCEPT ![c] = acceptFd[SlotOf(c)]]
  /\ Goto(c, "header")
  /\ UNCHANGED <<loop, open, clients, kind, served, lapped, exited>>

(* The descriptor the thread uses for the calls that follow.               *)
Descriptor(c) == IF tls THEN fd[c] ELSE acceptFd[SlotOf(c)]

(* The header of a request: where the thread goes depends on its type.     *)
Parse(c, type) ==
  /\ kind' = [kind EXCEPT ![c] = type]
  /\ Goto(c, CASE type \in {"get", "put"} -> "name"
               [] type = "list" -> "ready"
               [] type = "missing" -> "free")

ReadHeader(c) ==
  /\ At(c, "header")
  /\ LET d == ConnOf(fd[c]) IN
       /\ d # Nobody
       /\ \/ /\ unread[d] = "header"
             /\ Parse(c, request[d])
             /\ unread' = [unread EXCEPT ![d] =
                             IF request[d] \in {"get", "put", "missing"} THEN "name" ELSE "end"]
          \/ /\ unread[d] = "end" /\ client[d] = "gone"
             /\ \E e \in Conns : pc[e] = "done" /\ Parse(c, kind[e])
             /\ UNCHANGED unread
  /\ UNCHANGED <<loop, open, request, client, fd, served, lapped, exited>>

(* No such descriptor; a name or a file's data where the header should be; *)
(* or no request.                                                          *)
HeaderFails(c) ==
  /\ At(c, "header")
  /\ LET d == ConnOf(fd[c]) IN
       d # Nobody =>
         \/ unread[d] = "name"
         \/ unread[d] = "end" /\ (client[d] = "gone" \/ Sending(d))
  /\ Exit

(* The name of the file, or whatever the connection holds in its place: a  *)
(* piece of a file is lost to the thread that should write it.             *)
ReadName(c) ==
  /\ At(c, "name")
  /\ LET d == ConnOf(Descriptor(c)) IN
       /\ d # Nobody
       /\ unread[d] = "end" => client[d] = "gone" \/ Sending(d)
       /\ unread' = [unread EXCEPT ![d] = IF @ = "header" THEN "name" ELSE "end"]
       /\ client' = IF unread[d] = "end" THEN [client EXCEPT ![d] = "gone"] ELSE client
  /\ Goto(c, "ready")
  /\ UNCHANGED <<loop, open, request, fd, kind, served, lapped, exited>>

NameFails(c) ==
  /\ At(c, "name")
  /\ ConnOf(Descriptor(c)) = Nobody
  /\ Exit

(* list(), get() and put() get the descriptor by value.                    *)
Call(c) ==
  /\ At(c, "ready")
  /\ fd' = [fd EXCEPT ![c] = Descriptor(c)]
  /\ Goto(c, "open")
  /\ UNCHANGED <<loop, open, clients, kind, served, lapped, exited>>

(* list() and get() open the directory, put() the file.                    *)
Open(c) ==
  /\ At(c, "open")
  /\ \E f \in Fds :
       /\ Lowest(f)
       /\ open' = [open EXCEPT ![f] = IF kind[c] = "put" THEN File(c) ELSE Dir(c)]
  /\ Goto(c, IF kind[c] = "list" THEN "listing" ELSE "reply")
  /\ UNCHANGED <<loop, clients, fd, kind, served, lapped, exited>>

(* list() and put() exit, get() follows the NULL.                          *)
OpenFails(c) ==
  /\ At(c, "open") \/ At(c, "file")
  /\ FreeFds = {}
  /\ Exit

Close(x) == open' = [f \in Fds |-> IF open[f] = x THEN Free ELSE open[f]]

(* list() has read the names, and closes the directory.                    *)
CloseDir(c) ==
  /\ At(c, "listing")
  /\ Close(Dir(c))
  /\ Goto(c, "reply")
  /\ UNCHANGED <<loop, clients, fd, kind, served, lapped, exited>>

Served(c, d) ==
  served' = served \cup {[thread |-> c, conn |-> d, lapped |-> lapped]}

(* Something is sent to a client: it goes on if this is what it waits for. *)
Hears(d, expected) ==
  client' = [client EXCEPT ![d] = IF expected \/ Sending(d) THEN "data" ELSE "gone"]

(* Mutant: list() leaves the connection open as well.                      *)
ClosesNone(c) == FALSE

(* list() of asg1 closes the connection, get() and put() do not.           *)
Closes(c) == ~tls /\ kind[c] = "list"

(* The listing, PUT_REPLY, or GET_REPLY, which ends a get if the directory *)
(* has no such file.                                                       *)
Reply(c) ==
  /\ At(c, "reply")
  /\ LET d == ConnOf(fd[c]) IN
       /\ d # Nobody
       /\ Served(c, d)
       /\ \E next \in {"free", "file", "data"} :
            /\ next \in CASE kind[c] = "list" -> {"free"}
                          [] kind[c] = "get"  -> {"free", "file"}
                          [] kind[c] = "put"  -> {"data"}
            /\ Goto(c, next)
            /\ Hears(d, client[d] = "asking" /\ kind[c] = request[d] /\ next # "free")
  /\ open' = IF Closes(c) THEN [open EXCEPT ![fd[c]] = Free] ELSE open
  /\ UNCHANGED <<loop, request, unread, fd, kind, lapped, exited>>

(* Nobody reads it, or it would go to a file (over TLS a file open for     *)
(* writing takes it; only a thread that was left behind may have one).     *)
ReplyFails(c) ==
  /\ At(c, "reply")
  /\ LET d == ConnOf(fd[c]) IN d # Nobody => client[d] = "gone"
  /\ Exit

(* get() opens the file.                                                   *)
OpenFile(c) ==
  /\ At(c, "file")
  /\ \E f \in Fds : Lowest(f) /\ open' = [open EXCEPT ![f] = File(c)]
  /\ Goto(c, "data")
  /\ UNCHANGED <<loop, clients, fd, kind, served, lapped, exited>>

(* The file is sent by get() or received by put(), and closed.             *)
Transfer(c) ==
  /\ At(c, "data")
  /\ LET d == ConnOf(fd[c]) IN
       /\ d # Nobody
       /\ Served(c, d)
       /\ \/ kind[c] = "get" /\ Hears(d, FALSE)
          \/ kind[c] = "put" /\ Sending(d) /\ client' = [client EXCEPT ![d] = "gone"]
  /\ Close(File(c))
  /\ Goto(c, "free")
  /\ UNCHANGED <<loop, request, unread, fd, kind, lapped, exited>>

(* The client has left, or another thread reads from the same connection.  *)
TransferFails(c) ==
  /\ At(c, "data")
  /\ LET d == ConnOf(fd[c]) IN
       d # Nobody =>
         \/ client[d] = "gone"
         \/ kind[c] = "put" /\ \E e \in Conns \ {c} : pc[e] = "data" /\ fd[e] = fd[c]
  /\ Exit

(* The end of option(): easg1 closes its descriptor, and pl_buff is freed. *)
Finish(c) ==
  /\ At(c, "free")
  /\ tls => fd[c] # -1 /\ open[fd[c]] # Free
  /\ open' = IF tls THEN [open EXCEPT ![fd[c]] = Free] ELSE open
  /\ Goto(c, "done")
  /\ UNCHANGED <<loop, clients, fd, kind, served, lapped, exited>>

(* ... unless pl_buff was not set, or SSL_shutdown() or close() fails.     *)
FinishFails(c) ==
  /\ At(c, "free")
  /\ tls \/ kind[c] \in {"list", "missing"}
  /\ Exit

Next ==
  \/ \E c \in Conns :
       \/ Accept(c) \/ Begin(c) \/ ReadHeader(c) \/ HeaderFails(c)
       \/ ReadName(c) \/ NameFails(c) \/ Call(c)
       \/ Open(c) \/ OpenFails(c) \/ CloseDir(c) \/ Reply(c) \/ ReplyFails(c)
       \/ OpenFile(c) \/ Transfer(c) \/ TransferFails(c)
       \/ Finish(c) \/ FinishFails(c)
  \/ AcceptFails

Spec == Init /\ [][Next]_vars

-----------------------------------------------------------------------------

(* A thread reads its slot again after others were filled: it answers its  *)
(* own connection and no other, as long as no thread was left behind by    *)
(* fourteen connections, and however descriptors are closed and reused.    *)
OwnUnlessLapped == \A s \in served : s.conn = s.thread \/ s.lapped

(* What a connection costs for ever, in descriptors: in asg1 only list()   *)
(* closes its connection, and in both servers get() never closes the       *)
(* directory, whether it found the file or not.                            *)
Leaked(c) == (IF ~tls /\ kind[c] # "list" THEN 1 ELSE 0)
             + (IF kind[c] = "get" THEN 1 ELSE 0)

(* Calls that open and calls that close in balance: when a thread is done, *)
(* what is left behind the descriptors of the process is the connection in *)
(* asg1, unless it was a list, and one directory for each get, over TLS    *)
(* too.  Before, a connection takes three descriptors at most.             *)
DescriptorBalance ==
  ~lapped /\ ~exited =>
    \A c \in 1..accepted :
      LET held == Cardinality({f \in Fds : open[f].conn = c})
      IN  IF pc[c] = "done" THEN held = Leaked(c) ELSE held <= 3

(* The exits in the threads: clients that all get or put a file, and live  *)
(* to the end of it, end the server of asg1 in one way only, whatever the  *)
(* interleaving and unless a thread was left behind: they use up all its   *)
(* descriptors (get() then follows a NULL, and put() exits).               *)
SurvivesGoodClients ==
  exited /\ ~tls /\ ~lapped =>
    FreeFds = {} \/ \E c \in 1..accepted : request[c] \notin {"get", "put"}
=============================================================================
