------------------------------ MODULE Transfer ------------------------------
(***************************************************************************)
(* How src/asg1, and src/easg1 over TLS, move a file over one connection:  *)
(* get() and put() of myftpserver.c and myftpclient.c, with sendn() and    *)
(* recvn() of myftp.c.                                                     *)
(*                                                                         *)
(* One end sends, the other receives: the server sends in a get, the       *)
(* client in a put.  The server first sends a reply.  The file follows in  *)
(* batches, each behind a header with its length; an empty batch ends it.  *)
(*                                                                         *)
(* The stream is a sequence of items: a header is two of them (protocol    *)
(* with type, and length), and so a connection that ends may cut it.  At   *)
(* the end of the stream recvn() returns 0, which no caller tests: the     *)
(* receiver goes on with what its buffer held before.  No file has bytes   *)
(* that look like the first item of a header.                              *)
(*                                                                         *)
(* Under TLS a message is one record and arrives as a whole or not at all. *)
(* Both ends of a connection then shut it down and close it; under TCP     *)
(* only the client does.                                                   *)
(*                                                                         *)
(* A process may be killed at any time.  "exit" stands for the exits in    *)
(* the code and for the signal that a write to a dead connection raises.   *)
(***************************************************************************)
EXTENDS Integers, Sequences

CONSTANTS
  Sizes,       \* sizes a file may have
  BATCH_SIZE

ASSUME SizesAssumption == Sizes \subseteq Nat
ASSUME BatchAssumption == BATCH_SIZE \in Nat \ {0}

VARIABLES
  tls,         \* is it src/easg1?
  dir,         \* "get" or "put"
  size,        \* of the file
  reply,       \* GET_REPLY or PUT_REPLY: "none", "sent" or "read"
  chan,        \* the file's stream: what was sent and not yet received
  spc, i,      \* sender: where it is, and how many batches it sent
  rpc, need,   \* receiver: where it is, and file_data_len
  buff,        \* receiver: what the first bytes of its buffer hold
  file,        \* what the receiver wrote
  cut          \* history: the receiver took a length out of a cut header

vars == <<tls, dir, size, reply, chan, spc, i, rpc, need, buff, file, cut>>

Magic == <<"magic", 0>>
Reply == <<"reply", 0>>
Junk  == <<"junk", 0>>
Length(n)  == <<"length", n>>
Content(n) == <<"content", n>>

Items == {"magic", "reply", "junk", "length", "content"} \X Nat

TypeOK ==
  /\ tls \in BOOLEAN
  /\ dir \in {"get", "put"}
  /\ size \in Sizes
  /\ reply \in {"none", "sent", "read"}
  /\ chan \in Seq(Items)
  /\ spc \in {"reply", "sending", "finished", "closed", "exit", "killed"}
  /\ i \in Nat
  /\ rpc \in {"reply", "header", "data", "done", "closed", "exit", "killed"}
  /\ need \in Nat
  /\ buff \in Items \X Items
  /\ file \in Seq(Items)
  /\ cut \in BOOLEAN

Init ==
  /\ tls \in BOOLEAN
  /\ dir \in {"get", "put"}
  /\ size \in Sizes
  /\ reply = "none"
  /\ chan = << >>
  /\ spc = "reply" /\ i = 0
  /\ rpc = "reply" /\ need = 0
  /\ buff = <<IF dir = "put" THEN Reply ELSE Junk, Junk>>
  /\ file = << >>
  /\ cut = FALSE

Least(m, n) == IF m < n THEN m ELSE n

-----------------------------------------------------------------------------

(* The sockets: without TLS only the client closes its end when it is done.*)
SenderClosed ==
  \/ spc \in {"closed", "exit", "killed"}
  \/ spc = "finished" /\ dir = "put" /\ ~tls
ReceiverClosed ==
  \/ rpc \in {"closed", "exit", "killed"}
  \/ rpc = "done" /\ dir = "get" /\ ~tls

(* The server sends its reply and goes on.                                 *)
SendReply ==
  /\ reply = "none"
  /\ \/ dir = "get" /\ spc = "reply" /\ spc' = "sending" /\ UNCHANGED rpc
     \/ dir = "put" /\ rpc = "reply" /\ rpc' = "header" /\ UNCHANGED spc
  /\ reply' = "sent"
  /\ UNCHANGED <<tls, dir, size, chan, i, need, buff, file, cut>>

(* The client reads it, or leaves when the server is gone without one.     *)
ReadReply ==
  /\ \/ dir = "get" /\ rpc = "reply" /\ UNCHANGED spc
        /\ rpc' = IF reply = "sent" THEN "header" ELSE "exit"
     \/ dir = "put" /\ spc = "reply" /\ UNCHANGED rpc
        /\ spc' = IF reply = "sent" THEN "sending" ELSE "exit"
  /\ \/ reply = "sent" /\ reply' = "read"
     \/ /\ reply = "none" /\ UNCHANGED reply
        /\ "killed" \in {IF dir = "get" THEN spc ELSE rpc}
  /\ UNCHANGED <<tls, dir, size, chan, i, need, buff, file, cut>>

(* Mutants: a size of which the rest is not sent; two batches too many.    *)
BatchesNoRest == size \div BATCH_SIZE
BatchesTwoMore == size \div BATCH_SIZE + 3

(* req_batch                                                               *)
Batches == size \div BATCH_SIZE + 1

(* Mutant: the length counts one byte less.                                *)
MessageShort(from, len) ==
  <<Magic, Length(len - 1)>> \o [n \in 1..len |-> Content(from + n)]

Message(from, len) ==
  <<Magic, Length(len)>> \o [n \in 1..len |-> Content(from + n)]

(* Mutant: every batch is read from the start of the file.                 *)
BatchRepeated(n) == Message(0, Least(BATCH_SIZE, size - n * BATCH_SIZE))

(* The n-th batch: what fread() gives from there.                          *)
Batch(n) == Message(n * BATCH_SIZE, Least(BATCH_SIZE, size - n * BATCH_SIZE))

NextMessage == IF i < Batches THEN Batch(i) ELSE Message(0, 0)

SendBatch ==
  /\ spc = "sending"
  /\ i < Batches
  /\ chan' = chan \o Batch(i)
  /\ i' = i + 1
  /\ UNCHANGED <<tls, dir, size, reply, spc, rpc, need, buff, file, cut>>

(* Mutant: the sender relies on the last batch to be short.                *)
SendTerminatorNone ==
  /\ spc = "sending"
  /\ i >= Batches
  /\ spc' = "finished"
  /\ UNCHANGED <<tls, dir, size, reply, chan, i, rpc, need, buff, file, cut>>

SendTerminator ==
  /\ spc = "sending"
  /\ i >= Batches
  /\ chan' = chan \o Message(0, 0)
  /\ spc' = "finished"
  /\ UNCHANGED <<tls, dir, size, reply, i, rpc, need, buff, file, cut>>

(* The peer closed its socket with something unread, or got something      *)
(* after it did: its kernel resets the connection, and send() fails.       *)
SendFails ==
  /\ spc = "sending"
  /\ ReceiverClosed
  /\ chan # << >> \/ reply = "sent"
  /\ spc' = "exit"
  /\ UNCHANGED <<tls, dir, size, reply, chan, i, rpc, need, buff, file, cut>>

(* SSL_shutdown(), which writes to the connection, and close().            *)
SenderShuts ==
  /\ tls /\ spc = "finished"
  /\ \/ spc' = "closed"
     \/ ReceiverClosed /\ chan # << >> /\ spc' = "exit"
  /\ UNCHANGED <<tls, dir, size, reply, chan, i, rpc, need, buff, file, cut>>

-----------------------------------------------------------------------------

(* recvn(n): it waits for n items or for the end of the stream.  What it   *)
(* took overlays the buffer.                                               *)
Receivable(n) == Len(chan) >= n \/ SenderClosed

Taken(n) == SubSeq(chan, 1, Least(n, Len(chan)))

Receive(n) ==
  LET taken == Taken(n) IN
  /\ Receivable(n)
  /\ chan' = SubSeq(chan, Len(taken) + 1, Len(chan))
  /\ buff' = [k \in 1..2 |-> IF k <= Len(taken) THEN taken[k] ELSE buff[k]]

(* A header: of an empty batch, of another one, not a header at all, or    *)
(* one whose length is left over from the file: as an int it is 0, more    *)
(* than 0, or negative, and then recvn() returns it as an error.           *)
ReceiveHeader ==
  /\ rpc = "header"
  /\ Receive(2)
  /\ \/ /\ buff'[1] # Magic
        /\ rpc' = "exit"
        /\ UNCHANGED <<need, cut>>
     \/ /\ buff'[1] = Magic
        /\ buff'[2][1] = "length"
        /\ need' = buff'[2][2]
        /\ rpc' = IF need' = 0 THEN "done" ELSE "data"
        /\ UNCHANGED cut
     \/ /\ buff'[1] = Magic
        /\ buff'[2][1] # "length"
        /\ need' \in {0, BATCH_SIZE}
        /\ rpc' \in {"exit", IF need' = 0 THEN "done" ELSE "data"}
        /\ cut' = TRUE
  /\ UNCHANGED <<tls, dir, size, reply, spc, i, file>>

(* The batch: nothing is written when the stream ends before it does.      *)
ReceiveData ==
  /\ rpc = "data"
  /\ Receive(need)
  /\ file' = IF Len(chan) >= need THEN file \o Taken(need) ELSE file
  /\ rpc' = "header"
  /\ UNCHANGED <<tls, dir, size, reply, spc, i, need, cut>>

(* recv() fails because the connection was reset.                          *)
ReceiveFails ==
  /\ rpc \in {"header", "data"}
  /\ spc \in {"exit", "killed"}
  /\ rpc' = "exit"
  /\ UNCHANGED <<tls, dir, size, reply, chan, spc, i, need, buff, file, cut>>

(* All that the sender gets from it was read before the file ended.        *)
ReceiverShuts ==
  /\ tls /\ rpc = "done"
  /\ rpc' = "closed"
  /\ UNCHANGED <<tls, dir, size, reply, chan, spc, i, need, buff, file, cut>>

(* How much arrives of a message that is being sent.                       *)
CutAt(message) == IF tls THEN {0, Len(message)} ELSE 0..Len(message)

(* A process is killed; a sender may leave a part of a message behind.     *)
KillSender ==
  /\ spc \in {"reply", "sending"}
  /\ spc' = "killed"
  /\ \E n \in IF spc = "sending" THEN CutAt(NextMessage) ELSE {0} :
       chan' = chan \o SubSeq(NextMessage, 1, n)
  /\ UNCHANGED <<tls, dir, size, reply, i, rpc, need, buff, file, cut>>

KillReceiver ==
  /\ rpc \in {"reply", "header", "data"}
  /\ rpc' = "killed"
  /\ UNCHANGED <<tls, dir, size, reply, chan, spc, i, need, buff, file, cut>>

Sender ==
  \/ dir = "get" /\ SendReply
  \/ dir = "put" /\ ReadReply
  \/ SendBatch \/ SendTerminator \/ SendFails \/ SenderShuts

Receiver ==
  \/ dir = "put" /\ SendReply
  \/ dir = "get" /\ ReadReply
  \/ ReceiveHeader \/ ReceiveData \/ ReceiverShuts

Next == Sender \/ Receiver \/ ReceiveFails \/ KillSender \/ KillReceiver

(* Both processes run as long as they can; nobody has to be killed.        *)
Spec == Init /\ [][Next]_vars /\ WF_vars(Sender) /\ WF_vars(Receiver)

-----------------------------------------------------------------------------

Whole == [n \in 1..size |-> Content(n)]

(* recvn() and fwrite() of put() and get(): whatever ends the connection,  *)
(* the receiver wrote a beginning of the file, in order and without gaps,  *)
(* and nothing that its buffer held before.                                *)
PrefixWritten ==
  /\ Len(file) <= size
  /\ file = SubSeq(Whole, 1, Len(file))

Finished == spc \in {"finished", "closed"}
Done     == rpc \in {"done", "closed"}

(* A receiver that leaves its loop without an error has the whole file;    *)
(* the only exception is a header that was cut off before its length, and  *)
(* that cannot happen under TLS.                                           *)
CompleteMeansWhole == Done /\ (tls \/ ~cut) => file = Whole

(* Neither end exits unless the other one was killed, although under TCP   *)
(* the terminator that is sent twice, for a size that is a multiple of the *)
(* batch, may find that the client has closed.  Under TLS that is one      *)
(* write too many: SSL_shutdown() fails, and the sender, the server too,   *)
(* exits when it has delivered the whole file.                             *)
NoFailureAlone ==
  /\ spc = "exit" => \/ rpc = "killed"
                     \/ tls /\ rpc = "closed" /\ size % BATCH_SIZE = 0 /\ i = Batches
  /\ rpc = "exit" => spc = "killed"

(* size / BATCH_SIZE + 1 batches: when the size is a multiple of the batch *)
(* the last batch is taken for the terminator, which stays in the socket;  *)
(* otherwise nothing is left over.                                         *)
LeftOver ==
  Finished /\ Done =>
    chan = IF size % BATCH_SIZE = 0 THEN Message(0, 0) ELSE << >>

(* The sender is gone, and the buffer of the receiver holds a header that  *)
(* recvn(), which returns 0, will leave there for ever.                    *)
Spinning ==
  /\ SenderClosed
  /\ chan = << >>
  /\ buff[1] = Magic

(* Every transfer ends, for better or worse, unless the receiver spins.    *)
TransferEnds ==
  rpc \in {"header", "data"} ~> rpc \in {"done", "closed", "exit", "killed"} \/ Spinning
=============================================================================
