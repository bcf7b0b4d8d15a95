------------------------------ MODULE Stripes ------------------------------
(***************************************************************************)
(* The erasure-coded file transfer of src/asg2: the client's main_task(),  *)
(* put() and get(), and the threads of the N servers.                      *)
(*                                                                         *)
(* A put sends block s of each stripe to server s; a server stores its     *)
(* blocks in one file and, at the end, the size of the whole file in its   *)
(* metadata.  A get asks K servers, and Restore says what comes of it.     *)
(*                                                                         *)
(* The servers have the ids of their places in the client's list, one      *)
(* client runs at a time, on one file, and starts when the servers are     *)
(* done with the one before.  How a connection is cut in the middle of a   *)
(* message is the subject of Transfer, the slots that of FtpServer.        *)
(***************************************************************************)
EXTENDS Restore

CONSTANTS
  Sizes,       \* sizes a file may have
  Capacity,    \* messages that fit in a connection whose socket is writable
  MaxRuns,     \* bound: clients that are started
  MaxFaults    \* bound: processes killed and disks lost

ASSUME SizesAssumption == Sizes \subseteq Nat
ASSUME BoundAssumption == Capacity \in Nat \ {0} /\ MaxRuns \in Nat /\ MaxFaults \in Nat

Request == -2      \* messages: PUT_REQUEST, the terminator with the size,
End     == -1      \* or the number of the stripe a block is of
None    == << >>
Empty   == <<0, 0>>   \* metadata without contents: its size reads as 0
NoFile  == <<Garbage>>

VARIABLES
  pc,          \* client: "off", "put", "reply", "get" or "spin"
  ver, size,   \* the put: its number, and the size of its file
  i,           \* the stripe it delivers
  ready,       \* servers that select() gave and that were not served yet
  sent,        \* check_send: servers that got their block of the stripe
  ava, got,    \* the get: ava_fds, and those asked
  fsize, dc,   \* filesize and dc
  unset,       \* an element of eff_server_ids, or the rest of a file, was not set
  answer,      \* what became of the get
  up,          \* servers that run
  thr,         \* their threads: "none", "request" or "data"
  chan,        \* the connections to them
  file, meta,  \* their disks
  runs, faults,
  ended,       \* history: how the last client ended
  missed,      \* history: stripes of the put that were not sent to a server
  torn,        \* history: servers that were killed between the metadata and fclose()
  leftOut      \* history: a put was done that did not send a server the last

client  == <<ver, size, i, ready, sent>>
getter  == <<ava, got, fsize, dc, unset, answer>>
servers == <<up, thr, chan, file, meta>>
history == <<ended, missed, torn, leftOut>>
vars == <<pc, client, getter, servers, runs, faults, history>>

Metas == {None, Empty} \cup {<<v, z>> : v \in 1..MaxRuns, z \in Sizes}

Blocks == [ver : 0..MaxRuns, stripe : Nat, row : 0..(N - 1)]

TypeOK ==
  /\ pc \in {"off", "put", "reply", "get", "spin"}
  /\ ver \in 0..MaxRuns
  /\ size \in Sizes \cup {0}
  /\ i \in 0..LastStripe(size)
  /\ ready \subseteq Servers /\ sent \subseteq Servers
  /\ ava \subseteq Servers /\ got \subseteq ava
  /\ fsize \in Int
  /\ dc \in BOOLEAN /\ unset \in BOOLEAN
  /\ answer \in {None}
       \cup [how : {"failed", "nothing", "undefined"}]
       \cup [how : {"success", "mismatch", "silent"}, whole : BOOLEAN,
             data : Seq(Blocks \X (1..StripeSize))]
  /\ up \subseteq Servers
  /\ thr \in [Servers -> {"none", "request", "data"}]
  /\ chan \in [Servers -> Seq({Request, End} \cup Nat)]
  /\ \A s \in Servers : Len(chan[s]) <= Capacity + 1
  /\ file \in [Servers -> Seq(Blocks)]
  /\ meta \in [Servers -> Metas]
  /\ runs \in 0..MaxRuns /\ faults \in 0..MaxFaults
  /\ ended \in {"none", "done", "exit", "killed"}
  /\ missed \in [Servers -> SUBSET Nat]
  /\ torn \subseteq Servers /\ leftOut \in BOOLEAN

Init ==
  /\ pc = "off"
  /\ ver = 0 /\ size = 0 /\ i = 0 /\ ready = {} /\ sent = {}
  /\ ava = {} /\ got = {} /\ fsize = 0 /\ dc = TRUE /\ unset = FALSE /\ answer = None
  /\ up = Servers
  /\ thr = [s \in Servers |-> "none"]
  /\ chan = [s \in Servers |-> << >>]
  /\ file = [s \in Servers |-> NoFile]
  /\ meta = [s \in Servers |-> None]
  /\ runs = 0 /\ faults = 0
  /\ ended = "none"
  /\ missed = [s \in Servers |-> {}]
  /\ torn = {} /\ leftOut = FALSE

First(S) == CHOOSE s \in S : \A t \in S : s <= t

-----------------------------------------------------------------------------
(* The client connects.                                                    *)

Starts ==
  /\ pc = "off"
  /\ runs < MaxRuns
  /\ \A s \in Servers : thr[s] = "none"
  /\ runs' = runs + 1
  /\ answer' = None

(* A put needs all servers.                                                *)
StartPut ==
  /\ Starts
  /\ up = Servers
  /\ pc' = "put"
  /\ size' \in Sizes
  /\ ver' = ver + 1 /\ i' = 0 /\ ready' = {} /\ sent' = {}
  /\ thr' = [s \in Servers |-> "request"]
  /\ missed' = [s \in Servers |-> {}]
  /\ ended' = "none"
  /\ ava' = {} /\ got' = {} /\ fsize' = 0 /\ dc' = TRUE /\ unset' = FALSE
  /\ UNCHANGED <<up, chan, file, meta, faults, torn, leftOut>>

(* A get takes the first K that are there.                                 *)
StartGet ==
  /\ Starts
  /\ Cardinality(up) >= K
  /\ pc' = "get"
  /\ ava' = {s \in up : Cardinality({t \in up : t < s}) < K}
  /\ got' = {} /\ fsize' = 0 /\ dc' = TRUE /\ unset' = FALSE
  /\ ended' = "none"
  /\ UNCHANGED <<client, servers, faults, missed, torn, leftOut>>

(* It gives up at the first server that is missing, or the first that is   *)
(* one too many; those before have a connection without a request.  What   *)
(* their threads find in their buffers ends them, or does not.             *)
Connected(missing) ==
  {s \in up : Cardinality({t \in Servers \ up : t < s}) < missing}

GivesUp(missing) ==
  /\ Starts
  /\ \E dead \in SUBSET Connected(missing) : up' = up \ dead
  /\ ended' = "exit"
  /\ UNCHANGED <<pc, client, ava, got, fsize, dc, unset, thr, chan, file, meta, faults,
                 missed, torn, leftOut>>

PutRefused == up # Servers /\ GivesUp(1)
GetRefused == Cardinality(up) < K /\ GivesUp(N - K + 1)

-----------------------------------------------------------------------------
(* The client delivers the stripes.                                        *)

IsLast == i = LastStripe(size)

(* A thread that is gone left a dead connection behind, and that can be    *)
(* written to.                                                             *)
Dead(s) == thr[s] = "none"

(* Mutant: FD_ISSET is not asked.                                          *)
WritableAlways == Servers

Writable == {s \in Servers : Dead(s) \/ Len(chan[s]) < Capacity}

(* Mutants: the loop ends one server too early, or waits for one that is   *)
(* not there.                                                              *)
EnoughTooEarly == Cardinality(sent) >= N - 2
EnoughTooLate == Cardinality(sent) > N

(* count < server_num - 1                                                  *)
Enough == Cardinality(sent) >= N - 1

(* select() without a timeout: where it finds none, it is called again.    *)
Select ==
  /\ pc = "put"
  /\ ready = {}
  /\ ~Enough
  /\ ready' = Writable \ sent
  /\ ready' # {}
  /\ UNCHANGED <<pc, ver, size, i, sent, getter, servers, runs, faults, history>>

NextStripe ==
  /\ pc = "put"
  /\ ready = {}
  /\ Enough
  /\ missed' = [s \in Servers |-> missed[s] \cup (IF s \in sent THEN {} ELSE {i})]
  /\ sent' = {}
  /\ IF IsLast
     THEN /\ pc' = "off"
          /\ ended' = "done"
          /\ leftOut' = (leftOut \/ sent # Servers)
          /\ UNCHANGED i
     ELSE /\ i' = i + 1
          /\ UNCHANGED <<pc, ended, leftOut>>
  /\ UNCHANGED <<ver, size, ready, getter, servers, runs, faults, torn>>

(* Mutants: the last stripe is sent without the end, or behind it.         *)
MessageNoEnd == <<i>>
MessageEndFirst == IF IsLast THEN <<End, i>> ELSE <<i>>

(* FILE_DATA with the block, and behind the last one the end.              *)
Message == IF IsLast THEN <<i, End>> ELSE <<i>>

SendBlock(s) ==
  /\ chan' = [chan EXCEPT ![s] = @ \o Message]
  /\ ready' = ready \ {s}
  /\ sent' = sent \cup {s}
  /\ pc' = "put"
  /\ UNCHANGED <<ver, size, i, getter, up, thr, file, meta, runs, faults, history>>

Put(s) ==
  /\ pc = "put"
  /\ ready # {} /\ s = First(ready)
  /\ i > 0
  /\ ~Dead(s)
  /\ SendBlock(s)

(* The first time, the request is sent and the reply awaited.              *)
PutRequest(s) ==
  /\ pc = "put"
  /\ ready # {} /\ s = First(ready)
  /\ i = 0
  /\ ~Dead(s)
  /\ chan' = [chan EXCEPT ![s] = Append(@, Request)]
  /\ pc' = "reply"
  /\ UNCHANGED <<client, getter, up, thr, file, meta, runs, faults, history>>

PutReply(s) ==
  /\ pc = "reply"
  /\ s = First(ready)
  /\ thr[s] = "data"
  /\ SendBlock(s)

(* A dead connection: the first write to it may still succeed.             *)
PutLost(s) ==
  /\ pc = "put"
  /\ ready # {} /\ s = First(ready)
  /\ i > 0
  /\ Dead(s)
  /\ ready' = ready \ {s}
  /\ sent' = sent \cup {s}
  /\ UNCHANGED <<pc, ver, size, i, getter, servers, runs, faults, history>>

PutFails(s) ==
  /\ pc \in {"put", "reply"}
  /\ ready # {} /\ s = First(ready)
  /\ Dead(s)
  /\ pc' = "off"
  /\ ended' = "exit"
  /\ UNCHANGED <<client, getter, servers, runs, faults, missed, torn, leftOut>>

-----------------------------------------------------------------------------
(* The threads of the servers.                                             *)

Received(s) == chan' = [chan EXCEPT ![s] = Tail(@)]

TakeRequest(s) ==
  /\ thr[s] = "request"
  /\ chan[s] # << >>
  /\ file' = [file EXCEPT ![s] = << >>]
  /\ thr' = [thr EXCEPT ![s] = "data"]
  /\ Received(s)
  /\ UNCHANGED <<pc, client, getter, up, meta, runs, faults, history>>

TakeBlock(s) ==
  /\ thr[s] = "data"
  /\ chan[s] # << >> /\ Head(chan[s]) # End
  /\ file' = [file EXCEPT ![s] = Append(@, Block(ver, Head(chan[s]), s - 1))]
  /\ Received(s)
  /\ UNCHANGED <<pc, client, getter, up, thr, meta, runs, faults, history>>

TakeEnd(s) ==
  /\ thr[s] = "data"
  /\ chan[s] # << >> /\ Head(chan[s]) = End
  /\ meta' = [meta EXCEPT ![s] = <<ver, size>>]
  /\ thr' = [thr EXCEPT ![s] = "none"]
  /\ Received(s)
  /\ UNCHANGED <<pc, client, getter, up, file, runs, faults, history>>

(* The connection ends without the end of the file: what is in the buffer  *)
(* is not a header, and that ends the server.  Only a connection that was  *)
(* cut within a message, or has no request, may leave it running.          *)
TakeEof(s) ==
  /\ pc = "off"
  /\ thr[s] # "none"
  /\ chan[s] = << >>
  /\ thr' = [thr EXCEPT ![s] = "none"]
  /\ \/ up' = up \ {s}
     \/ (ended = "killed" \/ thr[s] = "request") /\ UNCHANGED up
  /\ UNCHANGED <<pc, client, getter, chan, file, meta, runs, faults, ended,
                 missed, torn, leftOut>>

Serve(s) == TakeRequest(s) \/ TakeBlock(s) \/ TakeEnd(s) \/ TakeEof(s)

-----------------------------------------------------------------------------
(* The client fetches blocks.                                              *)

Asked == First(ava \ got)

GetEnds(reply) ==
  /\ pc' = "off"
  /\ answer' = reply

(* The client ends early: the servers it was not done with may end, where  *)
(* they read an unfinished request or write to it.                         *)
Drops(alive) ==
  \E dead \in SUBSET ((ava \ got) \cap alive) : up' = alive \ dead

(* get() returns.  Only the first size that is not 0 is kept.              *)
Fetched ==
  /\ got' = got \cup {Asked}
  /\ fsize' = IF fsize = 0 THEN AsInt(meta[Asked][2]) ELSE fsize
  /\ dc' = (dc /\ ~(fsize = 0 /\ fsize' = -1))

(* get() of a server that knows the file and its size.                     *)
Fetch ==
  /\ pc = "get"
  /\ Cardinality(got) < K /\ Asked \in up
  /\ file[Asked] # NoFile /\ meta[Asked] # None
  /\ Fetched
  /\ UNCHANGED <<pc, ava, unset, answer, client, servers, runs, faults, history>>

(* ... of one that does not have the file: its id is not set, and only if  *)
(* there was no size before it makes a difference.                         *)
FetchNothing ==
  /\ pc = "get"
  /\ Cardinality(got) < K /\ Asked \in up
  /\ file[Asked] = NoFile
  /\ got' = got \cup {Asked}
  /\ fsize' = IF fsize = 0 THEN -1 ELSE fsize
  /\ dc' = (dc /\ fsize # 0)
  /\ unset' = TRUE
  /\ UNCHANGED <<pc, ava, answer, client, servers, runs, faults, history>>

(* ... of one that has no metadata: fgetc(NULL) ends it.                   *)
FetchCrashes ==
  /\ pc = "get"
  /\ Cardinality(got) < K /\ Asked \in up
  /\ file[Asked] # NoFile /\ meta[Asked] = None
  /\ Drops(up \ {Asked})
  /\ GetEnds([how |-> "failed"])
  /\ ended' = "exit"
  /\ UNCHANGED <<client, ava, got, fsize, dc, unset, thr, chan, file, meta, runs, faults,
                 missed, torn, leftOut>>

Fault == faults < MaxFaults /\ faults' = faults + 1

(* ... of one that is killed while it sends the file: from then on recvn() *)
(* leaves in the buffer what was there.  That is a header no more, and the *)
(* client exits; or it is the last header, for a block that did not come,  *)
(* and is read for ever; or a piece of a header makes one with the bytes   *)
(* behind it that ends a file of which the rest is missing.                *)
FetchCut ==
  /\ pc = "get"
  /\ Cardinality(got) < K /\ Asked \in up
  /\ file[Asked] # NoFile /\ meta[Asked] # None
  /\ Fault
  /\ \/ /\ Drops(up \ {Asked})
        /\ GetEnds([how |-> "failed"])
        /\ ended' = "exit"
        /\ UNCHANGED <<got, fsize, dc, unset>>
     \/ /\ up' = up \ {Asked}
        /\ pc' = "spin"
        /\ UNCHANGED <<got, fsize, dc, unset, answer, ended>>
     \/ /\ up' = up \ {Asked}
        /\ Fetched
        /\ unset' = TRUE
        /\ UNCHANGED <<pc, answer, ended>>
  /\ UNCHANGED <<client, ava, thr, chan, file, meta, runs, missed, torn, leftOut>>

(* ... of one that is gone.                                                *)
FetchFails ==
  /\ pc = "get"
  /\ Cardinality(got) < K /\ Asked \notin up
  /\ Drops(up)
  /\ GetEnds([how |-> "failed"])
  /\ ended' = "exit"
  /\ UNCHANGED <<client, ava, got, fsize, dc, unset, thr, chan, file, meta, runs, faults,
                 missed, torn, leftOut>>

Whole(s) == file[s] = AllBlocks(ver, size, s) /\ meta[s] = <<ver, size>>

(* restore_order[k] is read, which is behind its end.                      *)
ReadsBehind == LooksWhole(fsize) /\ NumOfStrip(fsize) > 0

Decode ==
  /\ pc = "get"
  /\ Cardinality(got) = K
  /\ \/ ~dc /\ GetEnds([how |-> "nothing"])
     \/ dc /\ (unset \/ ReadsBehind) /\ GetEnds([how |-> "undefined"])
     \/ dc /\ ~unset /\ \E rest \in NonFullBlockSizes(fsize) :
          GetEnds([how   |-> Verdict(fsize, rest),
                   whole |-> \A s \in got : Whole(s),
                   data  |-> Written(file, got, fsize, rest)])
  /\ ended' = "done"
  /\ UNCHANGED <<client, ava, got, fsize, dc, unset, servers, runs, faults, missed,
                 torn, leftOut>>

-----------------------------------------------------------------------------
(* What may happen to the processes.                                       *)

(* A killed client may leave its last message unfinished: of the last one, *)
(* the block without the end.                                              *)
KillClient ==
  /\ pc # "off"
  /\ Fault
  /\ pc' = "off"
  /\ ended' = "killed"
  /\ answer' = None
  /\ IF pc \in {"get", "spin"} THEN Drops(up) ELSE UNCHANGED up
  /\ \/ UNCHANGED chan
     \/ /\ pc \in {"put", "reply"} /\ ready # {} /\ IsLast
        /\ thr[First(ready)] = "data"
        /\ chan' = [chan EXCEPT ![First(ready)] = Append(@, i)]
  /\ UNCHANGED <<client, ava, got, fsize, dc, unset, thr, file, meta, runs,
                 missed, torn, leftOut>>

(* A killed server loses the blocks that it did not write to the disk yet. *)
Killed(s, flushed) ==
  /\ s \in up
  /\ Fault
  /\ up' = up \ {s}
  /\ thr' = [thr EXCEPT ![s] = "none"]
  /\ chan' = [chan EXCEPT ![s] = << >>]
  /\ file' = [file EXCEPT ![s] = SubSeq(@, 1, flushed)]

KillServer(s) ==
  /\ \E m \in 0..Len(file[s]) :
       /\ thr[s] # "data" => m = Len(file[s])
       /\ Killed(s, m)
  /\ UNCHANGED <<pc, client, getter, meta, runs, history>>

(* put() of the server opens the metadata, which empties it, and closes it *)
(* before the file.                                                        *)
KillAtEnd(s) ==
  /\ thr[s] = "data"
  /\ chan[s] # << >> /\ Head(chan[s]) = End
  /\ \E m \in 0..Len(file[s]) : Killed(s, m)
  /\ \E stored \in {Empty, <<ver, size>>} : meta' = [meta EXCEPT ![s] = stored]
  /\ torn' = torn \cup {s}
  /\ UNCHANGED <<pc, client, getter, runs, ended, missed, leftOut>>

Restart(s) ==
  /\ pc = "off"
  /\ s \notin up
  /\ up' = up \cup {s}
  /\ UNCHANGED <<pc, client, getter, thr, chan, file, meta, runs, faults, history>>

LoseDisk(s) ==
  /\ pc = "off"
  /\ s \notin up
  /\ Fault
  /\ file' = [file EXCEPT ![s] = NoFile]
  /\ meta' = [meta EXCEPT ![s] = None]
  /\ UNCHANGED <<pc, client, getter, up, thr, chan, runs, history>>

ClientStep ==
  \/ Select \/ NextStripe
  \/ \E s \in Servers : Put(s) \/ PutRequest(s) \/ PutReply(s) \/ PutLost(s) \/ PutFails(s)
  \/ Fetch \/ FetchNothing \/ FetchCrashes \/ FetchFails \/ Decode

Next ==
  \/ StartPut \/ StartGet \/ PutRefused \/ GetRefused
  \/ ClientStep
  \/ \E s \in Servers : Serve(s) \/ KillServer(s) \/ KillAtEnd(s) \/ Restart(s) \/ LoseDisk(s)
  \/ FetchCut \/ KillClient

(* A client that was started runs on, and so do the threads of the         *)
(* servers, of which any may be the next.                                  *)
Spec ==
  /\ Init /\ [][Next]_vars
  /\ WF_vars(ClientStep)
  /\ WF_vars(\E s \in Servers : Serve(s))

-----------------------------------------------------------------------------

(* The delivery loop: it goes on when all servers but one have their block *)
(* of a stripe.  So no stripe is missed by two, and the first by none,     *)
(* since select() finds every new connection writable; whatever a server   *)
(* missed, the rest of its blocks is in its file and in order.             *)
OthersStored ==
  /\ \A s, t \in Servers : s # t => missed[s] \cap missed[t] = {}
  /\ \A s \in Servers :
       /\ 0 \notin missed[s]
       /\ ended = "done" /\ pc = "off" /\ faults = 0 /\ ver > 0 /\ thr[s] = "none" =>
            LET kept == (0..LastStripe(size)) \ missed[s] IN
            file[s] = [m \in 1..Cardinality(kept) |->
                         Block(ver, Sorted(kept)[m], s - 1)]

(* Metadata is stored after the last block: a server whose size and blocks *)
(* are of the same put has the last stripe, and misses only what the       *)
(* client did not send, unless it was killed before its file was closed.   *)
(* (The size of an earlier put may stay behind.)                           *)
MetaAfterBlocks ==
  \A s \in Servers \ torn :
    meta[s] # None /\ file[s] \notin {NoFile, << >>} /\ file[s][1].ver = meta[s][1] =>
      /\ file[s][Len(file[s])].stripe = LastStripe(meta[s][2])
      /\ meta[s][1] = ver => Len(file[s]) = LastStripe(size) + 1 - Cardinality(missed[s])

(* decode_file(): K servers that stored everything, and whose rows of the  *)
(* matrix can be inverted or need not be, give back the file, whichever    *)
(* they are, and the client says so.  Where the size is, or nearly is, a   *)
(* whole number of stripes, the size of the last block is not set: a file  *)
(* of whole stripes comes back or the client says it did not; of another   *)
(* one its last bytes are lost, in silence if there is no more of it.  And *)
(* sizes are ints.                                                         *)
WholeServersRestore ==
  answer # None /\ answer.how \in {"success", "mismatch", "silent"} =>
    (answer.whole /\ Decodable(got) /\ size < IntMax =>
      \/ answer.how = "success" /\ answer.data = Original(ver, size)
      \/ answer.how = "silent" /\ answer.data = << >> /\ size <= StripeSize \div 1000
      \/ /\ LooksWhole(size) /\ size >= StripeSize
         /\ answer.how = "success" => size % StripeSize # 0)

(* The exits in put() and option(), fgetc() of a file that is not there,   *)
(* and the client that gives up: servers that nobody kills run on, as long *)
(* as no put ended without sending one of them the last stripe.            *)
EndsOnlyWhenLeftOut == faults = 0 /\ ~leftOut => up = Servers

(* The client reads the header of a block that did not come for ever: the  *)
(* server it asks is gone.                                                 *)
Spinning == pc = "spin" /\ Asked \notin up

(* The loops around select(): every put ends, and every get ends or spins  *)
(* on the header of a server that was killed, although the client polls,   *)
(* servers lag behind or are killed, and connections are dead.             *)
ClientEnds == pc # "off" ~> pc = "off" \/ Spinning
=============================================================================
