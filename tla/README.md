# Verification of the ESTR4120 network programs

The repository holds the assignments of a networking course, written in C: a
file transfer server and client (`asg1`), the same over TLS (`easg1`), the same
with the files erasure-coded over several servers (`asg2`), a NAT gateway with a
rate limiter (`asgn3`, in a threaded version and in a single-threaded one,
`asgn3/v2`), and an intrusion detector for packet captures (`easg2`). This
directory holds TLA+ models of them, TLC configurations that check the models on
small instances, and TLAPS proofs for every size.

Contents: [inventory](#inventory), [modules](#modules-and-how-they-correspond-to-the-code),
[runs](#runs), [fairness](#fairness), [proofs](#proofs),
[only model-checked](#what-is-only-model-checked),
[findings](#findings), [not modelled](#not-modelled-and-why), [plan](#plan),
[how to run](#how-to-run).

## Inventory

For each component: the state it keeps, its operations, whom it talks to, what
is hard about it, and what makes it correct.

### The NAT's token bucket (`asgn3/nat.c`, `get_token`, `lazy_refill`)

* State: `bucket` (rate, size, tokens, `fill_base_tv`), all under `bucket_mutex`.
* Operations: `get_token()`, once per translated packet, in the packet's own
  thread. Nobody refills the bucket in the background: `lazy_refill()` works out
  how many tokens were due since the fill base. A caller that finds no token
  moves the fill base one token into the future, leaves the mutex and sleeps.
* Hard: the reservation of a token that does not exist yet, while later callers
  and the refill read the same two variables; truncation to whole tokens; the
  bucket at its size; a comparison of signed and unsigned.
* Correct when: no stretch of time lets more packets through than bucket plus
  refill, no packet is delayed without need, nobody overtakes the sleepers, and
  the wait is bounded by the queue.

### The NAT's table and packet threads (`asgn3/nat.c`)

* State: the list `nat_table` of `NAT_TB` entries on the heap, the port marks
  `porttb[2000]`, the counter `pkt_in_buf`, the clock, the stack of each thread.
* Operations: `main()` receives packets and makes a thread of each; `Callback()`
  takes a place in the packet buffer (`add_pkt_buf`), removes expired entries
  (`remove_expiry`), translates (`search_entry` outbound, `search_dst_port`
  inbound), prints the table (`printNAT`), takes a token, gives its place back and
  gives the verdict.
* Interaction: netfilter hands packets in and takes verdicts; `Callback()` calls
  `get_token()` while it holds its place in the buffer.
* Hard: only `pkt_in_buf` and the unlinking of an entry are under `buf_mutex`.
  The list is walked, searched, extended and printed and the port marks are scanned
  and set by all threads without a lock; entries are freed while others hold them.
* Correct when: a flow keeps one port until it was idle for ten seconds, two
  flows never hold one port, a reply reaches the flow that holds the port, and
  the buffer counter is right on each of the ways out.

### The single-threaded NAT (`asgn3/v2/nat.c`)

* State: `nat_table`, `porttb`, and a token counter filled by a thread.
* Operations: `Callback()`, run to its end for each packet.
* Hard: `remove_expiry()` releases the port of an expired entry only if another
  entry follows it; the port scan has no check for "none left".
* Correct when: the table and the marks agree and ports come back.

### The intrusion detector (`easg2/myids.c`)

* State: `current_epoch`, two hash tables of what each source sent (of the even
  and of the odd epochs), the list `sser` of sources already considered as
  superspreaders.
* Operations: one per packet of the capture: close the epoch when the packet is
  of a later one (compare the tables, print heavy changers, clear a table, free
  `sser`), count the packet, print heavy hitters and superspreaders.
* Hard: tables that are reused every second epoch, epochs without packets,
  packets that are late, sources that share a slot of the hash table.
* Correct when: the current table holds the current epoch only, and each of the
  three reports is printed for exactly the sources it is about.

### FTP server and client (`asg1`), and over TLS (`easg1`)

* State: fourteen descriptor slots `accept_fd` used in turn, a thread for each
  connection, the files in `data/`; the client has one connection.
* Operations: the accept loop, `option()` (read a request header, dispatch),
  `list`, `get`, `put`; `sendn`/`recvn`; files travel in batches, each with a
  length, the last of length 0.
* Interaction: client and server over TCP; server threads share the slots and
  the file system.
* Hard: the thread is given the address of a slot and reads it again after the
  loop may have put another connection there; sockets and directories that are not
  closed, out of a pool of descriptors that the files share; `exit()` for one bad
  request or for want of a descriptor; `recvn()` that returns 0 when the peer is gone.
* Over TLS, both ends shut the connection down before they close it, and
  `SSL_shutdown()` writes once more.
* Correct when: each connection is answered on its own descriptor, a transfer
  ends and delivers the file, one client's failure is not another's.

### Erasure-coded FTP (`asg2`)

* State: the client has a connection to each server it reached; for a put the
  stripe it is at and which servers took their block of it (`check_send`); for a
  get the servers asked (`ava_fds`), the size they gave (`filesize`), whether to
  decode (`dc`), and `n` buffers with a block of a stripe each. A server keeps for
  each file its blocks in one file and the size of the whole file in another, the
  metadata.
* Operations: `put` encodes stripe by stripe and delivers the blocks with
  `select()`; `get` fetches the blocks of `k` servers and decodes (`decode_file`);
  the servers' `put` and `get`; the accept loop and `option()` are those of `asg1`.
* Interaction: one client with all servers; what a put left on the disks is what
  a later get, after crashes and restarts, has to work with.
* Hard: the delivery loop goes on, and ends, when all servers but one have their
  block; a server whose connection ends without the end of the file exits; the
  metadata is closed before the blocks are on the disk, and may be of an earlier
  put; any `n - k` servers may be gone; which rows of a decoded stripe are data
  depends on who answered; the number of stripes is computed with a tolerance,
  and the size of a file is an `int`.
* Correct when: each server gets each of its blocks, what `get` restores is what
  was put, whichever `k` servers answer, and no put or get hangs.

### The rest

`asgn3/checksum.c` (and its copy in `v2`): checksums, pure functions on packet
bytes. `easg1/openssl2`, `asgn3/tut3_tester`, `asgn3/testing`: samples and
test tools that are not part of the programs.

## Modules and how they correspond to the code

| Module | Models | Extends / instantiates |
| --- | --- | --- |
| `RateContract` | what a rate limiter promises: the times packets are let through, any window of them bounded | – |
| `TokenBucket` | `get_token()`, `lazy_refill()` | `Contract == INSTANCE RateContract` |
| `PacketRate` | the bucket behind the packet buffer: `Callback()` with its table left out | `TokenBucket` |
| `TokenBucketProofs` | theorems about `TokenBucket` | `TokenBucket`, TLAPS |
| `PacketRateProofs` | theorems about `PacketRate` | `PacketRate`, `TokenBucketProofs` |
| `PortMap` | what a port-translating NAT promises: a map from flows to ports with idle times | – |
| `Nat` | `main()`'s loop and `Callback()` of the threaded NAT, with heap and races | `Map == INSTANCE PortMap WITH clock <- now, bind <- Binding` |
| `NatProofs` | theorems about `Nat` | `Nat`, TLAPS |
| `NatV2` | the single-threaded NAT | – |
| `NatV2Proofs` | theorems about `NatV2` | `NatV2`, TLAPS |
| `Ids` | the intrusion detector | – |
| `IdsProofs` | theorems about `Ids` | `Ids`, TLAPS |
| `FtpServer` | `main_loop()` and `option()` of the servers of `asg1` (and `asg2`) and `easg1` | – |
| `FtpServerProofs` | theorems about `FtpServer` | `FtpServer`, TLAPS |
| `Transfer` | `get()` and `put()` of `asg1` and `easg1`, both ends of one connection | – |
| `TransferProofs` | theorems about `Transfer` | `Transfer`, TLAPS |
| `Restore` | `decode_file()` of `asg2`'s client, and what a file and its blocks are | – |
| `Stripes` | `put()` and `get()` of `asg2`'s client, the servers' threads, their disks | `Restore` |
| `StripesProofs` | theorems about `Stripes` and `Restore` | `Stripes`, TLAPS |
| `MC...` | symmetry sets and constant values for TLC | the module they are named after |

Definitions whose names end in a defect and that are announced as "Mutant" are
plausible bugs, placed before the definition they vary; no specification uses
them. They document what each property is there to detect.

### `TokenBucket`

State: `now` is the clock, `tokens` and `fillBase` are `bucket.tokens` and
`bucket.fill_base_tv`; `pc` and `wake` say where the thread of each packet is and
until when it sleeps; `grants` is a history of the times of the tokens handed out.
Actions, a critical section of `bucket_mutex` each: `TakeToken` (the branch for
the full bucket, or a refill followed by `tokens -= 1`), `ReserveToken` (move the
fill base, unlock, go to sleep), `WakeUp` (after `nanosleep`; possibly late).
`LooksFull` keeps the comparison of a signed sum with an unsigned size, and
`FillTokens` the truncation towards zero. Time may pass between the two clock
readings of `lazy_refill` (`MaxLag`).

The code computes with doubles and cuts microseconds off. The model's time is
exact: `FillTime`, one over the rate, is a whole number of ticks. Everything
said about the bucket is said under that abstraction.

### `PacketRate`

State: that of `TokenBucket`, `pktInBuf`, and the `place` of each packet. `Enter` and
`DropFull` are `add_pkt_buf()`; `GetToken` is a step of `TokenBucket` for a packet that
has a place; `Accept` and `DropUnknown` give the place back (`rm_pkt_buf()`), after
the token and without one. The table, which is between the two, is in `Nat`.

### `Nat`

State: `natTable`, `porttb`, `pktInBuf` as in the code; `heap` is what malloc's
chunks of the size of a `NAT_TB` contain and whether they are allocated; `pc` and
`loc` are the program counter and the locals of each thread; `sent` is a history
of the last translation; `crashed` says whether the process was ended by a memory
fault (`"segv"`) or by the message that no port is left (`"noport"`).

In the order of `Callback()`: `DropOther`, `AddPktBuf` / `DropFull`; `remove_expiry()`
is `StartExpiry` (the head), `ReadClock`, for each entry `ScanEntry` (its time stamp)
and `NextEntry`, or, under `buf_mutex`, `Unlink`, `Unmark` and `Free`, and at last
`EndScan`; outbound `StartOutbound`, `SearchHit` / `SearchOn`, and for a new entry
`Append`, `AppendFill` (or `NewHead`, `HeadFill` in an empty table), `PickPort`,
`SetEntry`; inbound `StartInbound`, `FindHit` / `FindOn` / `DropUnknown`; then
`printNAT()`, which is `StartPrint`, `PrintEntry` and `EndPrint`; then `Accept`. `Receive`
is `main()`'s loop. `Locked` says whether `buf_mutex` is held: it is held from one step
to the next only between `Unlink` and `Free`; its other sections are single steps.

A step is one access to shared memory, but for these, which are taken as one: the
fields of an entry that one statement, or the statements that make an entry, read or
write; an entry's next pointer with its addresses in a search, and with the store that
bypasses the entry in the unlinking; the scan of the port marks up to the first
free one; a port's mark with the entry that gets, or names, the port; the packet's
time stamp with the place in the buffer. Between the accesses of such a step another
thread could act in the program and cannot in the model, so with several threads the
model has fewer interleavings; it has those of the two findings. `get_token()` is
modelled in `TokenBucket` and is a step here.

What is undefined in C is a choice here: after `table->next = malloc()` the code
names `table->next` again, and the thread may find its own chunk or whatever
another thread stored there; a freed chunk has junk in its first 16 bytes and its
old `accesstv` and `next` behind them, as glibc leaves it; freeing a free chunk
ends the process; a store through a junk port may or may not go unnoticed. Flows
are opaque (an inner address and port), and headers and checksums are left out.
Stores of one thread are seen in source order.

### `NatV2`

A packet is one step: `OutboundKnown`, `OutboundNew`, `InboundKnown`,
`InboundUnknown`, each with `remove_expiry()` before it. `Kept`, `Released` and
`FirstFree` are what `remove_expiry()` leaves, which ports it releases, and what
the scan of the port marks finds, the index behind the table included.

### `Ids`

`Packet` is the body of `main()`'s loop for an IPv4 packet: `Closing` (the heavy
changers of the epoch it closes), `Opened` (the cleared table), `Update`,
`CountDstip`. `Crash` is `freeintrtb()` of an epoch in which only 0.0.0.0 sent.
`traffic` and `reports` are histories: what really was sent, and what was printed.

### `FtpServer`

State: `i` and `acceptFd` are those of `main_loop()`; `open` says what is behind each
descriptor of the process, the connection of a client or the directory or the file
that a thread opened; `unread` is what waits in each connection, and `client` whether
its client waits for a reply, has its data to come or go, or left; `pc`, `fd` and `kind`
are where the thread of each connection is, the descriptor in its hand and the request
it read. `tls` chooses the server. Connections are numbered as they are accepted, so
the thread of connection `c` has the slot `(c - 1) % Slots`.

`Accept` and `AcceptFails` are the two ways through the loop. `Begin`, `ReadHeader` and
`ReadName` are `option()`, `Call` its call of `list`, `get` or `put`, in which `Open` opens the
directory (or the file of a put), `CloseDir` is the end of `list`'s loop, `Reply` sends the
listing or the reply, `OpenFile` opens the file of a get, and `Transfer` is its way through
the connection, one step here; `Finish` is the end of the thread. `HeaderFails`,
`NameFails`, `ReplyFails`, `TransferFails` and `FinishFails` are the `exit()`s, and `OpenFails`
what becomes of the process without a free descriptor: `list` and `put` exit, `get`
follows a NULL. The server of `asg1` reads the slot for each call, that of `easg1` once
(`Descriptor`). A connection is closed by `list()` in `asg1` and at the end of the
thread in `easg1`; the directory of a get is never closed, in either.

What is assumed: `data/` is there, and each name is of a file in it or of one that
can be made there, so that `opendir()` and `fopen()` fail for want of a descriptor only;
and a client lives until it has what it asked for, or sees a reply it did not expect,
unless it is one that closes before it sends a request (`"silent"`).

Undefined in C, a choice here: the buffer of a thread whose client said nothing
holds what a thread before it left on the same stack, and `pl_buff` is freed
without being set unless the request had a name. `lapped` is a history: a thread
that will still read its slot was left behind by as many connections as there are
slots.

### `Transfer`

State: the sender (`spc`, `i`), the receiver (`rpc`, `need`, `buff`, `file`), the
server's reply, and the stream `chan` between them. The stream is a sequence of
items; a header is two of them, so that the end of the stream can cut one, and a
byte of the file is one. `BATCH_SIZE` is counted in them.

`SendReply`, `ReadReply`, `SendBatch`, `SendTerminator`, `ReceiveHeader`, `ReceiveData`
follow the two functions. `Receive` is `recvn()`: at the end of the stream it
returns 0, no caller notices, and the buffer keeps its contents but for what came
before the end. So a receiver whose peer died in the middle may take old contents
for a header and leave, or find the header it had before and read for ever
(`Spinning`), or find half a header with old bytes for a length (`cut`).
`KillSender` cuts the stream anywhere in the next message. `SendFails` and
`ReceiveFails` are the resets: the peer closed with something unread, or died.

`tls` chooses `easg1`. A message is then one record, which arrives as a whole or not
at all (`CutAt`). What `SSL_read()` returns when the peer is gone differs between
versions of the library: 0, which the code goes on with, or an error, on which it
exits; both are behaviours (`Receive` and `ReceiveFails`). `SenderShuts` and
`ReceiverShuts` are `SSL_shutdown()` and `close()`, of which the first writes.

### `Restore`

A block is known by the put it is of, its stripe and its row; the bytes in it are
left out, and the file is a sequence of pieces, each a block and how much of it.
`Solve` is all of the erasure code: from `K` blocks of one stripe, each in the place
the matrix has for it, a row of the inverted matrix gives a row of the stripe;
from anything else it gives `Garbage`. The rest is the arithmetic of
`decode_file()`: the number of stripes with its tolerance (`LooksWhole`,
`NumOfStrip`), the last block and the part of it that is written (`NonFullBlockInd`,
`NonFullBlockSizes`), who sits where in memory (`LostRows`, `RestoreOrder`), and
what the program says of the result (`Verdict`). Which rows of the matrix can be
inverted is a constant, `Solvable`: `gf_gen_rs_matrix()` does not promise it for every `N`
and `K`, and the program ignores the result of the inversion. A variable that is not
set is a choice. `AsInt` is the conversion of the size, at a width that is a constant.

### `Stripes`

State: the client's `pc`, its put (`i`, `ready` for what `select()` gave and was not
served yet, `sent` for `check_send`) and its get (`ava`, `got`, `fsize`, `dc`); for each
server whether it is `up`, its thread, the connection to it, and its disk (`file`,
`meta`). `answer` is what a get made of the file and said of it.

`StartPut` and `StartGet` connect; `PutRefused` and `GetRefused` are the exits when
servers are missing. `Select`, `Put`, `PutRequest`, `PutReply` and `NextStripe` are the
loop of `put`, in which a block, with the end of the file behind the last, is one
message; `PutLost` and `PutFails` are writes to a connection whose server is gone.
`TakeRequest`, `TakeBlock`, `TakeEnd` and `TakeEof` are the server's side, `Fetch` and its
variants a get from one server, `Decode` the rest of the client. `KillClient`,
`KillServer`, `KillAtEnd`, `Restart` and `LoseDisk` are what happens to processes and
disks: a killed server loses what `fwrite()` had not given to the disk, and one that is
killed between `fopen()` and `fclose()` of its metadata leaves it empty or written.

A get from one server is one step unless the server is killed in it (`FetchCut`):
`recvn()` then returns 0 and leaves in the buffer what was there. If that is no header,
the client exits; if it is the header of a block that did not come, the client reads
it for ever (`pc = "spin"`); if it is a piece of one, the bytes behind it may end the
file. `Transfer` has the same loop message by message.

Choices: whether a server ends on a connection that was cut within a message or had
no request (what its buffers held decides), and what a get makes of a server
without the file, of a file that was cut, or of `restore_order[k]`, which is behind the
array: the answer is then `"undefined"` and nothing is claimed of it.

`missed`, `leftOut`, `torn` and `ended` are histories: which stripes a server was not
sent, whether a put ended without sending some server the last, which servers were
killed between the metadata and the blocks, how the last client ended.

## Runs

| Run | Question | Instance |
| --- | --- | --- |
| `bucket` | does the bucket, behind the packet buffer, keep the rate contract, delay only when it must, keep the order, bound the wait? | 5 packets, a buffer of 2, 2 tokens, 2 ticks a token, 10 ticks |
| `nat_serial` | is the NAT a port map while one packet is handled at a time? | 4 packets, 3 flows, 2 ports, 3 chunks, 3 s, expiry 2 s |
| `nat_answers` | does every packet get its verdict (one at a time)? | 3 packets, 2 flows, 2 ports, expiry 1 s |
| `nat_threads` | is the packet buffer counted right whatever the races do? | 3 threads at once, buffer of 2, expiry 1 s |
| `nat_expiry` | violation: is only what is idle removed, with two threads? | 3 packets, 2 at a time, a clock that cannot reach the expiry |
| `nat_entry` | violation: is a new entry in the table, with two threads? | the same |
| `nat_v2` | what holds in spite of the port leak? | 4 flows, 3 ports, expiry 2 s, 7 s |
| `ids` | are epochs kept apart, are heavy hitters and changers exact? | 3 sources (two in a slot, one 0.0.0.0), 2 destinations, 4 packets, 4 epochs |
| `transfer` | does a transfer end, and what was written when it does? | get and put, TCP and TLS, files of 0 to 5, batches of 2, either end killed anywhere |
| `stripes` | do the servers store what was put, is it restored, who is ended by it, when does a put or get not end? | 3 servers, any 2 restore; two clients, one fault, five sizes |
| `ftp_server` | whom does a thread answer, what is closed, what ends the server? | 3 connections, 2 slots, 5 descriptors; all requests; both servers |
| `ids_spreaders` | violation: is every superspreader printed? | the same |

What the properties say:

* `bucket`: `ContractSpec` is refinement of `RateContract`. `DelayedOnlyWhenDue` is
  its converse: a thread sleeps only when an earlier token would have broken the
  contract. `NoOvertaking`: tokens and reservations exclude each other.
  `FullOnlyAtStart`: the comment in `get_token()` that the full-bucket branch is
  only reached by the first packet. `BoundedWait`: one fill time per sleeper.
  `BucketInv` is the inductive invariant of the proofs. `DelayBounded` and `RoomSoon`
  are about the bucket behind the buffer: no packet is put to sleep for longer than
  the tokens of a full buffer take, and a full buffer has room again, at the
  latest, when the next token is due.
* `nat_serial`: `TableSound` (chunks allocated = entries in the list, ports marked =
  ports held, flows and ports unique, no memory fault), `MapSpec` (refinement of
  `PortMap`), `OnlyIdleRemoved` and `NoStaleUse` (the two sides of the lazy expiry:
  nothing in use is removed, nothing expired is used).
* `nat_v2`: `TableSound` (only the index behind `porttb` is shared by two flows) and
  `OneLeakPerCallback` (a leaked port is lost for good; one call leaks at most one).
* `ids`: `CurrentTable` (the reused table holds this epoch exactly, gaps and late
  packets included), `HeavyHittersExact`, `HeavyChangersExact` (for two epochs in a
  row with traffic; after a gap the code compares with an older epoch).

* `transfer`: `PrefixWritten` (nothing of an old buffer reaches the file),
  `CompleteMeansWhole` (a receiver that is content has the whole file),
  `NoFailureAlone` (an end fails only if the other was killed: the terminator sent
  twice never meets a closed socket in a way that hurts; over TLS it does, for a
  size that is a multiple of the batch, and only then), `LeftOver` (what a size
  that is a multiple of the batch leaves in the socket), `TransferEnds` (every
  receiver ends, or spins on the header it had before).
* `ftp_server`: `OwnUnlessLapped` (as long as no thread was left behind by a full turn
  of the slots, each answers its own connection, however descriptors are reused),
  `DescriptorBalance` (what opens and what closes: a connection takes three descriptors
  at most, and leaves behind for ever its socket in `asg1`, unless it was a list, and
  a directory for each get), `SurvivesGoodClients` (in `asg1`, clients that get or put
  a file, and live to the end of it, end the server only by using up its
  descriptors).

* `stripes`: `OthersStored` (no stripe is missed by two servers, the first by none, and
  whatever a server missed, the rest is on its disk in order), `MetaAfterBlocks` (a
  server whose size and blocks are of the same put has the last stripe and misses
  only what it was not sent, or was killed before its blocks were on the disk),
  `WholeServersRestore` (`k` servers that have everything restore the file, whichever
  they are, and the client says so; for which sizes not), `EndsOnlyWhenLeftOut` (a
  server that nobody kills runs on, as long as no put left one out), `ClientEnds`
  (every put ends, whoever lags behind or is killed, and every get ends or spins on
  the header of a block of a server that was killed).

The properties with exceptions say where the code goes wrong, and that it does
nowhere else:

* A file of at most a thousandth of a stripe is restored to nothing, and the client
  says nothing; one that exceeds a whole number of stripes by as much loses the
  excess, although the client may say that it was restored.
* A server that is slow may miss a block in the middle of the file. It stores the
  others behind each other, so that all later stripes are shifted, and a get that
  asks it says "Successfully restored" if the sizes add up.
* A server that is killed while a get reads a block from it leaves the client
  spinning for ever.
* Two gets from the server of `asg1` cost it four descriptors that it never gives back,
  over TLS two; without a free one, the next request ends it.
* A put that leaves out a server at the last stripe ends that server: its thread
  finds no header and calls `exit()`. The size in its metadata may then be that of an
  earlier put. A server is also ended by a put that finds another one missing.
* Over TLS, the server may exit after it sent a file whose size is a multiple of
  `BATCH_SIZE`: the client takes the last, empty batch for the end and closes, and
  the write of `SSL_shutdown()` meets a reset.

### Bounds, and why they are enough

`MaxTime`, `MaxLag`, `MaxDelay`, `MaxEpoch`, `MaxPackets` and `MaxInFlight` appear in
guards only. *Bucket*: five packets empty a bucket of two, queue up two sleepers,
and meet the refilled bucket again; a buffer of two is full with both asleep; ten ticks are five
refills. *NAT*: two ports
and three flows run out of ports; three chunks let a list have an entry at its
head, in the middle and at its end; three seconds with an expiry of two let an
entry live, be refreshed and expire, and its chunk and port be used again.
`MaxInFlight` is no bound but an assumption on the traffic: with 1, a packet is
answered before the next is received, which is what `nat_serial` and
`nat_answers` are about; with 2 and 3 the threads race. *v2*: seven seconds are
long enough to leak all three ports and to give out the fourth. *Ids*: four
epochs reuse both tables; two destinations exceed the threshold of one; sizes 1
and 3 meet, miss and exceed the thresholds.

*Transfer*: sizes 0 to 5 with batches of 2 are the empty file, less than a batch,
one and two batches exactly, and a rest.

*Stripes*: with three servers, one may lag behind while the put goes on without
it, and one may be gone while a get goes on. `Capacity` is how far a connection
lags before `select()` leaves it out; 1 is enough to miss any stripe but the first.
`MaxRuns`, two clients, is a put and a get, a get of nothing, or a put over another
(whose metadata stays); `MaxFaults`, one process killed or one disk lost, is what
the code is meant to survive. Stripes have 1000 bytes in blocks of 500: size 1 is
swallowed by the tolerance, 700 ends in the second block, 1000 is one stripe, 1001
is a byte more, and 2300 has three stripes and is negative as an `int`, since `IntMax`
is 2200. Any two of the three rows can be inverted, as in the code's matrix of this
size. *FtpServer*: `MaxConns` and `NumFds` bound the clients and the descriptors. Three
connections turn around two slots, so that a thread is left behind, and its slot and
its descriptor are another's; five descriptors are used up by two gets, and by a third
connection in the middle of what it opens.

Deadlock is not checked where every packet of the instance may be answered and
the clock may be at its bound, or the process may have ended: all runs except
`nat_v2`.

Symmetry is used in safety runs only, over sets whose members nothing
distinguishes (packets, flows, chunks, destinations).

## Fairness

`nat_answers` needs it: weak fairness of `Handle(t)` for each thread. A thread
that was created is run by the scheduler, its steps have no guard that another
thread can falsify but for `buf_mutex`, which with one packet at a time nobody else
holds (and whose holder never waits), and `get_token()` returns because its sleep is bounded
(`WaitIsBounded`). No fairness is assumed of arriving packets or of the clock.

`transfer` assumes weak fairness of `Sender` and of `Receiver`: each is a process
that runs straight through, and a call that can return does, since TCP delivers
what was sent. Nobody has to be killed, and a reset need not be noticed.

`stripes` assumes weak fairness of `ClientStep` and of "some server serves": the
client is one process, and of the threads that have something to read one is
scheduled. The servers are not treated evenly, so a slow one may be left behind for
a whole put; faults, restarts and new clients are not required.

## Proofs

TLAPS checks all of the modules whose names end in `Proofs`. The assumptions are
the named ASSUMEs of the modules: sizes and limits are natural numbers, the fill
time is positive, the sets of packets and threads are finite. No bound is used
beyond that: the theorems hold for every value of `MaxTime`, `MaxLag`,
`MaxInFlight`, `MaxRuns` and the like. Where a theorem assumes more, it says so in
its ASSUME, and this section says why.

### `TokenBucketProofs`

`BucketInvariant` proves `Spec => [](TypeOK /\ BucketInv)`. The safety properties are
about windows of the history, and no such property is inductive: whether one more
packet fits a window depends on the tokens left and on the fill base. The
strengthening counts in ticks. `Credit` is what the bucket is worth at time 0:
tokens times the fill time, less the fill base. A refill leaves it unchanged (it
adds tokens and moves the base by as much), a token handed out or reserved lowers
it by one fill time, and a refill that is capped lowers it. Then

* `Envelope`: for each past grant, credit plus what was granted since stays within
  the burst. It gives the contract (`KeepsContract`).
* `Saturated`: for some past grant it is met with equality. It gives
  `NoNeedlessDelay`: a packet that must sleep would have broken that window.
* `TokenRange`, `BaseInPast`: tokens lie between 0 and the size (−1 for a bucket
  of size 0), and a bucket with tokens has its base in the past. They give
  `ReservationsAndTokens`.
* `StartsFull`, `FullOnlyAtStart`: the full bucket is the one nobody took from
  (`FullOnlyAtFirstPacket`).
* `GrantsKnown`: no grant lies beyond both the clock and the base; the order of
  grants follows.

`WaitIsBounded` has an invariant of its own, `Queued`: for every future time `x` the
base lies at most one fill time beyond `x` for each sleeper due after `x`. Its
instance at the present is the property; the generalisation is needed because a
tick makes sleepers due.

### `PacketRateProofs`

`RateImplementsBucket` proves that a step of `PacketRate` is one of the bucket or none
of it, so that all of the above holds behind the buffer. `DelayIsBounded` and
`RoomIsSoon` add two invariants to it. `Counted`: the counter is the number of packets
in the buffer, and sleepers are among them (which gives `RateTypes`). `Spread` is the
counterpart of `Queued`, from below: for every future time `x` with sleepers due after
it, the base lies beyond `x` by more than a fill time for each of them but one. Hence
a sleeper is due no later than the base, and the base, by `BoundedWait` and `Counted`,
is within the tokens of a full buffer. And were all of a full buffer asleep beyond
the next token, `Spread` would put the base further away than `BoundedWait` allows.

### `NatProofs`

Two things are proved of any number of threads, whatever the races do to the list:

* `BufferIsBounded` (`BufferCount`). The invariant is that the counter is the
  cardinality of the set of threads between `AddPktBuf` and their verdict; each
  action leaves that set alone, adds a thread, or removes one.
* `Types` (`TypeOK`). `LocalsFit` says what the locals of a thread are at each place of
  the code: where it is about to follow a pointer, the pointer is a chunk. It is
  needed since `loc` alone may hold NULL anywhere.

The others have two hypotheses. `OnePacketAtATime` (`MaxInFlight = 1`) cannot be
dropped: the runs `nat_entry` and `nat_expiry` show that with two packets an entry is
lost and entries in use are removed. `EnoughHeap` says that there are finitely many
chunks and more of them than ports, so that `malloc()` finds one; the code
does not check its result. The other threads may exist, they have no packet.

* `OnePacketTableSound` (`TableSound`). The list is described by what can be reached
  from its head: `Listed` is the least set of chunks closed under `next`, which takes
  the place of an induction over the list (whatever is closed contains it). The
  invariant `SerialInv`: at most one thread is busy (`OneBusy`); no chunk of the list is
  entered from two others or from the head and another, and the last one is the only
  one without a successor (`OneWay`); chunks allocated are those of the list and the
  one that `Free` is about to give back (`Held`), ports marked are those of the entries
  and of the one that `Unmark` is about to let go (`Bound`), flows and ports are unique
  (`Agree`); and where the busy thread is (`Place`): what it passed while it searches is
  of other flows, the entry it makes is the last one, and which of its fields are set.
* `OnePacketOnlyIdleRemoved`, `OnePacketNoStaleUse`. `TimeInv` adds what the thread's
  clock readings are worth: no entry has a stamp later than the reading with which
  it is compared, so the unsigned difference does not wrap, and every entry that the
  scan passed was fresh.
* `OnePacketImplementsPortMap` (`MapSpec`). Under the refinement mapping `Binding`, a
  hit is `Use`, `SetEntry` is `Bind`, `Unlink` is `Expire`, and every other step leaves
  the map and what was sent alone.

### `NatV2Proofs`

`Types` and `Sound` (`TableSound`) for any number of flows and ports. `Kept`, the table
without its expired entries, is given by ranks: the m-th entry that stays is the
one up to which m stay. `Ranks` proves that ranks of a finite set of numbers are a
bijection, so that what stays has one place each (`Places`). The
table is inductive with its type: a released port is that of an expired entry
only, since no two entries share a port below `NumPorts`. `LeaksOneByOne`
(`OneLeakPerCallback`) follows from it: a mark without an entry is never cleared, as
only ports of entries are released and `FirstFree` is not marked; and a mark that
loses its entry was that of the last one, which `Released` forgets.

### `IdsProofs`

`IdsInvariant` proves an invariant of which `Types`, `CurrentTableTrue`, `HittersExact`
and `ChangersExact` are consequences, for any hosts, hash, thresholds and captures.
`Book(table, sent)` says that a hash table is the account of what was sent: each
source that sent something is once in its slot, and nothing else is there. `Accounts`:
the current table is the account of the current epoch, and the other one that of the
epoch before *if something was sent in it* – after a gap it is older, which is why
`HeavyChangersExact` speaks of epochs in a row. `HitterLines` and
`HeavyChangersExact` relate lines and traffic; `OpenEpoch` says that nothing was
printed about the changes in an epoch that is not closed, without which a line of the
past could be taken for one of the present.

### `FtpServerProofs`

* `Types`, with `Progress`: connections start in order, the index is their number
  modulo the slots, and a thread past the header has a kind of request.
* `AnswersOwn` (`OwnUnlessLapped`). While nobody is lapped, `Own` holds: a thread that
  will read its slot was followed by fewer connections than there are slots, so its
  descriptor is still there (`InTurn`, `OwnSlot`; `SlotsDiffer` is the arithmetic of the
  modulus); the descriptor in a thread's hand is its own (`OwnFd`); its request waits for
  it and nobody else reads it (`OwnRequest`). Once a thread was lapped, only the property
  itself is kept.
* `DescriptorsBalance` (`DescriptorBalance`). `OwnThings` says for each place of the code
  which of its socket, its directory and its file a thread has open, and `OneEach` that
  nothing is behind two descriptors; so what it holds can be counted (`BehindAll`), and
  at the end it is what `Leaked` says.
* `GoodClientsSurvive` (`SurvivesGoodClients`). A client that gets or puts and lives to the
  end of it still waits for what its thread is about to send (`OwnClient`), and its
  request is what the thread reads; so, of the ways in which a thread ends the process,
  only the want of a descriptor is left (`ExitNeedsBadClient`).

### `TransferProofs`

For every size, every batch size, plain and over TLS. Message `n` of a file starts
after `Start(n)` items and holds the bytes from `Off(n)` to `Off(n + 1)`; so the stream is
a fixed sequence of items, and what is in the connection is a window of it
(`Carries`). `Stream`: there is a number `n` of batches that the receiver took, the file is
the first `Off(n)` bytes, and the receiver is in step with the window, or reads its
own buffer after the sender was killed (`Dry`), or has stopped. `Control` is what
the two ends know of each other, with `NoFailureAlone` in it. It gives `Types`,
`OnlyPrefixes`, `CompleteIsWhole`, `NobodyFailsAlone` and `OneTerminatorTooMany`.

### `StripesProofs`

For every `K`, `N`, size of block, set of sizes, width of an `int`, capacity of a
connection, number of clients and of faults. The hypothesis of the theorems, `N > 1`,
cannot be dropped: with one server `count < server_num - 1` is false at once, the
delivery loop (asg2/myftpclient.c:620) never selects, and every stripe, the first
included, is missed.

`StripesInv` speaks of one server at a time, but for `Client`, in which all of them
meet: no stripe is missed by two. For a server it is the conjunction of

* `Thread`, `Turn`: what its thread finds in the connection, and where it stands in the
  delivery: asked before it gets a block, and with room in the connection from the
  time `select()` gave it until it is served, since only the client fills it.
* `Flow`: the stripes in the file and behind them in the connection, read as one
  sequence (`Item`), are in order and are what the client gave this server; when the
  end is in the connection, they are all that it did not miss, the last included.
  So taking a block changes nothing (`Moves`), and a put, or the block that a killed
  client leaves behind, adds the largest (`Appends`).
* `Disk`: while a thread works, the metadata is of an earlier put; what `MetaAfterBlocks`
  says of a server that was not killed at the end (`Closed`).
* `Undisturbed`, without a fault: what is stored when the thread is done is all that was
  sent. `Runs`, if in addition nobody was left out: the end comes to every thread.

The steps of `Stripes` change one server, the client or neither, so that `Frame` and its
relatives carry the rest over. `StoredFacts` turns the set of stripes into the sequence
that `Sorted` makes of it. The theorems: `Types`, `LoopStoresAtOthers` (`OthersStored`),
`MetaMeansStored` (`MetaAfterBlocks`), `ServersRunOn` (`EndsOnlyWhenLeftOut`).

`DecodesWhatWasStored` (`WholeServersRestore`) rests on `Getting` (the size a get has, if
all it asked are whole, is that of the put) and on `WholeRestores`, which is about
`Restore` alone: for any `K` servers with all blocks whose rows can be inverted, or are
those of the file and need not be (`Decodable`; nothing is assumed of `Solvable`), each row of a stripe is either read
from its server or solved from `K` blocks in their places (`WholeBlocks`), so the pieces
written are those of the file, and the arithmetic of the last block and of the
tolerance is that of `SizeParts`. The products of `K` and the size of a block are beyond the
solver where other arithmetic is around; such facts are wrapped in `Parts` and its like.

### Out of the prover's reach

Liveness under fairness and ENABLED (`EveryPacketAnswered`, `TransferEnds`,
`ClientEnds`); and induction over data. Where a proof would need the latter, the
model says the same without recursion: `Listed` of `Nat` is a least closed set, `Kept`
of `NatV2` and `Sorted` of `Restore` are given by ranks.

## What is only model-checked

The liveness properties: `EveryPacketAnswered` of the threaded NAT (with one packet at a
time; with more it does not hold, see below), `TransferEnds`, `ClientEnds`. All other
properties of the passing runs are proved.

With two packets at a time `TableSound`, `MapSpec` and `EveryPacketAnswered` do not
hold: an entry can be lost, a chunk can be freed twice, and the list can become a
cycle that later walks never leave (two threads and five packets).

## Findings

* `nat_expiry`: `remove_expiry()` (asgn3/nat.c:49) computes the age of an entry as
  `unsigned long`; an entry that another thread refreshed with a newer stamp than
  the clock reading seems ancient, and is removed and freed while in use.
* `nat_entry`: two threads that append at the same place (asgn3/nat.c:231 and 258)
  lose an entry: the packet leaves with a port to which replies are dropped.
* `ids_spreaders`: `count_dstip()` (easg2/myids.c:143) lists every source as detected
  at its first packet of an epoch, before it counts, so later destinations are
  never counted.

## Not modelled, and why

* Rounding of the bucket's doubles: see above. A fill rate of 0, which makes the fill
  time infinite, and a `malloc()` that returns NULL.
* Rewriting of headers and checksums: data no property speaks of.
* The token thread of `asgn3/v2`: `get_token()` is never called there. The verdict
  of that version carries no payload, so nothing it rewrites leaves the process.
  Its store behind `porttb` when an entry with the port 12000 expires hits other
  static data; the model lets it go unnoticed.
* Reordering of one thread's plain stores by compiler or CPU (`Nat`).
* Packets of a capture before the first one's time stamp (`Ids`): the negative
  difference is cast to unsigned, which is undefined for a double.
* The packet statistics printed at the end of a capture.
* A directory that is not there, and names that cannot be made (`FtpServer`): the
  threads then exit, or follow a NULL, as they do without a descriptor. In `Transfer`
  and `Stripes` these are among the kills.
* Two connections that put, or put and get, the same file: `Transfer` has one
  connection, `FtpServer` no files.
* Bounded socket buffers (`Transfer`): no end of a transfer waits for the other in
  both directions at once, so a full buffer only delays the sender.
* TLS: the handshake is part of the first read of a connection (`FtpServer`), and
  certificates are data.
* `list`, on the client's side and in `asg2`, and a get in `asg1` of a file the server
  does not have: one message each.
* `asg2`: several clients at a time on one file; servers whose ids in their
  configuration are not their places in the client's list (the model has one number
  for both); connections cut within a message, which is the subject of `Transfer`;
  and the write behind `dl_file_mat`, which has room for `k` pointers and gets `n`
  (asg2/myftpclient.c:134), taken to go unnoticed.
* Checksums, samples, test tools: no state, or not part of the programs.

## Plan

In this order; all but the last are done.

1. `RateContract`, `TokenBucket`, `TokenBucketProofs`.
2. `PortMap`, `Nat`, `NatProofs` (the buffer), `NatV2`.
3. `Ids`.
4. `FtpServer` (`asg1`, with `easg1` as the variant that copies its descriptor).
5. `Transfer`: `get` and `put` as a sender and a receiver, over TCP and TLS.
6. `Restore` and `Stripes` (`asg2`).
7. `PacketRate` and `PacketRateProofs`: the bucket composed with the packet buffer.
8. `FtpServerProofs`, `IdsProofs`, `TransferProofs`, `NatV2Proofs`, and the table in
   `NatProofs`.
9. `StripesProofs`: the delivery of the stripes, and what `decode_file()` makes of them.
10. `TokenBucket` with rounded times, as a variant.

## How to run

    tlc -config MCTokenBucket.cfg MCTokenBucket   # with PacketRate
    tlc -config MCNatSerial.cfg MCNat        # and MCNatAnswers, MCNatThreads,
                                             # MCNatExpiry, MCNatEntry
    tlc -config MCNatV2.cfg MCNatV2
    tlc -config MCIds.cfg MCIds              # and MCIdsSpreaders
    tlc -config MCTransfer.cfg MCTransfer
    tlc -config MCFtpServer.cfg MCFtpServer
    tlc -config MCStripes.cfg MCStripes
    tlapm TokenBucketProofs.tla
    tlapm PacketRateProofs.tla
    tlapm NatProofs.tla
    tlapm NatV2Proofs.tla
    tlapm IdsProofs.tla
    tlapm FtpServerProofs.tla
    tlapm TransferProofs.tla
    tlapm StripesProofs.tla
