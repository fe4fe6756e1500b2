# A verification development for CNLab

CNLab is a collection of C programs for a computer-networks laboratory on Linux:
small client/server systems over System V message queues, FIFOs, pipes,
semaphores, signals, Unix and Internet sockets, raw sockets, packet capture and
one character device driver. There is no shared library: every directory is a
system of its own, made of two to a handful of processes that interact through
the kernel. This project models those systems in TLA+, checks the models with
TLC and proves theorems about them with TLAPS.

The repository has no specification, no tests and almost no comments. What
"correct" means is therefore read off the programs: what a system visibly tries
to do (relay every text to a group, hand clients over and call them back, take
turns, count threads), stated as strongly as the code allows, together with the
exact condition under which the code does not do it. Many properties below have
the form "X, unless Y": Y is then a state in which the code really can end up.

Contents: [1. Inventory](#1-inventory) — [2. Modules](#2-modules) —
[3. Runs and bounds](#3-runs-and-bounds) — [4. Fairness](#4-fairness) —
[5. Proofs](#5-proofs) — [6. Not modelled](#6-not-modelled) — [7. Plan](#7-plan)

## 1. Inventory

| System | State | Operations and interaction | What is hard | Module |
|---|---|---|---|---|
| `MessageQueue/GroupChat` | kernel queue; server's `client[]`, `grp[][]`; each client's two processes | clients connect (type 999), send lines (type 1000); server relays to each member (type pid) | one bounded queue for both directions, blocking sends, clients that quit, two-digit groups | `GroupChat` |
| `midques/que4` | pipes of the reporters, editor's buffer and type, queue, semaphore and its name, FIFOs, screen | editor alternates message types; two newsreaders receive inside a semaphore; screen selects over FIFOs | a blocking receive inside the semaphore, Ctrl-C with `sem_unlink`, reads that cut reports, buffers printed again, a `strcpy` that may overwrite the queue's id | `NewsPipeline` |
| `midques/que4 (copy)` | two queues, the turn as SIGUSR1 | newsreaders signal each other after each message | startup race of a signal with `signal()`, merged signals, blocking inside handlers | `PingPong` |
| `unixsocket/standby` | main's `nsfd`, `maint`, `fds[]`; backup's `nsfd`; threads; clients' buffers | accept and serve, or pass the descriptor over a Unix socket; "stop" tells clients to switch | threads given the address of a shared variable, clients that do not see "switch", `scanf` behind `select`, an unset `addrlen`, a server that dies with the other | `Standby` |
| `minor/que2` | queue, one global message per client, pending signals | server queues a text and signals; the handler receives into the same global | handlers between any two steps and any two letters of a word, merged signals, interrupted `msgsnd` | `SignalChat` |
| `midques/que3` | `nsfd`, `ctr2`, the shared page of `ctr`, connections, threads, `s1` processes, the terminal | select over two ports; fork for one, thread for the other | unlocked counter, shared descriptor variable, a descriptor table that fills, an unset `addrlen`, pointer that walks off its page | `TwoPort` |
| `experiments/3way` | two datagram buffers, raw sockets | SYN, SYN-ACK, ACK by hand | copies to every process, segments of others, no retransmission, uninitialised `addrlen` | `Handshake` |
| `MessageQueue/Chat` | queue, two pids | two clients connect (type 1), every line (type 2) is relayed to both (type pid) | the queue outlives a killed server, whose next run meets old messages and clients that never connect again | `Chat` |
| `FIFO/Chat` | FIFOs and who has which end open; server's `client[]` | clients write a name, then lines, to the server's FIFO; server writes "Accepted" and each line to the clients' FIFOs | open as rendezvous, data lost at the last close, SIGPIPE, reads that take two messages | `FifoChat` |
| `FIFO/GroupChat` | FIFOs, five relaying processes | the same for groups | as above; names lost while the server's FIFO is closed | planned |
| `midques/que5` | facilitator's table `sfd` and `sbuf`, pipes to the services, each service's buffer | the operator starts services, clients ask for one by number, the facilitator forwards their addresses | `scanf` behind `select`, unchecked index, buffers that keep old digits, threads given the address of the one buffer | `Facilitator` |
| `DevDrivers/TickTock.c` | global buffer pointer `b`, open count | read returns time as text, write sets it | every read replaces `b` under the others, `itoa`/`atoi`, text without a NUL | `TickTock` |
| `rawsocket`, `rawsockets` | one datagram | build a packet, checksum | one's complement sum, odd length | planned |
| `pcap/sniff*.c`, `listconn.c` | protocol counters, log | classify captured frames, print headers and hex dumps | frames that are not IPv4, offsets that leave the Ethernet header out, the last line of a dump | `Sniffer` |
| `select`, `Poll` | descriptors, rounds | a few rounds over several writers | priority of the first ready one, time limit | planned |
| `Pipes`, `socket/*`, `unixsocket/testprg` | one or two connections | echo-like exchanges | backlog behind an endless loop, blocked ends | planned in part |
| `FIFO/Datacenter`, `popen`, `socket/UDP` | | | unfinished or do not compile | no |
| `arp.c`, `pcap/fakearp.c`, `garp.c`, other kernel modules, `MessageQueue/P123`, `msqid_ds` | | straight-line | nothing interacts | no |
| `pcap/gratuitousarp/build`, `DevDrivers/*.cmd`, `CN_Lab_Attachment (1).txt`, `syscall.c` | | | generated files and listings | no |

`PROJECT.json` lists every component with its sources and status, and under
`hazards` each thing that can go wrong and a test would hardly reach, at its
line, with the properties that cover it.

### What each system should guarantee

* **GroupChat.** All members of a group see all its texts, once, in one order;
  nobody else sees them; no line is lost between a user and the server; a relay
  ends, unless the shared queue is wedged.
* **NewsPipeline.** One newsreader at a time in the critical section; every
  piece of a report is somewhere, exactly once, if not lost by an interrupt or an
  overwritten `msg_id`; what a reporter writes keeps its order on each route (the
  parts of one report may take both); everything reaches the screen, unless the
  semaphore's holder waits for a type that does not come.
* **PingPong.** One turn, never two and never none (but for the start); a known
  order on the screen's queue; every pair of messages is shown.
* **Standby.** Each client given to the backup is called back once; nobody else
  is; the latest connection is always served; words are received, unless a late
  read of the shared variable passes a connection over, `accept` drops it, a blank
  line keeps mainsrv in `scanf`, or the server dies.
* **SignalChat.** The handler never blocks; each client sees the server's texts
  in order; what goes out is at worst the head of one text its sender was shown
  with the end of one word it typed.
* **TwoPort.** Answers go astray in one direction only; the thread count is exact
  until updates overlap; port 2 is not closed for good, and the last client is
  answered, unless an `s1` has not got the descriptors it needs.
* **Handshake.** No step before one it answers; known numbers; whoever is heard
  is answered, and whose answer is heard is acknowledged.
* **FifoChat.** What is written to a living client is read, whole and in order;
  of what a client types nothing is taken twice or out of order; the server stops
  only because of a client's end of a FIFO.
* **Chat.** A client prints the lines of one run of the server, that of the run
  which listed it, whatever else passes through the queue; in the end they are all
  printed, unless nobody serves or the queue is full of what nobody takes.
* **Facilitator.** A request reaches the service whose number the client sent, with
  the client's address, but for named leftovers of earlier requests; a thread
  copies letters of its own request's address or a later one, never an earlier one.
* **TickTock.** A read returns its own time unless another read came between; what
  a program has read and writes back sets the clock to that time.
* **Sniffer.** The dumps show the frame's bytes once, in order, 16 to a line, but
  for those that their wrong offsets skip; nothing beyond the capture is read, if
  the frame is a well-formed, unfragmented IPv4 packet.

## 2. Modules

`M.tla` is the specification, `MCM.tla` with `M.cfg` instantiates it for TLC,
`M_proofs.tla` holds its theorems. Four systems have theirs in another's module, through
an instance: Chat in GroupChat_proofs, PingPong in NewsPipeline_proofs, Facilitator in
TwoPort_proofs, TickTock in Sniffer_proofs. A definition ending in `_Word` and
marked `mutant` is a plausible bug; it is used by no action, and exists so that
it can be put in the place of the definition after it: the property named with
it in `PROJECT.json` must then fail. `map` in `PROJECT.json` gives the lines each
definition stands for.

**SysVQueue** (external: the kernel's message queue). Every `msgrcv` of these
programs names one positive type, so the queue is one FIFO per type plus one
common bound. `msgsnd` waits for room, `msgrcv` for a message of its type.
Extended by GroupChat, NewsPipeline, SignalChat, PingPong, Chat; PingPong instantiates
it a second time for the screen's queue.

**GroupChat / GroupBroadcast.** `GroupChat` has the server's program counter
(`connect`, `recv`, `relay`), the roster it builds and, per client, what the
child has typed and the parent printed. One action per system call, since any
of them can block: `SendConnect`, `SendLine`, `Receive`, `AcceptClient`,
`TakeLine`, and `RelayToMember` once per member. The connect phase parses a whole
group number and the chat phase only its first digit (`FirstDigit`), as the code
does. `GroupBroadcast` is what the system promises: one log per group, members
that follow it; a text is said in the one group `Home` gives it, here the first digit.
`ImplementsBroadcast` is the refinement.

**NewsPipeline.** Streams are bytes in the code; here they are sequences of pieces. A
report is written at once (`NewReport`) and consists of a number of pieces out of
`Sizes`; a read takes up to `BufSlots` pieces, wherever that is in a report (`Chunk`,
`Rest`), and leaves in the buffer what was there beyond its end (`Overlay`): these
leftovers are sent and printed again and are marked not fresh. A read that fills the
buffer leaves it without a NUL; the `strcpy` after it then may or may not overwrite
`msg_id` (`msgid` becomes "wild"), and from then on every `msgsnd` fails, which nobody
checks (`SendFails`): what the editor reads is lost. `Interrupt` is
the SIGINT handler of a newsreader: it unlinks the semaphore's *name* and exits,
so the next newsreader to start creates another semaphore (`semval` is the list
of all that were made). `editor`, `reporter`, `newsreader`, `screen` map to the
actions of the same names. The editor's own Ctrl-C is not an action yet.

**PingPong.** `sig[r]` is a pending SIGUSR1, `hpc[r]` the handler's position.
`KillReader` terminates newsreader 2 if it has not called `signal()`. A pending
signal is a set member, so two of them merge; that they never do is `OneTurn`.

**Standby.** A connection is named by its number in accept order, because
neither server ever closes a descriptor. `mserves[k]` and `bserves[k]` are what
the thread started for connection `k` found in the shared variable: once in
mainsrv, before every `recv` in backupsrv. `nul[i]` says whether the client's
`buf[6]` is a NUL byte, the only thing that decides whether it recognises
"switch", which is received without one. `BlankLine` is a blank line at a client's
terminal, `BlankCommand` one at mainsrv's: `select` finds the terminal readable and
`scanf` waits for a word. The client is then in `stuck`, mainsrv is `mstuck`, and
neither does anything else until somebody types one (`TypeWord`, `TypeOther`).
`AcceptFails` is an `accept` with a negative `addrlen`: the client it took is closed
(`Dropped`). `KillMain` is Ctrl-C, `KillBackup` the
default action of SIGINT. Neither server outlives the other for long: `send_fd` to a
dead backup is a SIGPIPE, and at the end of file `recv_fd` dereferences the null
pointer it gets for a control message (`BackupFaults`). Then the connections are
`Broken` and their clients' words go nowhere; a client that still finds "switch" in its queue
closes its connection and is refused a new one.

**SignalChat.** The global `mesg` is `mtype`, `mtext`; a text is a sequence of letters,
each known by who typed it, in which word and where. `scanf` fills `mesg_text` letter
by letter (`TypeWord` the first, `StoreLetter`) and ends it with a NUL (`EndWord`),
which cuts a longer text the handler has put there meanwhile; `SetType` and `SendWord`
follow. `Handler` may run between any two of these steps or interrupt a `msgsnd` that
waits for room.

**TwoPort.** `ctr2++` and `ctr2--` are a load and a store each. `pos` is how far
`*ctr++` has moved the pointer; beyond the page what `*ctr` reads is any value,
or a fault. `at[w]` is the descriptor a thread's `recv` got, the `send` reads
`nsfd` again. The s1 processes share the terminal: an operator's line goes to
whichever of them reads first. When the descriptor table is full `accept` returns
-1 with the client still pending and nobody checks it; with a negative `addrlen`
(never set in the code, arbitrary here) it returns -1 with the client dropped. The
forked child has the descriptors that are left (`Spare`): its `dup(0)` needs one
(`OldIn`), its `dup(1)` a second (`OldOut`). Without the second, `s1` shows its client's
text nowhere; without the first, it asks nobody and sends the text back; and with none
left after both, a dynamically linked `s1`, as the one in the repository is, cannot
be loaded (`LoaderFails`, which may or may not happen).

**Handshake.** The network is what raw sockets on one host give: a copy of each
segment to every open socket bound to the address or not bound yet; full buffers
drop. Any number of initiators (`server.c`) and listeners (`client.c`) may be
started, in any order, and other programs send segments of a given set. The
header fields stay in the one datagram between receive and send, as in the code.
`addrlen` is uninitialised in both programs: if it is negative, `recvfrom` takes a
segment and fails, for ever. Addresses, ports and payload are left out, because
neither program compares them; so is `csum`, which is never called.

**Fifo** (external: the kernel's named pipes). `open` waits until the other end is
open, or being opened; `blocked` holds the processes that wait. What is in a FIFO
dies with its last end; a write without a reader is SIGPIPE.

**FifoChat** (over Fifo). One action per system call of the server (`spc`), of a
client's reading process (`rpc`) and of its main and later its child (`wpc`). The
server never closes the descriptors it relays through: that `wfd` leaks is what
keeps a client's unread lines alive while the client has its own end closed,
which it has after every read (`SameStream`; the mutant closes them). It is also
why a client that is gone for good leaves the server waiting in `open`, and why the server
is killed by SIGPIPE if the client closes between the server's `open` and
`write`, which every client does now and then after an end of file. A client's
FIFO is a sequence of cells, because "Accepted" is shorter than a line and a read
takes up to a line's length of whatever is there. `chunks[c]` is the history of its
reads, `got[c]` the same as one sequence.

**Chat** (over SysVQueue). The server's `connect`, `recv` and `relay` phases as in
GroupChat, without groups. What is new is the end of a server: `KillServer` at any
point, `StartServer` with zeroed variables on the queue as it was left, since
`msgctl(IPC_RMID)` is behind an endless loop. Clients that are listed already never
connect again, but go on sending: the next server relays their lines to its own
two. `Kill` ends a client; its messages stay. `home[c]`, `taken[r]` and `missed[c]`
are histories: which run listed the client, what each run took, and which line was
cut off by the server's death. `StartServer_Fresh` (a new queue) and
`Receive_NoFork` (a client that cannot print while it sends) are the mutants.

**Facilitator.** `Select` fills the set of ready descriptors, then the code goes on
through `ScanLine`, `OpenService`, `Accept`, `Recv`, `Write`, each of which may wait.
`tty` and `stdio` are two buffers: `scanf` takes a line from the terminal but only
one word of it, and `select` sees the terminal alone, so a second word on a line
stays unread until the next line, and a blank line makes the facilitator wait in
`scanf` with clients at its door. `addrlen` is uninitialised in the code and
arbitrary here. `sbuf` is overlaid by what is received, without a NUL. Of a
service, `read` takes all addresses in the pipe at once and `buf` holds the first;
`ThreadCopies` and `ThreadEnds`, the first and the last letter of a thread's `strcpy`,
may come any time after `CreateThread`, and a read between them. What a thread does with its
copy is left out: it connects to a client that listens on a descriptor it has
closed.

**TickTock.** Each access of `readme` to the global `b` is a step: the allocation
that replaces it, the argument of `itoa`, the `strcpy` at the end of `itoa`, and
`copy_to_user`. `itoa` is split where it reads back what it wrote (`Digits`,
`ReverseDigits`, `StrLen`, `StrCpy`); its own arithmetic, and that of `atoi`, is a
recursive function over characters and wrapping ints. `SizeAssumption` is what the
sizes in the code give: 40 characters hold the 11 of any int, a newline and a NUL. `AddNewline` is the user's program
(external) putting a newline behind the time it writes back. `hit[p]` is a history:
whether another read disturbed `p`'s.

**Sniffer.** One action per captured frame, `process_packet`: the switch, the
counters, and for TCP, UDP and ICMP a log entry. An entry holds the offsets of the
header fields printed and the tokens of three dumps, produced by `PrintData` byte
by byte. `DumpsSkipFourteen` compares the bytes that the dumps of an entry show in hex, one
dump after the other, with the frame's; `LinesAgree` reads each dump from one line end to the next.
A frame is its length and the values found where the code looks for them.
A frame without IPv4 (ARP, IPv6) is classified by whatever is at byte 23. With a
null `logfile` the first packet to be logged ends the program.

## 3. Runs and bounds

Each system has one run, Standby has two, under its fair specification where it has
one: the invariants and the temporal properties are checked on the same state graph. The
type invariants are not listed with the runs: those of all twelve systems
are proved, as are `GroupIsolation` of GroupChat, `SemaphoreHeld` of
NewsPipeline and `PortOneUnlimited` of TwoPort.

| Run | Instance | Distinct states | What it shows |
|---|---|---|---|
| `groupchat` | 3 clients, one of them beyond the connect phase of 2, one may quit; groups 1 and 12; 2 lines; queue of 2 | 388,000 | `TotalOrder`, `NothingLost`; the chat implements one shared log per group; `DeliveredOrWedged`: a line reaches every running member, or the full queue holds nothing anybody would take |
| `news` | 2 reporters, one with two reports and one with one, of 2 pieces each; buffers of 3 pieces, queue of 2, one Ctrl-C | 259,000 | `Exclusion`, `Conservation`, `RouteOrder`; `SettlesShownOrHeldBack`: what is not shown in the end is held back for one of three reasons |
| `pingpong` | 7 messages, queues of 3 | 437 | `OneTurn`, `SwappedPairs`; every pair is shown unless the first signal kills newsreader 2 |
| `standby` | 2 clients, 4 connections, 2 words, one maintenance period, one blank line, one kill of a client or a server | 1,318,000 | `ToldOnce`, `LatestServed`; `SwitchesOrDeaf`: clients come back unless "switch" is hidden from them or they wait in `scanf`; `WordsReceived`: words are received unless their connection is passed over, dropped by `accept` or not accepted because mainsrv waits in `scanf`, or its server has died, the backup always with the main server |
| `signalchat` | 2 clients × 2 words of 1 or 2 letters, queue of 2 | 968,000 | `SignalCovered`, `ShownInOrder`, `TornOnce`; a relay ends, or the queue is full and nobody will be signalled again |
| `twoport` | 1 client of port 1, 3 of port 2, room for 3 descriptors, page of 1 int, limits of 2, 4 workers | 481,000 | `DivertedForward`, `CounterExact`; port 2 is not closed for good and the client accepted last is answered, but for an `s1` without descriptors |
| `fifochat` | 2 clients, 1 line each, one may be killed; a list of 2, lines of 2 cells | 171,000 | `SameStream`, `CutOnlyAtFirst`, `TypedOrder`; `SettlesOrStuck`: all is read in the end, unless a client's end stopped the server |
| `chat` | 4 clients, one of which may be killed, 1 line each; list of 2, 2 runs of the server, queue of 2 | 1,233,000 | `OneRunsLines`; `SettledOrWedged`: in the end all lines are printed, or there is no server, or the queue is full of what nobody takes |
| `facilitator` | 2 clients, one of which may be killed; numbers 0 and 10; 2 lines out of blank, one word, two words with a bad path; 2 threads per service | 857,000 | `RightService`, `NeverAnEarlier`; `ForwardedOrBlocked`: all is forwarded and taken up, or the facilitator waits in `scanf`, or has died |
| `ticktock` | 2 processes, 3 reads, 2 writes; ints of 8 bits, buffers of 7 characters; clocks 9, 107, 127 | 607,000 | `ReadsOwnTime`, `SetsWhatItRead` |
| `sniffer` | any 2 of 45 frames, captures of 74 bytes | 2,200 | `DumpsSkipFourteen`, `LinesAgree`, `WithinCapture` |
| `handshake` | 2 initiators, 1 listener, one foreign segment, buffers of 6 | 59,000 | `NoShortCut`, `Acknowledged`; who waits while the segment it waits for is under way ends |

Why the bounds are enough to be interesting:

* The code's limits are small numbers of the same kind: three clients in the
  connect phase (2 here, with a third that comes too late), 25 and 15 workers (2
  and 2), a page of 1024 ints (1). Every branch at the limit is taken: TLC fires
  every action and every disjunct.
* A queue of two messages (three in `pingpong`) is full while two processes want to send, which is
  where blocking matters. It also has room at other times, so that every sender
  both waits and does not.
* In `twoport` three clients of port 2 and one of port 1 suffice to lose an
  update in both directions, to rob a thread of its text, and to fill the limit
  with robbed threads. The fourth client finds the table of three
  full, after which the failing `accept` takes `ctr` beyond its page. The client of
  port 1 may be any of the four: its child has two descriptors left, one, or none. An
  earlier one would differ in one thing: that `LoaderFails` cannot happen, while here
  it need not.
* In `news` a read of three pieces cuts the second of two reports in the middle, so
  that its parts go out as different types; it also returns less and exactly one
  report, with a leftover of an earlier read, and it fills the buffer. One Ctrl-C
  suffices for a second semaphore under the same name and for one that is stranded.
* In `standby` each client can connect, be forwarded, be told, and connect again:
  two clients and one maintenance period need four connections, so the bound on
  connections never keeps a client from coming back. Two words can wait on one
  connection or on two, one of them passed over. One kill suffices for either server's
  death to bring the other down; a client and a server are not both killed in one run. Two periods
  would need six connections, and far more states; what the first can leave
  behind for the second (a list that is not emptied) is visible when it ends, and
  `ToldOnce` is proved for any number of periods.
* In `signalchat` a word of two letters is the least that can be torn: a handler may
  come before its second letter and before its NUL. `TornOnce` is proved for words of
  any length.
* In `handshake` a buffer of six holds everything that is sent, because a dropped
  segment is never sent again and `HandshakeCompletes` speaks of segments that are
  in a buffer; the two invariants are proved for buffers of any size. `Word = 16`
  with a foreign sequence number 15 makes the addition wrap. Two initiators are
  needed for one to hear the other before it is bound.

* In `fifochat` a list of two with two clients is filled by two names or by a
  name and a line, so that a late client's name is relayed as a line; a third line
  in one stream shows whether a cut goes on. A line of two cells is the least that
  can be cut.
* In `chat` four clients fill the lists of two runs. A client of the first run that
  is still there while the second serves, and a line of it that waits in the queue
  when the first server dies, need no more. With the queue of two, one dead member's
  texts, or two lines before the second client has connected, wedge the server.
* In `facilitator` a 10 followed by a 0 leaves a digit behind, and both are beyond
  the services when none was started. Two words on one line make `select` and
  `scanf` disagree; the bad path makes a write fail.
* In `ticktock` two processes suffice for a read to be disturbed before, inside and
  after `itoa`; the third read gives a process a shorter text over a longer one: 107
  with a newline behind it becomes 1032, which wraps to 8. Time 9 goes to two digits
  and 127 to -128, the least int.
* In `sniffer` UDP packets with payloads of 0 to 33 bytes end their dumps in every
  column of a line and beyond the second; TCP headers with options, IP headers with
  options, fragments, ARP and IPv6 frames, and a packet longer than the capture are
  there. A packet's entry does not depend on the others: two frames are enough for
  the log to have an order.

`CHECK_DEADLOCK FALSE` is set everywhere: the systems stop when the users have no
more to say, and several can block for ever, which the liveness properties
describe exactly. Only `ticktock` uses symmetry: its processes are interchangeable
and it checks no liveness. Neither TickTock nor Sniffer has a specification with
fairness: a system call and a captured frame come when somebody else wants them to,
and each of their steps runs to its end.

## 4. Fairness

A process that can take a step takes it: weak fairness of each server step and
each program step. Users are not forced to start a program, type, type "stop" or
press Ctrl-C, except where a property is about what follows: NewsPipeline assumes
that its operator starts both newsreaders, again after a Ctrl-C; TwoPort, that the
operator answers what is shown; PingPong, that the editor goes on to the bound; Facilitator,
that a client that has connected sends its number or is killed. A program that waits
in `scanf` has no step: the fairness of Standby's `ReadSwitch` and `AcceptClient`
asks nothing of a client that is `stuck` or of a mainsrv that is, and nobody need type the
word they wait for. In Chat nobody need
start a server again: `SettledOrWedged` has that as one of its ends.

Strong fairness is used twice. `SemWait` in NewsPipeline: a newsreader sleeps a
second after `sem_post`, so one that waits is not overtaken for ever. `Step(w)` in
TwoPort: several s1 processes wait for lines of one terminal, and the kernel wakes
waiting readers in turn; a reader is not passed over for ever.

## 5. Proofs

All theorems hold for every value of the constants that the named assumptions
allow. Those only say what the code gives: numbers are naturals, a queue holds at
least one message, pids differ from the reserved message types, a group's first
digit is a group, a buffer of `itoa`'s has room for any int.

* **GroupChat_proofs.** `TypeCorrect`; `OrderedDelivery`; `Isolation`;
  `ChatImplementsBroadcast`. `TotalOrder` alone is not inductive: that a new member
  has got nothing, and is entered once and in its own group's list only, is `Roster`. The
  inductive invariant is `TypeOK /\ Roster /\ TotalOrder`. A member's printed and
  queued texts followed by the one owed are the log: sending moves the owed one
  into the queue, receiving moves the head from the queue to the printed ones.
  `LinesArrive` proves `NothingLost`: a client's lines in the log of its group, and
  then in the queue, are numbered 1, 2, ... up to what its child has handed over
  (`Numbered`). It needs that a queued line carries the group its author entered
  (`OwnGroup`), so that a line taken goes to the log where its predecessors are.
  For the refinement each step maps to a step of `GroupBroadcast` or changes
  nothing there.
* **NewsPipeline_proofs.** `TypeCorrect`, `SemaphoreTracksSection`,
  `MutualExclusion`. The inductive invariant says that each semaphore is 0
  exactly while somebody is inside it or somebody was interrupted inside it, that
  two readers inside use different ones, and that there is one name until the
  first Ctrl-C. `NothingVanishes` and `RoutesKeepOrder` prove `Conservation` and
  `RouteOrder` for reads and reports of any size, under one invariant, `FlowInv`.
  Neither is inductive alone: a piece moves on behind those of its route only
  because it comes after all those of its reporter that left the pipe before, on
  *either* route (`SourcesInOrder`, `OutInOrder`, `MessagesInOrder`), and places
  stay apart only because a pipe holds its own reporter's pieces (`PipesOwn`) and a
  newsreader's hands are empty outside `write` (`HandsEmpty`). One lemma per action
  shows which place gives what to which; the operators' lemmas say that a read
  (`Chunk`, `Rest`) splits a stream anywhere, and that what `Overlay` adds is not
  fresh. Why a piece is lost (`LostCause`) is part of it.
* **PingPong, in NewsPipeline_proofs**, through `PP == INSTANCE PingPong`:
  `PPTypeCorrect`, `PPTurnIsUnique` (`OneTurn`), `PPPairsSwapped` (`SwappedPairs`). For
  the order: the editor's type is the parity of its count, the numbers queued for a
  type are consecutive of its parity, and whose turn it is follows from how many
  have been passed on.
* **Standby_proofs.** `TypeCorrect`, `HandOffProtocol`, `LatestNeverLost`.
  Descriptors stay in accept order through the hand-off (`InOrder`), and nobody
  else holds a client's connection (`Private`), so a thread that ends has drained
  an old one. With a negative `addrlen` `nsfd` stays -1 and no thread serves anything;
  a blank line only disables actions. A server's death only lowers `mup` or `bup`, which disables
  its threads' actions; its descriptors are kept in the model, so the same
  invariant carries over the death steps.
* **SignalChat_proofs.** `TypeCorrect`, `HandlerNeverWaits`, `TextsInOrder`,
  `NoForgedTexts`. For the order (`ShownInOrder`): the server's texts among what a
  client was shown and what waits for it are numbered without a gap up to the one
  being relayed. `RelayInv` adds that a client connects once (`Once`), that nothing is
  relayed or signalled before both have (`NotYet`), that no word goes out as a
  connect message (`Buffers`; the handler can change the type in the buffer, but not
  to that), and that a relay serves each client once (`Relaying`). For
  the handler: pending and coming signals together never exceed the queued
  messages of that pid (`Covered`). For the texts (`TornOnce`): from a word's
  first letter on, a client's buffer is the head of one text it was shown followed by
  letters of that word. A handler makes the head longer, a
  letter stored makes it shorter or leaves it (`StoreShape`, `TornStores`), the NUL
  cuts the end off (`CutShape`, `TornCut`); none of them makes a second tear.
* **TwoPort_proofs.** `TypeCorrect`, `AnswersGoForward`, `CounterCorrect`,
  `LimitOneIdle`. The counter equals the running threads plus the one about to be
  created, and between the check of the limit and the increment there is room
  for one (`Room`), as long as no update was overwritten. All of it holds for either
  `addrlen` and for any number of descriptors that are left.
* **Handshake_proofs.** `TypeCorrect`, `StepsInOrder`, `NumbersKnown`. Each segment
  in a buffer presupposes the steps before it (`Sound`), each datagram about to be
  sent has the right flags and a known number (`Good`), and nothing that happened
  is undone (`Grown`).
* **FifoChat_proofs.** `TypeCorrect`, `NothingCutOff`, `WholeLines`, `OrderOfTyping`,
  from the conjuncts of one inductive invariant, `Inv`. `NothingCutOff` is about why
  nothing is lost when both sides close a FIFO after every message (`SameStream`):
  before the first line is relayed a client does not close its end with something
  in it (`Kept`), and from the first line on the server's leaked `wfd` keeps the
  FIFO alive (`Leaked`). That needs who has which end open (`EndsInv`), which
  message the server is busy with (`Phases`), and that a client not yet greeted is
  blocked in `open` and has read nothing (`WaitInv`). For `WholeLines`
  (`CutOnlyAtFirst`): what is left in a FIFO is whole lines once the first read took
  "Accepted" alone (`AlignInv`). For `OrderOfTyping` (`TypedOrder`): the list, the
  lines taken and the server's FIFO each increase and precede the next, and what a
  client will write is greater than all of it (`OrderInv`); a FIFO that is emptied
  keeps that.
* **Chat, in GroupChat_proofs**, through `CH == INSTANCE Chat`, under the assumptions
  of Chat: `ChatTypeCorrect` and `ChatRunsDoNotMix` (`OneRunsLines`). The latter
  needs `Roster`: a client is queued once to be connected or listed in one run, the
  list has no pid twice, those whose home is the present run are just its members,
  and a run that still connects has taken nothing. That a new member has got
  nothing, printed or queued, and that its run has taken nothing, makes the two
  sides equal when it is listed; a death in the middle of a relay turns the line
  owed into `missed`. The instance shares the names of GroupChat's constants and
  variables, with Chat's meaning, and nothing is assumed of GroupChat's.
* **Facilitator, in TwoPort_proofs**, through `FA == INSTANCE Facilitator`:
  `FacTypeCorrect`, `RequestsGoRight` (`RightService`), `ThreadsCopyForward`
  (`NeverAnEarlier`). For the types: the words of the lines typed are enough slots
  for the services (`FacBudget`), and whoever is served has connected
  (`FacServing`). For the requests: the buffer holds just the number received, or
  something longer was in it before (`FacLonger`), and it never holds more than some
  number that was received, or what it held at first (`FacKnown`); an address can be
  wrong in the first request only, since `accept` corrects `addrlen`
  (`FacAddressed`). For the threads: the service's buffer holds the first address of
  its latest read that was not empty (`FacLatest`), and a thread is created for each
  read, in order (`FacThreads`): whenever a thread copies a letter, it is from that
  thread's own read or a later one (`FacBufFrom`).
* **Sniffer_proofs.** `TypeCorrect`, `FourteenBytesMissing` (`DumpsSkipFourteen`),
  `HexAndTextAgree` (`LinesAgree`), `ReadsStayInside` (`WithinCapture`), for frames of any
  length and any number of them. The log is typed by what the three print functions
  write (`PrintedFacts`), so everything is about one entry. `PrintData` prints a line's text
  when it meets the next line's first byte, so the proof goes by induction over its
  rounds: after byte i the output consists of full lines of 33 tokens and the hex of the
  line begun (`Rows`, `DumpIsRows`), and the last round fills that line up. From there each
  place of the output has a known token, whatever the size. Which bytes a dump shows
  (`HexOfDump`) is a second induction, over the tokens.
* **TickTock, in Sniffer_proofs**, through `TT == INSTANCE TickTock`, under its two
  assumptions: `TockTypeCorrect`, `TockTextIsOwnTime` (`ReadsOwnTime`),
  `TockWritingBackSets` (`SetsWhatItRead`). The arithmetic first: `itoa` collects the
  digits of a number from the last to the first, so what `reverse` leaves is its
  decimal text, and `atoi` after the digits of n is n; each by induction over the
  number, which loses its last digit. Then the invariant, `TockIInv`. `ReadsOwnTime`
  speaks of a read that is over, and what makes it true is true only during the read:
  as long as no other read has met p's, p is alone in `itoa`, its pointer is the global
  one, and the buffer holds at each point what `itoa` has made of p's own time so far
  (`TockUndisturbed`). After it, the user's buffer begins with that text, and behind it
  comes a newline, if one was added and the NUL is still in place (`TockReturned`).

**Induction.** The library's rules for it take an operator as parameter, which the
installed provers cannot instantiate. Its rule for well-founded relations, `WFMin`, takes
sets, and gives `SetInduction` in Sniffer_proofs: a set of naturals with 0 and with n + 1
for each n is `Nat`. With it, what recursive functions compute is proved: `FlattenSeq` of
the community modules, `HexBytes`, `itoa`, `atoi`. That a recursive function equals its own
body is not free either, since the definition only chooses one that does: that there is
one is proved first (`FlattenExists`, `HexExists`, `TockLowExists`, `TockSumExists`).

**Only model-checked**: liveness, that is the properties about where a system settles or
what is answered in the end, because fairness and `ENABLED` are out of the prover's
reach. Every safety invariant, every action property and the refinement of the runs
have a theorem.

Two properties were stated with a proof in mind. FifoChat's `SameStream` compares
by positions (`Carries`), and `got` keeps what a client has read as one sequence beside
the reads themselves (`chunks`). `atoi` in Facilitator's `RightService` is never computed in
the proof: equal digits have equal values.

**Only proved**: `GroupIsolation` (`Isolation`), `SemaphoreHeld` (`SemaphoreTracksSection`),
`PortOneUnlimited` (`LimitOneIdle`) and the type invariant of each module.

## 6. Not modelled

* Formatting, terminal output and the contents of texts, beyond what decides
  control (the first digit of a group, the NUL after "switch").
* Failure of `socket`, `bind`, `msgget` and the like at start, which end the
  program before anything happens.
* NewsPipeline: the bytes between the end of a read and the next multiple of a piece,
  of which up to four may be printed again; that `printf` of an unterminated buffer may
  show bytes behind it; what the buffers hold before their first read; an overwritten
  `msg_id` that happens to name some other program's queue.
* Standby: the end of file at a terminal; the second word of a line, which `scanf`
  finds when somebody types the next one; a listen queue that is full (five clients
  that wait, more than the runs have), since `connect` and `close` are one step.
* SignalChat: words of 100 letters and more, which `scanf` writes beyond `mesg_text`, and
  the end of file at a terminal.
* TwoPort: an `s1` that is not there, when the child would go on as a second server;
  what the length that a thread answers is (`recv` writes no NUL).
* FifoChat: a client's failing `open` before the server has made its FIFO, a line
  that happens to name an existing file, and descriptors running out.
* Chat: two servers at once, pids given to a new process, and a file `/tmp/server`
  replaced between two runs (another key, hence another queue).
* Facilitator: what a thread does after its copy; a service that ends by itself;
  addresses that are cut in the middle by a service's read.
* TickTock: a device that cannot be registered, a `kmalloc` or `copy_to_user` that
  fails; `open` and `release` only count.
* Sniffer: the choice of the device; `listconn.c`, which prints each frame's source
  address and counts nothing; the wording of the log and the contents of packets,
  which are printed and never compared.
* Standby: a new start of a server. A second backup finds the path in use as long as
  the main server has not unlinked it, and ends; a second main server meets a backup
  that no longer accepts.
* Crashes of servers, except in Chat and Standby; Ctrl-C of the editor in que4; a waiting
  program of the handshake that its user kills.
* The systems marked planned above, and those marked no: `arp.c`, `fakearp.c` and
  `garp.c` fill in one frame and send it; `FIFO/Datacenter`, `popen` and
  `socket/UDP` are unfinished; the build trees are generated.

## 7. Plan

In order of the behaviour they add:

1. Ctrl-C of the editor in NewsPipeline: it removes the queue, the newsreaders'
   `msgrcv` then fails, unchecked, and they write what is left in their buffers for
   ever.
2. **FifoGroup** over the same Fifo module as FifoChat: five relaying processes; the
   server closes its FIFO after each name, so that a name written in the meantime is
   lost and its client waits for ever (`FIFO/GroupChat/server.c` 66).
3. **Checksum**: both `csum`s against the Internet checksum over short words; one
   returns minus the sum, not its complement (`rawsocket/send.c` 40).
4. **SelectLoop** (`select`, `Poll`): one ready writer is served in a round, so that
   the third of three may never be read (`select/server.c` 59); **Pipes**, **Services**
   (`socket/concurrent`, `socket/multiservice`).
5. In Sniffer, the comment "Some Other Protocol like ARP etc." (`pcap/sniff2.c`)
   against the frames that `others` really counts.
