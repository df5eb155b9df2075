# TuxPLC in TLA+

TuxPLC lets Linux programs talk to Allen-Bradley and Modbus PLCs: libraries for
EtherNet/IP (`tuxeip`), DF1 and Modbus, daemons that serve tag values to
clients (`tuxreader`, `tuxtag`), data loggers that fill a MySQL database
(`tuxsql`) and command-line tools. This directory specifies its programs in
TLA+, model-checks them with TLC and proves with TLAPS what matters most about
the shared links, the lists, the requests and replies, the write mailbox and
the grouped reads. `PROJECT.json` maps every definition to the lines of `src/`
it stands for.

## 1. Inventory

| Component | State it keeps | Operations | Hard behaviour | Correct means |
|---|---|---|---|---|
| Links of the daemons (`tuxreader.c`, the same functions in `tuxtag.c`) | lists `SESSIONs`, `CONNECTIONs`; per PLC `Session` and `Connection`; `References` of each block | `BuildSession`, `BuildConnection`, `DisconnectPlc`, `KillSession`, `KillConnection`, `KillConnections` | blocks shared by several PLCs and freed by counter; failures half-way; gateways that close or reset sockets; PLCs that forget connections | counters are the number of holders, nothing dangles, a link leads to the device of the PLC's line |
| `tuxreader` | lists `CLIENTs`, `TAGs`; per tag value and time; per PLC `References`; `Terminated` | `mainprog`, `Traite`, `ReadTag`, inactivity check, `SigHand`, `Gardian` | values served from a list that gets old; deletion while walking; restart after SIGSEGV; SIGPIPE | replies are of the tag and PLC named, links are held exactly for the tags, all is released when the clients are gone |
| `tuxtag` | the same, with JSON requests and writes | the same, and `WriteTag` | a write is a read, a send and a read back, each of which may fail; the reply must tell | success means the PLC stored the value; no later read shows an older value |
| `tuxeip`, EtherNet/IP link (`Ethernet_IP.c`, `SendData.c`, `MR.c`, `CM.c`, `AB.c`) | a socket per session; per connection ids and a packet number | `_SendData_WaitReply`, `_ConnectedSend`, `_UnconnectedSend`, `_Forward_Open`, `_Forward_Close` | replies that come after the timeout, in any order, on a socket many callers share | a caller takes the reply to its own request, an opened connection is one the PLC granted |
| `tuxeip`, encodings (`PLC.c`, `LGX.c`, `CIP_IOI.c`) | none | PCCC addresses, data types, Logix paths and values | byte widths, file and element numbers above 254, bit positions | a read or write reaches the cell that is meant, in its type |
| `sutil` lists (`ChainList.c`, `List.c`) | a ring of malloc'ed elements and a count | add, remove, walk, sort | removal of the element a loop stands on, of the first, of the last | the ring is a sequence, walks end, no freed element is used |
| `TuxAB` logger | PLCs, tags, packets, `Next_Time`, `Errors`, sessions and connections from a database | `Logger`, `Optimise_Plc`, `ReadPacket`, `ReadTag`, `BuildSession` | retries by time and error count; one read for many tags; a second copy of the sharing code | every tag is sampled at its rate while its PLC answers; one session per gateway |
| `TuxDf1` logger and `df1.c` | serial or socket line; transaction number; tags; a write mailbox in the database | `Logger`, `_Read_WriteValue_Tag`, `_UpdateWriteTag`, `send_DF1`, `rcv_DF1` | NAK, ENQ, timeouts, transaction numbers; a value stored in the mailbox while another is written | a reply belongs to its command; a stored value is written once and not lost |
| `TuxModbus` logger | as TuxDf1: it is a copy, whose write was never filled in | the same | the same | the same |
| `TuxMdb` logger, `modbus` client | PLCs, tags, packets; per PLC a socket, one transaction id for all | `Logger`, `Optimise_Plc`, `MBRead_Raw`, `MBRead_Ext`, `MBWrite_Ext`, `MBMask_Write` | grouping of tags, late replies, slow devices | a reply belongs to its request; what is stored is the tag's value; every item is read |
| `TuxHisto` | an array of at most 500 tags already seen | `CheckBySql`, `CheckList` | an array with a limit that is closed up after removals; time stamp set before the insert | each sample is archived once |
| `readtag` | none beyond one command | `Connect`, `ReadTag`, `WriteTag` | three transports, statuses of several signs | prints the value meant, writes the cell meant, tells a refusal |
| `qtEip`, Java, PHP and C# clients | none | GUI wrappers of `tuxeip`, viewers of the database | none: single-threaded | not specified |
| Vendored: `iniparser`, `cJSON`, `libmodbus` copy | | | | not specified |

How they interact: a client sends a line to a daemon; the daemon looks for the
tag in `TAGs`, and when the value is too old calls `ReadTag`, which builds the
missing links through `BuildSession`/`BuildConnection` and calls `tuxeip`;
`tuxeip` sends one request and waits for one reply on the session's socket. All
lists are `ChainList` rings. A daemon is one thread, so nothing is interleaved
inside it: the concurrency is that of clients, gateways, PLCs, signals and
time with the steps of the daemon, and every call that may block is a step of
its own in the models. The loggers meet other programs in the database: each
query is a step, so that a value stored by a client, a deleted row or another
logger's snapshot may come between any two.

`PROJECT.json` lists the hazards of this code with the line where each bites
and the properties that watch it.

## 2. Modules

| Module | Is | Uses |
|---|---|---|
| `SharedLinks` | abstract: holders share links, a link is open exactly while somebody holds it | |
| `PlcLinks` | the links of a daemon: heap, lists, counters, sockets, PLC side | refines `SharedLinks` twice (`Sessions`, `Connections`) |
| `LateReplies` | the replies that come after a daemon has given their request up, and who takes them | extends `PlcLinks` |
| `TuxReader` | the `tuxreader` daemon | extends `LateReplies`, refines `PlcLinks` (`UsesLinks`) |
| `TuxTag` | the `tuxtag` daemon | extends `LateReplies`, refines `PlcLinks` (`UsesLinks`) |
| `EipLink` | requests and replies of one session | |
| `ItemList` | abstract: a sequence with one cursor | |
| `ChainList` | the ring of `ChainList.c` | refines `ItemList` |
| `RemoteCall` | abstract: a command takes effect at most once, success means it did | |
| `Df1Link` | the DF1 line: `send_DF1`, `rcv_DF1` and the processor | refines `RemoteCall` |
| `MailLogger` | what `TuxDf1` and its copy `TuxModbus` share, and the database | relies on `RemoteCall` for an exchange |
| `TuxModbus` | both programs, and their properties | extends `MailLogger` |
| `TuxHisto` | the archiver | |
| `MBClient` | read requests and replies of the Modbus/TCP client | |
| `TuxMdb` | the Modbus/TCP logger | extends `MBClient` |
| `TuxAB` | the Allen-Bradley logger, its sessions and connections | |
| `Words` | words, bits and floats as numbers | |
| `PcccCodec`, `LgxCodec`, `Df1Codec`, `MBWrites` | addresses, data descriptions and values of `PLC.c`, `LGX.c` and `CIP_IOI.c`, `df1.c`, `MBClient.c`; operators only | `Words` |
| `TagAccess` | single reads and writes, from the text of an address to the cells of the device and back | instances of the four codecs |
| `PlcLinksProofs` | theorems of `PlcLinks`; what the next row needs for lists of tags | |
| `TuxReaderProofs`, `TuxTagProofs` | theorems of `TuxReader`, `TuxTag` | extend `PlcLinksProofs` |
| `TuxMdbProofs`, `TuxABProofs` | theorems of `TuxMdb`, `TuxAB` | |
| `ClientProofs` | theorems of `EipLink`, and of `TagAccess` with its codecs | |
| `SerialProofs` | theorems of `TuxModbus` and of `Df1Link`, the line that `TuxDf1` uses | |
| `ListProofs` | theorems of the two lists, `ChainList` and `TuxHisto`, whose proofs share a lemma | |
| `*_MC` | constants of the runs | |

**PlcLinks.** A PLC is its position in the alias file, because `FindSession`
and `FindConnection` scan `PLCs` in that order and take the first match. Blocks
are addresses: `heapS` is what is allocated, `SESSIONs`, `plcSession` and
`cSession` are pointers that may or may not be in it, so the use of a freed
session is visible and sets the ghost `corrupt`. The process may crash at any
moment (`Crash`): freed blocks in use and the uninitialised header of a `recv`
that returns 0 are causes the code has. The string comparisons of the
code compare as many characters as the *searched* string has; the constants
`IpStarts` and `PathStarts` say which strings of the file begin with which, so
the same module describes files with and without that confusion. `sState` and
`cUp` are the other end: a gateway may refuse the registration, close or reset
a socket, a PLC may refuse or forget a connection, at any moment. A `send` on a
reset socket ends the process (`EndProcess("killed")`): no program of the
repository handles or ignores SIGPIPE. `_Forward_Close` and `_UnRegisterSession`
are part of `DisconnectPlc`. `Gardian` restarts the process by `execv`, and the
sockets, which have no `FD_CLOEXEC`, survive it: the lists are empty then, and
the links of before stay open with nobody to hold or close them (`orphans`).
They stay so until the gateways time them out (`OrphansDropped`). What
`SharedLinks` and the other properties say is of the links the process has.

**LateReplies.** `late` are the replies under way to requests that were given
up, with the session and the connection they belong to and their form. A
request over another connection of the session may take one of them
(`TakesLate`): `_ConnectedSend` compares the packet number only, each
connection counts from 0, and which numbers two of them have reached is left
open. What is looked at in the reply depends on the PLC (`PassesFor`): its
service for a Logix and over ControlNet, nothing over DH+. The value so taken
is `CrossedValue`. A reply to the same connection could be taken after 2^16
requests only, which is left out here; `EipLink` has it.

**TuxReader.** `pc` is the place of the main loop: in `select` ("wait"),
working through its result ("serve"), in `ReadTag`, or in the inactivity check
("scan"), which is taken element by element with the position `cursor`.
`select` may report any set of clients and none. Time is the age
`now - Time_Value` of each value; `Tick` ages all at once while the daemon may
be waiting. Only comparisons with `UPDATE_RATE` (30 s) and `INACTIVITY_TO`
(90 s) are made, so ages above both are one value, `Old`, which is also that of
a tag never read (`Time_Value` is 0). A value is named by the device and tag it
was read from, so that a wrong value can be told from a right one; `BadValue` is
what a conversion that failed left in `tag->Value`. `Gardian`
restarts the process after SIGSEGV, with empty lists.

**TuxTag.** As `TuxReader`, without the clients' list, which adds nothing new:
any request may come between two scans. A variable of a PLC is the number of its
changes, by writes and by the PLC's program; a buffered value remembers the
number it was read at. The ghosts `sent` and `acked` record what became of the
current write and what the last acknowledged write left. A conversion that fails
leaves its number in `tag->Value` and the `Time_Value` of the value before:
while that is younger than `timerefresh`, the number is served (`BadValue`).
`WriteTagCrosses` is a write whose reads or answers are those of another
connection. `Terminated` is read only at the top of the main loop and by
`Gardian`, so a signal is not a step of its own here but the choice of
`Shutdown` there. `CheckSession`, `CheckConnection` and `BuildConnections` exist
in both daemons and are called by nothing: they are not modelled.

**EipLink.** A call builds its request, empties the socket twice
(`_CipSendData_WaitReply` and `_CipSendData` both call `_CIPEmptyBuffer`), then
sends, and replies may arrive between any two of these calls. It takes the first
reply that arrives, or times out. `Accepts` is what each caller compares:
`_ConnectedSend` the command and packet number, `_UnconnectedSend` the service,
`_Forward_Open` and `_Forward_Close` nothing. The gateway answers in any order,
late or never. `_CIPEmptyBuffer` reads at most 512 bytes: here `FlushCap` whole
replies. A closed socket, on which `recv` returns 0 and an uninitialised header
is used, counts as silence.

**ChainList.** The ring is kept pointer by pointer, `loop` is the loop that
runs; `free` makes `data` of the block `Null`. The walk is the one of the
daemons' inactivity check, which reads the next element, removes the old one,
and reads the next again at `continue`. `ItemList` says what that means for the
sequence: the element behind a deleted one takes its place and is not looked at.
`TuxReader` and `TuxTag` use lists in that form (`ScanDeletes`).

**Df1Link.** The line is two queues of symbols. A frame to the processor is one
symbol; one from it is STX and ETX, because `send_DF1`, waiting for its answer,
takes each for an answer of its own and resends. `doing` is the function
that waits: `send_DF1` (`await`), `rcv_DF1` before and inside a frame (`reply`,
`frame`). `Unanswered` is the second that passes. The processor is not in
`src/`: it is modelled from what `df1.c` expects of it, and drops a frame whose
transaction number is that of the last.

**MailLogger, TuxModbus.** `pc` is the place in `Logger`; each query and each
exchange is a step. `mailbox`, `row` and `snapshot` are columns of DEFINITION,
`memory` the variables of the PLC. An exchange that fails may have been done,
may be done later (`Late`) or never, which is what `RemoteCall` promises.
`program` chooses between the original and the copy; what both share is one
action with a name for each. The snapshot of a read is `Shown`, the word read
without a sign, or a bit of it. Modbus/RTU has no transaction id: `input` is the
input queue of a line, where a reply that comes after its timeout (`LateReply`)
stays, is taken by the read of the next tag, and leaves that tag's own reply to
the one after it. A timeout flushes the line before the late reply comes, not
after; the result of the CRC is not looked at (`Garbled`).

**TuxHisto.** Each row of a select is a step, since its insert is a query; the
rows come in any order. `Data` is the array of pointers, `freed` the blocks
given back and still pointed at, `rounds` the code's `i`, `CloseUp` the loop of
`CompactListe` in all its details. The ghost `trouble` records that `CheckList`
met a list that it cannot close up.

**MBClient, TuxMdb.** A value is its place in the device and the type it is
read as, so that the value of another register can be told; the
prefix of an address that has none is "none". `Rows` are the tags there may be
and `Plants` the sequences of them that the two selects may give. `Optimise` is
`Optimise_Plc`: `Sorted` the list in the order of addresses (`InOrder` leaves
equal addresses in any order), `Btag` the tag that `btag` is when the n-th is
done, `Group` those that share one. A tag read alone and a packet are both an
`item`, those alone first, as the two loops of `Logger` take them. The reply
queue is the receive buffer of the socket, which `Send` empties first. `Check`
ends a pass: it closes the socket, because it compares a date with 0.8 times a
date, unless an item of the PLC has never got a value (`StaysOpen`); then the
socket, and what comes late, stays for the next pass. The
option that turns `Optimise_Plc` off is not modelled.

**TuxAB.** The calls of `tuxeip` are atomic here (`EipLink` has their
messages); `link` holds what they change, and the operators of the second part
map a value of it to the set of values and results a call may have. A session
is a TCP connection that is up, cut, reset, broken or freed; `held` is what the
devices know of connections. `down` and `stopped` are gateways and devices out
of order, repaired in the end. `Optimise` is the set of lists of items
`Optimise_Plc` may leave: `Sortings` are the orders that `compare_plc` allows
(`Bytes` is what it compares; tags of equal bytes may come in any order),
`Btag` and `Group` are as in `TuxMdb`, and `Sooner` puts the tags read alone
before the packets. `link.late` are the replies to requests that were given up,
by the session and connection they belong to. The next call over the session
takes one of them for its own: `_ListServices` and other unconnected calls look
at nothing and so fail (a late reply makes `CheckSession` give up a session
that works); a read over another or a newer connection, where the packet number
may be the same, takes the value (`CrossedValue`, `link.mixed`). A conversion
that fails is stored (`BadValue`), and a failing `_UpdateTag` leaves the row as
it was. `due` are the items that were due when the pass took its `now`.

**Codecs, TagAccess.** An address is a record or sequence, and the text the
code scans a sequence of names and numbers; bytes appear where a width
matters. `TagAccess` runs whole commands of `readtag` (connect, read for the
type, write, read again), of the DF1 client and of the Modbus client against a
table of cells, over replies that come, are refused by the device or by the
router, or are lost. The registers of a DINT or REAL come low word first, as
`_mbswap_32` makes them when `SWAPPED_MODBUS` is not defined, and an INT is read
without its sign. A number beyond the 24 bits of a float is rounded to the
nearest one (`Float`).

## 3. Runs

| Run | Asks | Shows |
|---|---|---|
| `links_shared` | four PLCs, two on one path, three behind one gateway, in every order of joining, using, leaving | counters, pointers and devices stay right, `SharedLinks` is implemented |
| `reader_pair` | a DH+ node and a Logix behind one gateway, one tag each; replies may come late, registrations may stay unanswered, so freed blocks are used, crashes and restarts happen | references count tags, buffered and replied values are of the right tag or of a late reply, and the daemon implements `PlcLinks` |
| `reader_quiet` | no client any more | everything the process has is released (liveness) |
| `tag_nodes` | two SLC nodes sharing session and connection; reads and writes, with the same failures | replies are of the variable named and true of the request, reads see acknowledged writes, but for late replies and failed conversions; links are held for tags |
| `eip_late` | late, lost and reordered replies, packet number wraps | no reply from before the request is taken, none of an older request of the same connection |
| `list_ring` | lists of up to four elements | ring, refinement of the sequence, sort |
| `df1_line` | two commands, a symbol lost or damaged, NAKs, ENQs, a late or silent processor | a reply is of its command, `RemoteCall` is implemented, every call returns unless the line falls silent inside a frame |
| `mailbox` | either program, two tags, stores at any moment, late and damaged replies of the Modbus line, failing queries, lines and exchanges, rows that go | a value is written once, or once more per failure; only a value stored after the select is lost; snapshots advance; PLCs and values get their turn |
| `histo` | an array of three with up to four rows, two of which are logged four times, rows that go, failed selects and inserts, signals, restarts | the array is sound until `CheckList` meets what it cannot close up; samples are apart; nothing due waits for ever |
| `mdb` | devices with tags alone and in packets, late and missing replies, a packet that never gets a value, refused updates | tags are kept and grouped, replies are own, stored values are of the tag, items are read |
| `ab` | PLCs that share sessions and connections, gateways and devices that fail and come back, a late reply, failed conversions and updates | open sessions are those in use, stored values are of the tag, sessions that work are kept, PLCs come back |
| `values` | reads and writes of every kind of address, values at the edges, refused and lost replies | what is printed is what is meant; a write changes its cell or nothing |

Every property has in `PROJECT.json` a mutant of the code that violates it.
Each module's type invariant `TypeOK` is the first conjunct of its main
structural invariant (`LinksHeldForTags`, `IsRing`, `TakenIsOwn`...).

**Departures.** A property says in its condition, or in a disjunct, what the
code is known not to keep; take the condition away and TLC shows the behaviour.
These are what a maintainer should know:

- `FindSession` and `FindConnection` (`tuxreader.c:350`, `:362`, and in
  `TuxAB.c`) compare as many characters as the searched text has: 192.168.1.1 is
  given the session of 192.168.1.18 (`IpStarts`, `Prefix`; conditions
  `ExactFile`, `Distinct`); `FindConnection` ignores the DH+ channel.
- A `RegisterSession` without answer frees the session and the code goes on with
  it (`tuxreader.c:422`, `RegisterMayFail`; in `TuxAB`, `freed`).
- A connection that the PLC has forgotten is dropped only with the last tag of
  its PLC; two clients that poll in turn keep it for ever (`tuxreader.c:1145`).
  One round of the inactivity check misses the element behind a deleted one.
- A request for `tag6` is served from the tag `tag` (`TagStarts`,
  `src/tuxreader/README:10`).
- `tuxtag`: a write that is never sent because its link fails answers with the
  result of the read that follows (`tuxtag.c:830`); a refused write, whose
  status is positive, counts as done (`PLC.c:582`); an integer is written with
  the bytes of a float (`Stored`). A value whose conversion failed is served as
  a success within `timerefresh` of the value before it (`tuxtag.c:778`, `:800`,
  `:1405`).
- A late reply of another connection of the same session can be taken
  (`Ethernet_IP.c:421`): `NoCrossTalk` is about one connection. In the daemons
  the value of another tag is then replied and kept (`Crossed`); with `MaxLate =
  0`, that is for PLCs that answer in time or not at all, `Crossed` is empty and
  the properties except nothing.
- After a crash the sessions and connections of before stay open at the gateways
  until these time them out: sockets have no `FD_CLOEXEC` (`SendData.c:82`,
  `tuxreader.c:974`), so each restart costs a gateway some (`orphans`).
- A peer that resets its socket ends a daemon or logger by SIGPIPE.
- `Df1Link`: a line that falls silent inside a frame hangs `rcv_DF1`
  (`CallsReturn`).
- `MailLogger`: a value stored between the select and the update is lost
  (`OnlyLateStoresAreLost`); the value of a tag whose row was deleted is written
  in every round (`WrittenOnce`); the log of a failed call has three `%s` and
  two arguments (`MayCrash`); the write of `TuxModbus` sends nothing. After one
  timeout of a `TuxModbus` line its tags may have the values of each other from
  then on, since each read takes the reply to the one before (`disturbed`).
- `TuxHisto`: with a full array, or two removed tags in a row and one behind
  them, `CompactListe` leaves holes and `FindTag` dereferences NULL (`trouble`,
  `Crash`); tags beyond the limit are inserted at every select (`excused`); a
  failed insert is not repeated (`failed`).
- `TuxMdb`: a packet reads every register as half of a float, whatever the tag,
  and may mix tables (`Alike`); a packet of floats at the end of the registers
  asks for too much and is never read (`Fits`); then the socket of its PLC stays
  open for ever, and all others are closed at every pass, because a date is
  compared with 0.8 times a date (`Check`). On a socket that stays open an
  unanswered request may meet its transaction id again 65536 requests later.
- `TuxAB`: a late reply to a read makes the `_ListServices` of `CheckSession`
  fail, and a session that works is given up with all its users; taken by the
  read of another connection, its value is stored for the tag of that one
  (`TuxAB.c:617`, `:1084`; `mixed`); what a failed conversion gives is stored
  (`TuxAB.c:1100`, `:1164`). A positive status counts as a good read, so that a
  PLC behind a gateway that refuses its connection is never reconnected
  (`mute`); a PLC without connection whose session is dead is never checked
  (`Stranded`); two rows of one PLC may close each other's connection
  (`Crossed`); a pass in which nothing is due forgets the errors (`Quick`); the
  branch for `E_RcvTimeOut` is never taken, since `_ListServices` overwrites the
  error; the connection that is opened again has the router twice in its path;
  elements from 255 on are alike in a packet (`Plain`).
- `readtag` and codecs: LEN is read as the flag EN; a bit of a negative word
  depends on a conversion C leaves undefined; a bit is written as a whole word;
  a DF1 file or element beyond a byte wraps (255 marks two bytes), EN and DN are
  exchanged, LEN is a boolean; a Logix index above 65535 loses its upper bytes
  and a DINT beyond 2^24 is rounded by a float; a negative INT of a Modbus
  device is read as its unsigned word; an F address converted to an integer
  gives raw bits; a negative value of a register is undefined; a mask write of a
  coil masks a register (`Plain`, `Writable`, `Rounded`).

**Bounds.** PLCs: a link has its opener, another holder, and a stranger at the
same gateway and at another one: four lines (`links_shared`) give each role
once; the daemons, whose state is larger, have the pairs. Blocks: there are two
session and three connection addresses, one per possible owner plus, in
`links_shared`, a reuse of freed addresses. Addresses are symmetric there; runs
with liveness or a refinement of daemons use no symmetry. Tags: one name per
PLC, or two on one PLC where the scan has to skip one. Clients: one, except that
any number of requests may follow each other. Ages: `Old` is the first age above
both limits. `INACTIVITY_TO` = 1 gives three ages: fresh, still listed, and due
for deletion. `Changing` are the PLCs whose variables change, one of two in
`tag_nodes`: the other one tells what is mixed up between them. `MaxLate` = 1
reply is late at a time: one is enough to answer a wrong request, and the
request that it answers may be the next late one. `tag_nodes` has one session
and one connection address; a late reply there is taken when the connection has
been closed and opened again. `MaxChanges` = 1 is enough for a value to be older
than an acknowledged write and for a change the client did not make to be told
apart by `>=`.

`EipLink`: five calls, answers at most `MaxLate` = 2 calls late, packet numbers
modulo `PacketRange` = 3 so that they wrap. `MaxLate < PacketRange` is what
makes `NoCrossTalk` true: in the code an answer would have to be 65536 calls
late. `MaxLate <= FlushCap` is what makes `FlushedIsNotTaken` true: all late
replies may arrive between the two times the socket is emptied, so the second
alone has to be able to hold them. A reply that arrives after it is not flushed;
`FlushedIsNotTaken` is about those that were there before. Lists: with four
elements the removed one can be first, last, next to the cursor and away from
it.

`Df1Link`: two commands, so that one may meet the remains of another; one NAK,
one ENQ, one repetition and one disturbance are each counted to their limit and
over it; `TnsRange` = 3 with `MaxCalls` = 2 wraps the number, and `TnsRange >
MaxCalls` is the assumption that a reply is not 65536 commands late.
`MailLogger`: two stores (one can replace or follow the other), one change, one
fault, be it a reply that comes late or damaged; `Wait` = 2 lets a PLC be tried
before another is. `TuxHisto`: capacity 3 with one row more; two selects between
two checks; two faults, so that a row can go after a failure. Snapshots have
times up to `MaxTime` = 4 with `Time_Sample` = 1, so that a tag of `Logged` has
two samples that are apart and some between that are not inserted. `TuxMdb`:
`MaxEltByPacket` = 2 and addresses at, inside and beyond a packet's end; two
faults; ids modulo 8 never wrap within the replies that can be outstanding, and
`Registers` = 8 puts a packet at the end. `TuxAB`: two PLCs behind one gateway
(shared session), two rows of one PLC (shared connection), two gateways with a
common prefix, a Logix alone, and a plant of mixed packets; up to two faults,
since a loss and a failed repair are needed to strand a PLC; element numbers
from `Base` = 4 on stand for those of three bytes. `slow` of a plant is how many
replies may come late, one: it can be in the way of a read over each other
connection and of a check. `TagAccess`: the addresses and values just below, at
and above what a byte, a word and a float hold; two commands, so that the second
meets the table the first left.

**Fairness.** `TuxReader`: `WF(MainLoop)` — `mainprog` does not stop by itself,
`select` has a timeout, and every call of `tuxeip` has one; `SF(Tick)` — the
clock goes on, though the daemon is not always in a state where time can pass.
Clients, gateways, PLCs, signals and crashes have none. `ChainList`: the loop
that has begun goes on, since it is code without waiting. `Df1Link`: weak
fairness of the client alone — it waits for the line or the clock; the processor
and the line promise nothing. `MailLogger`: the logger, whose exchanges end
(`CallsReturn`, but for a line silent inside a frame), and the clock.
`TuxHisto`: the program, which waits for nothing but its queries. `TuxMdb`: the
logger, and a device that has got a request answers it, if the call that waits
does not give up before; faults are bounded, so that in the end calls are
answered. `TuxAB`: the logger; what is out of order is repaired, and a device
forgets a connection nobody uses, as its timeout multiplier makes it. Nothing
else is claimed to be live.

**Deadlock.** All runs have `CHECK_DEADLOCK FALSE`: a daemon that has been
killed or stopped stays so, `EipLink` and `Df1Link` end after `MaxCalls` calls,
`TagAccess` after `MaxCommands` commands, and a list of distinct walks always
returns to idle.

## 4. Proofs

**Links of the daemons.** For every alias file, number of PLCs and heap, and
under `~RegisterMayFail` (each `RegisterSession` is answered; with
`RegisterMayFail` the results are false, see the departures):

| Theorem | Says |
|---|---|
| `LinksTyped` | `LinksTypeOK` |
| `LinksCounted` | `RefCounts`, prefix confusions included |
| `SessionsAreShared`, `ConnectionsAreShared` | both kinds of links implement `SharedLinks` |
| `LinksReachTheirDevice` | `RightDevice`, for a file in which comparisons are exact (`ExactFile`) |
| `LinksDoNotDangle` | `NothingDangles`, for such a file |
| `ReaderUsesLinks`, `TagUsesLinks` | every behaviour of `TuxReader` and of `TuxTag` is one of `PlcLinks` for its links (no assumption) |
| `ReaderCounted`, `ReaderDoesNotDangle`, `TagCounted`, `TagDoesNotDangle` | so the daemons inherit `RefCounts` and `NothingDangles` |

`RefCounts` is not inductive: closing a session at counter 0 is right only if
the session is the one the list and the heap hold. `LinksInv` adds the types,
`heapS = SESSIONs`, and `Counted`: for each kind of link, every pointer of a PLC
leads to a live block, every live block has a holder, and its counter is the
number of holders. The lemmas `Join`, `Leave` and `CountOpen`, `CountShare`,
`CountLeave`, `CountLeaveLast` say once, for any pointer function and counter,
what adding or removing one holder does; each action of `PlcLinks` cites them
for sessions and for connections. `DeviceInv` adds, under `ExactFile`, that a
session's users are of the gateway it was opened for, that there is one session
per gateway, that a connection's users have its opener's path, network and
session, and that `corrupt` is false: without "one session per gateway" a
connection could be shared by PLCs of different sessions, and closing one would
leave it dangling. In both daemons `Loop` holds what the refinements need: the
types of the places of the loop, and that the tag being served is one of a PLC
of the file.

**Tags and replies of the daemons.** For every alias file, tag set and request,
and any number of late replies:

| Theorem | Says | Assumes |
|---|---|---|
| `ReaderHoldsLinks`, `TagHoldsLinks` | `LinksHeldForTags` | nothing |
| `ReaderBuffersGoodValues` | `BufferedValueIsGood`, without an exception when `MaxLate = 0` | `~RegisterMayFail`, `ExactFile` |
| `ReaderTellsTheTruth`, `TagTellsTheTruth` | `ReplyIsTruthful` | these and `ExactNames` |
| `ReadsDoSeeWrites` | `ReadsSeeWrites` | the same |

`LinksHeldForTags` holds with failing registrations and ambiguous files too, so
its proof cannot use `LinksInv`. It needs only `PointersOK`: a pointer of a PLC
is an address, and a PLC with a connection has a session. `Held` says that
`References[p]` is the number of positions of `p` in the list (`Spots`), that a
PLC with a session has some, and that the tag being served is in the list, so
that a session that is built for it has one too. `Appended` and `Removed` say
once what a tag more and a tag less do to the counts and to injectivity; the
second is a bijection between the positions before and after. For a value that
may be served, `Buffered` and `Fresh` say that it is of its own variable.
`BufferedValueIsGood` needs `Due`: a read, which may spoil the value before it
fails, begins only when the value has expired, and time does not bring it back.
`Fresh` also bounds what a write has left, `acked`, by the memory of the PLC,
which only counts up, and by every value still served, which is all
`ReadsSeeWrites` needs; a `BadValue` or `CrossedValue` is excepted by name in
each of them. `ExactNames` says that no name of the file, nor (in `tuxreader`)
tag name in use, begins with another: `FindTag` and `FindPLC` then find what the
client named. Without it `ReplyIsTruthful` is false, see the departures.

**Requests and replies.** For every number of calls, connections, repetitions
and disturbances:

| Theorem | Says |
|---|---|
| `EarlierRepliesAreNotTaken` | `FlushedIsNotTaken` of `EipLink`, given `MaxLate <= FlushCap` |
| `RepliesDoNotCross` | `NoCrossTalk` of `EipLink`, given `MaxLate < PacketRange` |
| `RepliesAreTakenByTheirOwn` | `TakenIsOwn` of `Df1Link`, given `MaxCalls < TnsRange` |
| `LineImplementsRemoteCall` | `Df1Link` implements `RemoteCall` |

In `EipLink` the requests that are in flight or answered and not read are
`Pending`. `Window` says they are at most `MaxLate` calls old, `Distinct` that
each is pending in one place only; so before a request leaves there are at most
`MaxLate` replies on the socket (`FewReplies`, by the cardinality of an
interval), one `recv` takes them all, and what is there later came during the
call (`Drained`), which holds on while the request has not been sent yet. For
`NoCrossTalk` packet numbers alone do not do, since a block that is freed and
reused starts at 0 again. `Fresh` says that the id of a connection that is being
opened is in no block and in no pending connected request, and `Lag` that a
pending request of the connection a block holds has a packet number `k` steps
behind the block's, with `k` at most the calls since: less than `PacketRange`,
hence not the number waited for unless the request is the current one.

In `Df1Link`, `Own(c, n)` says that `n` is the transaction number of command
`c`, which is that of the last command less the commands since, modulo
`TnsRange`. `Numbered` says so of every frame, job and reply, wherever it is;
two commands with the same number are then the same. The refinement also
needs `Once`. The processor drops a frame whose number is that of the last one
it accepted, which keeps a command from being executed twice only if frames
reach it in the order of their commands: there is a `last` accepted command, the
frames on the line are of commands from `last` on and in order (`Ordered`), what
is executed is of commands up to `last`, and the jobs it holds are of different
commands and not yet executed (`Accepted`). The line loses and damages symbols
but never reorders them (`Remains`), which keeps `Ordered`.

**Lists.** For any memory, items and order of them:

| Theorem | Says |
|---|---|
| `RingIsKept` | `IsRing` |
| `ListIsSequence` | `ImplementsSequence`: `ChainList` implements `ItemList` |
| `TrieEndsSorted` | `EndsSorted`, the safety half of `TrieSorts` |

`IsRing` counts the elements met when `Next` and `Prev` are followed, which says
nothing about the step of an operation. The invariant names them instead:
`IInv` says that there is a sequence `q` of the allocated elements, each once,
with `head` its first, such that `Next` and `Prev` of each element are its
neighbours in `q`, around the end (`Ringed`); and that the element a walk or a
sort stands on is one of `q`, `elt2` behind `elt1` (`Standing`). `RingGrows` and
`RingShrinks` say what `Linked` and `Unlinked` do to `q`: `Added` at the end, and
`Without` the k-th element, for which the cases of the code (one element, two,
the first, any other) come down to arithmetic on positions. `Walked` is the only
place where a recursion is looked into: the program that follows `Next` from
`head` meets `q`. For the refinement the data of `q` is the sequence of
`ItemList`, and the cursor is the position of `elt1` in it. The sort is a
selection by exchange (`SoFar`): the places before `elt1` hold what belongs
there, and `elt1` the least of those up to `elt2`; one turn of the inner loop
keeps this (`ExchangedSoFar`), and so does its end (`SoFarNext`).

**Archiver.** For any tags, limits, snapshots and faults:

| Theorem | Says |
|---|---|
| `ListIsKept` | `ListIsSound` |
| `SamplesStayApart` | `SamplesAreApart` |

While `trouble` is false the array is `Intact`: the slots up to `Count` and no
others point at a `TAG`, none of them freed, all of different tags. What the
program has in it is then a sequence of TAGs, `Listing`, and a row changes one
of its elements or adds one (`RowListing`), whatever block `malloc` gives. The
hard step is `CompactListe`, whose loop does not close up every array:
`Closable` says of an array, before the loop looks at slot `s`, that no two
pointers in it are the same, that what is behind the first NULL up to `s` is
NULL, and that two NULLs in a row are the last of it, the end of the array being
NULL unless all slots are in use. One turn keeps that for the next slot
(`MovedUp`), and `CanCloseUp` says that it holds of what `CheckList` removes, or
else the list was `Unclosable`. For the samples, `Known` says of a tag in the
list that is not excused that its row exists and that, once a select has
succeeded since `CheckList`, it has been found or still waits in the result: so
`CheckList` does not forget it. `Dated` says that each sample in HISTO is there
once and is no younger than the time kept in the `TAG` of its tag, which is in
the list. A new sample is then more than `Time_Sample` behind all others.

**Write mailbox.** For any lines, tags, stores and faults, and for both
programs:

| Theorem | Says |
|---|---|
| `ValuesAreWrittenOnce` | `WrittenOnce` |
| `OnlyLateStoresGetLost` | `OnlyLateStoresAreLost` |
| `SnapshotsDoAdvance` | `SnapshotsAdvance` |

`WrittenOnce` is a budget: `Budget` counts what a value has cost, the writes that
were done and the one that the PLC may still do late, and says that each but
one is paid for by a failure, and every one as long as the value will be sent
again (it is in a mailbox, or selected and not sent). `Unique` is needed because
two mailboxes with one value would spend one budget; a tag whose row was deleted
is excused, as in `WrittenOnce`. `Gone` and `Held` say what the mailbox may hold
between the select and the update: nothing, what the select found, or a later
store; that is what `OnlyLateStoresAreLost` is about. `Fresh` says that neither a
snapshot nor a value on its way to one is newer than the variable it was read
from. On a Modbus line the same is said of the replies in its input: of a line
that was never disturbed there are none, so that the reply taken is the own one,
and of the others each is `Garbled` or the number of a tag of the line.

**Modbus logger.** For any tags of any PLCs, packet size, times and faults:

| Theorem | Says | Assumes |
|---|---|---|
| `TagsStayKept` | `TagsAreKept` | nothing |
| `OwnReplies` | `RepliesAreOwn` | `[]IdsAreFree` |
| `OwnValues` | `StoredIsOfTag` | `[]IdsAreFree`, `Sizes` |

The first part is about `Optimise_Plc` alone. `BtagFacts` says what the walk
does: `btag` never moves back, and the tags that share one are an interval, none
too far from its first. Hence the groups partition the sorted tags
(`GroupFacts`, `ItemsAreGroups`), and `GoodItems` says of the items of a PLC
that each tag has one place in one of them and that the request asks for all of
its tags, with the tag's own value where they are alike and the device has what
is asked for (`ItemIsGood`). `Shape` keeps this through the loop. For the
replies, `Calls` gives the types of what is in the sockets, and `Recognised`
says that what comes with the id of the current call is of this call: a request
or reply of another one has another id, since ids are given in turn and none is
given while the device still has the request that had it (`IdsAreFree`). In a
PLC whose socket is closed after each pass that needs more than 65536 requests
in a pass; where it stays open, a request that is answered 65536 requests later.
`Values` then needs that only the reply to the request of its item changes the
value of a tag, and a tag is in one item of one PLC (`OneItem`).

**Allen-Bradley logger.** For any PLCs, tags, packet size, times and faults:

| Theorem | Says |
|---|---|
| `SessionsStayUsed` | `SessionsAreUsed` |
| `UpSessionsDoStay` | `UpSessionsStay` |
| `ValuesAreOfTags` | `StoredIsOfTag`, which itself speaks of `Distinct` names and `Plain` elements |

All three rest on what a call may do to a value of `link`. `Good` says of such a
value that the open sessions are those of the PLCs, each PLC's session is open,
and, under `Distinct`, that the session of a PLC is to its gateway and its
connection to its device. There is one lemma for each operator of the second
part of `TuxAB`: the result is again `Good`, and it is `Alike` (a request, an
answer, a late reply, what gateways and devices do: nobody's session or
connection changes), or it `Keeps` all sessions (`BuildSession`,
`BuildConnection`, `CheckConnection`), or it `Drops` only one that was `Silent`,
that is which was not up, whose request was lost, or over which a late reply was
under way (`CheckSession`). So the calls of one pass compose: `DropsThenKeeps`.
`GivenUpIsGood` is where it matters that `CheckSession` takes the session away
from every PLC that shares it. A new session needs a free block: those of the
other PLCs are fewer than the blocks there are (`NewSessionIsFree`, by
cardinality). `Shape` adds the places and times of the loop, and that the items
of a PLC consist of its tags, those of a packet all of one file
(`GroupIsPackable`); an item is only read by a PLC with a session and a
connection (`AtItem`). A value read over the connection of the PLC is then that
of the element at the distance of the tag from the first one, what a conversion
of it left that failed, or, at a gateway where a call has taken a late reply to
another (`mixed`, which grows only), anything.

**Assumptions.** `None` is not a number or a reply (`MailAssumption`,
`Df1NoReply`, `HistoAssumption`, `ABAssumption`), and the inequalities above;
each is named in its module and evaluated by the runs, and what the inequalities
mean for the code is said under "Bounds". `MdbAssumption` says that the tags
have addresses that `FTable` serves and that each is a row of its own, as the
key of DEFINITION makes it. `IdsAreFree` is of a behaviour, not of the
constants: no transaction id (of 65536) is used again while the device has not
answered the request that had it. `Sizes` is that the addresses of a device fit
a word, which the protocol gives it, and that a packet of 50 addresses and an
element of 4 bytes fits the 125 registers of a request. In the run `mdb` it
holds. `ABAssumption` says what kind of rows the database may have and that
there is memory for a session of each PLC.

**Tags.** For every device, command, transport and reply:

| Theorem | Says |
|---|---|
| `TagReadsAreMeant` | `ReadsAreMeant` |
| `TagWritesAreMeant` | `WritesAreMeant` |
| `TagInvariant` | `TagInv`, from which both follow |
| `PathLeadsBack`, `LevelsAre`, `DecodedIs` | a path, the levels of an address and the description of a type are decoded to what was coded |

The work is in the lemmas about the codings, one for each of the clients and
directions: `PlcReadMeans`, `PlcWriteIs`, `Df1ReadMeans`, `Df1WriteIs`,
`LgxReadMeans`, `LgxWriteMeans`, `ModbusReadMeans`, `ModbusWriteIs`,
`ModbusMaskIs`. They say of one call, whatever reply it gets, that it gives
nothing or the value of the cell the address stands for, and that it leaves the
table as it was or changes the cells that are meant to the value. For a PLC-5
or SLC this is that the device gets back from the bytes of an address the levels
that were put there (`LevelsAre`, for numbers of one byte and of three), that
the description of a type is decoded to this type in its short and its long
form (`DecodedShort`, `DecodedLong`), and that the sign, the mask and the bytes
of a word are those of the number (`Binary`: a word is the sum of its bits). For
a Logix, `PathLeadsBack`: the path of a tag is decoded to the names and indices
it was made from. For Modbus, `AreaIs`: of the six rows of `FTable` the one
that serves an address has its kind of cell and its offset, and `RequestIs`,
`RequestWordsAre`: the request is for the words of the element, low word
first, and not cut by the limits of the protocol. What `Plain` and `Writable`
except is where these lemmas are false, see the departures.

`TagInv` then only needs what the steps of a command know of each other. What is
left of the calls is one of seven sequences (`S1` to `S7`), and tells whether
the write has been tried (`Undone`): before it the table is still as it was when
the command began, after it the write has been done, or has not and is refused
or ends the command with an error (`NotDone`). Between the two reads of
`readtag` the type of the first is kept: a PLC is only written with an integer
or a float, which is why the cell that is written is of that type and the table
keeps to what its files may hold (`FilesHeld`, `TagsHeld`) for the next read.
The response of a Logix must not be that of an earlier read when the second one
gives an array of bits, so `LgxInv` says that a tag that has been printed is
none.

`TagAssumption` is what both theorems rest on: cells hold what their files and
types allow, an address has the letter of its file, a bit is one of sixteen, a
Modbus address is one of its four areas, no more is asked than fits a request,
and values written over Modbus are of 32 bits. Files and elements have numbers
of two bytes; the cells, tags, names, values and commands are otherwise any.

Recursive definitions: a recursive function over numbers (`Chained`, `Btag`,
`Closing`) is one only if a function with its equation exists, and what it
computes has to be shown for every number. Both are proved from the least number
for which they would fail (`LeastExists`, `ChainExists`, `Walked`, `WalkExists`,
`ClosingExists`, `ClosedUp`), for the prover cannot use the library's induction
theorems.

Only model-checked: that a walk and a sort end (the other half of `TrieSorts`),
and the other liveness properties, which the prover does not reach. Every
invariant of a run is a theorem.

## 5. Not modelled, and why

- Command lines, configuration and log files, JSON and reply texts: no state.
- What a freed block contains: any use sets `corrupt`, and the process may
  crash; the values read from it are not modelled.
- `recv` that returns 0: in `TuxAB` the call fails with garbage or the process
  dies, in `PlcLinks` it is a cause of `Crash`, in `EipLink` it is silence.
  Parts of a header or of a reply are not modelled, nor the 512 bytes at which
  `_CIPEmptyBuffer` cuts one.
- Failing `malloc`: logged, and the code goes on with less.
- Bytes of a DF1 frame, DLE stuffing and the CRC itself: a frame is whole,
  damaged or cut.
- Members of a structure read as a whole, several elements in one call (the
  packets of `TuxAB` and `TuxMdb` have them), the alias file of `readtag` and
  its search by prefix.
- `_ListIdentity`, the server side of `MBCommon.c`, exception texts: no caller
  in the programs, or tables.
- `CleanHisto`: deletes old rows that nothing here reads.
- `List.c` (an older list with the same interface), `Misc.c`, `MySQL.c`: thin;
  `iniparser`, `cJSON` and the `libmodbus` copy: third-party; `qtEip`, Java, PHP
  and C#: wrappers and viewers.

## 6. Plan

1. `EipLink` with replies cut by `_CIPEmptyBuffer` and parts of a header.
2. Two programs at the same device: the loggers and the daemons on one gateway,
   which shares its connections between them.
