# The bat3 daemon and utilities in TLA+

This directory holds TLA+ models of the programs in this repository, the TLC
configurations that check them on small instances, and proofs that TLAPS
checks. Paths below are relative to the repository's root: `src/` holds the
daemon, `avr/` and `lib/` the older utilities and what they share.

## The system

A TS-BAT3 is a battery board with an AVR micro-controller. It sends its state
(two voltages, the battery current, ten switches, a PWM low time and period,
one byte of its EEPROM) over a serial line now and then, and takes requests of
the same form. The daemon `bat3` closes a control loop around it: it takes a
sample, decides what the charger should do, writes a request that echoes the
rest of the sample, and waits for the next sample. Between two rounds it serves
clients on a TCP port, who look at the state and give orders. The utilities
under `avr/` talk to the same board by themselves.

| component | state | operations | hard behaviour | right when |
|---|---|---|---|---|
| message formats (`src/convert.c`, `src/tsbat3.h`) | none | `decodemsg`, `encodemsg` | ten bits, some active-low, inverted in one direction or both | what is read and written back is the same |
| loading decisions (`src/bat3func.c`; `setCurrent`, `setHours` of `src/bat3.c`) | the target current, the stop time, the weights of the voltage, `alarm`, `stable_time` | `doload` and what it calls, the two orders | long sequences of rounds, orders and battery runs; 16-bit words; times compared with one another | a rest is earned, ends, and comes once per charge; words stay words |
| EEPROM dialogue (`doread`, `dowrite`) | `romstate`, and fields of the sample, which it overwrites in place | one step per round | replies older than the request, lost requests, failed rounds, accesses that are not ready yet or broken off | "done" means done, and it is reached |
| daemon loop (`main`, `runArgument`, `doRound`, `getsample`) | the sample, retry counters, the round counter | sample, round, clients, and so on | two retry loops inside each other; results of rounds that nobody looks at; orders between rounds | requests keep coming; every decision is based on one sample |
| serial framing (`src/stream.c`) | the reader's state, buffer and last escape, new in every call | `writeStream`, `readStream` | lost bytes, time-outs inside a frame, checksums that look like marks | nothing is invented; harm stays local |
| client port (`src/mysocket.c`) | `sockfd`, `sfd_connect`, and the descriptors of the process | open, select, accept, read and answer, close | connections that end in many ways, several lines in one read, full tables | the table is exact; nobody starves |
| logging, terminal (`src/log.c`, `src/term.c`, `lib/term.c`) | a log level, saved terminal settings | print, set, restore | none | - |
| AVR driver (`avr/avr.c`) | the request under way, a count of replies | re-send until a callback accepts a reply | which reply answers what | what the callback accepts has happened |
| packet reader of the utilities (`lib/file.c`, `lib/serial.c`) | the packet so far; stdio's buffer | `filePacketGet`, `fileFlushInput`, `serialFrame` | lost bytes, time-outs inside a packet, two levels of buffering, a buffer whose size it does not know | as the serial framing, within the buffer |
| `bat3` utility (`avr/bat3.c`) | one request; when charging the search, the duty cycle, the samples of a second and one subscriber | options, EEPROM dialogues, charging, UDP commands, log packets | a loop over a board that changes; acknowledgements that are older than the request; a subscriber that is displaced | the search ends in its bounds; a byte read is the byte asked for; a packet is about one second |
| UPS monitor (`avr/ups-monitor.c`) | one request | set softJP3, once | shares the board with the others | softJP3 is set, and nothing else |
| save utility (`avr/bat3save.c`, `lib/net.c`) | how long it has heard nothing | subscribe, receive, append to a file | lost datagrams, a server that is started again, another saver | it goes on receiving |
| dump, draw (`avr/bat3dump.c`, `avr/draw.c`) | files and pictures | sequential | none | - |
| process helpers (`lib/Process.c`) | none | wrappers | none | - |

The daemon is one thread. What runs beside it is the board, the line, the
clock and the clients, and these are where the interleavings come from.

## The modules

```
Convert <- Bat3Func <- Loader <- Loading          (the decisions)
               ^         ^
               |         | INSTANCE (refinement)
               +------ Daemon                     (rounds, board, line)
Stream                                            (bytes of a packet)
MySocket                                          (descriptors and clients)
AvrLink <- Charge                                 (bat3 --charge; uses Convert)
AvrLink <- Utility                                (other options, UPS monitor)
Channel <- PacketGet                              (bytes of the utilities' packets; refinement)
Info                                              (log packets and savers)
```

The modules whose name begins with `MC` give the constants small values; the modules whose name ends in `Proofs` hold the theorems. An operator
that begins a definition's name and goes on in lower case after an underscore
(`calc_load_uncapped`) is a faulty variant, marked `Faulty:`; nothing uses it.
Each shows a mistake that the property it is meant for detects.

**Convert** is `decodemsg` and `encodemsg`: a reply of the board as a record of
bits and words, the daemon's picture of it (`struct bat3`) as a record of
switches and words, field by field as the code has it, inverted or not. The
voltages and the temperature, which no decision reads, are left out.

**Bat3Func** is `src/bat3func.c` as operators on a sample and a target, plus the
orders `setCurrent` and `setHours`. `doload` yields the state to be requested
and the target left behind, branch by branch. The weights of the voltage are
floats of which the program asks one thing only, whether the last two differ by
less than 1; `steady` is the answer, chosen freely when a weight is recorded.

**Loader** is the charger as an open system: any sample may come, any order,
the clock ticks, and a round decides. It is the abstract specification of the
daemon. **Loading** adds history variables (the branch taken, when the weights
became steady, when an order came, how long a rest has lasted, whether one has
expired) and states when the charger may rest.

**Daemon** is the program: `pc` says where `runArgument` is (opening the board,
at `select`, in a round, reading replies, at the clients' port, at the end). One
action per step: `OpenGood`/`OpenBad` are `getsample` before the loop,
`StartRound` is `doread` and `dowrite`, which change the sample in place,
`WriteRequest` is the LED, `doload` and `writeStream`, `ReadGood`/`ReadBad` are
one poll of `getsample` within `doRound`'s retries, with both counters, `Order`,
`LeaveSocket` and `Exit` are what clients do. The board (`BoardTakes`,
`BoardReports`, `BoardMeasures`) and the line (`LoseRequest`, `GarbleReply`,
silence in `SilentRead`) are external, modelled from how the code uses them.

An access to the EEPROM takes time. The board shows the bits, the address and the
data of the request at once, with `ee_ready` off; when the access is done
(`BoardIsReady`, which may never happen) it raises `ee_ready`, a write is in the
memory, and a read has replaced the data. This is what `avr/bat3.c:84` waits for,
and as in Utility. The daemon does not: `doread` and `dowrite` go by the address and
the echoed bit alone, so their own next request may find the access under way. What
the board then does is written nowhere, and the constant `BreaksOff` has both
answers: it takes the request and breaks the access off, or it leaves the request
where it is until it is ready. `report` is what `-r` logs with the third sample,
whatever the dialogue has come to and whether the rounds failed
(`src/bat3.c:317`), and whether the daemon has been told it (`Told`: the reply to
its request is in the sample, and no read is going on in it).
`report` and these are history variables: `reads`; `failed`, a round has failed
altogether; `broken`, an access was broken off; `hasty`, the dialogue has gone on
from a picture of a read that was not ready.

**Stream** is one level down: `writeStream`'s frame byte by byte, `readStream`
one received byte per action, a loss or a time-out anywhere, `below` the byte
that happens to lie before the caller's buffer, which the code reads for the
first byte of a frame. The board's own frames differ in that the checksum is
not escaped; that is what the work-around in `readStream` is for.

**MySocket** is the port: a table of what each file descriptor of the process
stands for, `sfd_connect`, the result of `select`, and the connections as the
clients see them. What the orders `current` and `hours` do is `Order` in
Daemon; here an order is read, or ends a connection or the program. When several
lines arrive in one read the first is the order and the rest is lost.

**AvrLink** is the driver of the utilities, `AVRreplyGet` and `AVRsendRequest`,
as parts of actions over two bounded queues: `Submit`, `Accept`, `Reject` with
its re-sending after every second reply, `GivesUp`, `Unanswered`. The modules
that extend it add what a request is, what satisfies a callback, the board, and
their own program counter.

**Charge** is `--charge` of the older `bat3` utility. One turn of
`BAT3BatteryCharge` is `UDPcommandCheck`, `Sample` (everything from the reply to
the request, with no wait in between: the duty cycle, the count down to the
shutdown, the search or the following of the current) and `AVRsendRequest`,
reply by reply. The binary search is the code's, with the bounds taken from what
the board reports. `battSeconds` and `halted` are history variables.

**Utility** is the rest of what a single program asks of the board: `_AVRrun`
with the options of `BAT3processOptions`, in any order and number up to a bound,
the two dialogues with the EEPROM, and the UPS monitor; one program after the
other, on the same board, with whatever the one before has left there. Of the
options that set a switch it has `--pwm1`, for all of them have the same form.
The board is external; what the module assumes of it is what the code relies
on: it reports the bits of its last request until it gets another (`dowrite` of
`src/bat3func.c` and `req.ee_read = 0; // required to return replies to send ADC
data` in `avr/bat3.c` say so), and raises `ee_ready` when an access is done. An
access may take for ever. A program starts when the one before has ended and its
output has drained; what the board says while no program has the port open is not
kept. `ledger` and `ordered` are what the acknowledged orders amount to, `taken`
says whether the present request has arrived, `marked` whether it changes the
LED, `stray` whether a write went out that nobody ordered, or while an older
access to the same address was on the line or in the board (`InTheWay`), whose end
the program cannot tell from that of its own.

**PacketGet** is the reader under AvrLink, byte by byte, with the framing of
`lib/serial.c`. It reads differently from Stream: a start inside of a packet
ends it, an escaped byte is never looked at, the size is not known. `select` is
asked about the descriptor and `fgetc` reads from stdio, so that there are two
places where bytes wait (`wire`, `stdio`). A silence ends the program; the next
one begins with an empty buffer, maybe in the middle of a packet.
**Channel** is the abstract specification: what comes out was sent, once, and
in order.

**Info** is what a charging `bat3` tells the world: the commands that start and
stop the log, the samples of a second and their mean, the packet at the end of
it, and the savers that subscribe. The timer that the same function counts down
is in Charge. `smoothAverage` is the code's, with its search that starts from 0.
A sample is one number, which stands for the voltage, the current and the
temperature (smoothed) as for the low time (averaged); the second that a sample
was taken in is a history in it.

## The runs

A run marked *violation* states what a comment, a message or the usage text of
the program says, and shows a behaviour of the code that contradicts it.

| run | what it shows |
|---|---|
| `loading` | A rest is earned (`PauseEarned`), lasts less than a day (`PauseEnds`) and comes once per charge (`OneRestPerCharge`), whatever the order of rounds, orders, battery runs and loading by the hour. `TypeOK` includes that no regulation step leaves 16 bits, with a sample whose words are at their limit. |
| `daemon_write` | Writing an EEPROM byte with up to six faults, to a board that takes its time and breaks off an access for the next request. If no round has failed altogether and no access was broken off, "done" means that the byte is in the EEPROM (`EepromWrittenIfHeard`), in spite of old replies and lost requests. The dialogue ends (`EepromDone`). Between two requests there is a bounded number of polls (`RequestsKeepComing`). |
| `daemon_loader` | The daemon implements Loader (`ImplementsLoader`). It reads an EEPROM byte meanwhile: what it has been told of it, in its sample or in what it logs with the third sample, is what the EEPROM holds, over replies older than the request, a failed round and accesses broken off, unless the dialogue has gone on before the read was ready (`EepromReadBackIfReady`). |
| `stream` | With one lost byte and one pause, only what was sent is accepted, in order and once (`OnlyWhatWasSent`), and each costs two frames at most (`HarmIsLocal`); without either all frames are accepted. |
| `socket` | The table of clients and the descriptors agree (`TableIsExact`); no client is refused while there is room, unless opening the port has failed before; a client that left is forgotten (`LeftIsForgotten`); connections and orders are served (`NobodyStarves`). |
| `charge` | Whatever the board reports and measures, the low time asked for stays within the period (`LowTimeWithinPeriod`), which needs the driver: a sample older than the last request would break it. When charging is continuous the search ends (`SearchEnds`), though pauses and commands may leave its bounds crossed; nothing is claimed of a duty cycle, whose time on may be too short. The shutdown is run when the power has been seen missing for more than the seconds asked for and never earlier (`ShutdownInTime`). In the off part of the duty cycle nothing is charged (`OffMeansOff`). |
| `utility` | After acknowledged orders the EEPROM and the switches are what the orders have made them (`EepromAsOrderedIfClean`, `SwitchesAsOrdered`), and what `--eer` prints is what is there (`ReadIsTrue`), with old replies, a lost request or a silence, unless a write was repeated by accident or an older access to the same address was still on its way or going on. `--sleep` is acknowledged by the LED alone: when that changes, the request has arrived (`BlinkProvesReceipt`). Every program ends, also if the EEPROM never gets ready (`EveryProgramEnds`). |
| `packet` | With one lost byte and one silence or flush, the packets of full size that are handed out implement `Channel` (`ImplementsChannel`), and a packet that was hit costs itself and the next at most (`HarmIsLocal`). While no byte is lost what is put together stays within the room of one packet that the callers give, and each lost byte adds no more than another (`StaysInRoom`). |
| `info` | Every saver goes on receiving, although there is one subscription and they take it from each other, and it is gone after a restart (`EverySaverIsServed`). A packet sums up samples of its own second only (`InfoOfOneSecond`), there is at most one a second (`AtMostOneHertz`), and the smoothed value lies between the smallest and the largest sample (`SmoothWithin`); the last is checked for longer sequences by an assumption of `MCInfo`. |
| `loading_hours` | violation: `hours` starts at -1, and `doload` takes everything but 0 for an order, so the daemon loads by the hour, with the time already reached, until somebody orders a negative number of hours. |
| `daemon_lost` | violation: `dowrite` writes its request into the sample; if the round then fails, the next `dowrite` takes that for the board's answer, and reports a byte as written that never was. |
| `eeprom_echo` | violation: the driver's rule is that a request echoes "the AVR state that we don't want to change". `--eew` leaves `ee_write` set. The next program that sends a request echoes that bit, but not the address and the data, which it leaves uninitialised: another byte of the EEPROM is overwritten. |

### Bounds, and why they are enough

*Loading.* `MaxTime` = 8 ticks with `StableSecs` = 1 and `DaySecs` = 3: a whole
stable period, a rest, its end and a second stable period fit. `MAXMIN` = 3 is
the smallest list of weights in which the shift at the end differs from an
append. The samples are loading, resting, on batteries, and every word 65535.
The real values (900 s, 86400 s, a list of 120) differ in scale; the proofs are
for all values.

*Daemon.* `MAX_RETRIES` is 2 instead of 5, so that a round fails after six faults,
or 1 in `daemon_loader`, where two are enough; `MaxFaults` is six and two, and
seven in `daemon_lost`. Two packets in either direction make replies one and two
rounds old; `daemon_loader` has one in either direction, so that there is room for
the clock to go on. `CountCap` stands for the 10000 at which the round counter stops.
`daemon_loader` has a limited number of rounds, the others do not; four rounds
are enough for the dialogue to end after a stale reply, and with the third that
the program logs both before the end of the dialogue and after it. The board
breaks accesses off (`BreaksOff`) in the two runs that pass, and waits in
`daemon_lost`, whose counterexample is a failed round.

*Stream.* Packets have two bytes, the buffer five. The bytes are chosen to be
escaped, to look like an escaped one, and to give checksums that are ESC, ETX
and 0x11. A checksum equal to STX is left out: the board sends it bare, and the
reader cannot but take it for a start. Three frames show that harm does not go
beyond the frame after the one that was hit. The byte below the buffer is 0:
see "Not modelled, or known to fail". Two lost bytes in one frame may leave a
frame whose 8-bit checksum agrees by chance, so `OnlyWhatWasSent` is about one.

*MySocket.* Two clients, two connections each and one order under way at a
time; a table of four descriptors of which one is taken at the start and one by
the port, and five that the process may have, so that both "does not fit in the
table" and "there is none" occur.

*Charge.* A period of 3 instead of 500 leaves two steps of the search; the board
starts with a low time of 9, far beyond it. One packet in either direction, one
fault, one command, cycles of one or two seconds and a shutdown after one. The
callback sees three replies instead of five. A measurement is too much, too
little, or "on batteries"; it is chosen with each report, since nobody sees it
otherwise.

*Utility.* Two programs with two options each: the second meets what the first
has left, and the second option what the first option has. One packet in either
direction (with two the safety properties hold as well, on 2.9 million states),
three replies instead of five, one fault, two addresses and two values. What is
on the stack is one value and either address.

*PacketGet.* Packets of two bytes: one with a 0, one that is escaped throughout,
and two whose checksums are an escape and an end. Three frames, one lost byte,
one silence or flush. One lost byte is enough for a packet to grow beyond the room.

*Info.* Two savers, three samples kept instead of 32, two faults. Seconds are
kept modulo 2: a server that runs takes a sample in every second (a quarter of a
second without a reply ends it), so that only a second and the one before are
ever compared. The values are 0, from where the search for extremes starts, and
-1; the assumption in `MCInfo` adds others.

Stream and MySocket do not check for deadlock: Stream sends a finite number of
frames, MySocket's clients come a finite number of times, and the exit command
ends the program. Daemon's end is the explicit step `Stopped`.

### Fairness

`Daemon!FairSpec` is weak fairness of the daemon's own steps, of the board
taking what reaches it and of the board reporting. The daemon is a process that
only ever waits in a `select` with a time-out. That the board reports is its
documented behaviour ("Periodically the AVR sends out its current state",
`avr/avr.c`). Faults are bounded, orders and the clock are free.

`MySocket!FairSpec` is weak fairness of `processMySocket`'s steps, which
`runArgument` calls in every turn of its loop and none of which blocks (`select`
with zero time-out, `MSG_DONTWAIT`), and of TCP reporting to a sender that its
peer has gone.

`Charge!FairSpec` and `Utility!FairSpec` are like Daemon's. The clock is free in
Charge: no property needs time to pass. In Utility the user need not start or
order anything, and an access to the EEPROM need not end.

`Info!FairSpec` is weak fairness of the loops of both programs, of the delivery
of a datagram that is not lost, of time, and of a server that has ended being
started again; the number of losses and ends is bounded. A second is long
compared with a datagram's way, and a saver subscribes within the second in
which its patience is over.

## What is proved

The safety properties that the runs check are theorems: they hold for every value
of the constants that the named assumptions allow, and by arguments that do not
depend on the bounds of the runs. Some have a condition beyond these, which is a
hypothesis of their theorem: the two EEPROM dialogues of the daemon need a board
that is at rest at first, and Stream's `OnlyWhatWasSent`, and `ImplementsChannel`, hold
for as long as no byte has been lost. Each is proved from the type invariant and an inductive invariant that
says why the property holds; the property alone is almost never inductive.

*The decisions and the daemon.*

* `DaemonProofs!EchoInverts`: a request that echoes a reply repeats every field
  of it except `_buckEn`, which it inverts.
* `LoadingProofs!Typing`: all words stay words and the target stays in range.
  The argument is `CalcLoadTypes`: the cap by the reported
  period comes last and is itself a word, and the step before it cannot go
  below the floor, which is not negative.
* `LoadingProofs!Resting`, with `Ending` and `Once`: `PauseEarned`, `PauseEnds` and
  `OneRestPerCharge`. The three are not inductive: the program remembers a stable
  period only in `stable_time`. `RestInv` says that a `stable_time` that is set lies
  in a period in which all rounds found the weights steady, after the last change
  of the current; that it is set whenever the daemon rests; and that after a rest
  has expired it stays where it was, a day or more ago. `AdaptiveRound` is the
  lemma about the one branch that moves it.
* `DaemonProofs!Typing` and `Polling`, together by induction. `Polling` needs
  `Counting`: outside the opening and the reading of a round both counters are
  0, and within it `reads` is the number that the two counters stand for.
* `DaemonProofs!Implements`: every behaviour of the daemon is one of Loader,
  under the identity on the variables the two share. `WriteRequest` maps to a
  round, `Order` to an order, `OpenGood`, `StartRound` and `ReadGood` to the
  arrival of a sample (or a stutter), `Tick` to a tick, everything else to a
  stutter.
* `DaemonProofs!Resting`: the three properties of `LoadingProofs!Resting` hold of the
  daemon, with the history variables of Loading recorded beside it (`RecordedSpec`).
  The recorder only says for each step of the daemon what the history becomes. `RecordedStep` shows
  that with it each step of the daemon is a step of Loading (`SameOperators` and
  `Premises`: the same operators, the same assumptions), and what is known of
  Loading, from samples that come in any order, is cited.
* `DaemonProofs!WrittenIfHeard` (`EepromWrittenIfHeard`) and `ReadBackIfReady`
  (`EepromReadBackIfReady`): the two EEPROM dialogues, for queues of any length, any
  number of faults, and a board that breaks accesses off or does not.
  `WriteInv` says that every packet under way that says "write" carries the byte;
  that, while the byte is not written and nothing was broken off, a reply that says
  "write" is followed by others of the kind, and the board says so too and is not
  ready (`Unwritten`); and that, if no round has failed either, the dialogue has left
  WRITE only when all replies do (`AllShow`), so that it cannot see the end of the
  write before there is one. `ReadInv` says that no packet says "write", and that the
  board is ready only with the byte (`OnlyReads`). As long as the dialogue has not been hasty,
  every request asks for the byte or repeats it, and an answer, which tells the byte or
  is of a read, is followed by nothing that is none (`InOrder`); the dialogue leaves
  WRITE when only answers are to come, and what was logged with `told` is the byte
  (`Heard`). Both assume `IdleBoards`, that the board is not at work on its
  EEPROM when the daemon starts. Without it the first is false: a board that
  shows another program's write to the same address is taken for one that has
  answered, and `-w` ends without having written.

*The serial line.*

* `StreamProofs!Typing`: whatever is sent, lost or in memory below the buffer, what
  is read stays in the buffer.
* `StreamProofs!Truth` and `Pauses`: as long as no byte has been lost, `OnlyWhatWasSent`
  holds, for packets of any size and number and for any pauses, and a pause costs the
  frame that it hits and no other (`AllButDamaged`).
  `FrameShape` says what a frame of any packet looks like: where each byte of the
  packet begins, and that a mark in it is an escape's first byte, or the board's
  own checksum, which is not escaped. `Synced` then says where the reader is: which
  frame, how many bytes of all that was ever sent have been read, that the buffer
  holds the packet up to there with an escape opened or not, and that each frame
  before it was accepted or hit by a pause. The theorems assume `Orderly`: the
  packets have their size, no checksum of the board is STX and ESC is not what
  lies below the buffer. Without any one of them `Pauses` and `Harm` are false: a packet of
  another size is never accepted, a checksum of STX that is not escaped starts the
  frame anew, and after ESC the first byte of every frame is missing. A pause may come between the last byte of
  a packet and the mark that ends its frame: `readStream` then has a packet that it
  accepts, although its time has run out, and the mark is skipped by the next
  call. `SyncedPause` covers this, and the checksum that happens to be ESC.
* `StreamProofs!Harm` (`HarmIsLocal`), for any number of lost bytes and of pauses. What a
  frame that was hit does to the next one is that an escape in it may be taken for a
  byte, since a start leaves the position of the last escape as it was. `LooseByte`
  says that in a frame that nothing hit the reader is then too far in the packet, but
  never behind, so that the mark at its end is not taken for a checksum and ends the
  frame; the frame after that is read as it was sent. `LossInv` numbers the places of
  all bytes that were ever sent: `Left` says which of them are still on the line, and
  that the gaps between them lie in frames that were hit, `Sound` where the reader is in
  the frame that it is in, and `Paid` that each frame that was read, and that neither it
  nor its predecessor was hit, was accepted. `TwiceEach` counts the others.
* `PacketGetProofs!Harm` (`HarmIsLocal`), for packets and frames of any size and number
  and whatever is lost, thrown away or cannot be understood. It goes by way of a
  *text*: all bytes that were ever sent, with the frame and the place in it of each,
  and what the packet is once they have been decoded. Nothing in the state holds the
  text; `Track` says that there is one, of which the bytes on the line and in stdio are
  the end, but for those that are gone, and each step has a lemma that says how it
  moves on (`Sends`, `Loses`, `Waits`, `Reads`, `Throws`). `Framed` gives the two
  shapes of a frame, one that the reader understands (`Clear`) and one whose checksum
  looks like a mark (`Murky`). `Local` says where the reader is: between two frames with
  an empty buffer, or in step with the frame that it is in, or astray in one whose
  predecessor was hit. `Served` says that a frame that was read, and that neither it nor
  its predecessor was hit, has been handed out. `HarmEnd` then counts: each frame that
  is missing was hit or follows one that was.
* `PacketGetProofs!Typing` (`TypeOK`) and `Fitting` (`StaysInRoom`): what is put
  together is at most one packet with its checksum, and one more for each byte that
  has been lost. `filePacketGet` does not count what it appends, so its length is a
  matter of what frames can be joined to. `Bounded` says that a packet longer than
  what its frame holds has a set of lost bytes behind it, one for each frame that it
  has run over. The bound is sharp: with one byte less TLC finds a packet of two
  bytes that has grown to six after one loss, by a start that was taken for an
  escaped byte.
* `PacketGetProofs!Implements` (`ImplementsChannel`): on a line that loses nothing the
  reader implements Channel, whatever silences and flushes there are. `Exact`
  sharpens `Local`: a reader that begins in the middle of a frame takes nothing of it
  until the next start, which may be a checksum that looks like one; the end follows it
  at once. `Sorted` says that what was handed out comes from frames before those that
  are still to be read, from which the order follows.

*The client port.*

* `MySocketProofs!Typing`, `Table` (`TableIsExact`) and `Room`
  (`RefusedOnlyWhenFullOnceOpened`). `TableInv` adds to the property that no client
  has two descriptors, without which closing one would leave a stale one behind.
  `RoomInv` says where the descriptors are: they are given out from below, so the
  port has the first that was free, or a descriptor that was left behind by a
  failed attempt has.

*The utilities.*

* `LinkTypes` is a lemma about AvrLink that both of the programs below need, and each
  of their modules has it: what each part of the driver leaves on the line,
  whatever a request and a reply are.
* `ChargeProofs!LowTime` (`LowTimeWithinPeriod`). The search trusts what the board
  reports, so `LowInv` has to follow the value around the loop: every request under
  way is within the period; once a reply is, all later ones are, and the board is;
  and when a sample is taken with a bound that was set by the search, all that can
  be read already is. `Shutdown` (`ShutdownInTime`): the count down and the seconds
  without power add up. `OffPart` (`OffMeansOff`) and `Typing`.
* `UtilityProofs!Switching` (`SwitchesAsOrdered`): while no option's request is under
  way everything on the line and the board shows what was ordered last; while one
  is, the replies come in two parts, as above (`SwitchInv`, and `MonitorInv` for
  softJP3).
* `UtilityProofs!Blinking` (`BlinkProvesReceipt`): a program starts with an empty
  line (`FreshInv`), so until its request has arrived nothing can show the LED as it
  wants it (`BlinkInv`).
* `UtilityProofs!Ledger` (`EepromAsOrderedIfClean`) and `Reading` (`ReadIsTrue`), by
  `EepromInv`: what a reply tells of an address is true of the memory; while a write
  is being answered for, either the byte is there, or nothing shows an access to its
  address yet; any other write under way is one that changes nothing any more.
* `InfoProofs!Typing`, `Logging` (`InfoOfOneSecond`) and `Hertz` (`AtMostOneHertz`), for
  any number of savers, samples and faults. `IInv` says that the samples kept are of
  the second `last_t`, and that once a packet was sent either `last_t` is up to date
  or nothing has been kept since a restart. `Typing` includes that there are never
  more samples than there is room for.
* `InfoProofs!Smoothing` (`SmoothWithin`): the smoothed value lies between the
  smallest and the largest sample, for samples of any number and size, although
  the search for the extremes starts at 0. The value is a quotient of a sum by a
  count, and the sum is a recursive function of the community modules. The lemma
  `AllNumbers` puts induction in a form that the provers can use: a *set* of numbers
  that has 0 and with each number the next one has them all. `TotalAdds` and
  `SumBounds` are what it yields for sums.

The assumptions are ranges, with room for one packet in each queue and for one
retry: `StreamAssumption` (the buffer has room for a packet, its checksum and one
byte more), `Bat3FuncAssumption` (and that a day is longer than the stable period),
`LoaderAssumption`, `DaemonAssumption`, `AvrLinkAssumption`, `ChargeAssumption` (the low
time of the search is a word), `UtilityAssumption` (the board's EEPROM is at rest
before the first program runs), `InfoAssumption`, `MySocketAssumption` (the process
starts with fewer descriptors than the table has room for, and the names of the
clients are not those of the other uses of a descriptor), `PacketGetAssumption`
(packets are bytes, of one size).

Two attempts have changed a model. In PacketGet's `ByteArray_PacketGet` the arms of a
CASE overlapped, where the code has one test after the other; TLA+ does not say
which of them is taken, and TLC takes the first. They are disjoint now.
`EepromAsOrderedIfClean` was first stated with a
narrower condition: that the reply from which `--eew` makes its request shows no
access to the address. The runs with two options agreed, but the invariant could
not be proved, and with three options (two of `--eer` and one of `--eew`, on one
address) TLC finds why: the second `--eer` may be answered by the first access, and
its own request is still under way when the write goes out; the end of that access
is then taken for the end of the write. `stray` now tells of an access to the
address anywhere on the line or in the board (`InTheWay`).

Only model-checked:

* Liveness: `EepromDone`, `LeftIsForgotten`, `NobodyStarves`, `SearchEnds`,
  `EveryProgramEnds`, `EverySaverIsServed`. The provers have no rules for ENABLED, on
  which fairness rests.
* Stream's `OnlyWhatWasSent`, and `ImplementsChannel`, when bytes are lost. These are
  not true for every value of the constants: with enough lost bytes two frames may be
  put together to one with a right 8-bit checksum. The runs lose one byte.

## Not modelled, or known to fail

* `doread` and `dowrite` take the echoed address and bit for the answer and never
  look at `ee_ready` (`src/bat3func.c:289`, `src/bat3func.c:319`), which the
  callbacks of `avr/bat3.c:84` wait for. If the board breaks an access off when the
  next request comes, `-w` may end with nothing written. If `doread` goes on from a
  reply of a read that is not ready, its next request carries the data of that reply,
  and every later reply repeats these. `EepromWrittenIfHeard` and
  `EepromReadBackIfReady` hold but for these cases (`broken`, `hasty`). If instead
  the board let requests wait and an access never ended, the dialogue would not end
  either; `EepromDone` is checked with a board that breaks off.
* With `-r` the value is logged with the third sample, whatever the dialogue has
  come to by then and whether the rounds failed (`src/bat3.c:317`). After a stale
  reply or a lost request it is not yet the byte; nothing is logged when it is.
  `EepromReadBackIfReady` is about what was logged after the daemon had been told.
* `filePacketGet` stores what comes until a mark and does not know the room
  (`lib/file.c:118`, `lib/file.c:138`); the callers give a `BAT3reply`, which is
  room for one packet (`avr/bat3.c:102`, 121, 131, 135, 172). A lost byte may
  join two frames, and the second packet is then stored behind it.
  `StaysInRoom` bounds this, and PacketGet goes on as if nothing else lay there:
  after such a loss what `HarmIsLocal` and `ImplementsChannel` say of the program
  depends on what does.
* "Time on should be long enough to lock or we won't!" (`avr/bat3.c:506`): in the off
  part of a duty cycle the target is 0, and a search that is still going on bisects
  against it and may set `locked`; the next on part resets `locked` but not the
  bounds (`avr/bat3.c:522`), so that it begins from those that the off part left, and
  may lock at once, far from the target, and follow from there step by step. Charge
  has all of this; `SearchEnds` speaks of continuous charging only.
* When doRound's last permitted retry follows `MAX_RETRIES` failed ones and
  succeeds, the sample is thrown away, since the test after the loop looks at the
  count (`src/bat3.c:402`). Daemon models this (`ReadGood`); no run is spent on it.
* With 7D in memory below the buffer of `getsample` the first byte of a frame is
  taken for escaped (`src/stream.c:149`). Stream has this (`Below`); the runs take
  0 for that byte.
* The floor of the PWM low time is not kept if the board reports a period below
  it, since the cap comes after the floor (`src/bat3func.c:110`).
* Every request toggles the buck regulator, unless `doload` sets it: theorem
  `EchoInverts`, and `src/convert.c:171` against `src/convert.c:207`.
* `prevstate` and `lastrun` are read before they are set when the loop's first
  turn has nothing to read; they reach the log and the length of one sleep.
* With `--on 0` or a command with no seconds to charge, the timer never enters
  the off part, and after such a command the charge goes on for ever
  (`avr/bat3.c:520`); `OffMeansOff` is about positive numbers.
* With `-r` and `-w` together `doread` and `dowrite` share `romstate` and the
  address, and each overwrites the other's half-made request for ever
  (`src/bat3.c:305`, though `usage()` offers both). Daemon has this (`Dialogue`);
  `EepromDone` is checked for one of the two options.
* `stable_time` survives loading by the hour (`src/bat3func.c:227`), and the first
  adaptive round after it may rest at once; `PauseEarned` counts adaptive rounds.
* `doload` asks for the time in each comparison (`src/bat3func.c:256`); Bat3Func has
  one time in a round.
* An STX resets `pos` but not `lastesc` (`src/stream.c:131`): a whole frame after
  a broken one may be misread. `HarmIsLocal` allows for it.
* A socket that could not be bound stays open (`src/mysocket.c:72`), one more
  every 30 seconds, until the first client is "too much". MySocket has the leak;
  `RefusedOnlyWhenFullOnceOpened` exempts exactly this and does not catch it.
* `filePacketGet` gives up while a whole packet lies in stdio's buffer, if nothing
  more arrives (`lib/file.c:172`). `HarmIsLocal` counts such a packet as hit.
* A packet that lost a byte 0 has a right checksum and is handed to the caller,
  who does not look at its size (`lib/file.c:186`). `ImplementsChannel` is about
  packets of full size.
* `--sleep` is acknowledged by the LED alone (`avr/bat3.c:380`), and so is an option
  that asks for what is so already: when the LED stays as it is, any old reply
  will do. `BlinkProvesReceipt` is about an LED that changes.
* A frame whose unescaped checksum looks like an escape or a mark is never
  understood by the utilities, and costs the next one as well.
* In a log packet the means are of the second it is dated with, but the supply
  voltage, the period and the switches are those of the first sample after it
  (`avr/bat3.c:479`).
* `smoothAverage` leaves out a minimum only if it is negative, never the first
  sample for its own sake, and sometimes one whose index the first sample happens
  to equal (`avr/bat3.c:406`).
* `--log` stores an address that nothing reads (`avr/bat3.c:290`, against the
  usage text); only a command 1 starts the log.
* `netUDPopen` returns -2 when it cannot bind, its callers compare with -1
  (`lib/net.c:27`).
* `accept` without a free descriptor leads to an index of -1
  (`src/mysocket.c:373`); MySocket's limit of descriptors covers the refusal, not
  this write.
* A silence of a quarter of a second, or five replies that do not please, end the
  utilities and with them the charge. Charge and Utility have both ends.
* Two programs on the board at the same time: who gets which byte of a terminal
  that two processes read is not in this code.
* Reordered datagrams; `--pwmlo` and `--pwmt`; the request that `--charge` sends
  before it begins to charge.
* Charge looks at the power once a second: a failure between two looks is not
  seen by the program, nor by `battSeconds`.
* A line of a client that TCP cuts in two, the texts of answers, and the calls
  that set up devices and terminals are left out.

## The plan

Done: all the modules above, with the theorems above. What is left:

1. Two programs at one port, once it is settled what the terminal does.
2. Charge and Info as one program: the duty cycle and the log count the same
   seconds.
3. PacketGet under AvrLink: a packet of the wrong size as a fault of the link.
4. Proofs: what the search of Charge promises of its bounds.
