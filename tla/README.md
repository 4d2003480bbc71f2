# A verification of the RigCTL server for Ermak

The program is a small network server. Amateur radio programs connect to it
and control one transceiver, in one of two text protocols: the `rigctl`
protocol of hamlib on one TCP port, and the CAT protocol of Kenwood on a second
one. This directory models the server in TLA+, checks the models with TLC, and
proves with TLAPS, for every number of clients and every request, all the safety
properties the passing runs check.

The commit this project belongs to does not compile: `cbReqAG0` and `cbReqZZAG`
(commcat.c:550, 559) each lack the `{` behind `if (pStr != NULL)`. They are
modelled with it, as the indentation and the closing braces mean them.

## The system

| part | source | state | operations |
|------|--------|-------|-----------|
| event loop | network.c | `net_fds`, `net_nfds`, `peer`, `compress_array`, `peer_txbuf`, the listening sockets | `net_poll` with `handle_new_connection`, `receive_from_peer` and the compression of the table |
| framing | network.c:61-129 | `peer[i].rxbuf`, `rxpos` | one step per byte |
| hamlib protocol | rigctl.c | a static `msg`, the reply and its RPRT | 27 commands, `rigctl_req` |
| Kenwood protocol | commcat.c | a static `msg` of its own, `parm_ai`, `parm_af`, `parm_pwr` | 23 commands, `commcat_req` |
| transceiver | ermak.c | VFOs, frequencies, split, mode, RIT and XIT, PTT, lock | `ermak_SendRequest` with 11 commands |
| start | config.c, main.c, `net_start_listen` | the options, the ports, the log level | parse, listen |
| end | main.c | - | SIGINT, SIGPIPE, a failing system call |
| log | log.c | level, quiet, a callback for the file of -o | `log_log` |

The server is one thread. `net_poll` waits for events, walks over the slots,
accepts a connection on a listening socket and receives from any other. The
receiver takes every byte there is, one at a time; each byte may complete a
request, which is handled at once by the handler of the port the connection
came in on; the answer goes out by a blocking `send`. A handler talks to the
transceiver by filling in a message and calling `ermak_SendRequest`, which
changes the settings or fills in the message with them. Both protocols share
the transceiver and nothing else.

### What is hard in it

* Clients come, send, leave and break between any two system calls, while the
  loop works from a list of events it collected earlier.
* The slot table is compressed in place, with the framing state in it, and one
  shift reads behind its end when the table is full.
* The answers of all share one thread: a `send` that waits, or a signal, or one
  failing `accept` concerns every client.
* Each protocol keeps one static message, a union that each handler fills in
  only in part; what is left over from earlier requests lies in the rest.
* Two protocols, with four tables between them, change one transceiver, and all
  answers leave through one static buffer.
* The signal handlers log, in the middle of whatever the thread was doing.

`PROJECT.json` lists these hazards one by one, with the lines where they bite
and the properties that would notice.

### What makes each part correct

* **Event loop**: the table agrees with the open sockets; only a full table
  turns clients away; a connection is closed for a reason of its own; whoever
  waits is served; `accept` is never called in vain.
* **Framing**: the requests handled are those of the byte stream, however it is
  cut into wakeups, and each one is answered once, in order.
* **Protocols and transceiver**: a request changes the setting it names and
  nothing else, now or by what it leaves in a message, and a rejected one
  nothing at all; answers show the settings; the modes of one protocol read back
  in the other; no setting takes a value its type does not have; answers fit the
  fields they are printed in.
* **Together**: what is carried out for a client is what it sent; some order of
  the requests of all clients explains every setting; a client gets the answers
  to its own requests, and they are true when they go out; what arrived is
  carried out.
* **Log and signals**: a signal ends the process, unless it falls into a
  function of the C library that its handler needs, too; it costs at most what
  was left of the line it fell into, and the first line of the handler then
  stands behind that fragment.
* **Start**: an accepted command line leaves a table the loop can work with.

## The modules

```
 LineServer <-------+ (refinement)                 Transceiver <---+ (refinement)
    |               |                                  |           |
    v               |                                  v           |
 Framing <---- PollServer <-- MCPollServer    +----> Ermak         |
                    ^                         |        ^           |
                    |                         |   Rigctl, Commcat <-- Station <-- MCStation
                    |                         |                         ^
                SharedRadio --------------------------------------------+
                    ^
                MCSharedRadio                 Startup               Log
```

The proofs lie in modules of their own, each of which extends the module it is
about:

```
 PollServer <-- PollServerProofs <-- AcceptProofs <--+
                                                     |
 Framing <-- FramingProofs <-------------------------+-- SessionProofs <--+
                                                                          |
 Station <-- StationProofs <----------------------------------------------+
                                                                          |
 SharedRadio <----------------------------------------------- SharedRadioProofs

 Log <-- LogProofs      Startup <-- StartupProofs
```

**Framing** holds the rules by which a byte is stored, discarded, or completes
a request, and what becomes of a request (`Outcome`: an answer, silence, a
close, or the end of the process, `strcmp(NULL)`, for a line of which the
delimiters and the `+` of a long answer leave no command, `Wordless`). Bytes are
the classes the code tells apart: `+` and `#` are only special as the first byte
of a line, and `Semi` stands for each of the delimiters of channel 1 and for the
terminator of channel 2; `Alnum` is instantiated
with a few letters, one of which is `q`. `Mute` has, for each protocol, the requests
whose handler has nothing to say.
`RequestsOf` is the reference definition: the requests of a whole stream as its
maximal runs of accepted bytes before a terminator. Like all recursion here it
is a recursive function, not a RECURSIVE operator, so that it can be reasoned
about.

**PollServer** is the event loop. A step of the server is what it does between
two system calls, so that clients (`Connect`, `ClientSend`, `ClientRead`,
`ClientClose`, `ClientReset`) and signals act in every place where the kernel
lets them. `pc` says where the thread is: `poll`, `scan` (the loop over the
slots), `recv` and `send` (inside `receive_from_peer`), `compress`, `exit`;
`idx`, `rx`, `close_conn` are the local variables of the code. `net_fd` and
`peer` have one slot more than the arrays, `Beyond`, for the memory the shift
reads behind them. A descriptor is modelled by the socket it stands for. A
connection whose client is gone can still be written to; that resets it
(`ClientReset`), as does a client that aborts, and `send` on a reset
connection fails, or raises SIGPIPE.

**LineServer** is the abstract specification of the same thing: sessions that
know nothing of slots, events or each other. Each is admitted or refused,
takes bytes, answers the requests in them in order, and leaves.

**Ermak** is the transceiver and the message. A union is modelled by the words
its variants share; `VfoData`, `ModeData`, `TransmittRx`, `KenwoodFT` say what
filling in a variant does to those words. So `m.w1`, which is `rx`, `mode`,
`stackMem`, `vfoRx` and `rit`, carries over from one request to the next
exactly as in the code.

**Rigctl** and **Commcat** have one action per command handler, over the radio,
the message of the protocol, and the last answer. A request is its command and
parameters as the parser hands them over. `ToFloat` is the rounding of
`strtof()`, `Parm8` the narrowing to `uint8_t`.

**Station** instantiates both over one `radio`, with a message for each. Since
a request is handled to its end before the next byte is read, a request is a
step.

**Transceiver** is the abstract specification of a station: settings, no
messages, no protocol state. `ToldByRig` and `ToldByCat` say which knobs a request
turns and to what, `Shown` what an answer must show of the settings, and
`ToldGains` and `ShownGains` the same of the gain, the power and AI, which only
commcat.c keeps. A frequency is told to the 24 bits of a float (`Near`). A digit
that Kenwood has no mode for leaves the radio in no mode, which is shown as UNK
and as 0 (`WordOf`, `DigitOf`). Station implements all this, whatever words of
earlier requests lie in its messages.

**SharedRadio** is the program while it serves: a step of PollServer that
completes a request runs the handler of Station on what the bytes mean
(`Meaning`), in the same step, since the thread does; what the handler says
goes into `peer_txbuf`, the one static buffer, and from there to the client when
`send()` is done. It extends both modules, so that their variables are those of
the program. `journal` and `delivered` are histories. `RigRequests` and `CatRequests` are
what bytes can mean at all. `MeaningAssumption` joins the two ways in which the
models speak of a request: bytes that reach a handler mean a request of its
protocol, and `Mute` has exactly those whose handler is silent, which
`RigIsMute` and `CatIsMute` name. Whether a handler really writes an answer
is not assumed; it is a property (`SendsWhatWasWritten`) and a theorem.

**Log** is `log_log()` under signals. The calls in progress are a stack: the
program first, then each handler that interrupted what lies under it. `at` is
the place in `log_log()`. The time zone of the C library has a lock, which
`localtime()` takes and `strftime()` in the callbacks (`Locked`); the lock of a
FILE lets its own thread in again, so it is not in the model. A line is three
prints (`PrintPart`), and a signal may come between any two. What `sigaction()` is given is not initialized (main.c:34), so that a second signal may
wait, nest, or kill: `sa_flags` is chosen at the start.

**Startup** is the way from the command line to the loop: options in any order,
the narrowing of a port to a short int, the checks, the sockets, and the end of
`net_start_listen()`, which lacks its return statement. What `main` then tests
is undefined; the model has the outcomes of gcc as the Makefile calls it, where
the register holds the result of the last socket call or else the port.

## Checking

All runs set `CHECK_DEADLOCK FALSE`: the program may end, and clients are not
obliged to come. `Spec` has no fairness; safety does not need any. `FairSpec`
adds weak fairness of the server: one thread that the operating system
schedules, and each of whose steps is enabled unless it waits in `poll` or
`send`. `PoliteSpec` adds that clients read what they are sent, without which
`send` waits for ever: that assumption is about the clients, not the program,
and `PollSlowReader` shows what its absence does.

| run | question | bounds | 
|-----|----------|--------|
| PollFraming | are the requests handled those of the stream, each answered once? | one client, either port, every stream of 0-4 bytes over six bytes: a letter, `q`, `#`, `+`, the delimiter, the end of a line, a buffer of 3: a request that fits, one that fills the buffer, one that overflows it |
| PollSessions | does the loop implement independent sessions? | two clients, each on either port, one of which may abort and one of which speaks the protocol of its port; a request of either protocol, any part of which may be left in the buffer; a table that holds both |
| PollFull | who is refused, who is closed? | three clients for two slots, `q`, SIGINT, failing `poll` and `accept` |
| PollLive | is everybody read, accepted, and freed? does the table survive aborts? | two clients, one with two requests and one with one; one of them may abort at any time; SIGPIPE, a kernel that buffers one answer |
| StationRequests | is the station a transceiver? are tables and limits right? | five families of requests: tuning (every way to name a VFO or none, a frequency that no float holds, requests that are rejected), modes, with digits that no mode has, and keying, offsets (steps of 1 and 5, the limit at 8 instead of 9999), gains, and one request of every kind, which brings what each leaves in a message to all the others |
| SharedRadio | do the loop and the handlers, together, still do that for each client? | a hamlib and a CAT client: keying and a question against unkeying, or a question with a silent request behind it, an MD8, next to a client that says nothing; each may leave at any point |
| Log | do signals and the log get along? | two lines, levels of the log from below LOG_INFO to above it (`Levels`), two handlers on top, every output, a signal at every step of a line |
| Startup | does the loop get the table it needs? | ports on both sides of every boundary of the checks and of 16 bits, four options |

Two clients are enough for the loop where a property is about one client and
the others; three fill the table and overflow it. A hole that moves through the
table needs two connections behind the listening sockets, which `PollSessions`
has, with both channels present. The proofs below
cover every number of clients for all the safety properties of the loop.

Each passing property has a mutant in `PROJECT.json`: a plausible slip in the
code (a forgotten count, an index that is stepped too far, a framing state that
stays behind when its socket moves down, an RX that ends only what TX began) that
makes TLC find a violation.

The properties of Station are action properties over `answer`, the request just
handled. No handler reads `answer`, so `StationRequests` identifies states that
differ in it only (VIEW); the property of a step is evaluated on every step TLC
computes, and depends on the new answer alone. A behaviour keeps to one family
of requests (`clients`), since the settings of several only multiply.

`DrivesTransceiver` is `Transceiver!Spec` with the gains of commcat.c as `gains`;
`ServesLines` is `LineServer!Spec` under the mapping at the end of PollServer.

`SharedRadio` has the fairness of `PoliteSpec`: a handler waits for nothing. Its
liveness property excepts what happens once a connection was reset, and the run
has such resets: a client that leaves without reading its answers provokes one
by the next answer. net_poll() then closes its connection with what arrived
behind still unread (network.c:323), and the error can pass to the next owner of
the slot (network.c:242, `PollStaleEvents`). `CarriesOutWhatWasSent` and
`Serializable`, without exception, say what remains: what was carried out is
what was read, nothing is undone, and a client that is gone leaves the radio as
it put it. `Serializable` folds the journal: `RadiosAfter(n)` has the settings that
the first n requests may have left by the words of Transceiver alone, a set,
since set_freq above 2^24 Hz leaves open to which float it rounds (`Near`).
`SendsWhatWasWritten` ties the two abstractions of an answer
together: PollServer knows by the bytes of a request whether it has one
(`Outcome`), a handler of Station whether it wrote one (`Speaks`); in the code
both are the length that the handler returns. An answer of the one without the
other would send what another client was told.

`SignalEnds` has an exception, too, and it is a hazard of the code: with -v given
at least three times the handler's own `log_info` needs the time, and a
signal that fell into `localtime()` or `strftime()` (log.c:55, 74, 134) leaves it
waiting for ever (`Stuck`).
Without -v the handler logs nothing and the signal always ends the process.
The fairness of `Log` is that the thread goes on.

### Where the program and what is said of it part

These runs end in a counterexample; each checks one statement that a comment,
a table or an option text of the repository makes.

| run | the statement | what happens |
|-----|---------------|--------------|
| PollStaleEvents | a slot starts out clean (network.c:268) | an accepted connection inherits `revents` of the slot's former owner and is closed at once |
| PollSlowReader | the sockets are nonblocking (network.c:173) | one client that does not read stops all |
| StationStackMem | a stack memory is 1 to 3 (ermak.h:249) | what the request before left in that word is printed |
| StationSplit | the VFO digits of IF (commcat.c:405) | FT1; FR1; reads as the wrong VFOs |

Other differences were met while modelling. The models do what the code does
there; they need no state space to be seen, so no run is spent on them:

* `q` "close connection" (rigctl.c:1036): requests behind it in the same batch
  are handled (`HandleRequest` goes on after a close).
* get_mode's "Passband" (rigctl.c:632) is the storage of `rx`, 0 (`SaysMode`).
* MD8; stores -1 as the mode (commcat.c:426), and IF then has the digit 0,
  which the table at commcat.c:397-404 does not list.
* set_freq rounds above 2^24 Hz to a float (rigctl.c:479, `ToFloat`), while
  dump_state.h:21 announces steps of 1 Hz.
* A function without a callback gets no answer (rigctl.c:953, 994), where
  rigctl.h:26 has "Function not available".
* set_rit takes any number (rigctl.c:839), the IF answer has four digits for it
  (commcat.c:390); the offsets of `StationRequests` keep to them.
* The commands of rigctl.c:150-154 are one byte above 126 each, which
  network.c:86 does not accept into a request: only their long names work.
* -o FILE is said to be "instead of standard output" (config.c:22); the log goes
  to standard error and to the file.
* A port above 32767 is not served (config.h:8, `Short`), while network.c:25
  allows 65534; one -v leaves the log level as it is (config.c:73-85).

## What is proved

Every theorem holds for all values of the constants that the named assumptions
allow. These are: the classes of bytes are apart, a buffer has room, and what is silent
is neither a close nor a comment (`FramingAssumption`); one or two listening sockets are in the table, which has
room for two, and clients are no listening sockets (`PollAssumption`); bytes that
reach a handler mean a request of its protocol, and `Mute` names those without an
answer (`MeaningAssumption`); what a
parser hands to a handler is a command with the parameters `sscanf()`, `strtok()`
or `atoi()` make, with frequencies below 2^30 (`RequestsAssumption`); bounds of
counters are natural numbers. A hypothesis a theorem needs beyond that stands in
its statement.

### The loop

`PollServerProofs`: for every number of connections, every size of the table, all
streams, with and without aborts, signals and failures,

* `TypesAlways`: `Spec => []TypeOK`
* `SlotTable`: `Spec => []SlotsOK`

Neither is inductive alone. The type of a collected request needs the slot
invariant, since a slot behind the table holds bytes of nobody and must not be
received into; the slot invariant needs the bounds of the indices. Their
conjunction is inductive. The delicate steps are the compression, where the
shift brings the slot behind the arrays into the table and the count excludes
it again (`CloseGap`), and the scan, where a slot may be vacated and a new one
installed behind the slots the scan was started for (`Install`): the invariant
`Gaps` says on which side of `idx` a slot without a socket can be, and
`ListenersFirst` that the listening sockets never move. The proof has one lemma
per action, each split by the parts of `SlotsOK`.

`AcceptProofs` asks who is accepted, refused and closed.

* `AcceptSafe`: `Spec => []AcceptNeverBlocks`. A blocking `accept()` needs a
  connection on its queue when the scan gets to it, not when `poll()` looked.
  The invariant `Waiting` says that the event of a listening socket the scan has
  not passed is still true: only `accept()` takes from that queue, once per
  round, and nothing that happens to a queued client removes it.
* `RefusalIsJustified`: `Spec => RefusesOnlyWhenFull`. Slots vacated in this round
  count as used until the compression. They cannot be the reason for a refusal,
  because the listening sockets come first and nothing is vacated before them.
* `ClosingIsJustified`: `Spec /\ [](\A d \in Conns : ~rst[d]) => ClosesForCause`. The
  invariant `Causes` says for which events and for which value of `close_conn`
  there is a cause. Where connections are reset the statement is false, as
  `PollStaleEvents` shows: the hypothesis is exactly what keeps an error out of
  `net_revents`.

### Framing and sessions

`FramingProofs` is about `RequestsOf`, `Answerable` and the other functions on
sequences: what they yield for a stream that is one byte longer. Those are
inductions over the length of a stream. The induction theorems of the library
take a predicate as a parameter, which the provers cannot instantiate; the
inductions here go by the least number at which a statement about a fixed
function fails (`RecursionExists`, `RecursionUnique`), which is first-order.

`SessionProofs` first sorts the steps of PollServer by what they do to one
connection: it is left alone, moved to another stage, has taken a byte, or was
answered (`SessionStep`). At most one connection is touched by a step; this is
where the slots, their moving and the shared local buffers are dealt with, once.
Upon it rests the invariant `SessionsOK`: nothing is open after the end
(`Ended`), those who are away have no history (`Fresh`), what was handled and
what lies in the buffer is the framing of what was read (`Framed`), and the
replies are the answers due, but for the one in the transmit buffer (`Answered`).

* `FramesWhatWasSent`: `Spec => []FramesRequests`
* `AnswersOnceInOrder`: `Spec => []AnswersAll`
* `ServesSessions`: `Spec => ServesLines`, the refinement of LineServer, with one
  lemma for each kind of step.

### Protocols and transceiver

`StationProofs` goes through every handler of both protocols once (`RigHandled`,
`CatHandled`): the types it leaves, the knobs it turns and the fields it shows,
for any content of the messages. The theorems combine them.

* `StationTypes`: `StationSpec => []StationTypeOK`, which is inductive.
* `StationDrivesTransceiver`: `StationSpec => DrivesTransceiver`, the refinement of
  Transceiver, for every request. `MD8;` makes the mode -1 (commcat.c:426), which
  both protocols then show as no mode (`ModeShown`). That a rejected request
  changes nothing, not even by what it has put into the message, is part of it,
  and so is that a frequency is off by what a float loses and no more.
* `ModesAgree`: `StationSpec => ModesReadBack`, for the digits Kenwood has a mode for
  (`KenwoodDigits`).
* `AnswersEverythingElse`: `StationSpec => OnlyIdleFunctionsAreMute`
* `OffsetAlwaysFits`: `StationSpec => []OffsetFits`, where `LegalOffset` holds of all
  requests. That is an assumption on the clients, not a check of the code, which
  stores any number (rigctl.c:839, 865): the claim is that whoever keeps to the
  limit is never taken over it by RU and RD, in steps of any size. `Offsets` is the inductive invariant; it has the offset of XIT, too, since
  both lie in the messages.

### The program while it serves

`SharedRadioProofs` puts the two halves together. Its theorems are about
`SharedSpec`, for any number of clients on both ports, and rest on those above.

* `LoopIsServer`: `SharedSpec => Spec`, so the theorems about the loop hold of it.
* `LoopDrivesStation`: `SharedSpec => StationSpec`, so those about Station do. A
  request that reaches a handler is a nonempty line shorter than the buffer
  (`CompletingIs`), and such a line means a request of its protocol.
* `ProgramDrivesTransceiver`: `SharedSpec => DrivesTransceiver`. The program with
  its clients, slots and messages implements the transceiver without any. It
  says nothing of the bytes that mean a request, which `MeaningAssumption` takes
  as given, and nothing of what follows the end of the process.
* `RequestsAreCarriedOut`: `SharedSpec => []CarriesOutWhatWasSent`. The journal of
  a client is the meaning of the requests handled for it (`Carried`), and these
  are those of its stream by `FramesWhatWasSent`.
* `NothingOldIsSent`: `SharedSpec => SendsWhatWasWritten`. `RigSpeaks` and `CatSpeaks`
  go through all handlers: each writes an answer or a report in every state of
  the radio and of the messages, except for the requests named in `RigIsMute`
  and `CatIsMute`, which never do. `OutcomeIs` says the same of the loop.
* `AnswersReachTheirClients`: `SharedSpec => []OwnAnswers`. The invariant
  `Delivery` says what every client has been sent while `peer_txbuf` holds an
  answer of somebody: by `SessionStep` only the one `receive_from_peer()` works
  for is owed it. That nobody is sent what lay in the buffer before is
  `NothingOldIsSent`.
* `AnswersStayCurrent`: `SharedSpec => []AnswersAreCurrent`. An answer shows the settings when it is given, by
  the handlers, and no step turns a knob while `pc` is `send`.
* `OneOrderExplainsAll`: `SharedSpec => []Serializable`. A request in the journal is one that the abstract transceiver obeys
  (`ObeyedIsAfter`), and the settings of a longer journal are those of the shorter
  one and of one request more (`RadiosGrow`). The equations of the recursive
  function are proved to have a solution, as in FramingProofs. The step does not
  follow from `DrivesTransceiver`, which lets a request that changes no variable
  stutter, where the journal still grows; it goes by the handlers.

### Log and start

`LogProofs`, for any number of events and any depth of nested handlers:

* `TimesAreOwn`: `Spec => []StampedByOwnTime`. All calls share the one
  static result of `localtime()`, which a handler overwrites. The inductive
  invariant `LogOK` says that it is the time of the last call on the stack from
  there until that call has written (`Stamped`); no other call ever writes,
  because the handlers that lie above it do not return.
* `NothingIsLost`: `Spec => []NothingLost`. Events are numbered in the order they
  are made (`Numbered`), a call that is at an output has an event for it
  (`Heading`), and each output has the parts of the events of its level but for
  what is left of those a call is at (`Recorded`).

`StartupProofs` proves `LoopStartsReady`: `Spec => []TableReady`, for all ports
and any command line, assuming nothing of them but that they are natural
numbers. What `parse_parm` accepts is wider than what `net_start_listen` opens
(655535 for 65535, config.c:105); it is the short int that closes the gap
(`ShortRange`, `UsableIsListenable`), and the invariant `Staged` carries to each
stage what has been opened before it. So the initial state of PollServer is one
the start really leaves.

### What stays with TLC

* Everything under fairness (`EventuallyRead`, `EventuallyAccepted`,
  `EventuallyFreed`, `SignalEnds`, `ServesWhatArrived`): the prover has no rules
  for liveness under fairness and for ENABLED.
* The runs that end in a counterexample, naturally.

## What is not modelled

* The step from Startup to PollServer as one behaviour. `LoopStartsReady` says that
  what Startup leaves is what PollServer assumes of `ListenOrder`; this is a
  constant there, which no state of Startup can instantiate.
* The reuse of descriptor numbers: a listening socket closed after an error
  would leave its number in `socket_rigctl`, and a client could get it. In the
  model, as in `ListenersFirst`, poll() reports no error on a listening socket.
* A client that never stops sending; its streams are finite here, and the loop
  of `receive_from_peer` would not end (network.c:61).
* Of the log, `log_set_lock()` and further callbacks, which nothing calls, and a
  standard error that is a broken pipe.
* The text of replies, the prefixes and the two names of a command, the exact
  matching of `strtok()`; prefixes are present as `long`.
* Help texts; `dump_state.h`, one constant text.
* Frequencies beyond 2^30 and the overflow of `atoi()`.

## Plan

Done: Framing, PollServer with LineServer; Ermak, Rigctl, Commcat and Station
with Transceiver; SharedRadio; Log; Startup; proofs about all of them.

What is left is to extend: the dispatch tables (the first match of `commcat_req`,
the two names of a command of `rigctl_parse_in`) are abstracted to the command
found. With them `Meaning` could be a definition for the lines of a small alphabet.
