# libtdt in TLA+

A specification of libtdt: of the Multi-Message Packet protocol (MMP) between
nodes on a CAN bus, of the messages it is made of, and of the tools on the host:
the code generator, the printers that use its tables and the database of names.
TLC checks the models on small instances; TLAPS proves for every instance the order
and bounds of the protocol, what it does in time, that it keeps the promises of its
service, the messages, the generator with the tables it writes, what both printers
show, and the names. Every invariant the runs check is proved; liveness and one
refinement are left to TLC. Source paths below are relative to the root of the
repository.

## The system

| part | state it keeps | operations | what makes it correct |
| --- | --- | --- | --- |
| MMP node, `CMmpNode` (`src/mmpNode.cpp`, `include/tdt/mmpNode.hpp`) | a transmit and a receive channel, a timer for each, the counterpart's id, a buffer of received messages | `startTransfer`, `receiveTdtMessage` → `handleTx`/`handleRx`, `txTimeout`, `rxTimeout`, `finishTx`, `finishRx` | a transfer is handled exactly once, its own result is reported exactly once, transfers keep their order, nothing hangs |
| MMP transfer, `CMmpTransfer` (`mmpTransfer.hpp/.cpp`, `mmp.hpp`) | header, data, position, retry counter, return code, state | `data32`, `reset`, `isLast`, `isFinished`, `updateCrc` | both sides agree where a transfer ends; no word is stored or read outside of the data |
| TDT message, CAN frame (`message.hpp`, `canMessage.hpp`) | one frame: id, length, 8 bytes | constructors, getters, setters | node id and function code do not disturb each other |
| code generator (`tools/tdtGen`) | the profiles read so far, each a list of objects, units, commands and logs | reading a file, a profile, an entry; writing the enumerations and the tables | what the printer looks up is what the enumerations define; conflicting profiles are refused and no others |
| host printer, `CPrinter` (`src/printer.cpp`, `printer.hpp`) | the generated tables, constant | `printValue`, `getObjectString`, ... | a value is shown by its name and without loss |
| target printer, `CCanTdtPrinter` (`printer_biwak.hpp`) | none | `snprintValue`, `getUnitString` | it shows a value as the host does |
| name database, `CDb` (`src/db.cpp`, `db.hpp`) | two maps, filled once from a file | the constructor; `getNodeName`, `getObjectName` | a name is shown for the node and the object it was written for |

A node hands each message that concerns MMP to its channels: `dataBlob` messages
("shreds", one 32 bit word each) go to the receive channel, `ackDataBlob`
messages to the transmit channel. The transmitter sends one shred at a time and
waits for its acknowledge; the receiver collects the words, checks the CRC,
calls the application's handler and answers the last shred with its result; the
transmitter then calls the application's other callback. Both channels have a
timer. There are no threads: an event loop handles one message or one timeout
at a time. All nodes share one bus: an acknowledge carries the id of the node
that sends it and is seen by all of them.

The hard behaviours are all between the nodes: a lost message, an
acknowledge that meets the retransmission it was to prevent, a timeout on one
side that the other side does not know of, words of a transfer that was given up
in front of the next one's, a restart, a callback that starts a transfer, and an
acknowledge for somebody else.
`PROJECT.json` lists each of them ("hazards") at its line, with the property
that covers it.

## Modules

- `MmpTransfer` - the pure part of `CMmpTransfer`: the shape of a transfer,
  `isLast`, `isFinished`, and what the CRC is on both sides.
- `MmpLink` (extends `MmpTransfer`) - one direction of the protocol: transmit
  channel, receive channel of the counterpart, and the bus.
- `MmpTimed` (extends `MmpLink`) - the same with a clock and a bounded number of
  faults; fairness, and the liveness properties.
- `MmpService` - what the protocol promises, without messages and timers.
- `MmpLinkProofs` (extends `MmpLink`) and `MmpTimedProofs` (extends `MmpTimed` and
  the former) - the theorems.
- `MmpBus` (extends `MmpTransfer`) - several nodes, each with both channels, on
  one bus. `MmpBusLink` (extends it) instantiates `MmpLink` for each pair;
  `MmpBusProofs` (extends `MmpBus`) and `MmpBusOrderProofs` (extends that) - the
  theorems.
- `TdtMessage` - CAN frame and TDT message: the bits of the id, the bytes of the
  data, every constructor, getter and setter. `TdtMessageProofs` (extends it) -
  the theorems.
- `TdtGen` - the code generator. `TdtPrinter` (extends it) - the host printer,
  on the tables that were generated. `TdtTarget` (extends that) - the printer of
  the nodes, beside the one of the host. `TdtGenProofs` (extends `TdtGen`) and
  `TdtTargetProofs` (extends `TdtTarget` and the former) - the theorems.
- `TdtDb` - the database of names. `TdtDbProofs` (extends it) - the theorems.
- `MCMmpLink`, `MCMmpTimed`, `MCMmpBus`, `MCTdtHost` - the values the
  configurations use. `MCTdtHost` puts the generator with the printers, the
  messages and the names side by side; they share nothing, and while one of them
  works the others rest.

### MmpLink and the code

`txXfer, txPos, txRetry, txState` are the members of `m_tx`, `rxWords, rxLength,
rxCode` those of `m_rx`. The content of a word is abstracted to the number of the
transfer it belongs to: `rxWords[k]` is the transfer the k-th stored word came
from, its length is `m_pos`. So the model can tell when words of two transfers
are mixed, which is all the CRC is for; the CRC is taken as ideal (no
collisions). `rxLength` and `rxCode` outlive `reset()`, as `m_header` and
`m_returnCode` do, and `rxLength` starts with any value of `StaleLengths`, since
the constructor leaves `m_header` uninitialised. A timer is its remaining time, or
`Off`. `runs`, `verdict`, `reports` and `dataLength` are history variables: what
the handlers were called with.

`handleTx` is split into one action for each way through it, likewise
`handleRx`, in the order of the code; the common beginning is `OnAck` and
`OnShred`. Each action includes the messages it sends, the timers it starts and
the callback it calls. A callback may set up another transfer (`NestedStarts`).
`rxFatal` is set where the receiver calls `qFatal`/`lFatal`. `qFatal` on Linux ends
the program; the model goes on with a receiver that does nothing.

In `MmpLink` no time passes: a running timer may fire at any moment, and any
message may be lost. What holds here depends on no timing at all. `MmpTimed` adds
`Tick`, which lets no timer that has run out wait, and lets messages be handled
before time passes if `Prompt` is set. A message on CAN takes less than a
millisecond and the shortest timer is 125 ms; the comment at `mmpNode.cpp:300`
tells of an acknowledge that was later than that, so `find_hang` checks without
`Prompt`.

### MmpBus and the code

`tx[n]` and `rx[n]` are the two channels of node `n` with their timers, with the
same fields as in `MmpLink` and `m_counterNodeId` beside them, and `inbox[n]` is what
`pushRxMessage` has collected and what is still under way. A message has its node
id, function code, source, position and value. `Broadcast` is the bus: an
acknowledge reaches every other node. A shred reaches the node whose id it
carries only: `handleRx` does not look at the id, so it is the application, or the
filter of its CAN controller, that keeps it from the others; `test_mmp.cpp` has
only two nodes. The handler is the one of the tests and returns the id of its
node, which tells who has handled a transfer.

`m_counterNodeId` of a shred's receiver becomes `getNodeId()` of the shred, which is
the receiver's own id (`mmpNode.cpp:233`). What follows from it for the source
field of an acknowledge is in `Ack`: it is the same as the sender's id, where
`doc/mmp.txt:133` has the id of the node that is answered. A channel starts with
`m_counterNodeId` 0, as in static memory; the code does not initialise it.

`Plan` says which node transfers to which, in what order; a node with `TakeTurns`
waits until the bus is quiet. Retransmissions, early timeouts and restarts are
`MaxFaults` together. Callbacks start no transfers here; `MmpLink` has that.

### TdtMessage and the code

What the code masks, shifts and ORs is a set of bits: `id | functionCode << 7` is
the union with the shifted set, `& NODEID_BITMASK` the intersection. The eight
data bytes are numbers below 256, and the union of `SCanMessageTdt` over them is
what `low`, `high`, `uint16` and `int16` say: words of 16 bits, low byte first. The
machine is a program that constructs a message and changes it with the setters
in any order (`sent`), and another one that copies or assigns it (`got`); `meant`
and `gotMeant` are what was set last, and the getters are compared with that.
`setNodeId()` sets the whole CAN id, so the function code it leaves is `nmt`; the
order of the two setters matters, and the history says so. A frame
shorter than 8 bytes, which `setLen()` makes, is no complete message when it is
assigned, since the tail of the old one stays.

### TdtDb and the code

A file is a tree of elements and other nodes, a number the set of its 32 bits, so
that `( id << 16 ) | subId` is a union (`combinedId`). `node` and `subNode` are the
places of the two loops of the constructor: `readNode` is the beginning of a round
of the outer one, `readSub` a round of the inner one, and `endNode` and `endFile`
are where they end. A loop over `nextSibling().toElement()` ends at the first node
that is no element (`Reached`), so what is behind a comment is not read; that every
name is found is promised only for files without comments. A number of more than 16
bits would reach into the other half of the key, and the property asks for a file
without them (`SixteenBits`). Reading a file that is no XML is like reading one of
another kind.

### TdtGen and the code

The input (`Inputs` has the possible ones) is a sequence of profiles, each with its
entries as JSON attributes. An
attribute remembers if it was missing, a string with a number, the name of a
macro or something else, or a JSON number, since `toString()` of the latter is
empty and reads as 0. Reading is one action per entry, one list after another as in
`parseProfile()`, with each `qFatal`; how far a list is read is its length
(`NextEntry`, `ObjectsDone` to `LogsDone`). `generate` ends the run; the files it writes
are modelled by what a compiler reads in them: sets of enumerators with their
values (`EObject`, `EUnit`) and maps (`m_objectMap`, `m_unitMap`, `m_logMap`), in which
a later row replaces an earlier one with the same key (`LastRow`: rows have a place,
and of those with one key the one in the last place stays). Names are whole: the camel
case of `nameToEnum()` is not modelled, so two names that become one identifier
are not noticed (the C++ compiler would). `TdtPrinter` prints with these tables;
a printed text is a sequence of words and numbers. A number that the host divides in
floats is shown by its six digits, and the powers of ten that go with them
(`SixDigits`). Layout, prefixes and
postfixes of units are left out. `TdtTarget` has the same value printed by
`snprintValue()` of the nodes.

## Runs

Passing runs. All bounds are constants named in the modules.

- `link_races` - `MmpLink`, a header of 3 words, lengths 0, 4 and 12 bytes with
  a buffer of 8, two transfers, three messages under way in each direction, one
  retransmission, an application that does not wait, nested starts, losses and
  restarts. Type invariant, the inductive invariant `OrderInv`, at most one
  handling (`AtMostOnce`), no shred outside of its transfer (`ShredsInTransfer`), the
  order of transfers (`InStartOrder`), the receiver stores inside of `m_rawData`
  (`NextWordFits`) and never holds a part of a transfer without a
  running timer (`ReceiverWillEnd`). Two transfers are enough to mix words and
  acknowledges of an old and a new one; three messages let an old shred, an abort
  and a new shred be under way together; 12 bytes do not fit into the buffer and 4
  do. 550 000 states.
- `timed_one_loss` - real header, the timeouts 125 ms : 4 s : 6 s as 1 : 32 : 48,
  four retransmissions, lengths 0, 4 and 10, two transfers one after the other, one
  lost message anywhere. `ImplementsService`: the protocol implements
  `MmpService` - each transfer is handled once, reported once with the result of
  its handler, in order, and both happen. `ServiceInv` is the invariant that the proof
  of its safety part rests on. Also
  `StateTellsTransmitting` and `IntactAccepted`.
- `timed_faults` - the same with up to six losses and one restart of the receiver
  at any moment. A transmitter that waits has a timer (`TransmitterRetransmits`);
  without a restart no assertion of the receiver fails (`NoFatalWithoutRestart`); no
  transfer is reported by two acknowledges (`OneAcknowledgedReport`); a
  transfer is reported unless more messages were lost than there are retries
  (`AnsweredDespiteLosses`; six are two more, so that the first transfer can be
  given up and the second one meets what is left of it); and the handler gets the
  words of one transfer only (`HandledWhole`). The inductive invariants of the
  proofs are checked here as well: `StopAndWait`, `WordsInv` and `InStepInv`. `OneAcknowledgedReport` needs the
  timeouts: an acknowledge of position 0 is accepted at any position
  (`mmpNode.cpp:296`), so with copies of it still under way, and an application that
  does not wait, the next transfer may end twice, with two codes. `HandledWhole`
  needs them as well: with the transfers and faults of `link_races` it fails, since a receiver that has
  not timed out continues with the words of the next transfer, and the CRC does
  not cover the header. It is kept by retransmissions that come before the
  receiver's timeout and by messages that are handled at once, and by nothing
  in the data.
- `bus_relay` - `MmpBus` with three nodes: 7 sends to 8, and 8 sends to 9 twice, may
  restart and receives at the same time; header of 2 words, one loss and one
  other fault. `OwnCounterpart`: a result that is reported comes from the node the
  transfer was sent to. `AtMostOnce`, across a restart of the transmitter, too,
  for every transfer to a node that nobody else sends to (the others are the
  subject of `find_two_senders`), and with it the invariant of its proof,
  `OrderInv`. `InStartOrder`: a transfer that a later one of its node has overtaken at
  such a receiver is neither stored nor handled any more.
  `ImplementsLink`: seen from node 7 and its counterpart 8, without all other traffic,
  the bus is `MmpLink`; so what is proved about `MmpLink` holds for such a pair.
  The relay is the smallest bus on which shreds and acknowledges of different
  partners meet in one node. 300 000 states.
- `host_tools` - three explorations in one. The generator: one profile in all
  combinations of the object, unit and log lists of `MCTdtHost`, and two profiles
  with equal, overlapping and separate offsets, with arrays, aliases, macros,
  broken attributes and unreadable files. The tables name exactly what the
  enumerations define (`PrinterAgrees`); `...Start` and `...Max` enclose the
  elements of an array and nothing else (`SubIndexed`), and the sub ids of the
  elements are their indices exactly if the array starts at a multiple of 8 and has
  no more than 8 elements (`SubIdIsIndex`); a file is refused only if it cannot be
  read or has a log without an address, no such log is stored, and entries with one
  number are no cause (`RefusalExact`); what is stored of a file is all
  that it says (`GenInv`, the invariant of the proofs); the name of an enumeration
  value comes out of the printer as it was in the profile (`EnumValuesNamed`);
  durations are shown without loss (`DurationExact`); a log code is shown with
  its category (`LogsShown`); host and target show one version and one short duration
  alike, and one temperature from zero on and for whole degrees, exactly where the
  target's text is a number: for the host's -1.5 it writes -1.-50 (`PrintersAgree`).
  The values are small ones on both sides of 0 and of a day, and 16909063 and
  2147483647, which do not fit into six digits. The messages: two node ids and function codes with the outer and
  the inner bits, objects 0 and 65535, positions on both sides of 0, short and
  overlong frames, in every sequence of setters (`ReadsAsMeant`, `GotAsMeant`).
  The names: six files with objects in common, names given twice, foreign elements and
  comments (`NamesOfTheNode`, and `DbInv`, the invariant of its proof). 157 000
  states.

Runs that end in a violation. Each shows one disagreement between the code and
what the repository says of it ("findings" in `PROJECT.json`):

- `find_false_idle` - the last shred is lost twice. The receiver's timeout (6 s)
  drops its words before the third copy (8 s) arrives. `handleRx` takes that copy
  for a retransmission of a finished transfer and answers it with the return code
  of an earlier one: the transmitter goes idle and the handler was never called.
- `find_hang` - every acknowledge stops the transmitter's timer, also one that is
  ignored as old. One late acknowledge is enough for a transmitter that waits
  without a timer.
- `find_nested_start` - a transfer set up by the callback runs while `state()` is
  idle, since `finishTx` sets the state after the callback.
- `find_silent_abort` - five losses end a transfer with `counterPartDead`; the
  receiver still holds a part of it and aborts the next transfer, and
  the abort is not reported to anybody.
- `find_foreign_ack` - 7 and 8 send to 9, one after the other, and nothing is lost.
  An acknowledge says who sends it and not whom it answers; the node whose
  transfer is over, or has just begun, takes the other's for its own.
- `find_two_senders` - 7 and 8 send to 9 at the same time. The check "Sender
  missmatch" compares the receiver's id with itself.
- `find_overlap` - two profiles with objects of one number are accepted: the
  overlap check compares objects of one profile only.

A restart of the receiver within a transfer leads to the assertion "Does not make
sense" (`mmpNode.cpp:204`) without any loss: that is why `NoFatalWithoutRestart` has
its condition.

Deadlock is not checked in any run: the bounds on transfers and losses end every
behaviour, and a generator or a database that is done stops.

### Fairness

`FairTimedSpec` assumes weak fairness of handling a message, of both timeouts, and
of the clock: the event loop of Qt, or the main loop with `testEventLoop()` and the
soft timers, handles every message and every timeout that is due. Nothing is
assumed of losses, restarts or the application's next transfer. That each run
may lose only `MaxLosses` messages is a bound on faults, not fairness. No fairness
is assumed in the other modules, whose properties are all safety.

## Proofs

`MmpLinkProofs` proves for all values of the constants allowed by
`TransferAssumption` and `LinkAssumption` - any header and buffer size, any lengths,
timeouts, number of transfers and of messages under way:

- `TypeAndOrder`, `TypeCorrect`: `TypeOK` and `OrderInv` always hold;
- `NeverTwice`: no transfer is handled twice;
- `NeverOutOfOrder`: once a transfer has run, no word of an earlier one is stored
  and no earlier one runs;
- `ReceiverEnds`, `StoresInBounds`: the receiver's timer and buffer;
- `ShredsStayInTransfer`: the transmitter sends only words of its transfer.

`MmpTimedProofs` proves of the protocol with its clock, with no hypothesis:

- `TimedTypeCorrect`, `TimedNeverTwice`: the type invariant, and `AtMostOnce` again;

and, on a prompt bus (`PromptBus`: messages are handled before time passes, the
application waits for the end of a transfer, callbacks start none), for all header
and buffer sizes, lengths, timeouts, and any number of retries, transfers, losses and
restarts of the receiver:

- `AlwaysRetransmits`, `StateTells`: a transmitter that waits has a timer, and
  `state()` tells that it is at work;
- `AcknowledgedOnce`: no transfer is reported by two acknowledges;
- `WholeHandled`: the handler gets the words of one transfer only, the magic number
  apart, which all of them share (`HeaderShape`: the
  length and the CRC are not the first word of the header, and the length is not
  its last, as in `SMmpHeader`);
- `StopAndWaitAlways`, `WordsAlways`: the two inductive invariants behind these, see
  below;
- `IntactAlwaysAccepted`: no transfer is refused for its checksum (also: a build with
  liblepto, and no handler that returns `wrongCRC` itself);
- `NeverFatalUnlessRestarted`: the receiver comes to no assertion unless it is
  restarted (also: `LongEnough`, the retransmissions of a shred take less time than
  the receiver waits, 5 x 125 ms and 6 s in `mmpNode.hpp:84-88`; `Storable`, the
  application transfers no more than `m_maxReceiveSize`, `mmpTransfer.hpp:38`), and
  `InStepAlways`, the invariant behind it, from the same hypotheses;
- `ServiceKept`: the protocol implements the safety part of `MmpService`, step by step
  (also: `FewFaults`, which is no restart, not more losses than retries, less time lost
  at the end of a transfer than the receiver waits, i.e. one loss with 4 s and 6 s,
  and no handler that returns the code of a transfer before it is handled), and
  `ServiceAlways`, the invariant behind it, from the same hypotheses. Two losses of the last shred are the finding of `find_false_idle`, so this hypothesis
  cannot be dropped.

Each hypothesis is a formula about the constants, and the values of `timed_one_loss`
satisfy all of them. No theorem uses that the model is finite.

`MmpBusProofs` and `MmpBusOrderProofs` prove for any set of nodes, plan of transfers
and number of faults (`TransferAssumption`, `BusAssumption`):

- `BusTypeCorrect`: `TypeOK` of all channels of all nodes;
- `ReportsOwnCounterpart`: a result that a node reports comes from the node it sent
  that transfer to;
- `BusNeverTwice`: no transfer is handled twice by a receiver that one node sends
  to, whatever is lost, sent again or restarted;
- `BusNeverOutOfOrder`: of the transfers of one node to such a receiver, one that a later
  one has overtaken is neither stored nor handled any more (`InStartOrder`);
- `OrderAlways`: the inductive invariant of the two.

`TdtGenProofs` and `TdtTargetProofs` prove for every sequence of files, of which
`InputsAssumption` says only that attributes are attributes and lists are lists:

- `GenInvHolds`: what is stored of a file is all that it says, in its order, and the
  profile being read is the first part of what its file says;
- `RefusalAlwaysExact`: no `qFatal` without an empty input, an unreadable file or a log
  without an address, and no such log in what is stored; entries with one number
  never are what stops it, which `find_overlap` is about;
- `SubIndexedAlways`: from `...Start` to `...Max` there are the numbers of the elements
  of an array and no others, for every offset, address and size;
- `SubIdAlwaysIndex`: the sub ids of the elements of an array are their indices exactly
  if it starts at a multiple of 8 and has no more than 8 elements;
- `PrinterAlwaysAgrees`: the numbers the printer can name are those the enumeration
  defines, and an object that shares its numbers with no other is shown by its own
  name and index;
- `ValuesAlwaysNamed`: a value of an enumeration is shown by the name the profile gives
  to it, if the number of the unit is not given twice;
- `DurationAlwaysExact`: a duration is printed as itself, or as days, hours below 24,
  minutes and seconds below 60 that add up to it, wherever in the text they are;
- `LogsAlwaysShown`: a log code is shown with its category, and by the name of the log
  if that is the category 0;
- `PrintersAlwaysAgree`: host and node show one version and one short duration alike;
  the node's text of a temperature is a number exactly from zero on and for whole
  degrees; and where it is one and the profile divides by 100, the host shows the same
  number, without loss below 10000 degrees and to six digits above;

and without any file:

- `DurationAddsUp`: sign, days, hours, minutes and seconds add up to the duration they
  are the text of;
- `TemperatureAddsUp`: whole and fraction of a temperature add up to it and do not
  differ in sign, if no other unit of the `switch` has the number of `centiCelsius`.

The last three of the list are about profiles whose generated code compiles
(`Compiles`: two labels of a `switch` with one number do not). Values are those of an
`int32_t` without the smallest (`ValuesAssumption`); `DurationAddsUp` and
`TemperatureAddsUp` hold for any integer.

`TdtDbProofs` proves for every tree the file may be (`FilesAssumption`: elements have a
tag, a number of 32 bits, a name and children):

- `NamesReadSoFar`: `DbInv`, behind every step of the loops the maps have the names that
  were passed, the last one of each number, and no others;
- `NamesAlwaysOfTheNode`: in a file whose numbers have 16 bits an object is shown by a
  name that its own node gives to it, and without comments every name is found, the
  last one if there are several.

`TdtMessageProofs` proves for every node id, function code, object, unit, position
and payload:

- `MmpMessageReads`: a shred or an acknowledge reads as it was built;
- `MsgTypeCorrect`, `ReadsAsMeantAlways`, `GotAsMeantAlways`: the three invariants of
  `TdtMessage`, for any sequence of constructors, setters, copies and assignments.

### The argument

`AtMostOnce` alone is not inductive: a second handling needs a first word of a
transfer that has run, and whether one is left depends on what is on the bus, in
the receiver and still to be sent. `OrderInv` says where words may be:

1. what is under way belongs to a transfer that was started (`OnlyStarted`);
2. shreds are under way in the order of their transfers, and behind a later word
   of a transfer its first one does not come again (`SentInOrder`), nor will the
   transmitter send it (`TransmitterPastFirst`);
3. nothing under way is older than a stored word (`ReceiverInOrder`);
4. of a transfer that has run neither a stored word nor a first word is left
   anywhere (`NothingLeftToRun`).

As the receiver starts only with word 0, a transfer that has run cannot run
again. The proof needs no timing: it lets any timer fire and any message be
lost. It does need that the bus keeps the order of the messages of one sender,
which CAN does. The proof sorts the many actions of each side into three shapes (lemmas
`TxShape`: quiet, sends, starts; `RxShape`: forgets, stores, runs) and
shows the invariant once for each shape. `TypeAndOrder` proves `TypeOK` and `OrderInv`
together, since the type of `runs` depends on shreds that were started. The
buffer invariant is `ReceiverWillEnd` with the link between position, length and
the check when the header is complete (`HeaderChecked`). `ShredsInTransfer` gets
the same claim about the word a running timer will send again (`SendInv`), and rests
on `OnlyStarted`: a new transfer does not change the length of one that is under
way.

With the clock four invariants build on each other; `TimedTypeOK` and what
`MmpLinkProofs` shows (a `Tick` changes none of it, `TickKeeps`) come first.

1. `StopAndWait`. On a prompt bus there is one token: a shred under way, or the answer
   to it, or the transmitter's timer (`OneMessage`). The timer cannot run out before
   the token is back, so nothing is ever sent twice at a time, and an acknowledge is
   for the current position. `WaitInv` adds that the timer runs as long as the
   transfer is not reported, and afterwards only when all retries are used. This
   gives `AlwaysRetransmits` and `StateTells`, and with the report history
   `AcknowledgedOnce`. Without `PromptBus` they are false: a late acknowledge of
   position 0 is accepted at any position, and `find_hang` and `find_nested_start`
   show the others.
2. `WordsInv`. Once the receiver has answered the first word, each later word it
   stores is of the same transfer, since its position would not fit otherwise. Before
   that it may hold words of an older transfer: it answers a first word with an
   abort if it has more than one of them, and takes it for a copy if it has just one.
   That one is the magic number, which is the same in every transfer. Behind
   the length word, the stored length belongs to the stored words. So what runs is
   of one transfer, and its checksum is right.
3. `InStepInv`. Without a restart the receiver is at the transmitter's position, or
   one ahead, or done; and its timer, which every shred starts anew, outlasts the
   transmitter's timer and the retransmissions left (`Patience`). So it never drops a
   transfer that the transmitter still sends words of, and a shred in the middle never meets
   an empty buffer, which is the assertion. For the last word, which is sent
   again only after the execution timeout, nothing of the kind holds.
4. `ServiceInv`. Each retransmission is paid for by a loss (`losses >= txRetry`, and one
   more when nothing is under way), so with few losses no transfer is given up. The
   receiver is still to handle the transfer (`Unhandled`), and then outlasts the
   time the losses to come can cost (`LossTime`); or it has handled it and answers
   with its result (`Handled`). Every step of the protocol is then a step of
   `MmpService` or changes nothing the application sees: `startTransfer` starts, the
   last shred handles, its acknowledge reports.

On the bus `BusNeverTwice` uses the argument of `OrderInv` again, for each receiver with
one transmitter. Transfers are numbered in the order of the plan, also across a
restart of the transmitter, which goes on with its plan; the inbox of the receiver
has the messages of one sender in the order they were sent, among those of others.
`OrderInv` of `MmpBus` says so with `MayFollow`, a relation between any two shreds of the
inbox; `BusNeverOutOfOrder` follows from it and from `AtMostOnce` before and after a
step. A receiver with one transmitter cannot have words of a transfer of its
own, and no others can be in its inbox. That the header has at least two words is needed: with
one word a first word would be a last one as well.

On the bus `OwnCounterpart` needs to know that every acknowledge is honest: a code
that is a node id is its sender's, on the bus (`HonestAcks`) and in the channel that
repeats it (`RxInv`); and that `m_counterNodeId` belongs to the transfer in `m_tx`
(`CounterpartInv`), also after a restart, which clears both. It is proved for
static memory, where a node that has not transmitted has the counterpart 0.

The messages rest on a few laws: two bytes make the word they were cut from,
with a sign or without (`WordOfBytes`, `PositionOfBytes`), and a node id below bit
7 and a function code of four bits, shifted, can be told apart. The inductive
invariant adds to the three properties that `meant` is a possible meaning.

For the generator `Whole` is what a file says, as a value: all objects, units, commands
and logs that reading it makes. `GenInv` compares with it: what is stored is the
`Whole` of its file (`ReadInv`), and the profile being read is the first part of it
(`PartOf` in `ReadingInv`). Appending the next entry keeps that (`ReadingKeeps`, once for
all four lists). As each object is of the profile being read, the check for an
overlap, which asks for another profile, never finds one. That is why `RefusalExact`,
which allows no other cause than a file that cannot be read and a log without an address, is
inductive on top of `GenInv`. Where one name belongs to one
object, the suffix of an enumerator tells its value (`OneValue`), and the values of an
array follow each other (`ArrayValues`).

The tables are sets of rows with places, so what a table has for a key needs no
induction: the only row of the key, or the last one (`LastOfItsKey`). The rows of an
entry are those of its numbers (`EntryRows`, `NumberIs`), so an entry that shares no
number with another has its own (`OwnRow` for objects and logs, `OwnDescription` for
units), and keys and enumerators are the same numbers (`SameNumbers`). A text is
the concatenation of a few pieces; which piece is at which place is counted from its
end (`PiecesOf`). The six digits of a temperature are proved for all 32 bits: a power of ten
that leaves six digits exists (`UpFor`, `DownFor`), below 10000 degrees it is a number of
hundreds, so that nothing is left to round (`NothingLost`), and above, the digits are
one of two neighbours (`NearestIs`). That the label `durationSeconds`, and no other, is taken for the number of
that unit is `OnlyThisUnit`, where `Compiles` is needed.

For the names `DbInv` describes the two loops: behind the first `node` elements and
`subNode` children, which are all elements (`LoopsInv`), each map has exactly the keys
of what was passed, and its value is the last one in the order of the file
(`NodeNamesInv`, `ObjectNamesInv`). Two halves of 16 bits can be told apart in the key,
so the key of the property belongs to one node and one object only.

### Only model-checked

- Liveness, which is out of the prover's reach: `AnsweredDespiteLosses`, and of
  `ImplementsService` that each transfer is handled and reported eventually. Its safety
  part is proved (`ServiceKept`).
- `ImplementsLink`, the refinement of `MmpLink` by a pair of nodes. Its mapping selects
  the messages of the pair from an inbox with `SelectSeq`, which is defined by
  recursion over the sequence: what it returns for every inbox is induction over
  data; and the prover does not take an `INSTANCE` with parameters. What the refinement
  is for, `AtMostOnce` and `InStartOrder` of each pair, is proved on the bus itself.

All other properties of the passing runs are theorems: as they stand, or, those of
`MmpTimed` that need it, with the hypotheses on the constants named above.

## Not modelled

- What the words of the header mean beyond length and CRC: magic number, command,
  flash address and source are words of their transfer (`HandledWhole` says they
  stay together).
- On the bus: callbacks that start a transfer, shreds that reach a node they are
  not for, a node id that changes (`m_nodeId` is a reference), and a
  `m_counterNodeId` with any content before the first transfer. In `MmpLink` the
  transmitter does not restart; in `MmpBus` it does.
- A build without liblepto (`UseLepto = FALSE`) is in the model, but no run uses it:
  there the CRC of a transfer without data is `0xFFFFFFFF` on one side and 0 on
  the other (`mmpTransfer.cpp:35`, `mmpNode.cpp:520`), so it is always refused.
- In the printers: the exact error of the floats a value goes through on the host.
  `SixDigits` keeps the six digits that are shown, and the bound of the error, 2^-22,
  decides how near to the middle the choice between two neighbours is open
  (`Nearest`; nothing is proved about which one it is). Whether such a number is
  written with an exponent is layout. The humidity of `printValue()` goes through a
  double and the same six digits, and has the same bound. `qAbs` of the smallest integer; units with a divider of 0, which
  `printValueGeneric()` divides by except in its last case (the model shows the
  division as `Crash`; no profile of the repository has one); the texts of function
  codes, which are lists of constants on both sides; the target's
  `getObjectString()`, whose table is empty in the repository. The mark of
  an alert is dropped for a unit without a layout, as in the code; nothing in
  the repository says that it has to stay.
- The layout of generated files and the command line of the generator.
- What a name file with numbers of more than 16 bits shows: reading it is modelled, but
  `NamesOfTheNode` promises nothing of it.

## Plan

1. Done: `MmpTransfer`, `MmpLink`, `MmpTimed`, `MmpService`, `TdtGen`,
   `TdtPrinter`, their runs, and the proofs about `MmpLink`.
2. Done: `MmpBus` with its refinement of `MmpLink`, `TdtMessage` with its proofs,
   `TdtDb`, `TdtTarget`, and the properties of the words of the header and of
   several losses with restarts.
   Done: the proofs of `ShredsInTransfer` and of the bus.
3. Done: `MmpTimed` and the safety part of its refinement of `MmpService`,
   `AtMostOnce` of the bus, the invariants of the generator, the sub ids and the values
   of the target printer.
4. Done: the order of transfers on the bus as a property of `MmpBus` of its own
   (`InStartOrder`) and its proof; the inductive invariants of `MmpTimed` as theorems; the
   proofs of the tables, of both printers and of the name database.
5. Left, if the prover learns to do it: `ImplementsLink`, and liveness.
