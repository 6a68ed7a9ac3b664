# Verification of the wifimodem firmware

TLA+ models of the ESP32 Wi-Fi modem firmware in `src/src`, model-checked with
TLC, with TLAPS proofs of the safety properties that matter most.  The code is
the reference: definitions are translated from it, and `PROJECT.json` names the
lines each one stands for.

## The system

| Component | State | Operations | Hard behaviour |
|---|---|---|---|
| `phy/wireless.c` | `g_config.up`, event group bits, `g_retries`, the driver's state | `wifi_create/destroy/set/scan`, `event_wifi`, `event_netif` | application task, event loop task and driver run concurrently; events arrive later, from a bounded queue, and may belong to a session that is over; an unbounded wait |
| `core/list.c`, observers | the links of `g_observer_list` | `wifi_observer_add/del`, `raise_event` | callbacks change the list while it is walked, and may delete their own observer |
| `phy/serialport.c` | UART configuration, `autobaud`, `p.buffer`, `p.samples` | `serialport_init/configure/read/autobaud/del`, RMT callback | the interrupt overwrites what the task is measuring; flags shared without a lock; drivers that refuse |
| `core/logger.c` | ring in RTC memory | `log_*`, `esp_printfv` | wrap-around, rotation in place, several tasks without a lock |
| `core/arena.c` | size and point | `arena_*` | rounding against the end test, restoring, unsigned wrap-around |
| `core/mempool.c` | mask of free blocks, counters | `mempool_lock/unlock` | exhaustion, wrong and repeated pointers |
| `util/net.c`, `net/netaddr.c` | descriptors of the stack | `socket_open_host/addr`, `netaddr_resolve`, addresses | six steps that can fail, several tasks |
| `phy/ledcontrol.c` | channel table, bit counter, timer, pins | `ledcontrol_*`, alarm interrupt | the interrupt comes between any two writes of a call, on this core or the other |
| `phy/terminal.c` | mode flags, echo | `terminal_putc/getc/gets/input` | newline conversion both ways, backspaces, hidden input |
| `util/repl.c` | the line's buffer, `argv` | `repl_run`, `repl_quit`, `repl_eval` | words are written into the buffer still being read |
| `util/buffer.c` | read and write cursor | `buffer_*` | unsigned differences, moves under the cursors, truncation |
| `util/json.c` | coroutine stack, token buffer | `json_parse` | recursion out of a yield, overflow of the stack |
| `core/algorithm.h` | none | sorts and searches | indices at both ends |
| `util/uri.c`, `util/crc16.c`, `core/str.c` | none | pure functions | delimiters by their place, numbers beyond their type |
| `util/system.c` | none | thin layer over ESP-IDF | none of its own |

The application calls `wifi_*` from its task.  Those calls drive the ESP-IDF
driver, which posts events to the default event loop; its task runs `event_wifi`
and `event_netif`, which answer the driver and set the bits `phy_connect` waits
for.  `raise_event` runs the observers on the application's task, out of a
`list.c` list.  Everything logs through `core/logger.c`, ESP-IDF too.
`repl_run` reads lines through `terminal_gets` and takes them apart with
`core/str.c`, as do `uri.c` and the address parsers of `net.c`.

`src/lib` (curl, libssh2, yxml), `src/hardware`, `src/docs` and `src/tools` are
third-party code or not code of the program.  `main.c` only loops.

## Modules

| Module | What it is |
|---|---|
| `WifiEvents` | abstract: what observers of `wireless.c` may rely on |
| `Wireless`, `MCWireless`, `WirelessProofs` | `wireless.c`: three parties, one step per piece of code between two calls another party can see |
| `ObserverList` | abstract: the observers as a sequence |
| `Observers`, `MCObservers`, `ObserversProofs` | `list.c` and the walk of `raise_event` |
| `SerialAutobaud` | baud rate detection: the task and the RMT interrupt, interleaved per word and per flag |
| `SerialPort`, `MCSerialPort` | composes it with the life of a port: creation, configuration, deletion |
| `LogText` | abstract: the log is the last LOG_SIZE bytes written |
| `Logger` | the ring that implements it, one task at a time |
| `LoggerTasks` | the ring's length under calls of several tasks |
| `MCLogger`, `LoggerProofs` | an instance of both, proofs about both |
| `Arena` | the arena allocator |
| `Mempool` | the block pool and its callers |
| `Net` | opening of sockets by several tasks |
| `MCMemory` | an instance of the three, what is handed out and taken back |
| `LedControl`, `MCLedControl` | LED calls write by write, with the timer's interrupt between them |
| `PhyProofs` | proofs about `SerialPort` and `LedControl` |
| `JsonTokens` | abstract: the order of tokens that a consumer may rely on |
| `Json` | `json_parse`, one character per step |
| `JsonDocs`, `MCJson` | `Json` given the documents of the grammar, or any characters |
| `JsonProofs` | proofs about `Json` for any characters, and about `JsonDocs` |
| `ByteQueue` | abstract: a queue of bytes that can be unread |
| `Buffer`, `MCBuffer` | the two cursors and packing |
| `MemoryProofs` | proofs about `Arena`, `Mempool`, `Net` and `Buffer` |
| `Terminal` | the line discipline |
| `Repl` | the loop of commands and the splitting of a line within its buffer |
| `Str`, `Uri`, `Text` | what `str.c`, `uri.c`, `net.c` and `crc16.c` compute, as operators, and calls of them |
| `Algorithm` | the sorts and searches of `algorithm.h`, loop by loop |
| `MCConsole` | an instance of the last four rows |
| `TextProofs` | proofs about `Str`, `Uri` and `Text` |
| `ConsoleProofs` | proofs about `Terminal`, `Repl` and `Algorithm` |

`MCLogger`, `MCMemory` and `MCConsole` hold components that share no state.  A
behaviour of theirs belongs to one component, the others staying in their
initial state: the union of the components' state graphs is explored, not their
product, which would show nothing more.

### Wireless

`pc` is the application task's place in the code; `call` the call it is in.
`bits` is `g_evgroup`, `retries` is `g_retries`, `up` and `ssid` are of
`g_config` (of the SSID only whether it is empty matters).  `queue` is the event
loop's queue and `loop` says whether a handler is about to call
`esp_wifi_connect`: the handler's other effects and that call are separate
steps, so that anything may come in between.  `radio`, `link` and `target` are
the driver, modelled from how the code uses it: it delivers events in order,
refuses when it likes, and loses the link at any time.  `wifi_get` and the plain
stores of `wifi_set` are left out, and of the scan only its outcomes are kept.

A *session* begins where `phy_connect` clears the bits.  The ghosts `leased`,
`clean`, `refused`, `attempts` and `losses` record what happened since; no action
reads them.

* `RadioOwned`: the driver never runs behind `g_config.up`, the only thing
  `phy_disable` looks at.
* `FailIsEarned`, `LeaseIsReal`: the bits that end the wait are about this
  session.  Both hold only while no event of an earlier session was handled
  after the bits were cleared (`clean`); the code has nothing that tells such an
  event from a new one, so a stale GOT_IP can end the wait of a later join.
* `RetryBudget`: at most `MaxRetries + 2` connect requests per start.
* `CallResultHolds`: what `wifi_set` returns is true at that moment.
* `ObserverContract`: refinement of `WifiEvents`, which is given every event that
  a call raises, in order (`raised`).  A BEGIN has one outcome, with one exception
  that the contract names: `wifi_scan` that cannot enable the interface raises
  ERROR twice, from `phy_enable` (469) and again itself (393).  Only there: no other
  call, and no scan that failed later, may do so (`FailedTwice`).
* `CallReturns`, `LinkRetried` (liveness): under fairness of the two tasks, and
  of the driver bringing an association to some end.  Nothing obliges the
  application to call, a link to drop, or an access point that was joined to lease
  an address: the DHCP client asks again for ever, and tells nobody.  So there are
  two things that keep `phy_connect` waiting, and `CallReturns` says that there are
  no others: such a link, and `refused`, an `esp_wifi_connect` that is refused
  inside a handler, which nothing repeats.  The latter is also why these runs do
  not check deadlock.

### SerialAutobaud and SerialPort

A window is a model value per word, so that a mixed measurement can be told
from a clean one; what it is measured as is one of the standard rates, or "too
short".  `SerialPort` adds the port around it: `serialport_init` with or without
an RMT channel, the program's stores to the public fields, `serialport_configure`
and its refusals, `serialport_del`.  `serialport_set_config` is the same step
as `serialport_configure`: it parses into locals that it never stores, and
configures the old values.

Two histories mark what the code does not defend against.  `raced`: a window
ended inside a call of `serialport_autobaud`; the call to disable is lost when it
finds `running` momentarily cleared, or `running` is left set on a disabled
channel.  `failed`: `rmt_receive` failed, after which `running` is
false with the channel enabled.

* `RateIsTrue`: what `serialport_get_config` reports is what the UART does, as
  long as the program did not store a field without configuring after it.
* `DeletedIsQuiet`: behind `serialport_del` nothing writes to the port's
  structure, without a race and without such a failure.
* `SettlesWhenQuiet` (liveness): once no window arrives any more, the last
  measurement is not of two windows; `ready` is reset before the words are read
  and raised after they are written, so that a torn measurement is repeated.
  Fairness: the task polls `serialport_read`, an interrupt that began ends.

A port is created anew only when no interrupt of an earlier one is under way;
where one is left behind, `DeletedIsQuiet` is what went wrong.

### Observers

`next` and `prev` of every node.  Callbacks add and delete observers at any time,
without a bound.  A callback may delete its own observer (`stranded`): the node
then points at itself and `raise_event` stays on it.  Two callbacks that each
delete the other observer and add it again, behind themselves, keep the walk going
for ever as well.  `RaiseEnds` says that a walk without end is one of these two: it
stands on a deleted observer, or registrations during it never cease.
`EveryoneIsTold` is about the walks that end.  Adding an observer that is registered is
excluded by a guard: it cuts the list, and the code leaves it to the caller.

### Logger and LoggerTasks

Characters are model values, a message is any sequence of at most `MaxMsg` of
them; the level's code and the tag are one character each.  `log_str` turns the
ring one block at a time, and each turn is a step that must leave the text as it
is (`IsLastBytes`, a refinement of `LogText`).  This is one task at a time.

The turn moves the rest of the text down by a `memcpy` (143) whose regions overlap
as soon as the rest is longer than the block, which C leaves undefined.  `Copied` is
what it may leave: the bytes moved, where nothing overlaps, and *any* bytes where
something does.  `torn` remembers that the bytes were not those moved; from there
until the log is cleared, the text is arbitrary and `IsLastBytes` claims nothing.
With LOG_SIZE 7872 and a block of 2048 every turn overlaps: the log of the
firmware is in order only if the build's `memcpy` copies upwards.  `IsLastBytes` shows
that this is the only thing `log_str` depends on.

`LoggerTasks` is any number of them, with no text but every access to
`g_log.length`.  The structure is not volatile, so a second mention of the length
in a function may be a load or the value the task had last (`Seen`).  As long as
calls do not overlap every copy lies in the text (`CopiesStayInside`); calls that
overlap can leave the length beyond LOG_SIZE, and `log_write` then copies behind
the text.  `LengthComesBack` (liveness, fairness of the scheduler for tasks in a
call): once calls do not overlap any more and the log is written to, the length
returns, because each write behind the end adds less than the LOG_SIZE it takes off.  `Width` is
the 16 bits of the counter.  The buffer the messages are formatted in,
`g_log.temp`, is shared as well and not modelled.

### Arena

Addresses are offsets.  `blocks` and `saved` are what callers hold; a caller uses
a saved point only while the arena was not taken back behind it.  Sums and
products are those of unsigned integers up to `UintMax`; `wrapped` remembers that
a request was granted that did not fit one, which the test of the end lets pass.
`BlocksAreSound` (one owner per byte, inside the arena, on a boundary) and
`SavedIsValid` hold up to there.  `backed` says whether `malloc` gave the arena a
region: `arena_create` sets the size in any case, and `arena_alloc` then hands out
offsets from NULL, so that "inside" is claimed of a backed arena only.  Sizes that are not multiples of 16 let the
point pass the end; blocks still never do.

### Mempool

`free` is the mask as a set; `held` is the callers' side, kept apart from it so
that `Partitioned` has something to compare.  `Return` takes *any* pointer from
one before the array to one behind it, so that both tests of `mempool_unlock`
matter.  `aborted` names the check that called `abort`.  One task at a time, as
in the code that uses it; the usage histogram is left out, nothing reads it.

### Net

A request is a set of things asked of a socket; `todo` holds the steps it needs,
made in the code's order, each of them accepted or refused by the stack.
`netaddr_resolve` takes only a negative result of `getaddrinfo` for a failure,
so that one above zero leaves the address cleared (`void`).  `SocketsAreOwned`:
every open descriptor has exactly one owner, a call or the task it was returned
to.  `SocketIsAsAsked`: a socket that is returned is bound, listening and
connected as asked, except with such an address.  That setting the flags may
fail unnoticed is part of the model.  The host name is in a block of the memory
pool while it is resolved; that block is not modelled here.

### LedControl

A call puts the writes it makes into `todo`, in the code's order, and each is a
step: to a pin's direction or route, to `gpio[]` or `link[]`, to the timer.  A
call of `ledcontrol_detach` is one entry, which turns into its writes when its
turn comes: that is when the code looks whether the channel has a pin.
`Look` and `Light` are the interrupt's reading of `gpio[i]` and its use, one
channel after the other; `Light` may use the value read or read it again, as the
compiler chooses.  `sameCore` is chosen at the start: on the program's core the
interrupt holds the program up, on the other it does not.

* `ReleasedIsReset`: between calls a pin in no channel is back in its reset state;
  the driver's calls each demand a state of the timer, and `ledcontrol_del` never
  meets one it cannot delete.
* `ListedIsOutput`: the interrupt finds only output pins in the table, except
  while `ledcontrol_detach` is taking one out: the pin is reset before it is
  unlisted, and in that window the interrupt writes to a pin already given up.
* `PatternShows` (liveness): fairness of the interrupt only, which the
  auto-reloading alarm justifies.

Polarity is not modelled (`ledcontrol_shadow` leaves the route inverted,
`ledcontrol_attach` does not invert it).

### Json and JsonDocs

`jsn.at` is the coroutine's resume point; the named points stand for the yields
of `json_parse`.  `jsn.stack` holds the points to resume containers at.  `Chars`
are the characters the parser tells apart.  A step is a call of `json_parse`, the
nested calls it makes with the same character included: an item that begins, a
number that ends.  `text` is the token buffer of `Cap` bytes, which silently
drops what does not fit.

* `TokensNest`: refinement of `JsonTokens`, for arbitrary characters; `nest` and
  `want` are computed from the stack and the resume point.
* `TextIsWhole`: a token's text is its own, with its zero byte, if it fits.
* `GrammarAccepted`: each document of the comment's grammar is
  accepted, not before its end, with its tokens in order.

### Buffer

`data`, `pos`, `len` of the structure.  Every operation is an operator from a
buffer to a buffer and an action that applies it.  `IsQueue` is a refinement of
`ByteQueue`: the bytes before `pos` are what can still be unread.  Retracting and
preparing only ever give up the oldest bytes.  Packing and unpacking go through
a format item by item (`PackItem`, `UnpackItem`: one turn of the loop of
`buffer_packv` and of `buffer_unpackv`), as functions of the number of items
done.  "W" stands for the integers of up to 32 bits, whose letters are the same in
both functions.  A 64-bit integer is packed by "Q" and unpacked by "L" (`PackFields`,
`UnpackFields`); each function skips the other's letter, so that a format with a
64-bit field does not read what it has written.  `RoundTrip` packs every format of
the bound into every reachable buffer and unpacks it with its `Counterpart`, which
has the two letters exchanged.

### Terminal

`mode` is one of the three settings of the flags.  Keys are typed at any time;
a call takes one of them per step.  A key is a printable character, backspace,
return, newline, or "CTL", any other byte, which is kept in the line like a
printable one.  `seen` are the keys it read.  `LineIsEdited`
compares the line with a definition of what backspaces leave that does not
follow the code: a character stays if the level of the line (characters less
backspaces) never falls below the one it raised it to.  `HiddenIsHidden`: no printable
character typed at a hidden prompt is put on the device, and between calls the
echo is what the program set it to, whichever way the prompt was left.  It says
nothing of other bytes: behind a mask those are put out as they were typed
(`Masked`, terminal.c:146).  `LineReturns` is liveness under fairness of
the steps that read: the caller polls.

### Repl

`repl_run` takes lines until there is none or a command has called `repl_quit`;
`mem` is the line's buffer, `at` the read position, `word` where the current word
is written.  One character per step.  `input.line` keeps the line as it was
typed.  `InPlaceIsSafe`: nothing is overwritten before it was read, which is what
the comment "This should be safe" claims, and no argument by a later one.
`Words` spells a list of words from its end, each in one of the two quotation
marks or in none, special characters behind a backslash; `WordsAssumption` says
that the lines given with words spell them, behind the prefix, and `WordsArrive`
expects them back.  The label of each argument is looked up after the splitting
and left out.

### Str, Uri and Text

Operators from a text to what a function returns and what it leaves of the text.
`Text` has one action per function: it asks, and the state holds the answer.

* `UriIsRead`: a uri written from its parts comes apart into them, and of any
  text without a zero byte nothing is lost.  `WellFormed` are the uris that can be
  told apart from what they are written as: no component has a character that
  would end it, the authority is a login, a host and a port in one of the ways to
  write them, and a path does not look like a scheme or an authority.
* `NumberIsRead`: what is stored fits the type and is the number written, every
  number that fits is stored, and IPv4 addresses come back as they were formatted.
  `KBitsAreRead` is the same without the premise that the digits fit a u64, and
  does not hold.
* `ChecksumDetects`: a message with its checksum sums up to zero, and a change of
  one byte changes the checksum.  A byte and a checksum are the sets of their ones:
  "xor" is the symmetric difference, a shift moves each member by one.

### Algorithm

The macros' loops, one comparison or move per step (`Widen` is a turn of the loop
that looks for the shell sort's first gap), over items told apart from their
equals.  `SortedAndSplit`: a sort is a permutation in order; a search ends
at the place that divides the array.

## Runs

| Run | Bounds | Shows |
|---|---|---|
| `wireless` | 2 retries, queue of 3 | the safety properties, the contract with its exception, and liveness |
| `wireless_retries` | 1 retry | violation: one retry more than MAX_RETRIES |
| `observers` | 3 observers | list and walk |
| `autobaud` | 2 rates and one out of range, 2 words | the rate is true, deletion is quiet, detection settles |
| `logger` | ring of 4, block of 2, messages up to 5; 2 tasks, ring of 3, messages of 1 and 2, counter of 8 values | refinement of `LogText`, an undefined `memcpy` apart; overlapping calls |
| `memory` | see below | every byte, block and descriptor has one owner |
| `json` | depth 2, text of 2, 2 items per container | nesting and texts for any characters, the grammar accepted |
| `json_end` | depth 8, text of 2 | violation: an end not reported |
| `buffer` | 4 bytes of 2 values, calls of up to 5 | queue and round trip |
| `leds` | 2 channels, 2 pins, 2 bits | pins, table and timer stay in step, every bit is shown |
| `console` | see below | lines, words, uris, numbers, checksums, sorts |
| `numbers` | as `console` | violation: a number read as another one |

Two retries already distinguish "before", "at" and "past" the limit; the queue of
3 lets stale events of two stops wait in front of new ones and lets it fill up.
Three observers give a first, a middle and a last one.  Two words are enough for
a torn window, two rates for a wrong one.  A ring of 4 with messages up to 5 hits
every boundary of `log_write`: shorter, exact, wrapping, longer than the ring; a
block of 2 gives both a full turn, whose regions do not overlap, and a partial one,
whose regions do.  With two tasks a counter of 8
over a ring of 3 leaves room for a length that is wrong by more than a log.

`memory`: arenas of 40 and 48, of which one is a multiple of 16, and of none;
requests on, below and above one unit, and 65530, which wraps a 16-bit unsigned
when rounded, and 32768 of them when multiplied.  Pools of 4 blocks of 2, which
have an inside that a pointer may point to.  Two tasks, two descriptors and four
kinds of request: one task can find none left.

Two channels and two pins allow moving a channel, sharing a pin and crossing
over; two bits give the counter a wrap.  A JSON stack of 2 is filled by the
documents of two levels, which just fit, and overflown by arbitrary characters; a
text of 2 is exceeded by the next character.  Calls of up to 5 bytes exceed the
buffer of 4, and two byte values show a wrong order.

`console`: four keys overfill a line of 2, with backspaces at its start and at
its end.  Command lines are all those of up to 4 characters, those of letters and
spaces of up to 9 (more words than the 4 slots) and spelled ones of up to 3 words.
Uris are all texts of up to 5 of 8 characters and those composed of parts, each
present or not.  Numbers have up to 4 digits, in decimal and hexadecimal, for 8-bit
types inside a "u64" of 1024 values, so that they lie inside the narrow type,
between the two, and beyond both.  Addresses use bytes of one, two and three
digits, checksums all messages of up to 3 bytes out of 4 values.  Arrays have up
to 5 items of 3 keys: ties, and the two gaps of the shell sort that matter.

Type invariants are proved where a module has proofs, as theorems of their own or
as parts of the inductive invariants; the runs check what relies on them.

Deadlock is not checked where the system may stop: an `abort`, the end of a
document or of the typing, a call of a pure function, the refused connect above;
the configurations say so.

## Proofs

TLAPS proves these for every value of the constants, from the named assumptions.
The eight modules of proofs hold one section per component.

`WirelessProofs`

* `IInv` is the type invariant, the control invariant (what each `pc` says of
  `up`, `radio` and `target`), `RadioOwned`, and `Budget`: attempts made plus
  retries left never exceed the limit, counting a connect that a handler is about
  to make.  `RadioOwned` alone is not inductive: that the radio may be started at
  `connectStart` relies on `up` having been set on the way there.  From it follow
  `TypeCorrect`, `RadioIsOwned`, `RetriesAreBounded`, `ResultsHold`,
  `LeasesAreReal` and `KeepsContract`, the refinement of `WifiEvents`, one step per
  action, each with the very events it adds to `raised`; the scan that raises two
  errors maps to `FailedTwice`, because it has raised BEGIN and nothing else and the
  radio is off.
* `FailuresAreEarned`: `SessionInv` adds where the start event of a session that
  nothing stale has disturbed can be (still to come from the driver, once in the
  queue, or handled), and that from then on losses seen plus retries left are
  exactly `MaxRetries` (`Counted`).  `FailIsEarned` does not mention the queue, and
  is not inductive without it.

`ObserversProofs`

* `LinksStayConsistent`: both directions agree, deletions of the node a walk
  stands on included.
* `NobodyIsLeftOut`, `LinksKeepASequence`: `ListInv` says that *some* sequence `s`
  of distinct observers is what the links spell (`Holds`), and that what a walk
  has told so far and has still to tell cover those that stayed (`Told`).
  `Walk`, the recursive function that reads the sequence off the links, is shown
  to give that `s` by induction over the number of nodes read (`WalkIsHeld`).

`PhyProofs`

* Serial port: `Detection` says what `running` means at each step of
  `serialport_autobaud` and of the interrupt, where there was no race and no
  failure: outside a call it says whether the channel is enabled, except between
  the interrupt's reset and its new capture.  `DeletionIsQuiet` follows, as
  `serialport_del` goes by that flag.  `RateIsReal` needs no history.
* LED control: `LedInv` is about the writes still in `todo`, counted from the
  last: what is to be unlisted is preceded by its reset, what is to be listed was
  made an output by then or will be (`Unlisting`, `Listing`, `Resetting`,
  `Driving`), and the timer's state makes each of its writes left legal
  (`Timing`).  Counted that way, a step that takes the first write leaves the
  others their places.  `PinsAreGivenBack`, `TheTableIsDriven`.

`LoggerProofs`

* `OneAtATimeIsSafe`: with one call at a time the value a task saw last is the
  length, so both of `Seen` agree; then what is copied and what is left of the
  message follow step by step.
* `LogIsLastBytes`, the refinement of `LogText`: what the ring shows after a write
  is the latest bytes of what it showed before with the message behind
  (`WriteKeepsLatest`, byte by byte in `ComesFrom`), a long message is written
  as two (`LatestTwice`), and a turn of the ring in place shows the same text
  (`TurnKeepsView`), if the overlapping bytes were moved; otherwise the step sets
  `torn`, which is the exception in `IsLastBytes`.

`MemoryProofs`

* Arena: up to the first request that wraps around, everything handed out ends at
  or before the point, which is a boundary; between whole multiples what fits
  unrounded fits rounded (`RoundIsCeiling`).  `BlocksAreSafe`, `SavesAreValid`.
* Memory pool: `PoolIsPartitioned`, then `CountsBalance`, which needs it: a block
  locked is not held and a block unlocked is, so that each step moves the size of
  `held` by one.  `BlockOfPointer` is the arithmetic of an accepted pointer.
* Network: `SocketsHaveOwners` and `SocketsAreAsAsked`, for any number of tasks and
  descriptors.  The invariant says of each call which steps are behind it: what is
  no longer in `todo` was done to its socket, or had a void address.

* Buffer: no operation moves `pos` past `len` (`CursorsStayInOrder`).  Packing and
  unpacking are functions of the number of items done; `LoopRuns` shows that such a
  function is defined by its turns, and induction over that number gives that each
  turn keeps the cursors in order (`PackedRuns`, `UnpackedRuns`).  `BufferIsQueue`,
  the refinement of `ByteQueue`: each operation is one of the queue's, packing a
  whole format a single write, unpacking it a single read.  `PackingRoundTrips`: the
  turns of unpacking mirror those of packing (`TurnsMirror`), the byte order at hand
  and the letters exchanged included; by the same induction the values that come out
  are those that went in.

`TextProofs`, for texts of any length over any characters

* `ChecksumsDetect`: a step of the shift register makes different values of different
  ones (`ShiftTells`), so do eight of them (`NextTells`), and so the sums stay
  different to the end of the message (`ChangeShows`), and two bytes equal to the checksum shift it out.
* `NumbersAreRead`: the digits given to `str_readu64` are what they spell modulo
  2^64, by induction over their number; what is left is which of them fit, with and
  without a sign, for each reader.  For a number with a fraction the digits behind
  the point follow those before it; for an address each byte is read up to its dot.
* `UrisAreRead`: a component that is written without the marks that end it is what
  `str_cspan` cuts off in front of the first mark, and what was cut is put together
  again, one component after the other, as `uri_parse` goes.  `WellFormed` is
  exactly what each of these steps needs of the components.

`ConsoleProofs`

* Repl: `SplitInPlace`, `TypeCorrect`.  `InPlaceIsSafe` is not inductive alone;
  `Behind` adds that the write position never passes the read position, that
  every argument ends before both, and how many slots are taken in each phase.
  `SpelledWordsArrive`: `SpellInv` says that what has not been read is the spelling
  of what is left of the current word and of the words to come (`InWord`,
  `LastWords`, counted from the last), and that what was written so far are the
  words before, which rests on `InPlaceIsSafe`.
* Terminal: `HiddenStaysHidden` is an action property; `EchoIsKept` says where the
  echo set by the program is to be found while a prompt is hidden.
  `LinesAreEdited`: a key more adds itself to what is kept (`Kept`) or takes the last
  away (`KeptWithOneMore`); the last is the only one that the level can fall below
  (`KeptAscend`, `KeptAbove`).  That levels climb by one per key (`LevelClimbs`) is
  by induction over the length of the text.
* Algorithm: `SortsAndSearches`.  `SortInv` has a part per loop: what is in order
  already (`InOrder`, `LeastFirst`), the item held outside the array, and what the
  two ends of a search have between them (`Halving`).  That the shell sort ends
  with gaps 1 and 0, which is why its last pass orders all of the array, is an
  invariant about `Gaps`, the least set that holds 0 and, with each gap, three times
  it plus one: dividing a gap by three leads to the one before (`GapBefore`).

`JsonProofs`, the first two for any characters and any calls of `json_init`

* `TokensAlwaysNest`, the refinement of `JsonTokens`: a key's "colon" is found on
  top of the stack only, and only while its string is read (`Sound`); so what a
  token leaves open and what may follow it can be read off the resume point and
  the stack after every step.
* `TypeCorrect`, `TextsAreWhole`: `TextInv` says that while a string or number is
  read the text buffer holds what was read of it and nothing else.
* `GrammarIsAccepted`, for documents of any `Items` per container and of up to
  `Levels` containers around a scalar, `Levels` no more than the stack's `Depth`.
  The argument goes from the end of a document backwards.  `Good` says of a point
  of the coroutine, a text and a row of tokens that the text is accepted from
  there with these tokens; `Moves` are the steps of the parser within a document,
  and `MovesHappen` shows that `json_parse` makes them.  A value `Leads` from the
  point before it to the point behind it if it turns a good text, put in front of
  it, into a good one: first for scalars (`ScalarsRead`), whose numbers leave the
  character behind them to the container (`UnspacedEnd`, `SpacedEnd`), then over
  the items of a container (`ChainLeads`, by induction over their number) and over
  the levels of a document (`ValuesRead`).  The invariant `DocInv` says that what
  is left of the document is good from where the parser is.
* `DocumentsAreCalls`: what is given of a document are calls of `json_parse` like
  any others, so that the first two hold of documents as well.

Model-checked only:

* all liveness, which is out of TLAPS's reach here: `CallReturns`, `LinkRetried`,
  `SettlesWhenQuiet`, `RaiseEnds`, `LengthComesBack`, `PatternShows`, `LineReturns`.

Every safety invariant, action property and refinement that a passing run checks is
proved.

Induction over natural numbers is done where it is needed without such a parameter:
as the least element of the set of counterexamples (`SetInduction`) over a recursive
function, or as a least closed set (`Gaps`).

## Findings

* `event_wifi` makes `MAX_RETRIES + 1` retries before it reports "Maximum
  retries reached": the counter is tested before the decrement and against 0.
* The bracket right behind a number closes its container without a token: the
  result of the second call in `json.c` (215) is dropped, and with it
  `JSON_ARRAY_END`, `JSON_OBJECT_END` or an error.
* `str_readu64` wraps around, and `str_readu8` to `str_readi64` with it: what is
  left of too many digits is returned with success, if it fits.

Part of the models, and worth a look:

* `arena_restore` can abort on what `arena_save` returned, when the size given to
  `arena_create` is not a multiple of 16; and a request near the end of the range
  of `unsigned` wraps around and is granted.
* `log_write` has no lock: overlapping calls can leave its length behind the text.
* An observer that deletes itself in its callback is called for ever, and two that
  delete and add each other are called in turns for ever.
* `wifi_scan` raises ERROR twice for one BEGIN when the interface cannot be enabled.
* `phy_connect` waits without a limit: for an address that never comes, or for the
  outcome of a connect that was refused.
* `log_str` gives `memcpy` overlapping regions in every turn of the log (143), where
  C asks for `memmove`.
* Behind a mask `terminal_input` puts out bytes that are not printable as they are.
* `arena_create` sets the size of a region that `malloc` did not give.
* A window that ends inside `serialport_autobaud`, or a capture that fails, leaves
  `autobaud.running` wrong, and `serialport_del` goes by it.
  `serialport_set_config` does not store what it parses.
* `netaddr_resolve` takes a positive error of `getaddrinfo` for success.
* `json_parse` takes `[1,]`, which the grammar excludes (`[1, ]` is an error), and
  a number without digits; a key is returned though the stack overflowed on it.
* An unterminated quoted word is dropped from a command line without a sign.
* `buffer_packv` writes 64-bit integers as `Q`, `buffer_unpackv` reads them as
  `L`, so that no format with one reads back what it wrote; `buffer_append` tests `buf` where it means `ptr`.
* `str_readf64` adds the digits behind the point to a negative integer, so that
  "-1.5" reads as -0.5.
* The authority of a uri ends at "/" only, not at "?" or "#".
* `mac_parse` expects dots, the format that prints addresses writes colons.
* The comment on `GENERATE_UPPER_BOUND` (algorithm.h:124) speaks of the last item;
  the place returned is the one behind it, which is the place `SortedAndSplit` asks
  for.

## Not modelled, and the plan

* `wifi_get`, and the options of `wifi_set` that only store; `argk`, the labels of
  `repl_eval`'s arguments; `serialport_write` and the `*_get_config` functions;
  `terminal_printf`, `netaddr_format`, `netaddr_compare` and the table of
  services: formatting, looking up and comparing without state.
* `g_log.temp`, the buffer in which the tasks that log format their messages:
  what overlapping calls leave there is any mixture of characters.
* `str_find`, `str_cmp` and their variants, which no modelled code uses.
* The widths of integers in `buffer.c`'s formats up to 32 bits (one letter stands
  for them), and the polarity of LEDs.
* `mac_parse`, the loop of `ipv4_parse` for six bytes in hexadecimal, and
  `mac_format`, which do not fit each other (see the findings).
* `util/system.c` holds getters over ESP-IDF, `main.c` loops, the other headers
  hold macros and types.
* `src/lib` (curl, libssh2, yxml) is third-party code that this program's own
  sources do not call yet; `src/hardware` and `src/docs` are not code.

Every component of the program that keeps state is modelled, and every safety
property of the passing runs is proved.  Left is what the sections above name: the
liveness properties, which stay with TLC, and the parts that are not modelled.
