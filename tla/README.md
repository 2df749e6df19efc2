# Verification of pyharp

TLA+ models of [pyharp](../src), the Python client of the Harp protocol: what they
model, what TLC checks of them, and what TLAPS proves. Source files are named without
their common prefix `src/packages/<package>/src/harp/`.

## The system

A *Harp device* is a microcontroller at the end of a serial line. It has registers,
each with an address, and exchanges *frames* with its host: the host reads and writes
registers, the device answers every request, and sends events of its own accord.

| component | source | state it keeps | operations |
|---|---|---|---|
| `Device` | `device/client/_device.py` | `_pending`, `_fault`, `_running`, `_event_queue`, `_subscriptions`, `_registers`, `_catch_all`, two threads, two locks | `open`, `close`, `read`, `write`, `subscribe`, `subscribe_all`, `unsubscribe` |
| `HarpFramer` | `device/client/_framer.py` | `_buf`, `_pos` | `feed`, `next_frame`, `parse_bytes` |
| `ITransport`, `SerialTransport` | `device/client/_transport.py`, `serial/_serial.py` | the serial port | `open`, `read`, `write`, `close` |
| message codec | `protocol/_message.py`, `_builder.py`, `_checksum.py`, `_message_type.py`, `_payload_type.py` | none | build, parse, decode |
| registers | `protocol/_register.py` | none | `parse`, `format`, and both in bulk |
| payload classes | `protocol/_payload.py`, `_payload_converters.py` | the layout each class declares | masks, bit fields, group masks, converters |
| core registers | `device/core/__init__.py` | none | declarations |
| schema compiler | `device/schema/*.py` | the masks, payload classes and registers emitted so far | `device.yml` to a module of register classes |
| datasets | `data/*.py` | a folder of files of frames, and a reader's list of them | `open_dataset`, `read`, `to_file` |
| benchmarks | `harp-benchmarks` | none | timing scripts |

How they interact: a caller's thread runs `read` or `write`, which register a queue in
`_pending`, call `transport.write` and block on the queue. The reader thread calls
`transport.read`, feeds the framer, and gives each frame it returns to `_dispatch`,
which puts it in the queues waiting for it and in `_event_queue`. The event thread takes
the frames from there, decodes them with the register subscribed at their address, and
calls the handlers; a handler may call the device again. `_pending_lock` guards
`_pending` and `_fault`, `_sub_lock` the subscriptions, and each is released before a
queue is filled or a handler is called. `close()` takes no lock: it lowers `_running`, joins
both threads and closes the transport, on whatever thread it is called. The codec is what
both ends of this share, and what the files of a dataset are made of. A register class says
what a payload means; it comes from the core, from a hand-written module, or from the schema
compiler, and the device and the dataset reader look it up by address.

What is hard here:

* *Interleavings.* A reply, a failure, a timeout and `close()` race for one request. The
  hand-over takes two steps (copy the waiters under the lock, fill their queues after it).
* *Stale state.* Late replies meet later requests for the same register; subscriptions
  and the register of an address change under a delivery; `_fault` and the framer's
  buffer outlive the session.
* *Partial failure.* The transport fails, a frame is damaged, a payload does not decode,
  a handler raises, in the middle of a longer job.
* *Deadlock and liveness.* Two joins, two blocking queues, and a sentinel; `close()` from a
  handler, and from two threads at once.
* *Shared names.* Masks, payload classes and registers of a schema meet in one module, and
  payload classes are shared by name.
* *Boundaries.* Chunks that cut frames anywhere, the length byte, ticks and seconds.

What makes each component correct:

* requests: every request ends, with the *first* answer dispatched after it registered,
  or the failure, or a timeout that is raised only if it missed nothing; no waiter leaks;
* events: each subscription gets exactly the messages it asked for, in order and once,
  whatever other subscriptions and handlers do; a thread left behind by `close()` ends;
* session: there is one reader at most; a `close()` that returned has released everything,
  whoever else closes; an open device has an event thread;
* framer: what comes out depends on the bytes, not on the chunks; memory is bounded;
* codec: build and parse are inverse, damage is noticed, times survive;
* payloads: fields do not touch one another; what is written is what is read; a table of
  many records says what each record says;
* registers: many frames at once give what each gives alone;
* schema: declarations keep their names, masks and payload classes all their members;
* datasets: all frames of a register, in order, none twice.

## The modules

| module | what it is |
|---|---|
| `Requests` | requests and replies of `Device`: callers, reader, lifecycle, the device |
| `RequestContract` | what `Requests` promises: a reply or failure reaches all its requests at once |
| `Subscriptions` | event delivery of `Device`: subscribers, event threads, `open` and `close` |
| `Session` | `open()` and `close()` as a whole: users, handlers, the threads, the port |
| `HarpMessage` | the frame, byte by byte: operators only |
| `Wire` | one frame built, damaged or not, and parsed |
| `HarpFramer` | `_framer.py`, on the bytes of `HarpMessage` |
| `FrameStream` | what `HarpFramer` promises of a stream of bytes, without chunks or buffer |
| `Payload` | one payload class: declared, constructed, parsed |
| `Columns` | many payloads of a class at once: batches and data-frame columns |
| `Register` | `parse`, `format` and their bulk forms, on frames: operators only |
| `Dataset` | a folder of register files, recorded or written, opened and read |
| `Core` | masks and registers of every device: operators only |
| `Schema` | the schema compiler, from a parsed `device.yml` to a module |
| `RequestsProofs`, `SubscriptionsProofs`, `WireProofs`, `FramerProofs`, `PayloadProofs`, `DatasetProofs` | theorems |
| `DeviceProofs` | theorems on the two parts of `harp-device` left: `Session` and `Schema` |
| `HarpMessageProofs` | lemmas on sums, bytes, frames and times that three of these share |
| `MC*` | the instances TLC checks |

`Columns` extends `Payload`; `Register` extends `HarpMessage`, and `Dataset` extends
`Register`; `Schema` extends `Core` and takes the checks of a payload class from `Payload`
by `INSTANCE`. `DeviceProofs` extends two specifications, so those of `Schema` are told apart by
their names, `SchemaInit` to `SchemaSpec`; so are those of `Wire` and `HarpFramer` (`WireInit`,
`FramerInit` and so on), which `MCFrames` extends together with `Columns`: the three share no
state, and in each behaviour of the instance one of them moves. `Requests`, `Subscriptions` and `Session` are three views of one class: each
keeps the state its properties need and makes the rest of the device an abstract partner
(`Session` has messages that are only tokens, `Requests` no handlers).

### Requests

One action per step between two lock operations, queue operations or transport calls;
a critical section of `_pending_lock` is one action.

| state | code |
|---|---|
| `life`, `running`, `opens` | where `open()` and `close()` stand, `_running` |
| `rpc`, `targets`, `handled` | `_read_loop`: the program counter, the list `waiting`, the message being dispatched |
| `stream`, `taken` | what the device sent, and how much of it `transport.read` has returned |
| `pending`, `fault`, `eventQueue` | `_pending`, `_fault`, `_event_queue` |
| `box` | what `get()` on each waiter's queue returns: only its first item matters |
| `pc`, `mine`, `key`, `outcome` | each caller in `_request`: place, `q`, `key`, what it returned or raised |
| `made`, `born` | history: queues made; messages dispatched when a request registered |

`Register`/`Refuse` are the first critical section of `_request`, `Write`/`WriteFails` the
transport call, `Receive`/`Timeout` the `q.get`, `Cleanup` the `finally` block and the
decoding in `read`/`write`. `Loop` to `ReadFails`, `JudgeFailure`, `Sweep`, `Report`,
`Dispatch`, `PutReply`, `Enqueue` are the reader. A message is a record of what the code
looks at: address, type, error flag, and whether the payload decodes.

`RequestContract` has one action for the whole hand-over of a reply (`Answer`) or failure
(`Break`). The refinement maps a request whose queue is still empty, but which the reader
has copied from `_pending`, to one that already has its answer (`Offer`).

### Subscriptions

`subscribe`, `subscribe_all` and `_remove_subscription` are one action each (one critical
section of `_sub_lock`); `unsubscribe()` is `Remove`, then `Deactivate`. An event thread
is `Get`, `Snapshot` (the copy under the lock, with the register of that moment), and
`BeginCall`, `HandlerReturns` or `HandlerRaises` for every handler: `todo` is the rest of
the copy, and `BeginCall` passes over those that did not ask for messages of this type (`Due`). Every `open()` starts a thread of its own, all on one
queue, as in the code. `log`, in which each call has its thread, and `since` are history.
`Joined` is the join of two seconds in `close()`: it returns when the thread has ended, and may
return while the thread is in a handler, the only thing on it that takes time. So threads of two
sessions may run at once.

### Session

Every statement of `open()` and `close()` that reads or writes an attribute of the device
is an action; `call` says where each thread stands in them. A closer is a user thread or an
event thread, whose handler calls `close()`.

| state | code |
|---|---|
| `running`, `thread`, `eventThread` | `_running`, `_thread`, `_event_thread`; the i-th `open()` starts reader i and event thread i |
| `joined` | the thread that a `close()` waits for: `_thread.join()` reads the attribute once, then blocks |
| `port` | `SerialTransport._serial`: `None`, open, closed |
| `queue` | `_event_queue`: messages and sentinels |
| `reader`, `event` | where each `_read_loop` and `_event_loop` stands |
| `released` | history: a `close()` has returned without raising since the last `open()` |

A join is two actions, `JoinReader` and `AwaitReader`, `JoinEvents` and `AwaitEvents`: a second
`close()` may clear the attribute while the first one waits, which goes on all the same.
`JoinMayTimeOut` says whether a handler may outlast the join of the event thread.

`CloseRaises` is the `AttributeError` of a join on an attribute another `close()` has
cleared, and the `RuntimeError` of a thread that joins itself; the rest of that `close()` is
then lost, as in the code. `NotIdentified` is every way in which the WhoAmI check fails.
`open()` is taken to be called on a device that nobody is opening or closing; the code
does not protect a caller who does otherwise, and the model does not say what happens then.

### HarpMessage, Wire, HarpFramer

Bytes are numbers from 0 to 255 and bits are taken out by division. `Parses` has the
checks of `HarpMessage.parse` in their order. Times are counted in parts of a tick of
32 us (`Part` to a tick, 4 in `Wire`), and rounded half to even as Python does; the
floating-point error of `timestamp - seconds`, far below a quarter tick for u32 seconds, is
left out. TLC's integers have 32 bits, so the times checked end at 17179 s; those of the
proofs end where u32 seconds do (`SecondsFit`). Recursion is written as functions of the
position: `SumsOf` the sums of the first bytes, `FramesFrom` the frames from a position on.

`HarpFramer` keeps `_buf` and `_pos` as they are. `next_frame` is one action: the loop
skips bytes up to the first that is not `Skipped`, which is said by a quantifier. The
stream, what of it was fed, and where frames were found, are history.

### Payload and Columns

A behaviour of `Payload` is one class: `Declare` is `_build_struct_dtype` with its two checks, `Call` and
`Encode` the constructor, one action per argument (their order is the caller's, but
defaults come first), `OutOfBounds` and `Unexpected` its errors, `Parse` is
`RegisterBase.parse` of a payload of some length. A number is the set of the positions of
its ones, so that masks are sets, shifts are additions, and the merge of a masked field
into its element is said with set difference and union. Where a converter raises for too
large a number, it may also wrap it, as numpy does for its own scalars.

`Columns` adds operators on sequences of records: `Batch` is what the vectorised
descriptors read, `EnumColumn` the category codes of `payload_as_columns` with the lookup
table that ends at the largest member, `FlagColumns` one truth column for each flag.

The fields' slots are compared as the code does, each with the one before it in a sorted list
(`Sorted`, one of those that `Lists` them); that this finds every overlap is a theorem.

Abstracted: the kinds of descriptors are three (`whole`, `masked`, `flags`), the converters
four; `text` stands for those that cut what does not fit.

### Register and Dataset

In `Register` a record is its bytes. `FormatBulk` and `ParseBulk` are the table of equal rows
that the code lays over the buffer: the stride comes from the first frame, `View` is the
strided view, `ViewFits` numpy's refusal of one that leaves the buffer. `Inferred` is the
register that `read()` makes up from the first frame. `BulkFormats` has the refusals of
`format_bulk`, the last of which is numpy's, of a length that is not a byte.

| state of `Dataset` | code |
|---|---|
| `files` | the folder: the bytes of each file, and as history the frames meant and one that was cut, whose beginning ends it |
| `deviceYml` | the `device.yml` in it: absent, damaged, or a module and its `whoAmI` |
| `reader` | the `DatasetReader`: module, name, and the chunks it found when it was opened |

`Log` and `Tear` are the recording, which is another program: it appends frames, and may
die in the middle of one. `ToFile` is `to_file`; `Open` is `open_dataset`, with a module, a
schema file or the folder's own, with or without a name and validation. Reading changes
nothing, so it is the operators `Reads` and `ReadRegister`, which the invariants apply in
every state. File names are sequences of the parts between underscores, listed in name order
(`Among` keeps that order). What is recorded and written is assumed to be messages that a
frame can be built of, and what is read and written with, registers (`TrafficAssumption`,
`ValuesAssumption`, `ModuleAssumption`).

### Core and Schema

`Core` is the declarations of `core/__init__.py` as records. A behaviour of `Schema` compiles
one schema: `Validate` is the name check of `_module.py`, `BuildEnums` the masks,
`BuildRegister` one register (`EmitPlain`, `EmitTyped` with the cache of payload classes, or
`Refuse` with the error raised), `CreateDeviceModule` the module, its map and the other
`Attributes` of the device. `enums`,
`payloads` and `registers` are the fields of the emitter, `module` the names of the result.
`ResolveConverter` is the decision of `_resolve_converter` in its order. How a key is spelled
in Python is a function from outside, of which some keys have one value, so that renaming collides.

## The runs

| run | question | bounds |
|---|---|---|
| `requests_safety` | wakeups, leaks, wrong replies, order of dispatch, honest timeouts, the contract | 2 callers, 2 requests, 2 messages, 2 sessions |
| `requests_release` | liveness | 2 callers, 2 requests, 2 messages, 1 session |
| `requests_stale_fault` | *violation:* `_fault` survives `open()` | 2 callers, 2 requests, 1 message, 2 sessions |
| `subscriptions` | delivery, order, registers, cancelling, sentinels, liveness | 2 subscriptions, 2 addresses, 1 register class, 2 messages, 2 sessions, joins may time out |
| `subscriptions_order` | *violation:* a handler subscribed first is called last | as above, 1 message, 1 session |
| `subscriptions_threads` | *violation:* two handlers at once | as `subscriptions` |
| `session` | readers apart, what `close()` releases, liveness | 2 users, handlers close and outlast the join, 3 sessions, 2 messages |
| `session_events` | *violation:* an open device whose handlers are never called | 1 user, handlers close, 2 sessions, 1 message |
| `frames` | frames: round trip, damage, times; streams: chunks, memory, frames found; payload classes: layouts, merging, round trip, columns | frames, damage and times at every boundary (`MCFrames`); 73 streams of 2 or 3 pieces, chunks of 0, 1, 2, 5, 6 bytes, `CompactAt` = 5; 1353 classes of 2 or 3 fields out of 11, elements of 1 or 2 bytes, values that fit everywhere, in some fields, in none; batches of codes named, in gaps and behind the last |
| `dataset` | every complete frame once, files like a device's, the right device | 5 files, 2 devices, 3 frames, 2 parts of a tick |
| `schema` | names, members and their bits, shared classes, the core | pairs of 30 registers, 4 lists of masks, 2 sets of converters, with and without `require_converters`; and `core.yml` |
| `schema_names` | *violation:* a mask replaced by a payload class of its name | as `schema` |

Why these bounds are enough: two callers are what it takes to share a reply or to race
for a key; two requests let one caller's late reply meet its next request; two
messages are a reply and its duplicate, or two events between which a subscription
changes; two sessions are what it takes for state to survive one, and a third lets a
thread left over from the first meet a reopened device. Two users and the handlers are the
three places from which `close()` can be called at once. Streams have up to three
pieces: what is before a frame, the frame and what is behind it, with every chunk
boundary; `CompactAt` is scaled down so that compaction happens in them. Payload classes have
two fields, the pairs that can collide, and three, where the third shares an element with
them or lies between. The five files are three chunks of one register, one of which ends
like the number of another register, a file of a second register, and one of a device whose
name begins with the name of the first; three frames fill two chunks and leave one for a
cut end. Two registers are what can share a name, a payload class or an address. Properties
that are proved hold for all bounds anyway. The `IInv` of a module is
the inductive invariant of its theorems, which TLC agreed to before it was proved;
`requests_safety` keeps checking the one that has the most parts.

`CHECK_DEADLOCK FALSE` throughout: every model has final states once its bounds are
used up and everything is closed.

### What the failing runs show

* `_fault` is never reset. After a transport failure, `close()` and `open()` start a
  reader that works, yet every request raises the old failure (`_device.py:406`).
* A `close()` from a handler queues its sentinel and then fails to join its own thread
  (`:207-208`); a second `close()` queues another. One of them is still there when the
  device is opened again, and ends the new event thread: no handler is called any more.
* `_deliver_event` calls the handlers of the address first, and those of `subscribe_all` after
  all of them (`_device.py:349`). A handler subscribed to everything before another is
  subscribed to a register is called last, although the docstring promises subscription order
  (`:276-277`), also for `subscribe_all` (`:300`). `HandlersInOrder` is what does hold: the
  order of subscription within each of the two kinds.
* `join(timeout=2.0)` (`:208`) returns over a handler that takes longer. When the device is opened
  again, a second event thread takes messages from the same queue and calls a handler while the
  old one still runs, although the docstring promises a single event thread and one message at a
  time (`:273-277`). What does hold, also then, are `HandlersInOrder`, per thread and per
  message, and `SentinelPerThread`: an open device keeps one thread that no sentinel is meant for.
* A register's payload class takes its name from `interfaceType`; where that is also the name of a
  mask, here `Pulse`, the class replaces the mask in the module (`_module.py:109`). Only masks
  and registers were compared before, to reject a name of two declarations (`:75-76`).

### Seen while modelling

Not made runs of their own:

* Device. A handler may be called after its `unsubscribe()` returned: the event thread works
  from a copy of the list (`:346`); `GoneForGood` is what does hold, at most the calls of the
  message under way. `subscribe()` overwrites the register of the address (`:288`), so that a
  second class at one address retypes what the first subscriber gets, whatever `:266-267`
  says of its handler. A failure of `transport.write` is recorded nowhere, so the
  next request is tried and waits (`:410`); a reply that does not decode raises
  `HarpParseError`, which the list of failures at `:109-114` leaves out.
* Transport. If the port opens but setting `dtr` fails, `open()` raises and keeps the open
  port until `close()` or the next `open()` (`_serial.py:27`).
* Framer. A stray byte that looks like a message type, with a large length behind it, holds
  back complete frames until enough bytes come, and for ever in `parse_bytes` and
  `parse_file` (`_framer.py:64`), which `FrameStream` therefore allows.
* Payload. The docstring of `GroupMask` speaks of a strict decode (`_payload.py:202-203`); the
  code keeps a number that no member has (`:243-251`).
* Registers and datasets. `parse_bulk` bounds its view of the payloads by the end of the buffer
  alone, so it reads the checksum as payload where every frame is one byte short of the
  record, while `parse` raises (`_register.py:225`). Chunks are concatenated before they are
  parsed (`_dataset.py:195`): a frame cut at the end of a chunk that is not the last shifts
  every frame behind it. `CompleteFramesRead` therefore demands that only the last chunk ends so.
* Schema. A private register class may replace a mask or a payload class of its name, as a
  payload class a mask (`_module.py:109`). A declaration called `DEVICE_NAME`, `WHO_AM_I` or
  `REGISTER_MAP` is replaced in the module by the attribute of that name (`_module.py:117-122`);
  `NamesKept` says so, and `OneDeclarationPerName` leaves these names out. `converter: None` in a `device.yml` is the converter called `None`, not the absence
  of one (`_model.py:53-54`, `_emit.py:355`, `:475`). Registers that share an `interfaceType` get the
  payload class of the first, also if their `payloadSpec` or element differs. Of two registers
  of one address the later is in the map. The width of a native `interfaceType` is not
  compared with the element of a plain register, a register with a `maskType` ignores its
  `length`, and a `bool` is one byte whatever its `length`.

## Fairness

`SpecScheduled` of `Requests` has weak fairness for the reader thread, for each caller's
next step other than its timeout, and for the rest of an `open()` or `close()` once begun: threads
are scheduled, and `transport.read` returns after its own timeout. Nothing makes the
device send, a caller call or a timeout expire, so `FailureReleases` and `AnswerReleases`
hold by hand-over alone. `EveryRequestReturns` assumes in addition, in the property itself,
that a blocked `get(timeout=...)` ends.

`SpecFair` of `Subscriptions` has weak fairness for each event thread, for the end of each
handler call, and for the step of `close()` behind the join. `SpecFair` of `Session` has it
for each thread inside `close()`, for a reader that has seen `_running` fall, and for each
event thread and the end of its handler. Nothing makes a user open or close, a message come or
the transport fail. That handlers end is the user's part; without it the code promises nothing.

## The proofs

Every theorem holds for all values of the constants that the named assumptions of the
module allow; where one needs more, it says so in an `ASSUME`. Each safety property is
proved along one line: an inductive invariant, `Init => IInv` and `IInv /\ [Next]_vars =>
IInv'` with a lemma or step per action, and `IInv => Property`.

`RequestsProofs`, for any sets of callers and addresses, any traffic and any bounds. `IInv` is:

* `Structure`: the queues of requests in flight are distinct (`OwnQueues`), a queue not yet
  made is empty and held by nobody (`Unmade`), the reader holds queues only while it fills
  them, under the key it dispatches (`Held`), there is one reader (`OneReader`). Without these
  `NoLostWakeup` and `PendingExact` (`WaitersAreKept`) are not inductive.
* `Traced`: what the queue of a request holds, against the stream. It is empty as long as
  nothing dispatched since the request registered answers it, where a message being dispatched
  counts once its reply was put (`MissedNothing`); and a reply in it is the first answer. From
  it follow `RepliesAreTheirs` when the request takes the reply, and `TimeoutsMissNothing` when it
  gives up.
* `EventsQueued`: the event queue has the messages handled, in their order.

From the last two follows `DispatchIsOrdered`: who has learnt of a message, as a reply, as a timeout
that missed nothing, or in the event queue, does not do so before the event queue has
all that came earlier.

`RequestsKeepContract`: from `Structure`, every step is a step of `RequestContract` or a stutter.

`SubscriptionsProofs`, for any registers, filters, messages and sessions, over handlers that may
outlast the join. `IInv` has a part for each theorem, one of them under a condition without
which the property is false:

* `RegistersAreKept`: with what ties the two tables to the subscriptions made; `unsubscribe()`
  is the step that needs work, where the list without one member may be empty (`WithoutIsList`).
* `UnsubscribedForGood`: what is in no list (`ListsRight` says which lists there are) is in no
  copy made later.
* `EverythingDelivered`, if no two register classes have one address (`OneClassPerAddress`; with
  two, messages are decoded by the last that was subscribed): what a subscription in place wants
  it has got, or it is in the queue, or in the copy of a thread that comes to it (`Coming`,
  `NothingMissed`), and every call begun or to come suits its subscription (`CallsSuit`).
* `SentinelsSuffice`, by counting: a step that starts or ends a thread, or queues or takes a
  sentinel, moves the two sides of `SentinelPerThread` alike.
* `CalledInOrder`: the lists and the queue rise (`ListsRise`, `QueueRises`); a message is in the
  queue or taken by one thread, not two (`OneDeliverer`); and the calls to come are in order and
  after those begun (`CallsRise`).

`WireProofs`, for any messages, any bytes and any damage to one byte or end:

* `FieldsAreKnown`, `ParsingLosesNothing`, `ReadsAsSent`: for the two type bytes by going through
  their bits (`TypeByteRead` and the like, `PayloadByteRead`), for the frame by position
  (`BuiltIsParsed`, `ParsedIsBuilt`).
* `DamageIsRejected`: a byte changed changes the sum by less than 256 and not by 0
  (`SumOfChanged`); a frame cut does not have its length. `WireIInv` says that the frame on the line
  is what was built but for one damage.
* `TimesAreKept`: the digits of a number to the base 256 give it back (`FourDigits`), and rounding
  errs by half a tick at most, also where the ticks make a whole second (`TimeIsStamped`).

`FramerProofs`, for any streams, chunks and `CompactAt`:

* `BufferKept`: the buffer is the end of what was fed. It is inductive with `FramerTypeOK`.
* `BufferBounded`: the bounds of `MemoryBounded`.
* `FramerKeepsStream`: from `BufferKept`, a byte that `next_frame` skips starts no frame of
  the *stream*, whatever is fed later (`SkippedStartsNothing`, from what `Parses` demands of
  the first two bytes), and a frame found in the buffer is one of the stream.
* `ChunkingIsInvisible`: `ChunksDoNotMatter` speaks of the bytes fed so far, and the next ones may
  make a frame out of what is left, so it is not inductive. `Decided` is: for *every*
  continuation of the bytes fed, what `parse_bytes` finds in all of it is what was found so far
  and then what it finds from the present position on.

`PayloadProofs`, for any classes, fields of any width and mask, and any arguments:

* `FieldsAreKept`: encoding a field makes it read what it can hold of its value
  (`ReadMerged`), and leaves every field with other bits as it was (`ReadOther`).
* `SoundClassesOnly`: in a sorted list whose neighbours do not overlap no two slots do
  (`NeighboursSuffice`, by the closest pair that would), and two fields of one slot are masks of one
  element (`SameSlot`). `Sorted` is a `CHOOSE`, so that a sorted list exists is proved too
  (`ListExists`).
* `ArgumentsAreRead`: the defaults are encoded before the arguments (`DefaultsFirst`), so an
  argument encoded is not touched by a default again (`ArgumentsHeld`).
* `ColumnsAgree`: numbers are ordered by the largest bit in which they differ, which is a strict
  total order (`BelowIsTotal`, `BelowIsTransitive`), so there is a largest member, and the codes
  without a name can be listed (`AscendingExists`). A code the field reads is within its mask, so
  that the table that is not guarded is never read behind its end (`PartNotAbove`,
  `LookupInTable`), and the categories, members first, differ (`CategoriesListed`).

`DatasetProofs`, for any folder, traffic, tables, schemas and modules:

* `FilesHoldFrames`: a row of the table that `format_bulk` lays out is the frame of its message
  (`RowIsFrame`), and the rows joined are the frames joined (`TableIsFrames`).
* `OwnDeviceOnly`, from the two ways a module comes to be compared.
* `EveryFrameIsRead`. `IInv` has that each file holds whole frames and behind them at most the
  beginning of one (`Holds`), and that a reader has files of its folder in name order
  (`ReadsFolder`). The files of a read, joined, are then the frames of all of them and the
  beginning of one (`FilesJoined`); as these are alike in length, the strided views of
  `parse_bulk` are the frames' own bytes (`TableLaidOut`, `FramesRead`), the rest is less than
  a row, and alone it is refused (`CutRefused`).
* `InferenceAgrees`: the fifth byte of a frame says the payload type of its message
  (`FrameTyped`), so the count of elements inferred from it, times their size, is the payload's
  length, scalar or array (`InferredFits`); and a read depends on a register by its size only
  (`SizeDecides`). The property asks that payloads are whole elements, which the code does not
  see to: a declared struct of three bytes under a type of two is read otherwise without its device.

`DeviceProofs`, of `Session`, for any users, sessions and messages, whether or not handlers close
or outlast the join:

* `ReadersApart` and `CloseReleases`, both from `SInv`. Its parts: a running reader is the one
  `_thread` holds (`Known`); whoever lowered `_running` is on the way to join the reader, or it
  has ended (`Stopped`); `open()` is alone (`Alone`); whoever is behind a join finds what it
  waited for gone (`Behind`); whoever waits in the first join waits for the reader there is, or
  another `close()` has seen that one end (`Awaited`); and a `close()` that returned left nothing (`Released`). A
  `close()` that raises is covered: it can only raise where the reader has ended.

`DeviceProofs`, of `Schema`, for any schemas, converters, reserved names and spelling of names
(`ParsedAssumption`), from one `IInv`: names were compared before anything is emitted
(`Distinct`); every register class emitted is that of a register of the schema emitted before, and
its payload class is there (`ClassesEmitted`); every payload class was made for one of them,
without an error, from the masks there are (`PayloadsMade`); every mask became the enum of its
members (`EnumsBuilt`). What the steps need is that a dict
keeps its other names (`UpdateHas`), that names of a schema without duplicates are declarations
(`NamesDiffer`), and what `Put` does to the list (`PutEffect`).

* `NamesAreKept`: the module has the names of all dicts (`HasNames`), and which declaration has
  a name is settled by the order of the updates.
* `MembersAreKept`: names that do not collide make as many enum members as a mask has, each with
  its value (`MasksBuilt`, `EnumKeepsMembers`), and keys that do not collide as many fields as a
  `payloadSpec` has (`FieldsOfStruct`); where `_resolve_converter` gives a number without a user's
  converter, its width is that of the member's elements (`NumberSpans`, by the branches of the
  decision).
* `OneClass`: two registers with one payload name are given what the cache has under that name.
* `ClassesAreAccepted`: every payload class the compiler makes passes the checks of `Payload`
  (`Accepted`), also one of a single value, about which `ValueError` asks nothing of the kind.

Where a definition is recursive it is a function, and what it computes is proved by taking the
least argument for which it would fail (`LeastElement`, from the well-founded order of the
naturals): that `SumsOf`, `FramesFrom`, `Among` and the `FlattenSeq` of the community
modules satisfy their equations is proved that way, and so are the facts about every position
of a list.

Only model-checked:

* liveness (`EveryRequestReturns`, `FailureReleases`, `AnswerReleases`, `EveryMessageFinished`,
  `CloseEnds`, `ThreadsEnd`), which the prover cannot treat under fairness;
* `EmitsTheCore`, which is about one schema, `core.yml`: TLC goes through it.

## Not modelled, and what could come next

Not modelled, because it keeps no state and decides nothing that a check could be about: the
benchmarks, which time the other parts; the spelling of Python names (`_naming.py`), which
`Schema` takes as a function; numpy, pandas and pyserial, of which the models assume what
the code's use of them shows; the names a payload class lends from its base class.

Left out of modelled components, and so their status *partly*:

* `Payload`: fields inherited from another payload class, where the layout and the defaults
  come from different lists (`_payload.py:802`); converters that refuse what they read;
  signed elements; positional arguments.
* `Schema`: strings under a mask, an empty `payloadSpec`, an empty name of a type,
  defaults that numpy refuses.
* transport: two writers' bytes inside one another (`_device.py:410`): the code takes no lock,
  but whether pyserial splits a write is the platform's doing.
* codec: `decode()` of a message by a register is in `Register` and the models of `Device`,
  not in `Wire`.

What could come next: `Requests`, `Subscriptions` and `Session` composed, for handlers that
call `read` and `write` while another thread closes; inheritance of fields in `Payload`.
