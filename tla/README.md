# A formal model of ns-pixels

The firmware in `src/` runs on a dual-core ESP32-S3 and shows where the trains
of the Dutch railways are on a 64x64 LED matrix. This directory models its
control: TLA+ modules translated from the Rust source, TLC configurations that
check them on small instances, and proofs, checked by TLAPS, that the most
important properties hold for every instance.

`PROJECT.json` lists the components, the runs, a mutation that breaks each
property, the source lines each definition stands for, the hazards the
properties are aimed at, what was found, and the theorems.

## The system

| Component (source) | State | Operations | Interacts with |
|---|---|---|---|
| Train registry (`registry.rs`, `train.rs`) | a map from train number to pixel, type, service, `last_seen` and two 16-bit attempt offsets | `upsert`, `set_type`, `set_service`, `evict_older_than`, `pending_enrichment`, `rebuild_clusters_into` | a mutex shared by all tasks of core 0, never held across an await that waits |
| Feed (`feed.rs`) | the decompressor, the trains of one message | receive, decompress, parse, evict, upsert, queue new trains, publish a snapshot | ZMQ publisher; registry; new-train channel; cluster buffers |
| NS API poller (`ns_api.rs`) | two batches, timers | wait, take new trains or sweep the registry, ask in chunks, apply, stamp, publish, back off | HTTP API; channel; registry; cluster buffers |
| Map mode (`map_mode.rs`) | `MODE`, `CHANGED`, an interval timer | flip, toggle, republish, `canvas_to_display` | input task; registry; cluster buffers |
| Display task (`display.rs`, core 1) | a cluster buffer, a frame buffer, the orientation | take a fresh snapshot, recycle the old, rotate, draw, swap frames | producers on core 0; `hub75_task`; accelerometer |
| HUB75 task (`display.rs`, core 1, interrupt executor) | the frame buffer the DMA engine sends | swap, transfer; passes over an error of `xfer.wait()`, panics on the others | display task; DMA |
| Input (`input.rs`) | where its loop stands | debounce, short and long press | pins; configuration; map mode; persist |
| Persistence (`persist.rs`) | `SAVE_SIGNAL`, flash | load at boot, save when signalled | input; `main` |
| Accelerometer (`accel.rs`) | `DIRECTION` | read, pass over what is below the threshold, store | display task |
| Geometry (`projection.rs`, `map_mode.rs`, `display.rs`) | none | projection, map modes, packing, rotation | registry, display |
| Colours (`display.rs`, `train.rs`) | none | which colour a pixel has at a time | display |
| ZMQ subscriber (`zmq.rs`) | the field being read, the frames of a message | handshake, subscribe, `read_exact`, `recv_frame`, `recv` | TCP; feed |
| Decompressor (`decompress.rs`) | inflate state, a fixed buffer | `skip_header`, `inflate_gzip` | feed |
| XML parser (`xml_parser.rs`) | flags for where it is, the fields of a train | `parse` | feed |
| Start-up (`bin/main.rs`) | none | load the configuration, start both cores and all tasks | all |

What is hard, and hard to test:

- **Two cores, no lock between them.** Producers on core 0 and the display on
  core 1 exchange `&'static mut` buffers through one-slot Signals that
  *overwrite*. A signal into a full slot would lose a buffer for good.
- **Preemption.** `hub75_task` interrupts `display_task` anywhere, and the DMA
  engine reads a frame buffer all the while.
- **Work that is skipped.** A producer that finds no free buffer publishes
  nothing and relies on a later one; a full channel drops a train number and
  relies on the sweep; a transfer that `xfer.wait()` reports as failed, or a failed write, is passed over.
- **Times that are rounded, saturated and relative** to a moment that moves.
- **Order.** Three tasks publish through one slot; timers race signals and
  edges; `select` has a bias; coalesced saves race resets.
- **Packed arithmetic** on 16-bit keys, a collapse that works in place, fades
  made of three integer divisions.
- **A stream from outside** that comes in any portions, with lengths wider than a
  `usize`, damaged payloads and documents with gaps, in front of a task whose
  errors are partly unwrapped and partly passed over.

What makes each correct: a buffer has one owner; what is drawn is whole,
upright and never older than what was drawn; every change is shown eventually;
frames do not tear, are not skipped and do not stop; a train is not asked for
twice, nor again before its cooldown; only stale trains are evicted; a press
acts once and does what its length says; the configuration survives; the panel
shows exactly what the registry says, where it says; messages stay whole and in
step, and each train has its own fields; every train is asked for in the end;
colours never jump.

## The modules

| Module | Models | Composes or uses |
|---|---|---|
| `Handoff` | what a pair of Signals promises: a one-place hand-off | (abstract specification) |
| `ClusterExchange` | `FREE_CLUSTERS`, `FRESH_CLUSTERS`, the three producers, map mode, tilting, `display_task` | implements `Handoff` |
| `FrameExchange` | `display_task` and `hub75_task`: double buffering and DMA | implements `Handoff` |
| `Panel` | `display_task` as one loop, from the registry to the light | extends `ClusterExchange`, instantiates `Handoff` for the frames |
| `Follower` | what a display promises that follows something else: only what was, in its order | (abstract specification) |
| `Lineage` | `Panel` with a record of all that was the case, and the place in it of each buffer and picture | extends `Panel`, implements `Follower` |
| `Registry` | the registry's operators: sighting, offsets, stamping, eviction, `pending_enrichment` | |
| `Enrichment` | feed and NS API tasks around the registry, the channel, batches, faults | extends `Registry` |
| `SweepOrder` | the same tasks with the order of the map instead of time: who is asked for when | |
| `Controls` | pins, input task, configuration, saves, resets | |
| `Accelerometer` | readings and the direction they leave | used by `ClusterExchange`, `Geometry` |
| `Geometry` | positions, canvas pixels, map modes, keys, rotation | extends `Accelerometer` |
| `Snapshot` | `rebuild_clusters_into` statement by statement, and rotation in place | extends `Geometry` |
| `Subscriber` | the ZMQ session: bytes to fields, frames and messages | |
| `Decompressor` | the gzip header and the loop around inflate | |
| `XmlParser` | the parser's state from token to token | |
| `FeedInput` | the feed task from the socket to a batch of trains | extends the three above |
| `Colours` | the colour of a pixel from millisecond to millisecond | |
| `MC...` | instances for TLC | |
| `...Proofs` | theorems and proofs about the module of that name; `ClusterExchangeProofs` is also about `Panel` and `Lineage` | |

How state and actions correspond to the code:

- **ClusterExchange.** `free` and `fresh` are the Signals' slots, `held[t]` is
  the local a producer keeps a claimed buffer in, `clusters`, `old` and
  `direction` are `display_task`'s locals. A step is what lies between two
  operations on shared state. Core 0 has one cooperative executor, so a task
  that has begun to publish goes on to its end before another is polled
  (`Core0Idle`), while core 1 interleaves with each of its steps. A buffer
  being rebuilt is torn between `Clear` and `Fill`. The registry is abstracted
  to a version number and a snapshot to the version and mode it shows.
- **FrameExchange.** `drawFb` and `scanFb` are the two tasks' `fb`; `RX` and
  `TX` are named as in the code, seen from `hub75_task`. `hub75_task` preempts,
  so what it does between two awaits is one step. `Draw` and `Erase` are
  separate steps: a buffer in between is `Torn`. Only an error of `xfer.wait()` is
  passed over (`TransferFailed`). `render` and `wait_for_done` are unwrapped by
  `expect` (`display.rs:227-228`), and a panic halts the core, the display task
  included: `Render` and `WaitForDoneFails` have that outcome, and after it
  (`Halted`) nothing is drawn, given back or scanned any more.
- **Panel.** `display_task` draws a frame of the snapshot it holds, hands it over
  and waits until `hub75_task` has taken it; only then the loop begins again.
  A panic that halts the core is left out: with it nothing more is lit.
  The frame exchange is represented by what `FrameExchange` is shown to
  implement, `Handoff` over pictures. `lit` is what was last sent without an error.
- **Lineage** adds no behaviour: its variables are history variables, which every
  step of the panel gives their next values and which guard nothing.
- **Registry and Enrichment.** Time is in ticks, `Second` of them to a second,
  so that truncation to whole seconds is what it is in the code. `ago` is the
  offset field of each axis, with its sentinel `Never` standing for `u16::MAX`
  and saturation one below it. `pending_enrichment` is a set of results: the
  map iterates in an order of its own. An answer may be partial, refused,
  unreadable or never come. Eviction takes the at most `EvictBatch` trains the
  iteration meets first.
- **SweepOrder.** The map is a sequence in the order of its iteration:
  `pending_enrichment` walks it from the front until its buffers are full. A full
  map drops an insertion while the train is new all the same; an eviction takes
  any train out, and the last entry takes its place (`SwapRemove`). A refusal
  stamps what was asked for, an unreadable answer nothing, and both end what is
  left of the batch. The cooldown is counted in wake-ups of the task. `renewed` is
  a history variable: the trains that were queued again while they waited.
- **Controls.** A contact chatters for less than `Settling` ticks after each
  change. A future notes an edge or a level only while it is awaited, and the
  task runs up to `Latency` ticks after its future is ready. `Save` and
  `SaveFails` are the two outcomes of a write; `Reset` may come between any two
  steps. `held`, `rest`, `credit`, `quiet` and `unsaved` are history variables
  that guard nothing the code does; they bound only how the finger behaves.
  A stored configuration is the pair of bytes `serialize_into` makes of it.
- **Accelerometer.** A reading is a pair of 16-bit words. `Tilt` stores what the
  task would, between any two steps of other tasks; a failed read changes nothing.
- **Snapshot.** A sighting lies on the pixel `RdToCanvas` gives its position.
  `out`, `write` and `read` are the locals of `rebuild_clusters_into`; the map is
  walked in any order; the unstable sort may leave any sorted permutation; bit
  masks are sets of bits. `Rotate` is the display task's, on the finished buffer.
- **Geometry.** Shifts are products and quotients of 256 modulo 2^16, as for
  `u16`. The OR of words with no common bit is their sum. Positions are in whole
  metres of the Dutch grid, where the division by 1250 in `f32` and the
  truncation give exactly the quotient.
- **FeedInput.** `at` is where the feed task stands. The contents of the stream
  are abstracted to whether the subscriber is in step with its peer: `peer`,
  `unread` and `place` say what the peer sent, `field`, `want` and `filled` what
  `read_exact` is filling, and a read yields any portion, an end or an error. A
  length is narrowed to a `usize` (`Word`) as in the code. A payload is known by
  its length and the fields of its header; the stream behind it by how much it
  yields and in which bites (`miniz_oxide` is external). A document is chosen
  token by token within the feed's schema, with elements missing, empty or
  repeated; `own` and `complete` are what it says of its trains. The tokenizer
  stops at its first error, in any document, and what it has handed on by then
  is applied (`EndOfDocument`).
- **Colours.** `Colour(phase)` follows `cluster_color`, the global pulse and
  `blend`; a mask is a set of bits, and products are reduced to their width.

A definition whose comment begins with "Mutation:" is not part of the model.
It is a plausible bug, kept beside the definition it would replace, that shows
that some property can fail.

## What is checked

| Run | Instance and bounds | What it shows |
|---|---|---|
| `clusters` | 2 buffers (as in the code), 3 producers, readings for 4 tilts, one below the threshold and the smallest word, 2 registry changes | `OneOwner`, `DrawsWhole`, `DrawsUpright`, `NeverGoesBack`, and that the exchange implements `Handoff` (`HandsOver`) |
| `panel_live` | the cluster exchange, held still, in front of the frame exchange, with fairness | `LitNeverGoesBack`, `ChangeIsLit`, `ModeIsLit`: skipped publishes are caught up with, up to the light |
| `frames` | 2 frame buffers (as in the code), frames counted modulo 8, with fairness | `OneOwner`, `NoTearing`, `InOrder`, `HandsOver`, `EveryFrameScanned`, `KeepsRefreshing`, the last two unless a panic halts the core |
| `enrichment` | 2 trains, room for one, sentinel 4, two ticks a second, 9 ticks, every fault | `CooldownFromSighting`, `StampKept`, `EvictOnlyStale` while the registry overflows, evicts and saturates |
| `sweep` | 3 trains, a map for two, a channel for two, buffers for two types and one service, requests for one, a cooldown of two wake-ups, every fault, one train whose type is never known, with fairness | `NoTrainTwice`, `KnownKept`, `EveryoneAsked` while map, channel and buffers overflow and trains are evicted |
| `controls` | settling 2, debounce 2, long press 2, latency 1, 3 presses | `ActsOnce`, `PressActs`, `LengthDecides`, `SavedUnlessFailed` |
| `pixels` | 3 trains, 3 positions, 2 types, 2 services, both modes, 4 tilts | `PushesFit`, `DrawsRegistry` |
| `feed_input` | frames of 0 to 2 bytes, one too large, one whose length is beyond `usize`; messages of up to 3 frames; payloads of up to 14 bytes with optional fields of up to 1; a buffer of 2; documents of up to 2 trains | `InStep`, `OneMessage`, `StopsOnlyOnFault`, `HeaderInside`, `OwnFieldsOnly`, `WholeText`, `InflateEnds` |
| `colours` | masks with no, one, two, neighbouring, distant, all but one and all bits; both animations and axes; every millisecond of their cycles | `FadesSmoothly`, `EveryMemberShown` |
| `map_manual`, `cooldown_skipped`, `sweep_starved` | small instances | statements of the repository's comments that the code does not keep (below) |

A run that needs one checks its module's type invariant, too. Those of the cluster
and frame exchanges, the panel and the controls are not run but proved.

Why the bounds are enough to be interesting: the numbers of buffers are the
code's own. Two registry changes suffice for one to be overtaken by another, for
a publish to be skipped in between and for an older snapshot to be in flight. The
frame counter wraps only after more frames than can be on their way at once.
Nine ticks at two to the second with a cooldown of two seconds and staleness
after three let a train be sighted between seconds, stamped, cooled down,
evicted and sighted again; with a sentinel of 4 the offset saturates within
that time. Two trains and room for one make the map overflow. In `sweep`
three trains make a map for two overflow, so one of them is new with every message,
fills the channel and gets in after an eviction, perhaps while it waits; the
service buffer holds less than the map, so one train is behind another; the type
buffer holds one more than there are trains whose type is never known, and with
one that does not, `sweep_starved` shows the others starved. Three presses are
two of one button and one of the other, or the reverse. Of the three positions two
share a pixel of the country map, one of them being on the window's first pixel and
the other a metre outside it, and the third is on the window's last; three trains give
runs of one, two and three entries and an entry that must move down. Two trains
in a document are a train after another whose fields it might inherit; a buffer
of two is filled exactly, overflowed and left with room; fourteen bytes hold
every optional field of a gzip header and the trailer, and fall short of them.
The cycles of `colours` are the code's own.

The bounds are constants named in each module: `MaxVersion`, `Frames` (a modulus),
`MaxTime`, `MaxPresses`, `MaxParts`, `MaxInput`, `MaxSize`, `MaxGzip`, `MaxField`,
`MaxLocations`. They guard the action that counts, or bound what an action may
choose, and nothing else. Deadlock is checked in every run but two, in which the
code really stops: in `feed_input` the feed task panics on a fault of the network,
in `frames` a panic of `hub75_task` halts the core.
Trains are interchangeable in `Enrichment` and `Snapshot`, whose safety runs
use symmetry; no run with liveness does.

### Fairness

- `Panel`: weak fairness of the display loop, which has a core of its own, of
  `hub75_task`'s swap, and of each step of a producer that has begun to publish,
  which no await interrupts. A transfer that never fails again is not assumed: weak
  fairness of `SendFrame` says that not every transfer fails. Strong fairness of
  `FeedReceive`, since the executor polls the feed task in its next pass once a
  message is there, though other tasks come between. That messages keep coming is
  assumed of the publisher. Nothing is assumed of the NS API, the network, the
  timer or the buttons.
- `FrameExchange`: weak fairness of both tasks, since the interrupts are short
  and every DMA transfer ends. For `KeepsRefreshing` one assumption about the
  hardware is added, that failures do not single out a frame: a frame that is sent
  again and again is sometimes sent without an error. `EveryFrameScanned`
  does not need it. Neither is promised after a panic, and no more is assumed about
  whether one comes.
- `SweepOrder`: weak fairness of the NS API task, whose timers expire and whose
  requests are answered or fail. It wakes up more often than messages bring new
  trains, so it finds the channel empty again and again, and then sweeps (strong
  fairness of `SweepRegistry`). From some time on, after any number of faults and
  evictions, `AllWell` holds: requests succeed, no train leaves, and of each train
  asked for the answer says everything but the types of `Stragglers`, which are
  fewer than the type buffer holds. So the property is one of recovery: it says
  nothing of an API that refuses or garbles answers for ever.
- `FeedInput`: weak fairness of the inflate loop, which waits for nothing. That a
  damaged stream is found out is not relied on.
- `Colours`: time passes.

### Assumptions about the surroundings

Buttons: a contact settles within the debounce time, a finger rests at least
`Settling + Debounce + 2 * Latency` ticks before it presses the same button
again, and a long press is longer than the settling time. Without the second
the input task could take the chatter of one release together with the next
press; with the code's 30 ms and 800 ms both are what hands do. `Controls` states
them as `TimingAssumption`, on which the proofs rest. A press of a
button while the other is being handled is ignored by the loop, and
`PressActs` excludes it. Flash: `sequential_storage` leaves the old item or the
new one. Both are the external part of the model.

## What was found

- **A manual map change can be undone before it is shown** (`map_manual`).
  `select` polls the interval timer before `CHANGED`, and `toggle` has already
  stored the new mode. If both are ready in one pass, the controller flips
  the mode back, although the interval is documented to count only "if no manual
  change happens".
- **The retry cooldown may be over when it starts** (`cooldown_skipped`). The
  stamp counts from `last_seen`, not from the attempt. A train last seen longer
  ago than the cooldown is stamped 0 and is ready at once, contrary to the
  comment on the cooldown. What does hold is `CooldownFromSighting`.
- **A train the API has no record of is not stamped, and may starve the others**
  (`sweep_starved`). Only the records in an answer are applied, contrary to the
  comment on `fetch_types_on`. Such a train is pending again two seconds later,
  the sweep begins at the front of the map each time, and once they fill a buffer
  the trains behind them are never asked for. The passing run `sweep` has fewer
  such trains than the buffer holds.

Seen while modelling, without a run of their own:

- The attempt offset exceeds 300 seconds for a train that keeps being sighted,
  contrary to `train.rs:79`. The saturation in `bump_attempt_ago` is needed,
  and `StampKept` shows it to be right.
- Positions west or north of the bounding box become column or row 0, which is on
  the canvas, and are drawn at the edge; the comments (`projection.rs:48-49`) say
  that what is off the canvas saturates above it and is filtered.
- Faults that last starve trains, too. A refusal stamps all that was asked for
  but ends the batch: while every request is refused, only as many requests as
  fit into a cooldown are made before the head of the map is due again (about
  120 s of cooldown by 12 s of back-off and sweep). An answer that cannot be read
  stamps nothing: the next sweep asks for the same trains first. `EveryoneAsked`
  says only that all are asked for once requests succeed again.
- While the map is full, each message makes a train that does not fit new again
  and queues it (`registry.rs:56-59`, `feed.rs:115-120`). It can fill the channel
  alone and be asked for twice, and so can a train that is evicted and sighted
  again while it waits; then a refusal of the second request undoes what the
  first resolved. The comment in `ns_api.rs:188-189` has only the sweep in mind,
  which is indeed kept from it: `NoTrainTwice` and `KnownKept` hold for all
  trains but those in `renewed`. `MAX_TRAINS` makes the first case unlikely, not
  impossible.
- The tokenizer's errors are not told from the end of a document
  (`xml_parser.rs:41`): the trains before the error are taken for all of them.
- The feed and the NS API have no timeouts: a peer that falls silent leaves its
  task waiting for good. `ChangeIsLit` says nothing of that: it assumes that feed
  messages keep coming.

## What is proved

For every value of the constants that satisfies the modules' `ASSUME`s:

- **ClusterExchangeProofs**: `TypeCorrect`, `BuffersHaveOneOwner`,
  `DrawnIsWhole`, `DrawnIsUpright`, `PanelNeverGoesBack`, `ImplementsHandoff`, for
  any set of readings.
  None of these is inductive. The invariant adds who holds a buffer at each
  program point (`Ownership`, `Control`), how the contents of each buffer are
  turned and which may be torn (`Contents`), and that snapshots are older the
  closer they are to the panel (`Ages`). The refinement uses all of it: `Fill`
  must be invisible to the reader, and `Publish` must find the slot empty.
  That follows from there being two buffers, of which the display holds one.
  About `Panel`: `PanelKeepsExchange` (each of its steps is one of the cluster
  exchange, so all of the above holds in it) and `LightNeverGoesBack`, with the
  invariant that versions only get older from the snapshot through the slot and
  the DMA engine to the light. `SkippedBehindASnapshot` is the comment "the next
  update will catch up": whoever finds no free buffer finds it because the
  display still has a snapshot to take or a buffer to give back.
  About `Lineage`: `LightShowsThePast` and `PanelFollows`, the refinement of
  `Follower`. Versions alone would not do: the mode may flip and flip back while
  the version stays, and an old mode could be shown after a newer one without
  any version going back. So each buffer and picture has a place in the record,
  and the invariant says that what it shows is what was there (`Origins`) and that
  places only get earlier from the buffer about to be published through the
  slot, the display and the DMA engine to the light (`Places`).
- **FrameExchangeProofs**: `TypeCorrect`, `BuffersHaveOneOwner`, `NothingTorn`,
  `FramesInOrder`, `ImplementsHandoff`, `SignalNeverOverwrites` and
  `NoCircularWait`, from an invariant that gives the place of each buffer at each
  program point and the frame each shows. They hold with panics, which only stop the tasks.
- **EnrichmentProofs**: `TypeCorrect`, `NeverSeenInFuture`, `CooldownHolds`,
  `StampsKept`, `OnlyStaleEvicted`. The invariant (`Anchored`) says that a
  stored offset never overstates the time from the sighting at the attempt to
  the last sighting, which truncating keeps and rounding would not.
  `AllFits`: map, channel and batches stay within their capacities.
- **SweepOrderProofs**: `TypeCorrect`, `NoneAskedTwice`, `ResolvedStays`, for any
  numbers of trains, places in the map and in the buffers. The invariant adds that
  the map holds a train once, that nothing is known of a train outside it, and
  that what is to be asked for is unknown (`Unresolved`), the last but for those in
  `renewed`. A batch is filled from the registry only while the channel is
  empty, so the two sources never mix; an eviction moves the last train of the
  map to another place and leaves the rest of the argument alone.
- **ControlsProofs**: `TypeCorrect` and `ChangesAreSaved`, which is inductive
  with the types and the round trip of the stored bytes. With `TimingAssumption`,
  for any times: `PressesActOnce`, `PressesAct`, `LengthIsDecisive`. The invariant
  (`PInv`) ties clocks to program points: how late the task may be (`Timely`),
  how long a contact chatters (`Contact`), that a noted edge is one of a press
  just begun or just over (`EdgeNoted`), what the confirming sample can find
  (`Sampling`), how long UP has been held while it is timed (`Holding`), and how
  far a press that is left alone can be behind the task (`Undisturbed`).
- **ColoursProofs**: `TypeCorrect` and `ColoursNeverJump`, for every mask, and
  `EveryMemberHasItsTurn`: clearing the lowest bit again and again comes to every
  bit, so each member has a slot in which its colour is the pixel's. That is
  what `EveryMemberShown` needs of the state; the rest is that time passes.
- **FeedInputProofs**: `TypeCorrect`, `StaysInStep`, `MessagesAreWhole`,
  `PayloadsDoNotStopIt`, `HeaderStaysInside`, `TextIsWhole`,
  `TrainsAsDescribed`, for any sizes of buffers, frames and documents. The
  last one rests on an invariant that says, for each place in a document,
  which flags the parser has set and which of a train's fields it has taken.
  `LoopUsesUp` gives the inflate loop its variant: the input and the room left,
  together, get less in every turn that does not end it.
- **SnapshotProofs**: for every pixel, that keys lose nothing (`KeysRoundTrip`),
  that turns compose and undo each other (`TurnsUndo`), and that both map modes
  show every canvas pixel where the map has it (`ShownInPlace`). For every
  set of positions and every
  registry: `TypeCorrect`, which includes that tilting never makes a key of no
  pixel, `PushesAlwaysFit` and `NoMoreThanTheMap`. The invariant adds that the entries pushed and
  the trains to come fit together (`Room`), and how the two indices stand
  (`Indices`). And `PanelDrawsRegistry`, by an invariant for the walk, the
  sort, the collapse in place and the rotation: of the entries that count at a
  program point (`Live`), none says anything of a pixel that no train there
  bears out (`Sound`), every train that has been walked is in one (`Complete`),
  and the keys ahead of the collapse are sorted and not below the final ones, of
  which no two are equal (`Ordered`). Steps that only move entries keep the first
  two because the set of live entries is the same before and after.

The temporal step of each theorem is PTL; everything else is first-order and
goes to SMT or Zenon. No module that is proved about declares or reaches a
RECURSIVE operator.

### Liveness

Three of the liveness properties are proved as well: `EveryFrameIsScanned`
(`EveryFrameScanned`), `EveryChangeIsLit` (`ChangeIsLit`) and `ModeComesToLight`
(`ModeIsLit`). Fairness is stated in them with the condition under which
an action can be taken written out, where `WF_` and `SF_` have ENABLED: `Scheduled`
for the two tasks of the frame exchange, `PolledWhenReady` for the panel. Each
condition is one under which the action is enabled, so these hypotheses ask no
more of the scheduler than `FairSpec` and `PanelSpec` with its fairness do (`Scheduled`
asks less: it leaves out what `KeepsRefreshing` needs). That step, from `WF_`
to the conditions, speaks of ENABLED and is not proved; the runs `frames` and
`panel_live` check the same properties under `WF_` and `SF_`.

- *Frames*: a chain of stages, each of which one task leaves as soon as it runs, or
  else the core is halted: signalled, taken, given back, erased, drawn, signalled,
  sent.
- *Panel* (`LightFollows`): let what is the case stay in a set of pictures. Core
  0 comes to rest, since each task that has begun to publish ends. The
  display goes through its loop again and again, so the buffer it owes comes
  back and is claimed, by the feed at the latest, which has a message time and
  again. It is filled with what is the case, published, taken, drawn, sent and
  lit; and whatever is filled from then on is in the set, too, so it is never left
  again. `EveryChangeIsLit` is the case of the versions from some number on,
  `ModeComesToLight` that of one mode.

**Only model-checked**: the liveness properties `KeepsRefreshing`, `InflateEnds`,
`EveryoneAsked` and `EveryMemberShown`. Each needs an induction over a number of
steps (frames, bytes, trains, milliseconds) in a temporal formula, which the
provers do not have; of `InflateEnds` and `EveryMemberShown` the part about states
and steps is proved. Nor is the step from `WF_` and `SF_` to the conditions
above, for it is about ENABLED. `PanelFollows` and `LightShowsThePast` are only
proved: no run checks them, because the record is unbounded. Every safety property
of a passing run is proved.

## What is not modelled, and why

- The polynomial from WGS84 to the Dutch grid, and its rounding in `f32`, are
  floating-point arithmetic. A train's position in the grid is an arbitrary one
  instead. No position is NaN; the code puts those off the canvas.
- HTTP, URLs, JSON and the names the NS API uses: an answer resolves any of the
  trains asked for, or fails in one of four ways.
- `miniz_oxide` and `xmlparser` are third-party libraries, known by what the code
  relies on. `unsubscribe` and `into_inner` of the subscriber are never called.
- Wi-Fi, DHCP, I2C, clocks, heap and pins are hardware set-up; the reconnecting
  loop in `main.rs` only calls the driver. The vendored `reqwless` is a third party's.
- Counters for the log (frame rates, unknown trains) change nothing else.

## Plan

Done, in this order: the cluster exchange, because everything on the panel
passes through it without a lock; the frame exchange; the registry and its
enrichment; the buttons and the stored configuration; geometry and snapshots;
the feed from the socket to a batch; the order of sweeps; the panel as a whole;
colours; then the proofs about these and about the timing of presses; then
liveness of both exchanges, the panel as a follower, and the capacities.

Left:

1. A second instance of `SweepOrder` with four trains for a map of three, so that
   a train whose type is never known, one that is found by the sweep and one that
   does not fit come together in a buffer for two; TLC needs more than five minutes.
2. Positions off the canvas in the run `pixels`, once it affords a fourth one;
   `PanelDrawsRegistry` covers them already.
