# Verification of ha-artnet-led

TLA+ models of the DMX integration for Home Assistant
(`custom_components/dmx`), checked with TLC, with the invariants of its core,
of the Art-Net exchange and of the light proved with TLAPS. All paths below are
relative to `src/custom_components/dmx` unless they start with `docs/` or `tests/`.

## The system

Entities (lights, numbers, selects, switches) write channel values to a *DMX
universe*. The universe renders frames at a limited rate and hands them to a
*protocol server*, Art-Net or sACN, which sends them and repeats the last one
while nothing changes. Frames from other controllers come back the other way:
a protocol's callback buffers the channels that changed and a *rate limiter*
decides when they are written to the universe, whose listeners update the
entities. Nearly everything runs on Home Assistant's event loop, so a method
without an `await` is atomic. Concurrency comes from background tasks,
`call_later` timers, awaited sleeps, and the executor threads that run the sACN
`sendto` calls.

### Inventory

| Component | State | Operations | Hard behaviour | What makes it correct |
|---|---|---|---|---|
| DMX universe, `io/dmx_io.py` | value table, constants, output switch, send timer, time of the last send | write one or many channels, schedule a send, timer, send now, switch the output | immediate send against a pending timer; writes while off; constants overwritten by input; partial frames | no write lost, one timer, spacing kept, constants on the wire, frames never shrink |
| Rate limiter, `util/rate_limiter.py` | two times, scheduled and pending flags, sleeping task | schedule an update, wake | forced updates between deferral and wake | one task per flag, nothing deferred without a task in time |
| Input, `protocols/*/protocol.py` | buffered updates, universe table | state callback, batch write | frames, timers and Home Assistant's writes interleave | nothing received is lost, batches are atomic |
| sACN transmission, `server/sacn_server.py` | sequence number, last and pending data, termination flag, stream task, tasks in flight | send, stream, terminate, resume after the executor | state read after an await; threads reorder; switch toggled with frames in flight | no stream for a disabled universe, only the newest frame kept alive |
| sACN receiver, `server/sacn_server.py`, `protocols/sacn/protocol.py` | subscriptions, universes by port address | set up, receive | lost and reordered packets, own packets that come back, synchronisation and foreign start codes | data reach their own universe and only others' are shown; a sole stream is shown in the end |
| Art-Net output, `server/artnet_server.py` | listeners, port data, transmission flag, retransmission loop, sequence number | send, loop round, node joins or leaves | loops against new frames, absent nodes, failing sockets | one loop at most, with current data; listeners served |
| Art-Net nodes, same file | nodes by IP, index by address, last-seen times, subscribers, cleanup tasks | poll reply, poll, cleanup, poll loop | overlapping cleanups, changing ports, failing broadcast | index exact, silence bounded |
| Art-Net input and handlers, same file | input flags, nodes by IP and bind index, subscribers, delayed replies | poll, reply, ArtDmx, diagnostics, subscriber updates | flag timeout against late frames, replies out of order, several replies of one host | the flag shows whether input arrives, a node is known with its own ports and all of them |
| Animation engine and tasks, `animation/` | active animations, channel owners, tasks | create, cancel, frame, cleanup | commands between frames, shared channels, animations of no length | the newest command wins, owners are alive |
| Light controller, `entity/light/light_controller.py` | current animation, preserve flag | turn on, turn off, completion | a command during an animation, on channels never written | no running animation escapes the next command; a command makes the light visible |
| Light entity and state, `entity/light/` | on/off, color mode, values, last values | input updates in any order, restore | preserved values over off, on and restart; conversions of whites and temperatures | the state shows the channels; on restores what was there |
| Number, select, switch, `entity/`, `switch.py` | native value, option, availability | set, select, update, restore | sharing of a channel, restore races | one owner writes; hidden entities unavailable |
| Node entities, `entity/node_handler.py` | devices by MAC and bind index | new, update, lost | a node that comes back | one device per node |
| Entity cleanup, `util/` | stored fingerprints, registry | clean up, store | restarts with changed fixtures | only obsolete entities go |
| Set-up, `setup/`, `__init__.py` | universes by port address | process the configuration | colliding addresses | every fixture reaches its universe |
| Codecs, `server/__init__.py`, `server/sacn_packet.py` | none | serialise, parse | boundaries of fields, packets that end early | what is written is read, at the address it was for |
| Fixtures, `fixture/` | modes, channels, capabilities | build entities, convert bytes | fine channels, ranges | conversions invert each other |

The colour curves (`animation/color_calculator.py`), the output correction
(`correction.py`), migration, the configuration flow and the platform files
complete the list; they keep no state that changes over time.

Interactions: the universe calls `send_dmx` and `send_dmx_data` (a direct
call); its listeners are the entities; the Art-Net server calls back into the
input callbacks and `NodeHandler`; the output switch calls the universe, which
calls `terminate_universe`. `PROJECT.json` lists what is modelled of each part
and every hazard with the line where it bites.

## Modules

| Module | Models | Extends or instantiates |
|---|---|---|
| `DmxUniverse` | `io/dmx_io.py`, the select's and the switch's calls | |
| `RateLimiter` | `util/rate_limiter.py` | |
| `DmxInput` | the state callbacks of both protocols | extends `RateLimiter`, implements `LatestValue` |
| `LatestValue` | abstract specification: a reader of latest values | |
| `SacnUniverse` | one universe of the sACN server, with the switch | |
| `SacnPackets` | `server/sacn_packet.py` | |
| `SacnExchange` | universes, sender and receiver of several hosts on a network | extends `SacnPackets` |
| `ArtNetOutput` | `send_dmx` and `start_artdmx_loop` | |
| `ArtNetNodes` | nodes, subscribers, polling and cleanup | |
| `PortAddress` | `PortAddress` and its bytes in `ArtDmx` | |
| `ArtNetPackets` | the packets of `server/__init__.py` | extends `PortAddress` |
| `ArtNetExchange` | two Art-Net servers: polls, replies, frames, input flags | extends `ArtNetPackets` |
| `AnimationEngine` | animation engine and a light controller's commands | |
| `ColorConverter` | `entity/light/color_converter.py` | |
| `Light` | light state, controller, entity | extends `ColorConverter` |
| `FixtureEntities` | selects, numbers and their universe's switch | |
| `DmxUniverseProofs`, `DmxInputProofs`, `AnimationEngineProofs`, `ArtNetExchangeProofs`, `SacnExchangeProofs`, `LightProofs`, `FixtureEntitiesProofs` | theorems | extend their modules and `TLAPS` |
| `ServerProofs` | theorems about the two servers | extends `ArtNetNodes`, `ArtNetOutput`, `SacnUniverse` and `TLAPS` |
| `MC...` | instances for TLC | extend their modules |

Definitions marked "Mutant" in a module are alternatives to the definition that
follows or precedes them, used to see that a property can tell the code from a
plausible mistake; no behaviour of a specification uses them.

### DmxUniverse

`channelValues`, `constantValues`, `outputEnabled` and `sendTimer` are the
fields with those names. `armed` holds the callbacks that wait in the event
loop, so that a handle the code forgets still fires; a timer is the number of
ticks left. `sinceSend` is the time since `_last_send_time`. `frame` is the last
frame given to the servers, `unrequested` the channels whose last change asked
for no send.

- `UpdateAndSchedule`: `update_multiple_values` with its `_schedule_send`.
- `UpdateOnly`: an input frame (`send_update=False`, with a source), or a write
  whose listener raises. The exception leaves after the table has changed.
- `UpdateAndSendNow`: a select, which calls `send_universe_data` itself and
  neither looks at nor resets the throttle.
- `TimerFires`: `_do_send` from the timer. `TurnOn`, `TurnOff`: the switch.
- `Tick`: one tick; a callback that is due may be late.

### RateLimiter, DmxInput, LatestValue

`sinceUpdate`, `sinceForced`, `updateScheduled` and `pendingUpdate` are the
fields of `RateLimiter`, `sleeping` the remaining sleep of its tasks. `updates`
is `updates_dict`. `Receive` is the whole callback: compare with buffer and
table, collect, and update at once or defer. `Wake` is the end of
`_delayed_update`. `HaWrites` is an entity's write to the same channels.
`process_updates` does not suspend and tasks start eagerly, so it is part of
the step that triggers it.

`LatestValue` promises a reader the last submitted value of each key, published
in whole batches and eventually. `DmxInput` implements it with
`latest <- Expected` (the table with the buffer over it), `shown <-
channelValues`, `pending <- DOMAIN updates`. Batches matter since the coarse and
the fine byte of a value are two channels of one frame.

### SacnUniverse

`seq`, `lastData`, `pendingData` and `terminationSent` are the fields of
`UniverseState`; `due` says whether `retransmit_interval` has passed since
`last_send_time`. `stream` is the state of the stream task, `waiting` the
`_send_pending_frame` tasks suspended in `_send_packet`, `jobs` the packet each
has given to the executor, `orphans` packets of a cancelled stream that a thread
had already taken. A task is split at its await: the part before it belongs to
the step that starts it (tasks start eagerly), the part after it is
`SenderResumes` or `StreamResumes`. `TurnOn` starts two sends, as
`set_output_enabled` and the switch both call `send_universe_data`. A `sendto`
may raise, which `_send_packet` logs and forgets; in `terminate_universe` it
leaves `termination_sent` unset. A frame in flight may leave after the
termination packets, which is why `DisabledFallsSilent` waits for it. Unicast receivers, which repeat the same
`sendto`, are represented by the multicast one.

### SacnPackets and SacnExchange

A packet on the wire is its size and fields with their offsets, so a reader that
looks in the wrong place gets `Torn` bytes. `SacnExchange` puts the hosts on a
network: `ids` are the universes a host configures in order, `stream` the
`UniverseState` of each, `wire` packets with the host each is for, `shown` what
the receiver last passed to the universe at each port address.

- `SendDmxData`, `FrameSent`: `send_dmx_data` up to its await, and
  `_send_pending_frame` after it; several may be in flight.
- `Retransmit`, `Terminate`, `StreamEnds`: the stream task, its termination, and
  the turn in which a cancelled one ends.
- `Foreign`: another controller's data of start code 221, or a synchronisation
  packet. `Lose`: a packet is lost; packets arrive in any order anyway.
- `Receive`: `datagram_received` with every reason to ignore a packet.

`PortOf` is `add_universe`, which keeps ids above 511 modulo 512, and `IsPort`
the assertion that a received id fails on; two universes can share a port
address, and one of them can be unreachable.

### ArtNetOutput and ArtNetNodes

`listeners` is `nodes_by_port_address` as the output sees it, `portData`,
`updateTask` and `transmitting` belong to the `OwnPort`, `loops` are the running
tasks, each with its data and the sequence number it will use, `received` the
data last sent to each node (of the `Receivers`). A new loop's first round is part of `send_dmx`. A
failing socket ends the loop, whichever nodes it had reached. `manual` is fixed
by the configuration, so every choice of it is an initial state.

In `ArtNetNodes`, `known` and `addresses` are `nodes_by_ip` and each node's
`get_addresses()`, `index` is `nodes_by_port_address`, `silence` the time since
`last_seen`. Every poll starts a task of `remove_stale_nodes`, which sleeps for
the cutoff, so several overlap (`cleanups`).

The definitions of the two, and of `SacnUniverse`, have names of their own, so that one
module of proofs can extend all three: a specification is `OutputSpec`, `NodesSpec`
or `Spec`.

### PortAddress, ArtNetPackets and ArtNetExchange

`ArtNetPackets` has a layout of each packet type as `serialize` appends it and as
`deserialize` pops it: fields with offset, form (byte, two byte orders, raw,
text) and width, and flags as sets of names. `Read` of a field that does not
begin where the reader looks is `Torn`, so a missing gap or an exchanged byte
order shows; a poll reply that ends early reads the defaults of the code.

`ArtNetExchange` has two servers. `own` are the keys of `own_port_addresses`,
`nodes` is `nodes_by_ip` with IP, bind index and the addresses of
`Node.get_addresses`, `subscribers` and `delayed` the poll's subscribers and
reply tasks, `received`, `age` and `flagTasks` the input flag of a port, the time
since `last_input_seen` and the sleeping tasks of `disable_input_flag`. Every
handler reads the packet from its bytes and writes its answers as packets:
`HandlePoll` (target range, notification, diagnostics), `DelayedReply` with
`GroupedPorts` (four ports of one net and sub-net per reply), `ReceivePollReply`,
`SendDmx`, `ReceiveDmx` (flag, news to the subscribers, time, the flag's task,
data), `DisableInputFlag`. A reply can raise: it cannot be written (a universe or
bind index that is no byte), or the socket does not take it (`faults`).
`SendReply` and `UpdateSubscribers` are the outcomes of the two functions: what
was sent before, and whether the rest of the handler is left undone. A
first frame whose news raise leaves the flag up and does nothing else; a frame
whose news of the output flag raise is not sent.
A behaviour that begins with `other` has one packet of
another type on the network instead, and shows what `deserialize` of its class
reads of it (`Deserialized`); `handle_datagram` itself leaves ArtIpProg and
ArtAddress unread.

### AnimationEngine

Commands are numbered, and an animation bears the number of its command. `task`
is the state of its task, `active` and `owner` are `active_animations` and
`dmx_channel_owners`, `current` the controller's `_current_animation_id`.
`writer` is the command whose value each channel shows and `commanded` the last
command for it. A cancelled task ends in a step of its own, when the loop next
runs it.

### ColorConverter and Light

`ColorConverter` has exact fractions for the code's floating point: a value of a
temperature channel is counted in parts of 1/(max - min). The code's results
were compared with the exact ones for all temperatures, brightnesses and pairs of
whites of a fixture from 2000 to 6500 K: at ties and whole results the floating
point is off by one step of a white (560 of 1.1 million) or one kelvin (223 of
65536 pairs), and never out of bounds. A temperature set on its channel is read
back exactly there, and for other bounds up to one kelvin lower.

In `Light`, `s` is the `LightState`: on, color mode, the values `v`, the `last_`
values and the preserve flag. `dmx` are its channels in the universe, `Unset`
where nothing was written. `animation` is the running animation, whose frames
`Frame` and `LastFrame` come between other steps. `TurnOn` is `turn_on` with all
it calls: `CollectUpdates`, `RestorePreviousState`, `BecomeVisible`,
`ApplyUpdates` with the cancellation and the listeners, which are a set and may be
called in any order (`Heard`). `TurnOff` captures and saves the last state as the
code does. `OthersWrite` is another entity or an input frame, `Restart` what
`async_added_to_hass` makes of the attributes that Home Assistant keeps.
`left` are channels that a cancelled animation has left half way: their state is
already at the target, which the code accepts. `shown` is what the light
showed when it was turned off or stopped.

### FixtureEntities

`s` has the channel values of the universe, the select's option, what is
available and the numbers' native values; these are exact or, after a restore,
hundredths. `SetNumber`, `SelectOption`, `Frame` and `Switch` are the commands,
an input frame, and the availability that the universe's switch gives all
entities. A restart constructs all entities anew (`Constructed`); each is then
added in two steps around its question for the last state (`AskForLastState`,
`RestoreNumber`, `RestoreSelect`), which interleave with commands and with the
other entities' restores. `wanted` is what commands and frames last wrote,
`missed` the numbers whose channels changed while they were hidden. A write is
`Updated`: the values (`Written`), then the callbacks of those whose channels
changed (`Listeners`), which are a set. Numbers mind only whether they are called
before or after the select, so `Heard` has an outcome for each set of numbers
called before it instead of one for each order.

What the model assumes of fixtures is `IsFixture`, from `create_entities` and the
fixture format: channels have slots of their own, the sliders of a select those of
the select, numbers that are switched to others; ranges are not empty and do not
overlap. Two assumptions are narrower than the code: an entity's range ascends
(`IsNumber`), and an option switches one channel (`IsOption`). That a number's
value is within its range is not assumed and not promised: a byte of a frame that
is outside a slider's DMX range gives a value outside it (`entity/number.py:186`).

## Runs

| Run | Configuration | Result |
|---|---|---|
| `universe` | channels 1 and 3, two values, interval of 2 ticks, partial frames, fair | no write lost, spacing kept, frames never shrink; every requested write reaches the wire, or is superseded or switched off |
| `input` | 2 channels, interval 2, forced after 5, fair | nothing received is lost; input is shown; `LatestValue` is implemented, liveness included |
| `sacn` | two frames in flight, two contents, failing sockets, fair | no stream for a disabled universe, which falls silent; keep-alive is current; a stream asleep over a frame sends it |
| `sacn_exchange` | two hosts, one receiver, universes 5 and 517, overlapping frames, a termination, a fault, fair | data reach the universe they were sent for, own and foreign packets are never shown, a sole stream's last frame is shown in the end |
| `artnet_output` | one address, with and without a manual node, three nodes, two contents, failing sockets, fair | one loop at most, with the port's data; listeners are served unless a send failed |
| `artnet_nodes` | two nodes, two addresses, cutoff 3, polls every 1 or 2 ticks | index exact, silence bounded |
| `exchange` | two hosts in seven set-ups of ports, both polling, one datagram lost, one reply the socket refuses, and fifteen other packets, whole and, the poll replies, cut short | nodes are known with their own ports and, once they answered, with all; frames reach their port; flags show input; packets arrive as they were written |
| `dmx_address` | same | **violated**: a frame arrives at another port than the one it was for |
| `animation` | two lights with channels of their own, three commands, animations of up to three frames, fair | the newest command wins, owners are alive, animations end |
| `animation_conflicts` | two lights that share a channel, two commands | **violated**: two animations write one channel |
| `lights` | fourteen kinds of lights, colors, whites and temperatures, three steps | the state shows the channels, on means lit, every command makes the light visible, what was shown comes back |
| `fixture` | three fixtures: switching options and a slider, one byte for ranges of two, a fine channel; three steps | the select shows its channel, the latest command stays, restored options and available numbers are right |

A violated run states what the documentation or a docstring says and has an
entry with the quotation under `findings` in `PROJECT.json`.

Some invariants are not in a run because they are proved (next section), and TLC
has checked them with the run's constants: the type invariants of `DmxUniverse`,
`DmxInput`, `SacnUniverse`, `ArtNetNodes`, `ArtNetOutput` and `AnimationEngine`,
`TimerOwned`, `TimerOnBoundary`, `ConstantsOnWire`, `OneTaskPerFlag`,
`DeferredInTime`, `BufferedIsPending`, `TerminatedHasNoStream` and
`RunningIsCurrent`.

### Bounds

- *Channels and values.* Two channels with a gap (1 and 3) show the padding of a
  partial frame, a channel that is never set, and one that is added later; two
  values show change, no change, and zero against not set. The proofs of the
  universe and its input hold for any number.
- *Time.* Intervals of two ticks let a call fall at, inside and after an
  interval. A forced update must be able to fall between a deferral and its wake:
  the forced bound is larger than the interval and no multiple of it in `input`.
  Clocks stop at the largest value they are compared with, which loses nothing.
  `FlagTime` of two ticks lets a second frame come while a task of the first sleeps.
- *Frames in flight.* Two senders in `sacn`, as many as turning the switch on
  starts at once; a third adds interleavings of the same kind and no new outcome
  of `SenderResumes`, which depends on whether another one finished before.
  `SeqMod`, `SeqMax` and `SeqSize` are small so that sequence numbers wrap.
- *Budgets on the networks.* `sacn_exchange` has three sends, one termination and
  one fault (a loss or a foreign packet): enough for a frame that overtakes
  another, a stream that ends and starts again, and a fault at each point of it.
  When they are spent and nothing streams, the run ends, so deadlock is not
  checked there. One receiver suffices as receivers do not interact. `exchange`
  has one loss and one reply that the socket refuses (`MaxFaults`); replies that
  cannot be written are as many as there are. Two equal datagrams in flight are one.
- *Nodes.* Two or three nodes show a first, a second and a last listener; the cutoff is
  longer than the longest poll period, as in the code (10 s against 3 s), so that
  cleanups overlap.
- *Ports.* The seven set-ups of `exchange` have a common port, disjoint ranges,
  several groups, five ports of one group, addresses the two bytes lose, and
  universes that are no byte, alone and after a group whose reply goes out.
- *Commands.* `MaxCommands` and `MaxFrames` bound the animations: a command, one
  that cancels or conflicts with it, and one after that. `MaxSteps` bounds
  `lights` and `fixture` by three: with two, something can be set and taken away;
  the third shows what is brought back or overwritten. The restore steps and the
  frames of an animation are not counted. As the steps run out, these runs end,
  and their configurations do not check deadlock; all others do.
- *Values.* A byte of `fixture` has 16 values, since a range of two bytes must be
  enumerable; the levels 0, 7 and 12 are in different options. `lights` has bytes
  of 256 values, as the whites and temperatures are rounded.
- *Addresses.* Ports share nothing but the sequence number, so one address shows
  the output's behaviour; `ArtNetNodes` has two, for nodes that move.

### Fairness

`WF(Tick)`, and weak fairness of every timer, task and executor job: an event
loop runs each callback that is due and a thread pool each job. In
`SacnExchange` also weak fairness of a receiver for the packets that are there:
what is not lost arrives. Nothing is
assumed of users, entities, nodes, sockets or other controllers. No strong
fairness is used. `QuietStreamRetransmits` and `InputIsShown` allow for newer
data, which resets what they wait for. `ListenerIsServed` excepts an address
whose loop ended on an error (`socketFailed`): the code does not restart it.
`SoleStreamIsShown` is about behaviours in which one host streams a universe
from some time on: without that, two hosts would take turns.

## Proofs

The proof modules hold for all values of the constants that satisfy the named
assumptions of the modules they extend: in particular any number of channels,
any set of byte values with 0 in it, any interval, full or partial frames, any
number of frames in flight, any nodes, cutoff and poll period, any lights.

**DmxUniverseProofs.** The invariant is `TypeOK /\ TimingOK /\ NoLostWrite /\
ConstantsOnWire /\ FrameFits`. `TimingOK` joins `TimerOwned` and
`TimerOnBoundary`: neither is inductive alone, as the cancel of an immediate
send is correct only because the handle is the one armed send, and the spacing
of timed sends only because that send ends with the interval. `FrameFits` links
the frame to the table (the frame is no longer than a frame rendered now would
be), without which a frame could shrink; it rests on the table's domain only
growing. That the highest set channel exists is a lemma on finite sets of
numbers, by well-founded minimum. From the invariant: `TypeCorrect`,
`TimerIsOwnedAndPunctual`, `WritesAreNotLost`, `FramesCarryConstants`, and the
action properties `SendsAreSpaced` and `FramesNeverShrink`.

**DmxInputProofs.** The invariant adds to the checked properties that no task
sleeps past the end of the interval (`TasksInTime`) and that a pending change
has its flag up (`PendingIsScheduled`): with `OneTaskPerFlag` they give the task
in `DeferredInTime`. From it: `TypeCorrect`, `LimiterCorrect`,
`BufferIsPending`, `NoInputLost`, and `InputImplementsLatestValue`, that the
buffered input starts as `LatestValue` does and each of its steps is a step of
`LatestNext` or a stutter.

**ServerProofs** is about three specifications and has an invariant for each.
`NodesInv`: the index is exact because a node that is not known has
no addresses (`UnknownHaveNone`). The bound on silence is the more interesting
one: every known node is *covered* by a cleanup that sleeps already and will
find it silent for at least the cutoff and less than the bound, or by the one
that the next poll starts (`Covered`). A cleanup that wakes too early for a node
is not the one that covers it. A node that answers is covered again by the next
poll, or, if that is a whole period away, by the cleanup that was started just
now (`FreshPoll`). Theorems: `NodesTypeCorrect`, `IndexIsExact`, `SilenceBound`.

`LoopInv`: for the output the types and `OnlyLoopIsCurrent` are inductive: as the
only loop of an address is the one its port refers to, `update_task.cancel()`
leaves none, whatever packet raises afterwards. Theorems: `OutputTypeCorrect`,
`OldFramesStop`.

`StreamInv`: of a universe of the sACN server `pendingData` is none or the
newest frame (`PendingIsLatest`), from which `KeepAliveIsCurrent` follows
whatever the order of the frames' ends, and a packet waits for a thread
only while its task waits for it (`JobsAreAwaited`), from which a disabled
universe without frames in flight has nothing left to send. `DisabledHasNoStream`
needs `TerminatedHasNoStream`: `terminate_universe` returns early when the
universe counts as terminated. Theorems: `TypeCorrect`, `NoStreamSurvives`,
`KeepsNewestAlive` and the action property `DisabledIsSilent`.

**AnimationEngineProofs.** Two invariants. `EngineInv` holds whatever the lights
share: types, that animations are created in the order of their numbers
(`Numbered`), and `OwnersAreActive`, since whatever leaves `active_animations`
releases its channels in the same step. `LightInv` needs the assumption
`OwnChannels`, that no two lights share a channel: an owner is an animation of
the channel's light (`OwnersAreLights`), so no conflict hides another light's
animation from its controller (`RunningIsCurrent`), the next command cancels it,
and a running animation is for the newest command of each of its channels
(`RunningIsNewest`). Without the assumption the conclusion is false, which
`animation_conflicts` shows. Theorems: `TypeCorrect`, `OwnersStayActive`,
`RunningStaysCurrent`, `NewestCommandStays`.

**ArtNetExchangeProofs.** Two servers talk through bytes, so the proof follows a
packet from the record it is written from to the record that is read, for any
hosts, ports, pollers, addresses and number of losses:

- *Addresses.* For every address of the class, parsing undoes `port_address`,
  the dataclass's order is the order of numbers, and a frame keeps its address
  *exactly if* it is `Carried`, the guard of `FramesReachTheirPort`
  (`ParseNumber`, `OrderOfNumbers`, `CarriedArrive`). The arithmetic is in lemmas
  about numbers alone.
- *Codec.* `Run` follows the fields of a layout, `RoundTrip` says that reading
  a layout undoes writing one it is a beginning of, when every value fits its
  field; from it what arrives of a frame (`FrameRead`), a poll (`PollSent`,
  `DiagSent`) and a poll reply of 31 fields (`ReplyFits`, `ReplyRead`). They are
  about the layouts, the bytes and the padding, not about one message.
- *Groups.* `GroupsOf`: whatever its ports, a host's groups have at most four
  universes each, every one a port of the host, and with `Announces` every port
  is in one of them.

`IInv` has four parts. `FlagInv` (with `PortInv`) is what the input flag of a
port needs alone: a task that will find it old enough, or a frame whose news to
the subscribers raised (`MayHaveRaised`), after which the code has no such task.
The second holds on once it holds, as faults and subscribers only become more
(`RaisedStep`). `WireInv` says of each
datagram which packet it is, and of which ports or which group of the sender
(`GoodPacket`): handlers can only rely on what they receive. `NetInv` says that
every known node is the `NodeOf` one of its host's groups and every delivered
frame one of its sender's ports, with the address that arrives. `AnswerInv` is
the strengthening that `AnsweredIsKnown` needs: while nothing was lost or refused by
a socket, each reply that a host has given to a subscriber is on its way or its node is known.
It is inductive since two replies of a host differ in their bind index, so that
none takes the other's place in `nodes_by_ip`; this is where bind indices must
be bytes, and `Announces` says so. Theorems: `TypeCorrect`, `OnlyTheirPorts`,
`FramesArrive`, `FlagIsRight`, `EveryPortIsKnown`.

The other packets, and poll replies of other nodes, are `PacketsArrive`. The
run reads fifteen of them; the theorem is about every one whose attributes are in
the sets that the constructors of `server/__init__.py` describe (`PacketsOf`, one
set for each class: `PollReplies` has all 29 attributes), which is what
`OthersAssumption` asks of the constant, besides that `ReplyEnds` are ends of
fields. `AllArrive` has a lemma for each kind, all in the same three steps:

- the flags, bits and sums of a byte are recovered from it (`FlagsBack`,
  `TypesBack`, `Status1Back`, `Status3Back`, `ActionsBack`, `CommandsBack`, and
  `PortBack` for the seven fields of a port),
- every value so made fits its field (`ReplyFitsWhole` for the 31 of a reply),
- a packet written along a layout is read along it (`RoundTrip`).

For replies that end early, `CutFields` says what a reader has found when the
packet ends with the m-th field: the fields up to there and no other. `ReplyGot`
gives the record that is read, with the places at which the fields end
(`ReplyOffsets`), and `ReplyIsShown` compares it with what was written, attribute
by attribute: the Art-Net 2 part always arrives, and an extension arrives or has
its default, but a port's `good_output_b`. `HeardInv` is the invariant: what was
heard is what the class's `deserialize` reads of the one packet on the network, cut at
some of the sizes.
What the bytes do not carry is named in the property: the attributes in
`NotCarried`, the top bit of a net in the bounds of a poll (`Number(sent) < 65536`),
the bit that the value of an ArtAddress keeps of its action, the index of a command
without a port, and empty texts, which are read as NULs. `Meant` names the one
thing that a reader adds: with an UID there, LLRP is supported.

**SacnExchangeProofs.** First the packets: where each field begins (`OffsetsAre`),
so that a reader finds each where it was written (`ReadsWritten`); with that the
name of a sender and the start code of another controller arrive, and a
synchronisation is read as no data (`NameArrives`, `StartCodeArrives`,
`SyncIsNone`). The invariant says of the wire that what has the kind of a host's
packets has a host's name and what is foreign a foreign start code (`WireOK`), and
of a port that what it shows was sent for the universe with the port's own number
(`ShownOK`): the receiver compares ids with port addresses, so data of a universe
above 511 are never shown. That this is the universe kept at the port needs that
no two universes have one port, which `PortsApart` derives from the cardinalities
in the property's premise; without it a later universe replaces an earlier one.
It assumes that no host has the placeholder's or the other controller's name
(`NamesAssumption`). Theorems: `TypeCorrect`, `DataFindTheirUniverse`,
`OthersAreShown`.

**LightProofs.** First the arithmetic of the color temperatures: for all bounds,
temperatures and brightnesses values stay in their bytes, a temperature survives
its channel, the brighter white is the brightness, and the temperature of any
pair of whites is in bounds (`RoundBound`). Then the state: `ApplyState` says
that a channel update sets the value of its channel and of no other, whatever
else it does to brightness, color mode and remembered values; `ApplyAll` and
`Heard` carry it over sequences of updates and over every order in which the
callbacks are run. `LightInv` holds `AllShown` not only when nothing runs: the
state has the target of a running animation before its first frame, so the
channels an animation owns are described by where it comes from and goes to, and
those a cancelled one left half way are excepted (`left`) until they are
written. `StateFollowsChannels` assumes `OneTemperatureIn` of each kind: TLC found
that with both whites and a temperature channel, but no dimmer and no colors, it
is false (see the divergences). In `LightInv` that channel alone is left out
(`Readable`), for the other channels of such a light are right.

`OnIsLit` needs no such assumption. Without a dimmer the code decides by the
color mode which outputs count (`OnWithoutDimmer`), so the proof shows that no
mode leaves out one that is lit: `ModeOK` says the mode is the first one, or, of
a light that switches it, "color_temp" exactly while the colors are zero, and
`WithOnRight` derives `OnOK` from it, for the combinations of channels that
`__build_light_entities` makes (`KindsAssumption`: no cold white without a warm
one, the colors together, and with a temperature only next to a warm white or a
dimmer). `OnOK` is not inductive: a light is off at first though its values are
full, a command sets `on` before its updates, and a restart restores it next to
values of its own. What is inductive is that `OnOK` holds once a channel is
written (`OnShown`), as any write that changes a channel is heard
(`HeardState`), and every command writes one (`UpdatesOfRight`).

`TurnOnIsSeen` follows the updates of a command to the channels: what is put
once stays in the list (`PutKeeps`, `PutAllKeeps`), so the dimmer and an output
that a command puts above zero are written so; where a light has no dimmer, its
colors or whites are scaled so that the brightest one gets the brightness
(`OutputsShine`). A command that names no channel brings back the `last_` values,
visible by the premise of the property, and one that names some completes them
from there (`BecomeVisibleShows`). It assumes that no color asked for is all zero:
black makes a light dark, as asked. Theorems: `TypeCorrect`,
`StateFollowsChannels`, `OnIsLit`, `TurnOnIsSeen`, and the four about color
temperatures.

**FixtureEntitiesProofs.** First the bytes: `Split` and `Combined` undo each other
(`CombinedOfSplit`), and what an option writes comes back exactly if there are
enough bytes, else as the lowest value they can express that is not below it, or
the highest (`FineBytesExact`, `CoarseBytesRoundUp`, `CoarseBytesCapped`). As
ranges do not overlap (`OptionsApart`) this gives `WrittenOptionIsShown`. Then
the entities: `WriteIs` says of a write, for every order of its callbacks, what
becomes of the option, of what is available and of each number. There are two
invariants. `Kept` has the types, `LatestCommandStays` and `OnlyCurrent`, and
holds of all fixtures: a restore writes a channel of its own only while none of
its bytes has a value, and nobody wants a channel without one. `Matching` is
about fixtures for whose every option the select's channels have bytes
(`EveryOptionExpressible`: as many bytes as the ranges have, or one they can
express that is not below the option's start, or the option is the highest one;
it holds of every fixture of the run). An option so narrow that the bytes step
over it is written as the next one, and the select would follow its channel to
that. With it, `OptionShown` and `NumbersShown` hold of what is hidden too, so
an option that comes back shows what its channels have, and `Restoring` says
that until the select has been restored its channels have no value, so that
neither its sliders nor the order of the restores can have given it another
option. Theorems: `TypeCorrect`, `CommandsStay`, `HiddenWithTheirOption`,
`WrittenOptionIsShown`, and with `EveryOptionExpressible` `OptionIsShown`,
`OptionIsRestored`, `NumbersShowTheirChannels`.

*Recursion over data.* Layouts, updates, orders of callbacks, groups, powers and
sums of bytes are recursive functions. The library's induction theorems take a predicate as a
parameter and cannot be used, but `NatSetInduction` states induction for a *set*
of numbers (from the well-foundedness of `<` on `Nat`), and a claim about all
lengths is the set of lengths it holds for. That the function which
a definition chooses exists is itself such an induction, once for each
(`WriteRunExists`, `ReadRunExists`, `AscendingExists`, `FlatRunExists`,
`AppliedRunExists`, `PutRunExists`).

**Only model-checked.** Liveness, fairness and with them the liveness part of
the refinement are outside what the prover can do and are left to TLC; so is
`LastIsWhatWasShown` of the light: whites go through a temperature and back
when they are remembered and restored, which is the identity only for the whites
and bounds for which the rounding can be undone.

## Divergences the models show without a run

- Three updates can come in one window of the rate limiter, as a forced one does
  not move the deferred one (`util/rate_limiter.py:52` against
  `docs/artnet-controller-communication.md:27`).
- With two sACN frames in flight the later completion clears `pending_data`, so
  that no frame may be left to keep alive (`server/sacn_server.py:232` against
  line 31), and turning a universe off and on can leave it without a stream, when
  the cancelled task is not done yet (`:202` against `:192`).
- A frame for which nobody listens is dropped while the loop of the frame before
  goes on, so that a node that joins is sent the older one (`server/artnet_server.py:436` against `docs/config.md:117`), a loop that
  found nobody listening goes on with its port's flag down, and one that ended on an
  error is not restarted until the next frame.
- A node that fell silent stays subscribed: the condition at
  `server/artnet_server.py:259` is evaluated before the deletion it is about
  (`docs/artnet-controller-communication.md:75`).
- The replies of a host with more than four ports in its only group share bind
  index 0, so that one takes the place of the other (`server/artnet_server.py:382`);
  universes above 255 make a poll reply fail (`server/__init__.py:788`); a targeted
  poll carries its lower bound twice (`:587`); two status bits compare (`<`) where
  they should shift (`:774`, `:817`).
- From universe 512 on, sACN input is dropped by an assertion
  (`server/sacn_server.py:431` against `docs/config.md:193`).
- A light with both whites and a temperature channel, but neither dimmer nor
  colors, shows a temperature that its channel does not have:
  `entity/light/light_state.py:394` overwrites it by what the whites show.
- When a reply to a subscriber raises, the frame that caused it has its input flag
  up, and no time, no task to take the flag down and no data
  (`server/artnet_server.py:773`): the flag stays up until a later frame gets
  past the news.
- A poll reply long enough for an UID is read with LLRP supported, whatever its
  third status byte says: `server/__init__.py:920` goes through the setter at
  `:751`, five lines after the flag was taken from the byte.
- A host whose ports make more than 255 groups would give a bind index that is no
  byte (`server/artnet_server.py:382`).
- A light that is turned off twice brings back zeros, as the second turn_off saves
  the first one's values (`entity/light/light_state.py:191`); the whites of a light
  with a dimmer are not restored after a restart.

`AnsweredIsKnown`, `FlagShowsInput`, `PacketsArriveWhole`,
`DataReachTheirUniverse`, `CommandsMakeVisible` and `LastIsWhatWasShown` name
these cases (`Announces`, `MayHaveRaised`, `Meant`, `IsPort`,
`Visible(BroughtBack)`, `KeptOverRestart`).

## Abstractions and what is not modelled

- `SacnUniverse` and `ArtNetOutput` have packets that are their data and sequence
  number; the layouts are in the packet modules, whose texts are their lengths.
- An animation's values are the number of its command in `AnimationEngine`, and
  half-way values in `Light`; the colour curves (`animation/color_calculator.py`)
  and output correction (`correction.py`) are floating-point interpolation without
  control state and stay out. So does their effect on restored values.
- The rate limiter's rescheduling after an update that raised is left out: the
  update methods of the input do not raise.
- `ArtNetNodes` assumes that a send to a joining node does not raise in the
  middle of a poll reply, and that the server has ports of its own.
- `ArtNetOutput` takes joining and leaving nodes as free events; `ArtNetNodes`
  and `ArtNetExchange` say when they come.
- ArtIpProg, ArtIpProgReply, ArtAddress, ArtDiagData, ArtCommand, ArtTrigger and
  ArtTimeCode: what their classes write and read is modelled. What the handlers
  start in Home Assistant is not, nor is ArtInput. Of ArtIpProg and ArtAddress the
  server reads the opcode only.
- The output flag of a port in a host's poll replies is left out of
  `ArtNetExchange`; `ArtNetOutput` has it.
- Lights with channels of 16 bits. Numbers restored from a state's text alone.
- Joining multicast groups on several interfaces, unsubscribing, and stopping the
  servers.
- Node entities (`entity/node_handler.py`, `entity/node.py`): a list of diagnostic
  sensors that mirror attributes of nodes through callbacks; one device per bind
  index follows from the key of `nodes_by_ip`, which `exchange` checks.
- Entity cleanup and fingerprints match substrings of registry names; the models
  have no strings, and the matching is all there is to it.
- Clock adjustments: time only moves forward, and one reading serves a step.
- Migration, the configuration flow, repairs, set-up, platform registration, icons
  and the fixture parser construct data once and have no behaviour over time.

Hazards of the code that no property covers, besides those noted in
`PROJECT.json`: constants that input overwrites are restored by the next send
only; a forced update while a deferred one sleeps; one Art-Net sequence number for
all universes; an Art-Net and an sACN universe of the same number share a port
address; the engine reads the clock twice per frame; a stream that has no last
frame and is past its interval sleeps for zero seconds until it has one.

## What could come next

1. A send that raises in the middle of a poll reply, with `ArtNetNodes` and
   `ArtNetOutput` composed: the index under failures.
2. `NodeDevices` and `EntityCleanup`: devices over discovery and loss; the
   registry over restarts with changed fixtures, with names as records.
3. Fine channels and output correction in `Light`, with the corrections as
   monotonic functions.
4. Proofs: what a light brings back when it is turned on again.
