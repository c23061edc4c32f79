# TLA+ models of the FIX hub

This directory holds a TLA+ development of the C++ FIX hub in this repository:
specifications translated from the source, TLC configurations that check them
on small instances, and TLAPS proofs of what matters most for every instance.
`PROJECT.json` is its index: components, runs, the faulty variants each property
is tried against, the source lines of every definition, findings, hazards and
theorems.

    tlasany FixServer.tla
    tlc -workers 2 -config MCFixServer_routing.cfg MCFixServer
    tlapm FixServerProofs.tla

Contents: [the system](#1-the-system), [hazards](#2-what-is-hard),
[modules](#3-modules), [runs](#4-runs), [proofs](#5-proofs),
[findings](#6-findings), [what is not modelled](#7-what-is-not-modelled),
[plan](#8-plan).

## 1. The system

Companies connect over TCP to a hub, log on with their CompID (tag 49), and send
each other FIX messages through it, addressed by tag 128 (DeliverToCompID). A
message for a company that is not logged on is stored in a file and sent when it
logs on.

| Component | State | Operations | Module |
|---|---|---|---|
| **FixServer** (`server/src`) | `clients_`, `buffers_` (bytes read per socket), `compIdToSocketMap_` (who is routable, and where), `socketToCompIdMap_` (who a socket is), `connectionTimeMap_` | slots `start`, `onNewConnection`, `onReadyRead`, `onClientDisconnected` | `FixServer` |
| its packets (both programs) | the two ends' byte buffers | length prefix, the loop that cuts the stream | `PacketFraming` |
| its codec | none | `parseFixMessage`, `serializeFixMessage` | `FixMessageCodec` |
| its status signal | the self-pipe | `statusSignalHandler`, `handleStatusSignal` | `StatusSignal` |
| **MessageStore** (`common`) | `initialized_`; directory `offline_storage/<CompID>/<milliseconds>.fix` | `init`, `storeMessage`, `getAndClearQueuedMessages` | `MessageStore` |
| **ConfigManager** (`common`) | allowed CompIDs, supported MsgTypes, routing rules | `load`, `loadAllowedCompIds`, three queries | `ConfigManager` |
| **FixHelper** (`common`) | none | tag lookup, MsgType classification | `FixHelper` |
| **FixCoder** (`common/FixCode.cpp`) | two maps CompID <-> custom id, a mutex | `AddRoute`, `GetTargetCompID`, `TransformMessage` | `FixCoder` |
| **FixSessionVerity** (`common`) | allowed sender/target pairs | `addAllowedPair`, `validate` | `FixSessionVerity` |
| **Logger** (`common`) | `initialized_`, level, file, a mutex | `init`, `log` | `Logger` |
| **FixClient** (`client/src`) | `buffer_`, the socket, its configuration | `connectToServer`, `onConnected` (logon), `sendTestMessage` (2 s timer), `onReadyRead`, `onDisconnected` | `FixClient`, `Hub` |
| **basic_json** (`common/json.hpp`) | a value: its type and payload on the heap | access, modifiers, JSON patch, comparison, copies and moves | `JsonValue`, `JsonDocument`, `JsonPatch`, `JsonOrder`, `JsonMemory` |

**How they interact.** The hub is one thread: Qt's event loop calls one slot at a
time, when the listening socket has a connection, a socket has bytes, or a socket
was disconnected. `onReadyRead` reads what has arrived, and for each complete
packet asks ConfigManager (allowed? supported? a rule for this sender?), changes
the session maps (logon), writes to *another* connection (relay), or calls
MessageStore (store; replay at logon). `write` only queues bytes; the event loop
sends them later. FixCoder and FixSessionVerity are called by nothing yet. The
client is the hub's peer over TCP. `SIGUSR1` interrupts the hub's thread; the
handler writes a byte to a pipe that the event loop reads to dump the sessions.
ConfigManager reads its files through basic_json. Everybody logs.

**What makes each component correct.** FixServer: routes lead to live sockets of the
right company; messages reach their addressee only, once, in order, or wait in its
directory; a slot ends and leaves nothing undone. Framing: the packets taken are the
packets sent. Codec: what is written is read back, and BodyLength and CheckSum are
right. MessageStore: what was stored comes back once, whole and in order, across
crashes. Status signal: a request is answered and the hub never blocks in reading
the pipe. ConfigManager: the tables agree with the files, a rule is whole. FixCoder:
a translation is atomic. Session check: what is accepted was registered. Logger: the
file says what the console said. FixClient: the logon comes first on every
connection. basic_json: a call that throws changes nothing but what can be named,
comparison is an order, every block has one owner.

## 2. What is hard

`PROJECT.json` lists each hazard with its line and the properties that watch it.
In short:

- *Sessions outlive and overtake each other*: a company logs on again before its
  old socket is gone; the two maps are updated by different slots in whatever
  order the network dictates, and hold raw pointers whose address may be reused.
- *Slots that return early*: what stays in the buffer waits for an event that may
  never come.
- *Store versus relay*: a message must not overtake one that is stored; a replay
  must not repeat one that was sent, not even across a crash.
- *File names as order*: milliseconds of a clock that may stand still between two
  messages or be set back.
- *Files deleted before anything is sent*, so that a crash between the two loses
  messages that are on no wire; and steps of a file operation that fail one by
  one, or are the last before a crash.
- *A byte stream cut anywhere*, and a slot that may return with half a packet.
- *A signal at any moment*, merging with others, into a pipe of finite size that
  only the interrupted thread can empty.
- *Threads in Logger and FixCoder*: checks before the lock, two tables that must
  be read as one.
- *Partial failure in basic_json*: a type changed before its payload is there, a
  copy or a patch that fails in the middle, a destructor that allocates.

## 3. Modules

| Module | What it is |
|---|---|
| `FixServer` | the hub with the store and the configuration as it uses them; properties; the mapping to `MessageRelay` |
| `MessageRelay` | what the hub promises about messages, without sessions, files and clocks |
| `FixClient`, `Hub` | a client program; hub and clients as one system |
| `MessageStore`, `OfflineQueue` | the store, file operation by file operation; what it promises |
| `PacketFraming`, `PacketChannel` | one direction of a connection byte by byte; the queue of packets it stands for |
| `StatusSignal`, `Logger`, `FixCoder`, `FixSessionVerity`, `ConfigManager`, `FixMessageCodec`, `FixHelper` | one component each |
| `JsonValue`, `JsonDocument`, `JsonPatch`, `JsonOrder`, `JsonMemory` | basic_json: values and access; modifiers; patches; comparison; ownership |
| `*Proofs` | theorems about the module of that name; `HelperProofs` is about `StatusSignal`, `Logger`, `FixCoder` and `FixSessionVerity`, `JsonProofs` about `JsonMemory` and `JsonOrder` |
| `MC*`, `MC*_*.cfg` | instances for TLC |

### FixServer

| Variable | Code |
|---|---|
| `clients`, `buffers` | `clients_`, `buffers_`; a buffer is a sequence of packets |
| `compIdToSocket`, `socketToCompId` | `compIdToSocketMap_`, `socketToCompIdMap_`; an absent key is `NoSocket`, `NoComp` |
| `reader` | the socket whose `onReadyRead` is in its `while` loop |
| `closing` | sockets on which `disconnectFromHost` was called |
| `storeReady`, `store`, `clock` | `MessageStore::initialized_`, the files, `system_clock` |
| `inbound`, `outbound` | what TCP carries to and from the hub per connection, Qt's write buffer included |
| `running` | the process is up |
| `routed`, `delivered`, `sent` | history: tickets given to messages as they are routed, tickets received, packets sent |

A slot is one action, except `onReadyRead`, which is `ReadyRead` (up to its
loop), then one action per iteration: `LogonAccepted`, `LogonRefused`, `Ignored`,
`Rejected`, `Relayed`, `Stored` (one per path through the body), or `LoopEnds`.
While `reader` is set no other slot starts (`Idle`), because there is one thread.
The split exists because a crash may fall between two iterations and because
peers, the network and the clock move on meanwhile. `ReadyRead` may complete no
packet at all (part of one arrived): the loop then runs over what an earlier call
left in the buffer. `Returns` and `Loops` say how
a path ends: refused logons and rejects leave the loop, the others go round.

The environment: `PeerSends` (any peer, any packet of `Packets`, logged on or not),
`PeerReceives`, `ClientDisconnected` (any socket at any time: the peer closes, the
network breaks, or a requested disconnect completes; bytes in flight are lost),
`NewConnection` (with an address that may have been used before), `Tick`, `Crash`
(only files survive), `CrashInReplay` and `Start` (with a store that may not be
ready). Bytes that the kernel still delivers after a crash or a disconnect need no
behaviour of their own: the peer receives independently of the hub, so they are
received just before.

Abstracted: bytes (a packet is one element, which `RefinesChannel` of
`PacketFraming` justifies), every field but 35, 49 and 128, wording of logs and
rejects. A message carries a ticket `n` (its place in the order of routing; 0 for
a reject), its addressee, and whether the rule's tags were added. File names are
clock readings; names are compared as strings in the code, which is their
numerical order while they all have 13 digits (until 2286). Several rules for one
sender behave as the first, so only the set of senders with a rule is kept.
A CompID has a directory of its own: names that a path would treat otherwise
(`.`, a slash, `MessageStore.cpp:41`) are not distinguished. `QString::fromUtf8`
(`FixServer.cpp:144`) replaces bytes that are not UTF-8 before a packet is parsed;
the model takes packets as they are after that.

*The store in the hub.* `storeMessage` and `getAndClearQueuedMessages` are one
step each, with two exceptions that the hub's properties can tell. Storing may
fail (`StoringMayFail`: no directory, or a file that does not open), which
the caller ignores. And the process may die inside a fetch: a file goes as soon as
it is read (`MessageStore.cpp:92`) and nothing is written before all are
(`FixServer.cpp:178`), so `CrashInReplay` leaves a store without the files up to
some name, and all wires empty. A crash before the first removal, or between
the fetch and its writes or during them, is one of these: the first `Crash`, the
others `CrashInReplay` up to the last name, as what is written dies with the
process. That a file cannot be listed, read or removed, or is written in part,
and what follows from it, is in the module `MessageStore` only.

Assumptions on the constants: sentinels differ from values, `Logon` is no other
type, configured CompIDs are not empty strings, and packets are well-formed
records.

### MessageRelay

Tickets go on lanes (connections) or are kept per target; a replay puts all that is
kept for a target on one lane, the oldest first; an arriving ticket leaves its lane;
a lane breaks with what it carries; keeping may displace at most one kept ticket of
the same target; a hub that cannot keep a ticket forgets it. In `BreakInReplay` all
lanes break and the oldest of what is kept for one target go with them, up to any
one of them. `FixServer` implements it (`RefinesRelay`): `last` is `routed`,
`kept[c]` the tickets in the files of `c`, `lanes[s]` the tickets in `outbound[s]`,
`received` is `delivered`. Sessions, buffers, refusals, ticks and restarts are
stuttering steps.

### FixClient and Hub

`FixClient`: `state` is `socket_.state()` ("down" while the program does not
run), `timer` the single shot, `outgoing` what was written on the current
connection. Actions: `Launch` (`main` up to `exec`, `loadConfig` and
`connectToServer`), `OnConnected` (the logon), `SendTestMessage` (the timer;
dropped while not connected), `ConnectionFails`, `OnDisconnected`. A client
connects once: nothing in the code tries again.

`Hub` EXTENDS `FixServer`, INSTANCEs `FixClient`, and joins their actions: what a
client writes is what `PeerSends` puts in `inbound`; a connection ends on both sides
in one step; a crash of the hub, inside a replay or not, ends all; a connection may
fail to come about whether or not the hub runs. `conn` is the hub's socket of a
client's connection. Peers other than these clients do not exist here: that is what
the runs of `FixServer` are for.

### MessageStore and OfflineQueue

`pc` is the next file operation of the call that runs (the hub has one thread):
`CallStore`, `MakeDirectory`, `CreateFile` (truncates), `WriteFile` (any part of
it may reach the file), `CloseFile` (returns true whatever happened), `CallFetch`,
`ListDirectory`, `ReadFile`, `SkipFile`, `RemoveFile`, `Return`. Each operation of
`Faults` may fail, and `Crash` may come between any two steps. `files[c][t]` is a
ticket and whether it is whole. `lost`, `torn`, `again` and `skipped` are history:
they name what befell a message, so that the properties can say "only then".

`OfflineQueue` has no steps inside a call: keep the newest (at the cost of at most
one other), hand over the oldest first (what cannot be taken out stays, and so
does at most one of those handed over), tear the newest, lose some in a crash.
`RefinesQueue` maps `kept[c]` to the files of `c` together with what the running
fetch of `c` has in its hands.

### PacketFraming and PacketChannel

A byte is `<<n, k>>`, byte `k` of packet `n`. `SendPacket` puts a length before a
message; `ReadyRead` takes any prefix of what is on the wire; `TakePacket` is one
iteration, with the arithmetic of the code: `TotalSize` modulo `2^Width`, `ToInt`
for the cast; a header that is none yields any number. The body may return
(`MayReturn`) because the hub's does, on a reject or a refused logon. `Reconnect` is
the end of a connection, with which the hub removes its buffer. The mapping to
`PacketChannel`: a packet has arrived when its last byte is in the buffer.

### The helpers

- `StatusSignal`: signal (pending once, blocked in its handler), handler, pipe of
  `Capacity` bytes, the notifier, the read of one byte, the dump; other slots run
  in between, and a signal may interrupt any of them. A handler that finds the
  pipe full is stuck (`HandlerIsStuck`): it waits for the thread it keeps
  waiting. `HandlerWaits` is that waiting, a step that changes nothing, so the
  state is not reported as a deadlock; nothing of the hub runs any more in it.
- `Logger`: `log` step by step: check of `initialized_` and level, `now`,
  `localtime` (two halves of a static buffer that all threads share), the
  formatting that reads it, lock, console, file, unlock; `init` opens the file
  and logs. A write may fail, after which the stream stays bad.
- `FixCoder`: every call as lock, one lookup or assignment per step, unlock, and
  the change of the caller's message after it; `inForce` and `seen` are history.
- `FixSessionVerity`: both calls; the header of QuickFIX is a map from tag to text.
- `ConfigManager`: the two loaders over files that are missing, broken or of any
  shape, member by member in the code's order, so that what an exception leaves
  behind is what the code leaves behind. `loaded` and `lists` are history: the file
  of the last call, and the lists of it that call goes through. The lookups that
  assert end the program.
- `FixMessageCodec`: texts are sequences of signed chars; `Stoi` skips leading
  blanks, takes one sign, stops at the first character that is no digit, and
  refuses what an int cannot hold, from the least int on; the sum of the chars is
  an int that wraps (`Wrapped`: its overflow is undefined, and this is what the
  builds do), `Remainder` keeps C++'s sign, maps are written in the order of the
  tags. `stage` walks a message through
  parse, tag injection, serialize, and the receiver's parse. `CodecAssumption`
  asks for ints above 255 (a CheckSum has to fit) and says that texts and rules
  are sequences of chars; that the values of a rule have no SOH is not assumed but
  a hypothesis of the theorems (`TagsAreFixText`), because no code looks for one.
- `FixHelper`: the tag helpers and the classification of MsgTypes.

### basic_json

The repository has `json.hpp` but none of the headers it includes, so the model has
what is in that file. `JsonValue`: values as records with a type, access and lookup,
the errors thrown. `JsonDocument`: one document on which any modifier is called with
arguments of any type; `call` and `error` say what the last call was and how it
ended. `JsonPatch`: `patch_inplace` operation by operation, for patches of any
number of operations (`Patches`), each of which may throw behind others that were
applied; `diff`; merge patch. `JsonOrder`: the six comparisons with `Precision`-bit
floats and integers of one bit more, NaN and discarded values. `Compared` holds what
is compared and whatever is in it, so that the comparisons are recursive functions
on its pairs; `Nesting` is a depth of each value (`OrderAssumption`: greater than
that of what is in it, as there is no cycle in a value). `JsonMemory`: construction,
copy, move, assignment and destruction with a heap of `Blocks` in which any
allocation may fail, the stack of `destroy()` included; a value whose type says
"payload" and that has none trips the invariant's assertion. A copy is made step by
step: `copies` are the copy constructors under way, each called for an element by
the one before it; `MakesPayload` and `CopiesElement` go on, `CopyReturns` ends one,
and `CopyThrows` may come wherever the code allocates. Then the exception goes up:
`ElementGoes` destroys what the container that is being made has so far, with
`destroy()` and its stack, and `CopyFails` frees the payload and destroys the value
around it, which has a type and no payload. `origin` is history: variables and heap
as the outermost copy found them. Elements are only moved, copied and destroyed:
that an element in place is made an array, and its allocation fails, is left to
variables (`MakeArray`), so no invalid value is inside a container. `OneOwner`
counts the owners of each payload, and has besides that no set of payloads is owned
from within only (`NoIsland`): a cycle would leak although each of its payloads has
an owner.

## 4. Runs

| Run | Module | Bounds | Question |
|---|---|---|---|
| `routing` | `FixServer` | 3 sockets, 1 packet in flight per socket, 2 messages, 2 clock readings, storing may fail | Do routes stay live, do messages reach only their addressee, is a directory empty while its company is routable, and is a message lost only with its connection, to a file name, or to a crash during its replay? |
| `order` | `FixServer` | 2 sockets, 3 messages, 3 clock readings, store ready or not, storing may fail | Is there one copy of each message, in routing order on every connection, and is the hub a `MessageRelay`? |
| `progress` | `FixServer` | 2 sockets, 2 packets in flight, 1 message, every type supported, fairness | Is a refused connection out for good? Are buffers worked off, is everybody served, is what waits replayed? |
| `system` | `Hub` | 3 clients on 3 sockets, one of them unknown to the hub, 2 packets in flight, fairness | Does the logon come first on every connection, is a session the client that connected, does an order arrive? |
| `store` | `MessageStore` | 2 targets, 2 messages, 2 clock readings, every operation may fail | Is what was accepted accounted for, whole, returned once and in order, and is the store an `OfflineQueue`? |
| `helpers` | the helpers | 5-bit integers and 3 packets; pipe of 2, 5 signals; 2 threads, 2 calls each; 13 fields in texts of up to 3; every shape of file | one component at a time: see below |
| `json` | basic_json | documents of up to 3 values, patches of 1 and of 2 operations and differences of any two values; 2-bit floats; 4 blocks, 2 variables | Do calls that throw change nothing but what is named, do diff and patch fit, is comparison an order, has every block one owner, is a failed copy undone? |
| `online`, `stranded`, `tags`, `filename`, `slip` | `FixServer` | small | violated: see [findings](#6-findings) |

*`helpers` and `json` check several components side by side.* `MCHelpers` and
`MCJson` conjoin their initial states, and the variable `part` says which
component a behaviour is of; the others' variables stay as they are. No state is
reached that the component alone does not reach, and each property is about the
variables of one component, so the run is the sum of the separate ones. What each
shows:

- framing: wherever TCP cuts the stream, packets come out as sent
  (`PacketsComeOutAsSent`), and the byte stream is a queue of packets
  (`RefinesChannel`);
- signal: the slot never blocks in `read` (`ReadNeverBlocks`), no dump is unasked
  (`NoDumpUnasked`), every request is answered or a handler is stuck at a full pipe
  (`RequestIsAnswered`, liveness);
- logger: the file is a prefix of the console's lines (`FileFollowsConsole`);
- coder: a call answers from one state of both tables (`AnswersFromOneTable`), the
  last route registered holds (`LastRouteHolds`);
- codec: what is serialized is read back (`ReadBackAsWritten`), the receiver's
  check of BodyLength and CheckSum succeeds (`ReceiverCanCheck`);
- session check: `AcceptedWereRegistered`;
- configuration: a rule is whole (`RulesAreWhole`); of a file that loads, every
  CompID, every message type and every rule with all its tags has been taken, if
  the call goes through that list (`NothingSkipped`); loading takes nothing away
  (`LoadsOnlyAdd`).

*Why the bounds are enough.* Three connections let a company be taken over while a
third one sends, and an address be reused while both others live. Two packets in
flight put a packet behind a refused logon or behind a reject. Two messages with two
clock readings give both a collision of names and two files; three of each put two
in files and one on the wire behind the replay, or a collision in between. With one
message and the clock fixed, `progress` still has a directory that fills and
empties. In `store` two messages are enough for one to be skipped and overtaken,
kept behind by a failed removal, truncated or torn while the other is untouched; two
targets tell whether a call touches another's files. With five bits the longest
message, of 11 bytes, reaches the largest int with its header (`4 + 11 = 15`);
longer ones are excluded (`PacketsFit`, section 5). A pipe of two bytes fills, and
five signals leave three to come before, while and after it does. For the codec the
largest int is 4095, above every sum of the texts; a tag of 4096 is just too large.
Two threads are as many as can disagree about two tables or one buffer. Three nodes
and two variables nest a value in a value in a value, which is what a move out of
the middle needs; a copy of an array in an array fails with zero, one or both of its
payloads made. Two operations of a patch are one that is applied and one that
throws, also because of what the first did. Arrays in arrays put the first
difference of two values below the items that are compared first. Bounds are guards
of the environment (`MaxWire`, `MaxSends`, `MaxClock`, `MaxTickets`, ...) and no run
has a CONSTRAINT, so the code itself is never held back. The proofs below do not
depend on the bounds.

*Deadlock* is checked in every run but two; the stuck signal handler is a state of
its own kind, as said above. In `system` the programs may all have
ended or be unconnected for good (a client never connects twice), and in `json`
an exception without a handler or a failed assertion ends the program: both are
states in which the code does stop.

*Symmetry* (sockets, targets, blocks and variables) is used only in runs without
liveness properties. *View*: in `json` the states that differ only in what the
last call was are taken as one (`MCView`); no call reads it, and the action
properties that do are evaluated on every step.

*Fairness.* `FairSpec`: `WF(Iteration)`, a slot that runs keeps running.
`SF(ReadsPacket)`, which is `ReadyRead` that completes a packet: each time it is
free, Qt's event dispatcher polls all descriptors and activates every notifier
that is ready, so a readable socket is not passed over for ever, although
`ReadyRead` is disabled again and again while other slots run; weak fairness would
be too little for that reason only. Reads that complete no packet are finitely
many between two that do, because a packet has finitely many bytes. `SF` of
the disconnect of a `closing` socket: Qt emits `disconnected` once the write
buffer is empty or the connection fails. Nothing is assumed of peers, the clock,
crashes, restarts or delivery. `HubFairSpec` adds what the composition knows: a
connection that is made is reported (`Connected`), a due timer fires
(`TimerFires`), the hub accepts who is waiting (`SF(Accept)`, for the reason
above), TCP delivers while a connection lives. Nobody owes a launch or a start,
and `OrderArrives` lets either connection end. `SignalFairness`: the kernel
delivers, the handler's write goes on where there is room, the slots go on, and
the dispatcher comes to the pipe (`SF(Activated)`, as above).

*Faulty variants.* Next to the definitions, operators marked "Faulty variant"
(a route left behind, files not removed, a missing `return`, a lock released
between two lookups, elements left in a payload that is freed, ...) stand
for plausible bugs; each checked property is violated when one of them replaces the
definition it varies.
No specification uses them.

## 5. Proofs

Nothing below depends on a bound: sets of sockets, companies, threads, targets,
routes, packets, texts and values are arbitrary, counters unbounded, and each
theorem assumes the named assumptions of its module's constants, which TLC
evaluates in every run, and the hypotheses the table shows.

| Module | Theorem | Statement |
|---|---|---|
| `FixServerProofs` | `TypeCorrect` | `Spec => []TypeOK` |
| | `RoutesStayLive` | `Spec => []RoutesAreLive` |
| | `RefusedNeverJoin` | `Spec => []RefusedStayOut` |
| | `ForwardsOnlyToAddressee` | `Spec => []OnlyToAddressee` |
| | `NothingWaits` | `Spec => []NothingWaitsForOnline` |
| | `ReplayKeepsOrder` | `~ClockMaySlip` implies `Spec => []InRoutingOrder` |
| | `NeverTwice` | `Spec => []AtMostOneCopy` |
| | `OnlyConnectionsLose` | `Spec => LostOnlyWithConnection` |
| | `HubIsARelay` | `~ClockMaySlip` implies `Spec => RefinesRelay` |
| `HubProofs` | `SystemIsAHub` | `HubSpec => Spec` |
| | `SessionsAreClients`, `LogonsComeFirst` | `HubSpec => []SessionIsClient`, `[]LogonComesFirst` |
| `MessageStoreProofs` | `StoreTypes` | `Spec => [](TypeOK /\ CallInv)` |
| | `OnlyOwnFailureTears` | `Spec => []TornOnlyByFailure` |
| | `EveryMessageAccounted` | `Spec => []NothingUnaccounted` |
| | `NothingComesTwice` | `Spec => []ReturnedOnce` |
| | `OldestComesFirst` | `~ClockMaySlip` implies `Spec => []HandedInOrder` |
| | `StoreIsAQueue` | `~ClockMaySlip` implies `Spec => RefinesQueue` |
| `PacketFramingProofs` | `PacketsAsSent` | `PacketsFit` implies `FramingSpec => []PacketsComeOutAsSent` |
| | `FramingIsAChannel` | `PacketsFit` implies `FramingSpec => RefinesChannel` |
| `ConfigManagerProofs` | `KeptRulesAreWhole`, `SuccessSkipsNothing` | `ConfigSpec => []RulesAreWhole`, `[]NothingSkipped` |
| | `LoadingOnlyAdds` | `ConfigSpec => LoadsOnlyAdd` |
| `HelperProofs` | `SignalTypes`, `SlotNeverBlocks`, `DumpsAreAskedFor` | `SignalSpec => []SignalTypeOK`, `[]ReadNeverBlocks`, `[]NoDumpUnasked` |
| | `LoggerTypes`, `FileIsACopy` | `LoggerSpec => []LoggerTypeOK`, `[]FileFollowsConsole` |
| | `LastRegistrationHolds`, `OneTableAnswers` | `CoderSpec => []LastRouteHolds`, `[]AnswersFromOneTable` |
| | `OnlyRegisteredAccepted` | `VeritySpec => []AcceptedWereRegistered` |
| `FixMessageCodecProofs` | `SerializingKeepsFields` | `TagsAreFixText /\ CodecSpec => []ReadBackAsWritten` |
| | `ReceiverCanCheckWhatFits` | `TagsAreFixText /\ CodecSpec => [](Len(text) <= MaxInt => ReceiverCanCheck)` |
| `JsonProofs` | `EveryPayloadHasOneOwner`, `FailedCopiesAreUndone` | `HeapSpec => []OneOwner`, `HeapSpec => CopyIsUndone` |
| | `ExactValuesAreOrdered` | `OrderSpec => []OneTotalOrder` |

**FixServer.** The argument goes up in layers: names and types first, each later
one an inductive invariant on top of those before; the last needs the first only.

1. *Names.* `SortedNames` picks, for place i, the name with i-1 names below it.
   `PlacesAreTaken` shows by counting that each place is taken (the number of
   names below a name is an injection into 0..n-1, hence onto), so
   `SortedNamesAscend`: the enumeration exists and ascends. No induction over the
   directory is needed. `TypeStep` follows.
2. `SessionInv`: routes are live; a socket with a session is a client; closing
   sockets are clients without a session; the slot being run belongs to a client
   that is not closing; a process that is down has no clients. `RoutesAreLive`
   alone is not inductive: a disconnect removes only the route of the socket's
   own CompID, which is enough because a route leads to a socket with exactly
   that session; and a logon adds a route to a socket that had none because it
   had no session.
3. `MailInv`: files are in their addressee's directory, forwarded messages on
   their addressee's wire, and nothing waits for a company that is routable. A
   logon changes whose wire it is, which is harmless because a connection
   without a session carries rejects only.
4. `OrderInv`: files of a target are named in routing order and not after the
   clock, tickets on wires have been given out and ascend. Storing adds the
   largest ticket under the latest name; a replay goes to a wire without tickets.
5. `OneCopyInv`: a ticket is in one file, or in one place of one wire, or received,
   and every ticket anywhere has been given out. `AtMostOneCopy` alone is not
   inductive: that the next ticket is new has to be known. A replay lists each
   file once because the sorted names ascend, and the files go in the same step.
6. *What a step does to messages.* `StepsMoveMail` sorts all steps of `Next` into
   nine: nothing, all lanes break, all break while a replay has removed the oldest
   files of one target, one breaks, a replay, a reject, a message forwarded, a
   message kept or not, one received. Losses and refinement are argued on those
   only. `OnlyConnectionsLose`: a replay writes every file it removes
   (`QueuedMessagesAll`, the converse of 1), a store overwrites the name it takes
   if anything, a receipt takes the head of one wire, and a crash takes files only
   from the company whose logon is next, with every older one.
7. `HubIsARelay`: each of those is an action of `MessageRelay` or a stutter under the
   mapping of sockets to lanes and directories to what is kept. A replay of the
   relay sends the kept tickets in ascending order, and a crash in it takes those
   up to one of them, so the mapping needs `OrderInv` (the older of two files has the
   smaller ticket); that is why the theorem assumes `~ClockMaySlip`, and finding 5
   shows that without it the claim is false.

**Hub.** `HubStepIsStep` maps each step of the system to one of `FixServer` or a
stutter. The client's packets need a socket of the hub, which a connected client
has (`LinkInv`), and have to be in `Packets`, which `HubAssumption` says of clients
whose configuration loads. With `SystemIsAHub` every safety theorem about
`FixServer` is one about the system. `PeerInv` says what the hub has of a client:
nothing until the client is connected; then its logon is first in what was read
and not processed together with what was not read (`Pending`), or the socket is a
session of that client or closing. A read moves packets from one part of `Pending`
to the other, an iteration takes its head (`ServerMoves`), so an order comes to
the front only behind a logon. That an address is used again only with nothing
pending is part of the invariant: `SessionIsClient` alone would let a new client
inherit what the last one left.

**MessageStore.** `CallInv` says what a running call has in its hands: the file
it writes is its own ticket's, the names it has yet to read are taken, and the
file it is about to remove is the message it read last. `TornOnlyByFailure` is
inductive together with it and with the same statement about what a fetch has
read (`TornInv`): a file that is not whole and not being written is torn, so what
is read from it is. `NothingUnaccounted` is inductive with `CallInv` alone: a file
goes by being overwritten, when its ticket goes to `lost`, or by removal, when it
is the last of `messages`. `ReturnedOnce` rests on `OnceInv`: a ticket is in one
place - a file, the hands of a fetch, or handed over - and what a fetch has read is
still in a file only while that file is being removed or when it could not be.
`OrderInv` puts the files of a target, what a fetch has read and what it has yet to
read in one order, that of tickets and of names, and leaves out what is in
`skipped`; it needs the clock not to go back. `StoreIsAQueue` counts what a
fetch has in its hands as still kept: a call that takes a ticket is the queue's
`Ask`, `CreateFile` is `KeepNewest` (at the cost of the file whose name it takes),
`WriteFile` and `CloseFile` are a stutter or `Tear`, `Return` is `HandOver`, and a
crash is `Tear`, `Lose` or a stutter; reading and removing a file, and every other
step and failure, are stutters.

**PacketFraming.** No packet's place in the stream is computed from those before it
by recursion; `Laid` says that there are offsets, one per packet written, at which
headers and bodies lie one behind the other, and keeps them as witnesses: a write
adds one, taking a packet drops the first. Whether a packet is whole in the buffer
can be told from the place of its last byte. `PacketsFit` (header and body are
less than half of `Modulus`, which stands for lengths below 2^31 - 4) is needed: for
longer ones the int is negative and the packet is taken before it has arrived
(section 6). The instance `helpers` satisfies it. `FramingAssumption` states
`Modulus \in Nat` because the provers do not know the power it is defined as.

**ConfigManager.** The errors of a list are a list of their own, and `First` of it is
"none" only if every element was read (`NoneMeansAll`, from the least number of a
bad element). So a rule without an error has all its tags, and a load without an
error has read every element of its lists; `RulesOf` is then one rule per element,
appended. Rules are appended, and a rule is looked up from the
front, so later files change nothing for a source that has one.
`ConfigAssumption` says that what is gone through in a file are sequences.

**StatusSignal** (in `HelperProofs`, as the next three). A thread at `read` has
a byte and nothing but that thread takes one; every byte, pending or running
handler and dump is a signal of its own.

**Logger.** The file follows the console because both writes are made under the
lock: the one who holds it is the only one who may be a line ahead, and only
between the two writes. Before the file is open nothing was written.

**FixCoder.** Only the holder of the lock is between `first` and `set`; the tables
it sees are the pair in force, which is in `seen` of every call that runs; what
it found in the first table it would find again until it leaves.

**FixSessionVerity.** Every entry of the map is a registered pair.

**FixMessageCodec.** The invariant, `Travelling`, is small: what is on its way is a
message (tags in int, values without SOH), what is on the wire is `Serialize` of
one, and what is received is `Parse` of that. The work is in the lemma that parsing
undoes serializing (`SerializedIsRead`), for every message. The operators are folds;
`Run` is a fold as the sequence of its partial results, and what holds of every
partial result follows from the least number for which it would not hold, so no
induction theorem with an operator parameter is needed. On top of that, in this
order: the text of a number is digits without a leading zero and stands for it
(`std::to_string`), `Stoi` reads digits as their value, a tag that is written is
read as itself; a text that ends with the end of a field can be read before what
follows it (`TakeField`, `ParseField`); the iteration of a map visits every tag
once, by counting, as in the names of `FixServer`; so a body that is appended to
fields is read behind them (`BodyIsRead`). For the receiver's check, the first two
SOH are those of tags 8 and 9, because neither field has one inside; the sum that
the hub forms in an int and reduces at the end has, if it did not overflow, the
remainder the receiver forms byte by byte. Two hypotheses are not idle.
`TagsAreFixText`: an SOH in a rule's value ends its field, and the receiver reads
another message than was written; `MCHelpers` asserts it of the rules of the run
(`RulesAreFixText`). `Len(text) <= MaxInt`: the BodyLength of a longer text is
beyond what `stoi` of the receiver takes.

**JsonMemory.** That each payload has one owner is kept as places, not as a
number. What holds a block outside the heap is one function, `Holders`: the
variables and the copies under way. No two holders, elements or entries of
`destroy()`'s stack hold the same block (`HoldersApart`, `ElementsApart`,
`StackApart`), no two kinds of owner do (`KindsApart`), all that is allocated is held
and all that is held allocated. This is not inductive alone: when a payload is
freed, the elements of it must be on the stack, and that a move of a value into an
array does not close a cycle has to be known. `Rooted` (each set of blocks has one
that no block of it holds) is kept as well; a copy that returns into the one around
it keeps it because nothing in the heap holds the copy around. `Emptied`: between
two steps of `destroy()` what dies has given all it held to the stack. From places
to the number that `OneOwner` speaks of is a lemma about the cardinality of sets
with one element.

`CopyIsUndone` speaks of a moment long past, so `CopyInv` carries it: while a copy is
under way every block the outermost one found is still there with what it held,
the variables are untouched, all other blocks are held by the copies or
by elements of theirs, and every copy but the innermost lacks the element that the
next is for. When the last copy fails, `OneOwner` leaves no owner for a block that
was not there before, and `Rooted` no set of them that owns itself, so the heap is
the one the copy found (`SameHeap`). That no assertion fails on the way needs that
elements are valid, and that the value destroyed without its payload is passed to
`destroy()` only.

**JsonOrder.** A recursive function of TLA+ is a choice, so that it satisfies
its own equation has to be proved: `RecursionExists` gives a solution below
every depth and joins them, for any right-hand side that asks for what is nested
less deep, and `EqualsEquation`, `LessEquation` and `AtomsEquation` are
instances. Then every exact value is ordered by the rank of its type (`Class`;
the three number types are one), within it by its own rank, or lexicographically
by what is in it. That the lexicographic order of sequences is total and
transitive when that of the elements is (`FirstDifference`, `OneOfThree`,
`BeforeBefore`, `SameBefore`, `BeforeSame`) is by the least place at which two
sequences differ. `ExactAreOrdered` puts these together by induction on the
nesting. Exactness is needed, not convenient: 2^64 - 1 equals -1
(`json.hpp:3669`, the cast of an unsigned number), and a long integer equals its
neighbour through a float, so that equality is not transitive.

*Only model-checked.* Liveness is beyond the prover: `BuffersDrain`,
`EveryoneIsServed`, `WaitingAreReplayed`, `OrderArrives` and
`RequestIsAnswered`. So is what the recursive operators of `JsonDocument` and
`JsonPatch` compute on nested documents (`update`, `diff`, `merge_patch`, access
by path), hence `DiffLeadsThere`, `FailedCallsChangeNothing` and
`UpdateTakesOver`; the way of `JsonOrder`, recursive functions over a closed set
of values, is open to comparisons, which make no values, and not to modifiers,
which do. Every other property of a passing run is stated by a theorem. The
refinements with a clock that slips are false, not unproved (finding 5).

## 6. Findings

Each is a run that TLC ends with a counterexample.

1. `online` - **A takeover loses the route.** B logs on twice; when the first
   connection closes, `FixServer.cpp:114` removes B's route although it is the
   second connection's. Messages for B are then stored although B is logged on,
   until B disconnects and logs on again (`:238`, README.md:17).
2. `stranded` - **A reject strands what is behind it.** `return` at
   `FixServer.cpp:209` ("Stop processing this invalid message") leaves complete
   packets in the buffer until the peer sends more.
3. `tags` - **Replayed messages have no tags.** README.md:16 promises the rule's
   tags before forwarding; a stored message is replayed as it came in
   (`FixServer.cpp:240`).
4. `filename` - **Names are not unique.** Two messages for a target in the same
   millisecond share a file (`MessageStore.cpp:46-53`); the unit test
   `test_Session.cpp:42-49` stores two at once and expects both.
5. `slip` - **Replay order follows the wall clock.** Set back between two
   messages, it reverses them (`MessageStore.cpp:47`, README.md:18).

The passing runs show what holds all the same: with these defects no message reaches
the wrong company, none is sent twice, what is lost is lost in a way that is named,
no dangling socket is used, and in `progress`, where no type is rejected, nothing is
stranded.

### Seen on the way, outside any run

The models have these behaviours; no property is stated against them, or the one
that is stated excludes them by name.

- `FixServer.cpp:74`, `:240`: `start` goes on when the store could not be
  initialised, and the result of `storeMessage` is ignored, so a message for a
  company that is offline is then gone (`MessageRelay!Forget`); so it is when its
  directory cannot be made or its file not opened.
- `MessageStore.cpp:92`, `FixServer.cpp:178`: a replay removes all files before it
  writes the first message; a crash in between loses what was removed, although it
  was on no connection (`CrashInReplay`; `LostOnlyWithConnection` names it).
- `FixServer.cpp:144`: the payload goes through `QString::fromUtf8`, so bytes that are
  no UTF-8 (a text in Latin-1) reach the addressee as replacement characters.
- `MessageStore.cpp:88`: a file that does not open is passed over and replayed
  after younger ones (`skipped`). `:57`: a full disk leaves an empty or partial
  file and the call returns true (`torn`).
- `FixServer.cpp:138`, `FixClient.cpp:127`: a length of 2^31 - 4 or more is
  negative or small as an int, and the packet is taken before it has arrived.
- `main_client.cpp:20`: the order is sent 2 s after the start, connected or not,
  and is dropped if not (`FixClient.cpp:90-93`), where README.md:65 says that it
  follows the logon. `OrderArrives` is about orders that were written.
- `FixServer.cpp:44`: the pipe is in blocking mode, so a handler that finds it
  full waits for the thread it interrupted, and the hub stands still for good
  (`HandlerIsStuck`, which `RequestIsAnswered` names).
- `Logger.cpp:67`: `localtime` shares one buffer among threads and is called
  before the lock is taken: a line may carry another call's time, although
  `Logger.h:20` says "Thread-safe".
- `FixServer.cpp:294`: the checksum adds chars that are signed on the usual
  platforms, in an int that about 17 MB of text can overflow; `ReceiverCanCheck` is
  stated for characters below 128 whose sum is an int. `:258`: `stoi`
  takes "35abc" for 35. `:275`: fields are written in the order of their tags, 11
  before 35, where `tests/test_FixEncode.cpp:24` and `:48` want 35 first.
- `FixSessionVerity.cpp:18`: a second target registered for a sender replaces the
  first.
- `json.hpp:4908` asserts that the parent of a path is no primitive, which a patch
  can make it be. `:4948`: `patch_inplace` keeps the operations before the one that
  throws, and of a move that throws the removal. `:2093`, `:2152` and `:3129` change
  the type before the allocation that may throw, and leave a value whose destructor
  asserts.
- `FixServer.h` declares `parseFixMessage` and `serializeFixMessage` twice and
  `setupSignalHandlers` is static but uses `this`, so the class as committed does
  not compile; the model takes the evident meaning. `server/Dockerfile` copies
  the configuration to a path other than the one `start` loads.

## 7. What is not modelled

- *JSON text*: lexer, parser, serializer, binary formats, flatten and the code of
  the iterators are in headers that are not in the repository; `json.hpp` only
  forwards to them. `ConfigManager` takes a file as missing, broken, or a value.
- *Qt, QuickFIX, the file system, TCP, the kernel*: modelled by what the code
  relies on (the actions of the environment, listed as external in
  `PROJECT.json`).
- *Wording*: log lines, rejects' text, the table that `handleStatusSignal` prints.
- *Unit tests* are a reference, cited by findings; `catch.hpp` and `FIX44.xml` are
  a framework and data that no code reads; `basic.*` has no state and no caller;
  Makefiles and Docker files have no behaviour at run time.

## 8. Plan

Done: the hub and its abstract specification, the store, framing, client and
system, status signal, codec, FixCoder, Logger, ConfigManager, session check, the
JSON values; proofs for all of them but the modifiers and patches of JSON, with the
three refinements.

Left, in order of worth:

| Module | Content |
|---|---|
| `JsonPatch` | comparisons with the numbers of `JsonOrder`, so that `diff` and `test` meet 1 and 1.0 |
| `JsonMemory` | elements made containers in place, where a failing allocation leaves an invalid value inside one |
| `HubProofs` | the hub's own theorems restated for `HubSpec` where a reader would look for them |
| `Hub` | a hub that restarts twice with packets in flight: a larger instance than `system` |
