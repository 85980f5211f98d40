# TLA+ verification of aospflash

aospflash flashes factory images from a web page. It is one page
(`src/app.js`), an adb client (`src/webadb`), a fastboot client with the
flashing logic of AOSP's `fastboot` (`src/webfastboot`), Android's liblp and
libsparse compiled to WebAssembly (`src/liblp`, vendored), and a small
stateless server. All of it runs on one JavaScript thread and talks to phones
over WebUSB. This directory holds TLA+ models of the stateful parts, the TLC
runs that check them, and TLAPS proofs about them.

Contents: [inventory](#1-inventory) · [modules](#2-modules-and-the-code) ·
[runs](#3-runs-and-what-they-show) · [fairness](#4-fairness) ·
[proofs](#5-proofs) · [disagreements](#6-disagreements-between-code-and-documentation) ·
[abstractions](#7-abstractions) · [not modelled](#8-what-is-not-modelled) · [plan](#9-plan)

## 1. Inventory

### How the parts interact

```
 app.js (install, settings pages)
   |  connect, reboot, flash                 main.go (list of builds, download)
   |-------------------------------.
 webadb                          webfastboot
   Adb facade                      flashall.js        plan and order of an installation
   services: sync, shell           fastboot-driver.js commands, deadlines, data phases
   connection.js, stream.js        sparse.js, super-flash-helper.js, zip
   transport/webusb.js             usb-transport.js   bulk transfers, reconnect
   |                               |
 adbd (in Android)               bootloader / fastbootd
```

Between two `await`s the code runs to completion. Interleaving comes from
promise continuations, USB completions, timers, calls of the application, the
phone, and the user who pulls the cable.

### Components

| Component | State it keeps | Operations | What is hard | What makes it correct |
|---|---|---|---|---|
| adb streams and connection (`webadb/src/connection.js`, `stream.js`) | stream map, per stream: open promise, send budget or `writeReady`, receive buffer, waiting readers and writers, bytes to acknowledge | open, read, write, close; handlers of OKAY, WRTE, CLSE; failure | check–await–use in `write()`, acks merged in a microtask, close racing data, failure with many waiters | no lost wakeup; no byte of a window lost, doubled or spent twice; nothing behind A_CLSE; end of stream only after the data; everything settles |
| adb handshake (`connection.js`, `adb.js`) | key index, features, max payload, one read loop per attempt | connect, CNXN, AUTH, failure | a round per key with a token of its own; attempts that overlap share the IN endpoint; a first key that is generated while the phone is unplugged | every stored key is tried before one is offered; `connect()` settles unless the user has yet to answer |
| adb WebUSB transport (`transport/webusb.js`) | write lock, claimed interface | writePacket, readPacket, open, close | header and payload are two transfers, short reads, stalls | packets are never interleaved |
| sync service (`services/sync.js`, `reader.js`) | promise chain, reader position | stat, list, pull, push, close | requests carry no number: a reply is read by whoever is next | one operation at a time, in call order; replies read by their request |
| shell service, facade | a TextDecoder | exec, spawn | one decoder for all streams | – |
| adb keys, settings page (`adb-key.js`, `settings.js`) | key list in localStorage, the single key of earlier versions, what a tab has rendered | load, generate, import, delete, refresh | the list is shared by tabs; `setItem()` may throw between two writes; what is rendered is old when it is clicked | a key leaves only by its deletion, and then for good |
| fastboot driver (`fastboot-driver.js`) | none between commands but the pending `transferIn`s | rawCommand, getVar, download, upload, fetch, flashBlob, flashPartition | deadlines restart on INFO; a transferIn that lost the race with its timer is still pending; failures between pieces | an answer goes to its command; slow is not dead; a flash that resolves has been written |
| fastboot USB transport (`usb-transport.js`) | device handle, disconnect promise | read, write, waitForDisconnect, waitForReconnect | another phone on the bus, a phone that comes back in the wrong mode | the same phone, or an error |
| flashall (`flashall.js`) | slots, required partitions, dynamic partitions seen, updatedSuper | requirements, snapshot cancellation, plan, update-super, resize, flash, wipe, set_active, reboots | a lost getvar looks like an absent variable; reboot between steps; script or built-in list | success is only reported on a whole system |
| install page (`app.js`) | `isExpectingReboot`, progress | reboot from adb, unlock, update, lock, reboot, disconnect listener | cable pulled in any step | bootloader never locked on an incomplete system |
| sparse images (`sparse.js`) | chunks read, the piece under construction, its size and the cursor | fromRaw, rawToChunks, parseSparse, splitBlob, resparse, the writers | four ways in, two of packing; a size that must be right before the chunk that completes it is known | the pieces rebuild the image and fit the limit |
| optimised super image, WebAssembly wrapper, liblp, libsparse | none / metadata | build the super image | extent allocation | no overlap |
| zip reader, server | none | – | – | – |

`PROJECT.json` lists every component with its status, and under `hazards` each
place where the code could go wrong in a way a test would hardly meet, with the
properties that cover it.

## 2. Modules and the code

| Module | Models | Role |
|---|---|---|
| `FlowControl` | – | abstract flow control of one direction of one stream |
| `AdbConnection` | `connection.js`, `stream.js`, the write lock of `webusb.js` | detailed specification; adbd and cable as environment |
| `AdbFlow` | refinement mapping | `AdbConnection` implements `FlowControl` in both directions |
| `SessionLock` | – | abstract lock: one holder, in call order |
| `SyncSession` | `services/sync.js`, `reader.js` | detailed specification, refines `SessionLock`; sync service of adbd as environment |
| `AdbKeyStore` | `AdbKeyStore` of `adb-key.js`, `settings.js` | the key list and the settings page in several tabs |
| `AdbHandshake` | `connect()`, CNXN and AUTH of `connection.js`, `Adb.connect()`, `readPacket()` of `webusb.js`, "Add device" of `app.js` | extends `AdbKeyStore`; adbd, its user and the cable as environment |
| `FastbootDriver` | `fastboot-driver.js`, `read`/`write`/`writeChunked` of `usb-transport.js` | driver with its timers; bootloader as environment |
| `FlashAll` | `flashall.js`, reconnect of `usb-transport.js`, the confirm handler of `app.js` | an installation; phones as environment |
| `SparseImage` | `sparse.js` | `prepareForFlashing()` step by step; a bootloader that checks and expands the pieces as environment |
| `MCAdbFlow`, `MCAdbConnection`, `MCSyncSession`, `MCAdbHandshake`, `MCSparseImage`, `MCFlashAll` | – | instances for TLC (`FastbootDriver` needs only numbers and is run as it is) |
| `FlowControlProofs`, `SyncSessionProofs`, `FastbootDriverProofs`, `FlashAllProofs`, `SparseImageProofs` | – | theorems about the module of that name |
| `AdbHandshakeProofs` | – | theorems about `AdbKeyStore` and `AdbHandshake` |
| `AdbConnectionProofs`, `AdbFlowProofs` | – | theorems about `AdbConnection`, the second on top of the first: types, wakeups, closing and the overdraft; the ledger of permissions and the two refinements of `AdbFlow` |

Operators named `X_what` stand just before `X` and are plausible bugs of the
code `X` translates (a check forgotten, an order swapped). No specification
uses them; `PROJECT.json` pairs each with the property it must break.

### AdbConnection

State is the fields of `AdbConnection` and `AdbStream`, one value per stream,
plus `pc` and `offset` for every `write()` call, the queue `outq` behind the
write lock, the packet whose `transferOut` has been taken and not yet resolved
(`completing`), the packets on their way to the host (`inq`), and adbd.

An action is one stretch of code between two awaits. `Resume` (a writer after
`await #awaitSendPermission()`) and `FlushAck` (the `queueMicrotask` of
`#scheduleAck`) are microtasks; actions that start with a USB completion
require `Quiet`, since the event loop runs all microtasks first. Calls of the
application do not require it: the application is itself woken by promises. So
all orders JavaScript can produce are there, in particular two `write()` calls
between the check and the use of a permission, and a `close()` in between.

| Action | Code |
|---|---|
| `Open`, `Read`, `Write`, `Close`, `CloseConnection` | `open()`, `read()`, `write()` to its await, `close()`, `AdbConnection.close()` |
| `Resume`, `FlushAck` | `write()` after its await, `#flushAck` |
| `HandleOkay`, `HandleWrite`, `HandleClose`, `FailConnection` | `#runReadLoop`, its handlers, `#fail` |
| `WriteDone`, `WriteFails` | what awaits `writePacket`: `write()`, `close()`, `open()`, the acks, the read loop |
| `Dev...`, `Unplug` | adbd and the cable (external) |

### SyncSession

The reader's byte stream is a queue of frames. The header and the payload of
DATA are two, since `pull()` awaits them separately. When an operation reads a
frame of another size than it expects, frame boundaries are lost for good
(`aligned`). The lock is `busy`/`prev`: `#busy` holds the promise of the last
call, and every call waits for the one it found there. `before`, `sources` and
`nulls` are auxiliary: which calls came earlier, whose replies an operation has
read, who was handed `null` for a chunk.

### AdbKeyStore

`v2` and `legacy` are the two items of localStorage, `listed` what a tab has
rendered, `action` what its `runAction()` waits for. One turn of the event loop
is one step, so a read and the write after it cannot be torn, but anything may
happen in another tab while this one generates a key or reads a file. A write
that throws does so in any of the writes of its turn.

### AdbHandshake

`conn` holds, per click on "Add device", what `Adb.connect()` waits for, the
keys it loaded, `#keyIndex`, and where its read loop is. `posted` is the queue
of `transferIn()`s and `toHost` that of adbd's transfers; the first of one
meets the first of the other, whoever made it, and a header or a payload is a
transfer of its own. An attempt that waits for the user goes on reading, and so
does one whose A_CNXN could not be written, as in the code, where `connect()`
rejects and nothing closes the transport. `overlapped` remembers that two loops
were alive together.

| Action | Code |
|---|---|
| `AddDevice`, `AddDeviceFirstKey`, `FirstKey` | the click handler, `Adb.connect()`, `loadOrCreate()`, `connect()` up to its await |
| `Receive`, `Written` | `readPacket()`, `readExactly()`, `#handlePacket` with `#handleConnect` and `#handleAuth`, `#fail` |
| `PhoneTakes`, `UserAccepts`, `UserDenies`, `Unplug` | adbd, its user, the cable (external) |

### SparseImage

One step is one turn of a loop over chunks. `rest` holds what is still to be
packed (a raw file is one chunk `FILE` that `ReadFile` eats from), `cur` the
piece under construction, `cursor` the blocks behind it. The two paths, Blob
(`fromRaw`, `splitBlob`) and buffer (`rawToChunks` or `parseSparse`, `resparse`),
share the steps and differ in `Most`, `Fits`, `Written` and in how a piece
begins and ends. Afterwards the bootloader takes the pieces one by one
(`FlashPiece`) or refuses one (`Refuse`), by the checks of libsparse's reader.

### FastbootDriver

A job is what the application awaits: one command, a fetch, `flashBlob()` or
`flashPartition()`. `reading` is the `transferIn` the current call awaits;
`abandoned` counts those whose timer won `Promise.race`: nobody awaits them,
but they are served first (`Swallow`). Every command is numbered (`no`) and
the bootloader tags its answers, so `crossed` (auxiliary) can tell an answer
taken by the wrong command. `prompt` selects, in the initial state, between a
bootloader that is never silent for a whole deadline and one that may be.

### FlashAll

`todo` is what is left of the chain of awaits; each step takes its head, and a
stage puts in its place the steps it turns into, as `flashAll()` first collects
its tasks and `flashImageEntry()` then resizes and writes. If the phone was
added over adb three steps come before: the reboot, the chooser and the lookup
of the product, until which the page still takes the adb device for its own. Phones have a mode,
an active and a booted slot, a lock, and per partition its content (`part`) and
its size (`room`: as it was, that of an image, 0). Any variable may go unanswered, any command be
refused, any boot of fastbootd fail, and the cable be pulled between any two
steps, up to `MaxFaults` and `MaxUnplugs`.

## 3. Runs and what they show

| Run | Module, cfg | States | Question |
|---|---|---|---|
| `classic` | `MCAdbFlow`, `classic.cfg` | 21,745 | classic flow control: invariants, refinement and liveness |
| `delayed` | `MCAdbFlow`, `delayed.cfg` | 78,387 | delayed ack: byte-exact windows, refinement, writes settle |
| `faults` | `MCAdbConnection`, `faults.cfg` | 2,520,539 | two streams, two writers on one, adbd misbehaving, transfers stalling |
| `sync_mixed` | `MCSyncSession`, `sync_mixed.cfg` | 43,881 | all operations, any order, left early or not, both ends and the connection failing |
| `handshake` | `MCAdbHandshake`, `handshake.cfg` | 541,839 | two tabs, two clicks on "Add device", one phone, its user |
| `fastboot` | `FastbootDriver`, `fastboot.cfg` | 318,093 | three jobs in a row against a prompt or arbitrarily slow bootloader |
| `fastboot_late` | violation | | a late answer after a timeout |
| `sparse` | `MCSparseImage`, `sparse.cfg` | 39,972 | every image of the bounds, split and flashed by either path |
| `sparse_fill` | violation | | a FILL chunk in a Blob that is split |
| `flash` | `MCFlashAll`, `flash.cfg` | 281,884 | whole installations with one fault and one unplugging, another phone on the bus |
| `flash_resize` | violation | | a script with update-super |
| `flash_wrong_phone` | violation | | the reconnect with another phone in fastbootd |

Every run ends within two minutes with two workers. Deadlock checking is off everywhere
because every one of these systems really stops: all operations called and
settled, all jobs done, the image flashed, the installation over. That nothing
stops too early is what the liveness properties say.

The type invariants `TypeOK` of `AdbConnection` and `FastbootDriver` are checked by
`delayed` and `fastboot` and proved; those of `SyncSession`, of `FlashAll` and of
the handshake with its key list are proved. The runs keep to properties that say more.

### The stream layer

* `NoLostSendWakeup`, `NoLostReadWakeup`: a waiter really has nothing to be
  woken for. Also proved.
* `SendCreditConserved`: what adbd granted is conserved across host, wire and
  adbd; stalls may lose credit, never create it.
* `OvershootBounded`: the overdraft the delayed-ack check allows is less than
  one chunk per concurrent `write()`.
* `NothingBehindClose`, `EofMeansDrained`: the two close races.
* `SendsWithinGrant`, `AcksWhatIsRead`: refinement of `FlowControl`, in both
  directions. Each step of the stream layer, seen as permit, unread and owed,
  is one that conserves the grant: no acknowledgement is lost, doubled, or sent
  before the data has been read.

  All of these are proved as well, for any number of streams and calls
  and any sizes; section 5 has the conditions.
* `OpenSettles`, `WriteSettles`, `CloseReclaims`, `ReadIsAcked`: liveness.
  `WriteSettles` in both modes, which wake a writer differently: in classic mode
  there is one permission, and no second A_OKAY makes up for a wakeup missed.

Bounds: one stream and one `write()` of two chunks (3 bytes, maximum payload
2) reach the second permission, an overdraft, and a remainder smaller than a
chunk; three reads and two device writes reach both orders of read and data,
the merged ack and reads after the end. Two writers (two chunks and one) are
the smallest case of concurrent writers, a second stream checks that nothing
leaks across the map. Streams share nothing but the map, the queues and the
loop, so further ones add no new interaction.

`SendsWithinGrant` needs a single writer per stream and transfers that do not
stall; `AcksWhatIsRead` needs neither. With two writers the promise of classic
mode, one A_WRTE outstanding, is broken: see the known weaknesses. What an A_OKAY is worth depends on the
mode (`Share`): one of the other mode wakes nobody and carries no credit.

### The sync session

The refinement `ServesInOrder` is about the promise chain alone and holds
whatever consumers and sources do: the session passes from call to call in
order, also when `pull()` is left early, a source throws or a `push()` rejects
before it sends anything. `RepliesAreOwnIfDrained`, `FileIsWhole` and
`OpsSettle` are about the bytes and
hold until an operation is left half way (`Drained`), by the consumer of
`pull()` or by the source of `push()`; behind one they need not, as the known
weaknesses say. `TruncationIsReported` holds in every case. But for `OpsSettle`
all of them are proved, for any operations and queues of any length. Bounds: three of
six operations (stat, list, pull, push, a push that asks for a dry run, close)
in any order, one DATA or DENT frame per request; queues of 2 and 3 frames, so
that both writers do wait.

### The handshake and the keys

* `KeysLeaveOnlyByDeletion`: no other tab's key is overwritten by one that is
  generated or imported, the single key of earlier versions survives its
  migration, and a `setItem()` that throws loses nothing.
* `DeletedIsGone`: a deleted key is in neither item of storage.
* `PromptOnlyIfUnknown`: the user is asked only if the phone knows none of the
  keys stored at the click, over as many AUTH rounds as there are keys.
* `ConnectSettles`: `connect()` settles unless the user has yet to answer.

The first three are proved, for any keys, tabs and attempts. The last two hold while no earlier attempt is still reading (`overlapped`);
`AlwaysSettles` states the second without the condition, is not checked, and
does not hold. Bounds: storage empty, with the old single key, or with a list
that has an unreadable entry in it; a phone that knows the second key, so that
two rounds are needed; two attempts and two tabs, the smallest number that can
overlap; three actions of users reach generate–import–delete in any order over
both; one fault at any point.

### Sparse images

`WritesImage`: once flashed, every block of the image is in its place and no
block outside it has been touched, with two exceptions the code makes: FILL
blocks of a split Blob become zeros (`sparse_fill`), and whole zero blocks of a
raw buffer are not written. `PiecesWithinLimit`: by at most one header, and
for `resparse()` not at all. `RefusesOnlyDamaged`:
a piece is refused only if the image was truncated, a raw Blob ended
within a block, `splitBlob()` passed on a checksum, or a piece grew over the
limit by the header it forgets. All three are proved, too, for any image, block
size and limit. Bounds: sparse images of up to three chunks,
among them RAW of 1, 5, 6 and 13 blocks (well below, at and around what a piece
holds, and more than two of them), two FILLs, a skip and a checksum, whole or
cut off; raw files of nine blocks with every pattern of zero blocks, and of two
and a fraction; a limit of seven blocks with headers in true size (28 and 12 bytes), so
that the 7/8 rule, the forgotten header and the last partial block all matter.

### The driver

The first five say what a command and a flash may rely on until the driver
leaves a command half way (`gaveUp`): it throws without having read the final
answer. The promise is restored when a job starts with nothing
on its way, no abandoned `transferIn` and the bootloader idle (`AtRest`), so that
a timeout in one job says nothing against the next once the late answer is gone.

* `AnswersMatch`: answers are only crossed after a command was left half way.
* `SlowIsNotDead` and `DeadlineHolds`: the deadline neither hits a bootloader
  that shows progress nor fails to hit a silent one.
* `PiecesInOrder`, `ResolvedIsWritten`: what is in the partition is a prefix of
  the image, and a flash that resolves has written all of it, whatever earlier
  jobs failed at.
* `JobsSettle`.

All but `DeadlineHolds` and `JobsSettle` are proved. Bounds: two pieces and two
chunks give a first, a last and a boundary between; three jobs let a fault in the
first reach the third; a deadline of three ticks and two INFOs let each restart
matter; three packets that nobody reads let a whole late answer (INFO, DATA or
OKAY and what follows) wait for the next command.

### The installation

`CommitsWhole`: "Installation complete!" and the re-lock come only with every
image of the plan in the slot that will boot. `OnlyOurs`: no other phone is
written to. `UserspaceOnly`: commands for fastbootd go to fastbootd.
`InstallSettles`, `UnplugIsReported`. Bounds: two phones of one product; the
chosen one in its bootloader, locked or not, in either slot, or in Android with
adb; four factory images (full, without an optional image that `partition-exists`
demands, without a required one, with sparse images); the built-in list, a
script, and one with reboots and a malformed line; five of the combinations of
wipe, skipSecondary, slot (none, `b`, `all`), re-lock and force; one fault and
one unplugging at every point. A second fault mostly repeats the first, since
most faults end the installation and a passed-over one leaves a phone no
different from one with fewer variables.

Conditions of `CommitsWhole`, all read off the code:
* the current slot was reported at least once; otherwise `flashAll()`
  activates `'a'` whatever was flashed (`flashall.js:1027`);
* for the slot `all`, no fault: an image whose slot-count goes unanswered is
  flashed nowhere (`flashall.js:336`);
* optional images are demanded unless a fault met a wipe: with super rebuilt
  from scratch, a partition whose has-slot goes unanswered looks like one that
  does not exist, and is passed over by design;
* the other phone is not in fastbootd (`flash_wrong_phone`), and scripts have no
  update-super line (`flash_resize`).

`UserspaceOnly` is proved without a condition, `OnlyOurs` under the one that the
run `flash_wrong_phone` shows to be needed: no other phone is in fastbootd.

## 4. Fairness

Only what the platform guarantees, and only of who does not choose:

* adb: weak fairness of `HostStep` (the event loop), `DevTransfer` and
  `DevConsume` (adbd takes and consumes what it is sent). Nothing of the
  application, the cable, or what adbd volunteers.
* sync: of the steps the event loop makes for an operation, of `Resume` (the
  consumer of `pull()` asks for the next chunk), of adbd serving requests. Not
  of `Call`, failures, or hanging up.
* handshake: of `Receive`, `Written`, `FirstKey` (the event loop, a key that is
  generated) and `PhoneTakes` (adbd answers). Not of the user of the phone, who
  may never answer the prompt, nor of clicks in the page.
* fastboot: of `HostStep` and `Tick` only. `DeadlineHolds` needs no cooperation
  of the bootloader. `JobsSettle` states fairness of the bootloader as a
  hypothesis, because `transferOut` and the data phase of fetch have no timeout.
* sparse images: none; the loops are bounded by the chunks and the run only
  asks for safety.
* installation: of `HostStep`, which includes that the chooser is answered or
  dismissed, and of a phone leaving the bus once told to
  reboot, which `waitForDisconnect()` waits for without a timeout. Not of
  arriving: `waitForReconnect()` has a deadline.

`HostStep` can be taken as one fair action because no two of its disjuncts
compete for ever: each consumes a packet, a promise or a microtask.

## 5. Proofs

All are checked by `tlapm` with SMT, Zenon and PTL, from the constants'
assumptions only (stated with the constants).

| Theorem | States | Argument |
|---|---|---|
| `AdbConnectionProofs!TypeCorrect` | `Spec => []TypeOK` | inductive `TInv == TypeOK /\ OffsetOK`. `OffsetOK` (a live `write()` has bytes left) is needed because a chunk length is `Payload - offset`, which would not be a natural number otherwise. One lemma per group of actions |
| `AdbConnectionProofs!WakeupsNotLost` | `Spec => [](NoLostSendWakeup /\ NoLostReadWakeup)` | both together are inductive relative to `TInv`: an action that gives a permission, a chunk or an end also empties the waiters, and a waiter only registers when it found none. For any number of streams and concurrent writers, with stalls and misbehaviour |
| `AdbConnectionProofs!ReadWakeupsNotLost` | `Spec => []NoLostReadWakeup` | the half of the theorem above that the run `classic` checks |
| `AdbConnectionProofs!NothingSentBehindClose` | `Spec => []NothingBehindClose` | `CloseInv`: a packet in `outq` belongs to a stream whose state allows it to be there (`Queued`), an A_CLSE to one that will not enqueue again (`Shut`), and a `write()` that waits or holds a permission to one whose `open()` has resolved. Without the last the invariant is not inductive: a writer could resume on a stream whose A_CLSE is queued |
| `AdbConnectionProofs!DebtStaysBounded` | `Spec => []OvershootBounded` | `DebtCovered`: the budget is above minus one chunk per `write()` call that holds no permission. A step repays, leaves the debt alone, or spends a chunk and a permission together. Cardinalities need `Writers` finite |
| `AdbConnectionProofs!EndMeansDrained` | `~Misbehave => (Spec => []EofMeansDrained)` | `DrainInv`: while a stream is open, chunks read, buffered and on their way add up to those written; the A_CLSE of adbd is behind all of them; once adbd has ended the stream none is on its way. The condition is that of the property: an adbd that sends behind its own A_CLSE is dropped |
| `AdbFlowProofs!CreditIsConserved` | `DelayedAck \/ (\A s \in Streams : Solo(s)) => (Spec => []SendCreditConserved)` | every step, seen on one stream, is one of `Moves`: it leaves permission, unread and returning credit alone, carries an amount from one to the next, loses some (stall, cable, close), or begins a stream. `CreditInv` is inductive for that, given `CloseInv` and `LinkInv` (what adbd knows of a stream it has not accepted; what the packets under way may carry). `Solo`: the `write()` calls of the stream come one at a time. In classic mode two of them may pass on one permission, which is a known weakness; with delayed ack no condition is needed |
| `AdbFlowProofs!SenderImplements` | `Solo(Stream) /\ ~MayStall => (Spec => SendsWithinGrant)` | the moves of `CreditInv` are the steps of `FlowControl` under the refinement mapping; phases map to phases (`PhaseSteps`) |
| `AdbFlowProofs!ReceiverImplements` | `Spec => AcksWhatIsRead` | `WindowOf`: adbd's window, what it sent and no `read()` returned, and what is to be acknowledged add up to what the host granted. Again every step is one of five (`Receives`). No condition: stalls, misbehaviour and concurrent readers are all in |
| `AdbFlowProofs!HeapStaysBounded` | while a stream is open, what waits for `read()` is below the window and one chunk | from `WindowOf`. "so that the device feels real backpressure instead of filling our heap" (`stream.js`) |
| `SyncSessionProofs!OneAtATime` | `Spec => []Exclusive` (no run lists it: it follows from `ServesInOrder`) | `ChainInv`: the calls made are totally ordered by `before`; `before` of a call is that of the call whose promise it waits for, with that call; `busy` is the last of them; whatever came before an operation that has started is over. Mutual exclusion alone is not inductive: it depends on who is behind whom |
| `SyncSessionProofs!ChainIsALock` | `Spec => ServesInOrder` | the refinement to `SessionLock`, step by step on top of `ChainInv` |
| `SyncSessionProofs!SessionTypes` | `Spec => []TypeOK` | the types and, per operation, the steps of its kind |
| `SyncSessionProofs!RepliesStayOwn` | `Spec => []RepliesAreOwnIfDrained` | `Exchange`, which both queues satisfy while no operation has left half way: the frames of a file stay together and are followed by their end; a request waits only before anything of its answer, and alone; adbd serves the operation that reads; what is on its way to the host answers that operation, frame after frame as its kind has them. That one operation is in its exchange comes from `ChainInv` |
| `SyncSessionProofs!FilesArriveWhole` | `Spec => []FileIsWhole` | from `FilesTogether` and `FilesFollowed` of the same invariant |
| `SyncSessionProofs!NullIsNoSuccess` | `Spec => []TruncationIsReported` | `NullInv`: a `pull()` that was handed `null` still has a header to read from a stream that is closed and empty |
| `FastbootDriverProofs!DriverTypeCorrect` | `Spec => []TypeOK` | inductive `TInv == TypeOK /\ Counts`. `Counts` relates the mode to the counters (a data phase has chunks left on both ends; the commands of `flashBlob()` belong to such a job), without which counters leave their ranges |
| `FastbootDriverProofs!AnswersAlwaysMatch` | `Spec => []AnswersMatch` | `Plain`, which always holds, and `Sync`: until a command was left half way or the cable pulled, driver and bootloader are in step (`InStep`). Every packet under way is of this command, a final answer is the last and there will be one, before the first answer there are only INFOs, a data phase is announced once and both sides agree on how much of it is left, and between commands both are at rest |
| `FastbootDriverProofs!SlowIsNeverDead` | `Spec => []SlowIsNotDead` | `Slow`: while a bootloader that is prompt is waited for, there is time left, and with nothing on its way the time left and its silence so far make up the whole deadline, since each progress restarts both; with `InStep`, since a stale packet could be progress of another command |
| `FastbootDriverProofs!PiecesAlwaysInOrder` | `Spec => []PiecesInOrder` | `Order`: of this job the first `k` pieces are written and no other; `k` follows from the call under way, and `flash` finds the piece staged that `download` brought. With `InStep`, by which an OKAY means that the command was executed |
| `FastbootDriverProofs!ResolvedMeansWritten` | `Spec => ResolvedIsWritten` | the same, at the step that resolves the job |
| `FlashAllProofs!FlashTypes` | `Spec => []TypeOK` | inductive `Inv == Types /\ Order`; what a script may turn into (`ParsedType`) by induction on its lines |
| `FlashAllProofs!OnlyInUserspace` | `Spec => []UserspaceOnly` | `Order`, about the chain of awaits: who stands before or behind whom (`Chain`: behind a reconnect comes the look at the mode, before a merge the reboot to fastbootd or that look), a resize that is not the next step follows one that has been made (`ResizeLater`), the next step finds fastbootd if it needs it, and once a partition has been resized the phone stays in fastbootd as long as the link is the same (`HeadOk`). Each step replaces the head by a chain of its own, and two chains in a row are one under the conditions of `Spliced`. The property itself is not inductive: it is about the head, and what becomes the head was planned several reboots earlier |
| `FlashAllProofs!OthersAreSpared` | `"fastbootd" \notin OtherModes => (Spec => OnlyOurs)` | on top of it, `OthersWait`: another phone is held only from a reconnect to the look that follows it, which then fails |
| `AdbHandshakeProofs!HandshakeTypes` | `Spec => [](ItemTypes /\ PageTypes /\ LinkTypes)` | inductive. `LinkTypes` knows that a loop or a pending `transferIn()` belongs to an attempt that has keys, also when attempts overlap |
| `AdbHandshakeProofs!KeysStay` | `Spec => KeysLeaveOnlyByDeletion` | `StoreStep`, per step of a page or of `Adb.connect()`: the list written contains what was in storage, unless a deletion is confirmed. Rests on what a filtered list contains (`KeptHas`, by induction on positions) |
| `AdbHandshakeProofs!DeletedStaysGone` | `(\A items \in FirstItems : items.v2 = NoItem \/ items.legacy = NoItem) => (Spec => DeletedIsGone)` | with `OneItem`: never both items at once, since the old one goes in the turn that writes the list. The condition is about storage at the first visit: `#read()` looks at the old item only while there is no list, so that a key in both would stay in the old one. The code never leaves such a pair |
| `AdbHandshakeProofs!AskedOnlyIfUnknown` | `Spec => PromptOnlyIfUnknown` | `Calm`: until two loops have been alive at once, at most one is, and it and adbd take turns. It has asked (`Asks`), and a signature is by the key tried last under the token of now; or it has been answered (`Answered`), of which the header may have been read, and a new token means that the phone knows none of the keys tried so far (`Tried`); or nothing is under way (`Waits`). When all keys are tried, the phone knows none of them. The property alone says nothing about keys tried in earlier rounds |
| `SparseImageProofs!PiecesStayWithinLimit` | `Spec => []PiecesWithinLimit` | `SizeInv`: `size` never exceeds `Room`, the limit less, for `resparse()`, the header of the trailing skip; what is in `rest` is sound; an empty piece has the size of its header. It needs that a part of a RAW chunk fits between two skips (`PartsFit`), which is the arithmetic of 7/8 and of rounding down to blocks, for any block size and limit with room for them |
| `SparseImageProofs!ImageIsWritten` | `Spec => []WritesImage` | three invariants on top of `SizeInv`. `PackInv`: what stands under construction and what is pending in `rest` always make up the partition, and `cursor` is where they meet. `PlacedInv`: what a block is to hold (`Want`) is on the disk, in a piece still to be flashed, under construction, or pending at its place, and nobody writes anything else into it. `BadInv`: an image that is cut off, or a raw Blob that ends within a block, keeps a bad chunk until a piece holds it, and the piece is refused; so neither is ever done. `Pending` follows a chunk through reading, cutting and writing (`ToBe`), and it is the lemmas about it (`FileSplits`, `CutSplits`, `CurAppend`, `ImagePending`) that carry the steps. What the recursive definitions compute (`BytesOf`, `FlattenSeq`) is proved by induction on the length of a list of chunks |
| `SparseImageProofs!OnlyDamagedIsRefused` | `Spec => []RefusesOnlyDamaged` | by `PackInv` a piece covers the partition, has the size it says and sound chunks, unless a checksum was passed on; so only its size can be wrong, and `SizeInv` bounds it for `resparse()` |
| `FlowControlProofs!FlowControlSafe` | `Spec => [](Conserved /\ Bounded)` | the sum of permit, unread and owed is invariant, the overdraft is less than a chunk |

Assumptions are those on the constants: sizes are positive, the model values
`None`, `Bare` and the like are none of the data, `Writers` is finite
(a page makes finitely many calls), `StreamOf` maps writers to streams, `Stream`
is one of `Streams`. For the installation: scripts, options and first states of
phones have their types, and other phones are not on their way at the start. For
the keys: PEM files and generated keys differ, no marker is a key or a list,
storage holds at first what an earlier visit can have left (`ItemAssumption`),
and a phone knows only keys. For images: blocks, headers and limit leave room for
each other (`SizeAssumption`), "don't care" is no data, and an image is what the
format describes (`ImageAssumption`, from the comment at `sparse.js:20`): RAW chunks of
whole blocks, of which a part may be missing, FILLs of one value, checksums without
blocks, raw files whose bytes end in their last block, and a header that declares as
many blocks as the chunks have.

Sums over queues (what the packets of one kind and stream carry) are recursive
functions over positions, and the contents and the size of a piece are recursions
over its chunks, so their lemmas (`AdbFlowProofs`: a packet more at the end,
one less at the head, two queues in a row; `SparseImageProofs`: one chunk more, two
lists in a row, lists of the same lengths) are proved by induction through a least
counterexample (the natural numbers are well-founded, a theorem of the library).

Only model-checked:
* liveness: `DeadlineHolds`, `UnplugIsReported` and the settling properties (TLAPS has no proof rule for
  fairness that its backends support);
* `CommitsWhole`: it needs what every image of a plan became, over a script of any
  length and several reboots, which is work for an invariant of its own;

## 6. Disagreements between code and documentation

Each has a run that exhibits it; `PROJECT.json` quotes the lines.

* `fastboot_late`: "returns the final response" (`fastboot-driver.js:441`).
  The transferIn of a timed-out command is not cancelled; a late INFO goes to
  nobody and the late OKAY to the next command.
* `sparse_fill`: "flashing them to the same partition in order reproduces the
  original image" (`sparse.js:502`). `splitBlob()` keeps the pattern of a FILL
  in `data`, `createImageBlob()` writes `fill`, which is not there: 0.
* `flash_resize`: "Do NOT resize to 0 after flashing" (`flashall.js:1012`).
  The fastboot-info.txt path does, for scripts with update-super.
* `flash_wrong_phone`: "Matches by serial number when the device reports one"
  (`usb-transport.js:294`). While the phone is away the search falls back to
  any phone the page may open.

Known weaknesses without a run of their own. In the model, so that a
property is stated with a condition that excludes them:

* behind a command that was left half way, the answers that wait in the
  bootloader are read by the next commands: with two or more of them `flashBlob()`
  may resolve without having written the image (`fastboot-driver.js:526`);
* two `write()` calls started before either resumes both see `writeReady`,
  against "exactly one A_WRTE may be outstanding" (`stream.js:36`): `Write(w1)`,
  `Write(w2)`, `Resume(w1)`, `Resume(w2)` queue two A_WRTE on one permission. From
  then on each A_OKAY resolves both if both wait (`#releaseWriters`), and `write()`
  does not ask again. Nothing is lost, since adbd queues what it is sent; with one
  `write()` at a time `CreditIsConserved` bounds what is outstanding by one;
* after `close()` a late chunk may still be returned by `read()` (`stream.js:140`);
* the `finally` block of `pull()` releases the session when its consumer leaves
  early, against "Hold the session lock for the whole transfer"
  (`sync.js:221`): the next operation reads the rest of the file as its reply,
  and a `push()` may wait for an adbd that waits for it;
* `pull()` may yield `null` when adbd closes in the middle of a file
  (`sync.js:249`; it does not end as a success);
* a second "Add device" while the first waits for the user, or after its write failed:
  two loops take turns on the IN endpoint and neither `connect()` may settle
  (`connection.js:88`);
* slot `'a'` is activated when no current slot is reported (`flashall.js:1027`);
* with `skipSecondary`, a script line with `--slot-other` goes to the current
  slot (`flashall.js:765`);
* for the slot `all`, a slot-count that goes unanswered flashes the image
  nowhere (`flashall.js:336`), the final `set_active:all` is refused
  (`flashall.js:1027`), and secondary images are flashed although a warning says
  they are not (`flashall.js:1112`);
* `logicalImageSize()` parses the header alone, which throws: a sparse image
  from a zip cannot be flashed to a logical partition (`flashall.js:351`).

Outside the models, met while reading: all shell commands share one streaming
`TextDecoder` (`shell.js:84`); `isSparse()` is not awaited
(`super-flash-helper.js:130`); `max-download-size` is parsed as hexadecimal
first, a decimal value then being too large (`fastboot-driver.js:301`); the
install button is enabled again with the `USBDevice` of before a reconnect
(`app.js:247`); a second A_CNXN replaces the maximum payload and the features
under open streams (`connection.js:150`).

## 7. Abstractions

* **Streams.** Payloads are lengths. The handshake is over. A packet is one
  transfer. An A_CLSE adbd sends is never lost but with the cable.
* **Sync.** Frames stand for their bytes; once boundaries are lost, bytes do
  not happen to spell an id the reader expects. A stat reply may be an error.
  The stream below is a pair of bounded queues, which is what the properties of
  `AdbConnection` justify. A stalled transfer that rejects a `write()` while the
  stream stays open (`stream.js:190`) is in `AdbConnection` only: here writing fails
  on a closed stream, and an operation that ends early on an open one is a source
  that fails, a consumer that leaves, or an answer that does not parse.
* **Keys and handshake.** A key is compared by its fingerprint, which is the key
  itself. A turn of one tab's event loop is atomic for the others. Storage is
  usable, if full; the list in memory for browsers without it is left out. A
  packet out is one transfer, a header is decoded to command, size and token,
  and a payload that is not the packet's own is never a valid token. A denied
  prompt leaves `connect()` waiting, since adbd says nothing. `transport.open()`
  does not fail, and a failed attempt leaves the phone open, as in the code.
* **Sparse images.** The bytes of a block are one value, of which a last one may
  be cut short. Headers count with their size only. An image is well-formed
  but for truncation: its chunks cover what it declares.
* **Driver.** `transferOut` resolves in the step in which the bootloader takes
  it. Time passes only while nothing can be delivered (the host is fast compared with ten
  minutes). In a leftover data phase a command counts as zero or one chunk.
  `Capacity` is how many packets wait in the bootloader while no `transferIn` is
  pending; the late answer of a command that timed out is among them.
  Length and size checks made before a command, callbacks and the 60 ms pause are left out.
* **Installation.** One driver call per step; the getvars leading to it are one
  lookup, so a variable is answered or not for all of it. An unanswered one leaves
  no pending `transferIn`, as one that timed out does (`FastbootDriver` has that):
  the answers after it are not crossed. One product
  requirement and one `partition-exists` stand for `checkRequirements()`;
  erasing userdata for the wipe; the snapshot status is any. A slot override
  comes from callers of the library; the page passes none. In the chooser the
  user picks the phone they mean. The confirm dialog stays open, and may be
  confirmed, after the phone was unplugged. Images are all sparse or none.
  Logical partitions are invisible to the bootloader, and writing one needs a
  size other than 0.

## 8. What is not modelled

* Shell service and the rest of the facade: sequential readers of one stream,
  whose concurrency is that of `AdbConnection`. The shared `TextDecoder` is
  listed as a hazard.
* Second A_CNXN on a connection with streams, zero-length packets, payloads that
  stall after their header, `close()` and `reset()` of the transports, the
  interface search.
* RSA, DER, base64 and MD5: arithmetic on 2048-bit numbers, out of TLC's reach.
* Zip reader: offsets into an immutable blob; `FlashAll` takes the content of a
  factory image as given, and the case-insensitive file lookup as done.
* Optimised super image, WebAssembly wrapper, liblp, libsparse: the page
  disables the first (`app.js:602`), and its unawaited `isSparse()` would refuse
  every image before the layout mattered; the others only serve it and are vendored.
  `SparseImage` takes from libsparse what its reader checks.
* Server, the choice of a build, the download and presentation: no state that
  matters to the rest.

## 9. Plan

Order: what can damage a phone first, then what can lose data, then what can hang.
Done: the stream layer (`AdbConnection`, `FlowControl`, `AdbFlow`), the sync
session (`SyncSession`, `SessionLock`), `FastbootDriver`, `FlashAll` with the
slot `all`, snapshots, reboot targets and the start from adb, `SparseImage`,
`AdbKeyStore` and `AdbHandshake`.

Left to model, each small: the shell's reader with its shared decoder; the zip
directory; `SuperLayout`, the extents of the optimised super image, should the
page ever enable it.

Abstract specifications still worth stating: a reliable block device that the
pieces of `SparseImage` are written to, and "commands answered in order" for
`FastbootDriver`.

Theorems still worth proving, in this order: `CommitsWhole`, and
the pieces of `SparseImage` as an implementation of the block device above.
New properties should reuse the configurations above where the question is the
same: related questions share a run rather than multiply them.
