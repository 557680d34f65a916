# Jade (Litecoin) firmware: TLA+ models, checks and proofs

The repository is the firmware of the Blockstream Jade hardware wallet, forked for
Litecoin (`src/main`, C on ESP-IDF/FreeRTOS).  This directory holds TLA+ models of its core
logic, the TLC configurations that check them on small instances, and proofs for
every value of the constants.  `PROJECT.json` lists components, runs, mutants, the map from
definitions to source lines, findings, hazards and theorems.

    tlc -workers 2 -config Keychain.cfg MCKeychain     # one run
    tlapm KeychainProofs.tla                           # one proof module

## 1. The system

A device talks to one host application over USB serial, BLE or QR codes.  The host sends CBOR
requests; the device asks its owner, computes, and replies.  These tasks run concurrently:

| task | code | does |
|---|---|---|
| main | `main.c`, `process/dashboard.c`, `process/*.c` | takes requests one at a time, runs each to its end, also serves the menus |
| serial reader / writer | `serial.c`, `wire.c` | bytes to messages, replies to bytes |
| BLE host / BLE writer | `ble/ble.c`, `wire.c` | the same over GATT |
| GUI | `gui.c`, `input.c` | draws, reads the buttons |
| idle timer | `idletimer.c` | warns, and restarts the device, when nothing happens |
| USB worker | `usbhmsc/usbmode.c` | feeds an update from a mass-storage device |

Shared state: the ring buffer `shared_in` and one output ring buffer for each connection
(`process.c`), the keychain (`keychain.c`), the flash (`storage.c`, NVS).

### Inventory

| component | state | operations | what is hard | what makes it correct |
|---|---|---|---|---|
| keychain and storage | wallet, entropy, flags, has-pin cache and network restriction in RAM; blob, attempt counter, restriction and flags in flash | unlock, save, change PIN, erase, temporary wallet, passphrase, network menu, logout, reset, boot | power loss between flash commits, failing commits, RAM caches of flash | attempts are bounded, the unlocked wallet is the saved one, entropy does not linger, the blob is erased only for cause |
| message framing | receive buffer, reject flags, time of the last receipt | receive, `handle_data`, reject, disconnect | any cutting of the stream, stale bytes, full buffer, blocked reader, tick wrap | no assertion fails, no overrun, messages independent of the chunks, the link never jams |
| message queues and replies | ring buffers, handles of the writers, current message and source of a process | push, load, wait, reply, start/stop of a link | full queue while a link is stopped, replies to a lost or changed peer | one reply for each request to the right peer, no deadlock |
| firmware update | context, hash, sizes, partition, boot partition | `ota`, `ota_delta`, `ota_data`, `ota_complete` | messages of other connections, errors with no message to answer, lost connection, power loss, library callbacks | only a complete, intact and confirmed image boots |
| PIN client / authentication | replay counter, unit key, server key in flash; request in progress; PIN server's state | handshake, get/set PIN, retry, change of PIN, new server details | late, repeated or lost answers, retries of what the server has done, failing commits | the wallet can be opened with the PIN the user knows, counters never repeat, every attempt costs a request |
| dashboard | connection selected, initialisation source, relogin source | dispatch, menus | state changed by a menu while a message waits | only the connection that unlocked the wallet can use it |
| idle timer | times of the last activity, time-out, dimmed screen | register, check, warn, restart | tick wrap, activity during the warning, settings that change meanwhile | locks after, and only after, inactivity |
| USB storage | storage task, its worker, state and event flags, queue of driver events | start, mount, stop, update | drives pulled at any moment, updates that outlive their session, a worker that gives up | the port has one user, stopping ends, every reply reaches its reader |
| signing (`sign_tx`, `sign_psbt`, MWEB) | inputs, change found, totals, session with snapshots, commitments | per-input exchange, confirmation, signatures, reply in pieces | order of messages, amounts claimed by the host, failure between two signatures | what is signed was approved; all of it or nothing |
| OTP, multisig and descriptor registrations | records and HOTP counters in flash, shared by all wallets | register, import, export, use, delete | failing commits, power loss between two commits, records of other wallets | what was confirmed stays, codes never repeat, exports are read back |
| GUI, QR, camera, identity, attestation, entropy | screens, decoders, keys | | mostly layout, image processing, cryptography | |

The main hazards of the code, each at its line, are in `PROJECT.json`; section 8 lists more.

### How components interact

The readers push requests to `shared_in` and block when it is full; the main task takes them,
`dispatch_message` runs the process function of the method, which may take further messages
itself (`ota_data`, `pin`, `tx_input`...), and replies through the queue of the connection the
message came from.  A process that awaits a message is told when its connection is
lost.  `auth_user` and the mnemonic screens are the writers of the keychain; every other process reads it
after the dashboard has checked that the wallet was unlocked by the same connection.  The idle
timer and any failed assertion restart the device at any moment.

## 2. Plan

Done: `Keychain`, `KeychainHistory`; `Wire`; `Ota`; `Channel`, `MessagePump`; `PinClient`; `SignPsbt` with
`MwebSession` and `AtomicSign`; `SignTx`; `Totals`; `UsbStorage`; `UsbOta`; `MultisigFile`, `Records`; `IdleTimer`; and
the proofs `KeychainProofs` (also of `IdleTimer`), `WireProofs` (also of `MessagePump`), `OtaProofs`, `PinClientProofs`,
`SignPsbtProofs`, `SignTxProofs`, `UsbStorageProofs` (also of `UsbOta`) and `RecordsProofs`.

| module | extends or instantiates | environment |
|---|---|---|
| `MessagePump` | `INSTANCE Channel`, the abstract queue it implements | host, cables, peers |
| `MwebSession`, `SignTx` | EXTEND `Totals`, the sums of amounts | |
| `SignPsbt` | EXTENDS `MwebSession`; `INSTANCE AtomicSign`, the abstract transaction it implements | user, host |
| `KeychainHistory` | EXTENDS `Keychain` with history variables | as `Keychain` |
| `Records` | EXTENDS `MultisigFile` | user, host, power |
| `PinClient` | takes over the attempt counter of `Keychain` in one step | host, PIN server |
| `UsbOta` | abstracts `Ota` to the messages it expects | host, drive |

Next, in this order:

1. The dispatch gate of the dashboard by connection, and relogin.
2. The clean-up of processes and QR mode's use of the internal queue.
3. The compositions of section 6.

## 3. Modules and the code

A definition keeps the name of the function it models where there is one; `PROJECT.json` maps
all of them to lines.  Definitions called `Mutant_...` are deliberately wrong variants, used to
show that each property can be broken by a plausible bug.

### Keychain

Variables with `f` in front are NVS fields, the next seven are the static variables of
`keychain.c` by name.  `pc` and `call` are the place in, and the arguments of, the call the main
task is in.  Each NVS commit is a step, so `Reboot` (power loss, assertion, idle timer) can
come between any two; a commit may fail (`Commit(FALSE)`), which the code reports as an error
and the model follows through all the error paths, up to `MaxFaults` times.

| code | actions |
|---|---|
| `keychain_load_and_decrypt_blob` | `storage_decrement_counter`, `DecryptBlob`, `RestoreCounter` |
| `keychain_load` + `get_pin_load_keys` | `AuthLocked`, the above, `CompleteDerivation`, `KeepPin` |
| `keychain_reencrypt` | `ChangePin`, the above, `SaveCounter`, `SaveBlob` |
| `keychain_store` + `set_pin_save_keys` | `AuthUnsaved`, `SaveCounter`, `SaveBlob`, `FinishStore` |
| erasure, wallet-erase PIN | `EraseCounter`, `EraseBlob`, `EraseNetwork`, `EraseFlagsAndShutdown` |
| mnemonic screens, menus, reset, boot | `Initialise`, `AuthQrTemporary`, `Relogin`, `Logout`, `NetworkMenu`, `PassphrasePrefs`, `FactoryReset`, `FactoryResetFails`, `Reboot` |

A factory reset that fails leaves any part of the flash erased.  Abstractions: a wallet is the pair (mnemonic, passphrase) it derives from; a blob opens only under
the AES key that sealed it; the PIN and the PIN server yield any key.  `begun` and
`strikes` are history variables.  `KeychainHistory` adds two more, which mark the behaviours in which a
promise of the documents does not hold: `revived` and `borrowed` (section 4).

### Wire

`buf` is the receive buffer up to `*read_ptr`, `new` what has just been read, `held` the BLE packet
kept while the buffer is forced out.  `transport` is the link the buffer belongs to, chosen in
`Init`.  A byte is abstract: since CBOR is a prefix code, the first byte of an item fixes how
long it is and whether it is a request, one answered at once (`immediate`), a
malformed request or no CBOR at all (`junk`); any byte may follow any other.  One step
is one round of the loop of `handle_data_impl`, since a round may block on a full queue.
The tick count is `uptime % TickModulus`; the sums the code computes wrap too.

### Ota

`joctx` is `jade_ota_ctx_t`; `pc` is where the main task is: waiting for a packet (`receive`), in the
decompressor (`feed`), in bspatch (`bspatch`), or in the stages of `ota_finalize`.  Amounts of
data are counts of units with a flag that says whether they are what was announced; a hash
is good if it covers the right amount of good data.  The decompressor and bspatch call back
with pieces of any size and may fail at any call.  Messages come from any connection with
any method.  A lost connection ends one wait without a message, as in
`jade_process_get_in_message`.  The histories `taken` and `replies` start again
whenever the dashboard takes a message, so updates follow each other without bound.

### MessagePump and Channel

For each link (`serial`, `ble`) a reader task, a writer task, the flag and the handle the code
keeps for them, and a queue of replies (`answers`); one queue of `requests`; the main task, whose place is
`main_pc`.

| code | actions |
|---|---|
| `serial_reader`, BLE host task, `wire.c` | `ReceiveRequest`, `push_in_message`, `handleImmediateMessage`, `ReaderExits` |
| `serial_writer`, `ble_writer` | `WriteReply`, `WriterExits` |
| dashboard and processes | `TakeRequest`, `ReplyToRequest`, `AwaitRequest`, `LostConnection` |
| `serial_stop`, `ble_stop` | `Stop`, `StopReader`, `StopWriter` |
| `serial_start`, `ble_start` | `Start`, in `StartBle`, `handle_usbstorage_action`, `usbmode_ota_worker` |
| assertions of `usbstorage_start` | `Restart` |
| cable, `ble_gap_event` | `UsbPower`, `ble_gap_event` |

A message is its id; an answer a reader gives itself (ping, non-blocking version info) has none.
`Channel` is what a host may count on: for each link, answers in the order of the requests, each at
most once; the refinement mapping is `Pending`, the requests of a link in the queue of replies, with the main
task, in its queue and with the reader, in this order; `AskedIds` and `AnsweredIds` pick the ids of a link out of
a queue.  A host uses an id again only once it is no longer pending.  A reply that is written and one that is
dropped (a write that fails, the oldest item of a full queue without a writer) both leave the head of
`Pending`: the host is not told of a loss, and a restart loses everything.  The moment between
a `serial_stop` with nothing to stop and the assertions of `usbstorage_start` is one step for
the worker of an update.  An error of `nimble_port_stop` is not modelled.

### PinClient

Flash variables begin with `f`; `pinkeys` is the request in progress, `sent` and `answers` all
requests and answers that exist anywhere, so that the host may deliver any of them at any time, late, twice
or never.  `server` is the PIN server, external, modelled by what `pinclient.c` expects of it: it takes
a request with a larger replay counter than the last one of that unit, and gives for a wrong PIN a key
that opens nothing.  The attempt counter and the blob are those of `Keychain`; the two commits around an
attempt are one step here, since `Keychain` has them apart.  `AuthLocked`, `AuthUnsaved`,
`keychain_load`, `set_pin_save_keys`, `ChangePin` are `auth_user.c`; `generate_ephemeral_pinkeys` to
`get_pinserver_aeskey` are `pinclient.c`, with `Abandon` for its errors and its retry question;
`update_pinserver`, `reset_pinserver` are the requests and the menu.

### SignPsbt, MwebSession, AtomicSign

`sign_psbt_process` from the request to the last piece of the reply.  `doc` is the PSBT as the host sent it;
an input or output says which wallet its keys belong to, whether its script is the one that wallet's keys and path
give (`genuine`), and, apart from that, whether a Green one declares another path for the service's key than the
expected one (`other_path`).  `is_green_multisig_signers` looks only at the second and `KeyScriptMatches` only at the first.
`content` says of each part the device writes to whether it holds what the host sent, some of the signatures, or all.
One step is one round of a loop that may fail, or one screen.  `MwebSession` has the session of
`mweb_atomic_sign.c` as operators: totals with 64-bit sums that are checked at each addition (`CheckedSums`,
`UINT64_MAX`), validation, a snapshot for every part, commit part by part (`CommitOrder`, `CommitPart`, then
`CommitKernel`), and the rollback.  `AtomicSign` is the promise: a document is signed as a
whole after all of it was approved, or left as it was, or withheld from the host although it is signed
(`Withhold`, when `serialise_psbt` fails); `SignsAtomically` is the refinement, with `Phase` and
`Document` as the mapping.  The model assumes of a PSBT (`DocsAssumption`) that a Liquid one has no MWEB part, and that
the coins an ordinary transaction spends exist, so that their true sum has 64 bits.

### SignTx

`sign_tx.c` for both requests: `tx_input` and `get_signature` messages with and without
anti-exfil, Liquid blinding data and summaries.  An input is the coin it spends, and what the host
says of it may differ; outputs whose sum passes 64 bits restart the device (`TotalOverflows`).  A signature carries the type, amounts and assets it commits to, and
`Spendable` says whether the network would take it.  Of the coins it is assumed that those of an ordinary
transaction add up to less than 2^64 (`AmountAssumption`), of what the host says of them nothing.  `SpendsAsApproved` has two parts, `FeeApproved` and
`OutputsApproved`.

### UsbStorage and UsbOta

`UsbStorage` has the storage task of `usbhmsc.c` step by step (`usbstorage_task` is its place), the worker that serves
the USB host, the driver's events in their queue, the main task in `handle_usbstorage_action`, and the
tasks of updates, which stop the storage and start serial on their own.  `UsbOta` has the worker's
counting of replies, its time-out, and an update in the main task, abstracted from `Ota` to what it expects next.

### Records and MultisigFile

Three namespaces of records and one of HOTP counters; every commit is a step that may fail or be the last one.
A record can be read only by the wallet that made it.  A factory reset erases all, or, if it fails, any part.  `MultisigFile` has the text format: a file is
a sequence of fields with values, `ReadLine` is one round of the parser, and `ReadLines` does the lines one after the
other; white space and comments are left out.  A line says whether its value is too long for the reader, which a
derivation of `LongDerivations` is when the export writes it.  `IsMultisig` says what fields the data of a wallet has.

### IdleTimer

Times are true times, the code sees `Tick(t)`, and `TickMod` is 2^32.  `task` is `idletimer_task`: its place,
when it goes on and its locals.  The task has the lowest priority (`jade_tasks.h:35`), so other tasks act and the clock
runs between any two of its steps, however long they take: reading the setting (`ReadSetting`), the minimum
(`ReadMinimum`), the last activity (`ReadActivity`) and the clock (`ReadClock`), the choice of what to do (`Decide`,
`KeychainLoaded`), the warning, the second look (`LookAgain`), and `Restart` or `Dim`.  `held` counts the ticks since the
last activity or change in which the task had something to do and did not run; `unseen` is set when the
last activity came between its two readings, or after it had looked for the last time.

`TypeOK` in each module says what values its variables take.  A run lists it only where a theorem
states it as well.

## 4. Runs

Passing runs:

| run | states | shows |
|---|---|---|
| `keychain` | 253 thousand | eight properties of the wallet under power loss and a failing commit or reset |
| `wire` | 479 thousand | overruns, assertions, chunking, room and termination of the receive path, both links |
| `ota` | 388 thousand | what boots, what replies mean, that errors stick, that every message is answered |
| `message_pump` | 101 thousand | the order of answers, the tasks of a link, lost connections, stopping a link |
| `pin_client` | 1.3 million | the PIN, the server and the wallet agree; counters and answers are used once |
| `sign_psbt` | 329 thousand | approval, balance and atomicity of PSBT and MWEB signing |
| `sign_tx` | 267 thousand | approval, swaps, replies and commitments of both flows |
| `usb_storage` | 199 thousand | one use of the port at a time, errors of the right session, stopping ends |
| `usb_ota` | 257 thousand | the worker of an update reads its own replies, and ends |
| `records` | 883 thousand | registrations and HOTP counters survive failures; files are read back |
| `idle_timer` | 6.3 million | the device locks in time, and only when it was idle, whatever holds its task up |

* `AttemptsBounded`: attempts begun since the counter was last restored, plus those left, never
  exceed three: an attempt is paid for, in flash, before the key is tried.
* `ThreeStrikesErase`: no fourth wrong key is tried on a blob.  The exception is in the code: the counter is restored
  before the new blob is stored (`storage.c:447`), so two power losses, before an exhausted blob is erased and while
  the next wallet is saved, bring it back.  `revived` marks that (in `KeychainHistory`).
* `LockedToNetwork`: the restriction in force is the saved one; a temporary wallet's restriction
  outlives it in RAM until the next start (`borrowed`).
* `AttemptsRemainIfNoFault`: if the counter cannot be written the blob is erased but the has-pin cache stays
  set, and the assertion of `auth_user.c:67` fails; so it is stated for behaviours without failed commits.
* `UnlockedWalletIsStored`, `SavedWalletIsKept`, `EntropyIsTransient`: see the comments in `Keychain.tla`.
* `NoAbort`, `RoomToReceive`, `ChunkingIrrelevant`, `HandleDataReturns`: the receive
  path.  `ChunkingIrrelevant` compares the messages handled with those of the uncut stream.
* `OnlyConfirmedImagesBoot`, `ErrorSticks`, `OneReplyEach`: updates.  The request of a delta update may be answered
  twice: an error after the last packet goes to its id (`ota_util.c:296`).
* `ImplementsChannel`, `TasksPaired`, `WaitEnds`, `StopReturns`: the pump, with deadlock checking.  `StopReturns`
  has full queues as an escape, and needs it: `serial_stop` waits for a reader that may wait for the
  main task to take a message from the full queue.
* `OracleOpensWallet`: while the unit key is that of the wallet, the PIN the server holds is the one the blob was sealed
  for, but between a `set_pin` and the sealing with its key (`unsettled`).  `ReplayCounterIncreases`, `UnlockAsksServer`.
* `SignedIsApproved`, `KernelBalances`, `SignsAtomically`: PSBTs.  In `SignedIsApproved` an output that was not shown must be
  change of the wallet whose coins are spent by the script its keys and path give, whatever the output declares; for
  Green, which has one path for both, a receipt counts as change.  `SignsAtomically` is about the memory of
  the device too: what is refused there is as the host sent it, except a PSBT that is complete and could not be serialised.
* `SpendsAsApproved`, `SwapAsApproved`,
  `AnsweredOnce`, `CommittedFirst`: `sign_tx`.
* `PortIsShared`, `ErrorIsOfThisSession`, `StopReturns`: USB storage, with the exceptions `overtaken`, `failed_start`
  and `Stuck` that section 8 explains.  `RepliesAreOwn`, `WorkerEndsEventually`: updates from USB.
* `RegisteredStays`, `CodesNeverRepeat`, `ExportRoundTrips`: registrations.  `ExportRoundTrips` says which exports are read
  back, and of the others that they are refused and never read as another wallet: those with the derivation of
  a master key, or one too long for the 128 bytes of the reader (`register_multisig.c:286`).
* `LocksInTime`: the device locks two warnings after the time-out at the latest, and as much later as the idle timer was
  kept from running by tasks of higher priority (`held`): the code sets no bound on that.  `RestartsOnlyWhenIdle`: it
  misses no activity but the ones section 8 names.  Both except the wrap of the clock, where they are false.

One run shows that the code does something else than the repository says (a finding in `PROJECT.json`):
`psbt_chunks`.  The number of pieces of a reply is `bytes_len / PSBT_OUT_CHUNK_SIZE + 1`, one too many if the
length is an exact multiple; the assertion `chunk < bytes + bytes_len` then fails when the host asks for it.

### Bounds

* Keychain: two mnemonics, two passphrases, two AES keys (right and wrong), USB and QR mode; keys and
  mnemonics are only compared, so they are symmetric.  The counter has its real range (3).  One
  failing commit at any place (`MaxFaults`).  Power may be lost any number of times.
* Wire: a buffer of three bytes and packets of up to two, so that a packet fits, exactly fills
  or overruns; requests of two bytes (cut or whole) and of four (never fit); queues of one, so that each
  blocks; two ticks with a time-out of one; at most four bytes since the last discard (`MaxStream`).
  The tick count does not wrap (`TickModulus` 8): after a wrap the assertion of `wire.c:183` fails, whatever else
  happens.
* Ota: two connections, a header of two units, firmware of up to three, four messages for each
  update: a request, two packets and `ota_complete`.  So headers arrive whole or in pieces, and
  packets are short, exact and too long.  The numbers of updates and restarts are not bounded.

* MessagePump: two ids, used again once answered, so that two requests of a link can be in any two
  places; queues of one message, so that each can be full.  The order inside a queue is that of the
  ring buffer, which is FIFO.  Links are started and stopped, and requests sent, without bound.
* PinClient: two PINs, two servers, two unit keys (`MaxUnits`), three requests (`MaxRequests`), so that a late answer
  of one request meets a retry and a new login; replay counters up to `UINT32_MAX` 3, where the assertion of
  `storage_get_replay_counter` restarts the device.
* SignPsbt: every mix of up to two inputs and one or two outputs of ten kinds; MWEB documents with amounts
  up to and past `MAX_LITOSHI` 4 and sums that pass `UINT64_MAX` 13; Liquid documents; replies of one to three
  pieces, of two units.
* SignTx: up to two inputs and three outputs; two assets; amounts of up to 3, so that fees are
  wrong, zero or negative; sums wrap at 8.
* UsbStorage: one update at a time and three events in the queue; sessions, plugs and pulls without bound.
* UsbOta: a file of five chunks, long enough for the worker to wait without and with a limit; two updates, two
  messages of the host.
* Records: two wallets, two names, room for one record of each kind, five multisigs and six files, good
  and bad, one derivation too long to be read; a counter that wraps at 3; two codes of a record; one failed commit or reset.
* IdleTimer: a time-out of 2 ticks, raised to 3 by the minimum or off, checks every 2, so that a shorter sleep, a longer
  one and a raised minimum meet; a warning of 1; the clock wraps at 8 and the run ends at 7, so sums wrap and the
  clock itself does not.  The task may be held up anywhere for as long as the run lasts.

`CHECK_DEADLOCK FALSE` is set for UsbOta, which stops when its updates are used up, for Wire, whose clock and stream are bounded and whose link may fall
silent, and for Ota, where a device that is to boot the new firmware leaves the model.
The other runs are checked for deadlock.

### Fairness

`Wire`: `WF_vars(Reader)`, the reader task is scheduled while it can run.  Nothing is
assumed of the other tasks or of the host, so `HandleDataReturns` has the two full queues as
an escape.

`MessagePump`: weak fairness of the tasks, each of which FreeRTOS schedules while it can run; strong
fairness of `ReaderExits`, since the reader looks at its flag in every round of its loop, and
`nimble_port_stop` queues an event for the BLE host task.  `write_ble` gives up after two seconds, so its writer is
fair; `write_serial` tries again for as long as the USB driver takes nothing, so the serial writer
is fair only when it has nothing to write.  Nothing is assumed of the user, who may stay in a menu, of
a process before it replies, or of cables and peers.

`UsbStorage`: weak fairness of the main task while it does not wait for the user, of the storage task, its
worker, and the tasks of updates: FreeRTOS schedules each while it can run.  Nothing is assumed of drives.

`UsbOta`: weak fairness of the worker and of the main task, whose error screen is left by the user or by
a new message.  Nothing is assumed of the host.

The other modules have no liveness properties: nothing obliges the user or the host to act.

## 5. What is proved

For every value of the constants that satisfies the ASSUMEs of the modules: any sets of wallets, keys, PINs, requests,
names and connections, any sizes and limits.  The assumptions say that sizes and bounds are numbers, that
`None` is none of the values it stands beside, and what fields a request, message or uri has; TLC
evaluates them in the runs.  Each proof shows one inductive invariant, with one case for each action; TLC
checked the invariant first.

| theorem | property | module |
|---|---|---|
| `TypeCorrect`, `AttemptsAreBounded` | `TypeOK`, `AttemptsBounded` | `KeychainProofs` |
| `UnlockedIsStored`, `EntropyIsWiped`, `AttemptsRemain` | `UnlockedWalletIsStored`, `EntropyIsTransient`, `AttemptsRemainIfNoFault` | |
| `SavedWalletKept` | `SavedWalletIsKept` (steps) | |
| `ThreeStrikes`, `NetworkIsLocked` | `ThreeStrikesErase`, `LockedToNetwork` | |
| `DeviceLocksInTime`, `DeviceRestartsOnlyWhenIdle` | `LocksInTime`, `RestartsOnlyWhenIdle` (steps) | |
| `NoAssertionFails`, `BufferNeverFull`, `WireTypeCorrect` | `NoAbort`, `RoomToReceive`, `TypeOK` | `WireProofs` |
| `ChunksDoNotMatter` | `ChunkingIrrelevant` | |
| `TasksArePaired`, `PumpImplementsChannel` | `TasksPaired`, `ImplementsChannel` (refinement) | |
| `ConfirmedImagesBoot`, `ErrorsStick` | `OnlyConfirmedImagesBoot`, `ErrorSticks` (steps) | `OtaProofs` |
| `OneReplyToEach`, `OtaTypeCorrect` | `OneReplyEach`, `TypeOK` | |
| `OracleAlwaysOpens`, `PinTypeCorrect` | `OracleOpensWallet`, `TypeOK` | `PinClientProofs` |
| `CountersIncrease`, `UnlocksAreAnswered` | `ReplayCounterIncreases`, `UnlockAsksServer` (steps) | |
| `SigningIsApproved`, `KernelsBalance` | `SignedIsApproved`, `KernelBalances` | `SignPsbtProofs` |
| `PsbtIsAtomic` | `SignsAtomically` (refinement) | |
| `MessagesAnsweredOnce`, `EntropyCommittedFirst` | `AnsweredOnce`, `CommittedFirst` | `SignTxProofs` |
| `SpendsAsShown`, `SwapsAsShown` | `SpendsAsApproved`, `SwapAsApproved` | |
| `PortStaysShared`, `ErrorsAreOfThisSession`, `UsbTypeCorrect` | `PortIsShared`, `ErrorIsOfThisSession`, `TypeOK` | `UsbStorageProofs` |
| `UsbRepliesAreOwn` | `RepliesAreOwn` | |
| `RegistrationsStay`, `NoCodeTwice`, `RecordsTypeCorrect` | `RegisteredStays`, `CodesNeverRepeat`, `TypeOK` | `RecordsProofs` |
| `ExportsReadBack` | `ExportRoundTrips` | |

Sums, messages of a stream, lines of a file and filtered queues are recursive functions.  What they compute for
sequences of any length is proved by induction: the library's induction theorems take an operator, which
the provers cannot instantiate, so `Least` derives from well-foundedness that a set of numbers has a least
element, and `Induction` from it that a set with 0 and every successor has all numbers.  That a recursive
function exists is part of each such proof.

* `KeychainProofs`.  `AttemptsBounded` is not inductive: a step in the middle of a call could
  restore the counter without having decremented it.  `CounterInv` adds what is known of `begun` and
  `fCounter` at each place of a call.  `WalletInv` is for the wallet: `CallInv` says when a call may be under way (a
  wallet is loaded into an empty RAM and saved while it is there), `SessionInv` whose connection unlocked it,
  `BlobInv` that what a call is about to deliver or save, the blob and the RAM agree, `AttemptInv` that every attempt
  the counter has given up was begun, `NoFaultInv` what more holds while every commit succeeds.  `HistoryInv` relates
  the strikes to the attempts, but for a blob that was `revived`.  For the idle timer, `IdleInv`: `IdleTask` says what the
  locals of the task tell of the last activity and the time-out at each step (until it acts they are still
  true, or something happened that the task has not seen), and `IdleLock` how late the task is at most, by its step,
  not counting the ticks in which it was kept from running: none of its steps uses up time on its own.
* `WireProofs`, assuming `MaxUptime < TickModulus` (the tick count has not wrapped; with a wrap
  `NoAbort` is false).  The invariant `WireInv`
  has six parts.  `Residue` is the heart: what handle_data leaves never starts with
  a message, so a forced or stale attempt finds none and rejects everything, which is why the
  assertions that the buffer is empty hold.  `Sizes` says there is room for what has been received,
  and that a full buffer is marked for rejection; `Clock` that recorded times are in the
  past; `BoolOK`, `SeqOK` and `QueueOK` are types.  `ChunkInv`, for `ChunkingIrrelevant`: the stream is what has been
  handled, then the buffer and the bytes that follow it, where the handled part is `Consumed`: whatever follows
  it, its messages are found first.
* `WireProofs`, about `MessagePump`.  `PumpInv`: an enabled link has both its tasks and a disabled one none, except
  while it is being stopped, reader first; serial is disabled while the storage is in use.  `QueuesInv` says that the
  main task has a request exactly while it processes one.  With it every step appends to `Pending`, takes its
  head, moves a request within it, or empties it; so it is a step of `Channel` or none.
* `OtaProofs`.  `ImageInv`: while there is no error the partition holds as much as `fwwritten` says, the hash covers
  the partition or the packets received, and the partition is sound if they are.  `StepInv`: from `complete` on the
  user has confirmed, from `set_boot` on the partition is the firmware announced.  The rest counts messages and
  replies: all are answered, or one is in hand, or the request of a delta update was answered again.
* `PinClientProofs`.  The wallet opens because no `set_pin` that the server would still take is left once the
  sealing is done (`SettledInv`).  That needs every counter sent for the unit key to be below the one in flash
  (`ReplayInv`), and the account to be that of the request in progress once it is answered, since all the
  others are too old (`AnswerInv`).  `RequestInv` says that a request is known by its number and a unit key
  never comes back, `StepInv` what is there at each step.
* `SignPsbtProofs`.  The invariant has nine parts that rest on each other.  `TrackInv`, `AmountInv` and `InfoInv`: the
  flags, the record, the inputs to sign and the amount are those of the inputs read so far, and an output that is
  not shown is change of a wallet found.  `SessionInv`: a session is that of this PSBT, which passed the checks.
  `ContentInv`: which parts hold signatures at each place, so that a rollback restores all of them, and a PSBT that is
  withheld is complete.  `KernelInv`: a
  kernel is signed only in a PSBT that was checked; then the true sums balance, because the checked 64-bit sums
  equal them.  `ConfirmInv`: what the user has accepted at each place.  `DocInv` and `AnswerInv` say what there is
  to sign and to answer.  `PhaseFacts` gives the abstract state at each place, for the refinement.
* `SignTxProofs`.  `PhaseInv` counts the messages taken at each place.  `AeInv`: every message is answered before the next
  is awaited, and the reply to that of an input is the commitment if the host asked for one.  `EcInv`: nothing but the
  request is answered before all is signed.  `SignatureInv` ties a signature to the message of its input, and
  `ConfirmedInv` what was shown to the request.  `AmountInv` is about money.  `InputsInv`: the host can lie only
  about a single segwit input, whose signature then commits to the lie (`CommitInv`) and cannot be spent.  `SumInv`:
  otherwise the amount is the sum of the coins.  `SummaryInv`: each line of a swap is the sum of the opened inputs of its
  asset, less the change, modulo 2^64.  `LookedInv`: nothing is signed before the amounts were checked and shown.
* `UsbStorageProofs`.  `TaskInv`: what the storage task has brought up at each step.  `UseInv`: the main task or one update
  uses the storage, and whoever starts serial has seen the task end.  `DriveInv`: before the end is asked for only an
  error takes the drive down.  `ErrorInv`: an error goes back to a drive of this session.  For `UsbOta`, `UpdateInv`: as
  long as no worker gave up and no host interfered, the replies taken, those in the queue and the messages still to be
  answered are the worker's own, in the order it sent them.
* `RecordsProofs`.  `CodesFrom`: the codes of a record since it was stored are a run of values that wraps at most once
  and ends before the counter in flash; a code about to be shown is the last of them.  `NewInv` is
  for the time between two commits: nobody was told of the record, and no code of it was taken.  `ExportsReadBack`
  follows the reader line by line through the header and the signers of an exported file (`HeaderRead`, `SignersAfter`);
  from the first signer with a derivation that cannot be read back the reader has failed (`SignersRefused`), and stays so.
  `MultisigInv` says of every wallet in flash that its data is what an export can express; of one that came from a
  file this rests on what the reader checks of each line (`LineIsRead`).

Only model-checked: liveness, that is `HandleDataReturns`, `WaitEnds`, both `StopReturns` and `WorkerEndsEventually`.  The
provers have neither fairness nor ENABLED.  Every safety invariant, action property and refinement that a passing run
checks is stated by a theorem.

## 6. Next proofs

1. That `MessagePump` with `Wire` for its readers still implements `Channel`: `ReceiveRequest` as the abstraction
   of the messages that `Wire` handles.
2. That `Ota` implements what `UsbOta` assumes of an update, message by message.
3. `TypeOK` of `SignTx` and `SignPsbt` as theorems: the invariants now have just the types they need.

## 7. Not modelled

* Cryptography, CBOR, PSBT and descriptor parsing, key derivation, entropy: functions
  without protocol state.  They appear by what their callers tell apart: whether a key opens a blob, what a signature
  commits to, whether an output belongs to a wallet.
* GUI, camera, QR decoding, display and drivers: layout and image processing, or hardware.  Screens are choices of the user.
* `mweb_selfcheck.c` and `selfcheck.c`: tests.  `libjade` with `miniz`, `jade.py`, the emulator's links: run on a
  host; the host may send anything.  `components` and the bootloader: third-party.
* Single requests without state (`get_xpubs`, `sign_message`, `get_receive_address`...), identity and attestation.
* The dashboard's dispatch by connection, its remaining menus, QR mode: planned in section 2.

The map covers the files with protocol state; most of the remaining lines of the repository are of the kinds above.

## 8. What the models brought to light

Besides `psbt_chunks` and the exceptions of section 4:

* Wire: after the tick count wraps (49 days at 1 kHz), the first data received fails the assertion of `wire.c:183`.
* Message pump: `serial_stop` leaves the handle of the writer it deletes (`serial.c:313`); a reply queued later notifies
  a deleted task.  A reply queued for one BLE peer goes to the next (`ble.c:331`).
* Ota: a connection lost while `ota_complete` is awaited leaves an error without addressee; the assertion at
  `process.c:294` restarts the device.
* Keychain: if the counter cannot be written (`keychain.c:502`) the blob is erased, but the cached flag that there is
  one stays set until the next start; the assertion of `auth_user.c:67` then fails.
* Factory reset: when the erasure fails (`dashboard.c:743`) the device says so and goes on, with what was erased gone.
  The library may in that case leave the storage closed until the restart; the models only erase a part of it.
* PIN client: new server addresses erase the unit key although a wallet is saved (`storage.c:540`), and the comment at
  `update_pinserver.c:131` expects the same server to go on working: the right PIN then fails.
* PSBT: a path that is too long is passed over without giving up change detection (`sign_psbt.c:1045`); a genesis mismatch sets
  the message but does not return (about line 822); assertions on zero totals restart the device; recovery outputs of
  Green wallets are taken without their script being compared; amounts of ordinary inputs are summed mod 2^64.
* PSBT, Green: the comment at `sign_psbt.c:202` says that the script is Green's "if the backend path matches", and the code
  takes it for Green's when it does not: `sodium_memcmp` returns 0 for equal paths (`sign_psbt.c:204`).  So an
  output whose declared path has the right length and another content is validated against the script the wallet builds itself,
  and hidden as change; one with the right path is handled as an ordinary multisig and is shown.  Hidden outputs are the
  wallet's own either way, which is what `SignedIsApproved` says; no run states the comment.
* PSBT: one that is signed and then cannot be serialised (`sign_psbt.c:1634`) is refused, but its copy in memory
  keeps the signatures and what was committed.
* `sign_tx`: outputs that total more than 64 bits fail an assertion (`sign_tx.c:830`) and restart the device.
* `sign_tx`: the summary of a swap does not count the wallet's inputs whose amounts are not opened, nor
  assets that are not listed.
* USB storage: a failed start leaves serial stopped; an update that outlives its session may stop the next;
  if the driver fails before it registers, the storage task waits for a worker that never ends; an
  event left in the queue is taken for one of the next session (`usbhmsc.c:140`).
* Updates from USB: replies are counted, not matched.  A message of another connection is refused over
  the update's connection and counted; after that, or when the worker gave up, each later update reads its
  replies late until the device restarts.  `internal_out` is emptied only for QR logins (`qrmode.c:1700`).
* Registrations: an interrupted deletion leaves a HOTP record without its counter, so codes start again
  (`storage.c:773`); if the counter of a new record cannot be stored the record it replaced is gone too; one wallet can replace or
  delete another's record; derivation `m` is exported and refused on import, and so is a
  derivation of 128 bytes or more, say of 11 hardened elements of ten digits (`multisig.c:616` allows 16 elements,
  `register_multisig.c:286` reads 127 characters); a failed sanity check of a loaded
  record still returns true (about `multisig.c:396`); `register_otp_string` returns an error code as bool.
* Idle timer: within a time-out of the wrap the device may restart early (`idletimer.c:126`), or sleep past the wrap and
  not lock until the clock comes round (`idletimer.c:193`).  Three sorts of activity are not noticed: between the two reads
  (`idletimer.c:122` and 123, in the task of the lowest priority, `jade_tasks.h:35`), in the very tick of the second, and
  after the last look (`idletimer.c:144`).  While other tasks keep this one from running the device does not lock.
* A flag set in RAM just before all flags are reloaded from flash is lost (`mnemonic.c:1449`).
