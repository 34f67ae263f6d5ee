# Verification of the STM32 network radio firmware

TLA+ models of the firmware in `src/stm32radio_svn66`, the TLC configurations
that check them on small instances, and theorems that TLAPS checks for every
value of the constants. File names below are relative to
`src/stm32radio_svn66/` unless they end in `.tla` or `.cfg`.

Contents: [the system](#the-system) - [how the modules correspond to the
code](#modules) - [what each run shows](#runs) - [fairness](#fairness) -
[deadlock](#deadlock) - [what is proved](#proofs) - [weak points of the
code](#what-the-models-found) - [what is not modelled](#not-modelled) -
[plan](#plan) - [how to run](#how-to-run-it)

## The system

The firmware is an internet radio and file player on an STM32F10x with a DM9000
Ethernet chip, a WM8978 audio codec, a touch screen and an SD card. It runs on
RT-Thread: one processor, fixed priorities (lower number first), preemption at
any instruction, a tick of 10 ms. There is no memory protection, so that one
thread's mistake is every thread's.

| who | priority | code | what it does |
|---|---|---|---|
| codec DMA interrupt | - | `codec.c` | plays the next block of samples, frees the last |
| DM9000 interrupt | - | `dm9000a.c` | latches of receive and transmit completion |
| tick interrupt | - | `touch.c` | touch controller, polled by a timer |
| capture interrupt | - | `remote.c` | the intervals of an infrared burst |
| tcpip | 10 | lwIP | all sockets; sends frames |
| erx, etx | 12 | `ethernetif.c` | the driver's receiving and transmitting threads |
| ply_bg | 13 | `player_bg.c`, `mp3.c` | one play request at a time: opens, decodes |
| update_bg | 20 | `radio_list_update.c` | downloads the station list |
| cali | 20 | `calibration.c` | the calibration of the touch screen |
| nbuf | 22 | `netbuffer.c` | fetches blocks of the stream into a ring |
| ply_ui | 25 | `player_ui.c` | state of the player, buttons, lists |
| key | 30 | `key.c` | polls the buttons |
| remote, rm_study | 30 | `remote.c` | infrared remote control, learning of its codes |
| msc | 31 | `msc` (USB) | mass storage; freezes the player |

### Components, their state and how they interact

A button press becomes a **play request**: `player_ui.c` keeps `player_mode`
(what it believes is playing), `next_step` (what follows when it stops) and the
play list (`play_list.c`), and posts the item to ply_bg's queue. ply_bg sets
`is_playing`, runs a decoder until the stream ends or `is_playing` is cleared,
and posts a notice back to the queue of the user interface, which holds four
messages and drops what does not fit. There is no other handshake: the notice is
the only way back to `STOP`. *Correct* means: never two requests at once, stop
stops, and what the user interface believes is what the player does.

For a station the decoder reads through the **network buffer**
(`netbuffer.c`): a ring, three indices, a state (`STOPPED`, `BUFFERING`,
`SUSPEND`, `STOPPING`) and two semaphores. The worker nbuf fetches, suspends
itself when the ring is 90% full and is resumed by a reader below 80%; a reader
that finds too little waits until enough has been buffered. The reader preempts
the worker anywhere and neither holds a lock around the indices. *Correct*
means: the ring is a FIFO, nobody waits for a wake-up that is not coming, and a
stop stops.

The worker fetches with a function of the session: an **HTTP or shoutcast
session** (`http.c`), or the songs of a **Douban radio** (`douban_radio.c`) one
after the other. A shoutcast session removes the metadata that the server puts
between chunks of audio. *Correct* means: each session uses its own socket and
closes it; what is read is the audio, all of it; the strings of a play list are
freed once.

The **update of the station list** (`radio_list_update.c`) is a thread made for
one request, with a queue of its own, a state and a view; it downloads the list
over the old file, on a socket of the same table, while stations may play.
*Correct* means: one update at a time, the file is a whole list outside a
download, and the view tells the result.

The decoder puts frames into **sample blocks** of a pool of two and queues them
in the **codec**'s ring (`codec.c`), from which the DMA interrupt plays and
frees them. *Correct* means: a block is in one place, and the channel runs
exactly while something is queued.

The codec's control registers, the serial flash (`sst25vfxx.c`) and the touch
controller (`touch.c`) share the bus **SPI1** under one semaphore, which two
interrupts and a section with interrupts disabled take as well. *Correct* would
mean one user at a time. For the **serial flash driver** on top of it *correct*
means: what a write stored stays, and is what a read returns, whoever else uses
the bus in between.

The **calibration** (`calibration.c`) makes a session and a thread with a
window; the tick interrupt calls back into the session; the thread hands the
range to `touch.c` and saves the **settings** (`setup.c`). *Correct* means:
nobody uses a session that is gone, the range reaches the borders of the
screen, the file holds the settings in use.

The **remote control** (`remote.c`) has an interrupt that captures a burst into a
buffer, a thread that compares it with the learned codes and a thread that
learns them. *Correct* means: a key is reported for its button and for no
other, what is learned is what was sent, learning ends.

Frames go through the **Ethernet driver** (`dm9000a.c`) and its two threads
(`ethernetif.c`), with a chip that keeps receiving while the driver works.
*Correct* means: no frame is left in the chip unnoticed, each packet is sent
with its own length, and a sender goes on when its own packet is out.

**Hard to test** in all of this: the reader and the worker between any two
accesses of each other; the DMA interrupt between two lines of `codec_close`;
the order of a stop, its notice and the next request; the lost notice; interrupts
against the masking of the Ethernet chip; short reads and time-outs at every
offset of the metadata; the failure of one step of several in opening and
closing sessions; semaphores taken in interrupts; callbacks into a session that
a thread frees; power failures between the steps of a save; an unprotected
capture buffer. `PROJECT.json` lists each
hazard at its line with the properties that speak about it, or the reason why
none does.

## Modules

The arrows are `EXTENDS` and `INSTANCE`.

| module | of | state and actions |
|---|---|---|
| `NetBuffer` | `netbuffer.c`, the calls in `player_bg.c` and `mp3.c` | the fields of `_netbuf`, its semaphores and job queue; a program counter for the player, one for the worker |
| `NetBufferStream` -> `NetBuffer` | the same with the bytes | `buffer_data`; bytes are labels modulo `Labels` |
| `BoundedFifo` <- `NetBufferStream` | abstract | a queue of bytes with a capacity |
| `AudioPath` | `codec.c`, the sbuf pool of `netbuffer.c`, `mp3_decoder_run` | pool, decoder's block, ring; `MS` in `r06` and as sent, I2S and DMA enable |
| `BlockOwnership` <- `AudioPath` | abstract | each block's owner: pool, decoder or codec |
| `PlayerUi` | `player_ui.c`, `play_list.c`, `player_bg.c`, `utils.c` | mode, next step, list, both queues |
| `Ethernet` | `dm9000a.c`, `ethernetif.c` | driver's fields, mailboxes, semaphores; the chip's latches and memory |
| `Shoutcast` | `http.c`: `shoutcast_session_read` | session's counters against the server's place in the stream |
| `HttpSockets` | `http.c`, `radio_list_update.c`: connect to close | lwIP's table of sockets, where each session is |
| `RadioListUpdate` -> `HttpSockets` | `radio_list_update.c` | its thread, queue, state and view; the file and what is on the disk |
| `Douban` | `douban_radio.c` | the list, the life of its strings, the session |
| `Spi1Lock` | `spi1_lock`, `rt_sem_take`, `rt_sem_release`, scheduler | semaphore, its list, ready threads, the current one |
| `SpiFlash` -> `Spi1Lock` | `sst25vfxx.c` | the words of the chip, the command each thread is in |
| `Calibration` | `calibration.c`, `touch.c`, `setup.c` | session, callback, range, window's queue; the settings and their file |
| `Remote`, `MCRemote` -> `Remote` | `remote.c` | capture buffer and count, semaphore, mode, codes and their file; where both threads are |
| `NetBuffer_proofs`, `AudioPath_proofs`, `Ethernet_proofs`, `Calibration_proofs` | the module of that name | theorems and their proofs |
| `UserInterface_proofs` | `PlayerUi`, `Remote` | the same |
| `RadioListUpdate_proofs` | `HttpSockets`, `RadioListUpdate` | the same |
| `RadioSessions_proofs` | `Douban`, `Shoutcast` | the same |
| `SpiFlash_proofs` | `Spi1Lock`, `SpiFlash` | the same |

**How code becomes actions.** What can be interrupted between two accesses to
shared state is more than one action; what cannot, is one.

- `NetBuffer`: the worker (22) can be preempted by the player (13) anywhere, so
  that each of its accesses to a shared field is an action, named for it and
  reached by `wpc`. The player is not preempted by the worker: its actions run
  from one blocking point to the next. The user interface (25) runs only when
  both are blocked. `Fetch` and `CloseJob` can block for long (the network).
- `AudioPath`: an action per section with interrupts disabled, and between them
  one per access; `codec_dma_isr` is possible whenever the channel, the I2S unit
  and the codec's clock are on. `sample_rate` is three actions (`RateReads`,
  `RateWrites`, `RateSends`): it reads `MS`, writes it back and sends it, with
  interrupts enabled.
  The codec ring's window is computed from the indices, so that a wrong index
  shows as a block in two places or none.
- `PlayerUi`: a handler of the user interface shares only `is_playing` with the
  player thread, which has run until it blocks before the handler starts: one
  action per handler. Touches come in any order with the queued messages. An
  item is its kind: what matters is which test it passes, and `media_type` and
  `player_thread` test differently. Reading a station's strings after they were
  freed gives any kind.
- `Ethernet`: an action per access to the chip or to a field that the interrupt
  changes. `Latency` lets an interrupt come one access late, as it does when the
  line rises during a bus access. The chip, external, is modelled from how the
  driver uses it: `PRS` and `PTS` are latched until written back, the line is
  level-triggered. A frame is its kind: good, bad, too long, stopping the chip,
  or odd without a buffer.
- `Shoutcast`: a read of the session is one action, since a session has one
  reader; the server chooses where the block ends (a short read is a time-out or
  the end) and the lengths. Bytes carry their number in the chunk; what comes in the
  same block behind the chunk after the next length byte is only said to be later.
- `HttpSockets`: an action per call that can fail or block. `connect` of lwIP
  returns 0 for success, which the code uses as the socket: this is the constant
  `peer_handle`.
- `Douban`: a read of the radio is one or several actions, one per song it goes
  through. `items[i]` says what the pointers of song i point to.
- `Spi1Lock`: a thread runs when it is current and the highest ready; the
  semaphore calls are whole (the kernel disables interrupts in them), and the
  place between the suspension of a thread and `rt_schedule` is a state of its
  own, because the code has one.
- `RadioListUpdate`: the update's thread (20) runs before the interface (25): an
  action per call of its that blocks. Its actions on the socket are those of
  `HttpSockets`, conjoined with what they do to the file and the state. A list is
  what a reader makes of it: whole, a part, empty, or noise from a connection of
  someone else. `PowerOn` starts over with what was on the disk.
- `SpiFlash`: an action per transfer of a command; between any two the
  caller may lose the CPU, `SendNow` of `Spi1Lock` may come, or the power fail.
  A word is the set of values programmed since it was erased, since the chip can
  only clear bits.
- `Calibration`: an action per step that an interrupt or a faster thread can
  separate from the next; `PenUp` is the tick interrupt with its callback. A save
  fails for want of memory, of the file or of room on the disk. One
  axis is modelled; a coordinate is a 16-bit word, `Word` its range.
- `Remote`: an action per capture, and per comparison of one interval, so that
  captures come at every place of a comparison. An interval is a number that the
  tolerance of the comparison tells apart from others, zero, or a gap.

**Faults.** Definitions marked `Fault:` are not used by any specification. Each
is the definition below it with a plausible mistake in it (a guard dropped, an
index off by one, a reset forgotten), and for every property of a passing run
one of them, put in its place, makes TLC report that property. They show that
the properties are about the code.

**History variables** of one kind (`raced`, `stale`, `unheard`, `upset`, `lost`, `left`,
`overlapped`, `shared`, `failed`, `cut`, `spoiled`, `unseen`, `unsaved`,
`widened`, `late`, `misread`, `fault`) record that the code has gone through one of its
known weak points. The properties hold up to there; what the weak point is, is
said [below](#what-the-models-found). Those of the other kind (`holds`,
`tapped`, `heard`, `slot`) keep an earlier input that a property compares with
what became of it. Nothing in the models reads either but the properties, and
`fault` and `misread`, after which a model stops, and `widened`, at 2 of which
`Calibration` no longer follows the range.

## Runs

| run | instance | states | what it shows |
|---|---|---|---|
| `netbuffer_safety` | ring of 6, blocks and reads of up to 2, 9 labels | 225 908 | wake-ups, resumptions, room, indices, FIFO, and that blocked readers and suspended workers go on |
| `audiopath_safety` | 2 blocks, 5 slots (the firmware's) | 16 310 | one place per block, channel and queue agree, decoder served, `BlockOwnership` |
| `playerui_safety` | 4 kinds, lists of up to 2, queues of 4 and 8 (the firmware's) | 63 142 | one session, stop stands and happens, beliefs agree |
| `ethernet_safety` | 2 senders, 5 kinds of frames, 1 frame in the chip, mailboxes of 2 | 74 970 | lengths, no frame forgotten, every packet sent |
| `radiolist_safety` | 2 player sessions, 1 update, 2 sockets, an interface queue of 1 | 610 546 | own connection, none left open, request awaited, list kept and whole, result seen |
| `shoutcast_safety` | blocks of 6, units of 2, lengths 0-2, chunks of 3, 6, 7, 9, 12 or none | 28 268 | count follows the server, reads return the audio |
| `douban_safety` | lists of up to 4 songs | 2 566 | strings owned and freed once |
| `spiflash_safety` | 4 threads, 3 users of the bus, 2 of the flash; 2 sectors of 2 words, 2 values | 3 882 704 | units of the lock conserved, somebody can run, written sectors stay and are read back |
| `calibration_safety` | 2 coordinates, words of 8 values, a queue of 1 | 1 204 619 | session alive, range reaches the borders, settings saved, calibration ends |
| `remote_safety` | 2 buttons with codes of 4 and 2 intervals, 2 keys, 2 presses, a buffer of 5 | 514 738 | only pressed keys reported, bursts learned whole, known keys reported, learning proceeds |

and two runs in which TLC finds a statement of the source violated by what the
code does: `netbuffer_lost_stop` and `httpsockets_valid`.

The type invariants are theorems, so that no run checks them again.
`OwnConnection`, `NoneLeftOpen` and `ValueAgrees`, `NeverAllWait` are stated in
`HttpSockets` and `Spi1Lock` and checked where these are composed with what uses
them, in `radiolist_safety` and `spiflash_safety`.

**Bounds, and why they are enough.**

- `netbuffer_safety`: with 6 bytes the water marks of 90% and 80% are 5 and 4:
  at the upper one a block of 1 still fits and one of 2 does not, so that all
  branches of `net_buf_do_job` occur; indices wrap at every offset, copies split. The
  labels exceed what the ring and a block hold, so that no two bytes in it are
  alike. One queued request at a time: the second waits in the queue of the
  player and touches nothing. The theorems below lift this bound for the
  invariants.
- `audiopath_safety`: not a bound, the numbers are the firmware's; the
  theorems are for any.
- `playerui_safety`: the queues have the firmware's lengths, so that the loss of
  a notice occurs; two items distinguish next, previous, the same and the ends
  of a list. `InfoMax` bounds the messages that only redraw; with four they can
  fill the queue alone. Lists of three show nothing new (382 612 states).
- `ethernet_safety`: the chip sends at most two packets, so two senders are all
  there can be in it; a frame that arrives while one is unread changes only the
  count of those unread, which the thread reads in a loop; with two frames
  everything holds as well. Mailboxes of two hold both senders' messages.
- `radiolist_safety`: the player has at most one session opening and one in
  the worker; with two sockets one can be left open, another found, and none be
  free. A queue of one message is either room for the paint command or none.
- `shoutcast_safety`: chunks of half a block, one, one more, one and a half and
  two of it, with metadata of no, part of and most of a block, put every
  boundary at every offset. A block of the shortest has two or three length bytes, which is
  what the code cannot count; usual servers send 8192 bytes to a chunk, twice the
  block.
- `douban_safety`: `DOUBAN_SONG_MAX` is larger; the theorems are for any.
- `spiflash_safety`: three users make a list of two behind a holder; the idle
  thread is who may be suspended against its will. Two sectors are one written
  and one to be kept, or one write of two; two words one programmed and one not
  yet. Values are 1 and 2, so that a second write over unerased words shows.
- `calibration_safety`: with coordinates 3 and 5 and the mean of the two in words of
  8 values, ranges are direct, reversed or empty, and stay in the words or wrap; the
  margin rounds down or not, and an unset width makes the divisor positive,
  negative or 0. A queue of one
  message is full at the second touch, which is the place where the command that closes
  the window is lost.
- `remote_safety`: at the start the file has codes for no key, for the first or
  for both, since it may have come over USB; the first key has the long code or the short one, so that the
  thread is woken too late, too early or in time; the short code looks like the
  end of the long one, whose rest is compared as a burst of its own; a buffer of five holds a code
  and a part of the next; `Room` is where a new burst starts at the beginning of the buffer. Two
  presses are one burst that is compared and one that comes during it, or one
  key learned after another. `SemMax` bounds wake-ups that nobody has taken yet.

## Fairness

Seven runs state liveness, each under what the code's scheduling gives:

- `NetBuffer`: weak fairness of the player (it has the higher priority, its
  network calls end with `HTTP_RCV_TIMEO`, the codec frees blocks); strong
  fairness of the worker, which runs while the player waits for the codec, that
  is again and again and not continuously; and of `ReadTakes`: a decoder that
  plays reads again. Nothing is assumed of the user.
- `AudioPath`: weak fairness of the interrupt (a transfer ends) and the player.
- `PlayerUi`: weak fairness of the handlers, of the player thread and of a
  decoder's end **once `is_playing` is cleared**: a station need not end by
  itself, and the user need not do anything.
- `Ethernet`: weak fairness of the chip's transmission and of interrupts; strong
  fairness of each thread's steps, since interrupts and time slices delay them
  again and again; strong fairness of `TxLocks`, `RxLocks` and `AwaitAck`, as
  the kernel's semaphores hand over first come first served; and of
  `RxFrame \/ RxFindsNone`: frames are read faster than the wire brings them, so
  that the loop over bad ones ends, with a good one or with none. Frames need
  not arrive and nobody need send.
- `RadioListUpdate`: weak fairness of the interface (it sends its request, shows
  the view, handles its messages) and of the steps of the update's thread, whose
  `connect` lwIP gives up after some retries. Nothing is assumed of the server
  that `recv` waits for (`AwaitsServer`): unlike `http.c:223` the update sets no
  receive time-out, and lwIP's default is to wait for ever. `ResultSeen` has a
  server that keeps silent as an alternative. Stations and the user are free.
- `Calibration`: weak fairness of the thread; strong fairness of a touch while
  the window's queue has room: a user in front of the four targets touches again
  and again, and the thread empties its queue.
- `Remote`: weak fairness of the capture of a burst that has begun, of the tick
  and of both threads. Nobody need press a button.

Where a liveness property has a premise or an alternative
(`[]~DrainedBeforeSuspend`, `[]~StopDuringFetch`, `\/ stale`, `\/ unheard`,
`\/ upset`, `\/ unseen`, `\/ []AwaitsServer`, `\/ late`), it names a window of
the code in which the property fails, which a run without it exhibits.

## Deadlock

TLC checks deadlock in `netbuffer_safety`, `playerui_safety` and
`calibration_safety`. It is switched off where the modelled code really stops:
`AudioPath` after `corrupt`, `Ethernet` after a spin or with the chip reset and
every sender waiting, `Shoutcast` after `misread`, `Douban`, `Spi1Lock` (and
`SpiFlash` with it) and `Remote` after a `fault` (memory is corrupted; what follows is not
modelled), `HttpSockets` and `RadioListUpdate` when every socket is taken; and in
`Remote` when all presses are used up.

## Proofs

TLAPS checks the modules `*_proofs`. Assumed are the `ASSUME`s of the constants
only, which TLC evaluates in the runs. Every invariant and every action property
of the passing runs is a theorem. Each inductive invariant was a run of TLC on the
instance of its module before it was proved; the numbers of states are those of
the table above.

**`NetBuffer_proofs`** (any ring, block and request size with `Block` below the
room above the water marks): `TypeOK`, `WakeOnce`, `ResumeOnce`, `RoomToSave`,
`IndicesAgree`, and `OneJob`: the job queue, whose `rt_mq_send` is not checked,
never holds more than one job. `RoomToSave` is not inductive:
that a resumed worker has room depends on who resumed it. `IInv` adds
`StatOfWorker` (which values of `stat` and of the job queue go with which place of
the worker) and `Fill` (how full the ring can be at each place; a worker resumed
by a reader finds less than the lower water mark). The proof has a lemma per
thread and a step per action; both index calculations rest on `AdvanceInRing`.
`RingIsFifo` is the refinement: `NetBufferStream` implements `BoundedFifo` until
the room was exceeded. What the queue holds is the ring from `read_index` on, so
that a step of the worker that writes behind `data_length`, and counts later, must
leave it alone: `RingOK` (in `SInv`) says that what is copied and not yet counted fits, and
`Slot` is one to one within the ring. A read takes the front whether it wraps or not.

**`AudioPath_proofs`** (any number of blocks below that of the slots): `TypeOK`,
`OnePlace`, `PlaysWhatIsQueued`, and that `AudioPath` implements
`BlockOwnership`. None is inductive: the interrupt frees the block at
`read_index` whatever is there, and only `PlaysWhatIsQueued` says that it is
queued; `PlaysWhatIsQueued` is given up inside `codec_close`, where `Closing`
takes its place; it rests on what `MS` says, which `sample_rate` may bring back
but never clears behind the interrupt (`Rating`), and brought back it keeps the
I2S unit off, so that no interrupt comes (`StaleMs`); and a block that `codec_write` refused would be lost, which
`NeverRefused` excludes by counting: a full ring holds one block less than it
has slots, a block is with the decoder, and there are fewer blocks than slots
(the pigeonhole principle). The ring is treated once, in `WindowGrows`,
`WindowShrinks`, `WindowEmpty` and `WindowFull`. Two consequences are theorems of
their own: a decoder waits for a block only while one is played or with a stale
`MS` (`BlockComes`, the safety half of `AllocServed`), and between stations every block is in the
pool (`PoolWholeBetweenStations`).

**`UserInterface_proofs`**, first half (`PlayerUi`; any kinds of items, lists and
lengths of the queues): `TypeOK`, `OneSession`, `StopRequestStands`, `ModeAgrees`. A request goes
through three stages: it is queued, it is played, its notice is queued. `OneStage`
says that they exclude each other and the mode `STOP`, `OneNotice` that there is
one notice at most, `StageToCome` that there is one of them whenever the mode is
not `STOP`. A handler of the interface that starts something does so in mode
`STOP` or with the notice it has taken out, when there is no other: that is the
induction. `SessionsCount` turns counting messages into
the cardinality of their places in the queue; that a queue can drop a notice is
what `unheard` excludes.

**`UserInterface_proofs`**, second half (`Remote`; any buttons, codes, keys and
length of the buffer): `RemoteTypeOK`, `OnlyPressed`, `Learned`. Both properties
compare what a thread reports with bursts that are long over, so that the
invariant has to say at every place what the buffer holds of which burst.
`Learning`: while a code is awaited, the burst in `slot` is either still arriving
(`Arriving`: as many intervals as were counted are at the beginning of the buffer,
and `sent` is where the capture goes on) or has arrived (`Arrived`: all of them
are). `Hearing` says the like of playing: what the thread compares is the
beginning of a burst that was heard, and behind it that burst has ended or broken off
(`Begun`); if it can still go on, it is the one being sent (`GoesOn`). The code
it is compared with is matched from the front (`Matched`), so that at its end the
two are equal, and the key belongs to the button. `Turns` says which thread is at
work in which mode.

**`Ethernet_proofs`** (any kinds of frames, memory of the chip and mailboxes, with
or without `Latency`): `TypeOK`, `OwnLength`, `RxNotForgotten`. `OwnLength` rests
on `AckAgrees`: `sem_ack` and `packet_cnt` stay in step, even where the receiving
thread clears a completion, so that a packet is moved only while one at most is
before it; and on `Flight`: one packet is in flight, the one behind it is the one
that `queue_packet_len` belongs to. `RxNotForgotten` rests on `MaskedForThread`
(receptions are masked only with a message to the thread, which enables them
before it waits again) and
`Latched` (a frame is latched until the handler has told the thread, or the
thread is yet to look); `LockAgrees` keeps the two threads apart. `AckComes` is
the safety half of `Transmitted`: the transmitting thread waits only while a
packet is in flight whose completion nobody masks (`Pending`, `Enabled`).

**`RadioListUpdate_proofs`**, first half (`HttpSockets`; any sessions and
sockets): `TypeOK`, `OwnConnection`, `NoneLeftOpen`. The two are inductive
together: every session uses socket 0, and one that uses its own therefore is
alone (`OnlyOne`); with nothing open, the next gets socket 0 again. Second half
(`RadioListUpdate`; any sessions, sockets and queue):
`RequestAwaited`, `KeptUntilAnswered`, `ListWhole`, and `OwnConnection` and
`NoneLeftOpen` again, for the composition: every step of `RadioListUpdate` is a
step of `HttpSockets`, leaves the sockets alone or starts anew (`SocketStep`),
so that the lemmas of the first half apply. `Reading` says that the file is open just while
the update's session is, which neither property says alone.

**`RadioSessions_proofs`**, first half (`Douban`; any `DOUBAN_SONG_MAX`): `TypeOK`, `ItemsOwned`,
`FreedOnce`, `SessionInList`. A free is harmless because the strings of the
list are live, and a song is used only if it is in the list; that a parsed list
owns just its strings is `NewItemsLive`. Second half (`Shoutcast`; any block, unit
and length of metadata, any `icy-metaint`, less than the block or not):
`ShoutcastTypeOK`, `ChunkAgrees`, `ReadsAudio`. `ChunkAgrees`, the count of the
session against the server's place in the stream, is inductive with `MetaFirst`: a
size of metadata that was read ahead is kept only at the beginning of a chunk.
`ReadsAudio` then follows for each of the branches of a read, what the block has
before the metadata and behind it being consecutive.

**`SpiFlash_proofs`**, first half (`Spi1Lock`; any threads and users, the idle
thread the least urgent):
`TypeOK`, `ValueAgrees`, `NeverAllWait`. `ValueAgrees` alone is not inductive: to
resume someone from the list one must know that the value stays 0 and that no
node is linked twice. `NobodyPassed` says that nobody waits while there is a
unit, `UsersAwake` that whoever is in a transfer is not asleep. Second half
(`SpiFlash`; any geometry, values and threads): `OneUser`, `StoredAsWritten`,
`ReadsBack`, and the two of the lock for the composition. `FInv` adds to the
invariant of the lock that without an overlap nobody was pushed into its list
(`NonePushed`) and so it excludes (`OneUser`); that a command belongs to a thread
in the lock (`Commands`); and of each command what is behind its address counter and what is before
it (`ThreadOK`: a sector being written is promised to nobody, what the counter has
passed is written and the rest blank, a read has seen what it has passed). The
counter is treated once, in `Quotient`, `NextWord` and `PassedNext`.

**`Calibration_proofs`** (any coordinates, words and queue, an inset that is not
zero): `TypeOK`, `SessionAlive`, `Calibrated`, `TouchSaved`. `CInv` says whose the
session is (`SessionOK`), that the window is told to close after the last target
only (`Closes`), what the range is made of after each target (`RangeOK`), that a
range widened once is what is handed over (`HandedOver`), and that a save that no other disturbs
has the settings in use to write (`SettingsOK`). That the borders are reached is the
arithmetic of `Widen`, for ranges in either direction.

**What the proofs corrected.** A theorem for all values says more than a run, and
where it failed the model, or the property, had been wrong:

- `Calibrated` is false for an inset of 0, whose bound it makes empty
  (`calibration.c:17` has 15): `CalibrationAssumption` excludes it.
- `OnlyPressed` held on the run's first instance only, where no code was longer
  than the first key's and none looked like the end of another. It now names both limits, `late`
  includes the rest of a longer burst, and the instance has a short code that
  ends like the long one.
- In `Note` of `Remote` two guards of a `CASE` overlapped, of which TLC takes the
  first and TLA+ any: they exclude each other now.

**Only model-checked** is liveness: `ReaderServed`, `SuspendEnds`, `AllocServed`,
`StopHappens`, `Transmitted`, `ResultSeen`, `CalibrationEnds`, `KeyReported`,
`StudyProceeds`. Fairness is a statement about `ENABLED`, which is out of reach
of the provers used.

## What the models found

Where the source says otherwise, a run of `expect: violation` quotes the line:

1. **A stop is overwritten** (`netbuffer.c:270`, run `netbuffer_lost_stop`).
   The worker checks for `STOPPING` before the fetch and sets `SUSPEND` after
   it. A stop during the fetch is gone: the worker sleeps, and the next station
   fails to start; only the stop that follows that failure wakes the worker.
2. **0 is not the socket** (`http.c:225`, run `httpsockets_valid`). `connect`
   returns 0; the first socket of the table is used, whoever owns it.

Behaviours of the models that no line of the source denies, and which the
properties therefore name as their limits:

- The last block ends between the test of `MS` and the disabling of the channel in
  `codec_close` (`codec.c:446`): the loop of line 461 makes a whole turn over an
  empty ring and frees blocks that are in the pool (`raced`).
- A frame of another sample rate comes while the last block is played:
  `sample_rate` puts `r06` together around the `MS` it has read
  (`codec.c:358`), and if the interrupt clears `MS` in between, the bit comes back with
  the I2S unit off. `codec_write` then does not start it: nothing plays any more
  and the decoder waits for a block for ever, unless the station is left first,
  which drains an empty ring as above if nothing has been queued (`stale`).
- An ARP reply of the receiving thread and a packet of the tcpip thread wait on
  one semaphore: the one that came second takes the acknowledgement of the first
  and goes on while its message, on its stack, is in the mailbox
  (`ethernetif.c:151`).
- A job stopped before the worker has started it is dropped, its session never
  closed and `stat` stays `STOPPING` (`netbuffer.c:339`).
- `STOPPED` is published before the reader is woken and the ring reset: the next
  job may start in between (`netbuffer.c:217`).
- The reader empties the ring between the worker's look at it and its
  suspension: both wait (`netbuffer.c:263`; `DrainedBeforeSuspend`).
- After a stop a resumed worker saves its block without room
  (`netbuffer.c:281`; `lost` in `NetBufferStream`).
- The queue of the user interface is full when the notice of an end comes: the
  mode stays `FILE` or `RADIO` and no button recovers it (`player_ui.c:837`,
  `unheard`). The same for a request that no decoder takes (`player_bg.c:92`).
- A station chosen while another plays is put into the list and not started: the
  handler of the notice sets `next_step` to `STOP` for a radio
  (`player_ui.c:708`).
- A computer takes the disk between the end of a file and its notice: the next
  file is started under the USB view (`player_ui.c:744`).
- An empty list: `&play_list[i]` of no list is null only for index 0
  (`play_list.c:106`).
- The strings of a station are read after the list that holds them was freed, with
  a modal loop in between (`player_ui.c:400`): the item is of any kind.
- The receiving thread clears the latch of a completion it did not serve
  (`dm9000a.c:555`); a frame that is too long resets the chip, which is not set
  up again (`dm9000a.c:541`); a discarded frame of odd length makes the counter
  step over zero (`dm9000a.c:512`). All are `upset`.
- Metadata that does not end in the block, or a read shorter than the metadata
  before it: the length of a `memmove` is negative (`http.c:591`, `http.c:620`);
  no `icy-metaint`: audio is taken for a length (`http.c:612`); one that is
  shorter than the block: a read looks for a single length byte, the count
  passes `metaint` (`lost`) and the next index is negative (`http.c:618`);
  `first_meta_size` outlives its session (`http.c:567`).
- A plain HTTP session that fails to connect or is refused leaves its socket
  open (`http.c:229`), as does an update whose file cannot be written
  (`radio_list_update.c:172`). After this, 2. is permanent: every later
  session reads from the socket that was left.
- A Douban list that cannot be loaded leaves the old songs with freed strings,
  freed again at the close (`douban_radio.c:258`). After a song that cannot be
  opened, not the last of its list, the read and the close use the session that
  is null (`douban_radio.c:170`, `174`): an error ("null used"), or, where
  address 4 can be read, the next song is left out too. When a list's last song
  ends just where a block does, the read returns 0 and the radio ends.
- The tick interrupt, the DMA interrupt and `codec_write` take `spi1_lock` where
  they cannot wait (`codec.c:214`, `touch.c:63`, although a note in `ipc.c`
  forbids it in interrupts): the running thread, whichever it is, goes into
  the list, the transfer goes on inside another, and afterwards two threads can
  be on the bus (`shared`). `ValueAgrees` and `NeverAllWait` say how much of the
  lock survives. In the window between the suspension of a thread
  and `rt_schedule` (`ipc.c:370`) its node is linked twice (`SendNowRelinks`).
- A write of several pages erases the first one only (`sst25vfxx.c:205`): the
  others keep the bits that the old and the new value share. A power failure, or
  a transfer of another chip in the middle, leaves the sector being written
  unknown.
- The station list is truncated before the first line of the new one has come
  (`radio_list_update.c:169`); a lost connection, a blank line or a full disk ends it
  as its end does, and is called a success (`radio_list_update.c:184`; `spoiled`).
- A silent server holds the update for ever: its connection has no receive
  time-out (`radio_list_update.c:50`, the `recv` of lines 84 and 178). The view
  says "updating", and every later call shows it again and starts nothing.
- The paint command after an update is lost when the interface's queue is full
  (`radio_list_update.c:244`, `unseen`). If the thread cannot be created its queue
  stays, and every later call shows an update that nobody makes
  (`radio_list_update.c:379`).
- The callback of the calibration is registered before `tid` is set
  (`calibration.c:270`), and a second calibration replaces the session under the
  thread of the first: a touch then follows a wild pointer (`fault`). So does a
  start without memory for the session or for the window
  (`calibration.c:267`, `calibration.c:236`). The width is set later than both: five touches before
  that divide by what the memory held (`calibration.c:231`, `widened`).
- The command that closes the calibration's window is lost when its queue is full
  (`calibration.c:110`): the user has to touch once more, and the range is widened twice
  (`widened`), as it is when a touch comes between the closing and the copy
  (`calibration.c:249`). Near the edge the words wrap.
- Of the y axis step 3 overwrites what step 2 made of the maximum: one lower
  corner is forgotten (`calibration.c:51`, `calibration.c:56`).
- The settings are truncated and written in place, by two callers that may
  overlap (`setup.c:177`); a power failure in between leaves the defaults. A save
  without memory or file leaves the old settings, and a write that fails, when
  the disk is full, leaves the file cut (`setup.c:202`); nobody hears of either
  (`unsaved`).
- The remote control's interrupt captures into the buffer that is being compared
  (`remote.c:274`, `late`); the thread is woken by a count of edges, that of the
  first key's code (`remote.c:407`), so that keys with shorter codes are never
  reported, and that the rest of a burst that is longer is compared as a burst of
  its own: a key is reported for a button whose code only ends like its own.
  `late` covers this as well.
- While learning: `memset` of the size of a pointer (`remote.c:475`) leaves what
  was captured before, the search for the end of a burst reads on into it, and
  may leave the buffer (`remote.c:504`). A code that cannot be written leaves the
  capture off, the mode "study" and the file open, which is therefore empty at
  the next start (`remote.c:557`); a file that cannot be opened
  the mode (`remote.c:468`): no button works until the next start. A burst that
  is captured at the end of learning is not reported; a learned code of the
  single interval 0 matches every burst. A burst that begins before the one being
  learned has ended becomes part of the code, with the gap between them
  (`remote.c:504`): no button sends such a code, but the rest of one may match it. A code as long as the buffer is read
  back wrongly at the start (`remote.c:213`).

## Not modelled

- Buttons (`key.c`): a thread that polls five pins and posts events; it shares no
  state, and its events come at any moment in `PlayerUi`.
- Decoding, tags, views and drawing, display drivers: computation without shared
  state or decisions that a property here could be about.
- SD card and NAND drivers, USB, start-up: vendor code or run once.
- RT-Thread, lwIP, RTGUI, DFS, finsh, Helix, libwma, the JSON parser: vendored.
  The semaphore (`Spi1Lock`) and the allocation of a pool block (`AudioPath`)
  are modelled from the kernel's source; mailboxes, message queues, sockets and
  files are taken for what they promise, with their limits.
- In modelled components: the text of requests and headers, addresses, titles,
  the codec's registers (set and never read back, but for `MS` in `r06`), the data of frames other than
  who sent it, `play_list_set_mode` (never called), and seeking (`http` and
  `douban` sessions ignore it).

The larger part of the repository is of the third and fourth kind: the fonts and
code pages alone (`hz16font.c`, `hz12font.c`, `cc936.c` to `cc950.c`) are tables
of more than 50 000 lines; FreeType, libpng, lwIP, Helix, libwma and the chip
vendor's library make up nearly all of the rest. The modules model the files of the firmware proper in
which threads, interrupts and the network meet; these are small.

## Plan

The order was by what a listener notices: the path of a stream (network buffer,
audio blocks), the player that starts and stops it, the network under it, what
shares its hardware, then what a user does beside listening. Runs are few by
choice: one per component, or per composition, with all of its properties, and
one for each statement of the source that does not hold.

| module | abstract specification | theorems |
|---|---|---|
| `NetBuffer`, `NetBufferStream` | `BoundedFifo` | invariants and refinement |
| `AudioPath` | `BlockOwnership` | invariants, refinement, safety half of `AllocServed` |
| `PlayerUi` | - | invariants; next: a stop that is requested is pending until its notice (the safety half of `StopHappens`) |
| `Ethernet` | - | invariants, safety half of `Transmitted` |
| `HttpSockets`, `RadioListUpdate` | - | invariants; next: the safety half of `ResultSeen` |
| `Shoutcast` | - | invariant, and what a read returns |
| `Douban` | - | invariants |
| `Spi1Lock`, `SpiFlash` | - | invariants, of the lock for the composition too |
| `Calibration` | - | invariants; next: the safety half of `CalibrationEnds` |
| `Remote` | - | action properties; next: the safety half of `StudyProceeds`: the capture is on while a code is awaited |

## How to run it

In this directory, with TLC and tlapm in the path and the community modules in
TLC's library:

    tlc -config audiopath_safety.cfg AudioPath.tla
    tlapm AudioPath_proofs.tla

The module of each run is the one `PROJECT.json` names; `netbuffer_safety` runs
`NetBufferStream` and `remote_safety` runs `MCRemote`. `netbuffer_safety`,
`ethernet_safety`, `radiolist_safety`, `spiflash_safety` and `remote_safety` take
a minute or two, the others seconds. The proofs take a few minutes in all.
