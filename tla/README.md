# System 573 core for MiSTer: TLA+ models, checks and proofs

This directory models the parts of the Konami System 573 FPGA core
(`src/rtl`) in which several machines share state: clock-level state machines
that meet on one edge, the SPI mailbox to the service on the ARM side (the
*HPS*, MiSTer's Main with its MP3 service), two memories behind arbiters, and
files on the SD card; and the tools (`src/tools`, `src/sim`) whose verdicts a
developer of the core acts on. TLC checks each module on a small instance;
TLAPS proves the safety of the core's machines for every size.

    tlc -config MCPcmTransport.cfg PcmTransport.tla     one line per run below
    tlapm PcmTransportProofs.tla

## 1. Inventory

State, operations, interactions, what is hard, and what makes it correct.
Module names are in bold where the component is modelled.

| component (source) | state | operations | talks to | hard part |
|---|---|---|---|---|
| decoded PCM path (`s573_pcm_ring.v`, `s573_mp3_pcm.v`) **PcmTransport** | ring read pointer, beat in hand, elastic buffer pointers | fetch a beat, two pushes, wait for the channel; drain a sample | HPS (pointers), DDR3 port, mixer | pointer laps, rewinds, resets between a poll and its answer |
| HPS mailbox (`s573_hps_ext.v`) **PcmTransport, Mp3Pacing, CtrlEvents** | published pointer, freeze, reset epoch and its echo, word index, snapshots, pending decode events | STATUS, PTRS, CTRL exchanges word by word; event drain; abort; reset | HPS, ring, streamer, credit, the game's frame counters | an exchange is not atomic; nothing orders it against resets; counts wrap |
| streamer and credit (`k573_mp3stream.v`, `s573_mp3_credit.v`) **Mp3Pacing** | address, key schedule, byte counter, credit, baseline | fetch, decode, emit two bytes; accept; accumulate; rebaseline | DIO registers, sample RAM, HPS counts | pause, resume and re-arm at any state; modular counts across song changes |
| digital I/O registers (`k573dio.v`) **Mp3Pacing, DioRam** | window, control bits, scheme, configuration epoch | register writes, reload, notice | game, mailbox | a mirrored change should move the epoch; not each one does |
| digital I/O sample RAM (`k573dio.v`) **DioRam** | two read lines, MP3 line, write FIFO, scheduler | stalled read, posted write, prefetch, MP3 read, drain, fill | game bus, streamer, DDR3 port | a write posted while a stale fill is on its way; FIFO limits |
| DDR3 port (`s573_ddram_arb.v`, read mux in `emu.sv`) **DdrPort** | owner state, outstanding read beats, rest of a write burst, mux owner | grant, command, data, release | PlayStation core, sample RAM, PCM ring, f2sdram | answers carry no tag; fixed priorities |
| onboard flash (`s573_flash.v`, `flash_nor.v`) **Flash** | command machine, cached line, fill, posted program, per-bank erase and its walk | JEDEC command bytes, program, sector and chip erase, stalled read, reset | game bus, SDRAM channels 3 and 4, saver | cache, fill, program and erase of several banks at once |
| flash persistence (`s573_flash_saver.v`, `emu.sv`) **FlashSaver** | block and burst counters, dirty flags, quiet timer, pending requests, load arming | SAVE, ERASE, LOAD, auto-save, mount, download, OSD, reset | SDRAM, SD slot 4, OSD | mounts, downloads, resets and writes in any order |
| ATAPI drive, sector reader (`atapi.v`, `s573_cdimg.v`) **Atapi** | task file, packet and data phases, prefetch and skid, interrupt edge former, sector buffer | commands, packets, data words, resets; sector requests | game PIO and DMA, interrupt controller, Main's SD slot 1 | abandoned requests are not recalled; edge-only interrupts |
| SDRAM channels 3 and 4 (`s573_ch4_arb.v`, write mux in `emu.sv`, controller as in `sim/sdram_dma`) **SdramPorts** | owner, held address, pending slots, the controller's request latches | request, hold, serve, answer; mux by who is busy | saver, flash, download | the address is looked at long after the request; the controller is not reset with its clients |
| disc metadata (`s573_cdtoc.v`) **CdToc** | track count, lead-out, track table, serial divider | mount, divide, a word of Main's metadata | ATAPI drive, Main | two writers of the lead-out, in any order |
| security cartridges (`s573_seccart.v`, `x76f041.v`, `x76f100.v`, `zs01.v`, `ds2401.v`, loader) | bit-serial protocol states, memories | bit-banged protocol | game I/O register | long legal sequences |
| NVRAM and clock (`m48t58.v`, loader, saver, dirty flag in `emu.sv`) **Nvram** | 8 KiB memory, clock registers, word being fetched, dirty flag and its edge | game write, load, upload; read, freeze (not modelled) | game bus, Main's upload and download | one port for three; an upload nothing holds back; a request that is an edge |
| board I/O, decode (`s573_io.v`, `s573_bus.v`, `system573_top.v`) | one control register | decode | everything | - |
| watchdog, ADCs, I2C slave, mixer, descrambler | counters and shift registers | - | game, OSD, DIO | - |
| `emu.sv` top level | resets, mount flags, debug probes | resets, downloads, mounts | all | glue of the above |
| SignalTap reader (`tools/signaltap_573`) **SignalTap** | header, calibration, audit | calibrate, audit, read a cell | Quartus exports | columns left out, fillers, quiet channels |
| GPU replay (`sim/gpu_replay`) **GpuReplay, Tap8** | display list, timed stream, pixel log | walk, build, push; join OUT to PIX | savestate RAM, GPU test bench | loops and terminators; a FIFO nobody looks at; held pixels |
| boot comparison (`tools/check_boot.py`) **BootCheck** | milestones of two runs | parse, gate, compare | simulation traces | retries, repeated visits, lost milestones |
| virtual pad (`tools/mister_press.py`) **MisterPress** | virtual device, keys down | press, hold, release, die | kernel, Main | late enumeration, death in mid-press |
| savestate examiner (`tools/ss_gpu_dma_state.py`) **SaveState** | flags of the DMA controller | decode, rank | savestates of any moment | a list half done |
| descrambler oracle (`sim/spike_b_descramble`) **Spike** | bench, streamer, C reference | run, cut, compare | `k573_mp3stream` | the cut against the byte in flight |
| `psx/` core (submodule, not here), `sys/` framework (vendored), other benches and tools | | | | environment, or read for the claims they make |

What makes each modelled component correct:

- PCM path: a sample is heard at most once, in decode order; the reader never
  takes an old lap for new data; the service never overwrites what is unread;
  after a reset nothing old is heard; what is published is played.
- Streaming: the descrambler's key schedule and the byte count stay with the
  address; the pace never leads what the service consumed; the service mirrors
  what the registers hold, as far as the epoch covers them; a song ends.
- Sample RAM: a hit is never stale; no write is lost, doubled or reordered; a
  stalled read completes.
- SDRAM channels: a burst and an acknowledge are the client's own; what is
  written is what its owner asked for.
- Mailbox events: no frame is lost, doubled or made up.
- NVRAM: images are whole, both ways; a change is on its way to the card.
- Disc metadata: the drive knows the mounted disc and nothing of another.
- Tools: a verdict, an exit code or a recommendation means what it says.
- DDR3 port: every beat and acknowledge reaches the client it is for; no burst
  is broken; nobody starves while the PlayStation core leaves gaps.
- Flash: a read returns what the commands made of the word; "done" means done.
- Persistence: the game boots off the image it was promised; with nothing
  pending the file holds the flash; the auto-save comes, once.
- Drive: the words of a READ come in order, each once; each event interrupts;
  a command completes once and does complete.

## 2. Modules

Variables and actions carry the names of the registers and states they
translate; `PROJECT.json` names the lines. In the modules marked *edge* one
step is one clock edge with everything that happens on it, because their
corner cases are coincidences; in the others one step is what one party does.
Registers nobody reads before they are next written are cleared, which only
merges states.

### SampleFifo, PcmTransport, PcmTransportProofs

`SampleFifo` is the promise: beats are decoded into a queue of samples or in
vain, a suffix of the queue may be discarded, the head is played.
`PcmTransport` is the code: ring reader (`RingFetch`, `RingLatch`, `RingPush0`,
`RingPush1`, `RingWait`), elastic buffer (`Push`, `DrainPop`), DDR3 channel
(`DdrAnswer`, `DdrRelease`), the PTRS exchange word by word (`PtrsCmd`,
`PtrsWord1`, `PtrsWord3`, `PtrsAbort`), the drain bit of CTRL, the core reset
with its epoch, and the HPS service (`HpsDecode`, `HpsCollapse`, `Reinit`,
`Keep`). `ImplementsFifo` is the refinement: the queue is the buffer, the beat
in hand and the unread part of the ring, if the service knows the reset.

The service is outside this repository; it is modelled from how the mailbox is
used. Its song-change flush rewinds its write pointer to one beat past the
reader. The fabric cannot tell a rewound pointer from a lap (it compares for
inequality), so the flush waits until the drain is off, the reader stands still
and its pointer was polled, and publishes before the drain returns. 256 resets
never fit between two polls (the epoch has 8 bits; the guard of `BumpEpoch`).
Left out: the underrun and overflow counters, the held output sample, the
sample-rate accumulator (a drain step is a sample clock), word 2 (in
`Mp3Pacing`).

### Mp3Pacing

The game's registers and their delayed notices, the streamer's states, the
credit, the mailbox's configuration tuple and consumption count, and a service
that consumes its own copy of the window. The tuple has bits 15 to 13 of
`fpga_ctrl` (mailbox word 8, `s573_hps_ext.v:343`, `emu.sv:773`), of which
`k573dio.v:319-330` lets only 14 and 13 move the epoch; `bit15` is the history
of a write that changed bit 15 alone. Assumed: the service polled and
adopted a reset's epoch before the game's first write after it; fewer than
`ConsMod` bytes between two polls; no wrap of the configuration epoch. Two
copies of a register one clock apart are one variable. The descrambler is a
step that takes its time.

### DioRam (edge)

`BACKING_EXTERNAL` of `k573dio`: the serve, push, invalidate, poison, pick and
fill of one edge, with the four-phase channels; DDR3 answers in between.
Left out: the auto-incrementing pointers (a read or write names its word) and
the sticky detector of writes into the ring. `DigitalIoProofs` proves about
this module and `Mp3Pacing`.

### DdrPort (edge)

One step is one edge of `clk_2x`; every second is one of `clk_1x`, where the
mux and the clients move. The clients are their handshakes, edge for edge,
since fairness between them hangs on single edges. The PlayStation core issues
read and write bursts and pauses inside writes; DDR3 keeps order and is busy
and slow at will. A beat is named by its place and value; byte lanes are left
out. A reset is long enough for DDR3 to return what it owes (it lasts from one
SPI command of Main to the next).

### SdramPorts (edge)

`s573_ch4_arb` and the channel 3 write mux of `emu.sv`, over the request latches
of the controller as `src/sim/sdram_dma/build/sdram_sim.sv` has them, between
the saver, the flash and a download as their ports show them. Channels 1 and 2
and refresh are the controller's delay. A burst is its address, a write its
address and data together. Assumed: a transaction is shorter than a reset, than
the fetch of a sector from the card, and than the time between words of a
download (`Quiet`, `Quiet3`); a reset is held that long by Main, by `reset`
itself and by the settling counter of `emu.sv:347`.

### CtrlEvents (edge)

The event half of CMD_573_CTRL: the cumulative counts of the service, their
difference modulo 256, the drain of one event a clock, the clamp with its
flag, the baseline adopted after a reset, and a service that dies. `owed` is
what the game should still see. Assumed, from the contract in
`s573_hps_ext.v:94-123`: a service that starts takes the baselines of word 0
first, and is never 256 events behind.

### Nvram (edge)

`m48t58`'s port with its three users, the loader, the save-back's four states,
the dirty flag and the edge `hps_io` latches. Main moves a word at most every
`WordGap` clocks and is held back by nothing; the game writes at most every
`WriteGap`. `shown` collects what the word at the upload address has been since
the address came to it: an upload may take any of these, and no other. The
clock registers, their freeze and their carry are left out, and with them that
an upload may take seconds of one minute and minutes of the next: the loader
drops those bytes.

### CdToc (edge)

`s573_cdtoc` with the divider bit by bit and Main's words at any point of it.
Main sends all words of a disc before it mounts another. The kind of a track,
kept and staged as its start is, is left out.

### Ports, PortsProofs

Composes DdrPort, SdramPorts, CtrlEvents, Nvram and CdToc. They share no
signal, so a behaviour is one of them at work (`unit`) and the others at rest;
nothing is lost by not interleaving them, and one run asks of all of them.

### Flash, FlashProofs

`s573_flash` on its SDRAM backing with `flash_nor`'s command machine, which
the four banks share. Commands are tokens (the byte with its address). Left
out because they change no state: autoselect reads, toggle bits. Also out:
banks that do not exist, an erase that ends in the middle of an access. The
game polls the array between two programs, as the data sheet asks and
`s573_flash.v:387-389` relies on (`polled`). Command bytes to a busy bank move
the shared machine although `s573_flash.v:273-274` says such writes are
ignored; no property depends on it.

### FlashSaver, FlashSaverProofs

The saver with the part of `emu.sv` that mounts, arms, gates and resets it.
Main is one thread: it does nothing else inside a sector and serves no sector
inside a download (`MainTurn`), so neither does the RESET button of the model
strike there. A file is mounted from the start, auto-save is on.

Downloads come at any time and follow one another, before, during and after a
restore: the mount, and with it the restore, normally comes first
(`emu.sv:1890-1902`). The six sources of `any_game_download` (`emu.sv:354`) are
three kinds of action. `FlashDownload` writes the blank image, resets the saver
and re-arms the restore. `RomDownload` is a BIOS or an EXE: it takes the
channel 3 mux of the SDRAM (`emu.sv:1667`) and resets nothing, so the saver's
request is hidden and its acknowledge masked (`emu.sv:1964`). `CartDownload` is
the NVRAM or a half of the security cartridge: it only starts the hold again.
`wr_owed` is the word of a restore that is with the SDRAM: it may land or not
when its writer lets go (`Landing`), and without it `LO_DRAIN_WAIT` waits for an
acknowledge nobody owes.

History variables record what would excuse a difference: `disturbed` (a reset or
mount hit a transfer), `late` (a word landed under a SAVE), `parted` (erased, or
mounted empty, on purpose); `promised` is the image the game should find.

### Atapi, AtapiProofs (edge)

One step is one clock edge, on which the game may make one access and Main one
step of its own. A word is its sector and place; packets and responses are
what they do to the handshake. A disc is mounted, nIEN is clear. The TOC build
takes one clock, not three. The game gives commands, DEVICE RESET apart, only
when the drive is not working (it polls BSY), and moves words in a data phase
at any pace (`data`), by PIO or DMA alike. Main polls a request, fetches the
sector, opens the transfer, sends the words, closes it; nothing recalls it.
`astray` marks a request raised while Main owed an older one.

### Bench, with SignalTap, GpuReplay, Tap8, BootCheck, MisterPress, SaveState, Spike; BenchProofs

The developer's tools, each with the environment that makes its answer
uncertain: exports with columns left out, RAM images with any display list, a
pixel pipeline that holds pixels and drops transparent ones, boots that retry
under a tap that leaves lines out, a Main that finds the device late, a DMA
controller frozen anywhere, a streamer reloaded anywhere. The tools are
sequential; what is checked is that their conclusion is true of what happened,
which the model knows. They share nothing: `Bench` starts one of them, as
`Ports` does.

- BootCheck: a run is the milestones the CPU fetched and, of each fetch, whether
  the bench's tap wrote a line of it. The tap (`tb_system573.vhd:1196-1222`)
  writes a line for a program counter that is not the one before plus 4, 400000
  of them at most, and a snapshot every 100000 clocks; any other fetch may be
  missing from `pc_trace.log`. The tool parses the lines (`Trace`), the property
  speaks of the lines and of the fetches (`Executed`).
- GpuReplay: every command line of the generator, the `drain N`, `alt`, `panel N`
  and `neigh N` of `clutrace` included. Between two long gaps the GPU may be
  busy all the time; `most` is the most words it may have had to hold. The
  repository does not say how deep the GPU's FIFO is (`gen_stream.py:16` calls it
  small), so the model assumes no depth and loses no word: what is checked is
  how much a stream asks of it.
- MisterPress: a combination is any list of different keys, released in the
  reverse order.

`Lists` has the list comprehension two of them are written with. Formatting,
argument parsing and the decoders that print one probe set are left out.

## 3. Runs

| run | module | question | states, time |
|---|---|---|---|
| `pcm_transport` | PcmTransport | order, laps, resets, refinement, progress of the PCM path | 466 k, 45 s |
| `mp3_pacing` | Mp3Pacing | schedule, bytes, mirror, credit, end of a song | 662 k, 60 s |
| `mp3_credit_burst` | Mp3Pacing | violated: `NoBurst` | |
| `dio_ram` | DioRam | coherence, FIFO count, lost writes, stalled reads | 237 k, 35 s |
| `ports` | Ports | DDR3 port, SDRAM channels, decode events, NVRAM port, disc metadata | 817 k, 2.6 min |
| `flash` | Flash | what a read returns, erases, progress | 406 k, 70 s |
| `flash_saver` | FlashSaver | restore, dirty flags, auto-save, downloads of each kind | 1.13 M, 3.3 min |
| `saver_reset_restore` | FlashSaver | violated: `NeverHalfRestored` | |
| `saver_reset_nets` | FlashSaver | violated: `SafetyNets` | |
| `atapi` | Atapi | order of words, interrupts, completion | 48 k, 60 s |
| `atapi_aborted_sector` | Atapi | violated: `NeverServesAborted` | |
| `bench` | MCBench | what each tool concludes | 1.34 M, 60 s |

### Properties

- PcmTransport: `RingIsSafe` (unread never exceeds the ring, the service's free
  space holds no unread slot, and every register keeps its range),
  `StaleEpochIsSilent`, `PlaysOut` (with the drain left on, everything
  published is played), `ImplementsFifo`.
- Mp3Pacing: `InStep` (key schedule and byte count stay with the address),
  `MirrorInSync` (an adopted epoch stands for the whole tuple but bit 15, and for
  that too unless it was written on its own), `NeverLeads`, `SongEnds` (for a
  baseline adopted at zero, unless the accumulator clamped).
- DioRam: `LinesAreCurrent`, `CountIsOccupancy`, `WritesLand`,
  `StalledReadCompletes`.
- Ports: of DdrPort `RoutedRight`, `BurstsUnbroken`, `WritesLand` and
  `RingServed`, which holds because the mux is free before the sample RAM can
  ask again, although it prefers it; of SdramPorts `EachItsOwn` (bursts,
  writes, acknowledges); of CtrlEvents `EventsConserved`; of Nvram
  `ImagesWhole` and `SaveIsAsked`; of CdToc `DiscIsTheMounted`.
- Flash: `LineIsTrue`, `CompletionIsReal`, `NothingStalls`.
- FlashSaver: `RestoreIsWhole`, `NothingForgotten`, `NeverResaves`,
  `TransfersEnd` (a restore, an erase and an episode of writes come to their end,
  unless the drain is stranded by a BIOS or an EXE).
- Atapi: `ServesInOrder`, `NoLostEdge`, `CompletesOnce`, `ReadsFinish`.
- Bench: `ReadsOwnColumn` (SignalTap); `NeedIsOneNode` (GpuReplay: a stream with
  long gaps asks no more of the FIFO than the 18 words before the first gap and
  one node) and `DrawsTheList`; `CleanIsClean` (Tap8); `ExitCodeIsTrue`
  (BootCheck: what a 0 promises of the traces, and of the boots where the tap
  caught every first fetch); `PressesAsAsked` (MisterPress);
  `RecommendedResumes` (SaveState: the recommended state resumes, and the exit
  code says whether there is one, in both directions); `VerdictIsTrue` (Spike).

The type invariant of a module is a conjunct of one of its properties
(`RingIsSafe`, `CountIsOccupancy`, `RoutedRight`, `EventsConserved`, ...), so a
counter out of its range violates that one.

Each has a mutant in `PROJECT.json`: a plausible bug of the mapped code that
breaks it under the same bounds.

### Bounds, and why they are enough

- `MCPcmTransport`: ring and buffer of 2, 4 beats, 4 epochs. Four beats lap the
  ring twice, so every lap bit flips and returns; two slots make "one slot
  free" and "full" meet the two pushes; four epochs wrap.
- `MCMp3Pacing`: windows of 0 and 2 words, so a song has a first, a last and an
  empty case; no control bit (the start), bit 15 alone, and all three: bit 15
  changes alone and with the others, and a stream is disabled and enabled; the
  count wraps at 3, inside a song; 3 configurations and one reset put an old, a
  current and a next configuration in play.
- `MCDioRam`: 3 beats of one word, 2 of them the game's and one the streamer's
  too (two lines and a prefetch target); a FIFO of 2 is full, empty and wraps.
- `MCPorts`, DDR3: bursts of 1 and 2, 3 beats outstanding: a burst can be
  paused, overlapped, and answered while the next is taken; two places per
  client. SDRAM: two addresses tell a client's own from another's. Events:
  counts modulo 4, up to 3 behind, clamp at 5: every count wraps and the clamp
  is passed. NVRAM: two words, so that an address past the image is 0 again; a
  game that may change both bytes of word 0. `WriteGap` is that of a bus cycle,
  `WordGap` the least for which `ImagesWhole` holds
  (`NvramPaceAssumption`). Disc: sizes of 4 bits,
  sectors of 3, a pregap of 2, up to two tracks, starts below, in and above the
  pregap: each clamp is reached, and the divider is overtaken at every bit.
- `MCFlash`: 2 banks of 2 sectors of one line of two bursts; 2 programs and 2
  erases or resets: an erase of one bank under a program of the other, a fill
  across both.
- `MCFlashSaver`: 2 blocks (first and last differ), 2 files, one with a save
  and one empty, 2 words and 2 user events: every pair of mounts, downloads
  of the three kinds, resets, buttons. The two violation runs need one event each.
- `MCAtapi`: a sector of 5 raw and 3 user words, two LBAs (one in the pregap's
  reach), 0 to 2 sectors, 3 commands or resets: a READ given up, a reset, a
  second READ. The violation run has 4.
- `MCBench`: 5 channels (a stretch shifted, one filled in, and one on each
  side); lists of up to 3 of 4 nodes with every next-pointer; 0, 1 and 4 quads of
  each kind (none, one, the default), with and without time between them; 2
  pixels held up to 2 clocks; traces of 3 fetches of 2 milestones, each logged or
  not, so that a repeated visit, a reordering and a first fetch the tap missed
  all occur; two combos of up to 3 different keys, typable or not (the order of
  release shows with 2 modifiers); 2 files; windows of 1 to 3 words reloaded up
  to byte 4, the reference read in chunks of 1 or 3.

`CHECK_DEADLOCK FALSE` stands only where the bound on user actions stops the
run; the clocked modules without such a bound check deadlock.

### Fairness

Clocks run and memories answer: weak fairness of each machine's step
(`Reader`, `Channel`, `StreamStep`, `Port`, `Fill`, `SaverStep`, the clock edge
with no new request). DDR3 accepts and returns again and again. The service
polls for ever; an exchange may be aborted, but not always (strong fairness of
the words, since an abort withdraws them; the service retries until it gets
through). In `flash_saver` the SDRAM answers a word it was given, Main serves a
request it sees, and a download and the hold after it end; a word whose request
or acknowledge a BIOS or EXE download took is owed nothing, and fairness does not
make it so. In `ports`, `Accepts` and `Returns` say that DDR3 takes a command and
returns a beat again and again, whatever else the edge brings. The game takes
words offered to it in `atapi`; nowhere else is the game assumed to do anything.
`RingServed` assumes in its premise that the PlayStation core is quiet again and
again with the arbiter free and no write waiting; no fairness makes it so.

## 4. Proofs

TLAPS with SMT, Zenon and LS4. Each theorem holds for all constants that meet
the module's named assumptions. Every invariant and every action property of a
passing run has a theorem; the inductive invariants of the core's machines were
given to TLC as invariants of their runs first.

### Remainders

Lemmas on `\div` and `%` (`DivMod`, `ModUnique`, `ModShift`, `Wrap`,
`PlacesApart`, `DivIs`, `BlockOfBlocks`, ...) and on sets of numbers
(`LeastExists`, `LargestExists`), which all the other proofs use.

### PcmTransportProofs

- `TypeCorrect`: `Spec => []TypeOK`. `InductiveInvariant`: `Spec => []IInv`.
- `PointersAreSafe`: `NeverLaps`, `HeldBeatIsCounted`, `FreeSpaceIsSafe` and
  `StaleEpochIsSilent` are invariants.
- `RingStaysSafe` and `StaleStaysSilent`: the properties of the run.
- `PathIsSafe` and `PathImplementsFifo`: the refinement, `Spec =>
  ImplementsFifo`.

The safety invariants are not inductive: that the reader is within a ring of
the *published* pointer says nothing of the pointer the service is about to
publish, nor of a reset it has not heard of. `IInv` adds three facts.
`EpochInv`: as long as a reset is unknown to the service the mailbox is frozen,
the pointers are zero and the reader idle, and an exchange under way either
carries the current epoch or will be recognised as stale. `SpanInv`: with the
epoch known, the service's read copy, the polled pointer, the reader, the
published pointer and the service's write pointer chase each other in this
order within one ring, as distances from the service's copy. `CollapseInv`:
between a rewind and its publication the drain is off and the reader cannot
move, so the published pointer may be ahead of the service's own and no harm is
done. When the service adopts a polled pointer all the distances change origin;
`RebaseChain` proves that the order survives it. Each action has its own step.

The refinement needs `PathInv` besides: the buffer holds no more than its
depth, and the beat the channel acknowledged is the one at the reader. The
queue is a sequence built of two arrays, so `QueueShape` first says what its
length is and which sample stands at each place; every action is then shown to
append, to drop a suffix, to take the head, or to leave length and places as
they are (a beat read from the ring moves from one array to the other).

### DigitalIoProofs

Of Mp3Pacing:

- `Inductive`: `Mp3Spec => []Mp3Inv`.
- `StreamStaysInStep`, `ServiceMirrorsRegisters`, `CreditNeverLeads`: `InStep`,
  `MirrorInSync` and `NeverLeads` are invariants, for all windows, count
  widths, clamps and bounds.

`InStep` needs `PlaceInv`: a word in flight lies inside the window, and a re-arm
that has reached the streamer has put it at the start. Without it a word could
retire twice at the window's end. `MirrorInSync` needs `PollInv`: an exchange
carries an epoch that is not ahead of the registers', and behind it only if the
service is no further than that; so a change always lands beyond the epoch the
service holds or is about to adopt. The tuple without bit 15 (`Covered`) is followed
through that argument; the whole tuple is as long as `bit15` is false, which is
the exception the property names. `NeverLeads` needs `CreditInv`: a baseline
adopted under the current configuration ties the credit unit's last count to
the last report, and what was taken and what is left to what was reported; and
`CountInv`: the count is less than one turn ahead of the reports, from which
`DeltaIsExact` shows the modular difference to be the true one. The step that
could break it is the service's adoption of a new configuration, which restarts
its count; `PollInv` shows that it never does so under the epoch it holds.

Of DioRam:

- `RamInvariant`; `CountAlwaysOccupancy`, `LinesAlwaysCurrent` and
  `WritesAlwaysLand`: the three invariants of the run.

`ChannelInv` says which handshake each state of the scheduler has open;
`FillInv`, that a fill no write has poisoned was begun with nothing in the FIFO
and brings what the game wrote; `LandedInv`, that an acknowledged write is in
DDR3. `WritesLand` names the newest pending write by a `CHOOSE`;
`LandsIsSettled` restates it without one, word by word, and the proof that an
edge preserves it goes through the FIFO's places: a push leaves all but one, a
pop moves the origin.

### PortsProofs

- `BurstsStayWhole`: no beat of the board is taken inside a write burst of the
  PlayStation core, for all burst lengths. `BurstInv`: the arbiter's count of
  the burst is DDR3's own, and zero while the board has the port.
- `PortInvariant`, `BeatsAreRouted`, `WordsLand`: no beat or acknowledge goes to
  another client of DDR3, and what is acknowledged is in memory. `QueueInv` ties
  the beats DDR3 owes to what the arbiter counts: the core's ahead of the
  board's one, and none of the core's when the board's command goes out.
  `ReadsInv` and `WritesInv` say that a grant and an acknowledge are of a
  request that still stands. They need the beats of the two clients to be
  distinct (`BeatsAssumption`: the sample RAM and the ring are different regions
  of DDR3).
- `SdramInvariant`, `EachGetsItsOwn`: no client of channels 3 and 4 gets
  another's word or acknowledge. `Slot4`, `SaverReads` and `FlashReads`: one
  transaction on channel 4, of the address its owner still shows, or orphaned
  by a reset that has not ended; `Slot3`, `Pulses` and `Asked3` the same of the
  write requests, from the latch to the acknowledge (`Carried`).
- `EventsAreConserved`: what the game is owed is what is pending and what the
  counts are ahead by, for all widths of the counts and every clamp, until the
  clamp is passed. `EventsInv` adds that only a service that has taken the
  baselines sends counts. `DeltaRange` and `DrainRange` bound the two parts;
  `DrainConserves` is the clock on which the exchange moves no count.
- `NvramInvariant`, `ImagesStayWhole`, `SavesAreAsked`: uploads, downloads and
  the request for a save, for every size of the image. Nothing holds Main back,
  so the argument is one of time: `ClocksLeft` bounds the clocks until the word
  at the address has been fetched (a fetch of another word ends, one write of
  the game spoils a fetch, the next write comes too late to spoil another), and
  `WordInv` that this and the clocks since Main's last word make at most 11.
  `FetchClock` is one clock of it. `NvramPaceAssumption` is the hypothesis:
  six clocks between bus writes, twelve between words; with 10 instead of 11
  TLC finds a torn upload. `LoaderInv` follows the two bytes of a downloaded
  word into the memory. `RequestInv`: a raised dirty flag stands for a request
  or for an upload that has yet to clear it, and while there is none an upload
  finds the memory as it was when the flag fell.
- `TocInvariant`, `DiscIsKnown`: what the drive knows of the disc. `DivInv` says
  that the bits of the size taken so far (`high`) are the quotient times the
  sector length plus the remainder, and the dividend is what is left of it
  (`low`), shifted up; `BitOf` and `QuotientOf` are the arithmetic of one bit,
  `DivisionIs` what it comes to. `SendInv` names the words Main has yet to send,
  by their number, and `KnownInv` what the words before left. The provers know
  nothing of `^`, so the model's powers of two are a recursive function,
  `Pow2`; `DoublesDefine` proves that the recursion has a solution, which the
  other facts about it (`PowSteps`, `PowNat`, `PowSum`) follow from.

### FlashProofs

- `FlashInvariant`; `LinesStayTrue` and `CompletionStaysReal`.

`LineIsTrue` alone is broken by a fill under way and `CompletionIsReal` by the
walker's place. `FlashInv` adds: a read waits only for a bank that is not busy
(`ReadInv`); a fill has no program pending and its first half is true
(`FillInv`); a posted program is what the commands made of the word unless an
erase came behind it (`PostInv`); the port carries the program or the walker's
word (`WriteInv`); the walker is inside the region of a busy bank, erased as
far as it has come, and no program is pending for that bank (`WalkInv`); what is
being erased is erased in the image (`ErasedInv`).

### FlashSaverProofs

- `SaverInvariant`; `RestoresAreWhole`, `NothingIsForgotten` and
  `AutoSaveNeverLoops` (an action property).

Two images are compared block by block while one is copied onto the other, so
the invariant says of each half-done transfer which part already agrees:
`LoadInv` and `WholeInv` of a restore, `SaveInv` of a save, `EraseInv` of an
erase, `KeptInv` of the time between. `FreshInv` is what `NeverResaves` needs:
an episode that no save answers has a word in it that no save has seen.

### AtapiProofs

- `AtapiInvariant`; `ServesItsWords`, `ReadsCompleteOnce` (an action property)
  and `NoEdgeIsLost`.

`ReadInv` places a READ: whole sectors before this one and the words taken of
it. `SectorInv` says that, not astray, the reader and Main are at the sector the
drive waits for and the buffer is true as far as it is filled; `PrimeInv` what
the two words of prefetch hold while they come in, `DataInv` that in the data
phase the word offered is the one due and the next is in the skid register or
about to leave the buffer. The attempt showed the type invariant of the module
to be too narrow: with lengths other than those of the run a READ passes
addresses that were not in `DiscWords`. It now names every address a READ can
reach (`ReadLbas`).

### BenchProofs

One inductive invariant for each tool. The tools are sequential, so what is hard
is not interleaving but the loops: each goes over a sequence of any length, and
induction over data is not to be had. The recursive functions and folds of the
models are therefore taken apart first: `StepByStep` proves, by the least number
of steps at which it would fail, that a function computed step by step exists;
`FlattenIs`, `KeptIs` and `TraceIs` give `FlattenSeq`, `Kept` and `walk_ot` their
steps; `FlattenLayout`, `KeptFacts`, `KeptFirst` and `WalkIsList` say what these come
to.

- `StateResumes` (`StateInv`): the savestate examiner. A slot may be
  taken at any step of the controller, and its flags agree at each (`Consistent`);
  a file that is sane and has no blocker then has no list under way, and the
  stable sort puts such a file first (`RankIs`, `BestIs`). The exit code is true
  in both directions, but a file of another layout alone also gives a 0.
- `Tap8Clean` (`Tap8Inv`): the judge of the render tap. `Witnessed`: a pixel that
  is looked up in the wrong row has its PIX line with that row in the log before
  it can leave. The pairing of OUT with PIX lines plays no part in it, so neither
  does the theorem say that the pairing is right.
- `SpikeVerdict` (`SpikeInv`): the descrambler oracle. `Streams` says how many
  words and bytes the streamer has finished since the output was cut, and that
  each byte sent is the one the keys give; `Filed`, that a file is the whole
  output of its case.
- `ExitCodesAreTrue` (`BootInv`): the boot comparison. `Parsed` says which
  milestones a prefix of a trace has given and in which order; `SameParse`, that
  there is one such order; `OrderPreserved`, that equal filtered lists are order
  preserved. That is a theorem about traces. `BootTraceIs` says what a trace is of
  an execution whatever the tap leaves out: it has no line of what was not
  executed, and a logged fetch stands after lines of earlier fetches only. From
  this `FirstsSeen` shows that the order of the traces is the order of the boots
  when every first fetch was logged; otherwise nothing is claimed of the boots.
- `AsAsked` (`PressInv`): the virtual pad. `Listening`: Main is at most one event
  behind the tool (`Heard`), so it sees each key with the modifiers that are down
  and no others. What is down is the beginning of the combination (`Down`), which
  is what the release in reverse order keeps. For combinations of any number of
  different keys.
- `OneNodeAtATime` and `TheListIsDrawn` (`ReplayInv`): the GPU replay. A stream
  `Leads` from one mark, a bound on the words queued and the nodes drawn, to
  another; the relation composes along concatenation (`LeadsOn`, `LeadsAlong`),
  so every build is proved from its parts, and `Push` takes the first packet off
  (`LeadsFirst`). `Room` is 18 words, what `build_wrongclut` has queued before its
  node, and the longest node. A `clutrace` with a tight `drain N` leads nowhere of
  the kind; of it `ClutraceIsQuiet` says that it draws no node, which is all
  `TheListIsDrawn` needs. `NodeAssumption` and `BandAssumption` say that no node
  lies at address 0 and that the rows of the band are different addresses.
- `ColumnsAreOwn` (`TapInv`): the SignalTap reader. `Calibrated` is about files
  without an anomaly: the true shift alone has the best score, or the tool calls
  it ambiguous. `Fits` follows the fit vote by vote through the three zones a file
  with a column left out can have, `Reported` the report part by part: the map is
  right where it speaks (`Faithful`) and speaks of every channel so far
  (`Covers`). The property's own premise stays: no vote is mistaken and every
  zone has one (`Legible`). The proof found a clash in the model: the mark for
  "no column", 99, is a column when there are 100 channels; it is a negative
  number now, outside every shift and column.

### Model-checked only

- Liveness, which is out of the prover's reach here: `PlaysOut`, `SongEnds`,
  `StalledReadCompletes`, `RingServed`, `NothingStalls`, `TransfersEnd`,
  `ReadsFinish`.
- The inductive invariants of BenchProofs are proved, and only proved: several
  quantify over all streams or all paths through one, which TLC cannot.

No module declares a recursive operator.

## 5. Findings

1. `mp3_credit_burst`: an old song's report in the exchange that announces the
   new epoch is adopted as the new baseline (`s573_mp3_credit.v:104`); the
   restarted count then releases nearly the whole counter as credit, which
   lines 35-37 say cannot happen.
2. `saver_reset_restore`: an OSD reset during the restore aborts it for good
   and the game boots off half an image (`emu.sv:1929`, against `:362-365`).
3. `saver_reset_nets`: opening the OSD clears `flash_dirty`, its Reset aborts
   the save and clears `auto_dirty`: the install is in neither net
   (`s573_flash_saver.v:255`, against `emu.sv:1845-1847`).
4. `atapi_aborted_sector`: Main's answer to an abandoned request is taken for
   the new one (`s573_cdimg.v:115`, against `:101-103`).

Met on the way, and left outside the models or excused in a property; no run
claims them:

- Two parts of the mirrored tuple move no epoch, though `k573dio.v:304` asks that
  of everything mirrored: bit 15 of `fpga_ctrl` (`s573_hps_ext.v:343`,
  `emu.sv:773`, against the comparison of bits 14:13 at `k573dio.v:319-330`),
  which `MirrorInSync` names as its exception, and the decoder's gain
  (`s573_hps_ext.v:344`), which is not modelled.
- A BIOS or EXE download that starts while the restore writes takes channel 3
  (`emu.sv:1667`) and with it the request or the acknowledge of the word; unlike a
  flash download it does not reset the saver (`emu.sv:1929`). `LO_DRAIN_WAIT` then
  waits for ever and `flash_loading` holds the game in reset. No order of Main's
  excludes it: `emu.sv:1890-1902` says the restore normally comes before the
  downloads. `TransfersEnd` has this state (`Stranded`) as its one exception and
  shows that there is no other.
- A mount during a restore is swallowed by the one-shot of the restore under way,
  a word that lands under a running save is cleared from the dirty flags with it,
  and a request raised under an open transfer is never seen by Main: the history
  variables `disturbed`, `late` and `astray` excuse exactly these.
- A game write on the very clock an NVRAM upload starts keeps the dirty flag
  set, as `emu.sv:1723-1724` means it to be, but `hps_io` takes the rising edge
  (`sys/hps_io.sv:290`): the request for the next save needs the flag to fall
  first. `SaveIsAsked` excuses this one clock.
- `ImagesWhole` needs 11 clocks between two words of an upload, where
  `docs/audits/2026-06-11-nvram-saveback-gate0.md:33` counts on ten to twenty
  or more.
- Command bytes written to a busy bank move the command machine the banks
  share (`s573_flash.v:273-274` says they are ignored).
- `attribute_tap8.py:6` and `:48` speak of the most recent earlier PIX; the join
  takes the oldest one left. A pixel held logs its PIX line more than once and a
  transparent one never its OUT line, so either join may fall out of step.
  `CleanIsClean` does not decide between them: a wrong lookup is counted at its
  PIX line, before any join.
- The tap of the system bench leaves out what is entered by falling through and
  stops at 400000 lines (`tb_system573.vhd:1200`), so `check_boot.py` may miss a
  milestone that was executed, or a reordering of two, while its lines 14-17
  promise that order is checked.
- `gen_stream.py clutrace drain N` with a small N fills the GPU's FIFO on purpose
  (`:564`), while the bench ignores whether it is full.
- `ss_gpu_dma_state.py` computes `clean` without `sane`: a savestate whose
  offsets are suspect can be called clean, with a mark beside it.
- `check_boot.py --compare` with a baseline that reached nothing passes.

## 6. Plan

Written so far, most important first: the PCM path, its abstract queue and
proofs; the streaming position and its proofs; the sample RAM; flash
persistence; the onboard flash; the drive and its sector reader; the shared
memory ports with the decode events, the NVRAM and the disc metadata; the
tools. What is left:

- the security cartridges' protocol machines, each against a description of
  its command set;
- the clock of the NVRAM, with the freeze, against an upload and a load;
- what is missing of the digital I/O board: key latches, the counters the game
  polls, the FPGA load handshake.

## 7. Not modelled, and why

- Security cartridges, clock registers, the rest of the digital I/O
  registers: in the plan. One master drives each bit by bit or register by
  register; nothing interleaves with it but a reset.
- Analogue inputs and the decoder's I2C: serial front ends of one master. The
  gain they set is the first observation of section 5.
- Board I/O, decode, watchdog (its output drives nothing), descrambler and
  mixer: combinational, or functions of one clock.
- Video, OSD strings, debug probes: no property depends on them.
- The PlayStation core (not in this repository, patches aside) and the vendored
  framework: environment steps of the modules that meet them.
- Picture converters, install scripts, test benches: they run from top to
  bottom once.
