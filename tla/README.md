# A TLA+ verification of cdvdman (ps2-rw-speed)

The repository builds a PlayStation 2 read-speed test around a replacement for
the console's disc drivers: `cdvdman` emulates the CD/DVD drive on top of a
block device, `cdvdfsv` serves it to the main processor (EE) over RPC, and two
small programs time the reads. This directory models the parts whose
correctness depends on interleavings (threads of different priority, alarms,
callbacks in interrupt context) or on what devices, disks and servers may do, and
checks them with TLC and TLAPS.

`PROJECT.json` lists the components, the runs, the source lines behind every
definition (`map`), the hazards and the theorems.

## 1. Inventory

| component | state | operations | hard behaviour | what makes it correct |
|---|---|---|---|---|
| read path (`cdvdman.c` 319-602, 732-773, 1673-1720) | `sync_flag`, `cdvdman_stat` (err, status, cdread_*, ReadPos, intr_ef), `cdrom_rthread_sema`, `cdvdman_searchfilesema`, `cdvdman_buf`, callbacks | sceCdRead, sceCdSync, sceCdDiskReady, sceCdBreak/Pause/Stop/GetToc, sceCdCallback, the read thread, alarms | several threads and an interrupt-level callback start reads; the end of a read is three separate steps | one owner of the drive, the request survives until read, no lost wake-up, data arrives, errors are seen |
| streaming (`streaming.c`) | `cdvdman_stat.StreamingData`: ring pointers, `StStreamed`, `StIsReading`, `Stlsn`, `StStat` | sceCdStInit/Start/Stop/Pause/Resume/Seek/Stat/Read, StmCallback, the retry alarm | filled from a callback while a client empties it; refused fills are retried by an alarm | the ring holds the stream in order; only own reads count; data keeps coming |
| file search (`cdvdman.c` 1422-1591) | `cdvdman_filepath`, `cdvdman_buf`, layer information | cdvdman_findfile, cdvdman_locatefile | shares its buffer and its semaphore with misaligned reads | buffer is exclusive, semaphore always returned |
| cdrom driver and initialisation (`cdvdman.c` 225-305, 981-1399) | `cdvdman_cdinited`, `fs_inited`, `cdvdman_fdhandles`, `cdrom_io_sema`, `cdvdman_fs_buf` | open, close, read, lseek, dopen, dread, getstat, ioctl, devctl | test-then-set initialisation, three-phase reads through a shared buffer, nested waits | reads return the file, handles are kept, semaphores are returned |
| module-load hooks (`ioplib_util.c`) | `fakemod_flag` | hooks on LoadStartModule, LoadModuleBuffer, StartModule, StopModule, UnloadModule | a verdict travels from call to call, and from thread to thread, in a global | listed modules do not run and look started, others are not faked |
| S-commands, BCD conversion (`cdvdman.c` 605-728, 832-893, 1594-1664) | the mechacon's registers, `cdvdman_scmdsema`, `cdvdman_media_changed` | sceCdRI, ReadClock, RC, RM, PowerOff, ApplySCmd over cdvdman_sendSCmd; sceCdTrayReq; PosToInt, IntToPos | several threads, one set of registers read and written byte by byte, a busy mechacon | everyone gets the answer to his own command, calls return |
| `cdvdfsv.c` | RPC buffers, `cdvdfsv_buf` (which is `cdvdman_fs_buf`, under `cdrom_io_sema`) | N- and S-commands, readee, readchain, readiopm, streaming and search RPC | chunked reads into EE memory with misaligned head and tail | exactly the requested range is written |
| block device glue (`device-bdm.c`) | `g_bd`, `g_bd_sectors_per_sector` | connect, disconnect, DeviceFSInit, DeviceReadSectors | devices come and go, in two stores, during a read | a read takes its sectors from one device |
| USB mass storage (`mass_driver.c`) | `g_mass_device`, `ucmd`, `ra_*`, `last_*`, `ra_buffer`, `gSectorBuffer`, `io_sem` | connect, configure, warm up, mass_stor_ReadCD, SCSI commands, USB callbacks | a read-ahead goes on after its call has returned and shares the one command block | the read-ahead agrees with what is asked for, callbacks count for their own command, reads return |
| device mappings (`device-usb.c`, `device-smb.c`, `device-hdd.c`) | parts of 0x80000 sectors; `cdvdman_partspecs`, `CurrentPart` | DeviceInit, DeviceFSInit, DeviceReadSectors | reads that meet a border, partitions remembered from the last read | disc sector to file or disk sector |
| ATA drivers (`atad.c`, `hdpro_atad.c`) | registers, FIFO, `ata_evflg`, the timeout alarm, retries; the HD Pro's port and `hdpro_io_active` | ata_device_sector_io: select, issue, transfer, finish | interrupt, alarm and FIFO race; late answers of a command that was given up; endless retries | data or an error that has a cause; the wait always ends |
| DEV9 driver (`dev9.c`) | interrupt mask, DMA, card state | dispatch, enable, DMA, power, EEPROM | the handler masks what the thread waits for | no interrupt is lost |
| SMB client (`smb.c`) | `SMB_buf`, `UID`, `TID`, file ids, the socket | log in, open, smb_ReadFile, GetSMBServerReply | replies in pieces, keep-alives between them, no timeout | pieces go to their place, requests and replies stay in step |
| speed tests (`iop/main.c`, `ee/main.c`), `smsutils.s` | none | timing loops, memcpy | sequential | - |

How they interact: every user of the disc (cdrom driver, search, streaming,
cdvdfsv) calls sceCdRead or cdvdman_AsyncRead, which take `sync_flag`, write
the request block and signal the read thread. The read thread transfers
sectors with DeviceReadSectors, clears `sync_flag`, sets bits 1 and 8 of
`intr_ef` and runs the streaming callback, or arms the alarm that will run
the user's. Waiters sleep on bit 1 or bit 8. DeviceReadSectors is one of four,
each with the driver below it; a build links one, and the Makefile of this commit
`device-bdm.o`.

## 2. Modules

| module | models |
|---|---|
| `ReadSlot` | abstract: a read service with one slot: accept, refuse, write sectors of the destination, finish complete or short |
| `CdvdRead` | the read path, step by step |
| `CdvdReadImpl` | the refinement mapping from `CdvdRead` to `ReadSlot` |
| `Streaming` | `EXTENDS CdvdRead`: streaming composed with the read path |
| `Drive` | the read service as its callers see it: accepted, refused, idle, finished |
| `CdromFs` | initialisation, search and file driver over `Drive` |
| `Cdvdfsv` | the RPC thread that reads for the EE, over `Drive` |
| `ModLoad` | the module-load hooks |
| `FsvStream` | `EXTENDS Streaming`: the RPC thread that streams for the EE |
| `SCmd` | S-commands: several threads, one mechacon |
| `Parts` | the mapping of disc sectors to the parts of an image |
| `MassStor` | the USB mass storage driver below `device-usb.c`: connection, SCSI commands, read-ahead |
| `AtaDrive` | the hard disk, the registers of a command, the locals both ATA drivers share |
| `Atad`, `Hdpro` | `atad.c` on `dev9.c`; `hdpro_atad.c` |
| `Hdd` | `device-hdd.c` over either of them |
| `Smb` | `smb.c` and `device-smb.c` against a file server |
| `Bdm` | `device-bdm.c` |
| `Devices` | the four builds: `device` says which of `MassStor`, `Hdd`, `Smb` and `Bdm` is linked; and `SCmd` beside them |
| `MCCdvdRead`, `MCStreaming`, `MCCdromFs`, `MCCdvdfsv`, `MCFsvStream`, `MCDevices` | requests, priorities, discs and devices for TLC |
| `CdvdReadProofs` | theorems about `CdvdRead`: types, lock, wake-up, status, bounce buffer |
| `CdvdReadImplProofs` | `CdvdRead` implements `ReadSlot`; complete reads deliver, short ones leave an error |
| `StreamingProofs` | theorems about `Streaming` and `FsvStream` |
| `ModLoadProofs`, `CdromFsProofs`, `CdvdfsvProofs` | theorems about `ModLoad`, `CdromFs`, `Cdvdfsv` |
| `DevicesProofs` | theorems about the parts of `Devices`: `SCmd`, `Bdm`, `Smb`, `MassStor` |
| `HddProofs` | theorems about its hard disk: `Hdd` over `Atad` or `Hdpro` |

**CdvdRead.** Variables carry the names of the C globals. `pc` says where each
actor is; actors are the client threads, the read thread `RThread` and `Intr`,
the interrupt context in which the user callback runs. A step is what runs
between two points at which another actor can get in: a critical section
(CpuSuspendIntr .. CpuResumeIntr), a kernel call, or an access to a shared
variable. So `AsyncReadLock` (lock and request block) and `AsyncReadSignal`
(SignalSema) are two actions; `ReleaseDrive` (`sync_flag = 0`), `SetDoneEvent`
and `cdread_Notify` are three. `alt_read` is the game's ALT_READ setting,
which never changes and makes sceCdRead use cdvdman_SyncRead; the constant
`AltReads` holds the settings to consider. With `AccuReads` the pacing alarm limits each transfer to
`AccuMax` sectors (8 in the code), and `DeviceFails` lets DeviceReadSectors
fail after any part of a transfer. Memory is abstracted to "which sector is in
which slot of which buffer".

*Scheduling.* The IOP kernel runs the highest-priority thread that is ready.
`MayRun` says exactly that for the priorities in the constant `Prio` (lower
number, higher priority). `EqualPrio` makes all threads equal, hence freely
interleaved: it is the weakest assumption, used wherever the property holds
under it. `DefaultPrio` has the read thread at 0x0f and clients at 0x51 as in
`_start` and `cdvdfsv.c`.

**Streaming.** One client thread `StThread` makes the sceCdSt* calls; other
threads may read. Fill requests come from the client, from StmCallback (in the
read thread) and from the alarm StmScheduleCb. The test of `StIsReading` in
StmCallback and the update are separate actions, as are the DMA to the EE and
the pointer update that follows it (`StReadDma`, a second critical section).

**CdromFs.** `at[t]` is the place of each thread in its call, `my[t]` holds the
call's locals. A sector holds `SectorSize` units and unit contents are numbered
by disc position, so "the buffer holds the file" is an equation on sequences.
File positions are unsigned modulo `WordMod`. The drive is `Drive`, which is
`ReadSlot` reduced to accepted, refused and finished: what `CdvdRead` is shown
to provide. The history variable `rushed` marks behaviours in which two first
calls overlapped in fs_init or fs_init found the drive busy (see section 6).
`Calls` and `Paths` say what each thread calls; `OtherFile` stands for a thread
outside the model that opens or closes a file.

**Cdvdfsv.** `at` and `my` are the place and the locals of the one thread that
serves N-commands (`cdvdfsv_rpc2_th`). EE memory, `cdvdman_fs_buf` and the head
and tail messages `readee.buf1`, `readee.buf2` hold units numbered by disc
position, `Junk` is memory the call has not written and `Garbage` uninitialised
stack. The histories are `lost`, the units of the disc that a read of the call
was cut short before, and `broken`, a sceCdBreak since the call's sceCdDiskReady;
properties of data hold for every unit outside `lost`. The EE library's part, copying the two messages when the call returns,
is in `ReadeeEnd`. The test of the error and its setting after a refused read
are one step; no property depends on what comes between them.

**FsvStream.** `st_read` holds the arguments and locals of cdvdSt_read, `st_ee`
what the DMA has written of the EE's buffer. The actions of `Streaming` are used
as they are; the loop around sceCdStRead and the data are added. The DMA is taken
to read the ring when it ends, which is when an overwritten bank would be seen.

**SCmd.** `queue` is `cdvdman_scmdsema`, which serves its waiters in order: its
first thread holds it. `mechacon` are the registers: a busy flag, the command and
its parameters as far as they have been written, the bytes of the answer not yet
read. Each register access is a step. `boot` says how the console's boot loader
left the mechacon: free, busy, or hung in a command that never ends.

**MassStor.** One thread connects, configures and warms up the device and then
serves mass_stor_ReadCD. Data is counted in units of 512 bytes and unit `u` of
the device has content `u`. `flight` holds the transfers the USB stack has not
finished, in order; each ends in a step of its own, which counts `ucmd` down
and, at zero, signals the command's semaphore or runs the read-ahead's
callback. The transfers of one command are queued in one step: the code raises
`cmd_count` transfer by transfer without a lock, which is sound only if the USB
stack's callback thread does not preempt the reader. The history variable
`hurt` marks behaviours in which the USB stack failed or one of the limits of
section 6 was met.

**AtaDrive, Atad, Hdpro, Hdd.** Block `b` of the disk has content `b`. `drive` is
the disk: its status, the rest of its command, whether it hangs. In `Atad` it
fills `fifo` block by block as long as there is room and `dma` is on; the thread
empties it and waits for `ata_evflg`, which the interrupt handler sets after
masking the interrupt (`dev9_intr_dispatch`) and the alarm sets when the disk was
slow. `Hdpro` has the port and no interrupts. The thread's place is `hat`, the
locals of ata_device_sector_io are `job`. A command's address and count go
through registers of `Byte` values each, twice for 48-bit commands, and the disk
reads them back (`CommandLba`), so the split is checked on a small disk. Faults
(`hfaults` counts them): a damaged block, an error, a disk that hangs for longer
than the timeout and may answer later, a port that does not open or close. The
history variable `cause` says that something has happened that may make the
current call fail.

**Smb.** The stream is counted in cells: a message's header is one and
is assumed to arrive whole, a sector of data is one. plwip_recvfrom takes
any number of the cells that have arrived of one segment; a keep-alive is
a segment of its own.  `srv` is the request the server has not answered,
`SMB_buf` what the buffer holds, which matters because the code checks it
without looking at whether a reply came. `spoilt` marks calls an error of the
server or a loss has spoilt. A fault while logging in, or a connection that
is lost, spoils every later read; one during a read spoils that read. `Parts`
gives the reads of a call in closed form (`PartReads`); that this is what
the loop over the parts does (`LoopReads`) TLC evaluates for every read of
a small disc (`PartReadsIsTheLoop` in `MCDevices`).

**Bdm.** Unit `u` (512 bytes) of device `d` has content `<<d, u>>`. Another
thread connects and disconnects devices between any two of the reader's steps;
the device and its sector size are two stores. `wrong` marks reads that meet one
of the limits of section 6.

**Devices.** One variable, `device`, chosen initially; the other builds' variables
never move. The mechacon is in every build and shares no state with the block
device, so it is explored by itself too (`device = "mechacon"`). One run checks
them all.

**ModLoad.** Any thread loads by name or by buffer, starts, stops and unloads
modules, in any order and with any id the hooks have handed out (`held`); MODLOAD does
as asked or fails. `FakeList` are the listed ones. Lookup, test and clear of the flag are
steps of their own in each call. Histories: `owed` are listed modules said to be loaded
and not started since, `robbed` those of them whose flag another start has taken,
`outrun` calls that lost it between their lookup and their test.

## 3. Runs

| run | shows | states |
|---|---|---|
| `CdvdRead_async` | two clients of equal priority, a misaligned three-sector read (two bounce-buffer chunks), device errors, Break, Stop, DiskReady, GetToc at any time, with and without ALT_READ: types, one owner, refinement of `ReadSlot` | 420 k |
| `CdvdRead_callback` | the user callback itself starts reads, with and without ALT_READ (with it, callers read for themselves and the callback still uses the read thread): request block kept, no lost wake-up, short reads leave an error, sceCdSync does not return early, refinement of `ReadSlot` | 420 k |
| `CdvdRead_live` | default priorities, searches, pacing, errors: every read ends, every waiter returns, data and bounce buffer intact | 230 k |
| `CdvdRead_searchdeadlock` | violation, section 6 | |
| `Streaming_solo` | start, seek, pause, resume, stop and reads, against callback, alarm and pacing: ring counters agree and the ring holds the stream; reads of the EE from one sector to more than the ring holds (`FsvStream`): the EE gets as many sectors of the stream as the result says, fewer than asked for only from an empty ring | 240 k |
| `Streaming_live` | blocking and non-blocking reads of whole banks, pacing: calls return, data keeps coming | 50 k |
| `Streaming_game` | a game thread reads in between, fills are refused and retried: every stream call: the drive has one owner | 226 k |
| `Streaming_gameread` | violation, section 6 | |
| `ModLoad` | two threads, two listed modules and one other, all orders of the hooks: when a listed module runs, when it does not look started, and when another one is faked | 1.8 M |
| `CdromFs` | two threads with files of their own, a third that takes handles, and a direct reader: reads return the file, handles are kept, all exits (EMFILE, ENOENT, busy drive) return the semaphores, calls return | 260 k |
| `Cdvdfsv` | cdvd_readee at three alignments with one, two and three passes, a chain and an IOP read, against Break, a short read, a game's read and the cdrom driver: the EE gets its sectors and nothing else is written, no overrun, what is sent arrives on every exit, calls return | 420 k |
| `Devices` | USB: device sectors smaller than, equal to and twice a CD sector, a read-ahead that is used, partly used or thrown away, two parts, a failure at any transfer. Hard disk, both drivers, 28- and 48-bit: two partitions, several commands a call, up to two faults anywhere. SMB: three kinds of server, reads within a part, across a border and beyond the image, pieces, keep-alives, an error or a loss anywhere. BDM: three devices that come and go. Mechacon: two threads, calls of one and of three S-commands, free, busy or hung at first with an old answer left. Reads deliver their sectors or an error that has a cause, nothing is left in flight for the next command, S-commands get their own answers, calls return | 250 k |

Bounds and why they suffice:

- two client threads, one callback read: every conflict in the code is between
  two parties (a holder and a requester of `sync_flag`, a semaphore or a
  buffer); the theorems of section 5 lift the main ones to any number;
- three sectors with transfers of two and a bounce buffer of two: a full and a
  partial transfer and a full and a partial chunk;
- a ring of two banks of two sectors, sector numbers modulo 8, reads of 1 and 3
  sectors: reads that end inside a bank, at its end and past the wrap;
- in `Streaming_game`, one bank of one sector, the least in which a fill is refused
  and tried again; a resume only while the count fits the ring (`ResumeMax`), as
  each one beside a game read may count one bank more (the race of OnlyOwnReadsCount).
  States are told apart without the memory and the histories (`WithoutData`),
  which no guard and no property of that run reads;
- a file of five units in sectors of two, reads of four units: every
  combination of the three phases of cdrom_read and both ends of the clamp;
- in `Cdvdfsv`, sectors of two DMA lines of four units and a buffer of three
  sectors: heads and tails of different lengths, passes that are first, last,
  both and neither; one interference and one short read per behaviour, each at
  any point of any call;
- reads of the EE of one, three and five sectors: within a bank, across one, and more than the ring;
- in `SCmd`, two threads (a conflict is between the thread in the registers and
  one that wants them), one retry for 2500, and answers of their real lengths;
- in `Devices`, parts of four sectors and reads inside, up to and behind the
  border, over SMB also across it and beyond the image. USB: a CD sector of two units and device sectors of one, two and four;
  read-aheads of four units, commands of two sectors, so a read takes one command
  or two; one failure;
- hard disk: registers of two values, so that the eighth block needs the fourth
  register and a count of two is written as 0 (256 in the code); 48-bit commands
  of three blocks; a FIFO of two blocks; two tries for ICRC (three in the code);
  two faults, which allows a fault in the command that follows one. The run has
  also been made with three tries and three faults (`Hdd`, `Smb`, `Bdm`);
- SMB: requests of two sectors, so a call takes several; two keep-alives, one
  fault. BDM: sectors of 512, 2048 and 4096 bytes, counts modulo four, three
  connections;
- deadlock is not checked in `Devices`, because the code does stop: a lost
  connection leaves smb_ReadFile spinning, a failed warm-up is polled for ever,
  and a read without a block device goes through a null pointer. `DeviceReturns`
  states the progress, with these exceptions by name;
- in `CdromFs`, `MaxRaw` = 1 direct read, and no call starts after `rushed`
  (the properties excuse those behaviours); this bound is why deadlock is not
  checked there, `CallsReturn` states the progress instead.

Each property has a mutant of the modelled code that breaks it (`mutants`);
the mutated operators stand next to the original, marked "Mutant".

## 4. Fairness

`FairSpec` and `StFairSpec` assume that a thread that may run under the
priority rule eventually takes its next step *inside* a call, that the device
finishes a transfer, and that a pending alarm fires. Nobody is assumed to make
another call. `FsFairSpec` assumes the same of the threads inside calls, and
that the drive ends its reads, which is what `ReadsEnd` shows; so does
`FsvFairSpec` for the RPC thread and the cdrom driver. `DevSpec` assumes that the
thread goes on inside a call, that the USB stack ends its transfers, that the disk
goes on when it does not hang, that interrupts and the alarm come when due, and
that the server answers while connected; that threads go on in an S-command and the
mechacon ends the commands it does not hang in; nothing is assumed of faults, nor that a
disk that hangs ever recovers (`DriveWakes`). No strong
fairness is assumed: a thread that polls for the drive (cdrom_read retries
every 10 ms) can be starved by others that keep it busy, so `CallsReturn`
promises a return only when rivals stay out, and that somebody always returns.

`CdvdRead_live` needs the priorities: a client *above* the read thread's
priority would spin in sceCdSync when bit 1 is still set from an earlier read,
and the read thread would never run.

## 5. Proofs

The theorems hold for every value of the constants that the assumptions of the
modules admit: any sets of threads, buffers, files, devices and requests, any
sizes. Each rests on an inductive invariant, that is, the property strengthened until
every step of the next-state relation preserves it. The proof modules state it as
a conjunction of named parts, give each action (or each group of actions that
leave alone what the part speaks of) a lemma, and combine these in the theorem.

Some theorems have a hypothesis beyond the assumptions on the constants. Each is
an operator of the proof module, holds in the run that checks the property, and
says what the code or its callers provide:

| hypothesis | says | why |
|---|---|---|
| `DestinationsApart` | no two requests of different clients share a destination | else the later read overwrites the earlier one's data, rightly |
| `ErrorKept` | buffers are aligned, and no DiskReady, Seek, Standby, Pause or Stop | a second bounce chunk and these calls clear `err` (section 6) |
| `StreamsAlone` | nobody else reads or searches, no sceCdStInit while streaming, the read thread is more urgent than the client | a read of a game breaks the ring (section 6); `_start` creates the read thread with priority 15, clients run at 81 |
| `ReadsSucceed` | the device does not fail, nobody breaks a read or sets an error | StmCallback counts a bank without looking at errors (section 6) |
| `OneCaller` | one thread loads modules; only for `OneThreadFakesAll` | `fakemod_flag` carries a verdict from one hook to the next and is one for all callers: of two, the second may take the first one's (`ListedNeverRuns` names the race) |
| `ChainsApart` | the links of a chain do not overlap | else a later link overwrites an earlier one |
| `SectorsDivide` | a device sector is larger than a CD sector or divides it | sector sizes are powers of two |
| `PartsApart` | the partitions hold different sectors of the disc | else one disc sector has two places, and which one is read depends on the read before |
| `PartsOnDisk` | header and partitions lie where the disk's 28- or 48-bit commands reach | beyond, the registers drop the upper bits of the address; the partitions were made on this disk |
| `UsbSizes` | reads lie on the image (and, by `MassAssumption`, within a part); parts and the range of a u32 are even; a command takes more than one CD sector | parts have 0x80000 sectors, and MAX_USB_SECTORS is 256 |

**The read path** (`CdvdReadProofs`), for any priorities and any setting of AltReads,
AccuReads and DeviceFails:

- `TypeCorrect`: `TypeOK`. Its inductive form `TypeInv` adds `DeviceHasWork` (an actor
  at the device has sectors left), without which `SectorsToRead` is not typed.
- `DriveHasOneOwner`, `RequestIsKept`, `NoLostWakeup` from one invariant
  `LockInv` = OneOwner, RequestKept, IdleIsSignalled and the two facts that
  make them inductive, SignalOwned and PendingOwned: who signals, and whose
  request waits behind the semaphore, is the recorded owner. Most actions
  leave everything `LockInv` talks about alone (`Quiet` steps, one lemma);
  the lock, release, signal, take and interrupt steps have a lemma each.
- `SyncWaitsForItsRead`: the action property SyncReturnsAfterRead, from
  `LockInv` (a waiter that leaves has seen `sync_flag = 0`, so it owns nothing).
- `StatusIsHonest`: status is READ only while a read executes.
- `BounceBufferIsExclusive`: strengthened by `BouncePlace` (where the holder of
  `cdvdman_searchfilesema` stands).

**Refinement** (`CdvdReadImplProofs`). `ReadPathImplementsReadSlot`: every step of
`CdvdRead` is a step of `ReadSlot` or a stutter under the mapping of
`CdvdReadImpl`. `LockInv` makes the reader the mapping chooses unique; `ReadInv`
adds where a read stands: its request is the accepted one, its counters are in
range at each place, and what it has counted is in the buffer it writes to.

**Data of the read path** (`CdvdReadImplProofs`). `CompleteReadsDeliver` needs
`ReadInv`, `OwnedRead` (the read that executes is the owner's), `OutcomeInv`
(which request a pending or finished thread has) and `BounceInv`, since a
misaligned read's data passes through the bounce buffer. `ShortReadsLeaveError`
needs `ErrorInv`: a read cut short has left `err` and is past its only chunk.

**Streaming** (`StreamingProofs`). `StreamKeepsOneOwner` holds for any clients beside it.
The others are about a stream that has the drive to itself. Their invariant `AloneInv` adds to it
where client, read thread and the rest are while a fill is under way
(`ControlInv`) and the arithmetic of the ring (`RingInv`: the write pointer is at
a bank, the unread sectors lie between the pointers, a fill has room).
`RingStaysConsistent` follows. `RingHoldsTheStream` needs `HoldInv` as well: the bank
under way is the next of the stream, what has been read of it is in its place
(`BankInv`), and so is what has not been taken (`UnreadInv`). `StreamCountsItsReads`
says that without a game thread StmCallback counts only the stream's own reads:
the violation of section 6 needs the game's read. `FsvStreams`: the RPC thread's
steps are steps of `Streaming`, so these invariants hold beneath it, and
`EeGetsTheStream` adds what cdvdSt_read has copied to the EE (`EeInv`).

**Module loading** (`ModLoadProofs`). `FakeInv`: a set flag has a cause, a listed module
that waits for its start with its flag not taken finds it set, and so does a call between
lookup and test that was not outrun. No hypothesis on the threads or the order of their
calls; with a single thread there is no race, and nothing listed ever runs.

**File driver** (`CdromFsProofs`). `SemaphoresKept` from `SemaInv` (the place of each
thread determines what it holds). `HandlesStayKept` from `FilesInv`, which
adds `InitInv` (one fs_init at a time unless `rushed`), `DriveInv` (whose read the drive
executes), `RootInv` and `HandleInv` (a thread in open has a free handle to itself).
`ReadsReturnFile` adds the data of the three phases: what has been copied is the file from the
old position on, and the buffer of the phase under way holds its sector.
The arithmetic of the phases is proved for any sector size and alignment.

**RPC reads** (`CdvdfsvProofs`). `ControlInv` (place, semaphore, drive) and `NumbersInv`
(the counters of the pass under way) give `ReadsFitBuffer`; `DestInv` gives
`WritesStayInside`; `BufferInv` (what `cdvdman_fs_buf`, the two messages and the EE
hold at each step, but for `lost` units, and `BrokenInv`: the error that ends the passes
early came from a sceCdBreak during them) gives `ReadsReachTheEE` and `ProgressIsThere`; `LinksInv` the
same for chains, `ChainsReachTheEE`.

**Devices** (`DevicesProofs`), of `DevSpec`, with all builds beside each other:

- `CommandsAnswerOwn` from `ScmdInv`: the line at the semaphore (`LineInv`), the
  mechacon when nobody is served (`UnservedInv`), and for the thread that is, which of its
  parameters are written and which bytes of the answer are left.
- `BlockReadsDeliver` from `BdmInv`: the device of a read stays valid or the
  read is marked, and what came is the device's.
- `RepliesInStep` from `SmbInv`: `NetInv` says that what is on the net is keep-alives
  around what is left of one reply, to the request the thread waits on.
- `FileServerDelivers` adds `LoginInv` (the numbers the client holds are the
  server's) and `DeliveryInv`: the sectors read so far that come before the border
  of the call's first part are there, the read under way goes on with those that
  follow, the reads still to come begin behind the border, and nothing is written
  outside of the call's sectors. It takes any reads, across borders and behind the
  end of the image too, and says nothing of the sectors there.
- `CommandsLeaveNothing` from `MassInv`: what needs the device comes after its
  configuration (`PlaceInv`), and, short of a failure, the command block counts the
  transfers in flight, which are those of the command waited for or of the
  read-ahead, and the signal comes with the last (`SignalInv`).
- `UsbReadsDeliver` adds `UsbDataInv`, short of a failure and of the limits of
  section 6 (`hurt`). `UsbCallInv`: the CD sectors read so far are in the caller's
  memory, and the read under way is of those that follow; for a 4096-byte sector,
  of the one that holds the half wanted. `FetchInv`: each unit of what is asked for
  is there or some transfer in flight brings it, and none brings anything else;
  `AheadInv` says the same of the read-ahead and its buffer.

**Hard disk** (`HddProofs`), of `DevSpec` too, for either driver. `HddSafe`: a read that
succeeds has the disc's sectors and has written nothing else. Its invariant `HddInv`
follows a read down to the disk:

- `CallInv`: the call, and that the part of it which is on the disk is in the
  partition `CurrentPart`; `MemoryInv`: what is done of it is in memory;
- `JobInv`: what is left of ata_device_sector_io ends where what was asked for
  ends, and what it has read is in memory;
- `ChunkInv`: a command takes at most what is left, and what a count register holds;
- `AtadInv`: the FIFO continues memory and the disk continues the FIFO, unless the
  command failed or a block was damaged. A try that is thrown away has written
  where the next writes again. `HdproInv`: the disk continues memory while it offers data.

That the disk reads back from the registers the address and count that were meant
(`CommandIsMeant`) is arithmetic, done for any register size. `HddErrorsHaveCauses`
adds `CauseInv`: an alarm or a timeout event is gone when the next command is sent (`AtadEvents`),
so that a result which is not 0 goes back to a fault of this call, to damage as
often as there are tries, or to a disk or port that an earlier call left occupied
(`AtadFaults`, `HdproCauses`, `ResultCauses`).

Only model-checked:

- everything under fairness, and ENABLED: out of the prover's reach;
- that `PartReads` is the loop: what a recursive definition computes cannot be
  proved here, so TLC evaluates it.

Every invariant of a passing run is the subject of a theorem.

## 6. Disagreements and limits found while modelling

Shown by runs:

- **Search deadlock** (`cdvdman.c:394`, `CdvdRead_searchdeadlock`). A read into
  a misaligned buffer waits for `cdvdman_searchfilesema`; a file search holds
  it and waits in sceCdSync(0) for the drive, that is, for that read.
- **A game's read counted as a bank** (`streaming.c:33`, `Streaming_gameread`).
  A fill sets `StIsReading` before it has the drive; if a game read ends before
  the fill is refused, StmCallback counts it, which the comment above the test
  means to exclude.

Seen in the model, and excluded from the runs by their constants or stated in
the properties:

- an error in an early bounce-buffer chunk is lost, as the next chunk resets
  `err` (`cdvdman.c:332`, 404): ShortReadLeavesError is checked with aligned
  buffers;
- sceCdStPause during a bank read leaves `StIsReading` set with the callback
  gone, so after sceCdStResume no more data comes (`streaming.c:346`):
  StreamAdvances is checked without pause;
- a blocking sceCdStRead asks for a fill only after its loop
  (`streaming.c:423`): if the ring holds fewer sectors than asked for but has no
  room for a bank, it waits for ever: StReadReturns is checked with whole banks;
- with game reads between, RingConsistent and StReadReturns fail through the same race as
  OnlyOwnReadsCount; with the client's priority equal to the read thread's,
  RingHoldsStream fails through sceCdStSeek;
- `isFakemod` answers for whatever is started next (`ioplib_util.c:125`): after
  LoadModuleBuffer of a listed module, a load or start of one that is not listed is faked,
  with a single caller too, and the start of the listed one then fails in MODLOAD.
  OnlyListedFaked and ListedLooksStarted say how far this goes (`owed`, `robbed`);
- a thread that is interrupted between looking a listed module up and testing the
  flag may find it taken, and then really loads the module (`ioplib_util.c:139`, 141):
  ListedNeverRuns says so through `outrun`;
- two first calls that overlap both run fs_init, and the second clears the
  handles opened by then (`cdvdman.c:227`, 273); a refused volume read is not
  noticed (237): HandlesKept and ReadReturnsFile are
  stated for behaviours without them (`rushed`);
- cdrom_read and StmCallback do not look at device errors, so data would be
  stale: `CdromFs` and the streaming runs use a device that does not fail;
- cdvd_readee: sceCdBreak between two passes ends the call with the full size
  as its result and a tail message that was never filled (`cdvdfsv.c:833`), and
  a short read in an early pass is forgotten by the next one, which resets
  `err`, while progress and result count what was sent. So ReadeeDelivers asks
  for no sceCdBreak (`broken`) and says nothing of units that no read brought
  (`lost`); ProgressDelivered holds on every exit, of the data sent: the full
  size shown at the end is all it lets run ahead of them. An unaligned call reads one sector behind those asked for;
- a cdvd_readchain that succeeds leaves the request's first word, the first
  lsn, as its result (`cdvdfsv.c:730` and 746 write 0 on failure), so a chain
  that begins with sector 0 looks failed;
- mass_driver.c, for device sectors larger than 512 bytes: the read-ahead
  pointer advances by 512 bytes a sector (438) and `ra_buffer` has room for
  SCSI_RA_SECTORS sectors of 512 bytes only; at 4096 bytes an odd number of CD
  sectors loses its last one (817). ReadCDDelivers is stated short of them (`hurt`);
- mass_driver.c: a failed warm-up clears DETECTED but keeps `devId` (759), and
  nothing leaves that state; the transfers behind a failed one stay in flight
  and count down the next command: NothingLeftOver is stated for behaviours
  without a failure. The CSW's status is not looked at (335);
- device-usb.c:104, device-smb.c: the second part of a read across the border of
  two parts is read from `lsn - 0x80000` instead of 0, as `offslsn` is not reset;
  one that starts inside a part and ends exactly at its border makes a further
  read of no sectors. On USB, such a read of none from the middle of a 4096-byte
  sector wraps the count. SmbDelivers is stated for any read, and promises the
  sectors before the border only (`BeforeBorder`); the USB reads stay within a
  part, up to its border (`WithinPart`), so `UsbReadsDeliver` says nothing of others;
- device-bdm.c: bdm_connect_bd stores the device before the size of its sectors
  (33); a read between the two computes with the old size. Removal during a read,
  more than 65535 device sectors and devices with 4096-byte sectors (0 to a CD
  sector) give wrong data, no device a null pointer (60-70), and the result of the
  read is not looked at. BdmDelivers is stated for reads that meet none (`wrong`);
- hdpro_atad.c:274: hdpro_io_start returns 0, taken for failure, when the port is
  open already, so after one hdpro_io_finish that failed every read fails with -1;
  697: a command that fails is repeated for ever, in vain when a block was
  refused for its checksum and the disk still offers the rest (DRQ): ErrorHasCause
  and DeviceReturns name both;
- smb.c: no timeout and no second connection. After a loss smb_ReadFile adds -1 to
  what it has received for ever (701); GetSMBServerReply's result is ignored (406), so
  a request may be checked as if it were its own reply; the status of a read reply
  is not looked at, so a read the server refuses returns as if it had succeeded.
  DeviceReturns and SmbDelivers except them (`conn`, `spoilt`);
- cdvdman.c:1657: after 2500 tries cdvdman_sendSCmd gives up and still returns 1:
  sceCdRI hands out its stack, sceCdApplySCmd through cdvdfsv returns the request as
  the answer. AnswersOwn says when (`boot`);
- cdvdman.c:611: sceCdTrayReq reads and clears `cdvdman_media_changed` in two
  steps; a tray closed in between is not reported. cdvdfsv.c:699: with no stream
  running, the error half of cdvdSt_read's result is whatever was on the stack;
- cdvdman.c:654: sceCdPosToInt shifts 8-bit BCD fields by 16, so the tens are lost
  and it does not invert sceCdIntToPos;
- the comment on ReadPos speaks of sectors, the code counts bytes.

## 7. Not modelled

- directory contents and path comparison (a search finds a file or not), the
  second layer of a dual-layer disc, PSS videos of length zero, and the
  decryption of logo sectors below 13;
- misaligned buffers in cdrom_read's second phase: they meet the search
  deadlock above, in `CdvdRead`;
- the effects of devctl and ioctl beyond taking `cdrom_io_sema` and waiting for
  the drive (the drive commands themselves are actions of `CdvdRead`);
- in `cdvdfsv`, the search call, sectors of 2328 and 2340 bytes, S596, the
  S-commands that only return a value; streaming for the EE beside a game thread;
- in `mass_driver.c`, unplugging the device; the VMC builds of all drivers
  (writes, `io_sema`, which an error of mass_driver.c:444 does not give back);
- sceCdTrayReq and the position conversions (pure arithmetic); the effect of
  sceCdReadClock on `err`, which is that of sceCdStop in `CdvdRead`;
- in `atad.c` and `hdpro_atad.c`, identify and non-data commands, which nothing in
  the repository sends; in `dev9.c`, power, removal of the card, EEPROM, LED and
  shutdown callbacks: accesses to registers without state that a read depends on;
- in `smb.c`, the layout of messages, password hashes, smb_Disconnect, and a
  keep-alive that shares a segment with a reply (the code takes it for part of it);
- the speed tests (`iop/main.c`, `ee/main.c`): loops around blocking reads that
  compute rates; `smsutils.s`: memcpy and memset in assembler.

## 8. Plan

1. *(done)* `ReadSlot`, `CdvdRead` and its refinement; `Streaming` on top;
   `ModLoad`; `Drive` with `CdromFs` and `Cdvdfsv` over it; the read path's lock
   proofs.
2. *(done)* the devices: `Parts`, `MassStor`, `Atad`, `Hdpro`, `Hdd`, `Smb`, `Bdm`
   and `Devices`; the streaming calls of `cdvdfsv` over `Streaming` (`FsvStream`);
   S-commands (`SCmd`).
3. Left to model: the search call of `cdvdfsv` over `CdromFs`, the tray, device
   errors in `CdromFs` and `Streaming`, unplugging USB.
4. *(done)* Theorems: `CdvdRead` implements `ReadSlot` and delivers; the ring and the
   stream; handles, semaphores and data of `CdromFs` and `Cdvdfsv`; `ModLoad`; S-commands,
   the block device, the file server, both ATA drivers and USB mass storage.
5. Left to prove: that `Drive` is what `CdvdRead` provides (now argued through `ReadSlot`).
