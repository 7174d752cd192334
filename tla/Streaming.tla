----------------------------- MODULE Streaming -----------------------------
(***************************************************************************)
(* streaming.c on top of the read path of CdvdRead: a ring buffer that the *)
(* read thread's callback keeps full, bank by bank, and that one client    *)
(* thread empties with sceCdStRead, while other threads may use the drive. *)
(***************************************************************************)
EXTENDS CdvdRead

CONSTANTS
  StThread,       \* the client thread that streams
  Ring,           \* the buffer given to sceCdStInit
  StBankmax, StBanksize,
  LsnMod,         \* sector numbers wrap here (2^32 in the code)
  Starts,         \* where streams may be started or seeked to
  ReadSizes,      \* the sector counts sceCdStRead is called with
  Blocking,       \* its modes: TRUE (STMBLK), FALSE (STMNBLK)
  FromEE,         \* whether its buffer is in EE memory: subset of BOOLEAN
  StCommands      \* the stream calls the client makes besides StStart, StRead

StBufmax == StBankmax * StBanksize
U16(n) == n % 65536

ASSUME StreamAssumption ==
  /\ StThread \in Threads
  /\ Ring \in Buffers
  /\ StBankmax \in Nat \ {0} /\ StBanksize \in Nat \ {0}
  /\ StBufmax <= BufSectors /\ StBufmax < 65536
  /\ LsnMod \in Nat /\ LsnMod > StBufmax /\ LsnMod % StBanksize = 0
  /\ \A l \in Starts : l \in Nat /\ l < LsnMod /\ l % StBanksize = 0
  /\ ReadSizes \subseteq Nat \ {0}
  /\ Blocking \subseteq BOOLEAN /\ FromEE \subseteq BOOLEAN
  /\ StCommands \subseteq {"Init", "Stat", "Stop", "Pause", "Resume"}

VARIABLES
  StStat, StIsReading, StWritePtr, StReadPtr, StStreamed, Stlsn,
  st_alarm,       \* StmScheduleCb is pending
  bank,           \* per actor: the ring offset AllocBank gave to its fill
  call,           \* locals of the client's call
  lastread,       \* history: the request the read thread finished last
  expected        \* history: the sector the stream has to deliver next

ring    == <<StStat, StIsReading, StWritePtr, StReadPtr, StStreamed, Stlsn>>
stlocal == <<st_alarm, bank, call>>
sthist  == <<lastread, expected>>
stvars  == <<ring, stlocal, sthist>>
allvars == <<vars, stvars>>

StActors == {StThread, RThread}
NoCall == [then |-> "ready", lsn |-> 0, left |-> 0, block |-> FALSE, ee |-> FALSE,
           rdptr |-> 0, n |-> 0]

\* After sceCdStInit, before the first sceCdStStart.
StInit ==
  /\ Init
  /\ StStat = 0 /\ StIsReading = 0
  /\ StWritePtr = 0 /\ StReadPtr = 0 /\ StStreamed = 0 /\ Stlsn = 0
  /\ st_alarm = FALSE
  /\ bank = [a \in StActors |-> 0]
  /\ call = NoCall
  /\ lastread = NullRequest
  /\ expected = 0

\* Mutant: StReadPtr is not reset.
ResetKeepsReadPtr ==
  /\ StWritePtr' = 0 /\ StStreamed' = 0 /\ StIsReading' = 0
  /\ UNCHANGED StReadPtr

StReset ==
  /\ StWritePtr' = 0 /\ StReadPtr' = 0 /\ StStreamed' = 0 /\ StIsReading' = 0

\* Both pointers go back to 0 at the end of the ring.
Wrapped(p) == IF p >= StBufmax THEN 0 ELSE p

-----------------------------------------------------------------------------
(***************************************************************************)
(* StFillStreamBuffer and StStartFillStreamBuffer, called by the client    *)
(* and by the read thread's callback.                                      *)
(***************************************************************************)

\* Mutant: any free sector is enough.
AllocAnyRoom == StBufmax - StStreamed > 0

\* AllocBank finds room for one more bank.
AllocBank == StBufmax - StStreamed >= StBanksize

BankRead(a) == [lsn |-> Stlsn, sectors |-> StBanksize, buf |-> Ring,
                off |-> bank[a], aligned |-> TRUE]

\* Where the caller continues when StStartFillStreamBuffer returns.
FillReturn(a) == IF a = RThread THEN "wait" ELSE "ready"

\* The first critical section.
FillLock(a) ==
  /\ At(a, "fill")
  /\ IF StIsReading = 1
       THEN /\ Goto(a, FillReturn(a))
            /\ UNCHANGED <<StIsReading, st_alarm, bank>>
       ELSE /\ StIsReading' = 1
            /\ st_alarm' = FALSE
            /\ Goto(a, IF AllocBank THEN "async" ELSE "full")
            /\ bank' = IF AllocBank THEN [bank EXCEPT ![a] = StWritePtr] ELSE bank
  /\ UNCHANGED <<locks, regs, cbs, accu_alarm, Stm0Callback, mem, arg, searching, rd, hist,
                 StStat, StWritePtr, StReadPtr, StStreamed, Stlsn, call, sthist>>

\* Mutant: StIsReading stays set.
FullStaysReading(a) ==
  /\ At(a, "full")
  /\ Goto(a, FillReturn(a))
  /\ UNCHANGED <<locks, regs, cbs, accu_alarm, Stm0Callback, mem, arg, searching, rd, hist, stvars>>

\* No room: nothing to read.
FillFull(a) ==
  /\ At(a, "full")
  /\ StIsReading' = 0
  /\ Goto(a, FillReturn(a))
  /\ UNCHANGED <<locks, regs, cbs, accu_alarm, Stm0Callback, mem, arg, searching, rd, hist,
                 StStat, StWritePtr, StReadPtr, StStreamed, Stlsn, stlocal, sthist>>

\* cdvdman_AsyncRead of the bank; Stlsn is read outside the critical section.
FillRead(a) ==
  /\ At(a, "async")
  /\ IF sync_flag = 0
       THEN /\ cdvdman_common_lock(a, BankRead(a))
            /\ cdread' = BankRead(a)
            /\ Goto(a, "kick")
       ELSE /\ Goto(a, "refused")
            /\ UNCHANGED <<sync_flag, intr_ef, cdread, hist>>
  /\ UNCHANGED <<rthread_sema, searchfilesema, regs, cbs, accu_alarm, Stm0Callback, mem, arg,
                 searching, rd, stvars>>

FillKick(a) ==
  /\ At(a, "kick")
  /\ rthread_sema' = Signalled(rthread_sema)
  /\ Goto(a, FillReturn(a))
  /\ UNCHANGED <<sync_flag, intr_ef, searchfilesema, cdread, regs, cbs, accu_alarm, Stm0Callback,
                 mem, arg, searching, rd, hist, stvars>>

\* The drive was busy: try again from an alarm.
FillRefused(a) ==
  /\ At(a, "refused")
  /\ StIsReading' = 0
  /\ Goto(a, "rearm")
  /\ UNCHANGED <<locks, regs, cbs, accu_alarm, Stm0Callback, mem, arg, searching, rd, hist,
                 StStat, StWritePtr, StReadPtr, StStreamed, Stlsn, stlocal, sthist>>

FillRearm(a) ==
  /\ At(a, "rearm")
  /\ st_alarm' = TRUE
  /\ Goto(a, FillReturn(a))
  /\ UNCHANGED <<locks, regs, cbs, accu_alarm, Stm0Callback, mem, arg, searching, rd, hist,
                 ring, bank, call, sthist>>

Fill(a) ==
  FillLock(a) \/ FillFull(a) \/ FillRead(a) \/ FillKick(a) \/ FillRefused(a) \/ FillRearm(a)

\* StmScheduleCb: StFillStreamBuffer in interrupt context, in one go.
StmScheduleCb ==
  LET r == [lsn |-> Stlsn, sectors |-> StBanksize, buf |-> Ring, off |-> StWritePtr, aligned |-> TRUE]
      reads == StIsReading = 0 /\ AllocBank /\ sync_flag = 0
  IN  /\ st_alarm
      /\ st_alarm' = (StIsReading = 0 /\ AllocBank /\ sync_flag = 1)
      /\ StIsReading' = IF reads THEN 1 ELSE StIsReading
      /\ IF reads THEN AsyncReadIntr(r)
                  ELSE UNCHANGED <<sync_flag, intr_ef, rthread_sema, cdread, hist>>
      /\ UNCHANGED <<searchfilesema, regs, cbs, accu_alarm, Stm0Callback, mem, pc, arg, searching, rd,
                     StStat, StWritePtr, StReadPtr, StStreamed, Stlsn, bank, call, sthist>>

-----------------------------------------------------------------------------
(***************************************************************************)
(* StmCallback, run by the read thread after every read while installed.   *)
(***************************************************************************)
StmCallback ==
  /\ At(RThread, "notify")
  /\ Stm0Callback
  /\ Goto(RThread, IF StIsReading = 1 THEN "cbupdate" ELSE "fill")
  /\ UNCHANGED <<locks, regs, cbs, accu_alarm, Stm0Callback, mem, arg, searching, rd, hist, stvars>>

\* Its critical section: the bank counts as filled.
StmUpdate ==
  /\ At(RThread, "cbupdate")
  /\ Stlsn' = (Stlsn + StBanksize) % LsnMod
  /\ StStreamed' = U16(StStreamed + StBanksize)
  /\ StWritePtr' = Wrapped(StWritePtr + StBanksize)
  /\ StIsReading' = 0
  /\ Goto(RThread, "fill")
  /\ UNCHANGED <<locks, regs, cbs, accu_alarm, Stm0Callback, mem, arg, searching, rd, hist,
                 StStat, StReadPtr, stlocal, sthist>>

-----------------------------------------------------------------------------
(***************************************************************************)
(* The stream calls of the client.                                         *)
(***************************************************************************)
Calls == At(StThread, "ready") /\ call = NoCall

\* What StStop, StStart, StSeek, StPause and StResume do first.
StRegisters == err' = "NO" /\ status' = "PAUSE" /\ UNCHANGED ReadPos

\* sceCdStStop on a running stream.
sceCdStStop ==
  /\ "Stop" \in StCommands
  /\ Calls /\ StStat = 1
  /\ StRegisters
  /\ st_alarm' = FALSE
  /\ Goto(StThread, "stop")
  /\ UNCHANGED <<locks, cbs, accu_alarm, Stm0Callback, mem, arg, searching, rd, hist,
                 ring, bank, call, sthist>>

\* sceCdStStart, and sceCdStSeek on a running stream: stop first, if need be.
sceCdStStart ==
  /\ Calls
  /\ StRegisters
  /\ \E l \in Starts : call' = [NoCall EXCEPT !.then = "start", !.lsn = l]
  /\ IF StStat = 1 THEN st_alarm' = FALSE /\ Goto(StThread, "stop")
                   ELSE Goto(StThread, "start") /\ UNCHANGED st_alarm
  /\ UNCHANGED <<locks, cbs, accu_alarm, Stm0Callback, mem, arg, searching, rd, hist,
                 ring, bank, sthist>>

\* Mutant: sceCdStStop does not wait for the read in flight.
StopWithoutSync ==
  /\ At(StThread, "stop")
  /\ Stm0Callback' = FALSE
  /\ StStat' = 0
  /\ StReset
  /\ Goto(StThread, "ready")
  /\ UNCHANGED <<locks, regs, cbs, accu_alarm, mem, arg, searching, rd, hist, Stlsn, stlocal, sthist>>

\* The critical section of sceCdStStop, and its call of sceCdSync(0).
StopLock ==
  /\ At(StThread, "stop")
  /\ Stm0Callback' = FALSE
  /\ StStat' = 0
  /\ StReset
  /\ Goto(StThread, "syncwait")
  /\ UNCHANGED <<locks, regs, cbs, accu_alarm, mem, arg, searching, rd, hist, Stlsn, stlocal, sthist>>

\* The critical section of sceCdStStart ...
StartLock ==
  /\ \/ At(StThread, "start")
     \/ At(StThread, "ready") /\ call.then = "start"
  /\ Stlsn' = call.lsn
  /\ StStat' = 1
  /\ StReset
  /\ Stm0Callback' = TRUE
  /\ expected' = call.lsn
  /\ call' = NoCall
  /\ Goto(StThread, "started")
  /\ UNCHANGED <<locks, regs, cbs, accu_alarm, mem, arg, searching, rd, hist, st_alarm, bank, lastread>>

\* ... and the registers, up to its fill request.
Started ==
  /\ At(StThread, "started")
  /\ StRegisters
  /\ Goto(StThread, "fill")
  /\ UNCHANGED <<locks, cbs, accu_alarm, Stm0Callback, mem, arg, searching, rd, hist, stvars>>

sceCdStPause ==
  /\ "Pause" \in StCommands
  /\ Calls /\ StStat = 1
  /\ StRegisters
  /\ st_alarm' = FALSE
  /\ Goto(StThread, "pause")
  /\ UNCHANGED <<locks, cbs, accu_alarm, Stm0Callback, mem, arg, searching, rd, hist,
                 ring, bank, call, sthist>>

PauseLock ==
  /\ At(StThread, "pause")
  /\ Stm0Callback' = FALSE
  /\ Goto(StThread, "syncwait")
  /\ UNCHANGED <<locks, regs, cbs, accu_alarm, mem, arg, searching, rd, hist, stvars>>

\* Bound: a stream is resumed only while its count fits the ring.  Without a
\* game's reads in between it always does (RingConsistent); with them each
\* resume may count one bank more, up to 2^16.
ResumeMax == StBufmax

sceCdStResume ==
  /\ "Resume" \in StCommands
  /\ StStreamed <= ResumeMax
  /\ Calls /\ StStat = 1
  /\ StRegisters
  /\ Goto(StThread, "resume")
  /\ UNCHANGED <<locks, cbs, accu_alarm, Stm0Callback, mem, arg, searching, rd, hist, stvars>>

ResumeLock ==
  /\ At(StThread, "resume")
  /\ Stm0Callback' = TRUE
  /\ Goto(StThread, "fill")
  /\ UNCHANGED <<locks, regs, cbs, accu_alarm, mem, arg, searching, rd, hist, stvars>>

\* sceCdStStop, sceCdStPause, sceCdStResume, sceCdStSeek and sceCdStRead when
\* no stream runs: only the registers change (sceCdStRead leaves status).
NotStreaming ==
  /\ StCommands # {}
  /\ Calls /\ StStat = 0
  /\ err' = "NO" /\ status' \in {"PAUSE", status}
  /\ UNCHANGED <<locks, ReadPos, cbs, accu_alarm, Stm0Callback, mem, pc, arg, searching, rd, hist, stvars>>

\* sceCdStInit once more, with the same buffer ...
sceCdStInit ==
  /\ "Init" \in StCommands
  /\ Calls
  /\ err' = "NO"
  /\ st_alarm' = FALSE
  /\ Goto(StThread, "init")
  /\ UNCHANGED <<locks, status, ReadPos, cbs, accu_alarm, Stm0Callback, mem, arg, searching, rd, hist,
                 ring, bank, call, sthist>>

\* ... and its critical section.
InitLock ==
  /\ At(StThread, "init")
  /\ StReset
  /\ Goto(StThread, "ready")
  /\ UNCHANGED <<locks, regs, cbs, accu_alarm, Stm0Callback, mem, arg, searching, rd, hist,
                 StStat, Stlsn, stlocal, sthist>>

sceCdStStat ==
  /\ "Stat" \in StCommands
  /\ Calls
  /\ err' = "NO"
  /\ UNCHANGED <<locks, status, ReadPos, cbs, accu_alarm, Stm0Callback, mem, pc, arg, searching, rd, hist, stvars>>

\* sceCdStRead: set bit 8, so that the first pass of the loop does not wait.
sceCdStRead ==
  /\ Calls /\ StStat = 1
  /\ \E n \in ReadSizes, b \in Blocking, e \in FromEE :
       call' = [NoCall EXCEPT !.then = "read", !.left = n, !.block = b, !.ee = e]
  /\ err' = "NO"
  /\ intr_ef' = intr_ef \cup {8}
  /\ Goto(StThread, "stwait")
  /\ UNCHANGED <<sync_flag, rthread_sema, searchfilesema, cdread, status, ReadPos, cbs, accu_alarm,
                 Stm0Callback, mem, arg, searching, rd, hist, ring, st_alarm, bank, sthist>>

StReadWait ==
  /\ At(StThread, "stwait")
  /\ 8 \in intr_ef
  /\ Goto(StThread, "stclear")
  /\ UNCHANGED <<locks, regs, cbs, accu_alarm, Stm0Callback, mem, arg, searching, rd, hist, stvars>>

StReadClear ==
  /\ At(StThread, "stclear")
  /\ intr_ef' = intr_ef \ {8}
  /\ Goto(StThread, "copy")
  /\ UNCHANGED <<sync_flag, rthread_sema, searchfilesema, cdread, regs, cbs, accu_alarm, Stm0Callback,
                 mem, arg, searching, rd, hist, stvars>>

\* What one ReadSectors or ReadSectorsEE call for max sectors takes: n1
\* sectors up to the end of the ring, then n2 up to the write pointer.
Taken(max) ==
  LET n1 == IF StWritePtr <= StReadPtr /\ StStreamed > 0 THEN Smaller(StBufmax - StReadPtr, max) ELSE 0
      r1 == Wrapped(StReadPtr + n1)
      n2 == IF n1 < max /\ r1 < StWritePtr THEN Smaller(StWritePtr - r1, max - n1) ELSE 0
  IN  [n |-> n1 + n2, rdptr |-> IF n2 > 0 THEN Wrapped(r1 + n2) ELSE r1]

\* The loop of sceCdStRead goes on, or ends with a fill request.
AfterCopy(n) ==
  /\ IF call.block /\ n < call.left
       THEN Goto(StThread, "stwait") /\ call' = [call EXCEPT !.left = @ - n]
       ELSE Goto(StThread, "fill") /\ call' = NoCall

\* ReadSectors copies and takes in one critical section; ReadSectorsEE only
\* starts the transfer in it.
StReadCopy ==
  LET t == Taken(call.left)
  IN  /\ At(StThread, "copy")
      /\ IF call.ee /\ t.n > 0
           THEN /\ call' = [call EXCEPT !.rdptr = t.rdptr, !.n = t.n]
                /\ Goto(StThread, "dma")
                /\ UNCHANGED <<StReadPtr, StStreamed, expected>>
           ELSE /\ StReadPtr' = t.rdptr
                /\ StStreamed' = U16(StStreamed - t.n)
                /\ expected' = (expected + t.n) % LsnMod
                /\ AfterCopy(t.n)
      /\ UNCHANGED <<locks, regs, cbs, accu_alarm, Stm0Callback, mem, arg, searching, rd, hist,
                     StStat, StIsReading, StWritePtr, Stlsn, st_alarm, bank, lastread>>

\* The DMA to the EE has ended: the second critical section of ReadSectorsEE.
StReadDma ==
  /\ At(StThread, "dma")
  /\ StReadPtr' = call.rdptr
  /\ StStreamed' = U16(StStreamed - call.n)
  /\ expected' = (expected + call.n) % LsnMod
  /\ AfterCopy(call.n)
  /\ UNCHANGED <<locks, regs, cbs, accu_alarm, Stm0Callback, mem, arg, searching, rd, hist,
                 StStat, StIsReading, StWritePtr, Stlsn, st_alarm, bank, lastread>>

-----------------------------------------------------------------------------
ClientCall ==
  \/ sceCdStStart \/ sceCdStStop \/ sceCdStPause \/ sceCdStResume
  \/ sceCdStInit \/ sceCdStStat \/ sceCdStRead \/ NotStreaming

\* The client inside a call, sceCdSync(0) included.
ClientStep ==
  \/ InitLock \/ StopLock \/ StartLock \/ Started \/ PauseLock \/ ResumeLock \/ Fill(StThread)
  \/ StReadWait \/ StReadClear \/ StReadCopy \/ StReadDma
  \/ (SyncTest(StThread) \/ SyncWake(StThread)) /\ UNCHANGED stvars

\* The read thread: reading for whoever asked, then the callback.
ReadThread ==
  \/ /\ RThreadStep
     /\ lastread' = IF pc[RThread] = "release" THEN rd[RThread].req ELSE lastread
     /\ UNCHANGED <<ring, stlocal, expected>>
  \/ StmCallback \/ StmUpdate \/ Fill(RThread)

Others == Threads \ {StThread}
OtherStep(t) == ThreadStep(t) /\ UNCHANGED stvars
OtherCall(t) == ThreadCall(t) /\ UNCHANGED stvars

StNext ==
  \/ ClientCall \/ ClientStep
  \/ ReadThread
  \/ StmScheduleCb
  \/ AccuAlarm /\ UNCHANGED stvars
  \/ event_alarm_cb /\ UNCHANGED stvars
  \/ \E t \in Others : OtherStep(t) \/ OtherCall(t)

StSpec == StInit /\ [][StNext]_allvars

StFairness ==
  /\ WF_allvars(ClientStep)
  /\ WF_allvars(ReadThread)
  /\ WF_allvars(StmScheduleCb)
  /\ WF_allvars(AccuAlarm /\ UNCHANGED stvars)
  /\ \A t \in Others : WF_allvars(OtherStep(t))

StFairSpec == StSpec /\ StFairness

-----------------------------------------------------------------------------
(***************************************************************************)
(* Properties.                                                             *)
(***************************************************************************)

\* The three counters agree: the unread sectors are those from StReadPtr up
\* to StWritePtr, and never more than the ring holds.
RingConsistent ==
  /\ StStreamed <= StBufmax
  /\ (StReadPtr + StStreamed) % StBufmax = StWritePtr

\* The drive still has one owner with the streaming callers added: a fill
\* request of the client, of the read thread's callback or of the alarm is
\* accepted only when no read of anybody is under way.
StHolds(a) == Holds(a) \/ pc[a] = "kick"
StOneOwner ==
  /\ \A a, b \in Actors : StHolds(a) /\ StHolds(b) => a = b
  /\ rthread_sema = 1 => \A a \in Actors : ~StHolds(a)
  /\ sync_flag = 1 <=> (rthread_sema = 1 \/ \E a \in Actors : StHolds(a))

\* The unread part of the ring holds the stream, sector after sector, from
\* the next one the client expects: nothing is skipped, repeated or
\* overwritten before sceCdStRead has taken it.  The bank being read is the
\* one that continues it, where StmCallback will account for it.
RingHoldsStream ==
  StStat = 1 =>
    /\ \A i \in 0 .. StStreamed - 1 :
         mem[Ring][(StReadPtr + i) % StBufmax] = (expected + i) % LsnMod
    /\ pc[RThread] \in Reading /\ rd[RThread].req.buf = Ring =>
         rd[RThread].req.off = StWritePtr /\ rd[RThread].req.lsn = Stlsn

\* StmCallback counts a bank as filled only for the streaming system's own
\* read of exactly that bank, not for a read of the game.
OnlyOwnReadsCount ==
  [][StmUpdate => /\ lastread.buf = Ring /\ lastread.off = StWritePtr
                  /\ lastread.lsn = Stlsn /\ lastread.sectors = StBanksize]_allvars

\* A stream whose callback is installed and whose ring is empty gets data,
\* or is paused or stopped.
StreamAdvances ==
  (Stm0Callback /\ StStreamed = 0) ~> (StStreamed > 0 \/ ~Stm0Callback)

\* sceCdStRead returns.
StReadReturns == (call.then = "read") ~> (call.then # "read")

=============================================================================
