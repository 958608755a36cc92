---------------------------- MODULE AudioSource ----------------------------
(***************************************************************************)
(* media/audio_source.cpp: the pull interface a stem is played through.  A  *)
(* read-ahead thread decodes chunks into a ring, the callback copies out of *)
(* it, and the app thread starts, stops and seeks.  Three threads meet at   *)
(* the ring, at two end flags and at one condition variable.                *)
(*                                                                         *)
(* The ring is a queue here: SpscRing shows how its indices make it one.    *)
(* A frame stands for itself, by its number in the file.                    *)
(***************************************************************************)
EXTENDS Integers, Sequences

CONSTANTS
  Total,        \* frames of the file
  RingFrames,   \* ring_frames, as asked of Open
  RingSize,     \* ring_frames rounded up to a power of two
  RefillChunk,  \* kRefillChunkFrames
  Block,        \* frames of a Read
  SeekFrames    \* where the app seeks to

ASSUME AudioSourceAssumption ==
  /\ {Total, RingSize} \subseteq Nat
  /\ {RingFrames, RefillChunk, Block} \subseteq Nat \ {0}
  /\ RingFrames <= RingSize
  /\ SeekFrames \subseteq Nat

VARIABLES
  ring,       \* ring_
  exhausted,  \* input_exhausted_
  ended,      \* end_of_stream_
  running,    \* running_
  position,   \* position_
  reader,     \* the frame reader_ decodes next
  thread,     \* the read-ahead thread: where it is, and its staging_ buffer
  app,        \* the app thread's call in progress
  attached,   \* may the callback read this source?
  cb,         \* the Read in progress, and what the last one came to
  copied      \* history: the frame the next Read has to deliver

ringVars == <<ring, exhausted, ended>>
cbVars   == <<position, attached, cb, copied>>
sourceVars == <<ringVars, running, reader, thread, app, cbVars>>

NoThread == [pc |-> "none", chunk |-> << >>, ending |-> FALSE, parks |-> FALSE]

NoCall == [pc |-> "idle", flag |-> FALSE, atEnd |-> FALSE]

NoRead == [pc |-> "idle", got |-> 0, counted |-> FALSE]

\* A source just opened.
SourceInit ==
  /\ ring = << >> /\ exhausted = FALSE /\ ended = FALSE
  /\ running = FALSE /\ position = 0 /\ reader = 0
  /\ thread = NoThread /\ app = NoCall
  /\ attached = FALSE /\ cb = NoRead /\ copied = 0

Lesser(a, b) == IF a < b THEN a ELSE b

Span(first, n) == [i \in 1..n |-> first + i - 1]

-----------------------------------------------------------------------------
(* The app thread. *)

\* Start spawns the read-ahead thread.
Start ==
  /\ app.pc = "idle"
  /\ ~running
  /\ running' = TRUE
  /\ thread' = [NoThread EXCEPT !.pc = "testing"]
  /\ UNCHANGED <<ringVars, reader, app, cbVars>>

\* Mutant: running_ is cleared without the mutex.
StopStoresUnlocked ==
  /\ app.pc = "idle"
  /\ running' = FALSE
  /\ app' = [NoCall EXCEPT !.pc = "notifying"]
  /\ UNCHANGED <<ringVars, reader, thread, cbVars>>

\* Stop clears running_ under the mutex, so never between the thread's look at it
\* and the thread's sleep.
StopStores ==
  /\ app.pc = "idle"
  /\ thread.pc # "holding"
  /\ running' = FALSE
  /\ app' = [NoCall EXCEPT !.pc = "notifying"]
  /\ UNCHANGED <<ringVars, reader, thread, cbVars>>

\* notify_all wakes a thread asleep, and nobody else.
StopNotifies ==
  /\ app.pc = "notifying"
  /\ app' = [app EXCEPT !.pc = "joining"]
  /\ thread' = IF thread.pc = "asleep" THEN [thread EXCEPT !.pc = "testing"] ELSE thread
  /\ UNCHANGED <<ringVars, running, reader, cbVars>>

StopJoins ==
  /\ app.pc = "joining"
  /\ thread.pc \in {"none", "exited"}
  /\ app' = NoCall
  /\ thread' = NoThread
  /\ UNCHANGED <<ringVars, running, reader, cbVars>>

\* Mutant: what was read ahead of the old position stays in the ring.
SeekKeepsRing(frame) ==
  /\ app.pc = "idle" /\ ~running
  /\ ~attached /\ cb.pc = "idle"
  /\ frame <= Total
  /\ reader' = frame /\ position' = frame /\ copied' = frame
  /\ exhausted' = FALSE /\ ended' = FALSE
  /\ app' = NoCall
  /\ UNCHANGED <<ring, running, thread, attached, cb>>

\* Seek, with the callback quiet as its contract asks; a reader refuses a frame
\* past the end.
Seek(frame) ==
  /\ app.pc = "idle" /\ ~running
  /\ ~attached /\ cb.pc = "idle"
  /\ frame <= Total
  /\ reader' = frame /\ position' = frame /\ copied' = frame
  /\ ring' = << >>
  /\ exhausted' = FALSE /\ ended' = FALSE
  /\ app' = NoCall
  /\ UNCHANGED <<running, thread, attached, cb>>

\* Mutant: the flag that speaks for the decoder is asked about the ring.
EndFlagEarly == exhausted

EndFlag == ended

\* is_at_end loads the flag first and the ring after it.
AtEndLoadsFlag ==
  /\ app.pc = "idle"
  /\ app' = [NoCall EXCEPT !.pc = "asking", !.flag = EndFlag]
  /\ UNCHANGED <<ringVars, running, reader, thread, cbVars>>

AtEndLoadsRing ==
  /\ app.pc = "asking"
  /\ app' = [NoCall EXCEPT !.atEnd = app.flag /\ ring = << >>]
  /\ UNCHANGED <<ringVars, running, reader, thread, cbVars>>

\* The callback starts or stops reading the source, whatever the app thread is in:
\* the device stops, and the watchdog restarts it, on threads of their own.
DeviceChanges ==
  /\ cb.pc = "idle"
  /\ attached' = ~attached
  /\ UNCHANGED <<ringVars, running, reader, thread, app, position, cb, copied>>

-----------------------------------------------------------------------------
(* The read-ahead thread. *)

\* Mutant: a chunk may be wider than the ring.
ChunkFramesWhole == RefillChunk

ChunkFrames == IF RingFrames \div 2 = 0 THEN 1 ELSE Lesser(RingFrames \div 2, RefillChunk)

ThreadMoves(pc, parks) ==
  /\ thread' = [thread EXCEPT !.pc = pc, !.parks = parks]
  /\ UNCHANGED <<ringVars, running, reader, app, cbVars>>

\* RefillLoop: stop, park past the end, or refill.
LoopTests ==
  /\ thread.pc = "testing"
  /\ IF ~running THEN ThreadMoves("exited", FALSE)
     ELSE IF ended THEN ThreadMoves("checking", TRUE)
     ELSE ThreadMoves("sizing", FALSE)

\* RefillOnce runs only when a whole chunk fits.
RefillSizes ==
  /\ thread.pc = "sizing"
  /\ IF RingSize - Len(ring) < ChunkFrames
     THEN ThreadMoves("checking", FALSE)
     ELSE ThreadMoves("reading", FALSE)

\* ReadFrames answers in full, with the end of the stream (the file's, or where it
\* stops decoding), or with what it has until it would block.
ReadFrames(n, ending) ==
  /\ thread.pc = "reading"
  /\ n <= Lesser(ChunkFrames, Total - reader)
  /\ ending => n < ChunkFrames
  /\ reader' = reader + n
  /\ thread' = [pc |-> "flagging", chunk |-> Span(reader, n), ending |-> ending,
                parks |-> FALSE]
  /\ UNCHANGED <<ringVars, running, app, cbVars>>

ReaderProgresses ==
  \E n \in 0..ChunkFrames, ending \in BOOLEAN :
    (n = ChunkFrames \/ ending) /\ ReadFrames(n, ending)

ReaderBlocks == \E n \in 0..(ChunkFrames - 1) : ReadFrames(n, FALSE)

\* input_exhausted_ before the write.
FlagsExhausted ==
  /\ thread.pc = "flagging"
  /\ exhausted' = (exhausted \/ thread.ending)
  /\ thread' = [thread EXCEPT !.pc = "writing"]
  /\ UNCHANGED <<ring, ended, running, reader, app, cbVars>>

\* What the ring cannot take is lost.
WritesChunk ==
  /\ thread.pc = "writing"
  /\ ring' = ring \o SubSeq(thread.chunk, 1,
                       Lesser(Len(thread.chunk), RingSize - Len(ring)))
  /\ thread' = [thread EXCEPT !.pc = "ending"]
  /\ UNCHANGED <<exhausted, ended, running, reader, app, cbVars>>

\* end_of_stream_ after it; a refill that moved nothing waits before the next.
FlagsEnded ==
  /\ thread.pc = "ending"
  /\ ended' = (ended \/ thread.ending)
  /\ thread' = [thread EXCEPT !.pc = IF thread.chunk = << >>
                                     THEN "checking" ELSE "testing"]
  /\ UNCHANGED <<ring, exhausted, running, reader, app, cbVars>>

\* WaitForSpace and WaitForStop: the predicate is looked at, and the sleep begun,
\* under the mutex.
WaitChecks ==
  /\ thread.pc = "checking"
  /\ ThreadMoves(IF running THEN "holding" ELSE "testing", thread.parks)

WaitSleeps ==
  /\ thread.pc = "holding"
  /\ ThreadMoves("asleep", thread.parks)

\* Only WaitForSpace polls.
WaitTimesOut ==
  /\ thread.pc = "asleep"
  /\ ~thread.parks
  /\ ThreadMoves("testing", FALSE)

-----------------------------------------------------------------------------
(* The callback. *)

\* Read copies what the ring holds, a block at most.
ReadCopies ==
  /\ attached
  /\ cb.pc = "idle"
  /\ LET got == Lesser(Block, Len(ring)) IN
     /\ ring' = SubSeq(ring, got + 1, Len(ring))
     /\ copied' = copied + got
     /\ cb' = [pc |-> "copied", got |-> got, counted |-> FALSE]
  /\ UNCHANGED <<exhausted, ended, running, reader, thread, app, position,
                 attached>>

\* Mutant: the position moves by what was asked for.
FramesDeliveredAsAsked == Block

FramesDelivered == cb.got

\* A full block returns here; a short one has its flag still to load.
ReadCounts ==
  /\ cb.pc = "copied"
  /\ position' = position + FramesDelivered
  /\ cb' = [cb EXCEPT !.pc = IF cb.got = Block THEN "idle" ELSE "short"]
  /\ UNCHANGED <<ringVars, running, reader, thread, app, attached, copied>>

\* Mutant: the two end flags are folded into the later one.
NoMoreInputFolded == ended

NoMoreInput == exhausted

\* A short read is an underrun unless the input is known to be exhausted.
ReadJudges ==
  /\ cb.pc = "short"
  /\ cb' = [cb EXCEPT !.pc = "idle", !.counted = ~NoMoreInput]
  /\ UNCHANGED <<ringVars, running, reader, thread, app, position, attached,
                 copied>>

-----------------------------------------------------------------------------

ThreadSteps ==
  \/ LoopTests
  \/ RefillSizes
  \/ ReaderBlocks
  \/ ReaderProgresses
  \/ FlagsExhausted
  \/ WritesChunk
  \/ FlagsEnded
  \/ WaitChecks
  \/ WaitSleeps
  \/ WaitTimesOut

StopSteps == StopNotifies \/ StopJoins

ReadSteps == ReadCopies \/ ReadCounts \/ ReadJudges

SourceNext ==
  \/ Start
  \/ StopStores
  \/ \E frame \in SeekFrames : Seek(frame)
  \/ AtEndLoadsFlag
  \/ AtEndLoadsRing
  \/ DeviceChanges
  \/ StopSteps
  \/ ThreadSteps
  \/ ReadSteps

SourceSpec == SourceInit /\ [][SourceNext]_sourceVars

\* The scheduler runs every thread, the device calls back while it runs, and a
\* reader does not block for ever.
FairSourceSpec ==
  /\ SourceSpec
  /\ WF_sourceVars(ThreadSteps)
  /\ SF_sourceVars(ReaderProgresses)
  /\ WF_sourceVars(StopSteps)
  /\ WF_sourceVars(ReadSteps)

-----------------------------------------------------------------------------

\* Every variable holds a value of its type; the position stays in the file.
SourceTypeOK ==
  /\ ring \in Seq(0..Total) /\ Len(ring) <= RingSize
  /\ {exhausted, ended, running, attached} \subseteq BOOLEAN
  /\ {position, reader, copied} \subseteq 0..Total
  /\ thread.pc \in {"none", "testing", "sizing", "reading", "flagging", "writing",
                    "ending", "checking", "holding", "asleep", "exited"}
  /\ app.pc \in {"idle", "notifying", "joining", "asking"}
  /\ cb.pc \in {"idle", "copied", "short"}

\* The callback gets the file's frames from the position on, each once and in
\* order, through pauses, seeks and refills; and the position reported is the next
\* frame it gets.
InOrder ==
  /\ ring = Span(copied, Len(ring))
  /\ cb.pc # "copied" => position = copied

\* Pending when the reader has handed over frames the ring does not hold yet.
Pending == thread.pc \in {"flagging", "writing"} /\ thread.chunk # << >>

\* When is_at_end says so, every frame decoded has reached the callback: the last
\* chunk is not still on its way.
EndIsReal == app.atEnd => copied = reader /\ ~Pending

\* The block that takes the last of a chunk the stream ended in is not counted as
\* an underrun, however close behind the write it comes.
NoFalseUnderrun ==
  cb.counted => ~(copied = reader /\ thread.ending /\ thread.chunk # << >>)

\* Stop returns: the thread is not left asleep, however Stop meets it going to
\* sleep.
StopReturns == app.pc = "notifying" ~> app.pc = "idle"

\* A source left running under a callback reads to the end of its stream, whatever
\* the sizes of the ring and of the chunks.
ReadsToTheEnd == (running /\ attached) ~> (ended \/ ~running \/ ~attached)
=============================================================================
