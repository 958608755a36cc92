--------------------------- MODULE MixerTransport ---------------------------
(***************************************************************************)
(* mixer.cpp, mixer_render.cpp and media/streaming_track.cpp: how the stems *)
(* of a song stay on the same song frame while the song is sought, looped   *)
(* and reloaded under the callback.                                        *)
(*                                                                         *)
(* A seek or a loop change rebuilds every stem's source off the callback    *)
(* at the frame the head is planned to reach, commits the sources track by  *)
(* track, and then publishes one plan.  Sources and plan carry an epoch; a  *)
(* source of an epoch the callback has not adopted is silent, unless a keep *)
(* built it: that one may play early, at the song frame now playing.        *)
(*                                                                         *)
(* One call runs at a time (commandMutex).  The song plays at 1.0x: what is *)
(* primed and handed over is HandOver's subject.  Mute, solo and gain come  *)
(* after a source is read and leave it alone.  A source holds whatever its  *)
(* read-ahead thread has managed to buffer.  The blend at a loop's start is *)
(* counted as the song frames of the loop's head, as LoopLayout does.       *)
(***************************************************************************)
EXTENDS Integers, Sequences, FiniteSets

CONSTANTS
  Tracks,       \* 1..n; the callback mixes them in order
  Frames,       \* the length of each track's file
  Block,        \* frames of a callback
  Ring,         \* frames a source can have buffered
  MinLoop,      \* kMinLoopCrossfades * crossfade_frames_
  SeekFrames,   \* where the user seeks to
  Loops,        \* the <<start, end>> the user sets
  MaxCalls,     \* bound of the calls made
  MaxFrames     \* bound of the frames played: later blocks play nothing

VARIABLES
  \* The app thread.
  appEpoch,     \* app_epoch_
  appLayout,    \* app_layout_
  longest,      \* longest_frames_
  op,           \* the call in progress
  calls,        \* calls made so far
  \* Shared.
  source,       \* the source each track has published
  node,         \* plans_: the newest plan and its publisher generation
  queued,       \* the last transport command in the ring
  transport,    \* transport_frame_
  jumpBase,     \* jump_base_
  adopted,      \* plan_generation_
  \* The callback.
  cb,           \* where the block is, and the next track to mix
  stream,       \* stream_frame_
  epoch,        \* epoch_
  layout,       \* layout_
  playing,      \* playing_
  \* History.
  heard,        \* what each track played in this block, and from which source
  leapt         \* the tracks whose source was read two epochs before its own

appVars  == <<appEpoch, appLayout, longest, op, calls>>
headVars == <<transport, jumpBase, adopted, stream, epoch, layout>>
cbVars   == <<headVars, cb, playing, heard, leapt>>
vars == <<appVars, source, node, queued, cbVars>>

\* What the constants are: stems of finite length mixed in order, loops that are
\* not empty.
TransportConstants ==
  /\ \E n \in Nat : Tracks = 1..n
  /\ Frames \in [Tracks -> Nat]
  /\ Block \in Nat /\ Ring \in Nat /\ MinLoop \in Nat \ {0}
  /\ SeekFrames \subseteq Nat
  /\ \A l \in Loops : l[1] \in Nat /\ l[2] \in Nat

NoLoop == [looping |-> FALSE, start |-> 0, end |-> 0]

Looping(start, end) == [looping |-> TRUE, start |-> start, end |-> end]

NoPlan == [kind |-> "none", frame |-> 0, base |-> 0, layout |-> NoLoop, epoch |-> 0]

NoSource == [live |-> FALSE, pos |-> 0, epoch |-> 0, layout |-> NoLoop, early |-> FALSE]

Idle == [pc |-> "idle", plan |-> NoPlan, left |-> {}, track |-> 0]

Silence == [t \in Tracks |-> [epoch |-> 0, layout |-> NoLoop, song |-> << >>]]

\* The app thread keeps the longest length of the stems it has loaded.
Longest(loaded) ==
  LET lengths == {Frames[t] : t \in loaded} \cup {0}
  IN  CHOOSE n \in lengths : \A m \in lengths : m <= n

LiveTracks(sources) == {t \in Tracks : sources[t].live}

\* A song some of whose stems are loaded, and not yet played.
Init ==
  /\ appEpoch = 0 /\ appLayout = NoLoop
  /\ \E loaded \in SUBSET Tracks :
       /\ source = [t \in Tracks |-> [NoSource EXCEPT !.live = t \in loaded]]
       /\ longest = Longest(loaded)
  /\ op = Idle /\ calls = 0
  /\ node = [n |-> 0, plan |-> NoPlan]
  /\ queued = "none"
  /\ transport = 0 /\ jumpBase = 0 /\ adopted = 0
  /\ cb = [pc |-> "between", track |-> 0]
  /\ stream = 0 /\ epoch = 0 /\ layout = NoLoop
  /\ playing = FALSE /\ heard = Silence /\ leapt = {}

-----------------------------------------------------------------------------
(* Layouts, sources and the head. *)

Later(a, b) == IF a < b THEN b ELSE a

Earlier(a, b) == IF a < b THEN a ELSE b

\* LoopLayout::SongFrameAt.
SongFrameAt(l, frame) ==
  IF l.looping /\ frame >= l.end
  THEN l.start + ((frame - l.end) % (l.end - l.start))
  ELSE frame

\* Mutant: a seek past the end of a short stem is not cut off at it.
BuiltSourceUncut(t, frame, stamp) == [stamp EXCEPT !.pos = frame]

\* BuildSource and SeekBuilt: a source at a frame, the end of the file at most.
BuiltSource(t, frame, stamp) ==
  [stamp EXCEPT !.pos = IF stamp.layout.looping THEN frame ELSE Earlier(frame, Frames[t])]

\* What a source still has to deliver: a loop never ends.
Remaining(t, s) == IF s.layout.looping THEN Ring + Block ELSE Frames[t] - s.pos

\* PlannedHead: where the callback is, or will be once it has the newest plan.
JumpPending == node.plan.kind = "jump" /\ node.n # adopted

\* Mutant: a jump's elapsed frames are counted from the plan's base, which only
\* a keep fills in.
PlannedFromPlanBase ==
  LET plan == node.plan
  IN  CASE plan.kind = "none" -> transport
        [] JumpPending        -> plan.frame
        [] OTHER              -> plan.frame + Later(transport - plan.base, 0)

PlannedStream ==
  LET plan == node.plan
      base == IF plan.kind = "jump" THEN jumpBase ELSE plan.base
  IN  CASE plan.kind = "none" -> transport
        [] JumpPending        -> plan.frame
        [] OTHER              -> plan.frame + Later(transport - base, 0)

PlannedSong == SongFrameAt(appLayout, PlannedStream)

-----------------------------------------------------------------------------
(* Calls of the app thread. *)

Begins(pc, plan, track) ==
  /\ op.pc = "idle"
  /\ calls < MaxCalls
  /\ calls' = calls + 1
  /\ op' = [pc |-> pc, plan |-> plan, left |-> Tracks, track |-> track]

\* Relayout in a song at 1.0x is PlainRelayout: the new epoch's sources are
\* staged first, which takes as long as opening and priming files takes.
Relayout(plan) ==
  /\ Begins("staging", [plan EXCEPT !.epoch = appEpoch + 1], 0)
  /\ UNCHANGED <<appEpoch, appLayout, longest, source, node, queued, cbVars>>

Jump(frame, l) == [NoPlan EXCEPT !.kind = "jump", !.frame = frame, !.layout = l]

Keep(frame, base, l) ==
  [NoPlan EXCEPT !.kind = "keep", !.frame = frame, !.base = base, !.layout = l]

\* Play starts and primes the sources before it queues the command, and Pause
\* stops them after: what they have buffered stays.
PlayOrPause(command) ==
  /\ Begins("idle", NoPlan, 0)
  /\ queued' = command
  /\ UNCHANGED <<appEpoch, appLayout, longest, source, node, cbVars>>

Stop ==
  /\ Begins("staging", [Jump(0, appLayout) EXCEPT !.epoch = appEpoch + 1], 0)
  /\ queued' = "stop"
  /\ UNCHANGED <<appEpoch, appLayout, longest, source, node, cbVars>>

\* SeekTarget: past the loop's end the head lands on its start.
SeekTarget(frame) ==
  IF appLayout.looping /\ frame >= appLayout.end THEN appLayout.start ELSE frame

Seek(frame) == Relayout(Jump(SeekTarget(Earlier(frame, longest)), appLayout))

LoopIsValid(start, end) == end <= longest /\ end - start >= MinLoop

\* A head short of the loop's end carries on, unless a jump is still to land.
SetLoop(start, end) ==
  /\ LoopIsValid(start, end)
  /\ Relayout(
       LET l == Looping(start, end)
       IN  CASE PlannedSong >= end -> Jump(start, l)
             [] JumpPending        -> Jump(PlannedSong, l)
             [] OTHER              -> Keep(PlannedSong, transport, l))

ClearLoop ==
  /\ appLayout.looping
  /\ Relayout(IF JumpPending THEN Jump(PlannedSong, NoLoop)
                             ELSE Keep(PlannedSong, transport, NoLoop))

\* Mutant: the new epoch is taken before the stems are known to be readable.
StageFailsLate ==
  /\ op.pc = "staging"
  /\ op' = Idle
  /\ \E t \in Tracks : source[t].live
  /\ appEpoch' = op.plan.epoch
  /\ UNCHANGED <<appLayout, longest, calls, source, node, queued, cbVars>>

\* A stem cannot be rebuilt: what was staged is dropped, and the sources the
\* callback plays were never touched.
StageFails ==
  /\ op.pc = "staging"
  /\ op' = Idle
  /\ \E t \in Tracks : source[t].live
  /\ UNCHANGED <<appEpoch, appLayout, longest, calls, source, node, queued,
                 cbVars>>

\* Every stem is staged; CommitPlan begins.
Staged ==
  /\ op.pc = "staging"
  /\ appEpoch' = op.plan.epoch
  /\ appLayout' = op.plan.layout
  /\ op' = [op EXCEPT !.pc = "committing"]
  /\ UNCHANGED <<longest, calls, source, node, queued, cbVars>>

\* The source PlainRelayout stages for a track.
StagedSource(t) ==
  BuiltSource(t, op.plan.frame,
    [live |-> TRUE, pos |-> 0, epoch |-> op.plan.epoch, layout |-> op.plan.layout,
     early |-> op.plan.kind = "keep"])

CommitStaged(t) ==
  /\ op.pc = "committing"
  /\ t \in op.left
  /\ \A u \in op.left : t <= u
  /\ op' = [op EXCEPT !.left = @ \ {t}]
  /\ source' = [source EXCEPT ![t] = IF @.live THEN StagedSource(t) ELSE @]
  /\ leapt' = leapt \ {t}
  /\ UNCHANGED <<appEpoch, appLayout, longest, calls, node, queued, headVars, cb,
                 playing, heard>>

PublishPlan ==
  /\ op.pc = "committing"
  /\ op.left = {}
  /\ node' = [n |-> node.n + 1, plan |-> op.plan]
  /\ op' = Idle
  /\ UNCHANGED <<appEpoch, appLayout, longest, calls, source, queued, cbVars>>

\* LoadTrack reads the planned head, then opens the file and decodes up to it.
LoadTrack(t) ==
  /\ Begins("loading", [NoPlan EXCEPT !.frame = PlannedStream], t)
  /\ UNCHANGED <<appEpoch, appLayout, longest, source, node, queued, cbVars>>

LoadFails ==
  /\ op.pc = "loading"
  /\ op' = Idle
  /\ UNCHANGED <<appEpoch, appLayout, longest, calls, source, node, queued,
                 cbVars>>

\* The stem joins with JoinStamp, behind the head by what was played meanwhile.
JoinedSource(t) ==
  BuiltSource(t, op.plan.frame,
    [live |-> TRUE, pos |-> 0, epoch |-> appEpoch, layout |-> appLayout, early |-> FALSE])

Loaded ==
  /\ op.pc = "loading"
  /\ source' = [source EXCEPT ![op.track] = JoinedSource(op.track)]
  /\ longest' = Longest(LiveTracks(source'))
  /\ op' = Idle
  /\ leapt' = leapt \ {op.track}
  /\ UNCHANGED <<appEpoch, appLayout, calls, node, queued, headVars, cb, playing,
                 heard>>

UnloadTrack(t) ==
  /\ Begins("idle", NoPlan, 0)
  /\ source[t].live
  /\ source' = [source EXCEPT ![t] = NoSource]
  /\ longest' = Longest(LiveTracks(source'))
  /\ leapt' = leapt \ {t}
  /\ UNCHANGED <<appEpoch, appLayout, node, queued, headVars, cb, playing, heard>>

-----------------------------------------------------------------------------
(* The callback. *)

\* Mutant: a keep lands at the frame it was planned at.
KeepLandsAsPlanned(plan) == plan.frame

\* A keep counts on from where the head stood when it was planned.
KeepLandsAt(plan) == plan.frame + Later(transport - plan.base, 0)

\* AdoptPlan and AdoptTransport.
AdoptPlan ==
  LET plan == node.plan IN
  /\ adopted' = node.n
  /\ IF node.n = adopted
     THEN UNCHANGED <<stream, epoch, layout, jumpBase>>
     ELSE /\ epoch' = plan.epoch
          /\ layout' = plan.layout
          /\ stream' = IF plan.kind = "keep" THEN KeepLandsAt(plan) ELSE plan.frame
          /\ jumpBase' = IF plan.kind = "keep" THEN jumpBase ELSE transport
  /\ UNCHANGED transport

\* Process: the commands, then the newest plan.
BlockOpens ==
  /\ cb.pc = "between"
  /\ playing' = CASE queued = "none" -> playing
                  [] queued = "play" -> TRUE
                  [] OTHER           -> FALSE
  /\ queued' = "none"
  /\ AdoptPlan
  /\ cb' = [pc |-> "adopting", track |-> 0]
  /\ UNCHANGED <<appVars, source, node, heard, leapt>>

\* A plan published since is adopted too; a paused block plays nothing.
BlockAdoptsAgain ==
  /\ cb.pc = "adopting"
  /\ AdoptPlan
  /\ cb' = IF playing /\ transport < MaxFrames
           THEN [pc |-> "mixing", track |-> 1]
           ELSE [pc |-> "between", track |-> 0]
  /\ UNCHANGED <<appVars, source, node, queued, playing, heard, leapt>>

\* Mutant: any source newer than the callback may sound, a jump's too.
NewerMaySound(s) == s.live /\ s.epoch >= epoch

\* TransportFrameFor: whether a source may sound, and the stream frame it then
\* stands at.
MaySound(s) == s.live /\ (s.epoch = epoch \/ (s.early /\ s.epoch > epoch))

\* Mutant: an early source is taken to the old loop's stream frame.
FrameInTheOldStream(s) == stream

FrameFor(s) == IF s.epoch = epoch THEN stream ELSE SongFrameAt(layout, stream)

\* AlignTo: discards at most what is buffered.  A source ahead waits.
AlignedTo(s, buffered) ==
  LET lag == FrameFor(s) - s.pos
  IN  [s EXCEPT !.pos = IF lag < 0 THEN @ ELSE @ + Earlier(lag, buffered)]

\* MixTrack: the source is aligned and read; short of data it gives what it has.
MixTrack(t) ==
  LET s == source[t] IN
  /\ cb.pc = "mixing"
  /\ cb.track = t
  /\ cb' = [cb EXCEPT !.track = t + 1]
  /\ IF ~MaySound(s)
     THEN UNCHANGED <<source, heard>>
     ELSE \E buffered \in 0..Earlier(Ring, Remaining(t, s)) :
          LET aligned == AlignedTo(s, buffered) IN
          IF aligned.pos # FrameFor(s)
          THEN source' = [source EXCEPT ![t] = aligned] /\ UNCHANGED heard
          ELSE \E got \in 0..Earlier(Block, Remaining(t, aligned)) :
               /\ source' = [source EXCEPT ![t] = [aligned EXCEPT !.pos = @ + got]]
               /\ heard' = [heard EXCEPT ![t] =
                    [epoch |-> s.epoch, layout |-> s.layout,
                     song |-> [i \in 1..got |->
                                 SongFrameAt(s.layout, aligned.pos + i - 1)]]]
  /\ leapt' = IF MaySound(s) /\ s.epoch > epoch + 1 THEN leapt \cup {t} ELSE leapt
  /\ UNCHANGED <<appVars, node, queued, headVars, playing>>

\* What the transport moves by: the song ends with its longest stem.
Advance ==
  IF layout.looping THEN Block ELSE Earlier(Later(longest - stream, 0), Block)

\* AdvanceTransport.
BlockEnds ==
  /\ cb.pc = "mixing"
  /\ cb.track \notin Tracks
  /\ playing' = (Advance > 0)
  /\ stream' = stream + Advance
  /\ transport' = transport + Advance
  /\ cb' = [pc |-> "between", track |-> 0]
  /\ heard' = Silence
  /\ UNCHANGED <<appVars, source, node, queued, jumpBase, adopted, epoch, layout,
                 leapt>>

-----------------------------------------------------------------------------

Next ==
  \/ \E command \in {"play", "pause"} : PlayOrPause(command)
  \/ Stop
  \/ \E frame \in SeekFrames : Seek(frame)
  \/ \E l \in Loops : SetLoop(l[1], l[2])
  \/ ClearLoop
  \/ StageFails
  \/ Staged
  \/ \E t \in Tracks : CommitStaged(t)
  \/ PublishPlan
  \/ \E t \in Tracks : LoadTrack(t)
  \/ LoadFails
  \/ Loaded
  \/ \E t \in Tracks : UnloadTrack(t)
  \/ BlockOpens
  \/ BlockAdoptsAgain
  \/ \E t \in Tracks : MixTrack(t)
  \/ BlockEnds

Spec == Init /\ [][Next]_vars

-----------------------------------------------------------------------------

IsLayout(l) == l.looping \in BOOLEAN /\ l.start \in Nat /\ l.end \in Nat

\* Every variable holds a value of its type; an adopted plan was published, and
\* no source stands past the end of its file.
TypeOK ==
  /\ playing \in BOOLEAN
  /\ {appEpoch, longest, calls, transport, jumpBase, stream, epoch} \subseteq Nat
  /\ IsLayout(appLayout) /\ IsLayout(layout)
  /\ op.pc \in {"idle", "staging", "committing", "loading"}
  /\ \A t \in Tracks :
       /\ source[t].pos \in Nat /\ IsLayout(source[t].layout)
       /\ ~source[t].layout.looping => source[t].pos <= Frames[t]
  /\ node.plan.frame \in Nat /\ adopted \in 0..node.n
  /\ queued \in {"none", "play", "pause", "stop"}
  /\ cb.pc \in {"between", "adopting", "mixing"}
  /\ leapt \subseteq Tracks

\* A block that starts here would play past the end of this layout's loop.
CrossesEnd(l) == l.looping /\ SongFrameAt(layout, stream) + Block > l.end

\* Every stem heard plays the song frames the callback reports, except that
\* while a loop change is landing a stem may already, or still, turn at the end
\* of the other layout's loop.
HeardAtTheHead ==
  \A t \in Tracks :
    (heard[t].epoch = epoch \/ ~(CrossesEnd(layout) \/ CrossesEnd(heard[t].layout)))
      => \A i \in 1..Len(heard[t].song) :
           heard[t].song[i] = SongFrameAt(layout, stream + i - 1)

Landed == op.pc # "committing" /\ adopted = node.n

\* Once a plan has landed every stem loaded is of its epoch and its layout: none
\* is left behind on an epoch the callback never plays again, by a relayout that
\* failed, by one that overtook another or by a stem that joined meanwhile.
NoStemStranded ==
  Landed => \A t \in LiveTracks(source) :
              /\ source[t].epoch = epoch
              /\ source[t].layout = layout

\* No stem gets more than a block ahead of the head, where it waits in silence.
\* (A loop set as the song ends lets a stem read on past the end for one block.)
\* Left out are stems that played two epochs early: two loop changes within one
\* block make the second's sources play in the layout before the first's, ahead
\* of where the song goes on if the first's loop had turned meanwhile.
NoStemAhead ==
  Landed => \A t \in LiveTracks(source) \ leapt : source[t].pos <= stream + Block

\* Where the app thread takes the head to be is where it is.
HeadExact == adopted = node.n => PlannedStream = stream

PassedEnd(l, plan) == l.looping /\ KeepLandsAt(plan) >= l.end

\* A loop set or cleared under a playing head does not move the song, however
\* late it lands, unless the head passed the end of a loop meanwhile (or it
\* overtook another change, which may have passed one).
KeepMovesNothing ==
  (adopted' # adopted /\ node.n = adopted + 1 /\ node.plan.kind = "keep")
    => \/ SongFrameAt(layout', stream') = SongFrameAt(layout, stream)
       \/ PassedEnd(layout, node.plan)
       \/ PassedEnd(layout', node.plan)
=============================================================================
