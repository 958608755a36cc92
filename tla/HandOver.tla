------------------------------ MODULE HandOver ------------------------------
(***************************************************************************)
(* mixer_prime.cpp, mixer_handover.cpp and the plan handling of mixer.cpp   *)
(* and mixer_render.cpp: how a song that plays plainly ("bypass") comes to  *)
(* play through a bank of key buses when its speed leaves 1.0x.             *)
(*                                                                         *)
(* The app thread primes a bank of buses, publishes it slot by slot to the  *)
(* bank not in use, then publishes a plan that names it.  A hand-over plan  *)
(* switches at one stream frame ahead of the head, without a gap; the       *)
(* callback judges it at first sight and the app thread waits for the       *)
(* verdict.  A jump plan switches when it is adopted.  The bank a plan      *)
(* replaces is freed only after the plan is published.                      *)
(*                                                                         *)
(* One call runs at a time (commandMutex).  Loops are out: a keep carries   *)
(* on at the head, as SetLoop and ClearLoop do.  The rings hold every       *)
(* command, and of the commands only those that start and end playback      *)
(* matter here: the last one queued.  What a source plays is               *)
(* MixerTransport's subject.                                               *)
(***************************************************************************)
EXTENDS Integers, FiniteSets

CONSTANTS
  Slots,              \* the key buses in use; a bank has a slot for each
  Lead,               \* handover_lead_frames_
  Attempts,           \* kHandOverAttempts
  Lag,                \* the frames a bank is primed with
  Block,              \* frames of a callback
  Longest,            \* longest_frames_
  MaxCalls,           \* bound of the calls made
  PrimeMayFail,       \* may a stem be unreadable?
  VerdictMayTimeOut,  \* may the callback stall past kVerdictTimeout?
  KeepWhilePaused     \* may the loop change while the song is paused?

\* What the program takes these to be.
HandOverConstants ==
  /\ Slots # {}
  /\ {Lead, Attempts, Lag, Block, Longest} \subseteq Nat

VARIABLES
  \* The app thread.
  appPlaying,   \* app_playing_
  appEngaged,   \* app_engaged_
  appPrimed,    \* app_primed_
  appBank,      \* app_bank_
  slow,         \* app_rate_ is not kUnityRate
  nextGen,      \* next_bus_generation_
  op,           \* the call in progress
  calls,        \* calls made so far
  mishaps,      \* history: what has gone wrong so far
  \* Shared.
  node,         \* plans_: the newest plan, and its publisher generation
  buses,        \* buses_: the generation of the bus in each slot, 0 if empty
  queued,       \* the last transport command in the ring
  transport,    \* transport_frame_
  jumpBase,     \* jump_base_
  planAdopted,  \* plan_generation_
  engaged,      \* engaged_
  seen,         \* seen_generation_
  missed,       \* missed_generation_
  \* The callback.
  cb,           \* where the block is, and the plan it has loaded
  stream,       \* stream_frame_
  playing,      \* playing_
  pending,      \* handover_pending_
  handover,     \* handover_
  bank,         \* bank_
  snap,         \* rt_buses_: their generations
  primedGen     \* primed_generation_

appVars  == <<appPlaying, appEngaged, appPrimed, appBank, slow, nextGen, op, calls,
              mishaps>>
sentVars == <<node, buses, queued>>
headVars == <<transport, stream, jumpBase>>
cbVars   == <<planAdopted, engaged, seen, missed, cb, playing, pending, handover,
              bank, snap, primedGen>>
handOverVars == <<appVars, sentVars, headVars, cbVars>>

Banks == {0, 1}

NoPlan == [kind |-> "none", frame |-> 0, base |-> 0, primed |-> FALSE,
           bank |-> 0, gen |-> 0]

Plan(kind, frame, base) ==
  [NoPlan EXCEPT !.kind = kind, !.frame = frame, !.base = base]

Empty == [s \in Slots |-> 0]

Idle == [pc |-> "idle", call |-> "none", plan |-> NoPlan, attempt |-> 0,
         lead |-> Lead, stalled |-> FALSE, left |-> {}, wasSlow |-> FALSE,
         wasEngaged |-> FALSE]

HandOverInit ==
  /\ appPlaying = FALSE /\ appEngaged = FALSE /\ appPrimed = FALSE
  /\ appBank = 0 /\ slow = FALSE /\ nextGen = 0
  /\ op = Idle /\ calls = 0 /\ mishaps = {}
  /\ node = [n |-> 0, plan |-> NoPlan]
  /\ buses = [b \in Banks |-> Empty]
  /\ queued = "none"
  /\ transport = 0 /\ stream = 0 /\ jumpBase = 0
  /\ planAdopted = 0 /\ engaged = FALSE /\ seen = 0 /\ missed = 0
  /\ cb = [pc |-> "between", again |-> FALSE, node |-> [n |-> 0, plan |-> NoPlan]]
  /\ playing = FALSE /\ pending = FALSE /\ handover = NoPlan
  /\ bank = 0 /\ snap = Empty /\ primedGen = 0

-----------------------------------------------------------------------------
(* The head, as the app thread knows it. *)

Later(a, b) == IF a < b THEN b ELSE a

JumpPending == node.plan.kind = "jump" /\ node.n # planAdopted

PlannedStream ==
  LET plan == node.plan
      base == IF plan.kind = "jump" THEN jumpBase ELSE plan.base
  IN  CASE plan.kind = "none"     -> transport
        [] plan.kind = "handOver" -> plan.frame + transport - plan.base
        [] JumpPending            -> plan.frame
        [] OTHER                  -> plan.frame + Later(transport - base, 0)

\* read_frame_: the song frame heard, a lag behind the one fed.
Position == IF engaged THEN Later(stream - Lag, 0) ELSE stream

\* ReprimePlan.
Reprime ==
  Plan("jump", IF engaged /\ ~JumpPending THEN Position ELSE PlannedStream, 0)

-----------------------------------------------------------------------------
(* Calls of the app thread. *)

Begins(name, pc, plan) ==
  /\ op.pc = "idle"
  /\ UNCHANGED mishaps
  /\ calls < MaxCalls
  /\ calls' = calls + 1
  /\ op' = [Idle EXCEPT !.pc = pc, !.call = name, !.plan = plan,
                        !.wasSlow = slow, !.wasEngaged = appEngaged]

PlayCall ==
  /\ Begins("play", "idle", NoPlan)
  /\ appPlaying' = TRUE
  /\ queued' = "play"
  /\ UNCHANGED <<appEngaged, appPrimed, appBank, slow, nextGen, node, buses,
                 headVars, cbVars>>

PauseCall ==
  /\ Begins("pause", "idle", NoPlan)
  /\ appPlaying' = FALSE
  /\ queued' = "pause"
  /\ UNCHANGED <<appEngaged, appPrimed, appBank, slow, nextGen, node, buses,
                 headVars, cbVars>>

\* SetRate: leaving 1.0x engages the buses, and primes them unless they play.
SetRate(rate) ==
  /\ Begins("setRate",
            IF rate = "slow" /\ (~appPrimed \/ ~engaged) THEN "prime" ELSE "idle",
            NoPlan)
  /\ slow' = (rate = "slow")
  /\ appEngaged' = (appEngaged \/ rate = "slow")
  /\ UNCHANGED <<appPlaying, appPrimed, appBank, nextGen, sentVars, headVars,
                 cbVars>>

\* Seek: a jump, through the buses if the speed still wants them.
SeekCall(frame) ==
  /\ Begins("jump", IF slow THEN "stage" ELSE "plain", Plan("jump", frame, 0))
  /\ appEngaged' = slow
  /\ UNCHANGED <<appPlaying, appPrimed, appBank, slow, nextGen, sentVars,
                 headVars, cbVars>>

\* Stop: a rewind, and playback ends.
StopCall ==
  /\ Begins("jump", IF slow THEN "stage" ELSE "plain", Plan("jump", 0, 0))
  /\ appPlaying' = FALSE
  /\ queued' = "pause"
  /\ appEngaged' = slow
  /\ UNCHANGED <<appPrimed, appBank, slow, nextGen, node, buses, headVars, cbVars>>

\* SetLoop, ClearLoop: the same head, unless a jump is still to land.
LoopCall ==
  /\ appPlaying \/ KeepWhilePaused
  /\ Begins("keep",
            IF JumpPending /\ appEngaged THEN "stage" ELSE "plain",
            Plan(IF JumpPending THEN "jump" ELSE "keep", PlannedStream, transport))
  /\ UNCHANGED <<appPlaying, appEngaged, appPrimed, appBank, slow, nextGen,
                 sentVars, headVars, cbVars>>

Goes(pc) == op' = [op EXCEPT !.pc = pc]

Succeeds == op' = Idle

Well == UNCHANGED mishaps

Mishap(what) == mishaps' = mishaps \cup {what}

\* A stem cannot be read.
Unreadable == PrimeMayFail /\ Mishap("unreadable")

\* A change that fails is undone.  Relayout drops the result of the priming
\* that follows a keep.
Fails ==
  /\ op' = Idle
  /\ IF op.call = "keep"
     THEN UNCHANGED <<slow, appEngaged>>
     ELSE slow' = op.wasSlow /\ appEngaged' = op.wasEngaged

\* PlainRelayout, up to the commit: sources are staged, or cannot be.
StagePlain ==
  /\ op.pc = "plain"
  /\ \/ Goes("publishPlan") /\ Well /\ UNCHANGED <<slow, appEngaged>>
     \/ Unreadable /\ Fails
  /\ UNCHANGED <<appPlaying, appPrimed, appBank, nextGen, calls, sentVars,
                 headVars, cbVars>>

\* PrimeNow: ahead of the head while the song plays plainly, else by a jump.
PrimeNow ==
  /\ op.pc = "prime"
  /\ IF appPlaying /\ ~engaged
     THEN Goes("handOver")
     ELSE op' = [op EXCEPT !.pc = "stage", !.plan = Reprime]
  /\ UNCHANGED <<appPlaying, appEngaged, appPrimed, appBank, slow, nextGen,
                 calls, mishaps, sentVars, headVars, cbVars>>

\* Mutant: the generation is taken and not counted.
BuildUncounted(plan, more) ==
  /\ nextGen' = nextGen
  /\ op' = [more EXCEPT !.pc = "publishBank", !.left = Slots,
              !.plan = [plan EXCEPT !.primed = TRUE, !.bank = 1 - appBank,
                                    !.gen = nextGen + 1]]

\* Mutant: the bank is built on the side in use.
BuildInUse(plan, more) ==
  /\ nextGen' = nextGen + 1
  /\ op' = [more EXCEPT !.pc = "publishBank", !.left = Slots,
              !.plan = [plan EXCEPT !.primed = TRUE, !.bank = appBank,
                                    !.gen = nextGen + 1]]

\* A primed bank for the idle side, and the plan that will name it.
Build(plan, more) ==
  /\ nextGen' = nextGen + 1
  /\ op' = [more EXCEPT !.pc = "publishBank", !.left = Slots,
              !.plan = [plan EXCEPT !.primed = TRUE, !.bank = 1 - appBank,
                                    !.gen = nextGen + 1]]

\* The loop of HandOver; TryHandOver, when the bank cannot be built, gives up.
TryHandOver ==
  /\ op.pc = "handOver"
  /\ LET plan == Plan("handOver", PlannedStream + op.lead, transport + op.lead)
         jump == [op EXCEPT !.pc = "stage", !.plan = Reprime]
     IN  IF op.attempt = Attempts \/ JumpPending \/ engaged
         THEN op' = jump /\ Well /\ UNCHANGED nextGen
         ELSE \/ Build(plan, op) /\ Well
              \/ Unreadable /\ op' = jump /\ UNCHANGED nextGen
  /\ UNCHANGED <<appPlaying, appEngaged, appPrimed, appBank, slow, calls,
                 sentVars, headVars, cbVars>>

\* PrimedRelayout, up to the publication; a hand-over that stalled is retracted.
StagePrimed ==
  /\ op.pc = "stage"
  /\ \/ /\ Build(op.plan, op)
        /\ Well
        /\ UNCHANGED <<slow, appEngaged>>
     \/ /\ Unreadable
        /\ IF op.stalled THEN Goes("retract") /\ UNCHANGED <<slow, appEngaged>>
                         ELSE Fails
        /\ UNCHANGED nextGen
  /\ UNCHANGED <<appPlaying, appPrimed, appBank, calls, sentVars, headVars, cbVars>>

PublishBus(b, s, gen) == buses' = [buses EXCEPT ![b][s] = gen]

PublishBank(s) ==
  /\ op.pc = "publishBank"
  /\ s \in op.left
  /\ PublishBus(op.plan.bank, s, op.plan.gen)
  /\ op' = [op EXCEPT !.left = @ \ {s},
                      !.pc = IF op.left = {s} THEN "publishPlan" ELSE @]
  /\ UNCHANGED <<appPlaying, appEngaged, appPrimed, appBank, slow, nextGen,
                 calls, mishaps, node, queued, headVars, cbVars>>

Sends(plan) == node' = [n |-> node.n + 1, plan |-> plan]

\* Where a call goes once its plan is out.
AfterPlan ==
  CASE op.plan.kind = "handOver"                  -> "await"
    [] op.plan.kind = "jump" /\ op.plan.primed  -> "adoptBank"
    [] op.plan.kind = "jump" /\ ~op.plan.primed -> "freeAll"
    [] op.plan.kind = "keep"                      -> "kept"

PublishPlan ==
  /\ op.pc = "publishPlan"
  /\ Sends(op.plan)
  /\ op' = [op EXCEPT !.pc = AfterPlan, !.left = Slots]
  /\ UNCHANGED <<appPlaying, appEngaged, appPrimed, appBank, slow, nextGen,
                 calls, mishaps, buses, queued, headVars, cbVars>>

\* Mutant: a keep forgets the hand-over it drops.
PrimeNever ==
  /\ op.pc = "kept"
  /\ Succeeds
  /\ UNCHANGED <<appPlaying, appEngaged, appPrimed, appBank, slow, nextGen,
                 calls, mishaps, sentVars, headVars, cbVars>>

\* A keep drops a hand-over still ahead, so it is made anew, if the song is
\* playing.
PrimeAwaitingEngage ==
  /\ op.pc = "kept"
  /\ IF appPrimed /\ appPlaying /\ ~engaged THEN Goes("prime") ELSE Succeeds
  /\ UNCHANGED <<appPlaying, appEngaged, appPrimed, appBank, slow, nextGen,
                 calls, mishaps, sentVars, headVars, cbVars>>

\* AwaitVerdict.
Verdict ==
  /\ op.pc = "await"
  /\ seen >= op.plan.gen
  /\ Goes(IF missed = op.plan.gen THEN "freeMissed" ELSE "adoptBank")
  /\ UNCHANGED <<appPlaying, appEngaged, appPrimed, appBank, slow, nextGen,
                 calls, mishaps, sentVars, headVars, cbVars>>

VerdictTimesOut ==
  /\ VerdictMayTimeOut
  /\ op.pc = "await"
  /\ seen < op.plan.gen
  /\ op' = [op EXCEPT !.pc = "stage", !.plan = Reprime, !.stalled = TRUE]
  /\ Mishap("stalled")
  /\ UNCHANGED <<appPlaying, appEngaged, appPrimed, appBank, slow, nextGen,
                 calls, sentVars, headVars, cbVars>>

\* FreeBank, slot by slot; [Finishes] once the last slot is empty.
Frees(banks, s, Finishes) ==
  /\ s \in op.left
  /\ buses' = [b \in Banks |->
                 IF b \in banks THEN [buses[b] EXCEPT ![s] = 0] ELSE buses[b]]
  /\ IF op.left = {s} THEN Finishes
     ELSE /\ op' = [op EXCEPT !.left = @ \ {s}]
          /\ UNCHANGED <<appPrimed, appBank, slow, appEngaged>>
  /\ UNCHANGED <<appPlaying, nextGen, calls, mishaps, node, queued, headVars, cbVars>>

\* Mutant: AdoptBank frees the bank just named.
AdoptBankFreesNew(s) ==
  /\ op.pc = "adoptBank"
  /\ Frees({op.plan.bank}, s,
           /\ appBank' = op.plan.bank
           /\ appPrimed' = TRUE
           /\ Succeeds
           /\ UNCHANGED <<slow, appEngaged>>)

AdoptBank(s) ==
  /\ op.pc = "adoptBank"
  /\ Frees({appBank}, s,
           /\ appBank' = op.plan.bank
           /\ appPrimed' = TRUE
           /\ Succeeds
           /\ UNCHANGED <<slow, appEngaged>>)

\* The next attempt looks twice as far ahead.
FreeMissed(s) ==
  /\ op.pc = "freeMissed"
  /\ Frees({op.plan.bank}, s,
           /\ op' = [op EXCEPT !.pc = "handOver", !.attempt = @ + 1, !.lead = 2 * @]
           /\ UNCHANGED <<appPrimed, appBank, slow, appEngaged>>)

\* After a plain jump.
FreeAll(s) ==
  /\ op.pc = "freeAll"
  /\ Frees(Banks, s,
           /\ appPrimed' = FALSE
           /\ Succeeds
           /\ UNCHANGED <<appBank, slow, appEngaged>>)

\* RetractHandOver: a keep at the head, then the bank of the plan it retracts.
Retract ==
  /\ op.pc = "retract"
  /\ Sends(Plan("keep", PlannedStream, transport))
  /\ op' = [op EXCEPT !.pc = "freeRetracted", !.left = Slots]
  /\ Mishap("retracted")
  /\ UNCHANGED <<appPlaying, appEngaged, appPrimed, appBank, slow, nextGen,
                 calls, buses, queued, headVars, cbVars>>

FreeRetracted(s) ==
  /\ op.pc = "freeRetracted"
  /\ Frees({1 - appBank}, s, Fails /\ UNCHANGED <<appPrimed, appBank>>)

-----------------------------------------------------------------------------
(* The callback.  A block adopts the newest plan, loads the buses of its bank, *)
(* looks for a newer plan once more, and mixes.                                *)

Loads(again, otherwise) ==
  cb' = [pc |-> IF node.n = planAdopted THEN otherwise ELSE "loaded",
         again |-> again, node |-> node]

\* Process: ApplyPendingCommands, and AdoptPlan loads the plan.
BlockBegins ==
  /\ cb.pc = "between"
  /\ playing' = CASE queued = "play" -> TRUE
                  [] queued = "pause" -> FALSE
                  [] OTHER -> playing
  /\ queued' = "none"
  /\ Loads(FALSE, "adopted")
  /\ UNCHANGED <<appVars, node, buses, headVars, planAdopted, engaged, seen, missed,
                 pending, handover, bank, snap, primedGen>>

\* Mutant: a hand-over whose frame has passed is taken all the same.
JudgeHandOverLate(plan) ==
  /\ pending' = ~engaged
  /\ handover' = IF ~engaged THEN plan ELSE handover
  /\ missed' = IF engaged THEN plan.gen ELSE missed
  /\ seen' = plan.gen
  /\ UNCHANGED <<engaged, bank, snap, primedGen, headVars>>

JudgeHandOver(plan) ==
  LET takes == ~engaged /\ stream <= plan.frame
  IN  /\ pending' = takes
      /\ handover' = IF takes THEN plan ELSE handover
      /\ missed' = IF takes THEN missed ELSE plan.gen
      /\ seen' = plan.gen
      /\ UNCHANGED <<engaged, bank, snap, primedGen, headVars>>

\* BusesAgree, with at least one bus.
Agree(loaded, gen) == \A s \in Slots : loaded[s] \in {0, gen}

Whole(loaded, gen) == Agree(loaded, gen) /\ \E s \in Slots : loaded[s] # 0

\* Mutant: the transport frame does not count the lag.
EngageAtUncounted(plan, head, from, rest, plain) ==
  /\ bank' = plan.bank
  /\ snap' = buses[plan.bank]
  /\ IF Whole(buses[plan.bank], plan.gen)
     THEN /\ engaged' = TRUE
          /\ primedGen' = plan.gen
          /\ stream' = head + Lag + rest
          /\ transport' = from + rest
     ELSE /\ engaged' = FALSE
          /\ stream' = head + plain
          /\ transport' = from + plain
          /\ UNCHANGED primedGen

\* EngageAt the stream frame [head], whose transport frame is [from], and go on
\* for [rest] frames, or for [plain] frames if the bank is not whole.
EngageAt(plan, head, from, rest, plain) ==
  /\ bank' = plan.bank
  /\ snap' = buses[plan.bank]
  /\ IF Whole(buses[plan.bank], plan.gen)
     THEN /\ engaged' = TRUE
          /\ primedGen' = plan.gen
          /\ stream' = head + Lag + rest
          /\ transport' = from + Lag + rest
     ELSE /\ engaged' = FALSE
          /\ stream' = head + plain
          /\ transport' = from + plain
          /\ UNCHANGED primedGen

\* Mutant: a plain jump does not leave the buses.
AdoptTransportEngaged(plan) ==
  /\ pending' = FALSE
  /\ IF plan.kind = "keep"
     THEN /\ stream' = plan.frame + Later(transport - plan.base, 0)
          /\ UNCHANGED <<transport, jumpBase, engaged, bank, snap, primedGen>>
     ELSE /\ jumpBase' = transport
          /\ IF plan.primed
             THEN EngageAt(plan, plan.frame, transport, 0, 0)
             ELSE /\ stream' = plan.frame
                  /\ UNCHANGED <<transport, engaged, bank, snap, primedGen>>
  /\ UNCHANGED <<handover, seen, missed>>

AdoptTransport(plan) ==
  /\ pending' = FALSE
  /\ IF plan.kind = "keep"
     THEN /\ stream' = plan.frame + Later(transport - plan.base, 0)
          /\ UNCHANGED <<transport, jumpBase, engaged, bank, snap, primedGen>>
     ELSE /\ jumpBase' = transport
          /\ IF plan.primed
             THEN EngageAt(plan, plan.frame, transport, 0, 0)
             ELSE /\ stream' = plan.frame
                  /\ engaged' = FALSE
                  /\ UNCHANGED <<transport, bank, snap, primedGen>>
  /\ UNCHANGED <<handover, seen, missed>>

Adopt ==
  /\ cb.pc = "loaded"
  /\ IF cb.node.plan.kind = "handOver"
     THEN JudgeHandOver(cb.node.plan) ELSE AdoptTransport(cb.node.plan)
  /\ cb' = [cb EXCEPT !.pc = "applied"]
  /\ UNCHANGED <<appVars, sentVars, planAdopted, playing>>

\* plan_generation_ is stored last.
Adopted ==
  /\ cb.pc = "applied"
  /\ planAdopted' = cb.node.n
  /\ cb' = [cb EXCEPT !.pc = "adopted"]
  /\ UNCHANGED <<appVars, sentVars, headVars, engaged, seen, missed, playing,
                 pending, handover, bank, snap, primedGen>>

SnapshotBuses ==
  /\ cb.pc = "adopted"
  /\ snap' = buses[bank]
  /\ cb' = [cb EXCEPT !.pc = IF cb.again THEN "mix" ELSE "snapped"]
  /\ UNCHANGED <<appVars, sentVars, headVars, planAdopted, engaged, seen, missed,
                 playing, pending, handover, bank, primedGen>>

AdoptAgain ==
  /\ cb.pc = "snapped"
  /\ Loads(TRUE, "mix")
  /\ UNCHANGED <<appVars, sentVars, headVars, planAdopted, engaged, seen, missed,
                 playing, pending, handover, bank, snap, primedGen>>

HoldForBusSwitch == engaged /\ ~Agree(snap, primedGen)

Into == handover.frame - stream

HandsOver == pending /\ Into \in 0..(Block - 1)

Mixes == cb.pc = "mix" /\ cb' = [cb EXCEPT !.pc = "between"]

MixNothing ==
  /\ Mixes
  /\ ~playing \/ HoldForBusSwitch
  /\ UNCHANGED <<appVars, sentVars, headVars, planAdopted, engaged, seen, missed,
                 playing, pending, handover, bank, snap, primedGen>>

\* AdvanceTransport stops at the end of the song.
Advance(from, frames) ==
  LET left == Later(Longest - from, 0) IN IF left < frames THEN left ELSE frames

MixPlain ==
  /\ Mixes
  /\ playing /\ ~engaged /\ ~HandsOver
  /\ stream' = stream + Advance(stream, Block)
  /\ transport' = transport + Advance(stream, Block)
  /\ playing' = (Advance(stream, Block) # 0)
  /\ UNCHANGED <<appVars, sentVars, jumpBase, planAdopted, engaged, seen, missed,
                 pending, handover, bank, snap, primedGen>>

\* StretchBlock ends when what is heard reaches the end of the song.
StretchTake(heard, frames) == IF heard >= Longest THEN 0 ELSE frames

MixStretched ==
  /\ Mixes
  /\ playing /\ engaged /\ ~HoldForBusSwitch
  /\ stream' = stream + StretchTake(stream - Lag, Block)
  /\ transport' = transport + StretchTake(stream - Lag, Block)
  /\ playing' = (StretchTake(stream - Lag, Block) # 0)
  /\ UNCHANGED <<appVars, sentVars, jumpBase, planAdopted, engaged, seen, missed,
                 pending, handover, bank, snap, primedGen>>

\* HandOverBlock: plain up to the frame, the primed bank for the rest.
MixHandOver ==
  /\ Mixes
  /\ playing /\ ~engaged /\ HandsOver
  /\ LET plain == Advance(stream, Into)
         ended == plain # Into
         rest  == StretchTake(handover.frame, Block - Into)
         more  == Advance(handover.frame, Block - Into)
     IN  IF ended
         THEN /\ stream' = stream + plain
              /\ transport' = transport + plain
              /\ playing' = (plain # 0)
              /\ UNCHANGED <<pending, engaged, bank, snap, primedGen>>
         ELSE /\ pending' = FALSE
              /\ EngageAt(handover, handover.frame, transport + Into, rest, more)
              /\ playing' = (more # 0)
  /\ UNCHANGED <<appVars, sentVars, jumpBase, planAdopted, seen, missed, handover>>

-----------------------------------------------------------------------------

AppStep ==
  \/ PlayCall \/ PauseCall \/ StopCall \/ LoopCall
  \/ \E rate \in {"unity", "slow"} : SetRate(rate)
  \/ \E frame \in {0, Longest} : SeekCall(frame)
  \/ StagePlain \/ PrimeNow \/ TryHandOver \/ StagePrimed
  \/ \E s \in Slots : PublishBank(s)
  \/ PublishPlan \/ PrimeAwaitingEngage \/ Verdict \/ VerdictTimesOut
  \/ \E s \in Slots : AdoptBank(s) \/ FreeMissed(s) \/ FreeAll(s) \/ FreeRetracted(s)
  \/ Retract

Callback ==
  \/ BlockBegins \/ Adopt \/ Adopted \/ SnapshotBuses \/ AdoptAgain
  \/ MixNothing \/ MixPlain \/ MixStretched \/ MixHandOver

HandOverNext == AppStep \/ Callback

HandOverSpec == HandOverInit /\ [][HandOverNext]_handOverVars

-----------------------------------------------------------------------------

Generations == 0..nextGen

\* Every variable holds a value of its type: no bus or verdict bears a
\* generation that was not given out, and no plan is adopted before it exists.
HandOverTypeOK ==
  /\ {appPlaying, appEngaged, appPrimed, slow, engaged, playing, pending} \subseteq BOOLEAN
  /\ {appBank, bank} \subseteq Banks
  /\ {nextGen, calls, node.n, jumpBase, transport, stream} \subseteq Nat
  /\ planAdopted \in 0..node.n
  /\ {seen, missed, primedGen} \subseteq Generations
  /\ buses \in [Banks -> [Slots -> Generations]]
  /\ snap \in [Slots -> Generations]
  /\ queued \in {"none", "play", "pause"}
  /\ mishaps \subseteq {"unreadable", "stalled", "retracted"}

\* What the app thread computes of the head from the newest plan and the
\* transport clock is the callback's own head, whenever the callback has adopted
\* that plan and is between blocks: no lag, jump or hand-over is counted twice
\* or not at all (PlannedHead).
HeadExact ==
  (cb.pc = "between" /\ planAdopted = node.n) => PlannedStream = stream

\* A hand-over the callback has accepted is still ahead: it can never be passed
\* by and forgotten (JudgeHandOver, mixer_handover.cpp:7).
NeverPassed == pending => stream <= handover.frame

\* The bank that plays is whole, unless the plan that replaces it is readable
\* already: no bank is freed or rebuilt under a callback that does not stall.
BankWhole ==
  (engaged /\ planAdopted = node.n /\ mishaps \subseteq {"unreadable"}) =>
    \A s \in Slots : buses[bank][s] = primedGen

\* A callback that stalls may find its bank being rebuilt, but with no call at
\* work the newest plan is one it can play.
BankPlays ==
  (engaged /\ planAdopted = node.n /\ op.pc = "idle") =>
    \A s \in Slots : buses[bank][s] = primedGen

\* ... at least when no hand-over was retracted.
BankPlaysUnretracted == "retracted" \notin mishaps => BankPlays

\* Nobody is at work, and the callback has caught up.
Settled == op.pc = "idle" /\ queued = "none" /\ planAdopted = node.n /\ cb.pc = "between"

\* Once the app thread has nothing under way and the callback has caught up, a
\* song that plays at another speed plays through its buses, or is about to.
SpeedInEffect ==
  (Settled /\ playing /\ slow /\ mishaps \subseteq {"stalled"}) => (engaged \/ pending)

\* ... and one whose change of speed was refused plays as plainly as before.
UnityInEffect ==
  (Settled /\ ~appEngaged /\ "retracted" \notin mishaps) => ~engaged /\ ~pending

\* The head is where the app thread takes it to be, no hand-over it has passed
\* is judged in time, a bank is whole when it sounds and sounds unless it was
\* taken back, and the speed set is the speed played (but see SpeedInEffect)
\* and one refused is not (mixer_prime.cpp, mixer_render.cpp).
HandOversLand ==
  /\ HandOverTypeOK /\ HeadExact /\ NeverPassed /\ BankWhole
  /\ BankPlaysUnretracted /\ UnityInEffect
  /\ ~KeepWhilePaused => SpeedInEffect
=============================================================================
