---------------------------- MODULE RtPublisher ----------------------------
(***************************************************************************)
(* rt/rt_publisher.h: a bulk payload handed from the app thread to the     *)
(* audio callback by an atomic pointer, and freed once the engine clock    *)
(* has moved a grace window past the swap.                                 *)
(*                                                                         *)
(* The publisher is modelled with the two things its safety rests on: the  *)
(* engine clock, which the callback advances after each block, and the     *)
(* flag engine.h calls device_running_, which the app thread's Start and   *)
(* Stop and the engine's watchdog thread set around the audio device.      *)
(*                                                                         *)
(* Three threads: the app thread (the single writer), the audio callback   *)
(* (the only reader) and the watchdog.  The clock counts in units of one   *)
(* block; Grace is kReclaimGraceFrames in those units.                     *)
(***************************************************************************)
EXTENDS Integers

CONSTANTS
  Addrs,          \* addresses the allocator may return, and return again
  Grace,          \* kReclaimGraceFrames
  StallBound,     \* how far the clock may move between reading it and the swap
  Blocks,         \* the block lengths the device may ask for
  MaxClock,       \* bound of the clock
  MaxGen,         \* bound of the generations published
  RestartMayFail, \* may the watchdog's ma_device_start fail?
  NoNode          \* nullptr

ASSUME NodeAssumption == NoNode \notin [addr : Addrs, gen : Nat]
ASSUME ClockAssumption ==
  /\ Grace \in Nat
  /\ StallBound \in Nat
  /\ Blocks \subseteq Nat \ {0}
  /\ MaxClock \in Nat
  /\ MaxGen \in Nat
  /\ RestartMayFail \in BOOLEAN

VARIABLES
  heap,        \* generation of the node living at an address, 0 when free
  active,      \* active_
  retired,     \* retired_
  generation,  \* generation_
  held,        \* nodes the callback has loaded in the block it is in
  inBlock,     \* the callback is running
  adopted,     \* the node the callback last took for a new payload
  clock,       \* frames_rendered_
  appPc,       \* where the app thread is
  sawRunning,  \* the is_running() the API call read when it was entered
  date,        \* the clock Publish was given
  dogPc,       \* where the watchdog thread is
  live,        \* the device calls back
  running      \* device_running_

pubVars  == <<heap, active, retired, generation>>
readVars == <<held, inBlock, adopted, clock>>
callVars == <<sawRunning, date>>
vars     == <<pubVars, readVars, callVars, appPc, dogPc, live, running>>

Node == [addr : Addrs, gen : 1..MaxGen]

AppPcs == {"idle", "called", "dated", "start", "started", "stop", "stopped"}
DogPcs == {"none", "watching", "restart", "restarting", "restarted", "idling"}

(***************************************************************************)
(* lifecycle_mutex_ is held by the app thread throughout Start and Stop,   *)
(* and by the watchdog throughout a tick that acts on the device.  Start   *)
(* and Stop join the watchdog, so they leave it "none".                    *)
(***************************************************************************)
AppHasLock == appPc \in {"start", "started", "stop", "stopped"}
DogHasLock == dogPc \in {"restart", "restarting", "restarted", "idling"}

Init ==
  /\ heap = [a \in Addrs |-> 0]
  /\ active = NoNode
  /\ retired = {}
  /\ generation = 0
  /\ held = {}
  /\ inBlock = FALSE
  /\ adopted = NoNode
  /\ clock = 0
  /\ appPc = "idle"
  /\ sawRunning = FALSE
  /\ date = 0
  /\ dogPc = "none"
  /\ live = FALSE
  /\ running = FALSE

-----------------------------------------------------------------------------
(* The app thread: Publish and its reclamation. *)

Free(entries) ==
  LET addrs == {e.node.addr : e \in entries}
  IN  [a \in Addrs |-> IF a \in addrs THEN 0 ELSE heap[a]]

\* Mutant: freed at the next publish, as though no block could outlive a swap.
ReclaimableAtOnce(entry, now) == now >= entry.frame

Reclaimable(entry, now) == now > entry.frame + Grace

\* Every API call takes is_running() by value before it does its work.
EnterCall ==
  /\ appPc = "idle"
  /\ appPc' = "called"
  /\ sawRunning' = running
  /\ UNCHANGED <<pubVars, readVars, date, dogPc, live, running>>

\* FrameClock::Now at the publish, and the Collect that Publish begins with.
Collect ==
  /\ appPc = "called"
  /\ appPc' = "dated"
  /\ date' = clock
  /\ LET old == {e \in retired : Reclaimable(e, clock)}
     IN  /\ retired' = retired \ old
         /\ heap' = Free(old)
  /\ UNCHANGED <<active, generation, readVars, sawRunning, dogPc, live, running>>

(***************************************************************************)
(* The exchange, the retirement of the previous node, and ReclaimAll when  *)
(* the caller said that there is no reader.  The callback sees only the    *)
(* exchange, so the rest is part of the same step.                         *)
(***************************************************************************)
RetireNothing(node) == retired \* mutant: the previous payload is forgotten

Retire(node) ==
  IF node = NoNode THEN retired
                   ELSE retired \cup {[node |-> node, frame |-> date]}

Swap(node, kept, allocated) ==
  /\ appPc = "dated"
  /\ appPc' = "idle"
  /\ active' = node
  /\ retired' = IF sawRunning THEN kept ELSE {}
  /\ heap' = [a \in Addrs |->
                IF node # NoNode /\ a = allocated THEN generation + 1
                ELSE IF ~sawRunning /\ \E e \in kept : e.node.addr = a THEN 0
                ELSE heap[a]]
  /\ UNCHANGED <<readVars, callVars, dogPc, live, running>>

Publish(a) ==
  /\ generation < MaxGen
  /\ heap[a] = 0
  /\ generation' = generation + 1
  /\ Swap([addr |-> a, gen |-> generation + 1], Retire(active), a)

\* A null payload allocates nothing and takes no generation.
PublishNothing ==
  /\ generation' = generation
  /\ Swap(NoNode, Retire(active), NoNode)

-----------------------------------------------------------------------------
(* The audio callback.  Get may be called more than once in a block. *)

BlockBegin ==
  /\ live
  /\ ~inBlock
  /\ \E b \in Blocks : clock + b <= MaxClock
  /\ inBlock' = TRUE
  /\ UNCHANGED <<pubVars, held, adopted, clock, callVars, appPc, dogPc, live, running>>

\* Mutant: payloads compared by address.
IsNewAddress(node) == adopted = NoNode \/ node.addr # adopted.addr

\* The comparison by which Mixer::AdoptPlan and the metronome detect a swap.
IsNewPayload(node) == adopted = NoNode \/ node.gen # adopted.gen

\* Mutant: the callback uses what it loaded without asking whether it is null.
GetUnchecked ==
  /\ inBlock
  /\ held' = held \cup {active}
  /\ adopted' = IF IsNewPayload(active) THEN active ELSE adopted
  /\ UNCHANGED <<pubVars, inBlock, clock, callVars, appPc, dogPc, live, running>>

Get ==
  /\ inBlock
  /\ active # NoNode
  /\ held' = held \cup {active}
  /\ adopted' = IF IsNewPayload(active) THEN active ELSE adopted
  /\ UNCHANGED <<pubVars, inBlock, clock, callVars, appPc, dogPc, live, running>>

\* frames_rendered_ moves only once the block is done with the payload.
BlockEnd(b) ==
  /\ inBlock
  /\ clock + b <= MaxClock
  /\ appPc = "dated" => clock + b <= date + StallBound
  /\ inBlock' = FALSE
  /\ held' = {}
  /\ clock' = clock + b
  /\ UNCHANGED <<pubVars, adopted, callVars, appPc, dogPc, live, running>>

-----------------------------------------------------------------------------
(* The app thread: Engine::Start and Engine::Stop around the device. *)

ReclaimAll ==
  /\ heap' = Free(retired)
  /\ retired' = {}

\* StartLocked up to ma_device_start: the watchdog joined, retired nodes freed.
Start ==
  /\ appPc = "idle"
  /\ ~DogHasLock
  /\ ~running
  /\ appPc' = "start"
  /\ dogPc' = "none"
  /\ ReclaimAll
  /\ UNCHANGED <<active, generation, readVars, callVars, live, running>>

DeviceStart ==
  /\ appPc = "start"
  /\ appPc' = "started"
  /\ live' \in BOOLEAN
  /\ UNCHANGED <<pubVars, readVars, callVars, dogPc, running>>

StartReturns ==
  /\ appPc = "started"
  /\ appPc' = "idle"
  /\ running' = live
  /\ dogPc' = IF live THEN "watching" ELSE "none"
  /\ UNCHANGED <<pubVars, readVars, callVars, live>>

Stop ==
  /\ appPc = "idle"
  /\ ~DogHasLock
  /\ appPc' = "stop"
  /\ UNCHANGED <<pubVars, readVars, callVars, dogPc, live, running>>

\* Mutant: ma_device_stop does not wait for the block in progress.
StopDeviceAtOnce ==
  /\ appPc = "stop"
  /\ appPc' = "stopped"
  /\ live' = FALSE
  /\ running' = FALSE
  /\ UNCHANGED <<pubVars, readVars, callVars, dogPc>>

\* ma_device_stop blocks until the callback has returned; only then is the
\* flag cleared.
StopDevice ==
  /\ appPc = "stop"
  /\ ~inBlock
  /\ appPc' = "stopped"
  /\ live' = FALSE
  /\ running' = FALSE
  /\ UNCHANGED <<pubVars, readVars, callVars, dogPc>>

StopReturns ==
  /\ appPc = "stopped"
  /\ appPc' = "idle"
  /\ dogPc' = "none"
  /\ ReclaimAll
  /\ UNCHANGED <<active, generation, readVars, callVars, live, running>>

-----------------------------------------------------------------------------
(* The watchdog: RestartDevice after a dead stream, StopDevice when idle.  *)
(* It frees nothing: the retire lists are the app thread's.                *)

DogTakesLock(next) ==
  /\ dogPc = "watching"
  /\ ~AppHasLock
  /\ dogPc' = next
  /\ UNCHANGED <<pubVars, readVars, callVars, appPc, live, running>>

DogRestarts == DogTakesLock("restart")

DogIdles == DogTakesLock("idling")

RestartStops ==
  /\ dogPc = "restart"
  /\ ~inBlock
  /\ dogPc' = "restarting"
  /\ live' = FALSE
  /\ UNCHANGED <<pubVars, readVars, callVars, appPc, running>>

RestartStarts ==
  /\ dogPc = "restarting"
  /\ dogPc' = "restarted"
  /\ live' \in IF RestartMayFail THEN BOOLEAN ELSE {TRUE}
  /\ UNCHANGED <<pubVars, readVars, callVars, appPc, running>>

RestartReturns ==
  /\ dogPc = "restarted"
  /\ dogPc' = "watching"
  /\ running' = live
  /\ UNCHANGED <<pubVars, readVars, callVars, appPc, live>>

IdleStop ==
  /\ dogPc = "idling"
  /\ ~inBlock
  /\ dogPc' = "none"
  /\ live' = FALSE
  /\ running' = FALSE
  /\ UNCHANGED <<pubVars, readVars, callVars, appPc>>

-----------------------------------------------------------------------------

Next ==
  \/ EnterCall
  \/ Collect
  \/ \E a \in Addrs : Publish(a)
  \/ PublishNothing
  \/ BlockBegin
  \/ Get
  \/ \E b \in Blocks : BlockEnd(b)
  \/ Start
  \/ DeviceStart
  \/ StartReturns
  \/ Stop
  \/ StopDevice
  \/ StopReturns
  \/ DogRestarts
  \/ DogIdles
  \/ RestartStops
  \/ RestartStarts
  \/ RestartReturns
  \/ IdleStop

Spec == Init /\ [][Next]_vars

-----------------------------------------------------------------------------

\* Every variable holds a value of its type; in particular no generation and
\* no date exceeds the counters rt_publisher.h draws them from.
TypeOK ==
  /\ heap \in [Addrs -> 0..MaxGen]
  /\ active \in Node \cup {NoNode}
  /\ retired \subseteq [node : Node, frame : Nat]
  /\ generation \in 0..MaxGen
  /\ held \subseteq Node
  /\ inBlock \in BOOLEAN
  /\ adopted \in Node \cup {NoNode}
  /\ clock \in Nat
  /\ appPc \in AppPcs
  /\ sawRunning \in BOOLEAN
  /\ date \in Nat
  /\ dogPc \in DogPcs
  /\ live \in BOOLEAN
  /\ running \in BOOLEAN

IsLive(node) == heap[node.addr] = node.gen

\* "Never free under a reader" (rt_publisher.h): a node the callback has
\* loaded in the block it is in has not been freed, whatever the app thread
\* and the watchdog do meanwhile, nor its address handed to another payload.
NoUseAfterFree == \A node \in held : IsLive(node)

\* The retire list loses nothing and frees nothing twice: the nodes that are
\* alive are exactly the published one and the retired ones, each once.
NoLeakNoDoubleFree ==
  /\ \A a \in Addrs : heap[a] # 0 =>
        \/ active # NoNode /\ active = [addr |-> a, gen |-> heap[a]]
        \/ \E e \in retired : e.node = [addr |-> a, gen |-> heap[a]]
  /\ active # NoNode => IsLive(active)
  /\ \A e \in retired : IsLive(e.node) /\ e.node # active

SeesSwap == \A node \in held' \ held : adopted' = node

\* "A freed payload's address can be recycled, a generation cannot": a
\* callback that loads a payload it has not adopted yet adopts it in that
\* load, even where the payload lives at the address of the one it knew.
SwapsAreSeen == [][SeesSwap]_vars

\* engine.cpp:80 "a publisher that reads this can never conclude 'no reader'
\* while the callback is already running": the flag an API call is about to
\* read does not say "not running" while the callback runs.
FlagCoversCallback == (appPc = "idle" /\ ~running) => ~inBlock

=============================================================================
