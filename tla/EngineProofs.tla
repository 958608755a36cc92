-------------------------------- MODULE EngineProofs --------------------------------
(***************************************************************************)
(* Proofs about the engine and the rings between its callback and the       *)
(* other threads.                                                           *)
(*                                                                         *)
(* EngineLifecycle, for any number of control threads and sources and any   *)
(* lengths of the stall wait and the idle grace; and what the theorems of   *)
(* MixerTransportProofs, which hold for every song, say of the transports   *)
(* that play in MCEngine.                                                   *)
(*                                                                         *)
(* SpscRing, for every capacity and every set of items: the two sides       *)
(* never touch the same slot, and the ring implements the bounded queue.    *)
(*                                                                         *)
(* AudioSource, whose ring is such a queue, for every file, ring, chunk     *)
(* and block: the callback gets the file's frames in order, the end is not  *)
(* announced before it is reached, and the last block is not taken for an   *)
(* underrun.  The invariant follows the frames between the reader and the   *)
(* callback: what the reader has passed is what the callback has, then      *)
(* what the ring holds, then the chunk the thread is carrying; and the      *)
(* ring always has room for that chunk, since only the callback touches it  *)
(* meanwhile.                                                               *)
(*                                                                         *)
(* The liveness properties stay with TLC.                                   *)
(***************************************************************************)
EXTENDS MCEngine, SpscRing, AudioSource, SequenceTheorems, TLAPS

-----------------------------------------------------------------------------
(* The lifecycle. *)

\* A device is owed only to what intends to play or holds it.
OwedInv ==
  /\ intent \in [Sources -> BOOLEAN]
  /\ holders \in Nat
  /\ owed \subseteq Promised(holders)

\* Who has the lock, and that the watchdog decides an idle stop only over an
\* engine that owes nothing; it keeps the lock, so no start can promise more.
\* It is asked to exit only by a call that has the lock and awaits its end.
LockInv ==
  /\ CallHasLock => ~DogHasLock /\ ~deviceRunning
  /\ dogExit /\ dogPc \notin {"none", "ended"} => CallHasLock
  /\ dogPc = "stopping" => owed = {}

IInv == OwedInv /\ LockInv /\ NoSilentStart /\ StartedIsWatched

LEMMA InitIInv == Init => IInv
  BY LifecycleAssumption
     DEF Init, IInv, OwedInv, LockInv, NoSilentStart, StartedIsWatched,
         CallHasLock, DogHasLock, LifecycleAssumption

LEMMA IInvStep == IInv /\ [Next]_vars => IInv'
<1> USE LifecycleAssumption
       DEF LifecycleAssumption, IInv, OwedInv, LockInv, NoSilentStart,
           StartedIsWatched, Promised, CallHasLock, DogHasLock, playVars, dogVars
<1> SUFFICES ASSUME IInv, [Next]_vars PROVE IInv'
  OBVIOUS
<1>1. ASSUME NEW t \in Threads, NEW s \in Sources, PlayCall(t, s) PROVE IInv'
  BY <1>1 DEF PlayCall
<1>2. ASSUME NEW t \in Threads, StartCall(t) PROVE IInv'
  BY <1>2 DEF StartCall
<1>3. ASSUME NEW s \in Sources, StopPlayCall(s) PROVE IInv'
  BY <1>3 DEF StopPlayCall
<1>4. CASE HoldCall
  BY <1>4 DEF HoldCall
<1>5. CASE ReleaseCall
  BY <1>5 DEF ReleaseCall, CloseHolders
<1>6. CASE ResetHolders
  BY <1>6 DEF ResetHolders, CloseHolders
<1>7. CASE StopCall
  BY <1>7 DEF StopCall
<1>8. CASE StartLocked
  BY <1>8 DEF StartLocked
<1>9. ASSUME NEW started \in Outcomes, StartDevice(started) PROVE IInv'
  BY <1>9 DEF StartDevice, WatchAfresh
<1>10. CASE StopLocked
  BY <1>10 DEF StopLocked
<1>11. CASE StopCallReturns
  BY <1>11 DEF StopCallReturns
<1>12. CASE Render
  BY <1>12 DEF Render
<1>13. ASSUME NEW s \in Sources, SongEnds(s) PROVE IInv'
  BY <1>13 DEF SongEnds
<1>14. ASSUME NEW notified \in BOOLEAN, StreamDies(notified) PROVE IInv'
  BY <1>14 DEF StreamDies
<1>15. CASE DogExits
  BY <1>15 DEF DogExits
<1>16. CASE DogWakes
  BY <1>16 DEF DogWakes
<1>17. CASE TickUnlocked
  BY <1>17 DEF TickUnlocked
<1>18. CASE Tick
  <2>1. IsIdle => owed = {}
    BY DEF IsIdle
  <2>2. /\ dogPc' \in {"restarting", "stopping", "waiting"}
        /\ dogPc' = "stopping" => IsIdle
        /\ dogPc = "ticking" /\ ~CallHasLock
    BY <1>18 DEF Tick
  <2>3. UNCHANGED <<intent, holders, call, deviceRunning, dogExit, owed>>
    BY <1>18 DEF Tick
  <2>4. OwedInv'
    BY <2>3
  <2>5. LockInv' /\ NoSilentStart' /\ StartedIsWatched'
    BY <2>1, <2>2, <2>3
  <2> QED
    BY <2>4, <2>5
<1>19. ASSUME NEW started \in RestartOutcomes, Restart(started) PROVE IInv'
  BY <1>19 DEF Restart
<1>20. CASE IdleStop
  BY <1>20 DEF IdleStop
<1>21. CASE UNCHANGED vars
  BY <1>21 DEF vars
<1> QED
  BY <1>1, <1>2, <1>3, <1>4, <1>5, <1>6, <1>7, <1>8, <1>9, <1>10, <1>11,
     <1>12, <1>13, <1>14, <1>15, <1>16, <1>17, <1>18, <1>19, <1>20, <1>21
     DEF Next

\* "An idle stop cannot fall between the two and leave a queued start silent"
\* (kitbag_engine_hold_api.h): a device promised to a play or a holder is not
\* stopped by the watchdog, however the calls and the ticks interleave.
THEOREM QueuedStartNeverSilent == Spec => []NoSilentStart
<1>1. IInv => NoSilentStart
  BY DEF IInv
<1> QED
  BY InitIInv, IInvStep, <1>1, PTL DEF Spec

\* Every started device has a live watchdog (StartWatchdog, StopWatchdog).
THEOREM StartedAlwaysWatched == Spec => []StartedIsWatched
<1>1. IInv => StartedIsWatched
  BY DEF IInv
<1> QED
  BY InitIInv, IInvStep, <1>1, PTL DEF Spec

-----------------------------------------------------------------------------
(* The engine's run: two instances of the mixer's transport. *)

LEMMA EngineConstants ==
  /\ Transport!TransportConstants
  /\ Longer!TransportConstants
<1>1. /\ <<6, 4>> \in [{1, 2} -> Nat]
      /\ {1, 2} = 1..2 /\ 2 \in Nat
  OBVIOUS
<1>2. Transport!TransportConstants
  BY <1>1 DEF Transport!TransportConstants
<1>3. Longer!TransportConstants
  BY <1>1 DEF Longer!TransportConstants
<1> QED BY <1>2, <1>3

EngineInv ==
  /\ part = "transport" => Transport!IInv
  /\ part = "longer" => Longer!IInv

LEMMA EngineInit == MCInit => EngineInv
BY EngineConstants, Transport!InitInv, Longer!InitInv
DEF MCInit, EngineInv

LEMMA EnginePlays ==
  ASSUME [MCNext]_allVars
  PROVE  /\ part' = part
         /\ part = "transport" => [Transport!Next]_(Transport!vars)
         /\ part = "longer" => [Longer!Next]_(Longer!vars)
BY DEF MCNext, allVars, Rest1,
       Transport!vars, Transport!appVars, Transport!cbVars,
       Transport!headVars,
       Longer!vars, Longer!appVars, Longer!cbVars,
       Longer!headVars

LEMMA EngineStep ==
  ASSUME EngineInv, [MCNext]_allVars
  PROVE  EngineInv'
BY EngineConstants, EnginePlays, Transport!StepInv, Longer!StepInv
DEF EngineInv

\* Whatever the calls and however they cross the callback, the song heard is the
\* song at the head (MCEngine's SongAtTheHead).
THEOREM TheSongIsAtTheHead == MCSpec => []SongAtTheHead
<1>1. EngineInv => SongAtTheHead
  BY EngineConstants, Transport!InvImplies, Longer!InvImplies
  DEF EngineInv, SongAtTheHead
<1> QED BY <1>1, EngineInit, EngineStep, PTL DEF MCSpec

\* A loop set or cleared in the engine's run leaves the song where it is.
THEOREM ALoopChangeMovesNothing == MCSpec => KeepMovesNothing
<1>1. EngineInv /\ [MCNext]_allVars =>
        /\ part = "transport" => Transport!KeepMovesNothing
        /\ part = "longer" => Longer!KeepMovesNothing
  BY EnginePlays, Transport!KeepStep, Longer!KeepStep DEF EngineInv
<1> QED BY <1>1, EngineInit, EngineStep, PTL DEF MCSpec, KeepMovesNothing
-----------------------------------------------------------------------------
(* The arithmetic of the two indices. *)

\* One past an index is an index again.
LEMMA WrapIsIndex ==
  ASSUME NEW n \in 0..Capacity PROVE Wrap(n) \in Indices
BY RingAssumption, SMT DEF RingAssumption, Wrap, Indices

\* What is queued is less than the capacity; the ring is full at one less than
\* it, empty when the indices meet, and head is the slot after the last queued.
LEMMA UsedBounds ==
  ASSUME NEW h \in Indices, NEW t \in Indices
  PROVE  /\ Used(h, t) \in Indices
         /\ Used(h, t) \in Nat
         /\ Used(h, t) <= Capacity - 1
         /\ h # t => Used(h, t) >= 1
         /\ Full(h, t) <=> Used(h, t) = Capacity - 1
         /\ h = t <=> Used(h, t) = 0
         /\ Wrap(t + Used(h, t)) = h
BY RingAssumption, SMT DEF RingAssumption, Wrap, Indices, Used, Full

\* Storing head queues one more.
LEMMA UsedAfterPush ==
  ASSUME NEW h \in Indices, NEW t \in Indices, ~Full(h, t)
  PROVE  Used(Wrap(h + 1), t) = Used(h, t) + 1
BY RingAssumption, SMT DEF RingAssumption, Wrap, Indices, Used, Full

\* Storing tail queues one less.
LEMMA UsedAfterPop ==
  ASSUME NEW h \in Indices, NEW t \in Indices, h # t
  PROVE  Used(h, Wrap(t + 1)) = Used(h, t) - 1
BY RingAssumption, SMT DEF RingAssumption, Wrap, Indices, Used

\* The slot a push writes is none of those queued.
LEMMA QueuedSlotIsNotHead ==
  ASSUME NEW h \in Indices, NEW t \in Indices, ~Full(h, t),
         NEW i \in 1..Used(h, t)
  PROVE  /\ Wrap(t + i - 1) \in Indices
         /\ Wrap(t + i - 1) # h
BY RingAssumption, SMT DEF RingAssumption, Wrap, Indices, Used, Full

\* The slots queued after a pop are those queued before it but the first.
LEMMA QueuedAfterPop ==
  ASSUME NEW h \in Indices, NEW t \in Indices, h # t,
         NEW i \in 1..(Used(h, t) - 1)
  PROVE  Wrap(Wrap(t + 1) + i - 1) = Wrap(t + (i + 1) - 1)
BY RingAssumption, SMT DEF RingAssumption, Wrap, Indices, Used

-----------------------------------------------------------------------------
(* The inductive invariant. *)

\* What each side may rely on between its load and its store, though the other
\* side has moved its own index meanwhile.
Promises ==
  /\ push.pc # "idle" => push.item \in Items /\ ~Full(head, tail)
  /\ push.pc = "storing" => slots[head] = push.item
  /\ pop.pc # "idle" => head # tail
  /\ pop.pc = "storing" => pop.got = slots[tail]
  /\ Used(head, tail) + reserved <= Capacity - 1

RingInv == RingTypeOK /\ Promises

LEMMA RingInitInv == RingInit => RingInv
BY RingAssumption, SMT
   DEF RingAssumption, RingInit, RingInv, RingTypeOK, Promises, Indices, Used, Wrap

LEMMA PushBeginsInv ==
  ASSUME RingInv, NEW item \in Items, PushBegins(item) PROVE RingInv'
BY DEF PushBegins, RingInv, RingTypeOK, Promises, consumerVars

LEMMA PushCopiesInv ==
  ASSUME RingInv, PushCopies PROVE RingInv'
<1> USE DEF RingInv, RingTypeOK, Promises, PushCopies, consumerVars
<1>1. RingTypeOK'
  OBVIOUS
<1>2. pop.pc = "storing" => pop.got = slots'[tail]
  BY DEF Indices
<1>3. QED
  BY <1>1, <1>2

LEMMA PushStoresInv ==
  ASSUME RingInv, PushStores PROVE RingInv'
<1> USE DEF RingInv, RingTypeOK, Promises, PushStores, consumerVars
<1>1. ~Full(head, tail) /\ head \in Indices /\ tail \in Indices
  OBVIOUS
<1>2. head' \in Indices
  BY <1>1, WrapIsIndex, RingAssumption, SMT DEF RingAssumption, Indices
<1>3. Used(head', tail') = Used(head, tail) + 1
  BY <1>1, UsedAfterPush
<1>4. head' # tail'
  BY <1>1 DEF Full
<1>5. Used(head, tail) \in Indices /\ Used(head, tail) # Capacity - 1
  BY <1>1, UsedBounds
<1>6. reserved' \in Indices /\ Used(head', tail') + reserved' <= Capacity - 1
  BY <1>3, <1>5, RingAssumption, SMT DEF RingAssumption, Indices
<1>7. RingTypeOK'
  BY <1>2, <1>6
<1>8. QED
  BY <1>4, <1>6, <1>7

LEMMA ReserveInv ==
  ASSUME RingInv, NEW n \in Indices, Reserve(n) PROVE RingInv'
<1> USE DEF RingInv, RingTypeOK, Promises, Reserve, consumerVars
<1>1. Used(head, tail) \in Indices
  BY UsedBounds
<1>2. Used(head, tail) + n <= Capacity - 1
  BY <1>1, RingAssumption, SMT DEF RingAssumption, Indices, Free
<1>3. QED
  BY <1>2

LEMMA PopBeginsInv ==
  ASSUME RingInv, PopBegins PROVE RingInv'
BY DEF PopBegins, RingInv, RingTypeOK, Promises, producerVars

LEMMA PopCopiesInv ==
  ASSUME RingInv, PopCopies PROVE RingInv'
BY DEF PopCopies, RingInv, RingTypeOK, Promises, producerVars

LEMMA PopStoresInv ==
  ASSUME RingInv, PopStores PROVE RingInv'
<1> USE DEF RingInv, RingTypeOK, Promises, PopStores, producerVars
<1>1. head # tail /\ head \in Indices /\ tail \in Indices
  OBVIOUS
<1>2. tail' \in Indices
  BY <1>1, WrapIsIndex, RingAssumption, SMT DEF RingAssumption, Indices
<1>3. Used(head', tail') = Used(head, tail) - 1
  BY <1>1, UsedAfterPop
<1>4. Used(head, tail) \in Indices
  BY <1>1, UsedBounds
<1>5. ~Full(head', tail')
  BY <1>2, <1>3, <1>4, UsedBounds, RingAssumption, SMT
     DEF RingAssumption, Indices
<1>6. Used(head', tail') + reserved' <= Capacity - 1
  BY <1>3, <1>4, RingAssumption, SMT DEF RingAssumption, Indices
<1>7. RingTypeOK'
  BY <1>2
<1>8. QED
  BY <1>5, <1>6, <1>7

LEMMA RingStepInv == RingInv /\ [RingNext]_spscVars => RingInv'
<1> SUFFICES ASSUME RingInv, [RingNext]_spscVars PROVE RingInv'
  OBVIOUS
<1>1. CASE \E item \in Items : PushBegins(item)
  BY <1>1, PushBeginsInv
<1>2. CASE PushCopies
  BY <1>2, PushCopiesInv
<1>3. CASE PushStores
  BY <1>3, PushStoresInv
<1>4. CASE \E n \in Indices : Reserve(n)
  BY <1>4, ReserveInv
<1>5. CASE PopBegins
  BY <1>5, PopBeginsInv
<1>6. CASE PopCopies
  BY <1>6, PopCopiesInv
<1>7. CASE PopStores
  BY <1>7, PopStoresInv
<1>8. CASE UNCHANGED spscVars
  BY <1>8 DEF RingInv, RingTypeOK, Promises, spscVars, producerVars, consumerVars
<1>9. QED
  BY <1>1, <1>2, <1>3, <1>4, <1>5, <1>6, <1>7, <1>8 DEF RingNext

\* Every variable keeps its type, and each side may rely on its promises.
THEOREM RingInvariant == RingSpec => []RingInv
BY RingInitInv, RingStepInv, PTL DEF RingSpec

\* The callback never copies out of a slot the producer is copying into, at any
\* capacity (spsc_ring.h:22 against :39).
THEOREM SlotsNeverShared == RingSpec => []NoSlotRace
<1>1. RingInv => NoSlotRace
  BY DEF RingInv, Promises, NoSlotRace
<1>2. QED
  BY RingInvariant, <1>1, PTL

-----------------------------------------------------------------------------
(* The ring implements the bounded queue. *)

Slot == Items \cup {Blank}

Queued(s, h, t) == [i \in 1..Used(h, t) |-> s[Wrap(t + i - 1)]]

\* The queued slots are a sequence, as long as the indices are apart.
LEMMA QueuedIsASequence ==
  ASSUME NEW s \in [Indices -> Slot], NEW h \in Indices, NEW t \in Indices
  PROVE  /\ Queued(s, h, t) \in Seq(Slot)
         /\ Len(Queued(s, h, t)) = Used(h, t)
         /\ \A i \in 1..Used(h, t) : Queued(s, h, t)[i] = s[Wrap(t + i - 1)]
<1>1. Used(h, t) \in Indices /\ Used(h, t) \in Nat
  BY UsedBounds
<1>2. ASSUME NEW i \in 1..Used(h, t)
      PROVE  s[Wrap(t + i - 1)] \in Slot
  <2>1. Wrap(t + i - 1) \in Indices
    BY <1>1, RingAssumption, SMT DEF RingAssumption, Indices, Wrap, Used
  <2>2. QED
    BY <2>1
<1>3. Queued(s, h, t) \in [1..Used(h, t) -> Slot]
  BY <1>2 DEF Queued
<1>4. Queued(s, h, t) \in Seq(Slot) /\ Len(Queued(s, h, t)) = Used(h, t)
  BY <1>1, <1>3, SMT
<1>5. QED
  BY <1>4 DEF Queued

\* A step that leaves the queued slots and the indices alone leaves the queue.
LEMMA ContentsUnchanged ==
  ASSUME UNCHANGED <<slots, head, tail>> PROVE Contents' = Contents
BY DEF Contents

\* Writing the slot at head changes nothing queued.
LEMMA CopyingKeepsContents ==
  ASSUME RingInv, PushCopies PROVE Contents' = Contents
<1>1. /\ ~Full(head, tail) /\ head \in Indices /\ tail \in Indices
      /\ head' = head /\ tail' = tail
      /\ slots' = [slots EXCEPT ![head] = push.item]
      /\ slots \in [Indices -> Items \cup {Blank}]
  BY DEF RingInv, RingTypeOK, Promises, PushCopies, consumerVars
<1>2. ASSUME NEW i \in 1..Used(head, tail)
      PROVE  slots'[Wrap(tail + i - 1)] = slots[Wrap(tail + i - 1)]
  BY <1>1, QueuedSlotIsNotHead
<1>3. QED
  BY <1>1, <1>2 DEF Contents

\* Storing head appends the item that was copied.
LEMMA StoringAppends ==
  ASSUME RingInv, PushStores PROVE Contents' = Append(Contents, push.item)
<1>1. /\ ~Full(head, tail) /\ head \in Indices /\ tail \in Indices
      /\ head' = Wrap(head + 1) /\ tail' = tail /\ slots' = slots
      /\ slots[head] = push.item /\ push.item \in Slot
  BY DEF RingInv, RingTypeOK, Promises, PushStores, consumerVars, Slot
<1>2. Used(head', tail') = Used(head, tail) + 1
  BY <1>1, UsedAfterPush
<1>3. RingTypeOK /\ RingTypeOK'
  BY PushStoresInv DEF RingInv
<1>4. /\ Used(head, tail) \in Nat
      /\ Wrap(tail + Used(head, tail)) = head
  BY <1>1, UsedBounds
<1>5. /\ Contents \in Seq(Slot) /\ Len(Contents) = Used(head, tail)
      /\ \A i \in 1..Used(head, tail) : Contents[i] = slots[Wrap(tail + i - 1)]
  <2>1. Contents = Queued(slots, head, tail)
    BY DEF Contents, Queued
  <2>2. slots \in [Indices -> Slot]
    BY <1>3 DEF RingTypeOK, Slot
  <2>3. QED
    BY <2>1, <2>2, <1>1, QueuedIsASequence
<1>6. /\ Contents' \in Seq(Slot) /\ Len(Contents') = Used(head, tail) + 1
      /\ \A i \in 1..(Used(head, tail) + 1) :
           Contents'[i] = slots[Wrap(tail + i - 1)]
  <2>1. Contents' = Queued(slots, head', tail)
    BY <1>1 DEF Contents, Queued
  <2>2. slots \in [Indices -> Slot] /\ head' \in Indices
    BY <1>3 DEF RingTypeOK, Slot
  <2>3. QED
    <3>1. /\ Queued(slots, head', tail) \in Seq(Slot)
          /\ Len(Queued(slots, head', tail)) = Used(head', tail)
          /\ \A i \in 1..Used(head', tail) :
               Queued(slots, head', tail)[i] = slots[Wrap(tail + i - 1)]
      BY <2>2, <1>1, QueuedIsASequence
    <3>2. QED
      BY <2>1, <3>1, <1>1, <1>2
<1>7. Contents'[Used(head, tail) + 1] = push.item
  BY <1>1, <1>4, <1>6, SMT
<1>8. /\ Append(Contents, push.item) \in Seq(Slot)
      /\ Len(Append(Contents, push.item)) = Used(head, tail) + 1
      /\ \A i \in 1..Used(head, tail) : Append(Contents, push.item)[i] = Contents[i]
      /\ Append(Contents, push.item)[Used(head, tail) + 1] = push.item
  BY <1>1, <1>4, <1>5, AppendProperties, SMT
<1>9. \A i \in 1..(Used(head, tail) + 1) :
        Contents'[i] = Append(Contents, push.item)[i]
  BY <1>4, <1>5, <1>6, <1>7, <1>8, SMT
<1>10. QED
  BY <1>6, <1>8, <1>9, SeqEqual

\* Storing tail takes the first item off, and it is the one that was copied.
LEMMA PoppingTakesTheHead ==
  ASSUME RingInv, PopStores
  PROVE  /\ Contents # << >>
         /\ pop.got = Head(Contents)
         /\ Contents' = Tail(Contents)
<1>1. /\ head # tail /\ head \in Indices /\ tail \in Indices
      /\ head' = head /\ tail' = Wrap(tail + 1) /\ slots' = slots
      /\ pop.got = slots[tail]
      /\ slots \in [Indices -> Slot]
  BY DEF RingInv, RingTypeOK, Promises, PopStores, producerVars, Slot
<1>2. Used(head, tail') = Used(head, tail) - 1 /\ tail' \in Indices
  BY <1>1, UsedAfterPop, WrapIsIndex, RingAssumption, SMT
     DEF RingAssumption, Indices
<1>3. Used(head, tail) \in Nat /\ Used(head, tail) >= 1
  BY <1>1, UsedBounds
<1>4. /\ Contents \in Seq(Slot) /\ Len(Contents) = Used(head, tail)
      /\ \A i \in 1..Used(head, tail) : Contents[i] = slots[Wrap(tail + i - 1)]
  <2>1. Contents = Queued(slots, head, tail)
    BY DEF Contents, Queued
  <2>2. QED
    BY <2>1, <1>1, QueuedIsASequence
<1>5. /\ Contents' \in Seq(Slot) /\ Len(Contents') = Used(head, tail) - 1
      /\ \A i \in 1..(Used(head, tail) - 1) :
           Contents'[i] = slots[Wrap(tail' + i - 1)]
  <2>1. Contents' = Queued(slots, head, tail')
    BY <1>1 DEF Contents, Queued
  <2>2. QED
    <3>1. /\ Queued(slots, head, tail') \in Seq(Slot)
          /\ Len(Queued(slots, head, tail')) = Used(head, tail')
          /\ \A i \in 1..Used(head, tail') :
               Queued(slots, head, tail')[i] = slots[Wrap(tail' + i - 1)]
      BY <1>1, <1>2, QueuedIsASequence
    <3>2. QED
      BY <2>1, <3>1, <1>1, <1>2
<1>6. Contents # << >>
  BY <1>3, <1>4, SMT
<1>7. Head(Contents) = pop.got
  <2>1. Head(Contents) = Contents[1]
    BY <1>4, <1>6, SMT
  <2>2. Contents[1] = slots[Wrap(tail + 1 - 1)]
    BY <1>3, <1>4, SMT
  <2>3. Wrap(tail + 1 - 1) = tail
    BY <1>1, RingAssumption, SMT DEF RingAssumption, Indices, Wrap
  <2>4. QED
    BY <2>1, <2>2, <2>3, <1>1
<1>8. /\ Tail(Contents) \in Seq(Slot)
      /\ Len(Tail(Contents)) = Used(head, tail) - 1
      /\ \A i \in 1..(Used(head, tail) - 1) : Tail(Contents)[i] = Contents[i + 1]
  BY <1>3, <1>4, <1>6, HeadTailProperties, SMT
<1>9. ASSUME NEW i \in 1..(Used(head, tail) - 1)
      PROVE  Contents'[i] = Tail(Contents)[i]
  <2>1. Contents'[i] = slots[Wrap(Wrap(tail + 1) + i - 1)]
    BY <1>1, <1>5
  <2>2. Wrap(Wrap(tail + 1) + i - 1) = Wrap(tail + (i + 1) - 1)
    BY <1>1, QueuedAfterPop
  <2>3. Contents[i + 1] = slots[Wrap(tail + (i + 1) - 1)]
    BY <1>3, <1>4, SMT
  <2>4. QED
    BY <2>1, <2>2, <2>3, <1>8
<1>10. Contents' = Tail(Contents)
  BY <1>5, <1>8, <1>9, SeqEqual
<1>11. QED
  BY <1>6, <1>7, <1>10

\* The length of the queue is what the indices say.
LEMMA LengthIsUsed ==
  ASSUME RingInv
  PROVE  /\ Len(Contents) = Used(head, tail)
         /\ Used(head, tail) \in Indices
<1>1. /\ head \in Indices /\ tail \in Indices
      /\ slots \in [Indices -> Slot]
  BY DEF RingInv, RingTypeOK, Slot
<1>2. Contents = Queued(slots, head, tail)
  BY DEF Contents, Queued
<1>3. QED
  BY <1>1, <1>2, QueuedIsASequence, UsedBounds

LEMMA InitIsFifo == RingInit => Fifo!Init
<1> SUFFICES ASSUME RingInit PROVE Contents = << >>
  BY DEF RingInit, Fifo!Init
<1>1. Used(head, tail) = 0
  BY RingAssumption, SMT DEF RingAssumption, RingInit, Used
<1>2. RingInv
  BY RingInitInv
<1>3. Contents \in Seq(Slot)
  <2>1. Contents = Queued(slots, head, tail)
    BY DEF Contents, Queued
  <2>2. slots \in [Indices -> Slot] /\ head \in Indices /\ tail \in Indices
    BY <1>2 DEF RingInv, RingTypeOK, Slot
  <2>3. QED
    BY <2>1, <2>2, QueuedIsASequence
<1>4. Len(Contents) = 0
  BY <1>1, <1>2, LengthIsUsed
<1>5. QED
  BY <1>3, <1>4, SMT

\* Only the two stores, the refusal and the reservation show in the queue;
\* loading and copying are stuttering steps of it.
LEMMA StepIsFifo == RingInv /\ [RingNext]_spscVars => [Fifo!Next]_(Fifo!vars)
<1> SUFFICES ASSUME RingInv, [RingNext]_spscVars PROVE Fifo!Next \/ UNCHANGED Fifo!vars
  BY DEF Fifo!vars
<1> USE DEF consumerVars, producerVars
<1>1. ASSUME NEW item \in Items, PushBegins(item)
      PROVE  Fifo!Next \/ UNCHANGED Fifo!vars
  <2>1. Contents' = Contents
    BY <1>1, ContentsUnchanged DEF PushBegins
  <2>2. CASE ~Full(head, tail)
    BY <1>1, <2>1, <2>2 DEF PushBegins, Fifo!vars
  <2>3. CASE Full(head, tail)
    <3>1. Len(Contents) = Capacity - 1
      BY <2>3, LengthIsUsed, UsedBounds DEF RingInv, RingTypeOK
    <3>2. reserved = 0
      BY <3>1, LengthIsUsed, RingAssumption, SMT
         DEF RingInv, RingTypeOK, Promises, RingAssumption, Indices
    <3>3. Fifo!Refuse
      BY <1>1, <2>1, <2>3, <3>1, <3>2 DEF PushBegins, Fifo!Refuse
    <3>4. QED
      BY <3>3 DEF Fifo!Next
  <2>4. QED
    BY <2>2, <2>3
<1>2. CASE PushCopies
  BY <1>2, CopyingKeepsContents DEF PushCopies, Fifo!vars
<1>3. CASE PushStores
  <2>1. Contents' = Append(Contents, push.item)
    BY <1>3, StoringAppends
  <2>2. push.item \in Items /\ ~Full(head, tail)
    BY <1>3 DEF RingInv, Promises, PushStores
  <2>3. Len(Contents) < Capacity - 1
    <3>1. /\ Used(head, tail) # Capacity - 1
          /\ Used(head, tail) <= Capacity - 1
          /\ Used(head, tail) \in Nat
      BY <2>2, UsedBounds DEF RingInv, RingTypeOK
    <3>2. QED
      BY <3>1, LengthIsUsed, RingAssumption, SMT DEF RingAssumption
  <2>4. Fifo!Put(push.item)
    BY <1>3, <2>1, <2>3 DEF PushStores, Fifo!Put
  <2>5. QED
    BY <2>2, <2>4 DEF Fifo!Next
<1>4. ASSUME NEW n \in Indices, Reserve(n) PROVE Fifo!Next
  <2>1. Contents' = Contents
    BY <1>4, ContentsUnchanged DEF Reserve
  <2>2. Len(Contents) + n <= Capacity - 1 /\ n \in 0..(Capacity - 1)
    BY <1>4, LengthIsUsed, RingAssumption, SMT
       DEF Reserve, Free, RingAssumption, Indices
  <2>3. Fifo!Reserve(n)
    BY <1>4, <2>1, <2>2 DEF Reserve, Fifo!Reserve
  <2>4. QED
    BY <2>2, <2>3 DEF Fifo!Next
<1>5. CASE PopBegins
  BY <1>5, ContentsUnchanged DEF PopBegins, Fifo!vars
<1>6. CASE PopCopies
  BY <1>6, ContentsUnchanged DEF PopCopies, Fifo!vars
<1>7. CASE PopStores
  <2>1. Fifo!Take
    BY <1>7, PoppingTakesTheHead DEF PopStores, Fifo!Take
  <2>2. QED
    BY <2>1 DEF Fifo!Next
<1>8. CASE UNCHANGED spscVars
  BY <1>8, ContentsUnchanged DEF spscVars, Fifo!vars
<1>9. QED
  BY <1>1, <1>2, <1>3, <1>4, <1>5, <1>6, <1>7, <1>8 DEF RingNext

\* At any capacity, whatever the two sides' steps interleave to, what is pushed
\* is popped once and in order, a push fails only when the queue is full, and
\* room that Free() reported stays (spsc_ring.h:16-42, mixer_keys.cpp:163).
THEOREM ImplementsBoundedFifo == RingSpec => IsFifo
<1>1. RingSpec => Fifo!Init
  BY InitIsFifo DEF RingSpec
<1>2. QED
  BY <1>1, RingInvariant, StepIsFifo, PTL DEF RingSpec, IsFifo, Fifo!Spec

-----------------------------------------------------------------------------
(* Runs of consecutive frames. *)

\* A run of frames of the file is a sequence of as many.
LEMMA SpanIsSeq ==
  ASSUME NEW first \in Nat, NEW n \in Nat, first + n <= Total
  PROVE  /\ Span(first, n) \in Seq(0..Total)
         /\ Len(Span(first, n)) = n
         /\ \A i \in 1..n : Span(first, n)[i] = first + i - 1
BY AudioSourceAssumption, SMT DEF AudioSourceAssumption, Span

\* A run and the one that follows it are one run.
LEMMA SpansJoin ==
  ASSUME NEW first \in Nat, NEW m \in Nat, NEW n \in Nat, first + m + n <= Total
  PROVE  Span(first, m) \o Span(first + m, n) = Span(first, m + n)
<1> DEFINE left == Span(first, m)
           right == Span(first + m, n)
           whole == Span(first, m + n)
<1>0. /\ first + m \in Nat /\ m + n \in Nat
      /\ first + m <= Total /\ first + (m + n) <= Total
  BY AudioSourceAssumption, SMT DEF AudioSourceAssumption
<1>1. left \in Seq(0..Total) /\ Len(left) = m
  BY <1>0, SpanIsSeq
<1>2. right \in Seq(0..Total) /\ Len(right) = n
  BY <1>0, SpanIsSeq
<1>3. whole \in Seq(0..Total) /\ Len(whole) = m + n
  BY <1>0, SpanIsSeq
<1>4. \A i \in 1..m : left[i] = first + i - 1
  BY DEF Span
<1>5. \A i \in 1..n : right[i] = first + m + i - 1
  BY DEF Span
<1>6. \A i \in 1..(m + n) : whole[i] = first + i - 1
  BY DEF Span
<1> HIDE DEF left, right, whole
<1>7. /\ left \o right \in Seq(0..Total)
      /\ Len(left \o right) = m + n
      /\ \A i \in 1..(m + n) : (left \o right)[i] =
            IF i <= m THEN left[i] ELSE right[i - m]
  BY <1>1, <1>2, ConcatProperties
<1>8. ASSUME NEW i \in 1..(m + n) PROVE (left \o right)[i] = whole[i]
  <2>1. CASE i <= m
    <3>1. i \in 1..m
      BY <2>1
    <3> QED BY <3>1, <2>1, <1>4, <1>6, <1>7
  <2>2. CASE ~(i <= m)
    <3>1. i - m \in 1..n /\ first + m + (i - m) - 1 = first + i - 1
      BY <2>2
    <3> QED BY <3>1, <2>2, <1>5, <1>6, <1>7
  <2> QED BY <2>1, <2>2
<1>9. left \o right = whole
  BY <1>3, <1>7, <1>8, SeqEqual
<1> QED BY <1>9 DEF left, right, whole

\* What is left of a run once its first frames are gone.
LEMMA SpanRest ==
  ASSUME NEW first \in Nat, NEW n \in Nat, NEW k \in 0..n, first + n <= Total
  PROVE  SubSeq(Span(first, n), k + 1, n) = Span(first + k, n - k)
<1> DEFINE whole == Span(first, n)
           rest == Span(first + k, n - k)
<1>0. /\ first + k \in Nat /\ n - k \in Nat
      /\ (first + k) + (n - k) <= Total
  BY AudioSourceAssumption, SMT DEF AudioSourceAssumption
<1>1. whole \in Seq(0..Total) /\ Len(whole) = n
  BY SpanIsSeq
<1>2. rest \in Seq(0..Total) /\ Len(rest) = n - k
  BY <1>0, SpanIsSeq
<1>3. \A i \in 1..n : whole[i] = first + i - 1
  BY DEF Span
<1>4. \A i \in 1..(n - k) : rest[i] = first + k + i - 1
  BY DEF Span
<1> HIDE DEF whole, rest
<1>5. \A i \in (k + 1)..n : whole[i] \in 0..Total
  <2> SUFFICES ASSUME NEW i \in (k + 1)..n PROVE whole[i] \in 0..Total
    OBVIOUS
  <2>1. i \in 1..Len(whole)
    BY <1>1
  <2> QED BY <1>1, <2>1, ElementOfSeq
<1>6. /\ SubSeq(whole, k + 1, n) \in Seq(0..Total)
      /\ Len(SubSeq(whole, k + 1, n)) = IF k + 1 <= n THEN n - (k + 1) + 1 ELSE 0
      /\ \A i \in 1..(n - (k + 1) + 1) : SubSeq(whole, k + 1, n)[i] = whole[k + 1 + i - 1]
  <2>1. k + 1 \in Int /\ n \in Int
    OBVIOUS
  <2> QED BY <1>5, <2>1, SubSeqProperties
<1>7. Len(SubSeq(whole, k + 1, n)) = n - k
  BY <1>6
<1>8. ASSUME NEW i \in 1..(n - k) PROVE SubSeq(whole, k + 1, n)[i] = rest[i]
  <2>1. /\ i \in 1..(n - (k + 1) + 1) /\ k + 1 + i - 1 \in 1..n
        /\ first + (k + 1 + i - 1) - 1 = first + k + i - 1
    OBVIOUS
  <2> QED BY <2>1, <1>3, <1>4, <1>6
<1>9. SubSeq(whole, k + 1, n) = rest
  BY <1>2, <1>6, <1>7, <1>8, SeqEqual
<1> QED BY <1>9 DEF whole, rest

\* A chunk is at least a frame and never more than the ring holds.
LEMMA ChunkFits == ChunkFrames \in Nat \ {0} /\ ChunkFrames <= RingSize
BY AudioSourceAssumption, SMT DEF AudioSourceAssumption, ChunkFrames, Lesser

-----------------------------------------------------------------------------
(* The inductive invariant. *)

ThreadPcs == {"none", "testing", "sizing", "reading", "flagging", "writing",
              "ending", "checking", "holding", "asleep", "exited"}

SourceTypes ==
  /\ ring \in Seq(0..Total)
  /\ exhausted \in BOOLEAN /\ ended \in BOOLEAN
  /\ running \in BOOLEAN /\ attached \in BOOLEAN
  /\ position \in Nat /\ reader \in Nat /\ copied \in Nat
  /\ thread \in [pc : ThreadPcs, chunk : Seq(0..Total), ending : BOOLEAN,
                 parks : BOOLEAN]
  /\ app \in [pc : {"idle", "notifying", "joining", "asking"}, flag : BOOLEAN,
              atEnd : BOOLEAN]
  /\ cb \in [pc : {"idle", "copied", "short"}, got : Nat, counted : BOOLEAN]

Carrying == thread.pc \in {"flagging", "writing"}

\* The ring holds the frames after those delivered.
RingFollows == ring = Span(copied, Len(ring)) /\ Len(ring) <= RingSize

\* The chunk holds the frames after those in the ring, which has room for it.
ChunkFollows ==
  /\ thread.pc = "reading" => Len(ring) + ChunkFrames <= RingSize
  /\ Carrying => /\ thread.chunk = Span(copied + Len(ring), Len(thread.chunk))
                 /\ reader = copied + Len(ring) + Len(thread.chunk)
                 /\ Len(ring) + Len(thread.chunk) <= RingSize
  /\ ~Carrying => reader = copied + Len(ring)
  /\ reader <= Total

\* The position is behind by a block only inside a Read.
PositionFollows ==
  /\ cb.pc = "copied" => copied = position + cb.got
  /\ cb.pc # "copied" => copied = position

\* A source that is not running has no thread, unless Stop is at work.
Stopped ==
  /\ thread.pc = "none" => thread = NoThread
  /\ (app.pc \in {"idle", "asking"} /\ ~running) => thread.pc = "none"

\* Past the end nothing is read, so what is_at_end saw stays true.
EndStays ==
  /\ ended => thread.pc \notin {"sizing", "reading", "flagging", "writing"}
  /\ (app.pc = "asking" /\ app.flag) => ended
  /\ app.atEnd => ended /\ ring = << >>

\* The thread that knows of the end has said so, but for the one step before.
EndFlagged == thread.ending => exhausted \/ thread.pc = "flagging"

SourceInv ==
  /\ SourceTypes
  /\ RingFollows
  /\ ChunkFollows
  /\ PositionFollows
  /\ Stopped
  /\ EndStays
  /\ EndFlagged
  /\ NoFalseUnderrun

\* The invariant is what the three properties and the types need.
LEMMA SourceInvImplies == SourceInv => SourceTypeOK /\ InOrder /\ EndIsReal /\ NoFalseUnderrun
<1> SUFFICES ASSUME SourceInv PROVE SourceTypeOK /\ InOrder /\ EndIsReal /\ NoFalseUnderrun
  OBVIOUS
<1>1. /\ Len(ring) \in Nat /\ Len(thread.chunk) \in Nat /\ Total \in Nat
  BY AudioSourceAssumption, LenProperties DEF SourceInv, SourceTypes, AudioSourceAssumption
<1>2. copied <= reader /\ reader <= Total /\ position <= copied
  BY <1>1 DEF SourceInv, SourceTypes, ChunkFollows, PositionFollows
<1>3. SourceTypeOK
  BY <1>1, <1>2 DEF SourceInv, SourceTypes, RingFollows, SourceTypeOK, ThreadPcs
<1>4. InOrder
  BY DEF SourceInv, RingFollows, PositionFollows, InOrder
<1>5. EndIsReal
  <2>1. app.atEnd => ring = << >> /\ ~Carrying
    BY DEF SourceInv, EndStays, Carrying
  <2>2. app.atEnd => copied = reader
    BY <2>1, EmptySeq DEF SourceInv, SourceTypes, ChunkFollows
  <2> QED BY <2>1, <2>2 DEF EndIsReal, Pending, Carrying
<1> QED BY <1>3, <1>4, <1>5 DEF SourceInv

LEMMA SourceInitInv == SourceInit => SourceInv
<1> SUFFICES ASSUME SourceInit PROVE SourceInv
  OBVIOUS
<1>1. << >> \in Seq(0..Total) /\ Len(<< >>) = 0 /\ Total \in Nat /\ RingSize \in Nat
  BY AudioSourceAssumption, EmptySeq DEF AudioSourceAssumption
<1>2. SourceTypes
  BY <1>1 DEF SourceInit, SourceTypes, NoThread, NoCall, NoRead, ThreadPcs
<1>3. RingFollows
  <2>1. Span(0, 0) = << >>
    BY DEF Span
  <2> QED BY <1>1, <2>1 DEF SourceInit, RingFollows
<1>4. ChunkFollows /\ PositionFollows
  BY <1>1 DEF SourceInit, ChunkFollows, PositionFollows, Carrying, NoThread, NoRead
<1>5. Stopped /\ EndStays /\ EndFlagged /\ NoFalseUnderrun
  BY DEF SourceInit, Stopped, EndStays, EndFlagged, NoFalseUnderrun, NoThread, NoCall, NoRead
<1> QED BY <1>2, <1>3, <1>4, <1>5 DEF SourceInv

-----------------------------------------------------------------------------
(* The steps that move frames, one lemma each. *)

\* What the steps below use of the types.
LEMMA Sizes ==
  ASSUME SourceInv
  PROVE  /\ Len(ring) \in Nat /\ Len(thread.chunk) \in Nat
         /\ copied \in Nat /\ reader \in Nat
         /\ Total \in Nat /\ RingSize \in Nat
         /\ copied + Len(ring) <= reader /\ reader <= Total
BY AudioSourceAssumption, LenProperties
   DEF SourceInv, SourceTypes, ChunkFollows, AudioSourceAssumption

LEMMA ReadFramesInv ==
  ASSUME SourceInv, NEW n \in 0..ChunkFrames, NEW ending \in BOOLEAN, ReadFrames(n, ending)
  PROVE  SourceInv'
<1> USE DEF SourceInv, SourceTypes
<1> DEFINE chunk == Span(reader, n)
<1>1. n \in Nat /\ n <= ChunkFrames /\ reader + n <= Total
  BY Sizes, ChunkFits DEF ReadFrames, Lesser
<1>2. chunk \in Seq(0..Total) /\ Len(chunk) = n
  BY <1>1, SpanIsSeq
<1>3. /\ reader' = reader + n
      /\ thread' = [pc |-> "flagging", chunk |-> chunk, ending |-> ending, parks |-> FALSE]
      /\ UNCHANGED <<ring, exhausted, ended, running, app, position, attached, cb, copied>>
  BY DEF ReadFrames, ringVars, cbVars
<1>4. thread.pc = "reading" /\ reader = copied + Len(ring)
  BY DEF ReadFrames, ChunkFollows, Carrying
<1>5. SourceTypes'
  BY <1>1, <1>2, <1>3 DEF ThreadPcs
<1>6. RingFollows' /\ PositionFollows'
  BY <1>3 DEF RingFollows, PositionFollows
<1>7. ChunkFollows'
  <2>1. Len(ring) + n <= RingSize
    <3>1. Len(ring) + ChunkFrames <= RingSize
      BY <1>4 DEF ChunkFollows
    <3> QED BY <1>1, <3>1, Sizes, ChunkFits
  <2>2. thread'.chunk = Span(copied + Len(ring), n) /\ Len(thread'.chunk) = n
    BY <1>2, <1>3, <1>4
  <2>3. reader' = copied + Len(ring) + n /\ reader' <= Total
    BY <1>1, <1>3, <1>4
  <2>4. thread'.pc = "flagging" /\ ring' = ring /\ copied' = copied
    BY <1>3
  <2> HIDE DEF SourceInv, SourceTypes, chunk
  <2> QED BY <2>1, <2>2, <2>3, <2>4 DEF ChunkFollows, Carrying
<1>8. Stopped' /\ EndStays' /\ EndFlagged'
  BY <1>3, <1>4 DEF Stopped, EndStays, EndFlagged
<1>9. NoFalseUnderrun'
  <2>1. chunk # << >> => n # 0
    BY <1>1, <1>2 DEF Span
  <2>2. chunk # << >> => copied # reader + n
    BY <2>1, <1>1, <1>4, Sizes
  <2> QED BY <2>2, <1>3 DEF NoFalseUnderrun
<1> QED BY <1>5, <1>6, <1>7, <1>8, <1>9

LEMMA WritesChunkInv == ASSUME SourceInv, WritesChunk PROVE SourceInv'
<1> USE DEF SourceInv, SourceTypes
<1>1. /\ thread.pc = "writing"
      /\ thread.chunk = Span(copied + Len(ring), Len(thread.chunk))
      /\ reader = copied + Len(ring) + Len(thread.chunk)
      /\ Len(ring) + Len(thread.chunk) <= RingSize
  BY DEF WritesChunk, ChunkFollows, Carrying
<1>2. SubSeq(thread.chunk, 1, Lesser(Len(thread.chunk), RingSize - Len(ring)))
        = thread.chunk
  <2>1. Lesser(Len(thread.chunk), RingSize - Len(ring)) = Len(thread.chunk)
    BY <1>1, Sizes DEF Lesser
  <2> QED BY <2>1, SubSeqFull
<1>3. /\ ring' = ring \o thread.chunk
      /\ thread' = [thread EXCEPT !.pc = "ending"]
      /\ UNCHANGED <<exhausted, ended, running, reader, app, position, attached, cb, copied>>
  BY <1>2 DEF WritesChunk, cbVars
<1>4. ring' \in Seq(0..Total) /\ Len(ring') = Len(ring) + Len(thread.chunk)
  BY <1>3, ConcatProperties
<1>5. ring' = Span(copied, Len(ring) + Len(thread.chunk))
  <2>1. ring = Span(copied, Len(ring))
    BY DEF RingFollows
  <2>2. copied + Len(ring) + Len(thread.chunk) <= Total
    BY <1>1, Sizes
  <2>3. Span(copied, Len(ring)) \o Span(copied + Len(ring), Len(thread.chunk))
          = Span(copied, Len(ring) + Len(thread.chunk))
    BY <2>2, Sizes, SpansJoin
  <2> QED BY <1>1, <1>3, <2>1, <2>3
<1>6. SourceTypes'
  BY <1>3, <1>4 DEF ThreadPcs
<1>7. RingFollows'
  BY <1>1, <1>3, <1>4, <1>5 DEF RingFollows
<1>8. ChunkFollows'
  BY <1>1, <1>3, <1>4, Sizes DEF ChunkFollows, Carrying
<1>9. PositionFollows' /\ Stopped' /\ EndStays' /\ EndFlagged' /\ NoFalseUnderrun'
  BY <1>1, <1>3 DEF PositionFollows, Stopped, EndStays, EndFlagged, NoFalseUnderrun
<1> QED BY <1>6, <1>7, <1>8, <1>9

LEMMA ReadCopiesInv == ASSUME SourceInv, ReadCopies PROVE SourceInv'
<1> USE DEF SourceInv, SourceTypes
<1> DEFINE got == Lesser(Block, Len(ring))
<1>1. /\ got \in Nat /\ got \in 0..Len(ring)
      /\ ring = << >> => got = 0
  BY Sizes, EmptySeq, AudioSourceAssumption DEF Lesser, AudioSourceAssumption
<1>2. /\ cb.pc = "idle"
      /\ ring' = SubSeq(ring, got + 1, Len(ring))
      /\ copied' = copied + got
      /\ cb' = [pc |-> "copied", got |-> got, counted |-> FALSE]
      /\ UNCHANGED <<exhausted, ended, running, reader, thread, app, position, attached>>
  BY DEF ReadCopies
<1> HIDE DEF got
<1>3. ring' = Span(copied + got, Len(ring) - got)
  <2>1. ring = Span(copied, Len(ring))
    BY DEF RingFollows
  <2>2. copied + Len(ring) <= Total
    BY Sizes
  <2>3. SubSeq(Span(copied, Len(ring)), got + 1, Len(ring))
          = Span(copied + got, Len(ring) - got)
    BY <1>1, <2>2, Sizes, SpanRest
  <2> QED BY <1>2, <2>1, <2>3
<1>4. ring' \in Seq(0..Total) /\ Len(ring') = Len(ring) - got
  <2>1. /\ copied + got \in Nat /\ Len(ring) - got \in Nat
        /\ (copied + got) + (Len(ring) - got) <= Total
    BY <1>1, Sizes
  <2> QED BY <1>3, <2>1, SpanIsSeq
<1>5. ring = << >> => ring' = << >>
  BY <1>1, <1>4, EmptySeq
<1>6. SourceTypes'
  BY <1>1, <1>2, <1>4
<1>7. RingFollows'
  <2>1. Len(ring) \in Nat /\ Len(ring) <= RingSize /\ RingSize \in Nat
    BY Sizes DEF RingFollows
  <2>2. Len(ring') <= RingSize
    BY <1>1, <1>4, <2>1
  <2>3. ring' = Span(copied', Len(ring'))
    BY <1>2, <1>3, <1>4
  <2> QED BY <2>2, <2>3 DEF RingFollows
<1>8. ChunkFollows'
  <2>1. /\ Len(ring) \in Nat /\ RingSize \in Nat /\ copied \in Nat
        /\ Len(thread.chunk) \in Nat
    BY Sizes
  <2>2. copied' + Len(ring') = copied + Len(ring) /\ Len(ring') <= Len(ring)
    <3>1. copied' = copied + got /\ Len(ring') = Len(ring) - got /\ got \in 0..Len(ring)
      BY <1>1, <1>2, <1>4
    <3> HIDE DEF SourceInv, SourceTypes
    <3> QED BY <2>1, <3>1
  <2>3. Len(ring') \in Nat
    BY <1>1, <1>4, <2>1
  <2>4. thread' = thread /\ reader' = reader
    BY <1>2
  <2>5. ChunkFollows
    OBVIOUS
  <2> HIDE DEF SourceInv, SourceTypes
  <2>6. Len(ring') + ChunkFrames <= Len(ring) + ChunkFrames
    BY <2>1, <2>2, <2>3, ChunkFits
  <2>7. thread.pc = "reading" => Len(ring') + ChunkFrames <= RingSize
    BY <2>1, <2>3, <2>5, <2>6, ChunkFits DEF ChunkFollows
  <2>8. Carrying =>
          /\ thread.chunk = Span(copied' + Len(ring'), Len(thread.chunk))
          /\ reader = copied' + Len(ring') + Len(thread.chunk)
          /\ Len(ring') + Len(thread.chunk) <= RingSize
    <3>1. Carrying =>
            /\ thread.chunk = Span(copied + Len(ring), Len(thread.chunk))
            /\ reader = copied + Len(ring) + Len(thread.chunk)
            /\ Len(ring) + Len(thread.chunk) <= RingSize
      BY <2>5 DEF ChunkFollows
    <3>2. Len(ring) + Len(thread.chunk) <= RingSize
            => Len(ring') + Len(thread.chunk) <= RingSize
      BY <2>1, <2>2, <2>3
    <3> QED BY <2>2, <3>1, <3>2
  <2>9. (~Carrying => reader = copied' + Len(ring')) /\ reader <= Total
    BY <2>2, <2>5 DEF ChunkFollows
  <2> QED BY <2>4, <2>7, <2>8, <2>9 DEF ChunkFollows, Carrying
<1>9. PositionFollows' /\ Stopped' /\ EndStays' /\ EndFlagged' /\ NoFalseUnderrun'
  BY <1>1, <1>2, <1>5 DEF PositionFollows, Stopped, EndStays, EndFlagged, NoFalseUnderrun
<1> QED BY <1>6, <1>7, <1>8, <1>9

-----------------------------------------------------------------------------
(* The steps that move none. *)

LEMMA SeekInv == ASSUME SourceInv, NEW frame \in SeekFrames, Seek(frame) PROVE SourceInv'
<1> USE DEF SourceInv, SourceTypes
<1>1. frame \in Nat /\ frame <= Total
  BY AudioSourceAssumption DEF AudioSourceAssumption, Seek
<1>2. /\ reader' = frame /\ position' = frame /\ copied' = frame /\ ring' = << >>
      /\ exhausted' = FALSE /\ ended' = FALSE /\ app' = NoCall
      /\ UNCHANGED <<running, thread, attached, cb>>
  BY DEF Seek
<1>3. thread = NoThread /\ cb.pc = "idle" /\ ~running
  BY DEF Seek, Stopped
<1>4. << >> \in Seq(0..Total) /\ Len(<< >>) = 0 /\ Span(frame, 0) = << >>
  BY EmptySeq DEF Span
<1>5. SourceTypes'
  BY <1>1, <1>2, <1>4 DEF NoCall
<1>6. RingFollows' /\ ChunkFollows' /\ PositionFollows'
  BY <1>1, <1>2, <1>3, <1>4, Sizes
     DEF RingFollows, ChunkFollows, PositionFollows, Carrying, NoThread
<1>7. Stopped' /\ EndStays' /\ EndFlagged' /\ NoFalseUnderrun'
  BY <1>2, <1>3 DEF Stopped, EndStays, EndFlagged, NoFalseUnderrun, NoThread, NoCall
<1> QED BY <1>5, <1>6, <1>7

\* Start, Stop and is_at_end.
LEMMA AppInv ==
  ASSUME SourceInv,
         \/ Start \/ StopStores \/ StopSteps
         \/ AtEndLoadsFlag \/ AtEndLoadsRing \/ DeviceChanges
  PROVE  SourceInv'
<1> USE DEF SourceInv, SourceTypes, ringVars, cbVars
<1>0. << >> \in Seq(0..Total) /\ Len(<< >>) = 0
  BY EmptySeq
<1>1. CASE Start
  <2>1. thread = NoThread /\ thread' = [NoThread EXCEPT !.pc = "testing"] /\ running'
    BY <1>1 DEF Start, Stopped
  <2>2. SourceTypes'
    BY <1>0, <1>1 DEF Start, NoThread, ThreadPcs
  <2>3. RingFollows' /\ ChunkFollows' /\ PositionFollows'
    BY <1>1, <2>1 DEF Start, RingFollows, ChunkFollows, PositionFollows, Carrying, NoThread
  <2>4. Stopped' /\ EndStays' /\ EndFlagged' /\ NoFalseUnderrun'
    BY <1>1, <2>1 DEF Start, Stopped, EndStays, EndFlagged, NoFalseUnderrun, NoThread
  <2> QED BY <2>2, <2>3, <2>4
<1>2. CASE StopStores
  <2>1. SourceTypes'
    BY <1>2 DEF StopStores, NoCall
  <2>2. RingFollows' /\ ChunkFollows' /\ PositionFollows'
    BY <1>2 DEF StopStores, RingFollows, ChunkFollows, PositionFollows, Carrying
  <2>3. Stopped' /\ EndStays' /\ EndFlagged' /\ NoFalseUnderrun'
    BY <1>2 DEF StopStores, Stopped, EndStays, EndFlagged, NoFalseUnderrun, NoCall
  <2> QED BY <2>1, <2>2, <2>3
<1>3. CASE StopNotifies
  <2>1. SourceTypes'
    BY <1>3 DEF StopNotifies, ThreadPcs
  <2>2. RingFollows' /\ ChunkFollows' /\ PositionFollows'
    BY <1>3 DEF StopNotifies, RingFollows, ChunkFollows, PositionFollows, Carrying
  <2>3. Stopped' /\ EndStays' /\ EndFlagged' /\ NoFalseUnderrun'
    BY <1>3 DEF StopNotifies, Stopped, EndStays, EndFlagged, NoFalseUnderrun
  <2> QED BY <2>1, <2>2, <2>3
<1>4. CASE StopJoins
  <2>1. SourceTypes'
    BY <1>0, <1>4 DEF StopJoins, NoCall, NoThread, ThreadPcs
  <2>2. RingFollows' /\ ChunkFollows' /\ PositionFollows'
    BY <1>4 DEF StopJoins, RingFollows, ChunkFollows, PositionFollows, Carrying, NoThread
  <2>3. Stopped' /\ EndStays' /\ EndFlagged' /\ NoFalseUnderrun'
    BY <1>4 DEF StopJoins, Stopped, EndStays, EndFlagged, NoFalseUnderrun, NoThread, NoCall
  <2> QED BY <2>1, <2>2, <2>3
<1>5. CASE AtEndLoadsFlag
  <2>1. SourceTypes'
    BY <1>5 DEF AtEndLoadsFlag, EndFlag, NoCall
  <2>2. RingFollows' /\ ChunkFollows' /\ PositionFollows'
    BY <1>5 DEF AtEndLoadsFlag, RingFollows, ChunkFollows, PositionFollows, Carrying
  <2>3. Stopped' /\ EndStays' /\ EndFlagged' /\ NoFalseUnderrun'
    BY <1>5 DEF AtEndLoadsFlag, EndFlag, Stopped, EndStays, EndFlagged,
                NoFalseUnderrun, NoCall
  <2> QED BY <2>1, <2>2, <2>3
<1>6. CASE AtEndLoadsRing
  <2>1. SourceTypes'
    BY <1>6 DEF AtEndLoadsRing, NoCall
  <2>2. RingFollows' /\ ChunkFollows' /\ PositionFollows'
    BY <1>6 DEF AtEndLoadsRing, RingFollows, ChunkFollows, PositionFollows, Carrying
  <2>3. Stopped' /\ EndStays' /\ EndFlagged' /\ NoFalseUnderrun'
    BY <1>6 DEF AtEndLoadsRing, Stopped, EndStays, EndFlagged, NoFalseUnderrun, NoCall
  <2> QED BY <2>1, <2>2, <2>3
<1>7. CASE DeviceChanges
  <2>1. SourceTypes'
    BY <1>7 DEF DeviceChanges
  <2>2. RingFollows' /\ ChunkFollows' /\ PositionFollows'
    BY <1>7 DEF DeviceChanges, RingFollows, ChunkFollows, PositionFollows, Carrying
  <2>3. Stopped' /\ EndStays' /\ EndFlagged' /\ NoFalseUnderrun'
    BY <1>7 DEF DeviceChanges, Stopped, EndStays, EndFlagged, NoFalseUnderrun
  <2> QED BY <2>1, <2>2, <2>3
<1> QED BY <1>1, <1>2, <1>3, <1>4, <1>5, <1>6, <1>7 DEF StopSteps

\* The thread moves on: only a move into the refill, and only within a run, has
\* anything to keep.
LEMMA ThreadMovesInv ==
  ASSUME SourceInv, NEW pc \in ThreadPcs \ {"none", "flagging", "writing"},
         NEW parks \in BOOLEAN, ThreadMoves(pc, parks),
         ~Carrying, thread.pc # "none",
         pc = "reading" => Len(ring) + ChunkFrames <= RingSize,
         ended => pc \notin {"sizing", "reading"},
         thread.pc # "flagging"
  PROVE  SourceInv'
<1> USE DEF SourceInv, SourceTypes
<1>1. /\ thread' = [thread EXCEPT !.pc = pc, !.parks = parks]
      /\ UNCHANGED <<ring, exhausted, ended, running, reader, app, position, attached,
                     cb, copied>>
  BY DEF ThreadMoves, ringVars, cbVars
<1>2. SourceTypes'
  BY <1>1
<1>3. RingFollows' /\ PositionFollows'
  BY <1>1 DEF RingFollows, PositionFollows
<1>4. ChunkFollows'
  BY <1>1 DEF ChunkFollows, Carrying
<1>5. Stopped'
  BY <1>1 DEF Stopped
<1>6. EndStays' /\ EndFlagged' /\ NoFalseUnderrun'
  BY <1>1 DEF EndStays, EndFlagged, NoFalseUnderrun
<1> QED BY <1>2, <1>3, <1>4, <1>5, <1>6

LEMMA FlagsInv == ASSUME SourceInv, FlagsExhausted \/ FlagsEnded PROVE SourceInv'
<1> USE DEF SourceInv, SourceTypes, cbVars
<1>1. CASE FlagsExhausted
  <2>1. SourceTypes'
    BY <1>1 DEF FlagsExhausted, ThreadPcs
  <2>2. RingFollows' /\ ChunkFollows' /\ PositionFollows'
    BY <1>1 DEF FlagsExhausted, RingFollows, ChunkFollows, PositionFollows, Carrying
  <2>3. Stopped' /\ EndStays' /\ EndFlagged' /\ NoFalseUnderrun'
    BY <1>1 DEF FlagsExhausted, Stopped, EndStays, EndFlagged, NoFalseUnderrun
  <2> QED BY <2>1, <2>2, <2>3
<1>2. CASE FlagsEnded
  <2>1. SourceTypes'
    BY <1>2 DEF FlagsEnded, ThreadPcs
  <2>2. RingFollows' /\ ChunkFollows' /\ PositionFollows'
    BY <1>2 DEF FlagsEnded, RingFollows, ChunkFollows, PositionFollows, Carrying
  <2>3. Stopped' /\ EndStays' /\ EndFlagged' /\ NoFalseUnderrun'
    BY <1>2 DEF FlagsEnded, Stopped, EndStays, EndFlagged, NoFalseUnderrun
  <2> QED BY <2>1, <2>2, <2>3
<1> QED BY <1>1, <1>2

LEMMA ReadCountsInv == ASSUME SourceInv, ReadCounts PROVE SourceInv'
<1> USE DEF SourceInv, SourceTypes, ringVars
<1>1. /\ position' = position + cb.got /\ copied' = copied
      /\ copied = position + cb.got
      /\ cb'.pc # "copied" /\ cb'.counted = cb.counted
  BY DEF ReadCounts, FramesDelivered, PositionFollows
<1>2. SourceTypes'
  BY <1>1 DEF ReadCounts
<1>3. RingFollows' /\ ChunkFollows' /\ PositionFollows'
  BY <1>1 DEF ReadCounts, RingFollows, ChunkFollows, PositionFollows, Carrying
<1>4. Stopped' /\ EndStays' /\ EndFlagged' /\ NoFalseUnderrun'
  BY <1>1 DEF ReadCounts, Stopped, EndStays, EndFlagged, NoFalseUnderrun
<1> QED BY <1>2, <1>3, <1>4

\* An underrun is counted only while the thread has yet to say that the stream
\* ended, so with its chunk still on the way.
LEMMA ReadJudgesInv == ASSUME SourceInv, ReadJudges PROVE SourceInv'
<1> USE DEF SourceInv, SourceTypes, ringVars
<1>1. SourceTypes'
  BY DEF ReadJudges, NoMoreInput
<1>2. RingFollows' /\ ChunkFollows' /\ PositionFollows'
  BY DEF ReadJudges, RingFollows, ChunkFollows, PositionFollows, Carrying
<1>3. Stopped' /\ EndStays' /\ EndFlagged'
  BY DEF ReadJudges, Stopped, EndStays, EndFlagged
<1>4. NoFalseUnderrun'
  <2>1. (thread.ending /\ ~exhausted /\ thread.chunk # << >>) => copied # reader
    <3>1. thread.chunk # << >> => Len(thread.chunk) # 0
      BY EmptySeq
    <3> QED BY <3>1, Sizes DEF EndFlagged, ChunkFollows, Carrying
  <2>2. /\ cb'.counted = ~exhausted
        /\ UNCHANGED <<thread, copied, reader, exhausted>>
    BY DEF ReadJudges, NoMoreInput
  <2> QED BY <2>1, <2>2 DEF NoFalseUnderrun
<1> QED BY <1>1, <1>2, <1>3, <1>4

-----------------------------------------------------------------------------

\* Every step of the thread keeps the invariant.
LEMMA ThreadInv == ASSUME SourceInv, ThreadSteps PROVE SourceInv'
<1>1. ASSUME ReaderBlocks \/ ReaderProgresses PROVE SourceInv'
  <2>1. CASE ReaderBlocks
    <3>1. PICK n \in 0..(ChunkFrames - 1) : ReadFrames(n, FALSE)
      BY <2>1 DEF ReaderBlocks
    <3>2. n \in 0..ChunkFrames
      BY ChunkFits
    <3> QED BY <3>1, <3>2, ReadFramesInv
  <2>2. CASE ReaderProgresses
    <3>1. PICK n \in 0..ChunkFrames, ending \in BOOLEAN : ReadFrames(n, ending)
      BY <2>2 DEF ReaderProgresses
    <3> QED BY <3>1, ReadFramesInv
  <2> QED BY <1>1, <2>1, <2>2
<1>2. ASSUME LoopTests PROVE SourceInv'
  <2>1. thread.pc = "testing"
    BY <1>2 DEF LoopTests
  <2>2. CASE ThreadMoves("exited", FALSE)
    BY <2>1, <2>2, ThreadMovesInv DEF ThreadPcs, Carrying
  <2>3. CASE ThreadMoves("checking", TRUE)
    BY <2>1, <2>3, ThreadMovesInv DEF ThreadPcs, Carrying
  <2>4. CASE ~ended /\ ThreadMoves("sizing", FALSE)
    BY <2>1, <2>4, ThreadMovesInv DEF ThreadPcs, Carrying
  <2> QED BY <1>2, <2>2, <2>3, <2>4 DEF LoopTests
<1>3. ASSUME RefillSizes PROVE SourceInv'
  <2>1. thread.pc = "sizing" /\ ~ended
    BY <1>3 DEF RefillSizes, SourceInv, EndStays
  <2>2. CASE ThreadMoves("checking", FALSE)
    BY <2>1, <2>2, ThreadMovesInv DEF ThreadPcs, Carrying
  <2>3. CASE ~(RingSize - Len(ring) < ChunkFrames) /\ ThreadMoves("reading", FALSE)
    <3>1. Len(ring) + ChunkFrames <= RingSize
      BY <2>3, Sizes, ChunkFits
    <3> QED BY <2>1, <2>3, <3>1, ThreadMovesInv DEF ThreadPcs, Carrying
  <2> QED BY <1>3, <2>2, <2>3 DEF RefillSizes
<1>4. ASSUME WaitChecks \/ WaitSleeps \/ WaitTimesOut PROVE SourceInv'
  <2>1. thread.pc \in {"checking", "holding", "asleep"} /\ thread.parks \in BOOLEAN
    BY <1>4 DEF WaitChecks, WaitSleeps, WaitTimesOut, SourceInv, SourceTypes
  <2>2. PICK pc \in {"holding", "testing", "asleep"}, parks \in BOOLEAN :
          ThreadMoves(pc, parks)
    BY <1>4, <2>1 DEF WaitChecks, WaitSleeps, WaitTimesOut
  <2> QED BY <2>1, <2>2, ThreadMovesInv DEF ThreadPcs, Carrying
<1> QED BY <1>1, <1>2, <1>3, <1>4, FlagsInv, WritesChunkInv DEF ThreadSteps

\* So does every step.
LEMMA SourceNextInv == SourceInv /\ [SourceNext]_sourceVars => SourceInv'
<1> SUFFICES ASSUME SourceInv, [SourceNext]_sourceVars PROVE SourceInv'
  OBVIOUS
<1>1. CASE UNCHANGED sourceVars
  BY <1>1 DEF sourceVars, ringVars, cbVars, SourceInv, SourceTypes, RingFollows, ChunkFollows,
              PositionFollows, Stopped, EndStays, EndFlagged, NoFalseUnderrun, Carrying
<1>2. CASE \E frame \in SeekFrames : Seek(frame)
  BY <1>2, SeekInv
<1>3. CASE \/ Start \/ StopStores \/ StopSteps
           \/ AtEndLoadsFlag \/ AtEndLoadsRing \/ DeviceChanges
  BY <1>3, AppInv
<1>4. CASE ThreadSteps
  BY <1>4, ThreadInv
<1>5. CASE ReadSteps
  BY <1>5, ReadCopiesInv, ReadCountsInv, ReadJudgesInv DEF ReadSteps
<1> QED BY <1>1, <1>2, <1>3, <1>4, <1>5 DEF SourceNext

LEMMA AlwaysSourceInv == SourceSpec => []SourceInv
BY SourceInitInv, SourceNextInv, PTL DEF SourceSpec

\* The variables of audio_source.cpp keep their types: in particular the ring is
\* never overfilled and no frame past the end of the file is asked for.
THEOREM SourceTypeCorrect == SourceSpec => []SourceTypeOK
BY AlwaysSourceInv, SourceInvImplies, PTL

\* The callback gets the frames in order, each once, whatever the pauses, seeks and
\* refills, and a chunk always finds its room: WritesChunk loses nothing
\* (audio_source.cpp, Read and RefillOnce).
THEOREM FramesInOrder == SourceSpec => []InOrder
BY AlwaysSourceInv, SourceInvImplies, PTL

\* is_at_end never says so while a decoded frame has yet to reach the callback.
THEOREM EndNeverEarly == SourceSpec => []EndIsReal
BY AlwaysSourceInv, SourceInvImplies, PTL

\* The stream's last partial chunk never makes its block an underrun: the promise of
\* the comment in RefillOnce, which no test can time.
THEOREM LastBlockNoUnderrun == SourceSpec => []NoFalseUnderrun
BY AlwaysSourceInv, SourceInvImplies, PTL
=============================================================================
