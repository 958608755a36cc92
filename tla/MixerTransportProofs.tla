------------------------ MODULE MixerTransportProofs ------------------------
(***************************************************************************)
(* Proofs about MixerTransport: the stems of a song stay on one song frame, *)
(* whatever the number of stems, their lengths, the block, the ring, the    *)
(* places sought to and the loops set.                                     *)
(*                                                                         *)
(* The inductive invariant has five parts.  Types; Versions: an epoch is a  *)
(* plan's number, so the callback's epoch tells which plan it has adopted;  *)
(* Stamps: a source is of the newest plan, or of the one being committed;   *)
(* Heads: where each plan's head stands when counted from the transport;    *)
(* Reach: how far past its plan's head a source may have been read.         *)
(***************************************************************************)
EXTENDS MixerTransport, SequenceTheorems, WellFoundedInduction, TLAPS

Layouts == {l \in [looping : BOOLEAN, start : Nat, end : Nat] :
              l.looping => l.start < l.end}

Plans == [kind : {"none", "jump", "keep"}, frame : Nat, base : Nat,
          layout : Layouts, epoch : Nat]

SourceRecords == [live : BOOLEAN, pos : Nat, epoch : Nat, layout : Layouts,
                  early : BOOLEAN]

Types ==
  /\ appEpoch \in Nat /\ longest \in Nat /\ calls \in Nat /\ transport \in Nat
  /\ jumpBase \in Nat /\ stream \in Nat /\ epoch \in Nat
  /\ appLayout \in Layouts /\ layout \in Layouts
  /\ op \in [pc : {"idle", "staging", "committing", "loading"}, plan : Plans,
             left : SUBSET Tracks, track : Nat]
  /\ op.pc = "loading" => op.track \in Tracks
  /\ op.pc = "staging" => op.left = Tracks
  /\ source \in [Tracks -> SourceRecords]
  /\ \A t \in Tracks : ~source[t].layout.looping => source[t].pos <= Frames[t]
  /\ node \in [n : Nat, plan : Plans]
  /\ adopted \in 0..node.n
  /\ queued \in {"none", "play", "pause", "stop"}
  /\ cb \in [pc : {"between", "adopting", "mixing"}, track : Nat]
  /\ playing \in BOOLEAN
  /\ leapt \in SUBSET Tracks

Relaying == op.pc \in {"staging", "committing"}

Versions ==
  /\ node.plan.epoch = node.n
  /\ epoch = adopted
  /\ node.plan.kind = "none" <=> node.n = 0
  /\ appEpoch = IF op.pc = "committing" THEN node.n + 1 ELSE node.n
  /\ appLayout = IF op.pc = "committing" THEN op.plan.layout ELSE node.plan.layout
  /\ Relaying => op.plan.epoch = node.n + 1 /\ op.plan.kind # "none"
  /\ adopted = node.n => layout = node.plan.layout

\* A track whose source CommitPlan has already replaced.
Committed(t) == op.pc = "committing" /\ t \notin op.left

Stamped(s, plan) ==
  /\ s.epoch = plan.epoch
  /\ s.layout = plan.layout
  /\ s.early => plan.kind = "keep"

Stamps ==
  \A t \in Tracks : source[t].live =>
    Stamped(source[t], IF Committed(t) THEN op.plan ELSE node.plan)

\* A keep was planned at the song frame of a head that has since moved on with
\* the transport.
KeepsOn(plan, head, l) ==
  LET elapsed == transport - plan.base
  IN  /\ elapsed \in 0..head
      /\ plan.frame = SongFrameAt(l, head - elapsed)

Heads ==
  /\ jumpBase <= transport
  /\ node.plan.kind = "keep" => node.plan.base <= transport
  /\ adopted = node.n => PlannedStream = stream
  /\ Relaying /\ op.plan.kind = "keep"
       => ~JumpPending /\ KeepsOn(op.plan, PlannedStream, node.plan.layout)
  /\ node.plan.kind = "keep" /\ node.n = adopted + 1
       => KeepsOn(node.plan, stream, layout)
  /\ op.pc = "loading" => op.plan.frame <= PlannedStream

\* The head that the plan being committed would have now.
ComingStream ==
  IF op.plan.kind = "keep" THEN op.plan.frame + (transport - op.plan.base)
                           ELSE op.plan.frame

Reach ==
  \A t \in Tracks \ leapt : source[t].live =>
    source[t].pos <= Block + (IF Committed(t) THEN ComingStream ELSE PlannedStream)

\* Where a source of this epoch stands when it is read in this block.
StartsAt(e) == IF e = epoch THEN stream ELSE SongFrameAt(layout, stream)

Hearings == [epoch : Nat, layout : Layouts, song : Seq(Nat)]

Hearing ==
  /\ heard \in [Tracks -> Hearings]
  /\ cb.pc # "mixing" => heard = Silence
  /\ \A t \in Tracks :
       LET h == heard[t] IN
       /\ Len(h.song) <= Block
       /\ h.epoch = epoch /\ h.song # << >> => h.layout = layout
       /\ \A i \in 1..Len(h.song) :
            h.song[i] = SongFrameAt(h.layout, StartsAt(h.epoch) + i - 1)

IInv == Types /\ Versions /\ Stamps /\ Heads /\ Reach /\ Hearing

-----------------------------------------------------------------------------
(* Numbers. *)

\* Every set of naturals has a least element: in place of induction.
LEMMA LeastOf ==
  ASSUME NEW S \in SUBSET Nat, S # {}
  PROVE  \E x \in S : \A y \in S : x <= y
<1> DEFINE R == OpToRel(<, Nat)
<1>1. IsWellFoundedOn(R, Nat)
  BY NatLessThanWellFounded
<1>2. \A y, x \in Nat : <<y, x>> \in R <=> y < x
  BY DEF OpToRel
<1> HIDE DEF R
<1>3. PICK x \in S : \A y \in S : ~ (<<y, x>> \in R)
  BY <1>1, WFMin
<1>4. \A y \in S : x \in Nat /\ y \in Nat /\ ~ (y < x)
  BY <1>2, <1>3
<1>5. \A y \in S : x <= y
  BY <1>4
<1> QED BY <1>5

\* A set of naturals with a bound has a greatest element.
LEMMA GreatestOf ==
  ASSUME NEW S \in SUBSET Nat, NEW low \in S, NEW most \in Nat,
         \A m \in S : m <= most
  PROVE  \E n \in S : \A m \in S : m <= n
<1> DEFINE above == {u \in Nat : \A m \in S : m <= u}
<1>1. PICK n \in above : \A u \in above : n <= u
  <2>1. above \in SUBSET Nat /\ most \in above
    OBVIOUS
  <2> HIDE DEF above
  <2> QED BY <2>1, LeastOf
<1>2. n \in S
  <2>1. SUFFICES ASSUME n \notin S PROVE FALSE
    OBVIOUS
  <2>2. \A m \in S : m \in Nat /\ m < n
    BY <1>1, <2>1
  <2>3. n - 1 \in Nat /\ \A m \in S : m <= n - 1
    BY <1>1, <2>2
  <2>4. n - 1 \in above
    BY <2>3
  <2> QED BY <1>1, <2>4
<1> QED BY <1>1, <1>2

\* Some length is at least that of each stem.
LEMMA LengthsBounded ==
  ASSUME TransportConstants
  PROVE  \E most \in Nat : \A t \in Tracks : Frames[t] <= most
<1>1. PICK n \in Nat : Tracks = 1..n
  BY DEF TransportConstants
<1> DEFINE Bounded(k) == \E most \in Nat : \A t \in 1..k : Frames[t] <= most
           unbounded == {k \in 0..n : ~Bounded(k)}
<1>2. SUFFICES ASSUME unbounded # {} PROVE FALSE
  <2>1. n \in 0..n
    OBVIOUS
  <2> QED BY <1>1, <1>2, <2>1
<1>3. PICK k \in unbounded : \A j \in unbounded : k <= j
  <2>1. unbounded \in SUBSET Nat
    OBVIOUS
  <2> HIDE DEF unbounded
  <2> QED BY <1>2, <2>1, LeastOf
<1>4. k # 0
  <2>1. \A t \in 1..0 : Frames[t] <= 0
    OBVIOUS
  <2>2. Bounded(0)
    BY <2>1
  <2> QED BY <2>2
<1>5. k \in 1..n /\ k - 1 \in 0..n /\ k - 1 \notin unbounded
  <2>1. k \in 1..n /\ k - 1 \in 0..n
    BY <1>3, <1>4
  <2>2. ~(k <= k - 1)
    BY <2>1
  <2> HIDE DEF unbounded
  <2> QED BY <1>3, <2>1, <2>2
<1>6. PICK most \in Nat : \A t \in 1..(k - 1) : Frames[t] <= most
  BY <1>5
<1>7. \A t \in 1..k : Frames[t] \in Nat
  BY <1>1, <1>5 DEF TransportConstants
<1>8. \A t \in 1..k : t = k \/ t \in 1..(k - 1)
  BY <1>5
<1>9. PICK last \in Nat : last = Frames[k]
  BY <1>5, <1>7
<1>10. \A t \in 1..k : Frames[t] <= most + last
  BY <1>6, <1>7, <1>8, <1>9
<1>11. Bounded(k)
  BY <1>10
<1> QED BY <1>3, <1>11

\* The song's length is a length.
LEMMA LongestType ==
  ASSUME TransportConstants, NEW S \in SUBSET Tracks
  PROVE  Longest(S) \in Nat
<1> DEFINE lengths == {Frames[t] : t \in S} \cup {0}
<1>1. lengths \in SUBSET Nat /\ 0 \in lengths
  BY DEF TransportConstants
<1>2. PICK most \in Nat : \A m \in lengths : m <= most
  BY LengthsBounded, <1>1
<1>3. Longest(S) = CHOOSE n \in lengths : \A m \in lengths : m <= n
  BY DEF Longest
<1> HIDE DEF lengths
<1>4. \E n \in lengths : \A m \in lengths : m <= n
  BY <1>1, <1>2, GreatestOf
<1>5. Longest(S) \in lengths
  BY <1>3, <1>4
<1> QED BY <1>1, <1>5

\* Quotient and remainder.
LEMMA DivMod ==
  ASSUME NEW a \in Nat, NEW d \in Nat \ {0}
  PROVE  a % d \in 0..(d - 1) /\ a = d * (a \div d) + (a % d) /\ a \div d \in Nat
OBVIOUS

LEMMA RemainderUnique ==
  ASSUME NEW d \in Nat \ {0}, NEW q \in Int, NEW r \in 0..(d - 1),
         NEW p \in Int, NEW s \in 0..(d - 1), d * q + r = d * p + s
  PROVE  r = s
<1>1. d * (q - p) = s - r
  OBVIOUS
<1>2. CASE q - p >= 1
  <2>1. d * (q - p) >= d
    BY <1>2
  <2> QED BY <2>1, <1>1
<1>3. CASE q - p <= -1
  <2>1. d * (q - p) <= -d
    BY <1>3
  <2> QED BY <2>1, <1>1
<1>4. CASE q = p
  BY <1>4
<1> QED BY <1>2, <1>3, <1>4

\* A remainder counts on until it reaches the divisor.
LEMMA RemainderCountsOn ==
  ASSUME NEW a \in Nat, NEW d \in Nat \ {0}, NEW j \in Nat, (a % d) + j < d
  PROVE  (a + j) % d = (a % d) + j
<1>1. a = d * (a \div d) + (a % d) /\ a % d \in 0..(d - 1) /\ a \div d \in Nat
  BY DivMod
<1>2. a + j \in Nat
  OBVIOUS
<1>3. /\ a + j = d * ((a + j) \div d) + ((a + j) % d)
      /\ (a + j) % d \in 0..(d - 1)
      /\ (a + j) \div d \in Nat
  BY <1>2, DivMod
<1>4. ASSUME NEW q \in Nat, NEW p \in Nat, NEW r \in 0..(d - 1), NEW s \in 0..(d - 1),
             a = d * q + r, a + j = d * p + s, r + j < d
      PROVE  s = r + j
  <2>1. r + j \in 0..(d - 1) /\ d * q + (r + j) = d * p + s
    BY <1>4
  <2> QED BY <2>1, RemainderUnique
<1> QED BY <1>1, <1>3, <1>4

\* A remainder never grows by more than its dividend.
LEMMA RemainderGrows ==
  ASSUME NEW a \in Nat, NEW d \in Nat \ {0}, NEW j \in Nat
  PROVE  (a + j) % d <= (a % d) + j
<1>0. a + j \in Nat
  OBVIOUS
<1>1. a % d \in 0..(d - 1) /\ (a + j) % d \in 0..(d - 1)
  BY <1>0, DivMod
<1>2. PICK r \in 0..(d - 1), s \in 0..(d - 1) : r = a % d /\ s = (a + j) % d
  BY <1>1
<1>3. r + j < d => s = r + j
  BY <1>2, RemainderCountsOn
<1>4. s <= r + j
  BY <1>3
<1> QED BY <1>2, <1>4

-----------------------------------------------------------------------------
(* The song frame of a stream frame. *)

LEMMA SongFrameType ==
  ASSUME NEW l \in Layouts, NEW f \in Nat
  PROVE  /\ SongFrameAt(l, f) \in 0..f
         /\ l.looping => SongFrameAt(l, f) < l.end
         /\ ~l.looping \/ f < l.end => SongFrameAt(l, f) = f
<1>1. CASE l.looping /\ f >= l.end
  <2>1. l.start \in Nat /\ l.end \in Nat /\ l.start < l.end
    BY <1>1 DEF Layouts
  <2>2. f - l.end \in Nat /\ l.end - l.start \in Nat \ {0}
    BY <1>1, <2>1
  <2>3. (f - l.end) % (l.end - l.start) \in 0..(l.end - l.start - 1)
    BY <2>2, DivMod
  <2>4. SongFrameAt(l, f) = l.start + ((f - l.end) % (l.end - l.start))
    BY <1>1 DEF SongFrameAt
  <2> QED BY <1>1, <2>1, <2>3, <2>4
<1>2. CASE ~(l.looping /\ f >= l.end)
  <2>1. SongFrameAt(l, f) = f /\ l.end \in Nat
    BY <1>2 DEF SongFrameAt, Layouts
  <2> QED BY <1>2, <2>1
<1> QED BY <1>1, <1>2

\* Short of the loop's end the song goes on with the stream.
LEMMA SongGoesOn ==
  ASSUME NEW l \in Layouts, NEW f \in Nat, NEW j \in Nat,
         ~l.looping \/ SongFrameAt(l, f) + j < l.end
  PROVE  SongFrameAt(l, f + j) = SongFrameAt(l, f) + j
<1>1. CASE l.looping /\ f >= l.end
  <2>1. l.start \in Nat /\ l.end \in Nat /\ l.start < l.end
    BY <1>1 DEF Layouts
  <2> DEFINE a == f - l.end
             d == l.end - l.start
  <2>2. a \in Nat /\ d \in Nat \ {0}
    BY <1>1, <2>1
  <2>3. f + j >= l.end /\ f + j - l.end = a + j
    BY <1>1, <2>1
  <2>4. SongFrameAt(l, f) = l.start + (a % d)
    BY <1>1 DEF SongFrameAt
  <2>5. SongFrameAt(l, f + j) = l.start + ((a + j) % d)
    <3>1. PICK g \in Nat : g = f + j
      OBVIOUS
    <3>2. g >= l.end /\ g - l.end = a + j
      BY <2>1, <2>3, <3>1
    <3>3. SongFrameAt(l, g) = l.start + ((g - l.end) % (l.end - l.start))
      BY <1>1, <3>2 DEF SongFrameAt
    <3> QED BY <3>1, <3>2, <3>3
  <2>6. a % d \in 0..(d - 1)
    BY <2>2, DivMod
  <2>7. (a % d) + j < d
    BY <1>1, <2>1, <2>4, <2>6
  <2>8. (a + j) % d = (a % d) + j
    BY <2>2, <2>7, RemainderCountsOn
  <2> HIDE DEF a, d
  <2> QED BY <2>1, <2>2, <2>4, <2>5, <2>6, <2>8
<1>2. CASE ~(l.looping /\ f >= l.end)
  <2>1. SongFrameAt(l, f) = f /\ l.end \in Nat
    BY <1>2 DEF SongFrameAt, Layouts
  <2> QED BY <2>1 DEF SongFrameAt
<1> QED BY <1>1, <1>2

\* The song never moves by more than the stream.
LEMMA SongNeverFaster ==
  ASSUME NEW l \in Layouts, NEW f \in Nat, NEW j \in Nat
  PROVE  SongFrameAt(l, f + j) <= SongFrameAt(l, f) + j
<1>1. CASE l.looping /\ f >= l.end
  <2>1. l.start \in Nat /\ l.end \in Nat /\ l.start < l.end
    BY <1>1 DEF Layouts
  <2> DEFINE a == f - l.end
             d == l.end - l.start
  <2>2. a \in Nat /\ d \in Nat \ {0}
    BY <1>1, <2>1
  <2>3. f + j >= l.end /\ f + j - l.end = a + j
    BY <1>1, <2>1
  <2>4. SongFrameAt(l, f) = l.start + (a % d)
    BY <1>1 DEF SongFrameAt
  <2>5. SongFrameAt(l, f + j) = l.start + ((a + j) % d)
    <3>1. PICK g \in Nat : g = f + j
      OBVIOUS
    <3>2. g >= l.end /\ g - l.end = a + j
      BY <2>1, <2>3, <3>1
    <3>3. SongFrameAt(l, g) = l.start + ((g - l.end) % (l.end - l.start))
      BY <1>1, <3>2 DEF SongFrameAt
    <3> QED BY <3>1, <3>2, <3>3
  <2>6. a + j \in Nat
    BY <2>2
  <2>8. a % d \in 0..(d - 1) /\ (a + j) % d \in 0..(d - 1)
    BY <2>2, <2>6, DivMod
  <2>7. (a + j) % d <= (a % d) + j
    BY <2>2, RemainderGrows
  <2> HIDE DEF a, d
  <2> QED BY <2>1, <2>2, <2>4, <2>5, <2>7, <2>8
<1>2. CASE ~(l.looping /\ f >= l.end)
  <2>1. SongFrameAt(l, f) = f
    BY <1>2 DEF SongFrameAt
  <2>2. f + j \in Nat
    OBVIOUS
  <2> QED BY <2>1, <2>2, SongFrameType
<1> QED BY <1>1, <1>2

-----------------------------------------------------------------------------
(* What the invariant says of the heads, and what it implies. *)

\* Where the app thread takes the head to be, plan by plan.
LEMMA PlannedIs ==
  ASSUME Types, Versions, Heads
  PROVE  /\ PlannedStream \in Nat
         /\ node.plan.kind = "none" => PlannedStream = transport
         /\ JumpPending => PlannedStream = node.plan.frame
         /\ node.plan.kind = "jump" /\ ~JumpPending
              => PlannedStream = node.plan.frame + (transport - jumpBase)
         /\ node.plan.kind = "keep"
              => PlannedStream = node.plan.frame + (transport - node.plan.base)
<1>1. /\ node.plan.kind \in {"none", "jump", "keep"}
      /\ node.plan.frame \in Nat /\ node.plan.base \in Nat
      /\ transport \in Nat /\ jumpBase \in Nat
      /\ jumpBase <= transport
      /\ node.plan.kind = "keep" => node.plan.base <= transport
  BY DEF Types, Plans, Heads
<1> QED BY <1>1 DEF PlannedStream, JumpPending, Later

LEMMA NothingTypes ==
  /\ NoLoop \in Layouts
  /\ NoPlan \in Plans
  /\ NoSource \in SourceRecords
  /\ Idle \in [pc : {"idle", "staging", "committing", "loading"}, plan : Plans,
               left : SUBSET Tracks, track : Nat]
<1>1. NoLoop \in Layouts
  BY DEF NoLoop, Layouts
<1>2. NoPlan \in Plans
  BY <1>1 DEF NoPlan, Plans
<1> QED BY <1>1, <1>2 DEF NoSource, SourceRecords, Idle

LEMMA SilenceHeard ==
  /\ Silence \in [Tracks -> Hearings]
  /\ \A t \in Tracks : Silence[t].song = << >> /\ Len(Silence[t].song) = 0
<1>1. << >> \in Seq(Nat) /\ Len(<< >>) = 0
  BY EmptySeq
<1> QED BY <1>1, NothingTypes DEF Silence, Hearings

LEMMA SilenceHearing ==
  ASSUME Block \in Nat, heard = Silence
  PROVE  Hearing
BY SilenceHeard DEF Hearing

LEMMA InitInv == ASSUME TransportConstants PROVE Init => IInv
<1> SUFFICES ASSUME Init PROVE IInv
  OBVIOUS
<1>0. PICK loaded \in SUBSET Tracks :
        /\ source = [t \in Tracks |-> [NoSource EXCEPT !.live = t \in loaded]]
        /\ longest = Longest(loaded)
  BY DEF Init
<1>1. \A t \in Tracks :
        source[t] = [NoSource EXCEPT !.live = t \in loaded]
  BY <1>0
<1>2. Types
  <2>1. longest \in Nat
    BY <1>0, LongestType
  <2>2. \A t \in Tracks : [NoSource EXCEPT !.live = t \in loaded] \in SourceRecords
    <3>1. \A b \in BOOLEAN : [NoSource EXCEPT !.live = b] \in SourceRecords
      BY NothingTypes DEF SourceRecords
    <3>2. \A t \in Tracks : (t \in loaded) \in BOOLEAN
      OBVIOUS
    <3> QED BY <3>1, <3>2
  <2>3. source \in [Tracks -> SourceRecords]
    BY <1>0, <2>2
  <2>4. \A t \in Tracks : source[t].pos = 0 /\ Frames[t] \in Nat
    BY <1>1 DEF NoSource, TransportConstants
  <2>5. node \in [n : Nat, plan : Plans] /\ adopted \in 0..node.n
    BY NothingTypes DEF Init
  <2>6. op.pc = "idle" /\ op \in [pc : {"idle", "staging", "committing", "loading"},
                                  plan : Plans, left : SUBSET Tracks, track : Nat]
    BY NothingTypes DEF Init, Idle
  <2>7. /\ appEpoch = 0 /\ calls = 0 /\ transport = 0 /\ jumpBase = 0
        /\ stream = 0 /\ epoch = 0 /\ appLayout = NoLoop /\ layout = NoLoop
        /\ queued = "none" /\ playing = FALSE /\ leapt = {}
        /\ cb = [pc |-> "between", track |-> 0]
    BY DEF Init
  <2>8. cb \in [pc : {"between", "adopting", "mixing"}, track : Nat]
    BY <2>7
  <2>9. appLayout \in Layouts /\ layout \in Layouts
    BY <2>7, NothingTypes
  <2>10. \A t \in Tracks : source[t].pos <= Frames[t]
    BY <2>4
  <2>11. op.pc # "loading" /\ op.pc # "staging"
    BY <2>6
  <2> QED BY <2>1, <2>3, <2>5, <2>6, <2>7, <2>8, <2>9, <2>10, <2>11 DEF Types
<1>3. node.n = 0 /\ node.plan = NoPlan /\ op.pc = "idle"
  BY DEF Idle, Init
<1>4. Versions
  BY <1>3 DEF Versions, Relaying, NoPlan, Init
<1>5. Stamps
  <2>1. \A t \in Tracks : /\ source[t].epoch = 0 /\ source[t].layout = NoLoop
                         /\ source[t].early = FALSE
    BY <1>1 DEF NoSource
  <2> QED BY <1>3, <2>1 DEF Stamps, Stamped, Committed, NoPlan
<1>6. Heads
  BY <1>3 DEF Heads, PlannedStream, Relaying, NoPlan, Init
<1>7. Reach
  BY <1>1, <1>3
  DEF Reach, Committed, PlannedStream, NoSource, NoPlan, TransportConstants, Init
<1>8. Hearing
  BY SilenceHearing DEF TransportConstants, Init
<1> QED BY <1>2, <1>4, <1>5, <1>6, <1>7, <1>8 DEF IInv

-----------------------------------------------------------------------------
(* The calls of the app thread keep the invariant. *)

\* A call that leaves the plan and the transport alone leaves the head alone.
LEMMA PlannedStays ==
  ASSUME UNCHANGED <<node, transport, jumpBase, adopted>>
  PROVE  PlannedStream' = PlannedStream /\ JumpPending' = JumpPending
BY DEF PlannedStream, JumpPending

LEMMA HeardStays ==
  ASSUME Hearing, UNCHANGED <<stream, epoch, layout, heard, cb>>
  PROVE  Hearing'
BY DEF Hearing, StartsAt

\* What a call that begins has planned.
PlansAhead(pc, plan, track) ==
  /\ plan \in Plans /\ track \in Nat
  /\ pc \in {"idle", "staging", "loading"}
  /\ pc = "staging" => plan.epoch = node.n + 1 /\ plan.kind # "none"
  /\ pc = "staging" /\ plan.kind = "keep"
       => ~JumpPending /\ KeepsOn(plan, PlannedStream, node.plan.layout)
  /\ pc = "loading" => track \in Tracks /\ plan.frame <= PlannedStream

LEMMA BeginsInv ==
  ASSUME IInv, NEW pc, NEW plan, NEW track,
         PlansAhead(pc, plan, track), Begins(pc, plan, track),
         queued' \in {"none", "play", "pause", "stop"},
         UNCHANGED <<appEpoch, appLayout, longest, source, node, cbVars>>
  PROVE  IInv'
<1>1. Types /\ Versions /\ Stamps /\ Heads /\ Reach /\ Hearing
  BY DEF IInv
<1>2. /\ op.pc = "idle" /\ calls' = calls + 1
      /\ op' = [pc |-> pc, plan |-> plan, left |-> Tracks, track |-> track]
      /\ op'.pc = pc /\ op'.plan = plan /\ op'.left = Tracks /\ op'.track = track
  BY DEF Begins
<1>3. /\ plan \in Plans /\ track \in Nat
      /\ pc \in {"idle", "staging", "loading"}
      /\ pc = "staging" => plan.epoch = node.n + 1 /\ plan.kind # "none"
      /\ pc = "staging" /\ plan.kind = "keep"
           => ~JumpPending /\ KeepsOn(plan, PlannedStream, node.plan.layout)
      /\ pc = "loading" => track \in Tracks /\ plan.frame <= PlannedStream
  BY DEF PlansAhead
<1>4. UNCHANGED <<appEpoch, appLayout, longest, source, node, transport, jumpBase,
                  adopted, stream, epoch, layout, cb, playing, heard, leapt>>
  BY DEF cbVars, headVars
<1>5. PlannedStream' = PlannedStream /\ JumpPending' = JumpPending
  BY <1>4, PlannedStays
<1>6. Types'
  <2>1. op' \in [pc : {"idle", "staging", "committing", "loading"}, plan : Plans,
                 left : SUBSET Tracks, track : Nat]
    BY <1>2, <1>3
  <2> QED BY <1>1, <1>2, <1>3, <1>4, <2>1 DEF Types
<1>7. Versions'
  BY <1>1, <1>2, <1>3, <1>4 DEF Versions, Relaying
<1>8. \A t \in Tracks : ~Committed(t) /\ ~Committed(t)'
  BY <1>2, <1>3 DEF Committed
<1>9. Stamps'
  BY <1>1, <1>4, <1>8 DEF Stamps, Stamped
<1>10. Heads'
  BY <1>1, <1>2, <1>3, <1>4, <1>5 DEF Heads, KeepsOn, Relaying
<1>11. Reach'
  BY <1>1, <1>4, <1>5, <1>8 DEF Reach
<1>12. Hearing'
  BY <1>1, <1>4, HeardStays
<1> QED BY <1>6, <1>7, <1>9, <1>10, <1>11, <1>12 DEF IInv

\* Play, pause, stop, seek, the loop's calls and a load that begins.
LEMMA CallsInv ==
  ASSUME TransportConstants, IInv,
         \/ \E command \in {"play", "pause"} : PlayOrPause(command)
         \/ Stop
         \/ \E frame \in SeekFrames : Seek(frame)
         \/ \E l \in Loops : SetLoop(l[1], l[2])
         \/ ClearLoop
         \/ \E t \in Tracks : LoadTrack(t)
  PROVE  IInv'
<1>1. Types /\ Versions /\ Heads
  BY DEF IInv
<1>2. /\ appEpoch \in Nat /\ longest \in Nat /\ transport \in Nat
      /\ appLayout \in Layouts /\ node.n \in Nat
      /\ queued \in {"none", "play", "pause", "stop"}
  BY <1>1 DEF Types
<1>3. PlannedStream \in Nat
  BY <1>1, PlannedIs
<1>4. op.pc = "idle" => appEpoch = node.n /\ appLayout = node.plan.layout
  BY <1>1 DEF Versions
<1>5. PlannedSong \in Nat
  <2>1. PlannedSong \in 0..PlannedStream
    BY <1>2, <1>3, SongFrameType DEF PlannedSong
  <2> QED BY <1>3, <2>1
<1>6. ASSUME NEW f \in Nat, NEW l \in Layouts, NEW e \in Nat
      PROVE  \E plan \in Plans : /\ plan = [Jump(f, l) EXCEPT !.epoch = e]
                                 /\ plan.kind = "jump" /\ plan.epoch = e
  <2>1. Jump(f, l) \in Plans /\ Jump(f, l).kind = "jump"
    BY NothingTypes DEF Jump, Plans
  <2> DEFINE plan == [Jump(f, l) EXCEPT !.epoch = e]
  <2>2. plan \in Plans /\ plan.kind = "jump" /\ plan.epoch = e
    BY <2>1 DEF Plans
  <2> HIDE DEF plan
  <2>3. \E p \in Plans : p = plan /\ p.kind = "jump" /\ p.epoch = e
    BY <2>2
  <2> QED BY <2>3 DEF plan
<1>7. ASSUME NEW f \in Nat, NEW b \in Nat, NEW l \in Layouts, NEW e \in Nat
      PROVE  \E plan \in Plans : /\ plan = [Keep(f, b, l) EXCEPT !.epoch = e]
                                 /\ plan.kind = "keep" /\ plan.epoch = e
                                 /\ plan.base = b /\ plan.frame = f
  <2>1. /\ Keep(f, b, l) \in Plans /\ Keep(f, b, l).kind = "keep"
        /\ Keep(f, b, l).base = b /\ Keep(f, b, l).frame = f
    BY NothingTypes DEF Keep, Plans
  <2> DEFINE plan == [Keep(f, b, l) EXCEPT !.epoch = e]
  <2>2. /\ plan \in Plans /\ plan.kind = "keep" /\ plan.epoch = e
        /\ plan.base = b /\ plan.frame = f
    BY <2>1 DEF Plans
  <2> HIDE DEF plan
  <2>3. \E p \in Plans : /\ p = plan /\ p.kind = "keep" /\ p.epoch = e
                        /\ p.base = b /\ p.frame = f
    BY <2>2
  <2> QED BY <2>3 DEF plan
<1>8. ASSUME NEW f \in Nat, NEW l \in Layouts, op.pc = "idle"
      PROVE  PlansAhead("staging", [Jump(f, l) EXCEPT !.epoch = appEpoch + 1], 0)
  <2>1. appEpoch + 1 \in Nat
    BY <1>2
  <2>2. PICK plan \in Plans : /\ plan = [Jump(f, l) EXCEPT !.epoch = appEpoch + 1]
                              /\ plan.kind = "jump" /\ plan.epoch = appEpoch + 1
    BY <1>6, <2>1
  <2> QED BY <1>4, <1>8, <2>2 DEF PlansAhead
<1>9. ASSUME NEW l \in Layouts, op.pc = "idle", ~JumpPending
      PROVE  PlansAhead("staging",
               [Keep(PlannedSong, transport, l) EXCEPT !.epoch = appEpoch + 1], 0)
  <2>1. appEpoch + 1 \in Nat
    BY <1>2
  <2>2. PICK plan \in Plans :
          /\ plan = [Keep(PlannedSong, transport, l) EXCEPT !.epoch = appEpoch + 1]
          /\ plan.kind = "keep" /\ plan.epoch = appEpoch + 1
          /\ plan.base = transport /\ plan.frame = PlannedSong
    <3>1. PICK f \in Nat, b \in Nat, e \in Nat :
            f = PlannedSong /\ b = transport /\ e = appEpoch + 1
      BY <1>2, <1>5, <2>1
    <3>2. \E plan \in Plans : /\ plan = [Keep(f, b, l) EXCEPT !.epoch = e]
                              /\ plan.kind = "keep" /\ plan.epoch = e
                              /\ plan.base = b /\ plan.frame = f
      BY <1>7
    <3> QED BY <3>1, <3>2
  <2>3. KeepsOn(plan, PlannedStream, node.plan.layout)
    <3>1. transport - plan.base = 0 /\ PlannedStream - 0 = PlannedStream
      BY <1>2, <1>3, <2>2
    <3>2. 0 \in 0..PlannedStream
      BY <1>3
    <3>3. plan.frame = SongFrameAt(node.plan.layout, PlannedStream)
      BY <1>4, <1>9, <2>2 DEF PlannedSong
    <3> QED BY <3>1, <3>2, <3>3 DEF KeepsOn
  <2> QED BY <1>4, <1>9, <2>2, <2>3 DEF PlansAhead
<1>10. ASSUME NEW plan, Relayout(plan),
              PlansAhead("staging", [plan EXCEPT !.epoch = appEpoch + 1], 0)
       PROVE  IInv'
  BY <1>2, <1>10, BeginsInv DEF Relayout
<1>11. \A plan : Relayout(plan) => op.pc = "idle"
  BY DEF Relayout, Begins
<1>12. CASE \E command \in {"play", "pause"} : PlayOrPause(command)
  <2>1. PICK command \in {"play", "pause"} : PlayOrPause(command)
    BY <1>12
  <2>2. PlansAhead("idle", NoPlan, 0)
    BY NothingTypes DEF PlansAhead
  <2> QED BY <2>1, <2>2, BeginsInv DEF PlayOrPause
<1>13. CASE Stop
  <2>1. op.pc = "idle"
    BY <1>13 DEF Stop, Begins
  <2>2. PlansAhead("staging", [Jump(0, appLayout) EXCEPT !.epoch = appEpoch + 1], 0)
    BY <1>2, <1>8, <2>1
  <2> QED BY <1>13, <2>2, BeginsInv DEF Stop
<1>14. CASE \E frame \in SeekFrames : Seek(frame)
  <2>1. PICK frame \in SeekFrames : Seek(frame)
    BY <1>14
  <2>2. SeekTarget(Earlier(frame, longest)) \in Nat
    <3>1. frame \in Nat /\ appLayout.start \in Nat
      BY <1>2 DEF TransportConstants, Layouts
    <3> QED BY <1>2, <3>1 DEF SeekTarget, Earlier
  <2>3. op.pc = "idle"
    BY <1>11, <2>1 DEF Seek
  <2> QED BY <1>2, <1>8, <1>10, <2>1, <2>2, <2>3 DEF Seek
<1>15. CASE \E l \in Loops : SetLoop(l[1], l[2])
  <2>1. PICK start, end : <<start, end>> \in Nat \X Nat /\ SetLoop(start, end)
    BY <1>15 DEF TransportConstants
  <2> DEFINE l == Looping(start, end)
  <2>2. l \in Layouts
    <3>1. end - start >= MinLoop /\ MinLoop \in Nat \ {0} /\ start \in Nat /\ end \in Nat
      BY <2>1 DEF SetLoop, LoopIsValid, TransportConstants
    <3>2. start < end
      BY <3>1
    <3> QED BY <3>1, <3>2 DEF Looping, Layouts
  <2> HIDE DEF l
  <2>3. Relayout(CASE PlannedSong >= end -> Jump(start, l)
                   [] JumpPending        -> Jump(PlannedSong, l)
                   [] OTHER              -> Keep(PlannedSong, transport, l))
    BY <2>1 DEF SetLoop, l
  <2>4. op.pc = "idle"
    BY <1>11, <2>3
  <2>5. CASE Relayout(Jump(start, l))
    BY <1>8, <1>10, <2>1, <2>2, <2>4, <2>5
  <2>6. CASE Relayout(Jump(PlannedSong, l))
    BY <1>5, <1>8, <1>10, <2>2, <2>4, <2>6
  <2>7. CASE Relayout(Keep(PlannedSong, transport, l)) /\ ~JumpPending
    BY <1>9, <1>10, <2>2, <2>4, <2>7
  <2> QED BY <2>3, <2>5, <2>6, <2>7
<1>16. CASE ClearLoop
  <2>1. op.pc = "idle"
    BY <1>11, <1>16 DEF ClearLoop
  <2>2. CASE JumpPending
    BY <1>5, <1>8, <1>10, <1>16, <2>1, <2>2, NothingTypes DEF ClearLoop
  <2>3. CASE ~JumpPending
    BY <1>9, <1>10, <1>16, <2>1, <2>3, NothingTypes DEF ClearLoop
  <2> QED BY <2>2, <2>3
<1>17. CASE \E t \in Tracks : LoadTrack(t)
  <2>1. PICK t \in Tracks : LoadTrack(t)
    BY <1>17
  <2>2. PICK plan : plan = [NoPlan EXCEPT !.frame = PlannedStream]
    OBVIOUS
  <2>3. plan \in Plans /\ plan.frame = PlannedStream
    BY <1>3, <2>2, NothingTypes DEF Plans
  <2>4. t \in Nat
    BY DEF TransportConstants
  <2>5. PlansAhead("loading", plan, t)
    BY <1>3, <2>3, <2>4 DEF PlansAhead
  <2> QED BY <1>2, <2>1, <2>2, <2>5, BeginsInv DEF LoadTrack
<1> QED BY <1>12, <1>13, <1>14, <1>15, <1>16, <1>17

\* A call that fails drops what it had prepared.
LEMMA FailsInv ==
  ASSUME IInv, StageFails \/ LoadFails
  PROVE  IInv'
<1>1. Types /\ Versions /\ Stamps /\ Heads /\ Reach /\ Hearing
  BY DEF IInv
<1>2. /\ op.pc \in {"staging", "loading"} /\ op' = Idle /\ op'.pc = "idle"
      /\ UNCHANGED <<appEpoch, appLayout, longest, calls, source, node, queued,
                     transport, jumpBase, adopted, stream, epoch, layout, cb,
                     playing, heard, leapt>>
  BY DEF StageFails, LoadFails, cbVars, headVars, Idle
<1>3. PlannedStream' = PlannedStream /\ JumpPending' = JumpPending
  BY <1>2, PlannedStays
<1>4. \A t \in Tracks : ~Committed(t) /\ ~Committed(t)'
  BY <1>2 DEF Committed
<1>5. Types'
  BY <1>1, <1>2, NothingTypes DEF Types
<1>6. Versions'
  BY <1>1, <1>2 DEF Versions, Relaying
<1>7. Stamps'
  BY <1>1, <1>2, <1>4 DEF Stamps, Stamped
<1>8. Heads'
  BY <1>1, <1>2, <1>3 DEF Heads, KeepsOn, Relaying
<1>9. Reach'
  BY <1>1, <1>2, <1>3, <1>4 DEF Reach
<1>10. Hearing'
  BY <1>1, <1>2, HeardStays
<1> QED BY <1>5, <1>6, <1>7, <1>8, <1>9, <1>10 DEF IInv

LEMMA StagedInv ==
  ASSUME IInv, Staged
  PROVE  IInv'
<1>1. Types /\ Versions /\ Stamps /\ Heads /\ Reach /\ Hearing
  BY DEF IInv
<1>2. /\ op.pc = "staging" /\ op' = [op EXCEPT !.pc = "committing"]
      /\ appEpoch' = op.plan.epoch /\ appLayout' = op.plan.layout
      /\ UNCHANGED <<longest, calls, source, node, queued, transport, jumpBase,
                     adopted, stream, epoch, layout, cb, playing, heard, leapt>>
  BY DEF Staged, cbVars, headVars
<1>3. op'.pc = "committing" /\ op'.plan = op.plan /\ op'.left = Tracks
  BY <1>1, <1>2 DEF Types
<1>4. PlannedStream' = PlannedStream /\ JumpPending' = JumpPending
  BY <1>2, PlannedStays
<1>5. \A t \in Tracks : ~Committed(t) /\ ~Committed(t)'
  BY <1>2, <1>3 DEF Committed
<1>6. op.plan \in Plans /\ op.plan.epoch \in Nat /\ op.plan.layout \in Layouts
  BY <1>1 DEF Types, Plans
<1>7. Types'
  <2>1. op' \in [pc : {"idle", "staging", "committing", "loading"}, plan : Plans,
                 left : SUBSET Tracks, track : Nat]
    BY <1>1, <1>2 DEF Types
  <2> QED BY <1>1, <1>2, <1>3, <1>6, <2>1 DEF Types
<1>8. Versions'
  BY <1>1, <1>2, <1>3 DEF Versions, Relaying
<1>9. Stamps'
  BY <1>1, <1>2, <1>5 DEF Stamps, Stamped
<1>10. Heads'
  BY <1>1, <1>2, <1>3, <1>4 DEF Heads, KeepsOn, Relaying
<1>11. Reach'
  BY <1>1, <1>2, <1>4, <1>5 DEF Reach
<1>12. Hearing'
  BY <1>1, <1>2, HeardStays
<1> QED BY <1>7, <1>8, <1>9, <1>10, <1>11, <1>12 DEF IInv

\* The head of the plan being committed is no earlier than the plan's frame.
LEMMA ComingIs ==
  ASSUME Types, Versions, Heads, op.pc = "committing"
  PROVE  /\ op.plan.frame \in Nat /\ ComingStream \in Nat
         /\ op.plan.frame <= ComingStream
         /\ op.plan.kind \in {"jump", "keep"}
         /\ op.plan.kind = "keep" => op.plan.base <= transport
<1>1. /\ op.plan.frame \in Nat /\ op.plan.base \in Nat /\ transport \in Nat
      /\ op.plan.kind \in {"jump", "keep"}
  BY DEF Types, Versions, Relaying, Plans
<1>2. op.plan.kind = "keep" => transport - op.plan.base \in Nat
  <2>1. PlannedStream \in Nat
    BY PlannedIs
  <2> QED BY <2>1 DEF Heads, Relaying, KeepsOn
<1> QED BY <1>1, <1>2 DEF ComingStream

\* A source is built at the frame asked for, or at the end of its file.
LEMMA BuiltIs ==
  ASSUME TransportConstants, NEW t \in Tracks, NEW frame \in Nat,
         NEW stamp \in SourceRecords
  PROVE  /\ BuiltSource(t, frame, stamp) \in SourceRecords
         /\ BuiltSource(t, frame, stamp).pos <= frame
         /\ BuiltSource(t, frame, stamp).epoch = stamp.epoch
         /\ BuiltSource(t, frame, stamp).layout = stamp.layout
         /\ BuiltSource(t, frame, stamp).early = stamp.early
         /\ ~stamp.layout.looping => BuiltSource(t, frame, stamp).pos <= Frames[t]
<1>1. PICK pos \in Nat : pos = IF stamp.layout.looping THEN frame
                                                       ELSE Earlier(frame, Frames[t])
  BY DEF Earlier, TransportConstants
<1>2. pos <= frame /\ (~stamp.layout.looping => pos <= Frames[t])
  BY <1>1 DEF Earlier, TransportConstants
<1>3. BuiltSource(t, frame, stamp) = [stamp EXCEPT !.pos = pos]
  BY <1>1 DEF BuiltSource
<1> QED BY <1>2, <1>3 DEF SourceRecords

LEMMA CommitInv ==
  ASSUME TransportConstants, IInv, NEW t \in Tracks, CommitStaged(t)
  PROVE  IInv'
<1>1. Types /\ Versions /\ Stamps /\ Heads /\ Reach /\ Hearing
  BY DEF IInv
<1>2. /\ op.pc = "committing" /\ t \in op.left
      /\ op' = [op EXCEPT !.left = @ \ {t}]
      /\ source' = [source EXCEPT ![t] = IF @.live THEN StagedSource(t) ELSE @]
      /\ leapt' = leapt \ {t}
      /\ UNCHANGED <<appEpoch, appLayout, longest, calls, node, queued, transport,
                     jumpBase, adopted, stream, epoch, layout, cb, playing, heard>>
  BY DEF CommitStaged, headVars
<1>3. op'.pc = op.pc /\ op'.plan = op.plan /\ op'.left = op.left \ {t}
  BY <1>1, <1>2 DEF Types
<1>4. PlannedStream' = PlannedStream /\ JumpPending' = JumpPending
  BY <1>2, PlannedStays
<1>5. ComingStream' = ComingStream
  BY <1>2, <1>3 DEF ComingStream
<1>6. /\ op.plan \in Plans /\ op.plan.epoch \in Nat /\ op.plan.layout \in Layouts
      /\ op.plan.frame \in Nat /\ ComingStream \in Nat /\ op.plan.frame <= ComingStream
  BY <1>1, <1>2, ComingIs DEF Types, Plans
<1>7. Committed(t)' /\ \A u \in Tracks \ {t} : Committed(u)' = Committed(u)
  BY <1>2, <1>3 DEF Committed
<1>8. /\ StagedSource(t) \in SourceRecords
      /\ StagedSource(t).pos <= op.plan.frame
      /\ Stamped(StagedSource(t), op.plan)
      /\ ~StagedSource(t).layout.looping => StagedSource(t).pos <= Frames[t]
  <2> DEFINE stamp == [live |-> TRUE, pos |-> 0, epoch |-> op.plan.epoch,
                       layout |-> op.plan.layout, early |-> op.plan.kind = "keep"]
  <2>1. /\ stamp \in SourceRecords /\ stamp.epoch = op.plan.epoch
        /\ stamp.layout = op.plan.layout /\ (stamp.early => op.plan.kind = "keep")
    BY <1>6 DEF SourceRecords
  <2>2. StagedSource(t) = BuiltSource(t, op.plan.frame, stamp)
    BY DEF StagedSource
  <2> HIDE DEF stamp
  <2> QED BY <1>6, <2>1, <2>2, BuiltIs DEF Stamped
<1>9. /\ source'[t] = IF source[t].live THEN StagedSource(t) ELSE source[t]
      /\ \A u \in Tracks \ {t} : source'[u] = source[u]
  BY <1>1, <1>2 DEF Types
<1>10. Types'
  <2>1. op' \in [pc : {"idle", "staging", "committing", "loading"}, plan : Plans,
                 left : SUBSET Tracks, track : Nat]
    BY <1>1, <1>2 DEF Types
  <2>2. source' \in [Tracks -> SourceRecords]
    BY <1>1, <1>2, <1>8 DEF Types
  <2>3. \A u \in Tracks : ~source'[u].layout.looping => source'[u].pos <= Frames[u]
    BY <1>1, <1>8, <1>9 DEF Types
  <2>4. leapt' \in SUBSET Tracks
    BY <1>1, <1>2 DEF Types
  <2>5. op'.pc = "committing"
    BY <1>2, <1>3
  <2> QED BY <1>1, <1>2, <2>1, <2>2, <2>3, <2>4, <2>5 DEF Types
<1>11. Versions'
  BY <1>1, <1>2, <1>3 DEF Versions, Relaying
<1>12. Stamps'
  <2> SUFFICES ASSUME NEW u \in Tracks, source'[u].live
               PROVE  Stamped(source'[u], IF Committed(u)' THEN op'.plan ELSE node'.plan)
    BY DEF Stamps, Stamped
  <2>1. CASE u = t
    BY <1>3, <1>7, <1>8, <1>9, <2>1
  <2>2. CASE u # t
    BY <1>1, <1>2, <1>3, <1>7, <1>9, <2>2 DEF Stamps
  <2> QED BY <2>1, <2>2
<1>13. Heads'
  BY <1>1, <1>2, <1>3, <1>4 DEF Heads, KeepsOn, Relaying
<1>14. Reach'
  <2> SUFFICES ASSUME NEW u \in Tracks \ leapt', source'[u].live
               PROVE  source'[u].pos <=
                        Block + (IF Committed(u)' THEN ComingStream' ELSE PlannedStream')
    BY DEF Reach
  <2>1. CASE u = t
    <3>1. source'[t].pos \in Nat /\ source'[t].pos <= op.plan.frame
      BY <1>8, <1>9, <2>1 DEF SourceRecords
    <3> QED BY <1>5, <1>6, <1>7, <2>1, <3>1 DEF TransportConstants
  <2>2. CASE u # t
    BY <1>1, <1>2, <1>4, <1>5, <1>7, <1>9, <2>2 DEF Reach
  <2> QED BY <2>1, <2>2
<1>15. Hearing'
  BY <1>1, <1>2, HeardStays
<1> QED BY <1>10, <1>11, <1>12, <1>13, <1>14, <1>15 DEF IInv

LEMMA PublishInv ==
  ASSUME IInv, PublishPlan
  PROVE  IInv'
<1>1. Types /\ Versions /\ Stamps /\ Heads /\ Reach /\ Hearing
  BY DEF IInv
<1>2. /\ op.pc = "committing" /\ op.left = {}
      /\ node' = [n |-> node.n + 1, plan |-> op.plan]
      /\ op' = Idle /\ op'.pc = "idle"
      /\ UNCHANGED <<appEpoch, appLayout, longest, calls, source, queued, transport,
                     jumpBase, adopted, stream, epoch, layout, cb, playing, heard,
                     leapt>>
  BY DEF PublishPlan, cbVars, headVars, Idle
<1>3. /\ node.n \in Nat /\ adopted \in 0..node.n
      /\ node'.n = node.n + 1 /\ node'.plan = op.plan
      /\ op.plan \in Plans /\ op.plan.epoch = node.n + 1
      /\ op.plan.kind \in {"jump", "keep"}
  BY <1>1, <1>2, ComingIs DEF Types, Versions, Relaying
<1>4. \A t \in Tracks : Committed(t) /\ ~Committed(t)'
  BY <1>2 DEF Committed
<1>5. PlannedStream' = ComingStream
  <2>1. /\ op.plan.frame \in Nat /\ op.plan.base \in Nat /\ transport \in Nat
        /\ op.plan.kind = "keep" => op.plan.base <= transport
    BY <1>1, <1>2, ComingIs DEF Types, Plans
  <2>2. CASE op.plan.kind = "jump"
    <3>1. JumpPending'
      BY <1>2, <1>3, <2>2 DEF JumpPending
    <3> QED BY <1>3, <2>2, <3>1 DEF PlannedStream, ComingStream
  <2>3. CASE op.plan.kind = "keep"
    <3>1. ~JumpPending'
      BY <1>3, <2>3 DEF JumpPending
    <3>2. PlannedStream' = op.plan.frame + Later(transport - op.plan.base, 0)
      BY <1>2, <1>3, <2>3, <3>1 DEF PlannedStream
    <3> QED BY <2>1, <2>3, <3>2 DEF ComingStream, Later
  <2> QED BY <1>3, <2>2, <2>3
<1>6. Types'
  <2>1. node' \in [n : Nat, plan : Plans] /\ adopted' \in 0..node'.n
    BY <1>2, <1>3
  <2> QED BY <1>1, <1>2, <2>1, NothingTypes DEF Types
<1>7. Versions'
  BY <1>1, <1>2, <1>3 DEF Versions, Relaying
<1>8. Stamps'
  BY <1>1, <1>2, <1>3, <1>4 DEF Stamps, Stamped
<1>9. Heads'
  <2>1. jumpBase' <= transport' /\ ~Relaying' /\ op'.pc # "loading" /\ adopted' # node'.n
    BY <1>1, <1>2, <1>3 DEF Heads, Relaying
  <2>2. ASSUME op.plan.kind = "keep"
        PROVE  /\ op.plan.base <= transport
               /\ node.n = adopted => KeepsOn(op.plan, stream, layout)
    <3>1. Relaying
      BY <1>2 DEF Relaying
    <3> QED BY <1>1, <1>2, <2>2, <3>1, ComingIs DEF Heads, Versions
  <2>3. node'.plan.kind = "keep" /\ node'.n = adopted' + 1
          => KeepsOn(node.plan, stream, layout)'
    BY <1>2, <1>3, <2>2 DEF KeepsOn
  <2> QED BY <1>2, <1>3, <2>1, <2>2, <2>3 DEF Heads, KeepsOn
<1>10. Reach'
  BY <1>1, <1>2, <1>4, <1>5 DEF Reach
<1>11. Hearing'
  BY <1>1, <1>2, HeardStays
<1> QED BY <1>6, <1>7, <1>8, <1>9, <1>10, <1>11 DEF IInv

LEMMA LoadedInv ==
  ASSUME TransportConstants, IInv, Loaded
  PROVE  IInv'
<1>1. Types /\ Versions /\ Stamps /\ Heads /\ Reach /\ Hearing
  BY DEF IInv
<1> DEFINE t == op.track
<1>2. /\ op.pc = "loading" /\ t \in Tracks
      /\ source' = [source EXCEPT ![t] = JoinedSource(t)]
      /\ longest' = Longest(LiveTracks(source'))
      /\ op' = Idle /\ op'.pc = "idle"
      /\ leapt' = leapt \ {t}
      /\ UNCHANGED <<appEpoch, appLayout, calls, node, queued, transport, jumpBase,
                     adopted, stream, epoch, layout, cb, playing, heard>>
  BY <1>1 DEF Loaded, headVars, Idle, Types
<1> HIDE DEF t
<1>3. PlannedStream' = PlannedStream /\ JumpPending' = JumpPending
  BY <1>2, PlannedStays
<1>4. \A u \in Tracks : ~Committed(u) /\ ~Committed(u)'
  BY <1>2 DEF Committed
<1>5. /\ JoinedSource(t) \in SourceRecords
      /\ JoinedSource(t).pos <= op.plan.frame
      /\ Stamped(JoinedSource(t), node.plan)
      /\ ~JoinedSource(t).layout.looping => JoinedSource(t).pos <= Frames[t]
  <2> DEFINE stamp == [live |-> TRUE, pos |-> 0, epoch |-> appEpoch,
                       layout |-> appLayout, early |-> FALSE]
  <2>1. /\ stamp \in SourceRecords /\ stamp.epoch = node.plan.epoch
        /\ stamp.layout = node.plan.layout /\ ~stamp.early
    BY <1>1, <1>2 DEF SourceRecords, Types, Versions
  <2>2. JoinedSource(t) = BuiltSource(t, op.plan.frame, stamp)
    BY DEF JoinedSource
  <2>3. op.plan.frame \in Nat
    BY <1>1 DEF Types, Plans
  <2> HIDE DEF stamp
  <2> QED BY <1>2, <2>1, <2>2, <2>3, BuiltIs DEF Stamped
<1>6. source'[t] = JoinedSource(t) /\ \A u \in Tracks \ {t} : source'[u] = source[u]
  BY <1>1, <1>2 DEF Types
<1>7. Types'
  <2>1. longest' \in Nat
    BY <1>2, LongestType DEF LiveTracks
  <2>2. source' \in [Tracks -> SourceRecords]
    BY <1>1, <1>2, <1>5 DEF Types
  <2>3. \A u \in Tracks : ~source'[u].layout.looping => source'[u].pos <= Frames[u]
    BY <1>1, <1>5, <1>6 DEF Types
  <2>4. leapt' \in SUBSET Tracks
    BY <1>1, <1>2 DEF Types
  <2> QED BY <1>1, <1>2, <2>1, <2>2, <2>3, <2>4, NothingTypes DEF Types
<1>8. Versions'
  BY <1>1, <1>2 DEF Versions, Relaying
<1>9. Stamps'
  BY <1>1, <1>2, <1>4, <1>5, <1>6 DEF Stamps, Stamped
<1>10. Heads'
  BY <1>1, <1>2, <1>3 DEF Heads, KeepsOn, Relaying
<1>11. Reach'
  <2>1. /\ JoinedSource(t).pos <= Block + PlannedStream
    <3>1. op.plan.frame \in Nat /\ op.plan.frame <= PlannedStream /\ PlannedStream \in Nat
      BY <1>1, <1>2, PlannedIs DEF Heads, Types, Plans
    <3> QED BY <1>5, <3>1 DEF TransportConstants, SourceRecords
  <2> QED BY <1>1, <1>2, <1>3, <1>4, <1>6, <2>1 DEF Reach
<1>12. Hearing'
  BY <1>1, <1>2, HeardStays
<1> QED BY <1>7, <1>8, <1>9, <1>10, <1>11, <1>12 DEF IInv

LEMMA UnloadInv ==
  ASSUME TransportConstants, IInv, NEW t \in Tracks, UnloadTrack(t)
  PROVE  IInv'
<1>1. Types /\ Versions /\ Stamps /\ Heads /\ Reach /\ Hearing
  BY DEF IInv
<1>2. /\ op.pc = "idle" /\ calls' = calls + 1
      /\ op' = [pc |-> "idle", plan |-> NoPlan, left |-> Tracks, track |-> 0]
      /\ op'.pc = "idle"
      /\ source' = [source EXCEPT ![t] = NoSource]
      /\ longest' = Longest(LiveTracks(source'))
      /\ leapt' = leapt \ {t}
      /\ UNCHANGED <<appEpoch, appLayout, node, queued, transport, jumpBase,
                     adopted, stream, epoch, layout, cb, playing, heard>>
  BY DEF UnloadTrack, Begins, headVars
<1>3. PlannedStream' = PlannedStream /\ JumpPending' = JumpPending
  BY <1>2, PlannedStays
<1>4. \A u \in Tracks : ~Committed(u) /\ ~Committed(u)'
  BY <1>2 DEF Committed
<1>5. source'[t] = NoSource /\ \A u \in Tracks \ {t} : source'[u] = source[u]
  BY <1>1, <1>2 DEF Types
<1>6. NoSource.pos = 0 /\ NoSource.live = FALSE /\ Frames[t] \in Nat
  BY DEF NoSource, TransportConstants
<1>7. Types'
  <2>1. longest' \in Nat
    BY <1>2, LongestType DEF LiveTracks
  <2>2. source' \in [Tracks -> SourceRecords]
    BY <1>1, <1>2, NothingTypes DEF Types
  <2>3. \A u \in Tracks : ~source'[u].layout.looping => source'[u].pos <= Frames[u]
    BY <1>1, <1>5, <1>6 DEF Types
  <2>4. leapt' \in SUBSET Tracks
    BY <1>1, <1>2 DEF Types
  <2>5. op' \in [pc : {"idle", "staging", "committing", "loading"}, plan : Plans,
                 left : SUBSET Tracks, track : Nat]
    BY <1>2, NothingTypes
  <2> QED BY <1>1, <1>2, <2>1, <2>2, <2>3, <2>4, <2>5 DEF Types
<1>8. Versions'
  BY <1>1, <1>2 DEF Versions, Relaying
<1>9. Stamps'
  BY <1>1, <1>2, <1>4, <1>5, <1>6 DEF Stamps, Stamped
<1>10. Heads'
  BY <1>1, <1>2, <1>3 DEF Heads, KeepsOn, Relaying
<1>11. Reach'
  BY <1>1, <1>2, <1>3, <1>4, <1>5, <1>6 DEF Reach
<1>12. Hearing'
  BY <1>1, <1>2, HeardStays
<1> QED BY <1>7, <1>8, <1>9, <1>10, <1>11, <1>12 DEF IInv

-----------------------------------------------------------------------------
(* The callback keeps the invariant. *)

\* The callback adopts a plan: where the head was planned to be, it is.
LEMMA AdoptInv ==
  ASSUME TransportConstants, IInv, AdoptPlan, cb.pc # "mixing",
         queued' \in {"none", "play", "pause", "stop"}, playing' \in BOOLEAN,
         cb' \in [pc : {"between", "adopting", "mixing"}, track : Nat],
         UNCHANGED <<appVars, source, node, heard, leapt>>
  PROVE  IInv'
<1>1. Types /\ Versions /\ Stamps /\ Heads /\ Reach /\ Hearing
  BY DEF IInv
<1>2. /\ adopted' = node.n /\ transport' = transport
      /\ UNCHANGED <<appEpoch, appLayout, longest, op, calls, source, node, heard,
                     leapt>>
  BY DEF AdoptPlan, appVars
<1>3. /\ node.plan \in Plans /\ node.n \in Nat /\ adopted \in 0..node.n
      /\ node.plan.epoch = node.n /\ node.plan.frame \in Nat /\ node.plan.base \in Nat
      /\ transport \in Nat /\ jumpBase \in Nat /\ jumpBase <= transport
      /\ node.plan.layout \in Layouts
  BY <1>1 DEF Types, Versions, Plans, Heads
<1>4. /\ epoch' = node.n /\ layout' = node.plan.layout
      /\ stream' = PlannedStream
      /\ jumpBase' \in Nat /\ jumpBase' <= transport
      /\ PlannedStream' = PlannedStream
  <2>1. CASE node.n = adopted
    <3>1. UNCHANGED <<stream, epoch, layout, jumpBase, adopted>>
      BY <1>2, <2>1 DEF AdoptPlan
    <3>2. PlannedStream' = PlannedStream
      BY <1>2, <3>1, PlannedStays
    <3> QED BY <1>1, <1>3, <2>1, <3>1, <3>2 DEF Versions, Heads
  <2>2. CASE node.n # adopted
    <3>1. /\ epoch' = node.plan.epoch /\ layout' = node.plan.layout
          /\ stream' = IF node.plan.kind = "keep" THEN KeepLandsAt(node.plan)
                                                  ELSE node.plan.frame
          /\ jumpBase' = IF node.plan.kind = "keep" THEN jumpBase ELSE transport
      BY <2>2 DEF AdoptPlan
    <3>2. node.plan.kind \in {"jump", "keep"} /\ ~JumpPending'
      BY <1>1, <1>2, <1>3, <2>2 DEF Versions, Plans, JumpPending
    <3>3. CASE node.plan.kind = "jump"
      <4>1. PlannedStream = node.plan.frame
        BY <1>1, <2>2, <3>3, PlannedIs DEF JumpPending
      <4>2. PlannedStream' = node.plan.frame + Later(transport - transport, 0)
        BY <1>2, <3>1, <3>2, <3>3 DEF PlannedStream
      <4> QED BY <1>3, <3>1, <3>3, <4>1, <4>2 DEF Later
    <3>4. CASE node.plan.kind = "keep"
      <4>1. PlannedStream' = node.plan.frame + Later(transport - node.plan.base, 0)
        BY <1>2, <3>2, <3>4 DEF PlannedStream
      <4>2. PlannedStream = node.plan.frame + (transport - node.plan.base)
        BY <1>1, <3>4, PlannedIs
      <4>3. node.plan.base <= transport
        BY <1>1, <3>4 DEF Heads
      <4> QED BY <1>3, <3>1, <3>4, <4>1, <4>2, <4>3 DEF Later, KeepLandsAt
    <3> QED BY <3>2, <3>3, <3>4
  <2> QED BY <2>1, <2>2
<1>5. PlannedStream \in Nat
  BY <1>1, PlannedIs
<1>6. ~JumpPending'
  BY <1>2 DEF JumpPending
<1>7. Types'
  <2>1. stream' \in Nat /\ epoch' \in Nat /\ layout' \in Layouts /\ adopted' \in 0..node'.n
    BY <1>2, <1>3, <1>4, <1>5
  <2> QED BY <1>1, <1>2, <1>4, <2>1 DEF Types
<1>8. Versions'
  BY <1>1, <1>2, <1>4 DEF Versions, Relaying
<1>9. \A t \in Tracks : Committed(t)' = Committed(t)
  BY <1>2 DEF Committed
<1>10. Stamps'
  BY <1>1, <1>2, <1>9 DEF Stamps, Stamped
<1>11. Heads'
  <2>1. node.n # adopted' + 1
    BY <1>2, <1>3
  <2> QED BY <1>1, <1>2, <1>4, <1>6, <2>1 DEF Heads, KeepsOn, Relaying
<1>12. ComingStream' = ComingStream
  BY <1>2 DEF ComingStream
<1>13. Reach'
  BY <1>1, <1>2, <1>4, <1>9, <1>12 DEF Reach
<1>14. Hearing'
  <2>1. heard' = Silence
    BY <1>1, <1>2 DEF Hearing
  <2>2. \A t \in Tracks : /\ heard'[t].song = << >> /\ Len(heard'[t].song) = 0
                          /\ heard'[t] \in Hearings
    BY <2>1, SilenceHeard
  <2> QED BY <2>1, <2>2, SilenceHeard DEF Hearing, TransportConstants
<1> QED BY <1>7, <1>8, <1>10, <1>11, <1>13, <1>14 DEF IInv

LEMMA BlockStartsInv ==
  ASSUME TransportConstants, IInv, BlockOpens \/ BlockAdoptsAgain
  PROVE  IInv'
<1>1. queued \in {"none", "play", "pause", "stop"} /\ playing \in BOOLEAN
  BY DEF IInv, Types
<1>2. CASE BlockOpens
  <2>1. playing' \in BOOLEAN /\ queued' = "none" /\ cb.pc = "between" /\ AdoptPlan
    BY <1>1, <1>2 DEF BlockOpens
  <2>2. cb' \in [pc : {"between", "adopting", "mixing"}, track : Nat]
    BY <1>2 DEF BlockOpens
  <2> QED BY <1>2, <2>1, <2>2, AdoptInv DEF BlockOpens
<1>3. CASE BlockAdoptsAgain
  <2>1. playing' = playing /\ queued' = queued /\ cb.pc = "adopting" /\ AdoptPlan
    BY <1>3 DEF BlockAdoptsAgain
  <2>2. cb' \in [pc : {"between", "adopting", "mixing"}, track : Nat]
    BY <1>3 DEF BlockAdoptsAgain
  <2> QED BY <1>1, <1>3, <2>1, <2>2, AdoptInv DEF BlockAdoptsAgain
<1> QED BY <1>2, <1>3

\* A source that may sound is of the epoch playing, or of a keep's.  Where it is
\* read from is short of its plan's head, unless it is two epochs early.
LEMMA SoundsAt ==
  ASSUME IInv, NEW t \in Tracks, MaySound(source[t])
  PROVE  /\ FrameFor(source[t]) \in Nat
         /\ FrameFor(source[t]) = StartsAt(source[t].epoch)
         /\ source[t].epoch = epoch => source[t].layout = layout
         /\ source[t].epoch <= epoch + 1
              => FrameFor(source[t]) <= IF Committed(t) THEN ComingStream
                                                        ELSE PlannedStream
<1>1. Types /\ Versions /\ Stamps /\ Heads
  BY DEF IInv
<1> DEFINE s == source[t]
<1>2. /\ s \in SourceRecords /\ s.epoch \in Nat /\ epoch \in Nat /\ stream \in Nat
      /\ layout \in Layouts /\ node.n \in Nat /\ adopted \in 0..node.n
  BY <1>1 DEF Types, SourceRecords
<1>3. s.live /\ (s.epoch = epoch \/ (s.early /\ s.epoch > epoch))
  BY DEF MaySound
<1>4. Stamped(s, IF Committed(t) THEN op.plan ELSE node.plan)
  BY <1>1, <1>3 DEF Stamps
<1>5. /\ epoch = adopted /\ node.plan.epoch = node.n
      /\ Committed(t) => op.pc = "committing" /\ Relaying /\ op.plan.epoch = node.n + 1
      /\ adopted = node.n => layout = node.plan.layout /\ PlannedStream = stream
  BY <1>1 DEF Versions, Committed, Relaying, Heads
<1> HIDE DEF s
<1>6. FrameFor(s) = StartsAt(s.epoch)
  BY DEF FrameFor, StartsAt
<1>7. FrameFor(s) \in Nat
  <2>1. SongFrameAt(layout, stream) \in 0..stream
    BY <1>2, SongFrameType
  <2> QED BY <1>2, <2>1 DEF FrameFor
<1>8. CASE s.epoch = epoch
  <2>1. ~Committed(t)
    BY <1>2, <1>4, <1>5, <1>8 DEF Stamped
  <2>2. adopted = node.n /\ s.layout = node.plan.layout
    BY <1>2, <1>4, <1>5, <1>8, <2>1 DEF Stamped
  <2>3. FrameFor(s) = stream
    BY <1>8 DEF FrameFor
  <2> QED BY <1>2, <1>5, <1>6, <1>7, <2>1, <2>2, <2>3 DEF s
<1>9. CASE s.epoch # epoch
  <2>1. s.early /\ s.epoch > epoch /\ FrameFor(s) = SongFrameAt(layout, stream)
    BY <1>3, <1>9 DEF FrameFor
  <2>2. ASSUME NEW plan \in Plans, plan.kind = "keep", KeepsOn(plan, stream, layout)
        PROVE  SongFrameAt(layout, stream) <= plan.frame + (transport - plan.base)
    <3>1. transport - plan.base \in 0..stream
      BY <2>2 DEF KeepsOn
    <3>2. PICK elapsed \in Nat, f \in Nat :
            elapsed = transport - plan.base /\ f = stream - elapsed /\ stream = f + elapsed
      BY <1>2, <3>1
    <3>3. plan.frame = SongFrameAt(layout, f)
      BY <2>2, <3>2 DEF KeepsOn
    <3> QED BY <1>2, <3>2, <3>3, SongNeverFaster
  <2>3. ASSUME s.epoch <= epoch + 1, Committed(t)
        PROVE  FrameFor(s) <= ComingStream
    <3>1. op.plan.kind = "keep" /\ adopted = node.n
      BY <1>2, <1>4, <1>5, <2>1, <2>3 DEF Stamped
    <3>2. KeepsOn(op.plan, stream, layout)
      BY <1>1, <1>5, <2>3, <3>1 DEF Heads
    <3>3. op.plan \in Plans
      BY <1>1 DEF Types
    <3> QED BY <2>1, <2>2, <3>1, <3>2, <3>3 DEF ComingStream
  <2>4. ASSUME s.epoch <= epoch + 1, ~Committed(t)
        PROVE  FrameFor(s) <= PlannedStream
    <3>1. node.plan.kind = "keep" /\ node.n = adopted + 1
      BY <1>2, <1>4, <1>5, <2>1, <2>4 DEF Stamped
    <3>2. KeepsOn(node.plan, stream, layout)
      BY <1>1, <3>1 DEF Heads
    <3>3. node.plan \in Plans
      BY <1>1 DEF Types
    <3> QED BY <1>1, <2>1, <2>2, <3>1, <3>2, <3>3, PlannedIs
  <2> QED BY <1>6, <1>7, <1>9, <2>3, <2>4 DEF s
<1> QED BY <1>8, <1>9

\* What a block does to a source it may play: it discards up to the frame asked
\* for, and from there it reads a block at most.
Aligned(t, got, played) ==
  LET s == source[t] IN
  \E pos \in Nat :
    /\ source' = [source EXCEPT ![t].pos = pos]
    /\ pos = s.pos \/ pos <= FrameFor(s) + Block
    /\ ~s.layout.looping => pos <= Frames[t]
    /\ ~played => heard' = heard
    /\ played =>
         heard' = [heard EXCEPT ![t] =
           [epoch |-> s.epoch, layout |-> s.layout,
            song |-> [i \in 1..got |-> SongFrameAt(s.layout, FrameFor(s) + i - 1)]]]

LEMMA MixReads ==
  ASSUME TransportConstants, Types, NEW t \in Tracks, MixTrack(t),
         MaySound(source[t]), FrameFor(source[t]) \in Nat
  PROVE  \E got \in 0..Block, played \in BOOLEAN : Aligned(t, got, played)
<1> DEFINE s == source[t]
<1>1. /\ s \in SourceRecords /\ s.pos \in Nat /\ FrameFor(s) \in Nat
      /\ ~s.layout.looping => s.pos <= Frames[t]
      /\ Frames[t] \in Nat /\ Ring \in Nat /\ Block \in Nat
      /\ source \in [Tracks -> SourceRecords] /\ source[t] = s
  BY DEF Types, SourceRecords, TransportConstants
<1> HIDE DEF s
<1>2. PICK buffered \in 0..Earlier(Ring, Remaining(t, s)) :
        IF AlignedTo(s, buffered).pos # FrameFor(s)
        THEN source' = [source EXCEPT ![t] = AlignedTo(s, buffered)] /\ UNCHANGED heard
        ELSE \E got \in 0..Earlier(Block, Remaining(t, AlignedTo(s, buffered))) :
               /\ source' = [source EXCEPT ![t] =
                               [AlignedTo(s, buffered) EXCEPT !.pos = @ + got]]
               /\ heard' = [heard EXCEPT ![t] =
                    [epoch |-> s.epoch, layout |-> s.layout,
                     song |-> [i \in 1..got |->
                       SongFrameAt(s.layout, AlignedTo(s, buffered).pos + i - 1)]]]
  BY <1>1 DEF MixTrack, s
<1>3. PICK frame \in Nat : frame = FrameFor(s)
  BY <1>1
<1>4. Remaining(t, s) \in Nat /\ (~s.layout.looping => Remaining(t, s) = Frames[t] - s.pos)
  BY <1>1 DEF Remaining
<1>5. buffered \in Nat /\ (~s.layout.looping => buffered <= Frames[t] - s.pos)
  BY <1>1, <1>2, <1>4 DEF Earlier
<1>6. PICK at \in Nat :
        at = IF frame - s.pos < 0 THEN s.pos ELSE s.pos + Earlier(frame - s.pos, buffered)
  BY <1>1, <1>5 DEF Earlier
<1>7. AlignedTo(s, buffered) = [s EXCEPT !.pos = at]
  BY <1>3, <1>6 DEF AlignedTo
<1>8. /\ AlignedTo(s, buffered).pos = at
      /\ AlignedTo(s, buffered).layout = s.layout
  BY <1>1, <1>7 DEF SourceRecords
<1>9. /\ at = s.pos \/ at <= frame
      /\ ~s.layout.looping => at <= Frames[t]
  BY <1>1, <1>5, <1>6 DEF Earlier
<1>10. CASE at # frame
  <2>1. source' = [source EXCEPT ![t].pos = at] /\ heard' = heard
    BY <1>1, <1>2, <1>3, <1>7, <1>8, <1>10
  <2>2. at = s.pos \/ at <= frame + Block
    BY <1>1, <1>9
  <2>3. Aligned(t, 0, FALSE)
    BY <1>1, <1>3, <1>9, <2>1, <2>2 DEF Aligned
  <2>4. 0 \in 0..Block /\ FALSE \in BOOLEAN
    BY <1>1
  <2> QED BY <2>3, <2>4, Zenon
<1>11. CASE at = frame
  <2>1. PICK got \in 0..Earlier(Block, Remaining(t, AlignedTo(s, buffered))) :
          /\ source' = [source EXCEPT ![t] =
                          [AlignedTo(s, buffered) EXCEPT !.pos = @ + got]]
          /\ heard' = [heard EXCEPT ![t] =
               [epoch |-> s.epoch, layout |-> s.layout,
                song |-> [i \in 1..got |->
                  SongFrameAt(s.layout, AlignedTo(s, buffered).pos + i - 1)]]]
    BY <1>2, <1>3, <1>8, <1>11
  <2>2. Remaining(t, AlignedTo(s, buffered))
          = IF s.layout.looping THEN Ring + Block ELSE Frames[t] - at
    BY <1>8 DEF Remaining
  <2>3. /\ got \in 0..Block
        /\ ~s.layout.looping => at + got <= Frames[t]
    BY <1>1, <1>9, <2>1, <2>2 DEF Earlier
  <2>4. source' = [source EXCEPT ![t].pos = at + got]
    <3>1. [AlignedTo(s, buffered) EXCEPT !.pos = @ + got] = [s EXCEPT !.pos = at + got]
      BY <1>1, <1>7, <1>8 DEF SourceRecords
    <3> QED BY <1>1, <2>1, <3>1
  <2>5. at + got \in Nat /\ at + got <= frame + Block
    BY <1>1, <1>11, <2>3
  <2>6. Aligned(t, got, TRUE)
    BY <1>1, <1>3, <1>8, <1>11, <2>1, <2>3, <2>4, <2>5 DEF Aligned
  <2> QED BY <2>3, <2>6
<1> QED BY <1>10, <1>11

\* The song frames of a block are frames of a song.
LEMMA SongFramesAre ==
  ASSUME NEW l \in Layouts, NEW f \in Nat, NEW got \in Nat
  PROVE  \A i \in 1..got : SongFrameAt(l, f + i - 1) \in Nat
<1> SUFFICES ASSUME NEW i \in 1..got PROVE SongFrameAt(l, f + i - 1) \in Nat
  OBVIOUS
<1>1. PICK g \in Nat : g = f + i - 1
  OBVIOUS
<1>2. SongFrameAt(l, g) \in 0..g
  BY SongFrameType
<1> QED BY <1>1, <1>2

LEMMA MixInv ==
  ASSUME TransportConstants, IInv, NEW t \in Tracks, MixTrack(t)
  PROVE  IInv'
<1>1. Types /\ Versions /\ Stamps /\ Heads /\ Reach /\ Hearing
  BY DEF IInv
<1> DEFINE s == source[t]
<1>2. /\ cb.pc = "mixing" /\ cb' = [cb EXCEPT !.track = t + 1]
      /\ leapt' = IF MaySound(s) /\ s.epoch > epoch + 1 THEN leapt \cup {t} ELSE leapt
      /\ UNCHANGED <<appEpoch, appLayout, longest, op, calls, node, queued, transport,
                     jumpBase, adopted, stream, epoch, layout, playing>>
  BY DEF MixTrack, appVars, headVars
<1>3. PlannedStream' = PlannedStream /\ JumpPending' = JumpPending
  BY <1>2, PlannedStays
<1>4. /\ \A u \in Tracks : Committed(u)' = Committed(u)
      /\ ComingStream' = ComingStream /\ \A e : StartsAt(e)' = StartsAt(e)
  BY <1>2 DEF Committed, ComingStream, StartsAt
<1>5. cb'.pc = "mixing" /\ cb' \in [pc : {"between", "adopting", "mixing"}, track : Nat]
  <2>1. t \in Nat
    BY DEF TransportConstants
  <2> QED BY <1>1, <1>2, <2>1 DEF Types
<1>6. leapt \subseteq leapt' /\ leapt' \in SUBSET Tracks
  BY <1>1, <1>2 DEF Types
<1>7. s \in SourceRecords /\ s.pos \in Nat /\ s.epoch \in Nat /\ s.layout \in Layouts
  BY <1>1 DEF Types, SourceRecords
<1>8. Versions' /\ Heads'
  BY <1>1, <1>2, <1>3 DEF Versions, Heads, KeepsOn, Relaying
<1>9. CASE ~MaySound(s)
  <2>1. source' = source /\ heard' = heard
    BY <1>9 DEF MixTrack
  <2>2. Types'
    BY <1>1, <1>2, <1>5, <1>6, <2>1 DEF Types
  <2>3. Stamps'
    BY <1>1, <1>2, <1>4, <2>1 DEF Stamps, Stamped
  <2>4. Reach'
    BY <1>1, <1>3, <1>4, <1>6, <2>1 DEF Reach
  <2>5. Hearing'
    BY <1>1, <1>2, <1>4, <1>5, <2>1 DEF Hearing
  <2> QED BY <1>8, <2>2, <2>3, <2>4, <2>5 DEF IInv
<1>10. CASE MaySound(s)
  <2>1. /\ FrameFor(s) \in Nat /\ FrameFor(s) = StartsAt(s.epoch)
        /\ s.epoch = epoch => s.layout = layout
        /\ s.epoch <= epoch + 1
             => FrameFor(s) <= IF Committed(t) THEN ComingStream ELSE PlannedStream
    BY <1>10, SoundsAt
  <2>2. PICK got \in 0..Block, played \in BOOLEAN : Aligned(t, got, played)
    BY <1>1, <1>10, <2>1, MixReads
  <2>3. PICK pos \in Nat :
          /\ source' = [source EXCEPT ![t].pos = pos]
          /\ pos = s.pos \/ pos <= FrameFor(s) + Block
          /\ ~s.layout.looping => pos <= Frames[t]
    BY <2>2 DEF Aligned
  <2>4. /\ \A u \in Tracks \ {t} : source'[u] = source[u]
        /\ source'[t] = [s EXCEPT !.pos = pos]
        /\ source' \in [Tracks -> SourceRecords]
    BY <1>1, <2>3 DEF Types, SourceRecords
  <2>5. /\ source'[t].live = s.live /\ source'[t].epoch = s.epoch
        /\ source'[t].layout = s.layout /\ source'[t].early = s.early
        /\ source'[t].pos = pos
    BY <1>7, <2>4 DEF SourceRecords
  <2>6. Types'
    <3>1. \A u \in Tracks : ~source'[u].layout.looping => source'[u].pos <= Frames[u]
      BY <1>1, <2>3, <2>4, <2>5 DEF Types
    <3> QED BY <1>1, <1>2, <1>5, <1>6, <2>4, <3>1 DEF Types
  <2>7. Stamps'
    <3> SUFFICES ASSUME NEW u \in Tracks, source'[u].live
                 PROVE  Stamped(source'[u], IF Committed(u)' THEN op'.plan ELSE node'.plan)
      BY DEF Stamps, Stamped
    <3>1. source[u].live
      BY <2>4, <2>5
    <3>2. Stamped(source[u], IF Committed(u) THEN op.plan ELSE node.plan)
      BY <1>1, <3>1 DEF Stamps
    <3> QED BY <1>2, <1>4, <2>4, <2>5, <3>2 DEF Stamped
  <2>8. Reach'
    <3> SUFFICES ASSUME NEW u \in Tracks \ leapt', source'[u].live
                 PROVE  source'[u].pos <= Block + (IF Committed(u) THEN ComingStream
                                                                  ELSE PlannedStream)
      BY <1>3, <1>4 DEF Reach
    <3>1. source[u].live /\ u \in Tracks \ leapt
      BY <1>6, <2>4, <2>5
    <3>2. source[u].pos <= Block + (IF Committed(u) THEN ComingStream ELSE PlannedStream)
      BY <1>1, <3>1 DEF Reach
    <3>3. CASE u # t
      BY <2>4, <3>2, <3>3
    <3>4. CASE u = t
      <4>1. s.epoch <= epoch + 1
        <5>1. ~(s.epoch > epoch + 1)
          BY <1>2, <1>10, <3>4
        <5> QED BY <1>1, <1>7, <5>1 DEF Types
      <4>2. FrameFor(s) <= IF Committed(t) THEN ComingStream ELSE PlannedStream
        BY <2>1, <4>1
      <4>3. PlannedStream \in Nat /\ (Committed(t) => ComingStream \in Nat)
        BY <1>1, PlannedIs, ComingIs DEF Committed
      <4> QED BY <2>1, <2>3, <2>5, <3>2, <3>4, <4>2, <4>3 DEF TransportConstants
    <3> QED BY <3>3, <3>4
  <2>9. Hearing'
    <3>1. CASE ~played
      <4>1. heard' = heard
        BY <2>2, <3>1 DEF Aligned
      <4> QED BY <1>1, <1>2, <1>4, <1>5, <4>1 DEF Hearing
    <3>2. CASE played
      <4> DEFINE song == [i \in 1..got |-> SongFrameAt(s.layout, FrameFor(s) + i - 1)]
                 h == [epoch |-> s.epoch, layout |-> s.layout, song |-> song]
      <4>1. heard' = [heard EXCEPT ![t] = h]
        BY <2>2, <3>2 DEF Aligned
      <4>2. /\ song \in Seq(Nat) /\ Len(song) = got
            /\ \A i \in 1..Len(song) : song[i] = SongFrameAt(s.layout, FrameFor(s) + i - 1)
        <5>1. got \in Nat
          BY DEF TransportConstants
        <5>2. PICK frame \in Nat : frame = FrameFor(s)
          BY <2>1
        <5>3. song = [i \in 1..got |-> SongFrameAt(s.layout, frame + i - 1)]
          BY <5>2
        <5>4. PICK l \in Layouts : l = s.layout
          BY <1>7
        <5>5. PICK sung : sung = [i \in 1..got |-> SongFrameAt(l, frame + i - 1)]
          OBVIOUS
        <5>6. /\ sung \in Seq(Nat) /\ Len(sung) = got
              /\ \A i \in 1..Len(sung) : sung[i] = SongFrameAt(l, frame + i - 1)
          <6>1. \A i \in 1..got : SongFrameAt(l, frame + i - 1) \in Nat
            BY <5>1, SongFramesAre
          <6>2. /\ sung \in [1..got -> Nat]
                /\ \A i \in 1..got : sung[i] = SongFrameAt(l, frame + i - 1)
            BY <5>5, <6>1
          <6>3. sung \in Seq(Nat) /\ Len(sung) = got
            BY <5>1, <6>2, IsASeq, LenProperties
          <6> QED BY <6>2, <6>3
        <5>7. song = sung
          BY <5>3, <5>4, <5>5
        <5> HIDE DEF song
        <5> QED BY <5>2, <5>4, <5>6, <5>7
      <4>3. /\ h \in Hearings /\ h.song = song /\ h.epoch = s.epoch /\ h.layout = s.layout
        BY <1>7, <4>2 DEF Hearings
      <4>4. /\ Len(h.song) <= Block
            /\ h.epoch = epoch /\ h.song # << >> => h.layout = layout
            /\ \A i \in 1..Len(h.song) :
                 h.song[i] = SongFrameAt(h.layout, StartsAt(h.epoch) + i - 1)
        BY <2>1, <4>2, <4>3 DEF TransportConstants
      <4> HIDE DEF h
      <4>5. /\ heard' \in [Tracks -> Hearings] /\ heard'[t] = h
            /\ \A u \in Tracks \ {t} : heard'[u] = heard[u]
        BY <1>1, <4>1, <4>3 DEF Hearing
      <4>6. ASSUME NEW u \in Tracks
            PROVE  /\ Len(heard'[u].song) <= Block
                   /\ heard'[u].epoch = epoch /\ heard'[u].song # << >>
                        => heard'[u].layout = layout
                   /\ \A i \in 1..Len(heard'[u].song) :
                        heard'[u].song[i]
                          = SongFrameAt(heard'[u].layout, StartsAt(heard'[u].epoch) + i - 1)
        <5>1. CASE u = t
          BY <4>4, <4>5, <5>1
        <5>2. CASE u # t
          BY <1>1, <4>5, <5>2 DEF Hearing
        <5> QED BY <5>1, <5>2
      <4> QED BY <1>2, <1>4, <1>5, <4>5, <4>6 DEF Hearing
    <3> QED BY <3>1, <3>2
  <2> QED BY <1>8, <2>6, <2>7, <2>8, <2>9 DEF IInv
<1> QED BY <1>9, <1>10

LEMMA BlockEndsInv ==
  ASSUME TransportConstants, IInv, BlockEnds
  PROVE  IInv'
<1>1. Types /\ Versions /\ Stamps /\ Heads /\ Reach /\ Hearing
  BY DEF IInv
<1>2. /\ playing' = (Advance > 0)
      /\ stream' = stream + Advance /\ transport' = transport + Advance
      /\ cb' = [pc |-> "between", track |-> 0]
      /\ heard' = Silence
      /\ UNCHANGED <<appEpoch, appLayout, longest, op, calls, source, node, queued,
                     jumpBase, adopted, epoch, layout, leapt>>
  BY DEF BlockEnds, appVars
<1>3. PICK more \in Nat : more = Advance
  <2>1. longest \in Nat /\ stream \in Nat /\ Block \in Nat
    BY <1>1 DEF Types, TransportConstants
  <2>2. Advance \in Nat
    BY <2>1 DEF Advance, Later, Earlier
  <2> QED BY <2>2
<1>4. /\ node.plan \in Plans /\ node.plan.frame \in Nat /\ node.plan.base \in Nat
      /\ transport \in Nat /\ jumpBase \in Nat /\ stream \in Nat
      /\ op.plan.frame \in Nat /\ op.plan.base \in Nat
      /\ transport' = transport + more /\ stream' = stream + more
  BY <1>1, <1>2, <1>3 DEF Types, Plans
<1>5. /\ PlannedStream \in Nat
      /\ JumpPending' = JumpPending
      /\ PlannedStream' = IF JumpPending THEN PlannedStream ELSE PlannedStream + more
  <2>1. /\ node' = node /\ adopted' = adopted /\ jumpBase' = jumpBase
        /\ JumpPending' = JumpPending
    BY <1>2 DEF JumpPending
  <2>2. jumpBase <= transport /\ (node.plan.kind = "keep" => node.plan.base <= transport)
    BY <1>1 DEF Heads
  <2>3. node.plan.kind \in {"none", "jump", "keep"}
    BY <1>4 DEF Plans
  <2>4. JumpPending => node.plan.kind = "jump"
    BY DEF JumpPending
  <2>5. PlannedStream' = CASE node.plan.kind = "none" -> transport + more
                           [] JumpPending -> node.plan.frame
                           [] OTHER -> node.plan.frame + Later(transport + more -
                                (IF node.plan.kind = "jump" THEN jumpBase
                                                            ELSE node.plan.base), 0)
    BY <1>4, <2>1 DEF PlannedStream
  <2>6. PlannedStream \in Nat
    BY <1>1, PlannedIs
  <2>7. CASE JumpPending
    BY <2>1, <2>4, <2>5, <2>6, <2>7 DEF PlannedStream
  <2>8. CASE ~JumpPending
    BY <1>4, <2>1, <2>2, <2>3, <2>5, <2>6, <2>8 DEF PlannedStream, Later
  <2> QED BY <2>1, <2>6, <2>7, <2>8
<1>6. \A t \in Tracks : Committed(t)' = Committed(t)
  BY <1>2 DEF Committed
<1>7. Types'
  <2>1. /\ playing' \in BOOLEAN /\ stream' \in Nat /\ transport' \in Nat
        /\ cb' \in [pc : {"between", "adopting", "mixing"}, track : Nat]
    BY <1>2, <1>4
  <2> QED BY <1>1, <1>2, <2>1 DEF Types
<1>8. Versions'
  BY <1>1, <1>2 DEF Versions, Relaying
<1>9. Stamps'
  BY <1>1, <1>2, <1>6 DEF Stamps, Stamped
<1>10. ASSUME NEW plan \in Plans, NEW head \in Nat, NEW l, KeepsOn(plan, head, l)
       PROVE  /\ transport + more - plan.base \in 0..(head + more)
              /\ plan.frame
                   = SongFrameAt(l, head + more - (transport + more - plan.base))
  <2>1. plan.base \in Nat /\ transport - plan.base \in 0..head
    BY <1>10 DEF KeepsOn, Plans
  <2>2. /\ transport + more - plan.base \in 0..(head + more)
        /\ head + more - (transport + more - plan.base) = head - (transport - plan.base)
    BY <1>4, <2>1
  <2> QED BY <1>10, <2>2 DEF KeepsOn
<1>11. Heads'
  <2>1. jumpBase' <= transport'
    BY <1>1, <1>2, <1>4 DEF Heads
  <2>2. node'.plan.kind = "keep" => node'.plan.base <= transport'
    BY <1>1, <1>2, <1>4 DEF Heads
  <2>3. adopted' = node'.n => PlannedStream' = stream'
    BY <1>1, <1>2, <1>4, <1>5 DEF Heads, JumpPending
  <2>4. ASSUME Relaying', op'.plan.kind = "keep"
        PROVE  ~JumpPending' /\ KeepsOn(op.plan, PlannedStream, node.plan.layout)'
    <3>1. Relaying /\ op.plan.kind = "keep" /\ op.plan \in Plans
      BY <1>1, <1>2, <2>4 DEF Relaying, Types
    <3>2. ~JumpPending /\ KeepsOn(op.plan, PlannedStream, node.plan.layout)
      BY <1>1, <3>1 DEF Heads
    <3>3. /\ transport + more - op.plan.base \in 0..(PlannedStream + more)
          /\ op.plan.frame = SongFrameAt(node.plan.layout,
               PlannedStream + more - (transport + more - op.plan.base))
      BY <1>5, <1>10, <3>1, <3>2
    <3>4. ~JumpPending'
      BY <1>2, <3>2 DEF JumpPending
    <3>5. PlannedStream' = PlannedStream + more
      BY <1>5, <3>2
    <3>6. /\ transport' - op'.plan.base \in 0..PlannedStream'
          /\ op'.plan.frame = SongFrameAt(node'.plan.layout,
               PlannedStream' - (transport' - op'.plan.base))
      <4>1. op' = op /\ node' = node
        BY <1>2
      <4>2. /\ transport' = transport + more /\ transport \in Nat
            /\ op.plan.base \in Nat /\ PlannedStream \in Nat
        BY <1>4, <1>5
      <4>3. /\ transport' - op'.plan.base = transport + more - op.plan.base
            /\ PlannedStream' - (transport' - op'.plan.base)
                 = PlannedStream + more - (transport + more - op.plan.base)
        BY <3>5, <4>1, <4>2
      <4> QED BY <3>3, <3>5, <4>1, <4>3
    <3> QED BY <3>4, <3>6 DEF KeepsOn
  <2>5. ASSUME node'.plan.kind = "keep", node'.n = adopted' + 1
        PROVE  KeepsOn(node.plan, stream, layout)'
    <3>1. KeepsOn(node.plan, stream, layout)
      BY <1>1, <1>2, <2>5 DEF Heads
    <3>2. /\ transport + more - node.plan.base \in 0..(stream + more)
          /\ node.plan.frame = SongFrameAt(layout,
               stream + more - (transport + more - node.plan.base))
      BY <1>4, <1>10, <3>1
    <3>3. /\ transport' - node'.plan.base \in 0..stream'
          /\ node'.plan.frame = SongFrameAt(layout',
               stream' - (transport' - node'.plan.base))
      <4>1. node' = node /\ layout' = layout
        BY <1>2
      <4>2. /\ stream' = stream + more /\ transport' = transport + more
            /\ stream \in Nat /\ transport \in Nat /\ node.plan.base \in Nat
        BY <1>4
      <4>3. /\ transport' - node'.plan.base = transport + more - node.plan.base
            /\ stream' - (transport' - node'.plan.base)
                 = stream + more - (transport + more - node.plan.base)
        BY <4>1, <4>2
      <4> QED BY <3>2, <4>1, <4>2, <4>3
    <3> QED BY <3>3 DEF KeepsOn
  <2>6. op'.pc = "loading" => op'.plan.frame <= PlannedStream'
    BY <1>1, <1>2, <1>4, <1>5 DEF Heads
  <2> QED BY <2>1, <2>2, <2>3, <2>4, <2>5, <2>6 DEF Heads
<1>12. Reach'
  <2> SUFFICES ASSUME NEW t \in Tracks \ leapt, source[t].live
               PROVE  source[t].pos <=
                        Block + (IF Committed(t) THEN ComingStream' ELSE PlannedStream')
    BY <1>2, <1>6 DEF Reach
  <2>1. source[t].pos <= Block + (IF Committed(t) THEN ComingStream ELSE PlannedStream)
    BY <1>1 DEF Reach
  <2>2. source[t].pos \in Nat /\ Block \in Nat
    BY <1>1 DEF Types, SourceRecords, TransportConstants
  <2>3. CASE Committed(t)
    <3>1. ComingStream \in Nat /\ (op.plan.kind = "keep" => op.plan.base <= transport)
      BY <1>1, <2>3, ComingIs DEF Committed
    <3>2. ComingStream' = IF op.plan.kind = "keep" THEN ComingStream + more
                                                   ELSE ComingStream
      BY <1>2, <1>4 DEF ComingStream
    <3> QED BY <2>1, <2>2, <2>3, <3>1, <3>2
  <2>4. CASE ~Committed(t)
    BY <1>5, <2>1, <2>2, <2>4
  <2> QED BY <2>3, <2>4
<1>13. Hearing'
  <2>1. \A t \in Tracks : /\ heard'[t].song = << >> /\ Len(heard'[t].song) = 0
                          /\ heard'[t] \in Hearings
    BY <1>2, SilenceHeard
  <2> QED BY <1>2, <2>1, SilenceHeard DEF Hearing, TransportConstants
<1> QED BY <1>7, <1>8, <1>9, <1>11, <1>12, <1>13 DEF IInv

-----------------------------------------------------------------------------

LEMMA StepInv == ASSUME TransportConstants, IInv, [Next]_vars PROVE IInv'
<1>1. CASE UNCHANGED vars
  <2>1. UNCHANGED <<appEpoch, appLayout, longest, op, calls, source, node, queued,
                    transport, jumpBase, adopted, stream, epoch, layout, cb,
                    playing, heard, leapt>>
    BY <1>1 DEF vars, appVars, cbVars, headVars
  <2>2. /\ PlannedStream' = PlannedStream /\ JumpPending' = JumpPending
        /\ ComingStream' = ComingStream
        /\ \A t \in Tracks : Committed(t)' = Committed(t)
    BY <2>1, PlannedStays DEF ComingStream, Committed
  <2>3. Types' /\ Versions' /\ Hearing'
    BY <2>1, HeardStays DEF IInv, Types, Versions, Relaying
  <2>4. Stamps' /\ Heads' /\ Reach'
    BY <2>1, <2>2 DEF IInv, Stamps, Stamped, Heads, KeepsOn, Relaying, Reach
  <2> QED BY <2>3, <2>4 DEF IInv
<1>2. CASE Next
  <2>1. CASE StageFails \/ LoadFails
    BY <2>1, FailsInv
  <2>2. CASE Staged
    BY <2>2, StagedInv
  <2>3. CASE \E t \in Tracks : CommitStaged(t)
    BY <2>3, CommitInv
  <2>4. CASE PublishPlan
    BY <2>4, PublishInv
  <2>5. CASE Loaded
    BY <2>5, LoadedInv
  <2>6. CASE \E t \in Tracks : UnloadTrack(t)
    BY <2>6, UnloadInv
  <2>7. CASE BlockOpens \/ BlockAdoptsAgain
    BY <2>7, BlockStartsInv
  <2>8. CASE \E t \in Tracks : MixTrack(t)
    BY <2>8, MixInv
  <2>9. CASE BlockEnds
    BY <2>9, BlockEndsInv
  <2> QED BY <1>2, <2>1, <2>2, <2>3, <2>4, <2>5, <2>6, <2>7, <2>8, <2>9, CallsInv
          DEF Next
<1> QED BY <1>1, <1>2

LEMMA AlwaysInv == ASSUME TransportConstants PROVE Spec => []IInv
BY InitInv, StepInv, PTL DEF Spec

\* What the invariant says to the reader.
LEMMA InvImplies ==
  ASSUME TransportConstants, IInv
  PROVE  TypeOK /\ HeadExact /\ NoStemStranded /\ NoStemAhead /\ HeardAtTheHead
<1>1. TypeOK
  <2>0. Types
    BY DEF IInv
  <2>1. IsLayout(appLayout) /\ IsLayout(layout) /\ node.plan.frame \in Nat
    BY <2>0 DEF Types, IsLayout, Layouts, Plans
  <2>2. ASSUME NEW t \in Tracks
        PROVE  source[t].pos \in Nat /\ IsLayout(source[t].layout)
    BY <2>0 DEF Types, IsLayout, SourceRecords, Layouts
  <2>3. /\ op.pc \in {"idle", "staging", "committing", "loading"}
        /\ cb.pc \in {"between", "adopting", "mixing"}
    BY <2>0 DEF Types
  <2>4. {appEpoch, longest, calls, transport, jumpBase, stream, epoch} \subseteq Nat
    BY <2>0 DEF Types
  <2> QED BY <2>0, <2>1, <2>2, <2>3, <2>4 DEF Types, TypeOK
<1>2. HeadExact
  BY DEF IInv, Heads, HeadExact
<1>3. NoStemStranded
  <2> SUFFICES ASSUME Landed, NEW t \in LiveTracks(source)
               PROVE  source[t].epoch = epoch /\ source[t].layout = layout
    BY DEF NoStemStranded
  <2>1. t \in Tracks /\ source[t].live /\ ~Committed(t)
    BY DEF LiveTracks, Landed, Committed
  <2>2. Stamped(source[t], node.plan)
    BY <2>1 DEF IInv, Stamps
  <2> QED BY <2>2 DEF IInv, Versions, Stamped, Landed
<1>4. NoStemAhead
  <2> SUFFICES ASSUME Landed, NEW t \in LiveTracks(source) \ leapt
               PROVE  source[t].pos <= stream + Block
    BY DEF NoStemAhead
  <2>1. t \in Tracks \ leapt /\ source[t].live /\ ~Committed(t)
    BY DEF LiveTracks, Landed, Committed
  <2>2. source[t].pos <= Block + PlannedStream
    BY <2>1 DEF IInv, Reach
  <2>3. PlannedStream = stream /\ stream \in Nat /\ Block \in Nat
    BY DEF IInv, Heads, Types, Landed, TransportConstants
  <2> QED BY <2>2, <2>3
<1>5. HeardAtTheHead
  <2> SUFFICES ASSUME NEW t \in Tracks, NEW i \in 1..Len(heard[t].song),
                      \/ heard[t].epoch = epoch
                      \/ ~(CrossesEnd(layout) \/ CrossesEnd(heard[t].layout))
               PROVE  heard[t].song[i] = SongFrameAt(layout, stream + i - 1)
    BY DEF HeardAtTheHead
  <2> DEFINE h == heard[t]
  <2>1. /\ h \in Hearings /\ Len(h.song) <= Block /\ Len(h.song) \in Nat
        /\ stream \in Nat /\ layout \in Layouts /\ h.layout \in Layouts /\ Block \in Nat
    <3>1. h \in Hearings /\ Len(h.song) <= Block
      BY DEF IInv, Hearing
    <3>2. h.song \in Seq(Nat)
      BY <3>1 DEF Hearings
    <3> QED BY <3>1, <3>2, LenProperties DEF IInv, Types, TransportConstants, Hearings
  <2>2. h.song[i] = SongFrameAt(h.layout, StartsAt(h.epoch) + i - 1)
    BY DEF IInv, Hearing
  <2>3. CASE h.epoch = epoch
    <3>1. h.song # << >>
      BY <2>1, EmptySeq
    <3>2. h.layout = layout
      BY <2>3, <3>1 DEF IInv, Hearing
    <3> QED BY <2>2, <2>3, <3>2 DEF StartsAt
  <2>4. CASE h.epoch # epoch
    <3>1. PICK j \in Nat : j = i - 1 /\ j < Block
      BY <2>1
    <3>2. PICK song \in Nat : song = SongFrameAt(layout, stream)
      <4>1. SongFrameAt(layout, stream) \in 0..stream
        BY <2>1, SongFrameType
      <4> QED BY <4>1
    <3>3. /\ layout.looping => song + j < layout.end
          /\ h.layout.looping => song + j < h.layout.end
      <4>1. layout.end \in Nat /\ h.layout.end \in Nat
        BY <2>1 DEF Layouts
      <4> QED BY <2>1, <2>4, <3>1, <3>2, <4>1 DEF CrossesEnd
    <3>4. SongFrameAt(layout, stream + j) = song + j
      BY <2>1, <3>2, <3>3, SongGoesOn
    <3>5. SongFrameAt(h.layout, song + j) = song + j
      <4>1. PICK f \in Nat : f = song + j
        OBVIOUS
      <4>2. SongFrameAt(h.layout, f) = f
        BY <2>1, <3>3, <4>1, SongFrameType
      <4> QED BY <4>1, <4>2
    <3>6. stream + i - 1 = stream + j /\ StartsAt(h.epoch) + i - 1 = song + j
      BY <2>1, <2>4, <3>1, <3>2 DEF StartsAt
    <3> QED BY <2>2, <3>4, <3>5, <3>6
  <2> QED BY <2>3, <2>4
<1> QED BY <1>1, <1>2, <1>3, <1>4, <1>5

\* Every variable of the transport keeps its type: an adopted plan was published
\* before, and no stem's source is read past the end of its file.
THEOREM TransportTypes == ASSUME TransportConstants PROVE Spec => []TypeOK
BY AlwaysInv, InvImplies, PTL

\* Where the app thread takes the head to be, from what the callback has told it,
\* is where it is: mixer_plan.cpp's PlannedHead and mixer_render.cpp's AdoptPlan
\* agree, for each kind of plan and however late it is adopted.
THEOREM HeadIsExact == ASSUME TransportConstants PROVE Spec => []HeadExact
BY AlwaysInv, InvImplies, PTL

\* No stem is left behind on an epoch the callback never plays again, by a
\* relayout that failed, by one that overtook another, or by a load meanwhile.
THEOREM NoStemIsStranded == ASSUME TransportConstants PROVE Spec => []NoStemStranded
BY AlwaysInv, InvImplies, PTL

\* Once a plan has landed no stem stands more than a block ahead of the head, but
\* for those read two epochs early: AlignTo's silence is never longer than that.
THEOREM NoStemIsAhead == ASSUME TransportConstants PROVE Spec => []NoStemAhead
BY AlwaysInv, InvImplies, PTL

\* Every stem heard plays the song frames the callback reports, whichever source
\* it is read from, except that around the end of a loop that is being set or
\* cleared a stem may turn with the other layout.
THEOREM StemsAreHeardAtTheHead == ASSUME TransportConstants PROVE Spec => []HeardAtTheHead
BY AlwaysInv, InvImplies, PTL

\* A loop set or cleared under a playing head does not move the song, however
\* late the keep lands, unless the head has passed the end of a loop meanwhile.
LEMMA KeepStep ==
  ASSUME IInv, [Next]_vars
  PROVE  KeepMovesNothing
<1> SUFFICES ASSUME adopted' # adopted, node.n = adopted + 1, node.plan.kind = "keep",
                    ~PassedEnd(layout, node.plan), ~PassedEnd(layout', node.plan)
             PROVE  SongFrameAt(layout', stream') = SongFrameAt(layout, stream)
  BY DEF KeepMovesNothing
<1>1. Types /\ Heads
  BY DEF IInv
<1>2. AdoptPlan
  BY DEF Next, PlayOrPause, Stop, Seek, SetLoop, ClearLoop, Relayout, StageFails, Staged,
         CommitStaged, PublishPlan, LoadTrack, LoadFails, Loaded, UnloadTrack, BlockOpens,
         BlockAdoptsAgain, MixTrack, BlockEnds, vars, cbVars, headVars
<1>3. /\ stream \in Nat /\ layout \in Layouts /\ node.plan \in Plans /\ transport \in Nat
      /\ node.plan.base \in Nat /\ node.plan.frame \in Nat /\ node.plan.layout \in Layouts
      /\ adopted \in Nat
  BY <1>1 DEF Types, Plans
<1>4. layout' = node.plan.layout /\ stream' = KeepLandsAt(node.plan)
  BY <1>2, <1>3 DEF AdoptPlan
<1>5. KeepsOn(node.plan, stream, layout)
  BY <1>1 DEF Heads
<1>6. PICK elapsed \in Nat, f \in Nat :
        elapsed = transport - node.plan.base /\ f = stream - elapsed /\ stream = f + elapsed
  <2>1. transport - node.plan.base \in 0..stream
    BY <1>5 DEF KeepsOn
  <2> QED BY <1>3, <2>1
<1>7. node.plan.frame = SongFrameAt(layout, f)
  BY <1>5, <1>6 DEF KeepsOn
<1>8. KeepLandsAt(node.plan) = node.plan.frame + elapsed
  BY <1>3, <1>6 DEF KeepLandsAt, Later
<1>9. SongFrameAt(layout, stream) = node.plan.frame + elapsed
  <2>1. layout.end \in Nat
    BY <1>3 DEF Layouts
  <2>2. ~layout.looping \/ SongFrameAt(layout, f) + elapsed < layout.end
    BY <1>3, <1>7, <1>8, <2>1 DEF PassedEnd
  <2>3. SongFrameAt(layout, f + elapsed) = SongFrameAt(layout, f) + elapsed
    BY <1>3, <2>2, SongGoesOn
  <2> QED BY <1>6, <1>7, <2>3
<1>10. SongFrameAt(layout', stream') = node.plan.frame + elapsed
  <2>1. PICK g \in Nat : g = node.plan.frame + elapsed
    BY <1>3
  <2>2. stream' = g /\ layout' \in Layouts /\ layout'.end \in Nat
    BY <1>3, <1>4, <1>8, <2>1 DEF Layouts
  <2>3. ~layout'.looping \/ g < layout'.end
    BY <1>8, <2>1, <2>2 DEF PassedEnd
  <2> QED BY <2>1, <2>2, <2>3, SongFrameType
<1> QED BY <1>9, <1>10

\* A loop change that lands under a playing head leaves the song where it was,
\* however late the keep is adopted.
THEOREM KeepsMoveNothing ==
  ASSUME TransportConstants PROVE Spec => [][KeepMovesNothing]_vars
BY AlwaysInv, KeepStep, PTL DEF Spec
=============================================================================
