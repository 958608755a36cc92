--------------------------- MODULE HandOverProofs ---------------------------
(***************************************************************************)
(* That a song comes to play through its key buses without a gap, a frame   *)
(* counted twice, or a bank freed under it, whatever the number of slots    *)
(* and attempts, the lag, the lead and the block, and however the calls     *)
(* cross the callback.                                                      *)
(*                                                                         *)
(* The inductive invariant says what each call has in hand at each of its   *)
(* steps (PlanInHand, PlanIsOut, BankInHand, Stalls), that the plans on     *)
(* their way to the callback carry the head it will have (Loading, Heads),  *)
(* and which bank sounds, or is to sound, between any two of them (Sounds); *)
(* what the song then plays at follows (Slowed, Plained).                   *)
(*                                                                         *)
(* And that the publisher by which the song itself is handed over is sound, *)
(* for every set of addresses, grace window, block lengths and number of    *)
(* publishes.  Two hypotheses carry it, and both are named where it is      *)
(* stated: the publisher's clock reading is never staler than the grace     *)
(* window when it swaps (StallBound <= Grace), and the watchdog's restart   *)
(* does not fail (~RestartMayFail): MCRtPublisherFailedRestart shows what   *)
(* becomes of the flag when it does.                                        *)
(***************************************************************************)
EXTENDS HandOver, RtPublisher, TLAPS

PCs == {"idle", "plain", "publishPlan", "prime", "handOver", "stage", "publishBank",
        "await", "freeMissed", "adoptBank", "freeAll", "kept", "retract",
        "freeRetracted"}

Plans == [kind : {"none", "keep", "jump", "handOver"}, frame : Nat, base : Nat,
          primed : BOOLEAN, bank : Banks, gen : Nat]

Ops == [pc : PCs, call : {"none", "play", "pause", "setRate", "jump", "keep"},
        plan : Plans, attempt : Nat, lead : Nat, stalled : BOOLEAN,
        left : SUBSET Slots, wasSlow : BOOLEAN, wasEngaged : BOOLEAN]

Nodes == [n : Nat, plan : Plans]

CbStates == [pc : {"between", "loaded", "applied", "adopted", "snapped", "mix"},
           again : BOOLEAN, node : Nodes]

\* A generation given out, by which a primed bank is known.
Given(plan) == plan.gen <= nextGen /\ (plan.primed => plan.gen > 0)

Types ==
  /\ appPlaying \in BOOLEAN /\ appEngaged \in BOOLEAN /\ appPrimed \in BOOLEAN
  /\ appBank \in Banks /\ slow \in BOOLEAN /\ nextGen \in Nat
  /\ op \in Ops /\ calls \in Nat
  /\ mishaps \subseteq {"unreadable", "stalled", "retracted"}
  /\ node \in Nodes
  /\ buses \in [Banks -> [Slots -> Generations]]
  /\ queued \in {"none", "play", "pause"}
  /\ transport \in Nat /\ jumpBase \in Nat /\ stream \in Nat
  /\ planAdopted \in Nat /\ planAdopted <= node.n
  /\ engaged \in BOOLEAN /\ playing \in BOOLEAN /\ pending \in BOOLEAN
  /\ seen \in Generations /\ missed \in Generations /\ primedGen \in Generations
  /\ cb \in CbStates
  /\ handover \in Plans /\ bank \in Banks
  /\ snap \in [Slots -> Generations]
  /\ Given(op.plan) /\ Given(node.plan) /\ Given(cb.node.plan) /\ Given(handover)

-----------------------------------------------------------------------------
(* What a call has in hand. *)

Full(b, gen) == \A s \in Slots : buses[b][s] = gen

\* No hand-over was taken back.
Clean == "retracted" \notin mishaps

\* The plan a call is to publish.
PlanInHand ==
  /\ op.pc = "plain" => op.plan.kind \in {"jump", "keep"} /\ ~op.plan.primed
  /\ op.pc \in {"stage", "retract"} => op.plan.kind = "jump"
  /\ op.pc = "publishBank" => op.plan.kind \in {"jump", "handOver"} /\ op.plan.primed
  /\ op.pc = "publishPlan" =>
       /\ op.plan.kind \in {"jump", "keep", "handOver"}
       /\ op.plan.kind = "handOver" => op.plan.primed
       /\ op.plan.kind = "keep" => ~op.plan.primed

\* ... and, once it has, the newest there is.
PlanIsOut ==
  /\ op.pc \in {"await", "adoptBank", "freeMissed", "freeAll", "kept"} =>
       op.plan = node.plan
  /\ op.pc \in {"await", "freeMissed"} =>
       node.plan.kind = "handOver" /\ node.plan.primed
  /\ op.pc = "adoptBank" => node.plan.kind \in {"jump", "handOver"} /\ node.plan.primed
  /\ op.pc = "freeAll" => node.plan.kind = "jump" /\ ~node.plan.primed
  /\ op.pc \in {"kept", "freeRetracted"} => node.plan.kind = "keep"

\* The bank built is the one not in use, of a generation nobody has seen.
BankInHand ==
  /\ op.pc \in {"publishBank", "publishPlan", "await", "freeMissed", "adoptBank"}
       /\ op.plan.primed => op.plan.bank = 1 - appBank
  /\ op.pc \in {"publishBank", "publishPlan"} /\ op.plan.primed =>
       /\ op.plan.gen = nextGen
       /\ seen < nextGen /\ missed < nextGen
       /\ node.plan.gen < nextGen /\ cb.node.plan.gen < nextGen
  /\ op.pc = "publishBank" =>
       \A s \in Slots : s \notin op.left => buses[op.plan.bank][s] = op.plan.gen
  /\ op.pc = "publishPlan" /\ op.plan.primed => Full(op.plan.bank, op.plan.gen)

\* A hand-over without a verdict is still the newest until a jump replaces it.
Stalls ==
  /\ op.stalled =>
       /\ "stalled" \in mishaps
       /\ op.pc \in {"stage", "publishBank", "publishPlan", "adoptBank", "retract",
                     "freeRetracted"}
       /\ op.pc # "freeRetracted" => op.plan.kind = "jump"
       /\ op.pc \in {"stage", "publishBank", "publishPlan", "retract"} =>
            node.plan.kind = "handOver"
       /\ op.pc = "publishPlan" => op.plan.primed
  /\ op.pc \in {"retract", "freeRetracted"} => op.stalled
  /\ op.pc = "freeRetracted" => ~Clean

-----------------------------------------------------------------------------
(* Where the head is. *)

InHand == cb.pc \in {"loaded", "applied"}

\* Has the callback taken in the newest plan?
Landed == planAdopted = node.n \/ (cb.pc = "applied" /\ cb.node.n = node.n)

\* A jump is still to land: what plays until then is no matter.
Ahead == node.plan.kind = "jump" /\ ~Landed

CarriesOn(plan) == plan.kind \in {"keep", "handOver"}

\* A plan that carries on at the head, wherever the transport will be.
AtHead(plan) ==
  /\ plan.frame - plan.base = stream - transport
  /\ plan.kind = "keep" => plan.base <= transport

\* The plan the callback has loaded is the newest, or an older one that a jump
\* replaces if it is a jump.
Loading ==
  InHand =>
    /\ planAdopted < cb.node.n /\ cb.node.n <= node.n
    /\ cb.node.plan.kind # "none"
    /\ cb.node.n = node.n => cb.node.plan = node.plan
    /\ cb.node.plan.kind = "jump" => node.plan.kind = "jump"
    /\ cb.node.plan.kind = "keep" => cb.node.plan.base <= transport

Heads ==
  /\ node.n = 0 <=> node.plan.kind = "none"
  /\ node.plan.kind = "none" => stream = transport
  /\ CarriesOn(node.plan) => AtHead(node.plan)
  /\ InHand /\ CarriesOn(cb.node.plan) /\ node.plan.kind # "jump" => AtHead(cb.node.plan)
  /\ node.plan.kind = "jump" /\ Landed =>
       jumpBase <= transport /\ node.plan.frame - jumpBase = stream - transport
  /\ op.pc \in {"plain", "publishPlan", "publishBank"} /\ CarriesOn(op.plan) =>
       ~JumpPending /\ AtHead(op.plan)

Passing == pending => ~engaged /\ stream <= handover.frame

-----------------------------------------------------------------------------
(* What sounds. *)

Plainly == ~engaged /\ ~pending

\* The callback has taken the hand-over a call waits for.
Taken == seen = node.plan.gen /\ missed # node.plan.gen

\* What sounds, and what is to, is the bank in use.
InUse ==
  /\ engaged => bank = appBank /\ Full(appBank, primedGen)
  /\ pending => handover.bank = appBank /\ handover.gen > 0 /\ Full(appBank, handover.gen)

\* ... or the one the newest plan names.
Named ==
  /\ engaged \/ pending
  /\ engaged => bank = node.plan.bank /\ primedGen = node.plan.gen
  /\ pending => handover = node.plan

\* The steps of a call that leave the bank in use alone.
Quiet ==
  \/ op.pc \in {"idle", "plain", "prime", "handOver", "kept", "freeMissed"}
  \/ op.pc \in {"stage", "publishBank", "publishPlan"} /\ ~op.stalled

Judgement ==
  Clean =>
    /\ node.plan.kind = "handOver" /\ op.pc # "await" /\ ~op.stalled => Landed
    /\ op.pc = "await" =>
         /\ seen <= node.plan.gen
         /\ seen = node.plan.gen <=> Landed
         /\ seen < node.plan.gen => missed < node.plan.gen
         /\ Landed /\ missed = node.plan.gen => ~pending
    /\ op.pc = "freeMissed" => ~pending
    /\ cb.pc = "loaded" /\ cb.node.plan.kind = "handOver" =>
         node.plan.kind = "jump" \/ cb.node.n = node.n

\* The bank the newest plan names stays whole.
NamedIsWhole ==
  node.plan.primed =>
    /\ node.plan.kind = "jump" \/ op.pc \in {"await", "adoptBank"} =>
         Full(node.plan.bank, node.plan.gen)
    /\ node.plan.kind = "jump" /\ op.pc # "adoptBank" => node.plan.bank = appBank

\* A jump that has landed plays as it was told.
JumpIsHeard ==
  node.plan.kind = "jump" /\ Landed =>
    /\ ~pending
    /\ engaged <=> node.plan.primed
    /\ engaged => bank = node.plan.bank /\ primedGen = node.plan.gen

BankIsHeard ==
  Clean /\ ~Ahead =>
    /\ Quiet => InUse
    /\ op.pc = "await" => IF Taken THEN Named ELSE InUse
    /\ op.pc = "adoptBank" => Named

Sounds == Judgement /\ NamedIsWhole /\ JumpIsHeard /\ BankIsHeard

-----------------------------------------------------------------------------
(* What it is played at. *)

\* The newest plan plays through the buses.
InEffect ==
  IF node.plan.kind = "jump" THEN node.plan.primed
  ELSE engaged \/ (node.plan.kind = "handOver" /\ pending)

\* ... or does not.
Unity == IF node.plan.kind = "jump" THEN ~node.plan.primed ELSE Plainly

Speeds ==
  /\ slow => appEngaged
  /\ op.wasSlow => op.wasEngaged
  /\ node.plan.kind = "jump" /\ ~node.plan.primed /\ op.pc # "freeAll" => ~appPrimed
  /\ op.pc \in {"plain", "publishPlan"} /\ op.plan.kind = "jump" /\ ~op.plan.primed => ~slow
  /\ op.pc = "freeAll" => ~slow

\* A song that plays at another speed does so through the buses, unless a stem
\* could not be read, or the loop changed while it was paused.
Slowed ==
  ~KeepWhilePaused /\ mishaps \subseteq {"stalled"} =>
    /\ op.pc = "idle" /\ slow => appPrimed /\ InEffect
    /\ \/ op.pc \in {"plain", "publishPlan"} /\ op.plan.kind = "keep"
       \/ op.pc = "kept"
       => appPlaying /\ (slow => appPrimed)

\* The calls that build a bank engage the buses, and buses are built engaged.
Engages ==
  /\ op.pc \in {"prime", "handOver", "await", "freeMissed", "adoptBank", "stage",
                "publishBank", "retract", "freeRetracted"} => appEngaged
  /\ op.pc = "publishPlan" /\ op.plan.primed => appEngaged
  /\ appPrimed => IF op.pc = "idle" THEN appEngaged ELSE op.wasEngaged
  /\ op.pc # "idle" /\ op.call = "keep" => op.wasEngaged = appEngaged
  /\ op.pc \in {"plain", "publishPlan"} /\ op.plan.kind = "keep" => op.call = "keep"
  /\ op.pc = "kept" => op.call = "keep"

\* A song whose buses are not engaged, or were not before the call, plays plainly
\* until the call's own plan lands.
Plained ==
  Clean =>
    /\ op.pc = "idle" /\ ~appEngaged => Unity
    /\ op.pc # "idle" /\ Quiet /\ ~op.wasEngaged => Unity
    /\ op.pc = "await" /\ ~Taken /\ ~op.wasEngaged => Plainly

HandOverInv ==
  /\ Types
  /\ PlanInHand /\ PlanIsOut /\ BankInHand /\ Stalls
  /\ Loading /\ Heads /\ Passing
  /\ Sounds
  /\ Speeds /\ Slowed /\ Engages /\ Plained

-----------------------------------------------------------------------------
(* Plans and calls. *)

LEMMA NoPlanIs ==
  /\ NoPlan \in Plans
  /\ NoPlan.kind = "none" /\ ~NoPlan.primed /\ NoPlan.gen = 0
BY DEF NoPlan, Plans, Banks

LEMMA PlanIs ==
  ASSUME NEW kind \in {"keep", "jump", "handOver"}, NEW frame \in Nat, NEW base \in Nat
  PROVE  /\ Plan(kind, frame, base) \in Plans
         /\ Plan(kind, frame, base).kind = kind
         /\ Plan(kind, frame, base).frame = frame
         /\ Plan(kind, frame, base).base = base
         /\ ~Plan(kind, frame, base).primed
         /\ Plan(kind, frame, base).gen = 0
BY DEF Plan, NoPlan, Plans, Banks

LEMMA IdleIs ==
  ASSUME HandOverConstants
  PROVE  /\ Idle \in Ops
         /\ Idle.pc = "idle" /\ Idle.call = "none" /\ Idle.plan = NoPlan
         /\ ~Idle.stalled /\ ~Idle.wasSlow /\ ~Idle.wasEngaged
BY NoPlanIs DEF HandOverConstants, Idle, Ops, PCs

\* The head the app thread takes the callback's to be is that head.
LEMMA TheHead ==
  ASSUME HandOverConstants, Types, Heads
  PROVE  /\ PlannedStream \in Nat
         /\ ~JumpPending => PlannedStream = stream
         /\ Position \in Nat
<1>1. /\ node.plan.frame \in Nat /\ node.plan.base \in Nat
      /\ node.plan.kind \in {"none", "keep", "jump", "handOver"}
      /\ transport \in Nat /\ stream \in Nat /\ jumpBase \in Nat
  BY DEF Types, Nodes, Plans
<1>2. PlannedStream \in Nat /\ (~JumpPending => PlannedStream = stream)
  BY <1>1 DEF Heads, CarriesOn, AtHead, Landed, JumpPending, PlannedStream, Later
<1>3. Position \in Nat
  BY <1>1 DEF HandOverConstants, Position, Later
<1> QED BY <1>2, <1>3

LEMMA ReprimeIs ==
  ASSUME HandOverConstants, Types, Heads
  PROVE  /\ Reprime \in Plans /\ Reprime.kind = "jump"
         /\ ~Reprime.primed /\ Reprime.gen = 0
<1>1. PICK frame \in Nat :
        frame = IF engaged /\ ~JumpPending THEN Position ELSE PlannedStream
  BY TheHead
<1>2. Reprime = Plan("jump", frame, 0)
  BY <1>1 DEF Reprime
<1> QED BY <1>2, PlanIs

LEMMA InitInv ==
  ASSUME HandOverConstants, HandOverInit
  PROVE  HandOverInv
<1>1. /\ op.pc = "idle" /\ op.plan = NoPlan /\ ~op.stalled /\ ~op.wasSlow
      /\ node = [n |-> 0, plan |-> NoPlan] /\ node \in Nodes
      /\ cb \in CbStates /\ cb.pc = "between" /\ cb.node.plan = NoPlan
      /\ op \in Ops
  BY IdleIs, NoPlanIs DEF HandOverInit, Nodes, CbStates
<1>2. Types
  <2>1. Empty \in [Slots -> Generations]
    BY DEF HandOverInit, Empty, Generations
  <2>2. buses \in [Banks -> [Slots -> Generations]] /\ snap \in [Slots -> Generations]
    BY <2>1 DEF HandOverInit
  <2>3. /\ Given(op.plan) /\ Given(node.plan) /\ Given(cb.node.plan) /\ Given(handover)
        /\ handover \in Plans
    BY <1>1, NoPlanIs DEF HandOverInit, Given
  <2>4. seen \in Generations /\ missed \in Generations /\ primedGen \in Generations
    BY DEF HandOverInit, Generations
  <2>5. /\ appBank \in Banks /\ bank \in Banks /\ nextGen \in Nat /\ calls \in Nat
        /\ transport \in Nat /\ jumpBase \in Nat /\ stream \in Nat
        /\ planAdopted \in Nat /\ planAdopted <= node.n
    BY DEF HandOverInit, Banks
  <2>6. /\ appPlaying \in BOOLEAN /\ appEngaged \in BOOLEAN /\ appPrimed \in BOOLEAN
        /\ slow \in BOOLEAN /\ engaged \in BOOLEAN /\ playing \in BOOLEAN
        /\ pending \in BOOLEAN /\ queued \in {"none", "play", "pause"}
        /\ mishaps \subseteq {"unreadable", "stalled", "retracted"}
    BY DEF HandOverInit
  <2> QED BY <1>1, <2>2, <2>3, <2>4, <2>5, <2>6 DEF Types
<1>3. PlanInHand /\ PlanIsOut /\ BankInHand /\ Stalls
  BY <1>1, NoPlanIs DEF HandOverInit, PlanInHand, PlanIsOut, BankInHand, Stalls
<1>4. Loading /\ Heads /\ Passing
  BY <1>1, NoPlanIs DEF HandOverInit, Loading, Heads, Passing, InHand, CarriesOn
<1>5. Sounds
  BY <1>1, NoPlanIs
  DEF HandOverInit, Sounds, Judgement, NamedIsWhole, JumpIsHeard, BankIsHeard, Quiet, InUse
<1>6. Speeds /\ Slowed /\ Engages /\ Plained
  BY <1>1, NoPlanIs
  DEF HandOverInit, Speeds, Slowed, Engages, Plained, Unity, Plainly
<1> QED BY <1>2, <1>3, <1>4, <1>5, <1>6 DEF HandOverInv

-----------------------------------------------------------------------------
(* The steps of a call.  Most leave the callback and the newest plan alone.  *)

Rests == UNCHANGED <<node, headVars, cbVars>>

LEMMA AtRest ==
  ASSUME Rests
  PROVE  /\ Landed' <=> Landed
         /\ Ahead' <=> Ahead
         /\ JumpPending' <=> JumpPending
         /\ Taken' <=> Taken
         /\ Plainly' <=> Plainly
         /\ Unity' <=> Unity
         /\ InEffect' <=> InEffect
         /\ Named' <=> Named
         /\ Loading' <=> Loading
         /\ Passing' <=> Passing
<1>1. UNCHANGED <<node, transport, stream, jumpBase, planAdopted, engaged, seen, missed, cb,
                  playing, pending, handover, bank, snap, primedGen>>
  BY DEF Rests, headVars, cbVars
<1> QED
  BY <1>1 DEF Landed, Ahead, JumpPending, Taken, Plainly, Unity, InEffect, Named, Loading,
              Passing, InHand

LEMMA PCsAre ==
  /\ "idle" \in PCs /\ "plain" \in PCs /\ "publishPlan" \in PCs /\ "prime" \in PCs
  /\ "handOver" \in PCs /\ "stage" \in PCs /\ "publishBank" \in PCs /\ "await" \in PCs
  /\ "freeMissed" \in PCs /\ "adoptBank" \in PCs /\ "freeAll" \in PCs
  /\ "kept" \in PCs /\ "retract" \in PCs /\ "freeRetracted" \in PCs
BY DEF PCs

LEMMA Beginning ==
  ASSUME HandOverConstants, Types, NEW pc \in PCs, NEW plan \in Plans,
         NEW name \in {"play", "pause", "setRate", "jump", "keep"},
         Begins(name, pc, plan)
  PROVE  /\ op.pc = "idle" /\ UNCHANGED mishaps /\ calls' \in Nat
         /\ op' \in Ops /\ op'.pc = pc /\ op'.call = name /\ op'.plan = plan
         /\ ~op'.stalled /\ op'.left = {}
         /\ op'.wasSlow = slow /\ op'.wasEngaged = appEngaged
<1>1. op' = [Idle EXCEPT !.pc = pc, !.call = name, !.plan = plan,
                        !.wasSlow = slow, !.wasEngaged = appEngaged]
  BY DEF Begins
<1>2. Idle \in Ops /\ ~Idle.stalled /\ Idle.left = {}
  BY IdleIs DEF Idle
<1>3. slow \in BOOLEAN /\ appEngaged \in BOOLEAN
  BY DEF Types
<1>4. op' \in Ops /\ op'.pc = pc /\ op'.call = name /\ op'.plan = plan
      /\ op'.stalled = Idle.stalled /\ op'.left = Idle.left
      /\ op'.wasSlow = slow /\ op'.wasEngaged = appEngaged
  BY <1>1, <1>2, <1>3 DEF Ops
<1> QED BY <1>2, <1>4 DEF Begins, Types

LEMMA PlayStep ==
  ASSUME HandOverConstants, HandOverInv, PlayCall \/ PauseCall
  PROVE  HandOverInv'
<1>1. /\ Rests /\ UNCHANGED <<appEngaged, appPrimed, appBank, slow, nextGen, buses, mishaps>>
      /\ op.pc = "idle" /\ op'.pc = "idle" /\ op' \in Ops /\ op'.plan = NoPlan
      /\ ~op'.stalled /\ op'.wasSlow = slow /\ op'.wasEngaged = appEngaged
      /\ appPlaying' \in BOOLEAN /\ queued' \in {"play", "pause"} /\ calls' \in Nat
  <2>1. op.pc = "idle" /\ op'.pc = "idle" /\ op' \in Ops /\ op'.plan = NoPlan
        /\ ~op'.stalled /\ op'.wasSlow = slow /\ op'.wasEngaged = appEngaged
        /\ UNCHANGED mishaps /\ calls' \in Nat
    BY Beginning, NoPlanIs DEF HandOverInv, PlayCall, PauseCall, PCs
  <2> QED BY <2>1 DEF PlayCall, PauseCall, Rests
<1>2. Types'
  BY <1>1, NoPlanIs
  DEF HandOverInv, Types, Given, Rests, headVars, cbVars, Generations
<1>3. (PlanInHand /\ PlanIsOut /\ BankInHand /\ Stalls)'
  BY <1>1 DEF PlanInHand, PlanIsOut, BankInHand, Stalls
<1>4. (Loading /\ Heads /\ Passing)'
  BY <1>1, AtRest, NoPlanIs
  DEF HandOverInv, Heads, CarriesOn, AtHead, InHand, Rests, headVars, cbVars
<1>5. Sounds'
  BY <1>1, AtRest
  DEF HandOverInv, Sounds, Judgement, NamedIsWhole, JumpIsHeard, BankIsHeard, Quiet, InUse, Full,
      Clean, Rests, headVars, cbVars, Stalls
<1>6. (Speeds /\ Slowed /\ Engages /\ Plained)'
  BY <1>1, AtRest
  DEF HandOverInv, Speeds, Slowed, Engages, Plained, Clean, Quiet, Rests, headVars, cbVars
<1> QED BY <1>2, <1>3, <1>4, <1>5, <1>6 DEF HandOverInv

LEMMA SetRateStep ==
  ASSUME HandOverConstants, HandOverInv, NEW rate \in {"unity", "slow"}, SetRate(rate)
  PROVE  HandOverInv'
<1>1. /\ Rests
      /\ UNCHANGED <<appPlaying, appPrimed, appBank, nextGen, buses, queued, mishaps>>
      /\ op.pc = "idle" /\ op' \in Ops /\ op'.plan = NoPlan /\ op'.call = "setRate"
      /\ op'.pc = (IF rate = "slow" /\ (~appPrimed \/ ~engaged) THEN "prime" ELSE "idle")
      /\ ~op'.stalled /\ op'.wasSlow = slow /\ op'.wasEngaged = appEngaged
      /\ slow' = (rate = "slow") /\ appEngaged' = (appEngaged \/ rate = "slow")
      /\ calls' \in Nat
  <2>1. PICK pc \in {"prime", "idle"} :
          pc = IF rate = "slow" /\ (~appPrimed \/ ~engaged) THEN "prime" ELSE "idle"
    OBVIOUS
  <2>2. Begins("setRate", pc, NoPlan)
    BY <2>1 DEF SetRate
  <2>3. op.pc = "idle" /\ op' \in Ops /\ op'.plan = NoPlan /\ op'.call = "setRate"
        /\ op'.pc = pc /\ ~op'.stalled /\ op'.wasSlow = slow /\ op'.wasEngaged = appEngaged
        /\ UNCHANGED mishaps /\ calls' \in Nat
    BY <2>2, Beginning, NoPlanIs DEF HandOverInv, PCs
  <2> QED BY <2>1, <2>3 DEF SetRate, Rests, sentVars
<1>2. Types'
  BY <1>1, NoPlanIs
  DEF HandOverInv, Types, Given, Rests, headVars, cbVars, Generations
<1>3. (PlanInHand /\ PlanIsOut /\ BankInHand /\ Stalls)'
  BY <1>1 DEF PlanInHand, PlanIsOut, BankInHand, Stalls
<1>4. (Loading /\ Heads /\ Passing)'
  BY <1>1, AtRest
  DEF HandOverInv, Heads, CarriesOn, AtHead, InHand, Rests, headVars, cbVars
<1>5. Sounds'
  BY <1>1, AtRest
  DEF HandOverInv, Sounds, Judgement, NamedIsWhole, JumpIsHeard, BankIsHeard, Quiet, InUse, Full,
      Clean, Rests, headVars, cbVars, Stalls
<1>6. (Speeds /\ Slowed /\ Engages /\ Plained)'
  <2>1. slow' => (appPrimed /\ engaged) \/ op'.pc = "prime"
    BY <1>1 DEF HandOverInv, Types
  <2>2. appPrimed /\ engaged => InEffect
    BY <1>1 DEF HandOverInv, Speeds, InEffect
  <2>3. (Speeds /\ Engages)'
    BY <1>1, AtRest DEF HandOverInv, Types, Speeds, Engages, Rests
  <2>4. Slowed'
    BY <1>1, <2>1, <2>2, AtRest DEF HandOverInv, Slowed
  <2>5. Plained'
    BY <1>1, AtRest DEF HandOverInv, Types, Plained, Clean, Quiet
  <2> QED BY <2>3, <2>4, <2>5
<1> QED BY <1>2, <1>3, <1>4, <1>5, <1>6 DEF HandOverInv

\* Seek and Stop.
LEMMA JumpStep ==
  ASSUME HandOverConstants, HandOverInv, StopCall \/ \E frame \in {0, Longest} : SeekCall(frame)
  PROVE  HandOverInv'
<1>1. /\ Rests
      /\ UNCHANGED <<appPrimed, appBank, slow, nextGen, buses, mishaps>>
      /\ op.pc = "idle" /\ op' \in Ops
      /\ op'.plan.kind = "jump" /\ ~op'.plan.primed /\ op'.plan.gen = 0
      /\ op'.pc = (IF slow THEN "stage" ELSE "plain") /\ op'.call = "jump"
      /\ ~op'.stalled /\ op'.wasSlow = slow /\ op'.wasEngaged = appEngaged
      /\ appEngaged' = slow /\ appPlaying' \in BOOLEAN /\ queued' \in {"none", "play", "pause"}
      /\ calls' \in Nat
  <2>1. PICK pc \in {"stage", "plain"} : pc = IF slow THEN "stage" ELSE "plain"
    OBVIOUS
  <2>2. PICK frame \in Nat : Begins("jump", pc, Plan("jump", frame, 0))
    BY <2>1 DEF StopCall, SeekCall, HandOverConstants
  <2>3. PICK plan \in Plans :
          plan = Plan("jump", frame, 0) /\ plan.kind = "jump" /\ ~plan.primed /\ plan.gen = 0
    BY PlanIs
  <2>4. op.pc = "idle" /\ op' \in Ops /\ op'.plan = plan /\ op'.call = "jump"
        /\ op'.pc = pc /\ ~op'.stalled /\ op'.wasSlow = slow /\ op'.wasEngaged = appEngaged
        /\ UNCHANGED mishaps /\ calls' \in Nat
    BY <2>2, <2>3, Beginning DEF HandOverInv, PCs
  <2> QED BY <2>1, <2>3, <2>4
      DEF StopCall, SeekCall, Rests, sentVars, HandOverInv, Types
<1>2. Types'
  BY <1>1 DEF HandOverInv, Types, Given, Rests, headVars, cbVars, Generations
<1>3. (PlanInHand /\ PlanIsOut /\ BankInHand /\ Stalls)'
  BY <1>1 DEF PlanInHand, PlanIsOut, BankInHand, Stalls
<1>4. (Loading /\ Heads /\ Passing)'
  BY <1>1, AtRest
  DEF HandOverInv, Heads, CarriesOn, AtHead, InHand, Rests, headVars, cbVars
<1>5. Sounds'
  BY <1>1, AtRest
  DEF HandOverInv, Sounds, Judgement, NamedIsWhole, JumpIsHeard, BankIsHeard, Quiet, InUse, Full,
      Clean, Rests, headVars, cbVars, Stalls
<1>6. (Speeds /\ Slowed /\ Engages /\ Plained)'
  BY <1>1, AtRest
  DEF HandOverInv, Speeds, Slowed, Engages, Plained, Clean, Quiet, Rests, headVars, cbVars
<1> QED BY <1>2, <1>3, <1>4, <1>5, <1>6 DEF HandOverInv

LEMMA LoopStep ==
  ASSUME HandOverConstants, HandOverInv, LoopCall
  PROVE  HandOverInv'
<1>1. /\ Rests
      /\ UNCHANGED <<appPlaying, appEngaged, appPrimed, appBank, slow, nextGen, buses,
                     queued, mishaps>>
      /\ op.pc = "idle" /\ op' \in Ops /\ op'.call = "keep"
      /\ op'.plan.kind = (IF JumpPending THEN "jump" ELSE "keep")
      /\ op'.plan.frame = PlannedStream /\ op'.plan.base = transport
      /\ ~op'.plan.primed /\ op'.plan.gen = 0
      /\ op'.pc = (IF JumpPending /\ appEngaged THEN "stage" ELSE "plain")
      /\ ~op'.stalled /\ op'.wasSlow = slow /\ op'.wasEngaged = appEngaged
      /\ ~KeepWhilePaused => appPlaying
      /\ calls' \in Nat
  <2>1. PICK pc \in {"stage", "plain"} :
          pc = IF JumpPending /\ appEngaged THEN "stage" ELSE "plain"
    OBVIOUS
  <2>2. PICK kind \in {"jump", "keep"} : kind = IF JumpPending THEN "jump" ELSE "keep"
    OBVIOUS
  <2>3. PICK frame \in Nat, base \in Nat : frame = PlannedStream /\ base = transport
    BY TheHead DEF HandOverInv, Types
  <2>4. PICK plan \in Plans :
          /\ plan = Plan(kind, frame, base) /\ plan.kind = kind /\ plan.frame = frame
          /\ plan.base = base /\ ~plan.primed /\ plan.gen = 0
    BY PlanIs
  <2>5. Begins("keep", pc, plan)
    BY <2>1, <2>2, <2>3, <2>4 DEF LoopCall
  <2>6. op.pc = "idle" /\ op' \in Ops /\ op'.plan = plan /\ op'.call = "keep"
        /\ op'.pc = pc /\ ~op'.stalled /\ op'.wasSlow = slow /\ op'.wasEngaged = appEngaged
        /\ UNCHANGED mishaps /\ calls' \in Nat
    BY <2>5, Beginning DEF HandOverInv, PCs
  <2> QED BY <2>1, <2>2, <2>3, <2>4, <2>6 DEF LoopCall, Rests, sentVars, HandOverInv, Types
<1>2. Types'
  BY <1>1 DEF HandOverInv, Types, Given, Rests, headVars, cbVars, Generations
<1>3. (PlanInHand /\ PlanIsOut /\ BankInHand /\ Stalls)'
  BY <1>1 DEF PlanInHand, PlanIsOut, BankInHand, Stalls
<1>4. (Loading /\ Heads /\ Passing)'
  <2>1. PlannedStream \in Nat /\ (~JumpPending => PlannedStream = stream)
        /\ transport \in Nat /\ stream \in Nat
    BY TheHead DEF HandOverInv, Types
  <2> QED BY <1>1, <2>1, AtRest
      DEF HandOverInv, Heads, CarriesOn, AtHead, InHand, Rests, headVars, cbVars
<1>5. Sounds'
  BY <1>1, AtRest
  DEF HandOverInv, Sounds, Judgement, NamedIsWhole, JumpIsHeard, BankIsHeard, Quiet, InUse, Full,
      Clean, Rests, headVars, cbVars, Stalls
<1>6. (Speeds /\ Slowed /\ Engages /\ Plained)'
  <2>1. (Speeds /\ Engages)'
    BY <1>1, AtRest DEF HandOverInv, Speeds, Engages, Rests, JumpPending
  <2>2. Slowed'
    BY <1>1, AtRest DEF HandOverInv, Slowed
  <2>3. Plained'
    BY <1>1, AtRest DEF HandOverInv, Plained, Clean, Quiet
  <2> QED BY <2>1, <2>2, <2>3
<1> QED BY <1>2, <1>3, <1>4, <1>5, <1>6 DEF HandOverInv

\* A change that fails before its plan is out is undone.
LEMMA FailStep ==
  ASSUME HandOverConstants, HandOverInv, Rests, Fails, Unreadable,
         op.pc = "plain" \/ (op.pc = "stage" /\ ~op.stalled),
         UNCHANGED <<appPlaying, appPrimed, appBank, nextGen, calls, buses, queued>>
  PROVE  HandOverInv'
<1>1. /\ op' \in Ops /\ op'.pc = "idle" /\ op'.plan = NoPlan /\ ~op'.stalled
      /\ ~op'.wasSlow /\ ~op'.wasEngaged
      /\ mishaps' = mishaps \cup {"unreadable"}
      /\ slow' \in BOOLEAN /\ appEngaged' \in BOOLEAN
      /\ IF op.call = "keep" THEN slow' = slow /\ appEngaged' = appEngaged
         ELSE slow' = op.wasSlow /\ appEngaged' = op.wasEngaged
  BY IdleIs DEF Fails, Unreadable, Mishap, HandOverInv, Types, Ops
<1>2. Types'
  BY <1>1, NoPlanIs DEF HandOverInv, Types, Given, Rests, headVars, cbVars, Generations
<1>3. (PlanInHand /\ PlanIsOut /\ BankInHand /\ Stalls)'
  BY <1>1 DEF PlanInHand, PlanIsOut, BankInHand, Stalls
<1>4. (Loading /\ Heads /\ Passing)'
  BY <1>1, AtRest
  DEF HandOverInv, Heads, CarriesOn, AtHead, InHand, Rests, headVars, cbVars
<1>5. Sounds'
  BY <1>1, AtRest
  DEF HandOverInv, Sounds, Judgement, NamedIsWhole, JumpIsHeard, BankIsHeard, Quiet, InUse, Full,
      Clean, Rests, headVars, cbVars, Stalls
<1>6. (Speeds /\ Slowed /\ Engages /\ Plained)'
  <2>1. (Speeds /\ Engages)'
    BY <1>1, AtRest DEF HandOverInv, Speeds, Engages, Rests
  <2>2. Slowed'
    BY <1>1 DEF Slowed
  <2>3. Plained'
    BY <1>1, AtRest DEF HandOverInv, Plained, Clean, Quiet, Engages
  <2> QED BY <2>1, <2>2, <2>3
<1> QED BY <1>2, <1>3, <1>4, <1>5, <1>6 DEF HandOverInv

LEMMA GoesIs ==
  ASSUME Types, NEW pc \in PCs, Goes(pc)
  PROVE  /\ op' \in Ops /\ op'.pc = pc
         /\ op'.call = op.call /\ op'.plan = op.plan /\ op'.stalled = op.stalled
         /\ op'.left = op.left /\ op'.wasSlow = op.wasSlow
         /\ op'.wasEngaged = op.wasEngaged
BY DEF Types, Goes, Ops

LEMMA StagePlainStep ==
  ASSUME HandOverConstants, HandOverInv, StagePlain
  PROVE  HandOverInv'
<1>1. /\ Rests
      /\ op.pc = "plain"
      /\ UNCHANGED <<appPlaying, appPrimed, appBank, nextGen, calls, buses, queued>>
  BY DEF StagePlain, Rests, sentVars
<1>2. CASE Unreadable /\ Fails
  BY <1>1, <1>2, FailStep
<1>3. CASE Goes("publishPlan") /\ Well /\ UNCHANGED <<slow, appEngaged>>
  <2>1. /\ op' \in Ops /\ op'.pc = "publishPlan"
        /\ op'.call = op.call /\ op'.plan = op.plan /\ op'.stalled = op.stalled
        /\ op'.wasSlow = op.wasSlow /\ op'.wasEngaged = op.wasEngaged
        /\ mishaps' = mishaps
    BY <1>3, GoesIs DEF HandOverInv, PCs, Well
  <2>2. Types'
    BY <1>1, <1>3, <2>1 DEF HandOverInv, Types, Given, Rests, headVars, cbVars, Generations
  <2>3. (PlanInHand /\ PlanIsOut /\ BankInHand /\ Stalls)'
    BY <1>1, <2>1 DEF HandOverInv, PlanInHand, PlanIsOut, BankInHand, Stalls
  <2>4. (Loading /\ Heads /\ Passing)'
    BY <1>1, <2>1, AtRest
    DEF HandOverInv, Heads, CarriesOn, AtHead, InHand, Rests, headVars, cbVars
  <2>5. Sounds'
    BY <1>1, <2>1, AtRest
    DEF HandOverInv, Sounds, Judgement, NamedIsWhole, JumpIsHeard, BankIsHeard, Quiet, InUse,
        Full, Clean, Rests, headVars, cbVars, Stalls
  <2>6. (Speeds /\ Slowed /\ Engages /\ Plained)'
    <3>1. (Speeds /\ Engages)'
      BY <1>1, <1>3, <2>1, AtRest DEF HandOverInv, Speeds, Engages, Rests, PlanInHand
    <3>2. Slowed'
      BY <1>1, <1>3, <2>1, AtRest DEF HandOverInv, Slowed
    <3>3. Plained'
      BY <1>1, <1>3, <2>1, AtRest DEF HandOverInv, Plained, Clean, Quiet
    <3> QED BY <3>1, <3>2, <3>3
  <2> QED BY <2>2, <2>3, <2>4, <2>5, <2>6 DEF HandOverInv
<1> QED BY <1>2, <1>3 DEF StagePlain

\* The last resort is a jump through the buses.
LEMMA ReprimeStep ==
  ASSUME HandOverConstants, HandOverInv, Rests, op.pc \in {"prime", "handOver"},
         op' = [op EXCEPT !.pc = "stage", !.plan = Reprime],
         mishaps' = mishaps \/ mishaps' = mishaps \cup {"unreadable"},
         UNCHANGED <<appPlaying, appEngaged, appPrimed, appBank, slow, nextGen, calls,
                     buses, queued>>
  PROVE  HandOverInv'
<1>1. /\ op' \in Ops /\ op'.pc = "stage" /\ op'.call = op.call
      /\ op'.plan.kind = "jump" /\ ~op'.plan.primed /\ op'.plan.gen = 0
      /\ op'.stalled = op.stalled
      /\ op'.wasSlow = op.wasSlow /\ op'.wasEngaged = op.wasEngaged
  <2>1. PICK plan \in Plans : plan = Reprime /\ plan.kind = "jump" /\ ~plan.primed
                              /\ plan.gen = 0
    BY ReprimeIs DEF HandOverInv
  <2>2. op \in Ops /\ op' = [op EXCEPT !.pc = "stage", !.plan = plan]
    BY <2>1 DEF HandOverInv, Types
  <2>3. /\ op' \in Ops /\ op'.pc = "stage" /\ op'.plan = plan
        /\ op'.call = op.call /\ op'.stalled = op.stalled
        /\ op'.wasSlow = op.wasSlow /\ op'.wasEngaged = op.wasEngaged
    BY <2>1, <2>2, PCsAre DEF Ops
  <2> QED BY <2>1, <2>3
<1>2. Types'
  BY <1>1 DEF HandOverInv, Types, Given, Rests, headVars, cbVars, Generations
<1>3. (PlanInHand /\ PlanIsOut /\ BankInHand /\ Stalls)'
  BY <1>1 DEF HandOverInv, PlanInHand, PlanIsOut, BankInHand, Stalls
<1>4. (Loading /\ Heads /\ Passing)'
  BY <1>1, AtRest
  DEF HandOverInv, Heads, CarriesOn, AtHead, InHand, Rests, headVars, cbVars
<1>5. Sounds'
  BY <1>1, AtRest
  DEF HandOverInv, Sounds, Judgement, NamedIsWhole, JumpIsHeard, BankIsHeard, Quiet, InUse, Full,
      Clean, Rests, headVars, cbVars, Stalls
<1>6. (Speeds /\ Slowed /\ Engages /\ Plained)'
  <2>1. (Speeds /\ Engages)'
    BY <1>1, AtRest DEF HandOverInv, Speeds, Engages, Rests
  <2>2. Slowed'
    BY <1>1 DEF Slowed
  <2>3. Plained'
    BY <1>1, AtRest DEF HandOverInv, Plained, Clean, Quiet
  <2> QED BY <2>1, <2>2, <2>3
<1> QED BY <1>2, <1>3, <1>4, <1>5, <1>6 DEF HandOverInv

LEMMA PrimeNowStep ==
  ASSUME HandOverConstants, HandOverInv, PrimeNow
  PROVE  HandOverInv'
<1>1. /\ Rests /\ op.pc = "prime"
      /\ UNCHANGED <<appPlaying, appEngaged, appPrimed, appBank, slow, nextGen, calls,
                     mishaps, buses, queued>>
  BY DEF PrimeNow, Rests, sentVars
<1>2. CASE op' = [op EXCEPT !.pc = "stage", !.plan = Reprime]
  BY <1>1, <1>2, ReprimeStep
<1>3. CASE Goes("handOver")
  <2>1. /\ op' \in Ops /\ op'.pc = "handOver"
        /\ op'.call = op.call /\ op'.plan = op.plan /\ op'.stalled = op.stalled
        /\ op'.wasSlow = op.wasSlow /\ op'.wasEngaged = op.wasEngaged
    BY <1>3, GoesIs, PCsAre DEF HandOverInv
  <2>2. Types'
    BY <1>1, <2>1 DEF HandOverInv, Types, Given, Rests, headVars, cbVars, Generations
  <2>3. (PlanInHand /\ PlanIsOut /\ BankInHand /\ Stalls)'
    BY <1>1, <2>1 DEF HandOverInv, PlanInHand, PlanIsOut, BankInHand, Stalls
  <2>4. (Loading /\ Heads /\ Passing)'
    BY <1>1, <2>1, AtRest
    DEF HandOverInv, Heads, CarriesOn, AtHead, InHand, Rests, headVars, cbVars
  <2>5. Sounds'
    BY <1>1, <2>1, AtRest
    DEF HandOverInv, Sounds, Judgement, NamedIsWhole, JumpIsHeard, BankIsHeard, Quiet, InUse,
        Full, Clean, Rests, headVars, cbVars, Stalls
  <2>6. (Speeds /\ Slowed /\ Engages /\ Plained)'
    <3>1. (Speeds /\ Engages)'
      BY <1>1, <2>1, AtRest DEF HandOverInv, Speeds, Engages, Rests
    <3>2. Slowed'
      BY <2>1 DEF Slowed
    <3>3. Plained'
      BY <1>1, <2>1, AtRest DEF HandOverInv, Plained, Clean, Quiet
    <3> QED BY <3>1, <3>2, <3>3
  <2> QED BY <2>2, <2>3, <2>4, <2>5, <2>6 DEF HandOverInv
<1> QED BY <1>2, <1>3 DEF PrimeNow

LEMMA BuildIs ==
  ASSUME Types, NEW plan \in Plans, Build(plan, op)
  PROVE  /\ nextGen' = nextGen + 1
         /\ op' \in Ops /\ op'.pc = "publishBank" /\ op'.call = op.call
         /\ op'.plan.kind = plan.kind /\ op'.plan.frame = plan.frame
         /\ op'.plan.base = plan.base /\ op'.plan.primed
         /\ op'.plan.bank = 1 - appBank /\ op'.plan.gen = nextGen + 1
         /\ op'.left = Slots /\ op'.stalled = op.stalled
         /\ op'.wasSlow = op.wasSlow /\ op'.wasEngaged = op.wasEngaged
<1>1. PICK b \in Banks, g \in Nat : b = 1 - appBank /\ g = nextGen + 1
  BY DEF Types, Banks
<1>2. PICK named : named = [plan EXCEPT !.primed = TRUE, !.bank = b, !.gen = g]
  OBVIOUS
<1>3. /\ named \in Plans /\ named.kind = plan.kind /\ named.frame = plan.frame
      /\ named.base = plan.base /\ named.primed /\ named.bank = b /\ named.gen = g
  BY <1>1, <1>2 DEF Plans
<1>4. op' = [op EXCEPT !.pc = "publishBank", !.left = Slots, !.plan = named]
  BY <1>1, <1>2 DEF Build
<1>5. /\ op' \in Ops /\ op'.pc = "publishBank" /\ op'.call = op.call /\ op'.plan = named
      /\ op'.left = Slots /\ op'.stalled = op.stalled
      /\ op'.wasSlow = op.wasSlow /\ op'.wasEngaged = op.wasEngaged
  BY <1>3, <1>4, PCsAre DEF Types, Ops
<1> QED BY <1>1, <1>3, <1>5 DEF Build

LEMMA BuildStep ==
  ASSUME HandOverConstants, HandOverInv, Rests, NEW plan \in Plans, Build(plan, op),
         \/ op.pc \in {"handOver", "stage"} /\ plan.kind = "jump"
         \/ /\ op.pc = "handOver" /\ plan.kind = "handOver"
            /\ ~JumpPending /\ plan.frame - plan.base = stream - transport,
         UNCHANGED <<appPlaying, appEngaged, appPrimed, appBank, slow, calls, mishaps,
                     buses, queued>>
  PROVE  HandOverInv'
<1>1. /\ nextGen' = nextGen + 1
      /\ op' \in Ops /\ op'.pc = "publishBank" /\ op'.call = op.call
      /\ op'.plan.kind = plan.kind /\ op'.plan.frame = plan.frame
      /\ op'.plan.base = plan.base /\ op'.plan.primed
      /\ op'.plan.bank = 1 - appBank /\ op'.plan.gen = nextGen + 1
      /\ op'.left = Slots /\ op'.stalled = op.stalled
      /\ op'.wasSlow = op.wasSlow /\ op'.wasEngaged = op.wasEngaged
  BY BuildIs DEF HandOverInv
<1>2. /\ nextGen \in Nat /\ seen \in 0..nextGen /\ missed \in 0..nextGen
      /\ primedGen \in 0..nextGen /\ node.plan.gen \in 0..nextGen
      /\ cb.node.plan.gen \in 0..nextGen
      /\ UNCHANGED <<seen, missed, primedGen, node, cb, handover>>
  BY DEF HandOverInv, Types, Generations, Given, Nodes, CbStates, Plans, Rests, cbVars
<1>3. Types'
  <2>1. buses \in [Banks -> [Slots -> 0..(nextGen + 1)]] /\ snap \in [Slots -> 0..(nextGen + 1)]
    BY <1>2 DEF HandOverInv, Types, Generations
  <2> QED BY <1>1, <1>2, <2>1 DEF HandOverInv, Types, Given, Rests, headVars, cbVars, Generations, Plans
<1>4. (PlanInHand /\ PlanIsOut /\ BankInHand /\ Stalls)'
  BY <1>1, <1>2 DEF HandOverInv, PlanInHand, PlanIsOut, BankInHand, Stalls, Clean
<1>5. (Loading /\ Heads /\ Passing)'
  BY <1>1, AtRest
  DEF HandOverInv, Heads, CarriesOn, AtHead, InHand, Rests, headVars, cbVars
<1>6. Sounds'
  BY <1>1, AtRest
  DEF HandOverInv, Sounds, Judgement, NamedIsWhole, JumpIsHeard, BankIsHeard, Quiet, InUse, Full,
      Clean, Rests, headVars, cbVars, Stalls
<1>7. (Speeds /\ Slowed /\ Engages /\ Plained)'
  <2>1. (Speeds /\ Engages)'
    BY <1>1, AtRest DEF HandOverInv, Speeds, Engages, Rests
  <2>2. Slowed'
    BY <1>1 DEF Slowed
  <2>3. Plained'
    BY <1>1, AtRest DEF HandOverInv, Plained, Clean, Quiet, Stalls
  <2> QED BY <2>1, <2>2, <2>3
<1> QED BY <1>3, <1>4, <1>5, <1>6, <1>7 DEF HandOverInv

LEMMA TryHandOverStep ==
  ASSUME HandOverConstants, HandOverInv, TryHandOver
  PROVE  HandOverInv'
<1>1. /\ Rests /\ op.pc = "handOver"
      /\ UNCHANGED <<appPlaying, appEngaged, appPrimed, appBank, slow, calls, buses, queued>>
  BY DEF TryHandOver, Rests, sentVars
<1>2. CASE /\ op' = [op EXCEPT !.pc = "stage", !.plan = Reprime]
           /\ UNCHANGED nextGen /\ (Well \/ Unreadable)
  BY <1>1, <1>2, ReprimeStep DEF Well, Unreadable, Mishap
<1>3. CASE /\ ~JumpPending /\ Well
           /\ Build(Plan("handOver", PlannedStream + op.lead, transport + op.lead), op)
  <2>1. PICK frame \in Nat, base \in Nat :
          frame = PlannedStream + op.lead /\ base = transport + op.lead
    BY TheHead DEF HandOverInv, Types, Ops
  <2>2. PICK plan \in Plans :
          /\ plan = Plan("handOver", frame, base) /\ plan.kind = "handOver"
          /\ plan.frame = frame /\ plan.base = base
    BY PlanIs
  <2>3. Build(plan, op)
    BY <1>3, <2>1, <2>2
  <2>4. plan.frame - plan.base = stream - transport
    BY <1>3, <2>1, <2>2, TheHead DEF HandOverInv, Types, Ops
  <2> QED BY <1>1, <1>3, <2>2, <2>3, <2>4, BuildStep DEF Well
<1> QED BY <1>2, <1>3 DEF TryHandOver

LEMMA StagePrimedStep ==
  ASSUME HandOverConstants, HandOverInv, StagePrimed
  PROVE  HandOverInv'
<1>1. /\ Rests /\ op.pc = "stage" /\ op.plan.kind = "jump"
      /\ UNCHANGED <<appPlaying, appPrimed, appBank, calls, buses, queued>>
  BY DEF StagePrimed, Rests, sentVars, HandOverInv, PlanInHand
<1>2. CASE Build(op.plan, op) /\ Well /\ UNCHANGED <<slow, appEngaged>>
  <2>1. PICK plan \in Plans : plan = op.plan
    BY DEF HandOverInv, Types, Ops
  <2>2. Build(plan, op)
    BY <1>2, <2>1
  <2> QED BY <1>1, <1>2, <2>1, <2>2, BuildStep DEF Well
<1>3. CASE Unreadable /\ ~op.stalled /\ Fails /\ UNCHANGED nextGen
  BY <1>1, <1>3, FailStep
<1>4. CASE /\ Unreadable /\ op.stalled /\ Goes("retract")
           /\ UNCHANGED <<slow, appEngaged, nextGen>>
  <2>1. /\ op' \in Ops /\ op'.pc = "retract"
        /\ op'.call = op.call /\ op'.plan = op.plan /\ op'.stalled = op.stalled
        /\ op'.wasSlow = op.wasSlow /\ op'.wasEngaged = op.wasEngaged
        /\ mishaps' = mishaps \cup {"unreadable"}
    BY <1>4, GoesIs, PCsAre DEF HandOverInv, Unreadable, Mishap
  <2>2. Types'
    BY <1>1, <1>4, <2>1 DEF HandOverInv, Types, Given, Rests, headVars, cbVars, Generations
  <2>3. (PlanInHand /\ PlanIsOut /\ BankInHand /\ Stalls)'
    BY <1>1, <1>4, <2>1
    DEF HandOverInv, PlanInHand, PlanIsOut, BankInHand, Stalls, Rests, Clean
  <2>4. (Loading /\ Heads /\ Passing)'
    BY <1>1, <2>1, AtRest
    DEF HandOverInv, Heads, CarriesOn, AtHead, InHand, Rests, headVars, cbVars
  <2>5. Sounds'
    BY <1>1, <1>4, <2>1, AtRest
    DEF HandOverInv, Sounds, Judgement, NamedIsWhole, JumpIsHeard, BankIsHeard, Quiet, InUse,
        Full, Clean, Rests, headVars, cbVars
  <2>6. (Speeds /\ Slowed /\ Engages /\ Plained)'
    <3>1. (Speeds /\ Engages)'
      BY <1>1, <1>4, <2>1, AtRest DEF HandOverInv, Speeds, Engages, Rests
    <3>2. Slowed'
      BY <2>1 DEF Slowed
    <3>3. Plained'
      BY <1>1, <2>1, AtRest DEF HandOverInv, Plained, Clean, Quiet
    <3> QED BY <3>1, <3>2, <3>3
  <2> QED BY <2>2, <2>3, <2>4, <2>5, <2>6 DEF HandOverInv
<1> QED BY <1>2, <1>3, <1>4 DEF StagePrimed

LEMMA PublishBankStep ==
  ASSUME HandOverConstants, HandOverInv, NEW s \in Slots, PublishBank(s)
  PROVE  HandOverInv'
<1>1. /\ Rests
      /\ UNCHANGED <<appPlaying, appEngaged, appPrimed, appBank, slow, nextGen, calls,
                     mishaps, queued>>
      /\ op.pc = "publishBank" /\ s \in op.left
      /\ op.plan.primed /\ op.plan.bank = 1 - appBank /\ op.plan.gen = nextGen
      /\ op.plan.kind \in {"jump", "handOver"}
  BY DEF PublishBank, Rests, HandOverInv, PlanInHand, BankInHand
<1>2. /\ op' \in Ops /\ op'.pc = (IF op.left = {s} THEN "publishPlan" ELSE "publishBank")
      /\ op'.call = op.call /\ op'.plan = op.plan /\ op'.stalled = op.stalled
      /\ op'.left = op.left \ {s}
      /\ op'.wasSlow = op.wasSlow /\ op'.wasEngaged = op.wasEngaged
  <2>1. PICK pc \in PCs : pc = IF op.left = {s} THEN "publishPlan" ELSE op.pc
    BY <1>1, PCsAre
  <2>2. op \in Ops /\ op' = [op EXCEPT !.left = @ \ {s}, !.pc = pc]
    BY <2>1 DEF PublishBank, HandOverInv, Types
  <2>3. /\ op' \in Ops /\ op'.pc = pc
        /\ op'.call = op.call /\ op'.plan = op.plan /\ op'.stalled = op.stalled
        /\ op'.left = op.left \ {s}
        /\ op'.wasSlow = op.wasSlow /\ op'.wasEngaged = op.wasEngaged
    BY <2>2 DEF Ops
  <2> QED BY <1>1, <2>1, <2>3
<1>3. /\ buses' \in [Banks -> [Slots -> Generations]]
      /\ buses'[appBank] = buses[appBank]
      /\ \A t \in Slots : buses'[1 - appBank][t] =
                            IF t = s THEN op.plan.gen ELSE buses[1 - appBank][t]
  BY <1>1 DEF PublishBank, PublishBus, HandOverInv, Types, Banks, Generations
<1>4. Types'
  BY <1>1, <1>2, <1>3 DEF HandOverInv, Types, Given, Rests, headVars, cbVars, Generations
<1>5. (PlanInHand /\ PlanIsOut /\ BankInHand /\ Stalls)'
  <2>1. (PlanInHand /\ PlanIsOut /\ Stalls)'
    BY <1>1, <1>2 DEF HandOverInv, PlanInHand, PlanIsOut, Stalls, Rests, Clean
  <2>2. \A t \in Slots : t \notin op'.left => buses'[1 - appBank][t] = op.plan.gen
    BY <1>1, <1>2, <1>3 DEF HandOverInv, BankInHand
  <2>3. op'.pc = "publishPlan" => op'.left = {}
    BY <1>2
  <2>4. BankInHand'
    BY <1>1, <1>2, <2>2, <2>3 DEF HandOverInv, BankInHand, Full, Rests, cbVars
  <2> QED BY <2>1, <2>4
<1>6. (Loading /\ Heads /\ Passing)'
  BY <1>1, <1>2, AtRest
  DEF HandOverInv, Heads, CarriesOn, AtHead, InHand, Rests, headVars, cbVars
<1>7. Sounds'
  <2>1. (Judgement /\ JumpIsHeard)'
    BY <1>1, <1>2, AtRest
    DEF HandOverInv, Sounds, Judgement, JumpIsHeard, Clean, Rests, headVars, cbVars
  <2>2. NamedIsWhole'
    BY <1>1, <1>2, <1>3 DEF HandOverInv, Sounds, NamedIsWhole, Full, Rests
  <2>3. InUse => InUse'
    BY <1>1, <1>3 DEF InUse, Full, Rests, cbVars
  <2>4. BankIsHeard'
    BY <1>1, <1>2, <2>3, AtRest DEF HandOverInv, Sounds, BankIsHeard, Quiet, Clean
  <2> QED BY <2>1, <2>2, <2>4 DEF Sounds
<1>8. (Speeds /\ Slowed /\ Engages /\ Plained)'
  <2>1. (Speeds /\ Engages)'
    BY <1>1, <1>2, AtRest DEF HandOverInv, Speeds, Engages, Rests
  <2>2. Slowed'
    BY <1>1, <1>2 DEF Slowed
  <2>3. Plained'
    BY <1>1, <1>2, AtRest DEF HandOverInv, Plained, Clean, Quiet
  <2> QED BY <2>1, <2>2, <2>3
<1> QED BY <1>4, <1>5, <1>6, <1>7, <1>8 DEF HandOverInv

LEMMA KeptStep ==
  ASSUME HandOverConstants, HandOverInv, PrimeAwaitingEngage
  PROVE  HandOverInv'
<1>1. /\ Rests /\ op.pc = "kept"
      /\ UNCHANGED <<appPlaying, appEngaged, appPrimed, appBank, slow, nextGen, calls,
                     mishaps, buses, queued>>
      /\ op.plan = node.plan /\ node.plan.kind = "keep" /\ ~op.stalled
      /\ op.call = "keep" /\ op.wasEngaged = appEngaged
  BY DEF PrimeAwaitingEngage, Rests, sentVars, HandOverInv, PlanIsOut, Stalls, Engages
<1>2. CASE Goes("prime") /\ appPrimed /\ appPlaying /\ ~engaged
  <2>1. /\ op' \in Ops /\ op'.pc = "prime"
        /\ op'.call = op.call /\ op'.plan = op.plan /\ op'.stalled = op.stalled
        /\ op'.wasSlow = op.wasSlow /\ op'.wasEngaged = op.wasEngaged
    BY <1>2, GoesIs, PCsAre DEF HandOverInv
  <2>2. Types'
    BY <1>1, <2>1 DEF HandOverInv, Types, Given, Rests, headVars, cbVars, Generations
  <2>3. (PlanInHand /\ PlanIsOut /\ BankInHand /\ Stalls)'
    BY <1>1, <2>1 DEF HandOverInv, PlanInHand, PlanIsOut, BankInHand, Stalls
  <2>4. (Loading /\ Heads /\ Passing)'
    BY <1>1, <2>1, AtRest
    DEF HandOverInv, Heads, CarriesOn, AtHead, InHand, Rests, headVars, cbVars
  <2>5. Sounds'
    BY <1>1, <2>1, AtRest
    DEF HandOverInv, Sounds, Judgement, NamedIsWhole, JumpIsHeard, BankIsHeard, Quiet, InUse,
        Full, Clean, Rests, headVars, cbVars
  <2>6. (Speeds /\ Slowed /\ Engages /\ Plained)'
    <3>1. (Speeds /\ Engages)'
      BY <1>1, <1>2, <2>1, AtRest DEF HandOverInv, Speeds, Engages, Rests
    <3>2. Slowed'
      BY <2>1 DEF Slowed
    <3>3. Plained'
      BY <1>1, <2>1, AtRest DEF HandOverInv, Plained, Clean, Quiet
    <3> QED BY <3>1, <3>2, <3>3
  <2> QED BY <2>2, <2>3, <2>4, <2>5, <2>6 DEF HandOverInv
<1>3. CASE op' = Idle /\ ~(appPrimed /\ appPlaying /\ ~engaged)
  <2>1. /\ op' \in Ops /\ op'.pc = "idle" /\ op'.plan = NoPlan
        /\ ~op'.stalled /\ ~op'.wasSlow /\ ~op'.wasEngaged
    BY <1>3, IdleIs
  <2>2. Types'
    BY <1>1, <2>1, NoPlanIs DEF HandOverInv, Types, Given, Rests, headVars, cbVars, Generations
  <2>3. (PlanInHand /\ PlanIsOut /\ BankInHand /\ Stalls)'
    BY <2>1 DEF PlanInHand, PlanIsOut, BankInHand, Stalls
  <2>4. (Loading /\ Heads /\ Passing)'
    BY <1>1, <2>1, AtRest
    DEF HandOverInv, Heads, CarriesOn, AtHead, InHand, Rests, headVars, cbVars
  <2>5. Sounds'
    BY <1>1, <2>1, AtRest
    DEF HandOverInv, Sounds, Judgement, NamedIsWhole, JumpIsHeard, BankIsHeard, Quiet, InUse,
        Full, Clean, Rests, headVars, cbVars
  <2>6. (Speeds /\ Slowed /\ Engages /\ Plained)'
    <3>1. (Speeds /\ Engages)'
      BY <1>1, <2>1, AtRest DEF HandOverInv, Types, Speeds, Engages, Rests
    <3>2. Slowed'
      BY <1>1, <1>3, <2>1, AtRest DEF HandOverInv, Slowed, InEffect, Rests, cbVars
    <3>3. Plained'
      BY <1>1, <2>1, AtRest DEF HandOverInv, Plained, Clean, Quiet
    <3> QED BY <3>1, <3>2, <3>3
  <2> QED BY <2>2, <2>3, <2>4, <2>5, <2>6 DEF HandOverInv
<1> QED BY <1>2, <1>3 DEF PrimeAwaitingEngage, Succeeds

LEMMA VerdictStep ==
  ASSUME HandOverConstants, HandOverInv, Verdict
  PROVE  HandOverInv'
<1>1. /\ Rests /\ op.pc = "await"
      /\ UNCHANGED <<appPlaying, appEngaged, appPrimed, appBank, slow, nextGen, calls,
                     mishaps, buses, queued>>
      /\ op.plan = node.plan /\ node.plan.kind = "handOver" /\ node.plan.primed
      /\ op.plan.bank = 1 - appBank /\ ~op.stalled /\ seen >= node.plan.gen
  BY DEF Verdict, Rests, sentVars, HandOverInv, PlanIsOut, BankInHand, Stalls
<1>2. /\ op' \in Ops
      /\ op'.pc = (IF missed = node.plan.gen THEN "freeMissed" ELSE "adoptBank")
      /\ op'.call = op.call /\ op'.plan = op.plan /\ op'.stalled = op.stalled
      /\ op'.wasSlow = op.wasSlow /\ op'.wasEngaged = op.wasEngaged
  <2>1. PICK pc \in PCs : pc = IF missed = op.plan.gen THEN "freeMissed" ELSE "adoptBank"
    BY PCsAre
  <2>2. Goes(pc)
    BY <2>1 DEF Verdict
  <2> QED BY <1>1, <2>1, <2>2, GoesIs DEF HandOverInv
<1>3. Clean => Landed /\ seen = node.plan.gen
  <2>1. seen \in Nat /\ node.plan.gen \in Nat
    BY DEF HandOverInv, Types, Generations, Nodes, Plans
  <2>2. Clean => seen <= node.plan.gen /\ (seen = node.plan.gen <=> Landed)
    BY <1>1 DEF HandOverInv, Sounds, Judgement
  <2> QED BY <1>1, <2>1, <2>2
<1>4. Types'
  BY <1>1, <1>2 DEF HandOverInv, Types, Given, Rests, headVars, cbVars, Generations
<1>5. (PlanInHand /\ PlanIsOut /\ BankInHand /\ Stalls)'
  BY <1>1, <1>2 DEF HandOverInv, PlanInHand, PlanIsOut, BankInHand, Stalls, Rests
<1>6. (Loading /\ Heads /\ Passing)'
  BY <1>1, <1>2, AtRest
  DEF HandOverInv, Heads, CarriesOn, AtHead, InHand, Rests, headVars, cbVars
<1>7. Sounds'
  <2>1. (Judgement /\ NamedIsWhole /\ JumpIsHeard)'
    BY <1>1, <1>2, <1>3, AtRest
    DEF HandOverInv, Sounds, Judgement, NamedIsWhole, JumpIsHeard, Full, Clean, Rests, headVars,
        cbVars
  <2>2. InUse' <=> InUse
    BY <1>1 DEF InUse, Full, Rests, cbVars
  <2>3. BankIsHeard'
    BY <1>1, <1>2, <1>3, <2>2, AtRest
    DEF HandOverInv, Sounds, BankIsHeard, Quiet, Clean, Taken, Ahead
  <2> QED BY <2>1, <2>3 DEF Sounds
<1>8. (Speeds /\ Slowed /\ Engages /\ Plained)'
  <2>1. (Speeds /\ Engages)'
    BY <1>1, <1>2, AtRest DEF HandOverInv, Speeds, Engages, Rests
  <2>2. Slowed'
    BY <1>2 DEF Slowed
  <2>3. Plained'
    BY <1>1, <1>2, AtRest DEF HandOverInv, Plained, Clean, Quiet, Taken, Unity
  <2> QED BY <2>1, <2>2, <2>3
<1> QED BY <1>4, <1>5, <1>6, <1>7, <1>8 DEF HandOverInv

LEMMA TimeOutStep ==
  ASSUME HandOverConstants, HandOverInv, VerdictTimesOut
  PROVE  HandOverInv'
<1>1. /\ Rests /\ op.pc = "await"
      /\ UNCHANGED <<appPlaying, appEngaged, appPrimed, appBank, slow, nextGen, calls,
                     buses, queued>>
      /\ mishaps' = mishaps \cup {"stalled"}
      /\ op.plan = node.plan /\ node.plan.kind = "handOver"
      /\ appEngaged
  BY DEF VerdictTimesOut, Mishap, Rests, sentVars, HandOverInv, PlanIsOut, Engages
<1>2. /\ op' \in Ops /\ op'.pc = "stage" /\ op'.call = op.call
      /\ op'.plan.kind = "jump" /\ ~op'.plan.primed /\ op'.plan.gen = 0
      /\ op'.stalled /\ op'.wasSlow = op.wasSlow /\ op'.wasEngaged = op.wasEngaged
  <2>1. PICK plan \in Plans : plan = Reprime /\ plan.kind = "jump" /\ ~plan.primed
                              /\ plan.gen = 0
    BY ReprimeIs DEF HandOverInv
  <2>2. op \in Ops /\ op' = [op EXCEPT !.pc = "stage", !.plan = plan, !.stalled = TRUE]
    BY <2>1 DEF VerdictTimesOut, HandOverInv, Types
  <2>3. /\ op' \in Ops /\ op'.pc = "stage" /\ op'.plan = plan
        /\ op'.call = op.call /\ op'.stalled
        /\ op'.wasSlow = op.wasSlow /\ op'.wasEngaged = op.wasEngaged
    BY <2>1, <2>2, PCsAre DEF Ops
  <2> QED BY <2>1, <2>3
<1>3. Types'
  BY <1>1, <1>2 DEF HandOverInv, Types, Given, Rests, headVars, cbVars, Generations
<1>4. (PlanInHand /\ PlanIsOut /\ BankInHand /\ Stalls)'
  BY <1>1, <1>2 DEF HandOverInv, PlanInHand, PlanIsOut, BankInHand, Stalls, Rests
<1>5. (Loading /\ Heads /\ Passing)'
  BY <1>1, <1>2, AtRest
  DEF HandOverInv, Heads, CarriesOn, AtHead, InHand, Rests, headVars, cbVars
<1>6. Sounds'
  BY <1>1, <1>2, AtRest
  DEF HandOverInv, Sounds, Judgement, NamedIsWhole, JumpIsHeard, BankIsHeard, Quiet, InUse, Full,
      Clean, Rests, headVars, cbVars
<1>7. (Speeds /\ Slowed /\ Engages /\ Plained)'
  <2>1. (Speeds /\ Engages)'
    BY <1>1, <1>2, AtRest DEF HandOverInv, Speeds, Engages, Rests
  <2>2. Slowed'
    BY <1>2 DEF Slowed
  <2>3. Plained'
    BY <1>1, <1>2 DEF Plained, Quiet
  <2> QED BY <2>1, <2>2, <2>3
<1> QED BY <1>3, <1>4, <1>5, <1>6, <1>7 DEF HandOverInv

\* The steps that free a bank, before the last slot of it.
Freeing == op.pc \in {"adoptBank", "freeMissed", "freeAll", "freeRetracted"}

\* What a bank freed leaves of the others.
Spares ==
  /\ buses' \in [Banks -> [Slots -> Generations]]
  /\ op.pc = "adoptBank" => buses'[node.plan.bank] = buses[node.plan.bank]
  /\ op.pc = "freeMissed" => buses'[appBank] = buses[appBank]

LEMMA FreesIs ==
  ASSUME HandOverInv, NEW banks \in SUBSET Banks, NEW s \in Slots, NEW last,
         Frees(banks, s, last), Freeing,
         op.pc = "adoptBank" => banks = {appBank},
         op.pc = "freeMissed" => banks = {1 - appBank}
  PROVE  /\ Rests /\ Spares
         /\ UNCHANGED <<appPlaying, nextGen, calls, mishaps, queued>>
         /\ \/ /\ op' = [op EXCEPT !.left = @ \ {s}]
               /\ UNCHANGED <<appPrimed, appBank, slow, appEngaged>>
            \/ last
<1>1. buses \in [Banks -> [Slots -> Generations]] /\ 0 \in Generations /\ appBank \in Banks
      /\ nextGen \in Nat
  BY DEF HandOverInv, Types, Generations
<1> DEFINE freed(b) == IF b \in banks THEN [buses[b] EXCEPT ![s] = 0] ELSE buses[b]
<1>2. \A b \in Banks : freed(b) \in [Slots -> Generations]
  BY <1>1
<1> HIDE DEF freed
<1>3. /\ buses' = [b \in Banks |-> freed(b)]
      /\ \A b \in Banks : b \notin banks => freed(b) = buses[b]
  BY DEF Frees, freed
<1>4. op.pc = "adoptBank" => node.plan.bank = 1 - appBank
  BY DEF HandOverInv, PlanIsOut, BankInHand
<1>5. Spares
  BY <1>1, <1>2, <1>3, <1>4 DEF Spares, Banks
<1> QED BY <1>5 DEF Frees, Rests

LEMMA FreesStep ==
  ASSUME HandOverConstants, HandOverInv, Rests, Spares, Freeing, NEW s \in Slots,
         op' = [op EXCEPT !.left = @ \ {s}],
         UNCHANGED <<appPlaying, appPrimed, appBank, slow, appEngaged, nextGen, calls,
                     mishaps, queued>>
  PROVE  HandOverInv'
<1>1. /\ op' \in Ops /\ op'.pc = op.pc /\ op'.call = op.call /\ op'.plan = op.plan
      /\ op'.stalled = op.stalled
      /\ op'.wasSlow = op.wasSlow /\ op'.wasEngaged = op.wasEngaged
  BY DEF HandOverInv, Types, Ops
<1>2. Types'
  BY <1>1 DEF HandOverInv, Types, Given, Rests, headVars, cbVars, Generations, Spares
<1>3. (PlanInHand /\ PlanIsOut /\ BankInHand /\ Stalls)'
  BY <1>1
  DEF HandOverInv, PlanInHand, PlanIsOut, BankInHand, Stalls, Rests, cbVars, Freeing, Clean
<1>4. (Loading /\ Heads /\ Passing)'
  BY <1>1, AtRest
  DEF HandOverInv, Heads, CarriesOn, AtHead, InHand, Rests, headVars, cbVars
<1>5. Sounds'
  <2>1. (Judgement /\ JumpIsHeard)'
    BY <1>1, AtRest
    DEF HandOverInv, Sounds, Judgement, JumpIsHeard, Clean, Rests, headVars, cbVars
  <2>2. NamedIsWhole'
    BY <1>1 DEF HandOverInv, Sounds, NamedIsWhole, Full, Rests, Spares, Freeing, PlanIsOut
  <2>3. op.pc = "freeMissed" /\ InUse => InUse'
    BY DEF InUse, Full, Rests, cbVars, Spares
  <2>4. BankIsHeard'
    BY <1>1, <2>3, AtRest DEF HandOverInv, Sounds, BankIsHeard, Quiet, Clean, Freeing
  <2> QED BY <2>1, <2>2, <2>4 DEF Sounds
<1>6. (Speeds /\ Slowed /\ Engages /\ Plained)'
  <2>1. (Speeds /\ Engages)'
    BY <1>1, AtRest DEF HandOverInv, Speeds, Engages, Rests
  <2>2. Slowed'
    BY <1>1 DEF Slowed, Freeing
  <2>3. Plained'
    BY <1>1, AtRest DEF HandOverInv, Plained, Clean, Quiet
  <2> QED BY <2>1, <2>2, <2>3
<1> QED BY <1>2, <1>3, <1>4, <1>5, <1>6 DEF HandOverInv

LEMMA AdoptBankStep ==
  ASSUME HandOverConstants, HandOverInv, NEW s \in Slots, AdoptBank(s)
  PROVE  HandOverInv'
<1>1. /\ op.pc = "adoptBank" /\ op.plan = node.plan /\ node.plan.primed
      /\ node.plan.kind \in {"jump", "handOver"} /\ node.plan.bank = 1 - appBank
      /\ node.plan \in Plans /\ node.plan.gen > 0 /\ appEngaged
      /\ Clean /\ node.plan.kind = "handOver" => Landed
  BY DEF AdoptBank, HandOverInv, PlanIsOut, BankInHand, Types, Nodes, Given, Engages, Sounds,
         Judgement, Stalls
<1> DEFINE Last == /\ appBank' = op.plan.bank /\ appPrimed' = TRUE /\ Succeeds
                   /\ UNCHANGED <<slow, appEngaged>>
<1>2. /\ Rests /\ Spares
      /\ UNCHANGED <<appPlaying, nextGen, calls, mishaps, queued>>
      /\ \/ /\ op' = [op EXCEPT !.left = @ \ {s}]
            /\ UNCHANGED <<appPrimed, appBank, slow, appEngaged>>
         \/ Last
  BY <1>1, FreesIs DEF AdoptBank, Freeing, HandOverInv, Types
<1>3. CASE /\ op' = [op EXCEPT !.left = @ \ {s}]
           /\ UNCHANGED <<appPrimed, appBank, slow, appEngaged>>
  BY <1>1, <1>2, <1>3, FreesStep DEF Freeing
<1>4. CASE Last
  <2>1. /\ op' \in Ops /\ op'.pc = "idle" /\ op'.plan = NoPlan
        /\ ~op'.stalled /\ ~op'.wasSlow /\ ~op'.wasEngaged
    BY <1>4, IdleIs DEF Succeeds
  <2>2. Types'
    BY <1>1, <1>2, <1>4, <2>1, NoPlanIs
    DEF HandOverInv, Types, Given, Rests, headVars, cbVars, Generations, Spares, Banks
  <2>3. (PlanInHand /\ PlanIsOut /\ BankInHand /\ Stalls)'
    BY <2>1 DEF PlanInHand, PlanIsOut, BankInHand, Stalls
  <2>4. (Loading /\ Heads /\ Passing)'
    BY <1>2, <2>1, AtRest
    DEF HandOverInv, Heads, CarriesOn, AtHead, InHand, Rests, headVars, cbVars
  <2>5. Sounds'
    <3>1. (Judgement /\ JumpIsHeard)'
      BY <1>1, <1>2, <2>1, AtRest
      DEF HandOverInv, Sounds, Judgement, JumpIsHeard, Clean, Rests, headVars, cbVars
    <3>2. Full(node.plan.bank, node.plan.gen)
      BY <1>1 DEF HandOverInv, Sounds, NamedIsWhole
    <3>3. Full(node.plan.bank, node.plan.gen)'
      BY <1>1, <1>2, <3>2 DEF Full, Rests, Spares
    <3>4. NamedIsWhole'
      BY <1>1, <1>2, <1>4, <2>1, <3>3 DEF NamedIsWhole, Rests
    <3>5. Named => InUse'
      BY <1>1, <1>2, <1>4, <3>3 DEF Named, InUse, Full, Rests, cbVars
    <3>6. BankIsHeard'
      BY <1>1, <1>2, <2>1, <3>5, AtRest DEF HandOverInv, Sounds, BankIsHeard, Clean
    <3> QED BY <3>1, <3>4, <3>6 DEF Sounds
  <2>6. (Speeds /\ Slowed /\ Engages /\ Plained)'
    <3>1. (Speeds /\ Engages)'
      BY <1>1, <1>2, <1>4, <2>1, AtRest DEF HandOverInv, Speeds, Engages, Rests
    <3>2. mishaps \subseteq {"stalled"} => Clean
      BY DEF Clean
    <3>3. Clean => InEffect
      BY <1>1 DEF HandOverInv, Sounds, BankIsHeard, Named, InEffect, Ahead
    <3>4. Slowed'
      BY <1>2, <1>4, <2>1, <3>2, <3>3, AtRest DEF Slowed
    <3>5. Plained'
      BY <1>1, <1>4, <2>1 DEF Plained
    <3> QED BY <3>1, <3>4, <3>5
  <2> QED BY <2>2, <2>3, <2>4, <2>5, <2>6 DEF HandOverInv
<1> QED BY <1>2, <1>3, <1>4

LEMMA FreeMissedStep ==
  ASSUME HandOverConstants, HandOverInv, NEW s \in Slots, FreeMissed(s)
  PROVE  HandOverInv'
<1>1. /\ op.pc = "freeMissed" /\ op.plan = node.plan /\ node.plan.kind = "handOver"
      /\ node.plan.bank = 1 - appBank /\ node.plan.primed /\ ~op.stalled
  BY DEF FreeMissed, HandOverInv, PlanIsOut, BankInHand, Stalls
<1> DEFINE Last == /\ op' = [op EXCEPT !.pc = "handOver", !.attempt = @ + 1, !.lead = 2 * @]
                   /\ UNCHANGED <<appPrimed, appBank, slow, appEngaged>>
<1>2. /\ Rests /\ Spares
      /\ UNCHANGED <<appPlaying, nextGen, calls, mishaps, queued>>
      /\ \/ /\ op' = [op EXCEPT !.left = @ \ {s}]
            /\ UNCHANGED <<appPrimed, appBank, slow, appEngaged>>
         \/ Last
  <2>1. {op.plan.bank} \in SUBSET Banks
    BY <1>1 DEF HandOverInv, Types, Nodes, Plans
  <2> QED BY <1>1, <2>1, FreesIs DEF FreeMissed, Freeing
<1>3. CASE /\ op' = [op EXCEPT !.left = @ \ {s}]
           /\ UNCHANGED <<appPrimed, appBank, slow, appEngaged>>
  BY <1>1, <1>2, <1>3, FreesStep DEF Freeing
<1>4. CASE Last
  <2>1. /\ op' \in Ops /\ op'.pc = "handOver" /\ op'.call = op.call /\ op'.plan = op.plan
        /\ op'.stalled = op.stalled
        /\ op'.wasSlow = op.wasSlow /\ op'.wasEngaged = op.wasEngaged
    <3>1. PICK attempt \in Nat, lead \in Nat : attempt = op.attempt + 1 /\ lead = 2 * op.lead
      BY DEF HandOverInv, Types, Ops
    <3>2. op \in Ops /\ op' = [op EXCEPT !.pc = "handOver", !.attempt = attempt, !.lead = lead]
      BY <1>4, <3>1 DEF HandOverInv, Types
    <3> QED BY <3>1, <3>2, PCsAre DEF Ops
  <2>2. Types'
    BY <1>2, <1>4, <2>1
    DEF HandOverInv, Types, Given, Rests, headVars, cbVars, Generations, Spares
  <2>3. (PlanInHand /\ PlanIsOut /\ BankInHand /\ Stalls)'
    BY <1>1, <2>1 DEF PlanInHand, PlanIsOut, BankInHand, Stalls
  <2>4. (Loading /\ Heads /\ Passing)'
    BY <1>2, <2>1, AtRest
    DEF HandOverInv, Heads, CarriesOn, AtHead, InHand, Rests, headVars, cbVars
  <2>5. Sounds'
    <3>1. (Judgement /\ JumpIsHeard)'
      BY <1>1, <1>2, <2>1, AtRest
      DEF HandOverInv, Sounds, Judgement, JumpIsHeard, Clean, Rests, headVars, cbVars
    <3>2. NamedIsWhole'
      BY <1>1, <1>2, <2>1 DEF NamedIsWhole, Rests
    <3>3. InUse => InUse'
      BY <1>1, <1>2, <1>4 DEF InUse, Full, Rests, cbVars, Spares
    <3>4. BankIsHeard'
      BY <1>1, <1>2, <2>1, <3>3, AtRest DEF HandOverInv, Sounds, BankIsHeard, Quiet, Clean
    <3> QED BY <3>1, <3>2, <3>4 DEF Sounds
  <2>6. (Speeds /\ Slowed /\ Engages /\ Plained)'
    <3>1. (Speeds /\ Engages)'
      BY <1>1, <1>2, <1>4, <2>1, AtRest DEF HandOverInv, Speeds, Engages, Rests
    <3>2. Slowed'
      BY <2>1 DEF Slowed
    <3>3. Plained'
      BY <1>1, <1>2, <2>1, AtRest DEF HandOverInv, Plained, Quiet, Clean
    <3> QED BY <3>1, <3>2, <3>3
  <2> QED BY <2>2, <2>3, <2>4, <2>5, <2>6 DEF HandOverInv
<1> QED BY <1>2, <1>3, <1>4

LEMMA FreeAllStep ==
  ASSUME HandOverConstants, HandOverInv, NEW s \in Slots, FreeAll(s)
  PROVE  HandOverInv'
<1>1. /\ op.pc = "freeAll" /\ node.plan.kind = "jump" /\ ~node.plan.primed /\ ~slow
  BY DEF FreeAll, HandOverInv, PlanIsOut, Speeds
<1> DEFINE Last == appPrimed' = FALSE /\ Succeeds /\ UNCHANGED <<appBank, slow, appEngaged>>
<1>2. /\ Rests /\ Spares
      /\ UNCHANGED <<appPlaying, nextGen, calls, mishaps, queued>>
      /\ \/ /\ op' = [op EXCEPT !.left = @ \ {s}]
            /\ UNCHANGED <<appPrimed, appBank, slow, appEngaged>>
         \/ Last
  BY <1>1, FreesIs DEF FreeAll, Freeing
<1>3. CASE /\ op' = [op EXCEPT !.left = @ \ {s}]
           /\ UNCHANGED <<appPrimed, appBank, slow, appEngaged>>
  BY <1>1, <1>2, <1>3, FreesStep DEF Freeing
<1>4. CASE Last
  <2>1. /\ op' \in Ops /\ op'.pc = "idle" /\ op'.plan = NoPlan
        /\ ~op'.stalled /\ ~op'.wasSlow /\ ~op'.wasEngaged
        /\ appPrimed' \in BOOLEAN /\ UNCHANGED <<appBank, slow, appEngaged>>
    BY <1>4, IdleIs DEF Succeeds
  <2>2. Types'
    BY <1>2, <2>1, NoPlanIs
    DEF HandOverInv, Types, Given, Rests, headVars, cbVars, Generations, Spares
  <2>3. (PlanInHand /\ PlanIsOut /\ BankInHand /\ Stalls)'
    BY <2>1 DEF PlanInHand, PlanIsOut, BankInHand, Stalls
  <2>4. (Loading /\ Heads /\ Passing)'
    BY <1>2, <2>1, AtRest
    DEF HandOverInv, Heads, CarriesOn, AtHead, InHand, Rests, headVars, cbVars
  <2>5. Sounds'
    BY <1>1, <1>2, <2>1, AtRest
    DEF HandOverInv, Sounds, Judgement, NamedIsWhole, JumpIsHeard, BankIsHeard, InUse, Ahead,
        Clean, Rests, headVars, cbVars
  <2>6. (Speeds /\ Slowed /\ Engages /\ Plained)'
    BY <1>1, <1>2, <1>4, <2>1, AtRest
    DEF HandOverInv, Speeds, Slowed, Engages, Plained, Unity, Rests
  <2> QED BY <2>2, <2>3, <2>4, <2>5, <2>6 DEF HandOverInv
<1> QED BY <1>2, <1>3, <1>4

LEMMA FreeRetractedStep ==
  ASSUME HandOverConstants, HandOverInv, NEW s \in Slots, FreeRetracted(s)
  PROVE  HandOverInv'
<1>1. op.pc = "freeRetracted" /\ node.plan.kind = "keep" /\ ~Clean
  BY DEF FreeRetracted, HandOverInv, PlanIsOut, Stalls
<1> DEFINE Last == Fails /\ UNCHANGED <<appPrimed, appBank>>
<1>2. /\ Rests /\ Spares
      /\ UNCHANGED <<appPlaying, nextGen, calls, mishaps, queued>>
      /\ \/ /\ op' = [op EXCEPT !.left = @ \ {s}]
            /\ UNCHANGED <<appPrimed, appBank, slow, appEngaged>>
         \/ Last
  <2>1. {1 - appBank} \in SUBSET Banks
    BY DEF HandOverInv, Types, Banks
  <2> QED BY <1>1, <2>1, FreesIs DEF FreeRetracted, Freeing
<1>3. CASE /\ op' = [op EXCEPT !.left = @ \ {s}]
           /\ UNCHANGED <<appPrimed, appBank, slow, appEngaged>>
  BY <1>1, <1>2, <1>3, FreesStep DEF Freeing
<1>4. CASE Last
  <2>1. /\ op' \in Ops /\ op'.pc = "idle" /\ op'.plan = NoPlan
        /\ ~op'.stalled /\ ~op'.wasSlow /\ ~op'.wasEngaged
        /\ slow' \in BOOLEAN /\ appEngaged' \in BOOLEAN
        /\ IF op.call = "keep" THEN slow' = slow /\ appEngaged' = appEngaged
           ELSE slow' = op.wasSlow /\ appEngaged' = op.wasEngaged
    BY <1>4, IdleIs DEF Fails, HandOverInv, Types, Ops
  <2>2. Types'
    BY <1>2, <1>4, <2>1, NoPlanIs
    DEF HandOverInv, Types, Given, Rests, headVars, cbVars, Generations, Spares
  <2>3. (PlanInHand /\ PlanIsOut /\ BankInHand /\ Stalls)'
    BY <2>1 DEF PlanInHand, PlanIsOut, BankInHand, Stalls
  <2>4. (Loading /\ Heads /\ Passing)'
    BY <1>2, <2>1, AtRest
    DEF HandOverInv, Heads, CarriesOn, AtHead, InHand, Rests, headVars, cbVars
  <2>5. Sounds'
    BY <1>1, <1>2, <2>1, AtRest
    DEF HandOverInv, Sounds, Judgement, NamedIsWhole, JumpIsHeard, BankIsHeard, Clean, Rests,
        headVars, cbVars
  <2>6. (Speeds /\ Slowed /\ Engages /\ Plained)'
    BY <1>1, <1>2, <1>4, <2>1, AtRest
    DEF HandOverInv, Speeds, Slowed, Engages, Plained, Clean, Rests
  <2> QED BY <2>2, <2>3, <2>4, <2>5, <2>6 DEF HandOverInv
<1> QED BY <1>2, <1>3, <1>4

\* A plan sent has not landed; what the callback has in hand is older.
LEMMA SendIs ==
  ASSUME HandOverInv, NEW plan \in Plans, Sends(plan), plan.kind # "none",
         CarriesOn(plan) => ~JumpPending /\ AtHead(plan),
         UNCHANGED <<headVars, cbVars>>
  PROVE  /\ node' \in Nodes /\ node'.plan = plan /\ node'.n = node.n + 1
         /\ ~Landed' /\ (Ahead' <=> plan.kind = "jump")
         /\ CarriesOn(plan) => ~InHand \/ cb.node.plan.kind # "jump"
         /\ CarriesOn(plan) => ~Ahead
         /\ Loading' /\ Passing'
         /\ (node.n = 0 <=> node.plan.kind = "none")'
         /\ (CarriesOn(node.plan) => AtHead(node.plan))'
         /\ (InHand /\ CarriesOn(cb.node.plan) /\ node.plan.kind # "jump" =>
               AtHead(cb.node.plan))'
<1>1. /\ node \in Nodes /\ node.n \in Nat /\ cb.node.n \in Nat /\ planAdopted \in Nat
      /\ planAdopted <= node.n
  BY DEF HandOverInv, Types, Nodes, CbStates
<1>2. node' = [n |-> node.n + 1, plan |-> plan]
  BY DEF Sends
<1>3. node' \in Nodes /\ node'.plan = plan /\ node'.n = node.n + 1
  BY <1>1, <1>2 DEF Nodes
<1>4. UNCHANGED <<cb, planAdopted, transport, stream, jumpBase, pending, engaged, handover>>
  BY DEF headVars, cbVars
<1>5. InHand => planAdopted < cb.node.n /\ cb.node.n <= node.n
  BY DEF HandOverInv, Loading
<1>6. ~Landed' /\ (Ahead' <=> plan.kind = "jump")
  BY <1>1, <1>3, <1>4, <1>5 DEF Landed, Ahead, InHand
<1>7. CarriesOn(plan) => /\ ~Ahead
                         /\ ~InHand \/ node.plan.kind # "jump"
                         /\ ~InHand \/ cb.node.plan.kind # "jump"
  BY <1>1, <1>5 DEF JumpPending, Landed, Ahead, HandOverInv, Loading
<1>8. plan.kind \in {"jump", "keep", "handOver"}
  BY DEF Plans
<1>9. Loading' /\ Passing'
  BY <1>1, <1>3, <1>4, <1>5, <1>7, <1>8 DEF HandOverInv, Loading, InHand, Passing, CarriesOn
<1>10. (InHand /\ CarriesOn(cb.node.plan) /\ node.plan.kind # "jump" =>
          AtHead(cb.node.plan))'
  BY <1>3, <1>4, <1>7, <1>8 DEF HandOverInv, Heads, InHand, CarriesOn, AtHead
<1>11. (CarriesOn(node.plan) => AtHead(node.plan))'
  BY <1>3, <1>4 DEF CarriesOn, AtHead
<1>12. (node.n = 0 <=> node.plan.kind = "none")'
  BY <1>1, <1>3
<1> QED BY <1>3, <1>6, <1>7, <1>9, <1>10, <1>11, <1>12

LEMMA PublishPlanStep ==
  ASSUME HandOverConstants, HandOverInv, PublishPlan
  PROVE  HandOverInv'
<1>1. /\ op.pc = "publishPlan" /\ op \in Ops
      /\ UNCHANGED <<appPlaying, appEngaged, appPrimed, appBank, slow, nextGen, calls,
                     mishaps, buses, queued>>
      /\ UNCHANGED <<headVars, cbVars>>
  BY DEF PublishPlan, HandOverInv, Types
<1>2. PICK plan \in Plans : plan = op.plan
  BY <1>1 DEF Ops
<1>3. /\ plan.kind \in {"jump", "keep", "handOver"} /\ Given(plan)
      /\ plan.kind = "handOver" => plan.primed
      /\ plan.kind = "keep" => ~plan.primed
      /\ CarriesOn(plan) => ~JumpPending /\ AtHead(plan)
  BY <1>1, <1>2 DEF HandOverInv, Types, PlanInHand, Heads
<1>4. Sends(plan)
  BY <1>2 DEF PublishPlan
<1>5. /\ node' \in Nodes /\ node'.plan = plan /\ node'.n = node.n + 1
      /\ ~Landed' /\ (Ahead' <=> plan.kind = "jump")
      /\ CarriesOn(plan) => ~InHand \/ cb.node.plan.kind # "jump"
      /\ CarriesOn(plan) => ~Ahead
      /\ Loading' /\ Passing'
      /\ (node.n = 0 <=> node.plan.kind = "none")'
      /\ (CarriesOn(node.plan) => AtHead(node.plan))'
      /\ (InHand /\ CarriesOn(cb.node.plan) /\ node.plan.kind # "jump" =>
            AtHead(cb.node.plan))'
  BY <1>1, <1>3, <1>4, SendIs
<1>6. /\ op' \in Ops /\ op'.call = op.call /\ op'.plan = plan /\ op'.stalled = op.stalled
      /\ op'.wasSlow = op.wasSlow /\ op'.wasEngaged = op.wasEngaged
      /\ op'.pc = IF plan.kind = "handOver" THEN "await"
                  ELSE IF plan.primed THEN "adoptBank"
                  ELSE IF plan.kind = "jump" THEN "freeAll" ELSE "kept"
  <2>1. PICK pc \in PCs :
          pc = IF plan.kind = "handOver" THEN "await"
               ELSE IF plan.primed THEN "adoptBank"
               ELSE IF plan.kind = "jump" THEN "freeAll" ELSE "kept"
    BY PCsAre
  <2>2. AfterPlan = pc
    BY <1>2, <1>3, <2>1 DEF AfterPlan
  <2>3. op' = [op EXCEPT !.pc = pc, !.left = Slots]
    BY <2>2 DEF PublishPlan
  <2>4. /\ op' \in Ops /\ op'.call = op.call /\ op'.plan = op.plan
        /\ op'.stalled = op.stalled
        /\ op'.wasSlow = op.wasSlow /\ op'.wasEngaged = op.wasEngaged /\ op'.pc = pc
    BY <1>1, <2>3 DEF Ops
  <2> QED BY <1>2, <1>3, <2>1, <2>4
<1>7. Types'
  <2>1. planAdopted' \in Nat /\ planAdopted' <= node'.n
    BY <1>1, <1>5 DEF HandOverInv, Types, Nodes, cbVars
  <2> QED BY <1>1, <1>3, <1>5, <1>6, <2>1
      DEF HandOverInv, Types, Given, headVars, cbVars, Generations
<1>8. (PlanInHand /\ PlanIsOut /\ BankInHand /\ Stalls)'
  BY <1>1, <1>2, <1>3, <1>5, <1>6
  DEF HandOverInv, PlanInHand, PlanIsOut, BankInHand, Stalls
<1>9. (Loading /\ Heads /\ Passing)'
  BY <1>3, <1>5, <1>6 DEF Heads
<1>10. plan.primed => /\ plan.bank = 1 - appBank /\ plan.gen = nextGen
                      /\ seen < nextGen /\ missed < nextGen
                      /\ Full(plan.bank, plan.gen)
  BY <1>1, <1>2 DEF HandOverInv, BankInHand
<1>11. UNCHANGED <<seen, missed, engaged, pending, handover, bank, primedGen, planAdopted, cb>>
       /\ seen \in Nat /\ nextGen \in Nat
  BY <1>1 DEF cbVars, HandOverInv, Types, Generations
<1>12. CarriesOn(plan) => ~op.stalled
  BY <1>1, <1>2 DEF HandOverInv, Stalls, CarriesOn
<1>13. Sounds'
  <2>1. Clean /\ cb.pc = "loaded" /\ cb.node.plan.kind = "handOver" => plan.kind = "jump"
    <3>1. CASE CarriesOn(plan)
      <4>1. node.plan.kind = "jump" => Landed
        BY <1>5, <3>1 DEF Ahead
      <4>2. Clean /\ node.plan.kind = "handOver" => Landed
        BY <1>1, <1>12, <3>1 DEF HandOverInv, Sounds, Judgement
      <4>3. cb.pc = "loaded" => planAdopted < cb.node.n /\ cb.node.n <= node.n
                                /\ (cb.node.n = node.n => cb.node.plan = node.plan)
        BY DEF HandOverInv, Loading, InHand
      <4>4. cb.node.n \in Nat /\ node.n \in Nat /\ planAdopted \in Nat
        BY DEF HandOverInv, Types, Nodes, CbStates
      <4> QED BY <4>1, <4>2, <4>3, <4>4 DEF HandOverInv, Sounds, Judgement, Landed
    <3> QED BY <1>3, <3>1 DEF CarriesOn
  <2>2. Judgement'
    BY <1>1, <1>3, <1>5, <1>6, <1>10, <1>11, <2>1 DEF Judgement, Clean
  <2>3. NamedIsWhole'
    BY <1>1, <1>3, <1>5, <1>6, <1>10 DEF NamedIsWhole, Full
  <2>4. JumpIsHeard'
    BY <1>5 DEF JumpIsHeard
  <2>5. Clean /\ CarriesOn(plan) => InUse'
    BY <1>1, <1>5, <1>11, <1>12 DEF HandOverInv, Sounds, BankIsHeard, Quiet, InUse, Full
  <2>6. plan.kind = "handOver" => ~Taken'
    BY <1>3, <1>5, <1>10, <1>11 DEF Taken
  <2>7. BankIsHeard'
    BY <1>1, <1>3, <1>5, <1>6, <2>5, <2>6 DEF BankIsHeard, Quiet, Clean, CarriesOn
  <2> QED BY <2>2, <2>3, <2>4, <2>7 DEF Sounds
<1>14. (Speeds /\ Slowed /\ Engages /\ Plained)'
  <2>1. (Speeds /\ Engages)'
    BY <1>1, <1>2, <1>3, <1>5, <1>6 DEF HandOverInv, Speeds, Engages
  <2>2. Slowed'
    BY <1>1, <1>2, <1>3, <1>5, <1>6 DEF HandOverInv, Slowed
  <2>3. Clean /\ CarriesOn(plan) /\ ~op.wasEngaged => Plainly'
    BY <1>1, <1>5, <1>11, <1>12
    DEF HandOverInv, Plained, Quiet, Unity, Plainly, Sounds, JumpIsHeard, Ahead
  <2>4. Plained'
    BY <1>1, <1>3, <1>5, <1>6, <2>3 DEF Plained, Quiet, Clean, Unity, CarriesOn
  <2> QED BY <2>1, <2>2, <2>4
<1> QED BY <1>7, <1>8, <1>9, <1>13, <1>14 DEF HandOverInv

LEMMA RetractStep ==
  ASSUME HandOverConstants, HandOverInv, Retract
  PROVE  HandOverInv'
<1>1. /\ op.pc = "retract" /\ op \in Ops /\ op.stalled /\ op.plan.kind = "jump"
      /\ node.plan.kind = "handOver" /\ "stalled" \in mishaps /\ appEngaged
      /\ UNCHANGED <<appPlaying, appEngaged, appPrimed, appBank, slow, nextGen, calls,
                     buses, queued>>
      /\ UNCHANGED <<headVars, cbVars>>
      /\ mishaps' = mishaps \cup {"retracted"}
  BY DEF Retract, Mishap, HandOverInv, Types, Stalls, Engages
<1>2. PICK frame \in Nat, base \in Nat : frame = PlannedStream /\ base = transport
  BY TheHead DEF HandOverInv, Types
<1>3. PICK plan \in Plans : /\ plan = Plan("keep", frame, base) /\ plan.kind = "keep"
                            /\ plan.frame = frame /\ plan.base = base
                            /\ ~plan.primed /\ plan.gen = 0
  BY PlanIs
<1>4. Sends(plan)
  BY <1>2, <1>3 DEF Retract
<1>5. ~JumpPending /\ AtHead(plan)
  BY <1>1, <1>2, <1>3, TheHead DEF JumpPending, AtHead, HandOverInv, Types
<1>6. /\ node' \in Nodes /\ node'.plan = plan /\ node'.n = node.n + 1
      /\ ~Landed'
      /\ Loading' /\ Passing'
      /\ (node.n = 0 <=> node.plan.kind = "none")'
      /\ (CarriesOn(node.plan) => AtHead(node.plan))'
      /\ (InHand /\ CarriesOn(cb.node.plan) /\ node.plan.kind # "jump" =>
            AtHead(cb.node.plan))'
  BY <1>1, <1>3, <1>4, <1>5, SendIs
<1>7. /\ op' \in Ops /\ op'.pc = "freeRetracted" /\ op'.call = op.call
      /\ op'.plan = op.plan /\ op'.stalled = op.stalled
      /\ op'.wasSlow = op.wasSlow /\ op'.wasEngaged = op.wasEngaged
  BY <1>1, PCsAre DEF Retract, Ops
<1>8. Types'
  <2>1. planAdopted' \in Nat /\ planAdopted' <= node'.n
    BY <1>1, <1>6 DEF HandOverInv, Types, Nodes, cbVars
  <2>2. Given(plan)' /\ nextGen \in Nat
    BY <1>1, <1>3 DEF Given, HandOverInv, Types
  <2> QED BY <1>1, <1>6, <1>7, <2>1, <2>2
      DEF HandOverInv, Types, Given, headVars, cbVars, Generations
<1>9. (PlanInHand /\ PlanIsOut /\ BankInHand /\ Stalls)'
  BY <1>1, <1>3, <1>6, <1>7 DEF PlanInHand, PlanIsOut, BankInHand, Stalls, Clean
<1>10. (Loading /\ Heads /\ Passing)'
  BY <1>3, <1>6, <1>7 DEF Heads
<1>11. ~Clean'
  BY <1>1 DEF Clean
<1>12. Sounds'
  BY <1>3, <1>6, <1>7, <1>11
  DEF Sounds, Judgement, NamedIsWhole, JumpIsHeard, BankIsHeard
<1>13. (Speeds /\ Slowed /\ Engages /\ Plained)'
  BY <1>1, <1>3, <1>6, <1>7, <1>11 DEF HandOverInv, Speeds, Slowed, Engages, Plained
<1> QED BY <1>8, <1>9, <1>10, <1>12, <1>13 DEF HandOverInv

-----------------------------------------------------------------------------
(* The callback.  It leaves the calls, the plan and the banks alone. *)

Works == UNCHANGED <<appVars, node, buses>>

Undisturbed ==
  /\ UNCHANGED <<appPlaying, appEngaged, appPrimed, appBank, slow, nextGen, op,
                 calls, mishaps, node, buses>>
  /\ PlanInHand' /\ PlanIsOut' /\ Stalls' /\ Speeds' /\ Engages'
  /\ NamedIsWhole'
  /\ Clean' <=> Clean
  /\ Quiet' <=> Quiet

LEMMA AtWork == ASSUME HandOverInv, Works PROVE Undisturbed
<1>1. UNCHANGED <<appPlaying, appEngaged, appPrimed, appBank, slow, nextGen, op,
                  calls, mishaps, node, buses>>
  BY DEF Works, appVars
<1>2. PlanInHand' /\ PlanIsOut' /\ Stalls' /\ (Clean' <=> Clean) /\ (Quiet' <=> Quiet)
  BY <1>1 DEF HandOverInv, PlanInHand, PlanIsOut, Stalls, Clean, Quiet
<1>3. Speeds' /\ Engages' /\ NamedIsWhole'
  BY <1>1 DEF HandOverInv, Speeds, Engages, Sounds, NamedIsWhole, Full
<1> QED BY <1>1, <1>2, <1>3 DEF Undisturbed

\* A step that only moves the callback along, or plays or loads.
LEMMA LoadStep ==
  ASSUME HandOverConstants, HandOverInv, Works, NEW again \in BOOLEAN,
         NEW otherwise \in {"adopted", "mix"}, Loads(again, otherwise),
         cb.pc \in {"between", "snapped"},
         playing' \in BOOLEAN, queued' \in {"none", "play", "pause"},
         UNCHANGED <<headVars, planAdopted, engaged, seen, missed, pending, handover, bank, snap,
                     primedGen>>
  PROVE  HandOverInv'
<1>0. Undisturbed
  BY AtWork
<1>1. /\ cb' \in CbStates /\ cb'.node = node /\ node \in Nodes
      /\ cb'.pc = (IF node.n = planAdopted THEN otherwise ELSE "loaded")
  <2>1. PICK pc \in {"loaded", "adopted", "mix"} :
          pc = IF node.n = planAdopted THEN otherwise ELSE "loaded"
    OBVIOUS
  <2>2. cb' = [pc |-> pc, again |-> again, node |-> node] /\ node \in Nodes
    BY <2>1 DEF Loads, HandOverInv, Types
  <2> QED BY <2>1, <2>2 DEF CbStates
<1>2. node.n \in Nat /\ planAdopted \in Nat /\ planAdopted <= node.n
  BY <1>1 DEF Nodes, HandOverInv, Types
<1>3. UNCHANGED <<transport, stream, jumpBase, planAdopted, engaged, seen, missed, pending,
                  handover, bank, snap, primedGen>>
  BY DEF headVars
<1>4. /\ Landed' <=> Landed
      /\ Ahead' <=> Ahead
      /\ Taken' <=> Taken
      /\ Plainly' <=> Plainly
      /\ Unity' <=> Unity
      /\ InEffect' <=> InEffect
      /\ Named' <=> Named
      /\ InUse' <=> InUse
      /\ JumpPending' <=> JumpPending
  BY <1>1, <1>3, <1>0
  DEF Undisturbed, Landed, Ahead, Taken, Plainly, Unity, InEffect, Named, InUse, Full, JumpPending
<1>5. Types'
  BY <1>1, <1>2, <1>3, <1>0 DEF Undisturbed, HandOverInv, Types, Given, Generations
<1>6. BankInHand'
  BY <1>1, <1>3, <1>0 DEF Undisturbed, HandOverInv, BankInHand, Full
<1>7. (Loading /\ Heads /\ Passing)'
  BY <1>1, <1>2, <1>3, <1>4, <1>0
  DEF Undisturbed, HandOverInv, Loading, Heads, Passing, InHand, CarriesOn, AtHead
<1>8. Sounds'
  BY <1>1, <1>3, <1>4, <1>0 DEF Undisturbed, HandOverInv, Sounds, Judgement, JumpIsHeard, BankIsHeard
<1>9. (Slowed /\ Plained)'
  BY <1>4, <1>0 DEF Undisturbed, HandOverInv, Slowed, Plained
<1> QED BY <1>5, <1>6, <1>7, <1>8, <1>9, <1>0 DEF Undisturbed, HandOverInv

LEMMA BlockBeginsStep ==
  ASSUME HandOverConstants, HandOverInv, BlockBegins
  PROVE  HandOverInv'
<1>1. playing' \in BOOLEAN
  BY DEF BlockBegins, HandOverInv, Types
<1> QED BY <1>1, LoadStep DEF BlockBegins, Works

LEMMA AdoptAgainStep ==
  ASSUME HandOverConstants, HandOverInv, AdoptAgain
  PROVE  HandOverInv'
<1>1. /\ Works
      /\ UNCHANGED <<headVars, planAdopted, engaged, seen, missed, playing, queued, pending,
                     handover, bank, snap, primedGen>>
  BY DEF AdoptAgain, Works, sentVars
<1> QED BY <1>1, LoadStep DEF AdoptAgain, HandOverInv, Types

\* plan_generation_ follows what the plan did.
LEMMA AdoptedStep ==
  ASSUME HandOverConstants, HandOverInv, Adopted
  PROVE  HandOverInv'
<1>1. /\ Works /\ cb.pc = "applied" /\ planAdopted' = cb.node.n
      /\ UNCHANGED <<transport, stream, jumpBase, engaged, seen, missed, playing, queued,
                     pending, handover, bank, snap, primedGen>>
  BY DEF Adopted, Works, sentVars, headVars
<1>0. Undisturbed
  BY <1>1, AtWork
<1>2. cb' \in CbStates /\ cb'.pc = "adopted" /\ cb'.node = cb.node
  BY DEF Adopted, HandOverInv, Types, CbStates
<1>3. /\ node.n \in Nat /\ planAdopted \in Nat /\ cb.node.n \in Nat
      /\ planAdopted < cb.node.n /\ cb.node.n <= node.n
  BY <1>1 DEF HandOverInv, Types, Loading, InHand, Nodes, CbStates
<1>4. /\ Landed' <=> Landed
      /\ Ahead' <=> Ahead
      /\ Taken' <=> Taken
      /\ Plainly' <=> Plainly
      /\ Unity' <=> Unity
      /\ InEffect' <=> InEffect
      /\ Named' <=> Named
      /\ InUse' <=> InUse
      /\ JumpPending' => JumpPending
  BY <1>1, <1>2, <1>3, <1>0
  DEF Undisturbed, Landed, Ahead, Taken, Plainly, Unity, InEffect, Named, InUse, Full, JumpPending
<1>5. Types'
  BY <1>1, <1>2, <1>3, <1>0 DEF Undisturbed, HandOverInv, Types, Given, Generations
<1>6. BankInHand'
  BY <1>1, <1>2, <1>0 DEF Undisturbed, HandOverInv, BankInHand, Full
<1>7. (Loading /\ Heads /\ Passing)'
  BY <1>1, <1>2, <1>4, <1>0
  DEF Undisturbed, HandOverInv, Loading, Heads, Passing, InHand, CarriesOn, AtHead
<1>8. Sounds'
  BY <1>1, <1>2, <1>4, <1>0 DEF Undisturbed, HandOverInv, Sounds, Judgement, JumpIsHeard, BankIsHeard
<1>9. (Slowed /\ Plained)'
  BY <1>4, <1>0 DEF Undisturbed, HandOverInv, Slowed, Plained
<1> QED BY <1>5, <1>6, <1>7, <1>8, <1>9, <1>0 DEF Undisturbed, HandOverInv

\* While nothing is being adopted, the head keeps its distance to the transport.
LEMMA DriftIs ==
  ASSUME HandOverInv, Undisturbed, ~InHand, ~InHand', jumpBase' = jumpBase,
         transport' \in Nat, stream' \in Nat, transport <= transport',
         stream' - transport' = stream - transport,
         Landed' <=> Landed, JumpPending' <=> JumpPending
  PROVE  Heads'
<1>1. transport \in Nat /\ stream \in Nat /\ jumpBase \in Nat
      /\ node.plan.frame \in Nat /\ node.plan.base \in Nat
      /\ op.plan.frame \in Nat /\ op.plan.base \in Nat
  BY DEF HandOverInv, Types, Nodes, Plans, Ops
<1>2. UNCHANGED <<node, op>>
  BY DEF Undisturbed
<1>3. \A f, b \in Nat : f - b = stream - transport => f - b = stream' - transport'
  OBVIOUS
<1>4. \A b \in Nat : b <= transport => b <= transport'
  <2>1. \A b, t, u \in Nat : b <= t /\ t <= u => b <= u
    OBVIOUS
  <2> QED BY <1>1, <2>1
<1>5. AtHead(node.plan) => AtHead(node.plan)'
  BY <1>1, <1>2, <1>3, <1>4 DEF AtHead
<1>6. AtHead(op.plan) => AtHead(op.plan)'
  BY <1>1, <1>2, <1>3, <1>4 DEF AtHead
<1>7. node.plan.frame - jumpBase = stream - transport /\ jumpBase <= transport =>
        (node.plan.frame - jumpBase = stream - transport /\ jumpBase <= transport)'
  BY <1>1, <1>2, <1>3, <1>4
<1>8. stream = transport => stream' = transport'
  <2>1. \A s, t, u, v \in Nat : u - v = s - t /\ s = t => u = v
    OBVIOUS
  <2> QED BY <1>1, <2>1
<1> QED BY <1>2, <1>5, <1>6, <1>7, <1>8 DEF HandOverInv, Heads, CarriesOn

\* A step that keeps the plans, the verdicts and the buses that sound, and plays
\* on if at all.
LEMMA PlayOn ==
  ASSUME HandOverConstants, HandOverInv, Works, cb.pc \in {"adopted", "mix"},
         cb' \in CbStates, cb'.node = cb.node, cb'.pc \in {"snapped", "mix", "between"},
         transport' \in Nat, stream' \in Nat, transport <= transport',
         stream' - transport' = stream - transport,
         playing' \in BOOLEAN, snap' \in [Slots -> Generations], Passing',
         UNCHANGED <<queued, jumpBase, planAdopted, engaged, seen, missed, pending, handover,
                     bank, primedGen>>
  PROVE  HandOverInv'
<1>0. Undisturbed
  BY AtWork
<1>2. /\ Landed' <=> Landed
      /\ Ahead' <=> Ahead
      /\ Taken' <=> Taken
      /\ Plainly' <=> Plainly
      /\ Unity' <=> Unity
      /\ InEffect' <=> InEffect
      /\ Named' <=> Named
      /\ InUse' <=> InUse
      /\ JumpPending' <=> JumpPending
  BY <1>0
  DEF Undisturbed, Landed, Ahead, Taken, Plainly, Unity, InEffect, Named, InUse, Full, JumpPending
<1>3. Types'
  BY <1>0 DEF Undisturbed, HandOverInv, Types, Given, Generations
<1>4. BankInHand'
  BY <1>0 DEF Undisturbed, HandOverInv, BankInHand, Full
<1>5. Loading'
  BY DEF Loading, InHand
<1>6. Heads'
  <2>1. ~InHand /\ ~InHand'
    BY DEF InHand
  <2> QED BY <1>2, <1>0, <2>1, DriftIs
<1>7. Sounds'
  BY <1>2, <1>0 DEF Undisturbed, HandOverInv, Sounds, Judgement, JumpIsHeard, BankIsHeard
<1>8. (Slowed /\ Plained)'
  BY <1>2, <1>0 DEF Undisturbed, HandOverInv, Slowed, Plained
<1> QED BY <1>3, <1>4, <1>5, <1>6, <1>7, <1>8, <1>0 DEF Undisturbed, HandOverInv

LEMMA SnapshotStep ==
  ASSUME HandOverConstants, HandOverInv, SnapshotBuses
  PROVE  HandOverInv'
<1>1. /\ Works /\ cb.pc = "adopted"
      /\ UNCHANGED <<transport, stream, jumpBase, planAdopted, engaged, seen, missed, playing,
                     queued, pending, handover, bank, primedGen>>
  BY DEF SnapshotBuses, Works, sentVars, headVars
<1>2. cb' \in CbStates /\ cb'.node = cb.node /\ cb'.pc \in {"snapped", "mix"}
  BY <1>1 DEF SnapshotBuses, HandOverInv, Types, CbStates
<1>3. snap' \in [Slots -> Generations]
  BY DEF SnapshotBuses, HandOverInv, Types
<1>4. transport \in Nat /\ stream \in Nat /\ playing \in BOOLEAN
  BY DEF HandOverInv, Types
<1>5. Passing'
  BY <1>1 DEF HandOverInv, Passing
<1> QED BY <1>1, <1>2, <1>3, <1>4, <1>5, PlayOn

LEMMA MixNothingStep ==
  ASSUME HandOverConstants, HandOverInv, MixNothing
  PROVE  HandOverInv'
<1>1. /\ Works /\ cb.pc = "mix"
      /\ UNCHANGED <<transport, stream, jumpBase, planAdopted, engaged, seen, missed, playing,
                     queued, pending, handover, bank, snap, primedGen>>
  BY DEF MixNothing, Mixes, Works, sentVars, headVars
<1>2. cb' \in CbStates /\ cb'.node = cb.node /\ cb'.pc = "between"
  BY <1>1 DEF MixNothing, Mixes, HandOverInv, Types, CbStates
<1>3. /\ transport \in Nat /\ stream \in Nat /\ playing \in BOOLEAN
      /\ snap' \in [Slots -> Generations]
  <2>1. nextGen' = nextGen
    BY <1>1 DEF Works, appVars
  <2> QED BY <1>1, <2>1 DEF HandOverInv, Types, Generations
<1>4. Passing'
  BY <1>1 DEF HandOverInv, Passing
<1> QED BY <1>1, <1>2, <1>3, <1>4, PlayOn

LEMMA AdvanceIs ==
  ASSUME HandOverConstants, NEW from \in Nat, NEW frames \in Nat
  PROVE  Advance(from, frames) \in 0..frames
BY DEF HandOverConstants, Advance, Later

LEMMA StretchTakeIs ==
  ASSUME NEW heard, NEW frames \in Nat
  PROVE  StretchTake(heard, frames) \in 0..frames
BY DEF StretchTake

\* A block plays on by what it took.
LEMMA MixStep ==
  ASSUME HandOverConstants, HandOverInv, Mixes, UNCHANGED appVars, UNCHANGED sentVars,
         NEW more \in Nat, stream' = stream + more, transport' = transport + more,
         pending => ~engaged /\ stream + more <= handover.frame,
         playing' \in BOOLEAN,
         UNCHANGED <<jumpBase, planAdopted, engaged, seen, missed, pending, handover, bank,
                     snap, primedGen>>
  PROVE  HandOverInv'
<1>1. /\ Works /\ cb.pc = "mix" /\ queued' = queued /\ nextGen' = nextGen
  BY DEF Mixes, Works, sentVars, appVars
<1>2. cb' \in CbStates /\ cb'.node = cb.node /\ cb'.pc = "between"
  BY <1>1 DEF Mixes, HandOverInv, Types, CbStates
<1>3. transport \in Nat /\ stream \in Nat /\ snap' \in [Slots -> Generations]
  BY <1>1 DEF HandOverInv, Types, Generations
<1>4. /\ transport' \in Nat /\ stream' \in Nat /\ transport <= transport'
      /\ stream' - transport' = stream - transport
  BY <1>3
<1>5. Passing'
  BY DEF Passing
<1> QED BY <1>1, <1>2, <1>3, <1>4, <1>5, PlayOn

LEMMA MixPlainStep ==
  ASSUME HandOverConstants, HandOverInv, MixPlain
  PROVE  HandOverInv'
<1>1. /\ Block \in Nat /\ stream \in Nat /\ handover.frame \in Nat
  BY DEF HandOverConstants, HandOverInv, Types, Plans
<1>2. PICK more \in 0..Block : more = Advance(stream, Block)
  BY <1>1, AdvanceIs
<1>3. pending => ~engaged /\ stream + more <= handover.frame
  BY <1>1, <1>2 DEF MixPlain, HandsOver, Into, HandOverInv, Passing
<1>4. /\ Mixes /\ UNCHANGED appVars /\ UNCHANGED sentVars
      /\ stream' = stream + more /\ transport' = transport + more
      /\ playing' \in BOOLEAN /\ more \in Nat
      /\ UNCHANGED <<jumpBase, planAdopted, engaged, seen, missed, pending, handover, bank,
                     snap, primedGen>>
  BY <1>1, <1>2 DEF MixPlain
<1> QED BY <1>3, <1>4, MixStep

LEMMA MixStretchedStep ==
  ASSUME HandOverConstants, HandOverInv, MixStretched
  PROVE  HandOverInv'
<1>1. Block \in Nat
  BY DEF HandOverConstants
<1>2. PICK more \in 0..Block : more = StretchTake(stream - Lag, Block)
  BY <1>1, StretchTakeIs
<1>3. ~pending
  BY DEF MixStretched, HandOverInv, Passing
<1>4. /\ Mixes /\ UNCHANGED appVars /\ UNCHANGED sentVars
      /\ stream' = stream + more /\ transport' = transport + more
      /\ playing' \in BOOLEAN /\ more \in Nat
      /\ UNCHANGED <<jumpBase, planAdopted, engaged, seen, missed, pending, handover, bank,
                     snap, primedGen>>
  BY <1>1, <1>2 DEF MixStretched
<1> QED BY <1>3, <1>4, MixStep

\* A bank full of its generation is whole.
LEMMA FullIsWhole ==
  ASSUME HandOverConstants, NEW b \in Banks, NEW gen \in Nat, gen > 0, Full(b, gen)
  PROVE  Whole(buses[b], gen)
BY DEF HandOverConstants, Full, Whole, Agree

\* The head after EngageAt is as far from the transport as the frame was.
LEMMA EngageAtIs ==
  ASSUME HandOverConstants, HandOverInv, NEW plan \in Plans, Given(plan),
         NEW head \in Nat, NEW from \in Nat, NEW rest \in Nat, NEW plain \in Nat,
         EngageAt(plan, head, from, rest, plain)
  PROVE  /\ stream' \in Nat /\ transport' \in Nat /\ from <= transport'
         /\ stream' - transport' = head - from
         /\ bank' = plan.bank /\ bank' \in Banks /\ snap' = buses[plan.bank]
         /\ snap' \in [Slots -> Generations]
         /\ engaged' \in BOOLEAN /\ primedGen' \in Generations
         /\ engaged' <=> Whole(buses[plan.bank], plan.gen)
         /\ engaged' => primedGen' = plan.gen
<1>1. plan.bank \in Banks /\ plan.gen \in Generations /\ Lag \in Nat
      /\ primedGen \in Generations /\ buses[plan.bank] \in [Slots -> Generations]
  BY DEF HandOverConstants, HandOverInv, Types, Plans, Given, Generations
<1>4. \A more \in Nat :
        /\ head + more \in Nat /\ from + more \in Nat /\ from <= from + more
        /\ (head + more) - (from + more) = head - from
  OBVIOUS
<1>5. head + Lag + rest = head + (Lag + rest) /\ from + Lag + rest = from + (Lag + rest)
      /\ Lag + rest \in Nat
  BY <1>1
<1>2. CASE Whole(buses[plan.bank], plan.gen)
  <2>1. /\ stream' = head + Lag + rest /\ transport' = from + Lag + rest
        /\ engaged' = TRUE /\ primedGen' = plan.gen
        /\ bank' = plan.bank /\ snap' = buses[plan.bank]
    BY <1>2 DEF EngageAt
  <2> QED BY <1>1, <1>2, <1>4, <1>5, <2>1
<1>3. CASE ~Whole(buses[plan.bank], plan.gen)
  <2>1. /\ stream' = head + plain /\ transport' = from + plain
        /\ engaged' = FALSE /\ primedGen' = primedGen
        /\ bank' = plan.bank /\ snap' = buses[plan.bank]
    BY <1>3 DEF EngageAt
  <2> QED BY <1>1, <1>3, <1>4, <2>1
<1> QED BY <1>2, <1>3

LEMMA MixHandOverStep ==
  ASSUME HandOverConstants, HandOverInv, MixHandOver
  PROVE  HandOverInv'
<1> DEFINE rest == StretchTake(handover.frame, Block - Into)
           more == Advance(handover.frame, Block - Into)
           plain == Advance(stream, Into)
<1>1. /\ Block \in Nat /\ stream \in Nat /\ transport \in Nat /\ jumpBase \in Nat
      /\ handover \in Plans /\ handover.frame \in Nat /\ Given(handover)
      /\ handover.bank \in Banks /\ handover.gen \in Nat
      /\ pending /\ ~engaged /\ Into \in 0..(Block - 1) /\ Mixes
  BY DEF HandOverConstants, HandOverInv, Types, Plans, MixHandOver, HandsOver
<1>2. Into \in Nat /\ Block - Into \in Nat
  BY <1>1
<1>3. plain \in 0..Into /\ rest \in Nat /\ more \in Nat
  <2>1. plain \in 0..Into /\ more \in 0..(Block - Into)
    BY <1>1, <1>2, AdvanceIs
  <2>2. rest \in 0..(Block - Into)
    BY <1>2, StretchTakeIs
  <2> QED BY <1>2, <2>1, <2>2
<1> HIDE DEF rest, more, plain
<1>4. CASE plain # Into
  <2>1. /\ stream' = stream + plain /\ transport' = transport + plain
        /\ playing' = (plain # 0)
        /\ UNCHANGED appVars /\ UNCHANGED sentVars
        /\ UNCHANGED <<jumpBase, planAdopted, engaged, seen, missed, pending, handover, bank,
                       snap, primedGen>>
    BY <1>4 DEF MixHandOver, plain
  <2>2. stream + plain <= handover.frame
    BY <1>1, <1>2, <1>3 DEF Into
  <2>3. plain \in Nat /\ playing' \in BOOLEAN
    BY <1>2, <1>3, <2>1
  <2> QED BY <1>1, <2>1, <2>2, <2>3, MixStep
<1>5. CASE plain = Into
  <2>1. /\ EngageAt(handover, handover.frame, transport + Into, rest, more)
        /\ pending' = FALSE /\ playing' = (more # 0)
        /\ UNCHANGED appVars /\ UNCHANGED sentVars
        /\ UNCHANGED <<jumpBase, planAdopted, seen, missed, handover>>
    BY <1>5 DEF MixHandOver, plain, rest, more
  <2>2. transport + Into \in Nat
    BY <1>1, <1>2
  <2>3. /\ stream' \in Nat /\ transport' \in Nat /\ transport + Into <= transport'
        /\ stream' - transport' = handover.frame - (transport + Into)
        /\ bank' = handover.bank /\ bank' \in Banks
        /\ snap' \in [Slots -> Generations]
        /\ engaged' \in BOOLEAN /\ primedGen' \in Generations
        /\ engaged' <=> Whole(buses[handover.bank], handover.gen)
        /\ engaged' => primedGen' = handover.gen
    BY <1>1, <1>3, <2>1, <2>2, EngageAtIs
  <2>4. transport <= transport' /\ stream' - transport' = stream - transport
    BY <1>1, <1>2, <2>3 DEF Into
  <2>5. /\ cb' \in CbStates /\ cb'.node = cb.node /\ cb.pc = "mix" /\ cb'.pc = "between"
    BY <1>1 DEF Mixes, HandOverInv, Types, CbStates
  <2>6. Works /\ queued' = queued
    BY <2>1 DEF Works, sentVars
  <2>0. Undisturbed
    BY <2>6, AtWork
  <2>7. /\ Landed' <=> Landed
        /\ Ahead' <=> Ahead
        /\ Taken' <=> Taken
        /\ JumpPending' <=> JumpPending
    BY <2>0, <2>1, <2>5 DEF Undisturbed, Landed, Ahead, Taken, JumpPending
  <2>8. (Types /\ BankInHand)'
    <3>1. (Given(op.plan) /\ Given(node.plan) /\ Given(cb.node.plan) /\ Given(handover))'
      BY <2>0, <2>1, <2>5 DEF Undisturbed, HandOverInv, Types, Given
    <3>2. /\ playing' \in BOOLEAN /\ pending' \in BOOLEAN /\ Generations' = Generations
          /\ jumpBase' \in Nat /\ handover' \in Plans
          /\ seen' \in Generations /\ missed' \in Generations
      BY <1>1, <2>0, <2>1 DEF Undisturbed, HandOverInv, Types, Generations
    <3>3. Types'
      BY <2>0, <2>1, <2>3, <2>5, <2>6, <3>1, <3>2 DEF Undisturbed, HandOverInv, Types
    <3>4. BankInHand'
      BY <2>0, <2>1, <2>5 DEF Undisturbed, HandOverInv, BankInHand, Full
    <3> QED BY <3>3, <3>4
  <2>9. (Loading /\ Heads /\ Passing)'
    <3>1. ~InHand /\ ~InHand'
      BY <2>5 DEF InHand
    <3>2. Heads'
      BY <2>0, <2>1, <2>3, <2>4, <2>7, <3>1, DriftIs
    <3> QED BY <2>1, <3>1, <3>2 DEF Loading, Passing
  <2>10. InUse => engaged' /\ InUse'
    <3>1. InUse => /\ handover.bank = appBank /\ handover.gen > 0
                   /\ Full(handover.bank, handover.gen)
      BY <1>1 DEF InUse
    <3>2. InUse => engaged' /\ primedGen' = handover.gen /\ bank' = appBank
      BY <1>1, <2>3, <3>1, FullIsWhole
    <3> QED BY <2>0, <2>1, <3>1, <3>2 DEF InUse, Full, Undisturbed
  <2>11. Named /\ node.plan.primed /\ Full(node.plan.bank, node.plan.gen) =>
           engaged' /\ Named'
    <3>1. SUFFICES ASSUME Named, node.plan.primed, Full(node.plan.bank, node.plan.gen)
                   PROVE  engaged' /\ Named'
      OBVIOUS
    <3>2. handover = node.plan /\ handover.gen > 0
      BY <1>1, <3>1 DEF Named, Given
    <3>3. engaged' /\ primedGen' = handover.gen /\ bank' = handover.bank
      BY <1>1, <2>3, <3>1, <3>2, FullIsWhole
    <3> QED BY <2>0, <2>1, <3>2, <3>3 DEF Named, Undisturbed
  <2>12. op.pc \in {"await", "adoptBank"} => /\ node.plan.primed
                                             /\ Full(node.plan.bank, node.plan.gen)
    BY DEF HandOverInv, PlanIsOut, Sounds, NamedIsWhole
  <2>13. Sounds'
    <3>1. Judgement'
      BY <2>0, <2>1, <2>5, <2>7 DEF Undisturbed, HandOverInv, Sounds, Judgement
    <3>2. JumpIsHeard'
      BY <1>1, <2>0, <2>7 DEF Undisturbed, HandOverInv, Sounds, JumpIsHeard
    <3>3. BankIsHeard'
      BY <2>0, <2>7, <2>10, <2>11, <2>12 DEF Undisturbed, HandOverInv, Sounds, BankIsHeard
    <3> QED BY <2>0, <3>1, <3>2, <3>3 DEF Undisturbed, Sounds
  <2>14. (Slowed /\ Plained)'
    <3>1. mishaps \subseteq {"stalled"} => Clean
      BY DEF Clean
    <3>2. Clean /\ op.pc = "idle" /\ node.plan.kind # "jump" => engaged'
      BY <2>10 DEF HandOverInv, Sounds, BankIsHeard, Ahead, Quiet
    <3>3. Slowed'
      BY <2>0, <3>1, <3>2 DEF Undisturbed, HandOverInv, Slowed, InEffect
    <3>4. Plained'
      BY <1>1, <2>0, <2>7 DEF Undisturbed, HandOverInv, Plained, Unity, Plainly
    <3> QED BY <3>3, <3>4
  <2> QED BY <2>0, <2>8, <2>9, <2>13, <2>14 DEF Undisturbed, HandOverInv
<1> QED BY <1>4, <1>5

\* A plan is adopted that was not: the newest, or an older one.
Adopting ==
  /\ Works /\ cb.pc = "loaded"
  /\ UNCHANGED <<queued, planAdopted, playing>>
  /\ cb' \in CbStates /\ cb'.node = cb.node /\ cb'.pc = "applied"
  /\ node \in Nodes /\ node.n \in Nat /\ node.n # 0 /\ node.plan \in Plans
  /\ cb.node.plan \in Plans /\ Given(cb.node.plan)
  /\ cb.node.plan.kind \in {"keep", "jump", "handOver"}
  /\ cb.node.n = node.n => cb.node.plan = node.plan
  /\ cb.node.plan.kind = "jump" => node.plan.kind = "jump"
  /\ cb.node.plan.kind = "keep" => cb.node.plan.base <= transport
  /\ ~Landed
  /\ Landed' <=> cb.node.n = node.n
  /\ JumpPending <=> node.plan.kind = "jump"
  /\ JumpPending' <=> JumpPending
  /\ Ahead <=> node.plan.kind = "jump"
  /\ Ahead' <=> node.plan.kind = "jump" /\ cb.node.n # node.n

LEMMA AdoptingIs == ASSUME HandOverInv, Adopt PROVE Adopting
<1>1. /\ Works /\ cb.pc = "loaded" /\ UNCHANGED <<node, queued, planAdopted, playing>>
  BY DEF Adopt, Works, sentVars
<1>2. /\ cb \in CbStates /\ cb' \in CbStates /\ cb'.node = cb.node /\ cb'.pc = "applied"
  BY DEF Adopt, HandOverInv, Types, CbStates
<1>3. /\ node \in Nodes /\ node.n \in Nat /\ node.plan \in Plans /\ planAdopted \in Nat
      /\ cb.node.n \in Nat /\ cb.node.plan \in Plans /\ Given(cb.node.plan)
  BY <1>2 DEF HandOverInv, Types, Nodes, CbStates
<1>4. /\ planAdopted < cb.node.n /\ cb.node.n <= node.n /\ cb.node.plan.kind # "none"
      /\ cb.node.n = node.n => cb.node.plan = node.plan
      /\ cb.node.plan.kind = "jump" => node.plan.kind = "jump"
      /\ cb.node.plan.kind = "keep" => cb.node.plan.base <= transport
  BY <1>1 DEF HandOverInv, Loading, InHand
<1>5. planAdopted # node.n /\ node.n # 0
  BY <1>3, <1>4
<1>6. cb.node.plan.kind \in {"keep", "jump", "handOver"}
  BY <1>3, <1>4 DEF Plans
<1>7. /\ ~Landed /\ (Landed' <=> cb.node.n = node.n)
      /\ (JumpPending <=> node.plan.kind = "jump") /\ (JumpPending' <=> JumpPending)
      /\ (Ahead <=> node.plan.kind = "jump")
      /\ (Ahead' <=> node.plan.kind = "jump" /\ cb.node.n # node.n)
  BY <1>1, <1>2, <1>5 DEF Landed, JumpPending, Ahead
<1> QED BY <1>1, <1>2, <1>3, <1>4, <1>5, <1>6, <1>7 DEF Adopting

\* The types, and the bank a call has in hand, survive an adoption.
LEMMA AdoptedTypes ==
  ASSUME HandOverInv, Adopting, Undisturbed, transport <= transport',
         transport' \in Nat, stream' \in Nat, jumpBase' \in Nat,
         engaged' \in BOOLEAN, pending' \in BOOLEAN,
         seen' \in {seen, cb.node.plan.gen}, missed' \in {missed, cb.node.plan.gen},
         primedGen' \in Generations, handover' \in {handover, cb.node.plan},
         bank' \in Banks, snap' \in [Slots -> Generations]
  PROVE  (Types /\ BankInHand /\ Loading)'
<1>1. Types'
  <2>1. (Given(op.plan) /\ Given(node.plan) /\ Given(cb.node.plan) /\ Given(handover))'
    BY DEF Adopting, Undisturbed, HandOverInv, Types, Given
  <2>2. cb.node.plan.gen \in Generations /\ Generations' = Generations
    BY DEF Adopting, Undisturbed, HandOverInv, Types, Given, Generations, Plans
  <2>3. handover' \in Plans /\ seen' \in Generations /\ missed' \in Generations
    BY <2>2 DEF Adopting, HandOverInv, Types
  <2> QED BY <2>1, <2>2, <2>3 DEF Adopting, Undisturbed, HandOverInv, Types
<1>2. BankInHand'
  BY DEF Adopting, Undisturbed, HandOverInv, BankInHand, Full
<1>3. Loading'
  <2>1. transport \in Nat /\ cb.node.plan.base \in Nat
    BY DEF Adopting, HandOverInv, Types, Plans
  <2>2. cb.node.plan.kind = "keep" => cb.node.plan.base <= transport'
    BY <2>1 DEF Adopting
  <2>3. InHand /\ node' = node /\ planAdopted' = planAdopted /\ cb'.node = cb.node
    BY DEF Adopting, Undisturbed, InHand
  <2> QED BY <2>2, <2>3 DEF HandOverInv, Loading
<1> QED BY <1>1, <1>2, <1>3

\* Unless a jump replaces it, a hand-over is judged while its call waits, or has
\* given it up.
LEMMA JudgedWhen ==
  ASSUME HandOverInv, Adopting, Clean, node.plan.kind = "handOver"
  PROVE  /\ op.pc = "await" \/ op.stalled
         /\ ~Quiet /\ op.pc # "idle" /\ op.pc \notin {"freeMissed", "adoptBank"}
<1>1. op.pc = "await" \/ op.stalled
  BY DEF Adopting, HandOverInv, Sounds, Judgement
<1>2. op.stalled => op.pc \in {"stage", "publishBank", "publishPlan", "adoptBank",
                               "retract", "freeRetracted"}
  BY DEF HandOverInv, Stalls
<1>3. op.stalled => op.pc # "adoptBank"
  BY DEF HandOverInv, Stalls, PlanIsOut
<1> QED BY <1>1, <1>2, <1>3 DEF Quiet

LEMMA JudgeStep ==
  ASSUME HandOverConstants, HandOverInv, Adopt, cb.node.plan.kind = "handOver"
  PROVE  HandOverInv'
<1> DEFINE p == cb.node.plan
           takes == ~engaged /\ stream <= p.frame
<1>1. Adopting
  BY AdoptingIs
<1>0. Undisturbed
  BY <1>1, AtWork DEF Adopting
<1>2. /\ pending' = takes
      /\ handover' = IF takes THEN p ELSE handover
      /\ missed' = IF takes THEN missed ELSE p.gen
      /\ seen' = p.gen
      /\ UNCHANGED <<engaged, bank, snap, primedGen, transport, stream, jumpBase>>
  BY DEF Adopt, JudgeHandOver, headVars
<1>3. (Types /\ BankInHand /\ Loading)'
  <2>1. /\ transport \in Nat /\ stream \in Nat /\ jumpBase \in Nat /\ engaged \in BOOLEAN
        /\ bank \in Banks /\ snap \in [Slots -> Generations] /\ primedGen \in Generations
        /\ transport <= transport
    BY DEF HandOverInv, Types
  <2>2. pending' \in BOOLEAN
    BY <1>2
  <2> QED BY <1>1, <1>0, <1>2, <2>1, <2>2, AdoptedTypes
<1>4. (Heads /\ Passing)'
  <2>1. Heads'
    BY <1>1, <1>0, <1>2
    DEF Adopting, Undisturbed, HandOverInv, Heads, InHand, CarriesOn, AtHead
  <2>2. Passing'
    BY <1>2 DEF Passing
  <2> QED BY <2>1, <2>2
<1>5. Clean /\ node.plan.kind # "jump" => /\ p = node.plan /\ node.plan.kind = "handOver"
                                          /\ cb.node.n = node.n
  BY <1>1 DEF Adopting, HandOverInv, Sounds, Judgement
<1>6. Clean /\ op.pc = "await" =>
        /\ p = node.plan /\ cb.node.n = node.n
        /\ ~Taken /\ missed < p.gen /\ p.gen \in Nat /\ missed \in Nat
        /\ Taken' <=> takes
  <2>1. SUFFICES ASSUME Clean, op.pc = "await"
                 PROVE  /\ p = node.plan /\ cb.node.n = node.n
                        /\ ~Taken /\ missed < p.gen /\ p.gen \in Nat /\ missed \in Nat
                        /\ Taken' <=> takes
    OBVIOUS
  <2>2. p = node.plan /\ cb.node.n = node.n
    BY <1>5, <2>1 DEF HandOverInv, PlanIsOut
  <2>3. /\ seen <= node.plan.gen /\ seen # node.plan.gen
        /\ seen < node.plan.gen => missed < node.plan.gen
    BY <1>1, <2>1 DEF Adopting, HandOverInv, Sounds, Judgement
  <2>4. seen \in Nat /\ missed \in Nat /\ node.plan.gen \in Nat
    BY <1>1 DEF Adopting, Plans, HandOverInv, Types, Generations
  <2>5. ~Taken /\ missed < node.plan.gen
    BY <2>3, <2>4 DEF Taken
  <2>6. node' = node
    BY <1>0 DEF Undisturbed
  <2>7. Taken' <=> takes
    BY <1>2, <2>2, <2>4, <2>5, <2>6 DEF Taken
  <2> QED BY <2>2, <2>4, <2>5, <2>7
<1>7. Clean /\ ~Ahead' => p = node.plan /\ node.plan.kind = "handOver" /\ ~Ahead
  BY <1>1, <1>5 DEF Adopting
<1>8. Sounds'
  <2>1. Judgement'
    <3>1. Clean /\ node.plan.kind # "jump" => op.pc # "freeMissed"
      BY <1>1, <1>5, JudgedWhen
    <3>2. op.pc = "freeMissed" => node.plan.kind = "handOver"
      BY DEF HandOverInv, PlanIsOut
    <3>3. Clean /\ op.pc = "await" =>
            /\ seen' = node.plan.gen /\ Landed' /\ seen' <= node.plan.gen
            /\ missed' = node.plan.gen => ~pending'
      <4>1. Clean /\ op.pc = "await" =>
              seen' = node.plan.gen /\ Landed' /\ seen' <= node.plan.gen
        BY <1>1, <1>2, <1>6 DEF Adopting
      <4>2. Clean /\ op.pc = "await" => (missed' = node.plan.gen => ~takes)
        BY <1>2, <1>6
      <4>3. pending' => takes
        BY <1>2
      <4> QED BY <4>1, <4>2, <4>3
    <3>4. node' = node /\ op' = op /\ (Clean' <=> Clean) /\ cb'.pc = "applied"
      BY <1>1, <1>0 DEF Adopting, Undisturbed
    <3>5. Clean /\ node.plan.kind = "handOver" /\ op.pc # "await" /\ ~op.stalled =>
            FALSE
      BY <1>1, JudgedWhen
    <3>6. seen' < node.plan.gen => seen' # node.plan.gen
      BY <1>1, <1>2 DEF Adopting, Plans
    <3> QED BY <3>1, <3>2, <3>3, <3>4, <3>5, <3>6 DEF Judgement
  <2>2. JumpIsHeard'
    BY <1>1, <1>0 DEF Adopting, Undisturbed, JumpIsHeard
  <2>3. BankIsHeard'
    <3>1. SUFFICES ASSUME Clean, ~Ahead'
                   PROVE  /\ ~Quiet /\ op.pc # "adoptBank"
                          /\ op.pc = "await" => IF Taken' THEN Named' ELSE InUse'
      BY <1>0 DEF BankIsHeard, Undisturbed
    <3>2. ~Quiet /\ op.pc # "adoptBank"
      BY <1>1, <1>7, <3>1, JudgedWhen
    <3>3. CASE op.pc = "await"
      <4>1. InUse
        BY <1>6, <1>7, <3>1, <3>3 DEF HandOverInv, Sounds, BankIsHeard
      <4>2. ASSUME takes PROVE Named'
        <5>1. pending' /\ ~engaged' /\ handover' = p
          BY <1>2, <4>2
        <5> QED BY <1>0, <1>6, <3>1, <3>3, <5>1 DEF Undisturbed, Named
      <4>3. ASSUME ~takes PROVE InUse'
        <5>1. ~pending' /\ UNCHANGED <<engaged, bank, primedGen>>
          BY <1>2, <4>3
        <5> QED BY <1>0, <4>1, <5>1 DEF Undisturbed, InUse, Full
      <4>4. Taken' <=> takes
        BY <1>6, <3>1, <3>3
      <4> QED BY <3>2, <4>2, <4>3, <4>4
    <3> HIDE DEF takes
    <3> QED BY <3>2, <3>3
  <2> QED BY <1>0, <2>1, <2>2, <2>3 DEF Undisturbed, Sounds
<1>9. (Slowed /\ Plained)'
  <2>1. mishaps \subseteq {"stalled"} => Clean
    BY DEF Clean
  <2>2. Clean /\ node.plan.kind # "jump" => op.pc # "idle" /\ ~Quiet
    BY <1>1, <1>5, JudgedWhen
  <2>3. Slowed'
    BY <1>0, <2>1, <2>2 DEF Undisturbed, HandOverInv, Slowed, InEffect
  <2>4. Clean /\ op.pc = "await" /\ ~Taken' => pending' = FALSE
    BY <1>2, <1>6
  <2>5. Plained'
    BY <1>0, <1>2, <1>6, <2>2, <2>4 DEF Undisturbed, HandOverInv, Plained, Unity, Plainly
  <2> QED BY <2>3, <2>5
<1> QED BY <1>0, <1>3, <1>4, <1>8, <1>9 DEF Undisturbed, HandOverInv

LEMMA KeepStep ==
  ASSUME HandOverConstants, HandOverInv, Adopt, cb.node.plan.kind = "keep"
  PROVE  HandOverInv'
<1> DEFINE p == cb.node.plan
<1>1. Adopting
  BY AdoptingIs
<1>0. Undisturbed
  BY <1>1, AtWork DEF Adopting
<1>2. /\ pending' = FALSE
      /\ stream' = p.frame + Later(transport - p.base, 0)
      /\ UNCHANGED <<engaged, bank, snap, primedGen, transport, jumpBase, handover, seen,
                     missed>>
  BY DEF Adopt, AdoptTransport
<1>3. /\ transport \in Nat /\ stream \in Nat /\ jumpBase \in Nat /\ engaged \in BOOLEAN
      /\ bank \in Banks /\ snap \in [Slots -> Generations] /\ primedGen \in Generations
      /\ transport <= transport /\ p.frame \in Nat /\ p.base \in Nat /\ p.base <= transport
  BY <1>1 DEF HandOverInv, Types, Adopting, Plans
<1>4. stream' = p.frame + (transport - p.base) /\ stream' \in Nat
  BY <1>2, <1>3 DEF Later
<1>5. (Types /\ BankInHand /\ Loading)'
  <2>1. pending' \in BOOLEAN
    BY <1>2
  <2> QED BY <1>1, <1>0, <1>2, <1>3, <1>4, <2>1, AdoptedTypes
<1>6. node.plan.kind # "jump" => stream' = stream
  <2>1. node.plan.kind # "jump" => p.frame - p.base = stream - transport
    BY <1>1 DEF Adopting, HandOverInv, Heads, InHand, CarriesOn, AtHead
  <2> QED BY <1>3, <1>4, <2>1
<1>7. (Heads /\ Passing)'
  <2>1. CASE node.plan.kind = "jump"
    BY <1>1, <1>0, <1>2, <2>1
    DEF Adopting, Undisturbed, HandOverInv, Heads, InHand, CarriesOn, AtHead, Passing
  <2>2. CASE node.plan.kind # "jump"
    BY <1>1, <1>0, <1>2, <1>6, <2>2
    DEF Adopting, Undisturbed, HandOverInv, Heads, InHand, CarriesOn, AtHead, Passing
  <2> QED BY <2>1, <2>2
<1>8. /\ Taken' <=> Taken
      /\ Clean /\ op.pc = "await" => ~Taken
      /\ Landed' => node.plan.kind = "keep"
      /\ ~Ahead' => ~Ahead
      /\ InUse => InUse'
  <2>1. op.pc = "await" => node.plan.kind = "handOver"
    BY DEF HandOverInv, PlanIsOut
  <2> QED BY <1>1, <1>0, <1>2, <2>1
      DEF Adopting, Undisturbed, Taken, InUse, Full, HandOverInv, Sounds, Judgement
<1>9. Clean /\ ~Ahead => op.pc # "adoptBank"
  <2>1. op.pc = "adoptBank" => node.plan.kind \in {"jump", "handOver"}
    BY DEF HandOverInv, PlanIsOut
  <2> QED BY <1>1, <2>1, JudgedWhen DEF Adopting
<1>10. Sounds'
  <2>1. Judgement'
    <3>1. Clean /\ node.plan.kind = "handOver" => op.pc = "await" \/ op.stalled
      BY <1>1, JudgedWhen
    <3>2. op.pc = "await" => node.plan.kind = "handOver"
      BY DEF HandOverInv, PlanIsOut
    <3> QED BY <1>1, <1>0, <1>2, <1>8, <3>1, <3>2
        DEF Adopting, Undisturbed, HandOverInv, Sounds, Judgement
  <2>2. JumpIsHeard'
    BY <1>0, <1>8 DEF Undisturbed, JumpIsHeard
  <2>3. BankIsHeard'
    BY <1>0, <1>8, <1>9 DEF Undisturbed, HandOverInv, Sounds, BankIsHeard
  <2> QED BY <1>0, <2>1, <2>2, <2>3 DEF Undisturbed, Sounds
<1>11. (Slowed /\ Plained)'
  <2>1. mishaps \subseteq {"stalled"} => Clean
    BY DEF Clean
  <2>2. Clean /\ node.plan.kind = "handOver" => op.pc # "idle"
    BY <1>1, JudgedWhen
  <2>3. Slowed'
    BY <1>0, <1>2, <2>1, <2>2 DEF Undisturbed, HandOverInv, Slowed, InEffect
  <2>4. Plained'
    BY <1>0, <1>2, <1>8 DEF Undisturbed, HandOverInv, Plained, Unity, Plainly
  <2> QED BY <2>3, <2>4
<1> QED BY <1>0, <1>5, <1>7, <1>10, <1>11 DEF Undisturbed, HandOverInv

LEMMA JumpedStep ==
  ASSUME HandOverConstants, HandOverInv, Adopt, cb.node.plan.kind = "jump"
  PROVE  HandOverInv'
<1> DEFINE p == cb.node.plan
<1>1. Adopting
  BY AdoptingIs
<1>0. Undisturbed
  BY <1>1, AtWork DEF Adopting
<1>2. /\ pending' = FALSE /\ jumpBase' = transport
      /\ UNCHANGED <<handover, seen, missed>>
      /\ p \in Plans /\ Given(p) /\ p.frame \in Nat /\ p.bank \in Banks /\ p.gen \in Nat
      /\ transport \in Nat /\ node.plan.kind = "jump"
  BY <1>1 DEF Adopt, AdoptTransport, Adopting, Plans, HandOverInv, Types
<1>3. /\ stream' \in Nat /\ transport' \in Nat /\ transport <= transport'
      /\ stream' - transport' = p.frame - transport
      /\ bank' \in Banks /\ snap' \in [Slots -> Generations]
      /\ engaged' \in BOOLEAN /\ primedGen' \in Generations
      /\ p.primed => /\ bank' = p.bank
                     /\ engaged' <=> Whole(buses[p.bank], p.gen)
                     /\ engaged' => primedGen' = p.gen
      /\ ~p.primed => ~engaged'
  <2>1. CASE p.primed
    <3>1. EngageAt(p, p.frame, transport, 0, 0)
      BY <1>2, <2>1 DEF Adopt, AdoptTransport
    <3> QED BY <1>2, <2>1, <3>1, EngageAtIs
  <2>2. CASE ~p.primed
    <3>1. /\ stream' = p.frame /\ engaged' = FALSE
          /\ UNCHANGED <<transport, bank, snap, primedGen>>
      BY <1>2, <2>2 DEF Adopt, AdoptTransport
    <3>2. /\ stream' \in Nat /\ transport' \in Nat /\ transport <= transport'
          /\ stream' - transport' = p.frame - transport
      BY <1>2, <3>1
    <3>3. /\ bank' \in Banks /\ snap' \in [Slots -> Generations]
          /\ primedGen' \in Generations
      BY <3>1 DEF HandOverInv, Types
    <3> QED BY <2>2, <3>1, <3>2, <3>3
  <2> QED BY <2>1, <2>2
<1>4. (Types /\ BankInHand /\ Loading)'
  <2>1. pending' \in BOOLEAN /\ jumpBase' \in Nat
    BY <1>2
  <2> QED BY <1>1, <1>0, <1>2, <1>3, <2>1, AdoptedTypes
<1>5. (Heads /\ Passing)'
  <2>1. /\ UNCHANGED <<node, op>> /\ node.plan.kind = "jump" /\ node.n # 0
        /\ JumpPending' /\ (Landed' => p = node.plan)
    BY <1>1, <1>0, <1>2 DEF Adopting, Undisturbed
  <2>2. (node.plan.kind = "jump" /\ Landed =>
           jumpBase <= transport /\ node.plan.frame - jumpBase = stream - transport)'
    BY <1>2, <1>3, <2>1
  <2>3. Heads'
    <3>1. op.pc \in {"plain", "publishPlan", "publishBank"} => ~CarriesOn(op.plan)
      BY <1>1, <2>1 DEF Adopting, HandOverInv, Heads
    <3> QED BY <2>1, <2>2, <3>1 DEF Heads, CarriesOn
  <2> QED BY <1>2, <2>3 DEF Passing
<1>6. op.pc \notin {"await", "freeMissed", "kept", "freeRetracted"}
  BY <1>2 DEF HandOverInv, PlanIsOut
<1>7. Landed' => p = node.plan
  BY <1>1 DEF Adopting
<1>8. Landed' /\ node.plan.primed =>
        /\ engaged' /\ bank' = node.plan.bank /\ primedGen' = node.plan.gen
        /\ Full(node.plan.bank, node.plan.gen)
        /\ op.pc # "adoptBank" => node.plan.bank = appBank
  <2>1. node.plan.primed => /\ Full(node.plan.bank, node.plan.gen)
                            /\ op.pc # "adoptBank" => node.plan.bank = appBank
    BY <1>2 DEF HandOverInv, Sounds, NamedIsWhole
  <2>2. p.primed => p.gen > 0
    BY <1>2 DEF Given
  <2> QED BY <1>2, <1>3, <1>7, <2>1, <2>2, FullIsWhole
<1>9. Sounds'
  <2>1. Judgement'
    BY <1>1, <1>0, <1>2, <1>6 DEF Adopting, Undisturbed, Judgement
  <2>2. JumpIsHeard'
    BY <1>0, <1>2, <1>3, <1>7, <1>8 DEF Undisturbed, JumpIsHeard
  <2>3. (Clean /\ ~Ahead)' => Landed'
    BY <1>0, <1>2 DEF Undisturbed, Ahead
  <2>4. Landed' /\ op.pc # "adoptBank" => InUse'
    <3>1. Landed' /\ engaged' => node.plan.primed
      BY <1>3, <1>7
    <3> QED BY <1>0, <1>2, <1>8, <3>1 DEF Undisturbed, InUse, Full
  <2>5. Landed' /\ op.pc = "adoptBank" => Named'
    <3>1. op.pc = "adoptBank" => node.plan.primed
      BY DEF HandOverInv, PlanIsOut
    <3> QED BY <1>0, <1>2, <1>8, <3>1 DEF Undisturbed, Named
  <2>6. Quiet => op.pc # "adoptBank"
    BY DEF Quiet
  <2>7. BankIsHeard'
    BY <1>0, <1>6, <2>3, <2>4, <2>5, <2>6 DEF Undisturbed, BankIsHeard
  <2> QED BY <1>0, <2>1, <2>2, <2>7 DEF Undisturbed, Sounds
<1>10. (Slowed /\ Plained)'
  BY <1>0, <1>2, <1>6 DEF Undisturbed, HandOverInv, Slowed, InEffect, Plained, Unity
<1> QED BY <1>0, <1>4, <1>5, <1>9, <1>10 DEF Undisturbed, HandOverInv

LEMMA AdoptStep ==
  ASSUME HandOverConstants, HandOverInv, Adopt
  PROVE  HandOverInv'
<1>1. cb.node.plan.kind \in {"keep", "jump", "handOver"}
  BY AdoptingIs DEF Adopting
<1> QED BY <1>1, JudgeStep, KeepStep, JumpedStep

-----------------------------------------------------------------------------

LEMMA AppStepInv ==
  ASSUME HandOverConstants, HandOverInv, AppStep
  PROVE  HandOverInv'
<1>1. CASE PlayCall \/ PauseCall
  BY <1>1, PlayStep
<1>2. CASE StopCall \/ \E frame \in {0, Longest} : SeekCall(frame)
  BY <1>2, JumpStep
<1>3. CASE LoopCall
  BY <1>3, LoopStep
<1>4. CASE \E rate \in {"unity", "slow"} : SetRate(rate)
  BY <1>4, SetRateStep
<1>5. CASE StagePlain \/ PrimeNow \/ TryHandOver \/ StagePrimed
  BY <1>5, StagePlainStep, PrimeNowStep, TryHandOverStep, StagePrimedStep
<1>6. CASE \E s \in Slots : PublishBank(s)
  BY <1>6, PublishBankStep
<1>7. CASE PublishPlan \/ PrimeAwaitingEngage \/ Verdict \/ VerdictTimesOut \/ Retract
  BY <1>7, PublishPlanStep, KeptStep, VerdictStep, TimeOutStep, RetractStep
<1>8. CASE \E s \in Slots : AdoptBank(s) \/ FreeMissed(s) \/ FreeAll(s) \/ FreeRetracted(s)
  BY <1>8, AdoptBankStep, FreeMissedStep, FreeAllStep, FreeRetractedStep
<1> QED BY <1>1, <1>2, <1>3, <1>4, <1>5, <1>6, <1>7, <1>8 DEF AppStep

LEMMA CallbackInv ==
  ASSUME HandOverConstants, HandOverInv, Callback
  PROVE  HandOverInv'
BY BlockBeginsStep, AdoptStep, AdoptedStep, SnapshotStep, AdoptAgainStep, MixNothingStep,
   MixPlainStep, MixStretchedStep, MixHandOverStep
DEF Callback

LEMMA StutterInv ==
  ASSUME HandOverInv, UNCHANGED handOverVars
  PROVE  HandOverInv'
<1>1. Works /\ UNCHANGED <<queued, headVars, cbVars>>
  BY DEF handOverVars, Works, sentVars
<1>2. UNCHANGED <<transport, stream, jumpBase, planAdopted, engaged, seen, missed, cb, playing,
                  pending, handover, bank, snap, primedGen>>
  BY <1>1 DEF headVars, cbVars
<1>0. Undisturbed
  BY <1>1, AtWork
<1>3. /\ Landed' <=> Landed
      /\ Ahead' <=> Ahead
      /\ Taken' <=> Taken
      /\ Plainly' <=> Plainly
      /\ Unity' <=> Unity
      /\ InEffect' <=> InEffect
      /\ Named' <=> Named
      /\ InUse' <=> InUse
      /\ JumpPending' <=> JumpPending
  BY <1>0, <1>2
  DEF Undisturbed, Landed, Ahead, Taken, Plainly, Unity, InEffect, Named, InUse, Full,
      JumpPending
<1>4. Types'
  BY <1>0, <1>1, <1>2 DEF Undisturbed, HandOverInv, Types, Given, Generations
<1>5. BankInHand'
  BY <1>0, <1>2 DEF Undisturbed, HandOverInv, BankInHand, Full
<1>6. (Loading /\ Heads /\ Passing)'
  BY <1>0, <1>2, <1>3
  DEF Undisturbed, HandOverInv, Loading, Heads, Passing, InHand, CarriesOn, AtHead
<1>7. Sounds'
  BY <1>0, <1>2, <1>3 DEF Undisturbed, HandOverInv, Sounds, Judgement, JumpIsHeard, BankIsHeard
<1>8. (Slowed /\ Plained)'
  BY <1>0, <1>3 DEF Undisturbed, HandOverInv, Slowed, Plained
<1> QED BY <1>0, <1>4, <1>5, <1>6, <1>7, <1>8 DEF Undisturbed, HandOverInv

LEMMA StepInv ==
  ASSUME HandOverConstants, HandOverInv, [HandOverNext]_handOverVars
  PROVE  HandOverInv'
BY AppStepInv, CallbackInv, StutterInv DEF HandOverNext

LEMMA AlwaysInv == ASSUME HandOverConstants PROVE HandOverSpec => []HandOverInv
BY InitInv, StepInv, PTL DEF HandOverSpec

\* What the invariant says of the properties.
LEMMA InvImplies ==
  ASSUME HandOverConstants, HandOverInv
  PROVE  /\ HandOverTypeOK /\ HeadExact /\ NeverPassed
         /\ BankWhole /\ BankPlaysUnretracted
         /\ ~KeepWhilePaused => SpeedInEffect
         /\ UnityInEffect
<1>1. HandOverTypeOK
  BY DEF HandOverInv, Types, HandOverTypeOK, Nodes, Plans
<1>2. HeadExact
  BY TheHead DEF HandOverInv, HeadExact, JumpPending
<1>3. NeverPassed
  BY DEF HandOverInv, Passing, NeverPassed
<1>4. Quiet /\ Clean /\ ~Ahead /\ engaged => Full(bank, primedGen)
  BY DEF HandOverInv, Sounds, BankIsHeard, InUse
<1>5. BankPlaysUnretracted
  BY <1>4 DEF BankPlaysUnretracted, BankPlays, Clean, Ahead, Landed, Quiet, Full
<1>6. BankWhole
  <2>1. SUFFICES ASSUME engaged, planAdopted = node.n, mishaps \subseteq {"unreadable"}
                 PROVE  Full(bank, primedGen)
    BY DEF BankWhole, Full
  <2>2. Clean /\ ~Ahead /\ ~op.stalled
    BY <2>1 DEF Clean, Ahead, Landed, HandOverInv, Stalls
  <2>3. Quiet \/ op.pc \in {"await", "adoptBank", "freeAll"}
    BY <2>2, PCsAre DEF HandOverInv, Types, Ops, PCs, Stalls, Quiet
  <2>4. op.pc # "freeAll"
    BY <2>1 DEF HandOverInv, PlanIsOut, Sounds, JumpIsHeard, Landed
  <2>5. op.pc \in {"await", "adoptBank"} => Full(node.plan.bank, node.plan.gen)
    BY DEF HandOverInv, PlanIsOut, Sounds, NamedIsWhole
  <2>6. op.pc \in {"await", "adoptBank"} => Named \/ InUse
    BY <2>2 DEF HandOverInv, Sounds, BankIsHeard
  <2> QED BY <1>4, <2>1, <2>2, <2>3, <2>4, <2>5, <2>6 DEF Named, InUse
<1>7. Settled => op.pc = "idle" /\ Landed
  BY DEF Settled, Landed
<1>8. ~KeepWhilePaused => SpeedInEffect
  BY <1>7 DEF SpeedInEffect, HandOverInv, Slowed, InEffect, Sounds, JumpIsHeard
<1>9. UnityInEffect
  BY <1>7 DEF UnityInEffect, HandOverInv, Plained, Clean, Unity, Plainly, Sounds, JumpIsHeard
<1> QED BY <1>1, <1>2, <1>3, <1>5, <1>6, <1>8, <1>9

\* Every variable of the hand-over keeps its type: no bus, plan or verdict bears a
\* generation that BuildBank (mixer_prime.cpp) has not given out.
THEOREM HandOverTypes == ASSUME HandOverConstants PROVE HandOverSpec => []HandOverTypeOK
BY AlwaysInv, InvImplies, PTL

\* What PlannedHead computes from the transport clock is the head of the callback
\* that has adopted the newest plan, through keeps, jumps and hand-overs, however
\* late each is adopted and whatever the lag.
THEOREM HeadIsExact == ASSUME HandOverConstants PROVE HandOverSpec => []HeadExact
BY AlwaysInv, InvImplies, PTL

\* A hand-over that JudgeHandOver has accepted is never passed by: the block that
\* reaches its frame hands over in it.
THEOREM NoHandOverIsPassed == ASSUME HandOverConstants PROVE HandOverSpec => []NeverPassed
BY AlwaysInv, InvImplies, PTL

\* While the callback gives its verdicts in time, the bank it plays is whole at
\* every step of every call, failed primings among them: AdoptBank and FreeBank
\* touch only the other one.
THEOREM NoBankIsFreedAsItPlays == ASSUME HandOverConstants PROVE HandOverSpec => []BankWhole
BY AlwaysInv, InvImplies, PTL

\* However often the verdict stalls, once a call is over the bank that plays is
\* whole, unless RetractHandOver ran.
THEOREM AStallLeavesAWholeBank ==
  ASSUME HandOverConstants PROVE HandOverSpec => []BankPlaysUnretracted
BY AlwaysInv, InvImplies, PTL

\* If the loop changes only while the song plays, and every stem can be read, a song
\* slowed down plays through its buses once calls and callback have settled: neither
\* a missed hand-over nor a keep that drops one leaves it plain.
THEOREM TheSpeedIsPlayed ==
  ASSUME HandOverConstants, ~KeepWhilePaused PROVE HandOverSpec => []SpeedInEffect
BY AlwaysInv, InvImplies, PTL

\* A song whose buses are not engaged, or whose change of speed failed and was
\* undone, plays plainly once calls and callback have settled.
THEOREM ARefusalLeavesItPlain == ASSUME HandOverConstants PROVE HandOverSpec => []UnityInEffect
BY AlwaysInv, InvImplies, PTL

\* Whatever the calls, the stalls and the stems that cannot be read, and however
\* they cross the callback, a hand-over lands at the head, in a whole bank, at the
\* speed that was set (HandOver's HandOversLand).
THEOREM HandOversAlwaysLand ==
  ASSUME HandOverConstants PROVE HandOverSpec => []HandOversLand
<1>1. HandOverInv => HandOversLand
  BY InvImplies DEF HandOversLand
<1> QED BY <1>1, AlwaysInv, PTL

-----------------------------------------------------------------------------
(* The publisher: its inductive invariant.                                  *)

\* Who may run the device, and what its flag says meanwhile.
DeviceInv ==
  /\ inBlock => live
  /\ live => running \/ appPc = "started"
  /\ AppHasLock => ~DogHasLock
  /\ dogPc # "none" => running \/ appPc = "stopped"
  /\ dogPc = "restarted" => live
  /\ appPc \in {"start", "started"} => dogPc = "none" /\ ~running
  /\ appPc \in {"start", "stopped"} => ~live
  /\ appPc \in {"called", "dated"} /\ ~sawRunning => ~running

\* Each address has one owner, and a retired node one entry.
OwnerInv ==
  /\ NoLeakNoDoubleFree
  /\ \A a \in Addrs : heap[a] <= generation
  /\ \A e, f \in retired : e.node = f.node => e = f

\* What the callback holds is published, or was retired so recently that the
\* clock cannot have moved a grace window past it.
HeldInv ==
  /\ appPc = "dated" => clock <= date + StallBound
  /\ ~inBlock => held = {}
  /\ \A nd \in held :
        \/ nd = active
        \/ \E e \in retired : e.node = nd /\ clock <= e.frame + StallBound

IInv == TypeOK /\ DeviceInv /\ OwnerInv /\ HeldInv

-----------------------------------------------------------------------------
(* Type correctness. *)

LEMMA TypeOKInit == Init => TypeOK
<1> USE NodeAssumption, ClockAssumption
       DEF NodeAssumption, ClockAssumption, TypeOK, AppPcs, DogPcs
<1> SUFFICES ASSUME Init PROVE TypeOK
  OBVIOUS
<1>1. heap \in [Addrs -> 0..MaxGen] /\ generation \in 0..MaxGen
  BY DEF Init
<1>2. retired \subseteq [node : Node, frame : Nat] /\ held \subseteq Node
  BY DEF Init
<1> QED
  BY <1>1, <1>2 DEF Init

LEMMA TypeOKStep == TypeOK /\ [Next]_vars => TypeOK'
<1> USE NodeAssumption, ClockAssumption
       DEF NodeAssumption, ClockAssumption, TypeOK, AppPcs, DogPcs
<1> SUFFICES ASSUME TypeOK, [Next]_vars PROVE TypeOK'
  OBVIOUS
<1>1. CASE EnterCall
  BY <1>1 DEF EnterCall, pubVars, readVars
<1>2. CASE Collect
  BY <1>2 DEF Collect, Free, readVars
<1>3. ASSUME NEW a \in Addrs, Publish(a) PROVE TypeOK'
  BY <1>3 DEF Node, Publish, Swap, Retire, readVars, callVars
<1>4. CASE PublishNothing
  BY <1>4 DEF PublishNothing, Swap, Retire, readVars, callVars
<1>5. CASE BlockBegin
  BY <1>5 DEF BlockBegin, pubVars, callVars
<1>6. CASE Get
  BY <1>6 DEF Get, pubVars, callVars
<1>7. ASSUME NEW b \in Blocks, BlockEnd(b) PROVE TypeOK'
  <2>1. clock' \in Nat
    BY <1>7 DEF BlockEnd
  <2> QED
    BY <1>7, <2>1 DEF BlockEnd, pubVars, callVars
<1>8. CASE Start
  BY <1>8 DEF Start, ReclaimAll, Free, readVars, callVars
<1>9. CASE DeviceStart
  BY <1>9 DEF DeviceStart, pubVars, readVars, callVars
<1>10. CASE StartReturns
  BY <1>10 DEF StartReturns, pubVars, readVars, callVars
<1>11. CASE Stop
  BY <1>11 DEF Stop, pubVars, readVars, callVars
<1>12. CASE StopDevice
  BY <1>12 DEF StopDevice, pubVars, readVars, callVars
<1>13. CASE StopReturns
  BY <1>13 DEF StopReturns, ReclaimAll, Free, readVars, callVars
<1>14. CASE DogRestarts
  BY <1>14 DEF DogRestarts, DogTakesLock, pubVars, readVars, callVars
<1>15. CASE DogIdles
  BY <1>15 DEF DogIdles, DogTakesLock, pubVars, readVars, callVars
<1>16. CASE RestartStops
  BY <1>16 DEF RestartStops, pubVars, readVars, callVars
<1>17. CASE RestartStarts
  BY <1>17 DEF RestartStarts, pubVars, readVars, callVars
<1>18. CASE RestartReturns
  BY <1>18 DEF RestartReturns, pubVars, readVars, callVars
<1>19. CASE IdleStop
  BY <1>19 DEF IdleStop, pubVars, readVars, callVars
<1>20. CASE UNCHANGED vars
  BY <1>20 DEF vars, pubVars, readVars, callVars
<1> QED
  BY <1>1, <1>2, <1>3, <1>4, <1>5, <1>6, <1>7, <1>8, <1>9, <1>10, <1>11,
     <1>12, <1>13, <1>14, <1>15, <1>16, <1>17, <1>18, <1>19, <1>20 DEF Next

\* Type correctness of the publisher and its three threads (rt_publisher.h,
\* engine.cpp): TypeOK holds in every reachable state.
THEOREM TypeCorrect == Spec => []TypeOK
  BY TypeOKInit, TypeOKStep, PTL DEF Spec

-----------------------------------------------------------------------------
(* The inductive invariant is inductive: one lemma per part. *)

LEMMA InitIInv == Init => IInv
<1> SUFFICES ASSUME Init PROVE IInv
  OBVIOUS
<1>1. TypeOK
  BY TypeOKInit
<1>2. DeviceInv
  BY DEF Init, DeviceInv, AppHasLock, DogHasLock
<1>3. OwnerInv
  BY DEF Init, OwnerInv, NoLeakNoDoubleFree
<1>4. HeldInv
  BY DEF Init, HeldInv
<1> QED
  BY <1>1, <1>2, <1>3, <1>4 DEF IInv

\* The flag and the device agree as long as a restart does not fail.
LEMMA DeviceStep ==
  ASSUME ~RestartMayFail, TypeOK, DeviceInv, [Next]_vars
  PROVE  DeviceInv'
<1> USE DEF DeviceInv, AppHasLock, DogHasLock, TypeOK, AppPcs, DogPcs,
           pubVars, readVars, callVars
<1>1. CASE EnterCall
  BY <1>1 DEF EnterCall
<1>2. CASE Collect
  BY <1>2 DEF Collect, Free
<1>3. ASSUME NEW a \in Addrs, Publish(a) PROVE DeviceInv'
  BY <1>3 DEF Publish, Swap, Retire
<1>4. CASE PublishNothing
  BY <1>4 DEF PublishNothing, Swap, Retire
<1>5. CASE BlockBegin
  BY <1>5 DEF BlockBegin
<1>6. CASE Get
  BY <1>6 DEF Get
<1>7. ASSUME NEW b \in Blocks, BlockEnd(b) PROVE DeviceInv'
  BY <1>7 DEF BlockEnd
<1>8. CASE Start
  BY <1>8 DEF Start, ReclaimAll, Free
<1>9. CASE DeviceStart
  BY <1>9 DEF DeviceStart
<1>10. CASE StartReturns
  BY <1>10 DEF StartReturns
<1>11. CASE Stop
  BY <1>11 DEF Stop
<1>12. CASE StopDevice
  BY <1>12 DEF StopDevice
<1>13. CASE StopReturns
  BY <1>13 DEF StopReturns, ReclaimAll, Free
<1>14. CASE DogRestarts
  BY <1>14 DEF DogRestarts, DogTakesLock
<1>15. CASE DogIdles
  BY <1>15 DEF DogIdles, DogTakesLock
<1>16. CASE RestartStops
  BY <1>16 DEF RestartStops
<1>17. CASE RestartStarts
  BY <1>17 DEF RestartStarts
<1>18. CASE RestartReturns
  BY <1>18 DEF RestartReturns
<1>19. CASE IdleStop
  BY <1>19 DEF IdleStop
<1>20. CASE UNCHANGED vars
  BY <1>20 DEF vars
<1> QED
  BY <1>1, <1>2, <1>3, <1>4, <1>5, <1>6, <1>7, <1>8, <1>9, <1>10, <1>11,
       <1>12, <1>13, <1>14, <1>15, <1>16, <1>17, <1>18, <1>19, <1>20 DEF Next

LEMMA NodeNotNull == NoNode \notin Node
  BY NodeAssumption, ClockAssumption DEF NodeAssumption, ClockAssumption, Node

LEMMA SameAddress ==
  ASSUME NEW m \in Node, NEW n \in Node, IsLive(m), IsLive(n), m.addr = n.addr
  PROVE  m = n
  BY DEF Node, IsLive

\* Freeing a set of retired nodes disturbs no other live node.
LEMMA FreeOthers ==
  ASSUME TypeOK, OwnerInv, NEW old \in SUBSET retired
  PROVE  /\ active # NoNode => Free(old)[active.addr] = active.gen
         /\ \A e \in retired \ old : Free(old)[e.node.addr] = e.node.gen
         /\ \A a \in Addrs : Free(old)[a] # 0 =>
               /\ Free(old)[a] = heap[a]
               /\ \A e \in old : e.node.addr # a
<1> USE DEF TypeOK, OwnerInv, NoLeakNoDoubleFree
<1>1. \A e \in retired : e.node \in Node
  OBVIOUS
<1>2. ASSUME active # NoNode PROVE Free(old)[active.addr] = active.gen
  <2>1. active \in Node /\ IsLive(active)
    BY <1>2
  <2>2. \A e \in old : e.node.addr # active.addr
    BY <1>1, <2>1, SameAddress
  <2> QED
    BY <2>1, <2>2 DEF Free, IsLive, Node
<1>3. ASSUME NEW e \in retired \ old
      PROVE  Free(old)[e.node.addr] = e.node.gen
  <2>1. \A f \in old : f.node.addr # e.node.addr
    BY <1>1, SameAddress
  <2> QED
    BY <1>1, <2>1 DEF Free, IsLive, Node
<1>4. \A a \in Addrs : Free(old)[a] # 0 =>
               /\ Free(old)[a] = heap[a]
               /\ \A e \in old : e.node.addr # a
  BY DEF Free
<1> QED
  BY <1>2, <1>3, <1>4

\* Once the published node is retired, the retire list owns all that is alive.
LEMMA RetireOwns ==
  ASSUME TypeOK, OwnerInv
  PROVE  LET kept == Retire(active)
         IN  /\ kept \subseteq [node : Node, frame : Nat]
             /\ \A e \in kept : IsLive(e.node)
             /\ \A e, f \in kept : e.node = f.node => e = f
             /\ \A a \in Addrs : heap[a] # 0 =>
                  \E e \in kept : e.node = [addr |-> a, gen |-> heap[a]]
<1> USE DEF TypeOK, OwnerInv, NoLeakNoDoubleFree
<1>1. CASE active = NoNode
  BY <1>1 DEF Retire
<1>2. CASE active # NoNode
  <2> DEFINE last == [node |-> active, frame |-> date]
  <2>1. Retire(active) = retired \cup {last}
    BY <1>2 DEF Retire
  <2>2. last \in [node : Node, frame : Nat] /\ IsLive(last.node)
    BY <1>2
  <2>3. \A e \in retired : e.node # last.node
    OBVIOUS
  <2>4. \A a \in Addrs : heap[a] # 0 =>
          \E e \in retired \cup {last} : e.node = [addr |-> a, gen |-> heap[a]]
    <3> SUFFICES ASSUME NEW a \in Addrs, heap[a] # 0
                 PROVE  \E e \in retired \cup {last} :
                           e.node = [addr |-> a, gen |-> heap[a]]
      OBVIOUS
    <3>1. CASE active = [addr |-> a, gen |-> heap[a]]
      <4>1. last \in retired \cup {last} /\ last.node = active
        OBVIOUS
      <4> HIDE DEF last
      <4> QED
        BY <3>1, <4>1
    <3>2. CASE active # [addr |-> a, gen |-> heap[a]]
      <4>1. \E e \in retired : e.node = [addr |-> a, gen |-> heap[a]]
        BY <3>2
      <4> HIDE DEF last
      <4> QED
        BY <4>1
    <3> QED
      BY <3>1, <3>2
  <2> HIDE DEF last
  <2> QED
    BY <2>1, <2>2, <2>3, <2>4
<1> QED
  BY <1>1, <1>2

LEMMA OwnerStep ==
  ASSUME TypeOK, TypeOK', OwnerInv, [Next]_vars
  PROVE  OwnerInv'
<1> DEFINE Freed(old) ==
             /\ heap' = Free(old)
             /\ retired' = retired \ old
             /\ UNCHANGED <<active, generation>>
<1>1. ASSUME NEW old \in SUBSET retired, Freed(old) PROVE OwnerInv'
  <2>1. \A a \in Addrs : heap'[a] # 0 =>
          \/ active' # NoNode /\ active' = [addr |-> a, gen |-> heap'[a]]
          \/ \E e \in retired' : e.node = [addr |-> a, gen |-> heap'[a]]
    BY <1>1, FreeOthers DEF OwnerInv, NoLeakNoDoubleFree
  <2>2. /\ active' # NoNode => heap'[active'.addr] = active'.gen
        /\ \A e \in retired' : heap'[e.node.addr] = e.node.gen /\ e.node # active'
    BY <1>1, FreeOthers DEF OwnerInv, NoLeakNoDoubleFree
  <2>3. \A a \in Addrs : heap'[a] <= generation'
    BY <1>1 DEF Free, OwnerInv, TypeOK
  <2> QED
    BY <1>1, <2>1, <2>2, <2>3 DEF OwnerInv, NoLeakNoDoubleFree, IsLive
<1>2. CASE Collect
  BY <1>2, <1>1 DEF Collect
<1>3. CASE Start
  BY <1>3, <1>1 DEF Start, ReclaimAll
<1>4. CASE StopReturns
  BY <1>4, <1>1 DEF StopReturns, ReclaimAll
<1>5. ASSUME NEW a \in Addrs, Publish(a) PROVE OwnerInv'
  <2> DEFINE nd == [addr |-> a, gen |-> generation + 1]
             kept == Retire(active)
  <2>1. /\ heap[a] = 0
        /\ generation' = generation + 1
        /\ active' = nd
        /\ retired' = IF sawRunning THEN kept ELSE {}
        /\ heap' = [x \in Addrs |->
                      IF x = a THEN generation + 1
                      ELSE IF ~sawRunning /\ \E e \in kept : e.node.addr = x
                        THEN 0 ELSE heap[x]]
    <3>1. generation + 1 \in Nat
      BY DEF TypeOK
    <3>2. nd # NoNode
      BY <3>1, NodeAssumption DEF NodeAssumption
    <3> QED
      BY <1>5, <3>2 DEF Publish, Swap
  <2>2. \A e \in kept : e.node \in Node /\ heap[e.node.addr] = e.node.gen
    BY RetireOwns DEF IsLive
  <2>3. \A e \in kept : e.node.addr # a /\ e.node # nd
    BY <2>1, <2>2 DEF Node
  <2>4. \A x \in Addrs : heap'[x] # 0 =>
          \/ active' # NoNode /\ active' = [addr |-> x, gen |-> heap'[x]]
          \/ \E e \in retired' : e.node = [addr |-> x, gen |-> heap'[x]]
    <3> SUFFICES ASSUME NEW x \in Addrs, heap'[x] # 0, x # a
                 PROVE  \E e \in retired' :
                           e.node = [addr |-> x, gen |-> heap'[x]]
      BY <2>1, NodeAssumption DEF NodeAssumption, TypeOK
    <3>1. heap'[x] = heap[x]
      BY <2>1
    <3>2. PICK e \in kept : e.node = [addr |-> x, gen |-> heap[x]]
      BY <3>1, RetireOwns
    <3>3. sawRunning
      BY <2>1, <3>2
    <3> QED
      BY <2>1, <3>1, <3>2, <3>3
  <2>5. active' # NoNode => heap'[active'.addr] = active'.gen
    BY <2>1
  <2>6. \A e \in retired' : heap'[e.node.addr] = e.node.gen /\ e.node # active'
    BY <2>1, <2>2, <2>3 DEF Node
  <2>7. \A x \in Addrs : heap'[x] <= generation'
    BY <2>1 DEF OwnerInv, TypeOK
  <2>8. \A e, f \in retired' : e.node = f.node => e = f
    BY <2>1, RetireOwns
  <2> QED
    BY <2>4, <2>5, <2>6, <2>7, <2>8 DEF OwnerInv, NoLeakNoDoubleFree, IsLive
<1>6. CASE PublishNothing
  <2> DEFINE kept == Retire(active)
  <2>1. /\ generation' = generation
        /\ active' = NoNode
        /\ retired' = IF sawRunning THEN kept ELSE {}
        /\ heap' = [x \in Addrs |->
                      IF ~sawRunning /\ \E e \in kept : e.node.addr = x
                        THEN 0 ELSE heap[x]]
    BY <1>6 DEF PublishNothing, Swap
  <2>2. \A e \in kept : e.node \in Node /\ heap[e.node.addr] = e.node.gen
    BY RetireOwns DEF IsLive
  <2>3. \A x \in Addrs : heap'[x] # 0 =>
          \E e \in retired' : e.node = [addr |-> x, gen |-> heap'[x]]
    BY <2>1, RetireOwns DEF TypeOK
  <2>4. \A e \in retired' : heap'[e.node.addr] = e.node.gen /\ e.node # active'
    <3> SUFFICES ASSUME NEW e \in retired'
                 PROVE  heap'[e.node.addr] = e.node.gen /\ e.node # active'
      OBVIOUS
    <3>1. e \in kept /\ sawRunning
      BY <2>1
    <3>2. e.node \in Node /\ heap[e.node.addr] = e.node.gen
      BY <2>2, <3>1
    <3>3. e.node # NoNode
      BY <3>2, NodeNotNull
    <3>4. e.node.addr \in Addrs
      BY <3>2 DEF Node
    <3> QED
      BY <2>1, <3>1, <3>2, <3>3, <3>4
  <2>5. \A x \in Addrs : heap'[x] <= generation'
    BY <2>1 DEF OwnerInv, TypeOK
  <2>6. \A e, f \in retired' : e.node = f.node => e = f
    BY <2>1, RetireOwns
  <2> QED
    BY <2>1, <2>3, <2>4, <2>5, <2>6 DEF OwnerInv, NoLeakNoDoubleFree, IsLive
<1>7. CASE UNCHANGED pubVars
  BY <1>7 DEF pubVars, OwnerInv, NoLeakNoDoubleFree, IsLive
<1> QED
  BY <1>2, <1>3, <1>4, <1>5, <1>6, <1>7
     DEF Next, vars, EnterCall, BlockBegin, Get, BlockEnd, DeviceStart,
         StartReturns, Stop, StopDevice, DogRestarts, DogIdles, DogTakesLock,
         RestartStops, RestartStarts, RestartReturns, IdleStop

\* A node leaves the retire list only when nothing can hold it.
LEMMA HeldStep ==
  ASSUME StallBound <= Grace, TypeOK, DeviceInv, HeldInv, [Next]_vars
  PROVE  HeldInv'
<1> USE ClockAssumption DEF ClockAssumption, HeldInv, TypeOK
<1>1. CASE Collect
  <2>1. \A e \in retired :
          clock <= e.frame + StallBound => ~Reclaimable(e, clock)
    BY DEF Reclaimable
  <2>2. /\ retired' = retired \ {e \in retired : Reclaimable(e, clock)}
        /\ UNCHANGED <<active, held, inBlock, clock>>
        /\ date' = clock
    BY <1>1 DEF Collect, readVars
  <2> QED
    BY <2>1, <2>2
<1>2. ASSUME NEW nd, NEW allocated, Swap(nd, Retire(active), allocated)
      PROVE  HeldInv'
  <2>1. held # {} => sawRunning
    BY <1>2 DEF Swap, DeviceInv
  <2>2. held # {} => retired' = Retire(active)
    BY <1>2, <2>1 DEF Swap
  <2>3. /\ UNCHANGED <<held, inBlock, clock>>
        /\ appPc = "dated" /\ appPc' = "idle"
    BY <1>2 DEF Swap, readVars
  <2>4. \A n \in held : \E e \in Retire(active) :
          e.node = n /\ clock <= e.frame + StallBound
    <3> SUFFICES ASSUME NEW n \in held
                 PROVE  \E e \in Retire(active) :
                           e.node = n /\ clock <= e.frame + StallBound
      OBVIOUS
    <3>1. CASE n = active
      <4> DEFINE last == [node |-> active, frame |-> date]
      <4>1. active # NoNode
        BY <3>1, NodeNotNull
      <4>2. last \in Retire(active)
        BY <4>1 DEF Retire
      <4>3. last.node = n /\ clock <= last.frame + StallBound
        BY <2>3, <3>1
      <4> QED
        BY <4>2, <4>3
    <3>2. CASE n # active
      BY <3>2 DEF Retire
    <3> QED
      BY <3>1, <3>2
  <2> QED
    BY <2>2, <2>3, <2>4
<1>3. CASE Get
  BY <1>3 DEF Get, pubVars, callVars
<1>4. ASSUME NEW b \in Blocks, BlockEnd(b) PROVE HeldInv'
  BY <1>4 DEF BlockEnd, pubVars, callVars
<1>5. CASE Start \/ StopReturns
  <2>1. held = {} /\ appPc' # "dated"
    BY <1>5 DEF Start, StopReturns, DeviceInv
  <2> QED
    BY <1>5, <2>1 DEF Start, StopReturns, readVars
<1>6. CASE /\ UNCHANGED <<pubVars, held, clock, date>>
           /\ appPc' = "dated" => appPc = "dated"
           /\ ~inBlock' => ~inBlock
  BY <1>6 DEF pubVars
<1> QED
  BY <1>1, <1>2, <1>3, <1>4, <1>5, <1>6
     DEF Next, vars, readVars, callVars, EnterCall, Publish, PublishNothing,
         BlockBegin, DeviceStart, StartReturns, Stop, StopDevice, DogRestarts,
         DogIdles, DogTakesLock, RestartStops, RestartStarts, RestartReturns,
         IdleStop

-----------------------------------------------------------------------------
(* What follows from the invariant. *)

LEMMA IInvStep ==
  ASSUME StallBound <= Grace, ~RestartMayFail, IInv, [Next]_vars
  PROVE  IInv'
  BY TypeOKStep, DeviceStep, OwnerStep, HeldStep DEF IInv

LEMMA IInvSafe == IInv => NoUseAfterFree /\ NoLeakNoDoubleFree
<1> SUFFICES ASSUME IInv PROVE NoUseAfterFree /\ NoLeakNoDoubleFree
  OBVIOUS
<1>1. NoLeakNoDoubleFree
  BY DEF IInv, OwnerInv
<1>2. ASSUME NEW nd \in held PROVE IsLive(nd)
  <2>1. nd \in Node
    BY DEF IInv, TypeOK
  <2>2. CASE nd = active
    BY <1>1, <2>1, <2>2, NodeNotNull DEF NoLeakNoDoubleFree
  <2>3. CASE \E e \in retired : e.node = nd
    BY <1>1, <2>3 DEF NoLeakNoDoubleFree
  <2> QED
    BY <2>2, <2>3 DEF IInv, HeldInv
<1> QED
  BY <1>1, <1>2 DEF NoUseAfterFree

\* "Never free under a reader": no payload is freed while the callback holds
\* it, for any grace window at least as long as the publisher's clock reading
\* can be stale at the swap, when the watchdog's restarts do not fail.
THEOREM NeverFreedUnderAReader ==
  ASSUME StallBound <= Grace, ~RestartMayFail
  PROVE  Spec => []NoUseAfterFree
<1>1. IInv /\ [Next]_vars => IInv'
  BY IInvStep
<1> QED
  BY InitIInv, IInvSafe, <1>1, PTL DEF Spec

\* engine.cpp:80: no API call can read "not running" while the callback runs,
\* when the watchdog's restarts do not fail.
THEOREM FlagIsHonest ==
  ASSUME StallBound <= Grace, ~RestartMayFail
  PROVE  Spec => []FlagCoversCallback
<1>1. IInv /\ [Next]_vars => IInv'
  BY IInvStep
<1>2. IInv => FlagCoversCallback
  BY DEF IInv, DeviceInv, FlagCoversCallback
<1> QED
  BY InitIInv, <1>1, <1>2, PTL DEF Spec

\* The retire list neither leaks a payload nor frees one twice.  This needs no
\* hypothesis on the restarts or on the clock.
THEOREM RetireListSound == Spec => []NoLeakNoDoubleFree
<1>1. Init => TypeOK /\ OwnerInv
  BY InitIInv DEF IInv
<1>2. TypeOK /\ OwnerInv /\ [Next]_vars => (TypeOK /\ OwnerInv)'
  BY TypeOKStep, OwnerStep
<1>3. OwnerInv => NoLeakNoDoubleFree
  BY DEF OwnerInv
<1> QED
  BY <1>1, <1>2, <1>3, PTL DEF Spec

\* A swap is never missed, even where the allocator has handed the new payload
\* an address the callback knows (rt_publisher.h, "a generation cannot").
THEOREM SwapsAlwaysSeen == Spec => SwapsAreSeen
<1> DEFINE AdoptInv == adopted # NoNode =>
             /\ adopted.gen <= generation
             /\ active # NoNode /\ active.gen = adopted.gen => active = adopted
           Sees == \A nd \in held' \ held : adopted' = nd
<1>1. Init => AdoptInv
  BY DEF Init
<1>2. ASSUME TypeOK, OwnerInv, AdoptInv, [Next]_vars PROVE AdoptInv' /\ [Sees]_vars
  <2> USE <1>2
  <2>1. CASE Get
    <3>1. active.gen <= generation
      BY <2>1 DEF Get, TypeOK, Node, OwnerInv, NoLeakNoDoubleFree, IsLive
    <3>2. adopted' = active
      BY <2>1 DEF Get, IsNewPayload
    <3> QED
      BY <2>1, <3>1, <3>2 DEF Get, pubVars
  <2>2. ASSUME NEW a \in Addrs, Publish(a) PROVE AdoptInv' /\ [Sees]_vars
    <3>1. /\ active' = [addr |-> a, gen |-> generation + 1]
          /\ generation' = generation + 1
          /\ UNCHANGED <<held, adopted>>
      BY <2>2 DEF Publish, Swap, readVars
    <3>2. adopted # NoNode => adopted.gen \in Nat /\ generation \in Nat
      BY DEF TypeOK, Node
    <3> QED
      BY <3>1, <3>2
  <2>3. CASE PublishNothing
    BY <2>3 DEF PublishNothing, Swap, readVars
  <2>4. CASE /\ UNCHANGED <<active, generation, adopted>>
             /\ held' \subseteq held
    BY <2>4
  <2> QED
    BY <2>1, <2>2, <2>3, <2>4
       DEF Next, vars, pubVars, readVars, EnterCall, Collect, BlockBegin,
           BlockEnd, Start, DeviceStart, StartReturns, Stop, StopDevice,
           StopReturns, DogRestarts, DogIdles, DogTakesLock, RestartStops,
           RestartStarts, RestartReturns, IdleStop
<1>3. Init => TypeOK /\ OwnerInv
  BY InitIInv DEF IInv
<1>4. TypeOK /\ OwnerInv /\ [Next]_vars => (TypeOK /\ OwnerInv)'
  BY TypeOKStep, OwnerStep
<1>5. TypeOK /\ OwnerInv /\ AdoptInv /\ [Next]_vars => AdoptInv' /\ [Sees]_vars
  BY <1>2
<1>6. [Sees]_vars => [SeesSwap]_vars
  BY DEF SeesSwap
<1> HIDE DEF AdoptInv, Sees
<1> QED
  BY <1>1, <1>3, <1>4, <1>5, <1>6, PTL DEF Spec, SwapsAreSeen
=============================================================================
