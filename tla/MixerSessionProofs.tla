------------------------- MODULE MixerSessionProofs -------------------------
(***************************************************************************)
(* For any screens, stems, loops and names, and any number of sessions and *)
(* taps: who owns the mixer, what a closed player leaves, what the screens *)
(* show and the engine does, and what is stored.                           *)
(*                                                                         *)
(* The properties are about states; what makes them so is what is under    *)
(* way.  So the invariant says of every call not yet answered what it will *)
(* find if its session is still on (Finds), and that calls keep an order:  *)
(* a song's load is the last of the answers, a ready song has one loop     *)
(* call and one grid call at most, and an answer of an earlier session     *)
(* comes before a song is ready (Ordered).  A song is read from the        *)
(* database after what was to be saved of the one before (Reads), which is *)
(* why it opens with the mix it was left with (Saved).  The rest says who  *)
(* has what: the claim tells the open player (Owned), a live hold is one   *)
(* screen's (Held), and the tracks, the loop, the click and the level are  *)
(* the open player's, or nobody's (Tracks, LoopKept, ClickKept,            *)
(* LevelKept).                                                             *)
(*                                                                         *)
(* A step is proved in two halves: how the answers and the database's      *)
(* calls change (Shift, QShift: some go, one may come), and what the       *)
(* players and the engine change of what those still under way find.       *)
(***************************************************************************)
EXTENDS MixerSession, SequenceTheorems, FiniteSetTheorems, TLAPS

-----------------------------------------------------------------------------
(* The inductive invariant. *)

Names0 == Names \cup {FirstName}
SoundMixes == {m \in [Stems -> Row] : \A s \in Stems : ~(m[s].muted /\ m[s].soloed)}
Levels == {"unity", "low"}

PlayerStates ==
  [session : Nat, status : {"idle", "loading", "ready", "missing", "failed"},
   loop : {"off", "armed"} \cup Loops, undo : {"none"} \cup Loops, click : BOOLEAN,
   mix : SoundMixes, name : Names0, scrub : BOOLEAN, sub : BOOLEAN, hold : BOOLEAN,
   requested : BOOLEAN, master : {"none"} \cup Levels, loopBusy : Nat, clickBusy : Nat]

EngineStates ==
  [tracks : Players \cup {"none"}, playing : BOOLEAN, loop : {"none"} \cup Loops,
   stray : BOOLEAN, grid : Players \cup {"none"}, follow : BOOLEAN,
   metronome : {"off", "click", "tool"}, master : Levels, card : BOOLEAN,
   holds : Nat, mix : SoundMixes]

Loads == {"start", "cleared", "tracks", "master", "track", "frames"}
Changes == {"setLoop", "clearLoop"}

LoopAsked ==
  [loop : Loops, then : {"none", "undo", "section"}, was : {"off", "armed"} \cup Loops,
   undo : {"none"} \cup Loops]
Replies ==
  [kind : Loads \cup Changes \cup {"grid"}, player : Players, session : Nat,
   ok : BOOLEAN, arg : {"none"} \cup Levels \cup Loops \cup LoopAsked]

DbCalls ==
  [kind : {"read", "save", "rename"}, player : Players, session : Nat,
   arg : {{}} \cup SoundMixes \cup [from : Names0, to : Names0]]

SessionTypes ==
  /\ claim \in Players \cup {"none"}
  /\ players \in [Players -> PlayerStates]
  /\ screens \in [Screens -> [mounted : BOOLEAN, focused : BOOLEAN, held : Nat]]
  /\ top \in Screens \cup {"none"} /\ editing \in Screens \cup {"none"}
  /\ answers \in Seq(Replies)
  /\ db \in [queue : Seq(DbCalls), mix : SoundMixes, name : Names0,
             pending : SUBSET SoundMixes, lost : BOOLEAN, unnamed : BOOLEAN]
  /\ engine \in EngineStates
  /\ user \in [mix : SoundMixes, master : Levels, name : Names0]

\* Whose session is on is told by the claim, and a closed player kept nothing.
Owned ==
  /\ engine.holds = IF claim = "none" THEN 0 ELSE 1
  /\ engine.playing \/ engine.card => claim # "none"
  /\ players["stem"].master = "none" /\ players["song"].mix = UnityMix
  /\ \A p \in Players :
       /\ IsOpen(p) <=> claim = p
       /\ (players[p].hold <=> IsOpen(p)) /\ (players[p].sub <=> IsOpen(p))
       /\ ~IsOpen(p) => /\ ~players[p].scrub /\ ~players[p].requested /\ ~players[p].click
                        /\ players[p].master = "none" /\ players[p].loop = "off"

\* A hold that is live is one screen's, and the screen on top has it.
Held ==
  /\ top # "none" => HoldLive(top)
  /\ \A s \in Screens :
       /\ screens[s].held <= players[PlayerOf[s]].session
       /\ screens[s].held # NoSession => screens[s].mounted
       /\ HoldLive(s) => IsOpen(PlayerOf[s])
       /\ \A t \in Screens :
            PlayerOf[s] = PlayerOf[t] /\ screens[s].held = screens[t].held
              /\ screens[s].held # NoSession => s = t
  /\ \A p \in Players : IsOpen(p) => \E s \in Screens : HoldLive(s) /\ PlayerOf[s] = p

\* What is loaded is what was requested, and only then is the level taken down.
Tracks ==
  /\ \A p \in Players : /\ engine.tracks = p <=> players[p].requested
                        /\ players[p].master # "none" => players[p].requested
                        /\ Ready(p) => /\ players[p].requested
                                       /\ engine.mix = players[p].mix
  /\ engine.tracks # "stem" => engine.mix = UnityMix

LoopFree == engine.loop = "none" \/ engine.stray
LoopTold(p) ==
  IF LoopOn(players[p]) THEN engine.loop = players[p].loop ELSE LoopFree

NoSavesIn(q) == \A i \in 1..Len(q) : q[i].kind # "save"
LastSaveIn(q, mix) ==
  \A k \in 1..Len(q) :
     q[k].kind = "save" /\ (\A l \in 1..Len(q) : l > k => q[l].kind # "save")
     => q[k].arg = mix
NoSaves == NoSavesIn(db.queue)
LastSaveIs(mix) == LastSaveIn(db.queue, mix)

\* What an answer that is still its session's finds.
Finds(a) ==
  LET p == a.player
      pl == players[p] IN
  CASE a.kind = "start" -> pl.status = "loading" /\ ~pl.requested
    [] a.kind = "cleared" -> pl.status = "loading" /\ ~pl.requested /\ LoopFree
    [] a.kind = "tracks" -> pl.status = "loading" /\ pl.requested /\ LoopFree
    [] a.kind = "master" ->
         /\ pl.status = "loading" /\ LoopFree
         /\ IF p = "stem" THEN pl.requested /\ engine.mix = pl.mix
            ELSE ~pl.requested /\ a.arg = engine.master /\ pl.master = "none"
    [] a.kind \in {"track", "frames"} -> pl.status = "loading" /\ pl.requested /\ LoopFree
    [] a.kind = "setLoop" ->
         /\ pl.status = "ready" /\ pl.loopBusy = pl.session
         /\ IF a.ok THEN engine.loop = a.arg.loop ELSE LoopTold(p)
    [] a.kind = "clearLoop" ->
         /\ pl.status = "ready" /\ pl.loopBusy = pl.session /\ LoopOn(pl)
         /\ IF a.ok THEN engine.loop = "none" ELSE LoopTold(p)
    [] a.kind = "grid" ->
         /\ pl.status = "ready" /\ pl.clickBusy = pl.session /\ ~pl.click
         /\ a.ok => engine.grid = p

IsCurrent(a) == Live(a.player, a.session)
IsLoad(a) == a.kind \in Loads /\ IsCurrent(a)

Answering(a) ==
  /\ a.session <= players[a.player].session
  /\ a.kind = "tracks" => a.player = "stem"
  /\ a.kind \in {"track", "frames"} => a.player = "song"
  /\ a.kind = "setLoop" => a.arg \in LoopAsked
  /\ a.kind = "clearLoop" => a.arg \in {"none"} \cup Loops
  /\ a.kind = "master" => a.arg \in Levels
  /\ IsCurrent(a) => IsOpen(a.player) /\ Finds(a)

\* Answers come in order, so those of an earlier session are in before a song plays.
Sound == \A i \in 1..Len(answers) : Answering(answers[i])
Arranged ==
  \A i, j \in 1..Len(answers) :
     /\ IsLoad(answers[j]) /\ i > j => answers[i].kind = "master" /\ ~IsCurrent(answers[i])
     /\ i # j /\ answers[i].kind \in Changes /\ IsCurrent(answers[i])
          => ~(answers[j].kind \in Changes /\ IsCurrent(answers[j]))
     /\ i # j /\ answers[i].kind = "grid" /\ IsCurrent(answers[i])
          => ~(answers[j].kind = "grid" /\ IsCurrent(answers[j]))
Awaited ==
  \A p \in Players : Ready(p) =>
     \A i \in 1..Len(answers) :
        answers[i].kind \in Changes \cup {"grid"} => IsCurrent(answers[i])
Ordered == Sound /\ Arranged /\ Awaited

IsRead(c) == c.kind = "read" /\ Live(c.player, c.session)

\* A song is read after what was to be saved of the one before.
NoReads == \A k \in 1..Len(db.queue) : ~IsRead(db.queue[k])
Reads ==
  /\ \A k \in 1..Len(db.queue) :
       LET c == db.queue[k] IN
       /\ c.session <= players[c.player].session
       /\ c.kind = "save" => c.arg \in SoundMixes
       /\ c.kind = "rename" => c.arg \in [from : Names0, to : Names0]
       /\ IsRead(c) =>
            /\ players[c.player].status = "loading" /\ ~players[c.player].requested
            /\ \A i \in 1..Len(answers) : ~IsLoad(answers[i])
            /\ \A l \in 1..Len(db.queue) : l # k => ~IsRead(db.queue[l])
            /\ c.player = "stem" =>
                 \A l \in 1..Len(db.queue) : l > k => db.queue[l].kind # "save"

LoopKept ==
  /\ \A p \in Players :
       /\ Ready(p) => \/ LoopTold(p)
                      \/ \E i \in 1..Len(answers) :
                           answers[i].kind \in Changes /\ IsCurrent(answers[i])
       /\ LoopOn(players[p]) => Ready(p)
  /\ \/ LoopFree
     \/ \E p \in Players : LoopOn(players[p])
     \/ \E i \in 1..Len(answers) : answers[i].kind = "setLoop" /\ answers[i].ok

ClickKept ==
  /\ \A p \in Players :
       players[p].click => /\ Ready(p) /\ engine.grid = p
                           /\ engine.follow /\ engine.metronome = "click"
  /\ (\A p \in Players : ~players[p].click) =>
       /\ ~engine.follow /\ engine.metronome # "click"
       /\ \/ engine.grid = "none"
          \/ \E i \in 1..Len(answers) : answers[i].kind = "grid" /\ answers[i].ok

LevelKept ==
  user.master = IF players["song"].master = "none" THEN engine.master
                ELSE players["song"].master

Saved ==
  /\ db.pending # {} => /\ db.pending = {user.mix} /\ Ready("stem")
                        /\ players["stem"].mix = user.mix
  /\ db.pending = {} =>
       /\ LastSaveIs(user.mix)
       /\ NoSaves /\ ~db.lost => db.mix = user.mix
  /\ Ready("stem") /\ (~NoSaves \/ ~db.lost) => players["stem"].mix = user.mix
  /\ (\E i \in 1..Len(answers) : answers[i].player = "stem" /\ IsLoad(answers[i])) =>
       NoSaves /\ (~db.lost => players["stem"].mix = user.mix)

SessionInv ==
  /\ Owned /\ Held /\ Tracks /\ Ordered /\ Reads
  /\ LoopKept /\ ClickKept /\ LevelKept /\ Saved


-----------------------------------------------------------------------------
(* Queues. *)

\* The oldest call taken off a queue.
LEMMA TailIs ==
  ASSUME NEW S, NEW q \in Seq(S), q # <<>>
  PROVE  /\ Tail(q) \in Seq(S) /\ Len(Tail(q)) = Len(q) - 1 /\ Len(q) \in Nat \ {0}
         /\ Head(q) = q[1] /\ q[1] \in S
         /\ \A i \in 1..Len(q) - 1 : Tail(q)[i] = q[i + 1]
<1>1. Len(q) \in Nat \ {0}
  BY EmptySeq
<1> QED BY <1>1

\* A call added to a queue.
LEMMA AppendIs ==
  ASSUME NEW S, NEW q \in Seq(S), NEW x \in S
  PROVE  /\ Append(q, x) \in Seq(S) /\ Len(Append(q, x)) = Len(q) + 1 /\ Len(q) \in Nat
         /\ Append(q, x)[Len(q) + 1] = x
         /\ \A i \in 1..Len(q) : Append(q, x)[i] = q[i]
OBVIOUS

-----------------------------------------------------------------------------
(* Types. *)

\* A mix of untouched rows is sound.
LEMMA UnityIs == UnityMix \in SoundMixes
BY DEF UnityMix, SoundMixes, UnityRow, Row

\* A player before its first song.
LEMMA NeverOpenedIs ==
  /\ NeverOpened \in PlayerStates
  /\ NeverOpened.session = 0 /\ NeverOpened.status = "idle" /\ ~NeverOpened.scrub
  /\ ~NeverOpened.sub /\ ~NeverOpened.hold /\ ~NeverOpened.requested /\ ~NeverOpened.click
  /\ NeverOpened.master = "none" /\ NeverOpened.loop = "off" /\ NeverOpened.mix = UnityMix
BY UnityIs DEF NeverOpened, PlayerStates, NoSession, Names0, Levels

\* What the teardown leaves of a player.
LEMMA TornIs ==
  ASSUME NEW pl \in PlayerStates
  PROVE  LET t == torn(pl) IN
         /\ t \in PlayerStates /\ t.session = pl.session
         /\ ~t.scrub /\ ~t.requested /\ t.master = "none"
BY DEF torn, PlayerStates, Levels

\* What the screens see, started over.
LEMMA ClosedStateIs ==
  ASSUME NEW pl \in PlayerStates, NEW status \in {"idle", "loading"}
  PROVE  LET c == closedState(pl, status) IN
         /\ c \in PlayerStates /\ c.session = pl.session /\ c.status = status
         /\ c.loop = "off" /\ ~c.click /\ c.mix = UnityMix
         /\ c.scrub = pl.scrub /\ c.requested = pl.requested /\ c.master = pl.master
         /\ ~pl.scrub => ~c.scrub
         /\ ~pl.requested => ~c.requested
BY UnityIs DEF closedState, PlayerStates, Names0

\* What close leaves of a player.
LEMMA ClosedIs ==
  ASSUME NEW pl \in PlayerStates
  PROVE  LET c == closed(pl) IN
         /\ c \in PlayerStates
         /\ c.session = pl.session + 1 /\ c.status = "idle" /\ c.loop = "off" /\ ~c.click
         /\ c.mix = UnityMix /\ ~c.scrub /\ ~c.sub /\ ~c.hold /\ ~c.requested
         /\ c.master = "none"
<1>1. PICK t \in PlayerStates : t = torn(pl)
  BY TornIs
<1>2. t.session = pl.session /\ ~t.scrub /\ ~t.requested /\ t.master = "none"
  BY <1>1, TornIs
<1>3. PICK c \in PlayerStates : c = closedState(t, "idle")
  BY ClosedStateIs
<1>4. /\ c.session = t.session /\ c.status = "idle" /\ c.loop = "off" /\ ~c.click
      /\ c.mix = UnityMix /\ ~c.scrub /\ ~c.requested /\ c.master = "none"
  BY <1>2, <1>3, ClosedStateIs
<1>5. PICK n \in Nat : n = pl.session + 1 /\ n = c.session + 1
  BY <1>2, <1>4 DEF PlayerStates
<1> DEFINE f == [c EXCEPT !.session = n, !.hold = FALSE, !.sub = FALSE]
<1>6. closed(pl) = f
  BY <1>1, <1>3, <1>5 DEF closed, PlayerStates
<1>7. /\ f \in PlayerStates /\ f.session = n /\ f.status = "idle" /\ f.loop = "off"
      /\ ~f.click /\ f.mix = UnityMix /\ ~f.scrub /\ ~f.sub /\ ~f.hold /\ ~f.requested
      /\ f.master = "none"
  BY <1>4 DEF PlayerStates
<1> HIDE DEF f
<1> QED BY <1>5, <1>6, <1>7

\* What begin makes of a player.
Opened(mine) ==
  [closedState(mine, "loading") EXCEPT !.session = @ + 1, !.hold = TRUE, !.sub = TRUE]

\* A player whose session has just begun.
LEMMA FreshIs ==
  ASSUME NEW pl \in PlayerStates, NEW mine \in {pl, torn(pl)}
  PROVE  LET c == Opened(mine) IN
         /\ c \in PlayerStates
         /\ c.session = pl.session + 1 /\ c.status = "loading" /\ c.loop = "off" /\ ~c.click
         /\ c.mix = UnityMix /\ c.sub /\ c.hold
         /\ mine = pl => c.requested = pl.requested /\ c.master = pl.master
         /\ mine = torn(pl) => ~c.requested /\ c.master = "none"
<1>1. mine \in PlayerStates /\ mine.session = pl.session
  BY TornIs
<1>2. mine = torn(pl) => ~mine.requested /\ mine.master = "none"
  BY TornIs
<1>3. PICK c \in PlayerStates : c = closedState(mine, "loading")
  BY <1>1, ClosedStateIs
<1>4. /\ c.session = mine.session /\ c.status = "loading" /\ c.loop = "off" /\ ~c.click
      /\ c.mix = UnityMix /\ c.requested = mine.requested /\ c.master = mine.master
      /\ ~mine.requested => ~c.requested
  BY <1>1, <1>3, ClosedStateIs
<1>0. PICK k \in Nat : k = pl.session + 1 /\ k = c.session + 1
  BY <1>1, <1>4 DEF PlayerStates
<1> DEFINE f == [c EXCEPT !.session = k, !.hold = TRUE, !.sub = TRUE]
<1>5. /\ f \in PlayerStates
      /\ f.session = k /\ f.status = "loading" /\ f.loop = "off" /\ ~f.click
      /\ f.mix = UnityMix /\ f.sub /\ f.hold
      /\ f.requested = mine.requested /\ f.master = mine.master
      /\ ~mine.requested => ~f.requested
  BY <1>1, <1>4 DEF PlayerStates
<1>6. f = Opened(mine)
  BY <1>0, <1>3 DEF PlayerStates, Opened
<1> HIDE DEF f
<1> QED BY <1>0, <1>2, <1>5, <1>6

\* The engine after a teardown, field by field.
LEMMA TeardownIs ==
  ASSUME NEW e \in EngineStates, NEW pl \in PlayerStates,
         NEW clearOk \in BOOLEAN
  PROVE  LET t == teardown(e, pl, clearOk) IN
         /\ t \in EngineStates
         /\ ~t.playing /\ ~t.card /\ t.holds = e.holds
         /\ t.tracks = (IF pl.requested THEN "none" ELSE e.tracks)
         /\ t.mix = (IF pl.requested THEN UnityMix ELSE e.mix)
         /\ t.master = (IF pl.master = "none" THEN e.master ELSE pl.master)
         /\ IF LoopOn(pl) THEN t.loop = "none" \/ t.stray
                          ELSE t.loop = e.loop /\ t.stray = e.stray
         /\ IF pl.click THEN t.grid = "none" /\ ~t.follow /\ t.metronome = "off"
            ELSE t.grid = e.grid /\ t.follow = e.follow /\ t.metronome = e.metronome
<1> DEFINE quiet == IF pl.click THEN stopClick(e) ELSE e
           stopped == [quiet EXCEPT !.card = FALSE, !.playing = FALSE]
           unlooped == IF LoopOn(pl) THEN WithLoopCleared(stopped, clearOk) ELSE stopped
<1>1. /\ quiet \in EngineStates
      /\ quiet.holds = e.holds /\ quiet.tracks = e.tracks /\ quiet.mix = e.mix
      /\ quiet.master = e.master /\ quiet.loop = e.loop /\ quiet.stray = e.stray
      /\ IF pl.click THEN quiet.grid = "none" /\ ~quiet.follow /\ quiet.metronome = "off"
         ELSE quiet.grid = e.grid /\ quiet.follow = e.follow /\ quiet.metronome = e.metronome
  BY DEF stopClick, EngineStates
<1> HIDE DEF quiet
<1>2. /\ stopped \in EngineStates /\ ~stopped.playing /\ ~stopped.card
      /\ stopped.holds = e.holds /\ stopped.tracks = e.tracks /\ stopped.mix = e.mix
      /\ stopped.master = e.master /\ stopped.loop = e.loop /\ stopped.stray = e.stray
      /\ stopped.grid = quiet.grid /\ stopped.follow = quiet.follow
      /\ stopped.metronome = quiet.metronome
  BY <1>1 DEF EngineStates
<1> HIDE DEF stopped
<1>3. /\ unlooped \in EngineStates /\ ~unlooped.playing /\ ~unlooped.card
      /\ unlooped.holds = e.holds /\ unlooped.tracks = e.tracks /\ unlooped.mix = e.mix
      /\ unlooped.master = e.master
      /\ unlooped.grid = quiet.grid /\ unlooped.follow = quiet.follow
      /\ unlooped.metronome = quiet.metronome
      /\ IF LoopOn(pl) THEN unlooped.loop = "none" \/ unlooped.stray
                       ELSE unlooped.loop = e.loop /\ unlooped.stray = e.stray
  <2>1. CASE LoopOn(pl) /\ clearOk
    <3>1. unlooped = [stopped EXCEPT !.loop = "none", !.stray = FALSE]
      BY <2>1 DEF WithLoopCleared
    <3> QED BY <1>2, <2>1, <3>1 DEF EngineStates
  <2>2. CASE LoopOn(pl) /\ ~clearOk
    <3>1. PICK b \in BOOLEAN : b = (stopped.stray \/ stopped.loop # "none")
      OBVIOUS
    <3>2. unlooped = [stopped EXCEPT !.stray = b]
      BY <2>2, <3>1 DEF WithLoopCleared
    <3>3. stopped.loop = "none" \/ b
      BY <3>1
    <3> QED BY <1>2, <2>2, <3>2, <3>3 DEF EngineStates
  <2>3. CASE ~LoopOn(pl)
    BY <1>2, <2>3
  <2> QED BY <2>1, <2>2, <2>3
<1> HIDE DEF unlooped
<1>4. teardown(e, pl, clearOk) = teardownTracks(unlooped, pl)
  BY DEF teardown, unlooped, stopped, quiet
<1> DEFINE tracks == IF pl.requested THEN "none" ELSE unlooped.tracks
           mix == IF pl.requested THEN UnityMix ELSE unlooped.mix
           master == IF pl.master = "none" THEN unlooped.master ELSE pl.master
<1>5. tracks \in Players \cup {"none"} /\ mix \in SoundMixes /\ master \in Levels
  BY <1>3, UnityIs DEF EngineStates, PlayerStates
<1>6. teardownTracks(unlooped, pl) =
        [unlooped EXCEPT !.tracks = tracks, !.mix = mix, !.master = master]
  BY <1>3 DEF teardownTracks, EngineStates
<1> HIDE DEF tracks, mix, master
<1>7. LET t == teardownTracks(unlooped, pl) IN
      /\ t \in EngineStates /\ ~t.playing /\ ~t.card /\ t.holds = e.holds
      /\ t.tracks = tracks /\ t.mix = mix /\ t.master = master
      /\ t.loop = unlooped.loop /\ t.stray = unlooped.stray
      /\ t.grid = unlooped.grid /\ t.follow = unlooped.follow
      /\ t.metronome = unlooped.metronome
  BY <1>3, <1>5, <1>6 DEF EngineStates
<1> QED BY <1>1, <1>3, <1>4, <1>7 DEF tracks, mix, master

\* The invariant holds before the first song.
LEMMA SessionInit0 == ASSUME SessionInit PROVE SessionTypes /\ SessionInv
<1> USE DEF SessionInit
<1>1. SessionTypes
  <2>1. <<>> \in Seq(Replies) /\ <<>> \in Seq(DbCalls)
    BY EmptySeq
  <2>2. engine \in EngineStates
    BY UnityIs DEF EngineStates, Levels
  <2>3. db \in [queue : Seq(DbCalls), mix : SoundMixes, name : Names0,
             pending : SUBSET SoundMixes, lost : BOOLEAN, unnamed : BOOLEAN]
    BY <2>1, UnityIs DEF Names0
  <2>4. players \in [Players -> PlayerStates] /\ user \in [mix : SoundMixes, master : Levels, name : Names0]
    BY NeverOpenedIs, UnityIs DEF Names0, Levels
  <2>5. screens \in [Screens -> [mounted : BOOLEAN, focused : BOOLEAN, held : Nat]]
    BY DEF NoSession
  <2> QED BY <2>1, <2>2, <2>3, <2>4, <2>5 DEF SessionTypes
<1>2. /\ \A p \in Players : players[p] = NeverOpened
      /\ answers = <<>> /\ db.queue = <<>> /\ Len(<<>>) = 0
      /\ "stem" \in Players /\ "song" \in Players
  BY EmptySeq DEF Players
<1>3. Owned
  <2>1. engine.holds = 0 /\ ~engine.playing /\ ~engine.card /\ claim = "none"
    OBVIOUS
  <2>2. ASSUME NEW p \in Players
        PROVE  (players[p].hold <=> IsOpen(p)) /\ (players[p].sub <=> IsOpen(p))
    <3>1. players[p].hold = FALSE /\ players[p].sub = FALSE /\ players[p].status = "idle"
      BY <1>2 DEF NeverOpened
    <3> QED BY <3>1, Zenon DEF IsOpen
  <2>3. ASSUME NEW p \in Players
        PROVE  /\ ~IsOpen(p) /\ claim # p
               /\ ~players[p].scrub /\ ~players[p].requested /\ ~players[p].click
               /\ players[p].master = "none" /\ players[p].loop = "off"
    BY <1>2, NeverOpenedIs DEF IsOpen, Players
  <2> QED BY <1>2, <2>1, <2>2, <2>3, NeverOpenedIs DEF Owned
<1>4. Held
  <2>1. \A s \in Screens : PlayerOf[s] \in Players /\ screens[s].held = 0
    BY SessionAssumption DEF SessionAssumption, NoSession
  <2> QED BY <1>2, <2>1, NeverOpenedIs DEF Held, HoldLive, NoSession, IsOpen
<1>5. Tracks
  BY <1>2, NeverOpenedIs DEF Tracks, Ready, Players
<1>6. Ordered /\ Reads
  BY <1>2, NeverOpenedIs DEF Ordered, Sound, Arranged, Awaited, Reads, Ready
<1>7. LoopKept
  BY SessionAssumption, <1>2, NeverOpenedIs DEF LoopKept, Ready, LoopFree, LoopOn, SessionAssumption
<1>8. ClickKept
  BY <1>2, NeverOpenedIs DEF ClickKept
<1>9. LevelKept
  BY <1>2, NeverOpenedIs DEF LevelKept
<1>10. Saved
  BY <1>2, NeverOpenedIs DEF Saved, Ready, NoSaves, NoSavesIn, LastSaveIs, LastSaveIn
<1> QED BY <1>1, <1>3, <1>4, <1>5, <1>6, <1>7, <1>8, <1>9, <1>10 DEF SessionInv

-----------------------------------------------------------------------------
(* How the answers change: the first d of them go, and x comes if n. *)

Shifted(q, r, d, n, x) ==
  /\ Len(q) \in Nat /\ Len(r) \in Nat
  /\ \A i \in 1..Len(r) :
       \/ i + d \in 1..Len(q) /\ i + d > d /\ r[i] = q[i + d]
       \/ n /\ i = Len(r) /\ r[i] = x
  /\ \A j \in 1..Len(q) : j > d => j - d \in 1..Len(r) /\ r[j - d] = q[j]
  /\ n => Len(r) \in 1..Len(r) /\ r[Len(r)] = x /\ \A j \in 1..Len(q) : j - d < Len(r)

\* Nothing asked and nothing answered.
LEMMA ShiftSame ==
  ASSUME NEW S, NEW q \in Seq(S), NEW x
  PROVE  Shifted(q, q, 0, FALSE, x)
<1>1. Len(q) \in Nat
  OBVIOUS
<1> QED BY <1>1 DEF Shifted

\* A call is asked.
LEMMA ShiftMore ==
  ASSUME NEW S, NEW q \in Seq(S), NEW x \in S
  PROVE  Append(q, x) \in Seq(S) /\ Shifted(q, Append(q, x), 0, TRUE, x)
<1>1. PICK r \in Seq(S) : r = Append(q, x)
  BY AppendIs
<1>2. /\ Len(q) \in Nat /\ Len(r) = Len(q) + 1 /\ r[Len(q) + 1] = x
      /\ \A i \in 1..Len(q) : r[i] = q[i]
  BY <1>1, AppendIs
<1> QED BY <1>1, <1>2 DEF Shifted

\* The oldest call is answered.
LEMMA ShiftDone ==
  ASSUME NEW S, NEW q \in Seq(S), q # <<>>, NEW x
  PROVE  Tail(q) \in Seq(S) /\ Shifted(q, Tail(q), 1, FALSE, x)
<1>1. PICK r \in Seq(S) : r = Tail(q)
  BY TailIs
<1>2. /\ Len(q) \in Nat \ {0} /\ Len(r) = Len(q) - 1
      /\ \A i \in 1..Len(q) - 1 : r[i] = q[i + 1]
  BY <1>1, TailIs
<1>3. \A j \in 1..Len(q) : j > 1 => j - 1 \in 1..Len(r) /\ r[j - 1] = q[j]
  <2> SUFFICES ASSUME NEW j \in 1..Len(q), j > 1
               PROVE  j - 1 \in 1..Len(r) /\ r[j - 1] = q[j]
    OBVIOUS
  <2>1. j - 1 \in 1..Len(q) - 1 /\ (j - 1) + 1 = j
    BY <1>2
  <2> QED BY <1>2, <2>1
<1> QED BY <1>1, <1>2, <1>3 DEF Shifted

\* The oldest call is answered, and asks the next.
LEMMA ShiftThen ==
  ASSUME NEW S, NEW q \in Seq(S), q # <<>>, NEW x \in S
  PROVE  /\ Append(Tail(q), x) \in Seq(S)
         /\ Shifted(q, Append(Tail(q), x), 1, TRUE, x)
<1>2. PICK r \in Seq(S) : r = Tail(q)
  BY TailIs
<1>3. /\ Len(q) \in Nat \ {0} /\ Len(r) = Len(q) - 1
      /\ \A i \in 1..Len(q) - 1 : r[i] = q[i + 1]
  BY <1>2, TailIs
<1>4. PICK s \in Seq(S) : s = Append(r, x)
  BY AppendIs
<1>5. /\ Len(s) = Len(r) + 1 /\ s[Len(r) + 1] = x
      /\ \A i \in 1..Len(r) : s[i] = r[i]
  BY <1>4, AppendIs
<1>6. \A j \in 1..Len(q) : j > 1 => j - 1 \in 1..Len(s) /\ s[j - 1] = q[j]
  <2> SUFFICES ASSUME NEW j \in 1..Len(q), j > 1
               PROVE  j - 1 \in 1..Len(s) /\ s[j - 1] = q[j]
    OBVIOUS
  <2>1. j - 1 \in 1..Len(q) - 1 /\ (j - 1) + 1 = j
    BY <1>3
  <2> QED BY <1>3, <1>5, <2>1
<1>7. \A i \in 1..Len(s) : \/ i + 1 \in 1..Len(q) /\ i + 1 > 1 /\ s[i] = q[i + 1]
                           \/ i = Len(s) /\ s[i] = x
  BY <1>3, <1>5
<1>8. Len(q) \in Nat /\ Len(s) \in Nat /\ \A j \in 1..Len(q) : j - 1 < Len(s)
  BY <1>3, <1>5
<1>9. Len(s) \in 1..Len(s) /\ s[Len(s)] = x
  BY <1>3, <1>5
<1>10. s = Append(Tail(q), x)
  BY <1>2, <1>4
<1> HIDE <1>2, <1>3, <1>4, <1>5
<1> QED BY <1>6, <1>7, <1>8, <1>9, <1>10 DEF Shifted

Shift(d, n, x) == answers' \in Seq(Replies) /\ Shifted(answers, answers', d, n, x)

Stays(d, a) == \E i \in 1..Len(answers) : i > d /\ answers[i] = a

\* The same of the answers.
LEMMA AnswersSame ==
  ASSUME SessionTypes, answers' = answers, NEW x
  PROVE  Shift(0, FALSE, x)
<1>1. PICK q \in Seq(Replies) : q = answers
  BY DEF SessionTypes
<1>2. Shifted(q, q, 0, FALSE, x)
  BY ShiftSame
<1> QED BY <1>1, <1>2 DEF Shift, Shifted

LEMMA AnswersMore ==
  ASSUME SessionTypes, NEW x \in Replies, answers' = Append(answers, x)
  PROVE  Shift(0, TRUE, x)
<1>1. PICK q \in Seq(Replies) : q = answers
  BY DEF SessionTypes
<1>2. Append(q, x) \in Seq(Replies) /\ Shifted(q, Append(q, x), 0, TRUE, x)
  BY ShiftMore
<1> QED BY <1>1, <1>2 DEF Shift, Shifted

LEMMA AnswersDone ==
  ASSUME SessionTypes, answers # <<>>, answers' = Tail(answers), NEW x
  PROVE  Shift(1, FALSE, x)
<1>1. PICK q \in Seq(Replies) : q = answers
  BY DEF SessionTypes
<1>2. Tail(q) \in Seq(Replies) /\ Shifted(q, Tail(q), 1, FALSE, x)
  BY <1>1, ShiftDone
<1> QED BY <1>1, <1>2 DEF Shift, Shifted

LEMMA AnswersThen ==
  ASSUME SessionTypes, answers # <<>>, NEW x \in Replies, answers' = Append(Tail(answers), x)
  PROVE  Shift(1, TRUE, x)
<1>1. PICK q \in Seq(Replies) : q = answers
  BY DEF SessionTypes
<1>2. /\ Append(Tail(q), x) \in Seq(Replies)
      /\ Shifted(q, Append(Tail(q), x), 1, TRUE, x)
  BY <1>1, ShiftThen
<1> QED BY <1>1, <1>2 DEF Shift, Shifted

\* The same of the database's calls.
QShift(d, n, c) == db'.queue \in Seq(DbCalls) /\ Shifted(db.queue, db'.queue, d, n, c)

\* No database call comes or goes.
LEMMA QueueSame ==
  ASSUME SessionTypes, db'.queue = db.queue, NEW c
  PROVE  QShift(0, FALSE, c)
<1>1. PICK q \in Seq(DbCalls) : q = db.queue
  BY DEF SessionTypes
<1>2. Shifted(q, q, 0, FALSE, c)
  BY ShiftSame
<1> QED BY <1>1, <1>2 DEF QShift

\* A database call is queued.
LEMMA QueueMore ==
  ASSUME SessionTypes, NEW c \in DbCalls, db'.queue = Append(db.queue, c)
  PROVE  QShift(0, TRUE, c)
<1>1. PICK q \in Seq(DbCalls) : q = db.queue
  BY DEF SessionTypes
<1>2. Append(q, c) \in Seq(DbCalls) /\ Shifted(q, Append(q, c), 0, TRUE, c)
  BY ShiftMore
<1> QED BY <1>1, <1>2 DEF QShift

\* The oldest database call finishes.
LEMMA QueueDone ==
  ASSUME SessionTypes, db.queue # <<>>, db'.queue = Tail(db.queue), NEW c
  PROVE  QShift(1, FALSE, c)
<1>1. PICK q \in Seq(DbCalls) : q = db.queue
  BY DEF SessionTypes
<1>2. Tail(q) \in Seq(DbCalls) /\ Shifted(q, Tail(q), 1, FALSE, c)
  BY <1>1, ShiftDone
<1> QED BY <1>1, <1>2 DEF QShift

\* A database call is one.
LEMMA CallIs ==
  ASSUME SessionTypes, NEW k \in 1..Len(db.queue)
  PROVE  db.queue[k] \in DbCalls /\ Len(db.queue) \in Nat
BY DEF SessionTypes

\* The database call that finishes.
LEMMA FirstCallIs ==
  ASSUME SessionTypes, db.queue # <<>>
  PROVE  /\ Oldest(db.queue) = db.queue[1] /\ db.queue[1] \in DbCalls
         /\ Len(db.queue) \in Nat /\ 1 \in 1..Len(db.queue)
<1>1. PICK q \in Seq(DbCalls) : q = db.queue
  BY DEF SessionTypes
<1>2. Len(q) \in Nat \ {0} /\ Head(q) = q[1] /\ q[1] \in DbCalls
  BY <1>1, TailIs
<1> QED BY <1>1, <1>2 DEF Oldest

\* The answer that is taken.
LEMMA HeadIs ==
  ASSUME SessionTypes, answers # <<>>
  PROVE  /\ Oldest(answers) = answers[1] /\ answers[1] \in Replies
         /\ Len(answers) \in Nat /\ 1 \in 1..Len(answers)
<1>1. PICK q \in Seq(Replies) : q = answers
  BY DEF SessionTypes
<1>2. Len(q) \in Nat \ {0} /\ Head(q) = q[1] /\ q[1] \in Replies
  BY <1>1, TailIs
<1> QED BY <1>1, <1>2 DEF Oldest

\* A native call is one.
LEMMA AnswerIs ==
  ASSUME SessionTypes, NEW i \in 1..Len(answers)
  PROVE  answers[i] \in Replies /\ Len(answers) \in Nat
BY DEF SessionTypes

-----------------------------------------------------------------------------
(* How their order changes. *)

\* The calls still under way find what they expect.
LEMMA SoundStep ==
  ASSUME NEW d \in {0, 1}, NEW n \in BOOLEAN, NEW x, Shift(d, n, x), SessionTypes,
         \A a \in Replies : Stays(d, a) => Answering(a)',
         n => Answering(x)'
  PROVE  Sound'
<1> SUFFICES ASSUME NEW i \in 1..Len(answers') PROVE Answering(answers[i])'
  BY DEF Sound
<1>1. CASE i + d \in 1..Len(answers) /\ answers'[i] = answers[i + d]
  <2>1. PICK a \in Replies : a = answers[i + d]
    BY <1>1, AnswerIs
  <2>2. Stays(d, a)
    <3>1. i + d > d
      BY DEF Shift, Shifted
    <3> QED BY <1>1, <2>1, <3>1 DEF Stays
  <2>3. Answering(a)' /\ a = answers'[i]
    BY <1>1, <2>1, <2>2
  <2> QED BY <2>3
<1>2. CASE n /\ answers'[i] = x
  BY <1>2
<1> QED BY <1>1, <1>2 DEF Shift, Shifted

Fits(a, b) ==
  /\ IsLoad(a) => b.kind = "master" /\ ~IsCurrent(b)
  /\ b.kind \in Changes /\ IsCurrent(b) => ~(a.kind \in Changes /\ IsCurrent(a))
  /\ b.kind = "grid" /\ IsCurrent(b) => ~(a.kind = "grid" /\ IsCurrent(a))

\* The calls under way keep to their order.
LEMMA ArrangedStep ==
  ASSUME NEW d \in {0, 1}, NEW n \in BOOLEAN, NEW x \in Replies, Shift(d, n, x),
         SessionTypes, Arranged,
         \A a \in Replies : IsCurrent(a)' => IsCurrent(a),
         n => \A a \in Replies : Stays(d, a) => Fits(a, x)'
  PROVE  Arranged'
<1> DEFINE Old(i) == i + d \in 1..Len(answers) /\ answers'[i] = answers[i + d]
           New(i) == n /\ i = Len(answers') /\ answers'[i] = x
<1>1. \A i \in 1..Len(answers') : Old(i) \/ New(i)
  BY DEF Shift, Shifted
<1>2. ASSUME NEW i \in 1..Len(answers'), NEW j \in 1..Len(answers'), i > j
      PROVE  Fits(answers[j], answers[i])'
  <2>1. CASE Old(i) /\ Old(j)
    <3>1. PICK a \in Replies : a = answers[j + d]
      BY <2>1, AnswerIs
    <3>2. PICK b \in Replies : b = answers[i + d]
      BY <2>1, AnswerIs
    <3>3. i + d \in 1..Len(answers) /\ j + d \in 1..Len(answers) /\ i + d > j + d
      BY <1>2, <2>1
    <3>4. Fits(a, b)
      <4>1. i + d # j + d
        BY <3>3
      <4> QED BY <3>1, <3>2, <3>3, <4>1 DEF Arranged, Fits
    <3>5. Fits(a, b)'
      BY <3>4 DEF Fits, IsLoad
    <3> QED BY <2>1, <3>1, <3>2, <3>5
  <2>2. CASE New(i) /\ Old(j)
    <3>1. PICK a \in Replies : a = answers[j + d]
      BY <2>2, AnswerIs
    <3>2. j + d > d
      BY DEF Shift, Shifted
    <3>3. Stays(d, a)
      BY <2>2, <3>1, <3>2 DEF Stays
    <3>4. Fits(a, x)'
      BY <2>2, <3>3
    <3> QED BY <2>2, <3>1, <3>4
  <2>3. CASE New(j)
    BY <1>2, <2>3 DEF Shift, Shifted
  <2> QED BY <1>1, <2>1, <2>2, <2>3
<1>3. SUFFICES ASSUME NEW i \in 1..Len(answers'), NEW j \in 1..Len(answers')
      PROVE
     /\ IsLoad(answers[j])' /\ i > j => answers'[i].kind = "master" /\ ~IsCurrent(answers[i])'
     /\ i # j /\ answers'[i].kind \in Changes /\ IsCurrent(answers[i])'
          => ~(answers'[j].kind \in Changes /\ IsCurrent(answers[j])')
     /\ i # j /\ answers'[i].kind = "grid" /\ IsCurrent(answers[i])'
          => ~(answers'[j].kind = "grid" /\ IsCurrent(answers[j])')
  BY DEF Arranged
<1>4. i > j => Fits(answers[j], answers[i])'
  BY <1>2
<1>5. j > i => Fits(answers[i], answers[j])'
  BY <1>2
<1>6. i > j \/ j > i \/ i = j
  OBVIOUS
<1> QED BY <1>4, <1>5, <1>6 DEF Fits

\* Whatever an answer finds, it keeps its place in the order.
LEMMA OrderedStep ==
  ASSUME NEW d \in {0, 1}, NEW n \in BOOLEAN, NEW x \in Replies, Shift(d, n, x),
         SessionTypes, Ordered,
         \A q \in Players : /\ players'[q].session \in Nat
                            /\ players[q].session <= players'[q].session,
         \A a \in Replies : IsCurrent(a)' => IsCurrent(a),
         \A a \in Replies : Stays(d, a) /\ Answering(a) /\ IsCurrent(a)' =>
            IsOpen(a.player)' /\ Finds(a)',
         n => /\ Answering(x)'
              /\ \A a \in Replies : Stays(d, a) => Fits(a, x)',
         \A a \in Replies : (Stays(d, a) \/ (n /\ a = x))
              /\ a.kind \in Changes \cup {"grid"} =>
            IsCurrent(a)' \/ \A q \in Players : players'[q].status # "ready"
  PROVE  Ordered'
<1>1. Sound'
  <2>1. ASSUME NEW a \in Replies, Stays(d, a) PROVE Answering(a)'
    <3>1. Answering(a)
      BY <2>1 DEF Ordered, Sound, Stays
    <3>2. a.session <= players'[a.player].session
      <4>1. a.player \in Players /\ a.session \in Nat
        BY DEF Replies
      <4>2. players[a.player].session \in Nat
        BY <4>1 DEF SessionTypes, PlayerStates
      <4> QED BY <3>1, <4>1, <4>2 DEF Answering
    <3>3. IsCurrent(a)' => IsOpen(a.player)' /\ Finds(a)'
      BY <2>1, <3>1
    <3> QED BY <3>1, <3>2, <3>3 DEF Answering
  <2> QED BY <2>1, SoundStep
<1>2. Arranged'
  BY ArrangedStep DEF Ordered
<1>3. Awaited'
  <2> SUFFICES ASSUME NEW p \in Players, Ready(p)', NEW i \in 1..Len(answers'),
                      answers'[i].kind \in Changes \cup {"grid"}
               PROVE  IsCurrent(answers[i])'
    BY DEF Awaited
  <2>1. ~(\A q \in Players : players'[q].status # "ready")
    BY DEF Ready
  <2>2. CASE i + d \in 1..Len(answers) /\ answers'[i] = answers[i + d]
    <3>1. PICK a \in Replies : a = answers[i + d]
      BY <2>2, AnswerIs
    <3>2. Stays(d, a)
      <4>1. i + d > d
        BY DEF Shift, Shifted
      <4> QED BY <2>2, <3>1, <4>1 DEF Stays
    <3>3. a = answers'[i] /\ IsCurrent(a)'
      BY <2>1, <2>2, <3>1, <3>2
    <3> QED BY <3>3
  <2>3. CASE n /\ answers'[i] = x
    <3>1. IsCurrent(x)'
      BY <2>1, <2>3
    <3> QED BY <2>3, <3>1
  <2> QED BY <2>2, <2>3 DEF Shift, Shifted
<1> QED BY <1>1, <1>2, <1>3 DEF Ordered

-----------------------------------------------------------------------------
(* What a step leaves of a player, and what that leaves of the invariant. *)

\* What only a session's beginning, end and loading change of a player.
Core(q) ==
  /\ players'[q].session = players[q].session
  /\ players'[q].status = players[q].status
  /\ players'[q].requested = players[q].requested
  /\ players'[q].master = players[q].master
  /\ players'[q].hold = players[q].hold
  /\ players'[q].sub = players[q].sub

\* One player changes.
LEMMA PlayerSet ==
  ASSUME players \in [Players -> PlayerStates], NEW p \in Players, NEW pl \in PlayerStates,
         players' = [players EXCEPT ![p] = pl]
  PROVE  /\ players' \in [Players -> PlayerStates] /\ players'[p] = pl
         /\ \A q \in Players : q # p => players'[q] = players[q]
OBVIOUS

\* The players are two.
LEMMA TwoPlayers == "stem" \in Players /\ "song" \in Players /\ "none" \notin Players
BY DEF Players

\* While a song is ready it is the only one open, and is not being loaded.
LEMMA ReadyAlone ==
  ASSUME SessionTypes, SessionInv, NEW p \in Players, Ready(p)
  PROVE  /\ claim = p /\ IsOpen(p)
         /\ \A q \in Players : q # p => players[q].status = "idle"
         /\ NoReads
         /\ \A i \in 1..Len(answers) :
              /\ answers[i].kind \in Changes \cup {"grid"} => IsCurrent(answers[i])
              /\ IsCurrent(answers[i]) => /\ answers[i].kind \in Changes \cup {"grid"}
                                       /\ answers[i].player = p /\ Finds(answers[i])
<1>1. claim = p /\ IsOpen(p) /\ \A q \in Players : q # p => players[q].status = "idle"
  BY DEF SessionInv, Owned, Ready, IsOpen
<1>2. NoReads
  <2> SUFFICES ASSUME NEW k \in 1..Len(db.queue), IsRead(db.queue[k]) PROVE FALSE
    BY DEF NoReads
  <2>1. db.queue[k] \in DbCalls
    BY DEF SessionTypes
  <2>2. db.queue[k].player \in Players
    BY <2>1 DEF DbCalls
  <2>3. players[db.queue[k].player].status = "loading"
    BY DEF SessionInv, Reads
  <2> QED BY <1>1, <2>2, <2>3 DEF Ready
<1>3. ASSUME NEW i \in 1..Len(answers)
      PROVE  /\ answers[i].kind \in Changes \cup {"grid"} => IsCurrent(answers[i])
             /\ IsCurrent(answers[i]) => /\ answers[i].kind \in Changes \cup {"grid"}
                                      /\ answers[i].player = p /\ Finds(answers[i])
  <2>1. PICK a \in Replies : a = answers[i]
    BY AnswerIs
  <2>2. a.kind \in Changes \cup {"grid"} => IsCurrent(a)
    BY <2>1 DEF SessionInv, Ordered, Awaited
  <2>3. IsCurrent(a) => IsOpen(a.player) /\ Finds(a)
    BY <2>1 DEF SessionInv, Ordered, Sound, Answering
  <2>4. a.player \in Players /\ a.kind \in Loads \cup Changes \cup {"grid"}
    BY DEF Replies
  <2>5. IsCurrent(a) => a.player = p
    BY <1>1, <2>3, <2>4 DEF IsOpen
  <2>6. a.kind \in Loads /\ IsCurrent(a) => FALSE
    BY <2>3, <2>5 DEF Finds, Loads, Ready
  <2> QED BY <2>1, <2>2, <2>3, <2>4, <2>5, <2>6
<1> QED BY <1>1, <1>2, <1>3

\* While a song loads nothing else is asked of the players.
LEMMA LoadAlone ==
  ASSUME SessionTypes, SessionInv, NEW k \in 1..Len(answers), IsLoad(answers[k])
  PROVE  LET p == answers[k].player IN
         /\ p \in Players /\ claim = p /\ IsOpen(p) /\ players[p].status = "loading"
         /\ \A q \in Players : q # p => players[q].status = "idle"
         /\ \A q \in Players : ~Ready(q)
         /\ NoReads /\ Finds(answers[k])
         /\ \A i \in 1..Len(answers) :
              i > k => answers[i].kind = "master" /\ ~IsCurrent(answers[i])
<1>1. PICK a \in Replies : a = answers[k]
  BY AnswerIs
<1>2. PICK p \in Players : p = a.player
  BY DEF Replies
<1>3. IsCurrent(a) /\ a.kind \in Loads /\ IsOpen(p) /\ Finds(a)
  BY <1>1, <1>2 DEF IsLoad, SessionInv, Ordered, Sound, Answering
<1>4. players[p].status = "loading"
  BY <1>2, <1>3 DEF Finds, Loads
<1>5. claim = p /\ \A q \in Players : q # p => players[q].status = "idle"
  BY <1>3 DEF SessionInv, Owned, IsOpen
<1>6. \A q \in Players : ~Ready(q)
  BY <1>4, <1>5 DEF Ready
<1>7. NoReads
  BY DEF SessionInv, Reads, NoReads
<1>8. \A i \in 1..Len(answers) :
        i > k => answers[i].kind = "master" /\ ~IsCurrent(answers[i])
  BY DEF SessionInv, Ordered, Arranged
<1> QED BY <1>1, <1>2, <1>3, <1>4, <1>5, <1>6, <1>7, <1>8

-----------------------------------------------------------------------------
(* Frames: one part of the invariant each. *)

\* The screens keep their holds.
LEMMA HeldFrame ==
  ASSUME SessionTypes, Held, screens' = screens, top' = top,
         \A q \in Players : /\ players'[q].session = players[q].session
                            /\ players'[q].status = "idle" <=> players[q].status = "idle"
  PROVE  Held'
<1>1. \A s \in Screens : PlayerOf[s] \in Players
  BY SessionAssumption DEF SessionAssumption
<1>2. \A s \in Screens : HoldLive(s)' <=> HoldLive(s)
  BY <1>1 DEF HoldLive, Live
<1>3. \A q \in Players : IsOpen(q)' <=> IsOpen(q)
  BY DEF IsOpen
<1>4. ASSUME top' # "none" PROVE HoldLive(top)'
  <2>1. PICK s \in Screens : s = top /\ s = top'
    BY <1>4 DEF SessionTypes
  <2>2. HoldLive(s)
    BY <1>4, <2>1 DEF Held
  <2>3. HoldLive(s)'
    BY <1>2, <2>2
  <2> QED BY <2>1, <2>3 DEF HoldLive, Live
<1>5. \A p \in Players : IsOpen(p)' => \E s \in Screens : HoldLive(s)' /\ PlayerOf[s] = p
  BY <1>2, <1>3 DEF Held
<1> QED BY <1>1, <1>2, <1>3, <1>4, <1>5 DEF Held

\* The mixer keeps its owner.
LEMMA OwnedFrame ==
  ASSUME Owned, claim' = claim, \A q \in Players : Core(q),
         engine'.holds = engine.holds,
         engine'.playing \/ engine'.card => engine.playing \/ engine.card \/ claim # "none",
         players'["song"].mix = players["song"].mix,
         \A q \in Players :
            \/ IsOpen(q)
            \/ /\ players'[q].scrub => players[q].scrub
               /\ players'[q].click => players[q].click
               /\ players'[q].loop = players[q].loop
  PROVE  Owned'
<1>1. /\ engine'.holds = IF claim' = "none" THEN 0 ELSE 1
      /\ engine'.playing \/ engine'.card => claim' # "none"
      /\ players'["stem"].master = "none" /\ players'["song"].mix = UnityMix
  BY TwoPlayers DEF Owned, Core
<1>2. ASSUME NEW q \in Players
      PROVE  /\ IsOpen(q)' <=> claim' = q
             /\ (players'[q].hold <=> IsOpen(q)') /\ (players'[q].sub <=> IsOpen(q)')
             /\ ~IsOpen(q)' => /\ ~players'[q].scrub /\ ~players'[q].requested
                               /\ ~players'[q].click
                               /\ players'[q].master = "none" /\ players'[q].loop = "off"
  BY DEF Owned, Core, IsOpen
<1> QED BY <1>1, <1>2 DEF Owned

\* A tap on a ready song keeps the mixer its own.
LEMMA TapKeeps ==
  ASSUME SessionTypes, SessionInv, NEW p \in Players, Ready(p),
         claim' = claim, screens' = screens, top' = top,
         \A q \in Players : Core(q),
         \A q \in Players : q # p => players'[q] = players[q],
         players'["song"].mix = players["song"].mix,
         engine'.holds = engine.holds, engine'.tracks = engine.tracks,
         engine'.mix = players'[p].mix
  PROVE  Owned' /\ Held' /\ Tracks'
<1>1. claim = p /\ IsOpen(p)
  BY ReadyAlone
<1>2. Owned'
  <2>1. claim # "none"
    BY <1>1, TwoPlayers
  <2>2. \A q \in Players : IsOpen(q) \/ players'[q] = players[q]
    BY <1>1
  <2> QED BY <2>1, <2>2, OwnedFrame DEF SessionInv
<1>3. Held'
  BY HeldFrame DEF SessionInv, Core
<1>4. Tracks'
  <2>1. \A q \in Players : /\ engine'.tracks = q <=> players'[q].requested
                           /\ players'[q].master # "none" => players'[q].requested
                           /\ Ready(q)' => players'[q].requested
    BY DEF SessionInv, Tracks, Core, Ready
  <2>2. \A q \in Players : Ready(q)' => q = p
    BY ReadyAlone DEF Core, Ready
  <2>3. engine'.tracks = p
    BY DEF SessionInv, Tracks, Ready
  <2>4. engine'.tracks # "stem" => engine'.mix = UnityMix
    <3>1. p # "stem" => p = "song"
      BY DEF Players
    <3> QED BY <2>3, <3>1 DEF SessionInv, Owned
  <2> QED BY <2>1, <2>2, <2>4 DEF Tracks
<1> QED BY <1>2, <1>3, <1>4

\* The database's calls go and come; no song is read again.
LEMMA ReadsShift ==
  ASSUME SessionTypes, Reads, NEW d \in {0, 1}, NEW n \in BOOLEAN, NEW c \in DbCalls,
         QShift(d, n, c), \A q \in Players : Core(q),
         \/ NoReads
         \/ \A i \in 1..Len(answers') :
               IsLoad(answers[i])' => \E j \in 1..Len(answers) : IsLoad(answers[j]),
         n => /\ \/ c.kind = "rename" /\ c.arg \in [from : Names0, to : Names0]
                 \/ c.kind = "save" /\ c.arg \in SoundMixes /\ NoReads
              /\ c.session <= players'[c.player].session
  PROVE  Reads'
<1> DEFINE Told(e) ==
             /\ e.session <= players'[e.player].session
             /\ e.kind = "save" => e.arg \in SoundMixes
             /\ e.kind = "rename" => e.arg \in [from : Names0, to : Names0]
<1>1. ASSUME NEW j \in 1..Len(db.queue) PROVE Told(db.queue[j])
  <2>1. PICK e \in DbCalls : e = db.queue[j]
    BY CallIs
  <2>2. e.player \in Players
    BY DEF DbCalls
  <2>3. /\ e.session <= players[e.player].session
        /\ e.kind = "save" => e.arg \in SoundMixes
        /\ e.kind = "rename" => e.arg \in [from : Names0, to : Names0]
    BY <2>1 DEF Reads
  <2> QED BY <2>1, <2>2, <2>3 DEF Core
<1>2. \A e \in DbCalls : IsRead(e)' <=> IsRead(e)
  BY DEF IsRead, Live, Core, DbCalls
<1>3. ASSUME NEW k \in 1..Len(db'.queue) PROVE Told(db'.queue[k])
  <2>1. CASE k + d \in 1..Len(db.queue) /\ db'.queue[k] = db.queue[k + d]
    <3>1. PICK e \in DbCalls : e = db.queue[k + d] /\ e = db'.queue[k]
      BY <2>1, CallIs
    <3>2. Told(e)
      BY <1>1, <2>1, <3>1
    <3> QED BY <3>1, <3>2
  <2>2. CASE n /\ db'.queue[k] = c
    <3>1. Told(c)
      BY <2>2
    <3> QED BY <2>2, <3>1
  <2> QED BY <2>1, <2>2 DEF QShift, Shifted
<1>4. ASSUME NEW k \in 1..Len(db'.queue), IsRead(db.queue[k])'
      PROVE  /\ k + d \in 1..Len(db.queue) /\ db'.queue[k] = db.queue[k + d]
             /\ IsRead(db.queue[k + d])
  <2>1. db'.queue[k] # c \/ ~n
    BY <1>4 DEF IsRead
  <2>2. k + d \in 1..Len(db.queue) /\ db'.queue[k] = db.queue[k + d]
    BY <2>1 DEF QShift, Shifted
  <2>3. PICK e \in DbCalls : e = db.queue[k + d]
    BY <2>2, CallIs
  <2>4. IsRead(e)'
    BY <1>4, <2>2, <2>3
  <2> QED BY <1>2, <2>2, <2>3, <2>4
<1>5. ASSUME NEW k \in 1..Len(db'.queue), IsRead(db.queue[k])'
      PROVE  /\ players'[db'.queue[k].player].status = "loading"
             /\ ~players'[db'.queue[k].player].requested
             /\ \A i \in 1..Len(answers') : ~IsLoad(answers[i])'
             /\ \A l \in 1..Len(db'.queue) : l # k => ~IsRead(db.queue[l])'
             /\ db'.queue[k].player = "stem" =>
                  \A l \in 1..Len(db'.queue) : l > k => db'.queue[l].kind # "save"
  <2>1. /\ k + d \in 1..Len(db.queue) /\ db'.queue[k] = db.queue[k + d]
        /\ IsRead(db.queue[k + d])
    BY <1>4, <1>5
  <2>2. PICK e \in DbCalls : e = db.queue[k + d] /\ e = db'.queue[k]
    BY <2>1, CallIs
  <2>3. e.player \in Players
    BY DEF DbCalls
  <2>4. ~NoReads
    BY <2>1 DEF NoReads
  <2>5. /\ players[e.player].status = "loading" /\ ~players[e.player].requested
        /\ \A i \in 1..Len(answers) : ~IsLoad(answers[i])
        /\ \A l \in 1..Len(db.queue) : l # k + d => ~IsRead(db.queue[l])
        /\ e.player = "stem" =>
             \A l \in 1..Len(db.queue) : l > k + d => db.queue[l].kind # "save"
    BY <2>1, <2>2 DEF Reads
  <2>6. players'[e.player].status = "loading" /\ ~players'[e.player].requested
    BY <2>3, <2>5 DEF Core
  <2>7. \A i \in 1..Len(answers') : ~IsLoad(answers[i])'
    BY <2>4, <2>5
  <2>8. ASSUME NEW l \in 1..Len(db'.queue), l # k PROVE ~IsRead(db.queue[l])'
    <3> SUFFICES ASSUME IsRead(db.queue[l])' PROVE FALSE
      OBVIOUS
    <3>1. l + d \in 1..Len(db.queue) /\ IsRead(db.queue[l + d])
      BY <1>4
    <3>2. l + d # k + d
      BY <2>8
    <3> QED BY <2>5, <3>1, <3>2
  <2>9. ASSUME e.player = "stem", NEW l \in 1..Len(db'.queue), l > k
        PROVE  db'.queue[l].kind # "save"
    <3>1. CASE l + d \in 1..Len(db.queue) /\ db'.queue[l] = db.queue[l + d]
      <4>1. l + d > k + d
        BY <2>9
      <4> QED BY <2>5, <2>9, <3>1, <4>1
    <3>2. CASE n /\ db'.queue[l] = c
      BY <2>4, <3>2
    <3> QED BY <3>1, <3>2 DEF QShift, Shifted
  <2> QED BY <2>2, <2>6, <2>7, <2>8, <2>9
<1> QED BY <1>3, <1>5 DEF Reads

\* A loop that is on stays as it is.
SameLoop(q) ==
  /\ players'[q].loopBusy = players[q].loopBusy
  /\ \/ players'[q].loop = players[q].loop
     \/ ~LoopOn(players[q]) /\ ~LoopOn(players'[q])

\* The loops shown stay the loop set.
LEMMA LoopKeptFrame ==
  ASSUME SessionTypes, LoopKept, NEW n \in BOOLEAN, NEW x \in Replies, NEW d \in {0, 1},
         Shift(d, n, x), d = 1 => answers[1].kind \notin Changes,
         \A q \in Players : Core(q) /\ SameLoop(q),
         engine'.loop = engine.loop, engine'.stray = engine.stray
  PROVE  LoopKept'
<1>1. ASSUME NEW i \in 1..Len(answers), answers[i].kind \in Changes
      PROVE  \E j \in 1..Len(answers') : answers'[j] = answers[i]
  <2>1. i > d
    BY <1>1, AnswerIs
  <2> QED BY <2>1 DEF Shift, Shifted
<1>2. \A p \in Players : LoopTold(p)' <=> LoopTold(p)
  BY DEF LoopTold, LoopFree, LoopOn, SameLoop
<1>3. \A a \in Replies : IsCurrent(a)' <=> IsCurrent(a)
  BY DEF IsCurrent, Live, Core, Replies
<1>4. ASSUME NEW p \in Players, Ready(p)'
      PROVE  \/ LoopTold(p)'
             \/ \E i \in 1..Len(answers') :
                   answers'[i].kind \in Changes /\ IsCurrent(answers[i])'
  <2>1. Ready(p)
    BY <1>4 DEF Ready, Core
  <2>2. CASE LoopTold(p)
    BY <1>2, <2>2
  <2>3. ASSUME NEW i \in 1..Len(answers), answers[i].kind \in Changes, IsCurrent(answers[i])
        PROVE  \E j \in 1..Len(answers') :
                   answers'[j].kind \in Changes /\ IsCurrent(answers[j])'
    <3>1. PICK a \in Replies : a = answers[i]
      BY AnswerIs
    <3>2. PICK j \in 1..Len(answers') : answers'[j] = a
      BY <1>1, <2>3, <3>1
    <3>3. IsCurrent(a)'
      BY <1>3, <2>3, <3>1
    <3> QED BY <2>3, <3>1, <3>2, <3>3
  <2> QED BY <2>1, <2>2, <2>3 DEF LoopKept
<1>6. \A p \in Players : LoopOn(players[p])' => Ready(p)'
  BY DEF LoopKept, LoopOn, SameLoop, Ready, Core
<1>5. \/ LoopFree'
      \/ \E p \in Players : LoopOn(players[p])'
      \/ \E i \in 1..Len(answers') : answers'[i].kind = "setLoop" /\ answers'[i].ok
  <2>1. CASE LoopFree
    BY <2>1 DEF LoopFree
  <2>2. CASE \E p \in Players : LoopOn(players[p])
    BY <2>2 DEF LoopOn, SameLoop
  <2>3. CASE \E i \in 1..Len(answers) : answers[i].kind = "setLoop" /\ answers[i].ok
    BY <1>1, <2>3 DEF Changes
  <2> QED BY <2>1, <2>2, <2>3 DEF LoopKept
<1> QED BY <1>4, <1>5, <1>6 DEF LoopKept

\* The click shown stays the click that sounds.
LEMMA ClickKeptFrame ==
  ASSUME SessionTypes, ClickKept, NEW n \in BOOLEAN, NEW x \in Replies, NEW d \in {0, 1},
         Shift(d, n, x), d = 1 => answers[1].kind # "grid",
         \A q \in Players : Core(q) /\ players'[q].click = players[q].click,
         engine'.grid = engine.grid, engine'.follow = engine.follow,
         \/ engine'.metronome = engine.metronome
         \/ engine'.metronome # "click" /\ \A q \in Players : ~players[q].click
  PROVE  ClickKept'
<1>1. ASSUME NEW i \in 1..Len(answers), answers[i].kind = "grid"
      PROVE  \E j \in 1..Len(answers') : answers'[j] = answers[i]
  <2>1. i > d
    BY <1>1, AnswerIs
  <2> QED BY <2>1 DEF Shift, Shifted
<1>2. \A p \in Players :
       players'[p].click => /\ Ready(p)' /\ engine'.grid = p
                            /\ engine'.follow /\ engine'.metronome = "click"
  BY DEF ClickKept, Core, Ready
<1>3. (\A p \in Players : ~players'[p].click) =>
        /\ ~engine'.follow /\ engine'.metronome # "click"
        /\ \/ engine'.grid = "none"
           \/ \E i \in 1..Len(answers') : answers'[i].kind = "grid" /\ answers'[i].ok
  <2> SUFFICES ASSUME \A p \in Players : ~players[p].click
               PROVE  /\ ~engine'.follow /\ engine'.metronome # "click"
                      /\ \/ engine'.grid = "none"
                         \/ \E i \in 1..Len(answers') : answers'[i].kind = "grid"
                                                        /\ answers'[i].ok
    OBVIOUS
  <2>1. ~engine'.follow /\ engine'.metronome # "click"
    BY DEF ClickKept
  <2>2. \/ engine.grid = "none"
        \/ \E i \in 1..Len(answers) : answers[i].kind = "grid" /\ answers[i].ok
    BY DEF ClickKept
  <2> QED BY <1>1, <2>1, <2>2
<1> QED BY <1>2, <1>3 DEF ClickKept

\* The saves that are queued, when no save goes or comes.
LEMMA SavesKept ==
  ASSUME NEW q \in Seq(DbCalls), NEW r \in Seq(DbCalls), NEW d \in {0, 1}, NEW n \in BOOLEAN,
         NEW c \in DbCalls, Shifted(q, r, d, n, c),
         d = 1 => q[1].kind # "save", n => c.kind # "save"
  PROVE  /\ NoSavesIn(r) <=> NoSavesIn(q)
         /\ \A mix : LastSaveIn(q, mix) => LastSaveIn(r, mix)
<1>1. ASSUME NEW k \in 1..Len(r), r[k].kind = "save"
      PROVE  k + d \in 1..Len(q) /\ r[k] = q[k + d]
  BY <1>1 DEF Shifted
<1>2. ASSUME NEW l \in 1..Len(q), q[l].kind = "save"
      PROVE  l - d \in 1..Len(r) /\ r[l - d] = q[l]
  <2>1. l > d
    BY <1>2
  <2> QED BY <2>1 DEF Shifted
<1>3. NoSavesIn(r) <=> NoSavesIn(q)
  BY <1>1, <1>2 DEF NoSavesIn
<1>4. ASSUME NEW mix, LastSaveIn(q, mix) PROVE LastSaveIn(r, mix)
  <2> SUFFICES ASSUME NEW k \in 1..Len(r), r[k].kind = "save",
                      \A l \in 1..Len(r) : l > k => r[l].kind # "save"
               PROVE  r[k].arg = mix
    BY DEF LastSaveIn
  <2>1. k + d \in 1..Len(q) /\ r[k] = q[k + d]
    BY <1>1
  <2>2. ASSUME NEW l \in 1..Len(q), l > k + d, q[l].kind = "save" PROVE FALSE
    <3>1. l - d \in 1..Len(r) /\ r[l - d] = q[l]
      BY <1>2, <2>2
    <3>2. l - d > k
      BY <2>2
    <3> QED BY <2>2, <3>1, <3>2
  <2> QED BY <1>4, <2>1, <2>2 DEF LastSaveIn
<1> QED BY <1>3, <1>4

\* A save that comes is the last.
LEMMA SaveComes ==
  ASSUME NEW q \in Seq(DbCalls), NEW r \in Seq(DbCalls), NEW c \in DbCalls,
         Shifted(q, r, 0, TRUE, c), c.kind = "save"
  PROVE  ~NoSavesIn(r) /\ LastSaveIn(r, c.arg)
<1>1. Len(r) \in 1..Len(r) /\ r[Len(r)] = c
  BY DEF Shifted
<1>2. ~NoSavesIn(r)
  BY <1>1 DEF NoSavesIn
<1>3. ASSUME NEW k \in 1..Len(r), r[k].kind = "save",
             \A l \in 1..Len(r) : l > k => r[l].kind # "save"
      PROVE  k = Len(r)
  BY <1>1, <1>3
<1> QED BY <1>1, <1>2, <1>3 DEF LastSaveIn

\* A save that goes was the last, if none is left.
LEMMA SaveGoes ==
  ASSUME NEW q \in Seq(DbCalls), NEW r \in Seq(DbCalls), NEW c, q # <<>>,
         Shifted(q, r, 1, FALSE, c), q[1].kind = "save", NEW mix, LastSaveIn(q, mix)
  PROVE  ~NoSavesIn(q) /\ LastSaveIn(r, mix) /\ (NoSavesIn(r) => q[1].arg = mix)
<1>1. Len(q) \in Nat \ {0} /\ 1 \in 1..Len(q)
  BY TailIs
<1>2. ~NoSavesIn(q)
  BY <1>1 DEF NoSavesIn
<1>3. LastSaveIn(r, mix)
  <2> SUFFICES ASSUME NEW k \in 1..Len(r), r[k].kind = "save",
                      \A l \in 1..Len(r) : l > k => r[l].kind # "save"
               PROVE  r[k].arg = mix
    BY DEF LastSaveIn
  <2>1. k + 1 \in 1..Len(q) /\ r[k] = q[k + 1]
    BY DEF Shifted
  <2>2. ASSUME NEW l \in 1..Len(q), l > k + 1, q[l].kind = "save" PROVE FALSE
    <3>1. l - 1 \in 1..Len(r) /\ r[l - 1] = q[l]
      BY <2>2 DEF Shifted
    <3>2. l - 1 > k
      BY <2>2
    <3> QED BY <2>2, <3>1, <3>2
  <2> QED BY <2>1, <2>2 DEF LastSaveIn
<1>4. ASSUME NoSavesIn(r) PROVE q[1].arg = mix
  <2>1. ASSUME NEW l \in 1..Len(q), l > 1 PROVE q[l].kind # "save"
    <3>1. l - 1 \in 1..Len(r) /\ r[l - 1] = q[l]
      BY <2>1 DEF Shifted
    <3> QED BY <1>4, <3>1 DEF NoSavesIn
  <2> QED BY <1>1, <2>1 DEF LastSaveIn
<1> QED BY <1>2, <1>3, <1>4

\* Saves neither come nor go.
LEMMA SavesShift ==
  ASSUME SessionTypes, NEW d \in {0, 1}, NEW n \in BOOLEAN, NEW c \in DbCalls,
         QShift(d, n, c), d = 1 => db.queue[1].kind # "save", n => c.kind # "save"
  PROVE  /\ NoSaves' <=> NoSaves
         /\ user'.mix = user.mix /\ LastSaveIs(user.mix) => LastSaveIs(user.mix)'
<1>1. PICK q \in Seq(DbCalls), r \in Seq(DbCalls) : q = db.queue /\ r = db'.queue
  BY DEF SessionTypes, QShift
<1>2. /\ NoSavesIn(r) <=> NoSavesIn(q)
      /\ \A mix : LastSaveIn(q, mix) => LastSaveIn(r, mix)
  BY <1>1, SavesKept DEF QShift
<1>3. NoSaves' <=> NoSaves
  BY <1>1, <1>2 DEF NoSaves
<1>4. user'.mix = user.mix /\ LastSaveIs(user.mix) => LastSaveIs(user.mix)'
  BY <1>1, <1>2 DEF LastSaveIs
<1> QED BY <1>3, <1>4

\* What is stored and to be stored stays.
LEMMA SavedFrame ==
  ASSUME SessionTypes, Saved, NEW n \in BOOLEAN, NEW x \in Replies, NEW d \in {0, 1},
         Shift(d, n, x), n => ~(x.player = "stem" /\ x.kind \in Loads /\ IsCurrent(x)'),
         \A q \in Players : Core(q), players'["stem"].mix = players["stem"].mix,
         NoSaves' <=> NoSaves, LastSaveIs(user.mix) => LastSaveIs(user.mix)',
         db'.mix = db.mix, db'.pending = db.pending, db'.lost = db.lost,
         user'.mix = user.mix
  PROVE  Saved'
<1>1. Ready("stem")' <=> Ready("stem")
  BY TwoPlayers DEF Ready, Core
<1>3. (\E i \in 1..Len(answers') : answers'[i].player = "stem" /\ IsLoad(answers[i])')
        => \E i \in 1..Len(answers) : answers[i].player = "stem" /\ IsLoad(answers[i])
  <2> SUFFICES ASSUME NEW i \in 1..Len(answers'), answers'[i].player = "stem",
                      IsLoad(answers[i])'
               PROVE  \E j \in 1..Len(answers) : answers[j].player = "stem"
                                                 /\ IsLoad(answers[j])
    OBVIOUS
  <2>1. CASE i + d \in 1..Len(answers) /\ answers'[i] = answers[i + d]
    <3>1. PICK a \in Replies : a = answers[i + d]
      BY <2>1, AnswerIs
    <3>2. IsLoad(a)'
      BY <2>1, <3>1
    <3>3. IsLoad(a)
      BY <3>2 DEF IsLoad, IsCurrent, Live, Core, Replies
    <3> QED BY <2>1, <3>1, <3>3
  <2>2. CASE n /\ answers'[i] = x
    BY <2>2 DEF IsLoad
  <2> QED BY <2>1, <2>2 DEF Shift, Shifted
<1>4. db'.pending # {} => /\ db'.pending = {user'.mix} /\ Ready("stem")'
                          /\ players'["stem"].mix = user'.mix
  BY <1>1 DEF Saved
<1>5. db'.pending = {} => LastSaveIs(user.mix)' /\ (NoSaves' /\ ~db'.lost => db'.mix = user'.mix)
  BY DEF Saved
<1>6. /\ Ready("stem")' /\ (~NoSaves' \/ ~db'.lost) => players'["stem"].mix = user'.mix
      /\ (\E i \in 1..Len(answers') : answers'[i].player = "stem" /\ IsLoad(answers[i])') =>
           NoSaves' /\ (~db'.lost => players'["stem"].mix = user'.mix)
  BY <1>1, <1>3 DEF Saved
<1> HIDE DEF NoSaves
<1> QED BY <1>4, <1>5, <1>6 DEF Saved

-----------------------------------------------------------------------------
(* Steps that only touch what no call of the players is about. *)

\* The loop, the click and the mix of a player stay.
Light(q) ==
  /\ Core(q) /\ SameLoop(q)
  /\ players'[q].click = players[q].click
  /\ players'[q].clickBusy = players[q].clickBusy
  /\ players'[q].mix = players[q].mix

LightEngine ==
  /\ engine'.holds = engine.holds /\ engine'.tracks = engine.tracks
  /\ engine'.mix = engine.mix /\ engine'.master = engine.master
  /\ engine'.loop = engine.loop /\ engine'.stray = engine.stray
  /\ engine'.grid = engine.grid /\ engine'.follow = engine.follow

\* No call under way tells such a step.
LEMMA LightFinds ==
  ASSUME \A q \in Players : Light(q), LightEngine, NEW a \in Replies, Finds(a)
  PROVE  Finds(a)'
<1>1. PICK p \in Players : p = a.player
  BY DEF Replies
<1>2. LoopTold(p)' <=> LoopTold(p)
  BY DEF LoopTold, LoopFree, LoopOn, Light, SameLoop, LightEngine
<1>3. LoopOn(players[p])' <=> LoopOn(players[p])
  BY DEF LoopOn, Light, SameLoop
<1>4. LoopFree' <=> LoopFree
  BY DEF LoopFree, LightEngine
<1>5. /\ players'[p].status = players[p].status /\ players'[p].session = players[p].session
      /\ players'[p].requested <=> players[p].requested
      /\ players'[p].master = players[p].master /\ players'[p].mix = players[p].mix
      /\ players'[p].loopBusy = players[p].loopBusy
      /\ players'[p].clickBusy = players[p].clickBusy
      /\ players'[p].click <=> players[p].click
      /\ engine'.mix = engine.mix /\ engine'.master = engine.master
      /\ engine'.loop = engine.loop /\ engine'.grid = engine.grid
  BY DEF Light, Core, SameLoop, LightEngine
<1>6. CASE a.kind \in {"start", "cleared", "tracks", "track", "frames"}
  BY <1>1, <1>4, <1>5, <1>6 DEF Finds
<1>7. CASE a.kind = "master"
  BY <1>1, <1>4, <1>5, <1>7 DEF Finds
<1>8. CASE a.kind = "setLoop"
  BY <1>1, <1>2, <1>5, <1>8 DEF Finds
<1>9. CASE a.kind = "clearLoop"
  BY <1>1, <1>2, <1>3, <1>5, <1>9 DEF Finds
<1>10. CASE a.kind = "grid"
  BY <1>1, <1>5, <1>10 DEF Finds
<1> QED BY <1>6, <1>7, <1>8, <1>9, <1>10 DEF Replies, Loads, Changes

\* Such a step keeps each part of the invariant.
LEMMA LightParts ==
  ASSUME SessionTypes, SessionInv,
         players' \in [Players -> PlayerStates], \A q \in Players : Light(q), LightEngine,
         \/ engine'.metronome = engine.metronome
         \/ engine'.metronome # "click" /\ \A q \in Players : ~players[q].click,
         engine'.playing \/ engine'.card => engine.playing \/ engine.card \/ claim # "none",
         \A q \in Players : IsOpen(q) \/ /\ players'[q].scrub => players[q].scrub
                                         /\ players'[q].loop = players[q].loop,
         answers' = answers, claim' = claim, screens' = screens, top' = top,
         user'.master = user.master
  PROVE  /\ Owned' /\ Held' /\ Tracks' /\ Ordered' /\ LoopKept' /\ ClickKept' /\ LevelKept'
         /\ \A q \in Players : Core(q)
         /\ players'["stem"].mix = players["stem"].mix
<1>1. \A q \in Players : Core(q)
  BY DEF Light
<1>2. /\ players'["stem"].mix = players["stem"].mix
      /\ players'["song"].mix = players["song"].mix
  BY TwoPlayers DEF Light
<1>3. Owned'
  <2>1. \A q \in Players :
            \/ IsOpen(q)
            \/ /\ players'[q].scrub => players[q].scrub
               /\ players'[q].click => players[q].click
               /\ players'[q].loop = players[q].loop
    BY DEF Light
  <2> QED BY <1>1, <1>2, <2>1, OwnedFrame DEF SessionInv, LightEngine
<1>4. Held'
  BY <1>1, HeldFrame DEF SessionInv, Core
<1>5. Tracks'
  BY <1>1 DEF SessionInv, Tracks, Core, Light, LightEngine, Ready
<1>6. PICK x \in Replies : x = [kind |-> "start", player |-> "stem", session |-> 0,
                                ok |-> TRUE, arg |-> "none"]
  BY TwoPlayers DEF Replies, Loads
<1>7. Shift(0, FALSE, x)
  BY AnswersSame
<1>8. Ordered'
  <2>1. \A q \in Players : /\ players'[q].session \in Nat
                           /\ players[q].session <= players'[q].session
    BY <1>1 DEF Core, PlayerStates
  <2>2. \A a \in Replies : IsCurrent(a)' <=> IsCurrent(a)
    BY <1>1 DEF IsCurrent, Live, Core, Replies
  <2>3. \A a \in Replies : Answering(a) /\ IsCurrent(a)' => IsOpen(a.player)' /\ Finds(a)'
    <3> SUFFICES ASSUME NEW a \in Replies, Answering(a), IsCurrent(a)'
                 PROVE  IsOpen(a.player)' /\ Finds(a)'
      OBVIOUS
    <3>1. IsOpen(a.player) /\ Finds(a)
      BY <2>2 DEF Answering
    <3>2. Finds(a)'
      BY <3>1, LightFinds
    <3>3. IsOpen(a.player)'
      BY <1>1, <3>1 DEF IsOpen, Core, Replies
    <3> QED BY <3>2, <3>3
  <2>4. ASSUME NEW a \in Replies, Stays(0, a), a.kind \in Changes \cup {"grid"}
        PROVE  IsCurrent(a)' \/ \A q \in Players : players'[q].status # "ready"
    <3> SUFFICES ASSUME NEW q \in Players, players'[q].status = "ready" PROVE IsCurrent(a)'
      OBVIOUS
    <3>1. Ready(q)
      BY <1>1 DEF Ready, Core
    <3>2. IsCurrent(a)
      BY <2>4, <3>1 DEF SessionInv, Ordered, Awaited, Stays
    <3> QED BY <2>2, <3>2
  <2> QED BY <1>7, <2>1, <2>2, <2>3, <2>4, OrderedStep DEF SessionInv
<1>9. LoopKept'
  <2>1. \A q \in Players : Core(q) /\ SameLoop(q)
    BY DEF Light
  <2>2. LoopKept /\ engine'.loop = engine.loop /\ engine'.stray = engine.stray
    BY DEF SessionInv, LightEngine
  <2>3. 0 \in {0, 1} /\ (0 = 1 => answers[1].kind \notin Changes)
    OBVIOUS
  <2> QED BY <1>7, <2>1, <2>2, <2>3, LoopKeptFrame
<1>10. ClickKept'
  <2>1. \A q \in Players : Core(q) /\ players'[q].click = players[q].click
    BY DEF Light
  <2>2. ClickKept /\ engine'.grid = engine.grid /\ engine'.follow = engine.follow
    BY DEF SessionInv, LightEngine
  <2>3. 0 \in {0, 1} /\ (0 = 1 => answers[1].kind # "grid")
    OBVIOUS
  <2> QED BY <1>7, <2>1, <2>2, <2>3, ClickKeptFrame
<1>11. LevelKept'
  BY <1>1, TwoPlayers DEF SessionInv, LevelKept, Core, LightEngine
<1> QED BY <1>1, <1>2, <1>3, <1>4, <1>5, <1>8, <1>9, <1>10, <1>11

\* With the database left alone, that is the whole of it.
LEMMA LightStep ==
  ASSUME SessionTypes, SessionInv,
         players' \in [Players -> PlayerStates], \A q \in Players : Light(q),
         engine' \in EngineStates, LightEngine,
         \/ engine'.metronome = engine.metronome
         \/ engine'.metronome # "click" /\ \A q \in Players : ~players[q].click,
         engine'.playing \/ engine'.card => engine.playing \/ engine.card \/ claim # "none",
         \A q \in Players : IsOpen(q) \/ /\ players'[q].scrub => players[q].scrub
                                         /\ players'[q].loop = players[q].loop,
         answers' = answers, claim' = claim, screens' = screens, top' = top,
         user' = user, db' = db, editing' \in Screens \cup {"none"}
  PROVE  SessionTypes' /\ SessionInv'
<1>1. /\ Owned' /\ Held' /\ Tracks' /\ Ordered' /\ LoopKept' /\ ClickKept' /\ LevelKept'
      /\ \A q \in Players : Core(q)
      /\ players'["stem"].mix = players["stem"].mix
  BY LightParts
<1>2. PICK x \in Replies : x = [kind |-> "start", player |-> "stem", session |-> 0,
                                ok |-> TRUE, arg |-> "none"]
  BY TwoPlayers DEF Replies, Loads
<1>3. PICK c \in DbCalls : c = [kind |-> "read", player |-> "stem", session |-> 0, arg |-> {}]
  BY TwoPlayers DEF DbCalls
<1>4. Shift(0, FALSE, x) /\ QShift(0, FALSE, c)
  BY AnswersSame, QueueSame
<1>5. Reads'
  <2>1. \A i \in 1..Len(answers') :
            IsLoad(answers[i])' => \E j \in 1..Len(answers) : IsLoad(answers[j])
    <3> SUFFICES ASSUME NEW i \in 1..Len(answers), IsLoad(answers[i])'
                 PROVE  IsLoad(answers[i])
      OBVIOUS
    <3>1. PICK a \in Replies : a = answers[i] /\ a = answers'[i]
      BY AnswerIs
    <3>2. IsLoad(a)'
      BY <3>1
    <3>3. IsLoad(a)
      BY <1>1, <3>2 DEF IsLoad, IsCurrent, Live, Core, Replies
    <3> QED BY <3>1, <3>3
  <2> QED BY <1>1, <1>4, <2>1, ReadsShift DEF SessionInv
<1>6. Saved'
  <2>1. (NoSaves' <=> NoSaves) /\ (LastSaveIs(user.mix) => LastSaveIs(user.mix)')
    BY DEF NoSaves, NoSavesIn, LastSaveIs, LastSaveIn
  <2> QED BY <1>1, <1>4, <2>1, SavedFrame DEF SessionInv
<1>7. SessionTypes'
  BY DEF SessionTypes
<1> QED BY <1>1, <1>5, <1>6, <1>7 DEF SessionInv

-----------------------------------------------------------------------------
(* Taps on a ready song. *)

\* A tap on a ready song keeps the invariant if it keeps its loop, click and saves.
LEMMA ReadyStep ==
  ASSUME SessionTypes, SessionInv, NEW p \in Players, Ready(p),
         players' \in [Players -> PlayerStates], \A q \in Players : Core(q),
         NEW d \in {0, 1}, NEW n \in BOOLEAN, NEW x \in Replies, Shift(d, n, x),
         \A a \in Replies : Stays(d, a) /\ a.player = p /\ a.kind \in Changes \cup {"grid"}
                              /\ Finds(a) => Finds(a)',
         n => /\ x.kind \in Changes \cup {"grid"} /\ x.player = p
              /\ x.session = players[p].session /\ Finds(x)'
              /\ x.kind = "setLoop" => x.arg \in LoopAsked
              /\ x.kind = "clearLoop" => x.arg \in {"none"} \cup Loops
              /\ \A a \in Replies : Stays(d, a) =>
                   /\ x.kind \in Changes => a.kind \notin Changes
                   /\ x.kind = "grid" => a.kind # "grid"
  PROVE  Ordered'
<1>1. \A q \in Players : /\ players'[q].session \in Nat
                         /\ players[q].session <= players'[q].session
  BY DEF Core, PlayerStates
<1>2. \A a \in Replies : IsCurrent(a)' <=> IsCurrent(a)
  BY DEF IsCurrent, Live, Core, Replies
<1>3. ASSUME NEW a \in Replies, Stays(d, a)
      PROVE  /\ a.kind \in Changes \cup {"grid"} => IsCurrent(a)
             /\ IsCurrent(a) => /\ a.kind \in Changes \cup {"grid"}
                             /\ a.player = p /\ Finds(a)
  BY <1>3, ReadyAlone DEF Stays
<1>4. IsOpen(p)'
  BY DEF IsOpen, Ready, Core
<1>5. \A a \in Replies : Stays(d, a) /\ Answering(a) /\ IsCurrent(a)' =>
         IsOpen(a.player)' /\ Finds(a)'
  BY <1>2, <1>3, <1>4
<1>6. ASSUME n PROVE Answering(x)' /\ \A a \in Replies : Stays(d, a) => Fits(a, x)'
  <2>1. IsCurrent(x)' /\ x.session <= players'[x.player].session
    BY <1>1, <1>6 DEF IsCurrent, Live, Core, PlayerStates
  <2>2. x.kind \notin Loads /\ x.kind \in Changes \cup {"grid"}
    BY <1>6 DEF Changes, Loads
  <2>3. Answering(x)'
    BY <1>4, <1>6, <2>1, <2>2 DEF Answering, Loads
  <2>4. ASSUME NEW a \in Replies, Stays(d, a) PROVE Fits(a, x)'
    <3>1. ~IsLoad(a)'
      BY <1>2, <1>3, <2>4 DEF IsLoad, Loads, Changes
    <3>2. x.kind \in Changes => a.kind \notin Changes
      BY <1>6, <2>4
    <3>3. x.kind = "grid" => a.kind # "grid"
      BY <1>6, <2>4
    <3> QED BY <3>1, <3>2, <3>3 DEF Fits
  <2> QED BY <2>3, <2>4
<1>7. \A a \in Replies : (Stays(d, a) \/ (n /\ a = x)) /\ a.kind \in Changes \cup {"grid"} =>
        IsCurrent(a)' \/ \A q \in Players : players'[q].status # "ready"
  <2>1. n => IsCurrent(x)'
    BY DEF IsCurrent, Live, Core
  <2> QED BY <1>2, <1>3, <2>1
<1> QED BY <1>1, <1>2, <1>5, <1>6, <1>7, OrderedStep DEF SessionInv

-----------------------------------------------------------------------------
(* The taps and the other steps that touch no call. *)

\* One player changes, lightly.
LEMMA LightOne ==
  ASSUME players \in [Players -> PlayerStates], NEW p \in Players, NEW pl \in PlayerStates,
         players' = [players EXCEPT ![p] = pl],
         pl.session = players[p].session, pl.status = players[p].status,
         pl.requested = players[p].requested, pl.master = players[p].master,
         pl.hold = players[p].hold, pl.sub = players[p].sub,
         pl.click = players[p].click, pl.clickBusy = players[p].clickBusy,
         pl.mix = players[p].mix, pl.loopBusy = players[p].loopBusy,
         pl.loop = players[p].loop \/ (~LoopOn(players[p]) /\ ~LoopOn(pl))
  PROVE  players' \in [Players -> PlayerStates] /\ \A q \in Players : Light(q)
<1>1. /\ players' \in [Players -> PlayerStates] /\ players'[p] = pl
      /\ \A q \in Players : q # p => players'[q] = players[q]
  BY PlayerSet
<1>2. Light(p)
  BY <1>1 DEF Light, Core, SameLoop
<1>3. \A q \in Players : q # p => Light(q)
  BY <1>1 DEF Light, Core, SameLoop
<1> QED BY <1>1, <1>2, <1>3

\* Playing, the card and the tool are not the calls' business.
LEMMA LightEngineIs ==
  ASSUME engine \in EngineStates, NEW a \in BOOLEAN, NEW b \in BOOLEAN,
         engine' = [engine EXCEPT !.playing = a, !.card = b]
  PROVE  /\ engine' \in EngineStates /\ LightEngine /\ engine'.metronome = engine.metronome
         /\ engine'.playing = a /\ engine'.card = b
BY DEF LightEngine, EngineStates

\* A tap, or a timer, that starts or stops the song or changes what no call is about.
LEMMA LightTap ==
  ASSUME SessionTypes, SessionInv,
         NEW p \in Players, claim = p, NEW pl \in PlayerStates,
         players' = [players EXCEPT ![p] = pl],
         pl.session = players[p].session, pl.status = players[p].status,
         pl.requested = players[p].requested, pl.master = players[p].master,
         pl.hold = players[p].hold, pl.sub = players[p].sub,
         pl.click = players[p].click, pl.clickBusy = players[p].clickBusy,
         pl.mix = players[p].mix, pl.loopBusy = players[p].loopBusy,
         pl.loop = players[p].loop \/ (~LoopOn(players[p]) /\ ~LoopOn(pl)),
         NEW a \in BOOLEAN, NEW b \in BOOLEAN,
         engine' = [engine EXCEPT !.playing = a, !.card = b],
         UNCHANGED <<answers, claim, screens, top, user, db, editing>>
  PROVE  SessionTypes' /\ SessionInv'
<1>1. players' \in [Players -> PlayerStates] /\ \A q \in Players : Light(q)
  BY LightOne DEF SessionTypes
<1>2. engine' \in EngineStates /\ LightEngine /\ engine'.metronome = engine.metronome
  BY LightEngineIs DEF SessionTypes
<1>3. claim # "none" /\ IsOpen(p) /\ editing' \in Screens \cup {"none"}
  BY TwoPlayers DEF SessionInv, Owned, SessionTypes
<1>4. \A q \in Players : q # p => players'[q] = players[q]
  BY PlayerSet DEF SessionTypes
<1>5. \A q \in Players : IsOpen(q) \/ /\ players'[q].scrub => players[q].scrub
                                      /\ players'[q].loop = players[q].loop
  BY <1>3, <1>4
<1> QED BY <1>1, <1>2, <1>3, <1>5, LightStep

\* Who is tapped is ready, and has the mixer.
LEMMA TapIs ==
  ASSUME SessionTypes, SessionInv, NEW p, Tap(p)
  PROVE  /\ p \in Players /\ Ready(p) /\ claim = p
         /\ UNCHANGED <<claim, screens, top, stopEvent>>
<1>1. p \in Players
  BY SessionAssumption DEF Tap, SessionAssumption, SessionTypes
<1> QED BY <1>1, ReadyAlone DEF Tap

\* The engine, playing or not.
LEMMA EngineIsEx ==
  ASSUME engine \in EngineStates
  PROVE  /\ engine = [engine EXCEPT !.playing = engine.playing, !.card = engine.card]
         /\ engine.playing \in BOOLEAN /\ engine.card \in BOOLEAN
BY DEF EngineStates

\* Play, scrub and seek.
LEMMA PlayTap ==
  ASSUME SessionTypes, SessionInv, NEW p \in Players,
         TogglePlay(p) \/ Scrub(p) \/ Seek(p)
  PROVE  SessionTypes' /\ SessionInv'
<1>1. /\ Ready(p) /\ claim = p /\ UNCHANGED <<claim, screens, top>>
      /\ UNCHANGED <<answers, user, db, editing>>
  BY TapIs DEF TogglePlay, Scrub, Seek, Playing
<1>2. players \in [Players -> PlayerStates] /\ engine \in EngineStates
  BY DEF SessionTypes
<1>3. PICK b \in BOOLEAN : players' = [players EXCEPT ![p].scrub = b]
  <2>1. PICK b : b = players[p].scrub
    OBVIOUS
  <2>2. b \in BOOLEAN /\ players = [players EXCEPT ![p].scrub = b]
    BY <1>2, <2>1 DEF PlayerStates
  <2>3. \A over \in BOOLEAN : (b /\ ~over) \in BOOLEAN
    OBVIOUS
  <2> QED BY <2>1, <2>2, <2>3 DEF TogglePlay, Scrub, Seek
<1>4. PICK pl \in PlayerStates : pl = [players[p] EXCEPT !.scrub = b]
  BY <1>2 DEF PlayerStates
<1>5. players' = [players EXCEPT ![p] = pl]
  BY <1>2, <1>3, <1>4
<1>6. PICK a \in BOOLEAN, c \in BOOLEAN :
        engine' = [engine EXCEPT !.playing = a, !.card = c]
  <2>1. CASE engine' = engine
    BY <1>2, <2>1, EngineIsEx
  <2>2. CASE engine' = [engine EXCEPT !.playing = FALSE]
    <3>1. engine' = [engine EXCEPT !.playing = FALSE, !.card = engine.card]
      BY <1>2, <2>2 DEF EngineStates
    <3> QED BY <1>2, <3>1, EngineIsEx
  <2>3. CASE engine' = [engine EXCEPT !.playing = TRUE, !.card = TRUE]
    BY <2>3
  <2> QED BY <2>1, <2>2, <2>3 DEF TogglePlay, Scrub, Seek
<1>7. /\ pl.session = players[p].session /\ pl.status = players[p].status
      /\ pl.requested = players[p].requested /\ pl.master = players[p].master
      /\ pl.hold = players[p].hold /\ pl.sub = players[p].sub
      /\ pl.click = players[p].click /\ pl.clickBusy = players[p].clickBusy
      /\ pl.mix = players[p].mix /\ pl.loopBusy = players[p].loopBusy
      /\ pl.loop = players[p].loop
  BY <1>2, <1>4 DEF PlayerStates
<1> QED BY <1>1, <1>5, <1>6, <1>7, LightTap

\* The row's name is being edited.
LEMMA EditTap ==
  ASSUME SessionTypes, SessionInv, StartRename
  PROVE  SessionTypes' /\ SessionInv'
<1>1. /\ UNCHANGED <<claim, screens, top>> /\ UNCHANGED <<players, answers, db, engine, user>>
      /\ editing' \in Screens \cup {"none"}
  BY DEF StartRename, Tap, SessionTypes
<1>2. /\ players' \in [Players -> PlayerStates] /\ engine' \in EngineStates
      /\ \A q \in Players : Light(q)
  BY <1>1 DEF SessionTypes, Light, Core, SameLoop
<1>3. LightEngine
  BY <1>1 DEF LightEngine
<1> QED BY <1>1, <1>2, <1>3, LightStep

\* A loop armed or dropped before it was set, and the undo that is dismissed.
LEMMA LoopTap ==
  ASSUME SessionTypes, SessionInv, NEW p \in Players, claim = p,
         NEW loop \in {"off", "armed"} \cup Loops, NEW undo \in {"none"} \cup Loops,
         NEW scrub \in BOOLEAN,
         loop = players[p].loop \/ (~LoopOn(players[p]) /\ loop \notin Loops),
         players' = [players EXCEPT ![p].loop = loop, ![p].undo = undo, ![p].scrub = scrub],
         UNCHANGED <<answers, engine, claim, screens, top, user, db, editing>>
  PROVE  SessionTypes' /\ SessionInv'
<1>1. players \in [Players -> PlayerStates] /\ engine \in EngineStates
  BY DEF SessionTypes
<1>2. PICK pl \in PlayerStates :
        pl = [players[p] EXCEPT !.loop = loop, !.undo = undo, !.scrub = scrub]
  BY <1>1 DEF PlayerStates
<1>3. players' = [players EXCEPT ![p] = pl]
  BY <1>1, <1>2
<1>4. /\ pl.session = players[p].session /\ pl.status = players[p].status
      /\ pl.requested = players[p].requested /\ pl.master = players[p].master
      /\ pl.hold = players[p].hold /\ pl.sub = players[p].sub
      /\ pl.click = players[p].click /\ pl.clickBusy = players[p].clickBusy
      /\ pl.mix = players[p].mix /\ pl.loopBusy = players[p].loopBusy
      /\ pl.loop = loop
  BY <1>1, <1>2 DEF PlayerStates
<1>5. pl.loop = players[p].loop \/ (~LoopOn(players[p]) /\ ~LoopOn(pl))
  BY <1>4 DEF LoopOn
<1>6. PICK a \in BOOLEAN, c \in BOOLEAN :
        engine' = [engine EXCEPT !.playing = a, !.card = c]
  BY <1>1, EngineIsEx
<1> QED BY <1>3, <1>4, <1>5, <1>6, LightTap

\* A player with another loop.
LEMMA PlayerIsEx ==
  ASSUME players \in [Players -> PlayerStates], NEW p \in Players
  PROVE  /\ players[p].loop \in {"off", "armed"} \cup Loops
         /\ players[p].undo \in {"none"} \cup Loops /\ players[p].scrub \in BOOLEAN
         /\ \A v : [players EXCEPT ![p].undo = v] =
                   [players EXCEPT ![p].loop = players[p].loop, ![p].undo = v,
                                   ![p].scrub = players[p].scrub]
         /\ \A v : [players EXCEPT ![p].scrub = v] =
                   [players EXCEPT ![p].loop = players[p].loop, ![p].undo = players[p].undo,
                                   ![p].scrub = v]
         /\ \A v : [players EXCEPT ![p].loop = v] =
                   [players EXCEPT ![p].loop = v, ![p].undo = players[p].undo,
                                   ![p].scrub = players[p].scrub]
         /\ \A v, w : [players EXCEPT ![p].loop = v, ![p].undo = w] =
                   [players EXCEPT ![p].loop = v, ![p].undo = w,
                                   ![p].scrub = players[p].scrub]
BY DEF PlayerStates

\* The undo of a loop is dismissed.
LEMMA UndoDismissed ==
  ASSUME SessionTypes, SessionInv, DismissLoopUndo
  PROVE  SessionTypes' /\ SessionInv'
<1>1. /\ claim = "stem" /\ UNCHANGED <<claim, screens, top>>
      /\ UNCHANGED <<answers, user, db, editing, engine>>
      /\ players' = [players EXCEPT !["stem"].undo = "none"]
  BY TapIs DEF DismissLoopUndo, Playing
<1>2. players \in [Players -> PlayerStates]
  BY DEF SessionTypes
<1>3. /\ players["stem"].loop \in {"off", "armed"} \cup Loops
      /\ players["stem"].scrub \in BOOLEAN
      /\ players' = [players EXCEPT !["stem"].loop = players["stem"].loop,
                        !["stem"].undo = "none", !["stem"].scrub = players["stem"].scrub]
  BY <1>1, <1>2, PlayerIsEx, TwoPlayers
<1>4. PICK loop \in {"off", "armed"} \cup Loops : loop = players["stem"].loop
  BY <1>3
<1>5. PICK scrub \in BOOLEAN : scrub = players["stem"].scrub
  BY <1>3
<1> QED BY <1>1, <1>3, <1>4, <1>5, TwoPlayers, LoopTap

\* The loop key arms, and drops what it armed.
LEMMA LoopArmed ==
  ASSUME SessionTypes, SessionInv, NEW p \in Players, claim = p,
         ~LoopOn(players[p]),
         \/ players' = [players EXCEPT ![p].loop = "armed", ![p].undo = "none"]
         \/ players' = [players EXCEPT ![p].loop = "off"],
         UNCHANGED <<answers, engine, claim, screens, top, user, db, editing>>
  PROVE  SessionTypes' /\ SessionInv'
<1>1. players \in [Players -> PlayerStates]
  BY DEF SessionTypes
<1>2. PICK loop \in {"off", "armed"}, undo \in {"none"} \cup Loops, scrub \in BOOLEAN :
        players' = [players EXCEPT ![p].loop = loop, ![p].undo = undo, ![p].scrub = scrub]
  <2>1. PICK undo \in {"none"} \cup Loops : undo = players[p].undo
    BY <1>1, PlayerIsEx
  <2>2. PICK scrub \in BOOLEAN : scrub = players[p].scrub
    BY <1>1, PlayerIsEx
  <2>3. CASE players' = [players EXCEPT ![p].loop = "armed", ![p].undo = "none"]
    <3>1. players' = [players EXCEPT ![p].loop = "armed", ![p].undo = "none", ![p].scrub = scrub]
      <4>1. [players[p] EXCEPT !.loop = "armed", !.undo = "none"] =
              [players[p] EXCEPT !.loop = "armed", !.undo = "none", !.scrub = scrub]
        BY <1>1, <2>2 DEF PlayerStates
      <4>2. players' = [players EXCEPT ![p] =
                          [players[p] EXCEPT !.loop = "armed", !.undo = "none"]]
        BY <1>1, <2>3
      <4>3. players' = [players EXCEPT ![p] =
                  [players[p] EXCEPT !.loop = "armed", !.undo = "none", !.scrub = scrub]]
        BY <4>1, <4>2
      <4> QED BY <1>1, <4>3
    <3> QED BY <3>1
  <2>4. CASE players' = [players EXCEPT ![p].loop = "off"]
    <3>1. players' = [players EXCEPT ![p].loop = "off", ![p].undo = undo, ![p].scrub = scrub]
      BY <1>1, <2>1, <2>2, <2>4, PlayerIsEx
    <3> QED BY <3>1
  <2> QED BY <2>3, <2>4
<1>3. loop \in {"off", "armed"} \cup Loops /\ loop \notin Loops
  BY SessionAssumption DEF SessionAssumption
<1> QED BY <1>2, <1>3, LoopTap

\* A jump drops the seek that was pending.
LEMMA Unscrubbed ==
  ASSUME SessionTypes, SessionInv, NEW p \in Players, claim = p,
         players' = [players EXCEPT ![p].scrub = FALSE],
         UNCHANGED <<answers, engine, claim, screens, top, user, db, editing>>
  PROVE  SessionTypes' /\ SessionInv'
<1>1. players \in [Players -> PlayerStates]
  BY DEF SessionTypes
<1>2. PICK undo \in {"none"} \cup Loops : undo = players[p].undo
  BY <1>1, PlayerIsEx
<1>3. PICK loop \in {"off", "armed"} \cup Loops : loop = players[p].loop
  BY <1>1, PlayerIsEx
<1>4. players' = [players EXCEPT ![p].loop = loop, ![p].undo = undo, ![p].scrub = FALSE]
  BY <1>1, <1>2, <1>3, PlayerIsEx
<1> QED BY <1>3, <1>4, LoopTap

\* The pending seek fires.
LEMMA ScrubTimer ==
  ASSUME SessionTypes, SessionInv, NEW p \in Players, ScrubFires(p)
  PROVE  SessionTypes' /\ SessionInv'
<1>1. claim = p
  BY DEF ScrubFires, SessionInv, Owned
<1> QED BY <1>1, Unscrubbed DEF ScrubFires

\* What the card, the end of the song and the metronome tool do to the engine.
LEMMA EngineStops ==
  ASSUME SessionTypes, SessionInv, CardStop \/ SongEnds
  PROVE  SessionTypes' /\ SessionInv'
<1>1. UNCHANGED <<claim, players, screens, top, editing, answers, db, user>>
  BY DEF CardStop, SongEnds
<1>2. engine \in EngineStates
  BY DEF SessionTypes
<1>3. PICK a \in BOOLEAN, b \in BOOLEAN :
        /\ engine' = [engine EXCEPT !.playing = a, !.card = b]
        /\ a \/ b => engine.playing \/ engine.card
  <2>1. CASE CardStop
    <3>1. engine' = [engine EXCEPT !.playing = FALSE, !.card = FALSE]
      BY <1>2, <2>1 DEF CardStop, EngineStates
    <3> QED BY <3>1
  <2>2. CASE SongEnds
    <3>1. PICK b \in BOOLEAN : b = engine.card
      BY <1>2, EngineIsEx
    <3>2. engine' = [engine EXCEPT !.playing = FALSE, !.card = b]
      BY <1>2, <2>2, <3>1 DEF SongEnds, EngineStates
    <3> QED BY <3>1, <3>2
  <2> QED BY <2>1, <2>2
<1>4. /\ engine' \in EngineStates /\ LightEngine /\ engine'.metronome = engine.metronome
      /\ engine'.playing = a /\ engine'.card = b
  BY <1>2, <1>3, LightEngineIs
<1>5. /\ players' \in [Players -> PlayerStates] /\ \A q \in Players : Light(q)
      /\ editing' \in Screens \cup {"none"}
  BY <1>1 DEF SessionTypes, Light, Core, SameLoop
<1> QED BY <1>1, <1>3, <1>4, <1>5, LightStep

\* With no screen mounted no song is open.
LEMMA NoneMounted ==
  ASSUME SessionInv, \A s \in Screens : ~screens[s].mounted
  PROVE  \A q \in Players : ~IsOpen(q) /\ ~players[q].click
<1>1. \A s \in Screens : ~HoldLive(s)
  BY DEF SessionInv, Held, HoldLive
<1>2. \A q \in Players : ~IsOpen(q)
  BY <1>1 DEF SessionInv, Held
<1> QED BY <1>2 DEF SessionInv, Owned

\* The metronome tool starts.
LEMMA ToolOn ==
  ASSUME SessionTypes, SessionInv, ToolStarts
  PROVE  SessionTypes' /\ SessionInv'
<1>1. UNCHANGED <<claim, players, screens, top, editing, answers, db, user>>
  BY DEF ToolStarts
<1>2. engine' \in EngineStates /\ LightEngine
  BY DEF ToolStarts, SessionTypes, EngineStates, LightEngine
<1>3. engine'.playing = engine.playing /\ engine'.card = engine.card
      /\ engine'.metronome = "tool"
  BY DEF ToolStarts, SessionTypes, EngineStates
<1>4. /\ players' \in [Players -> PlayerStates] /\ \A q \in Players : Light(q)
      /\ editing' \in Screens \cup {"none"}
  BY <1>1 DEF SessionTypes, Light, Core, SameLoop
<1>5. \A q \in Players : ~players[q].click
  BY NoneMounted DEF ToolStarts
<1> QED BY <1>1, <1>2, <1>3, <1>4, <1>5, LightStep

-----------------------------------------------------------------------------
(* The mix, the master level and the name. *)

\* There are answers.
LEMMA AReply ==
  \E x \in Replies : TRUE
<1>1. [kind |-> "start", player |-> "stem", session |-> 0, ok |-> TRUE, arg |-> "none"]
        \in Replies
  BY TwoPlayers DEF Replies, Loads
<1> QED BY <1>1

\* There are database calls.
LEMMA ACall == \E c \in DbCalls : TRUE
<1>1. [kind |-> "read", player |-> "stem", session |-> 0, arg |-> {}] \in DbCalls
  BY TwoPlayers DEF DbCalls
<1> QED BY <1>1

\* No load of a ready song is under way.
LEMMA NoLiveLoad ==
  ASSUME SessionTypes, SessionInv, NEW p \in Players, Ready(p), answers' = answers,
         \A q \in Players : Core(q)
  PROVE  \A i \in 1..Len(answers') : ~IsLoad(answers[i])'
<1> SUFFICES ASSUME NEW i \in 1..Len(answers), IsLoad(answers[i])' PROVE FALSE
  OBVIOUS
<1>1. PICK a \in Replies : a = answers[i] /\ a = answers'[i]
  BY AnswerIs
<1>2. IsLoad(a)'
  BY <1>1
<1>3. IsLoad(a)
  BY <1>2 DEF IsLoad, IsCurrent, Live, Core, Replies
<1> QED BY <1>1, <1>3, ReadyAlone DEF IsLoad, Changes, Loads

\* What the mix key, a row or Reset leave, of the mix, the level and the saver.
LEMMA MixTap ==
  ASSUME SessionTypes, SessionInv, Ready("stem"),
         NEW mix \in SoundMixes, NEW level \in Levels, NEW chosen \in SoundMixes,
         players' = [players EXCEPT !["stem"].mix = mix],
         engine' = [engine EXCEPT !.mix = mix, !.master = level],
         user' = [user EXCEPT !.mix = chosen, !.master = level],
         \/ chosen = mix /\ db' = [db EXCEPT !.pending = {mix}]
         \/ chosen = mix /\ db' = db /\ mix = players["stem"].mix
         \/ chosen = user.mix /\ db' = db /\ mix = players["stem"].mix,
         UNCHANGED <<answers, claim, screens, top, editing>>
  PROVE  SessionTypes' /\ SessionInv'
<1>1. /\ players \in [Players -> PlayerStates] /\ engine \in EngineStates
      /\ user \in [mix : SoundMixes, master : Levels, name : Names0]
      /\ db \in [queue : Seq(DbCalls), mix : SoundMixes, name : Names0,
                 pending : SUBSET SoundMixes, lost : BOOLEAN, unnamed : BOOLEAN]
  BY DEF SessionTypes
<1>2. PICK pl \in PlayerStates : pl = [players["stem"] EXCEPT !.mix = mix]
  <2>1. PICK was \in PlayerStates : was = players["stem"]
    BY <1>1, TwoPlayers
  <2>2. [was EXCEPT !.mix = mix] \in PlayerStates
    BY DEF PlayerStates
  <2> QED BY <2>1, <2>2
<1>3. /\ players' \in [Players -> PlayerStates] /\ players'["stem"] = pl
      /\ \A q \in Players : q # "stem" => players'[q] = players[q]
  <2>1. players' = [players EXCEPT !["stem"] = pl]
    BY <1>1, <1>2, TwoPlayers
  <2> QED BY <1>1, <2>1, PlayerSet, TwoPlayers
<1>4. /\ pl.mix = mix /\ pl.session = players["stem"].session
      /\ pl.status = players["stem"].status /\ pl.requested = players["stem"].requested
      /\ pl.master = players["stem"].master /\ pl.hold = players["stem"].hold
      /\ pl.sub = players["stem"].sub /\ pl.loop = players["stem"].loop
      /\ pl.loopBusy = players["stem"].loopBusy /\ pl.click = players["stem"].click
      /\ pl.clickBusy = players["stem"].clickBusy
  BY <1>1, <1>2, TwoPlayers DEF PlayerStates
<1>5. \A q \in Players : /\ Core(q) /\ SameLoop(q) /\ players'[q].click = players[q].click
                         /\ players'[q].clickBusy = players[q].clickBusy
  BY <1>3, <1>4 DEF Core, SameLoop
<1>6. /\ engine' \in EngineStates /\ engine'.mix = mix /\ engine'.master = level
      /\ engine'.holds = engine.holds /\ engine'.tracks = engine.tracks
      /\ engine'.loop = engine.loop /\ engine'.stray = engine.stray
      /\ engine'.grid = engine.grid /\ engine'.follow = engine.follow
      /\ engine'.metronome = engine.metronome
  BY <1>1 DEF EngineStates
<1>7. /\ user' \in [mix : SoundMixes, master : Levels, name : Names0]
      /\ user'.mix = chosen /\ user'.master = level
  BY <1>1
<1>8. /\ db' \in [queue : Seq(DbCalls), mix : SoundMixes, name : Names0,
                  pending : SUBSET SoundMixes, lost : BOOLEAN, unnamed : BOOLEAN]
      /\ db'.queue = db.queue /\ db'.mix = db.mix /\ db'.lost = db.lost
  BY <1>1
<1>9. SessionTypes'
  BY <1>3, <1>6, <1>7, <1>8 DEF SessionTypes
<1>10. PICK x \in Replies : TRUE
  BY AReply
<1>11. PICK c \in DbCalls : TRUE
  BY ACall
<1>12. Shift(0, FALSE, x) /\ QShift(0, FALSE, c)
  BY <1>8, AnswersSame, QueueSame
<1>13. Owned' /\ Held' /\ Tracks'
  BY <1>3, <1>4, <1>5, <1>6, TwoPlayers, TapKeeps
<1>14. Ordered'
  <2>1. ASSUME NEW a \in Replies, a.player = "stem", a.kind \in Changes \cup {"grid"}, Finds(a)
        PROVE  Finds(a)'
    <3>1. LoopTold("stem")' <=> LoopTold("stem")
      BY <1>3, <1>4, <1>6 DEF LoopTold, LoopFree, LoopOn
    <3>2. CASE a.kind = "setLoop"
      BY <1>3, <1>4, <1>6, <2>1, <3>1, <3>2 DEF Finds
    <3>3. CASE a.kind = "clearLoop"
      BY <1>3, <1>4, <1>6, <2>1, <3>1, <3>3 DEF Finds, LoopOn
    <3>4. CASE a.kind = "grid"
      BY <1>3, <1>4, <1>6, <2>1, <3>4 DEF Finds
    <3> QED BY <2>1, <3>2, <3>3, <3>4 DEF Changes
  <2> QED BY <1>3, <1>5, <1>12, <2>1, TwoPlayers, ReadyStep
<1>15. Reads'
  <2>1. NoReads
    BY ReadyAlone, TwoPlayers
  <2> QED BY <1>5, <1>12, <2>1, ReadsShift DEF SessionInv
<1>16. LoopKept'
  <2>1. 0 \in {0, 1} /\ (0 = 1 => answers[1].kind \notin Changes)
    OBVIOUS
  <2> QED BY <1>5, <1>6, <1>12, <2>1, LoopKeptFrame DEF SessionInv
<1>17. ClickKept'
  <2>1. 0 \in {0, 1} /\ (0 = 1 => answers[1].kind # "grid")
    OBVIOUS
  <2> QED BY <1>5, <1>6, <1>12, <2>1, ClickKeptFrame DEF SessionInv
<1>18. LevelKept'
  <2>1. players'["song"].master = "none"
    <3>1. ~IsOpen("song")
      BY ReadyAlone, TwoPlayers DEF IsOpen
    <3> QED BY <1>5, <3>1, TwoPlayers DEF SessionInv, Owned, Core
  <2> QED BY <1>6, <1>7, <2>1 DEF LevelKept
<1>19. Saved'
  <2>1. CASE chosen = user.mix /\ db' = db /\ mix = players["stem"].mix
    <3>1. NoSaves' <=> NoSaves
      BY <1>8 DEF NoSaves, NoSavesIn
    <3>2. user'.mix = user.mix /\ players'["stem"].mix = players["stem"].mix
      BY <1>3, <1>4, <1>7, <2>1
    <3>3. LastSaveIs(user.mix) => LastSaveIs(user.mix)'
      BY <1>8, <3>2 DEF LastSaveIs, LastSaveIn
    <3>4. 0 \in {0, 1} /\ Saved
      BY DEF SessionInv
    <3> QED BY <1>5, <1>12, <2>1, <3>1, <3>2, <3>3, <3>4, SavedFrame
  <2>2. CASE chosen = mix
    <3>1. /\ Ready("stem")' /\ players'["stem"].mix = user'.mix /\ user'.mix = mix
      BY <1>3, <1>4, <1>7, <2>2 DEF Ready
    <3>2. db'.pending # {} => db'.pending = {mix}
      BY <1>1, <2>2 DEF SessionInv, Saved
    <3>3. ASSUME db'.pending = {} PROVE LastSaveIs(mix)' /\ (NoSaves' /\ ~db'.lost => db'.mix = mix)
      <4>1. db' = db /\ mix = players["stem"].mix
        BY <1>1, <2>2, <3>3
      <4>2. ~NoSaves \/ ~db.lost => mix = user.mix
        BY <4>1 DEF SessionInv, Saved
      <4>3. CASE NoSaves
        BY <4>1, <4>2, <4>3, <3>3 DEF NoSaves, NoSavesIn, LastSaveIs, LastSaveIn, SessionInv, Saved
      <4>4. CASE ~NoSaves
        <5>1. LastSaveIs(mix) /\ mix = user.mix
          BY <4>1, <4>2, <4>4, <3>3 DEF SessionInv, Saved
        <5> QED BY <4>1, <4>4, <5>1 DEF NoSaves, NoSavesIn, LastSaveIs, LastSaveIn
      <4> QED BY <4>3, <4>4
    <3>4. \A i \in 1..Len(answers') : ~IsLoad(answers[i])'
      BY <1>5, TwoPlayers, NoLiveLoad
    <3>5. db'.pending = {} => LastSaveIs(user.mix)'
      BY <3>1, <3>3 DEF LastSaveIs, LastSaveIn
    <3> QED BY <3>1, <3>2, <3>3, <3>4, <3>5 DEF Saved
  <2> QED BY <2>1, <2>2
<1> QED BY <1>9, <1>13, <1>14, <1>15, <1>16, <1>17, <1>18, <1>19 DEF SessionInv

\* Muting and soloing keep the mix sound.
LEMMA SoundGain ==
  ASSUME NEW m \in SoundMixes, NEW s \in Stems, NEW gain \in {"unity", "low"}
  PROVE  [m EXCEPT ![s].gain = gain] \in SoundMixes
<1>1. m \in [Stems -> Row] /\ \A t \in Stems : ~(m[t].muted /\ m[t].soloed)
  BY DEF SoundMixes
<1>2. PICK r \in Row : r = [m[s] EXCEPT !.gain = gain]
  BY <1>1 DEF Row
<1>3. ~(r.muted /\ r.soloed)
  BY <1>1, <1>2 DEF Row
<1>4. [m EXCEPT ![s].gain = gain] = [m EXCEPT ![s] = r]
  BY <1>1, <1>2
<1> QED BY <1>1, <1>3, <1>4 DEF SoundMixes

LEMMA SoundMute ==
  ASSUME NEW m \in SoundMixes, NEW s \in Stems
  PROVE  [m EXCEPT ![s] = toggleMute(@)] \in SoundMixes
<1>1. m \in [Stems -> Row] /\ \A t \in Stems : ~(m[t].muted /\ m[t].soloed)
  BY DEF SoundMixes
<1>2. PICK muted \in BOOLEAN, soloed1 \in BOOLEAN :
        muted = ~m[s].muted /\ soloed1 = (m[s].muted /\ m[s].soloed)
  OBVIOUS
<1>3. PICK r \in Row : r = [m[s] EXCEPT !.muted = muted, !.soloed = soloed1]
  BY <1>1 DEF Row
<1>4. ~(r.muted /\ r.soloed)
  <2>1. r.muted = muted /\ r.soloed = soloed1
    BY <1>1, <1>3 DEF Row
  <2> QED BY <1>1, <1>2, <2>1
<1>5. [m EXCEPT ![s] = toggleMute(@)] = [m EXCEPT ![s] = r]
  BY <1>1, <1>2, <1>3 DEF toggleMute
<1> QED BY <1>1, <1>4, <1>5 DEF SoundMixes

\* See soloed.
LEMMA SoundSolo ==
  ASSUME NEW m \in SoundMixes, NEW s \in Stems, NEW additive \in BOOLEAN
  PROVE  soloed(m, s, additive) \in SoundMixes
<1>1. m \in [Stems -> Row] /\ \A t \in Stems : ~(m[t].muted /\ m[t].soloed)
  BY DEF SoundMixes
<1> DEFINE on == soloAfter([t \in Stems |-> m[t].soloed], s, additive)
<1>2. \A t \in Stems : on[t] \in BOOLEAN
  <2>1. CASE additive
    <3>1. on = [[t \in Stems |-> m[t].soloed] EXCEPT ![s] = ~@]
      BY <2>1 DEF soloAfter
    <3>2. \A t \in Stems : m[t].soloed \in BOOLEAN
      BY <1>1 DEF Row
    <3> QED BY <3>1, <3>2
  <2>2. CASE ~additive
    <3> DEFINE alone == \A t \in Stems : [u \in Stems |-> m[u].soloed][t] <=> t = s
    <3>1. on = [t \in Stems |-> ~alone /\ t = s]
      BY <2>2 DEF soloAfter
    <3> HIDE DEF alone
    <3> QED BY <3>1
  <2> QED BY <2>1, <2>2
<1> HIDE DEF on
<1> DEFINE RowOf(t) == [m[t] EXCEPT !.soloed = on[t],
                                   !.muted = @ /\ (on[t] => m[t].soloed)]
<1>3. ASSUME NEW t \in Stems PROVE RowOf(t) \in Row /\ ~(RowOf(t).muted /\ RowOf(t).soloed)
  <2>1. PICK a \in BOOLEAN, b \in BOOLEAN : a = on[t] /\ b = (m[t].muted /\ (on[t] => m[t].soloed))
    BY <1>2
  <2>2. ~(a /\ b)
    BY <1>1, <2>1
  <2>3. RowOf(t) = [m[t] EXCEPT !.soloed = a, !.muted = b]
    BY <2>1
  <2>4. m[t] \in Row
    BY <1>1
  <2> HIDE DEF RowOf
  <2> QED BY <2>2, <2>3, <2>4 DEF Row
<1>4. soloed(m, s, additive) = [t \in Stems |-> RowOf(t)]
  BY DEF soloed, on
<1> HIDE DEF RowOf
<1>5. PICK r : r = [t \in Stems |-> RowOf(t)]
  OBVIOUS
<1>6. r \in [Stems -> Row] /\ \A t \in Stems : ~(r[t].muted /\ r[t].soloed)
  BY <1>3, <1>5
<1> QED BY <1>4, <1>5, <1>6 DEF SoundMixes

\* The engine and the user's choice, set together.
LEMMA EngineUserEx ==
  ASSUME SessionTypes, SessionInv, Ready("stem")
  PROVE  /\ engine.master = user.master /\ engine.master \in Levels
         /\ user.mix \in SoundMixes /\ players["stem"].mix \in SoundMixes
         /\ engine.mix = players["stem"].mix
         /\ \A m : [engine EXCEPT !.mix = m] =
                   [engine EXCEPT !.mix = m, !.master = engine.master]
         /\ \A m : [user EXCEPT !.mix = m] =
                   [user EXCEPT !.mix = m, !.master = user.master]
<1>1. players["song"].master = "none"
  <2>1. ~IsOpen("song")
    BY ReadyAlone, TwoPlayers DEF IsOpen
  <2> QED BY <2>1, TwoPlayers DEF SessionInv, Owned
<1>2. engine.master = user.master
  BY <1>1 DEF SessionInv, LevelKept
<1>3. engine \in EngineStates /\ user \in [mix : SoundMixes, master : Levels, name : Names0]
  BY DEF SessionTypes
<1>4. players["stem"].mix \in SoundMixes /\ engine.mix = players["stem"].mix
  BY TwoPlayers DEF SessionTypes, PlayerStates, SessionInv, Tracks
<1> QED BY <1>2, <1>3, <1>4 DEF EngineStates

\* The rows' controls, the master level and Reset.
LEMMA MixTaps ==
  ASSUME SessionTypes, SessionInv,
         \/ \E s \in Stems : SetGain(s) \/ ToggleMute(s) \/ Solo(s)
         \/ SetMasterGain \/ ResetMix
  PROVE  SessionTypes' /\ SessionInv'
<1>1. Playing("stem")
  BY DEF SetGain, ToggleMute, Solo, SetMasterGain, ResetMix
<1>2. Ready("stem") /\ UNCHANGED <<claim, screens, top, editing>>
  BY <1>1, TapIs DEF Playing
<1>3. PICK now \in SoundMixes : now = players["stem"].mix
  BY <1>2, EngineUserEx
<1>4. PICK level \in Levels : level = engine.master /\ level = user.master
  BY <1>2, EngineUserEx
<1>5. ASSUME NEW mix \in SoundMixes, WithMix(mix) PROVE SessionTypes' /\ SessionInv'
  <2>1. /\ engine' = [engine EXCEPT !.mix = mix, !.master = level]
        /\ user' = [user EXCEPT !.mix = mix, !.master = level]
    BY <1>2, <1>4, <1>5, EngineUserEx DEF WithMix
  <2>2. /\ players' = [players EXCEPT !["stem"].mix = mix] /\ answers' = answers
        /\ db' = [db EXCEPT !.pending = {mix}] \/ (db' = db /\ mix = players["stem"].mix)
    BY <1>5 DEF WithMix
  <2> QED BY <1>2, <2>1, <2>2, MixTap
<1>6. ASSUME NEW s \in Stems, SetGain(s) PROVE SessionTypes' /\ SessionInv'
  <2>1. PICK gain \in {"unity", "low"} : WithMix([now EXCEPT ![s].gain = gain])
    BY <1>3, <1>6 DEF SetGain
  <2>2. PICK mix \in SoundMixes : mix = [now EXCEPT ![s].gain = gain]
    BY SoundGain
  <2> QED BY <1>5, <2>1, <2>2
<1>7. ASSUME NEW s \in Stems, ToggleMute(s) PROVE SessionTypes' /\ SessionInv'
  <2>1. WithMix([now EXCEPT ![s] = toggleMute(@)])
    BY <1>3, <1>7 DEF ToggleMute
  <2>2. PICK mix \in SoundMixes : mix = [now EXCEPT ![s] = toggleMute(@)]
    BY SoundMute
  <2> QED BY <1>5, <2>1, <2>2
<1>8. ASSUME NEW s \in Stems, Solo(s) PROVE SessionTypes' /\ SessionInv'
  <2>1. PICK additive \in BOOLEAN : WithMix(soloed(now, s, additive))
    BY <1>3, <1>8 DEF Solo
  <2>2. PICK mix \in SoundMixes : mix = soloed(now, s, additive)
    BY SoundSolo
  <2> QED BY <1>5, <2>1, <2>2
<1>9. CASE SetMasterGain
  <2>1. PICK gain \in Levels : /\ engine' = [engine EXCEPT !.master = gain]
                               /\ user' = [user EXCEPT !.master = gain]
    BY <1>9 DEF SetMasterGain, Levels
  <2>2. UNCHANGED <<players, answers, db>>
    BY <1>9 DEF SetMasterGain
  <2>3. engine' = [engine EXCEPT !.mix = now, !.master = gain]
    BY <1>2, <1>3, <2>1, EngineUserEx DEF SessionTypes, EngineStates
  <2>4. PICK chosen \in SoundMixes : chosen = user.mix
    BY <1>2, EngineUserEx
  <2>5. user' = [user EXCEPT !.mix = chosen, !.master = gain]
    BY <2>1, <2>4 DEF SessionTypes
  <2>6. players' = [players EXCEPT !["stem"].mix = now]
    BY <1>3, <2>2, TwoPlayers DEF SessionTypes, PlayerStates
  <2> QED BY <1>2, <1>3, <2>2, <2>3, <2>4, <2>5, <2>6, MixTap
<1>10. CASE ResetMix
  <2>1. /\ players' = [players EXCEPT !["stem"].mix = UnityMix]
        /\ engine' = [engine EXCEPT !.mix = UnityMix, !.master = "unity"]
        /\ db' = [db EXCEPT !.pending = {UnityMix}]
        /\ user' = [user EXCEPT !.mix = UnityMix, !.master = "unity"]
        /\ answers' = answers
    BY <1>10 DEF ResetMix
  <2>2. PICK mix \in SoundMixes : mix = UnityMix
    BY UnityIs
  <2>3. PICK gain \in Levels : gain = "unity"
    BY DEF Levels
  <2> QED BY <1>2, <2>1, <2>2, <2>3, MixTap
<1> QED BY <1>6, <1>7, <1>8, <1>9, <1>10

-----------------------------------------------------------------------------
(* The database's own steps, and the name. *)

DbStates ==
  [queue : Seq(DbCalls), mix : SoundMixes, name : Names0,
   pending : SUBSET SoundMixes, lost : BOOLEAN, unnamed : BOOLEAN]

\* Calls that come and go leave what is not the database's.
LEMMA DbParts ==
  ASSUME SessionTypes, SessionInv,
         players' \in [Players -> PlayerStates], \A q \in Players : Light(q),
         \A q \in Players : IsOpen(q) \/ /\ players'[q].scrub => players[q].scrub
                                         /\ players'[q].loop = players[q].loop,
         UNCHANGED <<answers, claim, screens, top, engine>>,
         editing' \in Screens \cup {"none"},
         user' \in [mix : SoundMixes, master : Levels, name : Names0],
         user'.master = user.master, db' \in DbStates,
         NEW d \in {0, 1}, NEW n \in BOOLEAN, NEW c \in DbCalls, QShift(d, n, c),
         n => /\ \/ c.kind = "rename" /\ c.arg \in [from : Names0, to : Names0]
                 \/ c.kind = "save" /\ c.arg \in SoundMixes /\ NoReads
              /\ c.session <= players[c.player].session,
         Saved'
  PROVE  SessionTypes' /\ SessionInv'
<1>1. LightEngine /\ engine'.metronome = engine.metronome /\ engine' \in EngineStates
  BY DEF LightEngine, SessionTypes
<1>3. /\ Owned' /\ Held' /\ Tracks' /\ Ordered' /\ LoopKept' /\ ClickKept' /\ LevelKept'
      /\ \A q \in Players : Core(q)
  BY <1>1, LightParts
<1>4. Reads'
  <2>1. \A i \in 1..Len(answers') :
            IsLoad(answers[i])' => \E j \in 1..Len(answers) : IsLoad(answers[j])
    <3> SUFFICES ASSUME NEW i \in 1..Len(answers), IsLoad(answers[i])'
                 PROVE  IsLoad(answers[i])
      OBVIOUS
    <3>1. PICK a \in Replies : a = answers[i] /\ a = answers'[i]
      BY AnswerIs
    <3>2. IsLoad(a)'
      BY <3>1
    <3>3. IsLoad(a)
      BY <1>3, <3>2 DEF IsLoad, IsCurrent, Live, Core, Replies
    <3> QED BY <3>1, <3>3
  <2>2. n => c.session <= players'[c.player].session
    BY <1>3 DEF Core, DbCalls
  <2> QED BY <1>3, <2>1, <2>2, ReadsShift DEF SessionInv
<1>5. SessionTypes'
  BY <1>1 DEF SessionTypes, DbStates
<1> QED BY <1>3, <1>4, <1>5 DEF SessionInv

\* The same when no save is among the calls, and nothing is asked to be saved.
LEMMA RenameParts ==
  ASSUME SessionTypes, SessionInv,
         NEW p \in Players, NEW name \in Names0,
         players' = [players EXCEPT ![p].name = name],
         UNCHANGED <<answers, claim, screens, top, engine>>,
         editing' \in Screens \cup {"none"},
         user' \in [mix : SoundMixes, master : Levels, name : Names0],
         user'.master = user.master, user'.mix = user.mix, db' \in DbStates,
         db'.mix = db.mix, db'.pending = db.pending, db'.lost = db.lost,
         NEW d \in {0, 1}, NEW n \in BOOLEAN, NEW c \in DbCalls, QShift(d, n, c),
         d = 1 => db.queue[1].kind # "save",
         n => /\ c.kind = "rename" /\ c.arg \in [from : Names0, to : Names0]
              /\ c.session <= players[c.player].session
  PROVE  SessionTypes' /\ SessionInv'
<1>1. players \in [Players -> PlayerStates]
  BY DEF SessionTypes
<1>2. PICK pl \in PlayerStates : pl = [players[p] EXCEPT !.name = name]
  <2>1. PICK was \in PlayerStates : was = players[p]
    BY <1>1
  <2>2. [was EXCEPT !.name = name] \in PlayerStates
    BY DEF PlayerStates
  <2> QED BY <2>1, <2>2
<1>3. players' = [players EXCEPT ![p] = pl]
  BY <1>1, <1>2
<1>4. /\ pl.session = players[p].session /\ pl.status = players[p].status
      /\ pl.requested = players[p].requested /\ pl.master = players[p].master
      /\ pl.hold = players[p].hold /\ pl.sub = players[p].sub
      /\ pl.click = players[p].click /\ pl.clickBusy = players[p].clickBusy
      /\ pl.mix = players[p].mix /\ pl.loopBusy = players[p].loopBusy
      /\ pl.loop = players[p].loop /\ pl.scrub = players[p].scrub
  BY <1>1, <1>2 DEF PlayerStates
<1>5. players' \in [Players -> PlayerStates] /\ \A q \in Players : Light(q)
  BY <1>1, <1>3, <1>4, LightOne
<1>6. \A q \in Players : /\ players'[q].scrub => players[q].scrub
                         /\ players'[q].loop = players[q].loop
  BY <1>1, <1>3, <1>4, PlayerSet
<1>7. Saved'
  <2>1. PICK x \in Replies : TRUE
    BY AReply
  <2>2. Shift(0, FALSE, x)
    BY AnswersSame
  <2>3. NoSaves' <=> NoSaves
    BY SavesShift
  <2>4. LastSaveIs(user.mix) => LastSaveIs(user.mix)'
    BY SavesShift
  <2>5. /\ \A q \in Players : Core(q)
        /\ players'["stem"].mix = players["stem"].mix
    BY <1>5, TwoPlayers DEF Light
  <2>6. Saved /\ 0 \in {0, 1}
    BY DEF SessionInv
  <2> QED BY <2>2, <2>3, <2>4, <2>5, <2>6, SavedFrame
<1>8. n => /\ \/ c.kind = "rename" /\ c.arg \in [from : Names0, to : Names0]
              \/ c.kind = "save" /\ c.arg \in SoundMixes /\ NoReads
           /\ c.session <= players[c.player].session
  OBVIOUS
<1> QED BY <1>5, <1>6, <1>7, <1>8, DbParts

\* A player with another name.
LEMMA NameIsEx ==
  ASSUME players \in [Players -> PlayerStates], NEW p \in Players
  PROVE  /\ players[p].name \in Names0
         /\ players = [players EXCEPT ![p].name = players[p].name]
BY DEF PlayerStates

\* The name editor ends.
LEMMA NameTap ==
  ASSUME SessionTypes, SessionInv, FinishRename
  PROVE  SessionTypes' /\ SessionInv'
<1>1. /\ Ready("stem") /\ UNCHANGED <<claim, screens, top, answers, engine>>
      /\ editing' \in Screens \cup {"none"}
  BY DEF FinishRename
<1>3. /\ players \in [Players -> PlayerStates] /\ db \in DbStates
      /\ user \in [mix : SoundMixes, master : Levels, name : Names0]
  BY DEF SessionTypes, DbStates
<1>4. PICK row \in Names0 : row = players["stem"].name
  BY <1>3, TwoPlayers, NameIsEx
<1>5. PICK c \in DbCalls : TRUE
  BY ACall
<1>6. ASSUME UNCHANGED <<players, db>>, NEW typed \in Names0,
             user' = [user EXCEPT !.name = typed]
      PROVE  SessionTypes' /\ SessionInv'
  <2>1. /\ user' \in [mix : SoundMixes, master : Levels, name : Names0]
        /\ user'.master = user.master /\ user'.mix = user.mix
    BY <1>3, <1>6
  <2>2. players' = [players EXCEPT !["stem"].name = row]
    BY <1>3, <1>4, <1>6, TwoPlayers, NameIsEx
  <2>3. QShift(0, FALSE, c)
    BY <1>6, QueueSame
  <2>4. db' \in DbStates /\ db'.mix = db.mix /\ db'.pending = db.pending /\ db'.lost = db.lost
    BY <1>3, <1>6
  <2>5. 0 \in {0, 1} /\ (0 = 1 => db.queue[1].kind # "save")
    OBVIOUS
  <2> QED BY <1>1, <2>1, <2>2, <2>3, <2>4, <2>5, TwoPlayers, RenameParts
<1>7. ASSUME NEW name \in Names, user' = [user EXCEPT !.name = name], name # row,
             players' = [players EXCEPT !["stem"].name = name],
             db' = [db EXCEPT !.queue = Append(@,
                      DbCall("rename", "stem", players["stem"].session,
                             [from |-> row, to |-> name]))]
      PROVE  SessionTypes' /\ SessionInv'
  <2>1. name \in Names0
    BY DEF Names0
  <2>2. PICK session \in Nat : session = players["stem"].session
    BY <1>3, TwoPlayers DEF PlayerStates
  <2>3. PICK call \in DbCalls :
          call = DbCall("rename", "stem", session, [from |-> row, to |-> name])
    BY <2>1, TwoPlayers DEF DbCall, DbCalls
  <2>4. /\ call.kind = "rename" /\ call.player = "stem" /\ call.session = session
        /\ call.arg \in [from : Names0, to : Names0]
    BY <2>1, <2>3 DEF DbCall
  <2>5. db' = [db EXCEPT !.queue = Append(db.queue, call)]
    BY <1>3, <1>7, <2>2, <2>3
  <2>6. PICK q \in Seq(DbCalls) : q = db.queue
    BY <1>3 DEF DbStates
  <2>7. PICK r \in Seq(DbCalls) : r = Append(q, call)
    BY ShiftMore
  <2>8. /\ db' = [db EXCEPT !.queue = r] /\ db'.queue = Append(db.queue, call)
        /\ db' \in DbStates /\ db'.mix = db.mix /\ db'.pending = db.pending
        /\ db'.lost = db.lost
    BY <1>3, <2>5, <2>6, <2>7 DEF DbStates
  <2>9. QShift(0, TRUE, call)
    BY <2>8, QueueMore
  <2>10. /\ user' \in [mix : SoundMixes, master : Levels, name : Names0]
         /\ user'.master = user.master /\ user'.mix = user.mix
    BY <1>3, <1>7, <2>1
  <2>11. call.session <= players[call.player].session
    BY <2>2, <2>4
  <2>12. 0 \in {0, 1} /\ (0 = 1 => db.queue[1].kind # "save")
    OBVIOUS
  <2> QED BY <1>1, <1>7, <2>1, <2>4, <2>8, <2>9, <2>10, <2>11, <2>12, TwoPlayers,
             RenameParts
<1>8. CASE \E name \in Names : renameStem(name) /\ user' = [user EXCEPT !.name = name]
  <2>1. PICK name \in Names : renameStem(name) /\ user' = [user EXCEPT !.name = name]
    BY <1>8
  <2>2. name \in Names0
    BY DEF Names0
  <2>3. CASE name = row
    BY <1>4, <1>6, <2>1, <2>2, <2>3 DEF renameStem
  <2>4. CASE name # row
    BY <1>4, <1>7, <2>1, <2>4 DEF renameStem
  <2> QED BY <2>3, <2>4
<1>9. CASE UNCHANGED <<players, db, user>>
  <2>1. PICK typed \in Names0 : typed = user.name
    BY <1>3
  <2>2. user' = [user EXCEPT !.name = typed]
    BY <1>3, <1>9, <2>1
  <2> QED BY <1>6, <1>9, <2>2
<1> QED BY <1>8, <1>9 DEF FinishRename

\* A rename is stored, or fails.
LEMMA RenameStored ==
  ASSUME SessionTypes, SessionInv, DbRename
  PROVE  SessionTypes' /\ SessionInv'
<1>1. /\ UNCHANGED <<claim, screens, top, editing, answers, engine, user>>
      /\ db.queue # <<>> /\ Oldest(db.queue).kind = "rename"
  BY DEF DbRename
<1>2. /\ players \in [Players -> PlayerStates] /\ db \in DbStates
      /\ user \in [mix : SoundMixes, master : Levels, name : Names0]
      /\ editing \in Screens \cup {"none"} /\ engine \in EngineStates
  BY DEF SessionTypes, DbStates
<1>3. PICK call \in DbCalls : call = Oldest(db.queue) /\ call = db.queue[1]
  BY <1>1, FirstCallIs
<1>4. call.kind = "rename" /\ call.arg \in [from : Names0, to : Names0]
  BY <1>1, <1>3, FirstCallIs DEF SessionInv, Reads
<1>5. PICK ok \in BOOLEAN :
        /\ db' = [db EXCEPT !.queue = Tail(@), !.name = IF ok THEN call.arg.to ELSE @,
                            !.unnamed = ~ok]
        /\ players' = IF ok \/ ~Live("stem", call.session) THEN players
                      ELSE [players EXCEPT !["stem"].name = call.arg.from]
  BY <1>3 DEF DbRename
<1>6. PICK from \in Names0, to \in Names0 : from = call.arg.from /\ to = call.arg.to
  BY <1>4
<1>7. PICK name \in Names0 : name = IF ok THEN to ELSE db.name
  BY <1>2 DEF DbStates
<1>8. PICK b \in BOOLEAN : b = ~ok
  OBVIOUS
<1>9. PICK q \in Seq(DbCalls) : q = db.queue
  BY <1>2 DEF DbStates
<1>10. PICK r \in Seq(DbCalls) : r = Tail(q)
  BY <1>1, <1>9, ShiftDone
<1>11. db' = [db EXCEPT !.queue = r, !.name = name, !.unnamed = b]
  BY <1>2, <1>5, <1>6, <1>7, <1>8, <1>9, <1>10 DEF DbStates
<1>12. /\ db' \in DbStates /\ db'.mix = db.mix /\ db'.pending = db.pending
       /\ db'.lost = db.lost /\ db'.queue = Tail(db.queue)
  BY <1>2, <1>9, <1>10, <1>11 DEF DbStates
<1>13. QShift(1, FALSE, call)
  BY <1>1, <1>12, QueueDone
<1>14. /\ user' \in [mix : SoundMixes, master : Levels, name : Names0]
       /\ user'.master = user.master /\ user'.mix = user.mix
       /\ editing' \in Screens \cup {"none"}
       /\ db.queue[1].kind # "save" /\ 1 \in {0, 1}
  BY <1>1, <1>2, <1>3, <1>4
<1>15. CASE players' = players
  <2>1. /\ \A p \in Players : Light(p) /\ players'[p] = players[p]
        /\ players' \in [Players -> PlayerStates]
    BY <1>2, <1>15 DEF Light, Core, SameLoop
  <2>2. PICK x \in Replies : TRUE
    BY AReply
  <2>3. Shift(0, FALSE, x)
    BY <1>1, AnswersSame
  <2>4. (NoSaves' <=> NoSaves) /\ (LastSaveIs(user.mix) => LastSaveIs(user.mix)')
    BY <1>13, <1>14, SavesShift
  <2>5. /\ \A p \in Players : Core(p)
        /\ players'["stem"].mix = players["stem"].mix
    BY <2>1, TwoPlayers DEF Light
  <2>6. Saved /\ 0 \in {0, 1}
    BY DEF SessionInv
  <2>7. Saved'
    BY <1>12, <1>14, <2>3, <2>4, <2>5, <2>6, SavedFrame
  <2> QED BY <1>1, <1>12, <1>13, <1>14, <2>1, <2>7, DbParts
<1>16. CASE Live("stem", call.session) /\ players' = [players EXCEPT !["stem"].name = from]
  BY <1>1, <1>12, <1>13, <1>14, <1>16, TwoPlayers, RenameParts
<1> QED BY <1>5, <1>6, <1>15, <1>16

-----------------------------------------------------------------------------
(* The saver. *)

\* What flushing leaves of the database: the save that was pending is queued last.
LEMMA FlushedIs ==
  ASSUME SessionTypes, SessionInv
  PROVE  LET f == flushed(db)
             call == DbCall("save", "stem", NoSession, user.mix) IN
         /\ f \in DbStates /\ call \in DbCalls
         /\ f.pending = {} /\ f.mix = db.mix /\ f.lost = db.lost /\ f.name = db.name
         /\ Shifted(db.queue, f.queue, 0, db.pending # {}, call)
         /\ LastSaveIn(f.queue, user.mix)
         /\ NoSavesIn(f.queue) /\ ~db.lost => db.mix = user.mix
         /\ Ready("stem") /\ (~NoSavesIn(f.queue) \/ ~db.lost) => players["stem"].mix = user.mix
         /\ NoReads \/ f.queue = db.queue
<1>1. /\ db \in DbStates /\ user.mix \in SoundMixes
  BY DEF SessionTypes, DbStates
<1>2. PICK call \in DbCalls : call = DbCall("save", "stem", NoSession, user.mix)
  BY <1>1, TwoPlayers DEF DbCall, DbCalls, NoSession
<1>3. PICK q \in Seq(DbCalls) : q = db.queue
  BY <1>1 DEF DbStates
<1>4. CASE db.pending = {}
  <2>1. flushed(db) = db
    BY <1>4 DEF flushed
  <2>2. Shifted(db.queue, db.queue, 0, FALSE, call)
    BY <1>3, ShiftSame
  <2>3. /\ LastSaveIn(db.queue, user.mix) /\ (NoSavesIn(db.queue) /\ ~db.lost => db.mix = user.mix)
        /\ Ready("stem") /\ (~NoSavesIn(db.queue) \/ ~db.lost) => players["stem"].mix = user.mix
    BY <1>4 DEF SessionInv, Saved, NoSaves, LastSaveIs
  <2>4. Shifted(db.queue, db.queue, 0, db.pending # {}, call)
    BY <1>4, <2>2 DEF Shifted
  <2> QED BY <1>1, <1>2, <1>4, <2>1, <2>3, <2>4
<1>5. CASE db.pending # {}
  <2>1. db.pending = {user.mix} /\ Ready("stem") /\ players["stem"].mix = user.mix
    BY <1>5 DEF SessionInv, Saved
  <2>2. (CHOOSE m \in db.pending : TRUE) = user.mix
    BY <2>1
  <2>3. PICK r \in Seq(DbCalls) : r = Append(q, call)
    BY ShiftMore
  <2>4. Shifted(q, r, 0, TRUE, call)
    BY <2>3, ShiftMore
  <2>5. call.kind = "save" /\ call.arg = user.mix
    BY <1>2 DEF DbCall
  <2>6. flushed(db) = [db EXCEPT !.queue = r, !.pending = {}]
    BY <1>1, <1>2, <1>3, <1>5, <2>2, <2>3 DEF flushed, DbStates
  <2>7. LET f == flushed(db) IN
        /\ f \in DbStates /\ f.pending = {} /\ f.mix = db.mix /\ f.lost = db.lost
        /\ f.name = db.name /\ f.queue = r
    BY <1>1, <2>6 DEF DbStates
  <2>8. ~NoSavesIn(r) /\ LastSaveIn(r, user.mix)
    BY <2>4, <2>5, SaveComes
  <2>9. Shifted(db.queue, r, 0, db.pending # {}, call)
    BY <1>3, <1>5, <2>4 DEF Shifted
  <2>10. NoReads
    BY <2>1, TwoPlayers, ReadyAlone
  <2> HIDE <2>6
  <2> QED BY <1>2, <2>1, <2>7, <2>8, <2>9, <2>10
<1> QED BY <1>4, <1>5

\* The saver's timer fires.
LEMMA SaverWrites ==
  ASSUME SessionTypes, SessionInv, SaverFires
  PROVE  SessionTypes' /\ SessionInv'
<1>1. /\ UNCHANGED <<claim, players, screens, top, editing, answers, engine, user>>
      /\ db' = flushed(db) /\ db.pending # {}
  BY DEF SaverFires
<1>2. PICK call \in DbCalls : call = DbCall("save", "stem", NoSession, user.mix)
  BY FlushedIs
<1>3. /\ db' \in DbStates /\ db'.pending = {} /\ db'.mix = db.mix /\ db'.lost = db.lost
      /\ QShift(0, TRUE, call) /\ LastSaveIn(db'.queue, user.mix)
      /\ NoSavesIn(db'.queue) /\ ~db.lost => db.mix = user.mix
      /\ Ready("stem") /\ (~NoSavesIn(db'.queue) \/ ~db.lost) => players["stem"].mix = user.mix
  BY <1>1, <1>2, FlushedIs DEF QShift, DbStates, Shifted
<1>4. Ready("stem")
  BY <1>1 DEF SessionInv, Saved
<1>5. NoReads
  BY <1>4, TwoPlayers, ReadyAlone
<1>6. /\ players' \in [Players -> PlayerStates] /\ \A q \in Players : Light(q)
      /\ editing' \in Screens \cup {"none"}
      /\ user' \in [mix : SoundMixes, master : Levels, name : Names0]
  BY <1>1 DEF SessionTypes, Light, Core, SameLoop
<1>7. \A q \in Players : Core(q)
  BY <1>6 DEF Light
<1>8. Saved'
  <2>1. \A i \in 1..Len(answers') : ~IsLoad(answers[i])'
    BY <1>1, <1>4, <1>7, TwoPlayers, NoLiveLoad
  <2> QED BY <1>1, <1>3, <2>1 DEF Saved, Ready, NoSaves, LastSaveIs
<1>9. /\ call.kind = "save" /\ call.arg \in SoundMixes
      /\ call.session <= players[call.player].session
  <2>1. call.kind = "save" /\ call.arg = user.mix /\ call.session = 0 /\ call.player = "stem"
    BY <1>2 DEF DbCall, NoSession
  <2>2. user.mix \in SoundMixes /\ players["stem"].session \in Nat
    BY TwoPlayers DEF SessionTypes, PlayerStates
  <2> QED BY <2>1, <2>2
<1>10. \A q \in Players : players'[q] = players[q]
  BY <1>1
<1> QED BY <1>1, <1>3, <1>5, <1>6, <1>8, <1>9, <1>10, DbParts

\* A save is stored, or fails.
LEMMA SaveStored ==
  ASSUME SessionTypes, SessionInv, DbSave
  PROVE  SessionTypes' /\ SessionInv'
<1>1. /\ UNCHANGED <<claim, players, screens, top, editing, answers, engine, user>>
      /\ db.queue # <<>> /\ Oldest(db.queue).kind = "save"
  BY DEF DbSave
<1>2. db \in DbStates
  BY DEF SessionTypes, DbStates
<1>3. PICK call \in DbCalls : call = Oldest(db.queue) /\ call = db.queue[1]
  BY <1>1, FirstCallIs
<1>4. call.kind = "save" /\ call.arg \in SoundMixes
  BY <1>1, <1>3, FirstCallIs DEF SessionInv, Reads
<1>5. PICK ok \in BOOLEAN :
        db' = [db EXCEPT !.queue = Tail(@), !.mix = IF ok THEN call.arg ELSE @, !.lost = ~ok]
  BY <1>3 DEF DbSave
<1>6. PICK mix \in SoundMixes : mix = IF ok THEN call.arg ELSE db.mix
  BY <1>2, <1>4 DEF DbStates
<1>7. PICK b \in BOOLEAN : b = ~ok
  OBVIOUS
<1>8. PICK q \in Seq(DbCalls) : q = db.queue
  BY <1>2 DEF DbStates
<1>9. PICK r \in Seq(DbCalls) : r = Tail(q)
  BY <1>1, <1>8, ShiftDone
<1>10. db' = [db EXCEPT !.queue = r, !.mix = mix, !.lost = b]
  BY <1>2, <1>5, <1>6, <1>7, <1>8, <1>9 DEF DbStates
<1>11. /\ db' \in DbStates /\ db'.pending = db.pending /\ db'.mix = mix
       /\ db'.lost = b /\ db'.queue = r
  BY <1>2, <1>10 DEF DbStates
<1>12. QShift(1, FALSE, call) /\ Shifted(q, r, 1, FALSE, call)
  BY <1>1, <1>8, <1>9, <1>11, ShiftDone DEF QShift
<1>13. /\ players' \in [Players -> PlayerStates] /\ \A p \in Players : Light(p)
       /\ editing' \in Screens \cup {"none"}
       /\ user' \in [mix : SoundMixes, master : Levels, name : Names0]
  BY <1>1 DEF SessionTypes, Light, Core, SameLoop
<1>14. \A p \in Players : Core(p)
  BY <1>13 DEF Light
<1>15. ~NoSaves
  BY <1>1, <1>3, <1>4, FirstCallIs DEF NoSaves, NoSavesIn
<1>16. Saved'
  <2>1. db'.pending # {} => db'.pending = {user'.mix} /\ Ready("stem")'
                             /\ players'["stem"].mix = user'.mix
    BY <1>1, <1>11 DEF SessionInv, Saved, Ready
  <2>2. ASSUME db'.pending = {}
        PROVE  LastSaveIs(user.mix)' /\ (NoSaves' /\ ~db'.lost => db'.mix = user'.mix)
    <3>1. PICK chosen : chosen = user.mix
      OBVIOUS
    <3>2. LastSaveIn(q, chosen)
      BY <1>8, <1>11, <2>2, <3>1 DEF SessionInv, Saved, LastSaveIs
    <3>3. LastSaveIn(r, chosen) /\ (NoSavesIn(r) => q[1].arg = chosen)
      BY <1>1, <1>3, <1>4, <1>8, <1>12, <3>2, SaveGoes
    <3> QED BY <1>1, <1>3, <1>6, <1>7, <1>8, <1>11, <3>1, <3>3 DEF NoSaves, LastSaveIs
  <2>3. Ready("stem")' => players'["stem"].mix = user'.mix
    BY <1>1, <1>15 DEF SessionInv, Saved, Ready
  <2>4. \A i \in 1..Len(answers') : ~(answers'[i].player = "stem" /\ IsLoad(answers[i])')
    <3>1. ASSUME NEW i \in 1..Len(answers), answers'[i].player = "stem", IsLoad(answers[i])'
          PROVE  FALSE
      <4>1. PICK a \in Replies : a = answers[i] /\ a = answers'[i]
        BY <1>1, AnswerIs
      <4>2. IsLoad(a)'
        BY <3>1, <4>1
      <4>3. IsLoad(a)
        BY <1>14, <4>2 DEF IsLoad, IsCurrent, Live, Core, Replies
      <4> QED BY <1>15, <3>1, <4>1, <4>3 DEF SessionInv, Saved
    <3> QED BY <1>1, <3>1
  <2> QED BY <2>1, <2>2, <2>3, <2>4 DEF Saved
<1>17. /\ \A p \in Players : players'[p] = players[p]
       /\ user'.master = user.master
  BY <1>1
<1> QED BY <1>1, <1>11, <1>12, <1>13, <1>16, <1>17, DbParts

-----------------------------------------------------------------------------
(* The loop's calls. *)

NewLoop(l, s) == [engine EXCEPT !.loop = l, !.stray = s]

\* The engine with a loop set.
LEMMA NewLoopIs ==
  ASSUME engine \in EngineStates, NEW l \in {"none"} \cup Loops, NEW s \in BOOLEAN,
         engine' = NewLoop(l, s)
  PROVE  /\ engine' \in EngineStates /\ engine'.loop = l /\ engine'.stray = s
         /\ engine'.mix = engine.mix /\ engine'.master = engine.master
         /\ engine'.holds = engine.holds /\ engine'.tracks = engine.tracks
         /\ engine'.playing = engine.playing /\ engine'.card = engine.card
         /\ engine'.grid = engine.grid /\ engine'.follow = engine.follow
         /\ engine'.metronome = engine.metronome
BY DEF NewLoop, EngineStates

\* The engine after a clear, which may fail.
LEMMA ClearedIs ==
  ASSUME engine \in EngineStates, NEW ok \in BOOLEAN
  PROVE  \E l \in {"none"} \cup Loops, s \in BOOLEAN :
            /\ WithLoopCleared(engine, ok) = NewLoop(l, s)
            /\ l = "none" \/ s
            /\ IF ok THEN l = "none" ELSE l = engine.loop
<1>1. CASE ok
  <2>1. WithLoopCleared(engine, ok) = NewLoop("none", FALSE)
    BY <1>1 DEF WithLoopCleared, NewLoop
  <2> QED BY <1>1, <2>1
<1>2. CASE ~ok
  <2>1. PICK s \in BOOLEAN : s = (engine.stray \/ engine.loop # "none")
    OBVIOUS
  <2>2. PICK l \in {"none"} \cup Loops : l = engine.loop
    BY DEF EngineStates
  <2>3. [engine EXCEPT !.stray = s] = [engine EXCEPT !.loop = l, !.stray = s]
    BY <2>2 DEF EngineStates
  <2>4. WithLoopCleared(engine, ok) = NewLoop(l, s)
    BY <1>2, <2>1, <2>3 DEF WithLoopCleared, NewLoop
  <2> QED BY <1>2, <2>1, <2>2, <2>4
<1> QED BY <1>1, <1>2

\* A call that sets or clears the loop is the only one, and says what is set.
LEMMA LoopAsk ==
  ASSUME SessionTypes, SessionInv, NEW p \in Players, Ready(p), ~busy(p),
         NEW x \in Replies, x.kind \in Changes, x.player = p,
         x.session = players[p].session,
         x.kind = "setLoop" => x.arg \in LoopAsked, 
         x.kind = "clearLoop" => x.arg \in {"none"} \cup Loops /\ LoopOn(players[p]),
         players' = [players EXCEPT ![p].loopBusy = players[p].session],
         answers' = Append(answers, x),
         NEW l \in {"none"} \cup Loops, NEW s \in BOOLEAN, engine' = NewLoop(l, s),
         x.kind = "setLoop" => IF x.ok THEN l = x.arg.loop
                               ELSE l = engine.loop /\ s = engine.stray,
         x.kind = "clearLoop" => /\ IF x.ok THEN l = "none" ELSE l = engine.loop
                                 /\ l = "none" \/ s,
         UNCHANGED <<claim, screens, top, editing, db, user>>
  PROVE  SessionTypes' /\ SessionInv'
<1>1. players \in [Players -> PlayerStates] /\ engine \in EngineStates
  BY DEF SessionTypes
<1>2. PICK k \in Nat : k = players[p].session
  BY <1>1 DEF PlayerStates
<1>3. PICK pl \in PlayerStates : pl = [players[p] EXCEPT !.loopBusy = k]
  <2>1. PICK was \in PlayerStates : was = players[p]
    BY <1>1
  <2>2. [was EXCEPT !.loopBusy = k] \in PlayerStates
    BY DEF PlayerStates
  <2> QED BY <2>1, <2>2
<1>4. /\ players' \in [Players -> PlayerStates] /\ players'[p] = pl
      /\ \A q \in Players : q # p => players'[q] = players[q]
  <2>1. players' = [players EXCEPT ![p] = pl]
    BY <1>1, <1>2, <1>3
  <2> QED BY <1>1, <2>1, PlayerSet
<1>5. /\ pl.loopBusy = k /\ pl.session = k
      /\ pl.status = players[p].status /\ pl.requested = players[p].requested
      /\ pl.master = players[p].master /\ pl.hold = players[p].hold
      /\ pl.sub = players[p].sub /\ pl.loop = players[p].loop /\ pl.mix = players[p].mix
      /\ pl.click = players[p].click /\ pl.clickBusy = players[p].clickBusy
  BY <1>1, <1>2, <1>3 DEF PlayerStates
<1>6. /\ \A q \in Players : /\ Core(q) /\ players'[q].click = players[q].click
                            /\ players'[q].loop = players[q].loop
                            /\ players'[q].mix = players[q].mix
  BY <1>2, <1>4, <1>5 DEF Core
<1>7. /\ engine' \in EngineStates /\ engine'.loop = l /\ engine'.stray = s
      /\ engine'.mix = engine.mix /\ engine'.master = engine.master
      /\ engine'.holds = engine.holds /\ engine'.tracks = engine.tracks
      /\ engine'.grid = engine.grid /\ engine'.follow = engine.follow
      /\ engine'.metronome = engine.metronome
  BY <1>1, NewLoopIs
<1>8. Shift(0, TRUE, x)
  BY AnswersMore
<1>9. SessionTypes'
  BY <1>4, <1>7, <1>8 DEF SessionTypes, Shift
<1>10. Owned' /\ Held' /\ Tracks'
  <2>1. engine.mix = players[p].mix
    BY DEF SessionInv, Tracks
  <2> QED BY <1>4, <1>5, <1>6, <1>7, <2>1, TwoPlayers, TapKeeps
<1>11. ASSUME NEW a \in Replies, Stays(0, a) PROVE a.kind \notin Changes
  <2> SUFFICES ASSUME a.kind \in Changes PROVE FALSE
    OBVIOUS
  <2>1. a.player = p /\ Finds(a)
    BY <1>11, ReadyAlone DEF Stays
  <2> QED BY <2>1 DEF Finds, Changes, busy
<1>12. LoopTold(p)
  <2>1. ASSUME NEW i \in 1..Len(answers), answers[i].kind \in Changes PROVE FALSE
    <3>1. PICK a \in Replies : a = answers[i]
      BY AnswerIs
    <3> QED BY <1>11, <2>1, <3>1 DEF Stays
  <2> QED BY <2>1 DEF SessionInv, LoopKept
<1>13. Finds(x)'
  <2>1. players'[p].status = "ready" /\ players'[p].loopBusy = players'[p].session
    BY <1>4, <1>5 DEF Ready
  <2>2. ASSUME x.kind = "setLoop" PROVE IF x.ok THEN engine'.loop = x.arg.loop ELSE LoopTold(p)'
    BY <1>4, <1>5, <1>7, <1>12, <2>2 DEF LoopTold, LoopFree, LoopOn
  <2>3. ASSUME x.kind = "clearLoop"
        PROVE  LoopOn(players'[p]) /\ IF x.ok THEN engine'.loop = "none" ELSE LoopTold(p)'
    BY <1>4, <1>5, <1>7, <1>12, <2>3 DEF LoopTold, LoopFree, LoopOn
  <2>4. CASE x.kind = "setLoop"
    BY <2>1, <2>2, <2>4 DEF Finds
  <2>5. CASE x.kind = "clearLoop"
    BY <2>1, <2>3, <2>5 DEF Finds
  <2> QED BY <2>4, <2>5 DEF Changes
<1>14. Ordered'
  <2>1. ASSUME NEW a \in Replies, a.player = p, a.kind = "grid", Finds(a) PROVE Finds(a)'
    BY <1>2, <1>4, <1>5, <1>7, <2>1 DEF Finds
  <2>2. /\ 0 \in {0, 1} /\ TRUE \in BOOLEAN /\ x.kind \in Changes \cup {"grid"}
        /\ x.kind # "grid"
    BY DEF Changes
  <2>3. \A a \in Replies : Stays(0, a) /\ a.player = p /\ a.kind \in Changes \cup {"grid"}
                              /\ Finds(a) => Finds(a)'
    BY <1>11, <2>1
  <2> QED BY <1>4, <1>6, <1>8, <1>11, <1>13, <2>2, <2>3, ReadyStep
<1>15. PICK c \in DbCalls : TRUE
  BY ACall
<1>16. QShift(0, FALSE, c)
  BY QueueSame
<1>17. Reads'
  <2>1. NoReads
    BY ReadyAlone
  <2> QED BY <1>6, <1>16, <2>1, ReadsShift DEF SessionInv
<1>18. LoopKept'
  <2>1. PICK j \in 1..Len(answers') : answers'[j] = x
    BY <1>8 DEF Shift, Shifted
  <2>2. ASSUME NEW q \in Players, Ready(q)'
        PROVE  answers'[j].kind \in Changes /\ IsCurrent(answers[j])'
    <3>1. IsCurrent(x)'
      BY <1>2, <1>4, <1>5 DEF IsCurrent, Live
    <3> QED BY <2>1, <3>1
  <2>3. \/ LoopFree'
        \/ \E q \in Players : LoopOn(players[q])'
        \/ \E i \in 1..Len(answers') : answers'[i].kind = "setLoop" /\ answers'[i].ok
    <3>1. CASE x.kind = "clearLoop"
      BY <1>7, <3>1 DEF LoopFree
    <3>2. CASE x.kind = "setLoop" /\ x.ok
      BY <2>1, <3>2
    <3>3. CASE x.kind = "setLoop" /\ ~x.ok
      <4>1. LoopFree' <=> LoopFree
        BY <1>7, <3>3 DEF LoopFree
      <4>2. CASE LoopFree
        BY <4>1, <4>2
      <4>3. ASSUME NEW q \in Players, LoopOn(players[q])
            PROVE  \E r \in Players : LoopOn(players[r])'
        BY <1>6, <4>3 DEF LoopOn
      <4>4. ASSUME NEW i \in 1..Len(answers), answers[i].kind = "setLoop", answers[i].ok
            PROVE  FALSE
        <5>1. PICK a \in Replies : a = answers[i]
          BY AnswerIs
        <5> QED BY <1>11, <4>4, <5>1, AnswerIs DEF Stays, Changes
      <4> QED BY <4>2, <4>3, <4>4 DEF SessionInv, LoopKept
    <3> QED BY <3>1, <3>2, <3>3 DEF Changes
  <2>4. \A q \in Players : LoopOn(players[q])' => Ready(q)'
    BY <1>6 DEF SessionInv, LoopKept, LoopOn, Ready, Core
  <2> QED BY <2>2, <2>3, <2>4 DEF LoopKept
<1>19. ClickKept'
  <2>1. 0 \in {0, 1} /\ (0 = 1 => answers[1].kind # "grid")
    OBVIOUS
  <2> QED BY <1>6, <1>7, <1>8, <2>1, ClickKeptFrame DEF SessionInv
<1>20. LevelKept'
  BY <1>6, <1>7, TwoPlayers DEF SessionInv, LevelKept, Core
<1>21. Saved'
  <2>1. (NoSaves' <=> NoSaves) /\ (LastSaveIs(user.mix) => LastSaveIs(user.mix)')
    BY DEF NoSaves, LastSaveIs
  <2>2. x.kind \notin Loads /\ 0 \in {0, 1} /\ Saved
    BY DEF Changes, Loads, SessionInv
  <2> QED BY <1>6, <1>8, <2>1, <2>2, TwoPlayers, SavedFrame
<1> QED BY <1>9, <1>10, <1>14, <1>17, <1>18, <1>19, <1>20, <1>21 DEF SessionInv

\* A loop is asked for.
LEMMA SetLoopAsked ==
  ASSUME SessionTypes, SessionInv, NEW p \in Players, Ready(p), ~busy(p),
         NEW l \in Loops, NEW then \in {"none", "undo", "section"}, AskSetLoop(p, l, then),
         UNCHANGED <<claim, screens, top, editing, db, user>>
  PROVE  SessionTypes' /\ SessionInv'
<1>1. players \in [Players -> PlayerStates] /\ engine \in EngineStates
  BY DEF SessionTypes
<1>2. PICK was \in {"off", "armed"} \cup Loops, undo \in {"none"} \cup Loops, k \in Nat :
        was = players[p].loop /\ undo = players[p].undo /\ k = players[p].session
  BY <1>1 DEF PlayerStates
<1>3. PICK arg \in LoopAsked : arg = [loop |-> l, then |-> then, was |-> was, undo |-> undo]
  BY DEF LoopAsked
<1>4. arg.loop = l
  BY <1>3
<1>5. PICK ok \in BOOLEAN :
        /\ answers' = Append(answers, Ask("setLoop", p, ok, arg))
        /\ engine' = IF ok THEN [engine EXCEPT !.loop = l, !.stray = FALSE] ELSE engine
        /\ players' = [players EXCEPT ![p].loopBusy = players[p].session]
  BY <1>2, <1>3 DEF AskSetLoop
<1>6. PICK x \in Replies : x = Ask("setLoop", p, ok, arg)
  BY <1>2 DEF Ask, Replies, Changes
<1>7. /\ x.kind = "setLoop" /\ x.player = p /\ x.session = players[p].session
      /\ x.ok = ok /\ x.arg = arg
  BY <1>6 DEF Ask
<1>8. PICK m \in {"none"} \cup Loops, s \in BOOLEAN :
        /\ engine' = NewLoop(m, s)
        /\ IF ok THEN m = l ELSE m = engine.loop /\ s = engine.stray
  <2>1. CASE ok
    BY <1>5, <2>1 DEF NewLoop
  <2>2. CASE ~ok
    <3>1. engine = NewLoop(engine.loop, engine.stray)
      BY <1>1 DEF NewLoop, EngineStates
    <3>2. engine.loop \in {"none"} \cup Loops /\ engine.stray \in BOOLEAN
      BY <1>1 DEF EngineStates
    <3> QED BY <1>5, <2>2, <3>1, <3>2
  <2> QED BY <2>1, <2>2
<1>9. /\ x.kind \in Changes /\ x.kind # "clearLoop" /\ x.arg \in LoopAsked
      /\ IF x.ok THEN m = x.arg.loop ELSE m = engine.loop /\ s = engine.stray
  BY <1>4, <1>7, <1>8 DEF Changes
<1> QED BY <1>5, <1>6, <1>7, <1>8, <1>9, LoopAsk

\* The loop is to be cleared.
LEMMA ClearLoopAsked ==
  ASSUME SessionTypes, SessionInv, NEW p \in Players, Ready(p), ~busy(p),
         LoopOn(players[p]), NEW undoable \in {"none"} \cup Loops, AskClearLoop(p, undoable),
         UNCHANGED <<claim, screens, top, editing, db, user>>
  PROVE  SessionTypes' /\ SessionInv'
<1>1. players \in [Players -> PlayerStates] /\ engine \in EngineStates
  BY DEF SessionTypes
<1>2. PICK k \in Nat : k = players[p].session
  BY <1>1 DEF PlayerStates
<1>3. PICK ok \in BOOLEAN :
        /\ answers' = Append(answers, Ask("clearLoop", p, ok, undoable))
        /\ engine' = WithLoopCleared(engine, ok)
        /\ players' = [players EXCEPT ![p].loopBusy = players[p].session]
  BY DEF AskClearLoop
<1>4. PICK x \in Replies : x = Ask("clearLoop", p, ok, undoable)
  BY <1>2 DEF Ask, Replies, Changes
<1>5. /\ x.kind = "clearLoop" /\ x.player = p /\ x.session = players[p].session
      /\ x.ok = ok /\ x.arg = undoable /\ x.kind \in Changes /\ x.kind # "setLoop"
  BY <1>4 DEF Ask, Changes
<1>6. PICK l \in {"none"} \cup Loops, s \in BOOLEAN :
            /\ engine' = NewLoop(l, s)
            /\ l = "none" \/ s
            /\ IF ok THEN l = "none" ELSE l = engine.loop
  BY <1>1, <1>3, ClearedIs
<1> QED BY <1>3, <1>4, <1>5, <1>6, LoopAsk

\* The loop key, its undo and the sections.
LEMMA LoopTaps ==
  ASSUME SessionTypes, SessionInv,
         \/ \E p \in Players : MarkLoop(p)
         \/ UndoLoop \/ DismissLoopUndo \/ JumpToSection \/ \E l \in Loops : LoopSection(l)
  PROVE  SessionTypes' /\ SessionInv'
<1>1. players \in [Players -> PlayerStates]
  BY DEF SessionTypes
<1>2. ASSUME NEW p \in Players, MarkLoop(p) PROVE SessionTypes' /\ SessionInv'
  <2>1. /\ Ready(p) /\ claim = p /\ ~busy(p)
        /\ UNCHANGED <<claim, screens, top, editing, db, user>>
    BY <1>2, TapIs DEF MarkLoop, Playing
  <2>2. CASE LoopOn(players[p])
    <3>1. AskClearLoop(p, "none")
      BY SessionAssumption, <1>2, <2>2 DEF MarkLoop, LoopOn, SessionAssumption
    <3> QED BY <2>1, <2>2, <3>1, ClearLoopAsked
  <2>3. ASSUME ~LoopOn(players[p]), UNCHANGED <<answers, engine>>,
               \/ players' = [players EXCEPT ![p].loop = "armed", ![p].undo = "none"]
               \/ players' = [players EXCEPT ![p].loop = "off"]
        PROVE  SessionTypes' /\ SessionInv'
    BY <2>1, <2>3, LoopArmed
  <2>4. ASSUME NEW l \in Loops, AskSetLoop(p, l, "none") PROVE SessionTypes' /\ SessionInv'
    BY <2>1, <2>4, SetLoopAsked
  <2>5. CASE ~LoopOn(players[p])
    BY <1>2, <2>3, <2>4, <2>5 DEF MarkLoop
  <2> QED BY <2>2, <2>5
<1>3. CASE UndoLoop
  <2>1. /\ Ready("stem") /\ ~busy("stem")
        /\ UNCHANGED <<claim, screens, top, editing, db, user>>
    BY <1>3, TapIs DEF UndoLoop, Playing
  <2>2. PICK l \in Loops : l = players["stem"].undo
    BY <1>1, <1>3, TwoPlayers DEF UndoLoop, PlayerStates
  <2>3. AskSetLoop("stem", l, "undo")
    BY <1>3, <2>2 DEF UndoLoop
  <2> QED BY <2>1, <2>3, TwoPlayers, SetLoopAsked
<1>4. CASE DismissLoopUndo
  BY <1>4, UndoDismissed
<1>5. CASE JumpToSection
  <2>1. /\ Ready("stem") /\ ~busy("stem") /\ claim = "stem"
        /\ UNCHANGED <<claim, screens, top, editing, db, user>>
    BY <1>5, TapIs DEF JumpToSection, Playing
  <2>2. CASE LoopOn(players["stem"]) /\ AskClearLoop("stem", players["stem"].loop)
    <3>1. PICK l \in {"none"} \cup Loops : l = players["stem"].loop
      BY <2>2 DEF LoopOn
    <3> QED BY <2>1, <2>2, <3>1, TwoPlayers, ClearLoopAsked
  <2>3. CASE /\ players' = [players EXCEPT !["stem"].scrub = FALSE]
             /\ UNCHANGED <<answers, engine>>
    BY <2>1, <2>3, TwoPlayers, Unscrubbed
  <2> QED BY <1>5, <2>2, <2>3 DEF JumpToSection
<1>6. ASSUME NEW l \in Loops, LoopSection(l) PROVE SessionTypes' /\ SessionInv'
  <2>1. /\ Ready("stem") /\ ~busy("stem") /\ AskSetLoop("stem", l, "section")
        /\ UNCHANGED <<claim, screens, top, editing, db, user>>
    BY <1>6, TapIs DEF LoopSection, Playing
  <2> QED BY <2>1, TwoPlayers, SetLoopAsked
<1> QED BY <1>2, <1>3, <1>4, <1>5, <1>6

-----------------------------------------------------------------------------
(* The click's calls, and the answers a ready song gets. *)

\* A step of a ready song's player that leaves its mix, its levels and what is stored.
LEMMA ReadyRest ==
  ASSUME SessionTypes, SessionInv, NEW p \in Players, Ready(p),
         players' \in [Players -> PlayerStates],
         \A q \in Players : Core(q) /\ players'[q].mix = players[q].mix,
         \A q \in Players : q # p => players'[q] = players[q],
         engine' \in EngineStates,
         engine'.holds = engine.holds, engine'.tracks = engine.tracks,
         engine'.mix = engine.mix, engine'.master = engine.master,
         NEW d \in {0, 1}, NEW n \in BOOLEAN, NEW x \in Replies, Shift(d, n, x),
         n => x.kind \notin Loads,
         Ordered', LoopKept', ClickKept',
         UNCHANGED <<claim, screens, top, editing, db, user>>
  PROVE  SessionTypes' /\ SessionInv'
<1>1. SessionTypes'
  BY DEF SessionTypes, Shift
<1>2. Owned' /\ Held' /\ Tracks'
  <2>1. engine.mix = players[p].mix
    BY DEF SessionInv, Tracks
  <2>2. \A q \in Players : Core(q)
    OBVIOUS
  <2>3. engine'.mix = players'[p].mix
    BY <2>1
  <2> QED BY <2>2, <2>3, TwoPlayers, TapKeeps
<1>3. PICK c \in DbCalls : TRUE
  BY ACall
<1>4. QShift(0, FALSE, c)
  BY QueueSame
<1>5. Reads'
  <2>1. NoReads
    BY ReadyAlone
  <2> QED BY <1>4, <2>1, ReadsShift DEF SessionInv
<1>6. LevelKept'
  BY TwoPlayers DEF SessionInv, LevelKept, Core
<1>7. Saved'
  <2>1. (NoSaves' <=> NoSaves) /\ (LastSaveIs(user.mix) => LastSaveIs(user.mix)')
    BY DEF NoSaves, LastSaveIs
  <2>2. Saved
    BY DEF SessionInv
  <2> QED BY <2>1, <2>2, TwoPlayers, SavedFrame
<1> QED BY <1>1, <1>2, <1>5, <1>6, <1>7 DEF SessionInv

\* The stopped click of a player.
LEMMA QuietIs ==
  ASSUME engine \in EngineStates, engine' = stopClick(engine)
  PROVE  /\ engine' \in EngineStates
         /\ engine'.holds = engine.holds /\ engine'.tracks = engine.tracks
         /\ engine'.mix = engine.mix /\ engine'.master = engine.master
         /\ engine'.loop = engine.loop /\ engine'.stray = engine.stray
         /\ ~engine'.follow /\ engine'.grid = "none" /\ engine'.metronome = "off"
BY DEF stopClick, EngineStates

\* Only the open player clicks.
LEMMA OneClicks ==
  ASSUME SessionTypes, SessionInv, NEW p \in Players, Ready(p), NEW q \in Players, q # p
  PROVE  ~players[q].click
<1>1. players[q].status = "idle"
  BY ReadyAlone
<1> QED BY <1>1 DEF SessionInv, ClickKept, Ready

\* The click is turned off.
LEMMA ClickOff ==
  ASSUME SessionTypes, SessionInv, NEW p \in Players, players[p].click,
         players' = [players EXCEPT ![p].click = FALSE], engine' = stopClick(engine),
         UNCHANGED <<answers, claim, screens, top, editing, db, user>>
  PROVE  SessionTypes' /\ SessionInv'
<1>1. players \in [Players -> PlayerStates] /\ engine \in EngineStates
  BY DEF SessionTypes
<1>2. Ready(p)
  BY DEF SessionInv, ClickKept
<1>3. PICK was \in PlayerStates : was = players[p]
  BY <1>1
<1>4. PICK pl \in PlayerStates : pl = [was EXCEPT !.click = FALSE]
  BY DEF PlayerStates
<1>5. /\ players' \in [Players -> PlayerStates] /\ players'[p] = pl
      /\ \A q \in Players : q # p => players'[q] = players[q]
  <2>1. players' = [players EXCEPT ![p] = pl]
    BY <1>1, <1>3, <1>4
  <2> QED BY <1>1, <2>1, PlayerSet
<1>6. /\ pl.session = was.session /\ pl.status = was.status
      /\ pl.requested = was.requested /\ pl.master = was.master /\ pl.hold = was.hold
      /\ pl.sub = was.sub /\ pl.loop = was.loop /\ pl.mix = was.mix
      /\ pl.loopBusy = was.loopBusy /\ ~pl.click
  BY <1>4 DEF PlayerStates
<1>7. \A q \in Players : Core(q) /\ players'[q].mix = players[q].mix /\ SameLoop(q)
  BY <1>3, <1>5, <1>6 DEF Core, SameLoop
<1>8. /\ engine' \in EngineStates
      /\ engine'.holds = engine.holds /\ engine'.tracks = engine.tracks
      /\ engine'.mix = engine.mix /\ engine'.master = engine.master
      /\ engine'.loop = engine.loop /\ engine'.stray = engine.stray
      /\ ~engine'.follow /\ engine'.grid = "none" /\ engine'.metronome = "off"
  BY <1>1, QuietIs
<1>9. PICK x \in Replies : TRUE
  BY AReply
<1>10. Shift(0, FALSE, x) /\ 0 \in {0, 1} /\ (0 = 1 => answers[1].kind \notin Changes)
  <2>1. 0 \in {0, 1} /\ (0 = 1 => answers[1].kind \notin Changes)
    OBVIOUS
  <2> QED BY <2>1, AnswersSame
<1>11. Ordered'
  <2>1. ASSUME NEW a \in Replies, a.player = p, a.kind \in Changes \cup {"grid"}, Finds(a)
        PROVE  Finds(a)'
    <3>1. a.kind # "grid"
      BY <2>1 DEF Finds
    <3>2. players'[p].status = players[p].status
          /\ players'[p].session = players[p].session
          /\ players'[p].loopBusy = players[p].loopBusy
      BY <1>7 DEF Core, SameLoop
    <3>3. LoopTold(p)' <=> LoopTold(p)
      BY <1>7, <1>8 DEF LoopTold, LoopFree, LoopOn, SameLoop
    <3>4. LoopOn(players[p])' <=> LoopOn(players[p])
      BY <1>7 DEF LoopOn, SameLoop
    <3>5. CASE a.kind = "setLoop"
      BY <1>8, <2>1, <3>2, <3>3, <3>5 DEF Finds
    <3>6. CASE a.kind = "clearLoop"
      BY <1>8, <2>1, <3>2, <3>3, <3>4, <3>6 DEF Finds
    <3> QED BY <2>1, <3>1, <3>5, <3>6 DEF Changes
  <2> QED BY <1>2, <1>5, <1>7, <1>10, <2>1, ReadyStep
<1>12. LoopKept'
  BY <1>7, <1>8, <1>10, LoopKeptFrame DEF SessionInv
<1>13. ClickKept'
  <2>1. \A q \in Players : ~players'[q].click
    BY <1>2, <1>5, <1>6, OneClicks
  <2> QED BY <1>8, <2>1 DEF ClickKept
<1> QED BY <1>2, <1>5, <1>7, <1>8, <1>10, <1>11, <1>12, <1>13, ReadyRest

\* onSongStopped: the one click that sounds is turned off.
LEMMA ClicksStop ==
  ASSUME SessionTypes, SessionInv, SongStopped
  PROVE  SessionTypes' /\ SessionInv'
<1> DEFINE clicking == {p \in Players : players[p].sub /\ players[p].click}
<1>1. /\ players' = [p \in Players |->
                       [players[p] EXCEPT !.click = @ /\ p \notin clicking]]
      /\ engine' = IF clicking = {} THEN engine ELSE stopClick(engine)
      /\ UNCHANGED <<answers, claim, screens, top, editing, db, user>>
  BY DEF SongStopped
<1>2. players \in [Players -> PlayerStates] /\ engine \in EngineStates
  BY DEF SessionTypes
<1>3. CASE clicking = {}
  <2>1. ASSUME NEW p \in Players
        PROVE  [players[p] EXCEPT !.click = @ /\ p \notin clicking] = players[p]
    <3>1. PICK b \in BOOLEAN : b = players[p].click
      BY <1>2 DEF PlayerStates
    <3>2. (b /\ p \notin clicking) = b
      BY <1>3
    <3>3. [players[p] EXCEPT !.click = b] = players[p]
      BY <1>2, <3>1 DEF PlayerStates
    <3> QED BY <3>1, <3>2, <3>3
  <2>2. players' = players
    BY <1>1, <1>2, <2>1
  <2>3. /\ players' \in [Players -> PlayerStates] /\ engine' \in EngineStates
        /\ \A q \in Players : Light(q)
    BY <1>1, <1>2, <1>3, <2>2 DEF Light, Core, SameLoop
  <2>4. LightEngine
    BY <1>1, <1>3 DEF LightEngine
  <2>5. editing' \in Screens \cup {"none"}
    BY <1>1 DEF SessionTypes
  <2> QED BY <1>1, <1>3, <2>2, <2>3, <2>4, <2>5, LightStep
<1>4. CASE clicking # {}
  <2>1. PICK p \in Players : players[p].sub /\ players[p].click
    BY <1>4
  <2>2. Ready(p)
    BY <2>1 DEF SessionInv, ClickKept
  <2>3. \A q \in Players : q # p => q \notin clicking
    BY <2>2, OneClicks
  <2>4. ASSUME NEW q \in Players, q # p
        PROVE  [players[q] EXCEPT !.click = @ /\ q \notin clicking] = players[q]
    <3>1. PICK b \in BOOLEAN : b = players[q].click
      BY <1>2 DEF PlayerStates
    <3>2. (b /\ q \notin clicking) = b
      BY <2>3, <2>4
    <3>3. [players[q] EXCEPT !.click = b] = players[q]
      BY <1>2, <3>1 DEF PlayerStates
    <3> QED BY <3>1, <3>2, <3>3
  <2>5. [players[p] EXCEPT !.click = @ /\ p \notin clicking]
          = [players[p] EXCEPT !.click = FALSE]
    <3>1. (players[p].click /\ p \notin clicking) = FALSE
      BY <2>1
    <3> QED BY <3>1
  <2>6. players' = [players EXCEPT ![p].click = FALSE]
    BY <1>1, <1>2, <2>4, <2>5
  <2> QED BY <1>1, <1>4, <2>1, <2>6, ClickOff
<1> QED BY <1>3, <1>4

\* The click is asked for.
LEMMA ClickAsked ==
  ASSUME SessionTypes, SessionInv, NEW p \in Players, Ready(p),
         players[p].clickBusy # players[p].session, ~players[p].click, NEW ok \in BOOLEAN,
         players' = [players EXCEPT ![p].clickBusy = players[p].session],
         engine' = LET e == ReleaseShared(engine) IN IF ok THEN [e EXCEPT !.grid = p] ELSE e,
         answers' = Append(answers, Ask("grid", p, ok, "none")),
         UNCHANGED <<claim, screens, top, editing, db, user>>
  PROVE  SessionTypes' /\ SessionInv'
<1>1. players \in [Players -> PlayerStates] /\ engine \in EngineStates
  BY DEF SessionTypes
<1>2. PICK was \in PlayerStates : was = players[p]
  BY <1>1
<1>3. PICK k \in Nat : k = was.session
  BY DEF PlayerStates
<1>4. PICK pl \in PlayerStates : pl = [was EXCEPT !.clickBusy = k]
  BY DEF PlayerStates
<1>5. /\ players' \in [Players -> PlayerStates] /\ players'[p] = pl
      /\ \A q \in Players : q # p => players'[q] = players[q]
  <2>1. players' = [players EXCEPT ![p] = pl]
    BY <1>1, <1>2, <1>3, <1>4
  <2> QED BY <1>1, <2>1, PlayerSet
<1>6. /\ pl.session = was.session /\ pl.status = was.status
      /\ pl.requested = was.requested /\ pl.master = was.master /\ pl.hold = was.hold
      /\ pl.sub = was.sub /\ pl.loop = was.loop /\ pl.mix = was.mix
      /\ pl.loopBusy = was.loopBusy /\ pl.click = was.click
      /\ pl.clickBusy = was.session
  BY <1>3, <1>4 DEF PlayerStates
<1>7. \A q \in Players : /\ Core(q) /\ players'[q].mix = players[q].mix /\ SameLoop(q)
                         /\ players'[q].click = players[q].click
  BY <1>2, <1>5, <1>6 DEF Core, SameLoop
<1>8. PICK m \in {"off", "click", "tool"}, g \in Players \cup {"none"} :
        /\ engine' = [engine EXCEPT !.metronome = m, !.grid = g]
        /\ m = engine.metronome \/ m = "off"
        /\ g = IF ok THEN p ELSE engine.grid
  <2>1. PICK m \in {"off", "click", "tool"} : m = IF tool THEN "off" ELSE engine.metronome
    BY <1>1 DEF EngineStates
  <2>2. ReleaseShared(engine) = [engine EXCEPT !.metronome = m]
    BY <1>1, <2>1 DEF ReleaseShared, EngineStates
  <2>3. PICK g \in Players \cup {"none"} : g = IF ok THEN p ELSE engine.grid
    BY <1>1 DEF EngineStates
  <2>4. engine' = [engine EXCEPT !.metronome = m, !.grid = g]
    BY <1>1, <2>2, <2>3 DEF EngineStates
  <2> QED BY <2>1, <2>3, <2>4
<1>9. /\ engine' \in EngineStates
      /\ engine'.holds = engine.holds /\ engine'.tracks = engine.tracks
      /\ engine'.mix = engine.mix /\ engine'.master = engine.master
      /\ engine'.loop = engine.loop /\ engine'.stray = engine.stray
      /\ engine'.follow = engine.follow /\ engine'.grid = g /\ engine'.metronome = m
  BY <1>1, <1>8 DEF EngineStates
<1>10. PICK x \in Replies : x = Ask("grid", p, ok, "none")
  BY <1>2, <1>3 DEF Ask, Replies
<1>11. x.kind = "grid" /\ x.player = p /\ x.session = players[p].session /\ x.ok = ok
  BY <1>10 DEF Ask
<1>12. Shift(0, TRUE, x)
  BY <1>10, AnswersMore
<1>13. ASSUME NEW a \in Replies, Stays(0, a) PROVE a.kind # "grid"
  <2> SUFFICES ASSUME a.kind = "grid" PROVE FALSE
    OBVIOUS
  <2>1. a.player = p /\ Finds(a)
    BY <1>13, ReadyAlone DEF Stays
  <2> QED BY <2>1 DEF Finds
<1>14. /\ 0 \in {0, 1} /\ (0 = 1 => answers[1].kind \notin Changes) /\ TRUE \in BOOLEAN
       /\ x.kind \notin Loads /\ x.kind \notin Changes
  BY <1>11 DEF Loads, Changes
<1>15. Ordered'
  <2>1. ASSUME NEW a \in Replies, Stays(0, a), a.player = p, a.kind \in Changes \cup {"grid"},
               Finds(a)
        PROVE  Finds(a)'
    <3>1. a.kind # "grid"
      BY <1>13, <2>1
    <3>2. players'[p].status = players[p].status
          /\ players'[p].session = players[p].session
          /\ players'[p].loopBusy = players[p].loopBusy
      BY <1>7 DEF Core, SameLoop
    <3>3. LoopTold(p)' <=> LoopTold(p)
      BY <1>7, <1>9 DEF LoopTold, LoopFree, LoopOn, SameLoop
    <3>4. LoopOn(players[p])' <=> LoopOn(players[p])
      BY <1>7 DEF LoopOn, SameLoop
    <3>5. CASE a.kind = "setLoop"
      BY <1>9, <2>1, <3>2, <3>3, <3>5 DEF Finds
    <3>6. CASE a.kind = "clearLoop"
      BY <1>9, <2>1, <3>2, <3>3, <3>4, <3>6 DEF Finds
    <3> QED BY <2>1, <3>1, <3>5, <3>6 DEF Changes
  <2>2. Finds(x)'
    <3>1. players'[p].status = "ready" /\ players'[p].clickBusy = players'[p].session
          /\ ~players'[p].click
      BY <1>2, <1>5, <1>6 DEF Ready
    <3>2. x.ok => engine'.grid = p
      BY <1>8, <1>9, <1>11
    <3> QED BY <1>11, <3>1, <3>2 DEF Finds
  <2>3. x.kind # "setLoop" /\ x.kind # "clearLoop" /\ x.kind \in Changes \cup {"grid"}
    BY <1>11
  <2>4. \A a \in Replies : Stays(0, a) /\ a.player = p /\ a.kind \in Changes \cup {"grid"}
                              /\ Finds(a) => Finds(a)'
    BY <2>1
  <2>5. \A a \in Replies : Stays(0, a) => /\ x.kind \in Changes => a.kind \notin Changes
                                          /\ x.kind = "grid" => a.kind # "grid"
    BY <1>13, <1>14
  <2>6. \A q \in Players : Core(q)
    BY <1>7
  <2> QED BY <1>5, <1>11, <1>12, <1>14, <2>2, <2>3, <2>4, <2>5, <2>6, ReadyStep
<1>16. LoopKept'
  BY <1>7, <1>9, <1>12, <1>14, LoopKeptFrame DEF SessionInv
<1>17. ClickKept'
  <2>1. \A q \in Players : ~players[q].click /\ ~players'[q].click
    BY <1>2, <1>7, OneClicks
  <2>2. /\ ~engine.follow /\ engine.metronome # "click"
        /\ \/ engine.grid = "none"
           \/ \E i \in 1..Len(answers) : answers[i].kind = "grid" /\ answers[i].ok
    BY <2>1 DEF SessionInv, ClickKept
  <2>3. ~engine'.follow /\ engine'.metronome # "click"
    BY <1>8, <1>9, <2>2
  <2>4. CASE ok
    <3>1. PICK j \in 1..Len(answers') : answers'[j] = x
      BY <1>12 DEF Shift, Shifted
    <3> QED BY <1>11, <2>1, <2>3, <2>4, <3>1 DEF ClickKept
  <2>5. CASE ~ok
    <3>1. engine'.grid = engine.grid
      BY <1>8, <1>9, <2>5
    <3>2. ASSUME NEW i \in 1..Len(answers), answers[i].kind = "grid" PROVE FALSE
      <4>1. PICK a \in Replies : a = answers[i]
        BY AnswerIs
      <4> QED BY <1>13, <3>2, <4>1, AnswerIs DEF Stays
    <3> QED BY <2>1, <2>2, <2>3, <3>1, <3>2 DEF ClickKept
  <2> QED BY <2>4, <2>5
<1> QED BY <1>5, <1>7, <1>9, <1>12, <1>14, <1>15, <1>16, <1>17, ReadyRest

\* The click key.
LEMMA ClickTap ==
  ASSUME SessionTypes, SessionInv, NEW p \in Players, ToggleClick(p)
  PROVE  SessionTypes' /\ SessionInv'
<1>1. /\ Ready(p) /\ UNCHANGED <<claim, screens, top, editing, db, user>>
  BY TapIs DEF ToggleClick, Playing
<1>2. CASE players[p].click
  BY <1>1, <1>2, ClickOff DEF ToggleClick
<1>3. CASE ~players[p].click
  BY <1>1, <1>3, ClickAsked DEF ToggleClick
<1> QED BY <1>2, <1>3

-----------------------------------------------------------------------------
(* The answers a ready song's calls get. *)

\* The loop call that is answered was the only one.
LEMMA LiveChange ==
  ASSUME SessionTypes, SessionInv, answers # <<>>, IsCurrent(answers[1]),
         answers[1].kind \in Changes \cup {"grid"}
  PROVE  LET p == answers[1].player IN p \in Players /\ Ready(p) /\ Finds(answers[1])
<1>1. 1 \in 1..Len(answers) /\ answers[1] \in Replies
  BY HeadIs
<1>2. PICK a \in Replies : a = answers[1]
  BY <1>1
<1>3. a.player \in Players /\ Finds(a)
  BY <1>1, <1>2 DEF SessionInv, Ordered, Sound, Answering, Replies
<1>4. Ready(a.player)
  BY <1>2, <1>3 DEF Finds, Changes, Ready
<1> QED BY <1>2, <1>3, <1>4

\* What the answer leaves of the loop.
LEMMA LoopAnswered ==
  ASSUME SessionTypes, SessionInv, answers # <<>>, answers' = Tail(answers),
         NEW p \in Players, p = answers[1].player, IsCurrent(answers[1]),
         answers[1].kind \in Changes,
         NEW pl \in PlayerStates, players' = [players EXCEPT ![p] = pl],
         pl.session = players[p].session, pl.status = players[p].status,
         pl.requested = players[p].requested, pl.master = players[p].master,
         pl.hold = players[p].hold, pl.sub = players[p].sub,
         pl.click = players[p].click, pl.clickBusy = players[p].clickBusy,
         pl.mix = players[p].mix, engine' = engine, LoopTold(p)',
         UNCHANGED <<claim, screens, top, editing, db, user>>
  PROVE  SessionTypes' /\ SessionInv'
<1>1. players \in [Players -> PlayerStates] /\ engine \in EngineStates
  BY DEF SessionTypes
<1>2. Ready(p)
  BY LiveChange
<1>3. /\ players' \in [Players -> PlayerStates] /\ players'[p] = pl
      /\ \A q \in Players : q # p => players'[q] = players[q]
  BY <1>1, PlayerSet
<1>4. \A q \in Players : /\ Core(q) /\ players'[q].mix = players[q].mix
                         /\ players'[q].click = players[q].click
                         /\ players'[q].clickBusy = players[q].clickBusy
  BY <1>3 DEF Core
<1>5. PICK x \in Replies : TRUE
  BY AReply
<1>6. Shift(1, FALSE, x)
  BY AnswersDone
<1>7. 1 \in {0, 1} /\ (1 = 1 => answers[1].kind # "grid")
  BY DEF Changes
<1>8. ASSUME NEW a \in Replies, Stays(1, a) PROVE a.kind \notin Changes
  <2> SUFFICES ASSUME a.kind \in Changes PROVE FALSE
    OBVIOUS
  <2>1. PICK i \in 1..Len(answers) : i > 1 /\ answers[i] = a
    BY <1>8 DEF Stays
  <2>2. IsCurrent(a)
    BY <1>2, <2>1, ReadyAlone
  <2>3. 1 \in 1..Len(answers) /\ i # 1
    BY <2>1, HeadIs
  <2> QED BY <2>1, <2>2, <2>3 DEF SessionInv, Ordered, Arranged
<1>9. Ordered'
  <2>1. ASSUME NEW a \in Replies, a.player = p, a.kind = "grid", Finds(a) PROVE Finds(a)'
    <3>1. /\ players'[p].status = players[p].status
          /\ players'[p].session = players[p].session
          /\ players'[p].clickBusy = players[p].clickBusy
          /\ players'[p].click <=> players[p].click
      BY <1>4 DEF Core
    <3> QED BY <2>1, <3>1 DEF Finds
  <2>2. \A a \in Replies : Stays(1, a) /\ a.player = p /\ a.kind \in Changes \cup {"grid"}
                              /\ Finds(a) => Finds(a)'
    BY <1>8, <2>1
  <2>3. \A q \in Players : Core(q)
    BY <1>4
  <2> QED BY <1>2, <1>3, <1>6, <1>7, <2>2, <2>3, ReadyStep
<1>10. LoopKept'
  <2>1. \A q \in Players : Ready(q)' => q = p
    BY <1>2, <1>4, ReadyAlone DEF Ready, Core
  <2>2. \A q \in Players : LoopOn(players[q])' => Ready(q)'
    <3>1. Ready(p)'
      BY <1>2, <1>4 DEF Ready, Core
    <3>2. \A q \in Players : q # p => (LoopOn(players[q])' => Ready(q)')
      BY <1>3 DEF SessionInv, LoopKept, LoopOn, Ready
    <3> QED BY <3>1, <3>2
  <2>3. LoopFree' \/ \E q \in Players : LoopOn(players[q])'
    BY DEF LoopTold
  <2> QED BY <2>1, <2>2, <2>3 DEF LoopKept
<1>11. ClickKept'
  BY <1>4, <1>6, <1>7, ClickKeptFrame DEF SessionInv
<1> QED BY <1>1, <1>2, <1>3, <1>4, <1>6, <1>7, <1>9, <1>10, <1>11, ReadyRest

\* The gate is free once its call has answered.
LEMMA GateIs ==
  ASSUME SessionTypes, NEW p \in Players, NEW a \in Replies
  PROVE  gateFreed(p, a) \in Nat
BY DEF gateFreed, NoSession, SessionTypes, PlayerStates

\* A loop is set, or refused.
LEMMA SetLoopLive ==
  ASSUME SessionTypes, SessionInv, SetLoopAnswered, IsCurrent(answers[1])
  PROVE  SessionTypes' /\ SessionInv'
<1>1. /\ answers # <<>> /\ answers' = Tail(answers) /\ Oldest(answers).kind = "setLoop"
      /\ UNCHANGED <<claim, screens, top, editing, db, user>>
  BY DEF SetLoopAnswered, Answered, Done, LoadFrame
<1>2. PICK a \in Replies : a = Oldest(answers) /\ a = answers[1]
  BY <1>1, HeadIs
<1>3. 1 \in 1..Len(answers)
  BY <1>1, HeadIs
<1>4. a.kind = "setLoop" /\ a.kind \in Changes /\ a.arg \in LoopAsked
  BY <1>1, <1>2, <1>3 DEF Changes, SessionInv, Ordered, Sound, Answering
<1>5. PICK p \in Players : p = a.player
  BY DEF Replies
<1>6. Ready(p) /\ Finds(a) /\ Live(p, a.session)
  BY <1>1, <1>2, <1>4, <1>5, LiveChange DEF IsCurrent
<1>7. IF a.ok THEN engine.loop = a.arg.loop ELSE LoopTold(p)
  BY <1>4, <1>5, <1>6 DEF Finds
<1>8. PICK was \in PlayerStates : was = players[p]
  BY DEF SessionTypes
<1>9. PICK b \in Nat : b = gateFreed(p, a)
  BY GateIs
<1>0. players \in [Players -> PlayerStates]
  BY DEF SessionTypes
<1>10. /\ a.arg.loop \in Loops /\ a.arg.was \in {"off", "armed"} \cup Loops
       /\ a.arg.undo \in {"none"} \cup Loops
  BY <1>4 DEF LoopAsked
<1> DEFINE freed == [players EXCEPT ![p].loopBusy = gateFreed(p, a)]
           undo == CASE a.arg.then = "undo" -> "none"
                     [] a.arg.then = "section" ->
                          IF a.arg.was \in Loops THEN a.arg.was ELSE a.arg.undo
                     [] OTHER -> players[p].undo
<1>11. /\ engine' = engine
       /\ players' = IF a.ok
                     THEN [freed EXCEPT ![p].loop = a.arg.loop, ![p].undo = undo,
                                        ![p].scrub = @ /\ a.arg.then # "section"]
                     ELSE [freed EXCEPT ![p].loop = refused(players[p])]
  BY <1>2, <1>5, <1>6 DEF SetLoopAnswered
<1>12. PICK s \in BOOLEAN, r \in BOOLEAN :
          s = was.scrub /\ r = (was.scrub /\ a.arg.then # "section")
  BY DEF PlayerStates
<1>13. PICK u \in {"none"} \cup Loops : u = undo
  BY <1>8, <1>10 DEF PlayerStates
<1>14. PICK l \in {"off", "armed"} \cup Loops :
          l = IF a.ok THEN a.arg.loop ELSE refused(players[p])
  BY <1>8, <1>10 DEF refused, PlayerStates, LoopOn
<1>15. PICK v \in {"none"} \cup Loops : v = was.undo
  BY DEF PlayerStates
<1> HIDE DEF undo
<1>16. PICK pl \in PlayerStates :
          /\ \/ pl = [was EXCEPT !.loopBusy = b, !.loop = l, !.undo = u, !.scrub = r]
             \/ pl = [was EXCEPT !.loopBusy = b, !.loop = l, !.undo = v, !.scrub = s]
          /\ players' = [players EXCEPT ![p] = pl]
  <2>1. CASE a.ok
    <3>1. players' = [players EXCEPT ![p] =
                        [was EXCEPT !.loopBusy = b, !.loop = l, !.undo = u, !.scrub = r]]
      BY <1>0, <1>8, <1>9, <1>11, <1>12, <1>13, <1>14, <2>1 DEF PlayerStates
    <3>2. [was EXCEPT !.loopBusy = b, !.loop = l, !.undo = u, !.scrub = r] \in PlayerStates
      BY DEF PlayerStates
    <3> QED BY <3>1, <3>2
  <2>2. CASE ~a.ok
    <3>1. players' = [players EXCEPT ![p] = [was EXCEPT !.loopBusy = b, !.loop = l]]
      BY <1>0, <1>8, <1>9, <1>11, <1>14, <2>2
    <3>2. [was EXCEPT !.loopBusy = b, !.loop = l] =
            [was EXCEPT !.loopBusy = b, !.loop = l, !.undo = v, !.scrub = s]
      BY <1>12, <1>15 DEF PlayerStates
    <3> QED BY <1>8, <1>9, <1>12, <1>14, <1>15, <3>1, <3>2 DEF PlayerStates
  <2> QED BY <2>1, <2>2
<1>17. /\ pl.session = was.session /\ pl.status = was.status
       /\ pl.requested = was.requested /\ pl.master = was.master
       /\ pl.hold = was.hold /\ pl.sub = was.sub
       /\ pl.click = was.click /\ pl.clickBusy = was.clickBusy
       /\ pl.mix = was.mix /\ pl.loop = l
  <2>1. CASE pl = [was EXCEPT !.loopBusy = b, !.loop = l, !.undo = u, !.scrub = r]
    BY <1>8, <1>9, <1>12, <1>13, <1>14, <2>1 DEF PlayerStates
  <2>2. CASE pl = [was EXCEPT !.loopBusy = b, !.loop = l, !.undo = v, !.scrub = s]
    BY <1>8, <1>9, <1>12, <1>14, <1>15, <2>2 DEF PlayerStates
  <2> QED BY <1>16, <2>1, <2>2
<1>18. players'[p] = pl
  BY <1>0, <1>16
<1>19. LoopTold(p)'
  <2>1. CASE a.ok
    BY <1>7, <1>10, <1>11, <1>14, <1>17, <1>18, <2>1 DEF LoopTold, LoopOn
  <2>2. CASE ~a.ok /\ LoopOn(players[p])
    BY <1>7, <1>11, <1>14, <1>17, <1>18, <2>2 DEF LoopTold, LoopOn, refused
  <2>3. CASE ~a.ok /\ ~LoopOn(players[p])
    BY SessionAssumption, <1>7, <1>11, <1>14, <1>17, <1>18, <2>3
       DEF LoopTold, LoopOn, refused, LoopFree, SessionAssumption
  <2> QED BY <2>1, <2>2, <2>3
<1> QED BY <1>1, <1>2, <1>4, <1>5, <1>8, <1>11, <1>16, <1>17, <1>19, LoopAnswered

\* A loop is cleared, or stays.
LEMMA ClearLoopLive ==
  ASSUME SessionTypes, SessionInv, ClearLoopAnswered, IsCurrent(answers[1])
  PROVE  SessionTypes' /\ SessionInv'
<1>1. /\ answers # <<>> /\ answers' = Tail(answers) /\ Oldest(answers).kind = "clearLoop"
      /\ UNCHANGED <<claim, screens, top, editing, db, user>>
  BY DEF ClearLoopAnswered, Answered, Done, LoadFrame
<1>2. PICK a \in Replies : a = Oldest(answers) /\ a = answers[1]
  BY <1>1, HeadIs
<1>3. 1 \in 1..Len(answers)
  BY <1>1, HeadIs
<1>4. a.kind = "clearLoop" /\ a.kind \in Changes /\ a.arg \in {"none"} \cup Loops
  BY <1>1, <1>2, <1>3 DEF Changes, SessionInv, Ordered, Sound, Answering
<1>5. PICK p \in Players : p = a.player
  BY DEF Replies
<1>6. Ready(p) /\ Finds(a) /\ Live(p, a.session)
  BY <1>1, <1>2, <1>4, <1>5, LiveChange DEF IsCurrent
<1>7. LoopOn(players[p]) /\ IF a.ok THEN engine.loop = "none" ELSE LoopTold(p)
  BY <1>4, <1>5, <1>6 DEF Finds
<1>8. PICK was \in PlayerStates : was = players[p]
  BY DEF SessionTypes
<1>9. PICK b \in Nat : b = gateFreed(p, a)
  BY GateIs
<1>0. players \in [Players -> PlayerStates]
  BY DEF SessionTypes
<1> DEFINE freed == [players EXCEPT ![p].loopBusy = gateFreed(p, a)]
<1>11. /\ engine' = engine
       /\ players' = IF a.ok
                     THEN [freed EXCEPT ![p].loop = "off", ![p].undo = a.arg,
                                        ![p].scrub = @ /\ a.arg = "none"]
                     ELSE freed
  BY <1>2, <1>5, <1>6 DEF ClearLoopAnswered
<1>12. PICK s \in BOOLEAN, r \in BOOLEAN :
          s = was.scrub /\ r = (was.scrub /\ a.arg = "none")
  BY DEF PlayerStates
<1>13. PICK u \in {"none"} \cup Loops : u = a.arg
  BY <1>4
<1>14. PICK l \in {"off", "armed"} \cup Loops : l = IF a.ok THEN "off" ELSE was.loop
  BY DEF PlayerStates
<1>15. PICK v \in {"none"} \cup Loops : v = was.undo
  BY DEF PlayerStates
<1>16. PICK pl \in PlayerStates :
          /\ \/ pl = [was EXCEPT !.loopBusy = b, !.loop = l, !.undo = u, !.scrub = r]
             \/ pl = [was EXCEPT !.loopBusy = b, !.loop = l, !.undo = v, !.scrub = s]
          /\ players' = [players EXCEPT ![p] = pl]
  <2>1. CASE a.ok
    <3>1. players' = [players EXCEPT ![p] =
                        [was EXCEPT !.loopBusy = b, !.loop = l, !.undo = u, !.scrub = r]]
      BY <1>0, <1>8, <1>9, <1>11, <1>12, <1>13, <1>14, <2>1 DEF PlayerStates
    <3>2. [was EXCEPT !.loopBusy = b, !.loop = l, !.undo = u, !.scrub = r] \in PlayerStates
      BY DEF PlayerStates
    <3> QED BY <3>1, <3>2
  <2>2. CASE ~a.ok
    <3>1. players' = [players EXCEPT ![p] = [was EXCEPT !.loopBusy = b]]
      BY <1>0, <1>8, <1>9, <1>11, <2>2
    <3>2. [was EXCEPT !.loopBusy = b] =
            [was EXCEPT !.loopBusy = b, !.loop = l, !.undo = v, !.scrub = s]
      BY <1>12, <1>14, <1>15, <2>2 DEF PlayerStates
    <3> QED BY <1>8, <1>9, <1>12, <1>14, <1>15, <3>1, <3>2 DEF PlayerStates
  <2> QED BY <2>1, <2>2
<1>17. /\ pl.session = was.session /\ pl.status = was.status
       /\ pl.requested = was.requested /\ pl.master = was.master
       /\ pl.hold = was.hold /\ pl.sub = was.sub
       /\ pl.click = was.click /\ pl.clickBusy = was.clickBusy
       /\ pl.mix = was.mix /\ pl.loop = l
  <2>1. CASE pl = [was EXCEPT !.loopBusy = b, !.loop = l, !.undo = u, !.scrub = r]
    BY <1>8, <1>9, <1>12, <1>13, <1>14, <2>1 DEF PlayerStates
  <2>2. CASE pl = [was EXCEPT !.loopBusy = b, !.loop = l, !.undo = v, !.scrub = s]
    BY <1>8, <1>9, <1>12, <1>14, <1>15, <2>2 DEF PlayerStates
  <2> QED BY <1>16, <2>1, <2>2
<1>18. players'[p] = pl
  BY <1>0, <1>16
<1>19. LoopTold(p)'
  <2>1. CASE a.ok
    BY SessionAssumption, <1>7, <1>11, <1>14, <1>17, <1>18, <2>1
       DEF LoopTold, LoopOn, LoopFree, SessionAssumption
  <2>2. CASE ~a.ok
    BY <1>7, <1>8, <1>11, <1>14, <1>17, <1>18, <2>2 DEF LoopTold, LoopOn
  <2> QED BY <2>1, <2>2
<1> QED BY <1>1, <1>2, <1>4, <1>5, <1>8, <1>11, <1>16, <1>17, <1>19, LoopAnswered

\* The grid is taken, or not.
LEMMA GridLive ==
  ASSUME SessionTypes, SessionInv, GridAnswered, IsCurrent(answers[1])
  PROVE  SessionTypes' /\ SessionInv'
<1>1. /\ answers # <<>> /\ answers' = Tail(answers) /\ Oldest(answers).kind = "grid"
      /\ UNCHANGED <<claim, screens, top, editing, db, user>>
  BY DEF GridAnswered, Answered, Done, LoadFrame
<1>2. PICK a \in Replies : a = Oldest(answers) /\ a = answers[1]
  BY <1>1, HeadIs
<1>3. a.kind = "grid" /\ a.kind \notin Changes /\ a.kind \notin Loads
  BY <1>1, <1>2 DEF Changes, Loads
<1>4. PICK p \in Players : p = a.player
  BY DEF Replies
<1>5. Ready(p) /\ Finds(a) /\ Live(p, a.session)
  BY <1>1, <1>2, <1>3, <1>4, LiveChange DEF IsCurrent
<1>6. ~players[p].click /\ (a.ok => engine.grid = p)
  BY <1>3, <1>4, <1>5 DEF Finds
<1>7. players \in [Players -> PlayerStates] /\ engine \in EngineStates
  BY DEF SessionTypes
<1>8. PICK was \in PlayerStates : was = players[p]
  BY <1>7
<1>9. PICK b \in Nat : b = IF was.clickBusy = a.session THEN NoSession ELSE was.clickBusy
  BY DEF PlayerStates, NoSession
<1>10. PICK c \in BOOLEAN : c <=> a.ok
  BY DEF Replies
<1>11. was.click = FALSE
  BY <1>6, <1>8 DEF PlayerStates
<1>12. PICK pl \in PlayerStates : pl = [was EXCEPT !.clickBusy = b, !.click = c]
  BY DEF PlayerStates
<1>13. /\ pl.session = was.session /\ pl.status = was.status
       /\ pl.requested = was.requested /\ pl.master = was.master
       /\ pl.hold = was.hold /\ pl.sub = was.sub
       /\ pl.click = c /\ pl.loopBusy = was.loopBusy
       /\ pl.mix = was.mix /\ pl.loop = was.loop
  BY <1>12 DEF PlayerStates
<1> DEFINE freed == [players EXCEPT ![p].clickBusy =
                       IF @ = a.session THEN NoSession ELSE @]
<1>14. freed = [players EXCEPT ![p] = [was EXCEPT !.clickBusy = b]]
  BY <1>7, <1>8, <1>9 DEF PlayerStates
<1>15. players' = [players EXCEPT ![p] = pl]
  <2>1. CASE a.ok
    <3>1. players' = [freed EXCEPT ![p].click = TRUE]
      BY <1>2, <1>4, <1>5, <2>1 DEF GridAnswered
    <3>2. c = TRUE
      BY <1>10, <2>1
    <3> QED BY <1>7, <1>8, <1>12, <1>14, <3>1, <3>2 DEF PlayerStates
  <2>2. CASE ~a.ok
    <3>1. players' = freed
      BY <1>2, <1>4, <1>5, <2>2 DEF GridAnswered
    <3>2. c = FALSE
      BY <1>10, <2>2
    <3>3. pl = [was EXCEPT !.clickBusy = b]
      BY <1>11, <1>12, <3>2 DEF PlayerStates
    <3> QED BY <1>14, <3>1, <3>3
  <2> QED BY <2>1, <2>2
<1>16. /\ players' \in [Players -> PlayerStates] /\ players'[p] = pl
       /\ \A q \in Players : q # p => players'[q] = players[q]
  BY <1>7, <1>15, PlayerSet
<1>17. \A q \in Players : Core(q) /\ players'[q].mix = players[q].mix /\ SameLoop(q)
  BY <1>8, <1>13, <1>16 DEF Core, SameLoop
<1>18. /\ engine' \in EngineStates
       /\ engine'.holds = engine.holds /\ engine'.tracks = engine.tracks
       /\ engine'.mix = engine.mix /\ engine'.master = engine.master
       /\ engine'.loop = engine.loop /\ engine'.stray = engine.stray
       /\ engine'.grid = engine.grid
       /\ IF a.ok THEN engine'.follow /\ engine'.metronome = "click"
          ELSE engine'.follow = engine.follow /\ engine'.metronome = engine.metronome
  <2>1. CASE a.ok
    <3>1. engine' = [engine EXCEPT !.follow = TRUE, !.metronome = "click"]
      BY <1>2, <1>4, <1>5, <2>1 DEF GridAnswered
    <3> QED BY <1>7, <2>1, <3>1 DEF EngineStates
  <2>2. CASE ~a.ok
    <3>1. engine' = engine
      BY <1>2, <1>4, <1>5, <2>2 DEF GridAnswered
    <3> QED BY <1>7, <2>2, <3>1
  <2> QED BY <2>1, <2>2
<1>19. PICK x \in Replies : TRUE
  BY AReply
<1>20. Shift(1, FALSE, x)
  BY <1>1, AnswersDone
<1>21. 1 \in {0, 1} /\ (1 = 1 => answers[1].kind \notin Changes)
  BY <1>2, <1>3
<1>22. ASSUME NEW e \in Replies, Stays(1, e) PROVE e.kind # "grid"
  <2> SUFFICES ASSUME e.kind = "grid" PROVE FALSE
    OBVIOUS
  <2>1. PICK i \in 1..Len(answers) : i > 1 /\ answers[i] = e
    BY <1>22 DEF Stays
  <2>2. IsCurrent(e)
    BY <1>5, <2>1, ReadyAlone
  <2>3. 1 \in 1..Len(answers) /\ i # 1
    BY <1>1, <2>1, HeadIs
  <2> QED BY <1>2, <1>3, <2>1, <2>2, <2>3 DEF SessionInv, Ordered, Arranged
<1>23. Ordered'
  <2>1. ASSUME NEW e \in Replies, e.player = p, e.kind \in Changes, Finds(e) PROVE Finds(e)'
    <3>1. /\ players'[p].status = players[p].status
          /\ players'[p].session = players[p].session
          /\ players'[p].loopBusy = players[p].loopBusy
      BY <1>17 DEF Core, SameLoop
    <3>2. LoopTold(p)' <=> LoopTold(p)
      BY <1>17, <1>18 DEF LoopTold, LoopFree, LoopOn, SameLoop
    <3>3. LoopOn(players[p])' <=> LoopOn(players[p])
      BY <1>17 DEF LoopOn, SameLoop
    <3>4. CASE e.kind = "setLoop"
      BY <1>18, <2>1, <3>1, <3>2, <3>4 DEF Finds
    <3>5. CASE e.kind = "clearLoop"
      BY <1>18, <2>1, <3>1, <3>2, <3>3, <3>5 DEF Finds
    <3> QED BY <2>1, <3>4, <3>5 DEF Changes
  <2>2. \A e \in Replies : Stays(1, e) /\ e.player = p /\ e.kind \in Changes \cup {"grid"}
                              /\ Finds(e) => Finds(e)'
    BY <1>22, <2>1
  <2>3. \A q \in Players : Core(q)
    BY <1>17
  <2> QED BY <1>5, <1>16, <1>20, <1>21, <2>2, <2>3, ReadyStep
<1>24. LoopKept'
  BY <1>17, <1>18, <1>20, <1>21, LoopKeptFrame DEF SessionInv
<1>25. ClickKept'
  <2>1. \A q \in Players : ~players[q].click
    BY <1>5, <1>6, OneClicks
  <2>2. \A q \in Players : q # p => ~players'[q].click
    BY <1>16, <2>1
  <2>3. CASE a.ok
    <3>1. players'[p].click /\ Ready(p)'
      BY <1>5, <1>8, <1>10, <1>13, <1>16, <2>3 DEF Ready
    <3> QED BY <1>6, <1>18, <2>2, <2>3, <3>1 DEF ClickKept
  <2>4. CASE ~a.ok
    <3>1. \A q \in Players : ~players'[q].click
      BY <1>10, <1>13, <1>16, <2>2, <2>4
    <3>2. /\ ~engine.follow /\ engine.metronome # "click"
          /\ \/ engine.grid = "none"
             \/ \E i \in 1..Len(answers) : answers[i].kind = "grid" /\ answers[i].ok
      BY <2>1 DEF SessionInv, ClickKept
    <3>3. ASSUME NEW i \in 1..Len(answers), answers[i].kind = "grid", answers[i].ok
          PROVE  FALSE
      <4>1. PICK e \in Replies : e = answers[i]
        BY AnswerIs
      <4>2. i # 1
        BY <1>2, <2>4, <3>3
      <4>3. Stays(1, e)
        BY <4>1, <4>2, AnswerIs DEF Stays
      <4> QED BY <1>22, <3>3, <4>1, <4>3
    <3> QED BY <1>18, <2>4, <3>1, <3>2, <3>3 DEF ClickKept
  <2> QED BY <2>3, <2>4
<1> QED BY <1>1, <1>5, <1>16, <1>17, <1>18, <1>20, <1>21, <1>23, <1>24, <1>25, ReadyRest

-----------------------------------------------------------------------------
(* The answers of a session that is over. *)

\* The answer that is taken is of an earlier session.
LEMMA DeadHead ==
  ASSUME SessionTypes, SessionInv, answers # <<>>, ~IsCurrent(answers[1]),
         NEW n \in BOOLEAN, NEW x \in Replies, Shift(1, n, x),
         n => /\ x.kind = "master" /\ x.player = answers[1].player
              /\ x.session = answers[1].session /\ x.arg \in Levels,
         players' \in [Players -> PlayerStates],
         \A q \in Players :
            /\ Core(q) /\ players'[q].click = players[q].click
            /\ players'[q].mix = players[q].mix /\ players'[q].loop = players[q].loop
            /\ players'[q].scrub = players[q].scrub
            /\ \/ players'[q].loopBusy = players[q].loopBusy
               \/ players[q].loopBusy # players[q].session
            /\ \/ players'[q].clickBusy = players[q].clickBusy
               \/ players[q].clickBusy # players[q].session,
         engine' \in EngineStates,
         engine'.holds = engine.holds, engine'.tracks = engine.tracks,
         engine'.mix = engine.mix, engine'.master = engine.master,
         engine'.playing = engine.playing, engine'.card = engine.card,
         engine'.follow = engine.follow, engine'.metronome = engine.metronome,
         \/ engine'.loop = engine.loop /\ engine'.stray = engine.stray
         \/ LoopFree' /\ answers[1].kind \in Changes,
         answers[1].kind = "setLoop" /\ answers[1].ok => LoopFree',
         \/ engine'.grid = engine.grid
         \/ engine'.grid = "none" /\ answers[1].kind = "grid",
         answers[1].kind = "grid" /\ answers[1].ok => engine'.grid = "none",
         UNCHANGED <<claim, screens, top, editing, db, user>>
  PROVE  SessionTypes' /\ SessionInv'
<1>1. 1 \in 1..Len(answers) /\ answers[1] \in Replies
  BY HeadIs
<1>2. \A q \in Players : Core(q)
  OBVIOUS
<1>3. \A a \in Replies : IsCurrent(a)' <=> IsCurrent(a)
  BY DEF IsCurrent, Live, Core, Replies
<1>4. \A q \in Players : Ready(q)' <=> Ready(q)
  BY DEF Ready, Core
\* Such an answer to a tap comes before the next song plays.
<1>5. answers[1].kind \in Changes \cup {"grid"} => \A q \in Players : ~Ready(q)
  BY <1>1 DEF SessionInv, Ordered, Awaited
<1>6. \/ engine'.loop = engine.loop /\ engine'.stray = engine.stray
      \/ LoopFree' /\ \A q \in Players : ~Ready(q)
  BY <1>5
<1>7. LoopFree => LoopFree'
  BY <1>6 DEF LoopFree
<1>8. \/ engine'.grid = engine.grid
      \/ engine'.grid = "none" /\ \A q \in Players : ~Ready(q)
  BY <1>5
<1>9. SessionTypes'
  BY DEF SessionTypes, Shift
<1>10. Owned'
  <2>1. \A q \in Players :
            \/ IsOpen(q)
            \/ /\ players'[q].scrub => players[q].scrub
               /\ players'[q].click => players[q].click
               /\ players'[q].loop = players[q].loop
    OBVIOUS
  <2> QED BY <1>2, <2>1, TwoPlayers, OwnedFrame DEF SessionInv
<1>11. Held'
  BY HeldFrame DEF SessionInv, Core
<1>12. Tracks'
  BY <1>4 DEF SessionInv, Tracks, Core
<1>13. ASSUME NEW a \in Replies, Finds(a) PROVE Finds(a)'
  <2>1. PICK p \in Players : p = a.player
    BY DEF Replies
  <2>2. /\ players'[p].status = players[p].status /\ players'[p].session = players[p].session
        /\ players'[p].requested <=> players[p].requested
        /\ players'[p].master = players[p].master /\ players'[p].mix = players[p].mix
        /\ players'[p].click <=> players[p].click
        /\ players'[p].loop = players[p].loop
    BY <2>1 DEF Core
  <2>3. CASE a.kind \in {"start", "cleared", "tracks", "track", "frames"}
    BY <1>7, <1>13, <2>1, <2>2, <2>3 DEF Finds
  <2>4. CASE a.kind = "master"
    BY <1>7, <1>13, <2>1, <2>2, <2>4 DEF Finds
  <2>5. ASSUME Ready(p) PROVE engine'.loop = engine.loop /\ (LoopTold(p)' <=> LoopTold(p))
    BY <1>6, <2>2, <2>5 DEF LoopTold, LoopFree, LoopOn
  <2>6. LoopOn(players[p])' <=> LoopOn(players[p])
    BY <2>2 DEF LoopOn
  <2>7. players[p].loopBusy = players[p].session => players'[p].loopBusy = players'[p].session
    BY <2>2
  <2>8. players[p].clickBusy = players[p].session => players'[p].clickBusy = players'[p].session
    BY <2>2
  <2>9. CASE a.kind = "setLoop"
    <3>1. Ready(p)
      BY <1>13, <2>1, <2>9 DEF Finds, Ready
    <3> QED BY <1>13, <2>1, <2>2, <2>5, <2>7, <2>9, <3>1 DEF Finds
  <2>10. CASE a.kind = "clearLoop"
    <3>1. Ready(p)
      BY <1>13, <2>1, <2>10 DEF Finds, Ready
    <3> QED BY <1>13, <2>1, <2>2, <2>5, <2>6, <2>7, <2>10, <3>1 DEF Finds
  <2>11. CASE a.kind = "grid"
    <3>1. Ready(p)
      BY <1>13, <2>1, <2>11 DEF Finds, Ready
    <3>2. engine'.grid = engine.grid
      BY <1>8, <3>1
    <3> QED BY <1>13, <2>1, <2>2, <2>8, <2>11, <3>2 DEF Finds
  <2> QED BY <2>3, <2>4, <2>9, <2>10, <2>11 DEF Replies, Loads, Changes
<1>14. ASSUME n PROVE ~IsCurrent(x)' /\ Answering(x)'
  <2>1. PICK a \in Replies : a = answers[1]
    BY <1>1
  <2>2. ~IsCurrent(x)
    BY <1>14, <2>1 DEF IsCurrent
  <2>3. a.session <= players[a.player].session
    BY <1>1, <2>1 DEF SessionInv, Ordered, Sound, Answering
  <2>4. x.session <= players'[x.player].session
    BY <1>14, <2>1, <2>3 DEF Core, Replies
  <2>5. ~IsCurrent(x)'
    BY <1>3, <2>2
  <2> QED BY <1>14, <2>4, <2>5 DEF Answering
<1>15. Ordered'
  <2>1. \A q \in Players : /\ players'[q].session \in Nat
                           /\ players[q].session <= players'[q].session
    BY <1>2 DEF Core, PlayerStates
  <2>2. \A a \in Replies : Stays(1, a) /\ Answering(a) /\ IsCurrent(a)' =>
            IsOpen(a.player)' /\ Finds(a)'
    <3> SUFFICES ASSUME NEW a \in Replies, Answering(a), IsCurrent(a)'
                 PROVE  IsOpen(a.player)' /\ Finds(a)'
      OBVIOUS
    <3>1. IsOpen(a.player) /\ Finds(a)
      BY <1>3 DEF Answering
    <3>2. IsOpen(a.player)'
      BY <3>1 DEF IsOpen, Core, Replies
    <3> QED BY <1>13, <3>1, <3>2
  <2>3. n => Answering(x)' /\ \A a \in Replies : Stays(1, a) => Fits(a, x)'
    <3> SUFFICES ASSUME n, NEW a \in Replies PROVE Answering(x)' /\ Fits(a, x)'
      BY <1>14
    <3>1. x.kind = "master" /\ ~IsCurrent(x)' /\ x.kind \notin Changes /\ x.kind # "grid"
      BY <1>14 DEF Changes
    <3> QED BY <1>14, <3>1 DEF Fits
  <2>4. ASSUME NEW a \in Replies, Stays(1, a) \/ (n /\ a = x), a.kind \in Changes \cup {"grid"}
        PROVE  IsCurrent(a)' \/ \A q \in Players : players'[q].status # "ready"
    <3> SUFFICES ASSUME NEW q \in Players, players'[q].status = "ready" PROVE IsCurrent(a)'
      OBVIOUS
    <3>1. Ready(q)
      BY <1>2 DEF Ready, Core
    <3>2. Stays(1, a)
      BY <2>4 DEF Changes
    <3>3. IsCurrent(a)
      BY <2>4, <3>1, <3>2 DEF SessionInv, Ordered, Awaited, Stays
    <3> QED BY <1>3, <3>3
  <2>5. 1 \in {0, 1} /\ Ordered
    BY DEF SessionInv
  <2> QED BY <1>3, <2>1, <2>2, <2>3, <2>4, <2>5, OrderedStep
\* What was pending before still is, unless it was the oldest.
<1>16. ASSUME NEW i \in 1..Len(answers), i # 1
       PROVE  \E j \in 1..Len(answers') : answers'[j] = answers[i]
  <2>1. i > 1
    BY <1>16
  <2> QED BY <2>1 DEF Shift, Shifted
<1>17. LoopKept'
  <2>1. ASSUME NEW q \in Players, Ready(q)'
        PROVE  \/ LoopTold(q)'
               \/ \E i \in 1..Len(answers') :
                     answers'[i].kind \in Changes /\ IsCurrent(answers[i])'
    <3>1. Ready(q) /\ engine'.loop = engine.loop /\ engine'.stray = engine.stray
      BY <1>4, <1>6, <2>1
    <3>2. LoopTold(q)' <=> LoopTold(q)
      BY <3>1 DEF LoopTold, LoopFree, LoopOn
    <3>3. ASSUME NEW i \in 1..Len(answers), answers[i].kind \in Changes, IsCurrent(answers[i])
          PROVE  \E j \in 1..Len(answers') :
                     answers'[j].kind \in Changes /\ IsCurrent(answers[j])'
      <4>1. PICK a \in Replies : a = answers[i]
        BY AnswerIs
      <4>2. i # 1
        BY <3>3
      <4>3. PICK j \in 1..Len(answers') : answers'[j] = a
        BY <1>16, <4>1, <4>2
      <4>4. IsCurrent(a)'
        BY <1>3, <3>3, <4>1
      <4> QED BY <3>3, <4>1, <4>3, <4>4
    <3> QED BY <3>1, <3>2, <3>3 DEF SessionInv, LoopKept
  <2>2. \A q \in Players : LoopOn(players[q])' => Ready(q)'
    BY <1>4 DEF SessionInv, LoopKept, LoopOn
  <2>3. \/ LoopFree'
        \/ \E q \in Players : LoopOn(players[q])'
        \/ \E i \in 1..Len(answers') : answers'[i].kind = "setLoop" /\ answers'[i].ok
    <3>1. CASE LoopFree
      BY <1>7, <3>1
    <3>2. CASE \E q \in Players : LoopOn(players[q])
      BY <3>2 DEF LoopOn
    <3>3. ASSUME NEW i \in 1..Len(answers), answers[i].kind = "setLoop", answers[i].ok
          PROVE  LoopFree' \/ \E j \in 1..Len(answers') : answers'[j].kind = "setLoop"
                                                         /\ answers'[j].ok
      <4>1. CASE i = 1
        BY <3>3, <4>1
      <4>2. CASE i # 1
        BY <1>16, <3>3, <4>2
      <4> QED BY <4>1, <4>2
    <3> QED BY <3>1, <3>2, <3>3 DEF SessionInv, LoopKept
  <2> QED BY <2>1, <2>2, <2>3 DEF LoopKept
<1>18. ClickKept'
  <2>1. ASSUME NEW q \in Players, players'[q].click
        PROVE  Ready(q)' /\ engine'.grid = q /\ engine'.follow /\ engine'.metronome = "click"
    <3>1. players[q].click
      BY <2>1
    <3>2. Ready(q) /\ engine.grid = q /\ engine.follow /\ engine.metronome = "click"
      BY <3>1 DEF SessionInv, ClickKept
    <3> QED BY <1>4, <1>8, <3>2
  <2>2. ASSUME \A q \in Players : ~players'[q].click
        PROVE  /\ ~engine'.follow /\ engine'.metronome # "click"
               /\ \/ engine'.grid = "none"
                  \/ \E i \in 1..Len(answers') : answers'[i].kind = "grid" /\ answers'[i].ok
    <3>1. \A q \in Players : ~players[q].click
      BY <2>2
    <3>2. /\ ~engine.follow /\ engine.metronome # "click"
          /\ \/ engine.grid = "none"
             \/ \E i \in 1..Len(answers) : answers[i].kind = "grid" /\ answers[i].ok
      BY <3>1 DEF SessionInv, ClickKept
    <3>3. ASSUME NEW i \in 1..Len(answers), answers[i].kind = "grid", answers[i].ok
          PROVE  engine'.grid = "none" \/ \E j \in 1..Len(answers') : answers'[j].kind = "grid"
                                                                      /\ answers'[j].ok
      <4>1. CASE i = 1
        BY <3>3, <4>1
      <4>2. CASE i # 1
        BY <1>16, <3>3, <4>2
      <4> QED BY <4>1, <4>2
    <3> QED BY <3>2, <3>3
  <2> QED BY <2>1, <2>2 DEF ClickKept
<1>19. LevelKept'
  BY TwoPlayers DEF SessionInv, LevelKept, Core
<1>20. PICK c \in DbCalls : TRUE
  BY ACall
<1>21. QShift(0, FALSE, c)
  BY QueueSame
<1>22. Reads'
  <2>1. ASSUME NEW i \in 1..Len(answers'), IsLoad(answers[i])'
        PROVE  \E j \in 1..Len(answers) : IsLoad(answers[j])
    <3>1. CASE i + 1 \in 1..Len(answers) /\ answers'[i] = answers[i + 1]
      <4>1. PICK a \in Replies : a = answers[i + 1]
        BY <3>1, AnswerIs
      <4>2. IsLoad(a)'
        BY <2>1, <3>1, <4>1
      <4>3. IsLoad(a)
        BY <1>3, <4>2 DEF IsLoad
      <4> QED BY <3>1, <4>1, <4>3
    <3>2. CASE n /\ answers'[i] = x
      BY <1>14, <2>1, <3>2 DEF IsLoad
    <3> QED BY <3>1, <3>2 DEF Shift, Shifted
  <2>2. 0 \in {0, 1} /\ FALSE \in BOOLEAN /\ Reads
    BY DEF SessionInv
  <2> QED BY <1>2, <1>21, <2>1, <2>2, ReadsShift
<1>23. Saved'
  <2>1. (NoSaves' <=> NoSaves) /\ (LastSaveIs(user.mix) => LastSaveIs(user.mix)')
    BY DEF NoSaves, LastSaveIs
  <2>2. Saved /\ 1 \in {0, 1}
    BY DEF SessionInv
  <2>3. n => ~(x.player = "stem" /\ x.kind \in Loads /\ IsCurrent(x)')
    BY <1>14
  <2> QED BY <1>2, <2>1, <2>2, <2>3, TwoPlayers, SavedFrame
<1> QED BY <1>9, <1>10, <1>11, <1>12, <1>15, <1>17, <1>18, <1>19, <1>22, <1>23 DEF SessionInv

\* It is dropped.
LEMMA DeadDone ==
  ASSUME SessionTypes, SessionInv, answers # <<>>, ~IsCurrent(answers[1]),
         answers' = Tail(answers), answers[1].kind \in Loads,
         UNCHANGED <<players, engine, claim, screens, top, editing, db, user>>
  PROVE  SessionTypes' /\ SessionInv'
<1>1. PICK x \in Replies : TRUE
  BY AReply
<1>2. Shift(1, FALSE, x)
  BY AnswersDone
<1>3. /\ players' \in [Players -> PlayerStates] /\ engine' \in EngineStates
      /\ \A q \in Players : Core(q)
  BY DEF SessionTypes, Core
<1>4. answers[1].kind # "setLoop" /\ answers[1].kind # "grid" /\ FALSE \in BOOLEAN
  BY DEF Loads
<1> QED BY <1>2, <1>3, <1>4, DeadHead

\* A load that was displaced asks no more.
LEMMA DeadLoad ==
  ASSUME SessionTypes, SessionInv, answers # <<>>, ~IsCurrent(answers[1]),
         \/ StartAnswered \/ ClearAnswered \/ TracksAnswered \/ MasterAnswered
         \/ TrackAnswered \/ FramesAnswered
  PROVE  SessionTypes' /\ SessionInv'
<1>1. PICK a \in Replies : a = Oldest(answers) /\ a = answers[1]
  BY HeadIs
<1>2. PICK p \in Players : p = a.player
  BY DEF Replies
<1>3. ~Live(p, a.session)
  BY <1>1, <1>2 DEF IsCurrent
<1>4. UNCHANGED <<claim, screens, top, editing, db, user>>
  BY DEF StartAnswered, ClearAnswered, TracksAnswered, MasterAnswered, TrackAnswered,
         FramesAnswered, LoadFrame
<1>5. Answering(a)
  BY <1>1, HeadIs DEF SessionInv, Ordered, Sound
<1>6. CASE StartAnswered
  <2>1. a.kind \in Loads /\ answers' = Tail(answers) /\ UNCHANGED <<players, engine>>
    BY <1>1, <1>2, <1>3, <1>6 DEF StartAnswered, Answered, Done, Loads
  <2> QED BY <1>1, <1>4, <2>1, DeadDone
<1>7. CASE ClearAnswered
  <2>1. a.kind \in Loads /\ answers' = Tail(answers) /\ UNCHANGED <<players, engine>>
    BY <1>1, <1>2, <1>3, <1>7 DEF ClearAnswered, Answered, Done, Loads
  <2> QED BY <1>1, <1>4, <2>1, DeadDone
<1>8. CASE MasterAnswered
  <2>1. a.kind \in Loads /\ answers' = Tail(answers) /\ UNCHANGED <<players, engine>>
    BY <1>1, <1>2, <1>3, <1>8 DEF MasterAnswered, Answered, Done, Loads
  <2> QED BY <1>1, <1>4, <2>1, DeadDone
<1>9. CASE TrackAnswered
  <2>1. a.kind = "track" /\ a.kind \in Loads
    BY <1>1, <1>9 DEF TrackAnswered, Answered, Loads
  <2>2. p = "song"
    BY <1>2, <1>5, <2>1 DEF Answering
  <2>3. answers' = Tail(answers) /\ UNCHANGED <<players, engine>>
    BY <1>1, <1>3, <1>9, <2>2 DEF TrackAnswered, Done
  <2> QED BY <1>1, <1>4, <2>1, <2>3, DeadDone
<1>10. CASE FramesAnswered
  <2>1. a.kind = "frames" /\ a.kind \in Loads
    BY <1>1, <1>10 DEF FramesAnswered, Answered, Loads
  <2>2. p = "song"
    BY <1>2, <1>5, <2>1 DEF Answering
  <2>3. answers' = Tail(answers) /\ UNCHANGED <<players, engine>>
    BY <1>1, <1>3, <1>10, <2>2 DEF FramesAnswered, Done
  <2> QED BY <1>1, <1>4, <2>1, <2>3, DeadDone
<1>11. CASE TracksAnswered
  <2>1. a.kind = "tracks" /\ a.kind \in Loads
    BY <1>1, <1>11 DEF TracksAnswered, Answered, Loads
  <2>2. p = "stem"
    BY <1>2, <1>5, <2>1 DEF Answering
  <2>3. engine' = engine /\ players' = players
    BY <1>1, <1>3, <1>11, <2>2 DEF TracksAnswered
  <2>4. PICK ok \in BOOLEAN :
          answers' = Append(Tail(answers),
                        [a EXCEPT !.kind = "master", !.ok = ok, !.arg = engine.master])
    BY <1>1, <1>11 DEF TracksAnswered
  <2>5. PICK level \in Levels : level = engine.master
    BY DEF SessionTypes, EngineStates
  <2>6. PICK x \in Replies : x = [a EXCEPT !.kind = "master", !.ok = ok, !.arg = level]
    BY DEF Replies, Loads
  <2>7. /\ x.kind = "master" /\ x.player = a.player /\ x.session = a.session
        /\ x.arg \in Levels
    BY <2>6 DEF Replies
  <2>8. Shift(1, TRUE, x)
    BY <2>4, <2>5, <2>6, AnswersThen
  <2>9. /\ players' \in [Players -> PlayerStates] /\ engine' \in EngineStates
        /\ \A q \in Players : Core(q)
    BY <2>3 DEF SessionTypes, Core
  <2>10. answers[1].kind # "setLoop" /\ answers[1].kind # "grid" /\ TRUE \in BOOLEAN
    BY <1>1, <2>1
  <2> QED BY <1>1, <1>4, <2>3, <2>7, <2>8, <2>9, <2>10, DeadHead
<1> QED BY <1>6, <1>7, <1>8, <1>9, <1>10, <1>11

\* A gate that is freed is not the one of a call still under way.
LEMMA GateFreed ==
  ASSUME SessionTypes, NEW p \in Players, NEW a \in Replies, ~Live(p, a.session),
         players' = [players EXCEPT ![p].loopBusy = gateFreed(p, a)]
  PROVE  /\ players' \in [Players -> PlayerStates]
         /\ \A q \in Players :
            /\ Core(q) /\ players'[q].click = players[q].click
            /\ players'[q].mix = players[q].mix /\ players'[q].loop = players[q].loop
            /\ players'[q].scrub = players[q].scrub
            /\ \/ players'[q].loopBusy = players[q].loopBusy
               \/ players[q].loopBusy # players[q].session
            /\ players'[q].clickBusy = players[q].clickBusy
<1>1. players \in [Players -> PlayerStates]
  BY DEF SessionTypes
<1>2. PICK b \in Nat : b = gateFreed(p, a)
  BY GateIs
<1>3. PICK was \in PlayerStates : was = players[p]
  BY <1>1
<1>4. b = was.loopBusy \/ was.loopBusy # was.session
  BY <1>2, <1>3 DEF gateFreed, Live
<1>5. PICK pl \in PlayerStates : pl = [was EXCEPT !.loopBusy = b]
  BY DEF PlayerStates
<1>6. /\ pl.session = was.session /\ pl.status = was.status
      /\ pl.requested = was.requested /\ pl.master = was.master /\ pl.hold = was.hold
      /\ pl.sub = was.sub /\ pl.click = was.click /\ pl.clickBusy = was.clickBusy
      /\ pl.mix = was.mix /\ pl.loop = was.loop /\ pl.scrub = was.scrub
      /\ pl.loopBusy = b
  BY <1>5 DEF PlayerStates
<1>7. /\ players' \in [Players -> PlayerStates] /\ players'[p] = pl
      /\ \A q \in Players : q # p => players'[q] = players[q]
  <2>1. players' = [players EXCEPT ![p] = pl]
    BY <1>1, <1>2, <1>3, <1>5
  <2> QED BY <1>1, <2>1, PlayerSet
<1> QED BY <1>3, <1>4, <1>6, <1>7 DEF Core

\* Nor is the click's.
LEMMA ClickGateFreed ==
  ASSUME SessionTypes, NEW p \in Players, NEW a \in Replies, ~Live(p, a.session),
         players' = [players EXCEPT ![p].clickBusy =
                       IF @ = a.session THEN NoSession ELSE @]
  PROVE  /\ players' \in [Players -> PlayerStates]
         /\ \A q \in Players :
            /\ Core(q) /\ players'[q].click = players[q].click
            /\ players'[q].mix = players[q].mix /\ players'[q].loop = players[q].loop
            /\ players'[q].scrub = players[q].scrub
            /\ players'[q].loopBusy = players[q].loopBusy
            /\ \/ players'[q].clickBusy = players[q].clickBusy
               \/ players[q].clickBusy # players[q].session
<1>1. players \in [Players -> PlayerStates]
  BY DEF SessionTypes
<1>3. PICK was \in PlayerStates : was = players[p]
  BY <1>1
<1>2. PICK b \in Nat : b = IF was.clickBusy = a.session THEN NoSession ELSE was.clickBusy
  BY DEF PlayerStates, NoSession
<1>4. b = was.clickBusy \/ was.clickBusy # was.session
  BY <1>2, <1>3 DEF Live
<1>5. PICK pl \in PlayerStates : pl = [was EXCEPT !.clickBusy = b]
  BY DEF PlayerStates
<1>6. /\ pl.session = was.session /\ pl.status = was.status
      /\ pl.requested = was.requested /\ pl.master = was.master /\ pl.hold = was.hold
      /\ pl.sub = was.sub /\ pl.click = was.click /\ pl.clickBusy = b
      /\ pl.mix = was.mix /\ pl.loop = was.loop /\ pl.scrub = was.scrub
      /\ pl.loopBusy = was.loopBusy
  BY <1>5 DEF PlayerStates
<1>7. /\ players' \in [Players -> PlayerStates] /\ players'[p] = pl
      /\ \A q \in Players : q # p => players'[q] = players[q]
  <2>1. players' = [players EXCEPT ![p] = pl]
    BY <1>1, <1>2, <1>3, <1>5
  <2> QED BY <1>1, <2>1, PlayerSet
<1> QED BY <1>3, <1>4, <1>6, <1>7 DEF Core

\* A loop set too late is cleared again.
LEMMA LoopClearedIs ==
  ASSUME engine \in EngineStates, NEW ok \in BOOLEAN, engine' = WithLoopCleared(engine, ok)
  PROVE  /\ engine' \in EngineStates /\ LoopFree'
         /\ engine'.holds = engine.holds /\ engine'.tracks = engine.tracks
         /\ engine'.mix = engine.mix /\ engine'.master = engine.master
         /\ engine'.playing = engine.playing /\ engine'.card = engine.card
         /\ engine'.follow = engine.follow /\ engine'.metronome = engine.metronome
         /\ engine'.grid = engine.grid
<1>1. PICK l \in {"none"} \cup Loops, s \in BOOLEAN : engine' = NewLoop(l, s) /\ (l = "none" \/ s)
  BY ClearedIs
<1> QED BY <1>1, NewLoopIs DEF LoopFree

\* A loop or a grid taken too late is given up.
LEMMA DeadTap ==
  ASSUME SessionTypes, SessionInv, answers # <<>>, ~IsCurrent(answers[1]),
         SetLoopAnswered \/ ClearLoopAnswered \/ GridAnswered
  PROVE  SessionTypes' /\ SessionInv'
<1>1. PICK a \in Replies : a = Oldest(answers) /\ a = answers[1]
  BY HeadIs
<1>2. PICK p \in Players : p = a.player
  BY DEF Replies
<1>3. ~Live(p, a.session)
  BY <1>1, <1>2 DEF IsCurrent
<1>4. /\ UNCHANGED <<claim, screens, top, editing, db, user>> /\ answers' = Tail(answers)
      /\ engine \in EngineStates
  BY DEF SetLoopAnswered, ClearLoopAnswered, GridAnswered, LoadFrame, Done, SessionTypes
<1>5. PICK x \in Replies : TRUE
  BY AReply
<1>6. Shift(1, FALSE, x) /\ FALSE \in BOOLEAN
  BY <1>4, AnswersDone
<1>7. CASE SetLoopAnswered
  <2>1. a.kind = "setLoop" /\ a.kind \in Changes
    BY <1>1, <1>7 DEF SetLoopAnswered, Answered, Changes
  <2>2. /\ players' = [players EXCEPT ![p].loopBusy = gateFreed(p, a)]
        /\ IF a.ok THEN \E ok \in BOOLEAN : engine' = WithLoopCleared(engine, ok)
           ELSE engine' = engine
    BY <1>1, <1>2, <1>3, <1>7 DEF SetLoopAnswered
  <2>3. CASE a.ok
    BY <1>1, <1>3, <1>4, <1>6, <2>1, <2>2, <2>3, GateFreed, LoopClearedIs, DeadHead
  <2>4. CASE ~a.ok
    BY <1>1, <1>3, <1>4, <1>6, <2>1, <2>2, <2>4, GateFreed, DeadHead
  <2> QED BY <2>3, <2>4
<1>8. CASE ClearLoopAnswered
  <2>1. a.kind = "clearLoop" /\ a.kind \in Changes
    BY <1>1, <1>8 DEF ClearLoopAnswered, Answered, Changes
  <2>2. players' = [players EXCEPT ![p].loopBusy = gateFreed(p, a)] /\ engine' = engine
    BY <1>1, <1>2, <1>3, <1>8 DEF ClearLoopAnswered
  <2> QED BY <1>1, <1>3, <1>4, <1>6, <2>1, <2>2, GateFreed, DeadHead
<1>9. CASE GridAnswered
  <2>1. a.kind = "grid"
    BY <1>1, <1>9 DEF GridAnswered, Answered
  <2>2. /\ players' = [players EXCEPT ![p].clickBusy =
                         IF @ = a.session THEN NoSession ELSE @]
        /\ engine' = IF a.ok THEN [engine EXCEPT !.grid = "none"] ELSE engine
    BY <1>1, <1>2, <1>3, <1>9 DEF GridAnswered
  <2>3. /\ engine' \in EngineStates
        /\ engine'.holds = engine.holds /\ engine'.tracks = engine.tracks
        /\ engine'.mix = engine.mix /\ engine'.master = engine.master
        /\ engine'.playing = engine.playing /\ engine'.card = engine.card
        /\ engine'.follow = engine.follow /\ engine'.metronome = engine.metronome
        /\ engine'.loop = engine.loop /\ engine'.stray = engine.stray
        /\ IF a.ok THEN engine'.grid = "none" ELSE engine'.grid = engine.grid
    <3>1. CASE a.ok
      BY <1>4, <2>2, <3>1 DEF EngineStates
    <3>2. CASE ~a.ok
      BY <1>4, <2>2, <3>2
    <3> QED BY <3>1, <3>2
  <2>4. /\ players' \in [Players -> PlayerStates]
        /\ \A q \in Players :
            /\ Core(q) /\ players'[q].click = players[q].click
            /\ players'[q].mix = players[q].mix /\ players'[q].loop = players[q].loop
            /\ players'[q].scrub = players[q].scrub
            /\ players'[q].loopBusy = players[q].loopBusy
            /\ \/ players'[q].clickBusy = players[q].clickBusy
               \/ players[q].clickBusy # players[q].session
    BY <1>3, <2>2, ClickGateFreed
  <2> QED BY <1>1, <1>4, <1>6, <2>1, <2>3, <2>4, DeadHead
<1> QED BY <1>7, <1>8, <1>9

-----------------------------------------------------------------------------
(* The answers a song that loads gets. *)

\* A load goes on to its next call.
LEMMA LoadStep ==
  ASSUME SessionTypes, SessionInv, answers # <<>>, IsLoad(answers[1]),
         NEW p \in Players, p = answers[1].player,
         NEW pl \in PlayerStates, players' = [players EXCEPT ![p] = pl],
         pl.session = players[p].session, pl.hold = players[p].hold, pl.sub = players[p].sub,
         pl.click = players[p].click, pl.loop = players[p].loop, pl.mix = players[p].mix,
         pl.status \in {"loading", "ready", "failed"}, p = "stem" => pl.master = "none",
         engine' \in EngineStates,
         engine'.holds = engine.holds,
         engine'.playing = engine.playing, engine'.card = engine.card,
         engine'.follow = engine.follow, engine'.metronome = engine.metronome,
         engine'.grid = engine.grid,
         \/ LoopFree'
         \/ engine'.loop = engine.loop /\ engine'.stray = engine.stray /\ pl.status # "ready",
         NEW n \in BOOLEAN, NEW x \in Replies, Shift(1, n, x),
         n => /\ x.kind \in Loads /\ x.player = p /\ x.session = pl.session
              /\ x.kind = "tracks" => p = "stem"
              /\ x.kind \in {"track", "frames"} => p = "song"
              /\ x.kind = "master" => x.arg \in Levels
              /\ Finds(x)',
         Tracks', LevelKept',
         UNCHANGED <<claim, screens, top, editing, db, user>>
  PROVE  SessionTypes' /\ SessionInv'
<1>1. 1 \in 1..Len(answers) /\ answers[1] \in Replies
  BY HeadIs
<1>2. /\ claim = p /\ IsOpen(p) /\ players[p].status = "loading"
      /\ \A q \in Players : q # p => players[q].status = "idle"
      /\ \A q \in Players : ~Ready(q)
      /\ NoReads
      /\ \A i \in 1..Len(answers) : i > 1 => answers[i].kind = "master" /\ ~IsCurrent(answers[i])
  BY <1>1, LoadAlone
<1>3. /\ players' \in [Players -> PlayerStates] /\ players'[p] = pl
      /\ \A q \in Players : q # p => players'[q] = players[q]
  BY PlayerSet DEF SessionTypes
<1>4. \A q \in Players : /\ players'[q].session = players[q].session
                         /\ players'[q].status = "idle" <=> players[q].status = "idle"
                         /\ players'[q].click = players[q].click
                         /\ players'[q].loop = players[q].loop
                         /\ players'[q].mix = players[q].mix
  BY <1>2, <1>3
<1>5. \A a \in Replies : IsCurrent(a)' <=> IsCurrent(a)
  BY <1>4 DEF IsCurrent, Live, Replies
<1>6. ASSUME NEW a \in Replies, Stays(1, a) PROVE a.kind = "master" /\ ~IsCurrent(a)
  BY <1>2, <1>6 DEF Stays
<1>7. SessionTypes'
  BY <1>3 DEF SessionTypes, Shift
<1>8. Owned'
  <2>1. /\ engine'.holds = IF claim' = "none" THEN 0 ELSE 1
        /\ engine'.playing \/ engine'.card => claim' # "none"
        /\ players'["song"].mix = UnityMix
    BY <1>4, TwoPlayers DEF SessionInv, Owned
  <2>2. players'["stem"].master = "none"
    BY <1>3, TwoPlayers DEF SessionInv, Owned
  <2>3. ASSUME NEW q \in Players
        PROVE  /\ IsOpen(q)' <=> claim' = q
               /\ (players'[q].hold <=> IsOpen(q)') /\ (players'[q].sub <=> IsOpen(q)')
               /\ ~IsOpen(q)' => /\ ~players'[q].scrub /\ ~players'[q].requested
                                 /\ ~players'[q].click
                                 /\ players'[q].master = "none" /\ players'[q].loop = "off"
    <3>1. CASE q = p
      <4>1. players[p].hold /\ players[p].sub
        BY <1>2 DEF SessionInv, Owned
      <4>2. IsOpen(q)' /\ claim' = q /\ players'[q].hold /\ players'[q].sub
        BY <1>2, <1>3, <3>1, <4>1 DEF IsOpen
      <4> QED BY <4>2
    <3>2. CASE q # p
      <4>1. players'[q] = players[q]
        BY <1>3, <3>2
      <4> QED BY <4>1 DEF SessionInv, Owned, IsOpen
    <3> QED BY <3>1, <3>2
  <2> QED BY <2>1, <2>2, <2>3 DEF Owned
<1>9. Held'
  BY <1>4, HeldFrame DEF SessionInv
<1>10. Ordered'
  <2>1. \A q \in Players : /\ players'[q].session \in Nat
                           /\ players[q].session <= players'[q].session
    BY <1>3, <1>4 DEF PlayerStates
  <2>2. \A a \in Replies : Stays(1, a) /\ Answering(a) /\ IsCurrent(a)' =>
            IsOpen(a.player)' /\ Finds(a)'
    BY <1>5, <1>6
  <2>3. n => Answering(x)' /\ \A a \in Replies : Stays(1, a) => Fits(a, x)'
    <3> SUFFICES ASSUME n PROVE Answering(x)' /\ \A a \in Replies : Stays(1, a) => Fits(a, x)'
      OBVIOUS
    <3>1. x.kind \notin Changes /\ x.kind # "grid" /\ x.kind # "setLoop" /\ x.kind # "clearLoop"
      BY DEF Changes, Loads
    <3>2. IsOpen(p)'
      BY <1>2, <1>4 DEF IsOpen
    <3>3. x.session <= players'[x.player].session
      BY <1>3 DEF PlayerStates
    <3>4. Answering(x)'
      BY <3>1, <3>2, <3>3 DEF Answering
    <3>5. ASSUME NEW a \in Replies, Stays(1, a) PROVE Fits(a, x)'
      <4>1. ~IsLoad(a)'
        BY <1>5, <1>6, <3>5 DEF IsLoad
      <4> QED BY <3>1, <4>1 DEF Fits
    <3> QED BY <3>4, <3>5
  <2>4. \A a \in Replies : (Stays(1, a) \/ (n /\ a = x)) /\ a.kind \in Changes \cup {"grid"} =>
            IsCurrent(a)' \/ \A q \in Players : players'[q].status # "ready"
    BY <1>6 DEF Changes, Loads
  <2>5. 1 \in {0, 1} /\ Ordered
    BY DEF SessionInv
  <2> QED BY <1>5, <2>1, <2>2, <2>3, <2>4, <2>5, OrderedStep
<1>11. \A q \in Players : ~LoopOn(players[q]) /\ ~LoopOn(players[q])'
  BY <1>2, <1>4 DEF SessionInv, LoopKept, LoopOn
<1>12. ASSUME NEW i \in 1..Len(answers)
       PROVE  answers[i].kind # "grid" /\ answers[i].kind # "setLoop"
  <2>1. i = 1 \/ i > 1
    BY <1>1
  <2> QED BY <1>2, <2>1 DEF IsLoad, Loads
<1>13. LoopKept'
  <2>1. LoopFree
    BY <1>11, <1>12 DEF SessionInv, LoopKept
  <2>2. LoopFree'
    BY <2>1 DEF LoopFree
  <2>3. \A q \in Players : LoopTold(q)'
    BY <1>11, <2>2 DEF LoopTold
  <2> QED BY <1>11, <2>2, <2>3 DEF LoopKept
<1>14. ClickKept'
  <2>1. \A q \in Players : ~players[q].click /\ ~players'[q].click
    BY <1>2, <1>4 DEF SessionInv, ClickKept
  <2>2. ~engine.follow /\ engine.metronome # "click" /\ engine.grid = "none"
    BY <1>12, <2>1 DEF SessionInv, ClickKept
  <2> QED BY <2>1, <2>2 DEF ClickKept
<1>15. Reads'
  <2>1. \A c \in DbCalls : IsRead(c)' <=> IsRead(c)
    BY <1>4 DEF IsRead, Live, DbCalls
  <2> SUFFICES ASSUME NEW k \in 1..Len(db.queue)
               PROVE  /\ db.queue[k].session <= players'[db.queue[k].player].session
                      /\ db.queue[k].kind = "save" => db.queue[k].arg \in SoundMixes
                      /\ db.queue[k].kind = "rename" =>
                           db.queue[k].arg \in [from : Names0, to : Names0]
                      /\ ~IsRead(db.queue[k])'
    BY DEF Reads
  <2>2. PICK c \in DbCalls : c = db.queue[k]
    BY CallIs
  <2>3. ~IsRead(c)'
    BY <1>2, <2>1, <2>2 DEF NoReads
  <2>4. c.session <= players'[c.player].session
    BY <1>4, <2>2 DEF SessionInv, Reads, DbCalls
  <2> QED BY <2>2, <2>3, <2>4 DEF SessionInv, Reads
<1>16. Saved'
  <2>1. ~Ready("stem")
    BY <1>2, TwoPlayers
  <2>2. db.pending = {} /\ LastSaveIs(user.mix) /\ (NoSaves /\ ~db.lost => db.mix = user.mix)
    BY <2>1 DEF SessionInv, Saved
  <2>3. p = "stem" => NoSaves /\ (~db.lost => players["stem"].mix = user.mix)
    BY <1>1 DEF SessionInv, Saved
  <2>4. Ready("stem")' => p = "stem"
    BY <1>2, <1>3, TwoPlayers DEF Ready
  <2>5. ASSUME NEW i \in 1..Len(answers'), answers'[i].player = "stem", IsLoad(answers[i])'
        PROVE  p = "stem"
    <3>1. CASE i + 1 \in 1..Len(answers) /\ answers'[i] = answers[i + 1]
      <4>1. PICK a \in Replies : a = answers[i + 1]
        BY <3>1, AnswerIs
      <4>2. Stays(1, a)
        <5>1. i + 1 > 1
          BY DEF Shift, Shifted
        <5> QED BY <3>1, <4>1, <5>1 DEF Stays
      <4>3. IsLoad(a)'
        BY <2>5, <3>1, <4>1
      <4> QED BY <1>5, <1>6, <4>2, <4>3 DEF IsLoad
    <3>2. CASE n /\ answers'[i] = x
      BY <2>5, <3>2
    <3> QED BY <3>1, <3>2 DEF Shift, Shifted
  <2>6. (NoSaves' <=> NoSaves) /\ (LastSaveIs(user.mix)' <=> LastSaveIs(user.mix))
    BY DEF NoSaves, LastSaveIs
  <2>7. players'["stem"].mix = players["stem"].mix
    BY <1>4, TwoPlayers
  <2>8. Ready("stem")' /\ (~NoSaves' \/ ~db'.lost) => players'["stem"].mix = user'.mix
    BY <2>3, <2>4, <2>6, <2>7
  <2>9. (\E i \in 1..Len(answers') : answers'[i].player = "stem" /\ IsLoad(answers[i])') =>
           NoSaves' /\ (~db'.lost => players'["stem"].mix = user'.mix)
    BY <2>3, <2>5, <2>6, <2>7
  <2>10. /\ db'.pending = {} /\ LastSaveIs(user.mix)'
         /\ NoSaves' /\ ~db'.lost => db'.mix = user'.mix
    BY <2>2, <2>6
  <2> QED BY <2>8, <2>9, <2>10 DEF Saved
<1> QED BY <1>7, <1>8, <1>9, <1>10, <1>13, <1>14, <1>15, <1>16 DEF SessionInv

\* An answer that fails the song.
LEMMA LoadFails ==
  ASSUME SessionTypes, SessionInv, answers # <<>>, IsLoad(answers[1]),
         NEW p \in Players, p = answers[1].player, Fail(p),
         answers' = Tail(answers), engine' = engine,
         UNCHANGED <<claim, screens, top, editing, db, user>>
  PROVE  SessionTypes' /\ SessionInv'
<1>1. PICK was \in PlayerStates : was = players[p]
  BY DEF SessionTypes
<1>2. PICK pl \in PlayerStates : pl = [was EXCEPT !.status = "failed"]
  BY DEF PlayerStates
<1>3. /\ pl.session = was.session /\ pl.hold = was.hold /\ pl.sub = was.sub
      /\ pl.click = was.click /\ pl.loop = was.loop /\ pl.mix = was.mix
      /\ pl.status = "failed" /\ pl.master = was.master /\ pl.requested = was.requested
  BY <1>2 DEF PlayerStates
<1>4. players' = [players EXCEPT ![p] = pl]
  BY <1>1, <1>2 DEF Fail, SessionTypes
<1>5. players'[p] = pl /\ \A q \in Players : q # p => players'[q] = players[q]
  BY <1>4, PlayerSet DEF SessionTypes
<1>6. p = "stem" => pl.master = "none"
  BY <1>1, <1>3 DEF SessionInv, Owned
<1>7. Tracks'
  <2>1. \A q \in Players : /\ players'[q].requested = players[q].requested
                           /\ players'[q].master = players[q].master
                           /\ Ready(q)' => players'[q] = players[q]
    BY <1>1, <1>3, <1>5 DEF Ready
  <2> QED BY <2>1 DEF SessionInv, Tracks, Ready
<1>8. LevelKept'
  <2>1. players'["song"].master = players["song"].master
    BY <1>1, <1>3, <1>5, TwoPlayers
  <2> QED BY <2>1 DEF SessionInv, LevelKept
<1>9. PICK x \in Replies : TRUE
  BY AReply
<1>10. Shift(1, FALSE, x) /\ FALSE \in BOOLEAN
  BY AnswersDone
<1>11. engine' \in EngineStates /\ pl.status # "ready" /\ pl.status \in {"loading", "ready", "failed"}
  BY <1>3 DEF SessionTypes
<1> QED BY <1>1, <1>3, <1>4, <1>6, <1>7, <1>8, <1>10, <1>11, LoadStep

\* The load's answer that is taken.
LEMMA LoadHead ==
  ASSUME SessionTypes, SessionInv, answers # <<>>, IsCurrent(answers[1])
  PROVE  LET a == answers[1] IN
         /\ a \in Replies /\ a = Oldest(answers)
         /\ a.player \in Players /\ Live(a.player, a.session) /\ Answering(a) /\ Finds(a)
         /\ a.kind \in Loads => IsLoad(a)
<1>1. 1 \in 1..Len(answers) /\ answers[1] \in Replies /\ answers[1] = Oldest(answers)
  BY HeadIs
<1>2. PICK a \in Replies : a = answers[1]
  BY <1>1
<1>3. Answering(a)
  BY <1>1, <1>2 DEF SessionInv, Ordered, Sound
<1> QED BY <1>1, <1>2, <1>3 DEF Answering, IsLoad, IsCurrent, Replies

\* The engine has started.
LEMMA StartLive ==
  ASSUME SessionTypes, SessionInv, StartAnswered, IsCurrent(answers[1])
  PROVE  SessionTypes' /\ SessionInv'
<1>1. /\ answers # <<>> /\ UNCHANGED <<claim, screens, top, editing, db, user>>
  BY DEF StartAnswered, Answered, LoadFrame
<1>2. PICK a \in Replies : a = answers[1] /\ a = Oldest(answers)
  BY <1>1, LoadHead
<1>3. PICK p \in Players : p = a.player
  BY DEF Replies
<1>4. /\ a.kind = "start" /\ IsLoad(a) /\ Live(p, a.session) /\ Finds(a)
  BY <1>1, <1>2, <1>3, LoadHead DEF StartAnswered, Answered, Loads
<1>5. players[p].status = "loading" /\ ~players[p].requested
  BY <1>3, <1>4 DEF Finds
<1>6. CASE ~a.ok
  <2>1. Fail(p) /\ answers' = Tail(answers) /\ engine' = engine
    BY <1>2, <1>3, <1>4, <1>6 DEF StartAnswered, Done
  <2> QED BY <1>1, <1>2, <1>3, <1>4, <2>1, LoadFails
<1>7. CASE a.ok
  <2>1. PICK ok \in BOOLEAN :
          /\ answers' = Append(Tail(answers), Ask("cleared", p, ok, "none"))
          /\ engine' = WithLoopCleared(engine, ok)
          /\ players' = players
    BY <1>2, <1>3, <1>4, <1>7 DEF StartAnswered, Then
  <2>2. PICK pl \in PlayerStates : pl = players[p]
    BY DEF SessionTypes
  <2>3. players' = [players EXCEPT ![p] = pl]
    BY <2>1, <2>2 DEF SessionTypes
  <2>4. PICK k \in Nat : k = players[p].session
    BY DEF SessionTypes, PlayerStates
  <2>5. PICK x \in Replies : x = Ask("cleared", p, ok, "none")
    BY <2>4 DEF Ask, Replies, Loads
  <2>6. /\ x.kind = "cleared" /\ x.player = p /\ x.session = players[p].session
        /\ x.kind \in Loads
    BY <2>5 DEF Ask, Loads
  <2>7. Shift(1, TRUE, x)
    BY <1>1, <2>1, <2>5, AnswersThen
  <2>8. /\ engine' \in EngineStates /\ LoopFree'
        /\ engine'.holds = engine.holds /\ engine'.tracks = engine.tracks
        /\ engine'.mix = engine.mix /\ engine'.master = engine.master
        /\ engine'.playing = engine.playing /\ engine'.card = engine.card
        /\ engine'.follow = engine.follow /\ engine'.metronome = engine.metronome
        /\ engine'.grid = engine.grid
    BY <2>1, LoopClearedIs DEF SessionTypes
  <2>9. Finds(x)'
    BY <1>5, <2>1, <2>6, <2>8 DEF Finds
  <2>10. Tracks' /\ LevelKept'
    BY <1>1, <2>1, <2>8 DEF SessionInv, Tracks, LevelKept, Ready
  <2>11. p = "stem" => pl.master = "none"
    BY <2>2 DEF SessionInv, Owned
  <2>12. /\ pl.session = players[p].session /\ pl.hold = players[p].hold
         /\ pl.sub = players[p].sub /\ pl.click = players[p].click
         /\ pl.loop = players[p].loop /\ pl.mix = players[p].mix
         /\ pl.status \in {"loading", "ready", "failed"} /\ pl.status = "loading"
    BY <1>5, <2>2
  <2>13. TRUE \in BOOLEAN /\ x.kind # "tracks" /\ x.kind \notin {"track", "frames"}
         /\ x.kind # "master" /\ x.session = pl.session
    BY <2>6, <2>12
  <2> QED BY <1>1, <1>2, <1>3, <1>4, <2>3, <2>6, <2>7, <2>8, <2>9, <2>10, <2>11, <2>12, <2>13,
             LoadStep
<1> QED BY <1>6, <1>7

\* What the song's next call is asked with.
LEMMA AskIs ==
  ASSUME SessionTypes, NEW p \in Players, NEW kind \in Loads, NEW ok \in BOOLEAN,
         NEW arg \in {"none"} \cup Levels
  PROVE  LET x == Ask(kind, p, ok, arg) IN
         /\ x \in Replies /\ x.kind = kind /\ x.player = p
         /\ x.session = players[p].session /\ x.ok = ok /\ x.arg = arg
<1>1. PICK k \in Nat : k = players[p].session
  BY DEF SessionTypes, PlayerStates
<1> QED BY <1>1 DEF Ask, Replies

\* A player whose tracks are requested, or ready.
LEMMA PlayerIs ==
  ASSUME SessionTypes, NEW p \in Players
  PROVE  /\ players[p] \in PlayerStates
         /\ players = [players EXCEPT ![p] = players[p]]
         /\ players \in [Players -> PlayerStates]
BY DEF SessionTypes

\* The loop left behind is cleared.
LEMMA ClearLive ==
  ASSUME SessionTypes, SessionInv, ClearAnswered, IsCurrent(answers[1])
  PROVE  SessionTypes' /\ SessionInv'
<1>1. /\ answers # <<>> /\ UNCHANGED <<claim, screens, top, editing, db, user>>
  BY DEF ClearAnswered, Answered, LoadFrame
<1>2. PICK a \in Replies : a = answers[1] /\ a = Oldest(answers)
  BY <1>1, LoadHead
<1>3. PICK p \in Players : p = a.player
  BY DEF Replies
<1>4. /\ a.kind = "cleared" /\ IsLoad(a) /\ Live(p, a.session) /\ Finds(a)
  BY <1>1, <1>2, <1>3, LoadHead DEF ClearAnswered, Answered, Loads
<1>5. players[p].status = "loading" /\ ~players[p].requested /\ LoopFree
  BY <1>3, <1>4 DEF Finds
<1>6. PICK was \in PlayerStates : was = players[p]
  BY PlayerIs
<1>7. engine \in EngineStates /\ engine.master \in Levels
  BY DEF SessionTypes, EngineStates
<1>8. \A q \in Players : q # p => ~players[q].requested /\ ~Ready(q)
  BY <1>1, <1>2, <1>3, <1>4, HeadIs, LoadAlone DEF SessionInv, Owned, IsOpen
<1>9. TRUE \in BOOLEAN /\ "tracks" \in Loads /\ "master" \in Loads
  BY DEF Loads
<1>10. CASE p = "stem"
  <2>1. /\ players' = [players EXCEPT ![p].requested = TRUE]
        /\ engine' = [engine EXCEPT !.tracks = p]
        /\ answers' = Append(Tail(answers), Ask("tracks", p, TRUE, "none"))
    BY <1>2, <1>3, <1>4, <1>10 DEF ClearAnswered, Then
  <2>2. PICK pl \in PlayerStates : pl = [was EXCEPT !.requested = TRUE]
    BY DEF PlayerStates
  <2>3. players' = [players EXCEPT ![p] = pl]
    BY <1>6, <2>1, <2>2, PlayerIs
  <2>4. /\ pl.session = was.session /\ pl.hold = was.hold /\ pl.sub = was.sub
        /\ pl.click = was.click /\ pl.loop = was.loop /\ pl.mix = was.mix
        /\ pl.status = was.status /\ pl.master = was.master /\ pl.requested
    BY <2>2 DEF PlayerStates
  <2>5. players'[p] = pl /\ \A q \in Players : q # p => players'[q] = players[q]
    BY <2>3, PlayerSet, PlayerIs
  <2>6. PICK x \in Replies : x = Ask("tracks", p, TRUE, "none")
    BY <1>9, AskIs
  <2>7. /\ x.kind = "tracks" /\ x.player = p /\ x.session = pl.session
    BY <1>6, <2>4, <2>6 DEF Ask
  <2>8. Shift(1, TRUE, x)
    BY <1>1, <2>1, <2>6, AnswersThen
  <2>9. /\ engine' \in EngineStates /\ engine'.tracks = p
        /\ engine'.holds = engine.holds
        /\ engine'.mix = engine.mix /\ engine'.master = engine.master
        /\ engine'.playing = engine.playing /\ engine'.card = engine.card
        /\ engine'.follow = engine.follow /\ engine'.metronome = engine.metronome
        /\ engine'.grid = engine.grid
        /\ engine'.loop = engine.loop /\ engine'.stray = engine.stray
    BY <1>7, <2>1 DEF EngineStates
  <2>10. LoopFree'
    BY <1>5, <2>9 DEF LoopFree
  <2>11. Finds(x)'
    BY <1>5, <1>6, <2>4, <2>5, <2>7, <2>10 DEF Finds
  <2>12. Tracks'
    <3>1. ~Ready(p)' /\ players'[p].requested
      BY <1>5, <1>6, <2>4, <2>5 DEF Ready
    <3>2. \A q \in Players : q # p => ~Ready(q)' /\ ~players'[q].requested /\ engine'.tracks # q
                                      /\ players'[q].master = "none"
      BY <1>8, <2>5, <2>9 DEF Ready, SessionInv, Tracks
    <3> QED BY <1>10, <2>9, <3>1, <3>2 DEF Tracks
  <2>13. LevelKept'
    BY <1>1, <1>6, <2>4, <2>5, <2>9, TwoPlayers DEF SessionInv, LevelKept
  <2>14. p = "stem" => pl.master = "none"
    BY <1>6, <2>4 DEF SessionInv, Owned
  <2>15. /\ x.kind \in Loads /\ x.kind \notin {"track", "frames"} /\ x.kind # "master"
         /\ pl.status \in {"loading", "ready", "failed"}
    BY <1>5, <1>6, <1>9, <2>4, <2>7
  <2> QED BY <1>1, <1>2, <1>3, <1>4, <1>6, <1>9, <1>10, <2>3, <2>4, <2>7, <2>8, <2>9, <2>10,
             <2>11, <2>12, <2>13, <2>14, <2>15, LoadStep
<1>11. CASE p # "stem"
  <2>1. PICK ok \in BOOLEAN :
          /\ players' = players /\ engine' = engine
          /\ answers' = Append(Tail(answers), Ask("master", p, ok, engine.master))
    BY <1>2, <1>3, <1>4, <1>11 DEF ClearAnswered, Then
  <2>2. players' = [players EXCEPT ![p] = was]
    BY <1>6, <2>1, PlayerIs
  <2>3. PICK level \in Levels : level = engine.master
    BY <1>7
  <2>4. PICK x \in Replies : x = Ask("master", p, ok, level)
    BY <1>9, AskIs
  <2>5. x.kind = "master" /\ x.player = p /\ x.session = was.session /\ x.arg = level
    BY <1>6, <2>4 DEF Ask
  <2>6. Shift(1, TRUE, x)
    BY <1>1, <2>1, <2>3, <2>4, AnswersThen
  <2>7. LoopFree' /\ Tracks' /\ LevelKept'
    BY <1>1, <1>5, <2>1 DEF LoopFree, SessionInv, Tracks, LevelKept, Ready
  <2>8. Finds(x)'
    <3>1. players[p].master = "none"
      BY <1>5 DEF SessionInv, Tracks
    <3> QED BY <1>5, <1>11, <2>1, <2>3, <2>5, <2>7, <3>1 DEF Finds
  <2>9. /\ x.kind \in Loads /\ x.kind \notin {"track", "frames"} /\ x.kind # "tracks"
        /\ x.arg \in Levels /\ was.status \in {"loading", "ready", "failed"}
    BY <1>5, <1>6, <1>9, <2>5
  <2> QED BY <1>1, <1>2, <1>3, <1>4, <1>6, <1>7, <1>9, <1>11, <2>1, <2>2, <2>5, <2>6, <2>7,
             <2>8, <2>9, LoadStep
<1> QED BY <1>10, <1>11

\* The stems have loaded.
LEMMA TracksLive ==
  ASSUME SessionTypes, SessionInv, TracksAnswered, IsCurrent(answers[1])
  PROVE  SessionTypes' /\ SessionInv'
<1>1. /\ answers # <<>> /\ UNCHANGED <<claim, screens, top, editing, db, user>>
  BY DEF TracksAnswered, Answered, LoadFrame
<1>2. PICK a \in Replies : a = answers[1] /\ a = Oldest(answers)
  BY <1>1, LoadHead
<1>3. a.kind = "tracks" /\ IsLoad(a) /\ Answering(a) /\ Finds(a)
  BY <1>1, <1>2, LoadHead DEF TracksAnswered, Answered, Loads
<1>4. PICK p \in Players : p = a.player
  BY DEF Replies
<1>5. p = "stem" /\ Live(p, a.session)
  BY <1>1, <1>2, <1>3, <1>4, LoadHead DEF Answering
<1>6. players[p].status = "loading" /\ players[p].requested /\ LoopFree
  BY <1>3, <1>4 DEF Finds
<1>7. PICK was \in PlayerStates : was = players[p]
  BY PlayerIs
<1>8. engine \in EngineStates
  BY DEF SessionTypes
<1>9. PICK level \in Levels : level = engine.master
  BY <1>8 DEF EngineStates
<1>10. PICK mix \in SoundMixes : mix = was.mix
  BY DEF PlayerStates
<1>11. PICK ok \in BOOLEAN :
         answers' = Append(Tail(answers),
                           [a EXCEPT !.kind = "master", !.ok = ok, !.arg = engine.master])
  BY <1>2 DEF TracksAnswered
<1>12. players' = players /\ engine' = [engine EXCEPT !.mix = mix]
  BY <1>2, <1>5, <1>7, <1>10 DEF TracksAnswered
<1>13. PICK x \in Replies : x = [a EXCEPT !.kind = "master", !.ok = ok, !.arg = level]
  BY DEF Replies, Loads
<1>14. /\ x.kind = "master" /\ x.player = p /\ x.session = a.session /\ x.arg = level
       /\ x.kind \in Loads /\ TRUE \in BOOLEAN
  BY <1>4, <1>13 DEF Replies, Loads
<1>15. x.session = was.session
  BY <1>5, <1>7, <1>14 DEF Live
<1>16. Shift(1, TRUE, x)
  BY <1>1, <1>9, <1>11, <1>13, AnswersThen
<1>17. players' = [players EXCEPT ![p] = was]
  BY <1>7, <1>12, PlayerIs
<1>18. /\ engine' \in EngineStates /\ engine'.mix = mix
       /\ engine'.tracks = engine.tracks
       /\ engine'.holds = engine.holds /\ engine'.master = engine.master
       /\ engine'.playing = engine.playing /\ engine'.card = engine.card
       /\ engine'.follow = engine.follow /\ engine'.metronome = engine.metronome
       /\ engine'.grid = engine.grid
       /\ engine'.loop = engine.loop /\ engine'.stray = engine.stray
  BY <1>8, <1>12 DEF EngineStates
<1>19. LoopFree'
  BY <1>6, <1>18 DEF LoopFree
<1>20. Finds(x)'
  BY <1>5, <1>6, <1>7, <1>10, <1>12, <1>14, <1>18, <1>19 DEF Finds
<1>21. Tracks'
  <2>1. \A q \in Players : ~Ready(q)'
    BY <1>1, <1>2, <1>3, <1>12, HeadIs, LoadAlone DEF Ready
  <2>2. engine'.tracks = "stem"
    BY <1>5, <1>6, <1>18 DEF SessionInv, Tracks
  <2> QED BY <1>12, <1>18, <2>1, <2>2 DEF SessionInv, Tracks
<1>22. LevelKept'
  BY <1>1, <1>12, <1>18 DEF SessionInv, LevelKept
<1>23. /\ was.master = "none" /\ was.status \in {"loading", "ready", "failed"}
       /\ x.kind # "tracks" /\ x.kind \notin {"track", "frames"} /\ x.arg \in Levels
  BY <1>5, <1>6, <1>7, <1>14 DEF SessionInv, Owned
<1> QED BY <1>1, <1>2, <1>3, <1>4, <1>7, <1>14, <1>15, <1>16, <1>17, <1>18, <1>19, <1>20,
           <1>21, <1>22, <1>23, LoadStep

\* The master level is known.
LEMMA MasterLive ==
  ASSUME SessionTypes, SessionInv, MasterAnswered, IsCurrent(answers[1])
  PROVE  SessionTypes' /\ SessionInv'
<1>1. /\ answers # <<>> /\ UNCHANGED <<claim, screens, top, editing, db, user>>
  BY DEF MasterAnswered, Answered, LoadFrame
<1>2. PICK a \in Replies : a = answers[1] /\ a = Oldest(answers)
  BY <1>1, LoadHead
<1>3. PICK p \in Players : p = a.player
  BY DEF Replies
<1>4. /\ a.kind = "master" /\ IsLoad(a) /\ Live(p, a.session) /\ Finds(a) /\ Answering(a)
  BY <1>1, <1>2, <1>3, LoadHead DEF MasterAnswered, Answered, Loads
<1>5. players[p].status = "loading" /\ LoopFree
  BY <1>3, <1>4 DEF Finds
<1>6. PICK was \in PlayerStates : was = players[p]
  BY PlayerIs
<1>7. engine \in EngineStates
  BY DEF SessionTypes
<1>8. \A q \in Players : q # p => ~players[q].requested /\ ~Ready(q)
  BY <1>1, <1>2, <1>3, <1>4, HeadIs, LoadAlone DEF SessionInv, Owned, IsOpen
<1>9. PICK y \in Replies : TRUE
  BY AReply
<1>10. CASE ~a.ok
  <2>1. Fail(p) /\ answers' = Tail(answers) /\ engine' = engine
    BY <1>2, <1>3, <1>4, <1>10 DEF MasterAnswered, Done
  <2> QED BY <1>1, <1>2, <1>3, <1>4, <2>1, LoadFails
<1>11. CASE a.ok /\ p = "stem"
  <2>1. /\ players' = [players EXCEPT ![p].status = "ready"] /\ engine' = engine
        /\ answers' = Tail(answers)
    BY <1>2, <1>3, <1>4, <1>11 DEF MasterAnswered, Done
  <2>2. PICK pl \in PlayerStates : pl = [was EXCEPT !.status = "ready"]
    BY DEF PlayerStates
  <2>3. players' = [players EXCEPT ![p] = pl]
    BY <1>6, <2>1, <2>2, PlayerIs
  <2>4. /\ pl.session = was.session /\ pl.hold = was.hold /\ pl.sub = was.sub
        /\ pl.click = was.click /\ pl.loop = was.loop /\ pl.mix = was.mix
        /\ pl.status = "ready" /\ pl.master = was.master
        /\ pl.requested <=> was.requested
    BY <2>2 DEF PlayerStates
  <2>5. players'[p] = pl /\ \A q \in Players : q # p => players'[q] = players[q]
    BY <2>3, PlayerSet, PlayerIs
  <2>6. was.requested /\ engine.mix = was.mix /\ engine.tracks = p
    BY <1>3, <1>4, <1>6, <1>11 DEF Finds, SessionInv, Tracks
  <2>7. Tracks'
    <3>1. players'[p].requested /\ engine'.mix = players'[p].mix
      BY <2>1, <2>4, <2>5, <2>6
    <3>2. \A q \in Players : q # p => ~Ready(q)' /\ ~players'[q].requested /\ engine'.tracks # q
                                      /\ players'[q].master = "none"
      BY <1>8, <2>1, <2>5, <2>6 DEF Ready, SessionInv, Tracks
    <3> QED BY <1>11, <2>1, <2>6, <3>1, <3>2 DEF Tracks
  <2>8. LoopFree' /\ LevelKept'
    BY <1>1, <1>5, <1>6, <2>1, <2>4, <2>5, TwoPlayers DEF LoopFree, SessionInv, LevelKept
  <2>9. p = "stem" => pl.master = "none"
    BY <1>6, <2>4 DEF SessionInv, Owned
  <2>10. Shift(1, FALSE, y) /\ FALSE \in BOOLEAN
    BY <1>1, <2>1, AnswersDone
  <2>11. pl.status \in {"loading", "ready", "failed"} /\ engine' \in EngineStates
    BY <1>7, <2>1, <2>4
  <2> QED BY <1>1, <1>2, <1>3, <1>4, <1>6, <2>1, <2>3, <2>4, <2>7, <2>8, <2>9, <2>10, <2>11,
             LoadStep
<1>12. CASE a.ok /\ p # "stem"
  <2>1. PICK level \in Levels : level = a.arg
    BY <1>4 DEF Answering
  <2>2. PICK ok \in BOOLEAN : answers' = Append(Tail(answers), Ask("track", p, ok, "none"))
    BY <1>2, <1>3, <1>4, <1>12 DEF MasterAnswered, Then
  <2>3. /\ players' = [players EXCEPT ![p].master = level, ![p].requested = TRUE]
        /\ engine' = [engine EXCEPT !.master = "unity", !.tracks = p]
    BY <1>2, <1>3, <1>4, <1>12, <2>1 DEF MasterAnswered
  <2>4. PICK pl \in PlayerStates : pl = [was EXCEPT !.master = level, !.requested = TRUE]
    BY DEF PlayerStates
  <2>5. players' = [players EXCEPT ![p] = pl]
    BY <1>6, <2>3, <2>4, PlayerIs
  <2>6. /\ pl.session = was.session /\ pl.hold = was.hold /\ pl.sub = was.sub
        /\ pl.click = was.click /\ pl.loop = was.loop /\ pl.mix = was.mix
        /\ pl.status = was.status /\ pl.master = level
        /\ pl.requested
    BY <2>4 DEF PlayerStates
  <2>7. players'[p] = pl /\ \A q \in Players : q # p => players'[q] = players[q]
    BY <2>5, PlayerSet, PlayerIs
  <2>8. PICK x \in Replies : x = Ask("track", p, ok, "none")
    BY AskIs DEF Loads
  <2>9. x.kind = "track" /\ x.player = p /\ x.session = pl.session
    BY <1>6, <2>6, <2>8 DEF Ask
  <2>10. Shift(1, TRUE, x)
    BY <1>1, <2>2, <2>8, AnswersThen
  <2>11. /\ engine' \in EngineStates /\ engine'.tracks = p /\ engine'.master = "unity"
         /\ engine'.holds = engine.holds /\ engine'.mix = engine.mix
         /\ engine'.playing = engine.playing /\ engine'.card = engine.card
         /\ engine'.follow = engine.follow /\ engine'.metronome = engine.metronome
         /\ engine'.grid = engine.grid
         /\ engine'.loop = engine.loop /\ engine'.stray = engine.stray
    BY <1>7, <2>3 DEF EngineStates, Levels
  <2>12. LoopFree'
    BY <1>5, <2>11 DEF LoopFree
  <2>13. Finds(x)'
    BY <1>5, <1>6, <2>6, <2>7, <2>9, <2>12 DEF Finds
  <2>14. p = "song"
    BY <1>12 DEF Players
  <2>15. was.master = "none" /\ level = engine.master /\ ~was.requested
    BY <1>3, <1>4, <1>6, <1>12, <2>1 DEF Finds
  <2>16. Tracks'
    <3>1. engine.mix = UnityMix
      BY <1>8, <2>14, TwoPlayers DEF SessionInv, Tracks
    <3>2. players'[p].requested /\ ~Ready(p)'
      BY <1>5, <1>6, <2>6, <2>7 DEF Ready
    <3>3. \A q \in Players : q # p => ~Ready(q)' /\ ~players'[q].requested /\ engine'.tracks # q
                                      /\ players'[q].master = "none"
      BY <1>8, <2>7, <2>11 DEF Ready, SessionInv, Tracks
    <3> QED BY <2>11, <3>1, <3>2, <3>3 DEF Tracks
  <2>17. LevelKept'
    <3>1. user.master = level
      BY <1>6, <2>14, <2>15 DEF SessionInv, LevelKept
    <3>2. players'["song"].master = level /\ level # "none"
      BY <2>6, <2>7, <2>14 DEF Levels
    <3> QED BY <1>1, <3>1, <3>2 DEF LevelKept
  <2>18. /\ x.kind \in Loads /\ x.kind # "tracks" /\ x.kind # "master" /\ TRUE \in BOOLEAN
         /\ pl.status # "ready" /\ pl.status \in {"loading", "ready", "failed"}
    BY <1>5, <1>6, <2>6, <2>9 DEF Loads
  <2> QED BY <1>1, <1>2, <1>3, <1>4, <1>6, <2>5, <2>6, <2>9, <2>10, <2>11,
             <2>12, <2>13, <2>14, <2>16, <2>17, <2>18, LoadStep
<1> QED BY <1>10, <1>11, <1>12

\* The song's track has loaded.
LEMMA TrackLive ==
  ASSUME SessionTypes, SessionInv, TrackAnswered, IsCurrent(answers[1])
  PROVE  SessionTypes' /\ SessionInv'
<1>1. /\ answers # <<>> /\ UNCHANGED <<claim, screens, top, editing, db, user>>
      /\ engine' = engine
  BY DEF TrackAnswered, Answered, LoadFrame
<1>2. PICK a \in Replies : a = answers[1] /\ a = Oldest(answers)
  BY <1>1, LoadHead
<1>3. PICK p \in Players : p = a.player
  BY DEF Replies
<1>4. /\ a.kind = "track" /\ IsLoad(a) /\ Live(p, a.session) /\ Finds(a) /\ Answering(a)
  BY <1>1, <1>2, <1>3, LoadHead DEF TrackAnswered, Answered, Loads
<1>5. players[p].status = "loading" /\ players[p].requested /\ LoopFree /\ p = "song"
  BY <1>3, <1>4 DEF Finds, Answering
<1>6. CASE ~a.ok
  <2>1. Fail(p) /\ answers' = Tail(answers)
    BY <1>2, <1>3, <1>4, <1>5, <1>6 DEF TrackAnswered, Done
  <2> QED BY <1>1, <1>2, <1>3, <1>4, <2>1, LoadFails
<1>7. CASE a.ok
  <2>1. PICK ok \in BOOLEAN :
          /\ players' = players
          /\ answers' = Append(Tail(answers), Ask("frames", p, ok, "none"))
    BY <1>2, <1>3, <1>4, <1>5, <1>7 DEF TrackAnswered, Then
  <2>2. PICK pl \in PlayerStates : pl = players[p]
    BY PlayerIs
  <2>3. players' = [players EXCEPT ![p] = pl]
    BY <2>1, <2>2, PlayerIs
  <2>4. PICK x \in Replies : x = Ask("frames", p, ok, "none")
    BY AskIs DEF Loads
  <2>5. x.kind = "frames" /\ x.player = p /\ x.session = pl.session
    BY <2>2, <2>4 DEF Ask
  <2>6. Shift(1, TRUE, x)
    BY <1>1, <2>1, <2>4, AnswersThen
  <2>7. LoopFree' /\ Tracks' /\ LevelKept' /\ engine' \in EngineStates
    BY <1>1, <1>5, <2>1 DEF LoopFree, SessionInv, Tracks, LevelKept, Ready, SessionTypes
  <2>8. Finds(x)'
    BY <1>5, <2>1, <2>5, <2>7 DEF Finds
  <2>9. /\ x.kind \in Loads /\ x.kind # "tracks" /\ x.kind # "master" /\ TRUE \in BOOLEAN
        /\ pl.status \in {"loading", "ready", "failed"} /\ p # "stem"
    BY <1>5, <2>2, <2>5 DEF Loads
  <2> QED BY <1>1, <1>2, <1>3, <1>4, <1>5, <2>2, <2>3, <2>5, <2>6, <2>7, <2>8, <2>9, LoadStep
<1> QED BY <1>6, <1>7

\* The song's length is known.
LEMMA FramesLive ==
  ASSUME SessionTypes, SessionInv, FramesAnswered, IsCurrent(answers[1])
  PROVE  SessionTypes' /\ SessionInv'
<1>1. /\ answers # <<>> /\ UNCHANGED <<claim, screens, top, editing, db, user>>
      /\ engine' = engine /\ answers' = Tail(answers)
  BY DEF FramesAnswered, Answered, LoadFrame, Done
<1>2. PICK a \in Replies : a = answers[1] /\ a = Oldest(answers)
  BY <1>1, LoadHead
<1>3. PICK p \in Players : p = a.player
  BY DEF Replies
<1>4. /\ a.kind = "frames" /\ IsLoad(a) /\ Live(p, a.session) /\ Finds(a) /\ Answering(a)
  BY <1>1, <1>2, <1>3, LoadHead DEF FramesAnswered, Answered, Loads
<1>5. players[p].status = "loading" /\ players[p].requested /\ LoopFree /\ p = "song"
  BY <1>3, <1>4 DEF Finds, Answering
<1>6. CASE ~a.ok
  <2>1. Fail(p)
    BY <1>2, <1>3, <1>4, <1>5, <1>6 DEF FramesAnswered, Fail
  <2> QED BY <1>1, <1>2, <1>3, <1>4, <2>1, LoadFails
<1>7. CASE a.ok
  <2>1. players' = [players EXCEPT ![p].status = "ready"]
    BY <1>2, <1>3, <1>4, <1>5, <1>7 DEF FramesAnswered
  <2>2. PICK was \in PlayerStates : was = players[p]
    BY PlayerIs
  <2>3. PICK pl \in PlayerStates : pl = [was EXCEPT !.status = "ready"]
    BY DEF PlayerStates
  <2>4. players' = [players EXCEPT ![p] = pl]
    BY <2>1, <2>2, <2>3, PlayerIs
  <2>5. /\ pl.session = was.session /\ pl.hold = was.hold /\ pl.sub = was.sub
        /\ pl.click = was.click /\ pl.loop = was.loop /\ pl.mix = was.mix
        /\ pl.status = "ready" /\ pl.master = was.master
        /\ pl.requested <=> was.requested
    BY <2>3 DEF PlayerStates
  <2>6. players'[p] = pl /\ \A q \in Players : q # p => players'[q] = players[q]
    BY <2>4, PlayerSet, PlayerIs
  <2>7. Tracks'
    <3>1. players[p].mix = UnityMix /\ engine.tracks = p
      BY <1>5, TwoPlayers DEF SessionInv, Owned, Tracks
    <3>2. engine.mix = UnityMix
      BY <1>5, <3>1 DEF SessionInv, Tracks
    <3>3. players'[p].requested /\ engine'.mix = players'[p].mix
      BY <1>1, <1>5, <2>2, <2>5, <2>6, <3>1, <3>2
    <3>4. \A q \in Players : q # p => ~Ready(q)' /\ ~players'[q].requested /\ engine'.tracks # q
                                      /\ players'[q].master = "none"
      BY <1>1, <1>2, <1>3, <1>4, <2>6, <3>1, HeadIs, LoadAlone
         DEF Ready, SessionInv, Owned, IsOpen, Tracks
    <3> QED BY <1>1, <3>1, <3>2, <3>3, <3>4 DEF Tracks
  <2>8. LoopFree' /\ LevelKept'
    BY <1>1, <1>5, <2>2, <2>5, <2>6, TwoPlayers DEF LoopFree, SessionInv, LevelKept
  <2>9. PICK y \in Replies : TRUE
    BY AReply
  <2>10. Shift(1, FALSE, y) /\ FALSE \in BOOLEAN
    BY <1>1, AnswersDone
  <2>11. /\ pl.status \in {"loading", "ready", "failed"} /\ engine' \in EngineStates
         /\ p # "stem"
    BY <1>1, <1>5, <2>5 DEF SessionTypes
  <2> QED BY <1>1, <1>2, <1>3, <1>4, <2>2, <2>4, <2>5, <2>7, <2>8, <2>10, <2>11, LoadStep
<1> QED BY <1>6, <1>7

\* Any answer.
LEMMA AnswerStep ==
  ASSUME SessionTypes, SessionInv, AnAnswer
  PROVE  SessionTypes' /\ SessionInv'
<1>1. CASE IsCurrent(answers[1])
  BY <1>1, StartLive, ClearLive, TracksLive, MasterLive, TrackLive, FramesLive,
     SetLoopLive, ClearLoopLive, GridLive DEF AnAnswer
<1>2. CASE ~IsCurrent(answers[1])
  <2>1. answers # <<>>
    BY DEF AnAnswer, StartAnswered, ClearAnswered, TracksAnswered, MasterAnswered,
           TrackAnswered, FramesAnswered, SetLoopAnswered, ClearLoopAnswered,
           GridAnswered, Answered
  <2> QED BY <1>2, <2>1, DeadLoad, DeadTap DEF AnAnswer
<1> QED BY <1>1, <1>2

-----------------------------------------------------------------------------
(* The song's own read. *)

\* While a session's read is queued, none of its calls is waiting to be answered.
LEMMA ReadAlone ==
  ASSUME SessionTypes, SessionInv, db.queue # <<>>, IsRead(db.queue[1])
  PROVE  LET p == db.queue[1].player IN
         /\ p \in Players /\ claim = p /\ IsOpen(p)
         /\ players[p].status = "loading" /\ ~players[p].requested
         /\ \A q \in Players : q # p => players[q].status = "idle"
         /\ \A q \in Players : ~Ready(q)
         /\ \A a \in Replies : Stays(0, a) => ~IsCurrent(a)
         /\ \A l \in 1..Len(db.queue) : l > 1 => ~IsRead(db.queue[l])
         /\ p = "stem" => NoSaves
<1>1. PICK c \in DbCalls : c = db.queue[1] /\ 1 \in 1..Len(db.queue)
  BY FirstCallIs
<1>2. PICK p \in Players : p = c.player
  BY DEF DbCalls
<1>3. /\ players[p].status = "loading" /\ ~players[p].requested
      /\ \A i \in 1..Len(answers) : ~IsLoad(answers[i])
      /\ \A l \in 1..Len(db.queue) : l # 1 => ~IsRead(db.queue[l])
      /\ p = "stem" => \A l \in 1..Len(db.queue) : l > 1 => db.queue[l].kind # "save"
  BY <1>1, <1>2 DEF SessionInv, Reads
<1>4. IsOpen(p) /\ claim = p /\ \A q \in Players : q # p => players[q].status = "idle"
  BY <1>3 DEF SessionInv, Owned, IsOpen
<1>5. \A q \in Players : ~Ready(q)
  BY <1>3, <1>4 DEF Ready
<1>6. ASSUME NEW a \in Replies, Stays(0, a), IsCurrent(a) PROVE FALSE
  <2>1. PICK i \in 1..Len(answers) : a = answers[i]
    BY <1>6 DEF Stays
  <2>2. IsOpen(a.player) /\ Finds(a) /\ ~IsLoad(a)
    BY <1>3, <1>6, <2>1 DEF SessionInv, Ordered, Sound, Answering
  <2>3. a.player \in Players /\ a.kind \in Loads \cup Changes \cup {"grid"}
    BY DEF Replies
  <2>4. a.player = p
    BY <1>4, <2>2, <2>3 DEF IsOpen
  <2>5. a.kind \notin Loads
    BY <1>6, <2>2 DEF IsLoad
  <2> QED BY <1>3, <2>2, <2>3, <2>4, <2>5 DEF Finds, Changes
<1>7. p = "stem" => NoSaves
  <2>1. c.kind # "save"
    BY <1>1 DEF IsRead
  <2>2. \A l \in 1..Len(db.queue) : l = 1 \/ l > 1
    BY <1>1, CallIs
  <2> QED BY <1>1, <1>3, <2>1, <2>2 DEF NoSaves, NoSavesIn
<1>8. \A l \in 1..Len(db.queue) : l > 1 => ~IsRead(db.queue[l])
  BY <1>3
<1> QED BY <1>1, <1>2, <1>3, <1>4, <1>5, <1>6, <1>7, <1>8

\* The song is found, and the engine is started.
LEMMA ReadStep ==
  ASSUME SessionTypes, SessionInv, db.queue # <<>>, IsRead(db.queue[1]),
         NEW p \in Players, p = db.queue[1].player,
         NEW pl \in PlayerStates, players' = [players EXCEPT ![p] = pl],
         pl.session = players[p].session, pl.hold = players[p].hold, pl.sub = players[p].sub,
         pl.click = players[p].click, pl.loop = players[p].loop,
         pl.master = players[p].master, ~pl.requested,
         p = "song" => pl.mix = players[p].mix,
         pl.status \in {"loading", "missing", "failed"},
         engine' \in EngineStates,
         engine'.holds = engine.holds, engine'.tracks = engine.tracks,
         engine'.mix = engine.mix, engine'.master = engine.master,
         engine'.playing = engine.playing, engine'.card = engine.card,
         engine'.follow = engine.follow, engine'.metronome \in {engine.metronome, "off"},
         engine'.grid = engine.grid, engine'.loop = engine.loop, engine'.stray = engine.stray,
         NEW n \in BOOLEAN, NEW x \in Replies, Shift(0, n, x),
         n => /\ x.kind = "start" /\ x.player = p /\ x.session = pl.session
              /\ pl.status = "loading"
              /\ p = "stem" => pl.mix = db.mix,
         db' \in DbStates, db'.queue = Tail(db.queue), db'.mix = db.mix,
         db'.pending = db.pending, db'.lost = db.lost,
         UNCHANGED <<claim, screens, top, editing, user>>
  PROVE  SessionTypes' /\ SessionInv'
<1>1. PICK c \in DbCalls : c = db.queue[1]
  BY FirstCallIs
<1>2. /\ claim = p /\ IsOpen(p)
      /\ players[p].status = "loading" /\ ~players[p].requested
      /\ \A q \in Players : q # p => players[q].status = "idle"
      /\ \A q \in Players : ~Ready(q)
      /\ \A a \in Replies : Stays(0, a) => ~IsCurrent(a)
      /\ \A l \in 1..Len(db.queue) : l > 1 => ~IsRead(db.queue[l])
      /\ p = "stem" => NoSaves
  BY ReadAlone
<1>3. /\ players' \in [Players -> PlayerStates] /\ players'[p] = pl
      /\ \A q \in Players : q # p => players'[q] = players[q]
  BY PlayerSet DEF SessionTypes
<1>4. \A q \in Players : /\ players'[q].session = players[q].session
                         /\ players'[q].status = "idle" <=> players[q].status = "idle"
                         /\ players'[q].click = players[q].click
                         /\ players'[q].loop = players[q].loop
                         /\ players'[q].master = players[q].master
                         /\ players'[q].status # "ready"
  BY <1>2, <1>3 DEF Ready
<1>5. \A a \in Replies : IsCurrent(a)' <=> IsCurrent(a)
  BY <1>4 DEF IsCurrent, Live, Replies
<1>6. SessionTypes'
  BY <1>3 DEF SessionTypes, Shift, DbStates
<1>7. Owned'
  <2>1. /\ engine'.holds = IF claim' = "none" THEN 0 ELSE 1
        /\ engine'.playing \/ engine'.card => claim' # "none"
    BY DEF SessionInv, Owned
  <2>2. players'["stem"].master = "none" /\ players'["song"].mix = UnityMix
    <3>1. players["stem"].master = "none" /\ players["song"].mix = UnityMix
      BY DEF SessionInv, Owned
    <3>2. players'["song"].mix = players["song"].mix
      BY <1>3, TwoPlayers
    <3> QED BY <1>4, <3>1, <3>2, TwoPlayers
  <2>3. ASSUME NEW q \in Players
        PROVE  /\ IsOpen(q)' <=> claim' = q
               /\ (players'[q].hold <=> IsOpen(q)') /\ (players'[q].sub <=> IsOpen(q)')
               /\ ~IsOpen(q)' => /\ ~players'[q].scrub /\ ~players'[q].requested
                                 /\ ~players'[q].click
                                 /\ players'[q].master = "none" /\ players'[q].loop = "off"
    <3>1. CASE q = p
      <4>1. players[p].hold /\ players[p].sub
        BY <1>2 DEF SessionInv, Owned
      <4>2. IsOpen(q)' /\ claim' = q /\ players'[q].hold /\ players'[q].sub
        BY <1>2, <1>3, <3>1, <4>1 DEF IsOpen
      <4> QED BY <4>2
    <3>2. CASE q # p
      <4>1. players'[q] = players[q]
        BY <1>3, <3>2
      <4> QED BY <4>1 DEF SessionInv, Owned, IsOpen
    <3> QED BY <3>1, <3>2
  <2> QED BY <2>1, <2>2, <2>3 DEF Owned
<1>8. Held'
  BY <1>4, HeldFrame DEF SessionInv
<1>9. Tracks'
  <2>1. \A q \in Players : players'[q].requested <=> players[q].requested
    BY <1>2, <1>3
  <2>2. \A q \in Players : /\ engine'.tracks = q <=> players'[q].requested
                           /\ players'[q].master # "none" => players'[q].requested
                           /\ ~Ready(q)'
    BY <1>4, <2>1 DEF SessionInv, Tracks, Ready
  <2> QED BY <2>2 DEF SessionInv, Tracks
<1>10. Ordered'
  <2>1. \A q \in Players : /\ players'[q].session \in Nat
                           /\ players[q].session <= players'[q].session
    BY <1>3, <1>4 DEF PlayerStates
  <2>2. \A a \in Replies : Stays(0, a) /\ Answering(a) /\ IsCurrent(a)' =>
            IsOpen(a.player)' /\ Finds(a)'
    BY <1>2, <1>5
  <2>3. n => Answering(x)' /\ \A a \in Replies : Stays(0, a) => Fits(a, x)'
    <3> SUFFICES ASSUME n PROVE Answering(x)' /\ \A a \in Replies : Stays(0, a) => Fits(a, x)'
      OBVIOUS
    <3>1. x.kind = "start" /\ x.kind \notin Changes
      BY DEF Changes
    <3>2. IsOpen(p)' /\ Finds(x)'
      BY <1>2, <1>3, <1>4 DEF IsOpen, Finds
    <3>3. x.session <= players'[x.player].session
      BY <1>3 DEF PlayerStates
    <3>4. Answering(x)'
      BY <3>1, <3>2, <3>3 DEF Answering
    <3>5. ASSUME NEW a \in Replies, Stays(0, a) PROVE Fits(a, x)'
      <4>1. ~IsLoad(a)'
        BY <1>2, <1>5, <3>5 DEF IsLoad
      <4> QED BY <3>1, <4>1 DEF Fits
    <3> QED BY <3>4, <3>5
  <2>4. \A a \in Replies : (Stays(0, a) \/ (n /\ a = x)) /\ a.kind \in Changes \cup {"grid"} =>
            IsCurrent(a)' \/ \A q \in Players : players'[q].status # "ready"
    BY <1>4
  <2>5. 0 \in {0, 1} /\ Ordered
    BY DEF SessionInv
  <2> QED BY <1>5, <2>1, <2>2, <2>3, <2>4, <2>5, OrderedStep
<1>11. \A q \in Players : /\ ~LoopOn(players[q]) /\ ~LoopOn(players'[q])
                          /\ ~players[q].click /\ ~players'[q].click
  BY <1>2, <1>4 DEF SessionInv, LoopKept, LoopOn, ClickKept
<1>12. ASSUME NEW i \in 1..Len(answers) PROVE \E j \in 1..Len(answers') : answers'[j] = answers[i]
  <2>1. i > 0
    BY AnswerIs
  <2> QED BY <2>1 DEF Shift, Shifted
<1>13. LoopKept'
  <2>1. LoopFree \/ \E i \in 1..Len(answers) : answers[i].kind = "setLoop" /\ answers[i].ok
    BY <1>11 DEF SessionInv, LoopKept
  <2>2. LoopFree' \/ \E i \in 1..Len(answers') : answers'[i].kind = "setLoop" /\ answers'[i].ok
    BY <1>12, <2>1 DEF LoopFree
  <2> QED BY <1>4, <1>11, <2>2 DEF LoopKept, Ready
<1>14. ClickKept'
  <2>1. /\ ~engine.follow /\ engine.metronome # "click"
        /\ \/ engine.grid = "none"
           \/ \E i \in 1..Len(answers) : answers[i].kind = "grid" /\ answers[i].ok
    BY <1>11 DEF SessionInv, ClickKept
  <2>2. \/ engine'.grid = "none"
        \/ \E i \in 1..Len(answers') : answers'[i].kind = "grid" /\ answers'[i].ok
    BY <1>12, <2>1
  <2> QED BY <1>11, <2>1, <2>2 DEF ClickKept
<1>15. LevelKept'
  BY <1>4, TwoPlayers DEF SessionInv, LevelKept
<1>16. QShift(1, FALSE, c)
  BY QueueDone
<1>17. Reads'
  <2> SUFFICES ASSUME NEW k \in 1..Len(db'.queue)
               PROVE  /\ db'.queue[k].session <= players'[db'.queue[k].player].session
                      /\ db'.queue[k].kind = "save" => db'.queue[k].arg \in SoundMixes
                      /\ db'.queue[k].kind = "rename" =>
                           db'.queue[k].arg \in [from : Names0, to : Names0]
                      /\ ~IsRead(db.queue[k])'
    BY DEF Reads
  <2>1. k + 1 \in 1..Len(db.queue) /\ k + 1 > 1 /\ db'.queue[k] = db.queue[k + 1]
    BY <1>16 DEF QShift, Shifted
  <2>2. PICK e \in DbCalls : e = db.queue[k + 1] /\ e = db'.queue[k]
    BY <2>1, CallIs
  <2>3. /\ e.session <= players[e.player].session
        /\ e.kind = "save" => e.arg \in SoundMixes
        /\ e.kind = "rename" => e.arg \in [from : Names0, to : Names0]
        /\ ~IsRead(e)
    BY <1>2, <2>1, <2>2 DEF SessionInv, Reads
  <2>4. players'[e.player].session = players[e.player].session
    BY <1>4 DEF DbCalls
  <2>5. ~IsRead(e)'
    BY <2>3, <2>4 DEF IsRead, Live
  <2> QED BY <2>2, <2>3, <2>4, <2>5
<1>18. Saved'
  <2>1. ~Ready("stem") /\ ~Ready("stem")'
    BY <1>2, <1>4, TwoPlayers DEF Ready
  <2>2. db.pending = {} /\ LastSaveIs(user.mix) /\ (NoSaves /\ ~db.lost => db.mix = user.mix)
    BY <2>1 DEF SessionInv, Saved
  <2>3. db.queue[1].kind # "save"
    BY DEF IsRead
  <2>4. (NoSaves' <=> NoSaves) /\ (LastSaveIs(user.mix) => LastSaveIs(user.mix)')
    <3>1. 1 \in {0, 1} /\ user'.mix = user.mix
      OBVIOUS
    <3> QED BY <1>16, <2>3, <3>1, SavesShift
  <2>5. ASSUME NEW i \in 1..Len(answers'), answers'[i].player = "stem", IsLoad(answers[i])'
        PROVE  n /\ p = "stem"
    <3>1. CASE i + 0 \in 1..Len(answers) /\ i + 0 > 0 /\ answers'[i] = answers[i + 0]
      <4>1. PICK a \in Replies : a = answers[i + 0]
        BY <3>1, AnswerIs
      <4>2. Stays(0, a)
        BY <3>1, <4>1 DEF Stays
      <4>3. IsCurrent(a)'
        BY <2>5, <3>1, <4>1 DEF IsLoad
      <4> QED BY <1>2, <1>5, <4>2, <4>3
    <3>2. CASE n /\ answers'[i] = x
      BY <2>5, <3>2
    <3> QED BY <3>1, <3>2 DEF Shift, Shifted
  <2>6. n /\ p = "stem" => NoSaves' /\ (~db'.lost => players'["stem"].mix = user'.mix)
    BY <1>2, <1>3, <2>2, <2>4
  <2>7. /\ db'.pending = {} /\ LastSaveIs(user.mix)'
        /\ NoSaves' /\ ~db'.lost => db'.mix = user'.mix
    BY <2>2, <2>4
  <2> QED BY <2>1, <2>5, <2>6, <2>7 DEF Saved
<1> QED BY <1>6, <1>7, <1>8, <1>9, <1>10, <1>13, <1>14, <1>15, <1>17, <1>18 DEF SessionInv

\* The song is read.
LEMMA SongRead ==
  ASSUME SessionTypes, SessionInv, DbRead
  PROVE  SessionTypes' /\ SessionInv'
<1>1. /\ UNCHANGED <<claim, screens, top, editing, user>>
      /\ db.queue # <<>> /\ Oldest(db.queue).kind = "read"
  BY DEF DbRead
<1>2. /\ players \in [Players -> PlayerStates] /\ db \in DbStates
      /\ user \in [mix : SoundMixes, master : Levels, name : Names0]
      /\ editing \in Screens \cup {"none"} /\ engine \in EngineStates
  BY DEF SessionTypes, DbStates
<1>3. PICK call \in DbCalls : call = Oldest(db.queue) /\ call = db.queue[1]
  BY <1>1, FirstCallIs
<1>4. PICK p \in Players : p = call.player
  BY DEF DbCalls
<1>5. PICK outcome \in {"found", "missing", "rejected"} :
        /\ db' = [db EXCEPT !.queue = Tail(@)]
        /\ IF ~Live(p, call.session)
           THEN UNCHANGED <<players, engine, tool, answers>>
           ELSE IF outcome = "found"
           THEN /\ \E ok \in BOOLEAN : StartEngine(p, ok)
                /\ players' = IF p = "song" THEN players
                              ELSE [players EXCEPT ![p].mix = db.mix, ![p].name = db.name]
           ELSE /\ players' = [players EXCEPT ![p].status =
                      IF outcome = "missing" THEN "missing" ELSE "failed"]
                /\ UNCHANGED <<engine, tool, answers>>
  BY <1>3, <1>4 DEF DbRead
<1>6. PICK q \in Seq(DbCalls) : q = db.queue
  BY <1>2 DEF DbStates
<1>7. PICK r \in Seq(DbCalls) : r = Tail(q)
  BY <1>1, <1>6, ShiftDone
<1>8. db' = [db EXCEPT !.queue = r]
  BY <1>2, <1>5, <1>6, <1>7 DEF DbStates
<1>9. /\ db' \in DbStates /\ db'.mix = db.mix /\ db'.pending = db.pending
      /\ db'.lost = db.lost /\ db'.queue = Tail(db.queue)
  BY <1>2, <1>6, <1>7, <1>8 DEF DbStates
<1>10. QShift(1, FALSE, call)
  BY <1>1, <1>9, QueueDone
<1>11. PICK y \in Replies : TRUE
  BY AReply
<1>12. 1 \in {0, 1} /\ 0 \in {0, 1} /\ TRUE \in BOOLEAN /\ FALSE \in BOOLEAN
       /\ db.queue[1].kind # "save"
  BY <1>1, <1>3
<1>13. CASE ~Live(p, call.session)
  <2>1. UNCHANGED <<players, engine, tool, answers>>
    BY <1>5, <1>13
  <2>2. /\ \A s \in Players : Light(s) /\ players'[s] = players[s]
        /\ players' \in [Players -> PlayerStates]
    BY <1>2, <2>1 DEF Light, Core, SameLoop
  <2>3. Shift(0, FALSE, y)
    BY <2>1, AnswersSame
  <2>4. (NoSaves' <=> NoSaves) /\ (LastSaveIs(user.mix) => LastSaveIs(user.mix)')
    BY <1>1, <1>10, <1>12, SavesShift
  <2>5. /\ \A s \in Players : Core(s)
        /\ players'["stem"].mix = players["stem"].mix
    BY <2>2, TwoPlayers DEF Light
  <2>6. Saved /\ user'.mix = user.mix /\ user'.master = user.master
    BY <1>1 DEF SessionInv
  <2>7. Saved'
    BY <1>9, <1>12, <2>3, <2>4, <2>5, <2>6, SavedFrame
  <2>8. /\ editing' \in Screens \cup {"none"}
        /\ user' \in [mix : SoundMixes, master : Levels, name : Names0]
    BY <1>1, <1>2
  <2> QED BY <1>1, <1>9, <1>10, <1>12, <2>1, <2>2, <2>6, <2>7, <2>8, DbParts
<1>14. PICK was \in PlayerStates : was = players[p]
  BY PlayerIs
<1>15. ASSUME Live(p, call.session)
       PROVE  /\ IsRead(db.queue[1]) /\ was.status = "loading" /\ ~was.requested
              /\ p = db.queue[1].player
  <2>1. IsRead(db.queue[1])
    BY <1>1, <1>3, <1>4, <1>15 DEF IsRead
  <2> QED BY <1>1, <1>3, <1>4, <1>14, <2>1, ReadAlone
<1>16. CASE Live(p, call.session) /\ outcome = "found"
  <2>1. PICK ok \in BOOLEAN : StartEngine(p, ok)
    BY <1>5, <1>16
  <2>2. /\ engine' \in EngineStates
        /\ engine'.holds = engine.holds /\ engine'.tracks = engine.tracks
        /\ engine'.mix = engine.mix /\ engine'.master = engine.master
        /\ engine'.playing = engine.playing /\ engine'.card = engine.card
        /\ engine'.follow = engine.follow /\ engine'.metronome \in {engine.metronome, "off"}
        /\ engine'.grid = engine.grid /\ engine'.loop = engine.loop
        /\ engine'.stray = engine.stray
    <3>1. engine' = engine \/ engine' = [engine EXCEPT !.metronome = "off"]
      BY <2>1 DEF StartEngine, ReleaseShared
    <3> QED BY <1>2, <3>1 DEF EngineStates
  <2>3. PICK x \in Replies : x = Ask("start", p, ok, "none")
    BY AskIs DEF Loads
  <2>4. x.kind = "start" /\ x.player = p /\ x.session = was.session
    BY <1>14, <2>3 DEF Ask
  <2>5. Shift(0, TRUE, x)
    BY <2>1, <2>3, AnswersMore DEF StartEngine
  <2>6. CASE p = "song"
    <3>1. players' = [players EXCEPT ![p] = was]
      BY <1>5, <1>14, <1>16, <2>6, PlayerIs
    <3>2. p # "stem"
      BY <2>6
    <3> QED BY <1>1, <1>9, <1>12, <1>14, <1>15, <1>16, <2>2, <2>4, <2>5, <3>1, <3>2, ReadStep
  <2>7. CASE p # "song"
    <3>1. PICK mix \in SoundMixes, name \in Names0 : mix = db.mix /\ name = db.name
      BY <1>2 DEF DbStates
    <3>2. PICK pl \in PlayerStates : pl = [was EXCEPT !.mix = mix, !.name = name]
      BY DEF PlayerStates
    <3>3. players' = [players EXCEPT ![p] = pl]
      BY <1>5, <1>14, <1>16, <2>7, <3>1, <3>2, PlayerIs
    <3>4. /\ pl.session = was.session /\ pl.hold = was.hold /\ pl.sub = was.sub
          /\ pl.click = was.click /\ pl.loop = was.loop /\ pl.mix = mix
          /\ pl.status = was.status /\ pl.master = was.master
          /\ pl.requested = was.requested
      BY <3>2 DEF PlayerStates
    <3>5. /\ ~pl.requested /\ pl.status = "loading"
          /\ pl.status \in {"loading", "missing", "failed"}
      BY <1>15, <1>16, <3>4
    <3>6. /\ pl.session = players[p].session /\ pl.hold = players[p].hold
          /\ pl.sub = players[p].sub /\ pl.click = players[p].click
          /\ pl.loop = players[p].loop /\ pl.master = players[p].master
      BY <1>14, <3>4
    <3>7. pl.mix = db.mix /\ x.session = pl.session
      BY <2>4, <3>1, <3>4
    <3>8. IsRead(db.queue[1]) /\ p = db.queue[1].player
      BY <1>15, <1>16
    <3> HIDE <3>1, <3>4
    <3> QED BY <1>1, <1>9, <1>12, <2>2, <2>4, <2>5, <2>7, <3>3, <3>5, <3>6, <3>7, <3>8,
               ReadStep
  <2> QED BY <2>6, <2>7
<1>17. CASE Live(p, call.session) /\ outcome # "found"
  <2>1. PICK status \in {"missing", "failed"} :
          players' = [players EXCEPT ![p].status = status]
    BY <1>5, <1>17
  <2>2. UNCHANGED <<engine, answers>>
    BY <1>5, <1>17
  <2>3. PICK pl \in PlayerStates : pl = [was EXCEPT !.status = status]
    BY DEF PlayerStates
  <2>4. players' = [players EXCEPT ![p] = pl]
    BY <1>14, <2>1, <2>3, PlayerIs
  <2>5. /\ pl.session = was.session /\ pl.hold = was.hold /\ pl.sub = was.sub
        /\ pl.click = was.click /\ pl.loop = was.loop /\ pl.mix = was.mix
        /\ pl.status = status /\ pl.master = was.master
        /\ pl.requested = was.requested
    BY <2>3 DEF PlayerStates
  <2>6. ~pl.requested /\ pl.status \in {"loading", "missing", "failed"}
    BY <1>15, <1>17, <2>5
  <2>7. Shift(0, FALSE, y)
    BY <2>2, AnswersSame
  <2>8. engine' \in EngineStates /\ engine'.metronome \in {engine.metronome, "off"}
    BY <1>2, <2>2
  <2> QED BY <1>1, <1>9, <1>12, <1>14, <1>15, <1>17, <2>2, <2>4, <2>5, <2>6, <2>7, <2>8,
             ReadStep
<1> QED BY <1>13, <1>16, <1>17

-----------------------------------------------------------------------------
(* Another screen comes on top. *)

\* No screen has the focus.
LEMMA BlurredIs ==
  ASSUME SessionTypes
  PROVE  /\ Blurred \in [Screens -> [mounted : BOOLEAN, focused : BOOLEAN, held : Nat]]
         /\ \A s \in Screens : /\ Blurred[s].held = screens[s].held
                               /\ Blurred[s].mounted = screens[s].mounted
BY DEF SessionTypes, Blurred

\* The screens alone change.
LEMMA ScreensMove ==
  ASSUME SessionTypes, SessionInv,
         UNCHANGED <<claim, players, editing, answers, db, engine, user>>,
         screens' \in [Screens -> [mounted : BOOLEAN, focused : BOOLEAN, held : Nat]],
         top' \in Screens \cup {"none"}, Held'
  PROVE  SessionTypes' /\ SessionInv'
<1>1. UNCHANGED <<claim, players, editing, answers, db, engine, user>>
  OBVIOUS
<1>2. SessionTypes'
  BY <1>1 DEF SessionTypes
<1>5. /\ \A a : Finds(a)' <=> Finds(a)
      /\ \A a : IsCurrent(a)' <=> IsCurrent(a)
  BY <1>1 DEF Finds, IsCurrent, Live, LoopFree, LoopTold
<1>6. Ordered'
  <2>1. PICK x \in Replies : TRUE
    BY AReply
  <2>2. Shift(0, FALSE, x)
    BY <1>1, AnswersSame
  <2>3. \A q \in Players : /\ players'[q].session \in Nat
                           /\ players[q].session <= players'[q].session
    BY <1>1 DEF SessionTypes, PlayerStates
  <2>4. \A a \in Replies : Stays(0, a) /\ Answering(a) /\ IsCurrent(a)' =>
            IsOpen(a.player)' /\ Finds(a)'
    BY <1>1, <1>5 DEF Answering, IsOpen
  <2>5. \A a \in Replies : Stays(0, a) /\ a.kind \in Changes \cup {"grid"} =>
            IsCurrent(a)' \/ \A q \in Players : players'[q].status # "ready"
    BY <1>1, <1>5 DEF SessionInv, Ordered, Awaited, Stays, Ready
  <2>6. 0 \in {0, 1} /\ FALSE \in BOOLEAN /\ Ordered
    BY DEF SessionInv
  <2> QED BY <1>5, <2>2, <2>3, <2>4, <2>5, <2>6, OrderedStep
<1>7. Owned' /\ Tracks' /\ LevelKept' /\ ClickKept' /\ LoopKept'
  BY <1>1 DEF SessionInv, Owned, Tracks, LevelKept, ClickKept, LoopKept, IsOpen, Ready,
              LoopTold, LoopFree, IsCurrent, Live
<1>8. Reads' /\ Saved'
  BY <1>1 DEF SessionInv, Reads, Saved, IsRead, IsLoad, IsCurrent, Live, Ready, NoSaves,
              LastSaveIs
<1> QED BY <1>2, <1>6, <1>7, <1>8 DEF SessionInv

\* Another screen comes on top.
LEMMA BlurStep ==
  ASSUME SessionTypes, SessionInv, Blur
  PROVE  SessionTypes' /\ SessionInv'
<1>1. /\ screens' = Blurred /\ top' = "none"
      /\ UNCHANGED <<claim, players, editing, answers, db, engine, user>>
  BY DEF Blur
<1>2. \A s \in Screens : /\ screens'[s].held = screens[s].held
                         /\ screens'[s].mounted = screens[s].mounted
                         /\ HoldLive(s)' <=> HoldLive(s)
  BY <1>1, BlurredIs DEF HoldLive, Live
<1>3. Held'
  BY <1>1, <1>2 DEF SessionInv, Held, IsOpen
<1> QED BY <1>1, <1>3, BlurredIs, ScreensMove

-----------------------------------------------------------------------------
(* A session ends, and another may begin. *)

\* The engine a session that ends leaves.
Silent(e) ==
  /\ e \in EngineStates /\ ~e.playing /\ ~e.card
  /\ e.tracks = "none" /\ e.mix = UnityMix /\ e.master = user.master
  /\ \/ e.loop = "none" \/ e.stray
     \/ /\ \A q \in Players : ~LoopOn(players[q])
        /\ e.loop = engine.loop /\ e.stray = engine.stray
  /\ \/ e.grid = "none" /\ ~e.follow /\ e.metronome = "off"
     \/ /\ \A q \in Players : ~players[q].click
        /\ e.grid = engine.grid /\ e.follow = engine.follow
        /\ e.metronome = engine.metronome

\* A player whose session is over, or begins.
Anew(pl, old, open) ==
  /\ pl \in PlayerStates /\ pl.status = (IF open THEN "loading" ELSE "idle")
  /\ pl.loop = "off" /\ ~pl.click /\ ~pl.requested /\ pl.master = "none"
  /\ pl.mix = UnityMix
  /\ pl.hold <=> open
  /\ pl.sub <=> open
  /\ ~open => ~pl.scrub
  /\ pl.session > old.session

\* Nothing that is under way is of the session after.
LEMMA Over ==
  ASSUME SessionTypes, SessionInv, players' \in [Players -> PlayerStates],
         \A q \in Players : \/ players'[q] = players[q] /\ claim # q
                            \/ players'[q].session > players[q].session
  PROVE  /\ \A a \in Replies : Stays(0, a) => ~IsCurrent(a)'
         /\ \A c \in DbCalls : (\E k \in 1..Len(db.queue) : c = db.queue[k]) => ~IsRead(c)'
         /\ \A q \in Players : /\ players[q].session \in Nat /\ players'[q].session \in Nat
                               /\ players[q].session <= players'[q].session
<1>1. \A q \in Players : /\ players[q].session \in Nat /\ players'[q].session \in Nat
                         /\ players[q].session <= players'[q].session
  <2> TAKE q \in Players
  <2>1. players[q].session \in Nat /\ players'[q].session \in Nat
    BY DEF SessionTypes, PlayerStates
  <2> QED BY <2>1
<1>2. \A q \in Players : claim = q => players'[q].session > players[q].session
  OBVIOUS
<1>3. ASSUME NEW a \in Replies, Stays(0, a), IsCurrent(a)' PROVE FALSE
  <2>1. Answering(a)
    BY <1>3 DEF Stays, SessionInv, Ordered, Sound
  <2>2. PICK q \in Players : q = a.player
    BY DEF Replies
  <2>3. a.session = players'[q].session /\ a.session <= players[q].session
    BY <1>3, <2>1, <2>2 DEF IsCurrent, Live, Answering
  <2>4. a.session = players[q].session
    BY <1>1, <2>3
  <2>5. claim = q
    BY <2>1, <2>2, <2>4 DEF Answering, IsCurrent, Live, SessionInv, Owned
  <2> QED BY <1>1, <1>2, <2>3, <2>5
<1>4. ASSUME NEW c \in DbCalls, NEW k \in 1..Len(db.queue), c = db.queue[k], IsRead(c)'
      PROVE  FALSE
  <2>1. PICK q \in Players : q = c.player
    BY DEF DbCalls
  <2>2. c.kind = "read" /\ c.session = players'[q].session /\ c.session <= players[q].session
    BY <1>4, <2>1 DEF SessionInv, Reads, IsRead, Live
  <2>3. c.session = players[q].session
    BY <1>1, <2>2
  <2>4. players[q].status = "loading"
    BY <1>4, <2>1, <2>2, <2>3 DEF SessionInv, Reads, IsRead, Live
  <2>5. claim = q
    BY <2>4 DEF SessionInv, Owned, IsOpen
  <2>6. players'[q].session > players[q].session
    BY <1>2, <2>5
  <2>7. players'[q].session = players[q].session
    BY <2>2, <2>3
  <2> QED BY <1>1, <2>6, <2>7
<1> QED BY <1>1, <1>3, <1>4

\* What the end of the sessions that were on leaves.
LEMMA Ended ==
  ASSUME SessionTypes, SessionInv, answers' = answers,
         claim' \in Players \cup {"none"}, screens' \in
           [Screens -> [mounted : BOOLEAN, focused : BOOLEAN, held : Nat]],
         top' \in Screens \cup {"none"}, editing' \in Screens \cup {"none"},
         user' \in [mix : SoundMixes, master : Levels, name : Names0],
         user'.mix = user.mix, user'.master = user.master,
         players' \in [Players -> PlayerStates],
         \A q \in Players : \/ players'[q] = players[q] /\ claim # q /\ claim' # q
                            \/ Anew(players'[q], players[q], claim' = q),
         Silent(engine'), engine'.holds = (IF claim' = "none" THEN 0 ELSE 1),
         NEW d \in DbStates, d = flushed(db), db' \in DbStates,
         db'.pending = {}, db'.mix = db.mix, db'.lost = db.lost,
         NEW n \in BOOLEAN, NEW c \in DbCalls, db'.queue \in Seq(DbCalls),
         Shifted(d.queue, db'.queue, 0, n, c),
         n => /\ c.kind = "read" /\ claim' = c.player
              /\ c.session = players'[c.player].session,
         Held'
  PROVE  SessionTypes' /\ SessionInv'
<1>1. /\ \A a \in Replies : Stays(0, a) => ~IsCurrent(a)'
      /\ \A e \in DbCalls : (\E k \in 1..Len(db.queue) : e = db.queue[k]) => ~IsRead(e)'
      /\ \A q \in Players : /\ players[q].session \in Nat /\ players'[q].session \in Nat
                            /\ players[q].session <= players'[q].session
  BY Over DEF Anew
<1>2. SessionTypes'
  BY DEF SessionTypes, DbStates, Silent
<1>3. ASSUME NEW q \in Players
      PROVE  /\ ~players'[q].requested /\ ~players'[q].click /\ players'[q].master = "none"
             /\ players'[q].loop = "off" /\ players'[q].status # "ready"
             /\ IsOpen(q)' <=> claim' = q
             /\ (players'[q].hold <=> IsOpen(q)') /\ (players'[q].sub <=> IsOpen(q)')
             /\ ~IsOpen(q)' => ~players'[q].scrub
             /\ q = "song" => players'[q].mix = UnityMix
             /\ claim' = q => players'[q].status = "loading"
  <2>1. CASE players'[q] = players[q] /\ claim # q /\ claim' # q
    BY <2>1 DEF SessionInv, Owned, IsOpen
  <2>2. CASE Anew(players'[q], players[q], claim' = q)
    BY <2>2 DEF Anew, IsOpen
  <2> QED BY <2>1, <2>2
<1>4. Owned'
  <2>1. /\ engine'.holds = IF claim' = "none" THEN 0 ELSE 1
        /\ engine'.playing \/ engine'.card => claim' # "none"
    BY DEF Silent
  <2> QED BY <1>3, <2>1, TwoPlayers DEF Owned
<1>5. Tracks'
  BY <1>3, TwoPlayers DEF Tracks, Silent, Ready
<1>6. Ordered'
  <2>1. PICK x \in Replies : TRUE
    BY AReply
  <2>2. Shift(0, FALSE, x)
    BY AnswersSame
  <2>3. 0 \in {0, 1} /\ FALSE \in BOOLEAN /\ Ordered
    BY DEF SessionInv
  <2>4. Sound'
    <3>1. ASSUME NEW a \in Replies, Stays(0, a) PROVE Answering(a)'
      <4>1. Answering(a) /\ ~IsCurrent(a)'
        BY <1>1, <3>1 DEF Stays, SessionInv, Ordered, Sound
      <4>2. PICK q \in Players : q = a.player
        BY DEF Replies
      <4>3. a.session <= players'[q].session
        BY <1>1, <4>1, <4>2 DEF Answering, Replies
      <4> QED BY <4>1, <4>2, <4>3 DEF Answering
    <3> QED BY <2>2, <2>3, <3>1, SoundStep
  <2>5. ASSUME NEW i \in 1..Len(answers) PROVE ~IsCurrent(answers[i])'
    <3>1. PICK a \in Replies : a = answers[i]
      BY AnswerIs
    <3>2. Stays(0, a)
      <4>1. i > 0
        BY AnswerIs
      <4> QED BY <3>1, <4>1 DEF Stays
    <3> QED BY <1>1, <3>1, <3>2 DEF IsCurrent, Live
  <2>6. Arranged' /\ Awaited'
    BY <1>3, <2>5 DEF Arranged, Awaited, IsLoad, Ready
  <2> QED BY <2>4, <2>6 DEF Ordered
<1>7. LoopKept'
  <2>1. LoopFree' \/ \E i \in 1..Len(answers) : answers[i].kind = "setLoop" /\ answers[i].ok
    <3>1. CASE engine'.loop = "none" \/ engine'.stray
      BY <3>1 DEF LoopFree
    <3>2. CASE /\ \A q \in Players : ~LoopOn(players[q])
               /\ engine'.loop = engine.loop /\ engine'.stray = engine.stray
      BY <3>2 DEF SessionInv, LoopKept, LoopFree
    <3> QED BY <3>1, <3>2 DEF Silent
  <2>2. \A q \in Players : ~LoopOn(players'[q]) /\ ~Ready(q)'
    BY SessionAssumption, <1>3 DEF LoopOn, Ready, SessionAssumption
  <2> QED BY <2>1, <2>2 DEF LoopKept
<1>8. ClickKept'
  <2>1. /\ ~engine'.follow /\ engine'.metronome # "click"
        /\ \/ engine'.grid = "none"
           \/ \E i \in 1..Len(answers) : answers[i].kind = "grid" /\ answers[i].ok
    BY DEF Silent, SessionInv, ClickKept
  <2> QED BY <1>3, <2>1 DEF ClickKept
<1>9. LevelKept'
  BY <1>3, TwoPlayers DEF LevelKept, Silent
<1>10. PICK call \in DbCalls : call = DbCall("save", "stem", NoSession, user.mix)
  BY FlushedIs
<1>11. /\ Shifted(db.queue, d.queue, 0, db.pending # {}, call)
       /\ LastSaveIn(d.queue, user.mix)
       /\ NoSavesIn(d.queue) /\ ~db.lost => db.mix = user.mix
  BY <1>10, FlushedIs
<1>12. /\ call.kind = "save" /\ call.arg = user.mix /\ call.session = 0
       /\ call.player = "stem" /\ user.mix \in SoundMixes
  BY <1>10 DEF DbCall, NoSession, SessionTypes
<1>13. ASSUME NEW e \in DbCalls, NEW l \in 1..Len(d.queue), e = d.queue[l]
       PROVE  /\ e.session <= players'[e.player].session
              /\ e.kind = "save" => e.arg \in SoundMixes
              /\ e.kind = "rename" => e.arg \in [from : Names0, to : Names0]
              /\ ~IsRead(e)'
  <2>1. CASE l + 0 \in 1..Len(db.queue) /\ e = db.queue[l + 0]
    <3>1. PICK q \in Players : q = e.player
      BY DEF DbCalls
    <3>2. /\ e.session <= players[q].session
          /\ e.kind = "save" => e.arg \in SoundMixes
          /\ e.kind = "rename" => e.arg \in [from : Names0, to : Names0]
      BY <2>1, <3>1 DEF SessionInv, Reads
    <3>3. e.session \in Nat
      BY DEF DbCalls
    <3>4. e.session <= players'[q].session
      BY <1>1, <3>2, <3>3
    <3>5. ~IsRead(e)'
      BY <1>1, <2>1
    <3> QED BY <3>1, <3>2, <3>4, <3>5
  <2>2. CASE e = call
    BY <1>1, <1>12, <2>2, TwoPlayers DEF IsRead
  <2> QED BY <1>11, <1>13, <2>1, <2>2 DEF Shifted
<1>14. Reads'
  <2>1. ASSUME NEW k \in 1..Len(db'.queue)
        PROVE  \/ k \in 1..Len(d.queue) /\ db'.queue[k] = d.queue[k]
               \/ n /\ k = Len(db'.queue) /\ db'.queue[k] = c
    BY DEF Shifted
  <2>2. ASSUME NEW k \in 1..Len(db'.queue)
        PROVE  /\ db'.queue[k].session <= players'[db'.queue[k].player].session
               /\ db'.queue[k].kind = "save" => db'.queue[k].arg \in SoundMixes
               /\ db'.queue[k].kind = "rename" =>
                    db'.queue[k].arg \in [from : Names0, to : Names0]
               /\ IsRead(db.queue[k])' => n /\ k = Len(db'.queue) /\ db'.queue[k] = c
    <3>1. CASE k \in 1..Len(d.queue) /\ db'.queue[k] = d.queue[k]
      <4>1. PICK e \in DbCalls : e = d.queue[k] /\ e = db'.queue[k]
        BY <3>1 DEF DbStates
      <4> QED BY <1>13, <3>1, <4>1
    <3>2. CASE n /\ k = Len(db'.queue) /\ db'.queue[k] = c
      <4>1. c.session <= players'[c.player].session
        BY <1>1, <3>2 DEF DbCalls
      <4> QED BY <3>2, <4>1
    <3> QED BY <2>1, <3>1, <3>2
  <2>3. ASSUME NEW k \in 1..Len(db'.queue), IsRead(db.queue[k])'
        PROVE  /\ players'[db'.queue[k].player].status = "loading"
               /\ ~players'[db'.queue[k].player].requested
               /\ \A i \in 1..Len(answers') : ~IsLoad(answers[i])'
               /\ \A l \in 1..Len(db'.queue) : l # k => ~IsRead(db.queue[l])'
               /\ \A l \in 1..Len(db'.queue) : ~(l > k)
    <3>1. n /\ k = Len(db'.queue) /\ db'.queue[k] = c
      BY <2>2, <2>3
    <3>2. PICK p \in Players : p = c.player
      BY DEF DbCalls
    <3>3. players'[p].status = "loading" /\ ~players'[p].requested
      BY <1>3, <3>1, <3>2
    <3>4. \A l \in 1..Len(db'.queue) : ~(l > k)
      BY <3>1 DEF Shifted
    <3>5. ASSUME NEW i \in 1..Len(answers') PROVE ~IsLoad(answers[i])'
      <4>1. PICK a \in Replies : a = answers[i]
        BY AnswerIs
      <4>2. Stays(0, a)
        <5>1. i > 0
          BY AnswerIs
        <5> QED BY <4>1, <5>1 DEF Stays
      <4> QED BY <1>1, <4>1, <4>2 DEF IsLoad, IsCurrent, Live
    <3> QED BY <2>2, <3>1, <3>2, <3>3, <3>4, <3>5
  <2> QED BY <2>2, <2>3 DEF Reads
<1>15. Saved'
  <2>1. PICK r \in Seq(DbCalls), s \in Seq(DbCalls) : r = d.queue /\ s = db'.queue
    BY DEF DbStates
  <2>2. /\ NoSavesIn(s) <=> NoSavesIn(r)
        /\ LastSaveIn(r, user.mix) => LastSaveIn(s, user.mix)
    <3>1. 0 \in {0, 1} /\ (0 = 1 => r[1].kind # "save") /\ (n => c.kind # "save")
      OBVIOUS
    <3> QED BY <2>1, <3>1, SavesKept
  <2>3. LastSaveIs(user.mix)' /\ (NoSaves' /\ ~db'.lost => db'.mix = user'.mix)
    BY <1>11, <2>1, <2>2 DEF LastSaveIs, NoSaves
  <2>4. ~Ready("stem")'
    BY <1>3, TwoPlayers DEF Ready
  <2>5. ASSUME NEW i \in 1..Len(answers') PROVE ~IsLoad(answers[i])'
    <3>1. PICK a \in Replies : a = answers[i]
      BY AnswerIs
    <3>2. Stays(0, a)
      <4>1. i > 0
        BY AnswerIs
      <4> QED BY <3>1, <4>1 DEF Stays
    <3> QED BY <1>1, <3>1, <3>2 DEF IsLoad, IsCurrent, Live
  <2> QED BY <2>3, <2>4, <2>5 DEF Saved
<1> QED BY <1>2, <1>4, <1>5, <1>6, <1>7, <1>8, <1>9, <1>14, <1>15 DEF SessionInv

\* An engine that differs in who holds it.
AsLoud(e) ==
  /\ e \in EngineStates /\ e.tracks = engine.tracks /\ e.mix = engine.mix
  /\ e.master = engine.master /\ e.playing = engine.playing /\ e.card = engine.card
  /\ e.loop = engine.loop /\ e.stray = engine.stray /\ e.grid = engine.grid
  /\ e.follow = engine.follow /\ e.metronome = engine.metronome

\* The engine is held once more, or once less.
LEMMA HoldsSet ==
  ASSUME NEW e \in EngineStates, NEW k \in Nat
  PROVE  LET f == [e EXCEPT !.holds = k] IN
         /\ f \in EngineStates /\ f.holds = k
         /\ f.tracks = e.tracks /\ f.mix = e.mix /\ f.master = e.master
         /\ f.playing = e.playing /\ f.card = e.card /\ f.loop = e.loop
         /\ f.stray = e.stray /\ f.grid = e.grid /\ f.follow = e.follow
         /\ f.metronome = e.metronome
BY DEF EngineStates

\* A teardown silences the engine.
LEMMA TornDown ==
  ASSUME SessionTypes, SessionInv, NEW p \in Players, IsOpen(p),
         NEW e, AsLoud(e), NEW clearOk \in BOOLEAN
  PROVE  LET t == teardown(e, players[p], clearOk) IN Silent(t) /\ t.holds = e.holds
<1>1. PICK pl \in PlayerStates : pl = players[p]
  BY PlayerIs
<1>2. e \in EngineStates
  BY DEF AsLoud
<1>3. PICK t \in EngineStates : t = teardown(e, pl, clearOk)
  BY <1>2, TeardownIs
<1>4. /\ ~t.playing /\ ~t.card /\ t.holds = e.holds
      /\ t.tracks = (IF pl.requested THEN "none" ELSE e.tracks)
      /\ t.mix = (IF pl.requested THEN UnityMix ELSE e.mix)
      /\ t.master = (IF pl.master = "none" THEN e.master ELSE pl.master)
      /\ IF LoopOn(pl) THEN t.loop = "none" \/ t.stray
                       ELSE t.loop = e.loop /\ t.stray = e.stray
      /\ IF pl.click THEN t.grid = "none" /\ ~t.follow /\ t.metronome = "off"
         ELSE t.grid = e.grid /\ t.follow = e.follow /\ t.metronome = e.metronome
  BY <1>2, <1>3, TeardownIs
<1>5. \A q \in Players : q # p => /\ ~players[q].requested /\ ~players[q].click
                                  /\ players[q].loop = "off" /\ players[q].master = "none"
  BY DEF SessionInv, Owned
<1>6. t.tracks = "none"
  <2>1. CASE pl.requested
    BY <1>4, <2>1
  <2>2. CASE ~pl.requested
    <3>1. \A q \in Players : engine.tracks # q
      BY <1>1, <1>5, <2>2 DEF SessionInv, Tracks
    <3>2. engine.tracks \in Players \cup {"none"}
      BY DEF SessionTypes, EngineStates
    <3> QED BY <1>4, <2>2, <3>1, <3>2 DEF AsLoud
  <2> QED BY <2>1, <2>2
<1>7. t.mix = UnityMix
  <2>1. CASE pl.requested
    BY <1>4, <2>1
  <2>2. CASE ~pl.requested
    <3>1. engine.tracks # "stem"
      BY <1>1, <1>5, <2>2, TwoPlayers DEF SessionInv, Tracks
    <3> QED BY <1>4, <2>2, <3>1 DEF AsLoud, SessionInv, Tracks
  <2> QED BY <2>1, <2>2
<1>8. t.master = user.master
  <2>1. CASE p = "song"
    BY <1>1, <1>4, <2>1 DEF AsLoud, SessionInv, LevelKept
  <2>2. CASE p # "song"
    <3>1. pl.master = "none" /\ players["song"].master = "none"
      BY <1>1, <1>5, <2>2, TwoPlayers DEF SessionInv, Owned, Players
    <3> QED BY <1>4, <3>1 DEF AsLoud, SessionInv, LevelKept
  <2> QED BY <2>1, <2>2
<1>9. \/ t.loop = "none" \/ t.stray
      \/ /\ \A q \in Players : ~LoopOn(players[q])
         /\ t.loop = engine.loop /\ t.stray = engine.stray
  <2>1. CASE LoopOn(pl)
    BY <1>4, <2>1
  <2>2. CASE ~LoopOn(pl)
    <3>1. \A q \in Players : ~LoopOn(players[q])
      BY SessionAssumption, <1>1, <1>5, <2>2 DEF LoopOn, SessionAssumption
    <3> QED BY <1>4, <2>2, <3>1 DEF AsLoud
  <2> QED BY <2>1, <2>2
<1>10. \/ t.grid = "none" /\ ~t.follow /\ t.metronome = "off"
       \/ /\ \A q \in Players : ~players[q].click
          /\ t.grid = engine.grid /\ t.follow = engine.follow
          /\ t.metronome = engine.metronome
  <2>1. CASE pl.click
    BY <1>4, <2>1
  <2>2. CASE ~pl.click
    <3>1. \A q \in Players : ~players[q].click
      BY <1>1, <1>5, <2>2
    <3> QED BY <1>4, <2>2, <3>1 DEF AsLoud
  <2> QED BY <2>1, <2>2
<1>11. Silent(t)
  BY <1>4, <1>6, <1>7, <1>8, <1>9, <1>10 DEF Silent
<1> QED BY <1>1, <1>3, <1>4, <1>11

\* With no song open the engine is silent already.
LEMMA NoneOpen ==
  ASSUME SessionTypes, SessionInv, claim = "none", NEW e, AsLoud(e)
  PROVE  Silent(e)
<1>1. \A q \in Players : /\ ~players[q].requested /\ ~players[q].click
                         /\ players[q].loop = "off" /\ players[q].master = "none"
  BY TwoPlayers DEF SessionInv, Owned
<1>2. ~engine.playing /\ ~engine.card
  BY DEF SessionInv, Owned
<1>3. engine.tracks = "none"
  <2>1. engine.tracks \in Players \cup {"none"}
    BY DEF SessionTypes, EngineStates
  <2> QED BY <1>1, <2>1 DEF SessionInv, Tracks
<1>4. engine.mix = UnityMix
  BY <1>3 DEF SessionInv, Tracks
<1>5. engine.master = user.master
  BY <1>1, TwoPlayers DEF SessionInv, LevelKept
<1>6. \A q \in Players : ~LoopOn(players[q])
  BY SessionAssumption, <1>1 DEF LoopOn, SessionAssumption
<1> QED BY <1>1, <1>2, <1>3, <1>4, <1>5, <1>6 DEF Silent, AsLoud

\* Only the stem player has something to save.
LEMMA NothingToSave ==
  ASSUME SessionTypes, SessionInv, ~Ready("stem")
  PROVE  flushed(db) = db /\ db.pending = {}
BY DEF flushed, SessionInv, Saved

\* Holding the engine changes nothing that sounds.
LEMMA EngineLoud ==
  ASSUME SessionTypes PROVE AsLoud(engine)
BY DEF AsLoud, SessionTypes

\* The editor changes the name at most.
LEMMA EditorIs ==
  ASSUME SessionTypes, NEW b \in BOOLEAN, EditorLeaves(b)
  PROVE  /\ editing' \in Screens \cup {"none"}
         /\ user' \in [mix : SoundMixes, master : Levels, name : Names0]
         /\ user'.mix = user.mix /\ user'.master = user.master
<1>1. /\ editing \in Screens \cup {"none"}
      /\ user \in [mix : SoundMixes, master : Levels, name : Names0]
  BY DEF SessionTypes
<1>2. CASE UNCHANGED <<editing, user>>
  BY <1>1, <1>2
<1>3. ASSUME editing' = "none", NEW typed \in Names, user' = [user EXCEPT !.name = typed]
      PROVE  /\ editing' \in Screens \cup {"none"}
             /\ user' \in [mix : SoundMixes, master : Levels, name : Names0]
             /\ user'.mix = user.mix /\ user'.master = user.master
  BY <1>1, <1>3 DEF Names0
<1> QED BY <1>2, <1>3 DEF EditorLeaves

\* The open player closes.
LEMMA Closes ==
  ASSUME SessionTypes, SessionInv, NEW p \in Players, IsOpen(p),
         NEW clearOk \in BOOLEAN, close(p, clearOk), answers' = answers,
         screens' \in [Screens -> [mounted : BOOLEAN, focused : BOOLEAN, held : Nat]],
         top' \in Screens \cup {"none"}, Held'
  PROVE  SessionTypes' /\ SessionInv'
<1>1. /\ claim' = release(claim, p)
      /\ players' = [players EXCEPT ![p] = closed(@)]
      /\ engine' = [teardown(engine, players[p], clearOk) EXCEPT !.holds = @ - 1]
      /\ db' = IF p = "stem" THEN flushed(db) ELSE db
      /\ EditorLeaves(p = "stem")
  BY DEF close
<1>2. claim = p /\ engine.holds = 1
  BY TwoPlayers DEF SessionInv, Owned
<1>3. claim' = "none"
  BY <1>1, <1>2 DEF release
<1>4. PICK was \in PlayerStates : was = players[p]
  BY PlayerIs
<1>5. PICK pl \in PlayerStates : pl = closed(was)
  BY ClosedIs
<1>6. Anew(pl, was, FALSE)
  <2>1. /\ pl.session = was.session + 1 /\ pl.status = "idle" /\ pl.loop = "off" /\ ~pl.click
        /\ pl.mix = UnityMix /\ ~pl.scrub /\ ~pl.sub /\ ~pl.hold /\ ~pl.requested
        /\ pl.master = "none"
    BY <1>5, ClosedIs
  <2>2. pl.session > was.session
    BY <2>1 DEF PlayerStates
  <2> QED BY <2>1, <2>2 DEF Anew
<1>7. players' = [players EXCEPT ![p] = pl]
  BY <1>1, <1>4, <1>5, PlayerIs
<1>8. /\ players' \in [Players -> PlayerStates] /\ players'[p] = pl
      /\ \A q \in Players : q # p => players'[q] = players[q]
  BY <1>7, PlayerIs, PlayerSet
<1>9. ASSUME NEW q \in Players
      PROVE  \/ players'[q] = players[q] /\ claim # q /\ claim' # q
             \/ Anew(players'[q], players[q], claim' = q)
  <2>1. CASE q = p
    <3>1. (claim' = q) = FALSE
      BY <1>3, TwoPlayers
    <3> QED BY <1>4, <1>6, <1>8, <2>1, <3>1
  <2>2. CASE q # p
    BY <1>2, <1>3, <1>8, <2>2, TwoPlayers
  <2> QED BY <2>1, <2>2
<1>10. PICK t : t = teardown(engine, players[p], clearOk)
  OBVIOUS
<1>11. Silent(t) /\ t.holds = 1 /\ t \in EngineStates
  BY <1>2, <1>10, EngineLoud, TornDown DEF Silent
<1>12. engine' = [t EXCEPT !.holds = 0]
  BY <1>1, <1>10, <1>11 DEF EngineStates
<1>13. Silent(engine') /\ engine'.holds = 0
  <2>1. PICK e \in EngineStates : e = [t EXCEPT !.holds = 0]
    BY <1>11, HoldsSet
  <2>2. Silent(e) /\ e.holds = 0
    BY <1>11, <2>1, HoldsSet DEF Silent
  <2> QED BY <1>12, <2>1, <2>2
<1>14. PICK d \in DbStates : d = flushed(db)
  BY FlushedIs
<1>15. db' = d
  <2>1. CASE p = "stem"
    BY <1>1, <1>14, <2>1
  <2>2. CASE p # "stem"
    <3>1. ~Ready("stem")
      BY <1>2, <2>2, TwoPlayers DEF SessionInv, Owned, Ready, IsOpen
    <3> QED BY <1>1, <1>14, <2>2, <3>1, NothingToSave
  <2> QED BY <2>1, <2>2
<1>16. /\ db' \in DbStates /\ db'.pending = {} /\ db'.mix = db.mix /\ db'.lost = db.lost
       /\ db'.queue = d.queue /\ d.queue \in Seq(DbCalls)
  BY <1>14, <1>15, FlushedIs DEF DbStates
<1>17. PICK c \in DbCalls : TRUE
  BY ACall
<1>18. Shifted(d.queue, db'.queue, 0, FALSE, c)
  BY <1>16, ShiftSame
<1>19. PICK b \in BOOLEAN : b = (p = "stem")
  OBVIOUS
<1>20. /\ editing' \in Screens \cup {"none"}
       /\ user' \in [mix : SoundMixes, master : Levels, name : Names0]
       /\ user'.mix = user.mix /\ user'.master = user.master
  BY <1>1, <1>19, EditorIs
<1>21. /\ engine'.holds = (IF claim' = "none" THEN 0 ELSE 1)
       /\ claim' \in Players \cup {"none"} /\ FALSE \in BOOLEAN
  BY <1>3, <1>13
<1> QED BY <1>8, <1>9, <1>13, <1>14, <1>16, <1>18, <1>20, <1>21, Ended

\* The other player.
LEMMA OtherIs ==
  ASSUME NEW p \in Players
  PROVE  /\ Other(p) \in Players /\ Other(p) # p
         /\ \A r \in Players : r = p \/ r = Other(p)
BY DEF Other, Players

\* The engine once a session has begun: whoever had the mixer gave it up.
LEMMA BegunEngine ==
  ASSUME SessionTypes, SessionInv, NEW p \in Players, NEW q \in Players,
         q # p, \A r \in Players : r = p \/ r = q, NEW clearOk \in BOOLEAN
  PROVE  LET own == IF IsOpen(p) THEN teardown(engine, players[p], clearOk) ELSE engine
             ensured == IF players[p].hold THEN own ELSE [own EXCEPT !.holds = @ + 1]
             e == IF claim = q /\ IsOpen(q)
                  THEN [teardown(ensured, players[q], clearOk) EXCEPT !.holds = @ - 1]
                  ELSE ensured
         IN Silent(e) /\ e.holds = 1
<1>1. /\ \A r \in Players : (IsOpen(r) <=> claim = r) /\ (players[r].hold <=> IsOpen(r))
      /\ engine.holds = (IF claim = "none" THEN 0 ELSE 1)
      /\ claim \in Players \cup {"none"} /\ engine \in EngineStates
  BY DEF SessionInv, Owned, SessionTypes
<1>2. CASE claim = "none"
  <2>1. ~IsOpen(p) /\ ~players[p].hold /\ engine.holds = 0 /\ claim # q
    BY <1>1, <1>2, TwoPlayers
  <2>2. PICK e \in EngineStates : e = [engine EXCEPT !.holds = 1]
    BY <1>1, HoldsSet
  <2>3. AsLoud(e) /\ e.holds = 1
    BY <1>1, <2>2, HoldsSet DEF AsLoud
  <2>4. Silent(e)
    BY <1>2, <2>3, NoneOpen
  <2>5. e = [engine EXCEPT !.holds = @ + 1]
    BY <1>1, <2>1, <2>2 DEF EngineStates
  <2> QED BY <2>1, <2>3, <2>4, <2>5
<1>3. CASE claim = p
  <2>1. IsOpen(p) /\ players[p].hold /\ engine.holds = 1 /\ claim # q
    BY <1>1, <1>3, TwoPlayers
  <2>2. PICK t : t = teardown(engine, players[p], clearOk)
    OBVIOUS
  <2>3. Silent(t) /\ t.holds = 1
    BY <2>1, <2>2, EngineLoud, TornDown
  <2> QED BY <2>1, <2>2, <2>3
<1>4. CASE claim = q
  <2>1. /\ ~IsOpen(p) /\ ~players[p].hold /\ engine.holds = 1 /\ IsOpen(q)
    BY <1>1, <1>4, TwoPlayers
  <2>2. PICK h \in EngineStates : h = [engine EXCEPT !.holds = 2]
    BY <1>1, HoldsSet
  <2>3. AsLoud(h) /\ h.holds = 2
    BY <1>1, <2>2, HoldsSet DEF AsLoud
  <2>4. h = [engine EXCEPT !.holds = @ + 1]
    BY <1>1, <2>1, <2>2 DEF EngineStates
  <2>5. PICK t : t = teardown(h, players[q], clearOk)
    OBVIOUS
  <2>6. Silent(t) /\ t.holds = 2 /\ t \in EngineStates
    BY <2>1, <2>3, <2>5, TornDown DEF Silent
  <2>7. PICK e \in EngineStates : e = [t EXCEPT !.holds = 1]
    BY <2>6, HoldsSet
  <2>8. Silent(e) /\ e.holds = 1
    BY <2>6, <2>7, HoldsSet DEF Silent
  <2>9. e = [t EXCEPT !.holds = @ - 1]
    BY <2>6, <2>7 DEF EngineStates
  <2> QED BY <1>4, <2>1, <2>4, <2>5, <2>8, <2>9
<1> QED BY <1>1, <1>2, <1>3, <1>4

\* A session begins.
LEMMA Begins ==
  ASSUME SessionTypes, SessionInv, NEW p \in Players,
         NEW clearOk \in BOOLEAN, begin(p, clearOk), answers' = answers,
         screens' \in [Screens -> [mounted : BOOLEAN, focused : BOOLEAN, held : Nat]],
         top' \in Screens \cup {"none"}, Held'
  PROVE  SessionTypes' /\ SessionInv'
<1>1. PICK q \in Players : q = Other(p)
  BY OtherIs
<1>2. q # p /\ \A r \in Players : r = p \/ r = q
  BY <1>1, OtherIs
<1>3. /\ \A r \in Players : IsOpen(r) <=> claim = r
      /\ claim \in Players \cup {"none"}
  BY DEF SessionInv, Owned, SessionTypes
<1> DEFINE closes == claim = q /\ IsOpen(q)
           mine == IF IsOpen(p) THEN torn(players[p]) ELSE players[p]
           fresh == [closedState(mine, "loading") EXCEPT
                       !.session = @ + 1, !.hold = TRUE, !.sub = TRUE]
           saved == IF (p = "stem" /\ IsOpen(p)) \/ (q = "stem" /\ closes)
                    THEN flushed(db) ELSE db
           own == IF IsOpen(p) THEN teardown(engine, players[p], clearOk) ELSE engine
           ensured == IF players[p].hold THEN own ELSE [own EXCEPT !.holds = @ + 1]
           e == IF closes
                THEN [teardown(ensured, players[q], clearOk) EXCEPT !.holds = @ - 1]
                ELSE ensured
<1>4. /\ claim' = p /\ engine' = e
      /\ players' = [players EXCEPT ![p] = fresh, ![q] = IF closes THEN closed(@) ELSE @]
      /\ db' = [saved EXCEPT !.queue = Append(@,
                  DbCall("read", p, players[p].session + 1, {}))]
      /\ EditorLeaves(p = "stem" \/ closes)
  BY <1>1 DEF begin
<1>5. Silent(e) /\ e.holds = 1
  BY <1>2, BegunEngine
<1> HIDE DEF e
<1>6. PICK was \in PlayerStates : was = players[p]
  BY PlayerIs
<1>0. /\ mine \in {was, torn(was)}
      /\ IsOpen(p) => mine = torn(was)
      /\ ~IsOpen(p) => mine = was
  BY <1>6
<1> HIDE DEF mine
<1>32. PICK m \in {was, torn(was)} : m = mine
  BY <1>0
<1>33. PICK pl \in PlayerStates : pl = Opened(m)
  BY FreshIs
<1>7. pl = fresh
  BY <1>32, <1>33 DEF Opened
<1>8. /\ pl.session = was.session + 1 /\ pl.status = "loading" /\ pl.loop = "off" /\ ~pl.click
      /\ pl.mix = UnityMix /\ pl.sub /\ pl.hold
      /\ m = was => pl.requested = was.requested /\ pl.master = was.master
      /\ m = torn(was) => ~pl.requested /\ pl.master = "none"
  BY <1>33, FreshIs
<1> HIDE DEF fresh
<1>9. ~pl.requested /\ pl.master = "none"
  <2>1. CASE IsOpen(p)
    BY <1>0, <1>32, <1>8, <2>1
  <2>2. CASE ~IsOpen(p)
    <3>1. ~was.requested /\ was.master = "none"
      BY <1>6, <2>2 DEF SessionInv, Owned
    <3> QED BY <1>0, <1>32, <1>8, <2>2, <3>1
  <2> QED BY <2>1, <2>2
<1>10. Anew(pl, was, TRUE)
  <2>1. pl.session > was.session
    BY <1>8 DEF PlayerStates
  <2> QED BY <1>8, <1>9, <2>1 DEF Anew
<1>11. PICK before \in PlayerStates : before = players[q]
  BY PlayerIs
<1>12. PICK after \in PlayerStates : after = IF closes THEN closed(before) ELSE before
  BY ClosedIs
<1>13. /\ players' \in [Players -> PlayerStates] /\ players'[p] = pl /\ players'[q] = after
  <2>1. players \in [Players -> PlayerStates]
    BY PlayerIs
  <2>2. players' = [players EXCEPT ![p] = pl, ![q] = after]
    BY <1>2, <1>4, <1>7, <1>11, <1>12, <2>1
  <2> QED BY <1>2, <2>1, <2>2
<1>14. \/ after = before /\ claim # q
       \/ Anew(after, before, FALSE)
  <2>1. CASE closes
    <3>1. after = closed(before)
      BY <1>12, <2>1
    <3>2. /\ after.session = before.session + 1 /\ after.status = "idle"
          /\ after.loop = "off" /\ ~after.click
          /\ after.mix = UnityMix /\ ~after.scrub /\ ~after.sub /\ ~after.hold
          /\ ~after.requested /\ after.master = "none"
      BY <3>1, ClosedIs
    <3>3. after.session > before.session
      BY <3>2 DEF PlayerStates
    <3> QED BY <3>2, <3>3 DEF Anew
  <2>2. CASE ~closes
    BY <1>3, <1>12, <2>2
  <2> QED BY <2>1, <2>2
<1>15. ASSUME NEW r \in Players
      PROVE  \/ players'[r] = players[r] /\ claim # r /\ claim' # r
             \/ Anew(players'[r], players[r], claim' = r)
  <2>1. CASE r = p
    <3>1. (claim' = r) = TRUE
      BY <1>4, <2>1
    <3> QED BY <1>6, <1>10, <1>13, <2>1, <3>1
  <2>2. CASE r = q
    <3>1. (claim' = r) = FALSE
      BY <1>2, <1>4, <2>2
    <3> QED BY <1>2, <1>4, <1>11, <1>13, <1>14, <2>2, <3>1
  <2> QED BY <1>2, <2>1, <2>2
<1>16. PICK d \in DbStates : d = flushed(db)
  BY FlushedIs
<1>17. saved = d
  <2>1. CASE (p = "stem" /\ IsOpen(p)) \/ (q = "stem" /\ closes)
    BY <1>16, <2>1
  <2>2. CASE ~((p = "stem" /\ IsOpen(p)) \/ (q = "stem" /\ closes))
    <3>1. ~Ready("stem")
      BY <1>2, <1>3, <2>2, TwoPlayers DEF Ready, IsOpen
    <3> QED BY <1>16, <2>2, <3>1, NothingToSave
  <2> QED BY <2>1, <2>2
<1> HIDE DEF saved
<1>18. PICK k \in Nat : k = was.session + 1
  BY DEF PlayerStates
<1>19. PICK c \in DbCalls : c = DbCall("read", p, k, {})
  BY DEF DbCall, DbCalls
<1>20. c.kind = "read" /\ c.player = p /\ c.session = k
  BY <1>19 DEF DbCall
<1>21. PICK u \in Seq(DbCalls) : u = d.queue
  BY DEF DbStates
<1>22. PICK v \in Seq(DbCalls) : v = Append(u, c)
  BY ShiftMore
<1>23. Shifted(u, v, 0, TRUE, c)
  BY <1>22, ShiftMore
<1>24. db' = [d EXCEPT !.queue = v]
  BY <1>4, <1>6, <1>17, <1>18, <1>19, <1>21, <1>22 DEF DbStates
<1>25. /\ db' \in DbStates /\ db'.pending = d.pending /\ db'.mix = d.mix /\ db'.lost = d.lost
       /\ db'.queue = v
  BY <1>24 DEF DbStates
<1>26. d.pending = {} /\ d.mix = db.mix /\ d.lost = db.lost
  BY <1>16, FlushedIs
<1>27. Shifted(d.queue, db'.queue, 0, TRUE, c) /\ db'.queue \in Seq(DbCalls)
  BY <1>21, <1>22, <1>23, <1>25
<1>28. /\ claim' = c.player /\ c.session = players'[c.player].session
  BY <1>4, <1>8, <1>13, <1>18, <1>20
<1>29. PICK b \in BOOLEAN : b = (p = "stem" \/ closes)
  OBVIOUS
<1>30. /\ editing' \in Screens \cup {"none"}
       /\ user' \in [mix : SoundMixes, master : Levels, name : Names0]
       /\ user'.mix = user.mix /\ user'.master = user.master
  BY <1>4, <1>29, EditorIs
<1>31. /\ Silent(engine') /\ engine'.holds = (IF claim' = "none" THEN 0 ELSE 1)
       /\ claim' \in Players \cup {"none"} /\ TRUE \in BOOLEAN
  BY <1>4, <1>5, TwoPlayers
<1> QED BY <1>13, <1>15, <1>16, <1>20, <1>25, <1>26, <1>27, <1>28, <1>30, <1>31, Ended

-----------------------------------------------------------------------------
(* The screens. *)

\* Once a session ends, only the screen that begins the next holds one.
LEMMA HeldAnew ==
  ASSUME SessionTypes, SessionInv, players' \in [Players -> PlayerStates],
         \A q \in Players : \/ players'[q] = players[q] /\ claim # q
                            \/ players'[q].session > players[q].session,
         NEW s \in Screens \cup {"none"}, top' = s,
         screens' \in [Screens -> [mounted : BOOLEAN, focused : BOOLEAN, held : Nat]],
         \A t \in Screens : t # s =>
            \/ screens'[t].held = screens[t].held /\ screens'[t].mounted = screens[t].mounted
            \/ screens'[t].held = NoSession,
         s # "none" => /\ screens'[s].mounted
                       /\ screens'[s].held = players'[PlayerOf[s]].session
                       /\ players'[PlayerOf[s]].session > players[PlayerOf[s]].session,
         \A q \in Players : IsOpen(q)' <=> (s # "none" /\ PlayerOf[s] = q)
  PROVE  Held'
<1>1. \A q \in Players : /\ players[q].session \in Nat /\ players'[q].session \in Nat
                         /\ players[q].session <= players'[q].session
  BY Over
<1>2. \A q \in Players : claim = q => players'[q].session > players[q].session
  OBVIOUS
<1>3. ASSUME NEW t \in Screens
      PROVE  /\ PlayerOf[t] \in Players /\ screens[t].held \in Nat /\ screens'[t].held \in Nat
             /\ screens[t].held <= players[PlayerOf[t]].session
             /\ screens[t].held # NoSession => screens[t].mounted
  BY SessionAssumption DEF SessionAssumption, SessionTypes, SessionInv, Held
<1>4. ASSUME NEW t \in Screens, t # s PROVE ~HoldLive(t)'
  <2> SUFFICES ASSUME HoldLive(t)' PROVE FALSE
    OBVIOUS
  <2>1. PICK q \in Players : q = PlayerOf[t]
    BY <1>3
  <2>2. screens'[t].held # NoSession /\ screens'[t].held = players'[q].session
    BY <2>1 DEF HoldLive, Live
  <2>3. screens'[t].held = screens[t].held
    BY <1>4, <2>2
  <2>4. screens[t].held = players[q].session /\ players'[q].session = players[q].session
    <3>1. screens[t].held <= players[q].session /\ screens[t].held \in Nat
      BY <1>3, <2>1
    <3>2. screens[t].held = players'[q].session
      BY <2>2, <2>3
    <3>3. /\ players[q].session <= players'[q].session
          /\ players[q].session \in Nat /\ players'[q].session \in Nat
      BY <1>1
    <3> QED BY <3>1, <3>2, <3>3
  <2>5. HoldLive(t)
    BY <2>1, <2>2, <2>3, <2>4 DEF HoldLive, Live
  <2>6. claim = q
    BY <2>1, <2>5 DEF SessionInv, Held, Owned
  <2>7. players'[q].session > players[q].session
    BY <1>2, <2>6
  <2> QED BY <1>1, <2>4, <2>7
<1>5. ASSUME s # "none"
      PROVE  /\ s \in Screens /\ HoldLive(s)' /\ IsOpen(PlayerOf[s])'
             /\ \A t \in Screens : t # s /\ PlayerOf[t] = PlayerOf[s] =>
                  screens'[t].held # screens'[s].held
  <2>1. s \in Screens
    BY <1>5
  <2>2. PICK q \in Players : q = PlayerOf[s]
    BY <1>3, <2>1
  <2>3. screens'[s].held = players'[q].session /\ players'[q].session > players[q].session
    BY <1>5, <2>2
  <2>4. screens'[s].held # NoSession
    BY <1>1, <2>3 DEF NoSession
  <2>5. HoldLive(s)' /\ IsOpen(PlayerOf[s])'
    BY <1>5, <2>2, <2>3, <2>4 DEF HoldLive, Live
  <2>6. ASSUME NEW t \in Screens, t # s, PlayerOf[t] = PlayerOf[s],
               screens'[t].held = screens'[s].held
        PROVE  FALSE
    <3>1. HoldLive(t)'
      BY <2>2, <2>3, <2>4, <2>6 DEF HoldLive, Live
    <3> QED BY <1>4, <2>6, <3>1
  <2> QED BY <2>1, <2>5, <2>6
<1>6. top' # "none" => HoldLive(top)'
  <2>1. ASSUME s # "none" PROVE HoldLive(top)'
    BY <1>5, <2>1 DEF HoldLive, Live
  <2> QED BY <2>1
<1>7. ASSUME NEW t \in Screens
      PROVE  /\ screens'[t].held <= players'[PlayerOf[t]].session
             /\ screens'[t].held # NoSession => screens'[t].mounted
             /\ HoldLive(t)' => IsOpen(PlayerOf[t])'
  <2>1. PICK q \in Players : q = PlayerOf[t]
    BY <1>3
  <2>2. CASE t = s
    <3>1. s # "none" /\ screens'[t].held = players'[q].session
      BY SessionAssumption, <2>1, <2>2 DEF SessionAssumption
    <3> QED BY <1>1, <1>5, <2>1, <2>2, <3>1
  <2>3. CASE t # s
    <3>1. screens[t].held <= players[q].session /\ screens[t].held \in Nat
      BY <1>3, <2>1
    <3>2. screens'[t].held <= players'[q].session
      <4>1. players[q].session <= players'[q].session
            /\ players[q].session \in Nat /\ players'[q].session \in Nat
        BY <1>1
      <4> QED BY <2>3, <3>1, <4>1 DEF NoSession
    <3>3. screens'[t].held # NoSession => screens'[t].mounted
      BY <1>3, <2>3
    <3> QED BY <1>4, <2>1, <2>3, <3>2, <3>3
  <2> QED BY <2>2, <2>3
<1>8. ASSUME NEW a \in Screens, NEW t \in Screens, PlayerOf[a] = PlayerOf[t],
             screens'[a].held = screens'[t].held, screens'[a].held # NoSession
      PROVE  a = t
  <2>1. CASE a = s \/ t = s
    <3>1. s # "none"
      BY SessionAssumption, <2>1 DEF SessionAssumption
    <3> QED BY <1>5, <1>8, <2>1, <3>1
  <2>2. CASE a # s /\ t # s
    <3>1. /\ screens'[a].held = screens[a].held /\ screens'[t].held = screens[t].held
      BY <1>8, <2>2
    <3> QED BY <1>8, <3>1 DEF SessionInv, Held
  <2> QED BY <2>1, <2>2
<1>9. \A q \in Players : IsOpen(q)' => \E t \in Screens : HoldLive(t)' /\ PlayerOf[t] = q
  BY <1>5
<1> QED BY <1>6, <1>7, <1>8, <1>9 DEF Held

\* A session that begins is one no screen holds.
LEMMA SessionsGrow ==
  ASSUME SessionTypes, SessionInv, NEW p \in Players,
         NEW clearOk \in BOOLEAN, IsOpen(p), close(p, clearOk)
  PROVE  /\ players' \in [Players -> PlayerStates]
         /\ \A q \in Players : \/ players'[q] = players[q] /\ claim # q
                               \/ players'[q].session > players[q].session
         /\ \A q \in Players : ~IsOpen(q)'
<1>1. PICK was \in PlayerStates : was = players[p]
  BY PlayerIs
<1>2. PICK pl \in PlayerStates : pl = closed(was)
  BY ClosedIs
<1>3. pl.session = was.session + 1 /\ pl.status = "idle"
  BY <1>2, ClosedIs
<1>4. players' = [players EXCEPT ![p] = pl]
  BY <1>1, <1>2, PlayerIs DEF close
<1>5. /\ players' \in [Players -> PlayerStates] /\ players'[p] = pl
      /\ \A q \in Players : q # p => players'[q] = players[q]
  BY <1>4, PlayerIs, PlayerSet
<1>6. pl.session > was.session
  BY <1>3 DEF PlayerStates
<1>7. claim = p /\ \A q \in Players : q # p => ~IsOpen(q)
  BY DEF SessionInv, Owned
<1> QED BY <1>1, <1>3, <1>5, <1>6, <1>7 DEF IsOpen

\* A screen's session begins.
LEMMA SessionsBegin ==
  ASSUME SessionTypes, SessionInv, NEW p \in Players,
         NEW clearOk \in BOOLEAN, begin(p, clearOk)
  PROVE  /\ players' \in [Players -> PlayerStates]
         /\ \A q \in Players : \/ players'[q] = players[q] /\ claim # q
                               \/ players'[q].session > players[q].session
         /\ players'[p].session = players[p].session + 1
         /\ players'[p].session > players[p].session
         /\ \A q \in Players : IsOpen(q)' <=> q = p
<1>1. PICK q \in Players : q = Other(p)
  BY OtherIs
<1>2. q # p /\ \A r \in Players : r = p \/ r = q
  BY <1>1, OtherIs
<1>3. \A r \in Players : IsOpen(r) <=> claim = r
  BY DEF SessionInv, Owned
<1> DEFINE closes == claim = q /\ IsOpen(q)
           mine == IF IsOpen(p) THEN torn(players[p]) ELSE players[p]
<1>4. players' = [players EXCEPT ![p] = Opened(mine), ![q] = IF closes THEN closed(@) ELSE @]
  BY <1>1 DEF begin, Opened
<1>5. PICK was \in PlayerStates, before \in PlayerStates : was = players[p] /\ before = players[q]
  BY PlayerIs
<1>6. PICK m \in {was, torn(was)} : m = mine
  BY <1>5
<1>7. PICK pl \in PlayerStates : pl = Opened(m)
  BY FreshIs
<1>8. pl.session = was.session + 1 /\ pl.status = "loading"
  BY <1>7, FreshIs
<1>9. PICK after \in PlayerStates : after = IF closes THEN closed(before) ELSE before
  BY ClosedIs
<1>10. /\ players' \in [Players -> PlayerStates] /\ players'[p] = pl /\ players'[q] = after
  <2>1. players \in [Players -> PlayerStates]
    BY PlayerIs
  <2>2. players' = [players EXCEPT ![p] = pl, ![q] = after]
    BY <1>2, <1>4, <1>5, <1>6, <1>7, <1>9, <2>1
  <2> QED BY <1>2, <2>1, <2>2
<1>11. pl.session > was.session
  BY <1>8 DEF PlayerStates
<1>12. /\ after.status = "idle"
       /\ (after = before /\ claim # q) \/ after.session > before.session
  <2>1. CASE closes
    <3>1. after.session = before.session + 1 /\ after.status = "idle"
      BY <1>9, <2>1, ClosedIs
    <3> QED BY <3>1 DEF PlayerStates
  <2>2. CASE ~closes
    <3>1. after = before /\ claim # q
      BY <1>3, <1>9, <2>2
    <3> QED BY <1>3, <1>5, <3>1 DEF IsOpen
  <2> QED BY <2>1, <2>2
<1> QED BY <1>2, <1>5, <1>8, <1>10, <1>11, <1>12 DEF IsOpen

\* A screen that gains the focus holds its player.
LEMMA EnsureHeld ==
  ASSUME SessionTypes, SessionInv, NEW s \in Screens,
         NEW others \in [Screens -> [mounted : BOOLEAN, focused : BOOLEAN, held : Nat]],
         \A t \in Screens : /\ others[t].held = screens[t].held
                            /\ others[t].mounted = screens[t].mounted,
         NEW clearOk \in BOOLEAN, ensureHeld(s, others, clearOk), answers' = answers
  PROVE  SessionTypes' /\ SessionInv'
<1>1. PICK p \in Players : p = PlayerOf[s]
  BY SessionAssumption DEF SessionAssumption
<1>2. PICK was \in [mounted : BOOLEAN, focused : BOOLEAN, held : Nat] : was = others[s]
  OBVIOUS
<1>3. top' = s /\ s # "none"
  BY SessionAssumption DEF ensureHeld, SessionAssumption
<1>4. CASE HoldLive(s)
  <2>1. /\ screens' = [others EXCEPT ![s].mounted = TRUE, ![s].focused = TRUE]
        /\ UNCHANGED <<claim, players, engine, db, editing, user>>
    BY <1>4 DEF ensureHeld
  <2>2. PICK now \in [mounted : BOOLEAN, focused : BOOLEAN, held : Nat] :
          now = [was EXCEPT !.mounted = TRUE, !.focused = TRUE]
    OBVIOUS
  <2>3. now.held = was.held /\ now.mounted
    BY <2>2
  <2>4. screens' = [others EXCEPT ![s] = now]
    BY <1>2, <2>1, <2>2
  <2>5. /\ screens' \in [Screens -> [mounted : BOOLEAN, focused : BOOLEAN, held : Nat]]
        /\ screens'[s] = now /\ \A t \in Screens : t # s => screens'[t] = others[t]
    BY <2>4
  <2>6. \A t \in Screens : /\ screens'[t].held = screens[t].held
                           /\ screens[t].mounted => screens'[t].mounted
                           /\ HoldLive(t)' <=> HoldLive(t)
    <3>1. \A t \in Screens : /\ screens'[t].held = screens[t].held
                             /\ screens[t].mounted => screens'[t].mounted
      BY <1>2, <2>3, <2>5
    <3> QED BY <2>1, <3>1 DEF HoldLive, Live
  <2>7. HoldLive(top)'
    BY <1>3, <1>4, <2>6 DEF HoldLive, Live
  <2>8. Held'
    BY <2>1, <2>6, <2>7 DEF SessionInv, Held, IsOpen
  <2> QED BY <1>3, <2>1, <2>5, <2>8, ScreensMove
<1>5. CASE ~HoldLive(s)
  <2>1. /\ begin(p, clearOk)
        /\ screens' = [others EXCEPT ![s] = [mounted |-> TRUE, focused |-> TRUE,
                                             held |-> players[p].session + 1]]
    BY <1>1, <1>5 DEF ensureHeld
  <2>2. /\ players' \in [Players -> PlayerStates]
        /\ \A q \in Players : \/ players'[q] = players[q] /\ claim # q
                              \/ players'[q].session > players[q].session
        /\ players'[p].session = players[p].session + 1
        /\ players'[p].session > players[p].session
        /\ \A q \in Players : IsOpen(q)' <=> q = p
    BY <2>1, SessionsBegin
  <2>3. PICK k \in Nat : k = players[p].session + 1
    BY DEF SessionTypes, PlayerStates
  <2>4. PICK now \in [mounted : BOOLEAN, focused : BOOLEAN, held : Nat] :
          now = [mounted |-> TRUE, focused |-> TRUE, held |-> k]
    OBVIOUS
  <2>5. now.mounted /\ now.held = k
    BY <2>4
  <2>6. screens' = [others EXCEPT ![s] = now]
    BY <2>1, <2>3, <2>4
  <2>7. /\ screens' \in [Screens -> [mounted : BOOLEAN, focused : BOOLEAN, held : Nat]]
        /\ screens'[s] = now /\ \A t \in Screens : t # s => screens'[t] = others[t]
    BY <2>6
  <2>8. Held'
    <3>1. /\ screens'[s].mounted
          /\ screens'[s].held = players'[PlayerOf[s]].session
          /\ players'[PlayerOf[s]].session > players[PlayerOf[s]].session
      BY <1>1, <2>2, <2>3, <2>5, <2>7
    <3>2. \A t \in Screens : t # s =>
            screens'[t].held = screens[t].held /\ screens'[t].mounted = screens[t].mounted
      BY <2>7
    <3>3. \A q \in Players : IsOpen(q)' <=> (s # "none" /\ PlayerOf[s] = q)
      BY <1>1, <1>3, <2>2
    <3>4. s \in Screens \cup {"none"}
      OBVIOUS
    <3> QED BY <1>3, <2>2, <2>7, <3>1, <3>2, <3>3, <3>4, HeldAnew
  <2>9. top' \in Screens \cup {"none"}
    BY <1>3
  <2> QED BY <2>1, <2>7, <2>8, <2>9, Begins
<1> QED BY <1>4, <1>5

\* A screen is pushed, brought back or relaunched.
LEMMA FocusStep ==
  ASSUME SessionTypes, SessionInv, NEW s \in Screens,
         Focus(s) \/ Relaunch(s)
  PROVE  SessionTypes' /\ SessionInv'
<1>1. CASE Focus(s)
  <2>1. PICK clearOk \in BOOLEAN : ensureHeld(s, Blurred, clearOk) /\ answers' = answers
    BY <1>1 DEF Focus
  <2> QED BY <2>1, BlurredIs, EnsureHeld
<1>2. CASE Relaunch(s)
  <2>1. PICK clearOk \in BOOLEAN : ensureHeld(s, screens, clearOk) /\ answers' = answers
    BY <1>2 DEF Relaunch
  <2>2. screens \in [Screens -> [mounted : BOOLEAN, focused : BOOLEAN, held : Nat]]
    BY DEF SessionTypes
  <2>3. \A t \in Screens : /\ screens[t].held = screens[t].held
                           /\ screens[t].mounted = screens[t].mounted
    OBVIOUS
  <2>4. PICK others \in [Screens -> [mounted : BOOLEAN, focused : BOOLEAN, held : Nat]] :
          others = screens
    BY <2>2
  <2>5. ensureHeld(s, others, clearOk)
    BY <2>1, <2>4
  <2>6. \A t \in Screens : /\ others[t].held = screens[t].held
                           /\ others[t].mounted = screens[t].mounted
    BY <2>4
  <2> QED BY <2>1, <2>5, <2>6, EnsureHeld
<1> QED BY <1>1, <1>2

\* Once the open player closes, no screen holds anything that is live.
LEMMA ClosedHeld ==
  ASSUME SessionTypes, SessionInv, NEW p \in Players,
         NEW clearOk \in BOOLEAN, IsOpen(p), close(p, clearOk), top' = "none",
         screens' \in [Screens -> [mounted : BOOLEAN, focused : BOOLEAN, held : Nat]],
         \A t \in Screens :
            \/ screens'[t].held = screens[t].held /\ screens'[t].mounted = screens[t].mounted
            \/ screens'[t].held = NoSession
  PROVE  Held'
<1>1. /\ players' \in [Players -> PlayerStates]
      /\ \A q \in Players : \/ players'[q] = players[q] /\ claim # q
                            \/ players'[q].session > players[q].session
      /\ \A q \in Players : ~IsOpen(q)'
  BY SessionsGrow
<1>2. "none" \in Screens \cup {"none"}
  OBVIOUS
<1>3. \A q \in Players : IsOpen(q)' <=> ("none" # "none" /\ PlayerOf["none"] = q)
  BY <1>1
<1> QED BY <1>1, <1>2, <1>3, HeldAnew

\* A screen unmounts.
LEMMA UnmountStep ==
  ASSUME SessionTypes, SessionInv, NEW s \in Screens, Unmount(s)
  PROVE  SessionTypes' /\ SessionInv'
<1>1. /\ screens' = [screens EXCEPT ![s] =
                      [mounted |-> FALSE, focused |-> FALSE, held |-> NoSession]]
      /\ top' = IF top = s THEN "none" ELSE top
      /\ answers' = answers
  BY DEF Unmount
<1>2. /\ screens \in [Screens -> [mounted : BOOLEAN, focused : BOOLEAN, held : Nat]]
      /\ top \in Screens \cup {"none"}
  BY DEF SessionTypes
<1>3. PICK now \in [mounted : BOOLEAN, focused : BOOLEAN, held : Nat] :
        now = [mounted |-> FALSE, focused |-> FALSE, held |-> NoSession]
  BY DEF NoSession
<1>4. now.held = NoSession
  BY <1>3
<1>5. /\ screens' \in [Screens -> [mounted : BOOLEAN, focused : BOOLEAN, held : Nat]]
      /\ screens'[s] = now /\ \A t \in Screens : t # s => screens'[t] = screens[t]
  BY <1>1, <1>2, <1>3
<1>6. PICK p \in Players : p = PlayerOf[s]
  BY SessionAssumption DEF SessionAssumption
<1>7. top' \in Screens \cup {"none"}
  BY <1>1, <1>2
<1>8. CASE HoldLive(s)
  <2>1. PICK clearOk \in BOOLEAN : close(p, clearOk)
    BY <1>6, <1>8 DEF Unmount
  <2>2. IsOpen(p) /\ claim = p
    BY <1>6, <1>8 DEF SessionInv, Held, Owned
  <2>3. top' = "none"
    <3> SUFFICES ASSUME top # "none", top # s PROVE FALSE
      BY <1>1
    <3>1. PICK t \in Screens : t = top
      BY <1>2
    <3>2. HoldLive(t)
      BY <3>1 DEF SessionInv, Held
    <3>3. PlayerOf[t] \in Players /\ IsOpen(PlayerOf[t])
      BY SessionAssumption, <3>2 DEF SessionInv, Held, SessionAssumption
    <3>4. PlayerOf[t] = p
      BY <2>2, <3>3 DEF SessionInv, Owned
    <3>5. screens[t].held = screens[s].held /\ screens[t].held # NoSession
      BY <1>6, <1>8, <3>2, <3>4 DEF HoldLive, Live
    <3>6. t = s
      BY <1>6, <3>4, <3>5 DEF SessionInv, Held
    <3> QED BY <3>1, <3>6
  <2>4. \A t \in Screens :
            \/ screens'[t].held = screens[t].held /\ screens'[t].mounted = screens[t].mounted
            \/ screens'[t].held = NoSession
    BY <1>4, <1>5
  <2>5. Held'
    BY <1>5, <2>1, <2>2, <2>3, <2>4, ClosedHeld
  <2> QED BY <1>1, <1>5, <1>7, <2>1, <2>2, <2>5, Closes
<1>9. CASE ~HoldLive(s)
  <2>1. UNCHANGED <<claim, players, engine, db, editing, user>>
    BY <1>9 DEF Unmount
  <2>2. \A t \in Screens : /\ t # s => (HoldLive(t)' <=> HoldLive(t))
                           /\ ~HoldLive(s)'
    BY <1>4, <1>5, <2>1 DEF HoldLive, Live
  <2>3. top' # "none" => HoldLive(top)'
    <3> SUFFICES ASSUME top' # "none" PROVE HoldLive(top)'
      OBVIOUS
    <3>1. PICK t \in Screens : t = top /\ t = top' /\ t # s
      BY <1>1, <1>2
    <3>2. HoldLive(t)'
      BY <2>2, <3>1 DEF SessionInv, Held
    <3> QED BY <3>1, <3>2 DEF HoldLive, Live
  <2>4. ASSUME NEW t \in Screens
        PROVE  /\ screens'[t].held <= players'[PlayerOf[t]].session
               /\ screens'[t].held # NoSession => screens'[t].mounted
               /\ HoldLive(t)' => IsOpen(PlayerOf[t])'
               /\ \A r \in Screens :
                    PlayerOf[t] = PlayerOf[r] /\ screens'[t].held = screens'[r].held
                      /\ screens'[t].held # NoSession => t = r
    <3>1. CASE t = s
      <4>1. screens'[t].held = NoSession /\ ~HoldLive(t)'
        BY <1>4, <1>5, <2>2, <3>1
      <4>2. players'[PlayerOf[t]].session \in Nat
        BY <1>6, <2>1, <3>1 DEF SessionTypes, PlayerStates
      <4> QED BY <4>1, <4>2 DEF NoSession
    <3>2. CASE t # s
      <4>1. screens'[t] = screens[t] /\ (HoldLive(t)' <=> HoldLive(t))
        BY <1>5, <2>2, <3>2
      <4>2. ASSUME NEW r \in Screens, PlayerOf[t] = PlayerOf[r],
                   screens'[t].held = screens'[r].held, screens'[t].held # NoSession
            PROVE  t = r
        <5>1. r # s
          BY <1>4, <1>5, <4>2
        <5>2. screens'[r] = screens[r]
          BY <1>5, <5>1
        <5> QED BY <4>1, <4>2, <5>2 DEF SessionInv, Held
      <4>3. /\ screens'[t].held <= players'[PlayerOf[t]].session
            /\ screens'[t].held # NoSession => screens'[t].mounted
            /\ HoldLive(t)' => IsOpen(PlayerOf[t])'
        BY <2>1, <4>1 DEF SessionInv, Held, IsOpen
      <4> QED BY <4>2, <4>3
    <3> QED BY <3>1, <3>2
  <2>5. ASSUME NEW q \in Players, IsOpen(q)'
        PROVE  \E t \in Screens : HoldLive(t)' /\ PlayerOf[t] = q
    <3>1. PICK t \in Screens : HoldLive(t) /\ PlayerOf[t] = q
      BY <2>1, <2>5 DEF SessionInv, Held, IsOpen
    <3>2. t # s
      BY <1>9, <3>1
    <3> QED BY <2>2, <3>1, <3>2
  <2>6. Held'
    BY <2>3, <2>4, <2>5 DEF Held
  <2> QED BY <1>1, <1>5, <1>7, <2>1, <2>6, ScreensMove
<1> QED BY <1>8, <1>9

\* The tool is switched off.
LEMMA StopToolStep ==
  ASSUME SessionTypes, SessionInv, NEW p \in Players, StopTool(p)
  PROVE  SessionTypes' /\ SessionInv'
<1>1. /\ IsOpen(p) /\ top = "none" /\ UNCHANGED <<screens, top, answers>>
  BY DEF StopTool
<1>2. PICK clearOk \in BOOLEAN : close(p, clearOk)
  BY DEF StopTool
<1>3. /\ screens' \in [Screens -> [mounted : BOOLEAN, focused : BOOLEAN, held : Nat]]
      /\ \A t \in Screens :
            screens'[t].held = screens[t].held /\ screens'[t].mounted = screens[t].mounted
      /\ top' \in Screens \cup {"none"}
  BY <1>1 DEF SessionTypes
<1>4. Held'
  BY <1>1, <1>2, <1>3, ClosedHeld
<1> QED BY <1>1, <1>2, <1>3, <1>4, Closes

\* Any tap.
LEMMA TapsStep ==
  ASSUME SessionTypes, SessionInv, ATap
  PROVE  SessionTypes' /\ SessionInv'
<1>1. CASE \/ \E s \in Stems : SetGain(s) \/ ToggleMute(s) \/ Solo(s)
           \/ SetMasterGain \/ ResetMix
  BY <1>1, MixTaps
<1>2. CASE \/ \E p \in Players : MarkLoop(p)
           \/ UndoLoop \/ DismissLoopUndo \/ JumpToSection \/ \E l \in Loops : LoopSection(l)
  BY <1>2, LoopTaps
<1>3. CASE StartRename
  BY <1>3, EditTap
<1>4. CASE FinishRename
  BY <1>4, NameTap
<1>5. ASSUME NEW p \in Players, TogglePlay(p) \/ Scrub(p) \/ Seek(p)
      PROVE  SessionTypes' /\ SessionInv'
  BY <1>5, PlayTap
<1>6. ASSUME NEW p \in Players, ToggleClick(p)
      PROVE  SessionTypes' /\ SessionInv'
  BY <1>6, ClickTap
<1> QED BY <1>1, <1>2, <1>3, <1>4, <1>5, <1>6, Zenon DEF ATap

\* Any step.
LEMMA SessionStep ==
  ASSUME SessionTypes, SessionInv, [SessionNext]_sessionVars
  PROVE  SessionTypes' /\ SessionInv'
<1>1. ASSUME NEW s \in Screens, Focus(s) \/ Relaunch(s)
      PROVE  SessionTypes' /\ SessionInv'
  BY <1>1, FocusStep
<1>2. ASSUME NEW s \in Screens, Unmount(s)
      PROVE  SessionTypes' /\ SessionInv'
  BY <1>2, UnmountStep
<1>3. CASE Blur
  BY <1>3, BlurStep
<1>4. ASSUME NEW p \in Players, StopTool(p)
      PROVE  SessionTypes' /\ SessionInv'
  BY <1>4, StopToolStep
<1>5. ASSUME NEW p \in Players, ScrubFires(p)
      PROVE  SessionTypes' /\ SessionInv'
  BY <1>5, ScrubTimer
<1>6. CASE DbRead
  BY <1>6, SongRead
<1>7. CASE DbSave
  BY <1>7, SaveStored
<1>8. CASE DbRename
  BY <1>8, RenameStored
<1>9. CASE AnAnswer
  BY <1>9, AnswerStep
<1>10. CASE ATap
  BY <1>10, TapsStep
<1>11. CASE SaverFires
  BY <1>11, SaverWrites
<1>12. CASE CardStop \/ SongEnds
  BY <1>12, EngineStops
<1>13. CASE SongStopped
  BY <1>13, ClicksStop
<1>14. CASE ToolStarts
  BY <1>14, ToolOn
<1>15. CASE UNCHANGED sessionVars
  <2>1. UNCHANGED <<claim, players, screens, top, editing, answers, db, engine, user>>
    BY <1>15 DEF sessionVars
  <2>2. Held'
    <3>1. Held
      BY DEF SessionInv
    <3> QED BY <2>1, <3>1 DEF Held, HoldLive, Live, IsOpen
  <2> QED BY <2>1, <2>2, ScreensMove DEF SessionTypes
<1> QED
  BY <1>1, <1>2, <1>3, <1>4, <1>5, <1>6, <1>7, <1>8, <1>9, <1>10, <1>11, <1>12,
     <1>13, <1>14, <1>15, Zenon DEF SessionNext

\* However screens are pushed, relaunched and unmounted, and whatever is answered
\* late or not at all, the invariant of the sessions holds (player/screenHold.ts,
\* mixerClaim.ts, stemPlayer/store.ts, songPlayer/store.ts).
THEOREM SessionInvariant ==
  SessionSpec => [](SessionTypes /\ SessionInv)
<1>1. SessionInit => SessionTypes /\ SessionInv
  BY SessionInit0
<1>2. (SessionTypes /\ SessionInv) /\ [SessionNext]_sessionVars
      => (SessionTypes /\ SessionInv)'
  BY SessionStep
<1> QED BY <1>1, <1>2, PTL DEF SessionSpec

-----------------------------------------------------------------------------
(* What the invariant says of the properties. *)

\* The types, as the run states them.
LEMMA SessionTyped ==
  ASSUME SessionTypes
  PROVE  SessionTypeOK
<1>1. /\ claim \in Players \cup {"none"} /\ top \in Screens \cup {"none"}
      /\ engine.metronome \in {"off", "click", "tool"}
  BY DEF SessionTypes, EngineStates
<1>2. ASSUME NEW p \in Players
      PROVE  /\ players[p].status \in {"idle", "loading", "ready", "missing", "failed"}
             /\ players[p].loop \in {"off", "armed"} \cup Loops
             /\ players[p].mix \in SoundMixes
  BY DEF SessionTypes, PlayerStates
<1> QED BY <1>1, <1>2 DEF SessionTypeOK, SoundMixes

\* The screen on top has the mixer.
LEMMA OwnerHolds ==
  ASSUME SessionTypes, SessionInv
  PROVE  FocusedScreenOwns
<1>1. Owned /\ Held
  BY DEF SessionInv
<1>2. ASSUME top # "none"
      PROVE  HoldLive(top) /\ claim = PlayerOf[top] /\ IsOpen(PlayerOf[top])
  <2>1. top \in Screens /\ PlayerOf[top] \in Players
    BY SessionAssumption, <1>2 DEF SessionTypes, SessionAssumption
  <2>2. HoldLive(top) /\ IsOpen(PlayerOf[top])
    BY <1>1, <1>2, <2>1 DEF Held
  <2> QED BY <1>1, <2>1, <2>2 DEF Owned
<1> QED BY <1>2 DEF FocusedScreenOwns

\* One player is open, or none.
LEMMA OneIsOpen ==
  ASSUME SessionTypes, Owned
  PROVE  OneOwner
<1> DEFINE open == {p \in Players : IsOpen(p)}
<1>1. engine.holds = IF claim = "none" THEN 0 ELSE 1
  BY DEF Owned
<1>2. \A p \in Players : IsOpen(p) <=> claim = p
  BY DEF Owned
<1>3. Cardinality(open) = IF claim = "none" THEN 0 ELSE 1
  <2>1. CASE claim = "none"
    <3>1. open = {}
      BY <1>2, <2>1 DEF Players
    <3> QED BY <2>1, <3>1, FS_EmptySet
  <2>2. CASE claim \in Players
    <3>1. open = {claim} /\ claim # "none"
      BY <1>2, <2>2 DEF Players
    <3>2. Cardinality({claim}) = 1
      BY FS_Singleton
    <3> QED BY <3>1, <3>2
  <2> QED BY <2>1, <2>2 DEF SessionTypes
<1> QED BY <1>1, <1>2, <1>3 DEF OneOwner

\* What is closed leaves nothing behind.
LEMMA NothingLeft ==
  ASSUME SessionTypes, SessionInv
  PROVE  NothingLeftBehind
<1>1. Owned /\ Tracks /\ LoopKept /\ ClickKept
  BY DEF SessionInv
<1>2. OneOwner
  BY <1>1, OneIsOpen
<1>3. ClosedKeepsNothing
  BY <1>1 DEF ClosedKeepsNothing, Owned, Tracks
<1>4. ASSUME claim = "none"
      PROVE  /\ ~engine.playing /\ ~engine.card /\ ~engine.follow
             /\ engine.metronome # "click"
             /\ Pending({"grid"}) \/ engine.grid = "none"
             /\ Pending({"setLoop"}) \/ engine.loop = "none" \/ engine.stray
  <2>1. ~engine.playing /\ ~engine.card
    BY <1>1, <1>4 DEF Owned
  <2>2. \A p \in Players : ~IsOpen(p) /\ ~players[p].click /\ players[p].loop = "off"
    BY <1>1, <1>4 DEF Owned, Players
  <2>3. /\ ~engine.follow /\ engine.metronome # "click"
        /\ \/ engine.grid = "none"
           \/ \E i \in 1..Len(answers) : answers[i].kind = "grid" /\ answers[i].ok
    BY <1>1, <2>2 DEF ClickKept
  <2>4. \A p \in Players : ~LoopOn(players[p])
    <3>1. ASSUME NEW p \in Players, LoopOn(players[p]) PROVE FALSE
      <4>1. Ready(p)
        BY <1>1, <3>1 DEF LoopKept
      <4> QED BY <2>2, <4>1 DEF Ready, IsOpen
    <3> QED BY <3>1
  <2>5. \/ LoopFree
        \/ \E i \in 1..Len(answers) : answers[i].kind = "setLoop" /\ answers[i].ok
    BY <1>1, <2>4 DEF LoopKept
  <2> QED BY <2>1, <2>3, <2>5 DEF Pending, LoopFree
<1>5. EngineLeftClean
  BY <1>4 DEF EngineLeftClean
<1> QED BY <1>2, <1>3, <1>5 DEF NothingLeftBehind

\* What the screens show is what sounds.
LEMMA WhatShowsSounds ==
  ASSUME SessionTypes, SessionInv
  PROVE  ShownIsHeard
<1>1. Owned /\ Tracks /\ LoopKept /\ ClickKept
  BY DEF SessionInv
<1>2. LoopShown
  <2>1. ASSUME NEW p \in Players, Ready(p), ~Pending({"setLoop", "clearLoop"})
        PROVE  IF LoopOn(players[p]) THEN engine.loop = players[p].loop
               ELSE engine.loop = "none" \/ engine.stray
    <3>1. ~\E i \in 1..Len(answers) : answers[i].kind \in Changes
      BY <2>1 DEF Pending, Changes
    <3>2. LoopTold(p)
      BY <1>1, <2>1, <3>1 DEF LoopKept
    <3> QED BY <3>2 DEF LoopTold, LoopFree
  <2> QED BY <2>1 DEF LoopShown
<1>3. ClickShown
  <2>1. ASSUME NEW p \in Players, players[p].click
        PROVE  /\ claim = p /\ engine.grid = p
               /\ engine.follow /\ engine.metronome = "click"
    <3>1. Ready(p) /\ engine.grid = p /\ engine.follow /\ engine.metronome = "click"
      BY <1>1, <2>1 DEF ClickKept
    <3>2. IsOpen(p)
      BY <3>1 DEF IsOpen, Ready
    <3> QED BY <1>1, <3>1, <3>2 DEF Owned
  <2>2. ASSUME \A p \in Players : ~players[p].click
        PROVE  /\ ~engine.follow /\ engine.metronome # "click"
               /\ Pending({"grid"}) \/ engine.grid = "none"
    BY <1>1, <2>2 DEF ClickKept, Pending
  <2> QED BY <2>1, <2>2 DEF ClickShown
<1>4. MixShown
  <2>1. ASSUME NEW p \in Players, Ready(p)
        PROVE  engine.tracks = p /\ engine.mix = players[p].mix
    BY <1>1, <2>1 DEF Tracks
  <2>2. ASSUME NEW p \in Players, NEW s \in Stems
        PROVE  ~(players[p].mix[s].muted /\ players[p].mix[s].soloed)
    <3>1. players[p].mix \in SoundMixes
      BY DEF SessionTypes, PlayerStates
    <3> QED BY <3>1 DEF SoundMixes
  <2> QED BY <2>1, <2>2 DEF MixShown
<1> QED BY <1>2, <1>3, <1>4 DEF ShownIsHeard

\* The levels set are kept.
LEMMA LevelsAreKept ==
  ASSUME SessionTypes, SessionInv
  PROVE  LevelsKept
<1>1. LevelKept /\ Saved
  BY DEF SessionInv
<1>2. MasterKept
  BY <1>1 DEF LevelKept, MasterKept
<1>3. MixSaved
  BY <1>1 DEF Saved, MixSaved
<1> QED BY <1>2, <1>3 DEF LevelsKept

\* All that the run checks of the sessions.
LEMMA SessionInvImplies ==
  ASSUME SessionTypes, SessionInv
  PROVE  MixerHasOneOwner
BY SessionTyped, OwnerHolds, NothingLeft, WhatShowsSounds, LevelsAreKept
DEF MixerHasOneOwner

\* The screen in front has the mixer, what a closed player had is gone, what the
\* screens show is what sounds, and the levels set are kept, for any screens, stems
\* and loops and any number of sessions and taps (MixerSession's MixerHasOneOwner).
THEOREM TheMixerHasOneOwner == SessionSpec => []MixerHasOneOwner
BY SessionInvariant, SessionInvImplies, PTL
=============================================================================
