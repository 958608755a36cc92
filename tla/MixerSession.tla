---------------------------- MODULE MixerSession ----------------------------
(***************************************************************************)
(* The two song players of core-state (stemPlayer/store.ts and             *)
(* songPlayer/store.ts), the one native mixer they share, and the screens  *)
(* that hold them.                                                         *)
(*                                                                         *)
(* JavaScript runs one callback at a time, so every action is a callback:  *)
(* a screen's layout effect, a tap, a timer, or the continuation of an     *)
(* await.  Native commands run in the order they were called on the one    *)
(* native-modules thread and are answered in that order: their effect is   *)
(* taken at the call, and the answer waits in `answers`.  Database calls   *)
(* queue in the transactor (`db.queue`) and finish in their own time.      *)
(***************************************************************************)
EXTENDS Naturals, Sequences, FiniteSets

CONSTANTS Screens,      \* song and stem player screens React may mount
          PlayerOf,     \* [Screens -> Players]: the player a screen opens
          Stems,        \* the rows of the one stem set
          Loops,        \* loop bounds a tap may arrive at
          Names,        \* what the stem's row may be called
          FirstName,    \* what it is called in the bundle
          MaxOpens,     \* bound: sessions begun in all
          MaxTaps,      \* bound: taps on the players' controls in all
          MaxWork       \* bound: both together

Players == {"stem", "song"}
Other(p) == IF p = "stem" THEN "song" ELSE "stem"

\* No screen and no loop is one of the words that say there is none.
ASSUME SessionAssumption ==
  /\ PlayerOf \in [Screens -> Players] /\ "none" \notin Screens
  /\ {"none", "off", "armed"} \cap Loops = {}

VARIABLES claim,      \* mixerClaim: who owns the mixer, or "none"
          players,    \* each store's state and its closure's variables
          screens,    \* each screen: mounted, focused, the session it holds
          top,        \* the screen focused last, if it still is; else "none"
          editing,    \* the screen whose row's name is being edited, or "none"
          answers,    \* answers of native calls, oldest first
          db,         \* the transactor's queue, the stored mix, the saver
          engine,     \* the native mixer, its grid, metronome and card
          tool,       \* the metronome tool (or its paused card) is active
          stopEvent,  \* a songStopped event is on its way to JavaScript
          taps,       \* bound
          user        \* ghost: the mix, master level and name last chosen

sessionVars ==
  <<claim, players, screens, top, editing, answers, db, engine, tool,
    stopEvent, taps, user>>

Row == [gain : {"unity", "low"}, muted : BOOLEAN, soloed : BOOLEAN]
UnityRow == [gain |-> "unity", muted |-> FALSE, soloed |-> FALSE]
UnityMix == [s \in Stems |-> UnityRow]
NoSession == 0

\* A player before its first song.
NeverOpened ==
  [session |-> NoSession, status |-> "idle", loop |-> "off", undo |-> "none",
   click |-> FALSE, mix |-> UnityMix, name |-> FirstName, scrub |-> FALSE,
   sub |-> FALSE,
   hold |-> FALSE, requested |-> FALSE, master |-> "none",
   loopBusy |-> NoSession, clickBusy |-> NoSession]

\* set({...closedState, status}): what the screens see starts over.
closedState(pl, status) ==
  [pl EXCEPT !.status = status, !.loop = "off", !.undo = "none",
             !.click = FALSE, !.mix = UnityMix, !.name = FirstName]

IsOpen(p) == players[p].status # "idle"
Live(p, opened) == opened = players[p].session
Ready(p) == players[p].status = "ready"
LoopOn(pl) == pl.loop \in Loops

SessionInit ==
  /\ claim = "none"
  /\ players = [p \in Players |-> NeverOpened]
  /\ screens = [s \in Screens |->
                  [mounted |-> FALSE, focused |-> FALSE, held |-> NoSession]]
  /\ top = "none"
  /\ editing = "none"
  /\ answers = <<>>
  /\ db = [queue |-> <<>>, mix |-> UnityMix, name |-> FirstName, pending |-> {},
           lost |-> FALSE, unnamed |-> FALSE]
  /\ engine = [tracks |-> "none", playing |-> FALSE, loop |-> "none",
               stray |-> FALSE, grid |-> "none", follow |-> FALSE,
               metronome |-> "off", master |-> "unity", card |-> FALSE,
               holds |-> 0, mix |-> UnityMix]
  /\ tool = FALSE
  /\ stopEvent = FALSE
  /\ taps = 0
  /\ user = [mix |-> UnityMix, master |-> "unity", name |-> FirstName]

-----------------------------------------------------------------------------
(* Native commands, as what they do to the engine.                         *)

Ask(kind, p, ok, arg) ==
  [kind |-> kind, player |-> p, session |-> players[p].session, ok |-> ok,
   arg |-> arg]

\* A clear that fails leaves the engine's loop; `stray` remembers that it did.
WithLoopCleared(e, ok) ==
  IF ok THEN [e EXCEPT !.loop = "none", !.stray = FALSE]
        ELSE [e EXCEPT !.stray = e.stray \/ e.loop # "none"]

stopClick(e) ==
  [e EXCEPT !.follow = FALSE, !.grid = "none", !.metronome = "off"]

teardownTracks(e, pl) ==
  [e EXCEPT !.tracks = IF pl.requested THEN "none" ELSE @,
            !.mix = IF pl.requested THEN UnityMix ELSE @,
            !.master = IF pl.master = "none" THEN @ ELSE pl.master]

\* mixerSession's teardown: click, card, mixer, loop, tracks, in that order.
teardown(e, pl, clearOk) ==
  LET quiet == IF pl.click THEN stopClick(e) ELSE e
      stopped == [quiet EXCEPT !.card = FALSE, !.playing = FALSE]
      unlooped == IF LoopOn(pl) THEN WithLoopCleared(stopped, clearOk)
                                ELSE stopped
  IN teardownTracks(unlooped, pl)

\* What the teardown leaves of the player itself.
torn(pl) == [pl EXCEPT !.scrub = FALSE, !.requested = FALSE, !.master = "none"]

DbCall(kind, p, session, arg) ==
  [kind |-> kind, player |-> p, session |-> session, arg |-> arg]

\* Mutant: the teardown cancels the pending save instead of flushing it.
flushedNot(d) == [d EXCEPT !.pending = {}]

\* beforeTeardown of the stem player: the saver writes now what it holds.
flushed(d) ==
  IF d.pending = {} THEN d
  ELSE [d EXCEPT !.queue = Append(@, DbCall("save", "stem", NoSession,
                                           CHOOSE m \in d.pending : TRUE)),
                 !.pending = {}]

-----------------------------------------------------------------------------
(* Sessions                                                                *)

\* What close leaves of a player: the session is over before the teardown.
closed(pl) ==
  [closedState(torn(pl), "idle") EXCEPT
     !.session = @ + 1, !.hold = FALSE, !.sub = FALSE]

release(c, p) == IF c = p THEN "none" ELSE c

\* A row that goes takes its name editor along.  React runs the layout cleanups
\* of a screen before those of its children: the screen's release has emptied
\* the store when the editor's cleanup saves, and renameStem finds no row.
EditorLeaves(resets) ==
  IF resets /\ editing # "none"
  THEN /\ editing' = "none"
       /\ \E typed \in Names : user' = [user EXCEPT !.name = typed]
  ELSE UNCHANGED <<editing, user>>

close(p, clearOk) ==
  IF IsOpen(p)
  THEN /\ claim' = release(claim, p)
       /\ players' = [players EXCEPT ![p] = closed(@)]
       /\ engine' = [teardown(engine, players[p], clearOk) EXCEPT
                       !.holds = @ - 1]
       /\ db' = IF p = "stem" THEN flushed(db) ELSE db
       /\ EditorLeaves(p = "stem")
  ELSE UNCHANGED <<claim, players, engine, db, editing, user>>

Opens == players["stem"].session + players["song"].session

\* begin: tear down what this player had, take the engine, claim the mixer
\* (which closes the other player), and start the next session.
begin(p, clearOk) ==
  LET q == Other(p)
      own == IF IsOpen(p) THEN teardown(engine, players[p], clearOk) ELSE engine
      held == IF players[p].hold THEN own ELSE [own EXCEPT !.holds = @ + 1]
      closes == claim = q /\ IsOpen(q)
      mine == IF IsOpen(p) THEN torn(players[p]) ELSE players[p]
      fresh == [closedState(mine, "loading") EXCEPT
                  !.session = @ + 1, !.hold = TRUE, !.sub = TRUE]
  IN /\ claim' = p
     /\ engine' = IF closes
                  THEN [teardown(held, players[q], clearOk) EXCEPT
                          !.holds = @ - 1]
                  ELSE held
     /\ players' = [players EXCEPT ![p] = fresh,
                                   ![q] = IF closes THEN closed(@) ELSE @]
     /\ db' = LET saved == IF (p = "stem" /\ IsOpen(p)) \/ (q = "stem" /\ closes)
                           THEN flushed(db) ELSE db
              IN [saved EXCEPT !.queue = Append(@,
                    DbCall("read", p, players[p].session + 1, {}))]
     /\ EditorLeaves(p = "stem" \/ closes)

-----------------------------------------------------------------------------
(* Screens: useFocusedMixerHold's two layout effects.                      *)

\* Mutant: a hold counts as live although its session was displaced.
HoldAnySession(s) == screens[s].held # NoSession

HoldLive(s) == screens[s].held # NoSession /\ Live(PlayerOf[s], screens[s].held)

\* ensureHeld, run when a screen gains the focus.
ensureHeld(s, others, clearOk) ==
  /\ top' = s
  /\ IF HoldLive(s)
     THEN /\ screens' = [others EXCEPT ![s].mounted = TRUE, ![s].focused = TRUE]
          /\ UNCHANGED <<claim, players, engine, db, editing, user>>
     ELSE /\ Opens < MaxOpens /\ Opens + taps < MaxWork
          /\ begin(PlayerOf[s], clearOk)
          /\ screens' = [others EXCEPT ![s] =
                           [mounted |-> TRUE, focused |-> TRUE,
                            held |-> players[PlayerOf[s]].session + 1]]

Blurred == [s \in Screens |-> [screens[s] EXCEPT !.focused = FALSE]]

\* A screen is pushed, or brought back on top: the others lose the focus.
Focus(s) ==
  /\ ~screens[s].focused
  /\ \E clearOk \in BOOLEAN : ensureHeld(s, Blurred, clearOk)
  /\ UNCHANGED <<answers, tool, stopEvent, taps>>

\* An Activity relaunch mounts the new screen before the old one unmounts.
Relaunch(s) ==
  /\ ~screens[s].mounted
  /\ \E old \in Screens : screens[old].focused
  /\ \E clearOk \in BOOLEAN : ensureHeld(s, screens, clearOk)
  /\ UNCHANGED <<answers, tool, stopEvent, taps>>

\* Another screen of the app (settings, a sheet) comes on top.
Blur ==
  /\ top # "none"
  /\ screens' = Blurred
  /\ top' = "none"
  /\ UNCHANGED <<claim, players, editing, answers, db, engine, tool, stopEvent,
                 taps, user>>

\* The effect's cleanup: only the session this screen acquired is closed.
Unmount(s) ==
  /\ screens[s].mounted
  /\ screens' = [screens EXCEPT ![s] =
                   [mounted |-> FALSE, focused |-> FALSE, held |-> NoSession]]
  /\ top' = IF top = s THEN "none" ELSE top
  /\ IF HoldLive(s) THEN \E clearOk \in BOOLEAN : close(PlayerOf[s], clearOk)
     ELSE UNCHANGED <<claim, players, engine, db, editing, user>>
  /\ UNCHANGED <<answers, tool, stopEvent, taps>>

\* The tool is switched off in the settings: its player closes.
StopTool(p) ==
  /\ top = "none" /\ IsOpen(p)
  /\ \E clearOk \in BOOLEAN : close(p, clearOk)
  /\ UNCHANGED <<screens, top, answers, tool, stopEvent, taps>>

-----------------------------------------------------------------------------
(* Loading                                                                 *)

Oldest(q) == Head(q)

ReleaseShared(e) == IF tool THEN [e EXCEPT !.metronome = "off"] ELSE e

\* startEngine: the metronome tool gives the engine up, the engine starts.
StartEngine(p, startOk) ==
  /\ engine' = ReleaseShared(engine)
  /\ tool' = FALSE
  /\ answers' = Append(answers, Ask("start", p, startOk, "none"))

\* The next database call finishes.
DbRead ==
  /\ db.queue # <<>> /\ Oldest(db.queue).kind = "read"
  /\ LET call == Oldest(db.queue)
         p == call.player
     IN \E outcome \in {"found", "missing", "rejected"} :
          /\ db' = [db EXCEPT !.queue = Tail(@)]
          /\ IF ~Live(p, call.session)
             THEN UNCHANGED <<players, engine, tool, answers>>
             ELSE IF outcome = "found"
             THEN /\ \E ok \in BOOLEAN : StartEngine(p, ok)
                  /\ players' = IF p = "song" THEN players
                                ELSE [players EXCEPT ![p].mix = db.mix,
                                                     ![p].name = db.name]
             ELSE /\ players' = [players EXCEPT ![p].status =
                        IF outcome = "missing" THEN "missing" ELSE "failed"]
                  /\ UNCHANGED <<engine, tool, answers>>
  /\ UNCHANGED <<claim, screens, top, editing, stopEvent, taps, user>>

DbSave ==
  /\ db.queue # <<>> /\ Oldest(db.queue).kind = "save"
  /\ \E ok \in BOOLEAN :
       db' = [db EXCEPT !.queue = Tail(@),
                        !.mix = IF ok THEN Oldest(db.queue).arg ELSE @,
                        !.lost = ~ok]
  /\ UNCHANGED <<claim, players, screens, top, editing, answers, engine, tool, stopEvent,
                 taps, user>>

\* A rename that fails puts the row's name of before it back.
DbRename ==
  /\ db.queue # <<>> /\ Oldest(db.queue).kind = "rename"
  /\ LET call == Oldest(db.queue)
     IN \E ok \in BOOLEAN :
          /\ db' = [db EXCEPT !.queue = Tail(@),
                              !.name = IF ok THEN call.arg.to ELSE @,
                              !.unnamed = ~ok]
          /\ players' = IF ok \/ ~Live("stem", call.session) THEN players
                        ELSE [players EXCEPT !["stem"].name = call.arg.from]
  /\ UNCHANGED <<claim, screens, top, editing, answers, engine, tool, stopEvent,
                 taps, user>>

\* Takes the oldest answer; a continuation may add the call it makes.
Answered(kind) == answers # <<>> /\ Oldest(answers).kind = kind
Then(call) == answers' = Append(Tail(answers), call)
Done == answers' = Tail(answers)
Fail(p) == players' = [players EXCEPT ![p].status = "failed"]
LoadFrame ==
  UNCHANGED <<claim, screens, top, editing, db, tool, stopEvent, taps, user>>

\* await commands.start(), then clear a loop a failed clear left behind.
StartAnswered ==
  /\ Answered("start")
  /\ LET a == Oldest(answers)
         p == a.player
     IN IF ~Live(p, a.session)
        THEN Done /\ UNCHANGED <<players, engine>>
        ELSE IF ~a.ok
        THEN Done /\ Fail(p) /\ UNCHANGED engine
        ELSE \E ok \in BOOLEAN :
               /\ Then(Ask("cleared", p, ok, "none"))
               /\ engine' = WithLoopCleared(engine, ok)
               /\ UNCHANGED players
  /\ LoadFrame

\* Mutant: the tracks are noted as requested only once they have loaded.
ClearAnsweredLate ==
  /\ Answered("cleared")
  /\ LET a == Oldest(answers)
         p == a.player
     IN IF ~Live(p, a.session)
        THEN Done /\ UNCHANGED engine
        ELSE IF p = "stem"
        THEN /\ engine' = [engine EXCEPT !.tracks = p]
             /\ Then(Ask("tracks", p, TRUE, "none"))
        ELSE /\ \E ok \in BOOLEAN : Then(Ask("master", p, ok, engine.master))
             /\ UNCHANGED engine
  /\ UNCHANGED players
  /\ LoadFrame

\* The stem player loads every row's track; the song player asks the master
\* level first.  Tracks are requested before anything is awaited, so whoever
\* tears the session down unloads them.
ClearAnswered ==
  /\ Answered("cleared")
  /\ LET a == Oldest(answers)
         p == a.player
     IN IF ~Live(p, a.session)
        THEN Done /\ UNCHANGED <<players, engine>>
        ELSE IF p = "stem"
        THEN /\ players' = [players EXCEPT ![p].requested = TRUE]
             /\ engine' = [engine EXCEPT !.tracks = p]
             /\ Then(Ask("tracks", p, TRUE, "none"))
        ELSE /\ \E ok \in BOOLEAN : Then(Ask("master", p, ok, engine.master))
             /\ UNCHANGED <<players, engine>>
  /\ LoadFrame

\* Every track answered: a live session's rows are sent to the mixer, and the
\* master level is asked even for a session that is over.
TracksAnswered ==
  /\ Answered("tracks")
  /\ LET a == Oldest(answers)
     IN /\ engine' = IF Live("stem", a.session)
                     THEN [engine EXCEPT !.mix = players["stem"].mix]
                     ELSE engine
        /\ \E ok \in BOOLEAN :
             answers' = Append(Tail(answers),
                               [a EXCEPT !.kind = "master", !.ok = ok,
                                         !.arg = engine.master])
  /\ UNCHANGED players
  /\ LoadFrame

\* mixerMasterGain: the stem player is ready; the song player takes the level
\* down to unity, remembers it, and loads its one track.
MasterAnswered ==
  /\ Answered("master")
  /\ LET a == Oldest(answers)
         p == a.player
     IN IF ~Live(p, a.session)
        THEN Done /\ UNCHANGED <<players, engine>>
        ELSE IF ~a.ok
        THEN Done /\ Fail(p) /\ UNCHANGED engine
        ELSE IF p = "stem"
        THEN /\ Done
             /\ players' = [players EXCEPT ![p].status = "ready"]
             /\ UNCHANGED engine
        ELSE /\ players' = [players EXCEPT ![p].master = a.arg,
                                           ![p].requested = TRUE]
             /\ engine' = [engine EXCEPT !.master = "unity", !.tracks = p]
             /\ \E ok \in BOOLEAN : Then(Ask("track", p, ok, "none"))
  /\ LoadFrame

\* The song's track and then its length; no track or no length fails the song.
TrackAnswered ==
  /\ Answered("track")
  /\ LET a == Oldest(answers)
     IN IF ~Live("song", a.session)
        THEN Done /\ UNCHANGED players
        ELSE IF ~a.ok
        THEN Done /\ Fail("song")
        ELSE /\ \E ok \in BOOLEAN : Then(Ask("frames", "song", ok, "none"))
             /\ UNCHANGED players
  /\ UNCHANGED engine
  /\ LoadFrame

\* Mutant: a song whose length is not known is given up without saying so.
FramesAnsweredQuietly ==
  /\ Answered("frames")
  /\ Done
  /\ LET a == Oldest(answers)
     IN players' = IF ~Live("song", a.session) \/ ~a.ok THEN players
                   ELSE [players EXCEPT !["song"].status = "ready"]
  /\ UNCHANGED engine
  /\ LoadFrame

FramesAnswered ==
  /\ Answered("frames")
  /\ Done
  /\ LET a == Oldest(answers)
     IN players' = IF ~Live("song", a.session) THEN players
                   ELSE [players EXCEPT !["song"].status =
                           IF a.ok THEN "ready" ELSE "failed"]
  /\ UNCHANGED engine
  /\ LoadFrame

-----------------------------------------------------------------------------
(* Taps: the controls of the screen on top, once its song is ready.        *)

Tap(p) ==
  /\ top # "none" /\ PlayerOf[top] = p /\ Ready(p)
  /\ taps < MaxTaps /\ Opens + taps < MaxWork
  /\ taps' = taps + 1
  /\ UNCHANGED <<claim, screens, top, stopEvent>>

Playing(p) == Tap(p) /\ UNCHANGED editing

\* update + saveRow for every row that changed, and the same to the engine.
WithMix(mix) ==
  /\ players' = [players EXCEPT !["stem"].mix = mix]
  /\ engine' = [engine EXCEPT !.mix = mix]
  /\ db' = IF mix = players["stem"].mix THEN db
           ELSE [db EXCEPT !.pending = {mix}]
  /\ user' = [user EXCEPT !.mix = mix]
  /\ UNCHANGED <<answers, tool>>

SetGain(s) ==
  /\ Playing("stem")
  /\ \E gain \in {"unity", "low"} :
       WithMix([players["stem"].mix EXCEPT ![s].gain = gain])

\* A muted row cannot stay soloed.
toggleMute(row) ==
  [row EXCEPT !.muted = ~row.muted, !.soloed = row.muted /\ row.soloed]

ToggleMute(s) ==
  /\ Playing("stem")
  /\ WithMix([players["stem"].mix EXCEPT ![s] = toggleMute(@)])

\* A solo tap: alone unless it is the only one, or added to the others.
soloAfter(soloed, s, additive) ==
  IF additive THEN [soloed EXCEPT ![s] = ~@]
  ELSE LET alone == \A t \in Stems : soloed[t] <=> t = s
       IN [t \in Stems |-> ~alone /\ t = s]

\* A row that becomes soloed is unmuted.
soloed(mix, s, additive) ==
  LET on == soloAfter([t \in Stems |-> mix[t].soloed], s, additive)
  IN [t \in Stems |->
        [mix[t] EXCEPT !.soloed = on[t],
                       !.muted = @ /\ (on[t] => mix[t].soloed)]]

Solo(s) ==
  /\ Playing("stem")
  /\ \E additive \in BOOLEAN :
       WithMix(soloed(players["stem"].mix, s, additive))

SetMasterGain ==
  /\ Playing("stem")
  /\ \E gain \in {"unity", "low"} :
       /\ engine' = [engine EXCEPT !.master = gain]
       /\ user' = [user EXCEPT !.master = gain]
  /\ UNCHANGED <<players, answers, db, tool>>

ResetMix ==
  /\ Playing("stem")
  /\ players' = [players EXCEPT !["stem"].mix = UnityMix]
  /\ engine' = [engine EXCEPT !.mix = UnityMix, !.master = "unity"]
  /\ db' = [db EXCEPT !.pending = {UnityMix}]
  /\ user' = [user EXCEPT !.mix = UnityMix, !.master = "unity"]
  /\ UNCHANGED <<answers, tool>>

\* The row's name: edited in place, stored when the editor ends by itself, left
\* when Back (or the keyboard's) cancels it.
StartRename ==
  /\ Tap("stem") /\ editing = "none"
  /\ editing' = top
  /\ UNCHANGED <<players, answers, db, engine, tool, user>>

renameStem(name) ==
  LET row == players["stem"].name
  IN IF name = row THEN UNCHANGED <<players, db>>
     ELSE /\ players' = [players EXCEPT !["stem"].name = name]
          /\ db' = [db EXCEPT !.queue = Append(@,
                      DbCall("rename", "stem", players["stem"].session,
                             [from |-> row, to |-> name]))]

FinishRename ==
  /\ editing # "none" /\ editing = top /\ Ready("stem")
  /\ \/ \E name \in Names : /\ renameStem(name)
                             /\ user' = [user EXCEPT !.name = name]
     \/ UNCHANGED <<players, db, user>>
  /\ editing' = "none"
  /\ UNCHANGED <<claim, screens, top, answers, engine, tool, stopEvent, taps>>

\* Play (from the start when the song is over, which seeks) or pause.
TogglePlay(p) ==
  /\ Playing(p)
  /\ IF engine.playing
     THEN engine' = [engine EXCEPT !.playing = FALSE] /\ UNCHANGED players
     ELSE /\ engine' = [engine EXCEPT !.playing = TRUE, !.card = TRUE]
          /\ \E over \in BOOLEAN :
               players' = [players EXCEPT ![p].scrub = @ /\ ~over]
  /\ UNCHANGED <<answers, db, tool, user>>

Scrub(p) ==
  /\ Playing(p)
  /\ players' = [players EXCEPT ![p].scrub = TRUE]
  /\ UNCHANGED <<answers, db, engine, tool, user>>

\* seek, skip and a cancelled scrub drop the seek a scrub had pending.
Seek(p) ==
  /\ Playing(p)
  /\ players' = [players EXCEPT ![p].scrub = FALSE]
  /\ UNCHANGED <<answers, db, engine, tool, user>>

\* setLoop's call: the gate is busy for this session until it answers.
AskSetLoop(p, l, then) ==
  \E ok \in BOOLEAN :
    /\ answers' = Append(answers, Ask("setLoop", p, ok,
                                      [loop |-> l, then |-> then,
                                       was |-> players[p].loop,
                                       undo |-> players[p].undo]))
    /\ engine' = IF ok THEN [engine EXCEPT !.loop = l, !.stray = FALSE]
                       ELSE engine
    /\ players' = [players EXCEPT ![p].loopBusy = players[p].session]

AskClearLoop(p, undoable) ==
  \E ok \in BOOLEAN :
    /\ answers' = Append(answers, Ask("clearLoop", p, ok, undoable))
    /\ engine' = WithLoopCleared(engine, ok)
    /\ players' = [players EXCEPT ![p].loopBusy = players[p].session]

busy(p) == players[p].loopBusy = players[p].session

\* The loop key: off arms, armed sets (or is refused as too short), on clears.
MarkLoop(p) ==
  /\ Playing(p) /\ ~busy(p)
  /\ CASE LoopOn(players[p]) -> AskClearLoop(p, "none")
       [] players[p].loop = "off" ->
            /\ players' = [players EXCEPT ![p].loop = "armed",
                                          ![p].undo = "none"]
            /\ UNCHANGED <<answers, engine>>
       [] OTHER ->
            \/ \E l \in Loops : AskSetLoop(p, l, "none")
            \/ /\ players' = [players EXCEPT ![p].loop = "off"]
               /\ UNCHANGED <<answers, engine>>
  /\ UNCHANGED <<db, tool, user>>

UndoLoop ==
  /\ Playing("stem") /\ ~busy("stem")
  /\ players["stem"].undo # "none"
  /\ AskSetLoop("stem", players["stem"].undo, "undo")
  /\ UNCHANGED <<db, tool, user>>

DismissLoopUndo ==
  /\ Playing("stem")
  /\ players' = [players EXCEPT !["stem"].undo = "none"]
  /\ UNCHANGED <<answers, db, engine, tool, user>>

\* A section outside the loop drops the loop first, and can be undone.
JumpToSection ==
  /\ Playing("stem") /\ ~busy("stem")
  /\ \/ LoopOn(players["stem"]) /\ AskClearLoop("stem", players["stem"].loop)
     \/ /\ players' = [players EXCEPT !["stem"].scrub = FALSE]
        /\ UNCHANGED <<answers, engine>>
  /\ UNCHANGED <<db, tool, user>>

LoopSection(l) ==
  /\ Playing("stem") /\ ~busy("stem")
  /\ AskSetLoop("stem", l, "section")
  /\ UNCHANGED <<db, tool, user>>

gateFreed(p, a) ==
  IF players[p].loopBusy = a.session THEN NoSession ELSE players[p].loopBusy

\* refuse: a loop that was on stays, an armed one is dropped.
refused(pl) == IF LoopOn(pl) THEN pl.loop ELSE "off"

SetLoopAnswered ==
  /\ Answered("setLoop") /\ Done
  /\ LET a == Oldest(answers)
         p == a.player
         freed == [players EXCEPT ![p].loopBusy = gateFreed(p, a)]
         undo == CASE a.arg.then = "undo" -> "none"
                   [] a.arg.then = "section" ->
                        IF a.arg.was \in Loops THEN a.arg.was ELSE a.arg.undo
                   [] OTHER -> players[p].undo
     IN IF ~Live(p, a.session)
        THEN /\ players' = freed
             /\ IF a.ok THEN \E ok \in BOOLEAN :
                               engine' = WithLoopCleared(engine, ok)
                ELSE UNCHANGED engine
        ELSE /\ players' = IF a.ok
                           THEN [freed EXCEPT
                                   ![p].loop = a.arg.loop, ![p].undo = undo,
                                   ![p].scrub = @ /\ a.arg.then # "section"]
                           ELSE [freed EXCEPT ![p].loop = refused(players[p])]
             /\ UNCHANGED engine
  /\ LoadFrame

\* A cleared loop may be undone, and jumpToSection goes on with its seek.
ClearLoopAnswered ==
  /\ Answered("clearLoop") /\ Done
  /\ LET a == Oldest(answers)
         p == a.player
         freed == [players EXCEPT ![p].loopBusy = gateFreed(p, a)]
     IN players' = IF Live(p, a.session) /\ a.ok
                   THEN [freed EXCEPT ![p].loop = "off", ![p].undo = a.arg,
                                      ![p].scrub = @ /\ a.arg = "none"]
                   ELSE freed
  /\ UNCHANGED engine
  /\ LoadFrame

\* The click key: off at once, on when the engine has taken the grid.
ToggleClick(p) ==
  /\ Playing(p) /\ players[p].clickBusy # players[p].session
  /\ IF players[p].click
     THEN /\ players' = [players EXCEPT ![p].click = FALSE]
          /\ engine' = stopClick(engine)
          /\ UNCHANGED <<answers, tool>>
     ELSE \E ok \in BOOLEAN :
          /\ players' = [players EXCEPT ![p].clickBusy = players[p].session]
          /\ tool' = FALSE
          /\ engine' = LET e == ReleaseShared(engine)
                       IN IF ok THEN [e EXCEPT !.grid = p] ELSE e
          /\ answers' = Append(answers, Ask("grid", p, ok, "none"))
  /\ UNCHANGED <<db, user>>

\* Mutant: the answer is not checked against the session that asked.
GridAnsweredByAnyone ==
  /\ Answered("grid") /\ Done
  /\ LET p == Oldest(answers).player
         freed == [players EXCEPT ![p].clickBusy = NoSession]
     IN IF ~Oldest(answers).ok THEN players' = freed /\ UNCHANGED engine
        ELSE /\ players' = [freed EXCEPT ![p].click = TRUE]
             /\ engine' = [engine EXCEPT !.follow = TRUE, !.metronome = "click"]
  /\ LoadFrame

GridAnswered ==
  /\ Answered("grid") /\ Done
  /\ LET a == Oldest(answers)
         p == a.player
         freed == [players EXCEPT ![p].clickBusy =
                     IF @ = a.session THEN NoSession ELSE @]
     IN IF ~a.ok THEN players' = freed /\ UNCHANGED engine
        ELSE IF ~Live(p, a.session) \/ ~Ready(p)
        THEN players' = freed /\ engine' = [engine EXCEPT !.grid = "none"]
        ELSE /\ players' = [freed EXCEPT ![p].click = TRUE]
             /\ engine' = [engine EXCEPT !.follow = TRUE, !.metronome = "click"]
  /\ LoadFrame

-----------------------------------------------------------------------------
(* Timers, the card's Stop and the metronome tool.                         *)

ScrubFires(p) ==
  /\ players[p].scrub
  /\ players' = [players EXCEPT ![p].scrub = FALSE]
  /\ UNCHANGED <<claim, screens, top, editing, answers, db, engine, tool, stopEvent,
                 taps, user>>

SaverFires ==
  /\ db.pending # {}
  /\ db' = flushed(db)
  /\ UNCHANGED <<claim, players, screens, top, editing, answers, engine, tool, stopEvent,
                 taps, user>>

\* The notification's Stop: native stops the song and tells JavaScript.
CardStop ==
  /\ engine.card
  /\ engine' = [engine EXCEPT !.card = FALSE, !.playing = FALSE]
  /\ stopEvent' = TRUE
  /\ UNCHANGED <<claim, players, screens, top, editing, answers, db, tool, taps, user>>

\* onSongStopped: every subscribed player turns its click off.
SongStopped ==
  /\ stopEvent
  /\ stopEvent' = FALSE
  /\ LET clicking == {p \in Players : players[p].sub /\ players[p].click}
     IN /\ players' = [p \in Players |->
                         [players[p] EXCEPT !.click = @ /\ p \notin clicking]]
        /\ engine' = IF clicking = {} THEN engine ELSE stopClick(engine)
  /\ UNCHANGED <<claim, screens, top, editing, answers, db, tool, taps, user>>

\* The song ends by itself: the mixer stops at its last frame.
SongEnds ==
  /\ engine.playing
  /\ engine' = [engine EXCEPT !.playing = FALSE]
  /\ UNCHANGED <<claim, players, screens, top, editing, answers, db, tool, stopEvent,
                 taps, user>>

\* The metronome tool, which no player screen is mounted under.
ToolStarts ==
  /\ ~tool /\ \A s \in Screens : ~screens[s].mounted
  /\ tool' = TRUE
  /\ engine' = [engine EXCEPT !.metronome = "tool"]
  /\ UNCHANGED <<claim, players, screens, top, editing, answers, db, stopEvent, taps,
                 user>>

AnAnswer ==
  \/ StartAnswered \/ ClearAnswered \/ TracksAnswered \/ MasterAnswered
  \/ TrackAnswered \/ FramesAnswered \/ SetLoopAnswered \/ ClearLoopAnswered
  \/ GridAnswered

ATap ==
  \/ \E s \in Stems : SetGain(s) \/ ToggleMute(s) \/ Solo(s)
  \/ SetMasterGain \/ ResetMix \/ StartRename \/ FinishRename
  \/ \E p \in Players : \/ TogglePlay(p) \/ Scrub(p) \/ Seek(p)
                        \/ MarkLoop(p) \/ ToggleClick(p)
  \/ UndoLoop \/ DismissLoopUndo \/ JumpToSection
  \/ \E l \in Loops : LoopSection(l)

SessionNext ==
  \/ \E s \in Screens : Focus(s) \/ Relaunch(s) \/ Unmount(s)
  \/ Blur
  \/ \E p \in Players : StopTool(p) \/ ScrubFires(p)
  \/ DbRead \/ DbSave \/ DbRename \/ AnAnswer \/ ATap
  \/ SaverFires \/ CardStop \/ SongStopped \/ SongEnds \/ ToolStarts

\* Native answers and database calls are not lost: promises settle.
SessionFairness ==
  /\ WF_sessionVars(AnAnswer) /\ WF_sessionVars(DbRead)
  /\ WF_sessionVars(DbSave) /\ WF_sessionVars(DbRename)

SessionSpec == SessionInit /\ [][SessionNext]_sessionVars /\ SessionFairness
-----------------------------------------------------------------------------
(* Properties                                                              *)

Pending(kinds) == \E i \in 1 .. Len(answers) : answers[i].kind \in kinds

SessionTypeOK ==
  /\ claim \in Players \cup {"none"}
  /\ \A p \in Players :
       /\ players[p].status \in {"idle", "loading", "ready", "missing", "failed"}
       /\ players[p].loop \in {"off", "armed"} \cup Loops
       /\ players[p].mix \in [Stems -> Row]
  /\ top \in Screens \cup {"none"}
  /\ engine.metronome \in {"off", "click", "tool"}

\* The screen focused last holds the live session of its player and that
\* player holds the mixer, however screens were pushed, relaunched, unmounted
\* or displaced before (screenHold.ts, "a release only closes the session it
\* acquired").
FocusedScreenOwns ==
  top # "none" => HoldLive(top) /\ claim = PlayerOf[top] /\ IsOpen(PlayerOf[top])

\* Exactly the open player holds the mixer and one engine hold.
OneOwner ==
  /\ \A p \in Players : IsOpen(p) <=> claim = p
  /\ engine.holds = Cardinality({p \in Players : IsOpen(p)})

\* A closed player keeps no timer, subscription, track, hold or level.
ClosedKeepsNothing ==
  \A p \in Players :
    ~IsOpen(p) => /\ ~players[p].scrub /\ ~players[p].sub /\ ~players[p].hold
                  /\ engine.tracks # p
                  /\ players[p].master = "none"

\* With no song open the mixer is silent and nothing of a song is left in the
\* engine: no card, no grid, no click, and no loop unless clearing it failed.
EngineLeftClean ==
  claim = "none" =>
    /\ ~engine.playing /\ ~engine.card /\ ~engine.follow
    /\ engine.metronome # "click"
    /\ Pending({"grid"}) \/ engine.grid = "none"
    /\ Pending({"setLoop"}) \/ engine.loop = "none" \/ engine.stray

NothingLeftBehind == OneOwner /\ ClosedKeepsNothing /\ EngineLeftClean

\* The loop a ready player shows is the loop the engine plays, once its call
\* answered: a shown loop is set, and a hidden one is not (unless every clear
\* of it failed).
LoopShown ==
  \A p \in Players :
    Ready(p) /\ ~Pending({"setLoop", "clearLoop"}) =>
      IF LoopOn(players[p]) THEN engine.loop = players[p].loop
      ELSE engine.loop = "none" \/ engine.stray

\* The click a player shows is the click that sounds, on its own song's grid;
\* with no click shown the mixer drives no metronome and keeps no grid.
ClickShown ==
  /\ \A p \in Players :
       players[p].click => /\ claim = p /\ engine.grid = p
                           /\ engine.follow /\ engine.metronome = "click"
  /\ (\A p \in Players : ~players[p].click) =>
       /\ ~engine.follow /\ engine.metronome # "click"
       /\ Pending({"grid"}) \/ engine.grid = "none"

\* A ready song plays its own tracks at the mix its screen shows, and no row is
\* both muted and soloed.
MixShown ==
  \A p \in Players :
    /\ Ready(p) => engine.tracks = p /\ engine.mix = players[p].mix
    /\ \A s \in Stems : ~(players[p].mix[s].muted /\ players[p].mix[s].soloed)

ShownIsHeard == LoopShown /\ ClickShown /\ MixShown

\* The master level the stem player was left at is what it comes back to: a
\* song, which plays at unity, restores it however its session ends.
MasterKept == players["song"].master = "none" => engine.master = user.master

\* A stem song opens with the mix it was left with, however it was left and
\* however soon it is reopened, unless the save itself failed.
MixSaved == Ready("stem") /\ ~db.lost => players["stem"].mix = user.mix

\* A name the user typed and did not cancel is stored, however the screen was
\* left (StemNameEditor.tsx: "leaving the player mid-edit still stores the name").
NameStored ==
  editing = "none" /\ ~db.unnamed
    /\ (\A i \in 1 .. Len(db.queue) : db.queue[i].kind # "rename")
  => db.name = user.name

LevelsKept == MasterKept /\ MixSaved

\* The screen in front has the mixer, a player that lost it leaves nothing
\* behind, what it shows is what sounds, and the levels set are stored
\* (core-state player/, stemPlayer/, mixerClaim.ts).
MixerHasOneOwner ==
  SessionTypeOK /\ FocusedScreenOwns /\ NothingLeftBehind /\ ShownIsHeard /\ LevelsKept

\* A song that opens comes to be ready, missing or failed, or is displaced:
\* no answer that is dropped or displaced leaves it loading for ever.
LoadSettles ==
  \A p \in Players :
    players[p].status = "loading" ~> players[p].status # "loading"
=============================================================================
