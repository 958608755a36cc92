----------------------------- MODULE HomeTools -----------------------------
(***************************************************************************)
(* Home and the switches of the tools.  The user arranges the tiles of     *)
(* Home in a sheet, by dragging, by buttons or by a screen reader's        *)
(* actions; under Settings a tool can be switched off, which takes its     *)
(* tile from Home, its routes from the navigation and its sound from the   *)
(* engine, and deletes nothing.  Arrangement, switches and the last tool   *)
(* are preferences: written behind the store, read once when the process   *)
(* starts, the arrangement possibly by a version with other tools.         *)
(***************************************************************************)
EXTENDS Naturals, Integers
LOCAL INSTANCE SequencesExt

CONSTANTS
  Roster,      \* BUILT_TOOLS in their order
  Stoppable,   \* those that sound: the keys of toolStoppers
  Stays,       \* those that go on when their screen is left
  Older,       \* arrangements another version may have stored
  Travels, Pitches,             \* what a drag covers, what layout measured
  MaxOps, MaxDepth, MaxRestarts \* bounds

VARIABLES
  saved,     \* the home layout store's arrangement, <<>> until one is made
  off,       \* the tools store's list, as a set
  last,      \* the last-tool store
  drop,      \* a drop posted to the JavaScript thread, with its closure
  arranging, \* the sheet is open
  stack,     \* the navigator's routes, the last one focused
  sounding,  \* what the engine plays, by tool
  disk,      \* the preferences as stored
  writes,    \* the writes of the last commit, in the order they are queued
  ops, restarts   \* what is left of the bounds

storeVars == <<saved, off, last>>
diskVars  == <<disk, writes>>
vars == <<saved, off, last, drop, arranging, stack, sounding, disk, writes,
          ops, restarts>>

Tools == ToSet(Roster)
NoTool == "none"
NoDrop == [tool |-> NoTool]

-----------------------------------------------------------------------------
(* The tools that are on.                                                  *)

\* Home needs a tool: with every one off it reads as every one on.
toolsOn(offs) == IF Tools \subseteq offs THEN Tools ELSE Tools \ offs

\* What is not on the roster is no switch's business.
toolOnTest(offs) == [t \in Tools |-> t \in toolsOn(offs)]
IsOn(t, offs) == t \in Tools => toolOnTest(offs)[t]

\* The list after a switch; the last one on stays on.
switchTool(offs, t, on) ==
  LET stillOn == IF on THEN toolsOn(offs) \cup {t} ELSE toolsOn(offs) \ {t}
  IN  IF stillOn \in {{}, toolsOn(offs)} THEN offs ELSE Tools \ stillOn

\* Home's Continue card: the last tool, unless it is off or unknown.
continueTarget == {t \in Tools : t = last /\ IsOn(t, off)}

-----------------------------------------------------------------------------
(* Arrangements.                                                           *)

visibleTiles(a) == SelectSeq(a, LAMBDA t : ~t.hidden)
hiddenTiles(a)  == SelectSeq(a, LAMBDA t : t.hidden)
without(a, t)   == SelectSeq(a, LAMBDA tile : tile.tool # t)
tilesFor(a, offs) == SelectSeq(a, LAMBDA tile : IsOn(tile.tool, offs))

\* Where a tool stands, 0 when it does not.
IndexOf(a, t) == SelectInSeq(a, LAMBDA tile : tile.tool = t)
Tile(a, t) == a[IndexOf(a, t)]

Clamp(n, lo, hi) == IF n < lo THEN lo ELSE IF n > hi THEN hi ELSE n
\* splice(index, 0, tile): past the end it appends.
Spliced(a, i, tile) == InsertAt(a, Clamp(i, 1, Len(a) + 1), tile)

DEFAULT_ARRANGEMENT ==
  [i \in DOMAIN Roster |-> [tool |-> Roster[i], size |-> "1x1", hidden |-> FALSE]]

isToolTileSize(s) == s \in {"1x1", "2x1"}

\* A stored arrangement against this version's tools: what it does not know
\* is dropped, what is missing is shown after what it shows.
\* Mutant: what is missing is put after everything.
reconcileArrangementLast(stored) ==
  LET known == SelectSeq(stored, LAMBDA t : t.tool \in Tools)
  IN  known \o SelectSeq(DEFAULT_ARRANGEMENT, LAMBDA t : IndexOf(known, t.tool) = 0)
reconcileArrangement(stored) ==
  LET known    == SelectSeq(stored, LAMBDA t : t.tool \in Tools)
      restored == [i \in DOMAIN known |->
                     IF isToolTileSize(known[i].size) THEN known[i]
                       ELSE [known[i] EXCEPT !.size = "1x1"]]
      added    == SelectSeq(DEFAULT_ARRANGEMENT,
                            LAMBDA t : IndexOf(restored, t.tool) = 0)
  IN  visibleTiles(restored) \o added \o hiddenTiles(restored)

homeArrangement(s) == IF s = <<>> THEN DEFAULT_ARRANGEMENT
                        ELSE reconcileArrangement(s)
shownArrangement(s, offs) == tilesFor(homeArrangement(s), offs)

moveTile(a, t, to) ==
  LET visible == visibleTiles(a)
      from    == IndexOf(visible, t)
      target  == Clamp(to, 1, Len(visible))
  IN  IF from = 0 \/ target = from THEN a
        ELSE Spliced(without(visible, t), target, visible[from]) \o hiddenTiles(a)

resizeTile(a, t, size) ==
  [i \in DOMAIN a |-> IF a[i].tool = t THEN [a[i] EXCEPT !.size = size] ELSE a[i]]

hideTile(a, t) ==
  IF IndexOf(visibleTiles(a), t) = 0 THEN a
    ELSE Append(without(a, t), [Tile(a, t) EXCEPT !.hidden = TRUE])

showTile(a, t) ==
  IF IndexOf(hiddenTiles(a), t) = 0 THEN a
    ELSE Append(visibleTiles(a), [Tile(a, t) EXCEPT !.hidden = FALSE])
           \o without(hiddenTiles(a), t)

\* The tools that are off go back to the index they held in their section.
MergedSection(section, into, offs) ==
  LET f[k \in 0 .. Len(section)] ==
        IF k = 0 THEN into
          ELSE IF IsOn(section[k].tool, offs) THEN f[k - 1]
                 ELSE Spliced(f[k - 1], k, section[k])
  IN  f[Len(section)]

\* Mutant: they go behind the others.
withOffTilesLast(full, edited, offs) ==
  LET away(section) == SelectSeq(section, LAMBDA t : ~IsOn(t.tool, offs))
  IN  visibleTiles(edited) \o away(visibleTiles(full))
        \o hiddenTiles(edited) \o away(hiddenTiles(full))
withOffTiles(full, edited, offs) ==
  MergedSection(visibleTiles(full), visibleTiles(edited), offs)
    \o MergedSection(hiddenTiles(full), hiddenTiles(edited), offs)

-----------------------------------------------------------------------------
(* Preferences.                                                            *)

\* JSON and back: a stored text that is no list of tiles reads as none.
encodeArrangement(a) == [key |-> "home_layout", value |-> a]
decodeArrangement(text) == text

\* One preference for each tool, every one written at each switch.
\* Mutant: only the tools that are off are written.
toolsSaveOff(offs) ==
  LET away == SelectSeq(Roster, LAMBDA t : t \in offs)
  IN  [i \in DOMAIN away |-> [key |-> away[i], value |-> FALSE]]
toolsSave(offs) ==
  [i \in DOMAIN Roster |-> [key |-> Roster[i], value |-> Roster[i] \notin offs]]
toolsLoad(d) == {t \in Tools : ~d[t]}

Written(d, ws) == FoldSeq(LAMBDA w, stored : [stored EXCEPT ![w.key] = w.value], d, ws)

\* A commit's writes queue behind the ones before it.
Stored(ws) == disk' = Written(disk, writes) /\ writes' = ws

commitLayout(a) == saved' = a /\ Stored(<<encodeArrangement(a)>>)
commitOff(offs) == off' = offs /\ Stored(toolsSave(offs))

\* Setting what is set writes nothing.
markUsed(t) ==
  IF t = last THEN UNCHANGED <<last, diskVars>>
    ELSE last' = t /\ Stored(<<[key |-> "last_tool", value |-> t]>>)

LoadedFrom(d) ==
  /\ saved' = decodeArrangement(d["home_layout"])
  /\ off' = toolsLoad(d)
  /\ last' = d["last_tool"]

-----------------------------------------------------------------------------
(* Navigation.                                                             *)

Top == Last(stack)

\* A tool's route draws nothing while the tool is off, and on focus goes
\* home instead.
gated(routes) == IF IsOn(Last(routes), off) THEN routes ELSE <<"home">>

\* A player's screen that leaves the stack closes its session.
Left(routes) == sounding' = {t \in sounding : t \in Stays \/ t \in ToSet(routes)}

Goes(routes) == stack' = gated(routes) /\ Left(stack')

\* A route that is pushed mounts, and a tool's route that mounts is the
\* last tool used.
Pushed(route) ==
  /\ Len(stack) < MaxDepth
  /\ Goes(Append(stack, route))
  /\ arranging' = FALSE
  /\ IF route \in Tools /\ IsOn(route, off)
       THEN markUsed(route) ELSE UNCHANGED <<last, diskVars>>
  /\ UNCHANGED <<saved, off, drop>>

\* The tiles of Home and the Continue card.
ToolTiles == {tile.tool : tile \in ToSet(visibleTiles(shownArrangement(saved, off)))}
OpenTool ==
  /\ Top = "home" /\ ~arranging
  /\ \E t \in ToolTiles \cup continueTarget : Pushed(t)

\* Home's app bar, its More tools row, and the row of the settings.
MoreToolsRow == {"tools"}
useSettingsRoutes == [home |-> {"settings"} \cup MoreToolsRow, settings |-> {"tools"}]
OpenSettings ==
  /\ Top \in DOMAIN useSettingsRoutes /\ ~arranging
  /\ \E route \in useSettingsRoutes[Top] : Pushed(route)

\* A link opens any route over what is open, Home's sheet included.
OpenLink == \E route \in Tools \cup {"tools"} : Pushed(route)

\* Back, and a tool opened by a link goes home.
useBackOrHome ==
  /\ ~arranging
  /\ Top # "home"
  /\ Goes(IF Len(stack) > 1 THEN Front(stack) ELSE <<"home">>)
  /\ UNCHANGED <<storeVars, diskVars, drop, arranging>>

-----------------------------------------------------------------------------
(* Arranging Home.                                                         *)

openArrange ==
  /\ Top = "home" /\ ~arranging
  /\ arranging' = TRUE
  /\ UNCHANGED <<storeVars, diskVars, drop, stack, sounding>>

closeArrange ==
  /\ arranging
  /\ arranging' = FALSE
  /\ UNCHANGED <<storeVars, diskVars, drop, stack, sounding>>

\* An edit of the tiles that were drawn, stored with the tools that are off.
onArrange(next, s, offs) ==
  IF next = shownArrangement(s, offs) THEN UNCHANGED <<saved, diskVars>>
    ELSE commitLayout(withOffTiles(homeArrangement(s), next, offs))

\* What a screen reader offers on a row.
arrangeActions(a, tile) ==
  IF tile.hidden THEN {showTile(a, tile.tool)}
    ELSE LET index == IndexOf(visibleTiles(a), tile.tool)
         IN  {moveTile(a, tile.tool, index - 1), moveTile(a, tile.tool, index + 1),
              resizeTile(a, tile.tool, IF tile.size = "1x1" THEN "2x1" ELSE "1x1"),
              hideTile(a, tile.tool)}

ArrangeRow(a, tile) ==
  {resizeTile(a, tile.tool, size) : size \in {"1x1", "2x1"}}
    \cup {hideTile(a, tile.tool)}
HiddenRow(a, tile) == {showTile(a, tile.tool)}
RowLabel(a, tile) == arrangeActions(a, tile)

ArrangeRows ==
  LET shown == shownArrangement(saved, off)
  IN  /\ arranging
      /\ \E tile \in ToSet(shown) :
           \E next \in RowLabel(shown, tile) \cup
                (IF tile.hidden THEN HiddenRow(shown, tile) ELSE ArrangeRow(shown, tile)) :
              onArrange(next, saved, off)
      /\ UNCHANGED <<off, last, drop, arranging, stack, sounding>>

\* Half a row's travel is a row, and an unmeasured row goes nowhere.
reorderTarget(from, travel, pitch, count) ==
  IF pitch = 0 THEN from
    ELSE Clamp(from + ((2 * travel + pitch) \div (2 * pitch)), 1, count)

\* The gesture ends on the user interface thread: what it posts is bound to
\* the arrangement that was drawn then.
useHandleDrag ==
  LET visible == visibleTiles(shownArrangement(saved, off))
  IN  /\ arranging /\ drop = NoDrop
      /\ \E from \in DOMAIN visible, travel \in Travels, pitch \in Pitches :
           LET to == reorderTarget(from, travel, pitch, Len(visible))
           IN  /\ to # from
               /\ drop' = [tool |-> visible[from].tool, to |-> to,
                           saved |-> saved, off |-> off]
      /\ UNCHANGED <<storeVars, diskVars, arranging, stack, sounding>>

handleMove ==
  /\ drop # NoDrop
  /\ onArrange(moveTile(shownArrangement(drop.saved, drop.off), drop.tool, drop.to),
               drop.saved, drop.off)
  /\ drop' = NoDrop
  /\ UNCHANGED <<off, last, arranging, stack, sounding>>

-----------------------------------------------------------------------------
(* The switches.                                                           *)

\* What stops with its tool: a metronome that is active, a player that
\* holds a song.
\* Mutant: every switch stops the tools that were off before it.
stopWhenSwitchedOffLate(before, after) == sounding \cap before
stopWhenSwitchedOff(before, after) == sounding \cap (after \ before)

\* The switched tool's screen may be in the stack under Settings: switched
\* off it is unmounted, switched on again it mounts.
ToolSwitch ==
  /\ Top = "tools"
  /\ \E t \in Tools, on \in BOOLEAN :
       LET next == switchTool(off, t, on)
       IN  /\ next # off
           /\ sounding' = sounding \ stopWhenSwitchedOff(off, next)
           /\ off' = next
           /\ LET mounted == {u \in ToSet(stack) \cap Tools :
                                ~IsOn(u, off) /\ IsOn(u, next) /\ u # last}
                  used == <<[key |-> "last_tool", value |-> t]>>
              IN  /\ last' = IF t \in mounted THEN t ELSE last
                  /\ Stored(toolsSave(next) \o (IF t \in mounted THEN used ELSE <<>>))
  /\ UNCHANGED <<saved, drop, arranging, stack>>

\* A tool is played from its screen, and stops by itself or by the user.
Play ==
  /\ Top \in Stoppable /\ ~arranging
  /\ sounding' = sounding \cup {Top} /\ sounding' # sounding
  /\ UNCHANGED <<storeVars, diskVars, drop, arranging, stack>>

Stop ==
  /\ \E t \in sounding : sounding' = sounding \ {t}
  /\ UNCHANGED <<storeVars, diskVars, drop, arranging, stack>>

-----------------------------------------------------------------------------

\* The process dies with some writes still queued; the next one starts at
\* Home and reads what is stored.
Restart ==
  /\ restarts < MaxRestarts
  /\ restarts' = restarts + 1
  /\ \E n \in 0 .. Len(writes) :
       /\ disk' = Written(disk, SubSeq(writes, 1, n))
       /\ LoadedFrom(disk')
  /\ writes' = <<>> /\ drop' = NoDrop /\ arranging' = FALSE
  /\ stack' = <<"home">> /\ sounding' = {}
  /\ UNCHANGED ops

Init ==
  /\ disk \in {[k \in Tools \cup {"home_layout", "last_tool"} |->
                  IF k = "home_layout" THEN a
                    ELSE IF k = "last_tool" THEN NoTool ELSE TRUE] :
                 a \in Older \cup {<<>>}}
  /\ saved = disk["home_layout"] /\ off = {} /\ last = NoTool
  /\ drop = NoDrop /\ arranging = FALSE
  /\ stack = <<"home">> /\ sounding = {}
  /\ writes = <<>> /\ ops = MaxOps /\ restarts = 0

Touch == ArrangeRows \/ useHandleDrag \/ ToolSwitch \/ Play

Next ==
  \/ ops > 0 /\ ops' = ops - 1 /\ UNCHANGED restarts /\ Touch
  \/ /\ UNCHANGED <<ops, restarts>>
     /\ \/ openArrange \/ closeArrange \/ handleMove \/ Stop
        \/ OpenTool \/ OpenSettings \/ OpenLink \/ useBackOrHome
  \/ Restart

Spec == Init /\ [][Next]_vars

-----------------------------------------------------------------------------
(* Properties.                                                             *)

\* Whatever was stored, edited and switched, Home shows every tool that is
\* on once, the shown ones before the hidden ones, and has something to
\* open; its Continue card never opens a tool that is off.
HomeIsWhole ==
  LET home == homeArrangement(saved)
  IN  /\ \A t \in Tools : Len(SelectSeq(home, LAMBDA x : x.tool = t)) = 1
      /\ Len(home) = Len(Roster)
      /\ \A i, j \in DOMAIN home : home[j].hidden /\ i > j => home[i].hidden
      /\ toolsOn(off) # {} /\ continueTarget \subseteq toolsOn(off)
      /\ ToolTiles \subseteq toolsOn(off)

\* One edit touches one tool: every other tool that is drawn keeps its
\* place and size, and each tool that is off keeps its own, in its section,
\* as long as the section is long enough for it (arrangement.ts says why).
Section(a, t) == IF Tile(a, t).hidden THEN hiddenTiles(a) ELSE visibleTiles(a)
OffKept(from, to, offs) ==
  \A t \in Tools \ toolsOn(offs) :
    LET old   == Section(from, t)
        new   == Section(to, t)
        after == Len(SelectSeq(SubSeq(old, IndexOf(old, t) + 1, Len(old)),
                               LAMBDA x : ~IsOn(x.tool, offs)))
    IN  /\ Tile(to, t) = Tile(from, t)
        /\ IndexOf(new, t) = Clamp(IndexOf(old, t), 1, Len(new) - after)
OneTouched(from, to) ==
  \E t \in Tools : without(from, t) = without(to, t)
EditsLand ==
  saved' # saved /\ restarts' = restarts =>
    LET base == IF drop # drop' THEN drop ELSE [saved |-> saved, off |-> off]
    IN  /\ OffKept(homeArrangement(base.saved), homeArrangement(saved'), base.off)
        /\ OneTouched(shownArrangement(base.saved, base.off),
                      shownArrangement(saved', base.off))

\* A tool that is off neither sounds nor has the focus.
OffIsSilent == \A t \in Tools \ toolsOn(off) : t \notin sounding /\ Top # t

\* Once the queued writes are in, a restart finds what is in the stores.
StoredIsShown ==
  LET settled == Written(disk, writes)
  IN  /\ decodeArrangement(settled["home_layout"]) = saved
      /\ toolsLoad(settled) = off
      /\ settled["last_tool"] = last
=============================================================================
