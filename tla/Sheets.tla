------------------------------- MODULE Sheets -------------------------------
(***************************************************************************)
(* What every screen is built from: sheets drawn over the app by one host, *)
(* in the order they opened, each bound to Back while it is visible and    *)
(* dismissed by Back, by its scrim or by a drag whose end is answered on   *)
(* another thread; and the keys of a step control, which repeat while they *)
(* are held.  The parent decides when a sheet is visible: a menu closes on *)
(* dismissal, a prompt over a queue goes on to the next item.              *)
(***************************************************************************)
EXTENDS Naturals, FiniteSets, SequencesExt

CONSTANTS
  Menus,      \* sheets that close when dismissed
  Prompts,    \* sheets over a queue
  Height,     \* a sheet's height; a quarter of it dismisses
  MaxItems,   \* bound on items queued
  MaxOpens    \* bound on openings

Ids == Menus \union Prompts

ASSUME SheetAssumption == "none" \notin Ids
Keys == {"decrease", "increase"}

VARIABLES
  mounted,    \* sheets whose screen is drawn
  items,      \* a menu's open state or a prompt's queue length
  visible,    \* the visible prop of the last commit
  sheetSlots, \* the host's: sheets drawn, the last one on top
  back,       \* the hardware Back listeners, the last one is asked
  drag,       \* how far down a sheet is drawn
  held,       \* the sheet under a finger, if any
  ended,      \* drags whose end has scheduled a dismissal
  down,       \* keys under a finger
  timers,     \* repeat timers, each the key it steps for
  drawn,      \* the step control is mounted
  carried,    \* ghost: prompts that went on to an item while dragged down
  opens

sheetVars == <<mounted, items, visible, sheetSlots, back, drag, held, ended, carried>>
keyVars == <<down, timers, drawn>>
hostVars == <<sheetVars, keyVars, opens>>

NoId == "none"

-----------------------------------------------------------------------------
(* The host.                                                               *)

\* Mutant: drawn anew, a sheet comes to the top.
upsertSheetOnTop(s, id) == Append(Remove(s, id), id)
upsertSheet(s, id) == IF Contains(s, id) THEN s ELSE Append(s, id)

\* A sheet is drawn once, and bound to Back once.
removeSheet(s, id) == RemoveFirst(s, id)

\* A commit: each sheet's effects by the visible prop it had and has.  An
\* opening resets the drag and binds Back; every commit shows the content.
Effects(id, on) ==
  /\ visible' = [visible EXCEPT ![id] = on]
  /\ sheetSlots' = IF on THEN upsertSheet(sheetSlots, id) ELSE removeSheet(sheetSlots, id)
  /\ back' = CASE on /\ ~visible[id] -> Append(back, id)
               [] ~on /\ visible[id] -> RemoveFirst(back, id)
               [] OTHER -> back
  /\ drag' = IF on /\ ~visible[id] THEN [drag EXCEPT ![id] = 0] ELSE drag

\* A sheet that goes away under the finger ends its gesture.
Commit(id, count) ==
  /\ items' = [items EXCEPT ![id] = count]
  /\ Effects(id, count > 0)
  /\ held' = IF held = id /\ count = 0 THEN NoId ELSE held
  /\ carried' = IF count = 0 THEN carried \ {id}
                ELSE IF visible[id] /\ drag[id] > 0 /\ count < items[id]
                  THEN carried \union {id} ELSE carried

-----------------------------------------------------------------------------
(* The sheets' parents.                                                    *)

Open(id) ==
  /\ id \in mounted /\ opens < MaxOpens /\ opens' = opens + 1
  /\ IF id \in Menus THEN items[id] = 0 /\ Commit(id, 1)
       ELSE items[id] < MaxItems /\ Commit(id, items[id] + 1)
  /\ UNCHANGED <<mounted, ended>>

\* Any render of the parent draws the sheet's content again.
Rendered(id) ==
  /\ id \in mounted /\ Commit(id, items[id])
  /\ UNCHANGED <<mounted, ended, opens>>

onDismiss(id) == Commit(id, IF items[id] > 0 THEN items[id] - 1 ELSE 0)

\* The screen of a sheet leaves, and another visit starts afresh.
Unmount(id) ==
  /\ id \in mounted /\ mounted' = mounted \ {id}
  /\ Commit(id, 0)
  /\ UNCHANGED <<ended, opens>>

Mount(id) ==
  /\ id \notin mounted /\ mounted' = mounted \union {id}
  /\ UNCHANGED <<items, visible, sheetSlots, back, drag, held, ended, carried, opens>>

-----------------------------------------------------------------------------
(* The user.                                                               *)

OnTop(id) == sheetSlots # <<>> /\ Last(sheetSlots) = id

\* Back asks the newest listener, which is the whole answer.
HardwareBack ==
  /\ back # <<>> /\ onDismiss(Last(back))
  /\ UNCHANGED <<mounted, ended, opens>>

\* The scrim, or a button of the sheet's own.
Scrim(id) ==
  /\ OnTop(id) /\ onDismiss(id) /\ UNCHANGED <<mounted, ended, opens>>

shouldDismissSheet(y) == y * 4 > Height

DragUpdate(id) ==
  /\ OnTop(id) /\ held \in {NoId, id} /\ held' = id
  /\ \E y \in 0..Height : drag' = [drag EXCEPT ![id] = y]
  /\ UNCHANGED <<mounted, items, visible, sheetSlots, back, ended, carried, opens>>

\* Let go short of the threshold it springs back; past it the dismissal is
\* scheduled on the other thread and the sheet stays where it is.
\* Mutant: it stays where it was let go.
dragEndStays(id) == drag[id]
dragEnd(id) == 0

DragEnd(id) ==
  /\ held = id /\ held' = NoId
  /\ IF shouldDismissSheet(drag[id])
       THEN ended' = ended \union {id} /\ UNCHANGED drag
       ELSE drag' = [drag EXCEPT ![id] = dragEnd(id)] /\ UNCHANGED ended
  /\ UNCHANGED <<mounted, items, visible, sheetSlots, back, carried, opens>>

DismissScheduled(id) ==
  /\ id \in ended /\ ended' = ended \ {id}
  /\ IF id \in mounted THEN onDismiss(id)
       ELSE UNCHANGED <<items, visible, sheetSlots, back, drag, held, carried>>
  /\ UNCHANGED <<mounted, opens>>

-----------------------------------------------------------------------------
(* The step control.                                                       *)

\* Mutant: a new hold leaves the timer of the one before.
holdOnTop(key) == Append(timers, key)
hold(key) == <<key>>

release == <<>>

PressIn(key) ==
  /\ drawn /\ key \notin down
  /\ down' = down \union {key} /\ UNCHANGED <<timers, drawn>>

LongPress(key) ==
  /\ drawn /\ key \in down /\ ~Contains(timers, key) /\ Len(timers) < 2
  /\ timers' = hold(key) /\ UNCHANGED <<down, drawn>>

\* Lifting either key ends the one timer there is.
PressOut(key) ==
  /\ key \in down /\ down' = down \ {key}
  /\ timers' = release /\ UNCHANGED drawn

StepControl ==
  /\ drawn' = ~drawn /\ down' = {}
  /\ timers' = release

-----------------------------------------------------------------------------

SheetsInit ==
  /\ mounted = Ids /\ items = [id \in Ids |-> 0]
  /\ visible = [id \in Ids |-> FALSE]
  /\ sheetSlots = <<>> /\ back = <<>> /\ drag = [id \in Ids |-> 0]
  /\ held = NoId /\ ended = {} /\ carried = {}
  /\ down = {} /\ timers = <<>> /\ drawn = TRUE
  /\ opens = 0

SheetStep(id) ==
  \/ Open(id) \/ Rendered(id) \/ Unmount(id) \/ Mount(id)
  \/ Scrim(id) \/ DragUpdate(id) \/ DragEnd(id) \/ DismissScheduled(id)

KeyStep(key) == PressIn(key) \/ LongPress(key) \/ PressOut(key)

SheetsNext ==
  \/ ((\E id \in Ids : SheetStep(id)) \/ HardwareBack) /\ UNCHANGED keyVars
  \/ ((\E key \in Keys : KeyStep(key)) \/ StepControl) /\ UNCHANGED <<sheetVars, opens>>

SheetsSpec == SheetsInit /\ [][SheetsNext]_hostVars

-----------------------------------------------------------------------------
(* Properties.                                                             *)

\* The sheets drawn are the visible ones, and Back is asked in the order
\* they lie: it dismisses the one on top.
BackFollowsTheStack ==
  /\ back = sheetSlots
  /\ \A id \in Ids : Contains(sheetSlots, id) <=> visible[id]

\* A sheet nobody holds lies where it belongs, but for one whose dismissal
\* is on its way and a prompt carried down to its next item.
SheetLiesFlat ==
  \A id \in Ids : visible[id] /\ held # id =>
    drag[id] = 0 \/ id \in ended \/ id \in carried

\* A key that repeats is a key under a finger, one at a time.
RepeatIsHeld ==
  /\ Len(timers) <= 1
  /\ \A i \in DOMAIN timers : drawn /\ timers[i] \in down

\* Back closes the sheet on top, a sheet that is not held lies flat, and a step
\* key repeats only while it is held (core-design Sheet, stepRepeat).
SheetsObey == BackFollowsTheStack /\ SheetLiesFlat /\ RepeatIsHeld
=============================================================================
