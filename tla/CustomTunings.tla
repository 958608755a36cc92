--------------------------- MODULE CustomTunings ---------------------------
(***************************************************************************)
(* The tuner's own tunings: the sheets that pick and edit them, the store  *)
(* and the table.  The tuning in use may be a row's (customId); a save, a  *)
(* delete or a list is answered later, while the player goes on.           *)
(*                                                                         *)
(* TunerScreen.tsx shows one sheet at a time; TuningEditorSheet.tsx keeps a *)
(* draft; core-state/src/tuner/customTunings.ts changes rows and the tuning *)
(* in use when the table answers; core-db runs calls one after another.    *)
(*                                                                         *)
(* Notes are strings over Pitches; a name is a member of Names, of which   *)
(* Blank trims to nothing.  Bounds: MaxRows rows ever made, MaxPending     *)
(* calls under way, MaxOps taps.                                           *)
(***************************************************************************)
EXTENDS Integers, Sequences, FiniteSets, TLC

CONSTANTS
  BuiltIn,      \* BUILT_IN_TUNINGS, as records name / instrument / notes
  Names, Blank, Instruments, Pitches,
  MaxStrings,   \* STRING_COUNT_BOUNDS.max
  MaxRows, MaxPending, MaxOps

VARIABLES
  table,   \* function: a row's id to its values
  nextId,
  rows,    \* the store's customTunings
  using,   \* the tuning in use: values and customId (0: none)
  mode,    \* "auto" or "manual": a new tuning returns to auto
  screen,  \* sheet, editing draft and id, and the two failure lines
  calls,   \* calls of the table not answered yet, oldest first
  ops

vars == <<table, nextId, rows, using, mode, screen, calls, ops>>

NoId == 0
NoRow == [id |-> NoId]

Values(t) == [name |-> t.name, instrument |-> t.instrument, notes |-> t.notes]
Linked(t, id) == Values(t) @@ [customId |-> id]

---------------------------------------------------------------------------
(* Drafts.                                                                 *)

clampNote(midi) == IF midi \in Pitches THEN midi
                   ELSE CHOOSE p \in Pitches :
                          \A o \in Pitches : IF midi < p THEN p <= o ELSE o <= p

stepStringNote(notes, i, delta) ==
  [notes EXCEPT ![i] = clampNote(@ + delta)]

\* A top string at the current top string's pitch.
addString(notes) ==
  IF Len(notes) >= MaxStrings THEN notes ELSE Append(notes, notes[Len(notes)])

removeString(notes) ==
  IF Len(notes) <= 1 THEN notes ELSE SubSeq(notes, 1, Len(notes) - 1)

tuningViolation(t) ==
  \/ Len(t.notes) \notin 1..MaxStrings
  \/ \E i \in DOMAIN t.notes : t.notes[i] \notin Pitches
  \/ t.instrument \notin Instruments

isSavableDraft(d) == d.name # Blank /\ ~tuningViolation(d)

draftFrom(t, name) == [Values(t) EXCEPT !.name = name]

---------------------------------------------------------------------------
(* The tuning in use.                                                      *)

samePitches(a, b) == a.instrument = b.instrument /\ a.notes = b.notes

sameTuning(a, b) ==
  IF a.customId # NoId \/ b.customId # NoId THEN a.customId = b.customId
  ELSE Values(a) = Values(b)

setTuning(t) == using' = t /\ mode' = "auto"

\* What the tuning list marks as chosen.
Selected == {t \in {Linked(b, NoId) : b \in BuiltIn}
                  \cup {Linked(r.values, r.id) : r \in rows} :
               sameTuning(using, t)}

---------------------------------------------------------------------------
(* The sheets.                                                             *)

Tap == ops < MaxOps /\ ops' = ops + 1

Stays == UNCHANGED <<table, nextId, rows>>

Show(sheet) == screen' = [screen EXCEPT !.sheet = sheet]

Ask(call) == Len(calls) < MaxPending /\ calls' = Append(calls, call)

closeSheet == /\ Tap /\ screen.sheet # "none" /\ Show("none")
              /\ UNCHANGED <<using, mode, calls>> /\ Stays

\* Showing the list reads the rows again.
openTunings ==
  /\ Tap /\ screen.sheet = "none" /\ Show("tunings")
  /\ Ask([c |-> "list"])
  /\ UNCHANGED <<using, mode>> /\ Stays

\* TuningSheet: a row or a built-in tuning is chosen.
handleSelectTuning(t) ==
  /\ Tap /\ screen.sheet = "tunings"
  /\ setTuning(t) /\ Show("none")
  /\ UNCHANGED calls /\ Stays

\* The editor opens on a draft and forgets an earlier failure.
Editor(draft, id) ==
  screen' = [screen EXCEPT !.sheet = "editor", !.draft = draft, !.id = id,
                           !.failed = FALSE]

handleNewTuning ==
  /\ Tap /\ screen.sheet = "tunings"
  /\ Editor(draftFrom(using, Blank), NoId)
  /\ UNCHANGED <<using, mode, calls>> /\ Stays

handleEditTuning(r) ==
  /\ Tap /\ screen.sheet = "tunings"
  /\ Editor(draftFrom(r.values, r.values.name), r.id)
  /\ UNCHANGED <<using, mode, calls>> /\ Stays

\* What one tap or one word can make of the draft.
Edits(d) ==
  {[d EXCEPT !.name = n] : n \in Names}
  \cup {[d EXCEPT !.instrument = i] : i \in Instruments}
  \cup {[d EXCEPT !.notes = stepStringNote(@, i, delta)] :
          i \in DOMAIN d.notes, delta \in {-1, 1}}
  \cup {[d EXCEPT !.notes = addString(@)], [d EXCEPT !.notes = removeString(@)]}

EditDraft(d) ==
  /\ Tap /\ screen.sheet = "editor" /\ d # screen.draft
  /\ screen' = [screen EXCEPT !.draft = d]
  /\ UNCHANGED <<using, mode, calls>> /\ Stays

handleSave ==
  /\ Tap /\ screen.sheet = "editor" /\ isSavableDraft(screen.draft)
  /\ Ask([c |-> IF screen.id = NoId THEN "create" ELSE "update",
          id |-> screen.id, values |-> screen.draft])
  /\ UNCHANGED <<using, mode, screen>> /\ Stays

handleDelete ==
  /\ Tap /\ screen.sheet = "editor" /\ screen.id # NoId
  /\ Ask([c |-> "delete", id |-> screen.id])
  /\ UNCHANGED <<using, mode, screen>> /\ Stays

\* A peg is tapped while no sheet is up.
lockString ==
  /\ Tap /\ screen.sheet = "none" /\ mode = "auto" /\ mode' = "manual"
  /\ UNCHANGED <<using, screen, calls>> /\ Stays

---------------------------------------------------------------------------
(* The table answers its oldest call; any of them may fail.                *)

Answering(kind) == /\ calls # <<>> /\ Head(calls).c = kind
                   /\ calls' = Tail(calls) /\ UNCHANGED ops

\* The editor that asked shows the failure, if it is still the one shown.
Failed ==
  /\ calls # <<>> /\ calls' = Tail(calls)
  /\ screen' = IF Head(calls).c = "list"
               THEN [screen EXCEPT !.loadFailed = TRUE]
               ELSE [screen EXCEPT !.failed = TRUE]
  /\ UNCHANGED <<using, mode, ops>> /\ Stays

loadCustomTunings ==
  /\ Answering("list")
  /\ rows' = {[id |-> id, values |-> table[id]] : id \in DOMAIN table}
  /\ screen' = [screen EXCEPT !.loadFailed = FALSE]
  /\ UNCHANGED <<table, nextId, using, mode>>

insertTuning(id, values) == table' = (id :> values) @@ table

createCustomTuning ==
  /\ Answering("create") /\ nextId <= MaxRows
  /\ LET values == Head(calls).values IN
     /\ insertTuning(nextId, values)
     /\ nextId' = nextId + 1
     /\ rows' = rows \cup {[id |-> nextId, values |-> values]}
     /\ setTuning(Linked(values, nextId))
  /\ Show("none")

\* Mutant: the tuning in use keeps what it was made from.
FollowsNot(id, values) == UNCHANGED <<using, mode>>

\* A rename keeps the mode; other pitches start the tuning over.
Follows(id, values) ==
  IF using.customId # id THEN UNCHANGED <<using, mode>>
  ELSE IF samePitches(using, values)
  THEN using' = Linked(values, id) /\ UNCHANGED mode
  ELSE setTuning(Linked(values, id))

updateTuning(id, values) == table' = [table EXCEPT ![id] = values]

updateCustomTuning ==
  /\ Answering("update") /\ Head(calls).id \in DOMAIN table
  /\ LET id == Head(calls).id  values == Head(calls).values IN
     /\ updateTuning(id, values)
     /\ IF \E r \in rows : r.id = id
        THEN /\ rows' = {IF r.id = id THEN [r EXCEPT !.values = values] ELSE r :
                           r \in rows}
             /\ Follows(id, values)
        ELSE UNCHANGED <<rows, using, mode>>
  /\ Show("none")
  /\ UNCHANGED nextId

\* The row is gone: the update throws.
UpdateMissing ==
  /\ Answering("update") /\ Head(calls).id \notin DOMAIN table
  /\ screen' = [screen EXCEPT !.failed = TRUE]
  /\ UNCHANGED <<using, mode>> /\ Stays

\* The notes stay in use; only the link to the row goes.
deleteCustomTuning ==
  /\ Answering("delete")
  /\ LET id == Head(calls).id IN
     /\ table' = [i \in DOMAIN table \ {id} |-> table[i]]
     /\ rows' = {r \in rows : r.id # id}
     /\ using' = IF using.customId = id THEN Linked(using, NoId) ELSE using
  /\ Show("none")
  /\ UNCHANGED <<nextId, mode>>

---------------------------------------------------------------------------
Init ==
  /\ table \in {[i \in {} |-> 0]} \cup
               {1 :> [name |-> n, instrument |-> 0, notes |-> <<0>>] :
                  n \in Names \ {Blank}}
  /\ nextId = Cardinality(DOMAIN table) + 1
  /\ rows = {}
  /\ using = Linked(CHOOSE b \in BuiltIn : TRUE, NoId)
  /\ mode = "auto"
  /\ screen = [sheet |-> "none", draft |-> draftFrom(using, Blank),
               id |-> NoId, failed |-> FALSE, loadFailed |-> FALSE]
  /\ calls = <<>>
  /\ ops = 0

CustomRow(r) ==
  handleSelectTuning(Linked(r.values, r.id)) \/ handleEditTuning(r)

\* Built-in tunings and rows to pick, rows to edit, and a new one.
TuningSheet ==
  \/ handleNewTuning
  \/ \E b \in BuiltIn : handleSelectTuning(Linked(b, NoId))
  \/ \E r \in rows : CustomRow(r)

TuningEditorSheet ==
  \/ handleSave \/ handleDelete
  \/ \E d \in Edits(screen.draft) : EditDraft(d)

Next ==
  \/ openTunings \/ closeSheet \/ TuningSheet \/ TuningEditorSheet
  \/ lockString
  \/ Failed \/ loadCustomTunings \/ createCustomTuning
  \/ updateCustomTuning \/ UpdateMissing \/ deleteCustomTuning

Spec == Init /\ [][Next]_vars

---------------------------------------------------------------------------
\* Whatever is saved, renamed, deleted and picked while earlier calls are
\* still unanswered, with no call pending a tuning in use that is linked to
\* a row has that row's name, instrument and strings, the rows on the list
\* are the table's, only one entry of the list is marked, and no row breaks
\* the rules the engine relies on.  (customTunings.ts)
SelectionIsStored ==
  /\ calls = <<>> =>
       /\ \A r \in rows : r.id \in DOMAIN table /\ r.values = table[r.id]
       /\ using.customId # NoId =>
            /\ using.customId \in DOMAIN table
            /\ Values(using) = table[using.customId]
  /\ Cardinality(Selected) <= 1
  /\ \A id \in DOMAIN table : isSavableDraft(table[id])

=============================================================================
