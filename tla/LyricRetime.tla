---------------------------- MODULE LyricRetime ----------------------------
(***************************************************************************)
(* Retiming the lyrics of a stem song: the player shows the lines of the   *)
(* bundle, or the times the user tapped for them.  While the mode is on    *)
(* the song plays slowly, each tap pins a line to the playhead, and Save   *)
(* stores the times of all the lines.                                      *)
(*                                                                         *)
(* Three things run against each other: the take in the store, the save    *)
(* that is on its way to the database when the player moves to another     *)
(* song, and the queue of rate changes the engine answers one at a time.   *)
(*                                                                         *)
(* Times are in steps of the shift stepper (a tenth of a second).  The     *)
(* playhead is the engine's: a tap reads any position of the song.         *)
(***************************************************************************)
EXTENDS Integers, Sequences, FiniteSets

CONSTANTS
    Sets,         \* the stem sets of the library
    Bundle,       \* what came with each set: [synced, offset, plain, instrumental]
    Null,
    Untimed,      \* sorts after every real time
    Length,       \* the song's length
    Room,         \* what the screen has room for: a set of layouts
    UserRates,    \* the rates the user may have set on the mixer
    RetimeRate,   \* RETIME_PLAYBACK_RATE
    MaxSessions,  \* how often a song is opened or closed
    MaxTakes,     \* how often the mode is entered
    MaxTaps,      \* taps of one take
    MaxShift,     \* the farthest the stepper is moved
    MaxRefusals   \* calls the engine or the database refuses

VARIABLES
    row,          \* stem_sets.lyrics_retimed of each set
    status,       \* of the player
    setId,
    lyrics,       \* the song's lines, and whether they are synced and retimed
    retime,       \* the take
    failure,      \* retimeFailure
    asking,       \* the Reset dialog is open
    landed,       \* the pad's press began with a touch that already tapped
    layout,       \* of the retime mode's body
    session,
    busySession,
    calls,        \* saves on their way, in the order they were sent
    steps,        \* the queue of rate changes, its head at work
    at,           \* what the head waits for
    generation,
    rates,        \* the session's owed and known rates
    engineRate,
    takes, refusals,
    short         \* a rate was not put back and nothing remembers it

deck == <<status, setId, lyrics, session>>
screen == <<asking, landed, layout>>
save == <<busySession, calls>>
speed == <<steps, at, generation, rates, engineRate, short>>
vars == <<row, deck, retime, failure, screen, save, speed, takes, refusals>>

NoLine == 0
Lines == DOMAIN lyrics.lines

-----------------------------------------------------------------------------
(* The lines of a song.                                                     *)

Larger(a, b) == IF a > b THEN a ELSE b
Smaller(a, b) == IF a < b THEN a ELSE b
First(S) == CHOOSE i \in S : \A j \in S : i <= j
Last(S) == CHOOSE i \in S : \A j \in S : j <= i
FirstOr(S) == IF S = {} THEN NoLine ELSE First(S)
LastOr(S) == IF S = {} THEN NoLine ELSE Last(S)

\* An untimed line stays untimed, whatever is added to it.
Moved(time, by) == IF time = Untimed THEN Untimed ELSE time + by
TimesOf(lines) == [i \in DOMAIN lines |-> lines[i].time]
InOrder(times) == \A i, j \in DOMAIN times : i < j => times[i] <= times[j]
hasRealTime(times) == \E i \in DOMAIN times : times[i] # Untimed
timedOnly(times) == SelectSeq(times, LAMBDA time : time # Untimed)

\* Every stamp of the text less its offset tag, in the order of time; lines
\* with the same time keep the order of the text.
parseLrc(stamps, offsetTag) ==
    LET timed == [i \in DOMAIN stamps |->
                    [stamps[i] EXCEPT !.time = Larger(0, @ - offsetTag)]]
        Before(i) == {j \in DOMAIN timed :
                        \/ timed[j].time < timed[i].time
                        \/ timed[j].time = timed[i].time /\ j < i}
        Placed(k) == CHOOSE i \in DOMAIN timed : Cardinality(Before(i)) = k - 1
    IN [k \in DOMAIN timed |-> timed[Placed(k)]]

\* Plain lyrics have only sung lines: empty ones are left out.
plainLyricTexts(count) == [i \in 1..count |-> [time |-> Untimed, sung |-> TRUE]]

bundledLines(bundle) ==
    CASE bundle.instrumental -> <<>>
      [] ~bundle.instrumental /\ bundle.synced # <<>> ->
           LET parsed == parseLrc(bundle.synced, bundle.offsetTag)
           IN [i \in DOMAIN parsed |->
                 [parsed[i] EXCEPT !.time = @ + bundle.offset]]
      [] OTHER -> plainLyricTexts(bundle.plain)

fitsLines(times, bundled) ==
    /\ IF hasRealTime(bundled) THEN Len(times) = Len(bundled)
       ELSE Len(times) \in 1..Len(bundled)
    /\ InOrder(times)

withTimes(lines, times) ==
    [i \in DOMAIN lines |->
        [lines[i] EXCEPT !.time = IF i \in DOMAIN times THEN times[i] ELSE @]]

\* What the player shows of a set whose row holds these times.
songLyrics(set, retimed) ==
    LET base == bundledLines(Bundle[set])
        bundled == TimesOf(base)
        usable == retimed # Null /\ fitsLines(retimed, bundled)
    IN [lines |-> IF usable THEN withTimes(base, retimed) ELSE base,
        synced |-> usable \/ hasRealTime(bundled),
        retimed |-> usable]

NO_LYRICS == [lines |-> <<>>, synced |-> FALSE, retimed |-> FALSE]

\* The binary search the frame callback and the taps share.
lastAtOrBefore(lines, time) ==
    LET n == Len(lines)
        search[low \in 0..n, high \in 0..n] ==
            IF low >= high THEN low
            ELSE LET mid == (low + high) \div 2
                 IN IF lines[mid + 1].time <= time THEN search[mid + 1, high]
                    ELSE search[low, mid]
    IN search[0, n]

lyricLineAt(lines, time) == lastAtOrBefore(lines, time)

nextSungLine(lines, from) ==
    FirstOr({i \in DOMAIN lines : i >= from /\ lines[i].sung})
previousSungLine(lines, from) ==
    LastOr({i \in DOMAIN lines : i < from /\ lines[i].sung})

\* A take cannot start past an untimed line: the lines would not be sorted.
sungLineFrom(lines, from) ==
    LET untimed == FirstOr({i \in DOMAIN lines : lines[i].time = Untimed})
        next == nextSungLine(lines,
                    IF untimed = NoLine THEN from ELSE Smaller(from, untimed))
    IN IF next = NoLine THEN previousSungLine(lines, Len(lines) + 1) ELSE next

retimeLineAt(lines, time) == sungLineFrom(lines, lyricLineAt(lines, time))

-----------------------------------------------------------------------------
(* The take.                                                                *)

Off == [on |-> FALSE, taps |-> <<>>, next |-> NoLine, shift |-> 0, rate |-> Null]
Recording(line) == [Off EXCEPT !.on = TRUE, !.next = line]

\* A first tap before the line above moves the take to where the song is.
anchoredLine(lines, line, time) ==
    LET before == previousSungLine(lines, line)
    IN IF before = NoLine \/ time > lines[before].time THEN line
       ELSE retimeLineAt(lines, time)

\* A tap at or before an earlier one is that line again, and drops what
\* was tapped after it.
takeAfterTap(take, time) ==
    LET redone == {i \in DOMAIN take.taps : take.taps[i].time >= time}
        tapped == IF redone = {} THEN take.next ELSE take.taps[First(redone)].line
        kept == IF redone = {} THEN take.taps
                ELSE SubSeq(take.taps, 1, First(redone) - 1)
        line == IF kept = <<>> THEN anchoredLine(lyrics.lines, tapped, time)
                ELSE tapped
    IN IF tapped = NoLine THEN take
       ELSE [take EXCEPT !.taps = Append(kept, [line |-> line, time |-> time]),
                         !.next = nextSungLine(lyrics.lines, line + 1)]

Pinned(taps) == {taps[k].line : k \in DOMAIN taps}
PinOf(taps, line) == taps[CHOOSE k \in DOMAIN taps : taps[k].line = line].time

\* The lines after a tapped one move by as much as it did.
shiftedAfterTaps(lines, taps) ==
    LET Foremost(i) == LastOr({j \in Pinned(taps) :
                                 j <= i /\ lines[j].time # Untimed})
        ShiftAt(i) == IF Foremost(i) = NoLine THEN 0
                      ELSE PinOf(taps, Foremost(i)) - lines[Foremost(i)].time
    IN [i \in DOMAIN lines |->
          IF i \in Pinned(taps) THEN PinOf(taps, i)
          ELSE Moved(lines[i].time, ShiftAt(i))]

\* Mutant: the lines between two taps are left where the shift put them.
unordered(times, taps) == times

\* A line that is not tapped lies between the placed line above it and the
\* next tapped line below it.
orderedBetweenPins(times, taps) ==
    LET Below(i) == {j \in Pinned(taps) : j >= i}
        Ceiling(i) == IF Below(i) = {} THEN Untimed ELSE PinOf(taps, First(Below(i)))
        placed[i \in DOMAIN times] ==
            IF i \in Pinned(taps) THEN times[i]
            ELSE Smaller(Ceiling(i), IF i = 1 THEN times[i]
                                     ELSE Larger(times[i], placed[i - 1]))
    IN placed

retimedTimes(lines, taps) ==
    orderedBetweenPins(shiftedAfterTaps(lines, taps), taps)

shiftedTimes(times, shift) ==
    [i \in DOMAIN times |->
        IF shift = 0 THEN times[i] ELSE Larger(0, Moved(times[i], shift))]

\* What Save would store of a take.
TimesOfTake == shiftedTimes(retimedTimes(lyrics.lines, retime.taps), retime.shift)

-----------------------------------------------------------------------------
(* The rate of the engine while the mode is on.                             *)

ratesFor(opened) ==
    IF rates.session = opened THEN rates
    ELSE [session |-> opened, owed |-> Null, known |-> Null]

Previous(r) == IF r.owed # Null THEN r.owed ELSE r.known

\* Mutant: the rate is put back before the step that slows the song down.
queueFirst(step) == <<step>> \o steps

queue(step) == Append(steps, step)

enter == /\ generation' = generation + 1
         /\ steps' = Append(steps, [kind |-> "slow", mine |-> generation + 1,
                                    session |-> session])
         /\ UNCHANGED <<at, rates, engineRate, short>>

restore == /\ generation' = generation + 1
           /\ steps' = queue([kind |-> "back", mine |-> generation + 1,
                              session |-> session])
           /\ UNCHANGED <<at, rates, engineRate, short>>

leaveRetime ==
    /\ retime' = Off
    /\ failure' = FALSE
    /\ IF retime.on THEN restore ELSE UNCHANGED speed

\* The step at the head of the queue is done.
Done == steps' = Tail(steps) /\ at' = "queue"

\* The rate of the song while the take runs is known.
onPlaying(rate) == retime' = IF retime.on THEN [retime EXCEPT !.rate = rate]
                             ELSE retime

\* The rate before is known: stop when the mode was left meanwhile, keep a
\* song that is as slow already, and slow any other down.
SlowFrom(previous) ==
    \/ /\ Head(steps).mine # generation
       /\ Done /\ UNCHANGED retime
    \/ /\ Head(steps).mine = generation /\ previous <= RetimeRate
       /\ onPlaying(previous) /\ Done
    \/ /\ Head(steps).mine = generation /\ previous > RetimeRate
       /\ at' = "set" /\ UNCHANGED <<steps, retime>>

aside == <<row, deck, failure, screen, save, takes>>

speedBefore ==
    /\ steps # <<>> /\ Head(steps).kind = "slow" /\ at = "queue"
    /\ LET mine == ratesFor(Head(steps).session)
       IN /\ rates' = mine
          /\ IF Previous(mine) # Null THEN SlowFrom(Previous(mine))
             ELSE at' = "read" /\ UNCHANGED <<steps, retime>>
    /\ UNCHANGED <<aside, generation, engineRate, short, refusals>>

RateRead ==
    /\ at = "read"
    /\ rates' = [rates EXCEPT !.known = engineRate]
    /\ SlowFrom(engineRate)
    /\ UNCHANGED <<aside, generation, engineRate, short, refusals>>

\* The slow-down is answered; a mode left meanwhile still owes the old rate.
slowDown ==
    /\ at = "set" /\ Head(steps).kind = "slow"
    /\ engineRate' = RetimeRate
    /\ rates' = [rates EXCEPT !.owed = Previous(rates), !.known = RetimeRate]
    /\ IF Head(steps).mine = generation THEN onPlaying(RetimeRate)
       ELSE UNCHANGED retime
    /\ Done
    /\ UNCHANGED <<aside, generation, short, refusals>>

putBack ==
    /\ steps # <<>> /\ Head(steps).kind = "back"
    /\ \/ at = "queue" /\ rates.owed = Null
          /\ Done /\ UNCHANGED <<rates, engineRate, short>>
       \/ at = "queue" /\ rates.owed # Null
          /\ at' = "set" /\ UNCHANGED <<steps, rates, engineRate, short>>
       \/ at = "set"
          /\ engineRate' = rates.owed
          /\ rates' = [rates EXCEPT !.owed = Null, !.known = rates.owed]
          /\ short' = FALSE
          /\ Done
    /\ UNCHANGED <<aside, retime, generation, refusals>>

\* A read or a set is refused: the step ends there.  A call that throws
\* forgets the rate, an engine that was busy does not.
RateRefused ==
    /\ at \in {"read", "set"} /\ refusals < MaxRefusals
    /\ refusals' = refusals + 1
    /\ \/ UNCHANGED rates
       \/ at = "set" /\ rates' = [rates EXCEPT !.known = Null]
    /\ short' = (short \/ (Head(steps).kind = "back" /\ rates.owed # Null))
    /\ Done
    /\ UNCHANGED <<aside, retime, generation, engineRate>>

-----------------------------------------------------------------------------
(* Opening and closing the song.                                            *)

\* The player moves to a song: the running take is left first, the old
\* session's answers no longer count.
beginSession(set) ==
    /\ session < MaxSessions
    /\ leaveRetime
    /\ session' = session + 1
    /\ status' = "loading" /\ setId' = set /\ lyrics' = NO_LYRICS
    /\ asking' = FALSE /\ landed' = FALSE /\ layout' = "drawn"
    /\ UNCHANGED <<row, save, takes, refusals>>

close ==
    /\ status # "idle" /\ session < MaxSessions
    /\ leaveRetime
    /\ session' = session + 1
    /\ status' = "idle" /\ setId' = Null /\ lyrics' = NO_LYRICS
    /\ asking' = FALSE /\ landed' = FALSE /\ layout' = "drawn"
    /\ UNCHANGED <<row, save, takes, refusals>>

\* The database answers in order: a save sent before the read is in it.
load ==
    /\ status = "loading"
    /\ \A k \in DOMAIN calls : calls[k].phase # "sent"
    /\ status' = "ready" /\ lyrics' = songLyrics(setId, row[setId])
    /\ UNCHANGED <<row, setId, session, retime, failure, screen, save, speed,
                   takes, refusals>>

-----------------------------------------------------------------------------
(* The mode's controls.                                                     *)

busy == busySession = session

\* The lyrics pane, and the chip on it that enters the mode.
detailPaneKind ==
    CASE lyrics.lines # <<>> /\ lyrics.synced -> "stage"
      [] lyrics.lines # <<>> /\ ~lyrics.synced -> "plain"
      [] OTHER -> "none"

LyricsHead == status = "ready" /\ ~retime.on /\ detailPaneKind # "none"

\* A song that stopped at its end starts over, and the take with it.
beginRetime ==
    \E from \in 0..Len(lyrics.lines), atEnd \in BOOLEAN :
        /\ LyricsHead /\ ~busy /\ takes < MaxTakes
        /\ from \in {lyricLineAt(lyrics.lines, time) : time \in 0..Length}
        /\ sungLineFrom(lyrics.lines, from) # NoLine
        /\ retime' = Recording(IF atEnd THEN retimeLineAt(lyrics.lines, 0)
                               ELSE sungLineFrom(lyrics.lines, from))
        /\ failure' = FALSE
        /\ takes' = takes + 1
        /\ enter
        /\ landed' = FALSE /\ layout' = "drawn"
        /\ UNCHANGED <<row, deck, asking, save, refusals>>

\* A seek moves a take that has no tap yet.
retimeAnchor ==
    \E time \in 0..Length :
        /\ retime.on /\ retime.taps = <<>>
        /\ retime' = [retime EXCEPT !.next = retimeLineAt(lyrics.lines, time)]
        /\ UNCHANGED <<row, deck, failure, screen, save, speed, takes, refusals>>

tapRetime ==
    \E time \in 0..Length :
        IF busy THEN UNCHANGED retime
        ELSE /\ retime' = takeAfterTap(retime, time)
             /\ Len(retime'.taps) <= MaxTaps

\* The pad: the tap lands on touch-down; a press that had none is a screen
\* reader's and taps itself.  A finger that slides off leaves no press.
TapPad ==
    /\ retime.on /\ ~asking
    /\ \/ ~landed /\ landed' = TRUE /\ tapRetime
       \/ landed /\ landed' = FALSE /\ UNCHANGED retime
       \/ ~landed /\ UNCHANGED landed /\ tapRetime
    /\ UNCHANGED <<row, deck, failure, asking, layout, save, speed, takes, refusals>>

undoRetimeTap ==
    /\ retime.on /\ ~asking /\ ~busy /\ retime.taps # <<>>
    /\ LET n == Len(retime.taps)
       IN retime' = [retime EXCEPT !.taps = SubSeq(@, 1, n - 1),
                                   !.next = retime.taps[n].line]
    /\ UNCHANGED <<row, deck, failure, screen, save, speed, takes, refusals>>

shiftRetime(step) ==
    /\ retime.on /\ ~asking /\ ~busy
    /\ retime.shift + step \in -MaxShift..MaxShift
    /\ retime' = [retime EXCEPT !.shift = @ + step]
    /\ UNCHANGED <<row, deck, failure, screen, save, speed, takes, refusals>>

RetimeControls ==
    \/ TapPad
    \/ undoRetimeTap
    \/ \E step \in {-1, 1} : shiftRetime(step)

\* The body is drawn, pins its controls when it does not fit, and scrolls when
\* the pinned lines have no room.  Each draws a pad of its own.
useRetimeLayout ==
    /\ retime.on
    /\ \/ layout = "drawn" /\ layout \notin Room /\ layout' = "pinned"
       \/ layout = "pinned" /\ layout \notin Room /\ layout' = "scrolling"
    /\ landed' = FALSE
    /\ UNCHANGED <<row, deck, retime, failure, asking, save, speed, takes, refusals>>

RetimeBody == RetimeControls \/ useRetimeLayout

-----------------------------------------------------------------------------
(* Saving.                                                                  *)

\* The stored text keeps finite times only; another one is unreadable.
encodeRetimedLyrics(stored) ==
    IF stored = Null \/ \E i \in DOMAIN stored : stored[i] = Untimed THEN Null
    ELSE stored

saveTiming(shown, stored) ==
    /\ failure' = FALSE
    /\ busySession' = session
    /\ calls' = Append(calls, [session |-> session, set |-> setId,
                               shown |-> shown, stored |-> stored,
                               phase |-> "sent"])
    /\ UNCHANGED <<retime, speed>>

\* Unchanged times leave the mode without a save.
commitRetime ==
    /\ retime.on /\ ~asking /\ ~busy
    /\ IF TimesOfTake = TimesOf(lyrics.lines)
       THEN leaveRetime /\ UNCHANGED save
       ELSE saveTiming(TimesOfTake, timedOnly(TimesOfTake))
    /\ UNCHANGED <<row, deck, screen, takes, refusals>>

\* The close key, and back while no dialog is open.
cancelRetime ==
    /\ retime.on /\ ~asking /\ ~busy
    /\ leaveRetime
    /\ UNCHANGED <<row, deck, screen, save, takes, refusals>>

canReset == lyrics.retimed \/ retime.taps # <<>> \/ retime.shift # 0

AskReset ==
    /\ retime.on /\ ~asking /\ canReset
    /\ asking' = TRUE
    /\ UNCHANGED <<row, deck, retime, failure, landed, layout, save, speed, takes,
                   refusals>>

RetimeBar == commitRetime \/ cancelRetime \/ AskReset

\* A reset confirmed while a save is out is dropped.
resetRetime ==
    /\ asking /\ asking' = FALSE
    /\ IF busy THEN UNCHANGED <<retime, failure, save, speed>>
       ELSE saveTiming(TimesOf(bundledLines(Bundle[setId])), Null)
    /\ UNCHANGED <<row, deck, landed, layout, takes, refusals>>

KeepTaps ==
    /\ asking /\ asking' = FALSE
    /\ UNCHANGED <<row, deck, retime, failure, landed, layout, save, speed, takes,
                   refusals>>

ResetDialog == resetRetime \/ KeepTaps

\* The database runs the oldest save it has not answered.
saveLyricsRetimed ==
    \E k \in DOMAIN calls :
        /\ calls[k].phase = "sent"
        /\ \A j \in 1..(k - 1) : calls[j].phase # "sent"
        /\ \/ /\ row' = [row EXCEPT ![calls[k].set] =
                            encodeRetimedLyrics(calls[k].stored)]
              /\ calls' = [calls EXCEPT ![k].phase = "stored"]
              /\ UNCHANGED refusals
           \/ /\ refusals < MaxRefusals /\ refusals' = refusals + 1
              /\ calls' = [calls EXCEPT ![k].phase = "refused"]
              /\ UNCHANGED row
        /\ UNCHANGED <<deck, retime, failure, screen, busySession, speed, takes>>

Saved(call) ==
    /\ lyrics' = [lines |-> withTimes(lyrics.lines, call.shown),
                  synced |-> hasRealTime(call.shown),
                  retimed |-> call.stored # Null]
    /\ leaveRetime

\* Mutant: an answer is applied to whatever song is open.
AnsweredLate(call) ==
    IF call.phase = "stored" /\ status = "ready"
    THEN Saved(call)
    ELSE UNCHANGED <<lyrics, retime, failure, speed>>

\* The answer of an older session changes nothing; a refused save keeps the take.
Answered(call) ==
    IF call.session # session THEN UNCHANGED <<lyrics, retime, failure, speed>>
    ELSE IF call.phase = "refused"
         THEN failure' = TRUE /\ UNCHANGED <<lyrics, retime, speed>>
         ELSE Saved(call)

SaveAnswered ==
    /\ calls # <<>> /\ Head(calls).phase # "sent"
    /\ calls' = Tail(calls)
    /\ busySession' = IF busySession = Head(calls).session THEN Null ELSE busySession
    /\ Answered(Head(calls))
    /\ asking' = (asking /\ retime'.on)
    /\ UNCHANGED <<row, status, setId, session, landed, layout, takes, refusals>>

-----------------------------------------------------------------------------

Init ==
    /\ row = [set \in Sets |-> Null]
    /\ status = "idle" /\ setId = Null /\ lyrics = NO_LYRICS /\ session = 0
    /\ retime = Off /\ failure = FALSE
    /\ asking = FALSE /\ landed = FALSE /\ layout = "drawn"
    /\ busySession = Null /\ calls = <<>>
    /\ steps = <<>> /\ at = "queue" /\ generation = 0
    /\ rates = [session |-> 0, owed |-> Null, known |-> Null]
    /\ engineRate \in UserRates /\ short = FALSE
    /\ takes = 0 /\ refusals = 0

Next ==
    \/ \E set \in Sets : beginSession(set)
    \/ close
    \/ load
    \/ beginRetime
    \/ retimeAnchor
    \/ RetimeBody
    \/ RetimeBar
    \/ ResetDialog
    \/ saveLyricsRetimed
    \/ SaveAnswered
    \/ speedBefore
    \/ RateRead
    \/ slowDown
    \/ putBack
    \/ RateRefused

Spec == Init /\ [][Next]_vars

-----------------------------------------------------------------------------
(* What must hold.                                                          *)

\* What the player shows of a song is what opening it again would show: no
\* answer, late or refused, leaves lines on the stage that the row does not hold,
\* and no row holds times that the next load would not take (lyrics.ts fitsLines).
SavedReadsBack ==
    status = "ready" /\ (\A k \in DOMAIN calls : calls[k].session # session)
        => lyrics = songLyrics(setId, row[setId])

\* What a Save would store keeps every tapped line at its tap, moved by the
\* stepper, whatever was redone, undone or anchored before it; and it is sorted,
\* because the search that follows the song relies on it.
TakeIsKept ==
    retime.on =>
        /\ \A k \in DOMAIN retime.taps :
              TimesOfTake[retime.taps[k].line] =
                  IF retime.shift = 0 THEN retime.taps[k].time
                  ELSE Larger(0, retime.taps[k].time + retime.shift)
        /\ InOrder(TimesOfTake)

\* Once no take runs and no rate change is due, the song plays at the rate the
\* user had, unless a refused restore was never made good; and the rate the bar
\* names is the engine's.
RateIsTheUsers ==
    /\ ~retime.on /\ steps = <<>> /\ ~short
          => engineRate \in UserRates /\ rates.owed = Null
    /\ retime.on /\ retime.rate # Null => engineRate = retime.rate
=============================================================================
