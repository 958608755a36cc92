---------------------------- MODULE TunerReadout ----------------------------
(***************************************************************************)
(* What the tuner's screen says about what is heard: useTunerFrame.ts with *)
(* hop.ts, reading.ts, needle.ts, readout.ts and dwell.ts on the UI thread, *)
(* and the slice of it React draws and speaks on the JS thread.            *)
(*                                                                         *)
(* Cents are counted in 1/Unit of a cent, so that the averages of a run of *)
(* hops stay whole; the engine's window is Window cents.  Time is counted  *)
(* in frames and Dwell frames are DISCRETE_DWELL_MS.  The needle is where  *)
(* it is heading, not how it gets there.  Bounds: MaxHops, MaxFrames and   *)
(* MaxResets.                                                              *)
(***************************************************************************)
EXTENDS Integers, Sequences

CONSTANTS Notes,       \* target notes; 0 is KB_TUNER_NO_NOTE
          Errors,      \* raw errors of a hop, in 1/Unit cents
          Unit, Window, FullScale, Dwell,
          MaxHops, MaxFrames, MaxResets

\* The window lies on the dial; announcements need time between them.
ASSUME ReadoutAssumption ==
  /\ Errors \subseteq Int
  /\ Unit \in Nat \ {0} /\ Window \in Nat /\ FullScale \in Nat
  /\ Window < FullScale
  /\ Dwell \in Nat \ {0}

VARIABLES
  hop,      \* the engine's last hop
  ui,       \* lastId, displayed, the drawn channels, dwell (UI thread)
  react,    \* the slice React draws
  flight,   \* slices on their way to React
  posted,   \* resets on their way to the UI thread
  now,      \* frames so far
  steady,   \* history: frames the latest slice has stood unchanged
  changed,  \* history: the frame of the last announcement
  hasty,    \* history: two announcements closer than the dwell
  crossed,  \* history: React was last told a slice from before a reset
  resets

readoutVars == <<hop, ui, react, flight, posted, now, steady, changed, hasty,
          crossed, resets>>

NoNote == 0
NoCents == 1000000    \* NO_DISPLAYED_CENTS, no number of cents

Abs(x) == IF x < 0 THEN -x ELSE x

\* Math.round of cents: halves go up.
Rounded(cents) == (2 * cents + Unit) \div (2 * Unit)

---------------------------------------------------------------------------
(* A hop and what is displayed of it.                                      *)

isHeard(h) == h.canHear /\ ~h.paused /\ h.target # NoNote

averagedFrom(r, h) == IF h.target = r.target THEN r.cents ELSE NoCents

smoothCents(previous, cents) ==
  IF previous = NoCents THEN cents ELSE (previous + cents) \div 2

displayedStatus(cents) ==
  IF Abs(Rounded(cents)) <= Window THEN "inTune"
  ELSE IF Rounded(cents) < 0 THEN "low" ELSE "high"

NO_READING == [cents |-> NoCents, target |-> NoNote, status |-> "notMeasured"]

\* Mutant: the status is the raw hop's, the cents are averaged.
nextReadingRaw(r, h) ==
  IF ~isHeard(h) THEN NO_READING
  ELSE [cents |-> smoothCents(averagedFrom(r, h), h.error),
        target |-> h.target, status |-> displayedStatus(h.error)]

nextReading(r, h) ==
  IF ~isHeard(h) THEN NO_READING
  ELSE LET cents == smoothCents(averagedFrom(r, h), h.error)
       IN  [cents |-> cents, target |-> h.target,
            status |-> displayedStatus(cents)]

tunerCaption(status, cents) ==
  IF status = "inTune" THEN [words |-> "IN TUNE", amount |-> 0]
  ELSE [words |-> IF status = "low" THEN "TUNE UP" ELSE "TUNE DOWN",
        amount |-> Rounded(cents)]

tuneDirection(status) ==
  CASE status = "low" -> "up" [] status = "high" -> "down"
    [] status = "inTune" -> "inTune" [] OTHER -> "none"

\* Pinned at full scale; the travel's factor is left out.
needleFraction(cents) ==
  IF cents > FullScale * Unit THEN FullScale * Unit
  ELSE IF cents < -FullScale * Unit THEN -FullScale * Unit ELSE cents

QuietCaption == [words |-> "PLAY", amount |-> 0]

Drawn(r, h) ==
  IF isHeard(h)
  THEN [note |-> h.target, caption |-> tunerCaption(r.status, r.cents),
        direction |-> tuneDirection(r.status),
        needle |-> needleFraction(r.cents)]
  ELSE [note |-> NoNote, caption |-> QuietCaption, direction |-> "none",
        needle |-> 0]

---------------------------------------------------------------------------
(* The slice React is told.                                                *)

discreteOf(h, status) ==
  [heard |-> isHeard(h), status |-> status, target |-> h.target,
   noSound |-> h.noSound]

QUIET_DISCRETE ==
  [heard |-> FALSE, status |-> "notMeasured", target |-> NoNote,
   noSound |-> FALSE]

dwellAt(d) == [shown |-> d, pending |-> d, since |-> 0]

\* Mutant: a slice is told as soon as it differs.
settleDiscreteAtOnce(dwell, next, t) ==
  IF next = dwell.shown THEN dwell
  ELSE [shown |-> next, pending |-> next, since |-> t]

settleDiscrete(dwell, next, t) ==
  IF next # dwell.pending THEN [dwell EXCEPT !.pending = next, !.since = t]
  ELSE IF dwell.pending = dwell.shown \/ t - dwell.since < Dwell THEN dwell
  ELSE [dwell EXCEPT !.shown = dwell.pending]

---------------------------------------------------------------------------
Cleared == [last |-> 0, displayed |-> NO_READING,
            drawn |-> [note |-> NoNote, caption |-> QuietCaption,
                       direction |-> "none", needle |-> 0],
            latest |-> QUIET_DISCRETE, dwell |-> dwellAt(QUIET_DISCRETE)]

\* The engine measures: a note with its error, a pause, or silence.
Hop ==
  /\ hop.id < MaxHops
  /\ \E heard \in BOOLEAN, paused \in BOOLEAN, noSound \in BOOLEAN,
        target \in Notes \cup {NoNote}, error \in Errors :
       /\ noSound => ~heard
       /\ heard = (target # NoNote)
       /\ ~heard => ~paused /\ error = 0
       /\ hop' = [id |-> hop.id + 1, canHear |-> heard, paused |-> paused,
                  noSound |-> noSound, target |-> target, error |-> error]
  /\ UNCHANGED <<ui, react, flight, posted, now, steady, changed, hasty,
                 crossed, resets>>

\* One frame: a new hop is drawn, then the slice may settle.
Frame ==
  /\ now < MaxFrames /\ now' = now + 1
  /\ LET fresh == hop.id # ui.last
         r == IF fresh THEN nextReading(ui.displayed, hop) ELSE ui.displayed
         latest == IF fresh THEN discreteOf(hop, r.status) ELSE ui.latest
         settled == settleDiscrete(ui.dwell, latest, now + 1)
         tells == settled.shown # ui.dwell.shown
     IN  /\ ui' = [last |-> hop.id, displayed |-> r, latest |-> latest,
                   drawn |-> IF fresh THEN Drawn(r, hop) ELSE ui.drawn,
                   dwell |-> settled]
         /\ flight' = IF tells THEN Append(flight, [d |-> settled.shown,
                                                    n |-> resets - Len(posted)])
                      ELSE flight
         /\ steady' = IF latest = ui.latest THEN steady + 1 ELSE 1
         /\ changed' = IF tells THEN now + 1 ELSE changed
         /\ hasty' = (hasty \/ (tells /\ now + 1 - changed < Dwell))
  /\ UNCHANGED <<hop, react, posted, crossed, resets>>

\* reportDiscrete on the JS thread: nothing tells a slice from before a reset.
Told ==
  /\ flight # <<>>
  /\ react' = Head(flight).d
  /\ flight' = Tail(flight)
  /\ crossed' = (Head(flight).n < resets)
  /\ UNCHANGED <<hop, ui, posted, now, steady, changed, hasty, resets>>

\* Mutant: React keeps what it was told.
ResetQuietly ==
  /\ resets < MaxResets /\ resets' = resets + 1
  /\ posted' = Append(posted, resets + 1)
  /\ crossed' = FALSE
  /\ UNCHANGED <<hop, ui, react, flight, now, steady, changed, hasty>>

\* The layout effect: React's slice at once, the UI thread's values later.
Reset ==
  /\ resets < MaxResets /\ resets' = resets + 1
  /\ react' = QUIET_DISCRETE
  /\ posted' = Append(posted, resets + 1)
  /\ crossed' = FALSE
  /\ UNCHANGED <<hop, ui, flight, now, steady, changed, hasty>>

ResetOnUi ==
  /\ posted # <<>> /\ posted' = Tail(posted)
  /\ ui' = Cleared /\ steady' = 0 /\ changed' = -Dwell
  /\ UNCHANGED <<hop, react, flight, now, hasty, crossed, resets>>

ReadoutInit ==
  /\ hop = [id |-> 0, canHear |-> FALSE, paused |-> FALSE, noSound |-> FALSE,
            target |-> NoNote, error |-> 0]
  /\ ui = Cleared
  /\ react = QUIET_DISCRETE
  /\ flight = <<>> /\ posted = <<>>
  /\ now = 0 /\ steady = 0 /\ changed = -Dwell
  /\ hasty = FALSE /\ crossed = FALSE
  /\ resets = 0

ReadoutNext == Hop \/ Frame \/ Told \/ Reset \/ ResetOnUi

ReadoutSpec == ReadoutInit /\ [][ReadoutNext]_readoutVars

---------------------------------------------------------------------------
\* Caption, arrow, needle and spoken status never contradict each other,
\* however the average runs: up is a needle left of the centre by more than
\* the window, in tune is within it.  (reading.ts:38-42)
ChannelsAgree ==
  LET d == ui.drawn IN
  /\ d.caption.words = "TUNE UP" <=> d.direction = "up"
  /\ d.caption.words = "TUNE DOWN" <=> d.direction = "down"
  /\ d.direction = "up" => Rounded(d.needle) < -Window /\ d.caption.amount < 0
  /\ d.direction = "down" => Rounded(d.needle) > Window /\ d.caption.amount > 0
  /\ d.direction = "inTune" => Abs(Rounded(d.needle)) <= Window
  /\ ui.latest.heard => ui.latest.status = ui.displayed.status

\* React is told only what stood for the dwell, never two things within it;
\* and what stands for it is told: with nothing under way, React draws the
\* slice that has stood, also after a reset, unless a slice crossed one.
ToldSettled ==
  /\ ~hasty
  /\ flight = <<>> /\ posted = <<>> /\ ~crossed =>
       /\ react = ui.dwell.shown
       /\ steady > Dwell => react = ui.latest

\* All that a frame draws is of one hop, and the screen reader is told only
\* what stood for the dwell (useTunerFrame.ts, smoothing.ts, discrete.ts).
ReadoutAgrees == ChannelsAgree /\ ToldSettled
=============================================================================
