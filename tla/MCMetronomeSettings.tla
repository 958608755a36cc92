------------------------ MODULE MCMetronomeSettings ------------------------
(* Two stored songs: a ramped one in another meter and a plain one with    *)
(* optional fields left NULL.                                              *)
EXTENDS MetronomeSettings

TwoSongs ==
  <<[bpm |-> 1, beats |-> 2, den |-> 8, sub |-> 2, accents |-> <<0, 2>>,
     polyOn |-> TRUE, polyBeats |-> 2, against |-> 1,
     polyAccents |-> <<1, 0>>, sounds |-> [normal |-> 1, accent |-> 0],
     ramp |-> [on |-> TRUE, start |-> 1, target |-> 3, step |-> 1,
               interval |-> 3, unit |-> "seconds", loop |-> TRUE],
     mute |-> [on |-> TRUE, play |-> 1, mute |-> 2], countIn |-> 1],
    [bpm |-> 3, beats |-> 3, den |-> 4, sub |-> 1, accents |-> <<2, 1, 1>>,
     polyOn |-> FALSE, polyBeats |-> 3, against |-> 2,
     polyAccents |-> <<2, 1, 1>>, sounds |-> [normal |-> 0, accent |-> 1],
     ramp |-> [on |-> FALSE, start |-> 0, target |-> 0, step |-> 1,
               interval |-> 1, unit |-> "bars", loop |-> FALSE],
     mute |-> [on |-> FALSE, play |-> 0, mute |-> 0], countIn |-> 0]>>

\* A song whose poly count is 0, as older databases and their backups hold.
WithoutPoly == [TwoSongs EXCEPT ![2].polyBeats = 0, ![2].polyAccents = <<>>]

=============================================================================
