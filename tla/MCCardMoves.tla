---------------------------- MODULE MCCardMoves ----------------------------
(* Two names, one folder outside the project, two cards and one of somebody. *)
EXTENDS CardMoves

Still == [save |-> 0, start |-> 0, file |-> 0, dismiss |-> 0, configure |-> 0, damage |-> 0,
          unmount |-> 0, vacate |-> 0, unread |-> 0, fault |-> 0, tear |-> 0, stop |-> 0,
          busy |-> FALSE]

Moves == [Still EXCEPT !.save = 2, !.start = 1, !.file = 1]
Wanders == [Still EXCEPT !.save = 3]
Breaks == [Still EXCEPT !.save = 1, !.fault = 1, !.stop = 1, !.unmount = 1]
Answers == [Still EXCEPT !.save = 2, !.dismiss = 1, !.configure = 1]
Rushes == [Still EXCEPT !.save = 1, !.start = 1, !.file = 1, !.busy = TRUE]
Tears == [Still EXCEPT !.save = 1, !.tear = 1, !.stop = 1, !.busy = TRUE]
Vacates == [Still EXCEPT !.save = 1, !.vacate = 1]
Strays == [Still EXCEPT !.vacate = 1, !.file = 1]
Skims == [Still EXCEPT !.save = 1, !.unread = 1, !.damage = 1, !.fault = 1]
Any == {Moves, Wanders, Breaks, Answers, Rushes, Tears, Vacates, Strays, Skims}

Twice == {[Still EXCEPT !.save = 2, !.file = 1]}
Leftover == {[Still EXCEPT !.save = 2, !.stop = 1]}
TornOnce == {[Still EXCEPT !.save = 1, !.tear = 1]}
InPlace == {[Still EXCEPT !.save = 1]}
Outlived == {[Still EXCEPT !.save = 1, !.start = 1, !.file = 1]}
Vacated == {[Still EXCEPT !.save = 1, !.vacate = 1]}
Unread == {[Still EXCEPT !.save = 1, !.unread = 1]}
Customised == {[Still EXCEPT !.save = 1]}
=============================================================================
