---------------------------- MODULE MCNoteIndex ----------------------------
(* Two notes, a run of each of two starts of the app, two searches.        *)
EXTENDS NoteIndex

Still == [hand |-> 0, arrive |-> 0, unread |-> 0, kill |-> 0, stop |-> 0, ask |-> 0,
          slow |-> 0, wedge |-> 0, orphans |-> FALSE, legible |-> TRUE]

Writes == [Still EXCEPT !.hand = 2, !.arrive = 1, !.ask = 1]
Restarts == [Still EXCEPT !.arrive = 3, !.stop = 1]
Asked == [Still EXCEPT !.ask = 2, !.slow = 1, !.wedge = 1]
Falls == [Still EXCEPT !.arrive = 1, !.ask = 2, !.slow = 1, !.kill = 1]
Leaves == [Still EXCEPT !.arrive = 1, !.stop = 1, !.hand = 1, !.orphans = TRUE]
Unread == [Still EXCEPT !.arrive = 1, !.unread = 1, !.legible = FALSE]
Any == {Writes, Restarts, Asked, Falls, Leaves, Unread}

Missed == {[Still EXCEPT !.hand = 2]}
Crossed == {[Still EXCEPT !.arrive = 1, !.ask = 1, !.slow = 1]}
Orphaned == {[Still EXCEPT !.arrive = 1, !.stop = 1, !.orphans = TRUE]}
Forgotten == {[Still EXCEPT !.arrive = 1, !.unread = 1, !.legible = FALSE]}
=============================================================================
