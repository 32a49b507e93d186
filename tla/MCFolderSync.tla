---------------------------- MODULE MCFolderSync ----------------------------
(* Two machines, two workspaces that exist before they meet, one that may come. *)
EXTENDS FolderSync

CONSTANTS a, b, w1, w2, w3, n1

Still == [add |-> 0, edit |-> 0, locate |-> 0, remove |-> 0, merge |-> 0, pin |-> 0,
          note |-> 0, settle |-> 0, stop |-> 0, busy |-> FALSE, last |-> FALSE,
          racing |-> FALSE,
          owner |-> [w \in Ids |-> IF w = w1 THEN a ELSE IF w = w2 THEN b ELSE None]]

Editing == [Still EXCEPT !.edit = 2, !.locate = 1]
Leaving == [Still EXCEPT !.remove = 1, !.edit = 1]
Folding == [Still EXCEPT !.merge = 1, !.note = 1, !.locate = 1]
FoldingTwice == [Still EXCEPT !.merge = 2, !.note = 1,
                              !.owner = [w \in Ids |-> IF w = w1 THEN a ELSE b]]
Adding == [Still EXCEPT !.add = 1, !.remove = 1]
Pinning == [Still EXCEPT !.pin = 2]
Calm == {Editing, Leaving, Folding, FoldingTwice, Adding, Pinning}

Rough == {[Editing EXCEPT !.stop = 1, !.busy = TRUE, !.racing = TRUE, !.settle = 1],
          [Folding EXCEPT !.stop = 1, !.merge = 2, !.locate = 0, !.busy = TRUE],
          [Still EXCEPT !.stop = 1, !.remove = 2, !.last = TRUE, !.busy = TRUE]}

Quitting == {[Still EXCEPT !.edit = 1, !.stop = 1]}
Racing == {[Still EXCEPT !.edit = 2, !.pin = 1, !.racing = TRUE]}
Busy == {[Still EXCEPT !.locate = 1, !.busy = TRUE]}
BusyAdd == {[Still EXCEPT !.add = 1, !.busy = TRUE]}
Last == {[Still EXCEPT !.remove = 2, !.last = TRUE]}
FoldPinned == {[Still EXCEPT !.merge = 1, !.pin = 1]}
Settling == {[Still EXCEPT !.edit = 2, !.settle = 1]}
Clashing == {[Still EXCEPT !.edit = 2]}
Late == {[Still EXCEPT !.merge = 3, !.settle = 1, !.busy = TRUE,
                       !.owner = [w \in Ids |-> IF w = w1 THEN a ELSE b]]}
=============================================================================
