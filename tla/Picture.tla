------------------------------ MODULE Picture -------------------------------
(***************************************************************************)
(* What the picture side of the TIA promises: pictures are drawn cell      *)
(* after cell, none is given up before it has been displayed, and display  *)
(* comes when the drawing arrives at the last cell and at no other moment. *)
(* Tia implements it with a raster, a cursor of two counters and stray     *)
(* writes behind the frame buffer.                                         *)
(***************************************************************************)
EXTENDS Integers

CONSTANTS Lines, Columns     \* of a picture

VARIABLES
    cell,                    \* the cell to be drawn next
    displayed                \* whether the last step displayed the picture

Cells == Lines * Columns

Init == cell = 0 /\ displayed = FALSE

(* The column past the end of a line is the first of the next line, which  *)
(* is drawn again.                                                         *)
LineEnds == { line * Columns : line \in 1..Lines }

(* A picture is left only past its end.                                    *)
Draw ==
    /\ \/ cell' = cell + 1
       \/ cell \in LineEnds /\ cell' = cell
       \/ cell >= Cells /\ cell' = 0
    /\ displayed' = (cell' = Cells - 1)

(* A color clock off the screen, or with the screen blanked. *)
Skip == cell' = cell /\ displayed' = FALSE

Next == Draw \/ Skip

Spec == Init /\ [][Next]_<<cell, displayed>>

=============================================================================
