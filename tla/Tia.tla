-------------------------------- MODULE Tia ---------------------------------
(***************************************************************************)
(* The picture side of the TIA (tia.c): a raster of color clocks (hi, vi), *)
(* which wraps by itself, and a cursor in the visible region (chi, cvi),   *)
(* which moves only with the color clocks that place a pixel.  The         *)
(* processor switches VSYNC and VBLANK by storing to memory at any moment. *)
(*                                                                         *)
(* cti runs past frame_buffer[] (see InBuffer).  What the stray writes hit *)
(* depends on the layout of the build: the counters, declared after the    *)
(* buffer (tia.c, lines 284-290), or the color table, where a write leaves *)
(* the only color in use as it is.                                         *)
(*                                                                         *)
(* Every pixel has the one color select_pixel() returns, so the frame      *)
(* buffer is the set of the cells written since the last display().        *)
(***************************************************************************)
EXTENDS Integers

CONSTANTS
    VISIBLE_HEIGHT, VISIBLE_WIDTH,
    VSYNC_H, VBLANK_H, TOTAL_HEIGHT, HBLANK_W, TOTAL_WIDTH,
    PIXEL,      \* the color, as the unsigned number a stray write stores
    Layouts     \* what lies behind the buffer: a subset of {"counters", "table"}

(* What the proofs need of the constants.  A module that instantiates this *)
(* one proves it of the values it gives them.                              *)
RasterAssumption ==
    /\ VISIBLE_HEIGHT \in Nat \ {0} /\ VISIBLE_WIDTH \in Nat /\ VISIBLE_WIDTH > 1
    /\ VSYNC_H \in Nat /\ VBLANK_H \in Nat /\ HBLANK_W \in Nat
    /\ TOTAL_HEIGHT \in Nat /\ TOTAL_WIDTH \in Nat
    /\ PIXEL \in Nat
    /\ PIXEL > TOTAL_WIDTH /\ PIXEL > TOTAL_HEIGHT
    /\ PIXEL > VISIBLE_WIDTH /\ PIXEL > VISIBLE_HEIGHT
    /\ Layouts \subseteq {"counters", "table"}

VARIABLES
    hi, vi, ti,          \* the raster
    chi, cvi, cti,       \* the cursor in the visible region
    vsync, vblank,       \* bit 1 of VSYNC and of VBLANK
    displayed,           \* whether the last color clock called display()
    drawn,               \* the cells written since display() was last called
    behind               \* the layout of this build

raster == <<hi, vi, ti>>
cursor == <<chi, cvi, cti>>
vars == <<raster, cursor, vsync, vblank, displayed, drawn, behind>>

Size == VISIBLE_HEIGHT * VISIBLE_WIDTH      \* of frame_buffer[]

-----------------------------------------------------------------------------
cal_total_index(h, v)  == (v * TOTAL_WIDTH) + h
cal_total_cindex_Wide(h, v) == (v * (VISIBLE_WIDTH + 1)) + h                 \* mutant
cal_total_cindex(h, v) == (v * VISIBLE_WIDTH) + h

isonscreen ==
    /\ hi > HBLANK_W /\ vi > VBLANK_H + VSYNC_H
    /\ hi < TOTAL_WIDTH /\ vi < VBLANK_H + VSYNC_H + VISIBLE_HEIGHT
    /\ ~vsync /\ ~vblank

(* The variable that the write of frame_buffer[cti] overwrites; a write    *)
(* over ti or cti is lost, for both are computed again.                    *)
Clobbers(offset) == behind = "counters" /\ cti = Size + offset

Over(offset, old) == IF Clobbers(offset) THEN PIXEL ELSE old

(* One past a wrapping counter. *)
Advanced_TooFar(counter, last) == IF counter > last THEN 0 ELSE counter + 1  \* mutant
Advanced(counter, last) == IF counter + 1 > last THEN 0 ELSE counter + 1
Carries(counter, last)  == counter + 1 > last

(* Mutant of place_pixel(): cti before the carry into cvi.                 *)
place_pixel_EarlyIndex ==
    LET c == Over(2, chi)
        v == Over(3, cvi)
        next == IF Carries(c, VISIBLE_WIDTH) THEN v + 1 ELSE v
    IN  /\ chi' = Advanced(c, VISIBLE_WIDTH)
        /\ cvi' = IF next > VISIBLE_HEIGHT THEN 0 ELSE next
        /\ cti' = cal_total_cindex(chi', v)

(* place_pixel(): the write, then one step of the cursor.                  *)
place_pixel ==
    LET c == Over(2, chi)
        v == Over(3, cvi)
        next == IF Carries(c, VISIBLE_WIDTH) THEN v + 1 ELSE v
    IN  /\ chi' = Advanced(c, VISIBLE_WIDTH)
        /\ cvi' = IF next > VISIBLE_HEIGHT THEN 0 ELSE next
        /\ cti' = cal_total_cindex(chi', cvi')

(* Mutant of the call of display(): one line early.                        *)
display_LineEarly ==
    /\ displayed' = (cti' = ((VISIBLE_HEIGHT - 1) * VISIBLE_WIDTH) - 1)
    /\ drawn' = IF displayed' THEN {} ELSE drawn \cup {cti}

(* Mutant of the call of display(): when the cursor has the last index of  *)
(* the raster, not that of the visible region.                             *)
display_RasterEnd ==
    /\ displayed' = (cti' = cal_total_index(TOTAL_WIDTH, TOTAL_HEIGHT))
    /\ drawn' = IF displayed' THEN {} ELSE drawn \cup {cti}

(* display() comes after the cursor has moved on: the cell it names is not *)
(* written yet.                                                            *)
display ==
    /\ displayed' = (cti' = Size - 1)
    /\ drawn' = IF displayed' THEN {} ELSE drawn \cup {cti}

(* The rest of tia_exec(), from the counters as place_pixel() left them.   *)
Scan(h, v) ==
    LET next == IF Carries(h, TOTAL_WIDTH) THEN v + 1 ELSE v
    IN  /\ hi' = Advanced(h, TOTAL_WIDTH)
        /\ vi' = IF next > TOTAL_HEIGHT THEN 0 ELSE next
        /\ ti' = cal_total_index(hi', vi')

tia_exec ==
    /\ \/ isonscreen /\ place_pixel /\ display /\ Scan(Over(0, hi), Over(1, vi))
       \/ /\ ~isonscreen
          /\ Scan(hi, vi)
          /\ displayed' = FALSE
          /\ UNCHANGED <<cursor, drawn>>
    /\ UNCHANGED <<vsync, vblank, behind>>

(* A store to VSYNC or to VBLANK, between two turns of the TIA.            *)
SetBlanking ==
    /\ vsync' \in BOOLEAN /\ vblank' \in BOOLEAN
    /\ UNCHANGED <<raster, cursor, displayed, drawn, behind>>

Init ==
    /\ hi = 0 /\ vi = 0 /\ ti = 0
    /\ chi = 0 /\ cvi = 0 /\ cti = 0
    /\ vsync = FALSE /\ vblank = FALSE
    /\ displayed = FALSE
    /\ drawn = {}
    /\ behind \in Layouts

Next == tia_exec \/ SetBlanking

Spec == Init /\ [][Next]_vars

(* run_tia() executes color clocks after every instruction, whatever the   *)
(* processor does.                                                         *)
FairSpec == Spec /\ WF_vars(tia_exec)

-----------------------------------------------------------------------------
(* Type correctness.                                                       *)
TypeOK ==
    /\ hi \in 0..TOTAL_WIDTH /\ vi \in 0..TOTAL_HEIGHT
    /\ chi \in 0..VISIBLE_WIDTH /\ cvi \in 0..VISIBLE_HEIGHT
    /\ ti \in Nat /\ cti \in Nat
    /\ vsync \in BOOLEAN /\ vblank \in BOOLEAN /\ displayed \in BOOLEAN
    /\ drawn \subseteq Nat
    /\ behind \in Layouts

(* A stray write stays close to the buffer: at most VISIBLE_WIDTH cells    *)
(* past its end, and where the counters lie behind it only on hi, vi and   *)
(* chi: overwriting chi restarts the cursor before it gets to the pointers *)
(* of SDL that lie further on (tia.c, lines 350-352).                      *)
StrayWritesBounded ==
    cti <= Size + (IF behind = "counters" THEN 2 ELSE VISIBLE_WIDTH)

(* Every picture that is displayed has been drawn since the picture before *)
(* it, from the first cell to the one before the last (tia_exec() calls    *)
(* display() when the cursor arrives at the last cell), however VSYNC and  *)
(* VBLANK cut the drawing into pieces.                                     *)
PictureComplete ==
    [][displayed' /\ ~displayed => 0..(Size - 2) \subseteq drawn \cup {cti}]_vars

(* Pictures are drawn in the order of their cells, and none is started     *)
(* over before it has been displayed (tia_exec() and place_pixel(), tia.c, *)
(* lines 298-341), whatever the stray writes hit.                          *)
Drawing == INSTANCE Picture WITH Lines <- VISIBLE_HEIGHT, Columns <- VISIBLE_WIDTH, cell <- cti
PictureImplemented == Drawing!Spec

(* If the program stops blanking the screen for good, pictures keep being  *)
(* displayed.                                                              *)
KeepsDisplaying ==
    <>[](~vsync /\ ~vblank) => []<>displayed

-----------------------------------------------------------------------------
(* What the comments say.                                                  *)

(* tia.c, line 280: cti is the "total index in the visible region" of      *)
(* VISIBLE_HEIGHT * VISIBLE_WIDTH cells.                                   *)
InBuffer == isonscreen => cti < Size

(* tia.h, line 16: TOTAL_WIDTH is what a line has of color clocks, three   *)
(* for each of the 76 cycles a program counts for a line                   *)
(* (docs/2600-101/03first.html, line 458).                                 *)
LineIsTotalWidth == hi < TOTAL_WIDTH

=============================================================================
