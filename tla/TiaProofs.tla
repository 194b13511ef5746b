----------------------------- MODULE TiaProofs ------------------------------
(***************************************************************************)
(* Proofs about Tia, for every size of screen and raster and either layout *)
(* behind the frame buffer: its type invariant, the bound of the stray     *)
(* writes and the completeness of what is displayed.                       *)
(***************************************************************************)
EXTENDS Tia, TLAPS

(* ------------------------------ Arithmetic ----------------------------- *)

LEMMA ProductNat == ASSUME NEW a \in Nat, NEW n \in Nat PROVE a * n \in Nat
BY SMT

LEMMA ProductMonotone ==
    ASSUME NEW a \in Int, NEW b \in Int, NEW n \in Nat, a <= b
    PROVE  a * n <= b * n
BY SMT

LEMMA SumMonotone ==
    ASSUME NEW a \in Int, NEW b \in Int, NEW c \in Int, NEW d \in Int, a <= b, c <= d
    PROVE  a + c <= b + d
BY SMT

LEMMA NextLine == ASSUME NEW a \in Int, NEW n \in Int PROVE (a + 1) * n = (a * n) + n
BY SMT

LEMMA SizeNat == ASSUME RasterAssumption PROVE Size \in Nat /\ 2 <= Size
<1>1. VISIBLE_HEIGHT \in Int /\ 1 <= VISIBLE_HEIGHT /\ VISIBLE_WIDTH \in Nat /\ 2 <= VISIBLE_WIDTH
  BY SMT DEF RasterAssumption
<1>2. 1 * VISIBLE_WIDTH <= Size
  BY <1>1, ProductMonotone DEF Size
<1>3. Size \in Nat
  BY <1>1, ProductNat, SMT DEF Size
<1>. QED
  BY <1>1, <1>2, <1>3, SMT

(* A line above the lower border ends within the buffer. *)
LEMMA LineInside ==
    ASSUME RasterAssumption, NEW v \in Int, v < VISIBLE_HEIGHT
    PROVE  (v * VISIBLE_WIDTH) + VISIBLE_WIDTH <= Size
<1>1. VISIBLE_HEIGHT \in Int /\ VISIBLE_WIDTH \in Nat /\ v + 1 \in Int /\ v + 1 <= VISIBLE_HEIGHT
  BY SMT DEF RasterAssumption
<1>2. (v + 1) * VISIBLE_WIDTH <= Size
  BY <1>1, ProductMonotone DEF Size
<1>3. (v + 1) * VISIBLE_WIDTH = (v * VISIBLE_WIDTH) + VISIBLE_WIDTH
  BY <1>1, NextLine, SMT
<1>. QED
  BY <1>2, <1>3

(* The last cell of the buffer is not the first of a line. *)
LEMMA LastCell == ASSUME RasterAssumption, NEW v \in Int PROVE v * VISIBLE_WIDTH # Size - 1
<1>1. /\ VISIBLE_HEIGHT \in Int /\ VISIBLE_WIDTH \in Nat /\ 2 <= VISIBLE_WIDTH
      /\ Size \in Nat /\ v * VISIBLE_WIDTH \in Int
  BY SizeNat, SMT DEF RasterAssumption
<1>2. CASE v < VISIBLE_HEIGHT
  BY <1>1, <1>2, LineInside, SMT
<1>3. CASE VISIBLE_HEIGHT <= v
  <2>1. Size <= v * VISIBLE_WIDTH
    BY <1>1, <1>3, ProductMonotone DEF Size
  <2>. QED
    BY <1>1, <2>1, SMT
<1>. QED
  BY <1>1, <1>2, <1>3, SMT

LEMMA IndexNat == ASSUME RasterAssumption, NEW h \in Nat, NEW v \in Nat
                  PROVE  cal_total_index(h, v) \in Nat /\ cal_total_cindex(h, v) \in Nat
<1>1. v * TOTAL_WIDTH \in Nat /\ v * VISIBLE_WIDTH \in Nat
  BY ProductNat DEF RasterAssumption
<1>. QED
  BY <1>1, SMT DEF cal_total_index, cal_total_cindex

(* ---------------------------- Type correctness ------------------------- *)

LEMMA InitType == ASSUME RasterAssumption PROVE Init => TypeOK
<1>. SUFFICES ASSUME Init PROVE TypeOK
  OBVIOUS
<1>1. hi \in 0..TOTAL_WIDTH /\ vi \in 0..TOTAL_HEIGHT /\ chi \in 0..VISIBLE_WIDTH
      /\ cvi \in 0..VISIBLE_HEIGHT /\ ti \in Nat /\ cti \in Nat
  BY SMT DEF Init, RasterAssumption
<1>. QED
  BY <1>1 DEF Init, TypeOK

LEMMA AdvancedType ==
    ASSUME NEW last \in Nat, NEW counter \in Nat
    PROVE  Advanced(counter, last) \in 0..last
BY SMT DEF Advanced

LEMMA CounterType ==
    ASSUME RasterAssumption, TypeOK
    PROVE  /\ hi \in Nat /\ vi \in Nat /\ chi \in Nat /\ cvi \in Nat
           /\ TOTAL_WIDTH \in Nat /\ TOTAL_HEIGHT \in Nat
           /\ VISIBLE_WIDTH \in Nat /\ VISIBLE_HEIGHT \in Nat /\ PIXEL \in Nat
BY SMT DEF TypeOK, RasterAssumption

LEMMA PlaceType ==
    ASSUME RasterAssumption, TypeOK, place_pixel
    PROVE  chi' \in 0..VISIBLE_WIDTH /\ cvi' \in 0..VISIBLE_HEIGHT /\ cti' \in Nat
<1>1. Over(2, chi) \in Nat /\ Over(3, cvi) \in Nat
  BY CounterType DEF Over
<1>2. chi' \in 0..VISIBLE_WIDTH
  BY <1>1, CounterType, AdvancedType DEF place_pixel
<1>3. cvi' \in 0..VISIBLE_HEIGHT
  BY <1>1, CounterType, SMT DEF place_pixel
<1>4. chi' \in Nat /\ cvi' \in Nat
  BY <1>2, <1>3, CounterType, SMT
<1>. QED
  BY <1>2, <1>3, <1>4, IndexNat DEF place_pixel

LEMMA ScanType ==
    ASSUME RasterAssumption, TypeOK, NEW h \in Nat, NEW v \in Nat, Scan(h, v)
    PROVE  hi' \in 0..TOTAL_WIDTH /\ vi' \in 0..TOTAL_HEIGHT /\ ti' \in Nat
<1>1. hi' \in 0..TOTAL_WIDTH
  BY CounterType, AdvancedType DEF Scan
<1>2. vi' \in 0..TOTAL_HEIGHT
  BY CounterType, SMT DEF Scan
<1>3. hi' \in Nat /\ vi' \in Nat
  BY <1>1, <1>2, CounterType, SMT
<1>. QED
  BY <1>1, <1>2, <1>3, IndexNat DEF Scan

LEMMA NextType == ASSUME RasterAssumption PROVE TypeOK /\ [Next]_vars => TypeOK'
<1>. SUFFICES ASSUME TypeOK, [Next]_vars PROVE TypeOK'
  OBVIOUS
<1>1. CASE tia_exec /\ isonscreen
  <2>1. Over(0, hi) \in Nat /\ Over(1, vi) \in Nat
    BY CounterType DEF Over
  <2>2. hi' \in 0..TOTAL_WIDTH /\ vi' \in 0..TOTAL_HEIGHT /\ ti' \in Nat
    BY <1>1, <2>1, ScanType DEF tia_exec
  <2>3. chi' \in 0..VISIBLE_WIDTH /\ cvi' \in 0..VISIBLE_HEIGHT /\ cti' \in Nat
    BY <1>1, PlaceType DEF tia_exec
  <2>4. displayed' \in BOOLEAN /\ drawn' \subseteq Nat
    BY <1>1 DEF tia_exec, display, TypeOK
  <2>. QED
    BY <1>1, <2>2, <2>3, <2>4 DEF tia_exec, TypeOK
<1>2. CASE tia_exec /\ ~isonscreen
  <2>1. hi' \in 0..TOTAL_WIDTH /\ vi' \in 0..TOTAL_HEIGHT /\ ti' \in Nat
    BY <1>2, CounterType, ScanType DEF tia_exec
  <2>. QED
    BY <1>2, <2>1 DEF tia_exec, cursor, TypeOK
<1>3. CASE SetBlanking
  BY <1>3 DEF SetBlanking, raster, cursor, TypeOK
<1>4. CASE UNCHANGED vars
  BY <1>4 DEF vars, raster, cursor, TypeOK
<1>. QED
  BY <1>1, <1>2, <1>3, <1>4 DEF Next

(***************************************************************************)
(* The counters stay within their regions.                                 *)
(***************************************************************************)
THEOREM TypeCorrect == ASSUME RasterAssumption PROVE Spec => []TypeOK
<1>. QED
  BY InitType, NextType, PTL DEF Spec

(* ----------------------------- The indices ----------------------------- *)

(* What the proofs below need of ti and cti: they are computed last.       *)
IndexAgrees ==
    /\ ti = cal_total_index(hi, vi)
    /\ cti = cal_total_cindex(chi, cvi)

LEMMA InitIndex == ASSUME RasterAssumption PROVE Init => IndexAgrees
<1>1. 0 * TOTAL_WIDTH = 0 /\ 0 * VISIBLE_WIDTH = 0
  BY SMT DEF RasterAssumption
<1>. QED
  BY <1>1, SMT DEF Init, IndexAgrees, cal_total_index, cal_total_cindex

LEMMA NextIndex == IndexAgrees /\ [Next]_vars => IndexAgrees'
BY DEF IndexAgrees, Next, tia_exec, Scan, place_pixel, SetBlanking, vars, raster, cursor

(* --------------------- The cursor and the stray writes ----------------- *)

(* The inductive invariant: how far cti can get depends on which counters  *)
(* a stray write hits, and so on the line the cursor is in.                *)
CursorInv == TypeOK /\ IndexAgrees /\ StrayWritesBounded

(* One step of the cursor: one cell on, or from the column past the end of *)
(* a line to the first cell of the next, which has the same index, or from *)
(* past the end to the start, which is where a stray write over chi sends  *)
(* it, too.                                                                *)
LEMMA CursorStep ==
    ASSUME RasterAssumption, CursorInv, place_pixel
    PROVE  /\ \/ cti' = cti + 1
              \/ cti' = cti /\ cti # Size - 1 /\ cti \in Drawing!LineEnds
              \/ cti' = 0 /\ cti >= Size
           /\ Clobbers(2) => cti' = 0
<1>1. /\ chi \in Nat /\ cvi \in Nat /\ chi <= VISIBLE_WIDTH /\ cvi <= VISIBLE_HEIGHT
      /\ VISIBLE_WIDTH \in Nat /\ VISIBLE_HEIGHT \in Nat
      /\ PIXEL \in Nat /\ PIXEL > VISIBLE_WIDTH
  BY SMT DEF CursorInv, TypeOK, RasterAssumption
<1>2. cti = (cvi * VISIBLE_WIDTH) + chi /\ cvi * VISIBLE_WIDTH \in Nat /\ Size \in Nat
  BY <1>1, ProductNat, SizeNat DEF CursorInv, IndexAgrees, cal_total_cindex
<1>3. 0 * VISIBLE_WIDTH = 0 /\ (0 * VISIBLE_WIDTH) + 0 = 0
  BY <1>1, SMT
<1>4. Over(3, cvi) = cvi
  BY <1>2, SMT DEF CursorInv, StrayWritesBounded, Over, Clobbers
<1>5. CASE Clobbers(2)
  <2>1. cvi = VISIBLE_HEIGHT
    <3>1. cti = Size + 2
      BY <1>5 DEF Clobbers
    <3>2. CASE cvi < VISIBLE_HEIGHT
      <4>1. (cvi * VISIBLE_WIDTH) + VISIBLE_WIDTH <= Size
        BY <1>1, <3>2, LineInside, SMT
      <4>. QED
        BY <1>1, <1>2, <3>1, <4>1, SMT
    <3>. QED
      BY <1>1, <3>2, SMT
  <2>2. Over(2, chi) = PIXEL
    BY <1>5 DEF Over
  <2>3. chi' = 0
    BY <1>1, <2>2, SMT DEF place_pixel, Advanced
  <2>4. cvi' = 0
    BY <1>1, <1>4, <2>1, <2>2, SMT DEF place_pixel, Carries
  <2>5. cti' = 0
    BY <1>3, <2>3, <2>4 DEF place_pixel, cal_total_cindex
  <2>6. cti >= Size
    BY <1>2, <1>5, SMT DEF Clobbers
  <2>. QED
    BY <2>5, <2>6
<1>6. CASE ~Clobbers(2)
  <2>1. Over(2, chi) = chi
    BY <1>6 DEF Over
  <2>2. CASE chi < VISIBLE_WIDTH
    <3>1. chi' = chi + 1 /\ cvi' = cvi
      BY <1>1, <1>4, <2>1, <2>2, SMT DEF place_pixel, Advanced, Carries
    <3>2. cti' = (cvi * VISIBLE_WIDTH) + (chi + 1)
      BY <3>1 DEF place_pixel, cal_total_cindex
    <3>3. cti' = cti + 1
      BY <1>1, <1>2, <3>2, SMT
    <3>. QED
      BY <1>6, <3>3
  <2>3. CASE chi = VISIBLE_WIDTH
    <3>1. chi' = 0 /\ \/ cvi' = 0 /\ cvi = VISIBLE_HEIGHT
                      \/ cvi' = cvi + 1 /\ cvi < VISIBLE_HEIGHT
      BY <1>1, <1>4, <2>1, <2>3, SMT DEF place_pixel, Advanced, Carries
    <3>2. CASE cvi' = 0 /\ cvi = VISIBLE_HEIGHT
      <4>1. cti' = 0
        BY <1>3, <3>1, <3>2 DEF place_pixel, cal_total_cindex
      <4>2. cvi * VISIBLE_WIDTH = Size
        BY <3>2 DEF Size
      <4>3. cti >= Size
        BY <1>1, <1>2, <4>2, SMT
      <4>. QED
        BY <1>6, <4>1, <4>3
    <3>3. CASE cvi' = cvi + 1 /\ cvi < VISIBLE_HEIGHT
      <4>1. cti' = ((cvi + 1) * VISIBLE_WIDTH) + 0
        BY <3>1, <3>3 DEF place_pixel, cal_total_cindex
      <4>2. (cvi + 1) * VISIBLE_WIDTH = (cvi * VISIBLE_WIDTH) + VISIBLE_WIDTH
        BY <1>1, NextLine, SMT
      <4>3. cti = (cvi + 1) * VISIBLE_WIDTH /\ cti' = cti
        BY <1>1, <1>2, <2>3, <4>1, <4>2, SMT
      <4>4. cti # Size - 1
        <5>1. cvi + 1 \in Int
          BY <1>1, SMT
        <5>. QED
          BY <4>3, <5>1, LastCell, Zenon
      <4>5. cti \in Drawing!LineEnds
        <5>1. cvi + 1 \in 1..VISIBLE_HEIGHT
          BY <1>1, <3>3, SMT
        <5>. QED
          BY <4>3, <5>1 DEF Drawing!LineEnds
      <4>. QED
        BY <1>6, <4>3, <4>4, <4>5
    <3>. QED
      BY <3>1, <3>2, <3>3
  <2>. QED
    BY <1>1, <2>2, <2>3, SMT
<1>. QED
  BY <1>5, <1>6

LEMMA InitCursor == ASSUME RasterAssumption PROVE Init => CursorInv
<1>1. Init => StrayWritesBounded
  BY SizeNat, SMT DEF Init, StrayWritesBounded, RasterAssumption
<1>. QED
  BY <1>1, InitType, InitIndex DEF CursorInv

LEMMA NextCursor == ASSUME RasterAssumption PROVE CursorInv /\ [Next]_vars => CursorInv'
<1>. SUFFICES ASSUME CursorInv, [Next]_vars PROVE CursorInv'
  OBVIOUS
<1>1. TypeOK' /\ IndexAgrees'
  BY NextType, NextIndex DEF CursorInv
<1>2. ASSUME place_pixel, behind' = behind
      PROVE  StrayWritesBounded'
  <2>1. Size \in Nat /\ cti \in Nat
    BY SizeNat DEF CursorInv, TypeOK
  <2>2. CASE behind = "counters"
    <3>1. cti <= Size + 2 /\ (cti = Size + 2 => cti' = 0)
      BY <1>2, <2>2, CursorStep DEF CursorInv, StrayWritesBounded, Clobbers
    <3>2. cti' <= Size + 2
      BY <1>2, <2>1, <3>1, CursorStep, SMT
    <3>. QED
      BY <1>2, <2>2, <3>2 DEF StrayWritesBounded, Size
  <2>3. CASE behind # "counters"
    <3>1. /\ cvi' \in Int /\ chi' \in Int /\ cvi' <= VISIBLE_HEIGHT /\ chi' <= VISIBLE_WIDTH
          /\ VISIBLE_HEIGHT \in Int /\ VISIBLE_WIDTH \in Nat /\ VISIBLE_WIDTH \in Int
      BY <1>1, SMT DEF TypeOK, RasterAssumption
    <3>2. cvi' * VISIBLE_WIDTH <= Size
      BY <3>1, ProductMonotone DEF Size
    <3>3. cti' = (cvi' * VISIBLE_WIDTH) + chi'
      BY <1>1 DEF IndexAgrees, cal_total_cindex
    <3>4. cti' <= Size + VISIBLE_WIDTH
      <4>1. cvi' * VISIBLE_WIDTH \in Int
        BY <3>1, SMT
      <4>2. Size \in Int
        BY <2>1, SMT
      <4>. QED
        BY <3>1, <3>2, <3>3, <4>1, <4>2, SumMonotone, Zenon
    <3>. QED
      BY <1>2, <2>3, <3>4 DEF StrayWritesBounded, Size
  <2>. QED
    BY <2>2, <2>3
<1>3. CASE tia_exec /\ isonscreen
  BY <1>1, <1>2, <1>3 DEF tia_exec, CursorInv
<1>4. CASE (tia_exec /\ ~isonscreen) \/ SetBlanking \/ UNCHANGED vars
  <2>1. cti' = cti /\ behind' = behind
    BY <1>4 DEF tia_exec, SetBlanking, vars, cursor
  <2>. QED
    BY <1>1, <2>1 DEF CursorInv, StrayWritesBounded, Size
<1>. QED
  BY <1>3, <1>4 DEF Next

LEMMA CursorInvariant == ASSUME RasterAssumption PROVE Spec => []CursorInv
BY InitCursor, NextCursor, PTL DEF Spec

(***************************************************************************)
(* The writes past the frame buffer do not get further than the first      *)
(* three counters, or one line.                                            *)
(***************************************************************************)
THEOREM StrayWritesStayClose == ASSUME RasterAssumption PROVE Spec => []StrayWritesBounded
<1>1. CursorInv => StrayWritesBounded
  BY DEF CursorInv
<1>. QED
  BY <1>1, CursorInvariant, PTL

(* ------------------------- Complete pictures --------------------------- *)

(* As long as the cursor has not reached the last cell, every cell behind  *)
(* it has been drawn since the last picture.                               *)
DrawnInv == \A i \in Nat : cti <= Size - 2 /\ i < cti => i \in drawn

LEMMA NextDrawn == ASSUME RasterAssumption PROVE CursorInv /\ DrawnInv /\ [Next]_vars => DrawnInv'
<1>. SUFFICES ASSUME CursorInv, DrawnInv, [Next]_vars PROVE DrawnInv'
  OBVIOUS
<1>1. Size \in Nat /\ cti \in Nat
  BY SizeNat DEF CursorInv, TypeOK
<1>2. CASE tia_exec /\ isonscreen
  <2>1. cti' = 0 \/ cti' = cti + 1 \/ cti' = cti
    BY <1>2, CursorStep DEF tia_exec
  <2>2. ASSUME NEW i \in Nat, cti' <= Size - 2, i < cti'
        PROVE  i \in drawn'
    <3>1. cti <= Size - 2 /\ (i < cti \/ i = cti)
      BY <1>1, <2>1, <2>2, SMT
    <3>2. cti' # Size - 1
      BY <1>1, <2>1, <2>2, SMT
    <3>3. drawn' = drawn \cup {cti}
      BY <1>2, <3>2 DEF tia_exec, display
    <3>. QED
      BY <3>1, <3>3 DEF DrawnInv
  <2>. QED
    BY <2>2 DEF DrawnInv, Size
<1>3. CASE (tia_exec /\ ~isonscreen) \/ SetBlanking \/ UNCHANGED vars
  <2>1. cti' = cti /\ drawn' = drawn
    BY <1>3 DEF tia_exec, SetBlanking, vars, cursor
  <2>. QED
    BY <2>1 DEF DrawnInv, Size
<1>. QED
  BY <1>2, <1>3 DEF Next

LEMMA DisplayStep ==
    ASSUME RasterAssumption, CursorInv, DrawnInv, Next, displayed', ~displayed
    PROVE  0..(Size - 2) \subseteq drawn \cup {cti}
<1>1. Size \in Nat /\ 2 <= Size /\ cti \in Nat
  BY SizeNat DEF CursorInv, TypeOK
<1>2. place_pixel /\ cti' = Size - 1
  BY DEF Next, tia_exec, SetBlanking, display
<1>3. cti = Size - 2
  BY <1>1, <1>2, CursorStep, SMT
<1>4. ASSUME NEW i \in 0..(Size - 2)
      PROVE  i \in drawn \cup {cti}
  <2>1. i \in Nat /\ (i < cti \/ i = cti)
    BY <1>1, <1>3, <1>4, SMT
  <2>2. cti <= Size - 2
    BY <1>1, <1>3, SMT
  <2>. QED
    BY <2>1, <2>2 DEF DrawnInv
<1>. QED
  BY <1>4

(***************************************************************************)
(* No picture is displayed before its cells, all but the last, are drawn.  *)
(***************************************************************************)
THEOREM PicturesAreComplete == ASSUME RasterAssumption PROVE Spec => PictureComplete
<1>1. Init => DrawnInv
  BY SMT DEF Init, DrawnInv
<1>2. CursorInv /\ DrawnInv /\ [Next]_vars => DrawnInv'
  BY NextDrawn
<1>3. CursorInv /\ DrawnInv /\ [Next]_vars =>
        [displayed' /\ ~displayed => 0..(Size - 2) \subseteq drawn \cup {cti}]_vars
  BY DisplayStep
<1>. QED
  BY <1>1, <1>2, <1>3, CursorInvariant, PTL DEF Spec, PictureComplete

(* -------------------- The pictures Picture promises -------------------- *)

LEMMA DrawingStep ==
    ASSUME RasterAssumption, CursorInv, [Next]_vars
    PROVE  [Drawing!Next]_<<cti, displayed>>
<1>1. CASE tia_exec /\ isonscreen
  <2>1. place_pixel /\ displayed' = (cti' = Size - 1)
    BY <1>1 DEF tia_exec, display
  <2>2. Drawing!Draw
    BY <2>1, CursorStep DEF Drawing!Draw, Drawing!Cells, Size
  <2>. QED
    BY <2>2 DEF Drawing!Next
<1>2. CASE tia_exec /\ ~isonscreen
  BY <1>2 DEF tia_exec, cursor, Drawing!Next, Drawing!Skip
<1>3. CASE SetBlanking \/ UNCHANGED vars
  BY <1>3 DEF SetBlanking, vars, cursor
<1>. QED
  BY <1>1, <1>2, <1>3 DEF Next

(***************************************************************************)
(* The raster, the two counters and their stray writes draw the pictures   *)
(* of Picture: in the order of their cells, each to its end, displayed     *)
(* when the last cell is reached.                                          *)
(***************************************************************************)
THEOREM TiaImplementsPicture == ASSUME RasterAssumption PROVE Spec => PictureImplemented
<1>1. Init => Drawing!Init
  BY DEF Init, Drawing!Init
<1>2. CursorInv /\ [Next]_vars => [Drawing!Next]_<<cti, displayed>>
  BY DrawingStep
<1>. QED
  BY <1>1, <1>2, CursorInvariant, PTL DEF Spec, PictureImplemented, Drawing!Spec

=============================================================================
