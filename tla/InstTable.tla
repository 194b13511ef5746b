----------------------------- MODULE InstTable ------------------------------
(***************************************************************************)
(* The instruction table of cpu.c: for every opcode the number of bytes    *)
(* the program counter moves, the base number of cycles and the function   *)
(* that executes it, as inst_tbl_init() assigns them, in its order.  Three *)
(* opcodes are assigned twice, where the last assignment counts, and three *)
(* are never assigned: their entry stays all zero, a null function.        *)
(*                                                                         *)
(* A function of cpu.c is named here by the operation its body performs    *)
(* and by where that body finds its operand:                               *)
(*   "i"   the operand itself         "m"   the addressed cell             *)
(*   "zx", "zy", "ax", "ay"           the cell indexed by X or Y           *)
(*   "inx", "iny"                     the two indirect modes               *)
(*   "a"   the accumulator            "-"   none                           *)
(* The name follows the body, not the identifier, where the two differ:    *)
(* anday(), eoray() and oraay() index with X, ldy() and ldyax() load X     *)
(* (ldyax() indexes with Y), and aslax(), decax(), incax(), lsrax(),       *)
(* rolax(), rorax() call their zero page form.                             *)
(***************************************************************************)
EXTENDS Mspace, TLC

Assignments == <<
    <<\h69, 2, 2, "adc", "i">>, <<\h65, 2, 3, "adc", "m">>, <<\h75, 2, 4, "adc", "zx">>,
    <<\h60, 3, 4, "adc", "m">>, <<\h7D, 3, 4, "adc", "ax">>, <<\h79, 3, 4, "adc", "ay">>,
    <<\h61, 2, 6, "adc", "inx">>, <<\h71, 2, 5, "adc", "iny">>, <<\h29, 2, 2, "and", "i">>,
    <<\h25, 2, 3, "and", "m">>, <<\h35, 2, 4, "and", "zx">>, <<\h2D, 3, 4, "and", "m">>,
    <<\h3D, 3, 4, "and", "ax">>, <<\h39, 3, 4, "and", "ax">>, <<\h21, 2, 6, "and", "inx">>,
    <<\h31, 2, 5, "and", "iny">>, <<\h0A, 1, 2, "asl", "a">>, <<\h06, 2, 5, "asl", "m">>,
    <<\h16, 2, 6, "asl", "zx">>, <<\h0E, 3, 6, "asl", "m">>, <<\h1E, 3, 7, "asl", "zx">>,
    <<\h90, 2, 2, "bcc", "-">>, <<\hB0, 2, 2, "bcs", "-">>, <<\hF0, 2, 2, "beq", "-">>,
    <<\h24, 2, 3, "bit", "m">>, <<\h2C, 3, 4, "bit", "m">>, <<\h30, 2, 2, "bmi", "-">>,
    <<\hD0, 2, 2, "bne", "-">>, <<\h10, 2, 2, "bpl", "-">>, <<\h00, 1, 7, "brk", "-">>,
    <<\h50, 2, 2, "bvc", "-">>, <<\h00, 1, 7, "bvs", "-">>, <<\h18, 1, 2, "clc", "-">>,
    <<\hD8, 1, 2, "cld", "-">>, <<\h58, 1, 2, "cli", "-">>, <<\hB8, 1, 2, "clv", "-">>,
    <<\hC9, 2, 2, "cmp", "i">>, <<\hC5, 2, 3, "cmp", "m">>, <<\hD5, 2, 4, "cmp", "zx">>,
    <<\hCD, 3, 4, "cmp", "m">>, <<\hDD, 3, 4, "cmp", "ax">>, <<\hD9, 3, 4, "cmp", "ay">>,
    <<\hC1, 2, 6, "cmp", "inx">>, <<\hD1, 2, 5, "cmp", "iny">>, <<\hE0, 2, 2, "cpx", "i">>,
    <<\hE4, 2, 3, "cpx", "m">>, <<\hEC, 3, 4, "cpx", "m">>, <<\hC0, 2, 2, "cpy", "i">>,
    <<\hC4, 2, 3, "cpy", "m">>, <<\hCC, 3, 4, "cpy", "m">>, <<\hC6, 2, 5, "dec", "m">>,
    <<\hD6, 2, 6, "dec", "zx">>, <<\hCE, 3, 6, "dec", "m">>, <<\hDE, 3, 7, "dec", "zx">>,
    <<\hCA, 1, 2, "dex", "-">>, <<\h88, 1, 2, "dey", "-">>, <<\h49, 2, 2, "eor", "i">>,
    <<\h45, 2, 3, "eor", "m">>, <<\h55, 2, 4, "eor", "zx">>, <<\h40, 3, 4, "eor", "m">>,
    <<\h5D, 3, 4, "eor", "ax">>, <<\h59, 3, 4, "eor", "ax">>, <<\h41, 2, 6, "eor", "inx">>,
    <<\h51, 2, 5, "eor", "iny">>, <<\hE6, 2, 5, "inc", "m">>, <<\hF6, 2, 6, "inc", "zx">>,
    <<\hEE, 3, 6, "inc", "m">>, <<\hFE, 3, 7, "inc", "zx">>, <<\hE8, 1, 2, "inx", "-">>,
    <<\hC8, 1, 2, "iny", "-">>, <<\h4C, 3, 3, "jmp", "-">>, <<\h6C, 3, 5, "jmpin", "-">>,
    <<\h20, 3, 6, "jsr", "-">>, <<\hA9, 2, 2, "lda", "i">>, <<\hA5, 2, 3, "lda", "m">>,
    <<\hB5, 2, 4, "lda", "zx">>, <<\hAD, 3, 4, "lda", "m">>, <<\hBD, 3, 4, "lda", "ax">>,
    <<\hB9, 3, 4, "lda", "ay">>, <<\hA1, 2, 6, "lda", "inx">>, <<\hB1, 2, 5, "lda", "iny">>,
    <<\hA2, 2, 2, "ldx", "i">>, <<\hA6, 2, 3, "ldx", "m">>, <<\hB6, 2, 4, "ldx", "zy">>,
    <<\hAE, 3, 4, "ldx", "m">>, <<\hBE, 3, 4, "ldx", "ay">>, <<\hA0, 2, 2, "ldy", "i">>,
    <<\hA4, 2, 3, "ldy", "m">>, <<\hB4, 2, 4, "ldy", "zx">>, <<\hAC, 3, 4, "ldx", "m">>,
    <<\hBC, 3, 4, "ldx", "ay">>, <<\h4A, 1, 2, "lsr", "a">>, <<\h46, 2, 5, "lsr", "m">>,
    <<\h56, 2, 6, "lsrzx", "zx">>, <<\h4E, 3, 6, "lsr", "m">>, <<\h5E, 3, 7, "lsrzx", "zx">>,
    <<\hEA, 1, 2, "nop", "-">>, <<\h09, 2, 2, "ora", "i">>, <<\h05, 2, 3, "ora", "m">>,
    <<\h15, 2, 4, "ora", "zx">>, <<\h0D, 3, 4, "ora", "m">>, <<\h10, 3, 4, "ora", "ax">>,
    <<\h19, 3, 4, "ora", "ax">>, <<\h01, 2, 6, "ora", "inx">>, <<\h11, 2, 5, "ora", "iny">>,
    <<\h48, 1, 3, "pha", "-">>, <<\h08, 1, 3, "php", "-">>, <<\h68, 1, 4, "pla", "-">>,
    <<\h28, 1, 4, "plp", "-">>, <<\h2A, 1, 2, "rol", "a">>, <<\h26, 2, 5, "rol", "m">>,
    <<\h36, 2, 6, "rol", "zx">>, <<\h2E, 3, 6, "rol", "m">>, <<\h3E, 3, 7, "rol", "zx">>,
    <<\h6A, 1, 2, "ror", "a">>, <<\h66, 2, 5, "ror", "m">>, <<\h76, 2, 6, "ror", "zx">>,
    <<\h6E, 3, 6, "ror", "m">>, <<\h7E, 3, 7, "ror", "zx">>, <<\h4D, 1, 6, "rti", "-">>,
    <<\h60, 1, 6, "rts", "-">>, <<\hE9, 2, 2, "sbc", "i">>, <<\hE5, 2, 3, "sbc", "m">>,
    <<\hF5, 2, 4, "sbc", "zx">>, <<\hED, 3, 4, "sbc", "m">>, <<\hFD, 3, 4, "sbc", "ax">>,
    <<\hF9, 3, 4, "sbc", "ay">>, <<\hE1, 2, 6, "sbc", "inx">>, <<\hF1, 2, 5, "sbc", "iny">>,
    <<\h38, 1, 2, "sec", "-">>, <<\hF8, 1, 2, "sed", "-">>, <<\h78, 1, 2, "sei", "-">>,
    <<\h85, 2, 3, "sta", "m">>, <<\h95, 2, 4, "sta", "zx">>, <<\h8D, 3, 4, "sta", "m">>,
    <<\h9D, 3, 5, "sta", "ax">>, <<\h99, 3, 5, "sta", "ay">>, <<\h81, 2, 6, "sta", "inx">>,
    <<\h91, 2, 6, "sta", "iny">>, <<\h86, 2, 3, "stx", "m">>, <<\h96, 2, 4, "stx", "zy">>,
    <<\h8E, 3, 4, "stx", "m">>, <<\h84, 2, 3, "sty", "m">>, <<\h94, 2, 4, "sty", "zx">>,
    <<\h8C, 3, 4, "sty", "m">>, <<\hAA, 1, 2, "tax", "-">>, <<\hA8, 1, 2, "tay", "-">>,
    <<\hBA, 1, 2, "tsx", "-">>, <<\h8A, 1, 2, "txa", "-">>, <<\h9A, 1, 2, "txs", "-">>,
    <<\h98, 1, 2, "tya", "-">> >>

Vacant == {
    \h02, \h03, \h04, \h07, \h0B, \h0C, \h0F, \h12, \h13, \h14, \h17, \h1A, \h1B, \h1C, \h1F, \h42,
    \h43, \h44, \h47, \h4B, \h4F, \h52, \h53, \h54, \h57, \h5A, \h5B, \h5C, \h5F, \h80, \h82, \h83,
    \h87, \h89, \h8B, \h8F, \h92, \h93, \h97, \h9B, \h9C, \h9E, \h9F, \hC2, \hC3, \hC7, \hCB, \hCF,
    \hD2, \hD3, \hD4, \hD7, \hDA, \hDB, \hDC, \hDF, \h22, \h23, \h27, \h2B, \h2F, \h32, \h33, \h34,
    \h37, \h3A, \h3B, \h3C, \h3F, \h62, \h63, \h64, \h67, \h6B, \h6F, \h72, \h73, \h74, \h77, \h7A,
    \h7B, \h7C, \h7F, \hA3, \hA7, \hAB, \hAF, \hB2, \hB3, \hB7, \hBB, \hBF, \hE2, \hE3, \hE7, \hEB,
    \hEF, \hF2, \hF3, \hF4, \hF7, \hFA, \hFB, \hFC, \hFF }

VacantEntry == [bytes |-> 1, cycles |-> 0, exec |-> "vac", mode |-> "-"]
NullEntry   == [bytes |-> 0, cycles |-> 0, exec |-> "NULL", mode |-> "-"]

Entry(a) == [bytes |-> a[2], cycles |-> a[3], exec |-> a[4], mode |-> a[5]]

(* Every assignment to an opcode overwrites the ones before it; the vacant *)
(* opcodes have no other entry.                                            *)
Assigned == {Assignments[i][1] : i \in DOMAIN Assignments}
LastOf(opcode) ==
    LET assigning == {i \in DOMAIN Assignments : Assignments[i][1] = opcode}
    IN  Assignments[CHOOSE i \in assigning : \A j \in assigning : j <= i]

InstTable == [opcode \in Assigned |-> Entry(LastOf(opcode))]
          @@ [opcode \in Vacant |-> VacantEntry]
          @@ [opcode \in Byte |-> NullEntry]

=============================================================================
