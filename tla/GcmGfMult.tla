------------------------------ MODULE GcmGfMult ------------------------------
(***************************************************************************)
(* gcm_gf_mult of libtomcrypt (encauth/gcm/gcm_gf_mult.c): c = a * b in   *)
(* the GCM field, with bits reflected (bit 0x80 of byte 0 is x^0).  The   *)
(* file has two implementations, chosen by LTC_FAST at build time: a      *)
(* bit-serial loop, and a word-oriented one that multiplies four bits at *)
(* a time from a table of sixteen multiples of a and reduces the double- *)
(* width product a byte at a time with gcm_shift_table.  The word one is *)
(* built for 32-bit (ENDIAN_32BITWORD) or 64-bit words.                   *)
(*                                                                         *)
(* The field is shrunk from 16 bytes to NB: every 16 of the file (and 32, *)
(* 128, 31, 15) is written in terms of NB, and a word is NB/4 bytes on a *)
(* 32-bit build and NB/2 on a 64-bit one, as 4 and 8 are of 16.  The     *)
(* reduction polynomial keeps its low terms: x^(8NB) + x^7 + x^2 + x + 1. *)
(***************************************************************************)
EXTENDS Integers, FiniteSetsExt, Bitwise

CONSTANTS
  NB,             \* bytes in a field element (16 in the file)
  InputsA,        \* values passed as a
  InputsB         \* values passed as b

VARIABLES
  build,          \* which implementation the build compiled
  a, b,           \* the arguments
  c,              \* the caller's output buffer
  returned        \* gcm_gf_mult has returned

vars == <<build, a, b, c, returned>>

Idx(n) == 0..n-1
ZeroVec(n) == [i \in Idx(n) |-> 0]
Builds == {"bitserial", "fast32", "fast64"}
\* sizeof(LTC_FAST_TYPE) on each word-oriented build.
WordBytes == [fast32 |-> NB \div 4, fast64 |-> NB \div 2]

-----------------------------------------------------------------------------
(* Bit-serial gcm_gf_mult (LTC_FAST undefined), lines 61-101               *)

mask == [k \in Idx(8) |-> 2^(7 - k)]
poly == [z \in Idx(2) |-> IF z = 0 THEN \h00 ELSE \hE1]

gcm_rightshift(v) ==
  [x \in Idx(NB) |-> IF x = 0 THEN v[0] \div 2
                     ELSE (v[x] \div 2) | ((v[x-1] * 128) & \h80)]

\* Iteration bit of the loop over the 8*NB bits of b (lines 91-98): s
\* holds Z and V.
SerialStep(s, bit, bb) ==
  LET Zx == IF (bb[bit \div 8] & mask[bit % 8]) # 0
            THEN [y \in Idx(NB) |-> s.Z[y] ^^ s.V[y]] ELSE s.Z
      z  == s.V[NB-1] & 1
      Vs == gcm_rightshift(s.V)
  IN [Z |-> Zx, V |-> [Vs EXCEPT ![0] = @ ^^ poly[z]]]

\* TLC passes an argument unevaluated; reading the bound step before the
\* call evaluates the loop one iteration at a time.
RECURSIVE SerialLoop(_, _, _)
SerialLoop(bit, s, bb) ==
  IF bit = 8 * NB THEN s.Z
  ELSE LET next == SerialStep(s, bit, bb)
       IN IF next = next THEN SerialLoop(bit + 1, next, bb) ELSE next.Z

GcmGfMultBitserial(aa, bb) == SerialLoop(0, [Z |-> ZeroVec(NB), V |-> aa], bb)

-----------------------------------------------------------------------------
(* Word-oriented gcm_gf_mult (LTC_FAST), lines 19-56 and 103-210           *)

gcm_shift_table == LET T == <<
    \h00, \h00, \h01, \hc2, \h03, \h84, \h02, \h46, \h07, \h08, \h06, \hca, \h04, \h8c, \h05, \h4e,
    \h0e, \h10, \h0f, \hd2, \h0d, \h94, \h0c, \h56, \h09, \h18, \h08, \hda, \h0a, \h9c, \h0b, \h5e,
    \h1c, \h20, \h1d, \he2, \h1f, \ha4, \h1e, \h66, \h1b, \h28, \h1a, \hea, \h18, \hac, \h19, \h6e,
    \h12, \h30, \h13, \hf2, \h11, \hb4, \h10, \h76, \h15, \h38, \h14, \hfa, \h16, \hbc, \h17, \h7e,
    \h38, \h40, \h39, \h82, \h3b, \hc4, \h3a, \h06, \h3f, \h48, \h3e, \h8a, \h3c, \hcc, \h3d, \h0e,
    \h36, \h50, \h37, \h92, \h35, \hd4, \h34, \h16, \h31, \h58, \h30, \h9a, \h32, \hdc, \h33, \h1e,
    \h24, \h60, \h25, \ha2, \h27, \he4, \h26, \h26, \h23, \h68, \h22, \haa, \h20, \hec, \h21, \h2e,
    \h2a, \h70, \h2b, \hb2, \h29, \hf4, \h28, \h36, \h2d, \h78, \h2c, \hba, \h2e, \hfc, \h2f, \h3e,
    \h70, \h80, \h71, \h42, \h73, \h04, \h72, \hc6, \h77, \h88, \h76, \h4a, \h74, \h0c, \h75, \hce,
    \h7e, \h90, \h7f, \h52, \h7d, \h14, \h7c, \hd6, \h79, \h98, \h78, \h5a, \h7a, \h1c, \h7b, \hde,
    \h6c, \ha0, \h6d, \h62, \h6f, \h24, \h6e, \he6, \h6b, \ha8, \h6a, \h6a, \h68, \h2c, \h69, \hee,
    \h62, \hb0, \h63, \h72, \h61, \h34, \h60, \hf6, \h65, \hb8, \h64, \h7a, \h66, \h3c, \h67, \hfe,
    \h48, \hc0, \h49, \h02, \h4b, \h44, \h4a, \h86, \h4f, \hc8, \h4e, \h0a, \h4c, \h4c, \h4d, \h8e,
    \h46, \hd0, \h47, \h12, \h45, \h54, \h44, \h96, \h41, \hd8, \h40, \h1a, \h42, \h5c, \h43, \h9e,
    \h54, \he0, \h55, \h22, \h57, \h64, \h56, \ha6, \h53, \he8, \h52, \h2a, \h50, \h6c, \h51, \hae,
    \h5a, \hf0, \h5b, \h32, \h59, \h74, \h58, \hb6, \h5d, \hf8, \h5c, \h3a, \h5e, \h7c, \h5f, \hbe,
    \he1, \h00, \he0, \hc2, \he2, \h84, \he3, \h46, \he6, \h08, \he7, \hca, \he5, \h8c, \he4, \h4e,
    \hef, \h10, \hee, \hd2, \hec, \h94, \hed, \h56, \he8, \h18, \he9, \hda, \heb, \h9c, \hea, \h5e,
    \hfd, \h20, \hfc, \he2, \hfe, \ha4, \hff, \h66, \hfa, \h28, \hfb, \hea, \hf9, \hac, \hf8, \h6e,
    \hf3, \h30, \hf2, \hf2, \hf0, \hb4, \hf1, \h76, \hf4, \h38, \hf5, \hfa, \hf7, \hbc, \hf6, \h7e,
    \hd9, \h40, \hd8, \h82, \hda, \hc4, \hdb, \h06, \hde, \h48, \hdf, \h8a, \hdd, \hcc, \hdc, \h0e,
    \hd7, \h50, \hd6, \h92, \hd4, \hd4, \hd5, \h16, \hd0, \h58, \hd1, \h9a, \hd3, \hdc, \hd2, \h1e,
    \hc5, \h60, \hc4, \ha2, \hc6, \he4, \hc7, \h26, \hc2, \h68, \hc3, \haa, \hc1, \hec, \hc0, \h2e,
    \hcb, \h70, \hca, \hb2, \hc8, \hf4, \hc9, \h36, \hcc, \h78, \hcd, \hba, \hcf, \hfc, \hce, \h3e,
    \h91, \h80, \h90, \h42, \h92, \h04, \h93, \hc6, \h96, \h88, \h97, \h4a, \h95, \h0c, \h94, \hce,
    \h9f, \h90, \h9e, \h52, \h9c, \h14, \h9d, \hd6, \h98, \h98, \h99, \h5a, \h9b, \h1c, \h9a, \hde,
    \h8d, \ha0, \h8c, \h62, \h8e, \h24, \h8f, \he6, \h8a, \ha8, \h8b, \h6a, \h89, \h2c, \h88, \hee,
    \h83, \hb0, \h82, \h72, \h80, \h34, \h81, \hf6, \h84, \hb8, \h85, \h7a, \h87, \h3c, \h86, \hfe,
    \ha9, \hc0, \ha8, \h02, \haa, \h44, \hab, \h86, \hae, \hc8, \haf, \h0a, \had, \h4c, \hac, \h8e,
    \ha7, \hd0, \ha6, \h12, \ha4, \h54, \ha5, \h96, \ha0, \hd8, \ha1, \h1a, \ha3, \h5c, \ha2, \h9e,
    \hb5, \he0, \hb4, \h22, \hb6, \h64, \hb7, \ha6, \hb2, \he8, \hb3, \h2a, \hb1, \h6c, \hb0, \hae,
    \hbb, \hf0, \hba, \h32, \hb8, \h74, \hb9, \hb6, \hbc, \hf8, \hbd, \h3a, \hbf, \h7c, \hbe, \hbe
    >> IN [i \in Idx(512) |-> T[i+1]]

\* M(x): the four bits of a nibble reversed.
M(x) == ((x & 8) \div 8) | ((x & 4) \div 2) | ((x & 2) * 2) | ((x & 1) * 8)

\* LOADnnH and LOADnnL: n bytes of v from off, big- and little-endian.
RECURSIVE LoadH(_, _, _)
LoadH(v, off, n) == IF n = 0 THEN 0 ELSE LoadH(v, off, n - 1) * 256 + v[off + n - 1]
RECURSIVE LoadL(_, _, _)
LoadL(v, off, n) == IF n = 0 THEN 0 ELSE v[off] + 256 * LoadL(v, off + 1, n - 1)

\* B[u] = a times the nibble u, built as lines 124-164 build it: a, its
\* shifts by 1, 2 and 3 bits, then the sums of two and of three of them.
Multiples(aa, wb) ==
  LET nw  == NB \div wb
      wpv == 1 + nw
      bpd == 8 * wb
      B1  == [i \in Idx(wpv) |-> IF i < nw THEN LoadH(aa, i * wb, wb) ELSE 0]
      Sh(k) == [i \in Idx(wpv) |->
                  IF i = 0 THEN B1[0] \div 2^k
                  ELSE ((B1[i-1] * 2^(bpd - k)) % 2^bpd) | (B1[i] \div 2^k)]
      Sum == [v \in {3, 5, 6, 9, 10, 12, 7, 11, 13, 14, 15} |->
                CASE v = 3 -> <<1, 2>> [] v = 5 -> <<1, 4>> [] v = 6 -> <<2, 4>>
                  [] v = 9 -> <<1, 8>> [] v = 10 -> <<2, 8>> [] v = 12 -> <<8, 4>>
                  [] v = 7 -> <<3, 4>> [] v = 11 -> <<3, 8>> [] v = 13 -> <<1, 12>>
                  [] v = 14 -> <<6, 8>> [] v = 15 -> <<7, 8>>]
      RECURSIVE Entry(_)
      Entry(v) == CASE v = 0 -> [i \in Idx(wpv) |-> 0]
                    [] v = 1 -> B1
                    [] v \in {2, 4, 8} -> Sh(IF v = 2 THEN 1 ELSE IF v = 4 THEN 2 ELSE 3)
                    [] OTHER -> [i \in Idx(wpv) |->
                                   Entry(Sum[v][1])[i] ^^ Entry(Sum[v][2])[i]]
  IN [u \in Idx(16) |-> Entry(M(u))]

\* u = (pB[j] >> ((i^1)<<2)) & 15: the nibble of word w used at step i.
NibbleOfInOrder(w, i) == shiftR(w, i * 4) & 15
NibbleOf(w, i) == shiftR(w, (i ^^ 1) * 4) & 15

\* Lines 170-189: for i from BPD/4-1 down to 0, add B[u] at word j for
\* each word j of b, then shift tmp up by four bits unless i = 0.
RECURSIVE NibbleLoop(_, _, _, _, _)
NibbleLoop(i, tmp, B, pB, wb) ==
  IF i < 0 THEN tmp
  ELSE
    LET nw  == NB \div wb
        bpd == 8 * wb
        RECURSIVE AddWords(_, _)
        AddWords(t, j) ==
          IF j = nw THEN t
          ELSE LET u == NibbleOf(pB[j], i)
               IN AddWords([n \in DOMAIN t |->
                              IF n - j \in DOMAIN B[u] THEN t[n] ^^ B[u][n - j] ELSE t[n]],
                           j + 1)
        added == AddWords(tmp, 0)
        shifted == [j \in DOMAIN added |->
                      (added[j] \div 16)
                      | (IF j = 0 THEN 0 ELSE (added[j-1] * 2^(bpd - 4)) % 2^bpd)]
    IN NibbleLoop(i - 1, IF i # 0 THEN shifted ELSE added, B, pB, wb)

\* Lines 192-200: STOREnnH of every word of tmp into pTmp.
StoreH(tmp, wb) ==
  [n \in Idx(2 * NB) |-> (tmp[n \div wb] \div 256^(wb - 1 - (n % wb))) % 256]

\* Lines 203-206: fold each high byte, top one first, into the two bytes
\* NB below it.
RECURSIVE ReduceLoop(_, _)
ReduceLoop(i, p) ==
  IF i < NB THEN p
  ELSE LET t == p[i]
       IN ReduceLoop(i - 1, [p EXCEPT ![i - NB]     = @ ^^ gcm_shift_table[2 * t],
                                      ![i - NB + 1] = @ ^^ gcm_shift_table[2 * t + 1]])

\* Lines 208-210, and the same copy written one byte too far.
CopyOutOneMore(p) == [i \in Idx(NB + 1) |-> p[i]]
CopyOut(p) == [i \in Idx(NB) |-> p[i]]

GcmGfMultFast(aa, bb, wb) ==
  LET nw == NB \div wb
      pB == [i \in Idx(nw) |-> LoadL(bb, i * wb, wb)]
      tmp == NibbleLoop(2 * wb - 1, [j \in Idx(2 * nw) |-> 0], Multiples(aa, wb), pB, wb)
  IN CopyOut(ReduceLoop(2 * NB - 1, StoreH(tmp, wb)))

gcm_gf_mult(bld, aa, bb) ==
  IF bld = "bitserial" THEN GcmGfMultBitserial(aa, bb)
  ELSE GcmGfMultFast(aa, bb, WordBytes[bld])

-----------------------------------------------------------------------------
(* A caller: any a and b, into its zeroed buffer c.                      *)

Init ==
  /\ build \in Builds
  /\ a \in InputsA /\ b \in InputsB
  /\ c = ZeroVec(NB)
  /\ returned = FALSE

Call ==
  /\ ~returned
  /\ c' = gcm_gf_mult(build, a, b)
  /\ returned' = TRUE
  /\ UNCHANGED <<build, a, b>>

Spec == Init /\ [][Call]_vars

-----------------------------------------------------------------------------
(* Reference: the product of the polynomials a and b, reduced modulo      *)
(* x^(8NB) + x^7 + x^2 + x + 1.  A polynomial is its set of exponents.    *)

Deg == 8 * NB
PolyOf(v) == {k \in Idx(Deg) : (v[k \div 8] \div mask[k % 8]) % 2 = 1}
ClProduct(P, Q) == {d \in 0..(2 * Deg - 2) : Cardinality({i \in P : d - i \in Q}) % 2 = 1}
RECURSIVE ModField(_)
ModField(R) ==
  IF \A d \in R : d < Deg THEN R
  ELSE LET top == Max(R)
       IN ModField(SymDiff(R, {e + top - Deg : e \in {Deg, 7, 2, 1, 0}}))
VecOf(R) == [y \in Idx(NB) |-> SumSet({mask[k] : k \in {k \in Idx(8) : 8 * y + k \in R}})]
FieldProduct(x, y) == VecOf(ModField(ClProduct(PolyOf(x), PolyOf(y))))

-----------------------------------------------------------------------------
(* Properties                                                              *)

\* The caller's buffer holds exactly NB bytes before and after the call.
GcmTypeOK ==
  /\ build \in Builds
  /\ a \in [Idx(NB) -> 0..255] /\ b \in [Idx(NB) -> 0..255]
  /\ c \in [Idx(NB) -> 0..255]
  /\ returned \in BOOLEAN

\* Whatever the build, gcm_gf_mult leaves in c the field product of a and
\* b: the bit-serial loop, and the nibble table, the nibble order (i^1),
\* the word shifts and the gcm_shift_table reduction of the word loop.
GfMultIsFieldProduct == returned => c = FieldProduct(a, b)
====
