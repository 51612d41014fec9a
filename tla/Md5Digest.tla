----------------------------- MODULE Md5Digest ------------------------------
(***************************************************************************)
(* What MD5 makes of a text: Md5Stream says which blocks the object        *)
(* absorbs, this module what each of them does to the four words of state  *)
(* (transform) and how the result is written (encode, hexdigest).  A word  *)
(* is a function from its 32 bits; each of the 64 operations of transform  *)
(* is a step.                                                              *)
(***************************************************************************)
EXTENDS Md5Stream, SequencesExt

CONSTANTS
    Texts           \* the texts, each with the digest the standard gives

ASSUME DigestAssumption ==
    /\ BlockSize = 64
    /\ \A t \in Texts : t.text \in Seq(Bytes) /\ t.digest \in STRING

VARIABLES
    asked,      \* the text, and its digest in the standard
    taken,      \* how many of the object's blocks have been transformed
    state,      \* state[4]
    abcd,       \* a, b, c, d
    op          \* how many operations of the current transform are done

digestVars == <<vars, asked, taken, state, abcd, op>>

-----------------------------------------------------------------------------
(* uint4                                                                   *)

Bit == 0 .. 31
Shifted(half, k) == (half \div 2 ^ k) % 2 = 1

(* A constant, given as its two halves. *)
Const(hi, lo) == [k \in Bit |-> IF k < 16 THEN Shifted(lo, k) ELSE Shifted(hi, k - 16)]

Majority(p, q, r) == (p /\ q) \/ (p /\ r) \/ (q /\ r)

Plus(x, y) ==
    LET carry[k \in Bit] ==
            IF k = 0 THEN FALSE ELSE Majority(x[k - 1], y[k - 1], carry[k - 1])
    IN  [k \in Bit |-> (x[k] # y[k]) # carry[k]]

(* Mutant of rotate_left: a shift, which loses the bits it pushes out. *)
shift_left(x, n) == [k \in Bit |-> k >= n /\ x[k - n]]

rotate_left(x, n) == [k \in Bit |-> x[(k + 32 - n) % 32]]

F(x, y, z) == [k \in Bit |-> (x[k] /\ y[k]) \/ (~x[k] /\ z[k])]
G(x, y, z) == [k \in Bit |-> (x[k] /\ z[k]) \/ (y[k] /\ ~z[k])]
H(x, y, z) == [k \in Bit |-> (x[k] # y[k]) # z[k]]
I(x, y, z) == [k \in Bit |-> y[k] # (x[k] \/ ~z[k])]

(* What the operations of a round mix three of the words with. *)
Mixed(round, x, y, z) ==
    CASE round = 1 -> F(x, y, z) [] round = 2 -> G(x, y, z)
      [] round = 3 -> H(x, y, z) [] round = 4 -> I(x, y, z)

(* decode: word n of a block, low byte first. *)
Decoded(block, n) ==
    [k \in Bit |-> Shifted(block[4 * n + (k \div 8) + 1], k % 8)]

(* encode: byte j of the words ws. *)
EncodedByte(ws, j) ==
    LET bit(k) == IF ws[j \div 4][8 * (j % 4) + k] THEN 2 ^ k ELSE 0
    IN  FoldLeft(LAMBDA n, k : n + bit(k), 0, [k \in 1 .. 8 |-> k - 1])

-----------------------------------------------------------------------------
(* transform                                                               *)

(* The rotations of each round, S11 to S44, over and over. *)
S == <<<<7, 12, 17, 22>>, <<5, 9, 14, 20>>, <<4, 11, 16, 23>>, <<6, 10, 15, 21>>>>

(* The word of the block each operation takes, by round. *)
X == <<
    <<0, 1, 2, 3, 4, 5, 6, 7, 8, 9, 10, 11, 12, 13, 14, 15>>,
    <<1, 6, 11, 0, 5, 10, 15, 4, 9, 14, 3, 8, 13, 2, 7, 12>>,
    <<5, 8, 11, 14, 1, 4, 7, 10, 13, 0, 3, 6, 9, 12, 15, 2>>,
    <<0, 7, 14, 5, 12, 3, 10, 1, 8, 15, 6, 13, 4, 11, 2, 9>>>>

(* The constant each operation adds. *)
AC == <<
      <<\hd76a, \ha478>>, <<\he8c7, \hb756>>, <<\h2420, \h70db>>, <<\hc1bd, \hceee>>,
      <<\hf57c, \h0faf>>, <<\h4787, \hc62a>>, <<\ha830, \h4613>>, <<\hfd46, \h9501>>,
      <<\h6980, \h98d8>>, <<\h8b44, \hf7af>>, <<\hffff, \h5bb1>>, <<\h895c, \hd7be>>,
      <<\h6b90, \h1122>>, <<\hfd98, \h7193>>, <<\ha679, \h438e>>, <<\h49b4, \h0821>>,
      <<\hf61e, \h2562>>, <<\hc040, \hb340>>, <<\h265e, \h5a51>>, <<\he9b6, \hc7aa>>,
      <<\hd62f, \h105d>>, <<\h0244, \h1453>>, <<\hd8a1, \he681>>, <<\he7d3, \hfbc8>>,
      <<\h21e1, \hcde6>>, <<\hc337, \h07d6>>, <<\hf4d5, \h0d87>>, <<\h455a, \h14ed>>,
      <<\ha9e3, \he905>>, <<\hfcef, \ha3f8>>, <<\h676f, \h02d9>>, <<\h8d2a, \h4c8a>>,
      <<\hfffa, \h3942>>, <<\h8771, \hf681>>, <<\h6d9d, \h6122>>, <<\hfde5, \h380c>>,
      <<\ha4be, \hea44>>, <<\h4bde, \hcfa9>>, <<\hf6bb, \h4b60>>, <<\hbebf, \hbc70>>,
      <<\h289b, \h7ec6>>, <<\heaa1, \h27fa>>, <<\hd4ef, \h3085>>, <<\h0488, \h1d05>>,
      <<\hd9d4, \hd039>>, <<\he6db, \h99e5>>, <<\h1fa2, \h7cf8>>, <<\hc4ac, \h5665>>,
      <<\hf429, \h2244>>, <<\h432a, \hff97>>, <<\hab94, \h23a7>>, <<\hfc93, \ha039>>,
      <<\h655b, \h59c3>>, <<\h8f0c, \hcc92>>, <<\hffef, \hf47d>>, <<\h8584, \h5dd1>>,
      <<\h6fa8, \h7e4f>>, <<\hfe2c, \he6e0>>, <<\ha301, \h4314>>, <<\h4e08, \h11a1>>,
      <<\hf753, \h7e82>>, <<\hbd3a, \hf235>>, <<\h2ad7, \hd2bb>>, <<\heb86, \hd391>>>>

magic == [w \in 0 .. 3 |->
    CASE w = 0 -> Const(\h6745, \h2301) [] w = 1 -> Const(\hefcd, \hab89)
      [] w = 2 -> Const(\h98ba, \hdcfe) [] w = 3 -> Const(\h1032, \h5476)]

(* One of FF, GG, HH, II: the operations take turns at writing a, d, c, b, *)
(* and read the other three in the order that follows.                     *)
Operation(round) ==
    LET a == (4 - (op % 4)) % 4
        r(n) == abcd[(a + n) % 4]
        x == Decoded(md5.digest[taken + 1], X[round][(op % 16) + 1])
        ac == Const(AC[op + 1][1], AC[op + 1][2])
        sum == Plus(Plus(Plus(r(0), Mixed(round, r(1), r(2), r(3))), x), ac)
    IN  /\ taken < Len(md5.digest)
        /\ op \div 16 + 1 = round
        /\ abcd' = [abcd EXCEPT ![a] = Plus(rotate_left(sum, S[round][(op % 4) + 1]), r(1))]
        /\ op' = op + 1
        /\ UNCHANGED <<vars, asked, taken, state>>

FF == Operation(1)
GG == Operation(2)
HH == Operation(3)
II == Operation(4)

(* The end of transform: the block's result is added to the state. *)
AddToState ==
    /\ op = 64
    /\ taken' = taken + 1
    /\ state' = [w \in 0 .. 3 |-> Plus(state[w], abcd[w])]
    /\ abcd' = state'
    /\ op' = 0
    /\ UNCHANGED <<vars, asked>>

-----------------------------------------------------------------------------
(* md5(text): the blocks of the text, of its padding and of its length.    *)
DigestInit ==
    /\ asked \in Texts
    /\ fed = asked.text
    /\ md5 = Finalize(Update(New, asked.text))
    /\ taken = 0 /\ op = 0
    /\ state = magic /\ abcd = magic

DigestNext == FF \/ GG \/ HH \/ II \/ AddToState

DigestSpec == DigestInit /\ [][DigestNext]_digestVars

HexDigits == <<"0", "1", "2", "3", "4", "5", "6", "7",
               "8", "9", "a", "b", "c", "d", "e", "f">>

hexdigest ==
    LET hex(j) == HexDigits[EncodedByte(state, j) \div 16 + 1] \o
                  HexDigits[(EncodedByte(state, j) % 16) + 1]
    IN  FoldLeft(LAMBDA s, j : s \o hex(j), "", [j \in 1 .. 16 |-> j - 1])

-----------------------------------------------------------------------------
(* Once every block has been transformed the digest is the one RFC 1321    *)
(* gives for the text, through all constants, indices and rotations, and   *)
(* through texts that leave no room for their length in the last block.    *)
AgreesWithStandard == taken = Len(md5.digest) => hexdigest = asked.digest
=============================================================================
