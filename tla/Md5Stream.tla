----------------------------- MODULE Md5Stream ------------------------------
(***************************************************************************)
(* The MD5 object that authenticates every request: how update cuts the    *)
(* bytes it is given, in pieces of any length, into blocks, how it counts  *)
(* their bits in two words, and how finalize pads the rest.  What a block  *)
(* does to the four words of state (transform) is in Md5Digest: the state  *)
(* here is the sequence of blocks it has absorbed.                         *)
(*                                                                         *)
(* The object's sizes are parameters, 64, 8 and 32 in the code.            *)
(***************************************************************************)
EXTENDS Integers, Sequences

CONSTANTS
    BlockSize,      \* bytes in a block
    LenSize,        \* bytes the encoded bit count takes: two words
    WordBits,       \* width of a word of the bit count
    Bytes,          \* the bytes of the texts
    MaxFed          \* bound: bytes given to one object

ASSUME Md5Assumption ==
    /\ LenSize \in Nat /\ LenSize % 2 = 0       \* two words of as many bytes
    /\ BlockSize \in Nat /\ BlockSize > LenSize
    /\ WordBits \in Nat /\ WordBits > 3 /\ WordBits <= 4 * LenSize
    /\ 2 ^ (WordBits - 3) % BlockSize = 0       \* blocks divide a word's wrap
    /\ Bytes \subseteq 1 .. 127
    /\ MaxFed \in Nat

Word == 2 ^ WordBits

(* Of the powers of two the proofs use what arithmetic says: they are not  *)
(* 0, and a word is as many bits as 2 ^ (WordBits - 3) bytes have.         *)
ASSUME WordAssumption ==
    /\ Word \in Nat \ {0}
    /\ 2 ^ (WordBits - 3) \in Nat \ {0} /\ Word = 8 * 2 ^ (WordBits - 3)
    /\ \A k \in 0 .. LenSize \div 2 - 1 : 2 ^ (8 * k) \in Nat \ {0}

Junk == -1                                      \* a byte never written

VARIABLES
    md5,        \* the object: count, buffer, state, finalized, digest
    fed         \* the bytes given to update before finalize

vars == <<md5, fed>>

Cells == 0 .. BlockSize - 1
AnyByte == {Junk} \cup 0 .. 255
Block == [1 .. BlockSize -> AnyByte]

TypeOK ==
    /\ md5.count \in [{0, 1} -> 0 .. Word - 1]
    /\ md5.buffer \in [Cells -> AnyByte]
    /\ md5.state \in Seq(Block) /\ md5.digest \in Seq(Block)
    /\ md5.finalized \in BOOLEAN
    /\ fed \in Seq(Bytes) /\ Len(fed) <= MaxFed

-----------------------------------------------------------------------------
(* MD5::init; the buffer is left as it is. *)
New == [count |-> [w \in {0, 1} |-> 0], buffer |-> [p \in Cells |-> Junk],
        state |-> <<>>, digest |-> <<>>, finalized |-> FALSE]

(* memcpy(&buffer[at], bytes, Len(bytes)) *)
Copied(buffer, at, bytes) ==
    [p \in Cells |-> IF p - at \in 0 .. Len(bytes) - 1 THEN bytes[p - at + 1]
                     ELSE buffer[p]]

(* transform, once for each of the blocks. *)
Transform(state, blocks) == state \o blocks

(* Mutants of Counted: words that do not wrap; the carry tested against    *)
(* the length in bytes.                                                    *)
CountedWide(count, length) == [w \in {0, 1} |-> IF w = 0 THEN count[0] + length * 8 ELSE 0]

CountedCarryLate(count, length) ==
    LET lo == (count[0] + length * 8) % Word
        carry == IF lo < length THEN 1 ELSE 0
    IN  [w \in {0, 1} |-> IF w = 0 THEN lo
                          ELSE (count[1] + carry + (length * 8) \div Word) % Word]

(* The two words of the bit count, each of them modulo its width: length   *)
(* << 3 wraps like the sum it is compared with, and the bits it loses are  *)
(* added to the high word.                                                 *)
Counted(count, length) ==
    LET bits == (length * 8) % Word
        lo == (count[0] + bits) % Word
        carry == IF lo < bits THEN 1 ELSE 0
    IN  [w \in {0, 1} |-> IF w = 0 THEN lo
                          ELSE (count[1] + carry + (length * 8) \div Word) % Word]

(* Mutant of Update: a piece that just fills the buffer is not transformed *)
(* with the others, as if the test were i + blocksize < length.            *)
UpdateLastBlockLate(m, input) ==
    LET index == (m.count[0] \div 8) % BlockSize
        firstpart == BlockSize - index
        whole == IF Len(input) <= firstpart THEN 0
                 ELSE (Len(input) - firstpart - 1) \div BlockSize
        i == firstpart + whole * BlockSize
        filled == Copied(m.buffer, index, SubSeq(input, 1, firstpart))
        blocks == <<[k \in 1 .. BlockSize |-> filled[k - 1]]>> \o
                  [k \in 1 .. whole |->
                      SubSeq(input, firstpart + (k - 1) * BlockSize + 1,
                                    firstpart + k * BlockSize)]
        counted == [m EXCEPT !.count = Counted(m.count, Len(input))]
    IN  IF Len(input) < firstpart
        THEN [counted EXCEPT !.buffer = Copied(m.buffer, index, input)]
        ELSE [counted EXCEPT !.state = m.state \o blocks,
                             !.buffer = Copied(filled, 0, SubSeq(input, i + 1, Len(input)))]

(* MD5::update: the buffer is filled up and transformed, then as many      *)
(* whole blocks as there are, straight from the input, and the rest goes   *)
(* to the front of the buffer.                                             *)
Update(m, input) ==
    LET index == (m.count[0] \div 8) % BlockSize
        firstpart == BlockSize - index
        whole == (Len(input) - firstpart) \div BlockSize
        i == firstpart + whole * BlockSize
        filled == Copied(m.buffer, index, SubSeq(input, 1, firstpart))
        blocks == <<[k \in 1 .. BlockSize |-> filled[k - 1]]>> \o
                  [k \in 1 .. whole |->
                      SubSeq(input, firstpart + (k - 1) * BlockSize + 1,
                                    firstpart + k * BlockSize)]
        counted == [m EXCEPT !.count = Counted(m.count, Len(input))]
    IN  IF Len(input) < firstpart
        THEN [counted EXCEPT !.buffer = Copied(m.buffer, index, input)]
        ELSE [counted EXCEPT !.state = Transform(m.state, blocks),
                             !.buffer = Copied(filled, 0, SubSeq(input, i + 1, Len(input)))]

(* encode(bits, count, 8): the two words, each of them low byte first. *)
Encoded(count) ==
    LET size == LenSize \div 2
    IN  [k \in 1 .. LenSize |->
            (count[(k - 1) \div size] \div 2 ^ (8 * ((k - 1) % size))) % 256]

padding == [k \in 1 .. BlockSize |-> IF k = 1 THEN 128 ELSE 0]

(* Mutant of Finalize: the length is taken after the padding. *)
FinalizeLengthLate(m) ==
    LET index == (m.count[0] \div 8) % BlockSize
        fill == BlockSize - LenSize
        padLen == IF index < fill THEN fill - index ELSE BlockSize + fill - index
        padded == Update(m, SubSeq(padding, 1, padLen))
        whole == Update(padded, Encoded(padded.count))
    IN  IF m.finalized THEN m
        ELSE [New EXCEPT !.buffer = [p \in Cells |-> 0], !.state = whole.state,
                         !.digest = whole.state, !.finalized = TRUE]

(* MD5::finalize, once: pad, append the length before padding, keep the    *)
(* state as the digest, and wipe buffer and count.                         *)
Finalize(m) ==
    LET index == (m.count[0] \div 8) % BlockSize
        fill == BlockSize - LenSize
        padLen == IF index < fill THEN fill - index ELSE BlockSize + fill - index
        padded == Update(m, SubSeq(padding, 1, padLen))
        whole == Update(padded, Encoded(m.count))
    IN  IF m.finalized THEN m
        ELSE [count |-> [w \in {0, 1} |-> 0], buffer |-> [p \in Cells |-> 0],
              state |-> whole.state, digest |-> whole.state, finalized |-> TRUE]

-----------------------------------------------------------------------------
Init == md5 = New /\ fed = <<>>

(* Any piece: from one byte at a time to all at once, or none. *)
Pieces == UNION {[1 .. n -> Bytes] : n \in 0 .. MaxFed}

UpdateCall(input) ==
    /\ ~md5.finalized
    /\ Len(fed) + Len(input) <= MaxFed
    /\ md5' = Update(md5, input)
    /\ fed' = fed \o input

(* An object that is finalized can still be given bytes; here, until one   *)
(* block of them is absorbed.                                              *)
UpdateAfterwards(n, b) ==
    /\ md5.finalized /\ Len(md5.state) = Len(md5.digest)
    /\ md5' = Update(md5, [k \in 1 .. n |-> b])
    /\ UNCHANGED fed

FinalizeCall ==
    /\ md5' = Finalize(md5)
    /\ UNCHANGED fed

Next ==
    \/ \E input \in Pieces : UpdateCall(input)
    \/ FinalizeCall
    \/ \E n \in 1 .. BlockSize, b \in Bytes : UpdateAfterwards(n, b)

Spec == Init /\ [][Next]_vars
-----------------------------------------------------------------------------
(* Properties                                                              *)

BlocksOf(s) ==
    [k \in 1 .. Len(s) \div BlockSize |->
        SubSeq(s, (k - 1) * BlockSize + 1, k * BlockSize)]

(* However the text was cut into pieces, the blocks absorbed are those of  *)
(* the whole text, the bytes left over wait at the front of the buffer,    *)
(* and no byte of an unwritten or stale cell has got in.                   *)
PiecesDoNotMatter ==
    ~md5.finalized =>
        /\ md5.state = BlocksOf(fed)
        /\ LET left == Len(fed) % BlockSize
           IN  \A p \in 0 .. left - 1 : md5.buffer[p] = fed[Len(fed) - left + p + 1]

(* The two words together are the number of bits, over every wrap of the   *)
(* low one and for pieces longer than it can count.                        *)
CountExact ==
    ~md5.finalized =>
        md5.count[0] + md5.count[1] * Word = (Len(fed) * 8) % (Word * Word)

(* The text as the digest is defined on it: a 1 bit, the fewest 0s that    *)
(* leave room for the length at the end of a block, and the length.        *)
Padded(s) ==
    LET fits(z) == (Len(s) + 1 + z + LenSize) % BlockSize = 0
        zeros == CHOOSE z \in Cells : fits(z)
        bits == Len(s) * 8
    IN  s \o <<128>> \o [k \in 1 .. zeros |-> 0]
          \o Encoded([w \in {0, 1} |-> IF w = 0 THEN bits % Word
                                       ELSE (bits \div Word) % Word])

(* The digest is that of the whole padded text, also when the padding      *)
(* needs a block more, and stays so whatever the object is used for next.  *)
DigestOfWholeText == md5.finalized => md5.digest = BlocksOf(Padded(fed))
=============================================================================
