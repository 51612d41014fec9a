-------------------------- MODULE Md5StreamProofs --------------------------
(* That the MD5 object digests the text it is given, however the text is   *)
(* cut into pieces, for every width of a word and size of a block: first   *)
(* arithmetic and blocks, then what update makes of an object that has     *)
(* absorbed a text, then finalize, and the invariant.                      *)
EXTENDS Md5Stream, SequenceTheorems, TLAPS

Fields == {"count", "buffer", "state", "digest", "finalized"}

-----------------------------------------------------------------------------
(* A number has one quotient and one remainder. *)
LEMMA Remainder ==
    ASSUME NEW a \in Nat, NEW M \in Nat \ {0},
           NEW v \in 0 .. M - 1, NEW k \in Nat, a = v + k * M
    PROVE  a % M = v
  OBVIOUS

LEMMA Division ==
    ASSUME NEW a \in Nat, NEW M \in Nat \ {0}
    PROVE  /\ a \div M \in Nat /\ a % M \in 0 .. M - 1
           /\ a = (a % M) + (a \div M) * M
  OBVIOUS

LEMMA TwoWords ==
    ASSUME NEW W \in Nat \ {0}, NEW lo \in 0 .. W - 1, NEW hi \in 0 .. W - 1
    PROVE  W * W \in Nat \ {0} /\ lo + hi * W \in 0 .. W * W - 1
  OBVIOUS

(* The value of the two words. *)
Bits(count) == count[0] + count[1] * Word

(* The addition in two words, with its carry, is the addition modulo both. *)
LEMMA CountedExact ==
    ASSUME NEW count \in [{0, 1} -> 0 .. Word - 1], NEW length \in Nat,
           NEW n \in Nat, Bits(count) = n % (Word * Word)
    PROVE  /\ Counted(count, length) \in [{0, 1} -> 0 .. Word - 1]
           /\ Bits(Counted(count, length)) = (n + length * 8) % (Word * Word)
<1>0. PICK W \in Nat \ {0} : W = Word
  BY WordAssumption
<1>1. PICK c0, c1 : c0 = count[0] /\ c1 = count[1] /\ c0 \in 0 .. W - 1 /\ c1 \in 0 .. W - 1
  BY <1>0
<1>2. PICK L \in Nat : L = length * 8
  OBVIOUS
<1> DEFINE r == L % W
           q == L \div W
           lo == (c0 + r) % W
           carry == IF lo < r THEN 1 ELSE 0
           hi == (c1 + carry + q) % W
           t == (c1 + carry + q) \div W
<1>3. r \in 0 .. W - 1 /\ q \in Nat /\ L = r + q * W
  BY Division
<1>4. lo \in 0 .. W - 1 /\ lo + carry * W = c0 + r
  <2>1. CASE c0 + r < W
    <3>1. lo = c0 + r
      <4>1. PICK a \in Nat : a = c0 + r /\ a \in 0 .. W - 1 /\ a = a + 0 * W
        BY <1>1, <1>3, <2>1
      <4> QED
        BY <4>1, Remainder
    <3> QED
      BY <1>1, <1>3, <2>1, <3>1
  <2>2. CASE c0 + r >= W
    <3>1. lo = c0 + r - W
      <4>1. PICK a \in Nat, b \in 0 .. W - 1 :
                a = c0 + r /\ b = c0 + r - W
        BY <1>1, <1>3, <2>2
      <4>2. a % W = b
        <5>1. PICK k \in Nat : k = 1
          OBVIOUS
        <5>2. a = b + k * W
          BY <1>1, <1>3, <4>1, <5>1
        <5> QED
          BY <5>2, Remainder
      <4> QED
        BY <4>1, <4>2
    <3>2. carry = 1
      BY <1>1, <1>3, <3>1
    <3> QED
      BY <1>1, <1>3, <2>2, <3>1, <3>2
  <2> QED
    BY <1>1, <1>3, <2>1, <2>2
<1>5. carry \in {0, 1}
  OBVIOUS
<1>6. hi \in 0 .. W - 1 /\ t \in Nat /\ c1 + carry + q = hi + t * W
  <2>1. c1 + carry + q \in Nat
    BY <1>1, <1>3, <1>5
  <2> QED
    BY <2>1, Division
<1>7. Counted(count, length) = [w \in {0, 1} |-> IF w = 0 THEN lo ELSE hi]
  BY <1>0, <1>1, <1>2 DEF Counted
<1> HIDE DEF r, q, lo, carry, hi, t
<1>8. Counted(count, length) \in [{0, 1} -> 0 .. Word - 1]
  BY <1>0, <1>4, <1>6, <1>7
<1>9. Bits(Counted(count, length)) = lo + hi * W
  BY <1>0, <1>7 DEF Bits
<1>10. W * W \in Nat \ {0} /\ lo + hi * W \in 0 .. W * W - 1
  BY <1>4, <1>6, TwoWords
<1>11. PICK s \in Nat : n = (c0 + c1 * W) + s * (W * W)
  <2>1. c0 + c1 * W = n % (W * W)
    BY <1>0, <1>1 DEF Bits
  <2>2. PICK M \in Nat \ {0} : M = W * W
    BY <1>10
  <2>3. n \div M \in Nat /\ n = (n % M) + (n \div M) * M
    BY Division
  <2> QED
    BY <2>1, <2>2, <2>3
<1>12. n + L = (lo + hi * W) + (s + t) * (W * W)
  <2>1. (c1 + carry + q) * W = (hi + t * W) * W
    BY <1>6
  <2>2. (hi + t * W) * W = hi * W + t * (W * W)
    BY <1>6
  <2>3. (c1 + carry + q) * W = c1 * W + carry * W + q * W
    BY <1>1, <1>3, <1>5
  <2>4. (s + t) * (W * W) = s * (W * W) + t * (W * W)
    BY <1>6, <1>11
  <2> QED
    BY <1>1, <1>3, <1>4, <1>5, <1>6, <1>10, <1>11, <2>1, <2>2, <2>3, <2>4
<1>13. PICK M \in Nat \ {0} : M = W * W
  BY <1>10
<1>14. PICK v \in 0 .. M - 1 : v = lo + hi * W
  BY <1>10, <1>13
<1>15. n + L \in Nat /\ s + t \in Nat /\ n + L = v + (s + t) * M
  BY <1>2, <1>6, <1>11, <1>12, <1>13, <1>14
<1>16. (n + L) % M = v
  BY <1>15, Remainder
<1> QED
  BY <1>0, <1>2, <1>8, <1>9, <1>13, <1>14, <1>16

(* Two words stay two words. *)
LEMMA CountedTyped ==
    ASSUME NEW count \in [{0, 1} -> 0 .. Word - 1], NEW length \in Nat
    PROVE  Counted(count, length) \in [{0, 1} -> 0 .. Word - 1]
<1>1. PICK W \in Nat \ {0} : W = Word
  BY WordAssumption
<1>2. PICK lo, hi \in 0 .. W - 1 : lo = count[0] /\ hi = count[1]
  BY <1>1
<1>3. PICK M \in Nat \ {0} : M = W * W
  BY TwoWords
<1>4. PICK v \in 0 .. M - 1 : v = lo + hi * W
  BY <1>3, TwoWords
<1>5. v % M = v
  <2>1. v \in Nat /\ v = v + 0 * M
    OBVIOUS
  <2> QED
    BY <2>1, Remainder
<1>6. v \in Nat /\ Bits(count) = v % (Word * Word)
  BY <1>1, <1>2, <1>3, <1>4, <1>5 DEF Bits
<1> QED
  BY <1>6, CountedExact

(* Whatever update does to buffer and state, it counts the piece. *)
LEMMA UpdateCounts ==
    ASSUME NEW m, DOMAIN m = Fields, NEW input
    PROVE  /\ DOMAIN Update(m, input) = Fields
           /\ Update(m, input).count = Counted(m.count, Len(input))
           /\ Update(m, input).finalized = m.finalized
  BY DEF Update, Fields

-----------------------------------------------------------------------------
(* Numbers and blocks.                                                     *)
LEMMA Quotient ==
    ASSUME NEW a \in Nat, NEW M \in Nat \ {0},
           NEW v \in 0 .. M - 1, NEW k \in Nat, a = v + k * M
    PROVE  a \div M = k
  OBVIOUS

LEMMA Product == ASSUME NEW a \in Nat, NEW b \in Nat PROVE a * b \in Nat
  OBVIOUS

LEMMA Multiple ==
    ASSUME NEW a \in Nat, NEW M \in Nat \ {0}, a % M = 0
    PROVE  \E k \in Nat : a = k * M
<1>1. a \div M \in Nat /\ a = 0 + (a \div M) * M
  BY Division
<1>2. PICK k \in Nat : k = a \div M
  BY <1>1
<1>3. k * M \in Nat /\ a = 0 + k * M
  BY <1>1, <1>2, Product
<1>4. a = k * M
  BY <1>3
<1> QED
  BY <1>4

LEMMA SizesOK == /\ BlockSize \in Nat \ {0} /\ LenSize \in Nat /\ LenSize < BlockSize
                 /\ AnyByte \subseteq Int /\ Bytes \subseteq AnyByte
  BY Md5Assumption DEF AnyByte, Junk

(* As many bytes as k blocks have, and those before the k-th of them. *)
BytesIn(w, k) == w = k * BlockSize
Before(k) == (k - 1) * BlockSize

(* How many blocks a text of whole blocks and less than one has, and one   *)
(* of two such parts with a block between them.                            *)
LEMMA SameBlocks ==
    ASSUME NEW q \in Nat, NEW w \in Nat, BytesIn(w, q), NEW r \in 0 .. BlockSize - 1
    PROVE  (w + r) \div BlockSize = q /\ (w + r) % BlockSize = r
<1>0. PICK B \in Nat \ {0} : B = BlockSize
  BY SizesOK
<1>1. PICK l \in Nat : l = w + r
  BY <1>0
<1>2. l = r + q * B
  BY <1>0, <1>1 DEF BytesIn
<1>3. l % B = r /\ l \div B = q
  BY <1>0, <1>2, Remainder, Quotient
<1> QED
  BY <1>0, <1>1, <1>3

LEMMA BlockCount ==
    ASSUME NEW q \in Nat, NEW w \in Nat, BytesIn(w, q),
           NEW whole \in Nat, NEW v \in Nat, BytesIn(v, whole)
    PROVE  BytesIn(w + BlockSize + v, q + 1 + whole)
<1>0. PICK B \in Nat \ {0} : B = BlockSize
  BY SizesOK
<1>1. (q + 1 + whole) * B = q * B + B + whole * B
  BY <1>0
<1> QED
  BY <1>0, <1>1 DEF BytesIn

(* Every block of a text is as long as the others, and inside the text. *)
LEMMA BlockBounds ==
    ASSUME NEW l \in Nat, NEW k \in 1 .. l \div BlockSize
    PROVE  /\ Before(k) \in Nat
           /\ k * BlockSize = Before(k) + BlockSize
           /\ Before(k) + BlockSize <= l
<1>0. BlockSize \in Nat \ {0}
  BY SizesOK
<1>1. PICK q, r \in Nat : q = l \div BlockSize /\ l = r + q * BlockSize
  BY <1>0, Division
<1>2. k \in Nat /\ k - 1 \in Nat /\ q - k \in Nat
  BY <1>1
<1>3. (k - 1) * BlockSize \in Nat /\ (q - k) * BlockSize \in Nat
  BY <1>0, <1>2, Product
<1>4. (k - 1) * BlockSize = k * BlockSize - BlockSize
      /\ (q - k) * BlockSize = q * BlockSize - k * BlockSize
  BY <1>0, <1>1, <1>2
<1> QED
  BY <1>0, <1>1, <1>2, <1>3, <1>4 DEF Before

(* The bytes of a block are those of the text where it is. *)
LEMMA BlockBytes ==
    ASSUME NEW s \in Seq(AnyByte), NEW a \in Nat, a + BlockSize <= Len(s)
    PROVE  /\ SubSeq(s, a + 1, a + BlockSize) \in Block
           /\ \A j \in 1 .. BlockSize : SubSeq(s, a + 1, a + BlockSize)[j] = s[a + j]
<1>0. BlockSize \in Nat \ {0}
  BY SizesOK
<1> DEFINE b == SubSeq(s, a + 1, a + BlockSize)
<1>1. \A i \in a + 1 .. a + BlockSize : s[i] \in AnyByte
  BY <1>0, ElementOfSeq
<1>2. /\ b \in Seq(AnyByte) /\ Len(b) = BlockSize
      /\ \A j \in 1 .. BlockSize : b[j] = s[a + 1 + j - 1]
  BY <1>0, <1>1, SubSeqProperties
<1>3. b \in Block
  BY <1>2, LenProperties DEF Block
<1>4. \A j \in 1 .. BlockSize : b[j] = s[a + j]
  BY <1>2
<1> QED
  BY <1>3, <1>4

LEMMA BlocksAre ==
    ASSUME NEW s \in Seq(AnyByte)
    PROVE  /\ BlocksOf(s) \in Seq(Block) /\ Len(BlocksOf(s)) = Len(s) \div BlockSize
           /\ \A k \in 1 .. Len(s) \div BlockSize, j \in 1 .. BlockSize :
                  BlocksOf(s)[k][j] = s[Before(k) + j]
<1>0. BlockSize \in Nat \ {0} /\ Len(s) \in Nat
  BY SizesOK
<1>1. PICK q \in Nat : q = Len(s) \div BlockSize
  BY <1>0, Division
<1>2. BlocksOf(s) = [k \in 1 .. q |-> SubSeq(s, (k - 1) * BlockSize + 1, k * BlockSize)]
  BY <1>1 DEF BlocksOf
<1>3. ASSUME NEW k \in 1 .. q
      PROVE  /\ BlocksOf(s)[k] \in Block
             /\ \A j \in 1 .. BlockSize : BlocksOf(s)[k][j] = s[Before(k) + j]
  <2>1. PICK a \in Nat : /\ a = Before(k) /\ k * BlockSize = a + BlockSize
                         /\ a + BlockSize <= Len(s)
    BY <1>0, <1>1, BlockBounds
  <2>2. BlocksOf(s)[k] = SubSeq(s, a + 1, a + BlockSize)
    BY <1>2, <2>1 DEF Before
  <2> QED
    BY <2>1, <2>2, BlockBytes
<1>4. BlocksOf(s) \in [1 .. q -> Block]
  BY <1>2, <1>3
<1>5. BlocksOf(s) \in Seq(Block) /\ Len(BlocksOf(s)) = q
  BY <1>1, <1>4
<1> QED
  BY <1>1, <1>3, <1>5

(* Nothing else is made of blocks with these bytes. *)
LEMMA BlocksUnique ==
    ASSUME NEW s \in Seq(AnyByte), NEW bs \in Seq(Block),
           Len(bs) = Len(s) \div BlockSize,
           \A k \in 1 .. Len(bs), j \in 1 .. BlockSize :
               bs[k][j] = s[Before(k) + j]
    PROVE  bs = BlocksOf(s)
<1>1. /\ BlocksOf(s) \in Seq(Block) /\ Len(BlocksOf(s)) = Len(bs)
      /\ \A k \in 1 .. Len(bs), j \in 1 .. BlockSize :
             BlocksOf(s)[k][j] = s[Before(k) + j]
  BY BlocksAre
<1>2. ASSUME NEW k \in 1 .. Len(bs) PROVE bs[k] = BlocksOf(s)[k]
  <2>1. bs[k] \in Block /\ BlocksOf(s)[k] \in Block
    BY <1>1, ElementOfSeq
  <2>2. \A j \in 1 .. BlockSize : bs[k][j] = BlocksOf(s)[k][j]
    BY <1>1
  <2>3. bs[k] = [j \in 1 .. BlockSize |-> bs[k][j]]
    BY <2>1 DEF Block
  <2>4. BlocksOf(s)[k] = [j \in 1 .. BlockSize |-> BlocksOf(s)[k][j]]
    BY <2>1 DEF Block
  <2> QED
    BY <2>2, <2>3, <2>4
<1> QED
  BY <1>1, <1>2, SeqEqual

-----------------------------------------------------------------------------
(* What the object has in it after the bytes s: their count, the whole     *)
(* blocks of them, and the rest at the front of the buffer.                *)
Absorbed(m, s) ==
    /\ m.count \in [{0, 1} -> 0 .. Word - 1]
    /\ Bits(m.count) = (Len(s) * 8) % (Word * Word)
    /\ m.buffer \in [Cells -> AnyByte]
    /\ m.state = BlocksOf(s)
    /\ \A p \in 0 .. (Len(s) % BlockSize) - 1 :
           m.buffer[p] = s[Len(s) - (Len(s) % BlockSize) + p + 1]

(* The two words of n bits, though only the lower ones are left. *)
LEMMA WordsOfBits ==
    ASSUME NEW count \in [{0, 1} -> 0 .. Word - 1], NEW n \in Nat,
           Bits(count) = n % (Word * Word)
    PROVE  count[0] = n % Word /\ count[1] = (n \div Word) % Word
<1>1. PICK W \in Nat \ {0} : W = Word
  BY WordAssumption
<1>2. PICK lo, hi \in 0 .. W - 1 : lo = count[0] /\ hi = count[1]
  BY <1>1
<1>3. PICK M \in Nat \ {0} : M = W * W
  BY TwoWords
<1>4. PICK s \in Nat : n = (lo + hi * W) + s * M
  <2>1. lo + hi * W = n % M
    BY <1>1, <1>2, <1>3 DEF Bits
  <2>2. n \div M \in Nat /\ n = (n % M) + (n \div M) * M
    BY Division
  <2> QED
    BY <2>1, <2>2
<1>5. PICK t \in Nat : t = hi + s * W
  BY Product
<1>6. n = lo + t * W
  <2>1. t * W = hi * W + s * (W * W)
    BY <1>5
  <2> QED
    BY <1>3, <1>4, <2>1
<1>7. n % W = lo /\ n \div W = t
  BY <1>6, Remainder, Quotient
<1>8. t % W = hi
  BY <1>5, Remainder
<1> QED
  BY <1>1, <1>2, <1>7, <1>8

(* The place in the buffer, computed from the low word alone. *)
LEMMA IndexIsExact ==
    ASSUME NEW count \in [{0, 1} -> 0 .. Word - 1], NEW l \in Nat,
           Bits(count) = (l * 8) % (Word * Word)
    PROVE  (count[0] \div 8) % BlockSize = l % BlockSize
<1>0. PICK B \in Nat \ {0} : B = BlockSize
  BY SizesOK
<1>1. PICK V \in Nat \ {0} : V = 2 ^ (WordBits - 3) /\ Word = 8 * V
  BY WordAssumption
<1>2. PICK u \in Nat : V = u * B
  <2>1. V % B = 0
    BY <1>0, <1>1, Md5Assumption
  <2>2. PICK u \in Nat : u = V \div B /\ V = (V % B) + u * B
    BY Division
  <2>3. u * B \in Nat
    BY <2>2, Product
  <2>4. V = u * B
    BY <2>1, <2>2, <2>3
  <2> QED
    BY <2>4
<1>3. PICK n \in Nat : n = l * 8
  OBVIOUS
<1>4. PICK W \in Nat \ {0} : W = Word
  BY WordAssumption
<1>5. count[0] = n % W
  BY <1>3, <1>4, WordsOfBits
<1>6. PICK k \in Nat, c \in 0 .. W - 1 : c = count[0] /\ n = c + k * W
  <2>1. n \div W \in Nat /\ n % W \in 0 .. W - 1 /\ n = (n % W) + (n \div W) * W
    BY Division
  <2> QED
    BY <1>5, <2>1
<1>7. PICK z \in Nat : z = k * V
  BY Product
<1>8. l * 8 = c + 8 * z
  <2>1. k * W = 8 * (k * V)
    BY <1>1, <1>4, <1>6
  <2> QED
    BY <1>3, <1>6, <1>7, <2>1
<1>9. PICK d \in Nat : d = c \div 8 /\ l = d + z
  BY <1>8
<1>10. PICK e \in Nat : e = k * u
  BY Product
<1>11. z = e * B
  <2>1. k * (u * B) = (k * u) * B
    BY <1>2, <1>6
  <2> QED
    BY <1>2, <1>7, <1>10, <2>1
<1>12. PICK v \in 0 .. B - 1, f \in Nat : v = d % B /\ d = v + f * B
  BY Division
<1>13. PICK g \in Nat : l = v + g * B
  <2>1. (f + e) * B = f * B + e * B
    BY <1>10, <1>12
  <2>2. l = v + (f + e) * B
    BY <1>9, <1>11, <1>12, <2>1
  <2>3. f + e \in Nat
    BY <1>10, <1>12
  <2> QED
    BY <2>2, <2>3
<1>14. l % B = v
  BY <1>13, Remainder
<1> QED
  BY <1>0, <1>6, <1>9, <1>12, <1>14

-----------------------------------------------------------------------------
(* What update writes to the buffer and what it hands to transform.        *)
LEMMA CopiedBytes ==
    ASSUME NEW buffer \in [Cells -> AnyByte], NEW at \in Nat, NEW bytes \in Seq(AnyByte)
    PROVE  /\ Copied(buffer, at, bytes) \in [Cells -> AnyByte]
           /\ \A p \in Cells :
                  Copied(buffer, at, bytes)[p] =
                      IF p - at \in 0 .. Len(bytes) - 1 THEN bytes[p - at + 1] ELSE buffer[p]
<1>1. ASSUME NEW p \in Cells
      PROVE  (IF p - at \in 0 .. Len(bytes) - 1 THEN bytes[p - at + 1] ELSE buffer[p])
                 \in AnyByte
  <2>1. CASE p - at \in 0 .. Len(bytes) - 1
    <3>1. p \in Int /\ p - at + 1 \in 1 .. Len(bytes)
      BY <2>1, SizesOK DEF Cells
    <3>2. bytes[p - at + 1] \in AnyByte
      BY <3>1, ElementOfSeq
    <3> QED
      BY <2>1, <3>2
  <2>2. CASE ~(p - at \in 0 .. Len(bytes) - 1)
    BY <2>2
  <2> QED
    BY <2>1, <2>2
<1> QED
  BY <1>1 DEF Copied

Whole(m) ==
    /\ DOMAIN m = Fields
    /\ m.count \in [{0, 1} -> 0 .. Word - 1]
    /\ m.buffer \in [Cells -> AnyByte]
    /\ m.state \in Seq(Block)

Index(m) == (m.count[0] \div 8) % BlockSize

LEMMA IndexInBuffer == ASSUME NEW m, Whole(m) PROVE Index(m) \in 0 .. BlockSize - 1
<1>1. m.count[0] \in Nat
  BY WordAssumption DEF Whole
<1>2. m.count[0] \div 8 \in Nat
  BY <1>1
<1> QED
  BY <1>2, SizesOK, Division DEF Index

(* A piece that does not fill the buffer. *)
LEMMA UpdateShort ==
    ASSUME NEW m, Whole(m), NEW input \in Seq(AnyByte), Len(input) < BlockSize - Index(m)
    PROVE  /\ Update(m, input).state = m.state
           /\ Update(m, input).buffer = Copied(m.buffer, Index(m), input)
           /\ Update(m, input).digest = m.digest
  BY DEF Update, Whole, Index, Fields

(* The first bytes of a piece, and the others. *)
LEMMA FirstBytes ==
    ASSUME NEW input \in Seq(AnyByte), NEW n \in 1 .. Len(input)
    PROVE  /\ SubSeq(input, 1, n) \in Seq(AnyByte) /\ Len(SubSeq(input, 1, n)) = n
           /\ \A j \in 1 .. n : SubSeq(input, 1, n)[j] = input[j]
<1>1. \A j \in 1 .. n : input[j] \in AnyByte
  BY ElementOfSeq
<1>2. /\ SubSeq(input, 1, n) \in Seq(AnyByte)
      /\ Len(SubSeq(input, 1, n)) = IF 1 <= n THEN n - 1 + 1 ELSE 0
      /\ \A j \in 1 .. n - 1 + 1 : SubSeq(input, 1, n)[j] = input[1 + j - 1]
  BY <1>1, SubSeqProperties
<1> QED
  BY <1>2

LEMMA LastBytes ==
    ASSUME NEW input \in Seq(AnyByte), NEW i \in Nat, NEW r \in Nat, Len(input) = i + r
    PROVE  /\ SubSeq(input, i + 1, Len(input)) \in Seq(AnyByte)
           /\ Len(SubSeq(input, i + 1, Len(input))) = r
           /\ \A j \in 1 .. r : SubSeq(input, i + 1, Len(input))[j] = input[i + j]
<1> DEFINE t == SubSeq(input, i + 1, i + r)
<1>1. \A j \in i + 1 .. i + r : input[j] \in AnyByte
  BY ElementOfSeq
<1>2. /\ t \in Seq(AnyByte)
      /\ Len(t) = IF i + 1 <= i + r THEN i + r - (i + 1) + 1 ELSE 0
      /\ \A j \in 1 .. i + r - (i + 1) + 1 : t[j] = input[i + 1 + j - 1]
  BY <1>1, SubSeqProperties
<1> HIDE DEF t
<1>3. t \in Seq(AnyByte) /\ Len(t) = r /\ \A j \in 1 .. r : t[j] = input[i + j]
  BY <1>2
<1> QED
  BY <1>3 DEF t

(* The buffer, filled up. *)
AsBlock(filled) == [k \in 1 .. BlockSize |-> filled[k - 1]]

LEMMA FilledBlock ==
    ASSUME NEW buffer \in [Cells -> AnyByte], NEW d \in 0 .. BlockSize - 1,
           NEW head \in Seq(AnyByte), Len(head) = BlockSize - d
    PROVE  /\ Copied(buffer, d, head) \in [Cells -> AnyByte]
           /\ AsBlock(Copied(buffer, d, head)) \in Block
           /\ \A j \in 1 .. BlockSize :
                  AsBlock(Copied(buffer, d, head))[j] =
                      IF j <= d THEN buffer[j - 1] ELSE head[j - d]
<1> DEFINE filled == Copied(buffer, d, head)
<1>0. BlockSize \in Nat \ {0} /\ d \in Nat
  BY SizesOK
<1>1. /\ filled \in [Cells -> AnyByte]
      /\ \A p \in Cells : filled[p] = IF p - d \in 0 .. Len(head) - 1
                                      THEN head[p - d + 1] ELSE buffer[p]
  BY <1>0, CopiedBytes
<1> HIDE DEF filled
<1>2. ASSUME NEW j \in 1 .. BlockSize
      PROVE  /\ filled[j - 1] \in AnyByte
             /\ filled[j - 1] = IF j <= d THEN buffer[j - 1] ELSE head[j - d]
  <2>1. j - 1 \in Cells
    BY <1>0 DEF Cells
  <2>2. filled[j - 1] = IF j - 1 - d \in 0 .. Len(head) - 1
                        THEN head[j - 1 - d + 1] ELSE buffer[j - 1]
    BY <1>1, <2>1
  <2>3. j - 1 - d \in 0 .. Len(head) - 1 <=> ~(j <= d)
    BY <1>0
  <2>4. j - 1 - d + 1 = j - d
    BY <1>0
  <2> QED
    BY <1>1, <2>1, <2>2, <2>3, <2>4
<1>3. /\ AsBlock(filled) \in Block
      /\ \A j \in 1 .. BlockSize : AsBlock(filled)[j] = filled[j - 1]
  BY <1>2 DEF Block, AsBlock
<1> QED
  BY <1>1, <1>2, <1>3 DEF filled

(* The blocks straight from the input. *)
InputPart(input, first, k) ==
    SubSeq(input, first + (k - 1) * BlockSize + 1, first + k * BlockSize)

LEMMA InputBlock ==
    ASSUME NEW input \in Seq(AnyByte), NEW first \in Nat, NEW whole \in Nat,
           NEW w \in Nat, BytesIn(w, whole), first + w <= Len(input), NEW k \in 1 .. whole
    PROVE  /\ InputPart(input, first, k) \in Block
           /\ \A j \in 1 .. BlockSize :
                  InputPart(input, first, k)[j] = input[first + Before(k) + j]
<1>0. BlockSize \in Nat \ {0}
  BY SizesOK
<1>1. w \div BlockSize = whole
  <2>1. 0 \in 0 .. BlockSize - 1 /\ w = 0 + whole * BlockSize
    BY <1>0 DEF BytesIn
  <2> QED
    BY <1>0, <2>1, Quotient
<1>2. PICK b, e \in Nat : b = (k - 1) * BlockSize /\ e = k * BlockSize
                          /\ e = b + BlockSize /\ e <= w
  <2>1. /\ (k - 1) * BlockSize \in Nat /\ k * BlockSize = (k - 1) * BlockSize + BlockSize
        /\ k * BlockSize <= w
    BY <1>1, BlockBounds DEF Before
  <2>2. k * BlockSize \in Nat
    BY <1>0, <2>1
  <2> QED
    BY <2>1, <2>2
<1>3. PICK a \in Nat : a = first + b /\ a + BlockSize <= Len(input)
                       /\ first + e = a + BlockSize
  <2>1. b + BlockSize <= w /\ first + b \in Nat /\ first + b + BlockSize <= Len(input)
    BY <1>0, <1>2
  <2> QED
    BY <1>0, <1>2, <2>1
<1>4. /\ SubSeq(input, a + 1, a + BlockSize) \in Block
      /\ \A j \in 1 .. BlockSize : SubSeq(input, a + 1, a + BlockSize)[j] = input[a + j]
  BY <1>3, BlockBytes
<1>5. InputPart(input, first, k) = SubSeq(input, a + 1, a + BlockSize)
  BY <1>2, <1>3 DEF InputPart
<1>6. \A j \in 1 .. BlockSize : first + Before(k) + j = a + j
  BY <1>2, <1>3 DEF Before
<1> QED
  BY <1>4, <1>5, <1>6

(* What u is, after m is given a piece that fills the buffer: the block in *)
(* it, those behind it, and what is left.                                  *)
Continues(u, m, input, first, whole, w, r) ==
    /\ \E bs \in Seq(Block) :
           /\ u.state = m.state \o bs /\ Len(bs) = whole + 1
           /\ \A j \in 1 .. BlockSize :
                  bs[1][j] = IF j <= Index(m) THEN m.buffer[j - 1] ELSE input[j - Index(m)]
           /\ \A k \in 1 .. whole, j \in 1 .. BlockSize :
                  bs[k + 1][j] = input[first + Before(k) + j]
    /\ u.buffer \in [Cells -> AnyByte]
    /\ \A p \in 0 .. r - 1 : u.buffer[p] = input[first + w + p + 1]
    /\ u.digest = m.digest

(* What update makes of such a piece, in its parts. *)
UpdatedLong(m, input, first, whole, i) ==
    LET filled == Copied(m.buffer, Index(m), SubSeq(input, 1, first))
        blocks == <<AsBlock(filled)>> \o [k \in 1 .. whole |-> InputPart(input, first, k)]
    IN  [m EXCEPT !.count = Counted(m.count, Len(input)),
                  !.state = Transform(m.state, blocks),
                  !.buffer = Copied(filled, 0, SubSeq(input, i + 1, Len(input)))]

LEMMA UpdateIsLong ==
    ASSUME NEW m, NEW input, ~(Len(input) < BlockSize - Index(m))
    PROVE  LET first == BlockSize - Index(m)
               whole == (Len(input) - first) \div BlockSize
           IN  Update(m, input) = UpdatedLong(m, input, first, whole, first + whole * BlockSize)
  BY DEF Update, UpdatedLong, Index, AsBlock, InputPart

LEMMA UpdateLong ==
    ASSUME NEW m, Whole(m), NEW input \in Seq(AnyByte), NEW first \in Nat, NEW whole \in Nat,
           NEW w \in Nat, BytesIn(w, whole), NEW r \in 0 .. BlockSize - 1,
           first = BlockSize - Index(m), Len(input) = first + w + r
    PROVE  Continues(Update(m, input), m, input, first, whole, w, r)
<1>0. /\ BlockSize \in Nat \ {0} /\ Index(m) \in 0 .. BlockSize - 1 /\ Index(m) \in Nat
      /\ first \in 1 .. Len(input) /\ r \in Nat /\ first + w <= Len(input)
  <2>1. BlockSize \in Nat \ {0} /\ Index(m) \in 0 .. BlockSize - 1
    BY SizesOK, IndexInBuffer
  <2>2. Index(m) \in Nat /\ Index(m) < BlockSize /\ r \in Nat
    BY <2>1
  <2>3. first >= 1
    BY <2>1, <2>2
  <2>4. first <= Len(input) /\ first + w <= Len(input)
    BY <2>2
  <2>5. first \in 1 .. Len(input)
    BY <2>3, <2>4
  <2> QED
    BY <2>1, <2>2, <2>4, <2>5
<1> DEFINE head == SubSeq(input, 1, first)
           tail == SubSeq(input, first + w + 1, Len(input))
           filled == Copied(m.buffer, Index(m), head)
           block == AsBlock(filled)
           rest == [k \in 1 .. whole |-> InputPart(input, first, k)]
           bs == <<block>> \o rest
<1>1. /\ Update(m, input).state = m.state \o bs
      /\ Update(m, input).buffer = Copied(filled, 0, tail)
      /\ Update(m, input).digest = m.digest
  <2>1. (Len(input) - first) \div BlockSize = whole
    <3>1. Len(input) - first = w + r
      BY <1>0
    <3>2. (w + r) \div BlockSize = whole
      BY SameBlocks
    <3> QED
      BY <3>1, <3>2
  <2>2. Update(m, input) = UpdatedLong(m, input, first, whole, first + w)
    <3>1. ~(Len(input) < BlockSize - Index(m)) /\ w = whole * BlockSize
      BY <1>0 DEF BytesIn
    <3> QED
      BY <2>1, <3>1, UpdateIsLong
  <2>3. UpdatedLong(m, input, first, whole, first + w) =
            [m EXCEPT !.count = Counted(m.count, Len(input)),
                      !.state = Transform(m.state, bs), !.buffer = Copied(filled, 0, tail)]
    BY DEF UpdatedLong
  <2> HIDE DEF bs, filled, tail
  <2> QED
    BY <2>2, <2>3 DEF Whole, Fields, Transform
<1>2. head \in Seq(AnyByte) /\ Len(head) = first /\ \A j \in 1 .. first : head[j] = input[j]
  BY <1>0, FirstBytes
<1>3. /\ tail \in Seq(AnyByte) /\ Len(tail) = r
      /\ \A j \in 1 .. r : tail[j] = input[first + w + j]
  <2>1. PICK i \in Nat : i = first + w /\ Len(input) = i + r
    OBVIOUS
  <2>2. /\ SubSeq(input, i + 1, Len(input)) \in Seq(AnyByte)
        /\ Len(SubSeq(input, i + 1, Len(input))) = r
        /\ \A j \in 1 .. r : SubSeq(input, i + 1, Len(input))[j] = input[i + j]
    <3>1. i \in Nat /\ r \in Nat /\ Len(input) = i + r
      BY <1>0, <2>1
    <3> QED
      BY ONLY <3>1, input \in Seq(AnyByte), LastBytes
  <2> QED
    BY <2>1, <2>2
<1> HIDE DEF head, tail
<1>4. /\ filled \in [Cells -> AnyByte] /\ block \in Block
      /\ \A j \in 1 .. BlockSize :
             block[j] = IF j <= Index(m) THEN m.buffer[j - 1] ELSE input[j - Index(m)]
  <2>1. /\ filled \in [Cells -> AnyByte] /\ block \in Block
        /\ \A j \in 1 .. BlockSize :
               block[j] = IF j <= Index(m) THEN m.buffer[j - 1] ELSE head[j - Index(m)]
    <3>1. PICK buffer \in [Cells -> AnyByte], d \in 0 .. BlockSize - 1 :
              buffer = m.buffer /\ d = Index(m) /\ Len(head) = BlockSize - d
      BY <1>0, <1>2 DEF Whole
    <3> QED
      BY <1>2, <3>1, FilledBlock
  <2>2. ASSUME NEW j \in 1 .. BlockSize, ~(j <= Index(m))
        PROVE  head[j - Index(m)] = input[j - Index(m)]
    <3>1. j - Index(m) \in 1 .. first
      <4>1. PICK d \in Nat, B \in Nat \ {0} : d = Index(m) /\ B = BlockSize
        BY <1>0
      <4>2. j \in 1 .. B /\ ~(j <= d) /\ first = B - d
        BY <2>2, <4>1
      <4>3. j - d \in 1 .. first
        BY ONLY <4>2, d \in Nat, B \in Nat
      <4> QED
        BY <4>1, <4>3
    <3> QED
      BY <1>2, <3>1
  <2> QED
    BY <2>1, <2>2
<1>5. ASSUME NEW k \in 1 .. whole
      PROVE  /\ rest[k] \in Block
             /\ \A j \in 1 .. BlockSize : rest[k][j] = input[first + Before(k) + j]
  <2>1. rest[k] = InputPart(input, first, k)
    OBVIOUS
  <2> HIDE DEF rest, filled, block, bs
  <2>2. /\ InputPart(input, first, k) \in Block
        /\ \A j \in 1 .. BlockSize :
               InputPart(input, first, k)[j] = input[first + Before(k) + j]
    <3>1. first + w <= Len(input)
      BY <1>0
    <3> QED
      BY ONLY <3>1, InputBlock, BytesIn(w, whole), k \in 1 .. whole, input \in Seq(AnyByte),
           first \in Nat, whole \in Nat, w \in Nat
  <2> QED
    BY <2>1, <2>2
<1> HIDE DEF block, rest, filled
<1>6. rest \in Seq(Block) /\ Len(rest) = whole
  <2>1. rest \in [1 .. whole -> Block]
    BY <1>5 DEF rest
  <2> QED
    BY <2>1
<1>7. <<block>> \in Seq(Block) /\ Len(<<block>>) = 1 /\ <<block>>[1] = block
  BY <1>4
<1>8. /\ bs \in Seq(Block) /\ Len(bs) = whole + 1 /\ bs[1] = block
      /\ \A k \in 1 .. whole : bs[k + 1] = rest[k]
  <2>1. /\ bs \in Seq(Block) /\ Len(bs) = 1 + whole
        /\ \A k \in 1 .. 1 + whole : bs[k] = IF k <= 1 THEN <<block>>[k] ELSE rest[k - 1]
    BY <1>6, <1>7, ConcatProperties
  <2> HIDE DEF bs
  <2>2. ASSUME NEW k \in 1 .. whole PROVE bs[k + 1] = rest[k]
    <3>1. k + 1 \in 1 .. 1 + whole /\ ~(k + 1 <= 1) /\ (k + 1) - 1 = k
      OBVIOUS
    <3> QED
      BY <2>1, <3>1
  <2> QED
    BY <1>7, <2>1, <2>2
<1> HIDE DEF bs
<1>9. \E c \in Seq(Block) :
           /\ Update(m, input).state = m.state \o c /\ Len(c) = whole + 1
           /\ \A j \in 1 .. BlockSize :
                  c[1][j] = IF j <= Index(m) THEN m.buffer[j - 1] ELSE input[j - Index(m)]
           /\ \A k \in 1 .. whole, j \in 1 .. BlockSize :
                  c[k + 1][j] = input[first + Before(k) + j]
  <2>1. ASSUME NEW k \in 1 .. whole, NEW j \in 1 .. BlockSize
        PROVE  bs[k + 1][j] = input[first + Before(k) + j]
    BY <1>5, <1>8
  <2>2. \A j \in 1 .. BlockSize :
            bs[1][j] = IF j <= Index(m) THEN m.buffer[j - 1] ELSE input[j - Index(m)]
    BY <1>4, <1>8
  <2>3. /\ bs \in Seq(Block)
        /\ Update(m, input).state = m.state \o bs /\ Len(bs) = whole + 1
    BY <1>1, <1>8
  <2> QED
    BY <2>1, <2>2, <2>3
<1>10. /\ Copied(filled, 0, tail) \in [Cells -> AnyByte]
       /\ \A p \in 0 .. r - 1 : Copied(filled, 0, tail)[p] = input[first + w + p + 1]
  <2>1. /\ Copied(filled, 0, tail) \in [Cells -> AnyByte]
        /\ \A p \in Cells : Copied(filled, 0, tail)[p] =
               IF p - 0 \in 0 .. Len(tail) - 1 THEN tail[p - 0 + 1] ELSE filled[p]
    <3>1. PICK at \in Nat, buffer \in [Cells -> AnyByte], bytes \in Seq(AnyByte) :
              at = 0 /\ buffer = filled /\ bytes = tail
      BY <1>3, <1>4
    <3>2. /\ Copied(buffer, at, bytes) \in [Cells -> AnyByte]
          /\ \A p \in Cells : Copied(buffer, at, bytes)[p] =
                 IF p - at \in 0 .. Len(bytes) - 1 THEN bytes[p - at + 1] ELSE buffer[p]
      BY ONLY at \in Nat, buffer \in [Cells -> AnyByte], bytes \in Seq(AnyByte), CopiedBytes
    <3> QED
      BY <3>1, <3>2
  <2>2. ASSUME NEW p \in 0 .. r - 1
        PROVE  Copied(filled, 0, tail)[p] = input[first + w + p + 1]
    <3>1. p \in Cells /\ p - 0 \in 0 .. Len(tail) - 1 /\ p + 1 \in 1 .. r
          /\ p - 0 + 1 = p + 1 /\ first + w + (p + 1) = first + w + p + 1
      BY <1>0, <1>3 DEF Cells
    <3>2. Copied(filled, 0, tail)[p] = tail[p + 1]
      BY <2>1, <3>1
    <3> QED
      BY <1>3, <3>1, <3>2
  <2> QED
    BY <2>1, <2>2
<1> QED
  BY <1>1, <1>9, <1>10 DEF Continues

-----------------------------------------------------------------------------
(* A piece that fills the buffer is what fills it, whole blocks, and less  *)
(* than one.                                                               *)
LEMMA PieceParts ==
    ASSUME NEW m, Whole(m), NEW input \in Seq(AnyByte), ~(Len(input) < BlockSize - Index(m))
    PROVE  \E first, whole, w \in Nat, r \in 0 .. BlockSize - 1 :
               /\ BytesIn(w, whole) /\ first = BlockSize - Index(m)
               /\ Len(input) = first + w + r
<1>0. BlockSize \in Nat \ {0} /\ Index(m) \in 0 .. BlockSize - 1
  BY SizesOK, IndexInBuffer
<1>1. PICK first, a \in Nat : first = BlockSize - Index(m) /\ Len(input) = first + a
  <2>1. Len(input) \in Nat
    OBVIOUS
  <2>2. BlockSize - Index(m) \in Nat /\ Len(input) - (BlockSize - Index(m)) \in Nat
    BY <1>0, <2>1
  <2>3. Len(input) = (BlockSize - Index(m)) + (Len(input) - (BlockSize - Index(m)))
    BY <1>0, <2>1
  <2> QED
    BY <2>2, <2>3
<1>2. PICK whole, w \in Nat, r \in 0 .. BlockSize - 1 : BytesIn(w, whole) /\ a = r + w
  <2>1. /\ a \div BlockSize \in Nat /\ a % BlockSize \in 0 .. BlockSize - 1
        /\ a = (a % BlockSize) + (a \div BlockSize) * BlockSize
    BY <1>0, Division
  <2>2. PICK whole \in Nat, r \in 0 .. BlockSize - 1 : a = r + whole * BlockSize
    BY <2>1
  <2>3. PICK w \in Nat : w = whole * BlockSize
    BY <1>0, <2>2, Product
  <2> QED
    BY <2>2, <2>3 DEF BytesIn
<1> QED
  BY <1>1, <1>2

(* Whatever bytes it is given, the object stays whole. *)
LEMMA UpdateTyped ==
    ASSUME NEW m, Whole(m), NEW input \in Seq(AnyByte)
    PROVE  /\ Whole(Update(m, input))
           /\ Update(m, input).digest = m.digest
           /\ Update(m, input).finalized = m.finalized
<1>1. /\ DOMAIN Update(m, input) = Fields
      /\ Update(m, input).count \in [{0, 1} -> 0 .. Word - 1]
      /\ Update(m, input).finalized = m.finalized
  <2>1. Len(input) \in Nat
    OBVIOUS
  <2>2. Counted(m.count, Len(input)) \in [{0, 1} -> 0 .. Word - 1]
    BY <2>1, CountedTyped DEF Whole
  <2> QED
    BY <2>2, UpdateCounts DEF Whole
<1>2. /\ Update(m, input).buffer \in [Cells -> AnyByte]
      /\ Update(m, input).state \in Seq(Block)
      /\ Update(m, input).digest = m.digest
  <2>1. CASE Len(input) < BlockSize - Index(m)
    <3>1. Index(m) \in Nat
      BY IndexInBuffer, SizesOK
    <3>2. m.buffer \in [Cells -> AnyByte] /\ m.state \in Seq(Block)
      BY DEF Whole
    <3>3. Copied(m.buffer, Index(m), input) \in [Cells -> AnyByte]
      BY <3>1, <3>2, CopiedBytes
    <3> QED
      BY <2>1, <3>2, <3>3, UpdateShort
  <2>2. CASE ~(Len(input) < BlockSize - Index(m))
    <3>1. PICK first, whole, w \in Nat, r \in 0 .. BlockSize - 1 :
              /\ BytesIn(w, whole) /\ first = BlockSize - Index(m)
              /\ Len(input) = first + w + r
      BY <2>2, PieceParts
    <3>2. /\ \E bs \in Seq(Block) : Update(m, input).state = m.state \o bs
          /\ Update(m, input).buffer \in [Cells -> AnyByte]
          /\ Update(m, input).digest = m.digest
      <4>1. Continues(Update(m, input), m, input, first, whole, w, r)
        BY <3>1, UpdateLong
      <4> QED
        BY <4>1 DEF Continues
    <3> QED
      BY <3>2, ConcatProperties DEF Whole
  <2> QED
    BY <2>1, <2>2
<1> QED
  BY <1>1, <1>2 DEF Whole

-----------------------------------------------------------------------------
(* A text and the piece behind it.                                         *)
LEMMA Joined ==
    ASSUME NEW s \in Seq(AnyByte), NEW input \in Seq(AnyByte)
    PROVE  /\ s \o input \in Seq(AnyByte) /\ Len(s \o input) = Len(s) + Len(input)
           /\ \A i \in 1 .. Len(s) : (s \o input)[i] = s[i]
           /\ \A i \in 1 .. Len(input) : (s \o input)[Len(s) + i] = input[i]
<1>1. /\ s \o input \in Seq(AnyByte) /\ Len(s \o input) = Len(s) + Len(input)
      /\ \A i \in 1 .. Len(s) + Len(input) :
             (s \o input)[i] = IF i <= Len(s) THEN s[i] ELSE input[i - Len(s)]
  BY ConcatProperties
<1>2. Len(s) \in Nat /\ Len(input) \in Nat
  OBVIOUS
<1>3. ASSUME NEW i \in 1 .. Len(input) PROVE (s \o input)[Len(s) + i] = input[i]
  <2>1. /\ Len(s) + i \in 1 .. Len(s) + Len(input) /\ ~(Len(s) + i <= Len(s))
        /\ Len(s) + i - Len(s) = i
    BY <1>2
  <2> QED
    BY <1>1, <2>1
<1> QED
  BY <1>1, <1>2, <1>3

(* The blocks of a text are the first ones of a longer text. *)
LEMMA OldBlocks ==
    ASSUME NEW s \in Seq(AnyByte), NEW input \in Seq(AnyByte),
           NEW k \in 1 .. Len(s) \div BlockSize, NEW j \in 1 .. BlockSize
    PROVE  BlocksOf(s)[k][j] = (s \o input)[Before(k) + j]
<1>1. PICK a \in Nat : a = Before(k) /\ a + BlockSize <= Len(s)
  BY BlockBounds
<1>2. a + j \in 1 .. Len(s)
  BY <1>1, SizesOK
<1> QED
  BY <1>1, <1>2, BlocksAre, Joined

(* The place in the buffer is what the whole blocks of the text leave. *)
LEMMA AbsorbedIndex ==
    ASSUME NEW m, NEW s \in Seq(AnyByte), Absorbed(m, s)
    PROVE  \E q, w \in Nat, d \in 0 .. BlockSize - 1 :
               /\ BytesIn(w, q) /\ q = Len(s) \div BlockSize
               /\ d = Len(s) % BlockSize /\ Index(m) = d /\ Len(s) = w + d
<1>0. BlockSize \in Nat \ {0} /\ Len(s) \in Nat
  BY SizesOK
<1>1. Index(m) = Len(s) % BlockSize
  BY <1>0, IndexIsExact DEF Absorbed, Index
<1>2. PICK q \in Nat, d \in 0 .. BlockSize - 1 :
          /\ q = Len(s) \div BlockSize /\ d = Len(s) % BlockSize
          /\ Len(s) = d + q * BlockSize
  BY <1>0, Division
<1>3. PICK w \in Nat : w = q * BlockSize
  BY <1>0, <1>2, Product
<1>4. BytesIn(w, q) /\ Index(m) = d /\ Len(s) = w + d
  BY <1>0, <1>1, <1>2, <1>3 DEF BytesIn
<1> QED
  BY <1>2, <1>4

(* Bytes are counted with those before them. *)
LEMMA UpdateCountsAll ==
    ASSUME NEW m, DOMAIN m = Fields, NEW s \in Seq(AnyByte), NEW input \in Seq(AnyByte),
           Absorbed(m, s)
    PROVE  /\ Update(m, input).count \in [{0, 1} -> 0 .. Word - 1]
           /\ Bits(Update(m, input).count) = (Len(s \o input) * 8) % (Word * Word)
<1>1. PICK l, n \in Nat : l = Len(s) * 8 /\ n = Len(input)
  OBVIOUS
<1>2. /\ Counted(m.count, n) \in [{0, 1} -> 0 .. Word - 1]
      /\ Bits(Counted(m.count, n)) = (l + n * 8) % (Word * Word)
  BY <1>1, CountedExact DEF Absorbed
<1>3. Len(s \o input) * 8 = l + n * 8
  BY <1>1, Joined
<1> QED
  BY <1>1, <1>2, <1>3, UpdateCounts

(* Less than fills the buffer: no block is made, and the bytes wait behind *)
(* those that wait already.                                                *)
LEMMA AbsorbsShort ==
    ASSUME NEW m, Whole(m), NEW s \in Seq(AnyByte), NEW input \in Seq(AnyByte),
           Absorbed(m, s), Len(input) < BlockSize - Index(m)
    PROVE  Absorbed(Update(m, input), s \o input)
<1> DEFINE t == s \o input
           u == Update(m, input)
<1>0. BlockSize \in Nat \ {0} /\ Len(s) \in Nat /\ Len(input) \in Nat
  BY SizesOK
<1>1. PICK q, w \in Nat, d \in 0 .. BlockSize - 1 :
          /\ BytesIn(w, q) /\ q = Len(s) \div BlockSize
          /\ d = Len(s) % BlockSize /\ Index(m) = d /\ Len(s) = w + d
  BY AbsorbedIndex
<1>w. w \in Nat /\ d \in 0 .. BlockSize - 1 /\ Len(s) = w + d
  BY <1>1
<1>2. /\ t \in Seq(AnyByte) /\ Len(t) = Len(s) + Len(input)
      /\ \A i \in 1 .. Len(s) : t[i] = s[i]
      /\ \A i \in 1 .. Len(input) : t[Len(s) + i] = input[i]
  BY Joined
<1>3. PICK r \in 0 .. BlockSize - 1 : r = d + Len(input) /\ Len(t) = w + r
  <2>1. Len(t) = Len(s) + Len(input) /\ Len(input) < BlockSize - d
    BY <1>1, <1>2
  <2> HIDE DEF t
  <2>2. d + Len(input) \in 0 .. BlockSize - 1 /\ Len(t) = w + (d + Len(input))
    BY <1>0, <1>w, <2>1
  <2> QED
    BY <2>2
<1>4. Len(t) \div BlockSize = q /\ Len(t) % BlockSize = r
  BY <1>1, <1>3, SameBlocks
<1>5. u.state = BlocksOf(s) /\ u.buffer = Copied(m.buffer, d, input)
  BY <1>1, UpdateShort DEF Absorbed
<1> HIDE DEF t, u
<1>6. BlocksOf(s) = BlocksOf(t)
  <2>1. BlocksOf(s) \in Seq(Block) /\ Len(BlocksOf(s)) = q
    BY <1>1, BlocksAre
  <2>2. \A k \in 1 .. q, j \in 1 .. BlockSize : BlocksOf(s)[k][j] = t[Before(k) + j]
    BY <1>1, OldBlocks DEF t
  <2> QED
    BY <1>2, <1>4, <2>1, <2>2, BlocksUnique
<1>7. /\ u.buffer \in [Cells -> AnyByte]
      /\ \A p \in Cells : u.buffer[p] =
             IF p - d \in 0 .. Len(input) - 1 THEN input[p - d + 1] ELSE m.buffer[p]
  <2>1. d \in Nat
    BY <1>0
  <2> QED
    BY <1>5, <2>1, CopiedBytes DEF Absorbed
<1>8. ASSUME NEW p \in 0 .. r - 1 PROVE u.buffer[p] = t[Len(t) - r + p + 1]
  <2>1. p \in Cells /\ p \in Nat /\ Len(t) - r + p + 1 = w + p + 1
    BY <1>0, <1>w, <1>3 DEF Cells
  <2>2. CASE p < d
    <3>1. p \in 0 .. d - 1 /\ w + p + 1 \in 1 .. Len(s) /\ Len(s) - d + p + 1 = w + p + 1
          /\ ~(p - d \in 0 .. Len(input) - 1)
      BY <1>0, <1>w, <2>1, <2>2
    <3>2. m.buffer[p] = s[w + p + 1]
      BY <1>1, <3>1 DEF Absorbed
    <3> QED
      BY <1>2, <1>7, <2>1, <3>1, <3>2
  <2>3. CASE ~(p < d)
    <3>1. /\ p - d \in 0 .. Len(input) - 1 /\ p - d + 1 \in 1 .. Len(input)
          /\ w + p + 1 = Len(s) + (p - d + 1)
      BY <1>0, <1>w, <1>3, <2>1, <2>3
    <3>2. u.buffer[p] = input[p - d + 1]
      BY <1>7, <2>1, <3>1
    <3>3. t[Len(s) + (p - d + 1)] = input[p - d + 1]
      BY <1>2, <3>1
    <3> QED
      BY <2>1, <3>1, <3>2, <3>3
  <2> QED
    BY <2>2, <2>3
<1>9. u.count \in [{0, 1} -> 0 .. Word - 1] /\ Bits(u.count) = (Len(t) * 8) % (Word * Word)
  BY UpdateCountsAll DEF t, u, Whole
<1>10. Absorbed(u, t)
  BY <1>4, <1>5, <1>6, <1>7, <1>8, <1>9 DEF Absorbed
<1> QED
  BY <1>10 DEF t, u

(* The buffer is filled: its block, the whole blocks behind it and those   *)
(* before it are the blocks of the longer text.                            *)
LEMMA AbsorbsLong ==
    ASSUME NEW m, Whole(m), NEW s \in Seq(AnyByte), NEW input \in Seq(AnyByte),
           Absorbed(m, s), ~(Len(input) < BlockSize - Index(m))
    PROVE  Absorbed(Update(m, input), s \o input)
<1> DEFINE t == s \o input
           u == Update(m, input)
<1>0. BlockSize \in Nat \ {0} /\ Len(s) \in Nat /\ Len(input) \in Nat
  BY SizesOK
<1>1. PICK q, w \in Nat, d \in 0 .. BlockSize - 1 :
          /\ BytesIn(w, q) /\ q = Len(s) \div BlockSize
          /\ d = Len(s) % BlockSize /\ Index(m) = d /\ Len(s) = w + d
  BY AbsorbedIndex
<1>w. BytesIn(w, q) /\ Index(m) = d /\ Len(s) = w + d
  BY <1>1
<1>2. PICK first, whole, v \in Nat, r \in 0 .. BlockSize - 1 :
          /\ BytesIn(v, whole) /\ first = BlockSize - Index(m)
          /\ Len(input) = first + v + r
  BY PieceParts
<1>3. /\ t \in Seq(AnyByte) /\ Len(t) = Len(s) + Len(input)
      /\ \A i \in 1 .. Len(s) : t[i] = s[i]
      /\ \A i \in 1 .. Len(input) : t[Len(s) + i] = input[i]
  BY Joined
<1>4. Continues(u, m, input, first, whole, v, r)
  BY <1>2, UpdateLong
<1> HIDE DEF t, u
<1>5. /\ w \in Nat /\ v \in Nat /\ first \in Nat /\ r \in Nat /\ d \in Nat
      /\ Len(s) = w + d /\ first + d = BlockSize /\ Len(input) = first + v + r
      /\ Len(t) = w + BlockSize + v + r /\ Len(t) \in Nat
  <2>1. first = BlockSize - d /\ d \in Nat
    BY <1>0, <1>w, <1>2
  <2>2. Len(s) = w + d /\ Len(input) = first + v + r /\ Len(t) = Len(s) + Len(input)
    BY <1>w, <1>2, <1>3
  <2> QED
    BY <1>0, <2>1, <2>2
<1>6. Len(t) \div BlockSize = q + 1 + whole /\ Len(t) % BlockSize = r
  <2>1. PICK a, n \in Nat : a = w + BlockSize + v /\ n = q + 1 + whole
    BY <1>0
  <2>2. BytesIn(a, n)
    BY <1>w, <1>2, <2>1, BlockCount
  <2>3. Len(t) = a + r
    BY <1>5, <2>1
  <2>4. (a + r) \div BlockSize = n /\ (a + r) % BlockSize = r
    BY <2>2, SameBlocks
  <2> QED
    BY <2>1, <2>3, <2>4
<1>7. PICK bs \in Seq(Block) :
          /\ u.state = m.state \o bs /\ Len(bs) = whole + 1
          /\ \A j \in 1 .. BlockSize :
                 bs[1][j] = IF j <= Index(m) THEN m.buffer[j - 1] ELSE input[j - Index(m)]
          /\ \A k \in 1 .. whole, j \in 1 .. BlockSize :
                 bs[k + 1][j] = input[first + Before(k) + j]
  BY <1>4 DEF Continues
<1>8. BlocksOf(s) \in Seq(Block) /\ Len(BlocksOf(s)) = q
  BY <1>1, BlocksAre
<1>9. /\ u.state \in Seq(Block) /\ Len(u.state) = q + 1 + whole
      /\ \A k \in 1 .. q + 1 + whole :
             u.state[k] = IF k <= q THEN BlocksOf(s)[k] ELSE bs[k - q]
  <2>1. /\ u.state = BlocksOf(s) \o bs
    BY <1>7 DEF Absorbed
  <2>2. /\ u.state \in Seq(Block) /\ Len(u.state) = q + (whole + 1)
        /\ \A k \in 1 .. q + (whole + 1) :
               u.state[k] = IF k <= q THEN BlocksOf(s)[k] ELSE bs[k - q]
    <3>1. PICK a \in Seq(Block), c \in Seq(Block) :
              /\ a = BlocksOf(s) /\ c = bs /\ Len(a) = q /\ Len(c) = whole + 1
              /\ u.state = a \o c
      BY <1>7, <1>8, <2>1
    <3>2. /\ a \o c \in Seq(Block) /\ Len(a \o c) = Len(a) + Len(c)
          /\ \A k \in 1 .. Len(a) + Len(c) :
                 (a \o c)[k] = IF k <= Len(a) THEN a[k] ELSE c[k - Len(a)]
      BY ConcatProperties
    <3> QED
      BY <3>1, <3>2
  <2>3. q + (whole + 1) = q + 1 + whole
    OBVIOUS
  <2> QED
    BY <2>2, <2>3
<1>10. ASSUME NEW k \in 1 .. q + 1 + whole, NEW j \in 1 .. BlockSize
       PROVE  u.state[k][j] = t[Before(k) + j]
  <2>1. CASE k <= q
    <3>1. k \in 1 .. q
      BY <2>1
    <3>2. u.state[k] = BlocksOf(s)[k]
      BY <1>9, <2>1
    <3> QED
      <4>1. k \in 1 .. Len(s) \div BlockSize
        BY <1>1, <3>1
      <4>2. BlocksOf(s)[k][j] = t[Before(k) + j]
        BY <4>1, OldBlocks DEF t
      <4> QED
        BY <3>2, <4>2
  <2>2. CASE k = q + 1
    <3>1. Before(k) = w
      <4>1. k - 1 = q
        BY <2>2
      <4> QED
        BY <1>w, <4>1 DEF Before, BytesIn
    <3>2. u.state[k] = bs[1]
      <4>1. ~(k <= q) /\ k - q = 1
        BY <2>2
      <4> QED
        BY <1>9, <4>1
    <3>3. bs[1][j] = IF j <= d THEN m.buffer[j - 1] ELSE input[j - d]
      BY <1>w, <1>7
    <3>4. CASE j <= d
      <4>1. /\ j - 1 \in 0 .. d - 1 /\ Len(s) - d + (j - 1) + 1 = w + j
            /\ w + j \in 1 .. Len(s)
        BY <1>5, <3>4
      <4>2. m.buffer[j - 1] = s[w + j]
        BY <1>1, <4>1 DEF Absorbed
      <4> QED
        BY <1>3, <3>1, <3>2, <3>3, <3>4, <4>1, <4>2
    <3>5. CASE ~(j <= d)
      <4>1. j - d \in 1 .. Len(input) /\ w + j = Len(s) + (j - d)
        BY <1>0, <1>5, <3>5
      <4>2. t[Len(s) + (j - d)] = input[j - d]
        BY <1>3, <4>1
      <4> QED
        BY <3>1, <3>2, <3>3, <3>5, <4>1, <4>2
    <3> QED
      BY <3>4, <3>5
  <2>3. CASE k > q + 1
    <3>1. PICK i \in 1 .. whole : k = q + 1 + i
      <4>1. k - (q + 1) \in 1 .. whole /\ k = q + 1 + (k - (q + 1))
        BY <2>3
      <4> QED
        BY <4>1
    <3>2. i \in Nat \ {0}
      OBVIOUS
    <3>3. PICK b \in Nat : b = Before(i) /\ Before(k) = w + BlockSize + b
      <4>1. PICK h, b \in Nat : b = Before(i) /\ BytesIn(b, h) /\ k - 1 = q + 1 + h
        <5>1. PICK h \in Nat : h = i - 1
          BY <3>2
        <5>2. PICK b \in Nat : b = h * BlockSize
          BY <1>0, Product
        <5>3. k - 1 = q + 1 + h
          BY <3>1, <5>1
        <5> QED
          BY <5>1, <5>2, <5>3 DEF Before, BytesIn
      <4>2. BytesIn(w + BlockSize + b, q + 1 + h)
        BY <1>w, <4>1, BlockCount
      <4>3. Before(k) = w + BlockSize + b
        BY <4>1, <4>2 DEF Before, BytesIn
      <4> QED
        BY <4>1, <4>3
    <3>4. u.state[k] = bs[i + 1]
      <4>1. ~(k <= q) /\ k - q = i + 1
        BY <2>3, <3>1
      <4> QED
        BY <1>9, <4>1
    <3>5. bs[i + 1][j] = input[first + b + j]
      BY <1>7, <3>3
    <3>6. b + BlockSize <= v
      <4>1. v \div BlockSize = whole
        <5>1. v = v + 0 /\ 0 \in 0 .. BlockSize - 1
          BY <1>0, <1>5
        <5>2. (v + 0) \div BlockSize = whole
          BY <1>2, <5>1, SameBlocks
        <5> QED
          BY <5>1, <5>2
      <4> QED
        BY <3>3, <4>1, BlockBounds
    <3>7. /\ first + b + j \in 1 .. Len(input)
          /\ w + BlockSize + b + j = Len(s) + (first + b + j)
      BY <1>0, <1>5, <3>6
    <3>8. t[Len(s) + (first + b + j)] = input[first + b + j]
      BY <1>3, <3>7
    <3> QED
      BY <3>3, <3>4, <3>5, <3>7, <3>8
  <2> QED
    BY <2>1, <2>2, <2>3
<1>11. u.state = BlocksOf(t)
  <2>1. \A k \in 1 .. Len(u.state), j \in 1 .. BlockSize : u.state[k][j] = t[Before(k) + j]
    BY <1>9, <1>10
  <2>2. Len(u.state) = Len(t) \div BlockSize
    BY <1>6, <1>9
  <2> QED
    BY <1>3, <1>9, <2>1, <2>2, BlocksUnique
<1>12. ASSUME NEW p \in 0 .. r - 1 PROVE u.buffer[p] = t[Len(t) - r + p + 1]
  <2>1. /\ first + v + p + 1 \in 1 .. Len(input)
        /\ Len(t) - r + p + 1 = Len(s) + (first + v + p + 1)
    BY <1>0, <1>5
  <2>2. t[Len(s) + (first + v + p + 1)] = input[first + v + p + 1]
    BY <1>3, <2>1
  <2>3. u.buffer[p] = input[first + v + p + 1]
    BY <1>4 DEF Continues
  <2> QED
    BY <2>1, <2>2, <2>3
<1>13. u.count \in [{0, 1} -> 0 .. Word - 1] /\ Bits(u.count) = (Len(t) * 8) % (Word * Word)
  BY UpdateCountsAll DEF t, u, Whole
<1>14. u.buffer \in [Cells -> AnyByte]
  BY <1>4 DEF Continues
<1>15. Absorbed(u, t)
  BY <1>6, <1>11, <1>12, <1>13, <1>14 DEF Absorbed
<1> QED
  BY <1>15 DEF t, u

(* An object that has absorbed a text and is given a piece has absorbed    *)
(* the text and the piece.                                                 *)
LEMMA UpdateAbsorbs ==
    ASSUME NEW m, Whole(m), NEW s \in Seq(AnyByte), NEW input \in Seq(AnyByte),
           Absorbed(m, s)
    PROVE  Absorbed(Update(m, input), s \o input)
  BY AbsorbsShort, AbsorbsLong

-----------------------------------------------------------------------------
(* What finalize gives to update.                                          *)
LEMMA EncodedBytes ==
    ASSUME NEW count \in [{0, 1} -> 0 .. Word - 1]
    PROVE  Encoded(count) \in Seq(AnyByte)
<1>0. /\ LenSize \in Nat /\ LenSize % 2 = 0
      /\ \A k \in 0 .. LenSize \div 2 - 1 : 2 ^ (8 * k) \in Nat \ {0}
  BY Md5Assumption, WordAssumption
<1>1. PICK size \in Nat : size = LenSize \div 2 /\ LenSize = size + size
  BY <1>0
<1> DEFINE byte(k) == (count[(k - 1) \div size] \div 2 ^ (8 * ((k - 1) % size))) % 256
<1>2. Encoded(count) = [k \in 1 .. LenSize |-> byte(k)]
  BY <1>1 DEF Encoded
<1>3. ASSUME NEW k \in 1 .. LenSize PROVE byte(k) \in AnyByte
  <2>1. PICK a \in Nat, S \in Nat \ {0} : a = k - 1 /\ S = size /\ a < S + S
    BY <1>0, <1>1
  <2>2. a % S \in 0 .. S - 1 /\ a \div S \in Nat /\ a = (a % S) + (a \div S) * S
    BY Division
  <2>3. a \div S \in {0, 1}
    <3>1. PICK x, y \in Nat : x = a % S /\ y = a \div S /\ a = x + y * S
      BY <2>2
    <3>2. CASE y >= 2
      <4>1. PICK z \in Nat : y = z + 2
        BY <3>2
      <4>2. y * S = z * S + S + S /\ z * S \in Nat
        BY <4>1, Product
      <4> QED
        BY <2>1, <3>1, <4>2
    <3> QED
      BY <3>1, <3>2
  <2>4. PICK c \in Nat : c = count[a \div S]
    <3>1. count[a \div S] \in 0 .. Word - 1
      BY <2>3
    <3> QED
      BY <3>1, WordAssumption
  <2>5. PICK p \in Nat \ {0} : p = 2 ^ (8 * (a % S))
    BY <1>0, <1>1, <2>1, <2>2
  <2>6. (c \div p) % 256 \in 0 .. 255
    <3>1. c \div p \in Nat
      BY Division
    <3> QED
      BY <3>1
  <2>7. byte(k) = (c \div p) % 256
    BY <2>1, <2>4, <2>5
  <2> QED
    BY <2>6, <2>7 DEF AnyByte
<1> HIDE DEF byte
<1>4. [k \in 1 .. LenSize |-> byte(k)] \in [1 .. LenSize -> AnyByte]
  BY <1>3
<1> QED
  BY <1>0, <1>2, <1>4

(* A 1 bit and n - 1 bytes of 0s. *)
Zeros(n) == [k \in 1 .. n |-> 0]

LEMMA PaddingBytes ==
    ASSUME NEW n \in 1 .. BlockSize
    PROVE  /\ SubSeq(padding, 1, n) = <<128>> \o Zeros(n - 1)
           /\ SubSeq(padding, 1, n) \in Seq(AnyByte)
           /\ <<128>> \in Seq(AnyByte) /\ Zeros(n - 1) \in Seq(AnyByte)
<1>0. BlockSize \in Nat \ {0} /\ n \in Nat /\ n - 1 \in Nat
  BY SizesOK
<1>1. padding \in Seq(AnyByte) /\ Len(padding) = BlockSize
      /\ \A k \in 1 .. BlockSize : padding[k] = IF k = 1 THEN 128 ELSE 0
  <2>1. padding \in [1 .. BlockSize -> AnyByte]
    BY DEF padding, AnyByte
  <2> QED
    BY <1>0, <2>1 DEF padding
<1>2. /\ SubSeq(padding, 1, n) \in Seq(AnyByte) /\ Len(SubSeq(padding, 1, n)) = n
      /\ \A j \in 1 .. n : SubSeq(padding, 1, n)[j] = padding[j]
  BY <1>0, <1>1, FirstBytes
<1>3. <<128>> \in Seq(AnyByte) /\ Len(<<128>>) = 1 /\ <<128>>[1] = 128
  BY DEF AnyByte
<1>4. /\ Zeros(n - 1) \in Seq(AnyByte) /\ Len(Zeros(n - 1)) = n - 1
      /\ \A k \in 1 .. n - 1 : Zeros(n - 1)[k] = 0
  <2>1. Zeros(n - 1) \in [1 .. n - 1 -> AnyByte]
    BY DEF Zeros, AnyByte
  <2> QED
    BY <1>0, <2>1 DEF Zeros
<1>5. /\ <<128>> \o Zeros(n - 1) \in Seq(AnyByte) /\ Len(<<128>> \o Zeros(n - 1)) = n
      /\ \A i \in 1 .. n : (<<128>> \o Zeros(n - 1))[i] =
             IF i <= 1 THEN <<128>>[i] ELSE Zeros(n - 1)[i - 1]
  BY <1>0, <1>3, <1>4, ConcatProperties
<1>6. ASSUME NEW i \in 1 .. n
      PROVE  SubSeq(padding, 1, n)[i] = (<<128>> \o Zeros(n - 1))[i]
  <2>1. CASE i = 1
    BY <1>0, <1>1, <1>2, <1>3, <1>5, <2>1
  <2>2. CASE i # 1
    <3>1. i - 1 \in 1 .. n - 1 /\ ~(i <= 1) /\ i \in 1 .. BlockSize
      BY <1>0, <2>2
    <3> QED
      BY <1>1, <1>2, <1>4, <1>5, <2>2, <3>1
  <2> QED
    BY <2>1, <2>2
<1>7. SubSeq(padding, 1, n) = <<128>> \o Zeros(n - 1)
  BY <1>2, <1>5, <1>6, SeqEqual
<1> QED
  BY <1>2, <1>3, <1>4, <1>7

(* Only one number of 0s leaves room for the length at the end of a block. *)
Fits(l, z) == (l + 1 + z + LenSize) % BlockSize = 0

PadLen(d) == IF d < BlockSize - LenSize THEN BlockSize - LenSize - d
             ELSE BlockSize + (BlockSize - LenSize) - d

LEMMA FewestZeros ==
    ASSUME NEW l \in Nat, NEW d \in 0 .. BlockSize - 1, d = l % BlockSize
    PROVE  /\ PadLen(d) \in 1 .. BlockSize /\ PadLen(d) - 1 \in Cells
           /\ Fits(l, PadLen(d) - 1)
           /\ \A z \in Cells : Fits(l, z) => z = PadLen(d) - 1
<1>0. PICK B \in Nat \ {0} : B = BlockSize
  BY SizesOK
<1>1. PICK S \in Nat : S = LenSize /\ S < B
  BY <1>0, SizesOK
<1>2. PICK q \in Nat : l = d + q * B
  BY <1>0, Division
<1>3. PICK n \in 1 .. B, e \in {1, 2} : n = PadLen(d) /\ d + n + S = e * B
  <2>1. CASE d < B - S
    BY <1>0, <1>1, <2>1 DEF PadLen
  <2>2. CASE ~(d < B - S)
    BY <1>0, <1>1, <2>2 DEF PadLen
  <2> QED
    BY <2>1, <2>2
<1>4. (l + n + S) % B = 0
  <2>1. (q + e) * B = q * B + e * B
    BY <1>3
  <2>2. PICK a, k \in Nat : a = l + n + S /\ k = q + e
    BY <1>3
  <2>3. a = 0 + k * B /\ 0 \in 0 .. B - 1
    BY <1>2, <1>3, <2>1, <2>2
  <2> QED
    BY <2>2, <2>3, Remainder
<1>5. Fits(l, n - 1)
  <2>1. l + 1 + (n - 1) + S = l + n + S
    BY <1>3
  <2> QED
    BY <1>0, <1>1, <1>4, <2>1 DEF Fits
<1>6. ASSUME NEW z \in 0 .. B - 1, Fits(l, z) PROVE z = n - 1
  <2>1. PICK a, b \in Nat : a = l + 1 + z + S /\ b = l + n + S /\ a % B = 0 /\ b % B = 0
    BY <1>0, <1>1, <1>4, <1>6 DEF Fits
  <2>2. PICK x, y \in Nat : a = x * B /\ b = y * B
    <3>1. PICK x \in Nat : a = x * B
      BY <2>1, Multiple
    <3>2. PICK y \in Nat : b = y * B
      BY <2>1, Multiple
    <3> QED
      BY <3>1, <3>2
  <2>3. CASE x > y
    <3>1. PICK h \in Nat : x = y + 1 + h
      <4>1. x - y - 1 \in Nat /\ x = y + 1 + (x - y - 1)
        BY <2>3
      <4> QED
        BY <4>1
    <3>2. x * B = y * B + B + h * B /\ h * B \in Nat
      BY <3>1, Product
    <3> QED
      BY <2>1, <2>2, <3>2
  <2>4. CASE x < y
    <3>1. PICK h \in Nat : y = x + 1 + h
      <4>1. y - x - 1 \in Nat /\ y = x + 1 + (y - x - 1)
        BY <2>4
      <4> QED
        BY <4>1
    <3>2. y * B = x * B + B + h * B /\ h * B \in Nat
      BY <3>1, Product
    <3> QED
      BY <2>1, <2>2, <3>2
  <2>5. CASE x = y
    BY <2>1, <2>2, <2>5
  <2> QED
    BY <2>3, <2>4, <2>5
<1>7. n - 1 \in Cells
  BY <1>0 DEF Cells
<1> QED
  BY <1>0, <1>3, <1>5, <1>6, <1>7 DEF Cells

LEMMA Associative ==
    ASSUME NEW a \in Seq(AnyByte), NEW b \in Seq(AnyByte), NEW c \in Seq(AnyByte)
    PROVE  (a \o b) \o c = a \o (b \o c)
  BY ConcatAssociative

(* The bytes finalize adds are those the digest's definition adds. *)
LEMMA PaddedIs ==
    ASSUME NEW s \in Seq(AnyByte), NEW count \in [{0, 1} -> 0 .. Word - 1],
           Bits(count) = (Len(s) * 8) % (Word * Word)
    PROVE  LET pad == SubSeq(padding, 1, PadLen(Len(s) % BlockSize))
           IN  /\ pad \in Seq(AnyByte)
               /\ Padded(s) = (s \o pad) \o Encoded(count)
<1> DEFINE bits == Len(s) * 8
           zeros == CHOOSE z \in Cells : (Len(s) + 1 + z + LenSize) % BlockSize = 0
           words == [w \in {0, 1} |-> IF w = 0 THEN bits % Word ELSE (bits \div Word) % Word]
           n == PadLen(Len(s) % BlockSize)
<1>1. /\ n \in 1 .. BlockSize /\ n - 1 \in Cells /\ Fits(Len(s), n - 1)
      /\ \A z \in Cells : Fits(Len(s), z) => z = n - 1
  <2>1. Len(s) \in Nat /\ Len(s) % BlockSize \in 0 .. BlockSize - 1
    BY SizesOK, Division
  <2> QED
    BY <2>1, FewestZeros
<1>2. zeros = n - 1
  BY <1>1 DEF Fits
<1>3. count = words
  <2>1. bits \in Nat
    OBVIOUS
  <2>2. count[0] = bits % Word /\ count[1] = (bits \div Word) % Word
    BY <2>1, WordsOfBits
  <2>3. count = [w \in {0, 1} |-> count[w]]
    OBVIOUS
  <2> HIDE DEF bits
  <2> QED
    BY <2>2, <2>3
<1>4. Padded(s) = s \o <<128>> \o Zeros(zeros) \o Encoded(words)
  BY DEF Padded, Zeros
<1> HIDE DEF bits, zeros, words, n
<1>5. /\ SubSeq(padding, 1, n) = <<128>> \o Zeros(n - 1)
      /\ SubSeq(padding, 1, n) \in Seq(AnyByte)
      /\ <<128>> \in Seq(AnyByte) /\ Zeros(n - 1) \in Seq(AnyByte)
  BY <1>1, PaddingBytes
<1>6. s \o (<<128>> \o Zeros(n - 1)) = (s \o <<128>>) \o Zeros(n - 1)
  <2>1. PICK one, rest \in Seq(AnyByte) : one = <<128>> /\ rest = Zeros(n - 1)
    BY <1>5
  <2>2. (s \o one) \o rest = s \o (one \o rest)
    BY ONLY s \in Seq(AnyByte), one \in Seq(AnyByte), rest \in Seq(AnyByte), Associative
  <2> QED
    BY <2>1, <2>2
<1>7. /\ SubSeq(padding, 1, n) \in Seq(AnyByte)
      /\ Padded(s) = (s \o SubSeq(padding, 1, n)) \o Encoded(count)
  BY <1>2, <1>3, <1>4, <1>5, <1>6
<1> QED
  BY <1>7 DEF n

(* What finalize makes of a text that was absorbed. *)
LEMMA FinalizeDigest ==
    ASSUME NEW m, Whole(m), ~m.finalized, NEW s \in Seq(AnyByte), Absorbed(m, s)
    PROVE  /\ Finalize(m).digest = BlocksOf(Padded(s))
           /\ Finalize(m).digest \in Seq(Block) /\ Finalize(m).state \in Seq(Block)
           /\ Finalize(m).buffer \in [Cells -> AnyByte]
<1> DEFINE d == Len(s) % BlockSize
           pad == SubSeq(padding, 1, PadLen(d))
           padded == Update(m, pad)
           whole == Update(padded, Encoded(m.count))
<1>1. Index(m) = d
  BY AbsorbedIndex
<1>2. /\ pad \in Seq(AnyByte)
      /\ Padded(s) = (s \o pad) \o Encoded(m.count)
  BY PaddedIs DEF Absorbed
<1>3. /\ Finalize(m).digest = whole.state /\ Finalize(m).state = whole.state
      /\ Finalize(m).buffer = [p \in Cells |-> 0]
  BY <1>1 DEF Finalize, Index, PadLen
<1> HIDE DEF d, pad
<1>4. Whole(padded) /\ Absorbed(padded, s \o pad) /\ s \o pad \in Seq(AnyByte)
  BY <1>2, UpdateTyped, UpdateAbsorbs, Joined
<1>5. Encoded(m.count) \in Seq(AnyByte)
  BY EncodedBytes DEF Whole
<1> HIDE DEF padded
<1>6. Absorbed(whole, (s \o pad) \o Encoded(m.count)) /\ Whole(whole)
  BY <1>4, <1>5, UpdateTyped, UpdateAbsorbs
<1>7. [p \in Cells |-> 0] \in [Cells -> AnyByte]
  BY DEF AnyByte
<1> HIDE DEF whole
<1>8. whole.state = BlocksOf(Padded(s)) /\ whole.state \in Seq(Block)
  BY <1>2, <1>6 DEF Absorbed, Whole
<1> QED
  BY <1>3, <1>7, <1>8

-----------------------------------------------------------------------------
(* The object has its type; before finalize it has absorbed what it was    *)
(* given, and afterwards it keeps the digest of that.                      *)
StreamInv ==
    /\ DOMAIN md5 = Fields
    /\ TypeOK
    /\ ~md5.finalized => Absorbed(md5, fed)
    /\ DigestOfWholeText

LEMMA TextIsBytes == Seq(Bytes) \subseteq Seq(AnyByte)
<1> SUFFICES ASSUME NEW s \in Seq(Bytes) PROVE s \in Seq(AnyByte)
  OBVIOUS
<1>1. \A i \in 1 .. Len(s) : s[i] \in Bytes
  BY ElementOfSeq
<1>2. \A i \in 1 .. Len(s) : s[i] \in AnyByte
  BY <1>1, SizesOK
<1> QED
  BY <1>2, LenProperties

LEMMA StreamInit == Init => StreamInv
<1> SUFFICES ASSUME Init PROVE StreamInv
  OBVIOUS
<1>0. BlockSize \in Nat \ {0}
  BY SizesOK
<1>1. fed = <<>> /\ md5 = New /\ fed \in Seq(Bytes) /\ Len(fed) = 0
  BY EmptySeq DEF Init
<1>2. /\ md5.count \in [{0, 1} -> 0 .. Word - 1]
      /\ Bits(md5.count) = (Len(fed) * 8) % (Word * Word)
  <2>1. md5.count = [w \in {0, 1} |-> 0] /\ 0 \in 0 .. Word - 1
    BY <1>1, WordAssumption DEF New
  <2>2. 0 % (Word * Word) = 0
    BY WordAssumption, Remainder
  <2>3. Bits(md5.count) = 0 /\ Len(fed) * 8 = 0
    BY <1>1, <2>1, WordAssumption DEF Bits
  <2> QED
    BY <2>1, <2>2, <2>3
<1>3. [p \in Cells |-> Junk] \in [Cells -> AnyByte]
  BY DEF AnyByte
<1>4. /\ DOMAIN md5 = Fields /\ ~md5.finalized /\ md5.finalized \in BOOLEAN
      /\ md5.buffer = [p \in Cells |-> Junk]
      /\ md5.state = <<>> /\ md5.digest = <<>>
  BY <1>1 DEF New, Fields
<1>5. 0 \div BlockSize = 0 /\ 0 % BlockSize = 0
  BY <1>0
<1>6. <<>> = BlocksOf(fed)
  <2>1. <<>> \in Seq(Block) /\ Len(<<>>) = 0
    BY EmptySeq
  <2>2. fed \in Seq(AnyByte) /\ Len(<<>>) = Len(fed) \div BlockSize
    BY <1>1, <1>5, <2>1, TextIsBytes
  <2>3. \A k \in 1 .. Len(<<>>), j \in 1 .. BlockSize : <<>>[k][j] = fed[Before(k) + j]
    BY <2>1
  <2> QED
    BY <2>1, <2>2, <2>3, BlocksUnique
<1>7. Absorbed(md5, fed)
  <2>1. \A p \in 0 .. (Len(fed) % BlockSize) - 1 : FALSE
    BY <1>1, <1>5
  <2> QED
    BY <1>2, <1>3, <1>4, <1>6, <2>1 DEF Absorbed
<1>8. TypeOK
  <2>1. <<>> \in Seq(Block)
    BY EmptySeq
  <2>2. Len(fed) <= MaxFed
    BY <1>1, Md5Assumption
  <2> QED
    BY <1>1, <1>2, <1>3, <1>4, <2>1, <2>2 DEF TypeOK
<1> QED
  BY <1>4, <1>7, <1>8 DEF StreamInv, DigestOfWholeText

LEMMA StreamStep == StreamInv /\ [Next]_vars => StreamInv'
<1> SUFFICES ASSUME StreamInv, [Next]_vars PROVE StreamInv'
  OBVIOUS
<1>0. /\ Whole(md5) /\ fed \in Seq(Bytes) /\ fed \in Seq(AnyByte)
      /\ md5.digest \in Seq(Block) /\ md5.finalized \in BOOLEAN
      /\ Len(fed) <= MaxFed
  BY TextIsBytes DEF StreamInv, TypeOK, Whole
<1>1. ASSUME NEW input \in Pieces, UpdateCall(input) PROVE StreamInv'
  <2>1. /\ input \in Seq(Bytes) /\ input \in Seq(AnyByte) /\ ~md5.finalized
        /\ md5' = Update(md5, input) /\ fed' = fed \o input
        /\ Len(fed) + Len(input) <= MaxFed
    <3>1. input \in Seq(Bytes)
      BY DEF Pieces
    <3> QED
      BY <1>1, <3>1, TextIsBytes DEF UpdateCall
  <2>2. /\ Whole(Update(md5, input)) /\ Update(md5, input).digest = md5.digest
        /\ Update(md5, input).finalized = md5.finalized
    BY <1>0, <2>1, UpdateTyped
  <2>3. Absorbed(Update(md5, input), fed \o input)
    BY <1>0, <2>1, UpdateAbsorbs DEF StreamInv
  <2>4. fed' \in Seq(Bytes) /\ Len(fed') <= MaxFed
    BY <1>0, <2>1, ConcatProperties
  <2>5. DOMAIN md5' = Fields /\ TypeOK'
    BY <1>0, <2>1, <2>2, <2>4 DEF Whole, TypeOK
  <2> QED
    BY <2>1, <2>2, <2>3, <2>5 DEF StreamInv, DigestOfWholeText
<1>2. CASE FinalizeCall
  <2>1. CASE md5.finalized
    <3>1. md5' = md5 /\ fed' = fed
      BY <1>2, <2>1 DEF FinalizeCall, Finalize
    <3> QED
      BY <3>1 DEF StreamInv, TypeOK, Absorbed, DigestOfWholeText
  <2>2. CASE ~md5.finalized
    <3>1. md5' = Finalize(md5) /\ fed' = fed
      BY <1>2 DEF FinalizeCall
    <3>2. /\ Finalize(md5).digest = BlocksOf(Padded(fed))
          /\ Finalize(md5).digest \in Seq(Block) /\ Finalize(md5).state \in Seq(Block)
          /\ Finalize(md5).buffer \in [Cells -> AnyByte]
      BY <1>0, <2>2, FinalizeDigest DEF StreamInv
    <3>3. /\ DOMAIN Finalize(md5) = Fields /\ Finalize(md5).finalized = TRUE
          /\ Finalize(md5).count = [w \in {0, 1} |-> 0]
      BY <2>2 DEF Finalize, Fields
    <3>4. [w \in {0, 1} |-> 0] \in [{0, 1} -> 0 .. Word - 1]
      BY WordAssumption
    <3>5. TypeOK'
      BY <1>0, <3>1, <3>2, <3>3, <3>4 DEF TypeOK
    <3> QED
      BY <3>1, <3>2, <3>3, <3>5 DEF StreamInv, DigestOfWholeText
  <2> QED
    BY <2>1, <2>2
<1>3. ASSUME NEW n \in 1 .. BlockSize, NEW b \in Bytes, UpdateAfterwards(n, b)
      PROVE  StreamInv'
  <2>1. [k \in 1 .. n |-> b] \in Seq(AnyByte)
    BY SizesOK
  <2>2. PICK input \in Seq(AnyByte) :
            /\ md5.finalized /\ md5' = Update(md5, input) /\ fed' = fed
    BY <1>3, <2>1 DEF UpdateAfterwards
  <2>3. /\ Whole(Update(md5, input)) /\ Update(md5, input).digest = md5.digest
        /\ Update(md5, input).finalized = md5.finalized
    BY <1>0, UpdateTyped
  <2>4. DOMAIN md5' = Fields /\ TypeOK'
    BY <1>0, <2>2, <2>3 DEF Whole, TypeOK
  <2> QED
    BY <2>2, <2>3, <2>4 DEF StreamInv, DigestOfWholeText
<1>4. CASE UNCHANGED vars
  BY <1>4 DEF vars, StreamInv, TypeOK, Absorbed, DigestOfWholeText
<1> QED
  BY <1>1, <1>2, <1>3, <1>4 DEF Next

LEMMA StreamAlways == Spec => []StreamInv
  BY StreamInit, StreamStep, PTL DEF Spec

(* The object's type, for every size of a block and width of a word: no    *)
(* piece makes update write outside the buffer or the words of the count.  *)
THEOREM TypeCorrect == Spec => []TypeOK
<1>1. StreamInv => TypeOK
  BY DEF StreamInv
<1> QED
  BY <1>1, StreamAlways, PTL

(* However a text is cut into pieces, and however often the low word has   *)
(* wrapped, the object has counted its bits.                               *)
THEOREM CountIsExact == Spec => []CountExact
<1>1. StreamInv => CountExact
  BY DEF StreamInv, CountExact, Absorbed, Bits
<1> QED
  BY <1>1, StreamAlways, PTL

(* However a text of any length is cut into pieces of any lengths, update  *)
(* has handed the blocks of the text to transform and kept the rest.       *)
THEOREM PiecesAreEquivalent == Spec => []PiecesDoNotMatter
<1>1. StreamInv => PiecesDoNotMatter
  BY DEF StreamInv, PiecesDoNotMatter, Absorbed
<1> QED
  BY <1>1, StreamAlways, PTL

(* finalize digests the padded text, with one block more or not, and what  *)
(* the object is given later does not change its digest.                   *)
THEOREM DigestIsOfWholeText == Spec => []DigestOfWholeText
<1>1. StreamInv => DigestOfWholeText
  BY DEF StreamInv
<1> QED
  BY <1>1, StreamAlways, PTL
=============================================================================
