-------------------------- MODULE AnswerTextProofs --------------------------
(* That the search for the end of the header goes no further than the      *)
(* terminator, that only an answer that fills the buffer touches the cell  *)
(* behind it, and that the caller gets what follows the header, for every  *)
(* size of the buffer and every answer.                                    *)
EXTENDS AnswerText, SequenceTheorems, WellFoundedInduction, TLAPS

(* Behind what came there is a terminator; neither the search nor its      *)
(* look-ahead has passed one.                                              *)
AnswerInv ==
    /\ recvbuf \in [0 .. MAX_HTTP_LEN -> Chars]
    /\ behind \in Chars
    /\ pc = "recv" \/ ret < MAX_HTTP_LEN => recvbuf[MAX_HTTP_LEN] = behind
    /\ ret \in -1 .. MAX_HTTP_LEN
    /\ ptr \in Nat /\ looked \in Nat
    /\ pc = "recv" => ptr = 0 /\ looked = 0
    /\ pc = "search" => ret > 0
    /\ pc # "recv" /\ ret > 0 =>
           /\ recvbuf[ret] = "nul"
           /\ ptr <= ret /\ looked <= ret
           /\ \A p \in 0 .. MAX_HTTP_LEN : p < ptr \/ p < looked => recvbuf[p] # "nul"

-----------------------------------------------------------------------------
(* A set of numbers that is not empty has a smallest one. *)
LEMMA Smallest ==
    ASSUME NEW T \in SUBSET Nat, T # {}
    PROVE  \E x \in T : \A y \in T : x <= y
<1> DEFINE R == OpToRel(<, Nat)
<1>1. IsWellFoundedOn(R, Nat)
  BY NatLessThanWellFounded
<1>2. \A x, y \in Nat : x < y => <<x, y>> \in R
  BY DEF OpToRel
<1> HIDE DEF R
<1>3. PICK x \in T : \A y \in T : ~(<<y, x>> \in R)
  BY <1>1, WFMin
<1>4. ASSUME NEW y \in T PROVE x <= y
  <2>1. x \in Nat /\ y \in Nat /\ ~(y < x)
    BY <1>2, <1>3
  <2> QED
    BY <2>1
<1> QED
  BY <1>3, <1>4

(* strlen(0) is where the first terminator is. *)
LEMMA TextEndIsFirst ==
    ASSUME recvbuf \in [0 .. MAX_HTTP_LEN -> Chars],
           NEW n \in 0 .. MAX_HTTP_LEN, recvbuf[n] = "nul"
    PROVE  /\ TextEnd \in 0 .. n
           /\ recvbuf[TextEnd] = "nul"
           /\ \A p \in 0 .. TextEnd - 1 : recvbuf[p] # "nul"
<1>0. MAX_HTTP_LEN \in Nat
  BY TextAssumption
<1> DEFINE T == {q \in 0 .. MAX_HTTP_LEN : recvbuf[q] = "nul"}
           First(q) == recvbuf[q] = "nul" /\ \A r \in 0 .. q - 1 : recvbuf[r] # "nul"
<1>1. PICK x \in T : \A y \in T : x <= y
  <2>1. T \in SUBSET Nat /\ n \in T
    BY <1>0
  <2> HIDE DEF T
  <2> QED
    BY <2>1, Smallest
<1>2. x \in 0 .. MAX_HTTP_LEN /\ x <= n
  BY <1>1
<1>3. \A r \in 0 .. x - 1 : recvbuf[r] # "nul"
  BY <1>0, <1>1
<1>4. First(x)
  BY <1>1, <1>3
<1> DEFINE e == CHOOSE q \in 0 .. MAX_HTTP_LEN : First(q)
<1>5. e \in 0 .. MAX_HTTP_LEN /\ First(e)
  BY <1>2, <1>4
<1>6. TextEnd = e - 0
  BY DEF TextEnd, strlen
<1> HIDE DEF e
<1>7. TextEnd = e
  BY <1>0, <1>5, <1>6
<1>8. e <= n
  BY <1>0, <1>5
<1> QED
  BY <1>0, <1>5, <1>7, <1>8

(* The comparison with the empty line stops at the first character that    *)
(* differs.                                                                *)
LEMMA MatchedStops ==
    ASSUME NEW p
    PROVE  /\ Matched(p) \in 0 .. 4
           /\ \A k \in 1 .. Matched(p) : recvbuf[p + k - 1] = EmptyLine[k]
           /\ Matched(p) < 4 => recvbuf[p + Matched(p)] # EmptyLine[Matched(p) + 1]
<1> DEFINE Stops(n) == /\ \A k \in 1 .. n : recvbuf[p + k - 1] = EmptyLine[k]
                       /\ n < 4 => recvbuf[p + n] # EmptyLine[n + 1]
           Same(k) == recvbuf[p + k - 1] = EmptyLine[k]
<1> SUFFICES \E n \in 0 .. 4 : Stops(n)
  BY DEF Matched
<1> DEFINE T == {n \in 0 .. 4 : n = 4 \/ recvbuf[p + n] # EmptyLine[n + 1]}
<1>1. PICK n \in T : \A m \in T : n <= m
  <2>1. T \in SUBSET Nat /\ 4 \in T
    OBVIOUS
  <2> HIDE DEF T
  <2> QED
    BY <2>1, Smallest
<1>2. ASSUME NEW k \in 1 .. n PROVE recvbuf[p + k - 1] = EmptyLine[k]
  <2>1. k - 1 \in 0 .. 4 /\ k - 1 < n /\ k - 1 \notin T
    BY <1>1
  <2>2. recvbuf[p + (k - 1)] = EmptyLine[(k - 1) + 1]
    BY <2>1
  <2>3. p + (k - 1) = p + k - 1 /\ (k - 1) + 1 = k
    OBVIOUS
  <2> QED
    BY <2>2, <2>3
<1>3. n \in 0 .. 4 /\ (n < 4 => recvbuf[p + n] # EmptyLine[n + 1])
  BY <1>1
<1> QED
  BY <1>2, <1>3

-----------------------------------------------------------------------------
(* One turn of the loop passes no terminator. *)
LEMMA SearchKeeps ==
    ASSUME AnswerInv, Search
    PROVE  AnswerInv'
<1>0. MAX_HTTP_LEN \in Nat
  BY TextAssumption
<1>1. /\ pc = "search" /\ ret > 0 /\ ret \in 0 .. MAX_HTTP_LEN
      /\ recvbuf[ret] = "nul" /\ ptr \in 0 .. ret /\ looked \in 0 .. ret
      /\ \A p \in 0 .. MAX_HTTP_LEN : p < ptr \/ p < looked => recvbuf[p] # "nul"
      /\ UNCHANGED <<recvbuf, behind, ret>>
  BY <1>0 DEF AnswerInv, Search
<1>2. CASE recvbuf[ptr] = "nul"
  BY <1>1, <1>2 DEF AnswerInv, Search
<1>3. CASE recvbuf[ptr] # "nul"
  <2>1. PICK n \in 0 .. 4 : n = Matched(ptr)
    BY MatchedStops
  <2>2. \A k \in 1 .. n : recvbuf[ptr + k - 1] # "nul"
    BY <2>1, MatchedStops DEF EmptyLine
  <2>3. ptr < ret
    BY <1>0, <1>1, <1>3
  <2>4. \A d \in 0 .. 3 : d < n => recvbuf[ptr + d] # "nul"
    <3> SUFFICES ASSUME NEW d \in 0 .. 3, d < n PROVE recvbuf[ptr + d] # "nul"
      OBVIOUS
    <3>1. d + 1 \in 1 .. n /\ ptr + (d + 1) - 1 = ptr + d
      BY <1>1
    <3> QED
      BY <2>2, <3>1
  <2>5. ptr + n <= ret
    <3>1. CASE ptr + n > ret
      <4>1. ret - ptr \in 0 .. 3 /\ ret - ptr < n /\ ptr + (ret - ptr) = ret
        BY <1>0, <1>1, <2>3, <3>1
      <4> QED
        BY <1>1, <2>4, <4>1
    <3> QED
      BY <1>0, <1>1, <3>1
  <2> DEFINE l == IF n = 4 THEN ptr + 3 ELSE ptr + n
  <2>6. l \in 0 .. ret /\ \A p \in 0 .. MAX_HTTP_LEN : p < l => recvbuf[p] # "nul"
    <3>1. l \in 0 .. ret /\ l <= ptr + n
      BY <1>0, <1>1, <2>5
    <3>2. ASSUME NEW p \in 0 .. MAX_HTTP_LEN, p < l PROVE recvbuf[p] # "nul"
      <4>1. CASE p < ptr
        BY <1>1, <4>1
      <4>2. CASE p >= ptr
        <5>1. p - ptr \in 0 .. 3 /\ p - ptr < n /\ ptr + (p - ptr) = p
          BY <1>0, <1>1, <3>1, <3>2, <4>2
        <5> QED
          BY <2>4, <5>1
      <4> QED
        BY <1>0, <1>1, <4>1, <4>2
    <3> QED
      BY <3>1, <3>2
  <2>7. looked' = Larger(looked, l) /\ ptr' \in {ptr, ptr + 1} /\ pc' \in {"search", "done"}
    BY <1>1, <1>3, <2>1 DEF Search, LookedAt
  <2> HIDE DEF l
  <2>8. looked' \in {looked, l}
    BY <2>7 DEF Larger
  <2>9. ASSUME NEW p \in 0 .. MAX_HTTP_LEN, p < ptr' \/ p < looked'
        PROVE  recvbuf[p] # "nul"
    <3>1. CASE p < ptr \/ p < looked \/ p < l
      BY <1>1, <2>6, <3>1
    <3>2. CASE p = ptr
      BY <1>3, <3>2
    <3> QED
      BY <1>0, <1>1, <2>6, <2>7, <2>8, <2>9, <3>1, <3>2
  <2>10. ptr' \in 0 .. ret /\ looked' \in 0 .. ret
    BY <1>0, <1>1, <2>3, <2>6, <2>7, <2>8
  <2> QED
    BY <1>0, <1>1, <2>7, <2>9, <2>10 DEF AnswerInv
<1> QED
  BY <1>2, <1>3

LEMMA RecvKeeps ==
    ASSUME AnswerInv, NEW n \in 1 .. MAX_HTTP_LEN, NEW answer \in [1 .. n -> Chars],
           Recv(answer)
    PROVE  AnswerInv'
<1>0. MAX_HTTP_LEN \in Nat /\ n \in Nat
  BY TextAssumption
<1>1. Len(answer) = n
  BY <1>0
<1>2. pc = "recv" /\ pc' = "search" /\ ret' = n /\ UNCHANGED <<ptr, looked>>
  BY <1>1 DEF Recv
<1>3. /\ recvbuf' = [p \in 0 .. MAX_HTTP_LEN |->
                       IF p < n THEN answer[p + 1] ELSE IF p = n THEN "nul" ELSE recvbuf[p]]
      /\ recvbuf[MAX_HTTP_LEN] = behind /\ UNCHANGED behind
  BY <1>1 DEF Recv, AnswerInv
<1>4. recvbuf' \in [0 .. MAX_HTTP_LEN -> Chars] /\ recvbuf'[n] = "nul"
  BY <1>0, <1>3 DEF Chars, AnswerInv
<1>6. n < MAX_HTTP_LEN => recvbuf'[MAX_HTTP_LEN] = behind'
  BY <1>0, <1>3
<1>5. ptr' = 0 /\ looked' = 0
  BY <1>2 DEF AnswerInv
<1> QED
  BY <1>0, <1>2, <1>3, <1>4, <1>5, <1>6 DEF AnswerInv

LEMMA AnswerInit == Init => AnswerInv
  BY TextAssumption DEF Init, AnswerInv, Chars

LEMMA AnswerStep == AnswerInv /\ [Next]_vars => AnswerInv'
<1> SUFFICES ASSUME AnswerInv, [Next]_vars PROVE AnswerInv'
  OBVIOUS
<1>1. CASE RecvFails
  BY <1>1, TextAssumption DEF RecvFails, AnswerInv
<1>2. ASSUME NEW n \in 1 .. MAX_HTTP_LEN, NEW answer \in [1 .. n -> Chars], Recv(answer)
      PROVE  AnswerInv'
  BY <1>2, RecvKeeps
<1>3. CASE Search
  BY <1>3, SearchKeeps
<1>4. CASE UNCHANGED vars
  BY <1>4 DEF vars, AnswerInv
<1> QED
  BY <1>1, <1>2, <1>3, <1>4 DEF Next

(* The look-ahead of the search for the empty line never passes the        *)
(* terminator, wherever the answer is cut off, and an answer that leaves a *)
(* cell of the buffer free is handled without touching what is behind it.  *)
THEOREM OnlyFullBuffersOverrun == Spec => []InsideUnlessFull
<1>1. AnswerInv => InsideUnlessFull
  <2> SUFFICES ASSUME AnswerInv, pc # "recv", ret > 0
               PROVE  /\ looked <= TextEnd /\ TextEnd <= ret
                      /\ ret < MAX_HTTP_LEN =>
                             looked < MAX_HTTP_LEN /\ recvbuf[MAX_HTTP_LEN] = behind
    BY DEF InsideUnlessFull
  <2>0. MAX_HTTP_LEN \in Nat /\ ret \in 0 .. MAX_HTTP_LEN /\ recvbuf[ret] = "nul"
    BY TextAssumption DEF AnswerInv
  <2>1. TextEnd \in 0 .. ret /\ recvbuf[TextEnd] = "nul"
    BY <2>0, TextEndIsFirst DEF AnswerInv
  <2>2. ~(TextEnd < looked)
    BY <2>0, <2>1 DEF AnswerInv
  <2> QED
    BY <2>0, <2>1, <2>2 DEF AnswerInv
<1> QED
  BY <1>1, AnswerInit, AnswerStep, PTL DEF Spec

-----------------------------------------------------------------------------
(* The length of what is left of the text, from any of its characters. *)
LEMMA StrlenFrom ==
    ASSUME NEW p \in Nat, NEW e \in p .. MAX_HTTP_LEN, recvbuf[e] = "nul",
           \A r \in p .. e - 1 : recvbuf[r] # "nul"
    PROVE  strlen(p) = e - p
<1>0. MAX_HTTP_LEN \in Nat
  BY TextAssumption
<1> DEFINE First(q) == recvbuf[q] = "nul" /\ \A r \in p .. q - 1 : recvbuf[r] # "nul"
           f == CHOOSE q \in p .. MAX_HTTP_LEN : First(q)
<1>1. First(e)
  OBVIOUS
<1>2. f \in p .. MAX_HTTP_LEN /\ First(f)
  BY <1>1
<1>3. strlen(p) = f - p
  BY DEF strlen
<1> HIDE DEF f
<1>4. f = e
  BY <1>0, <1>1, <1>2
<1> QED
  BY <1>3, <1>4

(* Until the search ends the caller's buffer is empty, and no empty line   *)
(* has been passed.                                                        *)
BodyInv ==
    /\ AnswerInv
    /\ BodyHandedOver
    /\ pc # "done" => \A p \in Cells : Out_Recv[p] = "nul"
    /\ pc = "search" => \A q \in Cells : q < ptr => ~EmptyLineAt(q)

(* A turn of the loop hands over all behind the first empty line, goes on  *)
(* past a place where there is none, or gives up at the end of the text.   *)
LEMMA SearchHandsOver ==
    ASSUME BodyInv, Search
    PROVE  BodyInv'
<1>0. MAX_HTTP_LEN \in Nat \ {0} /\ AnswerInv /\ AnswerInv'
  BY TextAssumption, SearchKeeps DEF BodyInv
<1>1. /\ pc = "search" /\ ret > 0 /\ ret \in 0 .. MAX_HTTP_LEN
      /\ recvbuf[ret] = "nul" /\ ptr \in 0 .. ret
      /\ \A p \in 0 .. MAX_HTTP_LEN : p < ptr => recvbuf[p] # "nul"
      /\ UNCHANGED <<recvbuf, behind, ret>>
      /\ \A q \in Cells : q < ptr => ~EmptyLineAt(q)
      /\ \A p \in Cells : Out_Recv[p] = "nul"
  BY <1>0 DEF AnswerInv, BodyInv, Search
<1>2. /\ TextEnd \in 0 .. ret /\ recvbuf[TextEnd] = "nul"
      /\ \A p \in 0 .. TextEnd - 1 : recvbuf[p] # "nul"
  BY <1>0, <1>1, TextEndIsFirst DEF AnswerInv
<1>3. PICK e \in 0 .. MAX_HTTP_LEN : e = TextEnd
  BY <1>0, <1>1, <1>2
<1>4. ptr <= e
  BY <1>0, <1>1, <1>2, <1>3
<1>5. TextEnd' = TextEnd /\ \A q : EmptyLineAt(q)' = EmptyLineAt(q)
  BY <1>1 DEF TextEnd, strlen, EmptyLineAt
<1>6. PICK n \in 0 .. 4 : n = Matched(ptr)
  BY MatchedStops
<1>7. CASE recvbuf[ptr] = "nul"
  <2>1. pc' = "done" /\ UNCHANGED <<ptr, Out_Recv>>
    BY <1>1, <1>7 DEF Search
  <2>2. ptr = e
    BY <1>0, <1>1, <1>2, <1>3, <1>4, <1>7
  <2>3. \A p \in Cells : ~EmptyLineAt(p)
    BY <1>0, <1>1, <1>3, <2>2 DEF EmptyLineAt, Cells
  <2> QED
    BY <1>0, <1>1, <1>5, <2>1, <2>3 DEF BodyInv, BodyHandedOver
<1>8. CASE recvbuf[ptr] # "nul" /\ n # 4
  <2>1. pc' = "search" /\ ptr' = ptr + 1 /\ UNCHANGED Out_Recv
    BY <1>1, <1>6, <1>8 DEF Search
  <2>2. ~EmptyLineAt(ptr)
    <3>1. n + 1 \in 1 .. 4 /\ ptr + (n + 1) - 1 = ptr + n
      BY <1>1, <1>8
    <3>2. recvbuf[ptr + n] # EmptyLine[n + 1]
      BY <1>6, <1>8, MatchedStops
    <3>3. ~(recvbuf[ptr + (n + 1) - 1] = EmptyLine[n + 1])
      BY <3>1, <3>2
    <3> QED
      BY <3>1, <3>3 DEF EmptyLineAt
  <2>3. \A q \in Cells : q < ptr' => ~EmptyLineAt(q)
    <3> SUFFICES ASSUME NEW q \in Cells, q < ptr' PROVE ~EmptyLineAt(q)
      OBVIOUS
    <3>1. q < ptr \/ q = ptr
      BY <1>0, <1>1, <2>1 DEF Cells
    <3> QED
      BY <1>1, <2>2, <3>1
  <2> QED
    BY <1>0, <1>1, <1>5, <2>1, <2>3 DEF BodyInv, BodyHandedOver
<1>9. CASE recvbuf[ptr] # "nul" /\ n = 4
  <2>1. /\ pc' = "done" /\ UNCHANGED ptr
        /\ Out_Recv' = [p \in Cells |->
               IF p < strlen(ptr + 3) THEN recvbuf[ptr + 3 + p]
               ELSE IF p < strlen(ptr) THEN "nul" ELSE Out_Recv[p]]
    BY <1>1, <1>6, <1>9 DEF Search
  <2>2. \A k \in 1 .. 4 : recvbuf[ptr + k - 1] = EmptyLine[k]
    BY <1>6, <1>9, MatchedStops
  <2>3. \A d \in 0 .. 3 : recvbuf[ptr + d] # "nul"
    <3> SUFFICES ASSUME NEW d \in 0 .. 3 PROVE recvbuf[ptr + d] # "nul"
      OBVIOUS
    <3>1. d + 1 \in 1 .. 4 /\ ptr + (d + 1) - 1 = ptr + d
      BY <1>1
    <3>2. recvbuf[ptr + d] = EmptyLine[d + 1]
      BY <2>2, <3>1
    <3> QED
      BY <3>1, <3>2 DEF EmptyLine
  <2>4. ptr + 3 < e
    <3>1. CASE e <= ptr + 3
      <4>1. e - ptr \in 0 .. 3 /\ ptr + (e - ptr) = e
        BY <1>0, <1>1, <1>4, <3>1
      <4> QED
        BY <1>2, <1>3, <2>3, <4>1
    <3> QED
      BY <1>0, <1>1, <3>1
  <2>5. EmptyLineAt(ptr) /\ ptr \in Cells
    BY <1>0, <1>1, <1>3, <2>2, <2>4 DEF EmptyLineAt, Cells
  <2>6. strlen(ptr + 3) = e - (ptr + 3)
    <3>1. ptr + 3 \in Nat /\ e \in ptr + 3 .. MAX_HTTP_LEN
      BY <1>0, <1>1, <2>4
    <3>2. \A r \in ptr + 3 .. e - 1 : recvbuf[r] # "nul"
      BY <1>0, <1>1, <1>2, <1>3
    <3> QED
      BY <1>2, <1>3, <3>1, <3>2, StrlenFrom
  <2>7. \A k \in Cells :
            Out_Recv'[k] = IF ptr + 3 + k < TextEnd THEN recvbuf[ptr + 3 + k] ELSE "nul"
    <3> SUFFICES ASSUME NEW k \in Cells
                 PROVE  Out_Recv'[k] = IF ptr + 3 + k < e THEN recvbuf[ptr + 3 + k]
                                       ELSE "nul"
      BY <1>3
    <3>1. k < strlen(ptr + 3) <=> ptr + 3 + k < e
      BY <1>0, <1>1, <2>6 DEF Cells
    <3>2. Out_Recv[k] = "nul"
      BY <1>1
    <3> QED
      BY <2>1, <3>1, <3>2
  <2>8. BodyHandedOver'
    BY <1>1, <1>5, <2>1, <2>5, <2>7 DEF BodyHandedOver
  <2> QED
    BY <1>0, <2>1, <2>8 DEF BodyInv
<1> QED
  BY <1>7, <1>8, <1>9

(* Whatever part of the answer one recv brings, and wherever it is cut     *)
(* off, the caller gets the text behind its first empty line, or an empty  *)
(* buffer if there is none in it.                                          *)
THEOREM BodyIsHandedOver == Spec => []BodyHandedOver
<1>1. Init => BodyInv
  BY AnswerInit DEF Init, BodyInv, BodyHandedOver
<1>2. BodyInv /\ [Next]_vars => BodyInv'
  <2> SUFFICES ASSUME BodyInv, [Next]_vars PROVE BodyInv'
    OBVIOUS
  <2>0. AnswerInv /\ AnswerInv'
    BY AnswerStep DEF BodyInv
  <2>1. CASE RecvFails
    <3>1. pc' = "done" /\ ret' <= 0 /\ \A p \in Cells : Out_Recv'[p] = "nul"
      BY <2>1 DEF RecvFails, BodyInv
    <3> QED
      BY <2>0, <3>1 DEF BodyInv, BodyHandedOver
  <2>2. ASSUME NEW n \in 1 .. MAX_HTTP_LEN, NEW answer \in [1 .. n -> Chars], Recv(answer)
        PROVE  BodyInv'
    <3>1. pc' = "search" /\ ptr' = 0 /\ \A p \in Cells : Out_Recv'[p] = "nul"
      BY <2>0, <2>2 DEF Recv, BodyInv, AnswerInv
    <3>2. \A q \in Cells : ~(q < ptr')
      BY <3>1, TextAssumption DEF Cells
    <3> QED
      BY <2>0, <3>1, <3>2 DEF BodyInv, BodyHandedOver
  <2>3. CASE Search
    BY <2>3, SearchHandsOver
  <2>4. CASE UNCHANGED vars
    <3>1. TextEnd' = TextEnd /\ \A q : EmptyLineAt(q)' = EmptyLineAt(q)
      BY <2>4 DEF vars, TextEnd, strlen, EmptyLineAt
    <3> QED
      BY <2>0, <2>4, <3>1 DEF vars, BodyInv, BodyHandedOver
  <2> QED
    BY <2>1, <2>2, <2>3, <2>4 DEF Next
<1>3. BodyInv => BodyHandedOver
  BY DEF BodyInv
<1> QED
  BY <1>1, <1>2, <1>3, PTL DEF Spec
=============================================================================
