----------------------------- MODULE AnswerText -----------------------------
(***************************************************************************)
(* What send_recv_http makes of the web server's answer: one recv, which   *)
(* may bring any part of it, a terminator behind what came, a search for   *)
(* the empty line that ends the header, and a copy of what follows to the  *)
(* caller's buffer.  Both buffers have the same size.  The cell behind     *)
(* recvbuf is not the buffer's, but recv may fill the whole buffer, and    *)
(* then the terminator is written there: recvbuf has that cell here, too,  *)
(* and "behind" is what its owner had in it.  What the owner makes of the  *)
(* zero is outside this module, in which the call goes on undisturbed.     *)
(***************************************************************************)
EXTENDS Integers, Sequences

CONSTANT MAX_HTTP_LEN

ASSUME TextAssumption == MAX_HTTP_LEN \in Nat \ {0}

Chars == {"cr", "lf", "nul", "text"}
Cells == 0 .. MAX_HTTP_LEN - 1
EmptyLine == <<"cr", "lf", "cr", "lf">>

VARIABLES
    recvbuf,    \* the buffer and the cell behind it
    behind,     \* what the owner of that cell keeps in it
    ret,        \* what recv returned
    ptr,        \* where the search is
    looked,     \* the furthest cell the search has looked at
    Out_Recv,   \* the caller's buffer
    pc

vars == <<recvbuf, behind, ret, ptr, looked, Out_Recv, pc>>

TypeOK ==
    /\ recvbuf \in [0 .. MAX_HTTP_LEN -> Chars] /\ behind \in Chars
    /\ ret \in -1 .. MAX_HTTP_LEN
    /\ ptr \in 0 .. MAX_HTTP_LEN /\ looked \in 0 .. MAX_HTTP_LEN + 3
    /\ Out_Recv \in [Cells -> Chars]
    /\ pc \in {"recv", "search", "done"}

Init ==
    /\ behind \in Chars
    /\ recvbuf = [p \in 0 .. MAX_HTTP_LEN |-> IF p = MAX_HTTP_LEN THEN behind ELSE "nul"]
    /\ Out_Recv = [p \in Cells |-> "nul"]
    /\ ret = 0 /\ ptr = 0 /\ looked = 0
    /\ pc = "recv"

(* recv fails, or the server has hung up. *)
RecvFails ==
    /\ pc = "recv" /\ pc' = "done"
    /\ ret' \in {-1, 0}
    /\ UNCHANGED <<recvbuf, behind, ptr, looked, Out_Recv>>

(* What recv brought, as much as the buffer holds, and recvbuf[ret] = 0,   *)
(* which is the cell behind the buffer if it is full.                      *)
Recv(answer) ==
    /\ pc = "recv" /\ pc' = "search"
    /\ ret' = Len(answer)
    /\ recvbuf' = [p \in 0 .. MAX_HTTP_LEN |->
                      IF p < ret' THEN answer[p + 1] ELSE IF p = ret' THEN "nul" ELSE recvbuf[p]]
    /\ UNCHANGED <<behind, ptr, looked, Out_Recv>>

(* Mutant of Matched: the end of any line is taken for the empty line. *)
MatchedLineEnd(p) == IF recvbuf[p] = "cr" /\ recvbuf[p + 1] = "lf" THEN 4 ELSE 0

(* How many characters of the empty line are at p; the comparison stops at *)
(* the first that differs.                                                 *)
Matched(p) ==
    CHOOSE n \in 0 .. 4 :
        /\ \A k \in 1 .. n : recvbuf[p + k - 1] = EmptyLine[k]
        /\ n < 4 => recvbuf[p + n] # EmptyLine[n + 1]

(* Mutant of LookedAt: four characters are compared at once, as memcmp may. *)
LookedAtFour(p) == p + 3

(* The furthest cell the comparison at p reads. *)
LookedAt(p) == IF Matched(p) = 4 THEN p + 3 ELSE p + Matched(p)

strlen(p) ==
    (CHOOSE q \in p .. MAX_HTTP_LEN :
        recvbuf[q] = "nul" /\ \A r \in p .. q - 1 : recvbuf[r] # "nul") - p

Larger(m, n) == IF m < n THEN n ELSE m

(* One turn of the loop.  The copy starts at the last character of the     *)
(* empty line and is as long as the text from its first, which strncpy     *)
(* fills up with zeros.                                                    *)
Search ==
    /\ pc = "search"
    /\ IF recvbuf[ptr] = "nul"
       THEN pc' = "done" /\ UNCHANGED <<ptr, looked, Out_Recv>>
       ELSE /\ looked' = Larger(looked, LookedAt(ptr))
            /\ IF Matched(ptr) = 4
               THEN /\ pc' = "done"
                    /\ Out_Recv' = [p \in Cells |->
                           IF p < strlen(ptr + 3) THEN recvbuf[ptr + 3 + p]
                           ELSE IF p < strlen(ptr) THEN "nul" ELSE Out_Recv[p]]
                    /\ UNCHANGED ptr
               ELSE pc' = pc /\ ptr' = ptr + 1 /\ UNCHANGED Out_Recv
    /\ UNCHANGED <<recvbuf, behind, ret>>

Next ==
    \/ RecvFails
    \/ \E n \in 1 .. MAX_HTTP_LEN : \E answer \in [1 .. n -> Chars] : Recv(answer)
    \/ Search

Spec == Init /\ [][Next]_vars
-----------------------------------------------------------------------------
(* Properties                                                              *)

(* The text that came: up to a zero byte, if it has one. *)
TextEnd == strlen(0)

(* The search looks ahead by up to three characters, yet never behind the  *)
(* terminator, wherever the answer is cut off.  So an answer that leaves   *)
(* at least one cell of the buffer free is handled inside the buffer and   *)
(* touches nothing behind it.  Of one that fills the buffer this says no   *)
(* such thing, and it is not so: the terminator overwrites the cell behind *)
(* the buffer, and the search ends by reading it there.                    *)
InsideUnlessFull ==
    pc # "recv" /\ ret > 0 =>
        /\ looked <= TextEnd /\ TextEnd <= ret
        /\ ret < MAX_HTTP_LEN => looked < MAX_HTTP_LEN /\ recvbuf[MAX_HTTP_LEN] = behind

EmptyLineAt(p) ==
    p + 3 < TextEnd /\ \A k \in 1 .. 4 : recvbuf[p + k - 1] = EmptyLine[k]

(* The caller gets the line feed of the first empty line and all the text  *)
(* behind it, as a string, or nothing at all.                              *)
BodyHandedOver ==
    pc = "done" =>
        \/ /\ \A p \in Cells : ~EmptyLineAt(p) \/ ret <= 0
           /\ \A p \in Cells : Out_Recv[p] = "nul"
        \/ \E p \in Cells :
              /\ EmptyLineAt(p) /\ \A q \in Cells : q < p => ~EmptyLineAt(q)
              /\ \A k \in Cells :
                    Out_Recv[k] = IF p + 3 + k < TextEnd THEN recvbuf[p + 3 + k] ELSE "nul"
=============================================================================
