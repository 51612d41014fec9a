-------------------------- MODULE DownloaderProofs --------------------------
(* Why a download ends, for requests and answers of every length. *)
EXTENDS Downloader, TLAPS

(* At most one event is pending.  The loop runs out of events only after   *)
(* the whole answer, and is told to exit only at the end of a connection   *)
(* from which everything was taken; neither is undone by the network.      *)
Inv ==
    /\ TypeOK
    /\ pc = "start" => conn = "none" /\ pending = {} /\ ~loopexit
    /\ pc # "start" => pc = "end" \/ conn # "none"
    /\ pending \in {{}, {"ev_write"}, {"ev_read"}}
    /\ pc = "send" => pending = {} /\ ~loopexit
    /\ pc = "loop" /\ pending = {} /\ ~loopexit => parsed = AnswerLen
    /\ loopexit => conn = "closed" /\ parsed = arrived
    /\ EndsForAReason

(* The invariant holds at the start. *)
LEMMA InitInv == Init => Inv
<1> SUFFICES ASSUME Init PROVE Inv
  OBVIOUS
<1>1. TypeOK
  <2>1. 0 \in 0 .. RequestLen /\ 0 \in 0 .. AnswerLen /\ 0 \in 0 .. 0
    BY DownloaderAssumption
  <2> QED
    BY <2>1 DEF Init, TypeOK
<1> QED
  BY <1>1 DEF Init, Inv, EndsForAReason

(* Each of the client's steps, and whatever the network does between them, *)
(* keeps the invariant.                                                    *)
LEMMA StepInv == Inv /\ [Next]_vars => Inv'
<1> SUFFICES ASSUME Inv, [Next]_vars PROVE Inv'
  OBVIOUS
<1> USE DownloaderAssumption DEF Inv, TypeOK, EndsForAReason, network, client
<1>1. CASE Resolve
  BY <1>1 DEF Resolve
<1>2. CASE Answer
  BY <1>2 DEF Answer
<1>3. CASE ServerCloses
  BY <1>3 DEF ServerCloses
<1>4. CASE Breaks
  BY <1>4 DEF Breaks
<1>5. CASE NothingToDo
  BY <1>5 DEF NothingToDo
<1>6. CASE download
  BY <1>6 DEF download
<1>7. CASE write_cb
  BY <1>7 DEF write_cb
<1>8. CASE Send
  <2>1. /\ pc = "send" /\ pending = {} /\ ~loopexit /\ conn # "none"
        /\ UNCHANGED <<conn, arrived, loopexit, parsed>>
    BY <1>8 DEF Send
  <2>2. CASE pc' = "loop" /\ pending' = pending \cup {"ev_read"} /\ sent' \in 0 .. RequestLen
    BY <2>1, <2>2
  <2>3. CASE UNCHANGED <<pc, pending>> /\ sent' \in 0 .. RequestLen
    BY <2>1, <2>3
  <2>4. ASSUME sent' \in sent + 1 .. RequestLen PROVE sent' \in 0 .. RequestLen
    BY <2>4
  <2> QED
    BY <1>8, <2>2, <2>3, <2>4 DEF Send
<1>9. CASE read_cb
  <2>1. ASSUME NEW n \in 1 .. arrived - parsed, Received(n) PROVE Inv'
    BY <1>9, <2>1 DEF read_cb, Received, finished
  <2>2. CASE parsed = arrived /\ conn = "failed" /\ Received(0)
    BY <1>9, <2>2 DEF read_cb, Received, finished
  <2>3. CASE parsed = arrived /\ conn = "closed" /\ Closed
    BY <1>9, <2>3 DEF read_cb, Closed
  <2> QED
    BY <1>9, <2>1, <2>2, <2>3 DEF read_cb
<1>10. CASE DispatchReturns
  BY <1>10 DEF DispatchReturns
<1>11. CASE UNCHANGED vars
  BY <1>11 DEF vars
<1> QED
  BY <1>1, <1>2, <1>3, <1>4, <1>5, <1>6, <1>7, <1>8, <1>9, <1>10, <1>11
     DEF Next, Client, Server

(* However the socket cuts the request into pieces, the network the        *)
(* answer, and whatever fails: a download that was begun ends only with    *)
(* the whole answer or after the server's close.                           *)
THEOREM DownloadEndsForAReason == Spec => []EndsForAReason
<1>1. Inv => EndsForAReason
  BY DEF Inv
<1> QED
  BY <1>1, InitInv, StepInv, PTL DEF Spec
=============================================================================
