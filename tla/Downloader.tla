----------------------------- MODULE Downloader -----------------------------
(***************************************************************************)
(* The download client (src/httpclient.cpp): one non-blocking connection,  *)
(* one event that sends the request when the socket is writable or ten     *)
(* seconds have passed, and one that reads the answer and adds itself      *)
(* again.  The loop that calls them returns when it is told to, or when no *)
(* event is left.  The code does not look at why an event fired, nor at    *)
(* errors of connect, send and recv; the network does what it likes.       *)
(*                                                                         *)
(* new_http_client and its operations come from a header that is not in    *)
(* the repository: finished is taken to return nonzero until the answer is *)
(* complete.                                                               *)
(***************************************************************************)
EXTENDS Integers

CONSTANTS
    RequestLen,     \* bytes of the request
    AnswerLen       \* bytes of the answer

ASSUME DownloaderAssumption == RequestLen \in Nat \ {0} /\ AnswerLen \in Nat \ {0}

VARIABLES
    pc,         \* main: before and in download, in the loop, in write_cb, over
    conn,       \* the connection
    pending,    \* events added to the base and not fired
    loopexit,   \* event_base_loopexit was called
    sent,       \* bytes of the request the socket has taken
    arrived,    \* bytes of the answer that can be or have been received
    parsed      \* bytes given to process_data

network == <<conn, arrived>>
client == <<pc, pending, loopexit, sent, parsed>>
vars == <<network, client>>

TypeOK ==
    /\ pc \in {"start", "loop", "send", "end"}
    /\ conn \in {"none", "connecting", "up", "closed", "failed"}
    /\ pending \subseteq {"ev_write", "ev_read"}
    /\ loopexit \in BOOLEAN
    /\ sent \in 0 .. RequestLen
    /\ arrived \in 0 .. AnswerLen
    /\ parsed \in 0 .. arrived

Init ==
    /\ pc = "start" /\ conn = "none"
    /\ pending = {} /\ loopexit = FALSE
    /\ sent = 0 /\ arrived = 0 /\ parsed = 0

-----------------------------------------------------------------------------
(* The network and the server, which answers a whole request.              *)

Resolve ==
    /\ conn = "connecting"
    /\ conn' \in {"up", "failed"}
    /\ UNCHANGED <<arrived, client>>

Answer ==
    /\ conn = "up" /\ sent = RequestLen
    /\ arrived < AnswerLen
    /\ arrived' = arrived + 1
    /\ UNCHANGED <<conn, client>>

(* Done, or tired of waiting. *)
ServerCloses ==
    /\ conn = "up"
    /\ conn' = "closed"
    /\ UNCHANGED <<arrived, client>>

Breaks ==
    /\ conn = "up"
    /\ conn' = "failed"
    /\ UNCHANGED <<arrived, client>>

-----------------------------------------------------------------------------
(* main: no URL, or one that cannot be parsed.                             *)
NothingToDo ==
    /\ pc = "start" /\ pc' = "end"
    /\ UNCHANGED <<network, pending, loopexit, sent, parsed>>

(* download: whatever connect returns, the loop waits for the socket. *)
download ==
    /\ pc = "start" /\ pc' = "loop"
    /\ conn' \in {"connecting", "failed"}
    /\ pending' = {"ev_write"}
    /\ UNCHANGED <<arrived, loopexit, sent, parsed>>

(* The socket is writable, or has failed, or the ten seconds are over. *)
write_cb ==
    /\ pc = "loop" /\ ~loopexit /\ "ev_write" \in pending
    /\ pc' = "send"
    /\ pending' = pending \ {"ev_write"}
    /\ UNCHANGED <<network, loopexit, sent, parsed>>

(* One send of write_cb's loop: part of what is left, or an error, be it   *)
(* only that the socket takes no more at the moment.                       *)
Send ==
    /\ pc = "send"
    /\ \/ /\ conn \in {"up", "closed"}
          /\ sent' \in sent + 1 .. RequestLen
          /\ IF sent' = RequestLen
             THEN pc' = "loop" /\ pending' = pending \cup {"ev_read"}
             ELSE UNCHANGED <<pc, pending>>
       \/ /\ pc' = "loop" /\ pending' = pending \cup {"ev_read"}
          /\ UNCHANGED sent
    /\ UNCHANGED <<network, loopexit, parsed>>

Readable == parsed < arrived \/ conn \in {"closed", "failed"}

finished(n) == n = AnswerLen

(* Mutant of Received: an error ends the reading. *)
ReceivedOrGaveUp(n) ==
    /\ parsed' = parsed + n
    /\ pending' = IF n > 0 /\ ~finished(parsed + n) THEN pending ELSE pending \ {"ev_read"}
    /\ UNCHANGED loopexit

(* read_cb, but for the end of the connection: an error is handled like    *)
(* data, and the event added again while there is some to come.            *)
Received(n) ==
    /\ parsed' = parsed + n
    /\ pending' = IF finished(parsed + n) THEN pending \ {"ev_read"} ELSE pending
    /\ UNCHANGED loopexit

(* Mutant of Closed: the loop is not told to exit. *)
ClosedUnnoticed == Received(0)

Closed ==
    /\ loopexit' = TRUE
    /\ pending' = pending \ {"ev_read"}
    /\ UNCHANGED parsed

read_cb ==
    /\ pc = "loop" /\ ~loopexit /\ "ev_read" \in pending
    /\ Readable
    /\ \/ \E n \in 1 .. arrived - parsed : Received(n)
       \/ parsed = arrived /\ conn = "failed" /\ Received(0)
       \/ parsed = arrived /\ conn = "closed" /\ Closed
    /\ UNCHANGED <<network, pc, sent>>

(* event_base_dispatch returns. *)
DispatchReturns ==
    /\ pc = "loop" /\ (loopexit \/ pending = {})
    /\ pc' = "end"
    /\ UNCHANGED <<network, pending, loopexit, sent, parsed>>

Client == NothingToDo \/ download \/ write_cb \/ Send \/ read_cb \/ DispatchReturns
Server == Answer \/ ServerCloses

Next == Client \/ Resolve \/ Server \/ Breaks

(* The client runs, an attempt to connect has a result, and the server     *)
(* goes on answering or closes.                                            *)
Spec == Init /\ [][Next]_vars
             /\ WF_vars(Client) /\ WF_vars(Resolve) /\ WF_vars(Server)
-----------------------------------------------------------------------------
(* Properties                                                              *)

(* A download that was begun ends with the whole answer, or because the    *)
(* server closed the connection after everything it sent was parsed; an    *)
(* error of connect, send or recv never ends it.                           *)
EndsForAReason ==
    pc = "end" /\ conn # "none" =>
        \/ parsed = AnswerLen
        \/ conn = "closed" /\ parsed = arrived

(* It does end, whether the request went out whole, was cut short by a     *)
(* full socket or not sent at all because the ten seconds came first,      *)
(* unless the connection breaks: then the read event fires over and over.  *)
EndsUnlessBroken == <>(pc = "end" \/ conn = "failed")
=============================================================================
