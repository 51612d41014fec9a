--------------------------- MODULE AlarmReporter ---------------------------
(***************************************************************************)
(* The callbacks that report events to a web server: CM_AlarmCallBack, on  *)
(* the device library's threads, for the events of an access controller,   *)
(* and HandleCarNumberCB, on the plate reader's, for cars.  Each call      *)
(* brings up Winsock, connects, posts, waits for an answer and takes       *)
(* everything down again; they share one Winsock, which the HTTP server    *)
(* of the same process also depends on and which is gone, sockets and all, *)
(* when its count of startups reaches zero.                                *)
(***************************************************************************)
EXTENDS Integers, FiniteSets

CONSTANTS
    AlarmThreads,   \* threads that call CM_AlarmCallBack
    CarThreads,     \* threads that call HandleCarNumberCB
    MaxEvents       \* bound: events that occur

ASSUME ReporterAssumption ==
    /\ AlarmThreads \cap CarThreads = {}
    /\ IsFiniteSet(AlarmThreads) /\ IsFiniteSet(CarThreads)
    /\ MaxEvents \in Nat

Callbacks == AlarmThreads \cup CarThreads
Events == 1 .. MaxEvents

(* An alarm is a card that was let through or is out of date, or anything  *)
(* else a device sends; a car comes with flags 1, 0 or 2.                  *)
AlarmKinds == {"reportable", "other"}
CarKinds == {"flags1", "flags0", "flags2"}

VARIABLES
    kind,       \* what each event was
    count,      \* how many events occurred; an event is named by its number
    pc,         \* where each callback thread is
    cur,        \* the event it reports
    started,    \* its own WSAStartup succeeded
    winsock,    \* startups not matched by a cleanup, the one of main included
    listener,   \* the HTTP server's listening socket
    open,       \* the callbacks whose socket is usable
    orphans,    \* sockets whose connect failed: nobody closes them
    stray,      \* startups whose callback returned without a cleanup
    missed,     \* startups that failed
    posted      \* for each event, to which URL and how often it was posted

counters == <<winsock, listener, orphans, stray, missed>>
vars == <<kind, count, pc, cur, started, open, posted, counters>>

Urls == {"open_record", "api/out", "api/in"}

TypeOK ==
    /\ kind \in [Events -> AlarmKinds \cup CarKinds \cup {"none"}]
    /\ count \in 0 .. MaxEvents
    /\ pc \in [Callbacks -> {"idle", "connect", "send", "recv", "close", "cleanup"}]
    /\ cur \in [Callbacks -> 0 .. MaxEvents]
    /\ started \in [Callbacks -> BOOLEAN]
    /\ open \subseteq Callbacks
    /\ winsock \in Nat /\ orphans \in Nat /\ stray \in Nat /\ missed \in Nat
    /\ listener \in BOOLEAN
    /\ posted \in [Events -> [Urls -> Nat]]

Init ==
    /\ kind = [e \in Events |-> "none"]
    /\ count = 0
    /\ pc = [c \in Callbacks |-> "idle"]
    /\ cur = [c \in Callbacks |-> 0]
    /\ started = [c \in Callbacks |-> FALSE]
    /\ open = {}
    /\ winsock = 1 /\ listener = TRUE       \* main's init_win_socket
    /\ orphans = 0 /\ stray = 0 /\ missed = 0
    /\ posted = [e \in Events |-> [u \in Urls |-> 0]]

Goto(c, from, to) ==
    /\ pc[c] = from
    /\ pc' = [pc EXCEPT ![c] = to]

(* An alarm that is not reported, and any call whose connection fails,     *)
(* returns with its startup still counted.                                 *)
Leave(c, up) == stray' = stray + (IF up THEN 1 ELSE 0)

(* Mutant of Called: Winsock is taken to be up. *)
CalledWithoutStartup(c, k, up) ==
    /\ count < MaxEvents
    /\ count' = count + 1
    /\ kind' = [kind EXCEPT ![count + 1] = k]
    /\ cur' = [cur EXCEPT ![c] = count + 1]
    /\ UNCHANGED <<started, winsock, missed, open, listener, orphans, posted>>

(* The callback is called; init_win_socket comes first, whatever the event *)
(* is, and its result is ignored.                                          *)
Called(c, k, up) ==
    /\ count < MaxEvents
    /\ count' = count + 1
    /\ kind' = [kind EXCEPT ![count + 1] = k]
    /\ cur' = [cur EXCEPT ![c] = count + 1]
    /\ started' = [started EXCEPT ![c] = up]
    /\ winsock' = winsock + (IF up THEN 1 ELSE 0)
    /\ missed' = missed + (IF up THEN 0 ELSE 1)
    /\ UNCHANGED <<open, listener, orphans, posted>>

CM_AlarmCallBack(c) ==
    /\ c \in AlarmThreads
    /\ \E up \in BOOLEAN :
          \/ /\ Goto(c, "idle", "connect")
             /\ Called(c, "reportable", up)
             /\ UNCHANGED stray
          \/ /\ Goto(c, "idle", "idle")
             /\ Called(c, "other", up)
             /\ Leave(c, up)

HandleCarNumberCB(c) ==
    /\ c \in CarThreads
    /\ Goto(c, "idle", "connect")
    /\ \E up \in BOOLEAN, k \in CarKinds : Called(c, k, up)
    /\ UNCHANGED stray

(* Mutant of Connect: a socket is waited for until there is one. *)
ConnectAwaitsSocket(c) ==
    /\ winsock > 0
    /\ \/ /\ Goto(c, "connect", "send")
          /\ open' = open \cup {c}
          /\ UNCHANGED <<orphans, stray>>
       \/ /\ Goto(c, "connect", "idle")
          /\ Leave(c, started[c])
          /\ orphans' = orphans + 1
          /\ UNCHANGED open
    /\ UNCHANGED <<kind, count, cur, started, winsock, listener, missed, posted>>

(* connect_Hik: without a socket nothing is left behind but the startup;   *)
(* without a connection the socket is, too.                                *)
Connect(c) ==
    /\ \/ /\ winsock > 0
          /\ Goto(c, "connect", "send")
          /\ open' = open \cup {c}
          /\ UNCHANGED <<orphans, stray>>
       \/ /\ Goto(c, "connect", "idle")
          /\ Leave(c, started[c])
          /\ orphans' \in {orphans} \cup (IF winsock > 0 THEN {orphans + 1} ELSE {})
          /\ UNCHANGED open
    /\ UNCHANGED <<kind, count, cur, started, winsock, listener, missed, posted>>

(* The URL an event is posted to. *)
Url(k) ==
    CASE k = "reportable" -> "open_record"
      [] k = "flags1" -> "api/out"
      [] k = "flags0" -> "api/in"

(* send_recv_http up to send: a failure is reported to a caller that does  *)
(* not look at it.                                                         *)
Send(c) ==
    /\ pc[c] = "send" /\ kind[cur[c]] # "flags2"
    /\ \/ /\ c \in open
          /\ Goto(c, "send", "recv")
          /\ posted' = [posted EXCEPT ![cur[c]][Url(kind[cur[c]])] = @ + 1]
       \/ /\ Goto(c, "send", "close")
          /\ UNCHANGED posted
    /\ UNCHANGED <<kind, count, cur, started, open, counters>>

(* Flags other than 0 and 1 post nothing. *)
SkipSend(c) ==
    /\ pc[c] = "send" /\ kind[cur[c]] = "flags2"
    /\ Goto(c, "send", "close")
    /\ UNCHANGED <<kind, count, cur, started, open, posted, counters>>

(* Mutants of Recv: an error makes the caller return at once, or send once *)
(* more, or the call is repeated for as long as nothing comes.             *)
RecvErrorReturns(c) ==
    /\ Goto(c, "recv", "idle")
    /\ Leave(c, started[c])
    /\ UNCHANGED <<kind, count, cur, started, open, posted, winsock, listener, orphans,
                   missed>>

RecvErrorResends(c) ==
    /\ Goto(c, "recv", "close") \/ Goto(c, "recv", "send")
    /\ UNCHANGED <<kind, count, cur, started, open, posted, counters>>

RecvRepeated(c) ==
    /\ Goto(c, "recv", "recv")
    /\ UNCHANGED <<kind, count, cur, started, open, posted, counters>>

(* recv returns when the web server answers or hangs up, or at once when   *)
(* the socket is gone.                                                     *)
Recv(c) ==
    /\ Goto(c, "recv", "close")
    /\ UNCHANGED <<kind, count, cur, started, open, posted, counters>>

Close(c) ==
    /\ Goto(c, "close", "cleanup")
    /\ open' = open \ {c}
    /\ UNCHANGED <<kind, count, cur, started, posted, counters>>

(* Mutant of WSACleanup: left out. *)
CleanupOmitted(c) ==
    /\ Goto(c, "cleanup", "idle")
    /\ UNCHANGED <<kind, count, cur, started, open, posted, counters>>

(* WSACleanup: the last one takes every socket of the process with it. *)
Release ==
    \/ /\ winsock > 1
       /\ winsock' = winsock - 1
       /\ UNCHANGED <<listener, open, orphans>>
    \/ /\ winsock = 1
       /\ winsock' = 0 /\ listener' = FALSE /\ open' = {} /\ orphans' = 0
    \/ /\ winsock = 0
       /\ UNCHANGED <<winsock, listener, open, orphans>>

WSACleanup(c) ==
    /\ Goto(c, "cleanup", "idle")
    /\ Release
    /\ UNCHANGED <<kind, count, cur, started, stray, missed, posted>>

Work(c) ==
    \/ Connect(c) \/ Send(c) \/ SkipSend(c) \/ Close(c) \/ WSACleanup(c)

Next ==
    \E c \in Callbacks :
        CM_AlarmCallBack(c) \/ HandleCarNumberCB(c) \/ Work(c) \/ Recv(c)

Spec == Init /\ [][Next]_vars

(* The threads run, and the web server answers or hangs up: recv has no    *)
(* timeout, so nothing less would do.                                      *)
Scheduled(c) == WF_vars(Work(c)) /\ WF_vars(Recv(c))
Fairness == \A c \in Callbacks : Scheduled(c)
FairSpec == Spec /\ Fairness
-----------------------------------------------------------------------------
(* Properties                                                              *)

Active(c) == pc[c] # "idle"

(* No callback takes Winsock away from the others or from the HTTP server, *)
(* however they overlap, as long as every startup succeeds; a failed one   *)
(* is the only way to a cleanup that is not owed.                          *)
WinsockHeld ==
    missed = 0 =>
        /\ listener
        /\ \A c \in Callbacks : pc[c] \in {"send", "recv", "close"} => c \in open

(* Every startup is accounted for: main's, one for each callback under     *)
(* way, and one for each call that returned early, which nothing releases. *)
RefsAccounted ==
    missed = 0 =>
        winsock = 1 + Cardinality({c \in Callbacks : Active(c)}) + stray

(* A lost startup or socket is the trace of an event that was not posted:  *)
(* each one is paid for by an event of its own.                            *)
Unposted == {e \in Events : e <= count /\ \A u \in Urls : posted[e][u] = 0}

LeaksAreLosses == orphans <= stray + missed /\ stray <= Cardinality(Unposted)

(* An event is posted at most once, to one URL, and only if it is one to   *)
(* report.                                                                 *)
PostedAtMostOnce ==
    \A e \in Events, u \in Urls :
        posted[e][u] > 0 =>
            /\ posted[e][u] = 1
            /\ kind[e] \in {"reportable", "flags1", "flags0"}
            /\ u = Url(kind[e])

(* Wherever a callback is, and whatever the others have done to Winsock    *)
(* and its socket, there is a way on: every call that can fail has one for *)
(* its failure.                                                            *)
NeverStuck ==
    \A c \in Callbacks :
        /\ pc[c] \in {"connect", "send", "close", "cleanup"} => ENABLED <<Work(c)>>_vars
        /\ pc[c] = "recv" => ENABLED <<Recv(c)>>_vars

(* With a web server that answers or hangs up, every callback returns, and *)
(* so every event gets its turn.                                           *)
CallbacksReturn == \A c \in Callbacks : Active(c) ~> ~Active(c)

(* "1: in, 2: out" (CarInfo): a car whose flags have a documented value is *)
(* not passed over without an attempt to post it.                          *)
DocumentedCarsPosted ==
    [][\A c \in CarThreads :
          SkipSend(c) => kind[cur[c]] \notin {"flags1", "flags2"}]_vars
=============================================================================
