----------------------------- MODULE HttpServer -----------------------------
(***************************************************************************)
(* The request handler of the server thread (generic_handler), once the    *)
(* table of logged-in doors is complete.  libevent calls it on one thread, *)
(* so requests are handled one after the other; the clock, the clients and *)
(* the device library's own thread, which reports the outcome of a card    *)
(* setting after the fact, run beside it.                                  *)
(***************************************************************************)
EXTENDS Integers, Sequences, FiniteSets

CONSTANTS
    Doors,          \* addresses in the table
    StrayDoors,     \* doors that the unwritten entry behind the table is logged in to
    Messages,       \* the HTTP messages clients can send
    Window,         \* 300 seconds, in ticks
    MaxSessions,    \* remote-configuration sessions the library can hold open
    MaxRequests,    \* bound: requests that come in
    Horizon         \* bound: ticks of the clock

(* body   what GetHttpBody and Json::Reader make of the message: it cannot *)
(*        be taken over, it is not JSON, its timestamp, its token or one   *)
(*        of its other fields is no string, or it is as documented         *)
(* stamp  the decimal timestamp;  token  whether it is md5(stamp + salt)   *)
Message == [body : {"unread", "garbled", "badStamp", "badToken", "badField", "json"},
            stamp : Nat, token : BOOLEAN,
            route : {"control", "setlist", "other"}, ip : STRING]

ASSUME HttpAssumption ==
    /\ Messages \subseteq Message /\ StrayDoors \subseteq Doors
    /\ Window \in Nat /\ MaxSessions \in Nat
    /\ MaxRequests \in Nat /\ Horizon \in Nat

VARIABLES
    now,        \* time(0)
    request,    \* the requests that came in, in order; copies are requests
    inbox,      \* those the event loop has not handed to the handler
    pc,         \* where the handler is
    cur,        \* the request it handles
    httpstatus, \* the text it will reply with
    handle,     \* lHandle: the session of the card setting under way
    entry,      \* when the handler took each request
    reply,      \* the text each request was answered with
    opened,     \* the requests whose command a door carried out
    handed,     \* the requests whose card was handed to the library
    outcome,    \* what the device said about each card
    sessions,   \* the requests whose session is open
    where,      \* the door a request's command or card went to, or its session is with
    alive       \* the process is alive

handlerVars == <<inbox, pc, cur, httpstatus, handle, entry, reply>>
deviceVars == <<opened, handed, outcome, sessions, where>>
vars == <<now, request, handlerVars, deviceVars, alive>>

Requests == 1 .. MaxRequests
Success == "success"
Failures == {"Get http body faild", "parse http body faild", "Request timed out faild",
             "Authentication failed", "door control faild", "set cardparam faild"}

TypeOK ==
    /\ now \in 0 .. Horizon
    /\ request \in Seq(Messages) /\ Len(request) <= MaxRequests
    /\ inbox \in Seq(Requests)
    /\ pc \in {"idle", "control", "start", "send", "sleep", "reply"}
    /\ cur \in 0 .. MaxRequests
    /\ httpstatus \in Failures \cup {Success}
    /\ handle \in -1 .. MaxRequests
    /\ entry \in [Requests -> 0 .. Horizon]
    /\ reply \in [Requests -> Failures \cup {Success, "none"}]
    /\ opened \subseteq Requests /\ handed \subseteq Requests
    /\ outcome \in [Requests -> {"none", "success", "failed"}]
    /\ sessions \subseteq Requests
    /\ where \in [Requests -> Doors \cup {"none"}]
    /\ alive \in BOOLEAN

Init ==
    /\ now = 0
    /\ request = <<>> /\ inbox = <<>>
    /\ pc = "idle" /\ cur = 0 /\ httpstatus = Success /\ handle = 0
    /\ entry = [r \in Requests |-> 0]
    /\ reply = [r \in Requests |-> "none"]
    /\ opened = {} /\ handed = {} /\ sessions = {}
    /\ outcome = [r \in Requests |-> "none"]
    /\ where = [r \in Requests |-> "none"]
    /\ alive = TRUE

-----------------------------------------------------------------------------
(* Clients, clock and network                                              *)

Tick ==
    /\ now < Horizon
    /\ now' = now + 1
    /\ UNCHANGED <<request, handlerVars, deviceVars, alive>>

(* A message arrives, the first time or once more. *)
Deliver(m) ==
    /\ alive
    /\ Len(request) < MaxRequests
    /\ request' = Append(request, m)
    /\ inbox' = Append(inbox, Len(request) + 1)
    /\ UNCHANGED <<now, pc, cur, httpstatus, handle, entry, reply, deviceVars, alive>>

-----------------------------------------------------------------------------
(* generic_handler                                                         *)

Msg == request[cur]

(* Mutant of Refusal: a check dropped. *)
RefusalWithoutToken(m, t) ==
    CASE m.body = "unread" -> "Get http body faild"
      [] m.body = "garbled" -> "parse http body faild"
      [] t - m.stamp > Window -> "Request timed out faild"
      [] OTHER -> Success

(* The first check that the message m fails at time t, if any. *)
Refusal(m, t) ==
    CASE m.body = "unread" -> "Get http body faild"
      [] m.body = "garbled" -> "parse http body faild"
      [] t - m.stamp > Window -> "Request timed out faild"
      [] ~m.token -> "Authentication failed"
      [] OTHER -> Success

(* asString of a field that is no string throws, and nothing catches it:   *)
(* of the timestamp right after parsing, of the token when it is compared, *)
(* of another field once the message is authenticated and its route reads  *)
(* it.                                                                     *)
Throws(m, t) ==
    \/ m.body = "badStamp"
    \/ m.body = "badToken" /\ t - m.stamp <= Window
    \/ m.body = "badField" /\ Refusal(m, t) = Success /\ m.route # "other"

(* Mutant of Enter: the request stays with the event loop. *)
EnterAgain ==
    LET m == request[Head(inbox)]
    IN  /\ alive /\ pc = "idle" /\ inbox # <<>>
        /\ ~Throws(m, now)
        /\ cur' = Head(inbox)
        /\ entry' = [entry EXCEPT ![Head(inbox)] = now]
        /\ httpstatus' = Refusal(m, now)
        /\ pc' = IF Refusal(m, now) # Success \/ m.route = "other" THEN "reply"
                 ELSE IF m.route = "control" THEN "control" ELSE "start"
        /\ UNCHANGED <<now, request, inbox, handle, reply, deviceVars, alive>>

(* The handler is called with the oldest request; everything up to its     *)
(* first call into the device library happens in one go.                   *)
Enter ==
    LET m == request[Head(inbox)]
    IN  /\ alive /\ pc = "idle" /\ inbox # <<>>
        /\ ~Throws(m, now)
        /\ cur' = Head(inbox)
        /\ inbox' = Tail(inbox)
        /\ entry' = [entry EXCEPT ![Head(inbox)] = now]
        /\ httpstatus' = Refusal(m, now)
        /\ pc' = IF Refusal(m, now) # Success \/ m.route = "other" THEN "reply"
                 ELSE IF m.route = "control" THEN "control" ELSE "start"
        /\ UNCHANGED <<now, request, handle, reply, deviceVars, alive>>

(* evbuffer_new found no memory: return without a reply. *)
EnterNoMemory ==
    /\ alive /\ pc = "idle" /\ inbox # <<>>
    /\ inbox' = Tail(inbox)
    /\ UNCHANGED <<now, request, pc, cur, httpstatus, handle, entry, reply,
                   deviceVars, alive>>

EnterThrows ==
    /\ alive /\ pc = "idle" /\ inbox # <<>>
    /\ Throws(request[Head(inbox)], now)
    /\ alive' = FALSE
    /\ UNCHANGED <<now, request, handlerVars, deviceVars>>

(* The doors the table entry for an address can lead to.  The search for   *)
(* an address that is not in the table ends at the entry behind the last,  *)
(* which nobody has written: what it holds may be the handle of a login.   *)
Reach(ip) == IF ip \in Doors THEN {ip} ELSE StrayDoors

(* Mutant of ControlGateway: the result of the call is not looked at. *)
ControlUnchecked ==
    /\ alive /\ pc = "control"
    /\ \/ \E d \in Reach(Msg.ip) :
              /\ opened' = opened \cup {cur}
              /\ where' = [where EXCEPT ![cur] = d]
       \/ UNCHANGED <<opened, where>>
    /\ pc' = "reply"
    /\ UNCHANGED <<now, request, inbox, cur, httpstatus, handle, entry, reply, handed,
                   outcome, sessions, alive>>

(* NET_DVR_ControlGateway: a call that times out is reported as failed     *)
(* whether or not the door moved.                                          *)
ControlGateway ==
    /\ alive /\ pc = "control"
    /\ \/ \E d \in Reach(Msg.ip) :
              /\ opened' = opened \cup {cur}
              /\ where' = [where EXCEPT ![cur] = d]
              /\ httpstatus' \in {Success, "door control faild"}
       \/ /\ UNCHANGED <<opened, where>>
          /\ httpstatus' = "door control faild"
    /\ pc' = "reply"
    /\ UNCHANGED <<now, request, inbox, cur, handle, entry, reply, handed, outcome,
                   sessions, alive>>

(* Mutant of CM_SetOrGetCardNoFun: a failure leaves the handle of before. *)
SessionReused ==
    /\ alive /\ pc = "start"
    /\ \/ /\ Cardinality(sessions) < MaxSessions
          /\ handle' = cur
          /\ sessions' = sessions \cup {cur}
          /\ \E d \in Reach(Msg.ip) : where' = [where EXCEPT ![cur] = d]
       \/ UNCHANGED <<handle, sessions, where>>
    /\ pc' = "send"
    /\ UNCHANGED <<now, request, inbox, cur, httpstatus, entry, reply, opened, handed,
                   outcome, alive>>

(* Mutant of CM_SetOrGetCardNoFun: it waits until a session is free. *)
SessionAwaited ==
    /\ alive /\ pc = "start"
    /\ Cardinality(sessions) < MaxSessions
    /\ handle' = cur
    /\ sessions' = sessions \cup {cur}
    /\ \E d \in Reach(Msg.ip) : where' = [where EXCEPT ![cur] = d]
    /\ pc' = "send"
    /\ UNCHANGED <<now, request, inbox, cur, httpstatus, entry, reply, opened, handed,
                   outcome, alive>>

(* CM_SetOrGetCardNoFun: the handle of a session, or -1, which the caller  *)
(* does not look at.                                                       *)
CM_SetOrGetCardNoFun ==
    /\ alive /\ pc = "start"
    /\ \/ /\ Cardinality(sessions) < MaxSessions
          /\ handle' = cur
          /\ sessions' = sessions \cup {cur}
          /\ \E d \in Reach(Msg.ip) : where' = [where EXCEPT ![cur] = d]
       \/ /\ handle' = -1
          /\ UNCHANGED <<sessions, where>>
    /\ pc' = "send"
    /\ UNCHANGED <<now, request, inbox, cur, httpstatus, entry, reply, opened, handed,
                   outcome, alive>>

(* For an unknown address the line before it prints the string an unset    *)
(* pointer points to.                                                      *)
PrintWildPointer ==
    /\ alive /\ pc = "start" /\ Msg.ip \notin Doors
    /\ alive' = FALSE
    /\ UNCHANGED <<now, request, handlerVars, deviceVars>>

(* The card goes to the door the session of this handle is with. *)
SendRemoteConfig ==
    /\ alive /\ pc = "send"
    /\ \/ /\ handle \in sessions
          /\ handed' = handed \cup {cur}
          /\ where' = [where EXCEPT ![cur] = where[handle]]
          /\ pc' = "sleep"
          /\ UNCHANGED httpstatus
       \/ /\ UNCHANGED <<handed, where>>
          /\ httpstatus' = "set cardparam faild"
          /\ pc' = "reply"
    /\ UNCHANGED <<now, request, inbox, cur, handle, entry, reply, opened, outcome,
                   sessions, alive>>

(* Mutant of SleepEnds: no final status in time is reported as a failure. *)
SleepTimesOut ==
    /\ alive /\ pc = "sleep"
    /\ pc' = "reply"
    /\ httpstatus' \in {Success, "set cardparam faild"}
    /\ UNCHANGED <<now, request, inbox, cur, handle, entry, reply, deviceVars, alive>>

(* Sleep(100); the session is not stopped. *)
SleepEnds ==
    /\ alive /\ pc = "sleep"
    /\ pc' = "reply"
    /\ UNCHANGED <<now, request, inbox, cur, httpstatus, handle, entry, reply,
                   deviceVars, alive>>

SendHttp ==
    /\ alive /\ pc = "reply"
    /\ reply' = [reply EXCEPT ![cur] = httpstatus]
    /\ pc' = "idle"
    /\ UNCHANGED <<now, request, inbox, cur, httpstatus, handle, entry, deviceVars, alive>>

Handler ==
    \/ Enter \/ EnterNoMemory \/ EnterThrows
    \/ ControlGateway
    \/ CM_SetOrGetCardNoFun \/ PrintWildPointer \/ SendRemoteConfig \/ SleepEnds
    \/ SendHttp

(* CM_RemoteCallBack with a final status: on the library's thread, at any  *)
(* time after the card was handed over; it prints and does nothing else.   *)
CM_RemoteCallBack(r) ==
    /\ alive
    /\ r \in handed /\ outcome[r] = "none"
    /\ \E o \in {"success", "failed"} : outcome' = [outcome EXCEPT ![r] = o]
    /\ UNCHANGED <<now, request, handlerVars, opened, handed, sessions, where, alive>>

Next ==
    \/ Tick
    \/ \E m \in Messages : Deliver(m)
    \/ Handler
    \/ \E r \in Requests : CM_RemoteCallBack(r)

(* The event loop keeps calling the handler and library calls return. *)
Spec == Init /\ [][Next]_vars
Fairness == WF_vars(Handler)
FairSpec == Spec /\ Fairness
-----------------------------------------------------------------------------
(* Properties                                                              *)

Arrived(r) == r \in DOMAIN request

(* A door moves or a card is handed over only for a request that asked for *)
(* it, carries the token of its timestamp and was not older than the       *)
(* window when the handler took it, and it happens at the door of the      *)
(* request's own table entry: never at that of an earlier request, whose   *)
(* session is still open.  For an address of the table that is the door    *)
(* asked for; for any other it is whichever door the unwritten entry is    *)
(* logged in to, because the code does not refuse such an address.         *)
OnlyGenuine ==
    \A r \in opened \cup handed :
        /\ Arrived(r)
        /\ request[r].body = "json" /\ request[r].token
        /\ entry[r] <= request[r].stamp + Window
        /\ where[r] \in Reach(request[r].ip)
        /\ request[r].route = IF r \in opened THEN "control" ELSE "setlist"

(* A reply of "success" to a request with an effect means that the effect  *)
(* was had, or for a card that the library took it.                        *)
SuccessMeansDone ==
    \A r \in Requests :
        reply[r] = Success /\ Arrived(r) =>
            /\ request[r].route = "control" => r \in opened
            /\ request[r].route = "setlist" => r \in handed

(* Any other reply to a card setting means that no card was, or ever will  *)
(* be, handed over on its account: a client may retry it.                  *)
FailureMeansUntouched ==
    \A r \in Requests :
        Arrived(r) /\ request[r].route = "setlist" /\ reply[r] \in Failures =>
            r \notin handed /\ outcome[r] = "none"

(* Every card handed over keeps a session of its own open from then on:    *)
(* the library's limit bounds the cards one run of the process can set.    *)
CardsCostSessions ==
    handed \subseteq sessions /\ Cardinality(sessions) <= MaxSessions

(* Whatever the clients send and whichever calls fail, a handler with a    *)
(* request in hand or waiting has a step to take: there is no request, and *)
(* no want of memory or sessions, for which it waits forever.              *)
NeverStuck ==
    alive /\ (pc # "idle" \/ inbox # <<>>) => ENABLED <<Handler>>_vars

(* The handler implements the promise of RequestReply: requests in order,  *)
(* each with one effect and one answer at most, the answer last.           *)
Promise == INSTANCE RequestReply
    WITH arrived <- Len(request),
         waiting <- IF pc = "idle" THEN inbox ELSE <<cur>> \o inbox,
         served <- opened \cup handed,
         answered <- {r \in Requests : reply[r] # "none"},
         up <- alive
KeepsPromise == Promise!Spec
=============================================================================
