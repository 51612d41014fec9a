-------------------------- MODULE HttpServerProofs --------------------------
(* What the request handler's replies mean, and that it keeps the promise  *)
(* of RequestReply and goes on to the next request, for every set of doors *)
(* and messages and every number of requests and sessions.                 *)
EXTENDS HttpServer, FiniteSetTheorems, TLAPS

(* The requests are taken in the order they come in; this is how many were *)
(* taken.  The handler works on the last of them, which nobody answered    *)
(* before, and nothing was done for those still to be taken.               *)
Taken == Len(request) - Len(inbox)

QueueInv ==
    /\ Taken \in 0 .. Len(request)
    /\ \A n \in 1 .. Len(inbox) : inbox[n] = Taken + n
    /\ pc # "idle" => cur = Taken /\ cur > 0 /\ reply[cur] = "none"
    /\ \A r \in Requests : r > Taken =>
           reply[r] = "none" /\ r \notin opened \cup handed \cup sessions

(* r passed every check of the handler. *)
Checked(r) ==
    /\ request[r].body = "json" /\ request[r].token
    /\ entry[r] <= request[r].stamp + Window

(* What a reply says about the effect of request r. *)
Told(r, text) ==
    /\ text = Success =>
           /\ request[r].route = "control" => r \in opened
           /\ request[r].route = "setlist" => r \in handed
    /\ text \in Failures /\ request[r].route = "setlist" => r \notin handed

(* Where the handler is says what it has checked and done. *)
EffectInv ==
    /\ pc \in {"control", "start", "send", "sleep"} =>
           /\ Checked(cur) /\ cur \notin opened
           /\ request[cur].route = IF pc = "control" THEN "control" ELSE "setlist"
           /\ cur \in handed <=> pc = "sleep"
    /\ pc \in {"control", "start", "send", "sleep"} => httpstatus = Success
    /\ pc = "send" /\ handle \in sessions =>
           handle = cur /\ where[cur] \in Reach(request[cur].ip)
    /\ pc = "reply" => Told(cur, httpstatus)
    /\ \A r \in Requests : Arrived(r) => Told(r, reply[r])
    /\ \A r \in Requests : outcome[r] # "none" => r \in handed

Inv ==
    /\ TypeOK /\ QueueInv /\ EffectInv /\ OnlyGenuine /\ CardsCostSessions

-----------------------------------------------------------------------------
(* At the start, the variables have their types. *)
LEMMA TypeInit == Init => TypeOK
<1> SUFFICES ASSUME Init PROVE TypeOK
  OBVIOUS
<1>1. 0 \in 0 .. Horizon /\ 0 \in 0 .. MaxRequests /\ 0 \in -1 .. MaxRequests
  BY HttpAssumption
<1>2. request \in Seq(Messages) /\ Len(request) <= MaxRequests /\ inbox \in Seq(Requests)
  BY HttpAssumption DEF Init
<1> QED
  BY <1>1, <1>2 DEF Init, TypeOK, Success

(* The oldest request waiting, and what is left when it is taken. *)
LEMMA InboxHead ==
    ASSUME TypeOK, inbox # <<>>
    PROVE  /\ Len(inbox) \in Nat \ {0} /\ Head(inbox) = inbox[1]
           /\ Head(inbox) \in Requests
           /\ Tail(inbox) \in Seq(Requests) /\ Len(Tail(inbox)) = Len(inbox) - 1
           /\ \A n \in 1 .. Len(inbox) - 1 : Tail(inbox)[n] = inbox[n + 1]
  BY DEF TypeOK

(* A refusal is one of the texts the server replies with. *)
LEMMA RefusalType ==
    ASSUME NEW m, NEW t PROVE Refusal(m, t) \in Failures \cup {Success}
  BY DEF Refusal, Failures, Success

(* Every step keeps the variables in their types. *)
LEMMA TypeStep == TypeOK /\ QueueInv /\ [Next]_vars => TypeOK'
<1> SUFFICES ASSUME TypeOK, QueueInv, [Next]_vars PROVE TypeOK'
  OBVIOUS
<1> USE HttpAssumption DEF TypeOK, handlerVars, deviceVars
<1>0. pc # "idle" => cur \in Requests
  BY DEF QueueInv, Requests
<1>1. CASE Tick
  BY <1>1 DEF Tick
<1>2. ASSUME NEW m \in Messages, Deliver(m) PROVE TypeOK'
  <2>1. /\ request' \in Seq(Messages) /\ Len(request') <= MaxRequests
        /\ inbox' \in Seq(Requests)
    BY <1>2 DEF Deliver, Requests
  <2> QED
    BY <1>2, <2>1 DEF Deliver
<1>3. CASE Enter
  <2>1. /\ cur' \in Requests /\ inbox' \in Seq(Requests)
        /\ entry' \in [Requests -> 0 .. Horizon]
    BY <1>3, InboxHead DEF Enter
  <2>2. httpstatus' \in Failures \cup {Success}
    BY <1>3, RefusalType DEF Enter
  <2>3. pc' \in {"reply", "control", "start"} /\ cur' \in 0 .. MaxRequests
    BY <1>3, <2>1 DEF Enter, Requests
  <2> QED
    BY <1>3, <2>1, <2>2, <2>3 DEF Enter
<1>4. CASE EnterNoMemory
  BY <1>4, InboxHead DEF EnterNoMemory
<1>5. CASE EnterThrows
  BY <1>5 DEF EnterThrows
<1>6. CASE ControlGateway
  <2>1. \A d \in Reach(Msg.ip) : d \in Doors
    BY DEF Reach
  <2> QED
    BY <1>0, <1>6, <2>1 DEF ControlGateway, Failures
<1>7. CASE CM_SetOrGetCardNoFun
  <2>1. cur \in -1 .. MaxRequests /\ -1 \in -1 .. MaxRequests
    OBVIOUS
  <2>2. \A d \in Reach(Msg.ip) : d \in Doors
    BY DEF Reach
  <2> QED
    BY <1>0, <1>7, <2>1, <2>2 DEF CM_SetOrGetCardNoFun
<1>8. CASE PrintWildPointer
  BY <1>8 DEF PrintWildPointer
<1>9. CASE SendRemoteConfig
  BY <1>0, <1>9 DEF SendRemoteConfig, Failures
<1>10. CASE SleepEnds
  BY <1>10 DEF SleepEnds
<1>11. CASE SendHttp
  BY <1>0, <1>11 DEF SendHttp
<1>12. ASSUME NEW r \in Requests, CM_RemoteCallBack(r) PROVE TypeOK'
  BY <1>12 DEF CM_RemoteCallBack
<1>13. CASE UNCHANGED vars
  BY <1>13 DEF vars
<1> QED
  BY <1>1, <1>2, <1>3, <1>4, <1>5, <1>6, <1>7, <1>8, <1>9, <1>10, <1>11, <1>12, <1>13
     DEF Next, Handler

(* Requests are taken in order, and only the one taken last is worked on.  *)
LEMMA QueueStep == TypeOK /\ QueueInv /\ [Next]_vars => QueueInv'
<1> SUFFICES ASSUME TypeOK, QueueInv, [Next]_vars PROVE QueueInv'
  OBVIOUS
<1> USE HttpAssumption DEF QueueInv, Taken, handlerVars, deviceVars
<1>0. Len(request) \in Nat /\ Len(inbox) \in Nat
  BY DEF TypeOK
<1>a. pc # "idle" => \A r \in Requests : r > Taken => r # cur
  BY <1>0 DEF Requests
<1>1. CASE Tick
  BY <1>1 DEF Tick
<1>2. ASSUME NEW m \in Messages, Deliver(m) PROVE QueueInv'
  <2>1. /\ Len(request') = Len(request) + 1 /\ Len(inbox') = Len(inbox) + 1
        /\ \A n \in 1 .. Len(inbox) : inbox'[n] = inbox[n]
        /\ inbox'[Len(inbox) + 1] = Len(request) + 1
    BY <1>2 DEF Deliver, TypeOK
  <2>2. Taken' = Taken
    BY <1>0, <2>1
  <2>3. \A n \in 1 .. Len(inbox') : inbox'[n] = Taken' + n
    BY <1>0, <2>1, <2>2
  <2> HIDE DEF Taken
  <2> QED
    BY <1>0, <1>2, <2>1, <2>2, <2>3 DEF Deliver
<1>3. ASSUME pc = "idle", inbox # <<>>, inbox' = Tail(inbox),
             UNCHANGED <<request, reply, deviceVars>>,
             pc' = "idle" \/ cur' = Head(inbox)
      PROVE  QueueInv'
  <2>1. /\ Len(inbox) \in Nat \ {0} /\ Len(inbox') = Len(inbox) - 1
        /\ \A n \in 1 .. Len(inbox') : inbox'[n] = inbox[n + 1]
        /\ Head(inbox) = inbox[1] /\ Head(inbox) \in Requests
    BY <1>3, InboxHead
  <2>2. Taken' = Taken + 1 /\ Head(inbox) = Taken + 1 /\ Taken' \in 0 .. Len(request')
    BY <1>0, <1>3, <2>1
  <2>a. Taken \in Nat
    BY <1>0
  <2> HIDE DEF Taken
  <2>3. ASSUME NEW n \in 1 .. Len(inbox') PROVE inbox'[n] = Taken' + n
    <3>1. n + 1 \in 1 .. Len(inbox) /\ n \in Nat
      BY <2>1
    <3>2. inbox[n + 1] = Taken + (n + 1)
      BY <3>1
    <3> QED
      BY <2>1, <2>2, <2>a, <3>1, <3>2
  <2>4. pc' # "idle" => cur' = Taken' /\ cur' > 0 /\ reply'[cur'] = "none"
    <3>1. reply[Head(inbox)] = "none"
      BY <2>a, <2>1, <2>2
    <3> QED
      BY <1>3, <2>a, <2>2, <3>1
  <2> QED
    BY <1>0, <1>3, <2>2, <2>3, <2>4 DEF Requests
<1>4. CASE Enter
  BY <1>3, <1>4 DEF Enter
<1>5. CASE EnterNoMemory
  BY <1>3, <1>5 DEF EnterNoMemory
<1>6. CASE EnterThrows \/ PrintWildPointer
  BY <1>6 DEF EnterThrows, PrintWildPointer
<1>7. CASE ControlGateway
  <2>1. \A r \in Requests : r > Taken => r # cur /\ r \notin opened
    BY <1>7, <1>a DEF ControlGateway
  <2> QED
    BY <1>0, <1>7, <2>1 DEF ControlGateway
<1>8. CASE CM_SetOrGetCardNoFun
  BY <1>0, <1>8 DEF CM_SetOrGetCardNoFun
<1>9. CASE SendRemoteConfig
  <2>1. \A r \in Requests : r > Taken => r # cur /\ r \notin handed
    BY <1>9, <1>a DEF SendRemoteConfig
  <2> QED
    BY <1>0, <1>9, <2>1 DEF SendRemoteConfig
<1>10. CASE SleepEnds
  BY <1>10 DEF SleepEnds
<1>11. CASE SendHttp
  BY <1>0, <1>11 DEF SendHttp, TypeOK, Requests
<1>12. ASSUME NEW r \in Requests, CM_RemoteCallBack(r) PROVE QueueInv'
  BY <1>12 DEF CM_RemoteCallBack
<1>13. CASE UNCHANGED vars
  BY <1>13 DEF vars
<1> QED
  BY <1>1, <1>2, <1>4, <1>5, <1>6, <1>7, <1>8, <1>9, <1>10, <1>11, <1>12, <1>13
     DEF Next, Handler

-----------------------------------------------------------------------------
(* The invariants about effects, together. *)
DoneInv == EffectInv /\ OnlyGenuine /\ CardsCostSessions

(* At the start, nothing was taken and nothing done. *)
LEMMA DoneInit == Init => QueueInv /\ DoneInv
<1> SUFFICES ASSUME Init PROVE QueueInv /\ DoneInv
  OBVIOUS
<1>1. Len(request) = 0 /\ Len(inbox) = 0 /\ Taken = 0
  BY DEF Init, Taken
<1>2. QueueInv
  BY <1>1 DEF Init, QueueInv
<1>3. EffectInv
  BY DEF Init, EffectInv, Arrived
<1>4. OnlyGenuine
  BY DEF Init, OnlyGenuine
<1>5. CardsCostSessions
  BY FS_EmptySet, HttpAssumption DEF Init, CardsCostSessions
<1> QED
  BY <1>2, <1>3, <1>4, <1>5 DEF DoneInv

(* Everything that was done was done for a request that was taken. *)
LEMMA DoneForTaken ==
    ASSUME TypeOK, QueueInv
    PROVE  /\ Taken \in Nat /\ Taken <= Len(request) /\ Len(request) \in Nat
           /\ \A r \in opened \cup handed \cup sessions :
                  r \in Requests /\ r <= Taken /\ Arrived(r)
           /\ pc # "idle" => cur \in Requests /\ Arrived(cur)
<1>1. Taken \in Nat /\ Taken <= Len(request) /\ Len(request) \in Nat
  BY DEF TypeOK, QueueInv
<1>2. DOMAIN request = 1 .. Len(request)
  BY DEF TypeOK
<1>3. \A r \in opened \cup handed \cup sessions : r \in Requests /\ r <= Taken
  BY <1>1 DEF TypeOK, QueueInv, Requests
<1>4. pc # "idle" => cur \in 1 .. Len(request) /\ cur \in Requests
  BY <1>1 DEF QueueInv, TypeOK, Requests
<1> HIDE DEF Taken
<1> QED
  BY <1>1, <1>2, <1>3, <1>4 DEF Requests, Arrived

(* A new request changes nothing about those that came before. *)
LEMMA DeliverStep ==
    ASSUME TypeOK, QueueInv, DoneInv, NEW m \in Messages, Deliver(m)
    PROVE  DoneInv'
<1>1. /\ \A r \in 1 .. Len(request) : request'[r] = request[r]
      /\ DOMAIN request = 1 .. Len(request)
      /\ \A r : Arrived(r)' => Arrived(r) \/ r > Len(request)
      /\ \A r : Arrived(r) => Arrived(r)' /\ request'[r] = request[r]
      /\ UNCHANGED <<now, pc, cur, httpstatus, handle, entry, reply,
                     opened, handed, outcome, sessions, where>>
  BY DEF Deliver, TypeOK, Arrived, deviceVars
<1>2. EffectInv'
  <2>1. ASSUME NEW r \in Requests, Arrived(r)' PROVE Told(r, reply[r])'
    <3>1. CASE Arrived(r)
      BY <1>1, <3>1 DEF Told, DoneInv, EffectInv
    <3>2. CASE r > Len(request)
      <4>1. reply[r] = "none"
        BY <3>2, DoneForTaken DEF QueueInv, Requests
      <4> QED
        BY <1>1, <4>1 DEF Told, Success, Failures
    <3> QED
      BY <1>1, <2>1, <3>1, <3>2
  <2>2. pc # "idle" => request'[cur] = request[cur]
    BY <1>1, DoneForTaken
  <2> QED
    BY <1>1, <2>1, <2>2 DEF DoneInv, EffectInv, Checked, Told
<1>3. OnlyGenuine'
  BY <1>1, DoneForTaken DEF DoneInv, OnlyGenuine
<1> QED
  BY <1>1, <1>2, <1>3 DEF DoneInv, CardsCostSessions

(* Taking a request; past all checks, it is genuine. *)
LEMMA EnterStep ==
    ASSUME TypeOK, QueueInv, DoneInv, Enter
    PROVE  DoneInv'
<1> DEFINE h == Head(inbox)
           m == request[h]
<1>1. /\ h \in Requests /\ h = Taken + 1 /\ h \in 1 .. Len(request)
      /\ cur' = h /\ entry' = [entry EXCEPT ![h] = now]
      /\ UNCHANGED <<now, request, handle, reply, opened, handed, outcome, sessions, where>>
      /\ pc = "idle"
  <2>1. Len(inbox) \in Nat \ {0} /\ inbox[1] = h /\ h \in Requests
    BY InboxHead DEF Enter
  <2>2. inbox[1] = Taken + 1
    BY <2>1 DEF QueueInv
  <2>3. Taken + 1 <= Len(request) /\ Taken + 1 > 0
    BY <2>1, DoneForTaken DEF Taken
  <2> QED
    BY <2>1, <2>2, <2>3, DoneForTaken DEF Enter, deviceVars
<1>2. m \in Message /\ now \in Nat
  BY <1>1, HttpAssumption DEF TypeOK
<1>3. /\ httpstatus' = Refusal(m, now)
      /\ ~Throws(m, now)
      /\ pc' = IF Refusal(m, now) # Success \/ m.route = "other" THEN "reply"
               ELSE IF m.route = "control" THEN "control" ELSE "start"
  BY DEF Enter
<1>4. h \notin opened /\ h \notin handed /\ reply[h] = "none"
  BY <1>1, DoneForTaken DEF QueueInv
<1>5. \A r \in opened \cup handed : entry'[r] = entry[r]
  BY <1>1, <1>4 DEF TypeOK
<1>6. OnlyGenuine'
  BY <1>1, <1>5 DEF DoneInv, OnlyGenuine, Arrived
<1>7. CASE pc' = "reply"
  <2>1. Told(cur, httpstatus)'
    BY <1>1, <1>3, <1>4, <1>7 DEF Told, Success
  <2> QED
    BY <1>1, <1>6, <1>7, <2>1 DEF DoneInv, EffectInv, CardsCostSessions, Told, Arrived
<1>8. CASE pc' # "reply"
  <2>1. /\ Refusal(m, now) = Success /\ m.route \in {"control", "setlist"}
        /\ pc' = IF m.route = "control" THEN "control" ELSE "start"
    BY <1>2, <1>3, <1>8 DEF Message
  <2>2. /\ m.body # "unread" /\ m.body # "garbled" /\ m.token
        /\ ~(now - m.stamp > Window)
    BY <2>1 DEF Refusal, Success
  <2>3. m.body = "json"
    BY <1>2, <1>3, <2>1, <2>2, HttpAssumption DEF Throws, Message
  <2>4. entry'[h] = now
    BY <1>1 DEF TypeOK
  <2>5. now <= m.stamp + Window
    BY <1>2, <2>2, HttpAssumption DEF Message
  <2>6. Checked(cur)'
    BY <1>1, <2>2, <2>3, <2>4, <2>5 DEF Checked
  <2> QED
    BY <1>1, <1>3, <1>4, <1>6, <2>1, <2>6
       DEF DoneInv, EffectInv, CardsCostSessions, Told, Arrived
<1> QED
  BY <1>7, <1>8

(* What a door or the library takes, it takes for the request at hand. *)
LEMMA ControlStep ==
    ASSUME TypeOK, QueueInv, DoneInv, ControlGateway
    PROVE  DoneInv'
<1>1. /\ pc = "control" /\ pc' = "reply" /\ cur \in Requests /\ Arrived(cur)
      /\ UNCHANGED <<request, cur, handle, entry, reply, handed, outcome, sessions>>
      /\ opened \cup handed \subseteq Requests
      /\ \A r \in Requests : r # cur => where'[r] = where[r]
      /\ Checked(cur) /\ request[cur].route = "control" /\ cur \notin opened \cup handed
      /\ reply[cur] = "none"
  BY DoneForTaken DEF ControlGateway, DoneInv, EffectInv, QueueInv, TypeOK
<1>2. CASE opened' = opened \cup {cur} /\ where'[cur] \in Reach(Msg.ip)
             /\ httpstatus' \in {Success, "door control faild"}
  <2>1. OnlyGenuine'
    BY <1>1, <1>2 DEF DoneInv, OnlyGenuine, Checked, Arrived, Msg
  <2>2. EffectInv'
    BY <1>1, <1>2 DEF DoneInv, EffectInv, Told, Arrived, Success, Failures
  <2> QED
    BY <1>1, <2>1, <2>2 DEF DoneInv, CardsCostSessions
<1>3. CASE UNCHANGED <<opened, where>> /\ httpstatus' = "door control faild"
  <2>1. OnlyGenuine'
    BY <1>1, <1>3 DEF DoneInv, OnlyGenuine, Arrived
  <2>2. EffectInv'
    BY <1>1, <1>3 DEF DoneInv, EffectInv, Told, Arrived, Success, Failures
  <2> QED
    BY <1>1, <2>1, <2>2 DEF DoneInv, CardsCostSessions
<1> QED
  BY <1>1, <1>2, <1>3 DEF ControlGateway, TypeOK

(* A session is the request's own, and one the library had left. *)
LEMMA SessionStep ==
    ASSUME TypeOK, QueueInv, DoneInv, CM_SetOrGetCardNoFun
    PROVE  DoneInv'
<1>1. /\ pc = "start" /\ pc' = "send" /\ cur \in Requests
      /\ UNCHANGED <<request, cur, httpstatus, entry, reply, opened, handed, outcome>>
      /\ cur \notin opened \cup handed /\ opened \cup handed \subseteq Requests
      /\ \A r \in Requests : r # cur => where'[r] = where[r]
  BY DoneForTaken DEF CM_SetOrGetCardNoFun, DoneInv, EffectInv, TypeOK
<1>2. OnlyGenuine'
  BY <1>1 DEF DoneInv, OnlyGenuine, Arrived
<1>3. handle' \in sessions' => handle' = cur /\ where'[cur] \in Reach(request[cur].ip)
  <2>1. -1 \notin sessions
    BY HttpAssumption DEF TypeOK, Requests
  <2> QED
    BY <1>1, <2>1 DEF CM_SetOrGetCardNoFun, Msg, TypeOK
<1>4. EffectInv'
  BY <1>1, <1>3 DEF DoneInv, EffectInv, Told, Arrived, Checked
<1>5. CardsCostSessions'
  <2>1. IsFiniteSet(sessions)
    <3>1. IsFiniteSet(Requests)
      BY HttpAssumption, FS_Interval DEF Requests
    <3> QED
      BY <3>1, FS_Subset DEF TypeOK
  <2>2. Cardinality(sessions) \in Nat
    BY <2>1, FS_CardinalityType
  <2>3. CASE Cardinality(sessions) < MaxSessions /\ sessions' = sessions \cup {cur}
    <3>1. Cardinality(sessions \cup {cur}) <= Cardinality(sessions) + 1
      <4>1. CASE cur \in sessions
        BY <2>2, <4>1, sessions \cup {cur} = sessions
      <4>2. CASE cur \notin sessions
        BY <2>1, <2>2, <4>2, FS_AddElement
      <4> QED
        BY <4>1, <4>2
    <3>2. Cardinality(sessions') <= MaxSessions
      BY <2>1, <2>2, <2>3, <3>1, FS_AddElement, FS_CardinalityType, HttpAssumption
    <3> QED
      BY <1>1, <2>3, <3>2 DEF DoneInv, CardsCostSessions
  <2>4. CASE UNCHANGED sessions
    BY <1>1, <2>4 DEF DoneInv, CardsCostSessions
  <2> QED
    BY <2>3, <2>4 DEF CM_SetOrGetCardNoFun
<1> QED
  BY <1>2, <1>4, <1>5 DEF DoneInv

(* A card is handed over once, in the session of its request. *)
LEMMA SendStep ==
    ASSUME TypeOK, QueueInv, DoneInv, SendRemoteConfig
    PROVE  DoneInv'
<1>1. /\ pc = "send" /\ cur \in Requests /\ Arrived(cur)
      /\ UNCHANGED <<request, cur, handle, entry, reply, opened, outcome, sessions>>
      /\ Checked(cur) /\ request[cur].route = "setlist" /\ cur \notin opened \cup handed
      /\ reply[cur] = "none" /\ httpstatus = Success
  BY DoneForTaken DEF SendRemoteConfig, DoneInv, EffectInv, QueueInv
<1>2. CASE /\ handle \in sessions /\ handed' = handed \cup {cur}
           /\ where' = [where EXCEPT ![cur] = where[handle]]
           /\ pc' = "sleep" /\ UNCHANGED httpstatus
  <2>0. /\ cur \in sessions /\ where'[cur] \in Reach(request[cur].ip)
        /\ \A r \in Requests : r # cur => where'[r] = where[r]
    BY <1>1, <1>2 DEF DoneInv, EffectInv, TypeOK
  <2>1. OnlyGenuine'
    BY <1>1, <1>2, <2>0 DEF DoneInv, OnlyGenuine, Checked, Arrived
  <2>2. EffectInv'
    BY <1>1, <1>2 DEF DoneInv, EffectInv, Told, Arrived, Checked, Success, Failures
  <2> QED
    BY <1>1, <1>2, <2>0, <2>1, <2>2 DEF DoneInv, CardsCostSessions
<1>3. CASE UNCHANGED <<handed, where>> /\ httpstatus' = "set cardparam faild" /\ pc' = "reply"
  <2>1. OnlyGenuine'
    BY <1>1, <1>3 DEF DoneInv, OnlyGenuine, Arrived
  <2>2. EffectInv'
    BY <1>1, <1>3 DEF DoneInv, EffectInv, Told, Arrived, Success, Failures
  <2> QED
    BY <1>1, <1>3, <2>1, <2>2 DEF DoneInv, CardsCostSessions
<1> QED
  BY <1>2, <1>3 DEF SendRemoteConfig

(* The reply says what was done: nothing happens after it.                 *)
LEMMA ReplyStep ==
    ASSUME TypeOK, QueueInv, DoneInv, SendHttp
    PROVE  DoneInv'
<1>1. /\ pc = "reply" /\ pc' = "idle" /\ cur \in Requests /\ Arrived(cur)
      /\ UNCHANGED <<request, cur, handle, entry, opened, handed, outcome, sessions, where>>
      /\ Told(cur, httpstatus)
      /\ reply'[cur] = httpstatus /\ \A r \in Requests : r # cur => reply'[r] = reply[r]
  BY DoneForTaken DEF SendHttp, DoneInv, EffectInv, deviceVars, TypeOK
<1>2. OnlyGenuine'
  BY <1>1 DEF DoneInv, OnlyGenuine, Arrived
<1>3. EffectInv'
  <2>1. ASSUME NEW r \in Requests, Arrived(r) PROVE Told(r, reply[r])'
    BY <1>1, <2>1 DEF Told, DoneInv, EffectInv
  <2> QED
    BY <1>1, <2>1 DEF DoneInv, EffectInv, Arrived
<1> QED
  BY <1>1, <1>2, <1>3 DEF DoneInv, CardsCostSessions

(* What was done and told stays consistent through every step. *)
LEMMA DoneStep == TypeOK /\ QueueInv /\ DoneInv /\ [Next]_vars => DoneInv'
<1> SUFFICES ASSUME TypeOK, QueueInv, DoneInv, [Next]_vars PROVE DoneInv'
  OBVIOUS
<1>1. ASSUME UNCHANGED <<request, pc, cur, httpstatus, handle, entry, reply, opened, handed,
                         outcome, sessions, where>>
      PROVE  DoneInv'
  BY <1>1 DEF DoneInv, EffectInv, OnlyGenuine, CardsCostSessions, Told, Checked, Arrived
<1>2. CASE Tick \/ EnterNoMemory \/ EnterThrows \/ PrintWildPointer
  BY <1>1, <1>2
     DEF Tick, EnterNoMemory, EnterThrows, PrintWildPointer, handlerVars, deviceVars
<1>3. CASE UNCHANGED vars
  BY <1>1, <1>3 DEF vars, handlerVars, deviceVars
<1>4. CASE SleepEnds
  <2>1. /\ pc = "sleep" /\ pc' = "reply"
        /\ UNCHANGED <<request, cur, httpstatus, handle, entry, reply, opened, handed,
                       outcome, sessions, where>>
    BY <1>4 DEF SleepEnds, deviceVars
  <2>2. Told(cur, httpstatus)
    BY <2>1 DEF DoneInv, EffectInv, Told, Success, Failures
  <2> QED
    BY <2>1, <2>2
       DEF DoneInv, EffectInv, OnlyGenuine, CardsCostSessions, Told, Checked, Arrived
<1>5. ASSUME NEW r \in Requests, CM_RemoteCallBack(r) PROVE DoneInv'
  <2>1. /\ UNCHANGED <<request, pc, cur, httpstatus, handle, entry, reply, opened, handed,
                       sessions, where>>
        /\ \A q \in Requests : outcome'[q] # "none" => outcome[q] # "none" \/ q = r
        /\ r \in handed
    BY <1>5 DEF CM_RemoteCallBack, handlerVars, TypeOK
  <2> QED
    BY <2>1
       DEF DoneInv, EffectInv, OnlyGenuine, CardsCostSessions, Told, Checked, Arrived
<1> QED
  BY <1>2, <1>3, <1>4, <1>5, DeliverStep, EnterStep, ControlStep, SessionStep, SendStep,
     ReplyStep DEF Next, Handler

(* The invariant holds at the start. *)
LEMMA InvInit == Init => Inv
  BY TypeInit, DoneInit DEF Inv, DoneInv

(* The invariant is inductive. *)
LEMMA InvStep == Inv /\ [Next]_vars => Inv'
  BY TypeStep, QueueStep, DoneStep DEF Inv, DoneInv

(* Whatever clients send and whenever, the invariant holds. *)
THEOREM Invariance == Spec => []Inv
  BY InvInit, InvStep, PTL DEF Spec

(* For every table of doors and every set of messages, the variables keep  *)
(* their types.                                                            *)
THEOREM TypeCorrect == Spec => []TypeOK
<1>1. Inv => TypeOK
  BY DEF Inv
<1> QED
  BY <1>1, Invariance, PTL

(* For every table of doors, every set of messages and whatever the entry  *)
(* behind the table holds, only a request that passed every check when it  *)
(* was taken has an effect on a device, and on no other device than the    *)
(* one its own table entry leads to.                                       *)
THEOREM EffectsAreGenuine == Spec => []OnlyGenuine
<1>1. Inv => OnlyGenuine
  BY DEF Inv
<1> QED
  BY <1>1, Invariance, PTL

(* A client that is told of success can rely on the effect. *)
THEOREM SuccessIsTrue == Spec => []SuccessMeansDone
<1>1. Inv => SuccessMeansDone
  BY DEF Inv, EffectInv, SuccessMeansDone, Told
<1> QED
  BY <1>1, Invariance, PTL

(* A client that is told a card setting failed can rely on that, too. *)
THEOREM FailureIsTrue == Spec => []FailureMeansUntouched
<1>1. Inv => FailureMeansUntouched
  BY DEF Inv, EffectInv, FailureMeansUntouched, Told
<1> QED
  BY <1>1, Invariance, PTL

(* The library's limit on sessions bounds the cards ever set. *)
THEOREM SessionsBoundCards == Spec => []CardsCostSessions
<1>1. Inv => CardsCostSessions
  BY DEF Inv
<1> QED
  BY <1>1, Invariance, PTL

-----------------------------------------------------------------------------
(* The request at hand in front of those still waiting. *)
LEMMA InFront ==
    ASSUME NEW x, NEW s \in Seq(Nat), NEW y \in Nat, x \in Nat
    PROVE  /\ <<x>> \o s # <<>> /\ Head(<<x>> \o s) = x /\ Tail(<<x>> \o s) = s
           /\ Append(<<x>> \o s, y) = <<x>> \o Append(s, y)
<1>1. <<x>> \o s \in Seq(Nat) /\ Len(<<x>> \o s) = Len(s) + 1
  OBVIOUS
<1>2. /\ (<<x>> \o s)[1] = x
      /\ \A n \in 1 .. Len(s) : (<<x>> \o s)[n + 1] = s[n]
  OBVIOUS
<1>3. Tail(<<x>> \o s) = s
  BY <1>1, <1>2
<1>4. Append(<<x>> \o s, y) = <<x>> \o Append(s, y)
  OBVIOUS
<1>5. <<x>> \o s # <<>>
  <2>1. Len(<<x>> \o s) # 0
    BY <1>1
  <2> QED
    BY <2>1
<1>6. Head(<<x>> \o s) = x
  BY <1>1, <1>2, <1>5
<1> QED
  BY Zenon, <1>3, <1>4, <1>5, <1>6

(* Splitting a nonempty queue and putting it together again. *)
LEMMA HeadInFront ==
    ASSUME NEW s \in Seq(Nat), s # <<>>
    PROVE  <<Head(s)>> \o Tail(s) = s
  OBVIOUS

(* What the promise sees of the server. *)
Waiting == IF pc = "idle" THEN inbox ELSE <<cur>> \o inbox
Answered == {r \in Requests : reply[r] # "none"}

(* Every step of the server is one of the promise, or invisible to it. *)
LEMMA PromiseStep == Inv /\ [Next]_vars => [Promise!Next]_Promise!rrVars
<1> SUFFICES ASSUME Inv, [Next]_vars,
                    ~ UNCHANGED <<Len(request), Waiting, opened \cup handed, Answered, alive>>
             PROVE  Promise!Next
  BY DEF Promise!rrVars, Waiting, Answered
<1>0. /\ TypeOK /\ QueueInv /\ EffectInv
      /\ inbox \in Seq(Nat) /\ Len(request) \in Nat
      /\ pc # "idle" => cur \in Nat /\ cur \in Requests
      /\ pc # "idle" => /\ Waiting # <<>> /\ Head(Waiting) = cur
                        /\ Tail(Waiting) = inbox
  <2>1. TypeOK /\ QueueInv /\ EffectInv
    BY DEF Inv
  <2>2. inbox \in Seq(Nat) /\ Len(request) \in Nat
    BY <2>1, HttpAssumption DEF TypeOK, Requests
  <2>3. pc # "idle" => cur \in Nat /\ cur \in Requests
    BY <2>1, DoneForTaken DEF Requests
  <2> QED
    BY <2>1, <2>2, <2>3, InFront DEF Waiting
<1> USE DEF handlerVars, deviceVars
<1>1. CASE Tick
  BY <1>1 DEF Tick, Waiting, Answered
<1>2. ASSUME NEW m \in Messages, Deliver(m) PROVE Promise!Next
  <2>1. /\ Len(request') = Len(request) + 1 /\ Len(request) < MaxRequests /\ alive
        /\ inbox' = Append(inbox, Len(request) + 1)
        /\ UNCHANGED <<pc, cur, reply, opened, handed, alive>>
    BY <1>0, <1>2 DEF Deliver, TypeOK
  <2>2. Waiting' = Append(Waiting, Len(request) + 1)
    <3>1. CASE pc = "idle"
      BY <2>1, <3>1 DEF Waiting
    <3>2. CASE pc # "idle"
      <4>1. Len(request) + 1 \in Nat
        BY <1>0
      <4>2. Append(<<cur>> \o inbox, Len(request) + 1)
              = <<cur>> \o Append(inbox, Len(request) + 1)
        BY <1>0, <3>2, <4>1, InFront
      <4> QED
        BY <2>1, <3>2, <4>2 DEF Waiting
    <3> QED
      BY <3>1, <3>2
  <2> QED
    BY <2>1, <2>2 DEF Promise!Next, Promise!Arrive, Waiting
<1>3. CASE Enter
  <2>1. /\ pc = "idle" /\ inbox # <<>> /\ cur' = Head(inbox) /\ inbox' = Tail(inbox)
        /\ pc' # "idle" /\ UNCHANGED <<request, reply, opened, handed, alive>>
    BY <1>3 DEF Enter
  <2>2. Waiting' = Waiting
    BY <1>0, <2>1, HeadInFront DEF Waiting
  <2> QED
    BY <2>1, <2>2 DEF Answered
<1>4. CASE EnterNoMemory
  <2>1. /\ alive /\ pc = "idle" /\ inbox # <<>> /\ inbox' = Tail(inbox)
        /\ UNCHANGED <<request, pc, reply, opened, handed, alive>>
    BY <1>4 DEF EnterNoMemory
  <2> QED
    BY <2>1 DEF Promise!Next, Promise!Forget
<1>5. CASE EnterThrows
  <2>1. /\ alive /\ ~alive' /\ alive' = FALSE /\ pc = "idle" /\ inbox # <<>>
        /\ UNCHANGED <<request, pc, cur, inbox, reply, opened, handed>>
    BY <1>5 DEF EnterThrows
  <2> QED
    BY <2>1 DEF Promise!Next, Promise!Die
<1>6. CASE PrintWildPointer
  <2>1. /\ alive /\ alive' = FALSE /\ pc # "idle"
        /\ UNCHANGED <<request, pc, cur, inbox, reply, opened, handed>>
    BY <1>6 DEF PrintWildPointer
  <2> QED
    BY <1>0, <2>1 DEF Promise!Next, Promise!Die, Waiting
<1>7. ASSUME alive, pc # "idle", pc' # "idle", cur \notin opened \cup handed,
             (opened \cup handed)' \in {opened \cup handed, opened \cup handed \cup {cur}},
             UNCHANGED <<request, cur, inbox, reply, alive>>
      PROVE  Promise!Next
  <2>1. Waiting' = Waiting /\ Answered' = Answered
    BY <1>7 DEF Waiting, Answered
  <2>2. (opened \cup handed)' = opened \cup handed \cup {cur}
    BY <1>7, <2>1
  <2> QED
    BY <1>0, <1>7, <2>1, <2>2 DEF Promise!Next, Promise!Serve, Waiting, Answered
<1>8. CASE ControlGateway
  BY <1>0, <1>7, <1>8 DEF ControlGateway, EffectInv
<1>9. CASE CM_SetOrGetCardNoFun \/ SleepEnds
  BY <1>9 DEF CM_SetOrGetCardNoFun, SleepEnds, Waiting, Answered
<1>10. CASE SendRemoteConfig
  BY <1>0, <1>7, <1>10 DEF SendRemoteConfig, EffectInv
<1>11. CASE SendHttp
  <2>1. /\ alive /\ pc = "reply" /\ pc' = "idle"
        /\ reply' = [reply EXCEPT ![cur] = httpstatus]
        /\ UNCHANGED <<request, inbox, opened, handed, alive>>
    BY <1>11 DEF SendHttp
  <2>2. httpstatus # "none"
    BY <1>0 DEF TypeOK, Failures, Success
  <2>3. Answered' = Answered \cup {cur}
    BY <1>0, <2>1, <2>2 DEF Answered, TypeOK
  <2>4. Waiting' = inbox
    BY <2>1 DEF Waiting
  <2> QED
    BY <1>0, <2>1, <2>3, <2>4 DEF Promise!Next, Promise!Answer, Waiting, Answered
<1>12. ASSUME NEW r \in Requests, CM_RemoteCallBack(r) PROVE Promise!Next
  BY <1>12 DEF CM_RemoteCallBack, Waiting, Answered
<1>13. CASE UNCHANGED vars
  BY <1>13 DEF vars, Waiting, Answered
<1> QED
  BY <1>1, <1>2, <1>3, <1>4, <1>5, <1>6, <1>8, <1>9, <1>10, <1>11, <1>12, <1>13
     DEF Next, Handler

(* The server implements the safety half of RequestReply: requests in the  *)
(* order they came, each with one effect and one answer at most, the       *)
(* effect first, for every set of messages and number of requests.         *)
THEOREM HandlerKeepsPromise == Spec => Promise!Safety
<1>1. Init => Promise!Init
  BY DEF Init, Promise!Init
<1> QED
  BY <1>1, PromiseStep, Invariance, PTL DEF Spec, Promise!Safety

-----------------------------------------------------------------------------
(* Liveness                                                                *)

(* r is the request the handler works on, or the next one it will take. *)
InHand(r) == IF pc = "idle" THEN inbox # <<>> /\ Head(inbox) = r ELSE cur = r

MovesOn(r) == alive /\ InHand(r) ~> ~alive \/ ~InHand(r)

Running == FairSpec /\ []NeverStuck

(* The order of the handler's places. *)
Follows(place, next) ==
    \/ next = place
    \/ place = "idle" /\ next \in {"control", "start", "reply"}
    \/ place = "control" /\ next = "reply"
    \/ place = "start" /\ next = "send"
    \/ place = "send" /\ next \in {"sleep", "reply"}
    \/ place = "sleep" /\ next = "reply"
    \/ place = "reply" /\ next = "idle"

(* Nothing but the handler moves it, and it moves along its text. *)
LEMMA HandlerFollows ==
    [Next]_vars => Follows(pc, pc') /\ (pc' = pc \/ <<Handler>>_vars)
  BY DEF Next, Handler, vars, handlerVars, deviceVars, Follows, Tick, Deliver, Enter,
         EnterNoMemory, EnterThrows, ControlGateway, CM_SetOrGetCardNoFun,
         PrintWildPointer, SendRemoteConfig, SleepEnds, SendHttp, CM_RemoteCallBack

(* A step of the handler takes it to another place, and past its request   *)
(* when it is back at the first, unless the process dies of it.            *)
LEMMA HandlerMoves ==
    ASSUME Inv, <<Handler>>_vars, NEW r, alive, InHand(r)
    PROVE  \/ ~alive' \/ ~InHand(r)'
           \/ pc' # pc /\ pc' # "idle"
<1>0. QueueInv /\ inbox \in Seq(Nat)
  BY HttpAssumption DEF Inv, TypeOK, Requests
<1>1. CASE Enter
  BY <1>1 DEF Enter
<1>2. CASE EnterNoMemory
  <2>1. /\ pc = "idle" /\ pc' = "idle" /\ inbox # <<>> /\ inbox' = Tail(inbox)
        /\ r = Head(inbox)
    BY <1>2 DEF EnterNoMemory, InHand
  <2>2. Head(inbox) = Taken + 1
    BY <1>0, <2>1 DEF QueueInv
  <2>3. ASSUME Tail(inbox) # <<>> PROVE Head(Tail(inbox)) = Taken + 2
    <3>1. Len(inbox) > 1 /\ Head(Tail(inbox)) = inbox[2]
      BY <1>0, <2>1, <2>3
    <3> QED
      BY <1>0, <3>1 DEF QueueInv
  <2>4. Taken \in Int
    BY <1>0 DEF QueueInv
  <2> QED
    BY <2>1, <2>2, <2>3, <2>4 DEF InHand
<1>3. CASE EnterThrows \/ PrintWildPointer
  BY <1>3 DEF EnterThrows, PrintWildPointer
<1>4. CASE ControlGateway \/ CM_SetOrGetCardNoFun \/ SendRemoteConfig \/ SleepEnds
  BY <1>4 DEF ControlGateway, CM_SetOrGetCardNoFun, SendRemoteConfig, SleepEnds
<1>5. CASE SendHttp
  <2>1. pc # "idle" /\ pc' = "idle" /\ inbox' = inbox /\ r = cur
    BY <1>5 DEF SendHttp, InHand
  <2>2. inbox # <<>> => Head(inbox) # cur
    BY <1>0, <2>1 DEF QueueInv, Taken
  <2> QED
    BY <2>1, <2>2 DEF InHand
<1> QED
  BY <1>1, <1>2, <1>3, <1>4, <1>5 DEF Handler

(* No request, genuine or not, keeps the handler from the next one: it is  *)
(* answered or given up, or the process is gone.  With OnlyGenuine and the *)
(* order of RequestReply this is what a client who waits can count on.     *)
THEOREM HandlerMovesOn == Running => \A r \in Requests : MovesOn(r)
<1> SUFFICES ASSUME NEW r \in Requests PROVE Running => MovesOn(r)
  OBVIOUS
<1> DEFINE Here == alive /\ InHand(r)
           At(place) == pc = place
<1>1. TypeOK => \/ At("idle") \/ At("control") \/ At("start") \/ At("send")
                \/ At("sleep") \/ At("reply")
  BY DEF TypeOK
<1>2. [Next]_vars =>
          /\ At("idle") => (At("idle") \/ At("control") \/ At("start") \/ At("reply"))'
          /\ At("control") => (At("control") \/ At("reply"))'
          /\ At("start") => (At("start") \/ At("send"))'
          /\ At("send") => (At("send") \/ At("sleep") \/ At("reply"))'
          /\ At("sleep") => (At("sleep") \/ At("reply"))'
          /\ At("reply") => (At("reply") \/ At("idle"))'
  BY HandlerFollows DEF Follows
<1>3. Inv /\ <<Handler>>_vars /\ Here =>
          \/ ~Here'
          \/ /\ ~At("idle")'
             /\ At("idle") => ~At("idle")'
             /\ At("control") => ~At("control")'
             /\ At("start") => ~At("start")'
             /\ At("send") => ~At("send")'
             /\ At("sleep") => ~At("sleep")'
             /\ At("reply") => ~At("reply")'
  BY HandlerMoves
<1>4. Inv /\ [Next]_vars /\ Here /\ At("reply") => ~Here' \/ At("reply")'
  BY <1>2, <1>3, HandlerFollows
<1>5. NeverStuck /\ Here => ENABLED <<Handler>>_vars
  BY DEF NeverStuck, InHand
<1>6. Inv => TypeOK
  BY DEF Inv
<1>7. (alive /\ InHand(r) <=> Here) /\ (~alive \/ ~InHand(r) <=> ~Here)
  OBVIOUS
<1> HIDE DEF Here, At
<1>8. Running => (Here ~> ~Here)
  BY <1>1, <1>2, <1>3, <1>4, <1>5, <1>6, Invariance, PTL DEF Running, FairSpec, Spec, Fairness
<1> QED
  BY <1>7, <1>8, PTL DEF MovesOn
=============================================================================
