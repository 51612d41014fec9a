----------------------------- MODULE CardConfig -----------------------------
(***************************************************************************)
(* The cards of one door controller and what the card/setlist requests of  *)
(* the server make of them.  CM_HandleCardSet turns a message into the     *)
(* device's card structure; generic_handler hands it to a session of its   *)
(* own; the device applies it, or refuses it, some time later, and nothing *)
(* orders two sessions.                                                    *)
(***************************************************************************)
EXTENDS Integers, Sequences, FiniteSets

CONSTANTS
    Cards,          \* card numbers
    MaxDoorNum,     \* MAX_DOOR_NUM_256: length of byDoorRight and wCardRightPlan
    Messages,       \* the setlist messages considered
    MaxSent         \* bound: messages sent

Doors == 1 .. MaxDoorNum

(* The bits of ModifyParamType that CM_HandleCardSet looks at. *)
Params == {"CARD_VALID", "VALID", "CARD_TYPE", "DOOR_RIGHT", "LEADER_CARD",
           "PASSWORD", "RIGHT_PLAN"}

(* A message: a field is TRUE if its text is "1".  A channel that is left  *)
(* out, or is no number, is 0; the channels considered are those whose     *)
(* writes stay inside the structure's fields named below.                  *)
Message == [card : Cards, mask : SUBSET Params, channel : 0 .. MaxDoorNum,
            CardValid : BOOLEAN, CardType : 0 .. 9, LeaderCard : BOOLEAN,
            ValidEnable : BOOLEAN, DoorRight : BOOLEAN, CardRightPlan : BOOLEAN]

ASSUME CardAssumption ==
    /\ MaxDoorNum \in Nat \ {0}
    /\ Messages \subseteq Message
    /\ MaxSent \in Nat

(* The structure, seen through the header that declares it: byDoorRight[d] *)
(* is the right for door d + 1, wCardRightPlan[d] the plans of door d + 1. *)
(* A period is off, on with the message's dates, or on with no dates; a    *)
(* password is the card's own, empty or garbled.                           *)
CardFields == [type : 0 .. 8, leader : BOOLEAN, period : {"off", "dates", "zero"},
               right : SUBSET Doors, plan : SUBSET Doors,
               password : {"own", "empty", "garbled"}]
Absent == [absent |-> TRUE]

VARIABLES
    book,       \* the device: each card's fields, or Absent
    sent,       \* the messages handed to the device, in order
    pending,    \* those it has not decided on
    applied,    \* those it carried out, in the order it did
    tangled     \* the cards sent a message while another one was pending

vars == <<book, sent, pending, applied, tangled>>

TypeOK ==
    /\ book \in [Cards -> CardFields \cup {Absent}]
    /\ sent \in Seq(Messages) /\ Len(sent) <= MaxSent
    /\ pending \subseteq DOMAIN sent
    /\ applied \in Seq(DOMAIN sent)
    /\ tangled \subseteq Cards

(* What another tool left on the device: nothing, or a card that passes at *)
(* every door and has a password.                                          *)
Enrolled == [type |-> 1, leader |-> FALSE, period |-> "off",
             right |-> Doors, plan |-> Doors, password |-> "own"]

Init ==
    /\ book \in [Cards -> {Absent, Enrolled}]
    /\ sent = <<>> /\ applied = <<>>
    /\ pending = {} /\ tangled = {}

-----------------------------------------------------------------------------
(* CM_HandleCardSet.  The structure starts out all zero; a field whose bit *)
(* is not set, or whose text is not a value the code knows, stays zero.    *)

Asked(m, bit, text) == bit \in m.mask /\ text

(* Mutants of DoorRightField and CardRightPlanField: the doors below are   *)
(* included; both arrays are indexed alike.                                *)
DoorRightBelow(m) ==
    {d \in Doors : Asked(m, "DOOR_RIGHT", m.DoorRight) /\ d <= m.channel + 1}

PlanAtSameIndex(m) ==
    {d \in Doors : Asked(m, "RIGHT_PLAN", m.CardRightPlan) /\ d = m.channel + 1}

(* byDoorRight[DoorNo] = 1 *)
DoorRightField(m) ==
    {d \in Doors : Asked(m, "DOOR_RIGHT", m.DoorRight) /\ d = m.channel + 1}

(* wCardRightPlan[DoorNo - 1][0] = 1 *)
CardRightPlanField(m) ==
    {d \in Doors : Asked(m, "RIGHT_PLAN", m.CardRightPlan) /\ d = m.channel}

(* Mutants of PeriodField: byDoorRight is one shorter; a door right resets *)
(* the period.                                                             *)
PeriodShortArray(m) ==
    IF m.channel >= MaxDoorNum - 1 /\ Asked(m, "DOOR_RIGHT", m.DoorRight) THEN "zero"
    ELSE IF Asked(m, "VALID", m.ValidEnable) THEN "dates" ELSE "off"

PeriodReset(m) ==
    IF Asked(m, "VALID", m.ValidEnable) /\ "DOOR_RIGHT" \notin m.mask THEN "dates" ELSE "off"

(* struValid.  The byte behind byDoorRight is struValid.byEnable, and the  *)
(* door right is written after it.                                         *)
PeriodField(m) ==
    LET dates == Asked(m, "VALID", m.ValidEnable)
        byEnable == IF m.channel = MaxDoorNum THEN Asked(m, "DOOR_RIGHT", m.DoorRight)
                    ELSE dates
    IN  CASE ~byEnable -> "off"
          [] byEnable /\ dates -> "dates"
          [] byEnable /\ ~dates -> "zero"

(* byCardPassword is never filled in.  The word before wCardRightPlan[0]   *)
(* is one of its own, four before it is the start of byCardPassword.       *)
PasswordField(m) ==
    IF m.channel = 0 /\ Asked(m, "RIGHT_PLAN", m.CardRightPlan) THEN "garbled" ELSE "empty"

(* Mutants of CM_HandleCardSet: any CardType is taken over; every card is  *)
(* valid.                                                                  *)
AnyCardType(m) ==
    [byCardValid |-> Asked(m, "CARD_VALID", m.CardValid),
     fields |-> [type |-> m.CardType, leader |-> Asked(m, "LEADER_CARD", m.LeaderCard),
                 period |-> PeriodField(m), right |-> DoorRightField(m),
                 plan |-> CardRightPlanField(m), password |-> PasswordField(m)]]

AlwaysValid(m) == [AnyCardType(m) EXCEPT !.byCardValid = TRUE]

CM_HandleCardSet(m) ==
    [byCardValid |-> Asked(m, "CARD_VALID", m.CardValid),
     fields |-> [type |-> IF "CARD_TYPE" \in m.mask /\ m.CardType <= 8 THEN m.CardType ELSE 0,
                 leader |-> Asked(m, "LEADER_CARD", m.LeaderCard),
                 period |-> PeriodField(m),
                 right |-> DoorRightField(m),
                 plan |-> CardRightPlanField(m),
                 password |-> PasswordField(m)]]

-----------------------------------------------------------------------------
(* The device (external), as the header describes it: the bits of          *)
(* dwModifyParamType name the fields to take over, each of them whole, and *)
(* byCardValid = 0 under its bit deletes the card.                         *)

BitOf == [type |-> "CARD_TYPE", leader |-> "LEADER_CARD", period |-> "VALID",
          right |-> "DOOR_RIGHT", plan |-> "RIGHT_PLAN", password |-> "PASSWORD"]

Fresh == [type |-> 1, leader |-> FALSE, period |-> "off",
          right |-> {}, plan |-> {}, password |-> "empty"]

Modified(old, mask, cond) ==
    LET base == IF old = Absent THEN Fresh ELSE old
    IN  IF "CARD_VALID" \in mask /\ ~cond.byCardValid THEN Absent
        ELSE [f \in DOMAIN BitOf |-> IF BitOf[f] \in mask THEN cond.fields[f] ELSE base[f]]

-----------------------------------------------------------------------------
(* card/setlist, from a handler that got past its checks: the structure is *)
(* filled in and handed over.                                              *)
SetList(m) ==
    /\ Len(sent) < MaxSent
    /\ sent' = Append(sent, m)
    /\ pending' = pending \cup {Len(sent) + 1}
    /\ tangled' = IF \E k \in pending : sent[k].card = m.card
                  THEN tangled \cup {m.card} ELSE tangled
    /\ UNCHANGED <<book, applied>>

(* NET_SDK_CALLBACK_STATUS_SUCCESS *)
Applied(k) ==
    LET m == sent[k]
    IN  /\ k \in pending
        /\ pending' = pending \ {k}
        /\ applied' = Append(applied, k)
        /\ book' = [book EXCEPT ![m.card] = Modified(@, m.mask, CM_HandleCardSet(m))]
        /\ UNCHANGED <<sent, tangled>>

(* NET_SDK_CALLBACK_STATUS_FAILED *)
Refused(k) ==
    /\ k \in pending
    /\ pending' = pending \ {k}
    /\ UNCHANGED <<book, sent, applied, tangled>>

Next ==
    \/ \E m \in Messages : SetList(m)
    \/ \E k \in DOMAIN sent : Applied(k) \/ Refused(k)

Spec == Init /\ [][Next]_vars
-----------------------------------------------------------------------------
(* Properties                                                              *)

(* The messages about card c that were carried out with this bit. *)
Carried(c, bit) ==
    {k \in 1 .. Len(applied) : /\ sent[applied[k]].card = c
                               /\ bit \in sent[applied[k]].mask}

Msg(k) == sent[applied[k]]
Listed(c) == book[c] # Absent
Passes(c, d) == Listed(c) /\ d \in book[c].right \cap book[c].plan

(* The server can give a card a right, or a plan, at one door at most, in  *)
(* whatever order its messages are carried out: granting a second door     *)
(* takes the first away, since the device takes the whole array over.      *)
OneDoorPerCard ==
    \A c \in Cards : Listed(c) =>
        /\ Carried(c, "DOOR_RIGHT") # {} => Cardinality(book[c].right) <= 1
        /\ Carried(c, "RIGHT_PLAN") # {} => Cardinality(book[c].plan) <= 1

(* A card whose right and plan both come from the server passes at door d  *)
(* only after two messages about it, the right sent for channel d - 1 and  *)
(* the plan for channel d: no single message lets a card pass.             *)
PassTakesTwoMessages ==
    \A c \in Cards, d \in Doors :
        /\ Passes(c, d)
        /\ Carried(c, "DOOR_RIGHT") # {} /\ Carried(c, "RIGHT_PLAN") # {}
        => \E j \in Carried(c, "DOOR_RIGHT"), k \in Carried(c, "RIGHT_PLAN") :
               /\ j # k
               /\ Msg(j).channel = d - 1 /\ Msg(j).DoorRight
               /\ Msg(k).channel = d /\ Msg(k).CardRightPlan

(* The writes for a channel at either end of the range that land in a      *)
(* neighbouring field do harm only there, and only if the device is told   *)
(* to take that field over: any other channel leaves a card's password     *)
(* empty or as it was, and its validity period never without dates.        *)
CorruptionConfined ==
    \A c \in Cards : Listed(c) =>
        /\ book[c].password = "garbled" =>
               \E k \in Carried(c, "PASSWORD") :
                   Msg(k).channel = 0 /\ "RIGHT_PLAN" \in Msg(k).mask
        /\ book[c].period = "zero" =>
               \E k \in Carried(c, "VALID") :
                   Msg(k).channel = MaxDoorNum /\ "DOOR_RIGHT" \in Msg(k).mask

(* A validity period the server set is not lifted again by a message that  *)
(* turns it on, nor by one about something else, outside the last channel: *)
(* only a later message about the period, or the card's deletion, does it. *)
Outlived(c, k) ==
    \E j \in 1 .. Len(applied) :
        /\ j >= k /\ Msg(j).card = c
        /\ \/ j > k /\ "VALID" \in Msg(j).mask
           \/ "CARD_VALID" \in Msg(j).mask /\ ~Msg(j).CardValid

PeriodKept ==
    \A c \in Cards : Listed(c) /\ book[c].period = "off" =>
        \A k \in Carried(c, "VALID") :
            Msg(k).channel = MaxDoorNum \/ ~Msg(k).ValidEnable \/ Outlived(c, k)

(* A card whose last message deletes it is gone once the device has said   *)
(* so, unless that message overlapped an earlier one about the same card:  *)
(* the next message sent need not be the next carried out.                 *)
LastOf(c) == {k \in DOMAIN sent : /\ sent[k].card = c
                                  /\ \A j \in DOMAIN sent : sent[j].card = c => j <= k}

DeletionSticks ==
    \A c \in Cards \ tangled : \A k \in LastOf(c) :
        /\ "CARD_VALID" \in sent[k].mask /\ ~sent[k].CardValid
        /\ \E j \in 1 .. Len(applied) : applied[j] = k
        => ~Listed(c)
-----------------------------------------------------------------------------
(* What the repository says and the code does not do                       *)

Everything == {"CARD_VALID", "DOOR_RIGHT", "RIGHT_PLAN"}

(* "To make a card pass, it must be valid, have the right for the door and *)
(* a plan for the door, and be within its period": a message that grants   *)
(* all of that at a channel lets the card pass at that door.               *)
GrantLetsPass ==
    \A c \in Cards : c \notin tangled =>
        \A k \in LastOf(c) :
            LET m == sent[k]
            IN  /\ applied # <<>> /\ applied[Len(applied)] = k
                /\ Everything \subseteq m.mask /\ m.channel \in Doors
                /\ m.CardValid /\ m.DoorRight /\ m.CardRightPlan
                => Passes(c, m.channel)
=============================================================================
