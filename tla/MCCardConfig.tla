---------------------------- MODULE MCCardConfig ----------------------------
(* Messages about one card; nothing in the model relates two of them.  Of  *)
(* the channels, 0 is before the plans, 1 is inside both arrays, and 2,    *)
(* which stands for 256, is behind the rights.                             *)
EXTENDS CardConfig

CONSTANTS c1

OneCard == {c1}

Plain(c, channel, mask) ==
    [card |-> c, mask |-> mask, channel |-> channel, CardValid |-> TRUE,
     CardType |-> 1, LeaderCard |-> FALSE, ValidEnable |-> TRUE,
     DoorRight |-> TRUE, CardRightPlan |-> TRUE]

Delete(c) == [Plain(c, 0, {"CARD_VALID"}) EXCEPT !.CardValid = FALSE]

Masks == {{"DOOR_RIGHT"}, {"RIGHT_PLAN"}, {"CARD_VALID", "DOOR_RIGHT", "RIGHT_PLAN"},
          {"VALID", "DOOR_RIGHT"}, {"PASSWORD", "RIGHT_PLAN"}}

OneCardMessages ==
    {Plain(c1, n, s) : n \in 0 .. MaxDoorNum, s \in Masks}
    \cup {Delete(c1), [Delete(c1) EXCEPT !.mask = {"CARD_VALID", "VALID"}]}
    \cup {[Plain(c1, n, {"VALID", "DOOR_RIGHT"}) EXCEPT !.ValidEnable = FALSE] :
             n \in 1 .. MaxDoorNum}
    \cup {[Plain(c1, n, {"DOOR_RIGHT"}) EXCEPT !.DoorRight = FALSE] : n \in 0 .. 1}
    \cup {Plain(c1, 1, {"VALID"}),
          [Plain(c1, 1, {"CARD_VALID", "CARD_TYPE", "LEADER_CARD"}) EXCEPT !.CardType = 9]}
=============================================================================
