------------------------- MODULE CardConfigProofs -------------------------
(* What the card settings can make of a card, for every number of doors,   *)
(* set of messages and order in which the device carries them out.         *)
EXTENDS CardConfig, FiniteSetTheorems, SequenceTheorems, TLAPS

(* A field of a listed card is the one it was enrolled with, unless the    *)
(* server has sent it; or a new card's; or one that a message carried out  *)
(* has put there.                                                          *)
OriginInv ==
    \A c \in Cards : Listed(c) => \A f \in DOMAIN BitOf :
        \/ Carried(c, BitOf[f]) = {} /\ book[c][f] = Enrolled[f]
        \/ book[c][f] = Fresh[f]
        \/ \E k \in Carried(c, BitOf[f]) : book[c][f] = CM_HandleCardSet(Msg(k)).fields[f]

(* A message about the validity period is the device's last word on it,    *)
(* until a later one about it or the card's deletion.                      *)
PeriodInv ==
    \A c \in Cards : \A k \in Carried(c, "VALID") :
        \/ Outlived(c, k)
        \/ /\ Listed(c)
           /\ \/ book[c].period # "off"
              \/ Msg(k).channel = MaxDoorNum
              \/ ~Msg(k).ValidEnable

(* The device decides once on a message; of a card none of whose messages  *)
(* overlapped, the last one only can be pending.                           *)
OrderInv ==
    /\ \A j \in 1 .. Len(applied) : applied[j] \notin pending
    /\ \A c \in Cards \ tangled, k \in pending :
           sent[k].card = c => \A j \in DOMAIN sent : sent[j].card = c => j <= k

CardInv == TypeOK /\ OriginInv /\ PeriodInv /\ OrderInv /\ DeletionSticks

-----------------------------------------------------------------------------
(* A card the device has changed, not deleted, keeps each field whose bit  *)
(* the message does not set.                                               *)
LEMMA ModifiedFields ==
    ASSUME NEW old, NEW m,
           Modified(old, m.mask, CM_HandleCardSet(m)) # Absent
    PROVE  \A f \in DOMAIN BitOf :
               Modified(old, m.mask, CM_HandleCardSet(m))[f] =
                   IF BitOf[f] \in m.mask THEN CM_HandleCardSet(m).fields[f]
                   ELSE IF old = Absent THEN Fresh[f] ELSE old[f]
  BY DEF Modified

(* The device deletes a card exactly if the message says so. *)
LEMMA ModifiedDeletes ==
    ASSUME NEW old, NEW m
    PROVE  Modified(old, m.mask, CM_HandleCardSet(m)) = Absent
               <=> "CARD_VALID" \in m.mask /\ ~m.CardValid
<1>1. DOMAIN BitOf # DOMAIN Absent
  BY DEF BitOf, Absent
<1>2. ("CARD_VALID" \in m.mask /\ ~CM_HandleCardSet(m).byCardValid)
          <=> "CARD_VALID" \in m.mask /\ ~m.CardValid
  BY DEF CM_HandleCardSet, Asked
<1> QED
  BY <1>1, <1>2 DEF Modified

(* The structure the server fills in has the types of a card's fields. *)
LEMMA FieldsTyped ==
    ASSUME NEW m \in Message
    PROVE  CM_HandleCardSet(m).fields \in CardFields
<1>1. PeriodField(m) \in {"off", "dates", "zero"}
  BY DEF PeriodField, Asked
<1>2. DoorRightField(m) \in SUBSET Doors /\ CardRightPlanField(m) \in SUBSET Doors
  BY DEF DoorRightField, CardRightPlanField
<1>3. PasswordField(m) \in {"own", "empty", "garbled"}
  BY DEF PasswordField
<1>4. m.CardType \in 0 .. 9 /\ m.LeaderCard \in BOOLEAN
  BY DEF Message
<1> QED
  BY <1>1, <1>2, <1>3, <1>4 DEF CM_HandleCardSet, CardFields, Asked

(* So has a card the device has changed. *)
LEMMA ModifiedTyped ==
    ASSUME NEW m \in Message, NEW old \in CardFields \cup {Absent}
    PROVE  Modified(old, m.mask, CM_HandleCardSet(m)) \in CardFields \cup {Absent}
<1> DEFINE new == Modified(old, m.mask, CM_HandleCardSet(m))
           base == IF old = Absent THEN Fresh ELSE old
           fields == CM_HandleCardSet(m).fields
<1>1. fields \in CardFields
  BY FieldsTyped
<1>2. Fresh \in CardFields
  BY DEF Fresh, CardFields
<1>3. base \in CardFields
  BY <1>2
<1>4. SUFFICES ASSUME new # Absent PROVE new \in CardFields
  OBVIOUS
<1>5. new = [f \in DOMAIN BitOf |-> IF BitOf[f] \in m.mask THEN fields[f] ELSE base[f]]
  BY <1>4 DEF Modified
<1>6. DOMAIN BitOf = {"type", "leader", "period", "right", "plan", "password"}
  BY DEF BitOf
<1> HIDE DEF new, base, fields
<1>7. /\ new.type \in 0 .. 8 /\ new.leader \in BOOLEAN
      /\ new.period \in {"off", "dates", "zero"}
      /\ new.right \in SUBSET Doors /\ new.plan \in SUBSET Doors
      /\ new.password \in {"own", "empty", "garbled"}
  BY <1>1, <1>3, <1>5, <1>6 DEF CardFields
<1>8. new = [type |-> new.type, leader |-> new.leader, period |-> new.period,
             right |-> new.right, plan |-> new.plan, password |-> new.password]
  BY <1>5, <1>6
<1> QED
  BY <1>7, <1>8 DEF CardFields

-----------------------------------------------------------------------------
LEMMA InitCard == Init => CardInv
<1> SUFFICES ASSUME Init PROVE CardInv
  OBVIOUS
<1>1. Enrolled \in CardFields
  BY DEF Enrolled, CardFields, Doors
<1>2. /\ sent \in Seq(Messages) /\ Len(sent) = 0 /\ DOMAIN sent = {}
      /\ applied \in Seq(DOMAIN sent) /\ Len(applied) = 0
  BY EmptySeq DEF Init
<1>3. TypeOK
  BY <1>1, <1>2, CardAssumption DEF Init, TypeOK
<1>4. \A c \in Cards, b \in Params : Carried(c, b) = {}
  BY <1>2 DEF Carried
<1>5. \A f \in DOMAIN BitOf : BitOf[f] \in Params
  BY DEF BitOf, Params
<1>6. OriginInv
  BY <1>4, <1>5 DEF Init, OriginInv, Listed
<1>7. PeriodInv
  BY <1>4 DEF PeriodInv, Params
<1>8. OrderInv /\ DeletionSticks
  BY <1>2 DEF Init, OrderInv, DeletionSticks, LastOf
<1> QED
  BY <1>3, <1>6, <1>7, <1>8 DEF CardInv

(* A message handed over, or refused, changes no card. *)
LEMMA SendKeeps ==
    ASSUME CardInv, NEW m \in Messages, SetList(m)
    PROVE  CardInv'
<1>1. /\ sent \in Seq(Messages) /\ applied \in Seq(DOMAIN sent)
      /\ sent' = Append(sent, m) /\ sent' \in Seq(Messages)
      /\ Len(sent') = Len(sent) + 1 /\ sent'[Len(sent) + 1] = m
      /\ \A i \in 1 .. Len(sent) : sent'[i] = sent[i]
      /\ Len(sent) \in Nat /\ Len(sent) < MaxSent
      /\ DOMAIN sent = 1 .. Len(sent) /\ DOMAIN sent' = 1 .. Len(sent')
      /\ UNCHANGED <<book, applied>>
      /\ pending \subseteq DOMAIN sent /\ tangled \subseteq Cards
  BY AppendProperties DEF CardInv, TypeOK, SetList
<1>2. m.card \in Cards
  BY CardAssumption DEF Message
<1>3. DOMAIN sent \subseteq DOMAIN sent' /\ Len(sent) + 1 \in DOMAIN sent'
  BY <1>1
<1>4. TypeOK'
  <2>1. applied' \in Seq(DOMAIN sent')
    BY <1>1, <1>3
  <2>2. pending' \subseteq DOMAIN sent' /\ tangled' \subseteq Cards
    BY <1>1, <1>2, <1>3 DEF SetList
  <2>3. Len(sent') <= MaxSent
    BY <1>1, CardAssumption
  <2> QED
    BY <1>1, <2>1, <2>2, <2>3 DEF CardInv, TypeOK
<1>5. \A k \in 1 .. Len(applied) : applied[k] \in 1 .. Len(sent) /\ Msg(k)' = Msg(k)
  <2> SUFFICES ASSUME NEW k \in 1 .. Len(applied)
               PROVE  applied[k] \in 1 .. Len(sent) /\ Msg(k)' = Msg(k)
    OBVIOUS
  <2>1. applied[k] \in DOMAIN sent
    BY <1>1, ElementOfSeq
  <2> QED
    BY <1>1, <2>1 DEF Msg
<1>6. \A c, b : Carried(c, b)' = Carried(c, b)
  BY <1>1, <1>5 DEF Carried, Msg
<1>7. OriginInv'
  <2> SUFFICES ASSUME NEW c \in Cards, Listed(c)', NEW f \in DOMAIN BitOf
               PROVE  \/ Carried(c, BitOf[f])' = {} /\ book'[c][f] = Enrolled[f]
                      \/ book'[c][f] = Fresh[f]
                      \/ \E k \in Carried(c, BitOf[f])' :
                             book'[c][f] = CM_HandleCardSet(Msg(k)').fields[f]
    BY DEF OriginInv
  <2>1. \/ Carried(c, BitOf[f]) = {} /\ book[c][f] = Enrolled[f]
        \/ book[c][f] = Fresh[f]
        \/ \E k \in Carried(c, BitOf[f]) : book[c][f] = CM_HandleCardSet(Msg(k)).fields[f]
    BY <1>1 DEF CardInv, OriginInv, Listed
  <2>2. \A k \in Carried(c, BitOf[f]) : Msg(k)' = Msg(k)
    BY <1>5 DEF Carried
  <2>3. Carried(c, BitOf[f])' = Carried(c, BitOf[f]) /\ book' = book
    BY <1>1, <1>6
  <2>4. CASE \E k \in Carried(c, BitOf[f]) :
                book[c][f] = CM_HandleCardSet(Msg(k)).fields[f]
    <3>1. PICK k \in Carried(c, BitOf[f]) :
                   book[c][f] = CM_HandleCardSet(Msg(k)).fields[f]
      BY <2>4
    <3>2. Msg(k)' = Msg(k)
      BY <2>2
    <3>3. book'[c][f] = CM_HandleCardSet(Msg(k)').fields[f]
      BY <2>3, <3>1, <3>2
    <3>4. k \in Carried(c, BitOf[f])'
      BY <2>3
    <3> QED
      BY Zenon, <3>3, <3>4
  <2>5. CASE Carried(c, BitOf[f]) = {} /\ book[c][f] = Enrolled[f]
    BY <2>3, <2>5
  <2>6. CASE book[c][f] = Fresh[f]
    BY <2>3, <2>6
  <2> QED
    BY Zenon, <2>1, <2>4, <2>5, <2>6
<1>8. PeriodInv'
  <2> SUFFICES ASSUME NEW c \in Cards, NEW k \in Carried(c, "VALID")'
               PROVE  \/ Outlived(c, k)'
                      \/ /\ Listed(c)'
                         /\ \/ book'[c].period # "off"
                            \/ Msg(k)'.channel = MaxDoorNum
                            \/ ~Msg(k)'.ValidEnable
    BY DEF PeriodInv
  <2>1. k \in Carried(c, "VALID") /\ Msg(k)' = Msg(k)
    BY <1>1, <1>5, <1>6 DEF Carried
  <2>2. Listed(c)' = Listed(c) /\ book' = book
    BY <1>1 DEF Listed
  <2>3. CASE Outlived(c, k)
    BY <1>1, <1>5, <2>3 DEF Outlived
  <2>4. CASE ~Outlived(c, k)
    BY <2>1, <2>2, <2>4 DEF CardInv, PeriodInv
  <2> QED
    BY <2>3, <2>4
<1>9. OrderInv'
  <2>1. \A j \in 1 .. Len(applied') : applied'[j] \notin pending'
    BY <1>1, <1>5 DEF CardInv, OrderInv, SetList
  <2>2. ASSUME NEW c \in Cards \ tangled', NEW k \in pending', sent'[k].card = c,
               NEW j \in DOMAIN sent', sent'[j].card = c
        PROVE  j <= k
    <3>1. CASE k = Len(sent) + 1
      BY <1>1, <3>1
    <3>2. CASE k \in pending
      <4>1. sent[k].card = c /\ c # m.card /\ c \notin tangled
        BY <1>1, <2>2, <3>2 DEF SetList
      <4>2. j \in DOMAIN sent /\ sent[j].card = c
        BY <1>1, <2>2, <4>1
      <4> QED
        BY <3>2, <4>1, <4>2 DEF CardInv, OrderInv
    <3> QED
      BY <2>2, <3>1, <3>2 DEF SetList
  <2> QED
    BY <2>1, <2>2 DEF OrderInv
<1>10. DeletionSticks'
  <2> SUFFICES ASSUME NEW c \in Cards \ tangled', NEW k \in LastOf(c)',
                      "CARD_VALID" \in sent'[k].mask, ~sent'[k].CardValid,
                      NEW i \in 1 .. Len(applied'), applied'[i] = k
               PROVE  ~Listed(c)'
    BY DEF DeletionSticks
  <2>1. k \in DOMAIN sent /\ sent'[k] = sent[k] /\ i \in 1 .. Len(applied) /\ applied[i] = k
    BY <1>1, <1>5
  <2>2. k \in LastOf(c)
    BY <1>1, <1>3, <2>1 DEF LastOf
  <2>3. c \in Cards \ tangled
    BY DEF SetList
  <2> QED
    BY <1>1, <2>1, <2>2, <2>3 DEF CardInv, DeletionSticks, Listed
<1> QED
  BY <1>4, <1>7, <1>8, <1>9, <1>10 DEF CardInv

LEMMA RefuseKeeps ==
    ASSUME CardInv, NEW k \in DOMAIN sent, Refused(k)
    PROVE  CardInv'
<1>1. pending' \subseteq pending /\ UNCHANGED <<book, sent, applied, tangled>>
  BY DEF Refused
<1>2. TypeOK' /\ OrderInv'
  BY <1>1 DEF CardInv, TypeOK, OrderInv
<1>3. \A c : Listed(c)' = Listed(c)
  BY <1>1 DEF Listed
<1>4. \A j : Msg(j)' = Msg(j)
  BY <1>1 DEF Msg
<1>5. \A c, b : Carried(c, b)' = Carried(c, b)
  BY <1>1 DEF Carried
<1>6. OriginInv' /\ PeriodInv'
  BY <1>1, <1>3, <1>4, <1>5 DEF CardInv, OriginInv, PeriodInv, Outlived
<1>7. DeletionSticks'
  BY <1>1, <1>3 DEF CardInv, DeletionSticks, LastOf
<1> QED
  BY <1>2, <1>6, <1>7 DEF CardInv

(* A message carried out changes its card alone. *)
LEMMA ApplyKeeps ==
    ASSUME CardInv, NEW k \in DOMAIN sent, Applied(k)
    PROVE  CardInv'
<1>0. PICK m, n : m = sent[k] /\ n = Len(applied) + 1
  OBVIOUS
<1>1. /\ sent \in Seq(Messages) /\ applied \in Seq(DOMAIN sent)
      /\ applied' = Append(applied, k) /\ applied' \in Seq(DOMAIN sent)
      /\ Len(applied') = n /\ applied'[n] = k
      /\ \A i \in 1 .. Len(applied) : applied'[i] = applied[i]
      /\ Len(applied) \in Nat /\ DOMAIN sent = 1 .. Len(sent) /\ Len(sent) \in Nat
      /\ UNCHANGED <<sent, tangled>> /\ k \in pending /\ pending' = pending \ {k}
      /\ book \in [Cards -> CardFields \cup {Absent}]
      /\ book' = [book EXCEPT ![m.card] = Modified(@, m.mask, CM_HandleCardSet(m))]
  BY <1>0, AppendProperties DEF CardInv, TypeOK, Applied
<1>2. m \in Message /\ m.card \in Cards
  BY <1>0, <1>1, CardAssumption, ElementOfSeq DEF Message
<1>3. TypeOK'
  <2>1. Modified(book[m.card], m.mask, CM_HandleCardSet(m)) \in CardFields \cup {Absent}
    BY <1>1, <1>2, ModifiedTyped
  <2>2. book' \in [Cards -> CardFields \cup {Absent}]
    BY <1>1, <2>1
  <2> QED
    BY <1>1, <2>2 DEF CardInv, TypeOK
<1>4. /\ n \in 1 .. Len(applied') /\ Msg(n)' = m
      /\ \A i \in 1 .. Len(applied) :
             i \in 1 .. Len(applied') /\ i < n /\ Msg(i)' = Msg(i)
      /\ \A i \in 1 .. Len(applied') : i = n \/ i \in 1 .. Len(applied)
  BY <1>0, <1>1 DEF Msg
<1>5. ASSUME NEW c, NEW b
      PROVE  Carried(c, b)' =
                 Carried(c, b) \cup (IF c = m.card /\ b \in m.mask THEN {n} ELSE {})
  BY <1>1, <1>4 DEF Carried, Msg
<1>6. ASSUME NEW c \in Cards
      PROVE  book'[c] = IF c = m.card THEN Modified(book[c], m.mask, CM_HandleCardSet(m))
                        ELSE book[c]
  BY <1>1, <1>2
<1>7. \A c, b : \A i \in Carried(c, b) : i \in 1 .. Len(applied) /\ Msg(i)' = Msg(i)
  BY <1>4 DEF Carried
<1>8. OriginInv'
  <2> SUFFICES ASSUME NEW c \in Cards, Listed(c)', NEW f \in DOMAIN BitOf
               PROVE  \/ Carried(c, BitOf[f])' = {} /\ book'[c][f] = Enrolled[f]
                      \/ book'[c][f] = Fresh[f]
                      \/ \E j \in Carried(c, BitOf[f])' :
                             book'[c][f] = CM_HandleCardSet(Msg(j)').fields[f]
    BY DEF OriginInv
  <2>1. Listed(c) =>
            \/ Carried(c, BitOf[f]) = {} /\ book[c][f] = Enrolled[f]
            \/ book[c][f] = Fresh[f]
            \/ \E j \in Carried(c, BitOf[f]) : book[c][f] = CM_HandleCardSet(Msg(j)).fields[f]
    BY DEF CardInv, OriginInv
  <2>2. CASE c = m.card /\ BitOf[f] \in m.mask
    <3>1. n \in Carried(c, BitOf[f])'
      BY <1>5, <2>2
    <3>2. book'[c][f] = CM_HandleCardSet(m).fields[f]
      BY <1>6, <2>2, ModifiedFields DEF Listed
    <3> QED
      BY <1>4, <3>1, <3>2
  <2>3. CASE ~(c = m.card /\ BitOf[f] \in m.mask)
    <3>1. Carried(c, BitOf[f])' = Carried(c, BitOf[f])
      BY <1>5, <2>3
    <3>2. CASE Listed(c)
      <4>1. book'[c][f] = book[c][f]
        BY <1>6, <2>3, <3>2, ModifiedFields DEF Listed
      <4> QED
        BY <1>7, <2>1, <3>1, <3>2, <4>1
    <3>3. CASE ~Listed(c)
      BY <1>6, <2>3, <3>3, ModifiedFields DEF Listed
    <3> QED
      BY <3>2, <3>3
  <2> QED
    BY <2>2, <2>3
<1>9. PeriodInv'
  <2> SUFFICES ASSUME NEW c \in Cards, NEW i \in Carried(c, "VALID")'
               PROVE  \/ Outlived(c, i)'
                      \/ /\ Listed(c)'
                         /\ \/ book'[c].period # "off"
                            \/ Msg(i)'.channel = MaxDoorNum
                            \/ ~Msg(i)'.ValidEnable
    BY DEF PeriodInv
  <2>1. Outlived(c, i) => Outlived(c, i)'
    BY <1>4 DEF Outlived
  <2>2. CASE i \in Carried(c, "VALID") /\ c # m.card
    BY <1>6, <1>7, <2>1, <2>2 DEF CardInv, PeriodInv, Listed
  <2>3. CASE c = m.card /\ "CARD_VALID" \in m.mask /\ ~m.CardValid
    <3>1. n >= i
      <4>1. i \in Carried(c, "VALID") \/ i = n
        BY <1>5
      <4>2. n \in Nat /\ \A j \in Carried(c, "VALID") : j \in Nat /\ j < n
        BY <1>4, <1>7
      <4> QED
        BY <4>1, <4>2
    <3>2. n \in 1 .. Len(applied') /\ Msg(n)' = m
      BY <1>4
    <3> QED
      BY <2>3, <3>1, <3>2 DEF Outlived
  <2>4. CASE c = m.card /\ ~("CARD_VALID" \in m.mask /\ ~m.CardValid)
    <3>1. Listed(c)'
      BY <1>6, <2>4, ModifiedDeletes DEF Listed
    <3>2. CASE "VALID" \in m.mask
      <4>1. CASE i \in Carried(c, "VALID")
        BY <1>4, <1>7, <2>4, <3>2, <4>1 DEF Outlived
      <4>2. CASE i = n
        <5>1. "period" \in DOMAIN BitOf /\ BitOf["period"] = "VALID"
          BY DEF BitOf
        <5>2. book'[c].period = PeriodField(m)
          <6>1. CM_HandleCardSet(m).fields.period = PeriodField(m)
            BY DEF CM_HandleCardSet
          <6> QED
            BY <1>6, <2>4, <3>1, <3>2, <5>1, <6>1, ModifiedFields DEF Listed
        <5>3. PeriodField(m) # "off" \/ m.channel = MaxDoorNum \/ ~m.ValidEnable
          BY <3>2 DEF PeriodField, Asked
        <5> QED
          BY <1>4, <3>1, <4>2, <5>2, <5>3
      <4> QED
        BY <1>5, <4>1, <4>2
    <3>3. CASE "VALID" \notin m.mask
      <4>1. i \in Carried(c, "VALID")
        BY <1>5, <3>3
      <4>2. CASE Listed(c)
        <5>1. "period" \in DOMAIN BitOf /\ BitOf["period"] = "VALID"
          BY DEF BitOf
        <5>2. book'[c].period = book[c].period
          BY <1>6, <2>4, <3>1, <3>3, <4>2, <5>1, ModifiedFields DEF Listed
        <5> QED
          BY <1>7, <2>1, <3>1, <4>1, <5>2 DEF CardInv, PeriodInv
      <4>3. CASE ~Listed(c)
        BY <2>1, <4>1, <4>3 DEF CardInv, PeriodInv
      <4> QED
        BY <4>2, <4>3
    <3> QED
      BY <3>2, <3>3
  <2> QED
    BY <1>5, <2>2, <2>3, <2>4
<1>10. OrderInv'
  <2>1. \A j \in 1 .. Len(applied') : applied'[j] \notin pending'
    BY <1>1, <1>4 DEF CardInv, OrderInv
  <2> QED
    BY <1>1, <2>1 DEF CardInv, OrderInv
<1>11. DeletionSticks'
  <2> SUFFICES ASSUME NEW c \in Cards \ tangled', NEW l \in LastOf(c)',
                      "CARD_VALID" \in sent'[l].mask, ~sent'[l].CardValid,
                      NEW i \in 1 .. Len(applied'), applied'[i] = l
               PROVE  ~Listed(c)'
    BY DEF DeletionSticks
  <2>1. l \in LastOf(c) /\ c \notin tangled /\ sent'[l] = sent[l]
        /\ l \in DOMAIN sent /\ sent[l].card = c
    BY <1>1 DEF LastOf
  <2>2. CASE c # m.card
    <3>1. i \in 1 .. Len(applied) /\ applied[i] = l
      BY <1>0, <1>1, <1>4, <2>1, <2>2
    <3> QED
      BY <1>6, <2>1, <2>2, <3>1 DEF CardInv, DeletionSticks, Listed
  <2>3. CASE c = m.card
    <3>1. l <= k /\ k <= l
      BY <1>0, <1>1, <2>1, <2>3 DEF CardInv, OrderInv, LastOf
    <3>2. l = k
      BY <1>1, <2>1, <3>1
    <3> QED
      BY <1>0, <1>6, <2>1, <2>3, <3>2, ModifiedDeletes DEF Listed
  <2> QED
    BY <2>2, <2>3
<1> QED
  BY <1>3, <1>8, <1>9, <1>10, <1>11 DEF CardInv

-----------------------------------------------------------------------------
(* The invariant holds in every behaviour: whatever messages are sent, in  *)
(* whatever order the device carries them out or refuses them.             *)
THEOREM Invariance == Spec => []CardInv
<1>1. CardInv /\ [Next]_vars => CardInv'
  <2> SUFFICES ASSUME CardInv, [Next]_vars PROVE CardInv'
    OBVIOUS
  <2>1. ASSUME NEW m \in Messages, SetList(m) PROVE CardInv'
    BY <2>1, SendKeeps
  <2>2. ASSUME NEW k \in DOMAIN sent, Applied(k) PROVE CardInv'
    BY <2>2, ApplyKeeps
  <2>3. ASSUME NEW k \in DOMAIN sent, Refused(k) PROVE CardInv'
    BY <2>3, RefuseKeeps
  <2>4. CASE UNCHANGED vars
    <3>1. /\ \A k : Msg(k)' = Msg(k)
          /\ \A c : Listed(c)' = Listed(c) /\ LastOf(c)' = LastOf(c)
          /\ \A c, b : Carried(c, b)' = Carried(c, b)
      BY <2>4 DEF vars, Msg, Listed, LastOf, Carried
    <3>2. \A c, k : Outlived(c, k)' = Outlived(c, k)
      BY <2>4, <3>1 DEF vars, Outlived
    <3>3. TypeOK'
      BY <2>4 DEF vars, CardInv, TypeOK
    <3>4. OriginInv'
      BY <2>4, <3>1 DEF vars, CardInv, OriginInv
    <3>5. PeriodInv'
      BY <2>4, <3>1, <3>2 DEF vars, CardInv, PeriodInv
    <3>6. OrderInv'
      BY <2>4 DEF vars, CardInv, OrderInv
    <3>7. DeletionSticks'
      BY <2>4, <3>1 DEF vars, CardInv, DeletionSticks
    <3> QED
      BY <3>3, <3>4, <3>5, <3>6, <3>7 DEF CardInv
  <2> QED
    BY <2>1, <2>2, <2>3, <2>4 DEF Next
<1> QED
  BY InitCard, <1>1, PTL DEF Spec

(* The device's cards keep the types of their fields. *)
THEOREM TypeCorrect == Spec => []TypeOK
<1>1. CardInv => TypeOK
  BY DEF CardInv
<1> QED
  BY <1>1, Invariance, PTL

(* What a field is, once the server has sent it. *)
LEMMA SentField ==
    ASSUME CardInv, NEW c \in Cards, Listed(c), NEW f \in DOMAIN BitOf,
           Carried(c, BitOf[f]) # {}
    PROVE  \/ book[c][f] = Fresh[f]
           \/ \E k \in Carried(c, BitOf[f]) : book[c][f] = CM_HandleCardSet(Msg(k)).fields[f]
  BY DEF CardInv, OriginInv

(* The rights and the plans of a card, once the server has sent them. *)
LEMMA SentDoors ==
    ASSUME CardInv, NEW c \in Cards, Listed(c)
    PROVE  /\ Carried(c, "DOOR_RIGHT") # {} =>
                  book[c].right = {} \/ \E k \in Carried(c, "DOOR_RIGHT") :
                                           book[c].right = DoorRightField(Msg(k))
           /\ Carried(c, "RIGHT_PLAN") # {} =>
                  book[c].plan = {} \/ \E k \in Carried(c, "RIGHT_PLAN") :
                                          book[c].plan = CardRightPlanField(Msg(k))
<1>1. /\ {"right", "plan"} \subseteq DOMAIN BitOf
      /\ BitOf["right"] = "DOOR_RIGHT" /\ BitOf["plan"] = "RIGHT_PLAN"
      /\ Fresh["right"] = {} /\ Fresh["plan"] = {}
  BY DEF BitOf, Fresh
<1>2. \A m : /\ CM_HandleCardSet(m).fields["right"] = DoorRightField(m)
             /\ CM_HandleCardSet(m).fields["plan"] = CardRightPlanField(m)
  BY DEF CM_HandleCardSet
<1>3. ASSUME Carried(c, "DOOR_RIGHT") # {}
      PROVE  book[c]["right"] = {} \/ \E k \in Carried(c, "DOOR_RIGHT") :
                                         book[c]["right"] = DoorRightField(Msg(k))
  BY <1>1, <1>2, <1>3, SentField
<1>4. ASSUME Carried(c, "RIGHT_PLAN") # {}
      PROVE  book[c]["plan"] = {} \/ \E k \in Carried(c, "RIGHT_PLAN") :
                                        book[c]["plan"] = CardRightPlanField(Msg(k))
  BY <1>1, <1>2, <1>4, SentField
<1> QED
  BY <1>3, <1>4

(* The server gives a card a right, or a plan, at one door at most,        *)
(* whatever it is sent: each message replaces the array as a whole.        *)
THEOREM OneDoorPerCardThm == Spec => []OneDoorPerCard
<1>1. ASSUME NEW S, NEW x, S \subseteq {x} PROVE Cardinality(S) <= 1
  <2>1. Cardinality({}) = 0 /\ Cardinality({x}) = 1
    BY FS_EmptySet, FS_Singleton
  <2>2. S = {} \/ S = {x}
    BY <1>1
  <2> QED
    BY <2>1, <2>2
<1>2. CardInv => OneDoorPerCard
  <2> SUFFICES ASSUME CardInv, NEW c \in Cards, Listed(c)
               PROVE  /\ Carried(c, "DOOR_RIGHT") # {} => Cardinality(book[c].right) <= 1
                      /\ Carried(c, "RIGHT_PLAN") # {} => Cardinality(book[c].plan) <= 1
    BY DEF OneDoorPerCard
  <2>1. \A m : /\ DoorRightField(m) \subseteq {m.channel + 1}
               /\ CardRightPlanField(m) \subseteq {m.channel}
    BY DEF DoorRightField, CardRightPlanField
  <2>2. Cardinality({}) <= 1
    BY <1>1
  <2>3. \A m : Cardinality(DoorRightField(m)) <= 1 /\ Cardinality(CardRightPlanField(m)) <= 1
    BY <1>1, <2>1
  <2> QED
    BY <2>2, <2>3, SentDoors
<1> QED
  BY <1>2, Invariance, PTL

(* No single message lets a card pass at a door: right and plan at one     *)
(* door come from two messages, for two channels.                          *)
THEOREM PassTakesTwoMessagesThm == Spec => []PassTakesTwoMessages
<1>1. CardInv => PassTakesTwoMessages
  <2> SUFFICES ASSUME CardInv, NEW c \in Cards, NEW d \in Doors, Passes(c, d),
                      Carried(c, "DOOR_RIGHT") # {}, Carried(c, "RIGHT_PLAN") # {}
               PROVE  \E j \in Carried(c, "DOOR_RIGHT"), k \in Carried(c, "RIGHT_PLAN") :
                          /\ j # k
                          /\ Msg(j).channel = d - 1 /\ Msg(j).DoorRight
                          /\ Msg(k).channel = d /\ Msg(k).CardRightPlan
    BY DEF PassTakesTwoMessages
  <2>1. PICK j \in Carried(c, "DOOR_RIGHT") : book[c].right = DoorRightField(Msg(j))
    BY SentDoors DEF Passes
  <2>2. PICK k \in Carried(c, "RIGHT_PLAN") : book[c].plan = CardRightPlanField(Msg(k))
    BY SentDoors DEF Passes
  <2>3. Msg(j).channel \in Nat /\ d \in Nat
    <3>1. applied[j] \in DOMAIN sent
      BY ElementOfSeq DEF CardInv, TypeOK, Carried
    <3>2. Msg(j) \in Messages
      BY <3>1, ElementOfSeq DEF CardInv, TypeOK, Msg
    <3> QED
      BY <3>2, CardAssumption DEF Message, Doors
  <2>4. d = Msg(j).channel + 1 /\ Msg(j).DoorRight
    BY <2>1 DEF Passes, DoorRightField, Asked
  <2>5. d = Msg(k).channel /\ Msg(k).CardRightPlan
    BY <2>2 DEF Passes, CardRightPlanField, Asked
  <2> QED
    BY <2>3, <2>4, <2>5
<1> QED
  BY <1>1, Invariance, PTL

(* A write past one of the arrays harms the field beside it only, and only *)
(* when the device is told to take that field over.                        *)
THEOREM CorruptionIsConfined == Spec => []CorruptionConfined
<1>1. CardInv => CorruptionConfined
  <2> SUFFICES ASSUME CardInv, NEW c \in Cards, Listed(c)
               PROVE  /\ book[c]["password"] = "garbled" =>
                             \E k \in Carried(c, "PASSWORD") :
                                 Msg(k).channel = 0 /\ "RIGHT_PLAN" \in Msg(k).mask
                      /\ book[c]["period"] = "zero" =>
                             \E k \in Carried(c, "VALID") :
                                 Msg(k).channel = MaxDoorNum /\ "DOOR_RIGHT" \in Msg(k).mask
    BY DEF CorruptionConfined
  <2>1. \A f \in DOMAIN BitOf :
            \/ book[c][f] = Enrolled[f]
            \/ book[c][f] = Fresh[f]
            \/ \E k \in Carried(c, BitOf[f]) : book[c][f] = CM_HandleCardSet(Msg(k)).fields[f]
    BY DEF CardInv, OriginInv
  <2>2. /\ {"password", "period"} \subseteq DOMAIN BitOf
        /\ BitOf["password"] = "PASSWORD" /\ BitOf["period"] = "VALID"
        /\ {Fresh["password"], Enrolled["password"]} = {"empty", "own"}
        /\ Fresh["period"] = "off" /\ Enrolled["period"] = "off"
    BY DEF BitOf, Fresh, Enrolled
  <2>3. \A m : /\ CM_HandleCardSet(m).fields["password"] = PasswordField(m)
               /\ CM_HandleCardSet(m).fields["period"] = PeriodField(m)
    BY DEF CM_HandleCardSet
  <2>4. \A m : PasswordField(m) = "garbled" => m.channel = 0 /\ "RIGHT_PLAN" \in m.mask
    BY DEF PasswordField, Asked
  <2>5. \A m : PeriodField(m) = "zero" => m.channel = MaxDoorNum /\ "DOOR_RIGHT" \in m.mask
    BY DEF PeriodField, Asked
  <2>6. ASSUME book[c]["password"] = "garbled"
        PROVE  \E k \in Carried(c, "PASSWORD") : PasswordField(Msg(k)) = "garbled"
    BY <2>1, <2>2, <2>3, <2>6
  <2>7. ASSUME book[c]["period"] = "zero"
        PROVE  \E k \in Carried(c, "VALID") : PeriodField(Msg(k)) = "zero"
    BY <2>1, <2>2, <2>3, <2>7
  <2> QED
    BY <2>4, <2>5, <2>6, <2>7
<1> QED
  BY <1>1, Invariance, PTL

(* A period the server set is lifted by a later word on it or by deleting  *)
(* the card, and by nothing else.                                          *)
THEOREM PeriodIsKept == Spec => []PeriodKept
<1>1. CardInv => PeriodKept
  BY DEF CardInv, PeriodInv, PeriodKept
<1> QED
  BY <1>1, Invariance, PTL

(* A card whose last message deleted it stays gone, if its messages did    *)
(* not overlap.                                                            *)
THEOREM DeletionsStick == Spec => []DeletionSticks
<1>1. CardInv => DeletionSticks
  BY DEF CardInv
<1> QED
  BY <1>1, Invariance, PTL
=============================================================================
