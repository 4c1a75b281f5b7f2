------------------------ MODULE TelegramChannelProofs ------------------------
(***************************************************************************)
(* Theorems about the Telegram channel, for any number of updates, taps,   *)
(* texts, crashes and failed calls.                                        *)
(*                                                                         *)
(* Intake: what is behind the next update (Due) has got there, was cut     *)
(* short by a crash, or is in hand; and so has everything with a row, so   *)
(* that what is delivered again after a crash can be ignored.              *)
(* Live message: the newest text is folded, or it is under way or in the   *)
(* chat, unless one that was folded or under way then has come after it.   *)
(***************************************************************************)
EXTENDS TelegramChannel, SequenceTheorems, TLAPS

\* The update that is taken or fetched next.
Due == IF poll.offset > confirmed THEN poll.offset ELSE confirmed

Done(m) == times[m] >= 1 \/ m \in cut

\* The batch holds the updates from the next one on, one after the other.
InOrder == /\ confirmed <= sent + 1 /\ poll.offset <= sent + 1
           /\ Due + Len(poll.batch) <= sent + 1
           /\ \A i \in 1 .. Len(poll.batch) : poll.batch[i] = Due + i - 1

AtRest == ~poll.up => poll.at = Idle /\ poll.batch = <<>> /\ poll.offset = 0

Held == poll.at # Idle => poll.offset = poll.id + 1 /\ confirmed <= poll.id

Accounted == \A m \in Ids : m < Due \/ m \in recorded => Done(m) \/ InHand(m)

Known == \A m \in Ids \ Taps :
            /\ times[m] >= 1 => m \in recorded \/ m \in unsure
            /\ InHand(m) => m \in unsure \/ (m \in recorded /\ times[m] = 0)

IntakeInv == /\ IntakeTypeOK /\ InOrder /\ AtRest /\ Held
             /\ Accounted /\ Known /\ NoneDoubled /\ NoneOvertaken

-----------------------------------------------------------------------------
(* Intake. *)

LEMMA Numbers ==
    ASSUME IntakeInv
    PROVE  /\ sent \in Nat /\ confirmed \in Nat /\ confirmed >= 1 /\ Messages \in Nat
           /\ poll.offset \in Nat /\ poll.id \in Nat /\ sent <= Messages
           /\ poll.batch \in Seq(Ids) /\ Len(poll.batch) \in Nat
           /\ Due \in Nat /\ Due >= confirmed /\ Due >= poll.offset /\ Due <= sent + 1
           /\ poll.at # Idle => poll.id \in Ids
<1>1. /\ sent \in Nat /\ confirmed \in Nat /\ confirmed >= 1 /\ Messages \in Nat
      /\ poll.offset \in Nat /\ poll.id \in Nat /\ sent <= Messages
      /\ poll.batch \in Seq(Ids)
      /\ poll.at # Idle => poll.id \in Ids
  BY IntakeAssumption DEF IntakeInv, IntakeTypeOK, Ids
<1>2. Len(poll.batch) \in Nat
  BY <1>1, LenProperties
<1>3. /\ Due \in Nat /\ Due >= confirmed /\ Due >= poll.offset /\ Due <= sent + 1
  BY <1>1 DEF Due, IntakeInv, InOrder
<1> QED  BY <1>1, <1>2, <1>3

\* MessagesArriveOnce is a consequence: what Telegram has forgotten lies behind the next
\* update and is not in hand any more.
LEMMA IntakeInvArriveOnce == IntakeInv => MessagesArriveOnce
<1> SUFFICES ASSUME IntakeInv PROVE MessagesArriveOnce
  OBVIOUS
<1>1. NoneDropped
  <2> SUFFICES ASSUME NEW m \in Ids, m < confirmed PROVE Done(m)
    BY DEF NoneDropped, Done
  <2>1. m < Due /\ ~InHand(m)
    BY Numbers DEF IntakeInv, Held, InHand, Ids, Idle
  <2> QED  BY <2>1 DEF IntakeInv, Accounted
<1> QED  BY <1>1 DEF IntakeInv, MessagesArriveOnce

LEMMA IntakeStarts == IntakeInit => IntakeInv
<1> SUFFICES ASSUME IntakeInit PROVE IntakeInv
  OBVIOUS
<1>1. IntakeTypeOK
  BY IntakeAssumption DEF IntakeInit, IntakeTypeOK, Ids, Idle
<1>2. Due = 1 /\ Len(poll.batch) = 0
  BY DEF IntakeInit, Due
<1> QED  BY <1>1, <1>2 DEF IntakeInit, IntakeInv, InOrder, AtRest, Held, Accounted, Known,
                           NoneDoubled, NoneOvertaken, InHand, Ids, Idle

\* The next update is taken out of the batch.
LEMMA TakesInOrder ==
    ASSUME IntakeInv, poll.batch # <<>>, poll.up, poll.at = Idle,
           NEW at \in {Idle, "routing"}, Takes(Head(poll.batch), at),
           sent' = sent, confirmed' = confirmed
    PROVE  /\ Head(poll.batch) = Due /\ Due \in Ids
           /\ poll' \in [up : BOOLEAN, offset : 0..(Messages + 1), batch : Seq(Ids),
                         at : {Idle, "routing", "replying"}, id : 0..Messages]
           /\ poll'.up /\ poll'.at = at /\ Due' = Due + 1
           /\ poll'.id = IF at = Idle THEN 0 ELSE Due
           /\ InOrder' /\ AtRest' /\ Held'
<1> DEFINE b == poll.batch
<1>1. b \in Seq(Ids) /\ Len(b) \in Nat /\ Len(b) # 0
  BY Numbers, EmptySeq
<1>2. /\ Tail(b) \in Seq(Ids) /\ Len(Tail(b)) = Len(b) - 1
      /\ \A i \in 1 .. Len(Tail(b)) : Tail(b)[i] = b[i + 1]
      /\ Head(b) = b[1] /\ b[1] \in Ids
  BY <1>1, HeadTailProperties
<1>3. Head(b) = Due /\ Due \in Ids
  BY <1>1, <1>2, Numbers DEF IntakeInv, InOrder
<1>4. poll \in [up : BOOLEAN, offset : 0..(Messages + 1), batch : Seq(Ids),
                at : {Idle, "routing", "replying"}, id : 0..Messages]
  BY DEF IntakeInv, IntakeTypeOK
<1>5. /\ poll' \in [up : BOOLEAN, offset : 0..(Messages + 1), batch : Seq(Ids),
                    at : {Idle, "routing", "replying"}, id : 0..Messages]
      /\ poll'.offset = Due + 1 /\ poll'.batch = Tail(b) /\ poll'.up /\ poll'.at = at
      /\ poll'.id = IF at = Idle THEN 0 ELSE Due
  <2>1. Head(b) + 1 \in 0..(Messages + 1) /\ Head(b) \in 0..Messages /\ 0 \in 0..Messages
    BY <1>3, Numbers DEF Ids
  <2>2. poll' = [poll EXCEPT !.offset = Head(b) + 1, !.batch = Tail(b), !.at = at,
                             !.id = IF at = Idle THEN 0 ELSE Head(b)]
    BY <1>4 DEF Takes
  <2> QED  BY <1>2, <1>3, <1>4, <2>1, <2>2
<1>6. Due' = Due + 1
  BY <1>5, Numbers DEF Due
<1>7. InOrder'
  <2>1. Due' + Len(poll'.batch) <= sent' + 1 /\ Due' <= sent' + 1
    BY <1>1, <1>2, <1>5, <1>6, Numbers, SMTT(30) DEF IntakeInv, InOrder
  <2>2. \A i \in 1 .. Len(poll'.batch) : poll'.batch[i] = Due' + i - 1
    <3> TAKE i \in 1 .. Len(poll'.batch)
    <3>1. i + 1 \in 1 .. Len(b) /\ poll'.batch[i] = b[i + 1]
      BY <1>1, <1>2, <1>5
    <3> QED  BY <1>6, <3>1, Numbers DEF IntakeInv, InOrder
  <2>3. confirmed' <= sent' + 1 /\ poll'.offset <= sent' + 1
    BY <1>5, <1>6, <2>1, Numbers
  <2> QED  BY <2>1, <2>2, <2>3 DEF InOrder
<1>8. AtRest' /\ Held'
  BY <1>3, <1>5, Numbers DEF AtRest, Held, Ids
<1> QED  BY <1>3, <1>5, <1>6, <1>7, <1>8
LEMMA FunctionIsASequence ==
    ASSUME NEW S, NEW n \in Nat, NEW f \in [1..n -> S]
    PROVE  f \in Seq(S) /\ Len(f) = n
<1>1. f \in Seq(S)
  BY SeqDef, Zenon
<1>2. DOMAIN f = 1..Len(f) /\ Len(f) \in Nat /\ DOMAIN f = 1..n
  BY <1>1, LenProperties
<1>3. n <= Len(f) /\ Len(f) <= n
  BY <1>2
<1> QED  BY <1>1, <1>2, <1>3

LEMMA FaultsAreBounded ==
    ASSUME IntakeTypeOK, Hiccup \/ Dies \/ UNCHANGED faults
    PROVE  faults' \in [crashes : 0..MaxCrashes, hiccups : 0..MaxHiccups]
<1>1. faults \in [crashes : 0..MaxCrashes, hiccups : 0..MaxHiccups]
  BY DEF IntakeTypeOK
<1>2. CASE Hiccup
  BY <1>1, <1>2, IntakeAssumption DEF Hiccup
<1>3. CASE Dies
  BY <1>1, <1>3, IntakeAssumption DEF Dies
<1> QED  BY <1>1, <1>2, <1>3

LEMMA OwnerSendsStep == ASSUME IntakeInv, OwnerSends PROVE IntakeInv'
<1>1. /\ sent' = sent + 1 /\ sent < Messages
      /\ UNCHANGED <<confirmed, poll, recorded, times, cut, unsure, faults>>
  BY DEF OwnerSends
<1>2. Due' = Due
  BY <1>1 DEF Due
<1>3. IntakeTypeOK' /\ InOrder'
  BY <1>1, <1>2, Numbers, SMTT(30) DEF IntakeInv, IntakeTypeOK, InOrder
<1> QED  BY <1>1, <1>2, <1>3 DEF IntakeInv, AtRest, Held, Accounted, Known, Done, InHand,
                                 NoneDoubled, NoneOvertaken

\* A getUpdates: what it confirms lies behind the next update, and what it returns begins there.
LEMMA FetchStep == ASSUME IntakeInv, Fetch PROVE IntakeInv'
<1>1. /\ poll.up /\ poll.at = Idle /\ poll.batch = <<>>
      /\ confirmed' = Due
      /\ UNCHANGED <<sent, recorded, times, cut, unsure>>
  BY DEF Fetch, Resting, Confirms, Due
<1>2. faults' \in [crashes : 0..MaxCrashes, hiccups : 0..MaxHiccups]
  BY FaultsAreBounded DEF Fetch, IntakeInv
<1> DEFINE all == [i \in 1..(sent - confirmed' + 1) |-> confirmed' + i - 1]
<1>3. poll' = poll \/ poll' = [poll EXCEPT !.batch = all]
  BY <1>1 DEF Fetch
<1>4. /\ sent - Due + 1 \in Nat
      /\ \A i \in 1..(sent - Due + 1) : Due + i - 1 \in Ids
  BY Numbers, SMTT(30) DEF Ids
<1>5. all \in Seq(Ids) /\ Len(all) = sent - Due + 1
  <2>1. all = [i \in 1..(sent - Due + 1) |-> Due + i - 1]
    BY <1>1
  <2>2. all \in [1..(sent - Due + 1) -> Ids]
    BY <1>4, <2>1
  <2> HIDE DEF all
  <2> QED  BY <1>4, <2>2, FunctionIsASequence
<1>6. /\ poll'.up /\ poll'.at = Idle /\ poll'.offset = poll.offset /\ poll'.id = poll.id
      /\ poll' \in [up : BOOLEAN, offset : 0..(Messages + 1), batch : Seq(Ids),
                     at : {Idle, "routing", "replying"}, id : 0..Messages]
      /\ poll'.batch = <<>> \/ poll'.batch = all
  BY <1>1, <1>3, <1>5 DEF IntakeInv, IntakeTypeOK
<1>7. Due' = Due
  BY <1>1, <1>6, Numbers DEF Due
<1>8. IntakeTypeOK'
  BY <1>1, <1>2, <1>6, Numbers DEF IntakeInv, IntakeTypeOK
<1>9. InOrder'
  <2>1. confirmed' <= sent' + 1 /\ poll'.offset <= sent' + 1
    BY <1>1, <1>6, Numbers
  <2>2. CASE poll'.batch = <<>>
    BY <1>1, <1>7, <2>1, <2>2, Numbers DEF InOrder
  <2>3. CASE poll'.batch = all
    <3>1. Due' + Len(poll'.batch) <= sent' + 1
      BY <1>1, <1>5, <1>7, <2>3, Numbers
    <3>2. \A i \in 1 .. Len(poll'.batch) : poll'.batch[i] = Due' + i - 1
      BY <1>1, <1>5, <1>7, <2>3
    <3> QED  BY <2>1, <3>1, <3>2 DEF InOrder
  <2> QED  BY <1>6, <2>2, <2>3
<1>10. AtRest' /\ Held'
  BY <1>6 DEF AtRest, Held
<1>11. \A m \in Ids : ~InHand(m) /\ ~InHand(m)'
  BY <1>1, <1>6 DEF InHand, Idle
<1> QED  BY <1>1, <1>7, <1>8, <1>9, <1>10, <1>11
            DEF IntakeInv, Accounted, Known, Done, NoneDoubled, NoneOvertaken

\* A message is taken: it is ignored because it is accounted for, or it is in hand now.
LEMMA TakeMessageStep == ASSUME IntakeInv, TakeMessage PROVE IntakeInv'
<1> DEFINE m == Head(poll.batch)
<1>1. /\ poll.up /\ poll.at = Idle /\ poll.batch # <<>> /\ m \notin Taps
      /\ UNCHANGED <<sent, confirmed, times, cut>>
  BY DEF TakeMessage
<1>2. PICK at \in {Idle, "routing"} :
         /\ Takes(m, at)
         /\ \/ at = Idle /\ m \in recorded /\ UNCHANGED <<recorded, unsure, faults>>
            \/ /\ at = "routing" /\ m \notin recorded /\ recorded' = recorded \cup {m}
               /\ UNCHANGED <<unsure, faults>>
            \/ /\ at = "routing" /\ recorded' \in {recorded, recorded \cup {m}}
               /\ unsure' = unsure \cup {m} /\ Hiccup
  BY DEF TakeMessage
<1>3. /\ m = Due /\ Due \in Ids
      /\ poll' \in [up : BOOLEAN, offset : 0..(Messages + 1), batch : Seq(Ids),
                     at : {Idle, "routing", "replying"}, id : 0..Messages]
      /\ poll'.up /\ poll'.at = at /\ Due' = Due + 1
      /\ poll'.id = IF at = Idle THEN 0 ELSE Due
      /\ InOrder' /\ AtRest' /\ Held'
  BY <1>1, <1>2, TakesInOrder
<1>4. IntakeTypeOK'
  <2>1. faults' \in [crashes : 0..MaxCrashes, hiccups : 0..MaxHiccups]
    BY <1>2, FaultsAreBounded DEF IntakeInv
  <2>2. recorded' \subseteq Ids /\ unsure' \subseteq Ids
    BY <1>2, <1>3 DEF IntakeInv, IntakeTypeOK
  <2>3. poll'.id = 0 <=> poll'.at = Idle
    BY <1>3 DEF Idle, Ids
  <2> QED  BY <1>1, <1>3, <2>1, <2>2, <2>3 DEF IntakeInv, IntakeTypeOK
<1>5. \A n \in Ids : ~InHand(n) /\ (InHand(n)' <=> at = "routing" /\ n = Due)
  BY <1>1, <1>3 DEF InHand, Idle
<1>6. Accounted'
  <2> SUFFICES ASSUME NEW n \in Ids, n < Due' \/ n \in recorded' PROVE Done(n)' \/ InHand(n)'
    BY DEF Accounted
  <2>1. CASE n < Due \/ n \in recorded
    BY <1>1, <1>5, <2>1 DEF IntakeInv, Accounted, Done
  <2>2. CASE ~(n < Due \/ n \in recorded)
    <3>1. n = Due
      BY <1>2, <1>3, <2>2, Numbers, SMTT(30) DEF Ids
    <3> QED  BY <1>2, <1>3, <1>5, <2>2, <3>1
  <2> QED  BY <2>1, <2>2
<1>7. Known'
  <2>1. Due \notin recorded => times[Due] = 0 \/ Due \in unsure
    BY <1>1, <1>3 DEF IntakeInv, Known, IntakeTypeOK
  <2> SUFFICES ASSUME NEW n \in Ids \ Taps
               PROVE  /\ times'[n] >= 1 => n \in recorded' \/ n \in unsure'
                      /\ InHand(n)' => n \in unsure' \/ (n \in recorded' /\ times'[n] = 0)
    BY DEF Known
  <2>2. recorded \subseteq recorded' /\ unsure \subseteq unsure' /\ times' = times
    BY <1>1, <1>2
  <2>3. ASSUME InHand(n)' PROVE n \in unsure' \/ (n \in recorded' /\ times'[n] = 0)
    BY <1>1, <1>2, <1>3, <1>5, <2>1, <2>2, <2>3 DEF Idle
  <2> QED  BY <2>2, <2>3 DEF IntakeInv, Known
<1>8. NoneDoubled' /\ NoneOvertaken'
  BY <1>1, <1>2 DEF IntakeInv, NoneDoubled, NoneOvertaken
<1> QED  BY <1>3, <1>4, <1>6, <1>7, <1>8 DEF IntakeInv

LEMMA TakeTapStep == ASSUME IntakeInv, TakeTap PROVE IntakeInv'
<1> DEFINE m == Head(poll.batch)
<1>1. /\ poll.up /\ poll.at = Idle /\ poll.batch # <<>> /\ m \in Taps /\ Takes(m, "routing")
      /\ UNCHANGED <<sent, confirmed, recorded, times, cut, unsure, faults>>
  BY DEF TakeTap
<1>2. /\ m = Due /\ Due \in Ids
      /\ poll' \in [up : BOOLEAN, offset : 0..(Messages + 1), batch : Seq(Ids),
                     at : {Idle, "routing", "replying"}, id : 0..Messages]
      /\ poll'.up /\ poll'.at = "routing" /\ Due' = Due + 1 /\ poll'.id = Due
      /\ InOrder' /\ AtRest' /\ Held'
  BY <1>1, TakesInOrder DEF Idle
<1>3. IntakeTypeOK'
  BY <1>1, <1>2 DEF IntakeInv, IntakeTypeOK, Idle, Ids
<1>4. \A n \in Ids : ~InHand(n) /\ (InHand(n)' <=> n = Due)
  BY <1>1, <1>2 DEF InHand, Idle
<1>5. Accounted'
  BY <1>1, <1>2, <1>4, Numbers DEF IntakeInv, Accounted, Done, Ids
<1>6. Known'
  BY <1>1, <1>2, <1>4 DEF IntakeInv, Known
<1>7. NoneDoubled' /\ NoneOvertaken'
  BY <1>1 DEF IntakeInv, NoneDoubled, NoneOvertaken
<1> QED  BY <1>2, <1>3, <1>5, <1>6, <1>7 DEF IntakeInv

\* What is in hand has got there: everything before it had been accounted for.
LEMMA HandledStep == ASSUME IntakeInv, Handled PROVE IntakeInv'
<1>1. /\ poll.up /\ poll.at = "routing" /\ poll' = [poll EXCEPT !.at = "replying"]
      /\ times' = [times EXCEPT ![poll.id] = @ + 1]
      /\ UNCHANGED <<sent, confirmed, recorded, cut, unsure, faults>>
  BY DEF Handled
<1>2. /\ poll.id \in Ids /\ Due = poll.id + 1 /\ times \in [Ids -> Nat]
  BY <1>1, Numbers DEF IntakeInv, Held, IntakeTypeOK, Idle, Due
<1>3. /\ poll'.up /\ poll'.at = "replying" /\ poll'.offset = poll.offset
      /\ poll'.batch = poll.batch /\ poll'.id = poll.id
      /\ poll' \in [up : BOOLEAN, offset : 0..(Messages + 1), batch : Seq(Ids),
                     at : {Idle, "routing", "replying"}, id : 0..Messages]
  BY <1>1 DEF IntakeInv, IntakeTypeOK
<1>4. /\ times' \in [Ids -> Nat] /\ times'[poll.id] = times[poll.id] + 1
      /\ \A n \in Ids : n # poll.id => times'[n] = times[n]
  BY <1>1, <1>2
<1>5. IntakeTypeOK'
  BY <1>1, <1>3, <1>4 DEF IntakeInv, IntakeTypeOK, Idle
<1>6. Due' = Due
  BY <1>1, <1>3 DEF Due
<1>7. InOrder' /\ AtRest' /\ Held'
  BY <1>1, <1>3, <1>6 DEF IntakeInv, InOrder, AtRest, Held, Idle
<1>8. \A n \in Ids : (InHand(n) <=> n = poll.id) /\ ~InHand(n)'
  BY <1>1, <1>3 DEF InHand
<1>9. \A n \in Ids : (Done(n) => Done(n)') /\ (n = poll.id => Done(n)')
  BY <1>1, <1>2, <1>4 DEF Done
<1>10. Accounted'
  BY <1>1, <1>6, <1>8, <1>9 DEF IntakeInv, Accounted
<1>11. Known' /\ NoneDoubled'
  BY <1>1, <1>2, <1>4, <1>8 DEF IntakeInv, Known, NoneDoubled
<1>12. NoneOvertaken'
  <2> SUFFICES ASSUME NEW m \in Ids, NEW n \in Ids, m < n, times'[n] >= 1 PROVE Done(m)'
    BY DEF NoneOvertaken, Done
  <2>1. CASE n = poll.id
    <3>1. m < Due /\ ~InHand(m)
      BY <1>2, <1>8, <2>1 DEF Ids
    <3> QED  BY <1>9, <3>1 DEF IntakeInv, Accounted
  <2>2. CASE n # poll.id
    BY <1>4, <1>9, <2>2 DEF IntakeInv, NoneOvertaken, Done
  <2> QED  BY <2>1, <2>2
<1> QED  BY <1>5, <1>7, <1>10, <1>11, <1>12 DEF IntakeInv

LEMMA RepliedStep == ASSUME IntakeInv, Replied PROVE IntakeInv'
<1>1. /\ poll.up /\ poll.at = "replying"
      /\ UNCHANGED <<sent, confirmed, recorded, times, cut, unsure>>
      /\ faults' \in [crashes : 0..MaxCrashes, hiccups : 0..MaxHiccups]
  BY FaultsAreBounded DEF Replied, IntakeInv
<1>2. /\ poll'.up /\ poll'.at = Idle /\ poll'.id = 0 /\ poll'.offset = poll.offset
      /\ poll'.batch = poll.batch \/ poll'.batch = <<>>
      /\ poll' \in [up : BOOLEAN, offset : 0..(Messages + 1), batch : Seq(Ids),
                     at : {Idle, "routing", "replying"}, id : 0..Messages]
  <2>1. \/ poll' = [poll EXCEPT !.at = Idle, !.id = 0]
        \/ poll' = [poll EXCEPT !.at = Idle, !.id = 0, !.batch = <<>>]
    BY DEF Replied
  <2>2. /\ poll \in [up : BOOLEAN, offset : 0..(Messages + 1), batch : Seq(Ids),
                    at : {Idle, "routing", "replying"}, id : 0..Messages]
        /\ 0 \in 0..Messages /\ <<>> \in Seq(Ids)
    BY Numbers DEF IntakeInv, IntakeTypeOK
  <2> QED  BY <1>1, <2>1, <2>2
<1>3. IntakeTypeOK'
  BY <1>1, <1>2 DEF IntakeInv, IntakeTypeOK
<1>4. Due' = Due
  BY <1>1, <1>2 DEF Due
<1>5. InOrder'
  BY <1>1, <1>2, <1>4, Numbers, SMTT(30) DEF IntakeInv, InOrder
<1>6. AtRest' /\ Held'
  BY <1>2 DEF AtRest, Held
<1>7. \A n \in Ids : ~InHand(n) /\ ~InHand(n)'
  BY <1>1, <1>2 DEF InHand, Idle
<1> QED  BY <1>1, <1>3, <1>4, <1>5, <1>6, <1>7
            DEF IntakeInv, Accounted, Known, Done, NoneDoubled, NoneOvertaken

\* The process stops: the next update is fetched again from what was confirmed, and what was in
\* hand is cut short.
LEMMA StopStep == ASSUME IntakeInv, StopPolling \/ CrashPolling PROVE IntakeInv'
<1>1. /\ poll' = [up |-> FALSE, offset |-> 0, batch |-> <<>>, at |-> Idle, id |-> 0]
      /\ UNCHANGED <<sent, recorded, times, unsure>>
      /\ faults' \in [crashes : 0..MaxCrashes, hiccups : 0..MaxHiccups]
  <2>1. Dies
    BY DEF StopPolling, CrashPolling
  <2> QED  BY <2>1, FaultsAreBounded DEF StopPolling, CrashPolling, Dies, Down, IntakeInv
<1>2. confirmed' = confirmed \/ confirmed' = Due
  BY DEF StopPolling, CrashPolling, Confirms, Due
<1>3. cut' = IF poll.at = "routing" THEN cut \cup {poll.id} ELSE cut
  BY DEF StopPolling, CrashPolling, Resting, Idle
<1>4. IntakeTypeOK'
  <2>1. confirmed' \in 1..(Messages + 1) /\ cut' \subseteq Ids
    BY <1>2, <1>3, Numbers DEF IntakeInv, IntakeTypeOK, Idle
  <2>2. poll' \in [up : BOOLEAN, offset : 0..(Messages + 1), batch : Seq(Ids),
                   at : {Idle, "routing", "replying"}, id : 0..Messages]
    BY <1>1, Numbers
  <2> QED  BY <1>1, <2>1, <2>2 DEF IntakeInv, IntakeTypeOK
<1>5. Due' = confirmed' /\ confirmed' <= Due
  BY <1>1, <1>2, Numbers DEF Due
<1>6. InOrder' /\ AtRest' /\ Held'
  <2>1. poll'.at = Idle /\ poll'.offset = 0 /\ poll'.batch = <<>> /\ Len(<<>>) = 0
    BY <1>1
  <2> QED  BY <1>1, <1>5, <2>1, <1>2, Numbers DEF InOrder, AtRest, Held
<1>7. \A n \in Ids : ~InHand(n)' /\ (Done(n) \/ InHand(n) => Done(n)')
  BY <1>1, <1>3 DEF InHand, Done, Idle
<1>8. Accounted'
  <2> SUFFICES ASSUME NEW n \in Ids, n < Due' \/ n \in recorded' PROVE Done(n)'
    BY DEF Accounted
  <2>1. n < Due \/ n \in recorded
    BY <1>1, <1>2, <1>5, Numbers DEF Ids
  <2> QED  BY <1>7, <2>1 DEF IntakeInv, Accounted
<1>9. Known' /\ NoneDoubled'
  BY <1>1, <1>7 DEF IntakeInv, Known, NoneDoubled
<1>10. NoneOvertaken'
  BY <1>1, <1>7 DEF IntakeInv, NoneOvertaken, Done
<1> QED  BY <1>4, <1>6, <1>8, <1>9, <1>10 DEF IntakeInv

LEMMA StartPollingStep == ASSUME IntakeInv, StartPolling PROVE IntakeInv'
<1>1. /\ ~poll.up /\ poll' = [poll EXCEPT !.up = TRUE]
      /\ UNCHANGED <<sent, confirmed, recorded, times, cut, unsure, faults>>
  BY DEF StartPolling
<1>2. /\ poll'.up /\ poll'.at = poll.at /\ poll'.id = poll.id /\ poll'.offset = poll.offset
      /\ poll'.batch = poll.batch
      /\ poll' \in [up : BOOLEAN, offset : 0..(Messages + 1), batch : Seq(Ids),
                     at : {Idle, "routing", "replying"}, id : 0..Messages]
  BY <1>1 DEF IntakeInv, IntakeTypeOK
<1> QED  BY <1>1, <1>2 DEF IntakeInv, IntakeTypeOK, InOrder, Due, AtRest, Held, Accounted, Known,
                           Done, InHand, NoneDoubled, NoneOvertaken

LEMMA IntakeNextStep ==
    ASSUME IntakeInv, IntakeNext \/ StopPolling \/ CrashPolling \/ UNCHANGED intakeVars
    PROVE  IntakeInv'
<1>1. ASSUME UNCHANGED intakeVars PROVE IntakeInv'
  BY <1>1 DEF intakeVars, IntakeInv, IntakeTypeOK, InOrder, Due, AtRest, Held, Accounted, Known,
              Done, InHand, NoneDoubled, NoneOvertaken
<1> QED  BY <1>1, OwnerSendsStep, FetchStep, TakeMessageStep, TakeTapStep, HandledStep,
            RepliedStep, StopStep, StartPollingStep DEF IntakeNext, IntakeStep
-----------------------------------------------------------------------------
(* The live message. *)

\* Once the newest text has gone out, whatever else is under way or folded is a text it may
\* lose to.
OthersAreLate ==
    /\ \A f \in flights : f.text = newest \/ f.text \in late
    /\ folded = 0 \/ folded \in late

\* It is in the chat, has lost, or is under way ...
NewestIsSomewhere ==
    chat.text = newest \/ chat.text \in late \/ \E f \in flights : f.text = newest

\* ... and if the message it edits is not the live one any more, it has lost.
EditsTheLiveOne ==
    \A f \in flights :
        f.text = newest /\ f.to # 0 /\ f.to # chat.messages
            => chat.text = newest \/ chat.text \in late

NewestIsOut == OthersAreLate /\ NewestIsSomewhere /\ EditsTheLiveOne

\* The newest text is folded and has not gone out, or it is out.
NewestIsKept == IF folded = newest THEN \A f \in flights : f.text < newest ELSE NewestIsOut

LiveInv == LiveTypeOK /\ NewestIsKept

Flight == [by : {"task", "job"}, text : 1..newest, to : 0..chat.messages]

LEMMA LiveNumbers ==
    ASSUME LiveInv
    PROVE  /\ Texts \in Nat /\ newest \in Nat /\ folded \in Nat /\ folded <= newest
           /\ newest <= Texts /\ chat.messages \in Nat /\ chat.text \in 0..newest
           /\ refused \in Nat /\ late \subseteq 0..newest
           /\ DOMAIN chat = {"text", "messages"}
           /\ flights \subseteq Flight
           /\ \A f \in flights : f.text \in 1..newest /\ f.to \in 0..chat.messages
           /\ InFlight \subseteq 1..newest
BY LiveAssumption DEF LiveInv, LiveTypeOK, Flight, InFlight

LEMMA LiveStarts == LiveInit => LiveInv
<1> SUFFICES ASSUME LiveInit PROVE LiveInv
  OBVIOUS
<1>1. LiveTypeOK
  <2>1. /\ newest \in 0..Texts /\ folded \in 0..newest
        /\ flights \subseteq [by : {"task", "job"}, text : 1..newest, to : 0..chat.messages]
        /\ chat \in [text : 0..newest, messages : Nat]
        /\ refused \in 0..MaxRefused /\ late \subseteq 0..newest
    BY LiveAssumption DEF LiveInit
  <2>2. /\ window \in BOOLEAN /\ known \in BOOLEAN
        /\ job \in {"none", "sleeping", "due"}
        /\ (folded = 0 <=> job = "none") /\ (job = "sleeping" => window)
    BY DEF LiveInit
  <2> QED  BY <2>1, <2>2 DEF LiveTypeOK
<1>2. NewestIsKept
  BY DEF LiveInit, NewestIsKept
<1> QED  BY <1>1, <1>2 DEF LiveInv

\* A text that goes out is one call more.
LEMMA GoesOutTypes ==
    ASSUME LiveInv, NEW by \in {"task", "job"}, NEW text \in 1..newest', GoesOut(by, text),
           newest' \in Nat, newest' >= newest, chat' = chat
    PROVE  /\ flights' \subseteq Flight' /\ window' = TRUE
           /\ \E f : /\ flights' = flights \cup {f}
                    /\ f.text = text /\ f.to \in {0, chat.messages}
<1> DEFINE f == [by |-> by, text |-> text, to |-> IF known THEN chat.messages ELSE 0]
<1>1. flights' = flights \cup {f} /\ window' = TRUE
  BY DEF GoesOut
<1>2. f \in Flight' /\ f.text = text /\ f.to \in {0, chat.messages}
  BY LiveNumbers DEF Flight
<1>3. flights \subseteq Flight'
  BY LiveNumbers DEF Flight
<1> QED  BY <1>1, <1>2, <1>3

\* When the newest text goes out, all that was under way or folded is late.
LEMMA NewestGoesOut ==
    ASSUME LiveInv, newest' \in Nat, newest' >= newest, chat' = chat, Overtakes,
           folded' \in {0, folded}, folded' # newest',
           NEW f, flights' = flights \cup {f}, f.text = newest', f.to \in {0, chat.messages},
           \A g \in flights : g.text # newest'
    PROVE  NewestIsOut'
<1>1. late' = {g.text : g \in flights} \cup ({folded} \ {0, newest'})
  BY DEF Overtakes, InFlight
<1>2. OthersAreLate'
  BY <1>1 DEF OthersAreLate
<1>3. NewestIsSomewhere'
  BY DEF NewestIsSomewhere
<1>4. EditsTheLiveOne'
  BY DEF EditsTheLiveOne
<1> QED  BY <1>2, <1>3, <1>4 DEF NewestIsOut

LEMMA ShowStep == ASSUME LiveInv, Show PROVE LiveInv'
<1>1. /\ newest < Texts /\ newest' = newest + 1 /\ known' = known /\ chat' = chat
      /\ refused' = refused
      /\ newest' \in Nat /\ newest' >= newest /\ newest' \in 1..newest' /\ newest' \in 0..Texts
      /\ \A g \in flights : g.text < newest'
  BY LiveNumbers DEF Show
<1>2. chat' \in [text : 0..newest', messages : Nat]
  BY <1>1, LiveNumbers DEF LiveInv, LiveTypeOK
<1>3. CASE window
  <2>1. /\ folded' = newest' /\ job' = (IF folded = 0 THEN "sleeping" ELSE job)
        /\ window' = window /\ flights' = flights /\ late' = late
    BY <1>3 DEF Show
  <2>2. flights \subseteq Flight'
    BY <1>1, LiveNumbers DEF Flight
  <2>3. LiveTypeOK'
    BY <1>1, <1>2, <1>3, <2>1, <2>2, LiveNumbers DEF LiveInv, LiveTypeOK, Flight
  <2>4. NewestIsKept'
    BY <1>1, <2>1 DEF NewestIsKept
  <2> QED  BY <2>3, <2>4 DEF LiveInv
<1>4. CASE ~window
  <2>1. GoesOut("task", newest') /\ Overtakes /\ folded' = folded /\ job' = job
    BY <1>4 DEF Show
  <2>2. PICK f : /\ flights' = flights \cup {f}
                 /\ f.text = newest' /\ f.to \in {0, chat.messages}
    BY <1>1, <2>1, GoesOutTypes
  <2>3. flights' \subseteq Flight' /\ window' = TRUE
    BY <1>1, <2>1, GoesOutTypes
  <2>4. folded' # newest' /\ late' \subseteq 0..newest'
    BY <1>1, <2>1, LiveNumbers DEF Overtakes
  <2>5. LiveTypeOK'
    BY <1>1, <1>2, <2>1, <2>3, <2>4, LiveNumbers DEF LiveInv, LiveTypeOK, Flight
  <2>6. \A g \in flights : g.text # newest'
    BY <1>1, LiveNumbers
  <2>7. NewestIsKept'
    BY <1>1, <2>1, <2>2, <2>4, <2>6, NewestGoesOut DEF NewestIsKept
  <2> QED  BY <2>5, <2>7 DEF LiveInv
<1> QED  BY <1>3, <1>4

LEMMA WindowOpensStep == ASSUME LiveInv, WindowOpens PROVE LiveInv'
<1>1. /\ window' = FALSE /\ job' = IF job = "sleeping" THEN "due" ELSE job
      /\ UNCHANGED <<newest, folded, flights, known, chat, refused, late>>
  BY DEF WindowOpens
<1>2. LiveTypeOK'
  BY <1>1 DEF LiveInv, LiveTypeOK
<1>3. NewestIsKept'
  BY <1>1 DEF LiveInv, NewestIsKept, NewestIsOut, OthersAreLate, NewestIsSomewhere, EditsTheLiveOne
<1> QED  BY <1>2, <1>3 DEF LiveInv

\* The folded text goes out: as the newest, or as one that is late.
LEMMA FlushStep == ASSUME LiveInv, Flush PROVE LiveInv'
<1>1. /\ job = "due" /\ job' = "none" /\ folded' = 0 /\ GoesOut("job", folded)
      /\ IF folded = newest THEN Overtakes ELSE late' = late
      /\ UNCHANGED <<newest, known, chat, refused>>
  BY DEF Flush
<1>2. folded # 0 /\ folded \in 1..newest' /\ newest' \in Nat /\ newest' >= newest
  BY <1>1, LiveNumbers DEF LiveInv, LiveTypeOK
<1>3. PICK f : /\ flights' = flights \cup {f}
               /\ f.text = folded /\ f.to \in {0, chat.messages}
  BY <1>1, <1>2, GoesOutTypes
<1>4. flights' \subseteq Flight' /\ window' = TRUE
  BY <1>1, <1>2, GoesOutTypes
<1>5. late' \subseteq 0..newest'
  BY <1>1, LiveNumbers DEF Overtakes
<1>6. LiveTypeOK'
  BY <1>1, <1>4, <1>5, LiveNumbers DEF LiveInv, LiveTypeOK, Flight
<1>7. folded' # newest'
  BY <1>1, <1>2
<1>8. CASE folded = newest
  <2>1. \A g \in flights : g.text # newest'
    BY <1>1, <1>8, LiveNumbers DEF LiveInv, NewestIsKept
  <2>2. NewestIsKept'
    BY <1>1, <1>2, <1>3, <1>7, <1>8, <2>1, NewestGoesOut DEF NewestIsKept
  <2> QED  BY <1>6, <2>2 DEF LiveInv
<1>9. CASE folded # newest
  <2>1. late' = late /\ NewestIsOut /\ folded \in late
    BY <1>1, <1>2, <1>9 DEF LiveInv, NewestIsKept, NewestIsOut, OthersAreLate
  <2>2. NewestIsOut'
    BY <1>1, <1>3, <1>9, <2>1 DEF NewestIsOut, OthersAreLate, NewestIsSomewhere, EditsTheLiveOne
  <2> QED  BY <1>6, <1>7, <2>2 DEF LiveInv, NewestIsKept
<1> QED  BY <1>8, <1>9

\* While the newest text is folded, calls that end or are sent anew are of older texts.
LEMMA OlderOnesEnd ==
    ASSUME LiveInv, folded = newest, newest' = newest, folded' = folded,
           NEW f \in flights, NEW again, again.text = f.text,
           flights' \subseteq flights \cup {again}
    PROVE  NewestIsKept'
<1> USE DEF LiveInv, NewestIsKept
<1>1. \A g \in flights' : g.text < newest'
  OBVIOUS
<1> QED  BY <1>1

LEMMA CallEndsStep ==
    ASSUME LiveInv, NEW f \in flights, Sent(f) \/ Edited(f) \/ Refused(f)
    PROVE  LiveInv'
<1>1. /\ newest' = newest /\ window' = window /\ folded' = folded /\ job' = job
      /\ f \in Flight /\ f.text \in 1..newest /\ f.to \in 0..chat.messages
  BY LiveNumbers DEF Sent, Edited, Refused, Flight
<1>2. CASE Sent(f)
  <2>1. /\ f.to = 0 /\ chat' = [text |-> f.text, messages |-> chat.messages + 1]
        /\ known' = TRUE /\ flights' = flights \ {f} /\ refused' = refused /\ late' = late
    BY <1>2 DEF Sent, Arrived
  <2>2. flights' \subseteq Flight' /\ chat' \in [text : 0..newest', messages : Nat]
    BY <1>1, <2>1, LiveNumbers DEF Flight
  <2>3. LiveTypeOK'
    BY <1>1, <2>1, <2>2 DEF LiveInv, LiveTypeOK, Flight
  <2>4. CASE folded = newest
    BY <1>1, <2>1, <2>3, <2>4, OlderOnesEnd DEF LiveInv
  <2>5. CASE folded # newest
    <3>1. NewestIsOut /\ chat'.text = f.text
      BY <2>1, <2>5 DEF LiveInv, NewestIsKept
    <3>2. chat'.text = newest' \/ chat'.text \in late'
      BY <1>1, <2>1, <3>1 DEF NewestIsOut, OthersAreLate
    <3>3. NewestIsOut'
      BY <1>1, <2>1, <3>1, <3>2 DEF NewestIsOut, OthersAreLate, NewestIsSomewhere, EditsTheLiveOne
    <3> QED  BY <1>1, <2>3, <2>5, <3>3 DEF LiveInv, NewestIsKept
  <2> QED  BY <2>4, <2>5
<1>3. CASE Edited(f)
  <2>1. /\ f.to # 0 /\ flights' = flights \ {f} /\ known' = known
        /\ refused' = refused /\ late' = late
        /\ chat' = IF f.to = chat.messages THEN [chat EXCEPT !.text = f.text] ELSE chat
    BY <1>3 DEF Edited, Arrived
  <2>2. chat'.messages = chat.messages /\ chat' \in [text : 0..newest', messages : Nat]
    BY <1>1, <2>1, LiveNumbers DEF LiveInv, LiveTypeOK
  <2>3. LiveTypeOK'
    BY <1>1, <2>1, <2>2 DEF LiveInv, LiveTypeOK
  <2>4. chat'.text = IF f.to = chat.messages THEN f.text ELSE chat.text
    BY <2>1, LiveNumbers DEF LiveInv, LiveTypeOK
  <2>5. CASE folded = newest
    BY <1>1, <2>1, <2>3, <2>5, OlderOnesEnd DEF LiveInv
  <2>6. CASE folded # newest
    <3>1. NewestIsOut
      BY <2>6 DEF LiveInv, NewestIsKept
    <3>2. f.text = newest \/ f.text \in late
      BY <3>1 DEF NewestIsOut, OthersAreLate
    <3>3. NewestIsSomewhere'
      BY <1>1, <2>1, <2>4, <3>1, <3>2 DEF NewestIsOut, NewestIsSomewhere, EditsTheLiveOne
    <3>4. EditsTheLiveOne'
      BY <1>1, <2>1, <2>2, <2>4, <3>1, <3>2 DEF NewestIsOut, EditsTheLiveOne
    <3>5. OthersAreLate'
      BY <1>1, <2>1, <3>1 DEF NewestIsOut, OthersAreLate
    <3> QED  BY <1>1, <2>3, <2>6, <3>3, <3>4, <3>5 DEF LiveInv, NewestIsKept, NewestIsOut
  <2> QED  BY <2>5, <2>6
<1>4. CASE Refused(f)
  <2> DEFINE again == [f EXCEPT !.to = 0]
  <2>1. /\ refused < MaxRefused /\ refused' = refused + 1
        /\ flights' = (flights \ {f}) \cup IF f.to # 0 THEN {again} ELSE {}
        /\ late' = IF f.to = 0 /\ f.text = newest THEN late \cup {chat.text} ELSE late
        /\ known' = known /\ chat' = chat
    BY <1>4 DEF Refused
  <2>2. refused' \in 0..MaxRefused /\ late' \subseteq 0..newest'
    BY <1>1, <2>1, LiveNumbers, LiveAssumption DEF LiveInv, LiveTypeOK
  <2>3. again \in Flight /\ again.text = f.text /\ again.to = 0
    BY <1>1, LiveNumbers DEF Flight
  <2> HIDE DEF again
  <2>4. flights' \subseteq Flight'
    BY <1>1, <2>1, <2>3, LiveNumbers DEF Flight
  <2>5. LiveTypeOK'
    BY <1>1, <2>1, <2>2, <2>4, LiveNumbers DEF LiveInv, LiveTypeOK, Flight
  <2>6. CASE folded = newest
    BY <1>1, <2>1, <2>3, <2>5, <2>6, OlderOnesEnd DEF LiveInv
  <2>7. CASE folded # newest
    <3>1. NewestIsOut
      BY <2>7 DEF LiveInv, NewestIsKept
    <3>2. OthersAreLate'
      BY <1>1, <2>1, <2>3, <3>1 DEF NewestIsOut, OthersAreLate
    <3>3. NewestIsSomewhere'
      BY <1>1, <2>1, <2>3, <3>1 DEF NewestIsOut, NewestIsSomewhere
    <3>4. EditsTheLiveOne'
      BY <1>1, <2>1, <2>3, <3>1 DEF NewestIsOut, EditsTheLiveOne
    <3> QED  BY <1>1, <2>5, <2>7, <3>2, <3>3, <3>4 DEF LiveInv, NewestIsKept, NewestIsOut
  <2> QED  BY <2>6, <2>7
<1> QED  BY <1>2, <1>3, <1>4

LEMMA LiveLostStep == ASSUME LiveInv, LiveLost PROVE LiveInv'
<1>1. /\ window' = FALSE /\ folded' = 0 /\ job' = "none" /\ known' = FALSE
      /\ flights' \subseteq {[f EXCEPT !.by = "job"] : f \in flights}
      /\ late' = {f.text : f \in flights} \cup {chat.text}
      /\ newest' = newest /\ chat' = chat /\ refused' = refused
  BY DEF LiveLost, InFlight
<1>2. /\ flights' \subseteq Flight'
      /\ \A g \in flights' : \E f \in flights : g.text = f.text
  BY <1>1, LiveNumbers DEF Flight
<1>3. late' \subseteq 0..newest'
  BY <1>1, LiveNumbers
<1>4. LiveTypeOK'
  <2>1. /\ folded' \in 0..newest' /\ newest' \in 0..Texts
        /\ chat' \in [text : 0..newest', messages : Nat]
        /\ refused' \in 0..MaxRefused
    BY <1>1, LiveNumbers DEF LiveInv, LiveTypeOK
  <2>2. /\ window' \in BOOLEAN /\ known' \in BOOLEAN
        /\ job' \in {"none", "sleeping", "due"}
        /\ (folded' = 0 <=> job' = "none") /\ (job' = "sleeping" => window')
    BY <1>1
  <2> QED  BY <1>2, <1>3, <2>1, <2>2 DEF LiveTypeOK, Flight
<1>5. CASE newest = 0
  <2>1. flights = {}
    BY <1>5, LiveNumbers
  <2>2. flights' = {}
    BY <1>2, <2>1
  <2> QED  BY <1>1, <1>4, <1>5, <2>2 DEF LiveInv, NewestIsKept
<1>6. CASE newest # 0
  <2>1. NewestIsOut'
    BY <1>1, <1>2 DEF NewestIsOut, OthersAreLate, NewestIsSomewhere, EditsTheLiveOne
  <2> QED  BY <1>1, <1>4, <1>6, <2>1 DEF LiveInv, NewestIsKept
<1> QED  BY <1>5, <1>6

LEMMA LiveNextStep ==
    ASSUME LiveInv, LiveNext \/ LiveLost \/ UNCHANGED liveVars PROVE LiveInv'
<1>1. ASSUME UNCHANGED liveVars PROVE LiveInv'
  BY <1>1 DEF liveVars, LiveInv, LiveTypeOK, NewestIsKept, NewestIsOut, OthersAreLate,
              NewestIsSomewhere, EditsTheLiveOne
<1> QED  BY <1>1, ShowStep, WindowOpensStep, FlushStep, CallEndsStep, LiveLostStep
            DEF LiveNext, LiveStep

\* With nothing folded and nothing under way, the newest text is in the chat or has lost.
LEMMA LiveInvNewest == LiveInv => NewestUnlessLate
<1> SUFFICES ASSUME LiveInv, flights = {}, folded = 0
             PROVE  chat.text = newest \/ chat.text \in late
  BY DEF NewestUnlessLate, Settled
<1>1. CASE newest = 0
  BY <1>1, LiveNumbers
<1>2. CASE newest # 0
  BY <1>2 DEF LiveInv, NewestIsKept, NewestIsOut, NewestIsSomewhere
<1> QED  BY <1>1, <1>2

-----------------------------------------------------------------------------
(* The theorems. *)

\* The two halves keep their invariants through each other's steps and through a stop of both.
THEOREM ChannelSpecInv == ChannelSpec => [](IntakeInv /\ LiveInv)
<1>1. ChannelInit => IntakeInv /\ LiveInv
  BY IntakeStarts, LiveStarts DEF ChannelInit
<1>2. IntakeInv /\ LiveInv /\ [ChannelNext]_channelVars => (IntakeInv /\ LiveInv)'
  <2> SUFFICES ASSUME IntakeInv, LiveInv, [ChannelNext]_channelVars
               PROVE  IntakeInv' /\ LiveInv'
    OBVIOUS
  <2>1. IntakeNext \/ StopPolling \/ CrashPolling \/ UNCHANGED intakeVars
    BY DEF ChannelNext, channelVars
  <2>2. LiveNext \/ LiveLost \/ UNCHANGED liveVars
    BY DEF ChannelNext, channelVars, TaskShows, LiveNext
  <2> QED  BY <2>1, <2>2, IntakeNextStep, LiveNextStep
<1> QED  BY <1>1, <1>2, PTL DEF ChannelSpec

\* The channel's state, the rows and the calls under way keep their form.
THEOREM ChannelSpecTypeOK == ChannelSpec => []ChannelTypeOK
<1>1. IntakeInv /\ LiveInv => ChannelTypeOK  BY DEF IntakeInv, LiveInv, ChannelTypeOK
<1> QED  BY <1>1, ChannelSpecInv, PTL

\* Between the owner and the router nothing is doubled, dropped or overtaken, whatever the
\* restarts, lost answers and database errors.
THEOREM ChannelSpecMessagesArriveOnce == ChannelSpec => []MessagesArriveOnce
<1>1. IntakeInv => MessagesArriveOnce  BY IntakeInvArriveOnce
<1> QED  BY <1>1, ChannelSpecInv, PTL

\* When everything has gone out, the chat shows the newest text, or one that was folded or under
\* way when the newest went out and came after it.
THEOREM ChannelSpecNewestUnlessLate == ChannelSpec => []NewestUnlessLate
<1>1. IntakeInv /\ LiveInv => NewestUnlessLate  BY LiveInvNewest
<1> QED  BY <1>1, ChannelSpecInv, PTL

-----------------------------------------------------------------------------
(* The intake runs down. *)

\* How far the channel is from taking the next update.
Stage == IF ~poll.up THEN 5
         ELSE IF poll.at = "routing" THEN 4
         ELSE IF poll.at = "replying" THEN 3
         ELSE IF poll.batch = <<>> THEN 2 ELSE 1

\* A failed call is used up, or the next update is taken, or the channel is nearer to it, or there
\* is none.
IntakeOnward ==
    \/ faults'.hiccups = faults.hiccups + 1 /\ Due' >= Due
    \/ Due' = Due + 1
    \/ Due' = Due /\ Stage' < Stage
    \/ Due' = Due /\ Due = sent + 1 /\ poll' = poll

LEMMA FetchOnward == ASSUME IntakeInv, Fetch PROVE IntakeOnward
<1>1. /\ poll.up /\ poll.at = Idle /\ poll.batch = <<>> /\ confirmed' = Due
  BY DEF Fetch, Resting, Confirms, Due
<1> DEFINE all == [i \in 1..(sent - confirmed' + 1) |-> confirmed' + i - 1]
<1>2. poll' = [poll EXCEPT !.batch = all] \/ (Hiccup /\ poll' = poll)
  BY DEF Fetch
<1>3. faults.hiccups \in Nat
  BY IntakeAssumption DEF IntakeInv, IntakeTypeOK
<1>4. CASE Hiccup /\ poll' = poll
  <2>1. Due' = Due
    BY <1>1, <1>4, Numbers DEF Due
  <2>2. faults'.hiccups = faults.hiccups + 1
    BY <1>4 DEF Hiccup, IntakeInv, IntakeTypeOK
  <2> QED  BY <2>1, <2>2, Numbers DEF IntakeOnward
<1>5. CASE poll' = [poll EXCEPT !.batch = all]
  <2>1. /\ poll'.offset = poll.offset /\ poll'.batch = all /\ poll'.up = poll.up
        /\ poll'.at = poll.at
    BY <1>5 DEF IntakeInv, IntakeTypeOK
  <2>2. Due' = Due
    BY <1>1, <2>1, Numbers DEF Due
  <2>3. CASE Due = sent + 1
    <3>1. sent - confirmed' + 1 = 0
      BY <1>1, <2>3, Numbers
    <3>2. all = <<>>
      BY <3>1
    <3>3. poll' = poll
      BY <1>1, <1>5, <3>2 DEF IntakeInv, IntakeTypeOK
    <3> QED  BY <2>2, <2>3, <3>3 DEF IntakeOnward
  <2>4. CASE Due # sent + 1
    <3>1. sent - confirmed' + 1 \in Nat /\ 1 \in 1..(sent - confirmed' + 1)
      BY <1>1, <2>4, Numbers
    <3>2. DOMAIN all # {}
      BY <3>1
    <3>3. all # <<>>
      <4> HIDE DEF all
      <4> QED  BY <3>2
    <3> QED  BY <1>1, <2>1, <2>2, <3>3 DEF IntakeOnward, Stage, Idle
  <2> QED  BY <2>3, <2>4
<1> QED  BY <1>2, <1>4, <1>5

LEMMA IntakeStepOnward == ASSUME IntakeInv, IntakeStep PROVE IntakeOnward
<1>1. CASE Fetch
  BY <1>1, FetchOnward
<1>2. CASE TakeMessage \/ TakeTap
  <2>1. PICK at \in {Idle, "routing"} :
           /\ poll.batch # <<>> /\ poll.up /\ poll.at = Idle /\ Takes(Head(poll.batch), at)
           /\ sent' = sent /\ confirmed' = confirmed
    BY <1>2 DEF TakeMessage, TakeTap
  <2>2. Due' = Due + 1
    BY <2>1, TakesInOrder
  <2> QED  BY <2>2 DEF IntakeOnward
<1>3. CASE Handled \/ Replied
  <2>1. /\ poll'.offset = poll.offset /\ confirmed' = confirmed /\ poll.up /\ poll'.up
        /\ \/ poll.at = "routing" /\ poll'.at = "replying"
           \/ poll.at = "replying" /\ poll'.at = Idle
    BY <1>3 DEF Handled, Replied, IntakeInv, IntakeTypeOK
  <2>2. Due' = Due
    BY <2>1 DEF Due
  <2> QED  BY <2>1, <2>2 DEF IntakeOnward, Stage, Idle
<1>4. CASE StartPolling
  <2>1. /\ poll'.offset = poll.offset /\ confirmed' = confirmed /\ ~poll.up /\ poll'.up
        /\ poll'.at = Idle
    BY <1>4 DEF StartPolling, IntakeInv, AtRest, IntakeTypeOK
  <2>2. Due' = Due
    BY <2>1 DEF Due
  <2> QED  BY <2>1, <2>2 DEF IntakeOnward, Stage, Idle
<1> QED  BY <1>1, <1>2, <1>3, <1>4 DEF IntakeStep

LEMMA DueIsANumber == ASSUME IntakeInv, IntakeNext PROVE Due' \in Nat
<1>1. IntakeInv'
  BY IntakeNextStep
<1>2. confirmed' \in Nat /\ poll'.offset \in Nat
  BY <1>1, IntakeAssumption DEF IntakeInv, IntakeTypeOK
<1> QED  BY <1>2 DEF Due

\* The intake cannot go round for ever, over lost answers and batches that are fetched again: each
\* of its steps uses up a failure, or gets one update further, or nearer to the next one, unless
\* there is none; and only the end of the process sets it back (poll_once).
THEOREM ChannelSpecIntakeRunsDown ==
    ChannelSpec => [][/\ IntakeStep => IntakeOnward
                      /\ Due' < Due => poll.up /\ ~poll'.up]_channelVars
<1>1. ASSUME IntakeInv, ChannelNext
      PROVE  /\ IntakeStep => IntakeOnward
             /\ Due' < Due => poll.up /\ ~poll'.up
  <2>1. Due \in Nat
    BY <1>1, Numbers
  <2>2. ASSUME IntakeStep PROVE IntakeOnward /\ ~(Due' < Due)
    <3>1. IntakeOnward
      BY <1>1, <2>2, IntakeStepOnward
    <3>2. Due' \in {Due, Due + 1} \/ Due' >= Due
      BY <3>1 DEF IntakeOnward
    <3>3. Due' \in Int
      BY <1>1, <2>2, DueIsANumber DEF IntakeNext
    <3> QED  BY <2>1, <3>1, <3>2, <3>3
  <2>3. ASSUME ~IntakeStep, Due' < Due PROVE poll.up /\ ~poll'.up
    <3>1. UNCHANGED <<poll, confirmed>> \/ StopPolling \/ CrashPolling
      BY <1>1, <2>3 DEF ChannelNext, IntakeNext, OwnerSends, intakeVars
    <3>2. ASSUME UNCHANGED <<poll, confirmed>> PROVE FALSE
      <4>1. Due' = Due
        BY <3>2 DEF Due
      <4> QED  BY <2>1, <2>3, <4>1
    <3>3. ASSUME StopPolling \/ CrashPolling PROVE poll.up /\ ~poll'.up
      BY <3>3 DEF StopPolling, CrashPolling, Resting, Dies, Down
    <3> QED  BY <3>1, <3>2, <3>3
  <2> QED  BY <2>2, <2>3
<1>2. IntakeInv /\ [ChannelNext]_channelVars =>
        [/\ IntakeStep => IntakeOnward
         /\ Due' < Due => poll.up /\ ~poll'.up]_channelVars
  BY <1>1
<1> QED  BY <1>2, ChannelSpecInv, PTL DEF ChannelSpec
=============================================================================
