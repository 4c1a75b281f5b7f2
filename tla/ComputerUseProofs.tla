--------------------------- MODULE ComputerUseProofs ---------------------------
(***************************************************************************)
(* Theorems about the computer-use loop and the desktop worker, for any    *)
(* targets, limits and number of attempts.                                 *)
(*                                                                         *)
(* PressedAsAsked relates four counts of a target: how often it got its    *)
(* input, how often the history in memory and the remembered one hold it,  *)
(* and what neither could count.  It is kept by a balance: what was        *)
(* pressed is in the history, missed, or the answer that is about to be    *)
(* recorded.                                                               *)
(***************************************************************************)
EXTENDS ComputerUse, SequenceTheorems, FiniteSetTheorems, TLAPS

Entries == Targets \cup Notes

-----------------------------------------------------------------------------
(* Counting the entries of a history. *)

CountIn(h, e) == Cardinality({i \in DOMAIN h : h[i] = e})
Recent(h, e)  == Cardinality({i \in DOMAIN h : i > Len(h) - Keep /\ h[i] = e})
Older(h, e)   == Cardinality({i \in DOMAIN h : i <= Len(h) - Keep /\ h[i] = e})

LEMMA Positions ==
    ASSUME NEW S, NEW h \in Seq(S), NEW I \in SUBSET DOMAIN h
    PROVE  IsFiniteSet(I) /\ Cardinality(I) \in Nat
<1>1. DOMAIN h = 1..Len(h) /\ Len(h) \in Nat
  BY LenProperties
<1>2. IsFiniteSet(1..Len(h))
  BY <1>1, FS_Interval
<1> QED  BY <1>1, <1>2, FS_Subset, FS_CardinalityType

\* What is counted is old or recent.
LEMMA CountSplits ==
    ASSUME NEW S, NEW h \in Seq(S), NEW e
    PROVE  /\ CountIn(h, e) \in Nat /\ Recent(h, e) \in Nat /\ Older(h, e) \in Nat
           /\ CountIn(h, e) = Older(h, e) + Recent(h, e)
<1> DEFINE A == {i \in DOMAIN h : i <= Len(h) - Keep /\ h[i] = e}
           B == {i \in DOMAIN h : i > Len(h) - Keep /\ h[i] = e}
           C == {i \in DOMAIN h : h[i] = e}
<1>1. /\ IsFiniteSet(A) /\ Cardinality(A) \in Nat /\ IsFiniteSet(B) /\ Cardinality(B) \in Nat
      /\ Cardinality(C) \in Nat
  BY Positions
<1>2. A \cup B = C /\ A \cap B = {}
  <2>1. DOMAIN h = 1..Len(h) /\ Len(h) \in Nat /\ Keep \in Nat
    BY LenProperties, ComputerAssumption
  <2> QED  BY <2>1
<1>3. Cardinality(A \cup B) = Cardinality(A) + Cardinality(B) - Cardinality(A \cap B)
  BY <1>1, FS_Union
<1>4. Cardinality(A \cap B) = 0
  BY <1>2, FS_EmptySet
<1>5. CountIn(h, e) = Cardinality(C) /\ Recent(h, e) = Cardinality(B) /\ Older(h, e) = Cardinality(A)
  BY DEF CountIn, Recent, Older
<1> HIDE DEF A, B, C
<1>6. Cardinality(C) = Cardinality(A) + Cardinality(B) - Cardinality(A \cap B)
  BY <1>2, <1>3, Zenon
<1> QED  BY <1>1, <1>4, <1>5, <1>6

LEMMA CountAppend ==
    ASSUME NEW S, NEW h \in Seq(S), NEW x \in S, NEW e
    PROVE  CountIn(Append(h, x), e) = CountIn(h, e) + IF x = e THEN 1 ELSE 0
<1> DEFINE a == Append(h, x)
           C == {i \in DOMAIN h : h[i] = e}
           D == {i \in DOMAIN a : a[i] = e}
<1>1. /\ a \in Seq(S) /\ Len(a) = Len(h) + 1 /\ a[Len(h) + 1] = x
      /\ \A i \in 1..Len(h) : a[i] = h[i]
      /\ DOMAIN h = 1..Len(h) /\ Len(h) \in Nat /\ DOMAIN a = 1..(Len(h) + 1)
  BY AppendProperties, LenProperties
<1>2. IsFiniteSet(C) /\ Cardinality(C) \in Nat
  BY Positions
<1>3. Len(h) + 1 \notin C
  BY <1>1
<1>4. CountIn(h, e) = Cardinality(C) /\ CountIn(a, e) = Cardinality(D)
  BY DEF CountIn
<1>5. CASE x = e
  <2>1. D = C \cup {Len(h) + 1}
    BY <1>1, <1>5
  <2> HIDE DEF a, C, D
  <2>2. Cardinality(D) = Cardinality(C) + 1
    BY <1>2, <1>3, <2>1, FS_AddElement
  <2> QED  BY <1>4, <1>5, <2>2 DEF a
<1>6. CASE x # e
  <2>1. D = C
    BY <1>1, <1>6
  <2> HIDE DEF a, C, D
  <2> QED  BY <1>2, <1>4, <1>6, <2>1 DEF a
<1> QED  BY <1>5, <1>6

\* Another entry does not make a target more recent.
LEMMA RecentAppendOther ==
    ASSUME NEW S, NEW h \in Seq(S), NEW x \in S, NEW e, x # e
    PROVE  Recent(Append(h, x), e) <= Recent(h, e)
<1> DEFINE a == Append(h, x)
           B == {i \in DOMAIN h : i > Len(h) - Keep /\ h[i] = e}
           D == {i \in DOMAIN a : i > Len(a) - Keep /\ a[i] = e}
<1>1. /\ a \in Seq(S) /\ Len(a) = Len(h) + 1 /\ a[Len(h) + 1] = x
      /\ \A i \in 1..Len(h) : a[i] = h[i]
      /\ DOMAIN h = 1..Len(h) /\ Len(h) \in Nat /\ DOMAIN a = 1..(Len(h) + 1) /\ Keep \in Nat
  BY AppendProperties, LenProperties, ComputerAssumption
<1>2. IsFiniteSet(B)
  BY Positions
<1>3. D \subseteq B
  BY <1>1
<1> QED  BY <1>2, <1>3, FS_Subset DEF Recent

\* What is remembered are the recent entries.
LEMMA RememberedCounts ==
    ASSUME NEW S, NEW h \in Seq(S)
    PROVE  /\ Remembered(h) \in Seq(S) /\ Len(Remembered(h)) <= Keep
           /\ \A e : CountIn(Remembered(h), e) = Recent(h, e)
<1>1. DOMAIN h = 1..Len(h) /\ Len(h) \in Nat /\ Keep \in Nat /\ \A i \in 1..Len(h) : h[i] \in S
  BY LenProperties, ComputerAssumption
<1>2. CASE Len(h) <= Keep
  <2>1. Remembered(h) = h
    BY <1>1, <1>2 DEF Remembered
  <2>2. \A i \in DOMAIN h : i > Len(h) - Keep
    BY <1>1, <1>2
  <2>3. \A e : {i \in DOMAIN h : i > Len(h) - Keep /\ h[i] = e} = {i \in DOMAIN h : h[i] = e}
    BY <2>2
  <2> QED  BY <1>2, <2>1, <2>3 DEF CountIn, Recent
<1>3. CASE Len(h) > Keep
  <2> DEFINE k == Len(h) - Keep
             s == SubSeq(h, k + 1, Len(h))
  <2>1. k \in Nat /\ Remembered(h) = s /\ Len(h) - (k + 1) + 1 = Keep
    BY <1>1, <1>3 DEF Remembered
  <2>2. s \in Seq(S) /\ Len(s) = Keep /\ \A i \in 1..Keep : s[i] = h[k + i]
    <3>1. \A i \in (k + 1) .. Len(h) : h[i] \in S
      BY <1>1, <2>1
    <3>2. /\ s \in Seq(S) /\ Len(s) = IF k + 1 <= Len(h) THEN Len(h) - (k + 1) + 1 ELSE 0
          /\ \A i \in 1 .. Len(h) - (k + 1) + 1 : s[i] = h[k + 1 + i - 1]
      BY <1>1, <2>1, <3>1, SubSeqProperties
    <3> QED  BY <1>1, <2>1, <3>2
  <2>3. ASSUME NEW e PROVE CountIn(s, e) = Recent(h, e)
    <3> DEFINE A == {i \in DOMAIN s : s[i] = e}
               B == {i \in DOMAIN h : i > Len(h) - Keep /\ h[i] = e}
               f == [i \in A |-> k + i]
    <3>1. DOMAIN s = 1..Keep
      BY <2>2, LenProperties
    <3>2. IsFiniteSet(A)
      BY <2>2, Positions
    <3>3. f \in [A -> B]
      BY <1>1, <2>1, <2>2, <3>1, SMTT(30)
    <3>4. \A i, j \in A : f[i] = f[j] => i = j
      BY <2>1, <3>1
    <3>5. \A j \in B : \E i \in A : f[i] = j
      <4> TAKE j \in B
      <4>1. j - k \in A /\ k + (j - k) = j
        BY <1>1, <2>1, <2>2, <3>1
      <4> QED  BY <4>1
    <3>6. f \in Bijection(A, B)
      BY <3>3, <3>4, <3>5 DEF Bijection, Injection, Surjection, IsInjective
    <3>7. Cardinality(B) = Cardinality(A)
      BY <3>2, <3>6, FS_Bijection, ZenonT(40) DEF ExistsBijection
    <3> QED  BY <3>7 DEF CountIn, Recent
  <2> QED  BY <2>1, <2>2, <2>3
<1> QED  BY <1>1, <1>2, <1>3
-----------------------------------------------------------------------------
(* The invariant. *)

CallType == [try : 1..MaxTries, on : Targets, by : {"list", "locate"},
             at : {"asked", "waits", "answered"},
             reply : {"none", "ok", "cancelled", "active", "busy", "stale", "failed"},
             heard : BOOLEAN, early : BOOLEAN]
RunType == [pc : {"out", "look", "plan", "act", "again", "over"}, n : 0..MaxSteps,
            looks : 0..OwnerWaits, stale : 0..StaleRetries, bad : 0..1]
GuardType == [halt : BOOLEAN, armed : 0..ArmFor, busy : BOOLEAN]

\* The core waits for one call at most, and for none while it looks or plans; a call is sent by
\* an attempt that has begun.
OneCall == /\ On => tries >= 1
           /\ \A c \in calls : c.at # "answered" => c.reply = "none"
           /\ \A c, d \in calls : c.heard /\ d.heard => c = d
           /\ run.pc \notin {"act", "again"} => \A c \in calls : ~c.heard

Asks(c, t)  == c.on = t /\ c.heard /\ c.by = "list"
Counts(c, t) == Asks(c, t) /\ c.reply = "ok"
Uncounted(t) == IF \E c \in calls : Counts(c, t) THEN 1 ELSE 0

\* The balance of a target while the loop runs, and between two attempts.
Balance(t) ==
    /\ pressed[t] <= CountIn(history, t) + missed[t] + Uncounted(t)
    /\ CountIn(history, t) <= Allowed[t]
    /\ Recent(history, t) <= CountIn(saved, t)
    /\ (\E c \in calls : Asks(c, t)) => CountIn(history, t) < Allowed[t]

Books == \A t \in Limited :
            /\ On => Balance(t)
            /\ run.pc = "out" => pressed[t] <= CountIn(saved, t) + missed[t]
            /\ CountIn(saved, t) <= Allowed[t]
            /\ pressed[t] <= Allowed[t] + missed[t]

\* A call that waits for the lease under a halt was past the guard before it.
WaitsEarly == guard.halt => \A c \in calls : c.at = "waits" => c.early

Inv == ComputerTypeOK /\ OneCall /\ Books /\ WaitsEarly

LEMMA Numbers ==
    ASSUME ComputerTypeOK, NEW t \in Targets
    PROVE  /\ pressed[t] \in Nat /\ missed[t] \in Nat
           /\ CountIn(history, t) \in Nat /\ CountIn(saved, t) \in Nat
           /\ Recent(history, t) \in Nat /\ Older(history, t) \in Nat
           /\ CountIn(history, t) = Older(history, t) + Recent(history, t)
           /\ Uncounted(t) \in {0, 1}
<1>1. history \in Seq(Entries) /\ saved \in Seq(Entries)
  BY DEF ComputerTypeOK, Entries
<1>2. pressed[t] \in Nat /\ missed[t] \in Nat
  BY DEF ComputerTypeOK
<1> QED  BY <1>1, <1>2, CountSplits DEF Uncounted

LEMMA LimitedOnes == \A t \in Limited : t \in Targets /\ Allowed[t] \in Nat
BY ComputerAssumption

LEMMA EmptyCounts == \A e : CountIn(<<>>, e) = 0 /\ Recent(<<>>, e) = 0
<1> TAKE e
<1>1. /\ {i \in DOMAIN <<>> : <<>>[i] = e} = {}
      /\ {i \in DOMAIN <<>> : i > Len(<<>>) - Keep /\ <<>>[i] = e} = {}
  OBVIOUS
<1>2. Cardinality({}) = 0
  BY FS_EmptySet
<1>3. CountIn(<<>>, e) = 0
  BY <1>1, <1>2, Zenon DEF CountIn
<1>4. Recent(<<>>, e) = 0
  BY <1>1, <1>2, Zenon DEF Recent
<1> QED  BY <1>3, <1>4

LEMMA Starts == ComputerInit => Inv
<1> SUFFICES ASSUME ComputerInit PROVE Inv
  OBVIOUS
<1>1. ComputerTypeOK
  <2>1. guard \in GuardType /\ run \in RunType
    BY ComputerAssumption, DesktopAssumption DEF ComputerInit, DesktopInit, Quiet, Off, GuardType, RunType
  <2>2. history \in Seq(Entries) /\ saved \in Seq(Entries) /\ Len(saved) <= Keep
    BY ComputerAssumption DEF ComputerInit
  <2> QED  BY <2>1, <2>2, ComputerAssumption
              DEF ComputerInit, DesktopInit, ComputerTypeOK, GuardType, RunType, Entries
<1>2. OneCall /\ WaitsEarly
  BY DEF ComputerInit, DesktopInit, OneCall, WaitsEarly, On, Off
<1>3. Books
  <2>1. ASSUME NEW t \in Limited
        PROVE  CountIn(saved, t) = 0 /\ pressed[t] = 0 /\ missed[t] = 0 /\ Allowed[t] \in Nat
    <3>1. CountIn(saved, t) = 0
      BY EmptyCounts, Zenon DEF ComputerInit
    <3> QED  BY <3>1, <1>1, Numbers, LimitedOnes DEF ComputerInit, DesktopInit
  <2>2. ~On
    BY DEF ComputerInit, On, Off
  <2>3. ASSUME NEW t \in Limited
        PROVE  /\ pressed[t] <= CountIn(saved, t) + missed[t]
               /\ CountIn(saved, t) <= Allowed[t]
               /\ pressed[t] <= Allowed[t] + missed[t]
    BY <2>1
  <2> QED  BY <2>2, <2>3, Zenon DEF Books
<1> QED  BY <1>1, <1>2, <1>3 DEF Inv

-----------------------------------------------------------------------------
(* The worker. *)

\* One call goes on; it sends its input or it does not.
Delivers(c, d) ==
    \/ pressed' = pressed /\ missed' = missed /\ d.reply # "ok"
    \/ /\ pressed' = [pressed EXCEPT ![c.on] = @ + 1] /\ d.reply = "ok" /\ d.at = "answered"
       /\ missed' = IF c.heard /\ c.by = "list" THEN missed ELSE [missed EXCEPT ![c.on] = @ + 1]

Follows(c, d) == /\ d.try = c.try /\ d.on = c.on /\ d.by = c.by /\ d.heard = c.heard
                 /\ d.at # "answered" => d.reply = "none"

LEMMA StepKeepsBooks ==
    ASSUME Inv, NEW c \in calls, NEW d \in CallType, c.at # "answered", Follows(c, d),
           Step(c, d), Delivers(c, d), UNCHANGED loopVars, guard' \in GuardType
    PROVE  ComputerTypeOK' /\ OneCall' /\ Books'
<1>1. /\ c \in CallType /\ c.on \in Targets /\ c.reply = "none" /\ calls \subseteq CallType
      /\ pressed \in [Targets -> Nat] /\ missed \in [Targets -> Nat]
  BY DEF Inv, ComputerTypeOK, CallType, OneCall
<1>2. /\ calls' \subseteq (calls \ {c}) \cup {d} /\ calls \ {c} \subseteq calls'
      /\ d.heard => d \in calls'
  BY DEF Step
<1>3. /\ run' = run /\ history' = history /\ saved' = saved /\ tries' = tries
      /\ outcome' = outcome
  BY DEF loopVars
<1>4. pressed' \in [Targets -> Nat] /\ missed' \in [Targets -> Nat]
  BY <1>1 DEF Delivers
<1>5. ComputerTypeOK'
  BY <1>1, <1>2, <1>3, <1>4 DEF Inv, ComputerTypeOK, CallType, GuardType
<1>6. OneCall'
  BY <1>2, <1>3 DEF Inv, OneCall, On, Follows
<1>7. \A t \in Targets : (\E e \in calls' : Asks(e, t)) => \E e \in calls : Asks(e, t)
  BY <1>2 DEF Asks, Follows
<1>8. ASSUME NEW t \in Targets
      PROVE  pressed'[t] <= missed'[t] + (pressed[t] - missed[t]) + (Uncounted(t)' - Uncounted(t))
  <2>1. CASE d.reply # "ok"
    <3>1. pressed' = pressed /\ missed' = missed
      BY <2>1 DEF Delivers
    <3>2. (\E e \in calls' : Counts(e, t)) <=> (\E e \in calls : Counts(e, t))
      BY <1>1, <1>2, <2>1 DEF Counts, Asks
    <3>3. Uncounted(t)' = Uncounted(t)
      BY <3>2 DEF Uncounted
    <3> QED  BY <1>1, <3>1, <3>3, Numbers DEF Inv
  <2>2. CASE d.reply = "ok"
    <3>1. /\ pressed' = [pressed EXCEPT ![c.on] = @ + 1]
          /\ missed' = IF c.heard /\ c.by = "list" THEN missed ELSE [missed EXCEPT ![c.on] = @ + 1]
      BY <2>2 DEF Delivers
    <3>2. CASE t = c.on /\ c.heard /\ c.by = "list"
      <4>1. \A e \in calls : ~Counts(e, t)
        BY <1>1, <3>2 DEF Inv, OneCall, Counts, Asks
      <4>2. \E e \in calls' : Counts(e, t)
        BY <1>2, <2>2, <3>2 DEF Counts, Asks, Follows
      <4>3. Uncounted(t) = 0 /\ Uncounted(t)' = 1
        BY <4>1, <4>2 DEF Uncounted
      <4> QED  BY <1>1, <3>1, <3>2, <4>3
    <3>3. CASE ~(t = c.on /\ c.heard /\ c.by = "list")
      <4>1. (\E e \in calls' : Counts(e, t)) <=> (\E e \in calls : Counts(e, t))
        BY <1>1, <1>2, <3>3 DEF Counts, Asks, Follows
      <4>2. Uncounted(t)' = Uncounted(t)
        BY <4>1 DEF Uncounted
      <4>3. pressed'[t] - missed'[t] <= pressed[t] - missed[t]
        BY <1>1, <3>1, <3>3
      <4> QED  BY <1>1, <1>4, <4>2, <4>3, Numbers DEF Inv
    <3> QED  BY <3>2, <3>3
  <2> QED  BY <2>1, <2>2
<1>9. ASSUME NEW t \in Limited, On' PROVE Balance(t)'
  <2>1. Balance(t) /\ On
    BY <1>3, <1>9 DEF Inv, Books, On
  <2>2. pressed'[t] <= CountIn(history, t) + missed'[t] + Uncounted(t)'
    BY <1>4, <1>5, <1>8, <2>1, Numbers, LimitedOnes DEF Inv, Balance, Uncounted
  <2> QED  BY <1>3, <1>7, LimitedOnes, <2>1, <2>2 DEF Balance
<1>10. ASSUME NEW t \in Targets, ~On PROVE pressed'[t] - missed'[t] <= pressed[t] - missed[t]
  <2>1. \A e \in calls : ~e.heard
    BY <1>10 DEF Inv, OneCall, On
  <2>2. Uncounted(t) = 0 /\ Uncounted(t)' = 0
    BY <1>2, <2>1 DEF Uncounted, Counts, Asks, Follows
  <2> QED  BY <1>1, <1>4, <1>8, <2>2
<1>11. ASSUME NEW t \in Limited
       PROVE  /\ run'.pc = "out" => pressed'[t] <= CountIn(saved', t) + missed'[t]
              /\ CountIn(saved', t) <= Allowed[t]
              /\ pressed'[t] <= Allowed[t] + missed'[t]
  <2>1. CASE On
    <3>1. Balance(t)' /\ On'
      BY <1>3, <1>9, <2>1 DEF On
    <3>2. pressed'[t] <= Allowed[t] + missed'[t]
      <4>1. /\ pressed'[t] <= CountIn(history, t) + missed'[t] + Uncounted(t)'
            /\ CountIn(history, t) <= Allowed[t]
            /\ Uncounted(t)' = 1 => CountIn(history, t) < Allowed[t]
        BY <1>3, <3>1 DEF Balance, Uncounted, Counts
      <4>2. Uncounted(t)' \in {0, 1}
        BY DEF Uncounted
      <4> QED  BY <1>4, <4>1, <4>2, Numbers, LimitedOnes DEF Inv
    <3> QED  BY <1>3, <2>1, <3>2 DEF Inv, Books, On
  <2>2. CASE ~On
    <3>1. pressed'[t] - missed'[t] <= pressed[t] - missed[t]
      BY <1>10, LimitedOnes, <2>2
    <3> QED  BY <1>1, <1>3, <1>4, <3>1, Numbers, LimitedOnes DEF Inv, Books
  <2> QED  BY <2>1, <2>2
<1>12. Books'
  BY <1>9, <1>11, Zenon DEF Books
<1> QED  BY <1>5, <1>6, <1>12
\* Asking the guard arms the hooks; it neither ends nor begins a halt, and under one it refuses.
LEMMA AskedKeepsHalt ==
    ASSUME guard \in GuardType, NEW g \in Asked
    PROVE  g \in GuardType /\ g.halt = guard.halt /\ (guard.halt => Says(g) = "cancelled")
<1>1. CASE guard.halt
  BY <1>1 DEF Asked, Says
<1>2. CASE ~guard.halt
  <2>1. PICK b \in BOOLEAN : g = [guard EXCEPT !.armed = ArmFor, !.busy = b]
    BY <1>2 DEF Asked, GuardType
  <2>2. ArmFor \in 0..ArmFor
    BY DesktopAssumption
  <2>3. g \in GuardType
    BY <2>1, <2>2 DEF GuardType
  <2>4. g.halt = guard.halt
    BY <2>1 DEF GuardType
  <2> QED  BY <1>2, <2>3, <2>4
<1> QED  BY <1>1, <1>2

\* What a step of the worker may do under a halt.
Obeys == \A t \in Targets : guard.halt /\ pressed'[t] # pressed[t] =>
             t \notin Typed /\ \E c \in calls : c.on = t /\ c.at = "waits" /\ c.early

LEMMA AnswerStep ==
    ASSUME Inv, NEW c \in calls, NEW reply \in {"ok", "cancelled", "active", "busy", "stale", "failed"},
           c.at # "answered", Answer(c, reply),
           Delivers(c, [c EXCEPT !.at = "answered", !.reply = reply]), UNCHANGED loopVars,
           guard' \in GuardType, guard'.halt = guard.halt
    PROVE  Inv'
<1> DEFINE d == [c EXCEPT !.at = "answered", !.reply = reply]
<1>1. c \in CallType
  BY DEF Inv, ComputerTypeOK, CallType
<1>2. d \in CallType /\ Follows(c, d) /\ d.at = "answered"
  BY <1>1 DEF CallType, Follows
<1>3. Step(c, d)
  BY DEF Answer
<1>4. ComputerTypeOK' /\ OneCall' /\ Books'
  BY <1>2, <1>3, StepKeepsBooks
<1>5. WaitsEarly'
  BY <1>2, <1>3 DEF Inv, WaitsEarly, Step
<1> QED  BY <1>4, <1>5 DEF Inv

LEMMA WorkerStep ==
    ASSUME Inv, CallStep, UNCHANGED loopVars
    PROVE  Inv' /\ Obeys
<1>1. PICK c \in calls : GuardChecks(c) \/ Lands(c) \/ RefusedLate(c) \/ NotDelivered(c)
  BY DEF CallStep
<1>2. c \in CallType /\ guard \in GuardType /\ pressed \in [Targets -> Nat]
  BY DEF Inv, ComputerTypeOK, CallType, GuardType
<1>3. CASE GuardChecks(c)
  <2>1. PICK g \in Asked :
           /\ guard' = g
           /\ IF Says(g) = "pass" THEN Step(c, [c EXCEPT !.at = "waits"]) ELSE Answer(c, Says(g))
    BY <1>3 DEF GuardChecks
  <2>2. /\ guard' \in GuardType /\ guard'.halt = guard.halt /\ c.at = "asked"
        /\ pressed' = pressed /\ missed' = missed
    BY <1>2, <1>3, <2>1, AskedKeepsHalt DEF GuardChecks
  <2>3. CASE Says(g) = "pass"
    <3> DEFINE d == [c EXCEPT !.at = "waits"]
    <3>1. d \in CallType /\ Follows(c, d) /\ Step(c, d) /\ d.reply = "none"
      BY <1>2, <2>1, <2>2, <2>3 DEF CallType, Follows, Inv, OneCall
    <3>2. Delivers(c, d)
      BY <2>2, <3>1 DEF Delivers
    <3>3. ComputerTypeOK' /\ OneCall' /\ Books'
      BY <2>2, <3>1, <3>2, StepKeepsBooks
    <3>4. ~guard'.halt
      BY <1>2, <2>1, <2>3, AskedKeepsHalt
    <3> QED  BY <2>2, <3>3, <3>4 DEF Inv, WaitsEarly, Obeys
  <2>4. CASE Says(g) # "pass"
    <3>1. Says(g) \in {"cancelled", "active"} /\ Answer(c, Says(g))
      BY <2>1, <2>4 DEF Says
    <3>2. Delivers(c, [c EXCEPT !.at = "answered", !.reply = Says(g)])
      BY <1>2, <2>2, <3>1 DEF Delivers, CallType
    <3>3. Inv'
      BY <2>2, <3>1, <3>2, AnswerStep
    <3> QED  BY <2>2, <3>3 DEF Obeys
  <2> QED  BY <2>3, <2>4
<1>4. CASE Lands(c)
  <2>1. PICK g \in IF c.on \in Typed THEN Asked ELSE {guard} : StillAllowed(c, g) /\ guard' = g
    BY <1>4 DEF Lands
  <2>2. /\ c.at = "waits" /\ Answer(c, "ok") /\ pressed' = [pressed EXCEPT ![c.on] = @ + 1]
        /\ missed' = IF c.heard /\ c.by = "list" THEN missed ELSE [missed EXCEPT ![c.on] = @ + 1]
    BY <1>4 DEF Lands
  <2>3. /\ guard' \in GuardType /\ guard'.halt = guard.halt
        /\ c.on \in Typed => ~guard.halt
    BY <1>2, <2>1, AskedKeepsHalt DEF StillAllowed
  <2>4. Delivers(c, [c EXCEPT !.at = "answered", !.reply = "ok"])
    BY <1>2, <2>2 DEF Delivers, CallType
  <2>5. Inv'
    BY <2>2, <2>3, <2>4, AnswerStep
  <2>6. Obeys
    <3> SUFFICES ASSUME NEW t \in Targets, guard.halt, pressed'[t] # pressed[t]
                 PROVE  t \notin Typed /\ \E e \in calls : e.on = t /\ e.at = "waits" /\ e.early
      BY DEF Obeys
    <3>1. t = c.on
      BY <1>2, <2>2
    <3> QED  BY <2>2, <2>3, <3>1 DEF Inv, WaitsEarly
  <2> QED  BY <2>5, <2>6
<1>5. CASE RefusedLate(c)
  <2>1. PICK g \in Asked : Says(g) # "pass" /\ guard' = g /\ Answer(c, Says(g))
    BY <1>5 DEF RefusedLate
  <2>2. /\ guard' \in GuardType /\ guard'.halt = guard.halt /\ c.at = "waits"
        /\ pressed' = pressed /\ missed' = missed /\ Says(g) \in {"cancelled", "active"}
    BY <1>2, <1>5, <2>1, AskedKeepsHalt DEF RefusedLate, Says
  <2>3. Delivers(c, [c EXCEPT !.at = "answered", !.reply = Says(g)])
    BY <1>2, <2>2 DEF Delivers, CallType
  <2>4. Inv'
    BY <2>1, <2>2, <2>3, AnswerStep
  <2> QED  BY <2>2, <2>4 DEF Obeys
<1>6. CASE NotDelivered(c)
  <2>1. PICK reply \in {"busy", "stale", "failed"} : Answer(c, reply)
    BY <1>6 DEF NotDelivered
  <2>2. guard' = guard /\ c.at = "waits" /\ pressed' = pressed /\ missed' = missed
    BY <1>6 DEF NotDelivered
  <2>3. Delivers(c, [c EXCEPT !.at = "answered", !.reply = reply])
    BY <1>2, <2>2 DEF Delivers, CallType
  <2>4. Inv'
    BY <1>2, <2>1, <2>2, <2>3, AnswerStep
  <2> QED  BY <2>2, <2>4 DEF Obeys
<1> QED  BY <1>1, <1>3, <1>4, <1>5, <1>6

\* A step that leaves the calls, the loop and the counts alone.
LEMMA GuardOnly ==
    ASSUME Inv, UNCHANGED <<calls, pressed, missed, loopVars>>, guard' \in GuardType,
           guard'.halt => guard.halt
    PROVE  Inv'
<1>1. ComputerTypeOK'
  BY DEF Inv, ComputerTypeOK, GuardType, loopVars
<1>2. OneCall' /\ WaitsEarly'
  BY DEF Inv, OneCall, On, WaitsEarly, loopVars
<1>3. Books'
  BY DEF Inv, Books, Balance, On, Uncounted, Counts, Asks, loopVars
<1> QED  BY <1>1, <1>2, <1>3 DEF Inv

Marked(c) == [c EXCEPT !.early = @ \/ c.at = "waits"]

LEMMA OwnerSteps ==
    ASSUME Inv, OwnerStep, UNCHANGED loopVars
    PROVE  Inv' /\ pressed' = pressed
<1>1. guard \in GuardType
  BY DEF Inv, ComputerTypeOK, GuardType
<1>2. CASE Escape
  <2>1. /\ guard' = [guard EXCEPT !.halt = TRUE, !.busy = TRUE]
        /\ calls' = {Marked(c) : c \in calls}
        /\ pressed' = pressed /\ missed' = missed
    BY <1>2 DEF Escape, Marked
  <2>2. run' = run /\ history' = history /\ saved' = saved /\ tries' = tries /\ outcome' = outcome
    BY DEF loopVars
  <2>3. \A c \in calls : /\ Marked(c) \in CallType
                         /\ Marked(c).on = c.on /\ Marked(c).by = c.by /\ Marked(c).at = c.at
                         /\ Marked(c).reply = c.reply /\ Marked(c).heard = c.heard
                         /\ c.at = "waits" => Marked(c).early
    BY ZenonT(40) DEF Inv, ComputerTypeOK, CallType, Marked
  <2>4. /\ \A d \in calls' : \E c \in calls : d = Marked(c)
        /\ \A c \in calls : Marked(c) \in calls'
    BY <2>1, Zenon
  <2>5. ComputerTypeOK'
    <3>1. guard' \in GuardType
      BY <1>1, <2>1 DEF GuardType
    <3>2. calls' \subseteq CallType
      BY <2>4, <2>3
    <3> QED  BY <2>1, <2>2, <3>1, <3>2 DEF Inv, ComputerTypeOK, CallType, GuardType
  <2>6. OneCall'
    BY <2>4, <2>2, <2>3 DEF Inv, OneCall, On
  <2>7. WaitsEarly'
    BY <2>4, <2>3 DEF WaitsEarly
  <2>8. ASSUME NEW t \in Targets
        PROVE  /\ (\E c \in calls' : Asks(c, t)) => (\E c \in calls : Asks(c, t))
               /\ (\E c \in calls' : Counts(c, t)) => (\E c \in calls : Counts(c, t))
               /\ (\E c \in calls : Counts(c, t)) => (\E c \in calls' : Counts(c, t))
    BY <2>4, <2>3 DEF Counts, Asks
  <2>9. ASSUME NEW t \in Targets
        PROVE  Uncounted(t)' = Uncounted(t) /\ (Balance(t) => Balance(t)')
    <3>1. Uncounted(t)' = Uncounted(t)
      BY <2>8 DEF Uncounted
    <3> QED  BY <2>1, <2>2, <2>8, <3>1 DEF Balance
  <2>10. Books'
    BY <2>1, <2>2, <2>9, LimitedOnes DEF Inv, Books, On
  <2> QED  BY <2>1, <2>5, <2>6, <2>7, <2>10 DEF Inv
<1>3. CASE OwnerInput \/ OwnerRests
  <2>1. PICK b \in BOOLEAN : guard' = [guard EXCEPT !.busy = b]
    BY <1>3 DEF OwnerInput, OwnerRests
  <2>2. guard' \in GuardType /\ guard'.halt = guard.halt
    BY <1>1, <2>1 DEF GuardType
  <2>3. UNCHANGED <<calls, pressed, missed>>
    BY <1>3 DEF OwnerInput, OwnerRests
  <2> QED  BY <2>2, <2>3, GuardOnly
<1>4. CASE Tick
  <2>1. guard.armed \in 0..ArmFor /\ ArmFor \in Nat
    BY <1>1, DesktopAssumption DEF GuardType
  <2>2. (IF guard.armed > 0 THEN guard.armed - 1 ELSE 0) \in 0..ArmFor
    BY <2>1
  <2>3. guard' \in GuardType /\ guard'.halt = FALSE
    BY <1>4, <2>2 DEF Tick, GuardType
  <2> QED  BY <1>4, <2>3, GuardOnly DEF Tick
<1> QED  BY <1>2, <1>3, <1>4 DEF OwnerStep

-----------------------------------------------------------------------------
(* The loop. *)

Outcomes == {"none", "verified", "unverified", "asked", "blocked"}

\* Presses that neither history holds need no remembering.
LEMMA NothingPending ==
    ASSUME \A c \in calls : ~c.heard
    PROVE  \A t : Uncounted(t) = 0 /\ ~\E c \in calls : Asks(c, t)
  BY DEF Uncounted, Counts, Asks

\* An entry is made, or the loop is left: what was asked of the worker is answered.
LEMMA Turns ==
    ASSUME Inv, On, NEW x \in Entries,
           calls' \subseteq calls, \A c \in calls' : ~c.heard,
           UNCHANGED <<pressed, missed, tries>>,
           guard' \in GuardType, guard'.halt => guard.halt,
           run' \in RunType, run'.pc \in {"look", "over"}, outcome' \in Outcomes,
           \A c \in calls, t \in Targets : Counts(c, t) => x = t,
           x \in Limited => CountIn(history, x) < Allowed[x],
           \/ history' = Append(history, x)
           \/ history' = <<>> /\ run'.pc = "over",
           \/ saved' = saved /\ x \notin Targets
           \/ saved' = Remembered(Append(history, x))
    PROVE  Inv'
<1> DEFINE a == Append(history, x)
<1>1. history \in Seq(Entries) /\ saved \in Seq(Entries) /\ Len(saved) <= Keep
  BY DEF Inv, ComputerTypeOK, Entries
<1>2. a \in Seq(Entries)
  BY <1>1, AppendProperties
<1>3. /\ Remembered(a) \in Seq(Entries) /\ Len(Remembered(a)) <= Keep
      /\ \A e : CountIn(Remembered(a), e) = Recent(a, e)
  BY <1>2, RememberedCounts
<1>4. ASSUME NEW t \in Targets
      PROVE  /\ CountIn(a, t) = CountIn(history, t) + IF x = t THEN 1 ELSE 0
             /\ Recent(a, t) \in Nat /\ CountIn(a, t) \in Nat /\ Recent(a, t) <= CountIn(a, t)
             /\ x # t => Recent(a, t) <= Recent(history, t)
  <2>1. CountIn(a, t) = CountIn(history, t) + IF x = t THEN 1 ELSE 0
    BY <1>1, CountAppend
  <2>2. x # t => Recent(a, t) <= Recent(history, t)
    BY <1>1, RecentAppendOther
  <2>3. /\ CountIn(a, t) \in Nat /\ Recent(a, t) \in Nat /\ Older(a, t) \in Nat
        /\ CountIn(a, t) = Older(a, t) + Recent(a, t)
    BY <1>2, CountSplits
  <2> HIDE DEF a
  <2> QED  BY <2>1, <2>2, <2>3
<1>5. history' \in Seq(Entries) /\ saved' \in Seq(Entries) /\ Len(saved') <= Keep
  <2>1. (history' = a \/ history' = <<>>) /\ (saved' = saved \/ saved' = Remembered(a))
    OBVIOUS
  <2>2. history' \in Seq(Entries)
    BY <1>2, <2>1, EmptySeq, Zenon
  <2>3. saved' \in Seq(Entries) /\ Len(saved') <= Keep
    BY <1>1, <1>3, <2>1, Zenon
  <2> QED  BY <2>2, <2>3
<1>6. ComputerTypeOK'
  BY <1>5 DEF Inv, ComputerTypeOK, Entries, GuardType, RunType, Outcomes
<1>7. OneCall' /\ WaitsEarly'
  BY DEF Inv, OneCall, On, WaitsEarly
<1>8. ASSUME NEW t \in Limited
      PROVE  /\ pressed[t] <= CountIn(a, t) + missed[t]
             /\ CountIn(a, t) <= Allowed[t]
             /\ Recent(a, t) <= CountIn(saved', t)
             /\ CountIn(saved', t) <= Allowed[t]
             /\ pressed[t] <= Allowed[t] + missed[t]
  <2>1. Balance(t) /\ CountIn(saved, t) <= Allowed[t] /\ pressed[t] <= Allowed[t] + missed[t]
    BY DEF Inv, Books
  <2>2. /\ pressed[t] \in Nat /\ missed[t] \in Nat /\ Allowed[t] \in Nat
        /\ CountIn(history, t) \in Nat /\ CountIn(saved, t) \in Nat /\ Recent(history, t) \in Nat
        /\ Uncounted(t) \in {0, 1}
    BY Numbers, LimitedOnes DEF Inv
  <2>3. Uncounted(t) = 1 => x = t
    BY LimitedOnes DEF Uncounted
  <2>4. /\ pressed[t] <= CountIn(history, t) + missed[t] + Uncounted(t)
        /\ CountIn(history, t) <= Allowed[t]
        /\ Recent(history, t) <= CountIn(saved, t)
    BY <2>1 DEF Balance
  <2>5. x = t => CountIn(history, t) < Allowed[t]
    OBVIOUS
  <2>6. \/ saved' = saved /\ x # t
        \/ saved' = Remembered(a) /\ CountIn(saved', t) = Recent(a, t)
    BY <1>3, LimitedOnes
  <2> HIDE DEF a
  <2>7. pressed[t] <= CountIn(a, t) + missed[t] /\ CountIn(a, t) <= Allowed[t]
    BY <1>4, LimitedOnes, <2>2, <2>3, <2>4, <2>5
  <2>8. Recent(a, t) <= CountIn(saved', t) /\ CountIn(saved', t) <= Allowed[t]
    <3>1. CASE saved' = saved /\ x # t
      BY <1>4, LimitedOnes, <2>1, <2>2, <2>4, <3>1
    <3>2. CASE CountIn(saved', t) = Recent(a, t)
      BY <1>4, LimitedOnes, <2>2, <2>7, <3>2
    <3> QED  BY <2>6, <3>1, <3>2
  <2> QED  BY <2>1, <2>7, <2>8
<1>9. ASSUME NEW t \in Limited, On' PROVE Balance(t)'
  <2>1. history' = a
    BY <1>9 DEF On
  <2>2. Uncounted(t)' = 0 /\ ~\E c \in calls' : Asks(c, t)
    BY DEF Uncounted, Counts, Asks
  <2>3. pressed[t] <= CountIn(a, t) + missed[t] + 0
    BY <1>4, <1>8, Numbers, LimitedOnes DEF Inv
  <2> HIDE DEF a
  <2>4. pressed'[t] <= CountIn(history', t) + missed'[t] + Uncounted(t)'
    BY <2>1, <2>2, <2>3
  <2> QED  BY <1>8, <2>1, <2>2, <2>4 DEF Balance
<1>10. run'.pc # "out"
  OBVIOUS
<1>11. Books'
  BY <1>8, <1>9, <1>10 DEF Books
<1> QED  BY <1>6, <1>7, <1>11 DEF Inv

\* A call is sent, in the place of the one that was answered when there was one.
LEMMA Sends ==
    ASSUME Inv, On, NEW d \in Targets \X {"list", "locate"}, NEW n \in 1..MaxTries, NEW C \in SUBSET calls,
           calls' = C \cup {Call(n, d[1], d[2])},
           \A c \in C : ~c.heard,
           \A c \in calls, t \in Targets : ~Counts(c, t),
           d[2] = "list" /\ d[1] \in Limited => CountIn(history, d[1]) < Allowed[d[1]],
           UNCHANGED <<guard, pressed, missed, history, saved, tries, outcome>>,
           run' \in RunType, run'.pc \in {"act", "again"}
    PROVE  Inv'
<1> DEFINE e == Call(n, d[1], d[2])
<1>1. d[1] \in Targets /\ d[2] \in {"list", "locate"}
  OBVIOUS
<1>2. /\ e \in CallType /\ e.on = d[1] /\ e.by = d[2] /\ e.at = "asked" /\ e.reply = "none"
      /\ e.heard
  BY <1>1 DEF Call, CallType
<1> HIDE DEF e
<1>3. calls' = C \cup {e}
  BY DEF e
<1>4. ComputerTypeOK'
  BY <1>2, <1>3 DEF Inv, ComputerTypeOK, CallType, RunType
<1>5. OneCall' /\ WaitsEarly'
  BY <1>2, <1>3 DEF Inv, OneCall, On, WaitsEarly
<1>6. ASSUME NEW t \in Limited
      PROVE  /\ Uncounted(t) = 0 /\ Uncounted(t)' = 0
             /\ (\E c \in calls' : Asks(c, t)) => CountIn(history, t) < Allowed[t]
  BY <1>1, <1>2, <1>3, LimitedOnes DEF Uncounted, Counts, Asks
<1>7. ASSUME NEW t \in Limited PROVE Balance(t)'
  <2>1. Balance(t)
    BY DEF Inv, Books
  <2> QED  BY <1>6, <2>1 DEF Balance
<1>8. Books'
  BY <1>7 DEF Inv, Books
<1> QED  BY <1>4, <1>5, <1>8 DEF Inv

\* The loop looks, or looks again.
LEMMA Looks ==
    ASSUME Inv, run.pc = "look", UNCHANGED <<calls, pressed, missed, history, saved, tries, outcome>>,
           guard' \in GuardType, guard'.halt => guard.halt,
           run' \in RunType, run'.pc \in {"look", "plan"}
    PROVE  Inv'
<1>1. On /\ On'
  BY DEF On
<1>2. ComputerTypeOK'
  BY DEF Inv, ComputerTypeOK, GuardType, RunType
<1>3. OneCall' /\ WaitsEarly'
  BY <1>1 DEF Inv, OneCall, WaitsEarly
<1>4. \A t \in Limited : Balance(t) => Balance(t)'
  BY DEF Balance, Uncounted, Counts, Asks
<1>5. Books'
  BY <1>1, <1>4 DEF Inv, Books
<1> QED  BY <1>2, <1>3, <1>5 DEF Inv

\* The end of a round is a turn.
LEMMA RoundTurns ==
    ASSUME NEW r \in RunType, NEW x, Round(r, x), outcome \in Outcomes
    PROVE  /\ run' \in RunType /\ run'.pc \in {"look", "over"} /\ outcome' \in Outcomes
           /\ \/ history' = Append(history, x)
              \/ history' = <<>> /\ run'.pc = "over"
<1>1. MaxSteps \in Nat \ {0} /\ OwnerWaits \in Nat /\ StaleRetries \in Nat
  BY ComputerAssumption
<1>2. CASE r.n < MaxSteps
  <2>1. /\ run' = [r EXCEPT !.pc = "look", !.n = @ + 1, !.looks = 0]
        /\ history' = Append(history, x) /\ outcome' = outcome
    BY <1>2 DEF Round
  <2>2. r.n + 1 \in 0..MaxSteps /\ 0 \in 0..OwnerWaits
    BY <1>1, <1>2 DEF RunType
  <2>3. run' \in RunType /\ run'.pc = "look"
    BY <2>1, <2>2 DEF RunType
  <2> QED  BY <2>1, <2>3
<1>3. CASE ~(r.n < MaxSteps)
  <2>1. run' = [Off EXCEPT !.pc = "over"] /\ outcome' = "blocked" /\ history' = <<>>
    BY <1>3 DEF Round, Over
  <2> QED  BY <1>1, <2>1 DEF Off, RunType, Outcomes
<1> QED  BY <1>2, <1>3

\* The end of the loop is a turn, too.
LEMMA EndTurns ==
    ASSUME NEW how \in Outcomes, Ends(how)
    PROVE  /\ run' \in RunType /\ run'.pc = "over" /\ outcome' \in Outcomes
           /\ history' = <<>> /\ saved' = saved /\ tries' = tries
<1>1. MaxSteps \in Nat \ {0} /\ OwnerWaits \in Nat /\ StaleRetries \in Nat
  BY ComputerAssumption
<1> QED  BY <1>1 DEF Ends, Over, Off, RunType, Outcomes

\* A round that records nothing but a note, and the end of the loop.
LEMMA NoteStep ==
    ASSUME Inv, On, calls' \subseteq calls, \A c \in calls' : ~c.heard,
           \A c \in calls, t \in Targets : ~Counts(c, t),
           UNCHANGED <<pressed, missed>>, guard' \in GuardType, guard'.halt => guard.halt,
           NEW r \in RunType, NEW x \in Notes,
           \/ \E how \in Outcomes : Ends(how)
           \/ Round(r, x) /\ UNCHANGED <<saved, tries>>
           \/ Round(r, x) /\ Entered(x) /\ UNCHANGED tries
    PROVE  Inv'
<1>1. x \in Entries /\ x \notin Targets /\ outcome \in Outcomes
  BY NotesAssumption DEF Entries, Inv, ComputerTypeOK, Outcomes
<1>2. CASE \E how \in Outcomes : Ends(how)
  <2>1. /\ run' \in RunType /\ run'.pc = "over" /\ outcome' \in Outcomes
        /\ history' = <<>> /\ saved' = saved /\ tries' = tries
    BY <1>2, EndTurns
  <2> QED  BY <1>1, <2>1, LimitedOnes, Turns
<1>3. CASE Round(r, x) /\ UNCHANGED tries /\ (saved' = saved \/ Entered(x))
  <2>1. /\ run' \in RunType /\ run'.pc \in {"look", "over"} /\ outcome' \in Outcomes
        /\ \/ history' = Append(history, x)
           \/ history' = <<>> /\ run'.pc = "over"
    BY <1>1, <1>3, RoundTurns
  <2>2. saved' = saved \/ saved' = Remembered(Append(history, x))
    BY <1>3 DEF Entered
  <2> QED  BY <1>1, <1>3, <2>1, <2>2, LimitedOnes, Turns
<1> QED  BY <1>2, <1>3

\* While the loop looks or plans, no call is waited for.
LEMMA PlansAlone ==
    ASSUME Inv, run.pc \in {"look", "plan"}
    PROVE  /\ On /\ \A c \in calls : ~c.heard
           /\ \A c \in calls, t \in Targets : ~Counts(c, t)
           /\ guard \in GuardType /\ run \in RunType
  BY DEF Inv, OneCall, On, Counts, Asks, ComputerTypeOK, GuardType, RunType

LEMMA LookSteps ==
    ASSUME Inv, Look \/ LookRefused \/ WindowGone
    PROVE  Inv' /\ pressed' = pressed
<1>1. run.pc = "look"
  BY DEF Look, LookRefused, WindowGone
<1>2. /\ On /\ \A c \in calls : ~c.heard
      /\ \A c \in calls, t \in Targets : ~Counts(c, t)
      /\ guard \in GuardType /\ run \in RunType
  BY <1>1, PlansAlone
<1>3. CASE Look
  <2>1. guard' \in GuardType /\ guard'.halt = guard.halt
    BY <1>2, <1>3, AskedKeepsHalt DEF Look
  <2>2. run' \in RunType /\ run'.pc = "plan"
    BY <1>2, <1>3 DEF Look, RunType
  <2> QED  BY <1>1, <1>3, <2>1, <2>2, Looks DEF Look
<1>4. CASE LookRefused
  <2>1. PICK g \in Asked :
           /\ guard' = g
           /\ IF Says(g) = "active" /\ run.looks < OwnerWaits
              THEN /\ run' = [run EXCEPT !.looks = @ + 1]
                   /\ UNCHANGED <<history, saved, tries, outcome>>
              ELSE Ends("blocked")
    BY <1>4 DEF LookRefused
  <2>2. /\ guard' \in GuardType /\ guard'.halt = guard.halt
        /\ UNCHANGED <<calls, pressed, missed>>
    BY <1>2, <1>4, <2>1, AskedKeepsHalt DEF LookRefused
  <2>3. CASE Says(g) = "active" /\ run.looks < OwnerWaits
    <3>1. /\ run' = [run EXCEPT !.looks = @ + 1]
          /\ UNCHANGED <<history, saved, tries, outcome>>
      BY <2>1, <2>3
    <3>2. run.looks + 1 \in 0..OwnerWaits
      BY <1>2, <2>3, ComputerAssumption DEF RunType
    <3>3. run' \in RunType /\ run'.pc = "look"
      BY <1>1, <1>2, <3>1, <3>2 DEF RunType
    <3> QED  BY <1>1, <2>2, <3>1, <3>3, Looks
  <2>4. CASE ~(Says(g) = "active" /\ run.looks < OwnerWaits)
    <3>1. Ends("blocked") /\ "blocked" \in Outcomes /\ "noted" \in Notes
      BY <2>1, <2>4 DEF Outcomes, Notes
    <3> QED  BY <1>2, <2>2, <3>1, NoteStep
  <2> QED  BY <2>3, <2>4
<1>5. CASE WindowGone
  <2>1. ClosedAfter \in Outcomes /\ Ends(ClosedAfter) /\ "noted" \in Notes
    BY <1>5 DEF WindowGone, ClosedAfter, Outcomes, Notes
  <2>2. UNCHANGED <<guard, calls, pressed, missed>>
    BY <1>5 DEF WindowGone, desktopVars
  <2> QED  BY <1>2, <2>1, <2>2, NoteStep
<1> QED  BY <1>3, <1>4, <1>5

LEMMA PlanSteps ==
    ASSUME Inv,
           \/ NoInput \/ Other \/ Stops
           \/ \E checked \in {"yes", "no", "unknown"}, judge \in {"yes", "no", "unsure"} :
                SaysDone(checked, judge)
    PROVE  Inv' /\ pressed' = pressed
<1>1. run.pc = "plan" /\ UNCHANGED <<guard, calls, pressed, missed>>
  BY DEF NoInput, Other, Stops, SaysDone, desktopVars
<1>2. /\ On /\ \A c \in calls : ~c.heard
      /\ \A c \in calls, t \in Targets : ~Counts(c, t)
      /\ guard \in GuardType /\ run \in RunType
  BY <1>1, PlansAlone
<1>3. [run EXCEPT !.stale = 0] \in RunType
  BY <1>2, ComputerAssumption DEF RunType
<1>4. "noted" \in Notes /\ "input" \in Notes
  BY DEF Notes
<1>5. CASE NoInput
  <2>1. Round(run, "noted") /\ UNCHANGED <<saved, tries>>
    BY <1>5 DEF NoInput
  <2> QED  BY <1>1, <1>2, <1>4, <2>1, NoteStep
<1>6. CASE Other
  <2>1. PICK e \in {"input", "noted"} : /\ Round([run EXCEPT !.stale = 0], e) /\ Entered(e)
                                        /\ UNCHANGED tries
    BY <1>6 DEF Other
  <2>2. e \in Notes
    BY <1>4
  <2> QED  BY <1>1, <1>2, <1>3, <2>1, <2>2, NoteStep
<1>7. CASE Stops
  <2>1. \E how \in Outcomes : Ends(how)
    BY <1>7 DEF Stops, Outcomes
  <2> QED  BY <1>1, <1>2, <1>4, <2>1, NoteStep
<1>8. ASSUME NEW checked \in {"yes", "no", "unknown"}, NEW judge \in {"yes", "no", "unsure"},
             SaysDone(checked, judge)
      PROVE  Inv'
  <2>1. CASE Verdict(checked, judge) = "no" /\ run.bad < 1
    <3>1. Round([run EXCEPT !.bad = @ + 1], "noted") /\ UNCHANGED <<saved, tries>>
      BY <1>2, <1>8, <2>1 DEF SaysDone, RunType
    <3>2. [run EXCEPT !.bad = @ + 1] \in RunType
      BY <1>2, <2>1 DEF RunType
    <3> QED  BY <1>1, <1>2, <1>4, <3>1, <3>2, NoteStep
  <2>2. CASE ~(Verdict(checked, judge) = "no" /\ run.bad < 1)
    <3>1. \E how \in Outcomes : Ends(how)
      BY <1>2, <1>8, <2>2 DEF SaysDone, Outcomes, RunType
    <3> QED  BY <1>1, <1>2, <1>4, <3>1, NoteStep
  <2> QED  BY <2>1, <2>2
<1> QED  BY <1>1, <1>5, <1>6, <1>7, <1>8

LEMMA PressStep ==
    ASSUME Inv, NEW d \in Presses, Press(d)
    PROVE  Inv' /\ pressed' = pressed
<1>1. /\ run.pc = "plan" /\ calls' = calls \cup {Call(tries, d[1], d[2])}
      /\ run' = [run EXCEPT !.pc = "act"]
      /\ UNCHANGED <<guard, pressed, missed, history, saved, tries, outcome>>
  BY DEF Press
<1>2. /\ On /\ \A c \in calls : ~c.heard
      /\ \A c \in calls, t \in Targets : ~Counts(c, t)
      /\ run \in RunType
  BY <1>1, PlansAlone
<1>3. tries \in 1..MaxTries
  BY <1>2, ComputerAssumption DEF Inv, OneCall, ComputerTypeOK
<1>4. run' \in RunType /\ run'.pc = "act"
  BY <1>1, <1>2 DEF RunType
<1>5. d[2] = "list" /\ d[1] \in Limited => CountIn(history, d[1]) < Allowed[d[1]]
  BY DEF Press, MayPress, Count, CountIn
<1>6. d \in Targets \X {"list", "locate"}
  BY DEF Presses
<1> QED  BY <1>1, <1>2, <1>3, <1>4, <1>5, <1>6, Sends

LEMMA AnsweredSteps ==
    ASSUME Inv, NEW c \in calls, Answered(c)
    PROVE  Inv' /\ pressed' = pressed
<1>1. /\ Heard(c) /\ UNCHANGED <<guard, pressed, missed>>
      /\ calls' = calls \ {c} \/ AskedAgain(c)
  BY DEF Answered, AskedAgain, Cancelled, OwnerActive, StaleTarget, Recorded, Final
<1>2. /\ On /\ guard \in GuardType /\ run \in RunType /\ c \in CallType
      /\ run.pc \in {"act", "again"}
  BY <1>1 DEF Heard, On, Inv, ComputerTypeOK, GuardType, RunType, CallType
<1>3. \A e \in calls \ {c} : ~e.heard
  BY <1>1 DEF Heard, Inv, OneCall
<1>4. c.reply # "ok" => \A e \in calls, t \in Targets : ~Counts(e, t)
  BY <1>3 DEF Counts, Asks
<1>5. "noted" \in Notes /\ "waited" \in Notes /\ "input" \in Notes /\ "blocked" \in Outcomes
  BY DEF Notes, Outcomes
<1>6. CASE AskedAgain(c)
  <2>1. /\ c.reply = "busy" /\ calls' = (calls \ {c}) \cup {Call(c.try, c.on, c.by)}
        /\ run' = [run EXCEPT !.pc = "again"]
        /\ UNCHANGED <<guard, pressed, missed, history, saved, tries, outcome>>
    BY <1>6 DEF AskedAgain
  <2>2. run' \in RunType /\ run'.pc = "again"
    BY <1>2, <2>1 DEF RunType
  <2> DEFINE d == <<c.on, c.by>>
  <2>3. /\ d \in Targets \X {"list", "locate"} /\ c.try \in 1..MaxTries
        /\ d[1] = c.on /\ d[2] = c.by
    BY <1>2 DEF CallType
  <2>4. d[2] = "list" /\ d[1] \in Limited => CountIn(history, d[1]) < Allowed[d[1]]
    <3>1. ASSUME c.by = "list" PROVE Asks(c, c.on) /\ c.on \in Targets
      BY <1>1, <1>2, <3>1 DEF Asks, Heard, CallType
    <3>2. \A t \in Limited : Balance(t)
      BY <1>2 DEF Inv, Books
    <3> QED  BY <2>3, <3>1, <3>2 DEF Balance
  <2>5. calls' = (calls \ {c}) \cup {Call(c.try, d[1], d[2])}
    BY <2>1, <2>3
  <2>6. \A e \in calls, t \in Targets : ~Counts(e, t)
    BY <1>4, <2>1
  <2> HIDE DEF d
  <2> QED  BY <1>2, <1>3, <2>1, <2>2, <2>3, <2>4, <2>5, <2>6, Sends
<1>7. CASE Cancelled(c)
  <2>1. calls' = calls \ {c} /\ Ends("blocked") /\ c.reply = "cancelled"
    BY <1>7 DEF Cancelled
  <2> QED  BY <1>1, <1>2, <1>3, <1>4, <1>5, <2>1, NoteStep
<1>8. CASE OwnerActive(c)
  <2>1. /\ calls' = calls \ {c} /\ c.reply = "active"
        /\ \/ Ends("blocked")
           \/ Round(run, "waited") /\ UNCHANGED <<saved, tries>>
    BY <1>8 DEF OwnerActive
  <2> QED  BY <1>1, <1>2, <1>3, <1>4, <1>5, <2>1, NoteStep
<1>9. CASE StaleTarget(c)
  <2>1. calls' = calls \ {c} /\ c.reply = "stale"
    BY <1>9 DEF StaleTarget
  <2>2. CASE run.stale >= StaleRetries
    <3>1. Ends("blocked")
      BY <1>9, <2>2 DEF StaleTarget
    <3> QED  BY <1>1, <1>2, <1>3, <1>4, <1>5, <2>1, <3>1, NoteStep
  <2>3. CASE ~(run.stale >= StaleRetries)
    <3>1. Round([run EXCEPT !.stale = @ + 1], "noted") /\ UNCHANGED <<saved, tries>>
      BY <1>9, <2>3 DEF StaleTarget
    <3>2. run.stale + 1 \in 0..StaleRetries
      BY <1>2, <2>3, ComputerAssumption DEF RunType
    <3>3. [run EXCEPT !.stale = @ + 1] \in RunType
      BY <1>2, <3>2 DEF RunType
    <3> QED  BY <1>1, <1>2, <1>3, <1>4, <1>5, <2>1, <3>1, <3>3, NoteStep
  <2> QED  BY <2>2, <2>3
<1>10. CASE Recorded(c)
  <2>1. /\ calls' = calls \ {c} /\ tries' = tries
        /\ Round([run EXCEPT !.stale = 0], Entry(c)) /\ saved' = Remembered(Append(history, Entry(c)))
    BY <1>10 DEF Recorded, Entered
  <2>2. [run EXCEPT !.stale = 0] \in RunType /\ outcome \in Outcomes
    <3>1. [run EXCEPT !.stale = 0] \in RunType
      BY <1>2, ComputerAssumption DEF RunType
    <3>2. outcome \in Outcomes
      BY DEF Inv, ComputerTypeOK, Outcomes
    <3> QED  BY <3>1, <3>2
  <2>3. /\ run' \in RunType /\ run'.pc \in {"look", "over"} /\ outcome' \in Outcomes
        /\ \/ history' = Append(history, Entry(c))
           \/ history' = <<>> /\ run'.pc = "over"
    BY <2>1, <2>2, RoundTurns
  <2>4. Entry(c) \in Entries /\ (Entry(c) \in Targets => Asks(c, Entry(c)))
    BY <1>1, <1>2, <1>5, NotesAssumption DEF Entry, Entries, Asks, Heard, CallType
  <2>5. \A e \in calls, t \in Targets : Counts(e, t) => Entry(c) = t
    BY <1>3 DEF Counts, Asks, Entry
  <2>6. Entry(c) \in Limited => CountIn(history, Entry(c)) < Allowed[Entry(c)]
    BY <1>2, <2>4, LimitedOnes DEF Inv, Books, Balance
  <2> QED  BY <1>1, <1>2, <1>3, <2>1, <2>3, <2>4, <2>5, <2>6, Turns
<1> QED  BY <1>1, <1>6, <1>7, <1>8, <1>9, <1>10 DEF Answered

LEMMA LoopSteps ==
    ASSUME Inv, LoopStep
    PROVE  Inv' /\ pressed' = pressed
<1>1. CASE Look \/ LookRefused \/ WindowGone
  BY <1>1, LookSteps
<1>2. CASE \/ NoInput \/ Other \/ Stops
           \/ \E checked \in {"yes", "no", "unknown"}, judge \in {"yes", "no", "unsure"} :
                SaysDone(checked, judge)
  BY <1>2, PlanSteps
<1>3. CASE \E d \in Presses : Press(d)
  BY <1>3, PressStep
<1>4. CASE \E c \in calls : Answered(c)
  BY <1>4, AnsweredSteps
<1> QED  BY <1>1, <1>2, <1>3, <1>4 DEF LoopStep

-----------------------------------------------------------------------------
(* An attempt begins, and is cut short. *)

LEMMA EnterStep ==
    ASSUME Inv, Enter
    PROVE  Inv' /\ pressed' = pressed
<1>1. /\ run.pc = "out" /\ tries < MaxTries /\ tries' = tries + 1
      /\ run' = [Off EXCEPT !.pc = "look", !.n = 1]
      /\ history' = IF saved = <<>> THEN <<>> ELSE Append(saved, "noted")
      /\ UNCHANGED <<guard, calls, pressed, missed, saved, outcome>>
  BY DEF Enter, desktopVars
<1>2. saved \in Seq(Entries) /\ "noted" \in Entries /\ "noted" \notin Targets
  BY NotesAssumption DEF Inv, ComputerTypeOK, Entries, Notes
<1>3. history' \in Seq(Entries)
  BY <1>1, <1>2, EmptySeq, AppendProperties
<1>4. ASSUME NEW t \in Targets PROVE CountIn(history', t) = CountIn(saved, t)
  <2>1. CASE saved = <<>>
    BY <1>1, <2>1
  <2>2. CASE saved # <<>>
    <3>1. history' = Append(saved, "noted")
      BY <1>1, <2>2
    <3>2. CountIn(Append(saved, "noted"), t) = CountIn(saved, t) + 0
      BY <1>2, CountAppend
    <3>3. CountIn(saved, t) \in Nat
      BY Numbers DEF Inv
    <3> QED  BY <3>1, <3>2, <3>3
  <2> QED  BY <2>1, <2>2
<1>5. run' \in RunType /\ run'.pc = "look"
  <2>1. 0 \in 0..OwnerWaits /\ 0 \in 0..StaleRetries /\ 1 \in 0..MaxSteps
    BY ComputerAssumption
  <2>2. run' = [pc |-> "look", n |-> 1, looks |-> 0, stale |-> 0, bad |-> 0]
    BY <1>1 DEF Off
  <2> QED  BY <2>1, <2>2 DEF RunType
<1>6. tries' \in 1..MaxTries /\ tries' >= 1
  BY <1>1, ComputerAssumption DEF Inv, ComputerTypeOK
<1>7. ComputerTypeOK'
  <2>1. tries' \in 0..MaxTries
    BY <1>6, ComputerAssumption
  <2> QED  BY <1>1, <1>3, <1>5, <2>1 DEF Inv, ComputerTypeOK, Entries, RunType
<1>8. OneCall' /\ WaitsEarly'
  BY <1>1, <1>5, <1>6 DEF Inv, OneCall, WaitsEarly
<1>9. \A c \in calls : ~c.heard
  BY <1>1 DEF Inv, OneCall
<1>10. ASSUME NEW t \in Limited PROVE Balance(t)'
  <2>1. Uncounted(t)' = 0 /\ ~\E c \in calls' : Asks(c, t)
    BY <1>1, <1>9 DEF Uncounted, Counts, Asks
  <2>2. /\ pressed[t] \in Nat /\ missed[t] \in Nat /\ CountIn(saved, t) \in Nat
        /\ pressed[t] <= CountIn(saved, t) + missed[t] /\ CountIn(saved, t) <= Allowed[t]
    BY <1>1, Numbers, LimitedOnes DEF Inv, Books
  <2>3. /\ CountIn(history', t) \in Nat /\ Recent(history', t) \in Nat /\ Older(history', t) \in Nat
        /\ CountIn(history', t) = Older(history', t) + Recent(history', t)
    BY <1>3, CountSplits
  <2>4. /\ pressed'[t] <= CountIn(history', t) + missed'[t] + Uncounted(t)'
        /\ CountIn(history', t) <= Allowed[t]
        /\ Recent(history', t) <= CountIn(saved', t)
    BY <1>1, <1>4, LimitedOnes, <2>1, <2>2, <2>3
  <2> QED  BY <2>1, <2>4 DEF Balance
<1>11. Books'
  BY <1>1, <1>5, <1>10 DEF Inv, Books
<1> QED  BY <1>1, <1>7, <1>8, <1>11 DEF Inv

\* What the core heard and did not record is one press at most.
LEMMA UnrecordedIsUncounted ==
    ASSUME Inv, NEW t \in Targets
    PROVE  Unrecorded(t) = Uncounted(t)
<1> DEFINE U == {c \in calls : c.on = t /\ c.heard /\ c.by = "list" /\ c.reply = "ok"}
<1>1. Unrecorded(t) = Cardinality(U)
  BY DEF Unrecorded
<1>2. CASE \E c \in calls : Counts(c, t)
  <2>1. PICK c \in calls : Counts(c, t)
    BY <1>2
  <2>2. U = {c}
    BY <2>1 DEF Counts, Asks, Inv, OneCall
  <2> HIDE DEF U
  <2>3. Cardinality({c}) = 1
    BY FS_Singleton
  <2>4. Unrecorded(t) = 1
    BY <1>1, <2>2, <2>3, Zenon
  <2> QED  BY <1>2, <2>4 DEF Uncounted
<1>3. CASE ~\E c \in calls : Counts(c, t)
  <2>1. U = {}
    BY <1>3 DEF Counts, Asks
  <2> HIDE DEF U
  <2>2. Cardinality({}) = 0
    BY FS_EmptySet
  <2>3. Unrecorded(t) = 0
    BY <1>1, <2>1, <2>2, Zenon
  <2> QED  BY <1>3, <2>3 DEF Uncounted
<1> QED  BY <1>2, <1>3

Unheard(c) == [c EXCEPT !.heard = FALSE]

LEMMA LeavesStep ==
    ASSUME Inv, Leaves
    PROVE  Inv' /\ pressed' = pressed
<1>1. /\ On /\ run' = Off /\ history' = <<>>
      /\ calls' = {Unheard(c) : c \in {d \in calls : d.at # "answered"}}
      /\ missed' = [t \in Targets |-> missed[t] + Forgotten(t) + Unrecorded(t)]
      /\ UNCHANGED <<guard, pressed, saved, tries, outcome>>
  BY DEF Leaves, Unheard
<1>2. \A d \in calls' : \E c \in calls : d = Unheard(c) /\ c.at # "answered"
  BY <1>1, Zenon
<1>3. \A c \in calls : /\ Unheard(c) \in CallType /\ ~Unheard(c).heard
                       /\ Unheard(c).at = c.at /\ Unheard(c).reply = c.reply
                       /\ Unheard(c).early = c.early
  BY ZenonT(40) DEF Inv, ComputerTypeOK, CallType, Unheard
<1>4. ASSUME NEW t \in Targets
      PROVE  /\ missed'[t] \in Nat
             /\ t \in Limited => /\ pressed[t] <= CountIn(saved, t) + missed'[t]
                                /\ pressed[t] <= Allowed[t] + missed'[t]
  <2>1. missed'[t] = missed[t] + Older(history, t) + Uncounted(t)
    BY <1>1, UnrecordedIsUncounted DEF Forgotten, Older
  <2>2. /\ pressed[t] \in Nat /\ missed[t] \in Nat /\ (t \in Limited => Allowed[t] \in Nat)
        /\ CountIn(history, t) \in Nat /\ CountIn(saved, t) \in Nat
        /\ Recent(history, t) \in Nat /\ Older(history, t) \in Nat
        /\ CountIn(history, t) = Older(history, t) + Recent(history, t)
        /\ Uncounted(t) \in {0, 1}
    BY Numbers, LimitedOnes DEF Inv
  <2>3. ASSUME t \in Limited
        PROVE  /\ pressed[t] <= CountIn(history, t) + missed[t] + Uncounted(t)
               /\ Recent(history, t) <= CountIn(saved, t)
               /\ pressed[t] <= Allowed[t] + missed[t]
    BY <1>1, <2>3 DEF Inv, Books, Balance
  <2> QED  BY <2>1, <2>2, <2>3
<1>5. ComputerTypeOK'
  <2>1. run' \in RunType
    BY <1>1, ComputerAssumption DEF Off, RunType
  <2>2. calls' \subseteq CallType
    BY <1>2, <1>3
  <2>3. missed' \in [Targets -> Nat]
    BY <1>1, <1>4
  <2>4. history' \in Seq(Entries)
    BY <1>1, EmptySeq
  <2> QED  BY <1>1, <2>1, <2>2, <2>3, <2>4 DEF Inv, ComputerTypeOK, RunType, CallType, Entries
<1>6. OneCall'
  BY <1>1, <1>2, <1>3 DEF Inv, OneCall, On, Off
<1>7. WaitsEarly'
  BY <1>1, <1>2, <1>3 DEF Inv, WaitsEarly
<1>8. ~On'
  BY <1>1 DEF On, Off
<1>9. Books'
  BY <1>1, <1>4, LimitedOnes, <1>8 DEF Inv, Books
<1> QED  BY <1>1, <1>5, <1>6, <1>7, <1>9 DEF Inv

-----------------------------------------------------------------------------
(* Every step. *)

LEMMA Steps ==
    ASSUME Inv, ComputerNext
    PROVE  Inv' /\ Obeys
<1>1. CASE Enter
  BY <1>1, EnterStep DEF Obeys
<1>2. CASE Leaves
  BY <1>2, LeavesStep DEF Obeys
<1>3. CASE LoopStep
  BY <1>3, LoopSteps DEF Obeys
<1>4. CASE CallStep /\ UNCHANGED loopVars
  BY <1>4, WorkerStep
<1>5. CASE OwnerStep /\ UNCHANGED loopVars
  BY <1>5, OwnerSteps DEF Obeys
<1> QED  BY <1>1, <1>2, <1>3, <1>4, <1>5 DEF ComputerNext

LEMMA Stutters ==
    ASSUME Inv, UNCHANGED computerVars
    PROVE  Inv'
<1>1. UNCHANGED <<calls, pressed, missed, loopVars>> /\ guard' = guard
  BY DEF computerVars, desktopVars, loopVars
<1>2. guard \in GuardType
  BY DEF Inv, ComputerTypeOK, GuardType
<1> QED  BY <1>1, <1>2, GuardOnly

\* The balance of presses, the one call that is waited for and the calls that were past the
\* guard before the Escape, after any number of attempts.
THEOREM ComputerSpecInv == ComputerSpec => []Inv
<1>1. Inv /\ [ComputerNext]_computerVars => Inv'
  BY Steps, Stutters
<1> QED  BY <1>1, Starts, PTL DEF ComputerSpec

\* Every variable keeps its type; what is remembered never holds more than Keep entries, and
\* no bound of the loop is passed.
THEOREM ComputerSpecTypeOK == ComputerSpec => []ComputerTypeOK
<1>1. Inv => ComputerTypeOK
  BY DEF Inv
<1> QED  BY <1>1, ComputerSpecInv, PTL

\* For any targets, rules, limits and number of attempts, a target gets its input as often as
\* the rules allow it, but for input the history could not count (_needed, text_problem and
\* ctx.remember with the attempts that are cut short).
THEOREM ComputerSpecPressedAsAsked == ComputerSpec => []PressedAsAsked
<1>1. Inv => PressedAsAsked
  BY DEF Inv, Books, PressedAsAsked
<1> QED  BY <1>1, ComputerSpecInv, PTL

\* Under the halt of an Escape nothing lands but what had passed the guard and waited for the
\* lease, and never a typed text (input_lease, on_key and _activate).
THEOREM ComputerSpecHaltHolds == ComputerSpec => HaltHolds
<1>1. Inv /\ [ComputerNext]_computerVars
      => [\A t \in Targets : guard.halt /\ pressed'[t] # pressed[t] =>
            t \notin Typed /\ \E c \in calls : c.on = t /\ c.at = "waits" /\ c.early]_desktopVars
  <2>1. ASSUME Inv, ComputerNext PROVE Obeys
    BY <2>1, Steps
  <2>2. ASSUME UNCHANGED computerVars PROVE UNCHANGED desktopVars
    BY <2>2 DEF computerVars
  <2> QED  BY <2>1, <2>2 DEF Obeys
<1> QED  BY <1>1, ComputerSpecInv, PTL DEF ComputerSpec, HaltHolds

-----------------------------------------------------------------------------
(* The loop runs down. *)

\* A loop that waits for an answer has a call, of its own attempt, that the worker will answer.
AnswerOwed == run.pc \in {"act", "again"} => \E c \in calls : c.heard /\ c.try = tries

\* How far a round at p is from its end.
Stage(p) == CASE p = "look" -> 4 [] p = "plan" -> 3 [] p = "act" -> 2 [] OTHER -> 1

\* The loop is left, a round is over, the round goes on, or one of the waits for the owner is used.
Onward ==
    \/ run'.pc = "over"
    \/ run'.n = run.n + 1
    \/ run'.n = run.n /\ Stage(run'.pc) < Stage(run.pc)
    \/ run'.n = run.n /\ run'.pc = run.pc /\ run'.looks = run.looks + 1

\* What becomes of the loop when a round or the loop ends.
LEMMA RoundOnward ==
    ASSUME run \in RunType, NEW x,
           NEW r \in {run, [run EXCEPT !.stale = 0], [run EXCEPT !.stale = @ + 1],
                      [run EXCEPT !.bad = @ + 1]},
           Round(r, x)
    PROVE  Onward /\ run'.pc \in {"look", "over"}
<1>1. Round(r, x) /\ r.n = run.n /\ DOMAIN r = DOMAIN run /\ r = [f \in DOMAIN r |-> r[f]]
  BY DEF RunType
<1>2. CASE r.n < MaxSteps
  <2>1. run' = [r EXCEPT !.pc = "look", !.n = @ + 1, !.looks = 0]
    BY <1>1, <1>2 DEF Round
  <2>2. run'.pc = "look" /\ run'.n = run.n + 1
    BY <1>1, <2>1 DEF RunType
  <2> QED  BY <2>2 DEF Onward
<1>3. CASE ~(r.n < MaxSteps)
  <2>1. run'.pc = "over"
    BY <1>1, <1>3 DEF Round, Over, Off
  <2> QED  BY <2>1 DEF Onward
<1> QED  BY <1>2, <1>3

LEMMA EndsOnward ==
    ASSUME NEW how, Ends(how)
    PROVE  Onward /\ run'.pc = "over"
  BY DEF Ends, Over, Off, Onward

LEMMA LoopOnward ==
    ASSUME Inv, LoopStep
    PROVE  /\ Onward
           /\ run'.pc \in {"act", "again"} =>
                \/ \E d \in Presses : Press(d)
                \/ \E c \in calls : AskedAgain(c)
<1>1. run \in RunType
  BY DEF Inv, ComputerTypeOK, RunType
<1>2. CASE Look \/ LookRefused \/ WindowGone
  <2>1. CASE \E how : Ends(how)
    BY <2>1, EndsOnward
  <2>2. CASE ~\E how : Ends(how)
    <3>1. run.pc = "look" /\ (run' = [run EXCEPT !.pc = "plan"] \/ run' = [run EXCEPT !.looks = @ + 1])
      BY <1>2, <2>2 DEF Look, LookRefused, WindowGone
    <3> QED  BY <1>1, <3>1 DEF Onward, Stage, RunType
  <2> QED  BY <2>1, <2>2
<1>3. CASE NoInput \/ Other \/ Stops
  BY <1>1, <1>3, RoundOnward, EndsOnward DEF NoInput, Other, Stops
<1>4. ASSUME NEW checked, NEW judge, SaysDone(checked, judge)
      PROVE  Onward /\ run'.pc \in {"look", "over"}
  BY <1>1, <1>4, RoundOnward, EndsOnward DEF SaysDone
<1>5. ASSUME NEW d \in Presses, Press(d)
      PROVE  Onward
  BY <1>1, <1>5 DEF Press, Onward, Stage, RunType
<1>6. ASSUME NEW c \in calls, AskedAgain(c)
      PROVE  Onward
  BY <1>1, <1>6 DEF AskedAgain, Onward, Stage, RunType
<1>7. ASSUME NEW c \in calls, Cancelled(c) \/ OwnerActive(c) \/ StaleTarget(c) \/ Recorded(c)
      PROVE  Onward /\ run'.pc \in {"look", "over"}
  <2>1. \/ \E how : Ends(how)
        \/ \E x : Round(run, x) \/ Round([run EXCEPT !.stale = 0], x)
                    \/ Round([run EXCEPT !.stale = @ + 1], x)
    BY <1>7 DEF Cancelled, OwnerActive, StaleTarget, Recorded
  <2> QED  BY <1>1, <2>1, RoundOnward, EndsOnward
<1> QED  BY <1>2, <1>3, <1>4, <1>5, <1>6, <1>7 DEF LoopStep, Answered

LEMMA OwedStep ==
    ASSUME Inv, AnswerOwed, ComputerNext
    PROVE  AnswerOwed'
<1>1. ASSUME LoopStep, ~\E d \in Presses : Press(d), ~\E c \in calls : AskedAgain(c)
      PROVE  AnswerOwed'
  <2>1. run'.pc \notin {"act", "again"}
    BY <1>1, LoopOnward
  <2> QED  BY <2>1 DEF AnswerOwed
<1>2. ASSUME NEW d \in Presses, Press(d)
      PROVE  AnswerOwed'
  <2>1. Call(tries, d[1], d[2]) \in calls' /\ tries' = tries
    BY <1>2 DEF Press
  <2>2. Call(tries, d[1], d[2]).heard /\ Call(tries, d[1], d[2]).try = tries
    BY DEF Call
  <2> QED  BY <2>1, <2>2 DEF AnswerOwed
<1>3. ASSUME NEW c \in calls, AskedAgain(c)
      PROVE  AnswerOwed'
  <2>1. c.try = tries /\ tries' = tries
    BY <1>3 DEF AskedAgain, Heard, AnswerOwed, Inv, OneCall
  <2>2. Call(c.try, c.on, c.by) \in calls'
    BY <1>3 DEF AskedAgain
  <2>3. Call(c.try, c.on, c.by).heard /\ Call(c.try, c.on, c.by).try = tries
    BY <2>1 DEF Call
  <2> QED  BY <2>1, <2>2, <2>3 DEF AnswerOwed
<1>4. CASE Enter \/ Leaves
  <2>1. run'.pc \in {"look", "out"}
    <3>1. CASE Enter
      <4>1. run' = [Off EXCEPT !.pc = "look", !.n = 1]
        BY <3>1 DEF Enter
      <4> QED  BY <4>1 DEF Off
    <3>2. CASE Leaves
      <4>1. run' = Off
        BY <3>2 DEF Leaves
      <4> QED  BY <4>1 DEF Off
    <3> QED  BY <1>4, <3>1, <3>2
  <2> QED  BY <2>1 DEF AnswerOwed
<1>5. ASSUME NEW c \in calls, NEW d, Step(c, d), Follows(c, d), UNCHANGED loopVars
      PROVE  AnswerOwed'
  <2>1. ASSUME NEW e \in calls, e.heard, e.try = tries
        PROVE  \E f \in calls' : f.heard /\ f.try = tries
    <3>1. CASE e = c
      BY <1>5, <2>1, <3>1 DEF Step, Follows
    <3>2. CASE e # c
      BY <1>5, <2>1, <3>2 DEF Step
    <3> QED  BY <3>1, <3>2
  <2> QED  BY <1>5, <2>1 DEF AnswerOwed, loopVars
<1>6. ASSUME CallStep, UNCHANGED loopVars
      PROVE  AnswerOwed'
  <2>1. PICK c \in calls : GuardChecks(c) \/ Lands(c) \/ RefusedLate(c) \/ NotDelivered(c)
    BY <1>6 DEF CallStep
  <2>2. c \in CallType
    BY DEF Inv, ComputerTypeOK, CallType
  <2>3. \/ Step(c, [c EXCEPT !.at = "waits"])
        \/ \E reply : Step(c, [c EXCEPT !.at = "answered", !.reply = reply])
    BY <2>1 DEF GuardChecks, Lands, RefusedLate, NotDelivered, Answer
  <2>4. c.at # "answered" /\ c.reply = "none"
    BY <2>1 DEF GuardChecks, Lands, RefusedLate, NotDelivered, Inv, OneCall
  <2>5. Follows(c, [c EXCEPT !.at = "waits"])
    BY <2>2, <2>4 DEF Follows, CallType
  <2>6. \A reply : Follows(c, [c EXCEPT !.at = "answered", !.reply = reply])
    BY <2>2 DEF Follows, CallType
  <2> QED  BY <1>5, <1>6, <2>3, <2>5, <2>6
<1>7. ASSUME OwnerStep, UNCHANGED loopVars
      PROVE  AnswerOwed'
  <2>1. CASE Escape
    <3>1. \A c \in calls : /\ [c EXCEPT !.early = @ \/ c.at = "waits"].heard = c.heard
                           /\ [c EXCEPT !.early = @ \/ c.at = "waits"].try = c.try
      BY DEF Inv, ComputerTypeOK
    <3> QED  BY <1>7, <2>1, <3>1 DEF Escape, AnswerOwed, loopVars
  <2>2. CASE calls' = calls
    BY <1>7, <2>2 DEF AnswerOwed, loopVars
  <2> QED  BY <1>7, <2>1, <2>2 DEF OwnerStep, OwnerInput, OwnerRests, Tick
<1> QED  BY <1>1, <1>2, <1>3, <1>4, <1>6, <1>7 DEF ComputerNext

\* A loop that waits for an answer of the worker is never left waiting for nothing: while it does,
\* the worker has a call of that attempt, whatever crashes, timeouts and repeated calls came
\* before (_act, the answer to desktop_busy, and what a cut attempt leaves behind).
THEOREM ComputerSpecAnswerOwed == ComputerSpec => []AnswerOwed
<1>1. ComputerInit => AnswerOwed
  BY DEF ComputerInit, Off, AnswerOwed
<1>2. Inv /\ AnswerOwed /\ [ComputerNext]_computerVars => AnswerOwed'
  <2>1. ASSUME AnswerOwed, UNCHANGED computerVars PROVE AnswerOwed'
    BY <2>1 DEF computerVars, loopVars, desktopVars, AnswerOwed
  <2> QED  BY <2>1, OwedStep
<1> QED  BY <1>1, <1>2, ComputerSpecInv, PTL DEF ComputerSpec

\* The loop cannot go round for ever: each of its steps leaves it, ends a round (MAX_STEPS of
\* them), goes on in the round, or uses up one of OWNER_WAITS; the worker and the owner, whatever
\* they do, do not set it back.
THEOREM ComputerSpecLoopRunsDown ==
    ComputerSpec => [][/\ LoopStep => Onward /\ run.n <= MaxSteps /\ run.looks <= OwnerWaits
                       /\ On /\ On' /\ ~LoopStep => run' = run]_computerVars
<1>1. Inv => run.n <= MaxSteps /\ run.looks <= OwnerWaits
  BY ComputerAssumption DEF Inv, ComputerTypeOK
<1>2. ComputerNext /\ On /\ On' /\ ~LoopStep => run' = run
  BY DEF ComputerNext, Enter, Leaves, Off, On, loopVars
<1>3. Inv /\ [ComputerNext]_computerVars =>
        [/\ LoopStep => Onward /\ run.n <= MaxSteps /\ run.looks <= OwnerWaits
         /\ On /\ On' /\ ~LoopStep => run' = run]_computerVars
  BY <1>1, <1>2, LoopOnward
<1> QED  BY <1>3, ComputerSpecInv, PTL DEF ComputerSpec
=============================================================================
