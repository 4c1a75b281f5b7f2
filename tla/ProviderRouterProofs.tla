------------------------- MODULE ProviderRouterProofs -------------------------
(***************************************************************************)
(* Theorems about the provider router, for any number of providers and     *)
(* callers, any backoff and any retries.                                   *)
(*                                                                         *)
(* An open circuit meets a request in two ways: the request is let past    *)
(* the breaker, which it is not while the circuit is open (Proceed), or    *)
(* the circuit opens under it, and then it is marked early (CallFails).    *)
(* So the invariant that says so is inductive as it stands, together with  *)
(* the types: a restart may bring back an older breaker, or none, but it   *)
(* leaves no request under way.                                            *)
(***************************************************************************)
EXTENDS ProviderRouter, SequenceTheorems, TLAPS

Request == [pc : {"idle", "health", "call", "handoff"}, local : BOOLEAN,
            todo : Seq(Providers), used : [DOMAIN Retries -> Nat], early : BOOLEAN]

Ready(r) == r \in Request /\ (r.pc # "idle" => r.todo # <<>>)

Inv == /\ RouterTypeOK /\ TripsMatchCooldown
       /\ LocalStaysLocal /\ OpenTakesOnlyEarlyCalls

\* What one step may do to a breaker.
StepOK(p) ==
    /\ IsOpen(p) /\ breaker'[p].left < breaker[p].left =>
            \/ CoolDown
            \/ \E c \in Callers : call[c].pc = "call" /\ Of(c) = p /\ call[c].early
            \/ Forgets(p)
    /\ InProbe(breaker[p]) /\ breaker'[p] # breaker[p] =>
            breaker'[p] = Blank \/ IsOpen(p)' \/ Forgets(p)

\* What one step may do to a request.
WorkOK(c) == \A p \in Providers : Busy(c, p)' /\ call'[c].pc = "call" /\ InProbe(breaker'[p])
                                    /\ call'[c] # call[c] => call[c].pc = "health"

-----------------------------------------------------------------------------
(* The breaker. *)

LEMMA BackoffIsATime == ASSUME NEW b \in Breaker PROVE BackoffOf(b) \in Nat \ {0}
<1>1. Lesser(b.trips + 1, Len(Backoff)) \in 1 .. Len(Backoff)
  BY BreakerAssumption DEF Breaker, Lesser
<1> QED  BY <1>1, BreakerAssumption DEF BackoffOf

LEMMA OpenedIsOpen ==
    ASSUME NEW b \in Breaker, NEW wait \in Nat \ {0}
    PROVE  /\ Opened(b, wait) \in Breaker /\ Opened(b, wait).cooled
           /\ Opened(b, wait).trips > 0 /\ Opened(b, wait).left > 0 /\ Opened(b, wait).failures = 0
BY BreakerAssumption DEF Opened, Breaker, Lesser

\* What a failed call makes of a breaker: it opens the circuit, or it leaves the cooldown
\* alone, and a breaker that is to be probed is not left merely counted on.
LEMMA FailureOpensOrCounts ==
    ASSUME NEW old \in Breaker, NEW cat \in ErrorCategory, NEW b \in Failed(old, cat)
    PROVE  /\ b \in Breaker
           /\ \/ /\ b.cooled /\ b.trips > 0 /\ b.left > 0 /\ b.failures = 0
                 /\ cat \in Counted
              \/ b = old /\ cat \notin Counted
              \/ /\ b = [old EXCEPT !.failures = @ + 1] /\ b.failures > 0
                 /\ ~InProbe(old) /\ cat \in Transient
<1>1. CASE cat = "limit"
  <2>1. PICK w \in RetryAfter \cup {BackoffOf(old)} : b = Opened(old, w)
    BY <1>1 DEF Failed, Counted, Transient
  <2>2. w \in Nat \ {0}
    BY BackoffIsATime, BreakerAssumption
  <2> QED  BY <1>1, <2>1, <2>2, OpenedIsOpen DEF Counted
<1>2. CASE cat \notin Counted
  <2>1. b = old  BY <1>2 DEF Failed, Counted, Transient
  <2> QED  BY <1>2, <2>1
<1>3. CASE cat \in Transient /\ (old.failures + 1 >= Threshold \/ InProbe(old))
  <2>1. b = Opened(old, BackoffOf(old))
    BY <1>3 DEF Failed, Counted, Transient
  <2> QED  BY <1>3, <2>1, BackoffIsATime, OpenedIsOpen DEF Counted
<1>4. CASE cat \in Transient /\ ~(old.failures + 1 >= Threshold \/ InProbe(old))
  <2>1. b = [old EXCEPT !.failures = @ + 1]
    BY <1>4 DEF Failed, Counted, Transient
  <2> QED  BY <1>4, <2>1, BreakerAssumption, SMTT(30) DEF Breaker
<1> QED  BY <1>1, <1>2, <1>3, <1>4 DEF Counted

-----------------------------------------------------------------------------
(* A request goes on to its next candidate. *)

LEMMA TypesOfARequest ==
    ASSUME RouterTypeOK, NEW c \in Callers
    PROVE  /\ Ready(call[c])
           /\ call[c].pc # "idle" => /\ Of(c) \in Providers
                                     /\ Tail(call[c].todo) \in Seq(Providers)
<1>1. Ready(call[c])
  BY DEF RouterTypeOK, Ready, Request
<1>2. ASSUME call[c].pc # "idle"
      PROVE  Of(c) \in Providers /\ Tail(call[c].todo) \in Seq(Providers)
  <2>1. call[c].todo \in Seq(Providers) /\ call[c].todo # <<>>
    BY <1>1, <1>2 DEF Ready, Request
  <2> QED  BY <2>1, HeadTailProperties DEF Of
<1> QED  BY <1>1, <1>2
\* Proceed leaves the request idle, or with a candidate that it does not pass over; and it
\* is in a call only if the candidate needs no check.
LEMMA ProceedIsAllowed ==
    ASSUME NEW c \in Callers, NEW local \in BOOLEAN, NEW todo \in Seq(Providers),
           RouterTypeOK, Proceed(c, local, todo), breaker' = breaker
    PROVE  /\ call' \in [Callers -> Request]
           /\ \A d \in Callers \ {c} : call'[d] = call[d]
           /\ Ready(call'[c])
           /\ \A p \in Providers : Busy(c, p)' =>
                 /\ call'[c].local => p \in Local
                 /\ ~IsOpen(p)'
                 /\ call'[c].pc = "call" => ~InProbe(breaker'[p])
<1> DEFINE r(i) == IF i > Len(todo) THEN Idle
                   ELSE [pc |-> IF NeedsCheck(todo[i]) THEN "health" ELSE "call",
                         local |-> local, todo |-> SubSeq(todo, i, Len(todo)),
                         used |-> Idle.used, early |-> FALSE]
<1>1. PICK i \in 1 .. Len(todo) + 1 : /\ i <= Len(todo) => ~Skips(local, todo, i)
                                      /\ call' = [call EXCEPT ![c] = r(i)]
  BY DEF Proceed
<1>2. Idle \in Request
  BY RouterAssumption DEF Idle, Request
<1>3. ASSUME i <= Len(todo)
      PROVE  /\ SubSeq(todo, i, Len(todo)) \in Seq(Providers)
             /\ SubSeq(todo, i, Len(todo)) # <<>>
             /\ Head(SubSeq(todo, i, Len(todo))) = todo[i] /\ todo[i] \in Providers
  <2>1. i \in 1 .. Len(todo) /\ Len(todo) \in i .. Len(todo) /\ Len(todo) \in Nat
    BY <1>3
  <2>2. \A k \in i .. Len(todo) : todo[k] \in Providers
    BY <2>1
  <2>3. /\ SubSeq(todo, i, Len(todo)) \in Seq(Providers)
        /\ Len(SubSeq(todo, i, Len(todo))) = Len(todo) - i + 1
    BY <2>1, <2>2, SubSeqProperties
  <2>4. Head(SubSeq(todo, i, Len(todo))) = todo[i]
    BY <2>1, HeadTailOfSubSeq
  <2>5. SubSeq(todo, i, Len(todo)) # <<>>
    <3>1. Len(SubSeq(todo, i, Len(todo))) # 0
      BY <2>1, <2>3
    <3>2. Len(<<>>) = 0
      OBVIOUS
    <3> QED  BY <3>1, <3>2, Zenon
  <2> QED  BY <2>1, <2>2, <2>3, <2>4, <2>5
<1>4. Ready(r(i))
  BY <1>2, <1>3 DEF Ready, Request, Idle
<1>5. call \in [Callers -> Request]
  BY DEF RouterTypeOK, Request
<1>6. /\ call' \in [Callers -> Request] /\ call'[c] = r(i)
      /\ \A d \in Callers \ {c} : call'[d] = call[d]
  BY <1>1, <1>4, <1>5 DEF Ready
<1>7. ASSUME NEW p \in Providers, Busy(c, p)'
      PROVE  /\ call'[c].local => p \in Local
             /\ ~IsOpen(p)'
             /\ call'[c].pc = "call" => ~InProbe(breaker'[p])
  <2>1. call'[c].pc # "idle" /\ Head(call'[c].todo) = p
    BY <1>7 DEF Busy, Of
  <2>2. i <= Len(todo)
    BY <1>6, <2>1 DEF Idle
  <2>3. todo[i] = p /\ ~Skips(local, todo, i)
    BY <1>1, <1>3, <1>6, <2>1, <2>2
  <2> QED  BY <1>6, <2>2, <2>3 DEF Skips, IsOpen, NeedsCheck
<1> QED  BY <1>4, <1>6, <1>7

LEMMA TypesOfABreaker ==
    ASSUME RouterTypeOK, NEW p \in Providers
    PROVE  breaker[p] \in Breaker /\ breaker[p].left \in Nat
BY DEF RouterTypeOK, Breaker

\* The invariant after a step that goes on to the next candidate and leaves the breakers alone.
LEMMA ProceedKeepsInv ==
    ASSUME Inv, NEW c \in Callers, NEW local \in BOOLEAN, NEW todo \in Seq(Providers),
           Proceed(c, local, todo), UNCHANGED breakerVars,
           health' \in [Providers -> Verdict \cup {"stale"}]
    PROVE  Inv'
<1>1. breaker' = breaker /\ saved' = saved
  BY DEF breakerVars
<1> DEFINE P(d) == \A p \in Providers : Busy(d, p)' =>
                       (call'[d].local => p \in Local) /\ (IsOpen(p)' => call'[d].early)
<1>2. /\ call' \in [Callers -> Request] /\ Ready(call'[c]) /\ P(c)
      /\ \A d \in Callers \ {c} : call'[d] = call[d]
  BY <1>1, ProceedIsAllowed DEF Inv
<1>3. ASSUME NEW d \in Callers \ {c} PROVE Ready(call'[d]) /\ P(d)
  <2>1. Ready(call'[d])
    BY <1>2, TypesOfARequest DEF Inv
  <2>2. \A p \in Providers : Busy(d, p)' => Busy(d, p)
    BY <1>2 DEF Busy, Of
  <2> QED  BY <1>1, <1>2, <2>1, <2>2 DEF Inv, LocalStaysLocal, OpenTakesOnlyEarlyCalls, Busy, IsOpen
<1>4. \A d \in Callers : Ready(call'[d]) /\ P(d)
  BY <1>2, <1>3
<1>5. RouterTypeOK'
  BY <1>1, <1>2, <1>4 DEF Inv, RouterTypeOK, Request, Ready
<1>6. TripsMatchCooldown'
  BY <1>1 DEF Inv, TripsMatchCooldown
<1>7. LocalStaysLocal'
  <2> SUFFICES ASSUME NEW d \in Callers, call'[d].pc \in {"health", "call"}, call'[d].local
               PROVE  Head(call'[d].todo) \in Local
    BY DEF LocalStaysLocal, Of
  <2>1. Head(call'[d].todo) \in Providers
    BY <1>4, HeadTailProperties DEF Ready, Request
  <2> QED  BY <1>4, <2>1 DEF Busy, Of
<1>8. OpenTakesOnlyEarlyCalls'
  BY <1>4 DEF OpenTakesOnlyEarlyCalls
<1> QED  BY <1>5, <1>6, <1>7, <1>8 DEF Inv
-----------------------------------------------------------------------------
(* A call ends. *)

\* A breaker is replaced in memory; its row follows or stays behind.
LEMMA NoteKeepsTypes ==
    ASSUME Inv, NEW p \in Providers, NEW b \in Breaker, b.cooled <=> b.trips > 0, Note(p, b)
    PROVE  /\ breaker' \in [Providers -> Breaker] /\ saved' \in [Providers -> Breaker]
           /\ TripsMatchCooldown'
           /\ breaker'[p] = b /\ \A q \in Providers \ {p} : breaker'[q] = breaker[q]
<1>1. breaker \in [Providers -> Breaker] /\ saved \in [Providers -> Breaker]
  BY DEF Inv, RouterTypeOK
<1>2. /\ breaker' \in [Providers -> Breaker]
      /\ breaker'[p] = b /\ \A q \in Providers \ {p} : breaker'[q] = breaker[q]
  BY <1>1 DEF Note
<1>3. PICK row \in {b, saved[p]} : saved' = [saved EXCEPT ![p] = row]
  BY DEF Note
<1>4. row \in Breaker /\ (row.cooled <=> row.trips > 0)
  BY <1>1, <1>3 DEF Inv, TripsMatchCooldown
<1>5. /\ saved' \in [Providers -> Breaker]
      /\ saved'[p] = row /\ \A q \in Providers \ {p} : saved'[q] = saved[q]
  BY <1>1, <1>3, <1>4
<1>6. TripsMatchCooldown'
  BY <1>2, <1>4, <1>5 DEF Inv, TripsMatchCooldown
<1> QED  BY <1>2, <1>5, <1>6

LEMMA BlankIsClosed ==
    Blank \in Breaker /\ ~Blank.cooled /\ Blank.trips = 0 /\ Blank.left = 0
BY BreakerAssumption DEF Blank, Breaker

LEMMA IdleIsReady == Ready(Idle)
BY RouterAssumption DEF Ready, Request, Idle

LEMMA AnsweredStep ==
    ASSUME Inv, NEW c \in Callers, Answered(c)
    PROVE  Inv' /\ (\A p \in Providers : StepOK(p)) /\ (\A d \in Callers : WorkOK(d))
<1> DEFINE q == Of(c)
<1>1. /\ q \in Providers /\ call[c].pc = "call"
      /\ call \in [Callers -> Request] /\ \A d \in Callers : Ready(call[d])
  BY TypesOfARequest DEF Inv, RouterTypeOK, Request, Answered
<1>2. /\ breaker' \in [Providers -> Breaker] /\ saved' \in [Providers -> Breaker]
      /\ TripsMatchCooldown'
      /\ breaker'[q] = Blank /\ \A p \in Providers \ {q} : breaker'[p] = breaker[p]
  <2>1. CASE breaker[q] = Blank
    <3>1. breaker' = breaker /\ saved' = saved
      BY <2>1 DEF Answered, Succeeded, breakerVars
    <3> QED  BY <2>1, <3>1 DEF Inv, RouterTypeOK, TripsMatchCooldown
  <2>2. CASE breaker[q] # Blank
    <3>1. Note(q, Blank)
      BY <2>2 DEF Answered, Succeeded
    <3> QED  BY <1>1, <3>1, BlankIsClosed, NoteKeepsTypes
  <2> QED  BY <2>1, <2>2
<1>3. /\ call' \in [Callers -> Request] /\ call'[c] = Idle
      /\ \A d \in Callers \ {c} : call'[d] = call[d]
  BY <1>1, IdleIsReady DEF Answered, Ready
<1>4. RouterTypeOK'
  <2>1. \A d \in Callers : Ready(call'[d])
    BY <1>1, <1>3, IdleIsReady
  <2>2. health' \in [Providers -> Verdict \cup {"stale"}]
    BY DEF Answered, Inv, RouterTypeOK
  <2> QED  BY <1>2, <1>3, <2>1, <2>2 DEF RouterTypeOK, Request, Ready
<1>5. LocalStaysLocal'
  BY <1>3 DEF Inv, LocalStaysLocal, Of, Idle
<1>6. OpenTakesOnlyEarlyCalls'
  BY <1>2, <1>3, BlankIsClosed DEF Inv, OpenTakesOnlyEarlyCalls, Busy, Of, Idle, IsOpen
<1>7. ASSUME NEW p \in Providers PROVE StepOK(p)
  <2>1. CASE p = q
    <3>1. IsOpen(p) => call[c].pc = "call" /\ Of(c) = p /\ call[c].early
      BY <1>1, <2>1 DEF Inv, OpenTakesOnlyEarlyCalls, Busy
    <3> QED  BY <1>2, <2>1, <3>1 DEF StepOK
  <2>2. CASE p # q
    BY <1>2, <2>2, TypesOfABreaker DEF StepOK, Inv
  <2> QED  BY <2>1, <2>2
<1>8. \A d \in Callers : WorkOK(d)
  BY <1>3 DEF WorkOK, Busy, Idle
<1> QED  BY <1>2, <1>4, <1>5, <1>6, <1>7, <1>8 DEF Inv

\* A failed call opens the circuit and marks every request under way there, or it leaves the
\* cooldown as it was.
LEMMA CallFailsStep ==
    ASSUME Inv, NEW c \in Callers, NEW cat \in ErrorCategory, CallFails(c, cat)
    PROVE  Inv' /\ (\A p \in Providers : StepOK(p)) /\ (\A d \in Callers : WorkOK(d))
<1> DEFINE q == Of(c)
<1>1. /\ q \in Providers /\ call[c].pc = "call" /\ breaker[q] \in Breaker
      /\ call \in [Callers -> Request] /\ \A d \in Callers : Ready(call[d])
  BY TypesOfARequest DEF Inv, RouterTypeOK, Request, CallFails
<1>2. PICK b \in Failed(breaker[q], cat) :
         LET opens == cat \in Counted /\ b.failures = 0
         IN  /\ IF cat \in Counted THEN Note(q, b) ELSE UNCHANGED breakerVars
             /\ call' = [[d \in Callers |-> Early(q, opens, d)] EXCEPT ![c] =
                  IF cat \in NoSwitch THEN Idle
                  ELSE IF MayRetry(c, cat, opens)
                       THEN [call[c] EXCEPT !.used[cat] = @ + 1]
                       ELSE [call[c] EXCEPT !.pc = "handoff", !.early = FALSE]]
  BY Zenon DEF CallFails
<1> DEFINE opens == cat \in Counted /\ b.failures = 0
<1>3. /\ b \in Breaker
      /\ \/ /\ b.cooled /\ b.trips > 0 /\ b.left > 0 /\ b.failures = 0
            /\ cat \in Counted
         \/ b = breaker[q] /\ cat \notin Counted
         \/ /\ b = [breaker[q] EXCEPT !.failures = @ + 1] /\ b.failures > 0
            /\ ~InProbe(breaker[q]) /\ cat \in Transient
  BY <1>1, FailureOpensOrCounts
<1>4. b.cooled <=> b.trips > 0
  BY <1>1, <1>3 DEF Inv, TripsMatchCooldown, Breaker
<1>5. /\ opens => b.left > 0
      /\ ~opens => b.left = breaker[q].left /\ b.cooled = breaker[q].cooled
      /\ ~opens /\ cat \in Transient => ~InProbe(b)
  BY <1>1, <1>3 DEF Counted, Breaker, InProbe
<1>6. /\ breaker' \in [Providers -> Breaker] /\ saved' \in [Providers -> Breaker]
      /\ TripsMatchCooldown'
      /\ breaker'[q] = b /\ \A p \in Providers \ {q} : breaker'[p] = breaker[p]
  <2>1. CASE cat \in Counted
    BY <1>1, <1>2, <1>3, <1>4, <2>1, NoteKeepsTypes
  <2>2. CASE cat \notin Counted
    <3>1. breaker' = breaker /\ saved' = saved /\ b = breaker[q]
      BY <1>2, <1>3, <2>2 DEF breakerVars, Counted
    <3> QED  BY <3>1 DEF Inv, RouterTypeOK, TripsMatchCooldown
  <2> QED  BY <2>1, <2>2
<1>7. /\ \A d \in Callers \ {c} : call'[d] = Early(q, opens, d)
      /\ \/ call'[c] = Idle
         \/ call'[c] = [call[c] EXCEPT !.pc = "handoff", !.early = FALSE]
         \/ /\ call'[c] = [call[c] EXCEPT !.used[cat] = @ + 1]
            /\ ~opens /\ cat \in DOMAIN Retries
  BY <1>2 DEF MayRetry
<1>8. DOMAIN call' = Callers
  BY <1>2
<1> HIDE DEF opens
<1>9. ASSUME NEW d \in Callers \ {c}
      PROVE  /\ Ready(call'[d]) /\ call'[d].pc = call[d].pc /\ call'[d].todo = call[d].todo
             /\ call'[d].local = call[d].local
             /\ opens /\ Busy(d, q) => call'[d].early
             /\ call[d].early => call'[d].early
             /\ ~(opens /\ Busy(d, q)) => call'[d] = call[d]
  BY <1>1, <1>7, ZenonT(40) DEF Early, Ready, Request
<1>10. Ready(call'[c]) /\ call'[c].local \in {call[c].local, FALSE}
       /\ (call'[c].pc \in {"health", "call"} =>
              /\ ~opens /\ cat \in Transient /\ call'[c].todo = call[c].todo
              /\ call'[c].early = call[c].early)
  <2>1. Ready(call[c]) /\ call[c].todo # <<>>
    BY <1>1 DEF Ready
  <2>2. CASE call'[c] = Idle
    BY <2>2, IdleIsReady DEF Idle
  <2>3. CASE call'[c] = [call[c] EXCEPT !.pc = "handoff", !.early = FALSE]
    BY <2>1, <2>3 DEF Ready, Request
  <2>4. CASE /\ call'[c] = [call[c] EXCEPT !.used[cat] = @ + 1]
             /\ ~opens /\ cat \in DOMAIN Retries
    <3>1. cat \in Transient
      BY <2>4, RouterAssumption DEF Transient
    <3>2. [call[c].used EXCEPT ![cat] = @ + 1] \in [DOMAIN Retries -> Nat]
      BY <2>1, <2>4 DEF Ready, Request
    <3>3. /\ call'[c] \in Request
          /\ call'[c].pc = call[c].pc /\ call'[c].todo = call[c].todo
          /\ call'[c].early = call[c].early /\ call'[c].local = call[c].local
      BY <2>1, <2>4, <3>2 DEF Ready, Request
    <3> QED  BY <2>1, <2>4, <3>1, <3>3 DEF Ready
  <2> QED  BY <1>7, <2>2, <2>3, <2>4
<1>11. RouterTypeOK'
  <2>1. \A d \in Callers : Ready(call'[d])
    BY <1>9, <1>10
  <2>2. call' \in [Callers -> Request]
    BY <1>2, <2>1 DEF Ready
  <2>3. health' \in [Providers -> Verdict \cup {"stale"}]
    BY <1>1 DEF CallFails, Inv, RouterTypeOK, Verdict
  <2> QED  BY <1>6, <2>1, <2>2, <2>3 DEF RouterTypeOK, Request, Ready
<1>12. LocalStaysLocal'
  <2> SUFFICES ASSUME NEW d \in Callers, call'[d].pc \in {"health", "call"}, call'[d].local
               PROVE  Head(call'[d].todo) \in Local
    BY DEF LocalStaysLocal, Of
  <2>1. /\ call[d].pc \in {"health", "call"} /\ call[d].local
        /\ call'[d].todo = call[d].todo
    BY <1>1, <1>9, <1>10
  <2> QED  BY <2>1 DEF Inv, LocalStaysLocal, Of
<1>13. OpenTakesOnlyEarlyCalls'
  <2> SUFFICES ASSUME NEW d \in Callers, NEW p \in Providers, Busy(d, p)', IsOpen(p)'
               PROVE  call'[d].early
    BY DEF OpenTakesOnlyEarlyCalls
  <2>1. Busy(d, p)
    BY <1>1, <1>9, <1>10 DEF Busy, Of
  <2>2. CASE d = c
    <3>1. ~opens /\ call'[c].early = call[c].early /\ p = q
      BY <1>10, <2>1, <2>2 DEF Busy
    <3> QED  BY <1>5, <1>6, <2>1, <2>2, <3>1 DEF Inv, OpenTakesOnlyEarlyCalls, IsOpen
  <2>3. CASE d # c /\ p = q
    BY <1>5, <1>6, <1>9, <2>1, <2>3 DEF Inv, OpenTakesOnlyEarlyCalls, IsOpen
  <2>4. CASE d # c /\ p # q
    BY <1>6, <1>9, <2>1, <2>4 DEF Inv, OpenTakesOnlyEarlyCalls, IsOpen
  <2> QED  BY <2>2, <2>3, <2>4
<1>14. ASSUME NEW p \in Providers PROVE StepOK(p)
  <2>1. CASE p = q
    <3>1. IsOpen(p) => call[c].pc = "call" /\ Of(c) = p /\ call[c].early
      BY <1>1, <2>1 DEF Inv, OpenTakesOnlyEarlyCalls, Busy
    <3>2. InProbe(breaker[p]) => b = breaker[p] \/ b.left > 0
      BY <1>3, <2>1
    <3> QED  BY <1>6, <2>1, <3>1, <3>2 DEF StepOK, IsOpen
  <2>2. CASE p # q
    BY <1>6, <2>2, TypesOfABreaker DEF StepOK, Inv
  <2> QED  BY <2>1, <2>2
<1>15. ASSUME NEW d \in Callers PROVE WorkOK(d)
  <2> SUFFICES ASSUME NEW p \in Providers, Busy(d, p)', call'[d].pc = "call",
                      InProbe(breaker'[p]), call'[d] # call[d]
               PROVE  FALSE
    BY DEF WorkOK
  <2>1. CASE d = c
    <3>1. ~opens /\ cat \in Transient /\ p = q
      BY <1>10, <2>1 DEF Busy, Of
    <3> QED  BY <1>5, <1>6, <3>1
  <2>2. CASE d # c
    <3>1. opens /\ Busy(d, q) /\ p = q
      BY <1>9, <2>2 DEF Busy, Of
    <3> QED  BY <1>3, <1>5, <1>6, <3>1 DEF InProbe
  <2> QED  BY <2>1, <2>2
<1> QED  BY <1>6, <1>11, <1>12, <1>13, <1>14, <1>15 DEF Inv
-----------------------------------------------------------------------------
(* The other steps. *)

\* A step that leaves the breakers alone is harmless to them.
LEMMA SameBreakers ==
    ASSUME Inv, breaker' = breaker PROVE \A p \in Providers : StepOK(p)
BY TypesOfABreaker DEF Inv, StepOK

LEMMA ProceedStep ==
    ASSUME Inv, NEW c \in Callers, NEW local \in BOOLEAN, NEW todo \in Seq(Providers),
           Proceed(c, local, todo), UNCHANGED breakerVars,
           health' \in [Providers -> Verdict \cup {"stale"}]
    PROVE  Inv' /\ (\A p \in Providers : StepOK(p)) /\ (\A d \in Callers : WorkOK(d))
<1>1. breaker' = breaker
  BY DEF breakerVars
<1>2. Inv'
  BY ProceedKeepsInv
<1>3. /\ \A d \in Callers \ {c} : call'[d] = call[d]
      /\ \A p \in Providers : Busy(c, p)' /\ call'[c].pc = "call" => ~InProbe(breaker'[p])
  BY <1>1, ProceedIsAllowed DEF Inv
<1>4. \A d \in Callers : WorkOK(d)
  BY <1>3 DEF WorkOK
<1> QED  BY <1>1, <1>2, <1>4, SameBreakers

LEMMA CallerStep ==
    ASSUME Inv, NEW c \in Callers,
           \/ Caller(c) \/ Abandoned(c)
           \/ \E local \in BOOLEAN, todo \in Rankings : Ask(c, local, todo)
    PROVE  Inv' /\ (\A p \in Providers : StepOK(p)) /\ (\A d \in Callers : WorkOK(d))
<1>1. ASSUME NEW local \in BOOLEAN, NEW todo \in Rankings, Ask(c, local, todo)
      PROVE  Inv' /\ (\A p \in Providers : StepOK(p)) /\ (\A d \in Callers : WorkOK(d))
  <2>1. todo \in Seq(Providers)
    BY RouterAssumption
  <2>2. health' \in [Providers -> Verdict \cup {"stale"}]
    BY <1>1 DEF Ask, Inv, RouterTypeOK
  <2> QED  BY <1>1, <2>1, <2>2, ProceedStep DEF Ask
<1>2. ASSUME NEW state \in Verdict, Checked(c, state)
      PROVE  Inv' /\ (\A p \in Providers : StepOK(p)) /\ (\A d \in Callers : WorkOK(d))
  <2>1. /\ call[c].pc = "health" /\ Ready(call[c]) /\ Of(c) \in Providers
        /\ Tail(call[c].todo) \in Seq(Providers) /\ call[c].local \in BOOLEAN
    BY <1>2, TypesOfARequest DEF Checked, Inv, Ready, Request
  <2>2. health' \in [Providers -> Verdict \cup {"stale"}]
    BY <1>2, <2>1 DEF Checked, Inv, RouterTypeOK
  <2>3. CASE state = "usable"
    <3>1. /\ call' = [call EXCEPT ![c].pc = "call"] /\ breaker' = breaker /\ saved' = saved
      BY <1>2, <2>3 DEF Checked, breakerVars
    <3>2. /\ call' \in [Callers -> Request]
          /\ \A d \in Callers : /\ Ready(call'[d]) /\ call'[d].todo = call[d].todo
                                /\ call'[d].local = call[d].local
                                /\ call'[d].early = call[d].early
                                /\ d # c => call'[d] = call[d]
                                /\ d = c => call'[d].pc = "call"
      BY <2>1, <3>1 DEF Inv, RouterTypeOK, Ready, Request
    <3>3. RouterTypeOK'
      BY <2>2, <3>1, <3>2 DEF Inv, RouterTypeOK, Ready, Request
    <3>4. TripsMatchCooldown'
      BY <3>1 DEF Inv, TripsMatchCooldown
    <3>5. \A d \in Callers : call'[d].pc \in {"health", "call"} => call[d].pc \in {"health", "call"}
      BY <2>1, <3>2
    <3>6. LocalStaysLocal'
      BY <3>2, <3>5 DEF Inv, LocalStaysLocal, Of
    <3>7. OpenTakesOnlyEarlyCalls'
      BY <3>1, <3>2, <3>5 DEF Inv, OpenTakesOnlyEarlyCalls, Busy, Of, IsOpen
    <3>8. \A d \in Callers : WorkOK(d)
      BY <2>1, <3>2 DEF WorkOK
    <3> QED  BY <3>1, <3>3, <3>4, <3>6, <3>7, <3>8, SameBreakers DEF Inv
  <2>4. CASE state # "usable"
    <3>1. Proceed(c, call[c].local, Tail(call[c].todo)) /\ UNCHANGED breakerVars
      BY <1>2, <2>4 DEF Checked
    <3> QED  BY <2>1, <2>2, <3>1, ProceedStep
  <2> QED  BY <2>3, <2>4
<1>3. ASSUME HandedOn(c)
      PROVE  Inv' /\ (\A p \in Providers : StepOK(p)) /\ (\A d \in Callers : WorkOK(d))
  <2>1. /\ Tail(call[c].todo) \in Seq(Providers) /\ call[c].local \in BOOLEAN
        /\ health' \in [Providers -> Verdict \cup {"stale"}]
    BY <1>3, TypesOfARequest DEF HandedOn, Inv, RouterTypeOK, Ready, Request
  <2> QED  BY <1>3, <2>1, ProceedStep DEF HandedOn
<1>4. ASSUME Abandoned(c)
      PROVE  Inv' /\ (\A p \in Providers : StepOK(p)) /\ (\A d \in Callers : WorkOK(d))
  <2>1. breaker' = breaker /\ saved' = saved /\ health' = health
    BY <1>4 DEF Abandoned, breakerVars
  <2>2. call' \in [Callers -> Request]
        /\ \A d \in Callers : Ready(call'[d]) /\ (call'[d] = Idle \/ call'[d] = call[d])
    BY <1>4, IdleIsReady, TypesOfARequest DEF Abandoned, Inv, RouterTypeOK, Ready, Request
  <2>3. RouterTypeOK'
    BY <2>1, <2>2 DEF Inv, RouterTypeOK, Ready, Request
  <2>4. TripsMatchCooldown'
    BY <2>1 DEF Inv, TripsMatchCooldown
  <2>5. LocalStaysLocal'
    BY <2>2 DEF Inv, LocalStaysLocal, Of, Idle
  <2>6. OpenTakesOnlyEarlyCalls'
    BY <2>1, <2>2 DEF Inv, OpenTakesOnlyEarlyCalls, Busy, Of, Idle, IsOpen
  <2>7. \A d \in Callers : WorkOK(d)
    BY <2>2 DEF WorkOK, Busy, Idle
  <2> QED  BY <2>1, <2>3, <2>4, <2>5, <2>6, <2>7, SameBreakers DEF Inv
<1> QED  BY <1>1, <1>2, <1>3, <1>4, AnsweredStep, CallFailsStep DEF Caller

LEMMA HealthStep ==
    ASSUME Inv, \E p \in Providers : Ages(p) \/ \E state \in Verdict : HealthRound(p, state)
    PROVE  Inv' /\ (\A p \in Providers : StepOK(p)) /\ (\A d \in Callers : WorkOK(d))
<1>1. /\ breaker' = breaker /\ saved' = saved /\ call' = call
      /\ health' \in [Providers -> Verdict \cup {"stale"}]
  BY DEF Ages, HealthRound, breakerVars, Inv, RouterTypeOK
<1>2. Inv'
  BY <1>1 DEF Inv, RouterTypeOK, TripsMatchCooldown, LocalStaysLocal,
              OpenTakesOnlyEarlyCalls, Busy, Of, IsOpen
<1> QED  BY <1>1, <1>2, SameBreakers DEF WorkOK

\* Time shortens every cooldown, in memory as in the row.
LEMMA ShorterIsLater ==
    ASSUME NEW b \in Breaker
    PROVE  /\ Shorter(b) \in Breaker
           /\ Shorter(b).cooled = b.cooled /\ Shorter(b).trips = b.trips
           /\ Shorter(b).left > 0 => b.left > 0
           /\ InProbe(b) => Shorter(b) = b
BY DEF Shorter, Breaker, InProbe

LEMMA TickStep ==
    ASSUME Inv, Tick
    PROVE  Inv' /\ (\A p \in Providers : StepOK(p)) /\ (\A d \in Callers : WorkOK(d))
<1>1. /\ CoolDown /\ call' = call /\ health' = health
      /\ breaker' = [p \in Providers |-> Shorter(breaker[p])]
      /\ saved' = [p \in Providers |-> Shorter(saved[p])]
  BY DEF Tick, CoolDown
<1>2. ASSUME NEW p \in Providers
      PROVE  /\ breaker'[p] \in Breaker /\ saved'[p] \in Breaker
             /\ breaker'[p].cooled = breaker[p].cooled /\ breaker'[p].trips = breaker[p].trips
             /\ saved'[p].cooled = saved[p].cooled /\ saved'[p].trips = saved[p].trips
             /\ breaker'[p].left > 0 => breaker[p].left > 0
             /\ InProbe(breaker[p]) => breaker'[p] = breaker[p]
  <2>1. breaker[p] \in Breaker /\ saved[p] \in Breaker
    BY DEF Inv, RouterTypeOK
  <2>2. breaker'[p] = Shorter(breaker[p]) /\ saved'[p] = Shorter(saved[p])
    BY <1>1
  <2> QED  BY <2>1, <2>2, ShorterIsLater
<1>3. RouterTypeOK' /\ TripsMatchCooldown' /\ LocalStaysLocal'
  BY <1>1, <1>2 DEF Inv, RouterTypeOK, TripsMatchCooldown, LocalStaysLocal, Of
<1>4. OpenTakesOnlyEarlyCalls'
  BY <1>1, <1>2 DEF Inv, OpenTakesOnlyEarlyCalls, Busy, Of, IsOpen
<1>5. \A p \in Providers : StepOK(p)
  BY <1>1, <1>2 DEF StepOK
<1> QED  BY <1>1, <1>3, <1>4, <1>5 DEF Inv, WorkOK

\* A restart leaves no request, and a breaker that is the row's; it is the one that was there
\* before unless the database failed.
LEMMA RestartStep ==
    ASSUME Inv, NEW rows \in {saved, NoRows}, Restart(rows)
    PROVE  Inv' /\ (\A p \in Providers : StepOK(p)) /\ (\A d \in Callers : WorkOK(d))
<1>1. /\ breaker' = rows /\ saved' = saved
      /\ call' = [c \in Callers |-> Idle]
      /\ health' \in [Providers -> Verdict \cup {"stale"}]
  BY DEF Restart
<1>2. \A c \in Callers : Ready(call'[c]) /\ call'[c].pc = "idle"
  BY <1>1, IdleIsReady DEF Idle
<1>3. /\ rows \in [Providers -> Breaker]
      /\ \A p \in Providers : rows[p].cooled <=> rows[p].trips > 0
  BY BlankIsClosed DEF NoRows, Inv, RouterTypeOK, TripsMatchCooldown
<1>4. RouterTypeOK' /\ TripsMatchCooldown'
  BY <1>1, <1>2, <1>3 DEF Inv, RouterTypeOK, TripsMatchCooldown, Ready, Request
<1>5. LocalStaysLocal' /\ OpenTakesOnlyEarlyCalls'
  BY <1>2 DEF LocalStaysLocal, OpenTakesOnlyEarlyCalls, Busy
<1>6. ASSUME NEW p \in Providers PROVE StepOK(p)
  <2>1. CASE rows = NoRows
    <3>1. Forgets(p)
      BY <2>1 DEF Forgets
    <3> QED  BY <3>1 DEF StepOK
  <2>2. CASE rows = saved /\ saved[p] # breaker[p]
    <3>1. Forgets(p)
      BY <2>2 DEF Forgets
    <3> QED  BY <3>1 DEF StepOK
  <2>3. CASE rows = saved /\ saved[p] = breaker[p]
    <3>1. breaker'[p] = breaker[p]
      BY <1>1, <2>3
    <3> QED  BY <3>1, TypesOfABreaker DEF Inv, StepOK
  <2> QED  BY <2>1, <2>2, <2>3
<1> QED  BY <1>2, <1>4, <1>5, <1>6 DEF Inv, WorkOK, Busy

LEMMA StartsWell == RouterInit => Inv
<1> SUFFICES ASSUME RouterInit PROVE Inv
  OBVIOUS
<1>1. /\ breaker = [p \in Providers |-> Blank] /\ saved = breaker
      /\ call = [c \in Callers |-> Idle]
      /\ health \in [Providers -> Verdict \cup {"stale"}]
  BY DEF RouterInit, BreakerInit
<1>2. \A c \in Callers : Ready(call[c]) /\ call[c].pc = "idle"
  BY <1>1, IdleIsReady DEF Idle
<1> QED  BY <1>1, <1>2, BlankIsClosed
            DEF Inv, RouterTypeOK, TripsMatchCooldown, LocalStaysLocal,
                OpenTakesOnlyEarlyCalls, Busy, Ready, Request

LEMMA EveryStep ==
    ASSUME Inv, RouterNext
    PROVE  Inv' /\ (\A p \in Providers : StepOK(p)) /\ (\A d \in Callers : WorkOK(d))
BY CallerStep, HealthStep, TickStep, RestartStep DEF RouterNext

-----------------------------------------------------------------------------
(* The theorems. *)

\* What the theorems below are read off from.
THEOREM RouterSpecInv == RouterSpec => []Inv
<1>1. Inv /\ [RouterNext]_vars => Inv'
  <2> SUFFICES ASSUME Inv, UNCHANGED vars PROVE Inv'
    BY EveryStep
  <2> QED  BY DEF vars, breakerVars, Inv, RouterTypeOK, TripsMatchCooldown,
                  LocalStaysLocal, OpenTakesOnlyEarlyCalls, Busy, Of, IsOpen
<1> QED  BY <1>1, StartsWell, PTL DEF RouterSpec

\* Every breaker, its row, every request and every adapter's health keep their form.
THEOREM RouterSpecTypeOK == RouterSpec => []RouterTypeOK
<1>1. Inv => RouterTypeOK  BY DEF Inv
<1> QED  BY <1>1, RouterSpecInv, PTL

\* A breaker, and the row a restart goes on from, has a cooldown exactly if it has tripped since
\* the last success; so the backoff of the next trip continues the trips it belongs to.
THEOREM RouterSpecTripsMatchCooldown == RouterSpec => []TripsMatchCooldown
<1>1. Inv => TripsMatchCooldown  BY DEF Inv
<1> QED  BY <1>1, RouterSpecInv, PTL

\* Failover, retry and probe keep a private request on the PC.
THEOREM RouterSpecLocalStaysLocal == RouterSpec => []LocalStaysLocal
<1>1. Inv => LocalStaysLocal  BY DEF Inv
<1> QED  BY <1>1, RouterSpecInv, PTL

\* Only requests that were past the breaker when it opened are with an open provider.
THEOREM RouterSpecOpenTakesOnlyEarlyCalls == RouterSpec => []OpenTakesOnlyEarlyCalls
<1>1. Inv => OpenTakesOnlyEarlyCalls  BY DEF Inv
<1> QED  BY <1>1, RouterSpecInv, PTL

\* Work is begun at a provider that is due for a probe only right after its health check.
THEOREM RouterSpecProbedBeforeWork == RouterSpec => ProbedBeforeWork
<1>1. Inv /\ [RouterNext]_vars =>
        [\A c \in Callers, p \in Providers :
           /\ Busy(c, p)' /\ call'[c].pc = "call" /\ InProbe(breaker'[p])
           /\ call'[c] # call[c]
           => call[c].pc = "health"]_vars
  BY EveryStep DEF WorkOK
<1> QED  BY <1>1, RouterSpecInv, PTL DEF RouterSpec, ProbedBeforeWork

\* A breaker that is to be probed closes or opens with the first answer that matters, unless a
\* restart after a database failure replaces it.
THEOREM RouterSpecProbeIsDecisive == RouterSpec => ProbeIsDecisive
<1>1. Inv /\ [RouterNext]_vars =>
        [\A p \in Providers : InProbe(breaker[p]) /\ breaker'[p] # breaker[p] =>
            breaker'[p] = Blank \/ IsOpen(p)' \/ Forgets(p)]_vars
  BY EveryStep DEF StepOK
<1> QED  BY <1>1, RouterSpecInv, PTL DEF RouterSpec, ProbeIsDecisive

\* Before its time a cooldown ends only by a request that was under way when the circuit opened (a
\* late success, a late failure with a shorter wait) or a restart after a database failure.
THEOREM RouterSpecCooldownKept == RouterSpec => CooldownKept
<1>1. Inv /\ [RouterNext]_vars =>
        [\A p \in Providers :
           IsOpen(p) /\ breaker'[p].left < breaker[p].left =>
              \/ CoolDown
              \/ \E c \in Callers : call[c].pc = "call" /\ Of(c) = p /\ call[c].early
              \/ Forgets(p)]_vars
  BY EveryStep DEF StepOK
<1> QED  BY <1>1, RouterSpecInv, PTL DEF RouterSpec, CooldownKept

-----------------------------------------------------------------------------
(* A failover runs down. *)

\* How far a request is from the end of its turn with a provider.
Stage(pc) == CASE pc = "health" -> 3 [] pc = "call" -> 2 [] pc = "handoff" -> 1 [] OTHER -> 0

\* A request is over, or has fewer candidates left, or its turn with this one goes on, or it uses
\* up a retry there.
Onward(c) ==
    LET q == call[c]
        r == call'[c]
    IN  \/ r.pc = "idle"
        \/ /\ r.local = q.local
           /\ \/ Len(r.todo) < Len(q.todo)
              \/ r.todo = q.todo /\ r.used = q.used /\ Stage(r.pc) < Stage(q.pc)
              \/ /\ r.todo = q.todo /\ r.pc = q.pc
                 /\ \E cat \in DOMAIN Retries : r.used = [q.used EXCEPT ![cat] = @ + 1]

\* Another request may at most open a circuit under this one.
Stays(c) == /\ call'[c].pc = call[c].pc /\ call'[c].local = call[c].local
            /\ call'[c].todo = call[c].todo /\ call'[c].used = call[c].used

WithinRetries == \A c \in Callers, cat \in DOMAIN Retries : call[c].used[cat] <= Retries[cat]

Fits(r) == \A cat \in DOMAIN Retries : r.used[cat] <= Retries[cat]

LEMMA IdleFits == Fits(Idle)
  BY RouterAssumption DEF Fits, Idle

\* Proceed ends the request or takes up candidates of the list it was given.
LEMMA ProceedShortens ==
    ASSUME NEW c \in Callers, NEW local \in BOOLEAN, NEW todo \in Seq(Providers),
           RouterTypeOK, Proceed(c, local, todo)
    PROVE  /\ \A d \in Callers \ {c} : call'[d] = call[d]
           /\ Fits(call'[c])
           /\ call'[c].pc # "idle" =>
                call'[c].local = local /\ Len(call'[c].todo) <= Len(todo)
<1> DEFINE r(i) == IF i > Len(todo) THEN Idle
                   ELSE [pc |-> IF NeedsCheck(todo[i]) THEN "health" ELSE "call",
                         local |-> local, todo |-> SubSeq(todo, i, Len(todo)),
                         used |-> Idle.used, early |-> FALSE]
<1>1. PICK i \in 1 .. Len(todo) + 1 : call' = [call EXCEPT ![c] = r(i)]
  BY DEF Proceed
<1>2. call'[c] = r(i) /\ \A d \in Callers \ {c} : call'[d] = call[d]
  BY <1>1 DEF RouterTypeOK
<1>3. CASE i > Len(todo)
  BY <1>2, <1>3, IdleFits DEF Idle
<1>4. CASE ~(i > Len(todo))
  <2>1. i \in 1 .. Len(todo) /\ Len(todo) \in i .. Len(todo) /\ Len(todo) \in Nat
    BY <1>4
  <2>2. Len(SubSeq(todo, i, Len(todo))) = Len(todo) - i + 1
    BY <2>1, SubSeqProperties
  <2>3. call'[c].local = local /\ call'[c].todo = SubSeq(todo, i, Len(todo))
        /\ call'[c].used = Idle.used
    BY <1>2, <1>4
  <2>4. Fits(call'[c])
    BY <2>3, IdleFits DEF Fits
  <2> QED  BY <1>2, <2>1, <2>2, <2>3, <2>4
<1> QED  BY <1>3, <1>4

LEMMA NextCandidate ==
    ASSUME Inv, NEW c \in Callers, call[c].pc # "idle",
           Proceed(c, call[c].local, Tail(call[c].todo))
    PROVE  Onward(c) /\ Fits(call'[c]) /\ \A d \in Callers \ {c} : call'[d] = call[d]
<1>1. call[c].local \in BOOLEAN /\ call[c].todo \in Seq(Providers) /\ call[c].todo # <<>>
  BY DEF Inv, RouterTypeOK
<1>2. /\ Tail(call[c].todo) \in Seq(Providers)
      /\ Len(Tail(call[c].todo)) = Len(call[c].todo) - 1
  BY <1>1, HeadTailProperties
<1>3. Len(call[c].todo) \in Nat
  BY <1>1
<1>4. /\ \A d \in Callers \ {c} : call'[d] = call[d]
      /\ Fits(call'[c])
      /\ call'[c].pc # "idle" => /\ call'[c].local = call[c].local
                                 /\ Len(call'[c].todo) <= Len(Tail(call[c].todo))
  BY <1>1, <1>2, ProceedShortens DEF Inv
<1>5. call'[c].pc # "idle" => Len(call'[c].todo) < Len(call[c].todo)
  BY <1>2, <1>3, <1>4
<1> QED  BY <1>4, <1>5 DEF Onward

\* A failed call ends the request, uses a retry, or leads to the handoff; the others stay.
LEMMA FailureOnward ==
    ASSUME Inv, NEW c \in Callers, NEW cat \in ErrorCategory, CallFails(c, cat)
    PROVE  /\ Onward(c) /\ (Fits(call[c]) => Fits(call'[c]))
           /\ \A d \in Callers \ {c} : Stays(d)
<1> DEFINE q == Of(c)
<1>1. call[c].pc = "call" /\ call \in [Callers -> Request]
  BY DEF Inv, RouterTypeOK, Request, CallFails
<1>2. PICK b \in Failed(breaker[q], cat) :
         LET opens == cat \in Counted /\ b.failures = 0
         IN  /\ IF cat \in Counted THEN Note(q, b) ELSE UNCHANGED breakerVars
             /\ call' = [[d \in Callers |-> Early(q, opens, d)] EXCEPT ![c] =
                  IF cat \in NoSwitch THEN Idle
                  ELSE IF MayRetry(c, cat, opens)
                       THEN [call[c] EXCEPT !.used[cat] = @ + 1]
                       ELSE [call[c] EXCEPT !.pc = "handoff", !.early = FALSE]]
  BY Zenon DEF CallFails
<1> DEFINE opens == cat \in Counted /\ b.failures = 0
<1>3. /\ \A d \in Callers \ {c} : call'[d] = Early(q, opens, d)
      /\ \/ call'[c] = Idle
         \/ call'[c] = [call[c] EXCEPT !.pc = "handoff", !.early = FALSE]
         \/ /\ call'[c] = [call[c] EXCEPT !.used[cat] = @ + 1]
            /\ cat \in DOMAIN Retries /\ call[c].used[cat] < Retries[cat]
  BY <1>2 DEF MayRetry
<1> HIDE DEF opens
<1> DEFINE Goes == Onward(c) /\ (Fits(call[c]) => Fits(call'[c]))
<1>4. ASSUME NEW d \in Callers \ {c} PROVE Stays(d)
  <2>1. call[d] \in Request /\ call'[d] = Early(q, opens, d)
    BY <1>1, <1>3
  <2>2. call'[d] \in {call[d], [call[d] EXCEPT !.early = TRUE]}
    BY <2>1 DEF Early
  <2> QED  BY <2>1, <2>2 DEF Stays, Request
<1>5. ASSUME call'[c] = Idle PROVE Goes
  BY <1>5, IdleFits DEF Onward, Idle
<1>6. ASSUME call'[c] = [call[c] EXCEPT !.pc = "handoff", !.early = FALSE] PROVE Goes
  <2>1. /\ call'[c].pc = "handoff" /\ call'[c].used = call[c].used
        /\ call'[c].local = call[c].local /\ call'[c].todo = call[c].todo
    BY <1>1, <1>6 DEF Request
  <2> QED  BY <1>1, <2>1 DEF Onward, Stage, Fits
<1>7. ASSUME call'[c] = [call[c] EXCEPT !.used[cat] = @ + 1],
             cat \in DOMAIN Retries, call[c].used[cat] < Retries[cat]
      PROVE  Goes
  <2>1. /\ call'[c].used = [call[c].used EXCEPT ![cat] = @ + 1]
        /\ call'[c].local = call[c].local /\ call'[c].todo = call[c].todo
        /\ call'[c].pc = call[c].pc
    BY <1>1, <1>7 DEF Request
  <2>2. call[c].used \in [DOMAIN Retries -> Nat] /\ Retries[cat] \in Nat
    BY <1>1, <1>7, RouterAssumption DEF Request
  <2>3. Fits(call[c]) => Fits(call'[c])
    BY <1>7, <2>1, <2>2 DEF Fits
  <2> QED  BY <1>7, <2>1, <2>3 DEF Onward
<1> QED  BY <1>3, <1>4, <1>5, <1>6, <1>7

\* What a step makes of the requests under way, and of their retries.
LEMMA RequestsOnward ==
    ASSUME Inv, RouterNext
    PROVE  /\ \A c \in Callers : Caller(c) => Onward(c)
           /\ \A c \in Callers : call[c].pc # "idle" => Onward(c) \/ Stays(c)
           /\ \A c \in Callers : Fits(call[c]) => Fits(call'[c])
<1> DEFINE One(c) == /\ Onward(c) /\ (Fits(call[c]) => Fits(call'[c]))
                     /\ \A d \in Callers \ {c} : Stays(d)
<1>1. ASSUME NEW c \in Callers, Caller(c) PROVE One(c)
  <2>1. ASSUME NEW state \in Verdict, Checked(c, state) PROVE One(c)
    <3>1. CASE state = "usable"
      <4>1. call[c].pc = "health" /\ call' = [call EXCEPT ![c].pc = "call"]
        BY <2>1, <3>1 DEF Checked
      <4>2. /\ call'[c] = [call[c] EXCEPT !.pc = "call"]
            /\ \A d \in Callers \ {c} : call'[d] = call[d]
        BY <4>1 DEF Inv, RouterTypeOK
      <4>3. /\ call'[c].pc = "call" /\ call'[c].used = call[c].used
            /\ call'[c].local = call[c].local /\ call'[c].todo = call[c].todo
        BY <4>2 DEF Inv, RouterTypeOK
      <4> QED  BY <4>1, <4>2, <4>3 DEF Onward, Stays, Stage, Fits
    <3>2. CASE state # "usable"
      BY <2>1, <3>2, NextCandidate DEF Checked, Stays
    <3> QED  BY <3>1, <3>2
  <2>2. ASSUME NEW cat \in ErrorCategory, CallFails(c, cat) PROVE One(c)
    BY <2>2, FailureOnward
  <2>3. CASE Answered(c)
    <3>1. call'[c] = Idle /\ \A d \in Callers \ {c} : call'[d] = call[d]
      BY <2>3 DEF Answered, Inv, RouterTypeOK
    <3> QED  BY <3>1, IdleFits DEF Onward, Stays, Idle
  <2>4. CASE HandedOn(c)
    BY <2>4, NextCandidate DEF HandedOn, Stays
  <2> QED  BY <1>1, <2>1, <2>2, <2>3, <2>4 DEF Caller
<1>2. ASSUME NEW c \in Callers, NEW local \in BOOLEAN, NEW todo \in Rankings, Ask(c, local, todo)
      PROVE  /\ call[c].pc = "idle" /\ Fits(call'[c])
             /\ \A d \in Callers \ {c} : call'[d] = call[d]
  BY <1>2, ProceedShortens, RouterAssumption DEF Ask, Inv
<1>3. ASSUME NEW c \in Callers, Abandoned(c)
      PROVE  call'[c] = Idle /\ \A d \in Callers \ {c} : call'[d] = call[d]
  BY <1>3 DEF Abandoned, Inv, RouterTypeOK
<1>4. ASSUME Restart(saved) \/ Restart(NoRows), NEW c \in Callers PROVE call'[c] = Idle
  BY <1>4 DEF Restart
<1>5. CASE \E c \in Callers : Caller(c)
  BY <1>1, <1>5 DEF Stays, Fits
<1>6. CASE ~\E c \in Callers : Caller(c)
  <2>1. \/ call' = call
        \/ \A c \in Callers : call'[c] = Idle
        \/ \E c \in Callers : /\ \A d \in Callers \ {c} : call'[d] = call[d]
                              /\ Fits(call'[c]) /\ (call[c].pc = "idle" \/ call'[c] = Idle)
    <3>1. CASE Tick \/ \E p \in Providers : Ages(p) \/ \E state \in Verdict : HealthRound(p, state)
      BY <3>1 DEF Tick, Ages, HealthRound
    <3> QED  BY <1>2, <1>3, <1>4, <1>6, <3>1, IdleFits DEF RouterNext
  <2>2. \A c \in Callers : call'[c] = Idle => Onward(c) /\ Fits(call'[c])
    BY IdleFits DEF Onward, Idle
  <2> QED  BY <1>6, <2>1, <2>2 DEF Stays
<1> QED  BY <1>5, <1>6

\* No request uses more retries with a provider than RetryPolicy gives it.
THEOREM RouterSpecWithinRetries == RouterSpec => []WithinRetries
<1>1. RouterInit => WithinRetries
  BY IdleFits DEF RouterInit, WithinRetries, Fits
<1>2. Inv /\ WithinRetries /\ [RouterNext]_vars => WithinRetries'
  <2>1. ASSUME WithinRetries, UNCHANGED vars PROVE WithinRetries'
    BY <2>1 DEF vars, WithinRetries
  <2> QED  BY <2>1, RequestsOnward DEF WithinRetries, Fits
<1> QED  BY <1>1, <1>2, RouterSpecInv, PTL DEF RouterSpec

\* A failover cannot go round for ever, however breakers and health checks interfere: each step of
\* a request ends it, leaves it fewer candidates, goes on in its turn with this one, or uses a
\* retry there; its privacy stays what it was, and nobody else gives it more to do (complete).
THEOREM RouterSpecFailoverRunsDown ==
    RouterSpec => [][/\ \A c \in Callers : Caller(c) => Onward(c)
                     /\ \A c \in Callers : call[c].pc # "idle" => Onward(c) \/ Stays(c)]_vars
<1>1. Inv /\ [RouterNext]_vars =>
        [/\ \A c \in Callers : Caller(c) => Onward(c)
         /\ \A c \in Callers : call[c].pc # "idle" => Onward(c) \/ Stays(c)]_vars
  BY RequestsOnward
<1> QED  BY <1>1, RouterSpecInv, PTL DEF RouterSpec
=============================================================================
