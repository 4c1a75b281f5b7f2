--------------------------- MODULE ProviderRouter ---------------------------
(***************************************************************************)
(* The provider router (models/router/router.py): requests of concurrent   *)
(* callers - the two lanes, the intent router, voice - fail over from one  *)
(* provider to the next.                                                   *)
(*                                                                         *)
(* A request suspends in three places: in the health check of a provider,  *)
(* in the call, and in the handoff to the next provider.  Everything from  *)
(* one of them to the next is one action.  The breakers and the adapters'  *)
(* health are shared, so that a request acts on what it saw before its     *)
(* await while others have opened or closed the circuit meanwhile.         *)
(***************************************************************************)
EXTENDS CircuitBreaker

CONSTANTS
    Callers,
    Local,       \* providers that run on this PC
    Rankings,    \* the orders in which ranked() may list the candidates
    Retries      \* retries of a timeout and of a server error

ASSUME RouterAssumption == /\ Local \subseteq Providers
                           /\ Rankings \subseteq Seq(Providers)
                           /\ Retries \in [{"timeout", "server"} -> Nat]

VARIABLES
    call,      \* per caller, the request it awaits
    health     \* adapter.health: what the last check said, "stale" after HEALTH_TTL_SECONDS

vars == <<breakerVars, call, health>>

-----------------------------------------------------------------------------
(* Requests *)

Idle == [pc |-> "idle", local |-> FALSE, todo |-> <<>>,
         used |-> [cat \in DOMAIN Retries |-> 0], early |-> FALSE]

Verdict == {"usable", "unusable"}

\* The provider a caller deals with.
Of(c) == Head(call[c].todo)

Busy(c, p) == call[c].pc \in {"health", "call"} /\ Of(c) = p

\* Mutant of Skips: the breaker is not asked.
SkipsUnasked(local, todo, i) ==
    LET p == todo[i]
    IN  \/ local /\ p \notin Local
        \/ ~InProbe(breaker[p]) /\ health[p] = "unusable"

\* Mutant of Skips: a circuit that was opened stays open until a success.
SkipsForGood(local, todo, i) ==
    LET p == todo[i]
    IN  \/ local /\ p \notin Local
        \/ breaker[p].cooled
        \/ health[p] = "unusable"

\* complete passes the candidate over without an await.
Skips(local, todo, i) ==
    LET p == todo[i]
    IN  \/ local /\ p \notin Local
        \/ IsOpen(p)
        \/ ~InProbe(breaker[p]) /\ health[p] = "unusable"

\* Mutant of NeedsCheck: the probe is not forced.
NeedsStaleCheck(p) == health[p] = "stale"

NeedsCheck(p) == InProbe(breaker[p]) \/ health[p] = "stale"

\* The loop goes on to the first candidate of todo that is not passed over, or ends.
Proceed(c, local, todo) ==
    \E i \in 1 .. Len(todo) + 1 :
        /\ \A j \in 1 .. i - 1 : Skips(local, todo, j)
        /\ i <= Len(todo) => ~Skips(local, todo, i)
        /\ call' = [call EXCEPT ![c] =
             IF i > Len(todo) THEN Idle
             ELSE [pc |-> IF NeedsCheck(todo[i]) THEN "health" ELSE "call",
                   local |-> local, todo |-> SubSeq(todo, i, Len(todo)),
                   used |-> Idle.used, early |-> FALSE]]

\* complete is called: its privacy is fixed here, the candidates are ranked once.
Ask(c, local, todo) ==
    /\ call[c].pc = "idle"
    /\ Proceed(c, local, todo)
    /\ UNCHANGED <<breakerVars, health>>

\* The health check of the candidate ends; the adapter keeps its result.
Checked(c, state) ==
    /\ call[c].pc = "health"
    /\ health' = [health EXCEPT ![Of(c)] = state]
    /\ IF state = "usable" THEN call' = [call EXCEPT ![c].pc = "call"]
             ELSE Proceed(c, call[c].local, Tail(call[c].todo))
    /\ UNCHANGED breakerVars

\* The call succeeded: the request is served and the breaker starts afresh.
Answered(c) ==
    /\ call[c].pc = "call"
    /\ Succeeded(Of(c))
    /\ call' = [call EXCEPT ![c] = Idle]
    /\ UNCHANGED health

\* Requests under way with p have begun before the circuit opens now.
Early(p, opens, c) ==
    IF opens /\ Busy(c, p) THEN [call[c] EXCEPT !.early = TRUE] ELSE call[c]

MayRetry(c, cat, opens) ==
    ~opens /\ cat \in DOMAIN Retries /\ call[c].used[cat] < Retries[cat]

\* The call failed: the breaker counts it, and the request is tried again with the same
\* provider, handed on, or given back to the caller.
CallFails(c, cat) ==
    LET p == Of(c)
    IN  /\ call[c].pc = "call"
        /\ \E b \in Failed(breaker[p], cat) :
             LET opens == cat \in Counted /\ b.failures = 0
             IN  /\ IF cat \in Counted THEN Note(p, b) ELSE UNCHANGED breakerVars
                 /\ call' = [[d \in Callers |-> Early(p, opens, d)] EXCEPT ![c] =
                      IF cat \in NoSwitch THEN Idle
                      ELSE IF MayRetry(c, cat, opens)
                           THEN [call[c] EXCEPT !.used[cat] = @ + 1]
                           ELSE [call[c] EXCEPT !.pc = "handoff", !.early = FALSE]]
        /\ IF cat \in {"limit", "auth"}
           THEN health' = [health EXCEPT ![p] = "unusable"]
           ELSE UNCHANGED health

\* The handoff note is written: on to the next candidate.
HandedOn(c) ==
    /\ call[c].pc = "handoff"
    /\ Proceed(c, call[c].local, Tail(call[c].todo))
    /\ UNCHANGED <<breakerVars, health>>

\* The caller is cancelled while it awaits (TaskContext.interruptible): nothing is noted.
Abandoned(c) ==
    /\ call[c].pc # "idle"
    /\ call' = [call EXCEPT ![c] = Idle]
    /\ UNCHANGED <<breakerVars, health>>

Caller(c) == \/ \E state \in Verdict : Checked(c, state)
             \/ \E cat \in ErrorCategory : CallFails(c, cat)
             \/ Answered(c) \/ HandedOn(c)

-----------------------------------------------------------------------------
(* The rest of the world *)

\* Mutant of HealthRound: a healthy provider is put back into the pool.
HealthRoundCloses(p, state) ==
    /\ health' = [health EXCEPT ![p] = state]
    /\ IF state = "usable" THEN Note(p, Blank) ELSE UNCHANGED breakerVars
    /\ UNCHANGED call

\* One result of the background health round.
HealthRound(p, state) ==
    /\ health' = [health EXCEPT ![p] = state]
    /\ UNCHANGED <<breakerVars, call>>

Ages(p) == /\ health[p] # "stale" /\ health' = [health EXCEPT ![p] = "stale"]
           /\ UNCHANGED <<breakerVars, call>>

Tick == CoolDown /\ UNCHANGED <<call, health>>

\* What load returns if the database fails.
NoRows == [p \in Providers |-> Blank]

\* The service dies and starts again: the breakers are read from their rows.
Restart(rows) ==
    /\ breaker' = rows
    /\ call' = [c \in Callers |-> Idle]
    /\ health' = [p \in Providers |-> "stale"]
    /\ UNCHANGED saved

RouterInit ==
    /\ BreakerInit
    /\ call = [c \in Callers |-> Idle]
    /\ health = [p \in Providers |-> "stale"]

RouterNext ==
    \/ \E c \in Callers : \/ \E local \in BOOLEAN, todo \in Rankings : Ask(c, local, todo)
                          \/ Caller(c) \/ Abandoned(c)
    \/ \E p \in Providers : Ages(p) \/ \E state \in Verdict : HealthRound(p, state)
    \/ Tick \/ Restart(saved) \/ Restart(NoRows)

RouterSpec == RouterInit /\ [][RouterNext]_vars

\* Checks and calls have timeouts, and time passes.
FairRouterSpec == RouterSpec /\ WF_vars(Tick) /\ \A c \in Callers : WF_vars(Caller(c))

-----------------------------------------------------------------------------
(* Properties *)

RouterTypeOK ==
    /\ breaker \in [Providers -> Breaker] /\ saved \in [Providers -> Breaker]
    /\ call \in [Callers -> [pc : {"idle", "health", "call", "handoff"}, local : BOOLEAN,
                             todo : Seq(Providers), used : [DOMAIN Retries -> Nat],
                             early : BOOLEAN]]
    /\ \A c \in Callers : call[c].pc # "idle" => call[c].todo # <<>>
    /\ health \in [Providers -> Verdict \cup {"stale"}]

\* A cooldown was set exactly if the circuit has tripped since the last success, so that the
\* backoff of the next trip always continues the row of trips it belongs to; the same of a
\* row, however far behind it is, since a restart goes on from there.
TripsMatchCooldown ==
    \A p \in Providers : /\ breaker[p].cooled <=> breaker[p].trips > 0
                         /\ saved[p].cooled <=> saved[p].trips > 0

\* A request that must not leave the PC is never with a cloud provider, neither by a
\* failover, nor by a retry, nor by a probe.
LocalStaysLocal ==
    \A c \in Callers : call[c].pc \in {"health", "call"} /\ call[c].local => Of(c) \in Local

\* An open circuit gets no work but that of requests that were past the breaker when it
\* opened; whoever asks later passes the provider over.
OpenTakesOnlyEarlyCalls ==
    \A c \in Callers, p \in Providers : Busy(c, p) /\ IsOpen(p) => call[c].early

\* After a cooldown the provider is probed first: work is begun there only by a request
\* whose health check has just ended, never as a retry or on the strength of an old check.
ProbedBeforeWork ==
    [][\A c \in Callers, p \in Providers :
         /\ Busy(c, p)' /\ call'[c].pc = "call" /\ InProbe(breaker'[p])
         /\ call'[c] # call[c]
         => call[c].pc = "health"]_vars

\* The database failed: a restart cannot read it, or finds a row of p that was not written.
Forgets(p) == Restart(NoRows) \/ (saved[p] # breaker[p] /\ Restart(saved))

\* A probe decides: a breaker whose cooldown is over is never merely counted on, the next
\* answer that matters closes the circuit or opens it again.
ProbeIsDecisive ==
    [][\A p \in Providers : InProbe(breaker[p]) /\ breaker'[p] # breaker[p] =>
            breaker'[p] = Blank \/ IsOpen(p)' \/ Forgets(p)]_vars

\* A cooldown is cut short in two ways only: by a request that was under way when the
\* circuit opened, whose late answer closes it or whose late failure sets a shorter one; and
\* by a restart after the database failed.  Time, health rounds, the requests that came
\* later, and a restart that finds its row all leave it as long as it is.
CooldownKept ==
    [][\A p \in Providers :
         IsOpen(p) /\ breaker'[p].left < breaker[p].left =>
            \/ CoolDown
            \/ \E c \in Callers : call[c].pc = "call" /\ Of(c) = p /\ call[c].early
            \/ Forgets(p)]_vars

\* Something unfavourable happens at p: a failed call or a failed check, or a request that
\* is given up.
Trouble(p) == \/ \E c \in Callers : /\ call[c].pc \in {"health", "call"} /\ Of(c) = p
                                    /\ \/ \E cat \in ErrorCategory : CallFails(c, cat)
                                       \/ Checked(c, "unusable") \/ Abandoned(c)
              \/ HealthRound(p, "unusable") \/ Restart(saved) \/ Restart(NoRows)

AskedFirst(p) == \E c \in Callers, todo \in Rankings :
                    todo # <<>> /\ Head(todo) = p /\ Ask(c, FALSE, todo)

\* A provider that works again gets back into the pool: if it is asked for again and again
\* and nothing goes wrong there any more, its circuit closes for good.
BackInThePool ==
    \A p \in Providers :
        /\ <>[][~Trouble(p)]_vars
        /\ []<><<AskedFirst(p)>>_vars
        => <>[](~breaker[p].cooled)
=============================================================================
