--------------------------- MODULE CircuitBreaker ---------------------------
(***************************************************************************)
(* The circuit breaker of the provider router (models/router/circuit.py):  *)
(* one breaker per provider in memory and its row in provider_state.       *)
(*                                                                         *)
(* A moment in time matters only while it lies ahead: cooldown_until is    *)
(* `cooled` (it was set) and `left` (how long it still lasts), and a Tick  *)
(* shortens what is left, in memory and in the row.                        *)
(***************************************************************************)
EXTENDS Naturals, Sequences

CONSTANTS
    Providers,
    Threshold,     \* transient failures in a row that open the circuit
    Backoff,       \* cooldown_backoff_minutes
    RetryAfter     \* the waits a provider may name with a usage limit

ASSUME BreakerAssumption == /\ Threshold \in Nat \ {0}
                            /\ Backoff \in Seq(Nat \ {0}) /\ Len(Backoff) > 0
                            /\ RetryAfter \subseteq Nat \ {0}

VARIABLES
    breaker,   \* CircuitBreaker.state
    saved      \* the rows of provider_state

breakerVars == <<breaker, saved>>

Transient == {"timeout", "server", "missing"}   \* missing: MODEL_UNAVAILABLE, UNKNOWN
NoSwitch == {"unsafe"}                          \* UNSAFE, TOOL_FAILURE, BAD_REQUEST
ErrorCategory == Transient \cup NoSwitch \cup {"limit", "auth"}

-----------------------------------------------------------------------------
Breaker == [failures : 0 .. Threshold - 1, trips : 0 .. Len(Backoff),
            cooled : BOOLEAN, left : Nat]

Blank == [failures |-> 0, trips |-> 0, cooled |-> FALSE, left |-> 0]

IsOpen(p) == breaker[p].left > 0

InProbe(b) == b.cooled /\ b.left = 0

Lesser(m, n) == IF m < n THEN m ELSE n

BackoffOf(b) == Backoff[Lesser(b.trips + 1, Len(Backoff))]

\* _open; more trips than there are backoff steps change nothing.
Opened(b, wait) == [failures |-> 0, trips |-> Lesser(b.trips + 1, Len(Backoff)),
                    cooled |-> TRUE, left |-> wait]

\* The errors that are a matter of the breaker.
Counted == Transient \cup {"limit"}

\* failure: what one failed call may make of the breaker.
Failed(b, cat) ==
    CASE cat = "limit"        -> {Opened(b, w) : w \in RetryAfter \cup {BackoffOf(b)}}
      [] cat \notin Counted   -> {b}
      [] cat \in Transient /\ (b.failures + 1 >= Threshold \/ InProbe(b)) ->
                                 {Opened(b, BackoffOf(b))}
      [] OTHER                -> {[b EXCEPT !.failures = @ + 1]}

\* The new breaker, and _save: a database that fails is logged, and the row stays behind.
Note(p, b) == /\ breaker' = [breaker EXCEPT ![p] = b]
              /\ \E row \in {b, saved[p]} : saved' = [saved EXCEPT ![p] = row]

\* success: a breaker that has nothing to forget is not saved.
Succeeded(p) == IF breaker[p] = Blank THEN UNCHANGED breakerVars ELSE Note(p, Blank)

\* Time passes, whether or not the service runs.
Shorter(b) == [b EXCEPT !.left = IF @ > 0 THEN @ - 1 ELSE 0]

CoolDown ==
    /\ \E p \in Providers : IsOpen(p)
    /\ breaker' = [p \in Providers |-> Shorter(breaker[p])]
    /\ saved' = [p \in Providers |-> Shorter(saved[p])]

BreakerInit == /\ breaker = [p \in Providers |-> Blank]
               /\ saved = [p \in Providers |-> Blank]
=============================================================================
