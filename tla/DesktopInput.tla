----------------------------- MODULE DesktopInput -----------------------------
(***************************************************************************)
(* The desktop worker's side of an action: the guard that keeps the owner  *)
(* in charge (desktop_guard.py), the one lease on keyboard and mouse       *)
(* (desktop_lock.py) and act (desktop_act.py).  A call asks the guard,     *)
(* waits for the lease, looks the control up again and sends its input;    *)
(* typing by keys asks the guard once more.  The worker's thread goes on   *)
(* after the core has stopped waiting for the answer.  One Tick of the     *)
(* clock is HALT_SECONDS, 15 seconds.                                      *)
(***************************************************************************)
EXTENDS Integers

CONSTANTS
    Targets,        \* what can be pressed or typed
    Typed,          \* those that are typed by keys (op "type")
    ArmFor          \* ARM_IDLE_SECONDS, in ticks

ASSUME DesktopAssumption == Typed \subseteq Targets /\ ArmFor \in Nat \ {0}

VARIABLES
    guard,          \* [halt, armed, busy]: the halt holds, ticks the hooks stay on, the owner acts
    calls,          \* the calls sent to the worker
    pressed,        \* how often each target got its input
    missed          \* ghost: how many of these the core's history does not count

desktopVars == <<guard, calls, pressed, missed>>

\* A call of attempt try on a target, as one of the numbered controls ("list") or at a point
\* that vision found ("locate"); heard: the core still waits; early: the guard had let it pass
\* before the Escape came.
Call(try, t, by) == [try |-> try, on |-> t, by |-> by, at |-> "asked", reply |-> "none",
                     heard |-> TRUE, early |-> FALSE]

Quiet == [halt |-> FALSE, armed |-> 0, busy |-> FALSE]

DesktopInit ==
    /\ guard = Quiet /\ calls = {}
    /\ pressed = [t \in Targets |-> 0] /\ missed = [t \in Targets |-> 0]

-----------------------------------------------------------------------------
(* The guard. *)

\* require_owner_idle: a halt refuses at once; otherwise the hooks are armed (a fresh watch
\* looks for a moment first) and the owner's own input refuses.
Says(g) == IF g.halt THEN "cancelled" ELSE IF g.busy THEN "active" ELSE "pass"
Asked ==
    IF guard.halt THEN {guard}
    ELSE {[guard EXCEPT !.armed = ArmFor, !.busy = b] :
            b \in IF guard.armed = 0 THEN BOOLEAN ELSE {guard.busy}}

\* on_key, a real Escape: the owner is active and Nova is halted.  Seen while armed only.
Escape ==
    /\ guard.armed > 0 /\ ~guard.halt
    /\ guard' = [guard EXCEPT !.halt = TRUE, !.busy = TRUE]
    /\ calls' = {[c EXCEPT !.early = @ \/ c.at = "waits"] : c \in calls}
    /\ UNCHANGED <<pressed, missed>>

\* on_key and on_mouse: the owner's hands move, and rest for USER_ACTIVE_SECONDS.
OwnerInput ==
    /\ guard.armed > 0 /\ ~guard.busy
    /\ guard' = [guard EXCEPT !.busy = TRUE]
    /\ UNCHANGED <<calls, pressed, missed>>

OwnerRests ==
    /\ guard.busy
    /\ guard' = [guard EXCEPT !.busy = FALSE]
    /\ UNCHANGED <<calls, pressed, missed>>

\* HALT_SECONDS pass: the halt is over, and the hooks come off when nothing used them.  A call
\* reaches the guard in less.
Tick ==
    /\ guard.halt \/ guard.armed > 0
    /\ \A c \in calls : c.at # "asked"
    /\ guard' = [halt |-> FALSE, armed |-> IF guard.armed > 0 THEN guard.armed - 1 ELSE 0,
                 busy |-> FALSE]
    /\ UNCHANGED <<calls, pressed, missed>>

-----------------------------------------------------------------------------
(* One call. *)

\* An answer nobody waits for is dropped.
Step(c, d) == calls' = (calls \ {c}) \cup IF d.at = "answered" /\ ~d.heard THEN {} ELSE {d}

Answer(c, reply) == Step(c, [c EXCEPT !.at = "answered", !.reply = reply])

\* input_lease: the guard first, then the wait for the lease.
GuardChecks(c) ==
    /\ c.at = "asked"
    /\ \E g \in Asked :
        /\ guard' = g
        /\ IF Says(g) = "pass" THEN Step(c, [c EXCEPT !.at = "waits"]) ELSE Answer(c, Says(g))
    /\ UNCHANGED <<pressed, missed>>

\* Mutant of StillAllowed: the wait for the lease is trusted to be short.
StillAllowedAlways(c, g) == TRUE

\* _activate before the keys of a typed text: the guard is asked again.
StillAllowed(c, g) == c.on \in Typed => Says(g) = "pass"

\* The lease is there, the control is found again and gets its input.
Lands(c) ==
    /\ c.at = "waits"
    /\ \E g \in IF c.on \in Typed THEN Asked ELSE {guard} :
        /\ StillAllowed(c, g)
        /\ guard' = g
    /\ pressed' = [pressed EXCEPT ![c.on] = @ + 1]
    /\ missed' = IF c.heard /\ c.by = "list" THEN missed ELSE [missed EXCEPT ![c.on] = @ + 1]
    /\ Answer(c, "ok")

\* The guard refuses the typed text after all.
RefusedLate(c) ==
    /\ c.at = "waits" /\ c.on \in Typed
    /\ \E g \in Asked : Says(g) # "pass" /\ guard' = g /\ Answer(c, Says(g))
    /\ UNCHANGED <<pressed, missed>>

\* Another action kept the lease for WAIT_SECONDS; the window is gone or another program's, or
\* the control is gone, replaced or moved (find_again); it is disabled or takes no such input.
NotDelivered(c) ==
    /\ c.at = "waits"
    /\ \E reply \in {"busy", "stale", "failed"} : Answer(c, reply)
    /\ UNCHANGED <<guard, pressed, missed>>

CallStep == \E c \in calls : GuardChecks(c) \/ Lands(c) \/ RefusedLate(c) \/ NotDelivered(c)

OwnerStep == Escape \/ OwnerInput \/ OwnerRests \/ Tick

(***************************************************************************)
(* Properties.                                                             *)
(***************************************************************************)
\* "Escape ... halts all further input for a while": while the halt holds, the only input that
\* still lands is of a call that waited for the lease, past the guard, when the Escape came,
\* and never a typed text.
HaltHolds ==
    [][\A t \in Targets : guard.halt /\ pressed'[t] # pressed[t] =>
        t \notin Typed /\ \E c \in calls : c.on = t /\ c.at = "waits" /\ c.early]_desktopVars
=============================================================================
