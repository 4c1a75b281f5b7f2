------------------------------ MODULE ComputerUse ------------------------------
(***************************************************************************)
(* The work loop that uses an open application for the owner               *)
(* (ComputerUseAgent.run, core/orchestrator/computer.py): look at the      *)
(* window, ask the planner for one decision, check it, act through the     *)
(* desktop worker (DesktopInput), record and remember what was done.  The  *)
(* attempt may be cut short anywhere (a crash, /pause, a locked desktop, a *)
(* call that takes longer than the 10 seconds the core waits) and the next *)
(* one goes on from what was remembered.                                   *)
(***************************************************************************)
EXTENDS DesktopInput, Sequences, FiniteSets

CONSTANTS
    Limited,        \* the targets that are counted: a button, link, menu item, split button or
                    \* list item to click or select, and a text typed by keys; not a tab or a box
                    \* to tick, a field to set, nor any other operation on a button
    Allowed,        \* how often the rules let these be pressed: as often as the goal names
                    \* one, an unnamed one once, an unnamed save or confirm never; a text as
                    \* often as the goal holds it, at least once
    Mentions,       \* the targets whose label occurs in the goal, be it inside another word
    MaxSteps,       \* MAX_STEPS
    Keep,           \* entries of the history that are remembered
    OwnerWaits,     \* OWNER_WAITS
    StaleRetries,   \* STALE_RETRIES
    MaxTries        \* bound: attempts at the step

ASSUME ComputerAssumption ==
    /\ Limited \subseteq Targets /\ Typed \subseteq Limited
    /\ Allowed \in [Limited -> Nat]
    /\ Mentions \subseteq Targets
    /\ MaxSteps \in Nat \ {0} /\ Keep \in Nat /\ OwnerWaits \in Nat /\ StaleRetries \in Nat
    /\ MaxTries \in Nat

VARIABLES
    run,            \* the loop: [pc, n, looks, stale, bad]
    history,        \* what was done: a target, or one of Notes
    saved,          \* the history that was remembered with the step
    tries,          \* attempts begun
    outcome         \* how the loop ended

loopVars == <<run, history, saved, tries, outcome>>
computerVars == <<desktopVars, loopVars>>

\* Entries without a target: input that has no label to count by, a wait for the owner, the rest.
Notes == {"input", "waited", "noted"}

ASSUME NotesAssumption == Targets \cap Notes = {}

\* A decision to act: on one of the numbered controls, or a press on a point that vision finds.
Presses == (Targets \X {"list"}) \cup ((Targets \ Typed) \X {"locate"})

Off == [pc |-> "out", n |-> 0, looks |-> 0, stale |-> 0, bad |-> 0]

ComputerInit ==
    /\ DesktopInit
    /\ run = Off /\ history = <<>> /\ saved = <<>>
    /\ tries = 0 /\ outcome = "none"

On == run.pc \notin {"out", "over"}

Count(e) == Cardinality({i \in DOMAIN history : history[i] = e})

-----------------------------------------------------------------------------
(* How an attempt begins and ends. *)

\* run begins: what was remembered, and a note that Nova restarted.
Enter ==
    /\ run.pc = "out" /\ tries < MaxTries
    /\ tries' = tries + 1
    /\ run' = [Off EXCEPT !.pc = "look", !.n = 1]
    /\ history' = IF saved = <<>> THEN <<>> ELSE Append(saved, "noted")
    /\ UNCHANGED <<desktopVars, saved, outcome>>

\* The loop is left, with all it knew.
Over(how) ==
    /\ run' = [Off EXCEPT !.pc = "over"]
    /\ outcome' = how
    /\ history' = <<>>

Ends(how) == Over(how) /\ UNCHANGED <<saved, tries>>

\* Presses that are older than the last Keep entries.
Forgotten(t) == Cardinality({i \in DOMAIN history : i <= Len(history) - Keep /\ history[i] = t})
Unrecorded(t) == Cardinality({c \in calls : c.on = t /\ c.heard /\ c.by = "list" /\ c.reply = "ok"})

\* The attempt is cut short: nobody hears the end of its call, and a press that was already
\* answered is not recorded.
Leaves ==
    /\ On
    /\ run' = Off /\ history' = <<>>
    /\ calls' = {[c EXCEPT !.heard = FALSE] : c \in {d \in calls : d.at # "answered"}}
    /\ missed' = [t \in Targets |-> missed[t] + Forgotten(t) + Unrecorded(t)]
    /\ UNCHANGED <<guard, pressed, saved, tries, outcome>>

\* The end of a round: an entry and the next look, or MAX_STEPS were made.
Round(r, entry) ==
    IF r.n < MaxSteps
    THEN /\ run' = [r EXCEPT !.pc = "look", !.n = @ + 1, !.looks = 0]
         /\ history' = Append(history, entry)
         /\ UNCHANGED outcome
    ELSE Over("blocked")

-----------------------------------------------------------------------------
(* _observe *)

\* Mutant of LookRefused: the loop waits for the owner as long as it takes.
LookRefusedPatiently ==
    /\ run.pc = "look"
    /\ \E g \in Asked :
        /\ guard' = g /\ Says(g) # "pass"
        /\ IF Says(g) = "active" THEN UNCHANGED loopVars ELSE Ends("blocked")
    /\ UNCHANGED <<calls, pressed, missed>>

\* The window is not in front, and the guard does not let Nova bring it there.
LookRefused ==
    /\ run.pc = "look"
    /\ \E g \in Asked :
        /\ guard' = g /\ Says(g) # "pass"
        /\ IF Says(g) = "active" /\ run.looks < OwnerWaits
           THEN /\ run' = [run EXCEPT !.looks = @ + 1]
                /\ UNCHANGED <<history, saved, tries, outcome>>
           ELSE Ends("blocked")
    /\ UNCHANGED <<calls, pressed, missed>>

\* The window is seen; the guard is asked only when it has to be brought to the front.
Look ==
    /\ run.pc = "look"
    /\ guard' \in {guard} \cup {g \in Asked : Says(g) = "pass"}
    /\ run' = [run EXCEPT !.pc = "plan"]
    /\ UNCHANGED <<calls, pressed, missed, history, saved, tries, outcome>>

\* closed_after: the window vanished right after Nova pressed something.
ClosedAfter ==
    IF history = <<>> THEN "blocked"
    ELSE LET last == history[Len(history)] IN
         IF last \in Mentions THEN "verified"
         ELSE IF last \in Targets \cup {"input"} THEN "unverified" ELSE "blocked"

WindowGone ==
    /\ run.pc = "look"
    /\ Ends(ClosedAfter)
    /\ UNCHANGED desktopVars

-----------------------------------------------------------------------------
(* The planner's decision. *)

\* _needed and the rule on typed texts.  What vision finds has no label to count by.
MayPress(d) == d[2] = "list" /\ d[1] \in Limited => Count(d[1]) < Allowed[d[1]]

Press(d) ==
    /\ run.pc = "plan" /\ MayPress(d)
    /\ calls' = calls \cup {Call(tries, d[1], d[2])}
    /\ run' = [run EXCEPT !.pc = "act"]
    /\ UNCHANGED <<guard, pressed, missed, history, saved, tries, outcome>>

\* A round without input: the same decision on an unchanged screen for the second time; a press
\* that the rules, the planner's second thoughts (an unnamed control is not needed) or text_problem
\* hold back; a wait.
NoInput ==
    /\ run.pc = "plan"
    /\ Round(run, "noted")
    /\ UNCHANGED <<desktopVars, saved, tries>>

\* ctx.remember
Remembered(h) == IF Len(h) > Keep THEN SubSeq(h, Len(h) - Keep + 1, Len(h)) ELSE h

Entered(entry) == saved' = Remembered(Append(history, entry))

\* A key chord or a batch of field edits; a denied action or an answer that is no action.
Other ==
    /\ run.pc = "plan"
    /\ \E e \in {"input", "noted"} : Round([run EXCEPT !.stale = 0], e) /\ Entered(e)
    /\ UNCHANGED <<desktopVars, tries>>

\* The planner asks the owner or gives up, no provider answers, or the same decision on an
\* unchanged screen comes for the third time.
Stops ==
    /\ run.pc = "plan"
    /\ \E how \in {"asked", "blocked"} : Ends(how)
    /\ UNCHANGED desktopVars

\* What the expectations and the typed texts show, and the independent judge.
Verdict(checked, judge) ==
    IF checked = "no" \/ judge = "no" THEN "no"
    ELSE IF judge = "unsure" THEN "unknown" ELSE checked

SaysDone(checked, judge) ==
    /\ run.pc = "plan"
    /\ IF Verdict(checked, judge) = "no"
       THEN IF run.bad >= 1 THEN Ends("blocked")
            ELSE Round([run EXCEPT !.bad = @ + 1], "noted") /\ UNCHANGED <<saved, tries>>
       ELSE Ends(IF Verdict(checked, judge) = "yes" THEN "verified" ELSE "unverified")
    /\ UNCHANGED desktopVars

-----------------------------------------------------------------------------
(* The answer of the call. *)

Heard(c) == run.pc \in {"act", "again"} /\ c.heard /\ c.at = "answered"

\* desktop_busy: once more.
AskedAgain(c) ==
    /\ Heard(c) /\ c.reply = "busy" /\ run.pc = "act"
    /\ calls' = (calls \ {c}) \cup {Call(c.try, c.on, c.by)}
    /\ run' = [run EXCEPT !.pc = "again"]
    /\ UNCHANGED <<guard, pressed, missed, history, saved, tries, outcome>>

Cancelled(c) ==
    /\ Heard(c) /\ c.reply = "cancelled"
    /\ calls' = calls \ {c}
    /\ Ends("blocked")
    /\ UNCHANGED <<guard, pressed, missed>>

OwnerActive(c) ==
    /\ Heard(c) /\ c.reply = "active"
    /\ calls' = calls \ {c}
    /\ IF Count("waited") >= OwnerWaits THEN Ends("blocked")
       ELSE Round(run, "waited") /\ UNCHANGED <<saved, tries>>
    /\ UNCHANGED <<guard, pressed, missed>>

StaleTarget(c) ==
    /\ Heard(c) /\ c.reply = "stale"
    /\ calls' = calls \ {c}
    /\ IF run.stale >= StaleRetries THEN Ends("blocked")
       ELSE Round([run EXCEPT !.stale = @ + 1], "noted") /\ UNCHANGED <<saved, tries>>
    /\ UNCHANGED <<guard, pressed, missed>>

\* It is over, and not to be asked again.
Final(c) == Heard(c) /\ (c.reply \in {"ok", "failed"} \/ (c.reply = "busy" /\ run.pc = "again"))

Entry(c) == IF c.reply # "ok" THEN "noted" ELSE IF c.by = "list" THEN c.on ELSE "input"

\* Mutant of Recorded: the step is recorded and not remembered.
RecordedOnly(c) ==
    /\ Final(c)
    /\ calls' = calls \ {c}
    /\ Round([run EXCEPT !.stale = 0], Entry(c))
    /\ UNCHANGED <<guard, pressed, missed, saved, tries>>

Recorded(c) ==
    /\ Final(c)
    /\ calls' = calls \ {c}
    /\ Round([run EXCEPT !.stale = 0], Entry(c)) /\ Entered(Entry(c))
    /\ UNCHANGED <<guard, pressed, missed, tries>>

-----------------------------------------------------------------------------
Answered(c) == AskedAgain(c) \/ Cancelled(c) \/ OwnerActive(c) \/ StaleTarget(c) \/ Recorded(c)

LoopStep ==
    \/ Look \/ LookRefused \/ WindowGone
    \/ NoInput \/ Other \/ Stops
    \/ \E d \in Presses : Press(d)
    \/ \E checked \in {"yes", "no", "unknown"}, judge \in {"yes", "no", "unsure"} :
         SaysDone(checked, judge)
    \/ \E c \in calls : Answered(c)

ComputerNext ==
    \/ Enter \/ Leaves \/ LoopStep
    \/ CallStep /\ UNCHANGED loopVars
    \/ OwnerStep /\ UNCHANGED loopVars

ComputerSpec == ComputerInit /\ [][ComputerNext]_computerVars

\* The loop and the worker go on by themselves.
FairComputerSpec ==
    /\ ComputerSpec
    /\ WF_computerVars(LoopStep)
    /\ WF_computerVars(CallStep /\ UNCHANGED loopVars)

(***************************************************************************)
(* Properties.                                                             *)
(***************************************************************************)
ComputerTypeOK ==
    /\ guard \in [halt : BOOLEAN, armed : 0..ArmFor, busy : BOOLEAN]
    /\ calls \subseteq [try : 1..MaxTries, on : Targets, by : {"list", "locate"},
                        at : {"asked", "waits", "answered"},
                        reply : {"none", "ok", "cancelled", "active", "busy", "stale", "failed"},
                        heard : BOOLEAN, early : BOOLEAN]
    /\ pressed \in [Targets -> Nat] /\ missed \in [Targets -> Nat]
    /\ run \in [pc : {"out", "look", "plan", "act", "again", "over"}, n : 0..MaxSteps,
                looks : 0..OwnerWaits, stale : 0..StaleRetries, bad : 0..1]
    /\ history \in Seq(Targets \cup Notes) /\ saved \in Seq(Targets \cup Notes)
    /\ Len(saved) <= Keep
    /\ tries \in 0..MaxTries
    /\ outcome \in {"none", "verified", "unverified", "asked", "blocked"}

\* Over all attempts, with the crashes and timeouts between them, a button is pressed and a text
\* typed as often as the owner's words allow, but for what the history could not count: input
\* nobody waited for any more or found by vision, and entries too old to be remembered.
PressedAsAsked == \A t \in Limited : pressed[t] <= Allowed[t] + missed[t]

\* Whatever the owner, the window and the planner do, an attempt ends.
RunEnds == On ~> ~On
==============================================================================
