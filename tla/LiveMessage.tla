----------------------------- MODULE LiveMessage -----------------------------
(***************************************************************************)
(* A task's live message: Notifier._live_update and _flush_live            *)
(* (core/notify/notifier.py) decide when a text goes out, _send_live       *)
(* (channels/telegram/channel.py) edits the one message or sends a new     *)
(* one.  The task waits for the text it sends itself; folded texts are     *)
(* sent by a job of their own, and the two may be under way together.      *)
(* Texts are numbered in the order the task shows them.                    *)
(***************************************************************************)
EXTENDS Integers, FiniteSets

CONSTANTS
    Texts,          \* bound: the texts the task shows, 1..Texts
    MaxRefused      \* bound: calls that Telegram refuses

ASSUME LiveAssumption == Texts \in Nat /\ MaxRefused \in Nat

VARIABLES
    newest,         \* the last text the task has shown
    window,         \* edits are folded now: less than LIVE_EDIT_SECONDS since the last one
    folded,         \* _live_pending: the text waiting for the window, or 0
    job,            \* _flush_live: "none", "sleeping", or "due"
    flights,        \* the calls under way: [by, text, to], to the message it edits or to none
    known,          \* the channel has the id of the live message
    chat,           \* what the chat holds: the text of the live message, how many there are
    refused,        \* calls refused so far
    late            \* ghost: the texts that the newest one may lose to

liveVars == <<newest, window, folded, job, flights, known, chat, refused, late>>

LiveInit ==
    /\ newest = 0 /\ window = FALSE /\ folded = 0 /\ job = "none"
    /\ flights = {} /\ known = FALSE
    /\ chat = [text |-> 0, messages |-> 0]
    /\ refused = 0 /\ late = {}

TaskWaits == \E f \in flights : f.by = "task"

\* The texts under way.
InFlight == {f.text : f \in flights}

\* A text goes out: an edit of the message it knows, else a new message.
GoesOut(by, text) ==
    /\ window' = TRUE
    /\ flights' = flights \cup {[by |-> by, text |-> text, to |-> IF known THEN chat.messages ELSE 0]}

\* The newest text goes out: what is under way, or folded and sent later, may replace it.
Overtakes == late' = InFlight \cup ({folded} \ {0, newest'})

\* Mutant of Show: while one is folded, the next is dropped.
ShowKeepsFirst ==
    /\ newest < Texts /\ ~TaskWaits
    /\ newest' = newest + 1
    /\ IF window
       THEN /\ folded' = IF folded = 0 THEN newest' ELSE folded
            /\ job' = IF folded = 0 THEN "sleeping" ELSE job
            /\ UNCHANGED <<window, flights, late>>
       ELSE /\ GoesOut("task", newest') /\ Overtakes
            /\ UNCHANGED <<folded, job>>
    /\ UNCHANGED <<known, chat, refused>>

\* _live_update
Show ==
    /\ newest < Texts /\ ~TaskWaits
    /\ newest' = newest + 1
    /\ IF window
       THEN /\ folded' = newest'
            /\ job' = IF folded = 0 THEN "sleeping" ELSE job
            /\ UNCHANGED <<window, flights, late>>
       ELSE /\ GoesOut("task", newest') /\ Overtakes
            /\ UNCHANGED <<folded, job>>
    /\ UNCHANGED <<known, chat, refused>>

\* LIVE_EDIT_SECONDS have passed: for the window and for the job that sleeps until then.
WindowOpens ==
    /\ window
    /\ window' = FALSE
    /\ job' = IF job = "sleeping" THEN "due" ELSE job
    /\ UNCHANGED <<newest, folded, flights, known, chat, refused, late>>

\* _flush_live: the text it sends is an old one if the task has sent one directly meanwhile.
Flush ==
    /\ job = "due"
    /\ job' = "none" /\ folded' = 0
    /\ UNCHANGED <<newest, known, chat, refused>>
    /\ GoesOut("job", folded)
    /\ IF folded = newest THEN Overtakes ELSE UNCHANGED late

Arrived(f) == flights' = flights \ {f}

\* A new message: its id is the one that is edited from now on.
Sent(f) ==
    /\ f.to = 0
    /\ chat' = [text |-> f.text, messages |-> chat.messages + 1]
    /\ known' = TRUE
    /\ Arrived(f)
    /\ UNCHANGED <<newest, window, folded, job, refused, late>>

Edited(f) ==
    /\ f.to # 0
    /\ chat' = IF f.to = chat.messages THEN [chat EXCEPT !.text = f.text] ELSE chat
    /\ Arrived(f)
    /\ UNCHANGED <<newest, window, folded, job, known, refused, late>>

\* Telegram refuses: an edit is sent anew, a new message is given up.
Refused(f) ==
    /\ refused < MaxRefused
    /\ refused' = refused + 1
    /\ flights' = (flights \ {f}) \cup IF f.to # 0 THEN {[f EXCEPT !.to = 0]} ELSE {}
    /\ late' = IF f.to = 0 /\ f.text = newest THEN late \cup {chat.text} ELSE late
    /\ UNCHANGED <<newest, window, folded, job, known, chat>>

LiveStep == WindowOpens \/ Flush \/ \E f \in flights : Sent(f) \/ Edited(f) \/ Refused(f)
LiveNext == Show \/ LiveStep

\* The process dies: what is folded is gone, a call under way may still arrive.
LiveLost ==
    /\ window' = FALSE /\ folded' = 0 /\ job' = "none" /\ known' = FALSE
    /\ flights' \in SUBSET {[f EXCEPT !.by = "job"] : f \in flights}
    /\ late' = InFlight \cup {chat.text}
    /\ UNCHANGED <<newest, chat, refused>>

(***************************************************************************)
(* Properties.                                                             *)
(***************************************************************************)
LiveTypeOK ==
    /\ newest \in 0..Texts /\ folded \in 0..newest
    /\ window \in BOOLEAN /\ known \in BOOLEAN
    /\ job \in {"none", "sleeping", "due"}
    /\ (folded = 0 <=> job = "none") /\ (job = "sleeping" => window)
    /\ flights \subseteq [by : {"task", "job"}, text : 1..newest, to : 0..chat.messages]
    /\ chat \in [text : 0..newest, messages : Nat]
    /\ refused \in 0..MaxRefused
    /\ late \subseteq 0..newest

\* When nothing is folded or under way any more, the chat shows the newest text, or one that was
\* folded or under way at the moment when the newest went out: the job sends what it had folded
\* after it, or Telegram applies the other call last.  (A newest text that is refused or dies with
\* the process leaves what was there.)  An old text never comes back by another way, and the next
\* text that goes out alone puts the chat right.
Settled == flights = {} /\ folded = 0
NewestUnlessLate == Settled => chat.text = newest \/ chat.text \in late
=============================================================================
