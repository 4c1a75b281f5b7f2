---------------------------- MODULE TelegramIntake ----------------------------
(***************************************************************************)
(* Long polling (channels/telegram/channel.py) and the handler behind it   *)
(* (core/service.py, handle).  Telegram keeps an update until a getUpdates *)
(* with a higher offset confirms it; the offset lives in memory and goes   *)
(* up before an update is handled; a message that is delivered again is    *)
(* recognised by the row written for it in the database.                   *)
(***************************************************************************)
EXTENDS Integers, Sequences

CONSTANTS
    Messages,       \* the owner sends the updates 1..Messages
    Taps,           \* those of them that are button taps
    MaxCrashes,     \* bound: the process dies or is restarted
    MaxHiccups      \* bound: the database or Telegram fails a call

ASSUME IntakeAssumption == /\ Messages \in Nat /\ Taps \subseteq 1..Messages
                           /\ {MaxCrashes, MaxHiccups} \subseteq Nat

VARIABLES
    sent,           \* the last update the owner has sent
    confirmed,      \* Telegram has forgotten the updates below this
    poll,           \* the channel: running, the next offset, the rest of a batch, the stage
    recorded,       \* the messages that have their row
    times,          \* how often the router or the callback handler got each update
    cut,            \* ghost: updates whose handling a crash cut short
    unsure,         \* ghost: updates the database could not look up or record
    faults          \* the bounded events so far

intakeVars == <<sent, confirmed, poll, recorded, times, cut, unsure, faults>>

Ids == 1..Messages
Idle == "idle"

IntakeInit ==
    /\ sent = 0 /\ confirmed = 1
    /\ poll = [up |-> TRUE, offset |-> 0, batch |-> <<>>, at |-> Idle, id |-> 0]
    /\ recorded = {} /\ times = [m \in Ids |-> 0]
    /\ cut = {} /\ unsure = {}
    /\ faults = [crashes |-> 0, hiccups |-> 0]

OwnerSends ==
    /\ sent < Messages
    /\ sent' = sent + 1
    /\ UNCHANGED <<confirmed, poll, recorded, times, cut, unsure, faults>>

Hiccup == /\ faults.hiccups < MaxHiccups
          /\ faults' = [faults EXCEPT !.hiccups = @ + 1]

(***************************************************************************)
(* poll_once: a getUpdates confirms everything below its offset, and what  *)
(* it returns is handled one after the other.                              *)
(***************************************************************************)
Resting == poll.up /\ poll.at = Idle /\ poll.batch = <<>>

Confirms(offset) == confirmed' = IF offset > confirmed THEN offset ELSE confirmed

Fetch ==
    /\ Resting
    /\ Confirms(poll.offset)
    /\ \/ /\ poll' = [poll EXCEPT !.batch = [i \in 1..(sent - confirmed' + 1) |-> confirmed' + i - 1]]
          /\ UNCHANGED faults
       \/ Hiccup /\ UNCHANGED poll                               \* the answer is lost
    /\ UNCHANGED <<sent, recorded, times, cut, unsure>>

\* Mutant of Takes: the offset goes past the whole batch.
TakesWholeBatch(m, at) ==
    poll' = [poll EXCEPT !.offset = poll.batch[Len(poll.batch)] + 1, !.batch = Tail(@), !.at = at,
                         !.id = IF at = Idle THEN 0 ELSE m]

\* The offset goes up first.
Takes(m, at) ==
    poll' = [poll EXCEPT !.offset = m + 1, !.batch = Tail(@), !.at = at,
                         !.id = IF at = Idle THEN 0 ELSE m]

\* A message: unless it has been seen, its row is written and it goes to the router.
TakeMessage ==
    /\ poll.up /\ poll.at = Idle /\ poll.batch # <<>>
    /\ Head(poll.batch) \notin Taps
    /\ LET m == Head(poll.batch) IN
       \/ /\ m \in recorded                                      \* delivered again: ignored
          /\ Takes(m, Idle)
          /\ UNCHANGED <<recorded, unsure, faults>>
       \/ /\ m \notin recorded
          /\ Takes(m, "routing")
          /\ recorded' = recorded \cup {m}
          /\ UNCHANGED <<unsure, faults>>
       \/ /\ Hiccup                                              \* not looked up, or not recorded
          /\ Takes(m, "routing")
          /\ recorded' \in {recorded, recorded \cup {m}}
          /\ unsure' = unsure \cup {m}
    /\ UNCHANGED <<sent, confirmed, times, cut>>

\* A tap is not looked up.
TakeTap ==
    /\ poll.up /\ poll.at = Idle /\ poll.batch # <<>>
    /\ Head(poll.batch) \in Taps
    /\ Takes(Head(poll.batch), "routing")
    /\ UNCHANGED <<sent, confirmed, recorded, times, cut, unsure, faults>>

\* The router or the callback handler has got it; an error of theirs is answered as one.
Handled ==
    /\ poll.up /\ poll.at = "routing"
    /\ times' = [times EXCEPT ![poll.id] = @ + 1]
    /\ poll' = [poll EXCEPT !.at = "replying"]
    /\ UNCHANGED <<sent, confirmed, recorded, cut, unsure, faults>>

\* The answer is sent; an error that leaves `send` ends the round, and the rest of the batch
\* is fetched again.
Replied ==
    /\ poll.up /\ poll.at = "replying"
    /\ \/ poll' = [poll EXCEPT !.at = Idle, !.id = 0] /\ UNCHANGED faults
       \/ poll' = [poll EXCEPT !.at = Idle, !.id = 0, !.batch = <<>>] /\ Hiccup
    /\ UNCHANGED <<sent, confirmed, recorded, times, cut, unsure>>

(***************************************************************************)
(* The process stops: at the end of a round, with a last getUpdates that   *)
(* confirms what it handled, or at any moment.                             *)
(***************************************************************************)
Down == poll' = [up |-> FALSE, offset |-> 0, batch |-> <<>>, at |-> Idle, id |-> 0]

Dies == /\ faults.crashes < MaxCrashes
        /\ faults' = [faults EXCEPT !.crashes = @ + 1]
        /\ Down

StopPolling ==
    /\ Resting
    /\ Dies
    /\ Confirms(poll.offset) \/ UNCHANGED confirmed
    /\ UNCHANGED <<sent, recorded, times, cut, unsure>>

CrashPolling ==
    /\ poll.up
    /\ Dies
    /\ cut' = IF poll.at = "routing" THEN cut \cup {poll.id} ELSE cut
    /\ UNCHANGED <<sent, confirmed, recorded, times, unsure>>

StartPolling ==
    /\ ~poll.up
    /\ poll' = [poll EXCEPT !.up = TRUE]
    /\ UNCHANGED <<sent, confirmed, recorded, times, cut, unsure, faults>>

IntakeStep == Fetch \/ TakeMessage \/ TakeTap \/ Handled \/ Replied \/ StartPolling
IntakeNext == OwnerSends \/ IntakeStep

(***************************************************************************)
(* Properties.                                                             *)
(***************************************************************************)
IntakeTypeOK ==
    /\ sent \in 0..Messages /\ confirmed \in 1..(Messages + 1)
    /\ poll \in [up : BOOLEAN, offset : 0..(Messages + 1), batch : Seq(Ids),
                 at : {Idle, "routing", "replying"}, id : 0..Messages]
    /\ poll.id = 0 <=> poll.at = Idle
    /\ recorded \subseteq Ids /\ cut \subseteq Ids /\ unsure \subseteq Ids
    /\ times \in [Ids -> Nat]
    /\ faults \in [crashes : 0..MaxCrashes, hiccups : 0..MaxHiccups]

\* Between the owner and the router no message is doubled and none is dropped: it gets there
\* at most once, whatever is delivered again, unless the database could not look it up or
\* record it; and Telegram forgets an update only after it got there, or when a crash cut its
\* handling short.
InHand(m) == poll.id = m /\ poll.at = "routing"
NoneDoubled == \A m \in Ids \ Taps : times[m] <= 1 \/ m \in unsure
NoneDropped == \A m \in Ids : m < confirmed => times[m] >= 1 \/ m \in cut
NoneOvertaken ==       \* nor does a later one get there first
    \A m, n \in Ids : m < n /\ times[n] >= 1 => times[m] >= 1 \/ m \in cut
MessagesArriveOnce == NoneDoubled /\ NoneDropped /\ NoneOvertaken
=============================================================================
