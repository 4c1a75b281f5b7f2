--------------------------- MODULE TelegramChannel ---------------------------
(***************************************************************************)
(* One process: the messages that come in (TelegramIntake) and the live    *)
(* message of the task the first of them started (LiveMessage).  It dies   *)
(* and starts as a whole.                                                  *)
(***************************************************************************)
EXTENDS TelegramIntake, LiveMessage

channelVars == <<intakeVars, liveVars>>

ChannelInit == IntakeInit /\ LiveInit

TaskShows == poll.up /\ times[1] > 0 /\ Show

ChannelNext ==
    \/ IntakeNext /\ UNCHANGED liveVars
    \/ TaskShows /\ UNCHANGED intakeVars
    \/ LiveStep /\ UNCHANGED intakeVars
    \/ (StopPolling \/ CrashPolling) /\ LiveLost

ChannelSpec == ChannelInit /\ [][ChannelNext]_channelVars

\* The polling loop, the timers and the calls go on by themselves.
FairChannelSpec ==
    /\ ChannelSpec
    /\ WF_channelVars(IntakeStep /\ UNCHANGED liveVars)
    /\ WF_channelVars(LiveStep /\ UNCHANGED intakeVars)

(***************************************************************************)
(* Properties.                                                             *)
(***************************************************************************)
ChannelTypeOK == IntakeTypeOK /\ LiveTypeOK

\* Every update the owner sends gets to the router or the callback handler in the end, unless
\* a crash cut its handling short.
EveryMessageArrives ==
    \A m \in Ids : sent >= m ~> times[m] >= 1 \/ m \in cut
=============================================================================
