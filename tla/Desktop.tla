------------------------------ MODULE Desktop ------------------------------
(***************************************************************************)
(* A desktop starts a sidecar (Launch), follows its events (EventFeed) and *)
(* reads threads (ThreadView).  The sidecar of the feed is one that        *)
(* serves; what it goes through before, and what it shows of a thread, is  *)
(* looked at apart.                                                        *)
(***************************************************************************)
EXTENDS EventFeed, Launch, ThreadView

VARIABLE area       \* what is looked at: "feed", "launch" or "thread"

desktop == <<vars, launch, threadView, area>>

DesktopInit ==
    /\ Init /\ LaunchInit /\ ViewInit
    /\ area \in {"feed", "launch", "thread"}
    /\ area # "launch" => hosts = <<>> /\ dev = {}

Follow == area = "feed" /\ Next /\ UNCHANGED <<launch, threadView, area>>
StartUp == area = "launch" /\ LaunchNext /\ UNCHANGED <<vars, threadView, area>>
ReadThread == area = "thread" /\ ViewNext /\ UNCHANGED <<vars, launch, area>>

DesktopNext == Follow \/ StartUp \/ ReadThread

\* The fairness of the feed (FairSpec).
DesktopSpec ==
    /\ DesktopInit /\ [][DesktopNext]_desktop
    /\ WF_vars(area = "feed" /\ \E p \in Projects \cup {None} : Show(p))
    /\ WF_vars(area = "feed" /\ Connect) /\ WF_vars(area = "feed" /\ OpenStream)
    /\ WF_vars(area = "feed" /\ Serve) /\ WF_vars(area = "feed" /\ Receive)
    /\ WF_vars(area = "feed" /\ AskPoll) /\ WF_vars(area = "feed" /\ ServePoll)
    /\ WF_vars(area = "feed" /\ ReceivePoll)

-----------------------------------------------------------------------------
\* What the desktop shows of events and of threads is true.
ShownIsTrue == ListIsWhole /\ TurnIsTrue /\ FailuresAreShown
=============================================================================
