---------------------------- MODULE MCAgentWatch ----------------------------
(* Instances of AgentWatch for TLC.  A behaviour draws its focus at the    *)
(* start: backup requests and the watcher; messages posted by two commands *)
(* at once; or payouts and the treasury that is asked about them.          *)
EXTENDS AgentWatch, TLC

CONSTANTS MaxEpoch, Foci

VARIABLE focus

Epochs == 0..MaxEpoch

BackupNext ==
    \/ RemoveMember(Me)
    \/ \E e \in Epoch : RotateEpoch(e)
    \/ RequestBackup \/ ImportKey
    \/ \E p \in Watcher : \/ StartWatch(p, DefaultStart) \/ StartWatch(p, 0)
                          \/ Watch(p) \/ StopWatch(p)

MessageNext ==
    \/ \E a \in {Me, Peer} : Join(a) \/ RemoveMember(a)
    \/ \E e \in Epoch : RotateEpoch(e)
    \/ ImportKey
    \/ \E p \in Process : Post(p) \/ StopPost(p)

PayoutNext ==
    \/ \E t \in Treasury \cup {None} : SetTreasury(t)
    \/ ApproveFundRequest \/ PushBackup
    \/ \E p \in Watcher : StartWatch(p, DefaultStart) \/ Watch(p) \/ StopWatch(p)

FocusInit == Init /\ focus \in Foci

FocusNext ==
    /\ UNCHANGED focus
    /\ \/ focus = "backup" /\ BackupNext
       \/ focus = "message" /\ MessageNext
       \/ focus = "payout" /\ PayoutNext

(* Two changes of the swarm while messages are posted.                     *)
Focused == focus = "message" => Height - lastSeq <= 2

FocusSpec == FocusInit /\ [][FocusNext]_<<vars, focus>>
FocusFairSpec == FocusSpec /\ \A p \in Watcher : WF_<<vars, focus>>(UNCHANGED focus /\ Watch(p))

(* The type invariant, in every state that is reached.                     *)
Typed == Assert(TypeOK, "TypeOK")
=============================================================================
