-------------------------- MODULE MCFirmwareSession --------------------------
(***************************************************************************)
(* FirmwareSession for TLC.  Two calls of ConfirmFirmware or of            *)
(* CancelFirmware differ in nothing but their name, and neither do the     *)
(* contents an image file may have: the safety run takes them as symmetric *)
(* (the run that checks liveness does not).                                *)
(***************************************************************************)
EXTENDS FirmwareSession, TLC

Symmetry ==
    Permutations(Confirmers) \cup Permutations(Cancellers) \cup Permutations(Images)

\* The races of several callers, the pace of a subscriber and a file that changes
\* are explored beside each other, not multiplied.  While somebody is subscribed,
\* the file has changed or the device is simulated, there is one confirmer and one
\* canceller.  While somebody is subscribed the device is real and stays, a
\* canceller waits for its answer, and the events of StartFirmware and of
\* CancelFirmware are late together only before the first chunk or at the end.
AtMostOne(calls) == Cardinality({p \in calls : pc[p] # "idle"}) <= 1
Late(calls) == \E p \in calls : pending[p] # NoEvent

SubscriberAlone ==
    /\ subscribed # {} \/ onDisk # planned \/ mock => AtMostOne(Confirmers) /\ AtMostOne(Cancellers)
    /\ subscribed # {} =>
        /\ device.present /\ ~mock /\ onDisk = planned
        /\ \A c \in Cancellers : pc[c] # "gave_up"
        /\ Late(Starters) /\ Late(Cancellers) =>
              state \in Terminal \/ \A t \in Confirmers : task[t].sent = 0
=============================================================================
