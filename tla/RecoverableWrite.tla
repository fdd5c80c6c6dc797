--------------------------- MODULE RecoverableWrite ---------------------------
(***************************************************************************)
(* What a profile write promises to whoever asked for it, without the      *)
(* commands it takes: the profile is kept as a backup, and then the write  *)
(* happens entirely or not at all, or the caller is told that the device   *)
(* is in neither state.  KeyboardWrite, RecordKeyboardWrite and MouseWrite *)
(* implement this specification.                                           *)
(***************************************************************************)
CONSTANTS
    Settings,   \* the settings the promise is about
    Values      \* what a setting may hold

VARIABLES
    profile,    \* what the device holds once no call is under way
    backups,    \* the profiles kept as backups
    request,    \* the changes the last call was asked for, or all it was to establish
    told        \* how it ended

vars == <<profile, backups, request, told>>

Profiles == [Settings -> Values]
Changes == UNION {[S -> Values] : S \in SUBSET Settings}

\* A profile with some of its settings changed.
Overlay(p, changes) ==
    [s \in Settings |-> IF s \in DOMAIN changes THEN changes[s] ELSE p[s]]

Init ==
    /\ profile \in Profiles
    /\ backups = {}
    /\ request \in Changes
    /\ told = "nothing"

Asked == \E S \in SUBSET Settings : request' \in [S -> Values]
Keep == backups' = backups \cup {profile}

\* A call begins.
Ask ==
    /\ told' = "nothing"
    /\ Asked
    /\ Keep \/ UNCHANGED backups
    /\ UNCHANGED profile

\* A call ends before it wrote anything.
Refuse ==
    /\ told' = "refused"
    /\ Asked
    /\ Keep \/ UNCHANGED backups
    /\ UNCHANGED profile

\* A call begins and ends: the profile is already what is asked for.
Agree ==
    /\ told' = "applied"
    /\ Asked
    /\ Overlay(profile, request') = profile
    /\ Keep
    /\ UNCHANGED profile

\* Every change was made and no other.
Apply ==
    /\ profile \in backups
    /\ told' = "applied"
    /\ profile' = Overlay(profile, request)
    /\ UNCHANGED <<backups, request>>

\* Nothing is different from before the call.
RollBack ==
    /\ profile \in backups
    /\ told' = "rolled_back"
    /\ UNCHANGED <<profile, backups, request>>

\* The device holds a profile that was kept, or the call found that it does.
Restore ==
    /\ told' = "restored"
    /\ profile' \in backups
    /\ Asked \/ UNCHANGED request
    /\ UNCHANGED backups

\* The caller knows that the device may hold anything, and has a backup.
Warn ==
    /\ told' \in {"rollback_failed", "restore_failed", "cleared", "clear_failed"}
    /\ profile \in backups \/ told' = "restore_failed"
    /\ profile' \in Profiles
    /\ UNCHANGED <<backups, request>>

Next == Ask \/ Refuse \/ Agree \/ Apply \/ RollBack \/ Restore \/ Warn

Spec == Init /\ [][Next]_vars
=============================================================================
