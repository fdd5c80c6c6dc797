----------------------- MODULE MCRecordKeyboardWrite -----------------------
(***************************************************************************)
(* RecordKeyboardWrite for TLC.                                            *)
(***************************************************************************)
EXTENDS RecordKeyboardWrite

Holding(flag, setting, lights, key1, key2, macro1) ==
    [x \in Parts |->
        CASE x = Flag -> flag
          [] x = Setting -> setting
          [] x = Lights -> lights
          [] x = <<"key", 1>> -> key1
          [] x = <<"key", 2>> -> key2
          [] x = <<"macro", 1>> -> macro1
          [] OTHER -> 0]

\* No profile; one key that plays a macro.
MCProfiles == {Holding(0, 1, 1, 1, 0, 0), Holding(1, 1, 1, 1, 0, 1)}

\* The same, a profile that nothing was mapped in, and one that the keyboard's own
\* program left with a key that plays an empty slot.
MCOddProfiles == MCProfiles \cup {Holding(1, 1, 1, 1, 0, 0)}

Askable(x) ==
    CASE x = Setting -> {2}
      [] x = Lights -> {2}
      [] x[1] = "key" -> {0} \cup Slots
      [] OTHER -> {1, 2}

\* Every edit of one part or two.
MCRequests ==
    UNION {{r \in [S -> Values] : \A x \in S : r[x] \in Askable(x)} :
             S \in {T \in SUBSET (Parts \ {Flag}) : Cardinality(T) \in 1..2}}
=============================================================================
