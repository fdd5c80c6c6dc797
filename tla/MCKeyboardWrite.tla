--------------------------- MODULE MCKeyboardWrite ---------------------------
(***************************************************************************)
(* KeyboardWrite for TLC: keyboards that tell the cases apart, and the     *)
(* change sets that do.                                                    *)
(***************************************************************************)
EXTENDS KeyboardWrite, TLC

\* A keyboard without a profile, and named ones that hold a key, a macro and
\* settings, the second of them with a volume its own program left invalid.
Holding(name, key, macro, lock, volume) ==
    [s \in Settings |->
        CASE s = Name -> name
          [] s = Locks -> lock
          [] s = Volume -> volume
          [] s = <<"key", 1>> -> key
          [] s = <<"macro", 1>> -> macro
          [] OTHER -> 0]

MCProfiles ==
    {Holding(0, 0, 0, 0, 2), Holding(2, 1, 1, 0, 0)}

\* Every set of at most two changes with the values a caller can ask for.
Askable(s) ==
    CASE s = Name -> {0, 2}
      [] s \in {Locks, Volume} -> {1}
      [] OTHER -> {0, 1}

MCRequests ==
    UNION {{r \in [S -> Values] : \A s \in S : r[s] \in Askable(s)} :
             S \in {T \in SUBSET Settings : Cardinality(T) \in 1..2}}
=============================================================================
