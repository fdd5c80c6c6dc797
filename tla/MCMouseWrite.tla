---------------------------- MODULE MCMouseWrite ----------------------------
(***************************************************************************)
(* MouseWrite for TLC: two stages and two buttons that can play a macro.   *)
(***************************************************************************)
EXTENDS MouseWrite, TLC

\* Table 2 has the second stage switched off.
MCEnabledIn == [v \in Values |-> IF v = 2 THEN {0} ELSE {0, 1}]

\* Table 1 gives the first stage another DPI.
MCDpiIn == [v \in Values |-> [s \in Stages |-> IF v = 1 /\ s = 0 THEN 9 ELSE 8]]

Holding(changes) == [x \in Parts |-> IF x \in DOMAIN changes THEN changes[x] ELSE 0]

MCDefaults == Holding(<<>>)

\* One without a profile, one in use at a stage there is none of and playing a
\* macro without records, and one whose first button plays a macro.
MCProfiles ==
    {Holding(Stage :> 1),
     Holding(Flag :> 1 @@ Name :> 1),
     Holding(Name :> 1 @@ Stage :> 2 @@ Assigned(1) :> Plays),
     Holding(Name :> 1 @@ Stage :> 1 @@ Assigned(1) :> Plays @@ Macro(1) :> 1 @@ Macro(2) :> 3)}

Play(b, macro) == Assigned(b) :> Plays @@ Macro(b) :> macro

MCRequests ==
    {Name :> 2 @@ Setting :> 1, Name :> 2 @@ Play(2, 2),
     X :> 1, X :> 2 @@ Stage :> 0, Stage :> 1, Y :> 1 @@ Assigned(2) :> 1,
     Macro(1) :> 2, Assigned(1) :> 1 @@ Macro(1) :> 0, Assigned(1) :> 1 @@ Play(2, 2)}
=============================================================================
