----------------------------- MODULE MCPadWrite -----------------------------
(***************************************************************************)
(* PadWrite for TLC: two slots, the first with two macros, on two           *)
(* platforms that nothing tells apart.                                     *)
(***************************************************************************)
EXTENDS PadWrite, TLC

PlatformSymmetry == Permutations(Platforms)

MCSlotOf == (1 :> 1) @@ (2 :> 1) @@ (3 :> 2)

\* One macro, with steps left over where there is none.
MCProfiles ==
    {[x \in Parts |->
        CASE x = <<"header", 1>> -> 1
          [] x = <<"steps", 1>> -> 1
          [] x = <<"steps", 2>> -> Garbage
          [] x = <<"steps", 3>> -> 2
          [] OTHER -> 0]}

\* A macro is put in its place, or taken away.
Macro(m, label, steps) == <<"header", m>> :> label @@ <<"steps", m>> :> steps

Replace == Macro(1, 1, 2)
Rename == Macro(1, 2, 1)
Remove == Macro(1, 0, 0)
Add(m) == Macro(m, 1, 1)
Set(slot) == <<"slot", slot>> :> 1
Glow == Light :> 1

\* Every kind of edit, with those it meets in a pass.
MCRequests ==
    {Replace, Remove, Add(2), Replace @@ Add(2), Replace @@ Set(2), Remove @@ Glow,
     Add(2) @@ Add(3), Rename @@ Set(1)}
=============================================================================
