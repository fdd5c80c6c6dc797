----------------------------- MODULE MCNavInput -----------------------------
(* Two pads: of two products, of one product with two serial numbers, and of *)
(* one product without serial numbers.                                       *)
EXTENDS NavInput

CONSTANTS p1, p2

MCPads == {p1, p2}
Key(pid, serial) == [pid |-> pid, serial |-> serial]
Labels(first, second) == [p \in MCPads |-> IF p = p1 THEN first ELSE second]

MCMachines ==
    LET Machine(byMatch, first, second) ==
            [byMatch |-> byMatch, label |-> Labels(first, second)]
    IN  {Machine(FALSE, Key("6012", "s1"), Key("6007", "s2")),
         Machine(FALSE, Key("6012", "s1"), Key("6012", "s2")),
         Machine(TRUE, Key("6012", "s1"), Key("6012", "s2")),
         Machine(FALSE, Key("6012", ""), Key("6012", ""))}
=============================================================================
