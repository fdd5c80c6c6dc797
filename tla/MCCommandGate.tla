--------------------------- MODULE MCCommandGate ---------------------------
(* One device of every way the registry and the gates tell devices apart; the *)
(* mice have the tier core/mouse_test.go and protocol/mouse_test.go promote   *)
(* them to, since the shipped registry grants a mouse nothing.  Backups are   *)
(* followed of one device of each kind.                                       *)
EXTENDS CommandGate

MCFull == {"6007", "310a", "6009", "600b", "6012", "600f", "6011", "5209", "520a"}
MCCandidates == {"6002", "3105", "5200", "5201", "2028", "3026", "5205", "5206", "205d"}
MCDevices == MCFull \cup MCCandidates \cup {"310b"}

MCTierOf == [d \in MCDevices |->
    IF d \in MCFull THEN "full" ELSE IF d \in MCCandidates THEN "candidate" ELSE "detect_only"]

MCFollowed == {"3105", "5209", "2028", "5205"}
=============================================================================
