------------------------------- MODULE MCShell -------------------------------
EXTENDS Shell

CONSTANTS K, P, Q, C, S

MCDevices == {K, P, Q, C, S}
MCArranged == [found \in SUBSET MCDevices |->
                 SelectSeq(<<K, P, Q, C, S>>, LAMBDA d : d \in found)]
MCKind == [d \in MCDevices |->
             CASE d = K -> "keyboard" [] d \in {P, Q} -> "pad"
               [] d = C -> "candidate" [] d = S -> "silent"]

Visit(devices, can, commands) ==
    [devices |-> devices, can |-> can, commands |-> commands, advanced |-> TRUE, probed |-> TRUE]

Unprobed(devices, can, commands) == [Visit(devices, can, commands) EXCEPT !.probed = FALSE]

\* Two commands of the user's at once where answers can be taken for one
\* another; one where what matters is what is shown meanwhile.
MCVisits ==
    { Visit({K, P}, {"map"}, 2),
      Visit({P, C}, {"map", "probe"}, 2),
      Visit({P, Q}, {"firmware"}, 2),
      Visit({K, C}, {"map", "erase", "probe"}, 1),
      Visit({K}, {"map", "settings"}, 1),
      Visit({P, Q}, {"map", "replug"}, 1),
      Visit({P, C}, {"map", "probe", "firmware"}, 1),
      Visit({P}, {"diagnose", "settings", "replug"}, 1),
      Visit({P, Q}, {"diagnose"}, 2),
      Unprobed({P}, {"diagnose", "rescan", "replug"}, 2),
      Unprobed({P, S}, {"diagnose", "rescan", "watch"}, 2) }
=============================================================================
