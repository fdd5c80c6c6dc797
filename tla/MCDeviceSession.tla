--------------------------- MODULE MCDeviceSession ---------------------------
EXTENDS DeviceSession

CONSTANTS get, getAlt, set, idle, quiet, v0, v1

\* GetMode and GetModeAlt, say, are answered with the same first bytes; every write
\* of a keyboard with the same acknowledgement; U2SetReportState not at all.  Idle
\* takes any of these for its reply, and a report nobody asked for.
MCAnswers == [c \in {get, getAlt, set, idle} |-> CASE c = set -> 2 [] c = idle -> 3 [] OTHER -> 1]
MCAccepts == [c \in {get, getAlt, set, idle} |-> IF c = idle THEN 1..4 ELSE {MCAnswers[c]}]

\* Two bytes are enough for Idle.
MCSuffices ==
    [c \in {get, getAlt, set, idle} |-> IF c = idle THEN {"whole", "first", "rest"} ELSE {"whole"}]

\* Few calls among stray reports and replies in two parts, on either handle; more calls,
\* of one read and one write, on a handle that can time out; and a command that takes any
\* report, among stray reports and without.
MCSessions ==
    {[commands |-> {getAlt, quiet, set}, timed |-> t, strays |-> TRUE, calls |-> 3] : t \in BOOLEAN}
      \cup {[commands |-> {get, set}, timed |-> TRUE, strays |-> FALSE, calls |-> 5]}
      \cup {[commands |-> {idle, set}, timed |-> TRUE, strays |-> s, calls |-> 3] : s \in BOOLEAN}
      \cup {[commands |-> {idle, getAlt}, timed |-> TRUE, strays |-> FALSE, calls |-> 2]}
=============================================================================
