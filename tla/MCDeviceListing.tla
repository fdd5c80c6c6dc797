--------------------------- MODULE MCDeviceListing ---------------------------
(* Two controllers under the shared id, swapped on one cable or both there:  *)
(* with a serial number each, with the same one, without any; one a receiver *)
(* for its controller, one in a mode without a configuration interface, one  *)
(* that names a product without a profile; and one beside a device with an   *)
(* id of its own whose interface does not say what it is for.                *)
EXTENDS DeviceListing

CONSTANTS a, b, U2, Pro3, Receiver, Other

MCUnits == {a, b}
MCAliases == [p \in {U2, Receiver, Pro3} |-> IF p = Pro3 THEN Pro3 ELSE U2]

SharedUnit(serial, order, reports, usages) ==
    [pid |-> SharedPid, serial |-> serial, order |-> order, reports |-> reports, usages |-> usages]

Full == {"config", "gamepad"}
OwnUnit == [pid |-> "own", serial |-> 0, order |-> 3, reports |-> Other, usages |-> {"unknown"}]

\* happenings: how often units come and go and the user rescans.
Site(system, happenings, start, first, second) ==
    [system |-> system, happenings |-> happenings, plugged |-> start,
     unit |-> [u \in MCUnits |-> IF u = a THEN first ELSE second]]

MCSites ==
    {Site("linux", 2, {a}, SharedUnit(1, 2, U2, Full), SharedUnit(2, 1, Other, Full)),
     Site("darwin", 3, {a}, SharedUnit(1, 1, Receiver, Full), SharedUnit(1, 2, Pro3, Full)),
     Site("linux", 3, {a, b}, SharedUnit(0, 1, U2, Full), SharedUnit(0, 2, Pro3, Full)),
     Site("darwin", 3, {a}, SharedUnit(0, 1, U2, {"gamepad"}), SharedUnit(2, 2, Pro3, Full)),
     Site("linux", 2, {b}, SharedUnit(1, 1, Receiver, {"config"}), OwnUnit)}
=============================================================================
