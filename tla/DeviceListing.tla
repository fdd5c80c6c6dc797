---------------------------- MODULE DeviceListing ----------------------------
(***************************************************************************)
(* What the program believes is connected, and what is: the listing of     *)
(* core.go, with the interfaces it merges into rows and the product it     *)
(* asks a controller under the shared id for; the two caches that keep     *)
(* answers for the session, by serial number (core.go) and by product id   *)
(* and serial number (diag_cache.go); and the calls of the interface that  *)
(* fill them concurrently while controllers are plugged in and pulled out. *)
(* The poller of NavInput appears as one step, Poll.                       *)
(*                                                                         *)
(* A unit is a physical device.  Serial numbers and paths are numbers, 0   *)
(* the empty serial number; an interface is known by its usage.  A reload  *)
(* that fails (only when the program is quitting) is left out.             *)
(***************************************************************************)
EXTENDS Integers, SequencesExt

CONSTANTS
    Units,
    Sites,        \* [system, unit, plugged, happenings]: what is at hand, what is
                  \* plugged in at the start, and the bound on what happens then
    NoProduct,
    SharedPid,    \* SharedControllerPID, 0x310b
    Aliases,      \* sharedProductAliases: a product or its receiver -> the product
    MaxLoads      \* bound: reloads of the list at once

Usages == {"config", "gamepad", "unknown"}

\* A unit has an interface, and no path is that of two units.
Admissible ==
    /\ IsFiniteSet(Units)
    /\ \A s \in Sites :
        /\ s.system \in {"linux", "darwin"} /\ DOMAIN s.unit = Units
        /\ s.plugged \subseteq Units /\ s.happenings \in Nat
    /\ \A s \in Sites : \A u \in Units :
        /\ s.unit[u].serial \in Nat /\ s.unit[u].order \in Nat
        /\ s.unit[u].usages \subseteq Usages /\ s.unit[u].usages # {}
        /\ \A v \in Units \ {u} : s.unit[v].order # s.unit[u].order
    /\ NoProduct \notin DOMAIN Aliases
    /\ MaxLoads \in Nat \ {0}

ASSUME ListingAssumption == Admissible

VARIABLES
    site,      \* the units and the system the program runs on
    plugged,
    known,     \* the poller's last enumeration: pairs of product id and serial
    missed,    \* something was plugged in or pulled out since
    hotplug,   \* the poller's event is on its way
    products,  \* sharedProducts: serial -> what was answered, for the serials asked
    diags,     \* diagCache: <<pid, serial>> -> "answers" or "failed"
    loads,     \* the reloads under way, in the order they were started
    probes,    \* the diagnoses under way; two of one row at one point are one
    listed,    \* the rows the interface shows
    lapses,    \* history: see Quiet
    clock      \* how often units moved and the user rescanned

listingVars == <<site, plugged, known, missed, hotplug, products, diags, loads, probes, listed, lapses, clock>>
environment == <<site, plugged, known, missed>>

Unit(u) == site.unit[u]

-----------------------------------------------------------------------------
(***************************************************************************)
(* Enumeration: every interface of every connected unit.                   *)
(***************************************************************************)
Rank(usage) == CASE usage = "config" -> 1 [] usage = "gamepad" -> 2 [] usage = "unknown" -> 3

Interface(u, usage) ==
    [unit |-> u, pid |-> Unit(u).pid, serial |-> Unit(u).serial, usage |-> usage,
     path |-> 4 * Unit(u).order + Rank(usage)]

Interfaces == UNION {{Interface(u, usage) : usage \in Unit(u).usages} : u \in plugged}

Of(pid) == {i \in Interfaces : i.pid = pid}
Config(infos) == {i \in infos : i.usage = "config"}

\* preferEnumeratedDevice.
Prefers(i, j) ==
    IF (i.usage = "config") # (j.usage = "config") THEN i.usage = "config"
    ELSE IF i.serial # j.serial THEN i.serial < j.serial
    ELSE i.path < j.path

Preferred(infos) == CHOOSE i \in infos : \A j \in infos \ {i} : Prefers(i, j)

\* deduplicateEnumeratedDevices: one interface stands for what has one serial
\* number; an interface without one stands for itself.
Deduplicated(infos) ==
    {i \in infos : i.serial = 0}
    \union {Preferred({i \in infos : i.serial = serial}) : serial \in {i.serial : i \in infos} \ {0}}

\* configChannelStates.
Channel(infos) ==
    CASE Config(infos) # {} -> "present"
      [] Config(infos) = {} /\ \E i \in infos : i.usage = "unknown" -> "unknown"
      [] OTHER -> "absent"

\* addressableEnumeratedDevices: one row for a product id, which has a serial
\* number when one physical device answers to it.
ListedRow(pid) ==
    LET physical == Deduplicated(Of(pid))
    IN [pid |-> pid,
        serial |-> IF Cardinality(physical) > 1 THEN 0 ELSE Preferred(physical).serial,
        channel |-> Channel(Of(pid)),
        product |-> NoProduct]

Rows == {ListedRow(pid) : pid \in {i.pid : i \in Interfaces}}

\* selectVendorConfigInterface: the interface that is opened, if any is.
Selectable(pid) ==
    LET found == Config(Of(pid))
        serials == {i.serial : i \in found}
    IN CASE found = {} -> IF /\ site.system = "linux" /\ Cardinality(Of(pid)) = 1
                             /\ \A i \in Of(pid) : i.usage = "unknown"
                          THEN Of(pid) ELSE {}
         [] Cardinality(found) > 1 /\ site.system = "darwin" ->
              IF Cardinality(serials) = 1 /\ 0 \notin serials THEN found ELSE {}
         [] OTHER -> found

Opened(pid) == {i \in Selectable(pid) : \A j \in Selectable(pid) \ {i} : Prefers(i, j)}

-----------------------------------------------------------------------------
(* The calls, each on a goroutine of its own. *)

Key(row) == <<row.pid, row.serial>>
Keep(cache, key, x) == [k \in DOMAIN cache \union {key} |-> IF k = key THEN x ELSE cache[k]]
Load == [at |-> "enumerate", late |-> FALSE, rows |-> {}, answer |-> NoProduct]
Diagnosis(row) == [at |-> "probe", key |-> Key(row), outcome |-> "answers"]
Moves(i, at) == loads' = [loads EXCEPT ![i].at = at]

ListingInit ==
    /\ site \in Sites
    /\ plugged = site.plugged
    /\ known = {<<Unit(u).pid, Unit(u).serial>> : u \in plugged}
    /\ missed = FALSE /\ hotplug = FALSE
    /\ products = <<>> /\ diags = <<>>
    /\ loads = <<Load>> /\ probes = {}
    /\ listed = {}
    /\ lapses = {}
    /\ clock = 0

(***************************************************************************)
(* ForgetFailedDiags and ForgetSharedProducts, then a reload: the calls in *)
(* flight now may still store, and show, what they found before.           *)
(***************************************************************************)
ForgetSharedProductsMutant == products
ForgetSharedProducts == <<>>

Forget ==
    /\ diags' = [k \in {k \in DOMAIN diags : diags[k] # "failed"} |-> diags[k]]
    /\ products' = ForgetSharedProducts
    /\ Len(loads) < MaxLoads
    /\ loads' = Append([i \in DOMAIN loads |-> [loads[i] EXCEPT !.late = TRUE]], Load)
    /\ lapses' = {}

Rescan ==
    /\ clock < site.happenings
    /\ Forget
    /\ clock' = clock + 1
    /\ UNCHANGED <<environment, hotplug, probes, listed>>

\* handleHotplugEvent.
HandleHotplug ==
    /\ hotplug
    /\ Forget
    /\ hotplug' = FALSE
    /\ UNCHANGED <<environment, probes, listed, clock>>

(***************************************************************************)
(* ListDevices, and the row under the shared id: resolveSharedProduct.     *)
(***************************************************************************)
Shared(rows) == {r \in rows : r.pid = SharedPid /\ r.channel = "present"}
SerialOf(load) == (CHOOSE r \in Shared(load.rows) : TRUE).serial

ListDevices(i) ==
    /\ loads[i].at = "enumerate"
    /\ loads' = [loads EXCEPT ![i].rows = Rows, ![i].at = IF Shared(Rows) = {} THEN "show" ELSE "look"]
    /\ UNCHANGED <<environment, hotplug, products, diags, probes, listed, lapses, clock>>

ResolvedMutant(rows, reported) ==
    {IF r \in Shared(rows) THEN [r EXCEPT !.product = reported] ELSE r : r \in rows}

\* An answer that names no product with a profile leaves the row as it was.
Resolved(rows, reported) ==
    {IF r \in Shared(rows) /\ reported \in DOMAIN Aliases
     THEN [r EXCEPT !.product = Aliases[reported]] ELSE r : r \in rows}

LookUpProduct(i) ==
    /\ loads[i].at = "look"
    /\ LET serial == SerialOf(loads[i]) IN
       IF serial \in DOMAIN products
       THEN loads' = [loads EXCEPT ![i].rows = Resolved(@, products[serial]), ![i].at = "show"]
       ELSE Moves(i, "ask")
    /\ UNCHANGED <<environment, hotplug, products, diags, probes, listed, lapses, clock>>

\* ProductBehindSharedID, of whatever unit is opened now; it may not answer.
AskProduct(i) ==
    /\ loads[i].at = "ask"
    /\ \E answer \in {NoProduct} \union {Unit(o.unit).reports : o \in Opened(SharedPid)} :
          loads' = [loads EXCEPT ![i].answer = answer, ![i].at = "store"]
    /\ UNCHANGED <<environment, hotplug, products, diags, probes, listed, lapses, clock>>

\* Whatever was answered is kept, by the serial number the row had.
StoreProduct(i) ==
    /\ loads[i].at = "store"
    /\ LET answer == loads[i].answer IN
       /\ products' = Keep(products, SerialOf(loads[i]), answer)
       /\ loads' = [loads EXCEPT ![i].rows = Resolved(@, answer), ![i].at = "show",
                                 ![i].answer = NoProduct]
    /\ lapses' = lapses \union IF loads[i].late THEN {"storedLate"} ELSE {}
    /\ UNCHANGED <<environment, hotplug, diags, probes, listed, clock>>

(***************************************************************************)
(* handleDevicesLoaded: the rows are shown, and every row that can be sent *)
(* a check and has no diagnosis yet is diagnosed.                          *)
(***************************************************************************)
UndiagnosedMutant(rows) == {r \in rows \ listed : r.channel # "absent" /\ Key(r) \notin DOMAIN diags}
Undiagnosed(rows) == {r \in rows : r.channel # "absent" /\ Key(r) \notin DOMAIN diags}

ShowDevices(i) ==
    /\ loads[i].at = "show"
    /\ listed' = loads[i].rows
    /\ probes' = probes \union {Diagnosis(r) : r \in Undiagnosed(loads[i].rows)}
    /\ loads' = RemoveAt(loads, i)
    /\ lapses' = IF loads[i].late THEN lapses \union {"shownLate"} ELSE lapses \ {"shownLate"}
    /\ UNCHANGED <<environment, hotplug, products, diags, clock>>

(***************************************************************************)
(* DiagProbeCached and DiagProbeFresh: the unit is opened, unless none is  *)
(* there or access is refused.                                             *)
(***************************************************************************)
Turns(p, S) == probes' = (probes \ {p}) \union S

DiagProbeCached(p) ==
    /\ p.at = "probe"
    /\ IF p.key \in DOMAIN diags THEN Turns(p, {})
       ELSE \E outcome \in {"failed"} \union (IF Opened(p.key[1]) = {} THEN {} ELSE {"answers"}) :
               Turns(p, {[p EXCEPT !.outcome = outcome, !.at = "store"]})
    /\ UNCHANGED <<environment, hotplug, products, diags, loads, listed, lapses, clock>>

StoreDiag(p) ==
    /\ p.at = "store"
    /\ diags' = Keep(diags, p.key, p.outcome)
    /\ Turns(p, {})
    /\ UNCHANGED <<environment, hotplug, products, loads, listed, lapses, clock>>

-----------------------------------------------------------------------------
(***************************************************************************)
(* Units are plugged in and pulled out, and the poller compares what is    *)
(* there with what was there: a unit swapped for one with the same product *)
(* id and serial number goes unnoticed, and so does one that comes back.   *)
(***************************************************************************)
Replug(u) ==
    /\ clock < site.happenings
    /\ plugged' = SymDiff(plugged, {u})
    /\ missed' = TRUE
    /\ clock' = clock + 1
    /\ UNCHANGED <<site, known, hotplug, products, diags, loads, probes, listed, lapses>>

Poll ==
    /\ ~hotplug /\ missed
    /\ known' = {<<Unit(u).pid, Unit(u).serial>> : u \in plugged}
    /\ hotplug' = (known' # known)
    /\ missed' = FALSE
    /\ lapses' = lapses \union IF known' = known THEN {"unnoticed"} ELSE {}
    /\ UNCHANGED <<site, plugged, products, diags, loads, probes, listed, clock>>

Loading(i) ==
    ListDevices(i) \/ LookUpProduct(i) \/ AskProduct(i) \/ StoreProduct(i) \/ ShowDevices(i)

Diagnosing(p) == DiagProbeCached(p) \/ StoreDiag(p)

ListingNext ==
    \/ Rescan \/ HandleHotplug \/ Poll
    \/ \E u \in Units : Replug(u)
    \/ \E i \in DOMAIN loads : Loading(i)
    \/ \E p \in probes : Diagnosing(p)

\* Goroutines run, reads time out, the poller ticks and the loop takes
\* events.  The user and the units owe nothing.
Fairness ==
    /\ WF_listingVars(\E i \in DOMAIN loads : Loading(i)) /\ WF_listingVars(\E p \in probes : Diagnosing(p))
    /\ WF_listingVars(HandleHotplug) /\ WF_listingVars(Poll)

ListingSpec == ListingInit /\ [][ListingNext]_listingVars /\ Fairness

-----------------------------------------------------------------------------
(***************************************************************************)
(* The state is what the code's types allow.                               *)
(***************************************************************************)
Pids == UNION {{s.unit[u].pid : u \in Units} : s \in Sites}
Serials == {0} \union UNION {{s.unit[u].serial : u \in Units} : s \in Sites}
Reports == {NoProduct} \union UNION {{s.unit[u].reports : u \in Units} : s \in Sites}
RowType == [pid : Pids, serial : Serials, channel : {"present", "absent", "unknown"},
            product : Range(Aliases) \union {NoProduct}]

ListingTypeOK ==
    /\ site \in Sites /\ plugged \subseteq Units /\ known \subseteq Pids \X Serials
    /\ {missed, hotplug} \subseteq BOOLEAN
    /\ DOMAIN products \subseteq Serials /\ Range(products) \subseteq Reports
    /\ DOMAIN diags \subseteq Pids \X Serials /\ Range(diags) \subseteq {"answers", "failed"}
    /\ loads \in Seq([at : {"enumerate", "look", "ask", "store", "show"},
                      late : BOOLEAN, rows : SUBSET RowType, answer : Reports])
    /\ Len(loads) <= MaxLoads
    /\ probes \subseteq [at : {"probe", "store"}, key : Pids \X Serials,
                         outcome : {"answers", "failed"}]
    /\ listed \subseteq RowType
    /\ lapses \subseteq {"storedLate", "shownLate", "unnoticed"}
    /\ clock \in 0..site.happenings

(***************************************************************************)
(* Once things are quiet the list is true: it has a row for every product  *)
(* id that is connected and no other; a row that has a serial number names *)
(* the unit that calls to that row open; a row whose channel is absent has *)
(* nothing to open; and a product a row claims is that of the unit that is *)
(* opened, so that a profile is read and written in that product's layout. *)
(* Quiet: the poller is up to date, its event and the reload are handled,  *)
(* and since the last of them no reload begun earlier has stored or shown  *)
(* its outcome and nothing moved that the poller cannot tell.              *)
(***************************************************************************)
Quiet == ~missed /\ ~hotplug /\ loads = <<>> /\ lapses = {}

True(rows) ==
    /\ {r.pid : r \in rows} = {Unit(u).pid : u \in plugged}
    /\ \A r \in rows :
          /\ r.channel = "absent" => Opened(r.pid) = {}
          /\ \A i \in Opened(r.pid) :
                /\ r.serial \in {0, i.serial}
                /\ r.product # NoProduct =>
                     Unit(i.unit).reports \in DOMAIN Aliases /\ r.product = Aliases[Unit(i.unit).reports]

ListingIsTrue == Quiet => True(listed)

(***************************************************************************)
(* Every row that can be sent a check is diagnosed, also when its failed   *)
(* diagnosis was forgotten while another was under way: the interface      *)
(* never waits for a diagnosis that nobody runs.                           *)
(***************************************************************************)
Awaited == {r \in listed : r.channel # "absent" /\ Key(r) \notin DOMAIN diags}
EveryRowIsProbed == (Awaited # {}) ~> (Awaited = {})

=============================================================================
