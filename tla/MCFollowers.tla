------------------------------ MODULE MCFollowers ------------------------------
(* An instance of Followers for TLC.                                       *)
(*                                                                         *)
(* Alarm: zone 3 and the zone of technical alarms, and a sensor of zone 3. *)
(* Cen: a CEN and a CEN+ controller of two buttons, and a contact; the     *)
(* numbers begin as the WHERE of their family does.  Shutter: an advanced  *)
(* actuator on a local bus and a basic one of the same address on the      *)
(* other one.  Scenario: scenario 1 is also a WHAT of scenes.  Load: the   *)
(* first and the last priority.  Diagnostics: two central units, a zone of *)
(* each with the same number, and a device of every other kind of such     *)
(* numbers.                                                                *)
EXTENDS Followers

MCZones == {<<-1, 3>>, <<-1, 1, 2>>}
MCAlarmSensors == {<<3, 1, 4>>}
MCPoints == {<<2, 1>>}
MCContacts == {<<3, 1>>}
MCAdvanced == {[base |-> <<1, 2>>, bus |-> <<0, 1>>]}
MCBasic == {[base |-> <<1, 2>>, bus |-> <<>>]}
MCBases == {<<1, 2>>, <<0, 1, 1, 6>>}
MCSpelled == {<<1>>, <<1, 0>>}

Device(kind, n, zone, unit) == [kind |-> kind, n |-> n, zone |-> zone, unit |-> unit]
MCDevices ==
  {Device("central", Null, Null, u) : u \in {Null, 2}}
  \cup {Device("zone", Null, 1, u) : u \in {Null, 2}}
  \cup {Device("zone", Null, 10, Null), Device("probe", Null, 1, Null),
        Device("slave_probe", 1, 1, Null),
        Device("external_probe", 1, Null, Null), Device("actuator", 1, 10, Null)}
Address(hash, digits, par) == [hash |-> hash, digits |-> digits, par |-> par]
MCDevicesAsked ==
  {Address(TRUE, <<n>>, u) : n \in {0, 1}, u \in {Null, 2}}
  \cup {Address(TRUE, <<1, 0>>, Null), Address(FALSE, <<1, 0>>, 1)}
  \cup {Address(FALSE, digits, Null) : digits \in {<<0>>, <<1>>, <<1, 0>>, <<1, 0, 0>>, <<1, 0, 1>>}}
=============================================================================
