---------------------------- MODULE MCChronology ----------------------------
(* An instance of Chronology for TLC.                                      *)
EXTENDS Chronology

CONSTANTS ours, theirs, line

Serial  == <<"Q2HP", "1">>
Net     == <<"N_1">>
Address == <<"10.0.0.2">>
Entry   == <<"entry">>

Doc == [index |-> <<"meraki", "syslog", "d1">>, id |-> Entry, time |-> 1, org |-> None,
        serial |-> None, part |-> None, network |-> None, message |-> line,
        logsource |-> None]
Change(kind, t) == [Doc EXCEPT !.index = <<"meraki", kind, "history", "d1">>, !.time = t,
                    !.org = ours, !.network = Net, !.message = None]

(* Syslog lines of two devices, and of none and without a time; the        *)
(* changes of four kinds of entity, of one whose kind has two parts, and   *)
(* of another organisation.                                                *)
Lines == {[Doc EXCEPT !.logsource = Address],
          [Doc EXCEPT !.logsource = Serial, !.time = 2, !.network = Net],
          [Doc EXCEPT !.time = None]}
Entries == {[Change("device", 1) EXCEPT !.serial = Serial],
            [Change("uplink", 2) EXCEPT !.serial = Serial, !.part = <<"wan1">>],
            [Change("vlan", 1) EXCEPT !.part = <<"10">>],
            [Change("network", 2) EXCEPT !.org = theirs],
            [Change("inventory", 1) EXCEPT
               !.index = <<"meraki", "device", "availability", "history", "d1">>]}
Appended == Lines \cup Entries

Windows == {[start |-> 2, end |-> None], [start |-> None, end |-> 1]}
Devices  == {Serial, Address}
Networks == {Net}
=============================================================================
