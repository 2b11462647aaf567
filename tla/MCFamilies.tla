------------------------------ MODULE MCFamilies ------------------------------
(* An instance of Families for TLC.                                        *)
(*                                                                         *)
(* Dispatch: lines of up to four fields, with WHOs of every class.         *)
(* Lighting: two gateways with a light of the same address, or one gateway *)
(* and three frames, or every command.  Heating: zones 0 and 23, an        *)
(* actuator, the central unit.  Sound: numbers at and beyond every limit.  *)
(* Energy: the days around New Year, the end of February in a leap year    *)
(* and after one, the end of a month and a plain day, with the dates they  *)
(* make doubtful.  DoorEntry: an entrance panel, a handset and everyone.   *)
(* GatewayClock: days of three hours in year 1, the only one that may be   *)
(* written; a zone ahead of UTC with summer time, one behind it with       *)
(* winter time to come, and one with half an hour.                         *)
EXTENDS Families

CONSTANTS gw1, gw2

House(gateways, levels, others, wire) ==
  [gateways |-> gateways, levels |-> levels, others |-> others, wire |-> wire]
MCHouses == {House({gw1, gw2}, {0, 54}, FALSE, 1), House({gw1}, {0, 54}, FALSE, 3),
             House({gw1}, {0, 1, 4, 5, 53, 54, 85, 86, 100}, TRUE, 1)}

Addr(hash, n, par) == [hash |-> hash, n |-> n, par |-> par]
MCHeatingWheres == {Addr(hash, n, par) : hash \in BOOLEAN, n \in {0, 23}, par \in {<<>>, <<1>>}}
                   \cup {Addr(FALSE, 99, <<>>), Addr(TRUE, 23, <<1, 2>>), Addr(FALSE, 7, <<4, 1>>)}
MCQuarters == {-4, 19, 20, 21, 22, 23, 82, 83, 158, 160, 161, 400}
MCTemperatures == {-999, -5, 0, 1, 215, 999}

MCDates ==
  {20220228, 20220301, 20220614, 20221231, 20230101, 20230111, 20230228, 20230301, 20230614, 20230615,
   20230616, 20231130, 20231231, 20240101, 20240111, 20240228, 20240229, 20240301, 20240615, 20241231,
   20250101, 20250228, 19991231, 20991201, 21000101}
MCMeterNumbers == {-1, 0, 1, 24, 250, 251, 255, 256, 263, 264}

MCBefore == [z \in {"east", "west", "half"} |->
               CASE z = "east" -> 2 [] z = "west" -> -2 [] z = "half" -> 3]
MCAfter == [z \in {"east", "west", "half"} |->
              CASE z = "east" -> 4 [] z = "west" -> -4 [] z = "half" -> 3]
=============================================================================
