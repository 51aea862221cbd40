---------------------------- MODULE MCPtpModules ----------------------------
(***************************************************************************)
(* PtpModules for TLC.  Some worlds are about the dialogues: the clock     *)
(* stands still, and the daemon has nobody's orders but those of the       *)
(* world.  The other ones are about the class: the settings stay, and the  *)
(* clock, its source and the grade change.                                 *)
(***************************************************************************)
EXTENDS PtpModules

MCLists == {<<>>, <<"a">>, <<"b", "a">>}
MCDefault == [layer |-> 2, cast |-> "multi", net |-> 0, peers |-> <<>>,
              mac |-> "mac0", rest |-> 0, signal |-> "ptp"]
Unicast == [MCDefault EXCEPT !.layer = 3, !.cast = "uni", !.net = 1, !.peers = <<"a">>]
Told == {Nothing, Unicast}

Cold == [clock |-> "free", source |-> "none", grade |-> "0F"]
Locked == [clock |-> "lock", source |-> "mb", grade |-> "02"]

World(kinds, set, commands, swaps, kills, ticks, found) ==
  [kinds |-> kinds, saved |-> set, commands |-> commands, swaps |-> swaps,
   kills |-> kills, ticks |-> ticks, found |-> found]
MCWorlds == {
  World(Kinds, Told, 2, 1, 0, 0, Cold),
  World(Kinds, Told, 2, 0, 1, 0, Cold),
  World({"ptpIn", "foreign"}, {Unicast}, 1, 2, 1, 0, Cold),
  World({"cn"}, {MCDefault}, 0, 0, 0, 3, Cold),
  World({"cn"}, {MCDefault}, 0, 0, 0, 2, Locked),
  World({"cn"}, {MCDefault}, 0, 0, 1, 1, Locked),
  World({"foreign"}, {MCDefault}, 0, 1, 0, 1, Locked)}
=============================================================================
