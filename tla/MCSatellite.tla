----------------------------- MODULE MCSatellite -----------------------------
(***************************************************************************)
(* Satellite in five worlds: one where the reception comes and goes, one   *)
(* where the leap second changes with the source and the operator, and     *)
(* three where daemons are restarted meanwhile: two restarts with one      *)
(* command; with one source, one restart with two commands and one with a  *)
(* command and a second that loses its messages.                           *)
(* The counts of 60 are 1, that of an announcement is 3.                   *)
(***************************************************************************)
EXTENDS Satellite

Sta(pps, ant) == [t |-> "STA", pps |-> pps, ant |-> ant]
Gsv(sys, many) == [t |-> "GSV", sys |-> sys, many |-> many]
Gga == [t |-> "GGA", mode |-> "mixgps"]
Lps(state, sec) == [t |-> "LPS", state |-> state, sec |-> sec]

Good == <<Gga, Gsv("gps", TRUE), Sta(TRUE, "2")>>
Few == <<Gga, Gsv("gps", FALSE), Gsv("bd", FALSE), Sta(TRUE, "4")>>
Bad == <<Sta(FALSE, "4"), [t |-> "other"]>>
Gap == <<[t |-> "empty"], Sta(TRUE, "3")>>

Reception == [bursts |-> {Good, Few, Bad, Gap}, sources |-> {"none", "gps"},
              swaps |-> 2, commands |-> 0, starts |-> 1, losses |-> 0]
Says == {<<Lps(0, 1)>>, <<Lps(0, 2)>>, <<Lps(1, 1)>>}
Changes == [bursts |-> Says, sources |-> Sources, swaps |-> 0, commands |-> 1,
            starts |-> 0, losses |-> 0]
Restarts == [bursts |-> {<<Lps(0, 2)>>, <<Lps(1, 1)>>}, sources |-> {"gps", "none"},
             swaps |-> 0, commands |-> 1, starts |-> 2, losses |-> 0]
Forced == [Restarts EXCEPT !.sources = {"gps"}, !.commands = 2, !.starts = 1]
Losses == [Restarts EXCEPT !.sources = {"gps"}, !.starts = 1, !.losses = 1]
MCWorlds == {Reception, Changes, Restarts, Forced, Losses}
=============================================================================
