---------------------------- MODULE InputCommands ----------------------------
(***************************************************************************)
(* p350in (cmd/c-input): its command lines, what each sends to the input   *)
(* daemon and what each shows of the shared memory.                        *)
(***************************************************************************)
EXTENDS InputDaemon, FiniteSets
LOCAL INSTANCE Functions
LOCAL INSTANCE TLC

Program == Word("p350in")
Slot == Word("1")

gSsmTbl == <<"02", "04", "08", "0B", "0F", "00">>
gSaTbl == <<"SA4", "SA5", "SA6", "SA7", "SA8">>
gModeTbl == <<"SG", "SB", "MG", "MB">>
gPdtTbl == <<"p2p", "e2e">>
gPmutTbl == <<"uni", "multi">>
gPltTbl == <<"layer2", "layer3">>
gPstTbl == <<"1step", "2step">>
gFreqTbl == <<"256", "128", "64", "32", "16", "8", "4", "2", "1", "1/2", "1/4", "1/8", "1/16",
              "1/32", "1/64", "1/128", "1/256">>
Priorities == <<"-", "0", "1", "2", "3", "4", "5", "6", "7", "8", "9">>
\* The texts a record may hold, for which these stand here.
Addresses == <<"none", "10.1.1.7">>
Heights == <<"0.0", "120.5">>
Longitudes == <<"E0", "E11421.54321">>
Latitudes == <<"N0", "N3030.12345">>

slot_validity == Numbers(1, 4)
port5_validity == Numbers(1, 5)
prio_validity == Words(Priorities)
\* One priority for every port, in one word.
prio_group == Grouped(5, Priorities)
ssm_validity == Words(gSsmTbl)
\* "--" leaves a port as it is.
ssm_group == Grouped(5, Append(gSsmTbl, Skip))
sa_validity == Words(gSaTbl)
mode_validity == Words(gModeTbl)
elev_validity == Words(Heights)
\* The four words of a position, as one argument of two parts.
lola_validity == Grouped(2, Longitudes \o Latitudes)
\* Delays are typed in nanoseconds and kept in tens of them, towards zero.
delay_validity == Numbers(-130, 130)
delay_number == NumberIn(-130, 130)
Tens == [n \in -130..130 |-> IF n < 0 THEN -((-n) \div 10) ELSE n \div 10]

\* The values of the fields of a board: table by field, numbers for the others.
PtpTable(field) ==
  CASE field = "pdt" -> gPdtTbl
    [] field = "pmut" -> gPmutTbl
    [] field = "plt" -> gPltTbl
    [] field = "pst" -> gPstTbl
    [] field \in {"psf", "paf", "pdrf", "ppdrf"} -> gFreqTbl
    [] field \in {"pip", "pmask", "pgw", "pmip", "pmmac"} -> Addresses
    [] OTHER -> [i \in 1..256 |-> Text(i - 1)]
SatTable(field) ==
  CASE field = "mode" -> gModeTbl
    [] field = "sa" -> gSaTbl
    [] field = "elev" -> Heights
    [] field = "lon" -> Longitudes
    [] field = "lat" -> Latitudes

SsmCode == [w \in Range(gSsmTbl) |-> SsmTable[IndexIn(gSsmTbl)[w] + 1]]
SsmWord == [v \in Range(SsmCode) |-> CHOOSE w \in Range(gSsmTbl) : SsmCode[w] = v]
ModeCode == [w \in Range(gModeTbl) |-> IndexIn(gModeTbl)[w] + 1]
DelayCode == [w \in DOMAIN delay_number |-> Tens[delay_number[w]]]

----------------------------------------------------------------------------
(* Queries.                                                                *)

SatWords(fields) ==
  [f \in fields |-> IF f = "mode" THEN [n \in 1..4 |-> gModeTbl[n]] ELSE WordAt(SatTable(f))]
prio_query(ports) == Asks("prio_query", [prio |-> [p \in ports |-> WordAt(Priorities)]])
delay_query(port) == Asks("delay_query", [delay |-> [p \in {port} |-> [n \in -13..13 |-> Text(n * 10)]]])
ssm_query == Asks("ssm_query", [ssm |-> [p \in {"2"} |-> SsmWord]])
sa_query == Asks("sa_query", [sat |-> SatWords({"sa"})])
mode_query == Asks("mode_query", [sat |-> SatWords({"mode"})])
elev_query == Asks("elev_query", [sat |-> SatWords({"elev"})])
\* Degrees and minutes as they were typed; how they are written is left out.
lola_query == Asks("lola_query", [sat |-> SatWords({"lon", "lat"})])
input_ptpin_board_query ==
  Asks("input_ptpin_board_query", [ptpin |-> [f \in PtpFields |-> WordAt(PtpTable(f))]])
schema_query == Prints("schema_query")
schema_list == Prints("schema_list")
valid_list == Prints("valid_list")
portinfo_query == Prints("portinfo_query")
port_srctype_query == Prints("port_srctype_query")
signal_query == Prints("signal_query")
port_query == Prints("port_query")
gps_bd_query == Prints("gps_bd_query")

(* Settings; the board in the slot must have the port or the receiver.     *)

EveryBoard(words) == [b \in {"SAT", "PTP_IN"} |-> words]
Only1(board, words) == [b \in {board} |-> words]
prio_set == OnBoards(EveryBoard(Range(Priorities)),
                     Sets("prio_set", "MSG_CFG_IN_prio", "prio", IndexIn(Priorities)))
delay_set == OnBoards(EveryBoard(DOMAIN delay_number),
                      Sets("delay_set", "MSG_CFG_IN_delay", "delay", DelayCode))
ssm_set == OnBoards(Only1("SAT", Range(gSsmTbl)), Sets("ssm_set", "MSG_CFG_IN_ssm", "ssm", SsmCode))
SatSet(name, field, code) ==
  OnBoards(Only1("SAT", Range(SatTable(field))), Sets(name, "MSG_CFG_IN_sat", "sat", code))
sa_set == SatSet("sa_set", "sa", IndexIn(gSaTbl))
mode_set == SatSet("mode_set", "mode", ModeCode)
elev_set == SatSet("elev_set", "elev", IndexIn(Heights))
lola_set ==
  OnBoards(Only1("SAT", Range(Longitudes) \cup Range(Latitudes)),
           Sets("lola_set", "MSG_CFG_IN_sat", "sat", IndexIn(Longitudes) @@ IndexIn(Latitudes)))
input_ptpin_board_set(field) ==
  OnBoards(Only1("PTP_IN", Range(PtpTable(field))),
           Sets("input_ptpin_board_set", "MSG_CFG_IN_ptpin", "ptpin", IndexIn(PtpTable(field))))

----------------------------------------------------------------------------
(* The rows of the parser, by the number of arguments.                     *)

Rows2 ==
  <<Row(<<Program, Word("schema")>>, schema_query), Row(<<Program, Word("--help")>>, Prints("helper")),
    Row(<<Program, Word("gb")>>, gps_bd_query)>>
Rows3 ==
  <<Row(<<Program, Word("schema"), Word("list")>>, schema_list),
    Row(<<Program, Word("schema"), Word("vlist")>>, valid_list),
    Row(<<Program, slot_validity, Word("portinfo")>>, portinfo_query),
    Row(<<Program, slot_validity, Word("portstype")>>, port_srctype_query),
    Row(<<Program, slot_validity, Word("prio")>>, prio_query(Ports)),
    Row(<<Program, slot_validity, Word("ssm")>>, ssm_query),
    Row(<<Program, slot_validity, Word("sa")>>, sa_query),
    Row(<<Program, slot_validity, Word("signal")>>, signal_query),
    Row(<<Program, slot_validity, Word("mode")>>, mode_query),
    Row(<<Program, slot_validity, Word("elev")>>, elev_query),
    Row(<<Program, slot_validity, Word("lola")>>, lola_query),
    Row(<<Program, Word("ptp"), slot_validity>>, input_ptpin_board_query),
    Row(<<Program, slot_validity, port5_validity>>, port_query)>>
\* The settings of one port come under the name of the port.
Rows4 ==
  [p \in 1..5 |-> Row(<<Program, slot_validity, Word(Text(p)), Word("prio")>>, prio_query({Text(p)}))]
  \o <<Row(<<Program, slot_validity, Word("prio"), prio_group>>, All(4, prio_set))>>
  \o [p \in 1..5 |-> Row(<<Program, slot_validity, Word(Text(p)), Word("delay")>>, delay_query(Text(p)))]
  \o <<Row(<<Program, slot_validity, Word("2"), Word("ssm")>>, ssm_query),
       Row(<<Program, slot_validity, Word("3"), Word("sa")>>, sa_query),
       Row(<<Program, slot_validity, Word("ssm"), ssm_group>>, All(4, ssm_set)),
       Row(<<Program, slot_validity, Word("sa"), sa_validity>>, Field("sa", 4, sa_set)),
       Row(<<Program, slot_validity, Word("mode"), mode_validity>>, Field("mode", 4, mode_set)),
       Row(<<Program, slot_validity, Word("elev"), elev_validity>>, Field("elev", 4, elev_set)),
       Row(<<Program, slot_validity, Word("lola"), lola_validity>>, All(4, lola_set))>>
Rows5 ==
  <<Row(<<Program, slot_validity, port5_validity, Word("prio"), prio_validity>>, One(3, 5, prio_set)),
    Row(<<Program, slot_validity, port5_validity, Word("delay"), delay_validity>>, One(3, 5, delay_set)),
    \* Of the ports only the second has a frequency whose SSM is not in the signal.
    Row(<<Program, slot_validity, Word("2"), Word("ssm"), ssm_validity>>, One(3, 5, ssm_set)),
    Row(<<Program, slot_validity, Word("3"), Word("sa"), sa_validity>>, Field("sa", 5, sa_set))>>
PairFields == <<"pdt", "pmut", "plt", "pst", "psf", "paf", "pdrf", "ppdrf", "pip", "pmask", "pgw",
                "pmip", "pmmac", "level", "priority", "preg">>
\* A line may have several pairs; each is as here.
RowsOfPairs ==
  [i \in DOMAIN PairFields |->
     Row(<<Program, Word("ptp"), slot_validity, Word(PairFields[i]), Words(PtpTable(PairFields[i]))>>,
         Field(PairFields[i], 5, input_ptpin_board_set(PairFields[i])))]

argv_parser == Rows2 \o Rows3 \o Rows4 \o Rows5 \o RowsOfPairs

----------------------------------------------------------------------------
(* The help text, with some of the words it names.                         *)

P(words) == Line(<<"p350in", "1">> \o words)
HelpOfPorts ==
  {Usage(P(<<p, "prio", w>>), "prio", [e \in {p} |-> w], P(<<p, "prio">>)) : p \in {"1", "5"}, w \in {"-", "9"}}
  \cup {Usage(Append(P(<<"prio">>), <<"3", "-", "1", "0", "9">>), "prio",
              [e \in Ports |-> CASE e = "1" -> "3" [] e = "2" -> "-" [] e = "3" -> "1"
                                 [] e = "4" -> "0" [] OTHER -> "9"], P(<<"prio">>))}
  \cup {Usage(P(<<p, "delay", w>>), "delay", [e \in {p} |-> w], P(<<p, "delay">>))
          : p \in {"1"}, w \in {"0", "-120", "90"}}
HelpOfSatellite ==
  HelpOfPorts
  \cup {Usage(P(<<"2", "ssm", w>>), "ssm", [e \in {"2"} |-> w], P(<<"2", "ssm">>)) : w \in Range(gSsmTbl)}
  \cup {Usage(Append(P(<<"ssm">>), <<Skip, "0B", Skip, Skip, Skip>>), "ssm", [e \in {"2"} |-> "0B"],
              P(<<"ssm">>))}
  \cup UNION {{Usage(P(<<f, w>>), "sat", [e \in {f} |-> w], P(<<f>>)) : w \in Range(SatTable(f))}
                : f \in {"mode", "elev", "sa"}}
  \cup {Usage(Append(P(<<"lola">>), <<Longitudes[2], Latitudes[2]>>), "sat",
              [e \in {"lon", "lat"} |-> IF e = "lon" THEN Longitudes[2] ELSE Latitudes[2]], P(<<"lola">>))}
HelpOfPtp ==
  UNION {{Usage(Line(<<"p350in", "ptp", "1", f, w>>), "ptpin", [e \in {f} |-> w],
                Line(<<"p350in", "ptp", "1">>))
            : w \in {PtpTable(f)[1], PtpTable(f)[Len(PtpTable(f))]}} : f \in PtpFields}
\* Of these several are typed together, the others alone.
Together(usage) ==
  {use \in usage : \E e \in DOMAIN use.words :
      /\ Cardinality(DOMAIN use.words) = 1
      /\ <<e, use.words[e]>> \in {<<"1", "9">>, <<"5", "9">>, <<"1", "90">>, <<"1", "-120">>, <<"2", "04">>,
                               <<"2", "0F">>, <<"mode", "MB">>, <<"sa", "SA8">>, <<"pst", "2step">>,
                               <<"plt", "layer3">>}}

=============================================================================
