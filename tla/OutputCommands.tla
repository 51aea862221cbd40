--------------------------- MODULE OutputCommands ---------------------------
(***************************************************************************)
(* p350out (cmd/c-output): its command lines, what each sends to the       *)
(* output daemon and what each shows of the shared memory.                 *)
(***************************************************************************)
EXTENDS OutputDaemon, FiniteSets

Program == Word("p350out")
slot_validity == Numbers(1, 16)
group4_validity == Numbers(1, 4)

gZoneTbl == <<"zero", "e1", "e2", "e3", "e4", "e5", "e6", "e7", "e8", "e9", "e10", "e11", "ew12",
              "w11", "w10", "w9", "w8", "w7", "w6", "w5", "w4", "w3", "w2", "w1">>
gSaTbl == <<"SA4", "SA5", "SA6", "SA7", "SA8">>
gBaudRateTbl == <<"1200", "2400", "4800", "9600", "19200">>
gAmplitudeRatioTbl == <<"3:1", "4:1", "5:1", "6:1">>
gVoltageTbl == <<"3V", "4V", "5V", "6V", "7V", "8V", "9V", "10V", "11V", "12V">>
gOutdelayTbl == <<"tod", "irigb", "ppx", "ptp">>
gSignalTbl == <<"none", "ntp", "ptp", "2mh", "2mb", "irigb-dc", "todt", "todf", "pps", "ppm",
                "pph", "irigb-ac", "ext", "10mh">>
gPdtTbl == <<"p2p", "e2e">>
gPmutTbl == <<"uni", "multi">>
gPltTbl == <<"layer2", "layer3">>
gPstTbl == <<"1step", "2step">>
gFreqTbl == <<"256", "128", "64", "32", "16", "8", "4", "2", "1", "1/2", "1/4", "1/8", "1/16",
              "1/32", "1/64", "1/128", "1/256">>
gtraceTbl == <<"0", "1">>
\* The texts a record may hold, for which two stand here.
Addresses == <<"none", "10.1.1.7">>

\* The signals a kind of output board has, and so takes in its common settings.
BoardSignals ==
  [NTP |-> {"ntp"}, PTP |-> {"ptp"}, PTPF |-> {"none", "ptp", "ntp"},
   RS485 |-> {"todt", "pps", "ppm", "pph", "irigb-dc"}]

----------------------------------------------------------------------------
(* Words and the codes they are sent as, with the words for the codes.     *)

\* Ten nanoseconds are one, and negative numbers round to zero.
Tens == [n \in -130..130 |-> IF n < 0 THEN -((-n) \div 10) ELSE n \div 10]
\* The delays that are typed, in nanoseconds.
delay_number == NumberIn(-130, 130)
\* Fault: no sign.
Positive == Numbers(0, 130)
delay_validity == Numbers(-130, 130)
zone_validity == Words(gZoneTbl)
zone_group_validity == Grouped(4, gZoneTbl)
sa_validity == Words(gSaTbl)
baudrate_validity == Words(gBaudRateTbl)
baudrate_group_validity == Grouped(4, gBaudRateTbl)
amplitude_ratio_validity == Words(gAmplitudeRatioTbl)
amplitude_ratio_group_validity == Grouped(4, gAmplitudeRatioTbl)
voltage_validity == Words(gVoltageTbl)
voltage_group_validity == Grouped(4, gVoltageTbl)
signal_validity == Words(gSignalTbl)

\* Fault: the letter is forgotten.
ZoneIndex == IndexIn(gZoneTbl)
ZoneCode == [z \in DOMAIN IndexIn(gZoneTbl) |-> IndexIn(gZoneTbl)[z] + 64]
ZoneWord == [n \in 64..87 |-> gZoneTbl[n - 63]]
AmplitudeCode == [a \in DOMAIN IndexIn(gAmplitudeRatioTbl) |-> IndexIn(gAmplitudeRatioTbl)[a] + 3]
AmplitudeWord == [n \in 3..6 |-> gAmplitudeRatioTbl[n - 2]]
DelayCode == [w \in DOMAIN delay_number |-> Tens[delay_number[w]]]
DelayWord == [n \in -13..13 |-> Text(n * 10)]
PlainNumber == [n \in -130..130 |-> Text(n)]

\* The values of the fields of a PTP board: table by field, numbers for the others.
FieldTable(field) ==
  CASE field = "pdt" -> gPdtTbl
    [] field = "pmut" -> gPmutTbl
    [] field = "plt" -> gPltTbl
    [] field = "pst" -> gPstTbl
    [] field \in {"psf", "paf", "ppdrf"} -> gFreqTbl
    [] field \in {"pssm", "ptyp"} -> gtraceTbl
    [] field \in {"pip", "pmac", "psip", "pmask", "pgw"} -> Addresses
    [] OTHER -> [i \in 1..256 |-> Text(i - 1)]

----------------------------------------------------------------------------
(* Queries.                                                                *)

OfGroups(word) == [g \in Groups |-> word]
in_zone_query == Asks("in_zone_query", [izone |-> OfGroups(ZoneWord)])
out_zone_query == Asks("out_zone_query", [ozone |-> OfGroups(ZoneWord)])
out_2mb_sa_query == Asks("out_2mb_sa_query", [obsa |-> [o \in {"all"} |-> WordAt(gSaTbl)]])
out_2mb_ssm_query == Prints("out_2mb_ssm_query")
out_baudrate_query == Asks("out_baudrate_query", [obr |-> OfGroups(WordAt(gBaudRateTbl))])
irigb_amplitude_ratio_query ==
  Asks("irigb_amplitude_ratio_query", [iar |-> OfGroups(AmplitudeWord)])
irigb_voltage_query == Asks("irigb_voltage_query", [iv |-> OfGroups(WordAt(gVoltageTbl))])
type3_delay_query == Asks("type3_delay_query", [delay |-> [s \in Signals |-> DelayWord]])
type1_delay_query(type) == Asks("type1_delay_query", [delay |-> [s \in {type} |-> DelayWord]])
port1_query ==
  Asks("port1_query",
       [comm |-> [f \in CommonFields |-> IF f = "delay" THEN PlainNumber ELSE WordAt(gSignalTbl)],
        ptp |-> [f \in PtpFields |-> WordAt(FieldTable(f))]])
port16_query == Prints("port16_query")
portinfo_query == Prints("portinfo_query")
signal_query == Prints("signal_query")
spt_signal_table_query == Prints("spt_signal_table_query")

(* Settings.                                                               *)

in_zone_set == Sets("in_zone_set", "MSG_CFG_IZONE", "izone", ZoneCode)
out_zone_set == Sets("out_zone_set", "MSG_CFG_OZONE", "ozone", ZoneCode)
out_2mb_sa_set == Alone(Sets("out_2mb_sa_set", "MSG_CFG_OBSA", "obsa", IndexIn(gSaTbl)))
out_baudrate_set == Sets("out_baudrate_set", "MSG_CFG_OBR", "obr", IndexIn(gBaudRateTbl))
irigb_amplitude_ratio_set ==
  Sets("irigb_amplitude_ratio_set", "MSG_CFG_AMP", "iar", AmplitudeCode)
irigb_voltage_set == Sets("irigb_voltage_set", "MSG_CFG_VOL", "iv", IndexIn(gVoltageTbl))
type_delay_set == Alone(Sets("type_delay_set", "MSG_CFG_OUT_DELAY", "delay", DelayCode))
\* The common settings of an output board in the slot, and the own ones of a
\* PTP board, of which the kinds know different fields.
output_board_set(field) ==
  IF field \in CommonFields
  THEN OnBoards(IF field = "signal" THEN BoardSignals
                ELSE [b \in DOMAIN BoardSignals |-> DOMAIN delay_number],
                Sets("output_board_set", "MSG_CFG_OUT_COMM", "comm",
                     IF field = "signal" THEN IndexIn(gSignalTbl) ELSE delay_number))
  ELSE OnBoards([b \in {"PTP"} \cup IF field \in PtpfFields THEN {"PTPF"} ELSE {}
                   |-> DOMAIN IndexIn(FieldTable(field))],
                Sets("output_board_set", "MSG_CFG_OUT", "ptp", IndexIn(FieldTable(field))))

----------------------------------------------------------------------------
(* The rows of the parser, by the number of arguments.                     *)

Rows2 ==
  <<Row(<<Program, Word("izone")>>, in_zone_query),
    Row(<<Program, Word("ozone")>>, out_zone_query),
    Row(<<Program, Word("obr")>>, out_baudrate_query),
    Row(<<Program, Word("obsa")>>, out_2mb_sa_query),
    Row(<<Program, Word("obssm")>>, out_2mb_ssm_query),
    Row(<<Program, Word("iar")>>, irigb_amplitude_ratio_query),
    Row(<<Program, Word("iv")>>, irigb_voltage_query),
    Row(<<Program, slot_validity>>, port1_query),
    Row(<<Program, Word("delay")>>, type3_delay_query),
    Row(<<Program, Word("--help")>>, Prints("helper"))>>
\* A query of one group alone.
RowsOfGroup(key, query) ==
  [i \in 1..4 |-> Row(<<Program, Word(key), Word(Text(i))>>,
                     Asks(query.name, [k \in {key} |-> [g \in {Text(i)} |-> query.shown[k][g]]]))]
Rows3 ==
  <<Row(<<Program, slot_validity, Word("portinfo")>>, portinfo_query),
    Row(<<Program, slot_validity, Word("sgnlist")>>, spt_signal_table_query),
    Row(<<Program, slot_validity, Word("signal")>>, signal_query)>>
  \o [i \in DOMAIN gOutdelayTbl |->
        Row(<<Program, Word("delay"), Word(gOutdelayTbl[i])>>, type1_delay_query(gOutdelayTbl[i]))]
  \o <<Row(<<Program, Word("ozone"), zone_group_validity>>, All(3, out_zone_set)),
       Row(<<Program, Word("izone"), zone_group_validity>>, All(3, in_zone_set)),
       Row(<<Program, Word("obr"), baudrate_group_validity>>, All(3, out_baudrate_set)),
       Row(<<Program, Word("obsa"), sa_validity>>, Field("all", 3, out_2mb_sa_set)),
       Row(<<Program, Word("iar"), amplitude_ratio_group_validity>>, All(3, irigb_amplitude_ratio_set)),
       Row(<<Program, Word("iv"), voltage_group_validity>>, All(3, irigb_voltage_set))>>
  \o RowsOfGroup("ozone", out_zone_query) \o RowsOfGroup("izone", in_zone_query)
  \o RowsOfGroup("obr", out_baudrate_query) \o RowsOfGroup("iar", irigb_amplitude_ratio_query)
  \o RowsOfGroup("iv", irigb_voltage_query)
Rows4 ==
  <<Row(<<Program, Word("ozone"), group4_validity, zone_validity>>, One(3, 4, out_zone_set)),
    Row(<<Program, Word("izone"), group4_validity, zone_validity>>, One(3, 4, in_zone_set)),
    Row(<<Program, Word("obr"), group4_validity, baudrate_validity>>, One(3, 4, out_baudrate_set)),
    Row(<<Program, Word("iar"), group4_validity, amplitude_ratio_validity>>, One(3, 4, irigb_amplitude_ratio_set)),
    Row(<<Program, Word("iv"), group4_validity, voltage_validity>>, One(3, 4, irigb_voltage_set)),
    Row(<<Program, Word("delay"), Words(gOutdelayTbl), delay_validity>>, One(3, 4, type_delay_set)),
    Row(<<Program, slot_validity, Word("delay"), delay_validity>>,
        Field("delay", 4, output_board_set("delay"))),
    Row(<<Program, slot_validity, Word("signal"), signal_validity>>,
        Field("signal", 4, output_board_set("signal")))>>
\* A line may have several pairs; each is as here.
PairFields == <<"ptyp", "pdt", "pmut", "plt", "pst", "psf", "paf", "ppdrf", "pssm", "pip",
                "pmask", "pgw", "pmac", "psip", "level", "priority", "preg">>
RowsOfPairs ==
  [i \in DOMAIN PairFields |->
     Row(<<Program, Word("ptp"), slot_validity, Word(PairFields[i]), Words(FieldTable(PairFields[i]))>>,
         Field(PairFields[i], 5, output_board_set(PairFields[i])))]

argv_parser == <<Row(<<Program>>, port16_query)>> \o Rows2 \o Rows3 \o Rows4 \o RowsOfPairs

----------------------------------------------------------------------------
(* The help text, with the words of each kind it names.                    *)

P(words) == Line(<<"p350out">> \o words)
HelpOfGroups(word, table) ==
  {Usage(P(<<word, g, w>>), word, [e \in {g} |-> w], P(<<word, g>>)) : g \in {"1", "4"}, w \in table}
    \cup {Usage(Append(P(<<word>>), ws), word, [g \in Groups |-> ws[CHOOSE i \in 1..4 : Text(i) = g]],
                P(<<word>>))
            : ws \in {ws \in [1..4 -> table] : ws[1] # ws[2] /\ ws[1] = ws[3] /\ ws[2] = ws[4]}}
HelpOfPtp(fields) ==
  UNION {{Usage(P(<<"ptp", "2", f, w>>), "ptp", [e \in {f} |-> w], P(<<"2">>))
            : w \in {FieldTable(f)[1], FieldTable(f)[Len(FieldTable(f))]}} : f \in fields}
HelpOfDevice ==
  HelpOfGroups("izone", {"zero", "e11", "ew12", "w11"})
    \cup HelpOfGroups("ozone", {"zero", "e8", "w11", "w1"})
    \cup HelpOfGroups("obr", {"1200", "19200"}) \cup HelpOfGroups("iar", {"3:1", "6:1"})
    \cup HelpOfGroups("iv", {"3V", "12V"})
    \cup {Usage(P(<<"obsa", w>>), "obsa", [o \in {"all"} |-> w], P(<<"obsa">>)) : w \in {"SA4", "SA8"}}
    \cup {Usage(P(<<"delay", s, w>>), "delay", [e \in {s} |-> w], P(<<"delay">>))
            : s \in Signals, w \in {"0", "-120", "90"}}
HelpOfBoard(board) ==
  {Usage(P(<<"2", "signal", w>>), "comm", [f \in {"signal"} |-> w], P(<<"2">>))
     : w \in BoardSignals[board]}
    \cup {Usage(P(<<"2", "delay", w>>), "comm", [f \in {"delay"} |-> w], P(<<"2">>)) : w \in {"-7", "15"}}
    \cup HelpOfPtp(CASE board = "PTP" -> PtpFields [] board = "PTPF" -> PtpfFields [] OTHER -> {})

\* Of these several are typed together, the others alone.
Together(usage) ==
  {use \in usage : \E e \in DOMAIN use.words :
      /\ Cardinality(DOMAIN use.words) = 1
      /\ <<e, use.words[e]>> \in
           {<<"1", "e11">>, <<"1", "w1">>, <<"4", "w11">>, <<"1", "19200">>, <<"4", "1200">>,
            <<"1", "6:1">>, <<"4", "6:1">>, <<"1", "12V">>, <<"4", "3V">>, <<"all", "SA4">>,
            <<"all", "SA8">>, <<"irigb", "-120">>, <<"tod", "90">>, <<"delay", "15">>,
            <<"signal", "ptp">>, <<"signal", "todt">>, <<"pst", "2step">>, <<"pdt", "e2e">>}}

=============================================================================
