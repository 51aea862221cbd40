---------------------------- MODULE AlarmCommands ----------------------------
(***************************************************************************)
(* p350alm (cmd/c-alarm): its command lines, but for the one that empties  *)
(* the history.  What the lists of alarms hold is in AlarmTables.          *)
(***************************************************************************)
EXTENDS AlarmDaemon
LOCAL INSTANCE Functions
LOCAL INSTANCE TLC

Program == Word("p350alm")

gPorts == <<"1", "8">>
gIndices == <<"0", "5", "300">>
gThresholds == <<"0", "50", "200">>

almport_validity == Words(gPorts)
alarm_id_validity == Words(gIndices)
mask_sta_validity == Words(<<"0", "1">>)
page_validity == Numbers(1, 2)
threshold_validity == Words(gThresholds)

IndexCode == [w \in Range(gIndices) |-> NumberIn(0, 300)[w]]
IndexWord == [v \in Range(IndexCode) |-> CHOOSE w \in DOMAIN IndexCode : IndexCode[w] = v]
ThresholdCode == [w \in Range(gThresholds) |-> NumberIn(0, 200)[w]]
ThresholdWord == [v \in Range(ThresholdCode) |-> CHOOSE w \in DOMAIN ThresholdCode : ThresholdCode[w] = v]

----------------------------------------------------------------------------
(* Queries and settings.                                                   *)

alarm_mask_query == Asks("alarm_mask_query", [mask |-> [i \in Indices |-> WordAt(<<"0", "1">>)]])
alarm_select_query == Asks("alarm_select_query", [select |-> [p \in AlarmPorts |-> IndexWord]])
alarm_inphase_threshold_query ==
  Asks("alarm_inphase_threshold_query", [threshold |-> [e \in {"value"} |-> ThresholdWord]])
current_alarm_list_query == Prints("current_alarm_list_query")
bd_alarm_sta_query == Prints("bd_alarm_sta_query")
current_alarm_query == Prints("current_alarm_query")
upload_alarm_query == Prints("upload_alarm_query")
upload_alarm_nums == Prints("upload_alarm_nums")
history_alarm_pages == Prints("history_alarm_pages")
history_alarm_nums == Prints("history_alarm_nums")
history_alarm_query == Prints("history_alarm_query")

alarm_mask_set == Alone(Sets("alarm_mask_set", "MSG_CFG_MASK", "mask", IndexIn(<<"0", "1">>)))
alarm_select_set == Alone(Sets("alarm_select_set", "MSG_CFG_SELECT", "select", IndexCode))
alarm_inphase_threshold_set ==
  Alone(Sets("alarm_inphase_threshold_set", "MSG_CFG_INPH_THRESHOLD", "threshold", ThresholdCode))

----------------------------------------------------------------------------
(* The rows of the parser, by the number of arguments.                     *)

Rows2 ==
  <<Row(<<Program>>, current_alarm_list_query),
    Row(<<Program, Word("--help")>>, Prints("helper")), Row(<<Program, Word("bdalm")>>, bd_alarm_sta_query),
    Row(<<Program, Word("threshold")>>, alarm_inphase_threshold_query),
    Row(<<Program, Words(<<"current", "upload">>)>>, Prints("1")),
    Row(<<Program, Word("curnum")>>, Prints("current_alarm_nums")),
    Row(<<Program, Word("uplnum")>>, upload_alarm_nums),
    Row(<<Program, Word("history")>>, history_alarm_pages),
    Row(<<Program, Word("almnum")>>, history_alarm_nums)>>
Rows3 ==
  <<Row(<<Program, Word("mask"), alarm_id_validity>>, alarm_mask_query),
    Row(<<Program, Word("select"), almport_validity>>, alarm_select_query),
    Row(<<Program, Word("threshold"), threshold_validity>>, Field("value", 3, alarm_inphase_threshold_set)),
    Row(<<Program, Word("current"), Word("1")>>, current_alarm_query),
    Row(<<Program, Word("upload"), Word("1")>>, upload_alarm_query),
    Row(<<Program, Word("history"), page_validity>>, history_alarm_query)>>
Rows4 ==
  <<Row(<<Program, Word("mask"), alarm_id_validity, mask_sta_validity>>, One(3, 4, alarm_mask_set)),
    Row(<<Program, Word("select"), almport_validity, alarm_id_validity>>, One(3, 4, alarm_select_set))>>

argv_parser == Rows2 \o Rows3 \o Rows4

----------------------------------------------------------------------------
(* The help text, with some of the words it names.                         *)

A(words) == Line(<<"p350alm">> \o words)
HelpOfAlarm ==
  {Usage(A(<<"mask", i, w>>), "mask", [e \in {i} |-> w], A(<<"mask", i>>)) : i \in Indices, w \in {"0", "1"}}
  \cup {Usage(A(<<"select", p, i>>), "select", [e \in {p} |-> i], A(<<"select", p>>))
          : p \in AlarmPorts, i \in Indices}
  \cup {Usage(A(<<"threshold", w>>), "threshold", [e \in {"value"} |-> w], A(<<"threshold">>))
          : w \in Range(gThresholds)}
Together(usage) ==
  {use \in usage : \E e \in DOMAIN use.words :
      <<e, use.words[e]>> \in {<<"0", "1">>, <<"5", "1">>, <<"1", "5">>, <<"8", "300">>,
                               <<"value", "50">>, <<"value", "0">>}}

=============================================================================
