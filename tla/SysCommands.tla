----------------------------- MODULE SysCommands -----------------------------
(***************************************************************************)
(* p350sys (cmd/c-sys): its command lines for the NTP daemon and, where    *)
(* another daemon has the setting, for that one.  The accounts of the      *)
(* users, which the program writes into the table on its own, are not here *)
(***************************************************************************)
EXTENDS NtpDaemon, FiniteSets
LOCAL INSTANCE Functions
LOCAL INSTANCE TLC

Program == Word("p350sys")

gNoneOrKey == <<"none", "abc", "xyz">>
Intervals == <<"64", "256">>
\* The texts an interface may have, for which these stand here.
Addresses == <<"10.1.1.5", "10.1.1.7">>

switch_validity == Words(<<"on", "off">>)
enable_validity == Words(<<"0", "1">>)
vport_validity == Word("1")
mid_validity == Words(<<"1", "2", "3">>)
mkey_validity == Words(<<"abc", "xyz">>)
\* Two arguments of the line, as one of two parts; and three digits.
enable_interval == Grouped(2, <<"0", "1">> \o Intervals)
versions == Grouped(3, <<"0", "1">>)
ip_validity == Words(Addresses)
leap_validity == Numbers(0, 99)

BcCode == IndexIn(<<"0", "1">>) @@ [w \in Range(Intervals) |-> NumberIn(64, 256)[w]]
BcWord == [v \in Range(BcCode) |-> CHOOSE w \in DOMAIN BcCode : BcCode[w] = v]

----------------------------------------------------------------------------
(* Queries.                                                                *)

key_query == Asks("key_query", [mk |-> [id \in Range(KeyIds) |-> WordAt(gNoneOrKey)]])
enable_query == Asks("enable_query", [me |-> [e \in {"en"} |-> WordAt(<<"0", "1">>)]])
version_query == Asks("version_query", [ve |-> [v \in {"2", "3", "4"} |-> WordAt(<<"0", "1">>)]])
broadcast_query == Asks("broadcast_query", [bc |-> [e \in {"en", "interval"} |-> BcWord]])
\* The last word is the alarm daemon's: whether the link is watched.
veth_query ==
  Asks("veth_query", [vp |-> [f \in EthFields |-> WordAt(Addresses)],
                      monitor |-> [p \in {"1"} |-> WordAt(<<"0", "1">>)]])
\* These two look past the daemon, at the interface and into the table.
query_net_param ==
  AsksAt("reg", "query_net_param", [net |-> [f \in EthFields |-> WordAt(Addresses)]])
ReadWgIp == AsksAt("db", "ReadWgIp", [server |-> [e \in {"ip"} |-> WordAt(Addresses)]])
Read61850Ip == AsksAt("db", "Read61850Ip", [ip61850 |-> [e \in {"ip"} |-> WordAt(Addresses)]])
ver_argv_parser == Prints("ver_argv_parser")
dev_type_argv_parser == Prints("dev_type_argv_parser")
slotinfo_argv_parser == Prints("slotinfo_argv_parser")
bid_argv_parser == Prints("bid_argv_parser")
clock_argv_parser == Prints("clock_argv_parser")
time_query == Prints("time_query")
leap_query == Prints("leap_query")

(* Settings.  For a key the program looks first whether the identifier is  *)
(* in use, and for a new one whether the number is at the limit.           *)

add_key ==
  Unless("total", {MAX_MD5KEY_NUM},
    Needing({0}, Alone(Sets("add_key", "MSG_CFG_NTP_MK_ADD", "mk", IndexIn(gNoneOrKey)))))
mod_key == Needing(Present, Alone(Sets("mod_key", "MSG_CFG_NTP_MK_MOD", "mk", IndexIn(gNoneOrKey))))
del_key == Needing(Present, Alone(Sets("del_key", "MSG_CFG_NTP_MK_DEL", "mk",
                                       [w \in Range(KeyIds) |-> 0])))
md5_enable == Alone(Sets("md5_enable", "MSG_CFG_NTP_ME", "me", IndexIn(<<"0", "1">>)))
ntp_bei_argv_parser == Alone(Sets("ntp_bei_argv_parser", "MSG_CFG_NTP_BC", "bc", BcCode))
ntp_ve_argv_parser == Alone(Sets("ntp_ve_argv_parser", "MSG_CFG_NTP_VE", "ve", IndexIn(<<"0", "1">>)))
\* The address must differ from those of the other interfaces.
ntp_veth_argv_parser(field) ==
  Field(field, 6, Alone(Sets("ntp_veth_argv_parser", "MSG_CFG_NTP_VP", "vp", IndexIn(Addresses))))
monitor_set == Alone(Sets("monitor_set", "MSG_CFG_PORT_STATUS", "monitor", IndexIn(<<"0", "1">>)))
leap_argv_parser(code) ==
  Alone(Sets("leap_argv_parser", "MSG_CFG_LPS_MODE_SET", "leapmode", code))
\* The address must differ from those the NTP daemon has in its shared memory.
net_set(field) == Field(field, 4, Alone(Sets("net_argv_parser", "MSG_CFG_WG_NET", "net", IndexIn(Addresses))))
wg_set == Field("ip", 4, Alone(Sets("wg_argv_parser", "MSG_CFG_WG_SERVER_IP", "server", IndexIn(Addresses))))
ip61850_set ==
  Field("ip", 3, Alone(Sets("mini61850_argv_parser", "MSG_CFG_61850_IP", "ip61850", IndexIn(Addresses))))
guard_argv_parser == Alone(Sets("guard_argv_parser", "MSG_CFG_GUARD", "guard", IndexIn(<<"off", "on">>)))

----------------------------------------------------------------------------
(* The rows of the parser.                                                 *)

RowsOfDevice ==
  <<Row(<<Program, Word("ver")>>, ver_argv_parser),
    Row(<<Program, Word("dtype")>>, dev_type_argv_parser),
    Row(<<Program, Word("time")>>, time_query), Row(<<Program, Word("clock")>>, clock_argv_parser),
    Row(<<Program, Word("btype")>>, bid_argv_parser),
    Row(<<Program, Word("slotinfo")>>, slotinfo_argv_parser),
    Row(<<Program, Word("--help")>>, Prints("helper")),
    Row(<<Program, Word("guard"), switch_validity>>, Field("on", 3, guard_argv_parser))>>
\* 0 is the automatic mode; the other one comes with its leap seconds.
RowsOfLeap ==
  <<Row(<<Program, Word("leap")>>, leap_query),
    Row(<<Program, Word("leap"), Word("0")>>, Field("state", 3, leap_argv_parser(NumberIn(0, 0)))),
    Row(<<Program, Word("leap"), Word("1"), leap_validity>>,
        Field("state", 4, leap_argv_parser(NumberIn(0, 99))))>>
ntp_md5_argv_parser ==
  <<Row(<<Program, Word("ntp"), Word("m"), Word("-q")>>, key_query),
    Row(<<Program, Word("ntp"), Word("m"), Word("-e")>>, enable_query),
    Row(<<Program, Word("ntp"), Word("m"), Word("-d"), mid_validity>>, One(5, 5, del_key)),
    Row(<<Program, Word("ntp"), Word("m"), Word("-e"), enable_validity>>, Field("en", 5, md5_enable)),
    Row(<<Program, Word("ntp"), Word("m"), Word("-a"), mid_validity, mkey_validity>>, One(5, 6, add_key)),
    Row(<<Program, Word("ntp"), Word("m"), Word("-m"), mid_validity, mkey_validity>>, One(5, 6, mod_key))>>
\* A line may have several pairs; each is as here.
RowsOfPorts ==
  <<Row(<<Program, Word("ntp"), Word("p")>>, veth_query),
    Row(<<Program, Word("ntp"), Word("p"), vport_validity>>, veth_query)>>
  \o LET fields == <<"ip", "mac", "mask", "gateway">>
     IN [i \in DOMAIN fields |->
           Row(<<Program, Word("ntp"), Word("p"), vport_validity, Word(fields[i]), ip_validity>>,
               ntp_veth_argv_parser(fields[i]))]
  \o <<Row(<<Program, Word("ntp"), Word("p"), vport_validity, Word("monitor"), enable_validity>>,
           One(4, 6, monitor_set))>>
ntp_argv_parser ==
  ntp_md5_argv_parser
  \o <<Row(<<Program, Word("ntp"), Word("b")>>, broadcast_query),
       Row(<<Program, Word("ntp"), Word("b"), enable_interval>>, All(4, ntp_bei_argv_parser)),
       Row(<<Program, Word("ntp"), Word("v")>>, version_query),
       Row(<<Program, Word("ntp"), Word("v"), versions>>, All(4, ntp_ve_argv_parser))>>
  \o RowsOfPorts

\* A line may have several pairs; each is as here.
net_argv_parser ==
  <<Row(<<Program, Word("net")>>, query_net_param)>>
  \o LET fields == <<"ip", "gateway", "mac", "mask">>
     IN [i \in DOMAIN fields |->
           Row(<<Program, Word("net"), Word(fields[i]), ip_validity>>, net_set(fields[i]))]
\* What the line has is sent, an address or not.
wg_argv_parser ==
  <<Row(<<Program, Word("wg"), Word("ip")>>, ReadWgIp),
    Row(<<Program, Word("wg"), Word("ip"), Words(Addresses)>>, wg_set)>>
mini61850_argv_parser ==
  <<Row(<<Program, Word("61850")>>, Read61850Ip),
    Row(<<Program, Word("61850"), Words(Addresses)>>, ip61850_set)>>

argv_parser ==
  net_argv_parser \o RowsOfDevice \o RowsOfLeap \o ntp_argv_parser \o wg_argv_parser
    \o mini61850_argv_parser

----------------------------------------------------------------------------
(* The help text, with some of the words it names.                         *)

N(words) == Line(<<"p350sys", "ntp">> \o words)
HelpOfNtp ==
  {Usage(N(<<"m", "-a", id, "abc">>), "mk", [i \in {id} |-> "abc"], N(<<"m", "-q">>)) : id \in {"1", "3"}}
  \cup {Usage(N(<<"m", "-m", id, "xyz">>), "mk", [i \in {id} |-> "xyz"], N(<<"m", "-q">>)) : id \in {"1", "2"}}
  \cup {Usage(N(<<"m", "-d", id>>), "mk", [i \in {id} |-> "none"], N(<<"m", "-q">>)) : id \in {"1", "2"}}
  \cup {Usage(N(<<"m", "-e", w>>), "me", [e \in {"en"} |-> w], N(<<"m", "-e">>)) : w \in {"0", "1"}}
  \cup {Usage(Append(N(<<"b">>), <<en, n>>), "bc", [e \in {"en", "interval"} |-> IF e = "en" THEN en ELSE n],
              N(<<"b">>)) : en \in {"0", "1"}, n \in Range(Intervals)}
  \cup {Usage(Append(N(<<"v">>), <<x, "0", "1">>), "ve",
              [v \in {"2", "3", "4"} |-> CASE v = "2" -> x [] v = "3" -> "0" [] OTHER -> "1"], N(<<"v">>))
          : x \in {"0", "1"}}
  \* The physical address is shown after the next start only.
  \cup {Usage(N(<<"p", "1", f, Addresses[2]>>), "vp", [e \in {f} |-> Addresses[2]], N(<<"p", "1">>))
          : f \in EthFields \ {"mac"}}
\* The automatic mode; there is no query for it.
HelpOfLeap ==
  {Usage(Line(<<"p350sys", "leap", "0">>), "leapmode", <<>>, Line(<<"p350sys", "leap">>))}
HelpOfMonitor ==
  {Usage(N(<<"p", "1", "monitor", w>>), "monitor", [p \in {"1"} |-> w], N(<<"p", "1">>)) : w \in {"0", "1"}}
\* The physical address of the device is shown after its next start only.
HelpOfNet ==
  {Usage(Line(<<"p350sys", "net", f, w>>), "net", [e \in {f} |-> w], Line(<<"p350sys", "net">>))
     : f \in EthFields \ {"mac"}, w \in Range(Addresses)}
  \cup {Usage(Line(<<"p350sys", "wg", "ip", w>>), "server", [e \in {"ip"} |-> w],
              Line(<<"p350sys", "wg", "ip">>)) : w \in Range(Addresses)}
\* The text does not name this one.
UseOf61850 ==
  {Usage(Line(<<"p350sys", "61850", w>>), "ip61850", [e \in {"ip"} |-> w], Line(<<"p350sys", "61850">>))
     : w \in Range(Addresses)}
Together(usage) == usage

=============================================================================
