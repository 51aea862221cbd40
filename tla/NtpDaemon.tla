------------------------------ MODULE NtpDaemon ------------------------------
(***************************************************************************)
(* d-ntp: what the NTP daemon does with its settings: the md5 keys ("mk",  *)
(* by identifier, 0 where there is none, with their number, "total") and   *)
(* whether they are used ("me"), the versions it answers ("ve"), the       *)
(* broadcast ("bc") and the addresses of an interface ("vp").  Its         *)
(* requests are in NtpPool.                                                *)
(***************************************************************************)
EXTENDS Programs
LOCAL INSTANCE Functions

EthFields == {"ip", "mac", "mask", "gateway"}
\* The keys the memory has room for: ten in the code, a bound here.
MAX_MD5KEY_NUM == 2
\* The keys there may be, in the order in which the table gives them.
KeyIds == <<"2", "1", "3">>

\* The settings as delivered, with one key, and the number of the keys.
Factory ==
  [mk |-> [id \in {"1", "2", "3", "total"} |-> IF id \in {"2", "total"} THEN 1 ELSE 0], me |-> [e \in {"en"} |-> 0],
   ve |-> [v \in {"2", "3", "4"} |-> 1],
   bc |-> [e \in {"en", "interval"} |-> IF e = "en" THEN 0 ELSE 64],
   vp |-> [f \in EthFields |-> 0]]

(* The tables: of the keys, the interfaces and the system.  Numbers are    *)
(* kept as texts and read with atoi.                                       *)

\* The rows, as far as there is room, and how many there are.
md5_key_read ==
  <<Within(MAX_MD5KEY_NUM, KeyIds, Only(Range(KeyIds), Load("mk", Same))),
    Counting(KeyIds, Only({"total"}, Load("mk", Same)))>>
\* An identifier is in the table only once.
md5_key_add == <<RequireAt("db", "mk", {0}), Move("msg", "db", "mk", Same)>>
md5_key_del == Move("msg", "db", "mk", Same)
md5_key_mod == Move("msg", "db", "mk", Same)
md5_enable_read == Load("me", Same)
md5_enable_write == Save("me", Same)
\* Each version is one character of the table and one bit of the memory.
version_enable_read == Load("ve", [v \in Codes |-> IF v = 49 THEN 1 ELSE 0])
version_enable_write == Save("ve", ToDigit)
broadcast_enable_interval_read == Load("bc", Same)
broadcast_enable_interval_write == Save("bc", Same)
read_virtual_eth == Load("vp", Same)
\* Only the physical address, which the message may be about to change.
read_eth == Only({"mac"}, Load("vp", Same))
\* What the message has.
write_virtual_eth == Move("msg", "db", "vp", Same)

\* The timer of the broadcast; it ends with the process.
broadcast_timer == Only({"en"}, Issue("bc", Same))

(* The shared memory: everything at once.                                  *)

writeConfig == <<Show("mk"), Show("me"), Show("ve"), Show("bc"), Show("vp")>>

(* The messages.                                                           *)

Present == Codes \ {0}
mod_log_level == <<Call("level")>>
\* The number is the one of the start, and without a place in the memory the
\* key goes into the table all the same.
add_md5_key ==
  <<Accept("mk", Present), Only({"total"}, Require("mk", 0..MAX_MD5KEY_NUM - 1)),
    Require("mk", {0}), Within(MAX_MD5KEY_NUM, KeyIds, Take("mk"))>> \o md5_key_add \o writeConfig
del_md5_key == <<Require("mk", Present), Take("mk"), md5_key_del>> \o writeConfig
mod_md5_key ==
  <<Accept("mk", Present), Require("mk", Present), Take("mk"), md5_key_mod>> \o writeConfig
mod_md5_enable == <<Accept("me", 0..1), Take("me"), md5_enable_write>> \o writeConfig
mod_version_enable == <<Accept("ve", 0..1), Take("ve"), version_enable_write>> \o writeConfig
mod_broadcast_enable_interval ==
  <<Accept("bc", 0..1024), Take("bc"), broadcast_timer, broadcast_enable_interval_write>>
  \o writeConfig
\* A new physical address is only in the table then, until the next start.
sysVport ==
  <<Call("conflicts"), Only({"ip", "mask", "gateway"}, Take("vp")), read_eth, write_virtual_eth>>
  \o writeConfig
ReadMessageQueue ==
  [MSG_CFG_DBG |-> mod_log_level, MSG_CFG_NTP_MK_ADD |-> add_md5_key,
   MSG_CFG_NTP_MK_DEL |-> del_md5_key, MSG_CFG_NTP_MK_MOD |-> mod_md5_key,
   MSG_CFG_NTP_BC |-> mod_broadcast_enable_interval, MSG_CFG_NTP_VE |-> mod_version_enable,
   MSG_CFG_NTP_ME |-> mod_md5_enable, MSG_CFG_NTP_VP |-> sysVport]

(* Start and end.                                                          *)

initializeDatabase == Open("database")
initializeVethDatabase == Open("interfaces")
initializeSignal == Call("signals")
initializeShareMemory == Call("shared memory")
initializeMessageQueue == Call("queue")
initializeSemaphoreSet == Call("semaphores")
initializeFpga == Open("fpga")
writePid == Call("writePid")
virtual_ethn_add == Call("interfaces")
initializeSocket == Open("socket")
tpCreate == Open("pool")
CreateThread == Open("thread")
initializeAlarmIndexTable == Open("alarms")
cleanAlarmIndexTable == Close("alarms")
cleanDatabase == Close("database")
cleanVethDatabase == Close("interfaces")
broadcast_disable == Close("timer")
cleanSock == Close("socket")
cleanFpga == Close("fpga")

Reading ==
  <<initializeAlarmIndexTable, initializeDatabase, initializeVethDatabase>> \o md5_key_read
  \o <<version_enable_read, broadcast_enable_interval_read, md5_enable_read, read_virtual_eth>>
Serving ==
  <<Call("set_pro_rr"), initializeSignal, initializeShareMemory, initializeMessageQueue,
    initializeSemaphoreSet, initializeFpga, Call("FPGA runs"), writePid>>
  \o Ignored(<<virtual_ethn_add>>) \o <<initializeSocket, tpCreate, CreateThread>>
  \o writeConfig \o <<Open("timer"), broadcast_timer>>
\* Without an index for the alarm it is to switch off it returns at once.
ProcNtp == Reading \o Serving \o Under("return", <<Call("index of the alarm")>>)
\* One label undoes everything, the thread of the time aside.
Exits == <<[label |-> "exit",
            steps |-> <<cleanAlarmIndexTable, Close("pool"), cleanDatabase, cleanVethDatabase,
                        broadcast_disable, cleanSock, cleanFpga>>],
           [label |-> "return", steps |-> <<>>]>>
LoopExit == "exit"

=============================================================================
