------------------------------ MODULE Programs ------------------------------
(***************************************************************************)
(* The words in which the daemons and the command programs are described.  *)
(*                                                                         *)
(* A setting has a key and a fixed set of entries (the four groups of the  *)
(* device, the fields of a record).  It is kept in up to four places: the  *)
(* daemon's memory, the database, the shared memory and the FPGA, each     *)
(* with an encoding of its own.  Whatever a daemon does at its start, for  *)
(* a message and at its end is a sequence of steps, most of which move a   *)
(* setting from one place to another.                                      *)
(*                                                                         *)
(* A command line is a sequence of arguments and an argument the sequence  *)
(* of its parts: "e8:zero" is <<"e8", "zero">>.  A parser is a list of     *)
(* rows, of which the first that fits applies.                             *)
(***************************************************************************)
EXTENDS Integers, Sequences
LOCAL INSTANCE SequencesExt
LOCAL INSTANCE Functions
LOCAL INSTANCE TLC

----------------------------------------------------------------------------
(* Steps.  "fail" is the label the caller goes to when the step fails.     *)

\* The values that occur.
Codes == -130..300
Same == [v \in Codes |-> v]
\* A number kept as a character of a text.
ToDigit == [v \in Codes |-> v + 48]
FromDigit == [v \in Codes |-> v - 48]

Move(from, to, key, conv) ==
  [do |-> "move", from |-> from, to |-> to, key |-> key, conv |-> conv,
   entries |-> {}, unless |-> <<>>, rows |-> <<>>, room |-> 0, counts |-> {}, fail |-> "exit"]

Take(key) == Move("msg", "mem", key, Same)
Load(key, conv) == Move("db", "mem", key, conv)
Save(key, conv) == Move("mem", "db", key, conv)
Issue(key, conv) == Move("mem", "reg", key, conv)
Show(key) == Move("mem", "shm", key, Same)

\* Only these entries are moved; {} stands for all.
Only(entries, step) == [step EXCEPT !.entries = entries]
\* The step is left out when this entry has one of the values.
Unless(entry, values, step) == [step EXCEPT !.unless = <<entry, values>>]
\* The entries are rows of a table, in its order, for which the place they go
\* to has so much room; a row that is not there is 0.
Within(room, rows, step) == [step EXCEPT !.rows = rows, !.room = room]
\* What is moved is how many of these rows there are.
Counting(rows, step) == [step EXCEPT !.counts = Range(rows)]

\* The handler refuses a message with another value.
Accept(key, values) == [do |-> "check", key |-> key, values |-> values, fail |-> "exit"]
\* And one for entries that have another value in this place.
RequireAt(place, key, values) ==
  [do |-> "require", at |-> place, key |-> key, values |-> values, entries |-> {}, fail |-> "exit"]
Require(key, values) == RequireAt("mem", key, values)
\* A call that touches no setting and may fail.
Call(what) == [do |-> "call", key |-> what, fail |-> "exit"]
Open(what) == [do |-> "open", key |-> what, fail |-> "exit"]
Close(what) == [do |-> "close", key |-> what, fail |-> "none"]

\* The caller goes to this label when one of the steps fails.
Under(label, steps) == [i \in DOMAIN steps |-> [steps[i] EXCEPT !.fail = label]]
\* The caller does not look at the result.
Ignored(steps) == Under("none", steps)

\* The start of a daemon as each of the settings meets it.  The steps of the
\* other settings fail as its own do, to the same label.
Boot(steps, keys) ==
  [key \in keys |-> SelectSeq(steps, LAMBDA s : s.do # "move" \/ s.key = key)]
\* The end of a daemon from each of its labels: it falls through those below.
Falling(exits) ==
  [from \in {exits[i].label : i \in DOMAIN exits} |->
     FlattenSeq([i \in DOMAIN exits |->
       IF \E j \in 1..i : exits[j].label = from THEN exits[i].steps ELSE <<>>])]
\* The step at a place, if there is one.
StepAt(steps, pc) == {steps[i] : i \in DOMAIN steps \cap {pc}}

----------------------------------------------------------------------------
(* Command lines.                                                          *)

\* Which arguments are meant: so many parts, each one of these words.
Text(n) == ToString(n)
\* The numbers that occur.
NumberIn(lo, hi) == [w \in {Text(n) : n \in lo..hi} |-> CHOOSE n \in lo..hi : Text(n) = w]

Grouped(n, table) == [parts |-> n, of |-> Range(table)]
Words(table) == Grouped(1, table)
Word(w) == [parts |-> 1, of |-> {w}]
Numbers(lo, hi) == Words([i \in 1..hi - lo + 1 |-> Text(lo + i - 1)])

\* The place of a word in its table, from 0, and the word at a place.
IndexIn(table) == [w \in Range(table) |-> (CHOOSE i \in DOMAIN table : table[i] = w) - 1]
WordAt(table) == [i \in 0..Len(table) - 1 |-> table[i + 1]]

\* A line, with the program first.
Line(words) == [i \in DOMAIN words |-> <<words[i]>>]
LineWith(words, parts) == Append(Line(words), parts)

\* A part that leaves its entry as it is.
Skip == "--"

Row(pattern, command) == [pattern |-> pattern, command |-> command]
Fits(row, line) == /\ Len(row.pattern) = Len(line)
                   /\ \A i \in DOMAIN line : /\ Len(line[i]) = row.pattern[i].parts
                                             /\ Range(line[i]) \subseteq row.pattern[i].of

----------------------------------------------------------------------------
(* Commands.                                                               *)

\* The line fits no row: "Failure." is printed.
Refused == [name |-> "Failure", kind |-> "none"]
\* Something is printed that is no setting, or a help text.
Prints(name) == [name |-> name, kind |-> "print"]

\* A message of one type with a setting: the word at this place of the line,
\* for one entry (the one named, or the one at a place of the line), or part
\* by part for all.  "copies": what is not changed is sent as the shared
\* memory has it; otherwise only what is changed is sent.  "accepted": the
\* words a kind of board takes; <<>> if the board does not matter.
Sets(name, type, key, code) ==
  [name |-> name, kind |-> "set", type |-> type, key |-> key, code |-> code,
   entry |-> "", from |-> 0, word |-> 0, copies |-> TRUE, accepted |-> <<>>, needs |-> Codes,
   unless |-> <<>>]
All(at, command) == [command EXCEPT !.word = at]
One(group, at, command) == [command EXCEPT !.from = group, !.word = at]
Field(field, at, command) == [command EXCEPT !.entry = field, !.word = at]
Alone(command) == [command EXCEPT !.copies = FALSE]
\* The entry must have one of these values in the shared memory.
Needing(values, command) == [command EXCEPT !.needs = values]
OnBoards(accepted, command) == [command EXCEPT !.accepted = accepted]

\* What is shown of a place: for each entry of a setting the word of each code.
AsksAt(place, name, shown) == [name |-> name, kind |-> "query", at |-> place, shown |-> shown]
Asks(name, shown) == AsksAt("shm", name, shown)

Meaning(rows, line) ==
  LET fitting == {i \in DOMAIN rows : Fits(rows[i], line)}
  IN IF fitting = {} THEN Refused
     ELSE rows[CHOOSE i \in fitting : \A j \in fitting : i <= j].command

\* What the lines that are typed, and their queries, are understood as.
Understood(rows, usage) ==
  [line \in {use.line : use \in usage} \cup {use.query : use \in usage} |-> Meaning(rows, line)]

\* What a line of the help text is for: the words one asks for, by entry,
\* and the line that shows them.
Usage(line, key, words, query) == [line |-> line, key |-> key, words |-> words, query |-> query]

=============================================================================
