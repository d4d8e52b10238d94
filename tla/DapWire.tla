------------------------------ MODULE DapWire ------------------------------
(***************************************************************************)
(* How DAP messages become bytes and bytes become messages again (libdap,  *)
(* protocol.cc): the items of a message, the items each message consists   *)
(* of for its writer and for its reader, the header, and the conversions   *)
(* between items and what the programs mean by them.                       *)
(*                                                                         *)
(* A message is a record: type, the value of each of its items as the      *)
(* sequence of its bytes, and src, what it was made from.                  *)
(***************************************************************************)
EXTENDS Naturals, Sequences, FiniteSets, TLC
LOCAL INSTANCE SequencesExt
LOCAL INSTANCE FiniteSetsExt

Byte == 256
Two(n) == 2^n
BitOf(v, n) == (v \div Two(n)) % 2 = 1
\* dap_bytes::set_int and set_short, get_int and get_short
LittleEndian(v, n) == [i \in 1..n |-> (v \div Byte^(i-1)) % Byte]
Number(bytes) == FoldLeft(LAMBDA n, i : n + bytes[i] * Byte^(i-1), 0, [i \in DOMAIN bytes |-> i])

-----------------------------------------------------------------------------
\* An extensible field: seven bits to a byte, the top bit says another follows.
get_bit(ex, bit) ==
  LET b == bit \div 7 + 1 IN b <= Len(ex) /\ BitOf(ex[b], bit % 7)
set_bits(bits) ==
  LET n == IF bits = {} THEN 1 ELSE Max(bits) \div 7 + 1 IN
  [i \in 1..n |-> MapThenSumSet(LAMBDA b : Two(b % 7), {b \in bits : b \div 7 + 1 = i})
                  + IF i < n THEN 128 ELSE 0]

-----------------------------------------------------------------------------
(***************************************************************************)
(* The items of the messages in order, each with its class and when it is  *)
(* there: always, if the message has more to come, or if a bit of the menu *)
(* is set.  b1, b2, ... are items of that many bytes.                      *)
(***************************************************************************)
Always == 100
IfMore == 101
Width == [b1 |-> 1, b2 |-> 2, b5 |-> 5, b18 |-> 18]
Item(name, class) == <<name, class, Always>>
Tail1(name, class) == <<name, class, IfMore>>
Menu(items) ==
  <<Item("menu", "ex")>> \o [i \in DOMAIN items |-> <<items[i][1], items[i][2], i - 1>>]

config_items == <<Item("bufsiz", "b2"), Item("ostype", "b1"), Item("filesys", "b1"),
                  Item("version", "b5"), Item("syscap", "ex")>>
attrib_items == Menu(<<
  <<"datatype", "ex">>, <<"org", "b1">>, <<"rfm", "b1">>, <<"rat", "ex">>, <<"bls", "b2">>,
  <<"mrs", "b2">>, <<"alq", "image">>, <<"bks", "b1">>, <<"fsz", "b1">>, <<"mrn", "image">>,
  <<"runsys", "image">>, <<"deq", "b2">>, <<"fop", "ex">>, <<"bsz", "b1">>, <<"dev", "ex">>,
  <<"sdc", "ex">>, <<"lrl", "b2">>, <<"hbk", "image">>, <<"ebk", "image">>, <<"ffb", "b2">>,
  <<"sbn", "image">> >>)
access_write == <<Item("accfunc", "b1"), Item("accopt", "ex"), Item("filespec", "image"),
                  Item("fac", "ex"), Item("shr", "ex"), Item("display", "ex")>>
access_read == <<Item("accfunc", "b1"), Item("accopt", "ex"), Item("filespec", "image"),
                 Tail1("fac", "ex"), Tail1("shr", "ex"), Tail1("display", "ex"),
                 Tail1("password", "image")>>
control_items == <<Item("ctlfunc", "b1")>> \o Menu(<<
  <<"rac", "b1">>, <<"key", "image">>, <<"krf", "b1">>, <<"rop", "ex">>, <<"hsh", "image">>,
  <<"display", "ex">>, <<"blkcnt", "b1">>, <<"usz", "b2">> >>)
contran_items == <<Item("confunc", "b1")>>
ack_items == <<>>
accomp_write(m) == <<Item("cmpfunc", "b1")>> \o IF "fop" \in DOMAIN m THEN <<Item("fop", "ex")>> ELSE <<>>
accomp_read == <<Item("cmpfunc", "b1"), Tail1("fop", "ex"), Tail1("check", "b2")>>
data_items == <<Item("recnum", "image"), Item("data", "rest")>>
status_write(m) == <<Item("stscode", "b2")>> \o IF "rfa" \in DOMAIN m THEN <<Item("rfa", "image")>> ELSE <<>>
status_read == <<Item("stscode", "b2"), Tail1("rfa", "image"), Tail1("recnum", "image"),
                 Tail1("stv", "image")>>
name_items == <<Item("nametype", "ex"), Item("namespec", "image")>>
date_write == Menu(<<<<"cdt", "b18">>, <<"rdt", "b18">>, <<"edt", "b18">>, <<"rvn", "b2">>,
                     <<"bdt", "b18">> >>)
date_read == date_write \o <<<<"udt", "b18", 5>>, <<"udt", "b18", 6>> >>
protect_items == Menu(<<<<"owner", "image">>, <<"protsys", "ex">>, <<"protown", "ex">>,
                        <<"protgrp", "ex">>, <<"protwld", "ex">> >>)
alloc_items == Menu(<<<<"vol", "b2">>, <<"aln", "b1">>, <<"aop", "ex">>, <<"loc", "image">>,
                      <<"rfi", "image">>, <<"alq", "image">>, <<"aid", "b1">>, <<"bkz", "b1">>,
                      <<"deq", "b2">> >>)

-----------------------------------------------------------------------------
\* msg_type
CONFIG == 1
ATTRIB == 2
ACCESS == 3
CONTROL == 4
CONTRAN == 5
ACK == 6
ACCOMP == 7
DATA == 8
STATUS == 9
ALLOC == 11
DATE == 13
PROTECT == 14
NAME == 15
Types == {CONFIG, ATTRIB, ACCESS, CONTROL, CONTRAN, ACK, ACCOMP, DATA, STATUS, ALLOC, DATE,
          PROTECT, NAME}

WriteItems(m) ==
  CASE m.type = CONFIG -> config_items   [] m.type = ATTRIB -> attrib_items
    [] m.type = ACCESS -> access_write   [] m.type = CONTROL -> control_items
    [] m.type = CONTRAN -> contran_items [] m.type = ACK -> ack_items
    [] m.type = ACCOMP -> accomp_write(m) [] m.type = DATA -> data_items
    [] m.type = STATUS -> status_write(m) [] m.type = ALLOC -> alloc_items
    [] m.type = DATE -> date_write       [] m.type = PROTECT -> protect_items
    [] m.type = NAME -> name_items
\* read_message chooses the class of the message by its type
ReadItems(type) ==
  CASE type = CONFIG -> config_items   [] type = ATTRIB -> attrib_items
    [] type = ACCESS -> access_read    [] type = CONTROL -> control_items
    [] type = CONTRAN -> contran_items [] type = ACK -> ack_items
    [] type = ACCOMP -> accomp_read    [] type = DATA -> data_items
    [] type = STATUS -> status_read    [] type = ALLOC -> alloc_items
    [] type = DATE -> date_read        [] type = PROTECT -> protect_items
    [] type = NAME -> name_items

-----------------------------------------------------------------------------
(***************************************************************************)
(* Writing.  The header says whether a length follows, in one byte or two; *)
(* dap_connection::write fills it in when the message is complete.         *)
(***************************************************************************)
Written(m, item) == item[3] = Always \/ get_bit(m.menu, item[3])
PutItem(m, item) ==
  IF item[2] = "image" THEN <<Len(m[item[1]]) % Byte>> \o m[item[1]] ELSE m[item[1]]
Items(m) == FoldLeft(LAMBDA s, item : s \o PutItem(m, item), <<>>,
                     SelectSeq(WriteItems(m), LAMBDA item : Written(m, item)))

\* mutant: a message of 256 bytes gets the short header
BadLongData(recnum, datalen) == datalen + recnum > 255
\* write_with_len: the recnum and the data do not fit a one byte length
long_data(recnum, datalen) == datalen + recnum >= 255

send_header(type) == <<type, 2, 0>>
send_long_header(type) == <<type, 6, 0, 0>>
send_no_length(type) == <<type, 0>>
HeaderOf(m) ==
  IF m.type \in {CONFIG, CONTRAN} THEN send_no_length(m.type)
  ELSE IF m.type = DATA /\ long_data(Len(m.recnum), Len(m.data)) THEN send_long_header(m.type)
  ELSE send_header(m.type)
Bytes(m) == HeaderOf(m) \o Items(m)

\* The length bytes of the message that starts after the first n bytes of b
SetLength(b, n) ==
  IF ~BitOf(b[n + 2], 1) THEN b
  ELSE IF BitOf(b[n + 2], 2)
    THEN LET len == (Len(b) - n - 4) % (Byte * Byte) IN
         [b EXCEPT ![n + 3] = len % Byte, ![n + 4] = len \div Byte]
  ELSE [b EXCEPT ![n + 3] = (Len(b) - n - 3) % Byte]

-----------------------------------------------------------------------------
(***************************************************************************)
(* What the items mean.                                                    *)
(***************************************************************************)
Sector == 512
\* dap_attrib_message::set_stat, for a file of size bytes
set_stat(size, dir, show_dev) ==
  [type |-> ATTRIB, src |-> size,
   menu |-> set_bits({1, 2, 3, 4, 6, 13, 18, 19} \cup IF dir THEN {5, 12, 16} ELSE {}
                     \cup IF show_dev THEN {14} ELSE {}),
   org |-> <<0>>, rfm |-> <<IF dir THEN 2 ELSE 5>>, rat |-> set_bits({IF dir THEN 3 ELSE 1}),
   bls |-> LittleEndian(Sector, 2), alq |-> LittleEndian((size + Sector - 1) \div Sector, 4),
   bsz |-> <<8>>, ebk |-> LittleEndian((size + Sector - 1) \div Sector, 4),
   ffb |-> LittleEndian(size % Sector, 2), mrs |-> LittleEndian(Sector, 2),
   lrl |-> LittleEndian(Sector, 2), fop |-> set_bits({7}), dev |-> <<136, 203, 77>>]

\* mutant: the last block counts as full
BadGetSize(m) == Number(m.ebk) * Sector + Number(m.ffb)
get_size(m) == IF Number(m.ebk) # 0 THEN (Number(m.ebk) - 1) * Sector + Number(m.ffb) ELSE 0

\* A set bit denies: 1 read, 2 write, 4 execute, 8 delete
unix_to_vms(prot) == (IF BitOf(prot, 0) THEN 0 ELSE 4) + (IF BitOf(prot, 1) THEN 0 ELSE 10)
                     + (IF BitOf(prot, 2) THEN 0 ELSE 1)
set_protection(mode) ==
  [type |-> PROTECT, src |-> mode, menu |-> set_bits(0..4), owner |-> <<91, 49, 44, 49, 93>>,
   protsys |-> <<0>>, protown |-> <<unix_to_vms((mode \div 64) % 8)>>,
   protgrp |-> <<unix_to_vms((mode \div 8) % 8)>>, protwld |-> <<unix_to_vms(mode % 8)>>]
Allows(p) == (IF BitOf(p, 0) THEN 0 ELSE 4) + (IF BitOf(p, 1) THEN 0 ELSE 2)
             + (IF BitOf(p, 2) THEN 0 ELSE 1)
get_mode(m) ==
  IF get_bit(m.menu, 1)
    THEN Allows(m.protown[1]) * 64 + Allows(m.protgrp[1]) * 8 + Allows(m.protwld[1]) ELSE 0

\* The display field is always put as two bytes
set_display(d) == LET second == (d \div 128) % 4 IN
                  <<(d % 128) + IF second # 0 THEN 128 ELSE 0, second>>
get_display(m) ==
  IF m.display[1] >= 128 THEN m.display[1] - 128 + 128 * m.display[2] ELSE m.display[1]
Access(func, fn, d) ==
  [type |-> ACCESS, src |-> d, accfunc |-> <<func>>, accopt |-> <<0>>, filespec |-> fn,
   fac |-> <<2>>, shr |-> <<0>>, display |-> set_display(d)]

Ack == [type |-> ACK, src |-> 0]
Config(size) == [type |-> CONFIG, src |-> size, bufsiz |-> LittleEndian(size, 2), ostype |-> <<7>>,
                 filesys |-> <<3>>, version |-> <<7, 2, 0, 5, 0>>,
                 syscap |-> <<162, 249, 249, 244, 170, 44>>]
Control(func) == [type |-> CONTROL, src |-> 0, ctlfunc |-> <<func>>, menu |-> set_bits({})]
ControlKey(func, k) ==
  [type |-> CONTROL, src |-> 0, ctlfunc |-> <<func>>, menu |-> set_bits({0, 1, 2, 7}),
   rac |-> <<1>>, key |-> k, krf |-> <<0>>, usz |-> LittleEndian(300, 2)]
Contran(func) == [type |-> CONTRAN, src |-> 0, confunc |-> <<func>>]
Accomp(func) == [type |-> ACCOMP, src |-> 0, cmpfunc |-> <<func>>]
AccompFop(func, bit) == Accomp(func) @@ [fop |-> set_bits({bit})]
Data(data) == [type |-> DATA, src |-> 0, recnum |-> <<>>, data |-> data]
Status(code) == [type |-> STATUS, src |-> 0, stscode |-> LittleEndian(code, 2)]
StatusRfa(code, rfa) ==
  IF rfa = 0 THEN Status(code) ELSE Status(code) @@ [rfa |-> LittleEndian(rfa, 4)]
Name(type, n) == [type |-> NAME, src |-> 0, nametype |-> <<type>>, namespec |-> n]
Alloc == [type |-> ALLOC, src |-> 0, menu |-> set_bits({})]
Date(cdt, rdt) == [type |-> DATE, src |-> 0, menu |-> set_bits({0, 1, 3}), cdt |-> cdt,
                   rdt |-> rdt, rvn |-> LittleEndian(1, 2)]
=============================================================================
