------------------------------ MODULE IpmFiles ------------------------------
(***************************************************************************)
(* The program files: it walks a directory, counts files by their type in  *)
(* a hash table with linear probing, and prints the types in an order of   *)
(* the user's choice.                                                      *)
(*                                                                         *)
(* The order of the walk (ftw) is any.  A file is a record of its owner,   *)
(* its group, the answer of libmagic and the four numbers that are         *)
(* summed and compared; a name stands for a path.  The answer of libmagic  *)
(* is its text up to the first comma, with the prefix or the abbreviation  *)
(* the program finds in it ("none": it finds none).                        *)
(***************************************************************************)
EXTENDS Integers, Sequences, SequencesExt, FiniteSetsExt

CONSTANTS
  Files,        (* the files of the directory                              *)
  ftypes_max,   (* slots of the table (-m)                                 *)
  HashOf,       (* strhash of each type                                    *)
  passwd,       (* the ids of the names of users that are known            *)
  group,        (* the ids of the names of groups                          *)
  Commands,     (* the command lines: sequences of options                 *)
  files_start_t,(* the time at which the program started                   *)
  ByteUnits,    (* what KB, MB, GB and TB begin at, and where TB end       *)
  IntLimit,     (* 2^31, the first number that is no int                   *)
  BlockSize,    (* the bytes of a block, 512                               *)
  HalfUp        (* the n for which %.1f makes n + 1 tenths of n and a half *)

(* A finite directory; command lines are sequences of options; the units   *)
(* of the report grow, and ints go further than the first of them.         *)
ASSUME FilesAssumption ==
  /\ ftypes_max \in Nat /\ ftypes_max >= 2
  /\ IsFiniteSet(Files)
  /\ \A f \in Files : {f.byte, f.block, f.cage, f.mage} \subseteq Int
  /\ \A command \in Commands : Len(command) \in Nat /\ DOMAIN command = 1 .. Len(command)
  /\ files_start_t \in Int /\ BlockSize \in Nat /\ IntLimit \in Nat
  /\ ByteUnits \in Seq(Nat) /\ Len(ByteUnits) = 5 /\ ByteUnits[1] > 0
  /\ \A u, v \in 1 .. 5 : u < v => ByteUnits[u] < ByteUnits[v]
  /\ ByteUnits[1] <= IntLimit /\ IntLimit <= ByteUnits[5]

VARIABLES
  flags,      (* the flags of the options                                  *)
  selected,   (* uid_select and gid_select, and whether there are any      *)
  rest,       (* the files that are still to be walked                     *)
  t,          (* the table                                                 *)
  last,       (* ftype_last and key_last                                   *)
  owners,     (* user_list_found                                           *)
  T,          (* the totals                                                *)
  order,      (* per field, the slots in use in the order of that field    *)
  printed,    (* the report: its heading and a line per type               *)
  pc,         (* "walk", "done", "exit" or "crash"                         *)
  counted     (* history: the files counted                                *)

vars == <<flags, selected, rest, t, last, owners, T, order, printed, pc, counted>>

Slots == 0 .. ftypes_max - 1
Measures == {"byte", "block", "cage", "mage"}
Fields == {"nfile", "byte", "block", "cage", "mage"}

Free == [desc |-> "", nfile |-> 0, sum |-> [m \in Measures |-> 0],
         min |-> [m \in Measures |-> 0], max |-> [m \in Measures |-> 0],
         minf |-> [m \in Measures |-> ""], maxf |-> [m \in Measures |-> ""]]

NoTotals == [nfile |-> 0, sum |-> [m \in {"byte", "block"} |-> 0],
             min |-> [m \in Measures |-> 0], max |-> [m \in Measures |-> 0]]

(* A text with a figure has its unit and the figure in tenths.  Without a  *)
(* figure that tells anything: a buffer not written yet, or "B" behind     *)
(* whatever %d found in the place of an int.                               *)
NoFigure == [unit |-> 0, tenths |-> 0]

NoHeading == [users |-> {}, data |-> NoFigure, files |-> 0, largest |-> NoFigure,
              smallest |-> NoFigure, oldest |-> NoFigure, newest |-> NoFigure]
NoReport == [heading |-> NoHeading, types |-> <<>>]

(* The ids of the names of a list: those of unknown names stay 0, root's.  *)
Ids(names, known) == {IF n \in DOMAIN known THEN known[n] ELSE 0 : n \in names}

(* One option: -sort replaces the order by bytes, and further ones add. *)
WithOption(o, arg) ==
  CASE arg.opt = "--xml"  -> [o EXCEPT !.flags = (@ \ {"REPORT_TXT"}) \cup {"REPORT_XML"}]
    [] arg.opt = "--core" -> [o EXCEPT !.flags = (@ \ {"REPORT_TXT"}) \cup {"JUST_CORE"}]
    [] arg.opt = "-sort"  -> [o EXCEPT !.flags = (@ \ {"byte"}) \cup (arg.names \cap Fields)]
    [] arg.opt = "-u"     -> [o EXCEPT !.users = [given |-> TRUE, ids |-> Ids(arg.names, passwd)]]
    [] arg.opt = "-g"     -> [o EXCEPT !.groups = [given |-> TRUE, ids |-> Ids(arg.names, group)]]
    [] OTHER              -> o

Options(command) ==
  FoldLeft(WithOption,
           [flags  |-> {"byte", "REPORT_TXT"},
            users  |-> [given |-> FALSE, ids |-> {}],
            groups |-> [given |-> FALSE, ids |-> {}]],
           command)

Init ==
  /\ \E command \in Commands :
       LET o == Options(command)
       IN flags = o.flags /\ selected = [users |-> o.users, groups |-> o.groups]
  /\ rest = Files
  /\ t = [k \in Slots |-> Free]
  /\ last = [desc |-> "NULL", key |-> 0]
  /\ owners = {}
  /\ T = NoTotals
  /\ order = [f \in Fields |-> <<>>]
  /\ printed = NoReport
  /\ pc = "walk"
  /\ counted = {}
-----------------------------------------------------------------------------
(* The filter of pfile. *)
Wanted(f) ==
  /\ selected.users.given => f.uid \in selected.users.ids
  /\ selected.groups.given => f.gid \in selected.groups.ids

(* The comma rule is in f.magic.head; then the prefixes, the abbreviations. *)
TypeOf(f) ==
  IF f.magic.prefix # "none" THEN f.magic.prefix
  ELSE IF f.magic.abbriv # "none" THEN f.magic.abbriv ELSE f.magic.head

(* strhash is defined for each type, and none is what ftype_last is before *)
(* the first file.                                                         *)
ASSUME TypesAssumption ==
  \A f \in Files : TypeOf(f) # "NULL" /\ HashOf[TypeOf(f)] \in Nat

Probe(desc, collisions) == (HashOf[desc] + collisions) % ftypes_max
Stops(desc, k) == t[k].nfile = 0 \/ t[k].desc = desc

(* Faulty KeyOf: the first slot that is free or has a file of any type.    *)
KeyOfHash(desc) == IF desc = last.desc THEN last.key ELSE Probe(desc, 0)

(* The slot of the last file if it had this type, else the first that is   *)
(* free or has this type; -1 when all but the last one have other types.   *)
KeyOf(desc) ==
  LET stops == {n \in 0 .. ftypes_max - 2 : Stops(desc, Probe(desc, n))}
  IN IF desc = last.desc THEN last.key
     ELSE IF stops = {} THEN -1 ELSE Probe(desc, Min(stops))

(* The first file of a type; the names of the blocks are left out. *)
FirstFile(f) ==
  LET named == [m \in Measures |-> IF m = "block" THEN "" ELSE f.name]
      value == [m \in Measures |-> f[m]]
  IN [desc |-> TypeOf(f), nfile |-> 1, sum |-> value, min |-> value, max |-> value,
      minf |-> named, maxf |-> named]

OneFileMore(e, f) ==
  [e EXCEPT
     !.nfile = @ + 1,
     !.sum   = [m \in Measures |-> @[m] + f[m]],
     !.min   = [m \in Measures |-> IF f[m] < @[m] THEN f[m] ELSE @[m]],
     !.max   = [m \in Measures |-> IF f[m] > @[m] THEN f[m] ELSE @[m]],
     !.minf  = [m \in Measures |-> IF f[m] < e.min[m] THEN f.name ELSE @[m]],
     !.maxf  = [m \in Measures |-> IF f[m] > e.max[m] THEN f.name ELSE @[m]]]

Walked(f) == pc = "walk" /\ f \in rest /\ rest' = rest \ {f}

(* With --core, and for a file of no selected owner, nothing is counted.   *)
Skip(f) ==
  /\ Walked(f)
  /\ "JUST_CORE" \in flags \/ ~Wanted(f)
  /\ UNCHANGED <<flags, selected, t, last, owners, T, order, printed, pc, counted>>

(* uid_last is not initialized: the owner may be taken for the last one.   *)
Count(f) ==
  /\ Walked(f)
  /\ "JUST_CORE" \notin flags /\ Wanted(f)
  /\ LET k == KeyOf(TypeOf(f))
     IN /\ k # -1
        /\ t' = [t EXCEPT ![k] = IF @.nfile = 0 THEN FirstFile(f) ELSE OneFileMore(@, f)]
        /\ last' = [desc |-> TypeOf(f), key |-> k]
  /\ owners' \in {owners, owners \cup {f.uid}}
  /\ counted' = counted \cup {f}
  /\ UNCHANGED <<flags, selected, T, order, printed, pc>>

(* "ftypes_max exceeded" *)
Exceeded(f) ==
  /\ Walked(f)
  /\ "JUST_CORE" \notin flags /\ Wanted(f)
  /\ KeyOf(TypeOf(f)) = -1
  /\ pc' = "exit"
  /\ UNCHANGED <<flags, selected, t, last, owners, T, order, printed, counted>>
-----------------------------------------------------------------------------
Used == {k \in Slots : t[k].nfile > 0}

(* Faulty AddTotals: the ages of the first type are not copied.            *)
AddTotalsAll(x, e) ==
  [nfile |-> x.nfile + e.nfile,
   sum   |-> [m \in DOMAIN x.sum |-> x.sum[m] + e.sum[m]],
   min   |-> [m \in Measures |-> IF e.min[m] < x.min[m] THEN e.min[m] ELSE x.min[m]],
   max   |-> [m \in Measures |-> IF e.max[m] > x.max[m] THEN e.max[m] ELSE x.max[m]]]

(* The first pass: one slot in use more.  Of the first one the files, the  *)
(* bytes and the ages are copied, and neither the blocks nor the extremes. *)
AddTotals(x, e) ==
  IF x.nfile = 0
  THEN [x EXCEPT !.nfile = e.nfile, !.sum["byte"] = e.sum["byte"],
                 !.min = [@ EXCEPT !["cage"] = e.min["cage"], !["mage"] = e.min["mage"]],
                 !.max = [@ EXCEPT !["cage"] = e.max["cage"], !["mage"] = e.max["mage"]]]
  ELSE [nfile |-> x.nfile + e.nfile,
        sum   |-> [m \in DOMAIN x.sum |-> x.sum[m] + e.sum[m]],
        min   |-> [m \in Measures |-> IF e.min[m] < x.min[m] THEN e.min[m] ELSE x.min[m]],
        max   |-> [m \in Measures |-> IF e.max[m] > x.max[m] THEN e.max[m] ELSE x.max[m]]]

AllSlots == [n \in 1 .. ftypes_max |-> n - 1]

AddSlot(x, k) == IF k \in Used THEN AddTotals(x, t[k]) ELSE x
Totals == FoldLeft(AddSlot, NoTotals, AllSlots)

(* The second pass: the slots in use, in their order, for each field.      *)
PutSlot(s, k) == IF k \in Used THEN Append(s, k) ELSE s
InUse == FoldLeft(PutSlot, <<>>, AllSlots)

(* Does slot j come before slot k?  The ages are averages.                 *)
Precedes(field, j, k) ==
  CASE field = "nfile"             -> t[j].nfile > t[k].nfile
    [] field \in {"byte", "block"} -> t[j].sum[field] > t[k].sum[field]
    [] field \in {"cage", "mage"}  -> t[j].sum[field] * t[k].nfile < t[k].sum[field] * t[j].nfile

(* The third pass: place i of each order is exchanged with those before it *)
(* that it precedes, in turn.                                              *)
Exchanged(field, s, p) ==
  IF Precedes(field, s[p[1]], s[p[2]])
  THEN [s EXCEPT ![p[1]] = s[p[2]], ![p[2]] = s[p[1]]] ELSE s

Exchange(o, p) ==
  [nfile |-> Exchanged("nfile", o.nfile, p), byte |-> Exchanged("byte", o.byte, p),
   block |-> Exchanged("block", o.block, p), cage |-> Exchanged("cage", o.cage, p),
   mage  |-> Exchanged("mage", o.mage, p)]

(* Faulty Settle: a place is compared with the one before it only.         *)
SettleNeighbour(o, i) == FoldLeft(Exchange, o, [j \in 1 .. IF i > 1 THEN 1 ELSE 0 |-> <<i, i - 1>>])

Settle(o, i) == FoldLeft(Exchange, o, [j \in 1 .. i - 1 |-> <<i, j>>])

Sorted == FoldLeft(Settle, [f \in Fields |-> InUse], [i \in DOMAIN InUse |-> i])

(* sort_by: of several fields the last one in this order. *)
SortBy ==
  LET chosen == {n \in 1 .. 5 : <<"byte", "nfile", "block", "cage", "mage">>[n] \in flags}
  IN IF chosen = {} THEN "none" ELSE <<"byte", "nfile", "block", "cage", "mage">>[Max(chosen)]

(* The largest unit that x reaches, 0 if it reaches none.                  *)
UnitOf(x, units) == Max({0} \cup {u \in DOMAIN units : units[u] <= x})

(* x in units of this size, as %.1f prints it.                             *)
Tenths(x, size) ==
  LET n    == (10 * x) \div size
      over == 2 * ((10 * x) % size)
  IN IF over > size \/ (over = size /\ n \in HalfUp) THEN n + 1 ELSE n

(* abs(x) converts a double to int.  If x is none, what it then is depends *)
(* on the build: below 1024 with INT_MIN (wraps), or not.  Below 1024 the  *)
(* figure is printed with %d, which takes an int and is given a double.    *)
human_byte(x, wraps) ==
  LET u == UnitOf(x, ByteUnits)
  IN IF u = 0 \/ (wraps /\ x >= IntLimit) THEN NoFigure
     ELSE [unit |-> u, tenths |-> Tenths(x, ByteUnits[u])]

(* From 1024 TB on nothing is written.                                     *)
Writes(x, wraps) == x < ByteUnits[5] \/ wraps

(* A buffer after the first n of the numbers x were put in it: it has what *)
(* the last one that was written left.                                     *)
Buffer(x, n, wraps) ==
  LET written == {i \in 1 .. n : Writes(x[i], wraps)}
  IN IF written = {} THEN NoFigure ELSE human_byte(x[Max(written)], wraps)

AgeUnits == <<60, 60 * 60, 24 * 60 * 60, 30 * 24 * 60 * 60, 365 * 24 * 60 * 60>>

(* Seconds are printed as an int, and a time to come with a minus sign.    *)
human_age(x) ==
  LET age == IF x < 0 THEN -x ELSE x
      u   == UnitOf(age, AgeUnits)
      n   == IF u = 0 THEN 10 * age ELSE Tenths(age, AgeUnits[u])
  IN [unit |-> u, tenths |-> IF x < 0 THEN -n ELSE n]

(* A line of the text report: under <create> it has the average of mtime,  *)
(* and under <mod> that of ctime; which average it is is given by the sum, *)
(* and its text is left out.                                               *)
TextLine(e, hbyte, hbyte2) ==
  [desc |-> e.desc, nfile |-> e.nfile, byte |-> hbyte, block |-> hbyte2,
   create |-> e.sum["mage"], mod |-> e.sum["cage"]]

(* The heading of the text report and a line per type.  Two buffers go     *)
(* through the bytes and the blocks of all of it.                          *)
files_report_txt(all, s, wraps) ==
  LET bytes     == <<all.sum["byte"], all.max["byte"]>> \o [i \in DOMAIN s |-> t[s[i]].sum["byte"]]
      blocks    == <<all.min["byte"]>> \o [i \in DOMAIN s |-> BlockSize * t[s[i]].sum["block"]]
      hbyte(n)  == Buffer(bytes, n, wraps)
      hbyte2(n) == Buffer(blocks, n, wraps)
  IN [heading |-> [users |-> owners, data |-> hbyte(1), files |-> all.nfile,
                   largest |-> hbyte(2), smallest |-> hbyte2(1),
                   oldest |-> human_age(files_start_t - all.min["cage"]),
                   newest |-> human_age(files_start_t - all.max["cage"])],
      types |-> [i \in DOMAIN s |-> TextLine(t[s[i]], hbyte(i + 2), hbyte2(i + 1))]]

(* What %d prints of a number of 64 bits: the lower half of them.          *)
AsInt(x) == ((x + IntLimit) % (2 * IntLimit)) - IntLimit

(* A type in the XML report; the averages are left out.                    *)
XmlType(e) ==
  [desc |-> e.desc, nfile |-> e.nfile, byte |-> e.sum["byte"], block |-> e.sum["block"],
   min |-> [m \in Measures |-> AsInt(e.min[m])], max |-> [m \in Measures |-> AsInt(e.max[m])],
   minf |-> e.minf, maxf |-> e.maxf]

(* The XML report has no totals. *)
files_report_xml(s) == [heading |-> NoHeading, types |-> [i \in DOMAIN s |-> XmlType(t[s[i]])]]

(* The passes and the report, which needs an order if there is a type.     *)
Report ==
  /\ pc = "walk" /\ rest = {}
  /\ T' = Totals
  /\ order' = Sorted
  /\ IF SortBy = "none" /\ Used # {} /\ flags \cap {"REPORT_TXT", "REPORT_XML"} # {}
     THEN pc' = "crash" /\ UNCHANGED printed
     ELSE /\ pc' = "done"
          /\ LET s == IF SortBy = "none" THEN <<>> ELSE order'[SortBy]
             IN \E wraps \in BOOLEAN :
                  printed' = CASE "REPORT_TXT" \in flags -> files_report_txt(T', s, wraps)
                               [] "REPORT_XML" \in flags -> files_report_xml(s)
                               [] OTHER                  -> NoReport
  /\ UNCHANGED <<flags, selected, rest, t, last, owners, counted>>

Next == \/ \E f \in Files : Skip(f) \/ Count(f) \/ Exceeded(f)
        \/ Report

Spec == Init /\ [][Next]_vars
-----------------------------------------------------------------------------
(***************************************************************************)
(* Correctness.                                                            *)
(***************************************************************************)

OfType(d) == {f \in counted : TypeOf(f) = d}
Sum(S, m) == MapThenSumSet(LAMBDA f : f[m], S)

(* In whatever order the files come and wherever their types collide, the  *)
(* table holds every type that was counted in one slot, with its files,    *)
(* sums and extremes, and with the names of files that have the extremes;  *)
(* and the files walked that are not counted are not wanted.               *)
TableExact ==
  /\ \A d \in {TypeOf(f) : f \in counted} :
       \E k \in Slots :
         /\ {j \in Used : t[j].desc = d} = {k}
         /\ t[k].nfile = Cardinality(OfType(d))
         /\ \A m \in Measures :
              /\ t[k].sum[m] = Sum(OfType(d), m)
              /\ t[k].min[m] = Min({f[m] : f \in OfType(d)})
              /\ t[k].max[m] = Max({f[m] : f \in OfType(d)})
              /\ m # "block" => /\ \E f \in OfType(d) : f.name = t[k].minf[m] /\ f[m] = t[k].min[m]
                                /\ \E f \in OfType(d) : f.name = t[k].maxf[m] /\ f[m] = t[k].max[m]
  /\ \A k \in Used : OfType(t[k].desc) # {}
  /\ pc # "exit" /\ "JUST_CORE" \notin flags => \A f \in (Files \ rest) \ counted : ~Wanted(f)

(* A text says x: to half a tenth of its unit.                             *)
Near(text, x, units) ==
  /\ text.unit \in DOMAIN units
  /\ LET off == 2 * (text.tenths * units[text.unit] - 10 * x)
     IN -units[text.unit] <= off /\ off <= units[text.unit]

(* Of bytes that are more than an int it may say nothing; of less than     *)
(* 1024 it never does; and from 1024 TB on it may be another number's.     *)
SaysBytes(text, x) ==
  /\ x \in ByteUnits[1] .. ByteUnits[5] - 1 => text = NoFigure \/ Near(text, x, ByteUnits)
  /\ x \in ByteUnits[1] .. IntLimit - 1 => text # NoFigure

SaysAge(text, x) == IF text.unit = 0 THEN text.tenths = 10 * x ELSE Near(text, x, AgeUnits)

(* What is a number of 64 bits and what is printed for it agree for ints.  *)
SaysInt(number, x) == x \in -IntLimit .. IntLimit - 1 => number = x

(* The report lists each type once, in the order of the field that was     *)
(* asked for, each with the number of its files.  The XML report has their *)
(* sums and, as far as they are ints, their extremes; the text report says *)
(* the bytes of its files and their blocks, whatever was in the buffers,   *)
(* where its conversion writes a figure at all: for 1024 to 2^31 - 1 in    *)
(* every build, and for more, up to 1024 TB, in some.                      *)
OrderRight ==
  pc = "done" /\ printed # NoReport =>
    LET types   == printed.types
        slot(i) == CHOOSE k \in Used : t[k].desc = types[i].desc
    IN /\ Len(types) = Cardinality(Used)
       /\ {types[i].desc : i \in DOMAIN types} = {TypeOf(f) : f \in counted}
       /\ \A i, j \in DOMAIN types : i < j => ~Precedes(SortBy, slot(j), slot(i))
       /\ \A i \in DOMAIN types :
            LET files == OfType(types[i].desc)
            IN /\ types[i].nfile = Cardinality(files)
               /\ "REPORT_TXT" \in flags =>
                    /\ SaysBytes(types[i].byte, Sum(files, "byte"))
                    /\ SaysBytes(types[i].block, BlockSize * Sum(files, "block"))
               /\ "REPORT_XML" \in flags =>
                    /\ types[i].byte = Sum(files, "byte") /\ types[i].block = Sum(files, "block")
                    /\ \A m \in Measures : /\ SaysInt(types[i].min[m], Min({f[m] : f \in files}))
                                           /\ SaysInt(types[i].max[m], Max({f[m] : f \in files}))

(* The number of files and, as far as they are said at all, the bytes in   *)
(* the heading of the text report are those of all files counted, its ages *)
(* are those of the oldest and the newest of them, and it names no owner   *)
(* of none of them.  (The totals of blocks miss the first type, and so may *)
(* the largest file; the smallest is always the empty one, of which the    *)
(* text says nothing.)                                                     *)
TotalsRight ==
  pc = "done" /\ counted # {} =>
    /\ "REPORT_TXT" \in flags =>
         LET h == printed.heading
         IN /\ h.files = Cardinality(counted)
            /\ SaysBytes(h.data, Sum(counted, "byte"))
            /\ SaysAge(h.oldest, files_start_t - Min({f.cage : f \in counted}))
            /\ SaysAge(h.newest, files_start_t - Max({f.cage : f \in counted}))
            /\ h.users \subseteq {f.uid : f \in counted}
    /\ T.min["mage"] = Min({f.mage : f \in counted})
    /\ T.max["mage"] = Max({f.mage : f \in counted})
=============================================================================
