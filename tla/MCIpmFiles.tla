----------------------------- MODULE MCIpmFiles -----------------------------
(* An instance of IpmFiles for TLC: six files of four types, three of which *)
(* hash to one slot and another to the next.                              *)
EXTENDS IpmFiles

Magic(head) == [head |-> head, prefix |-> "none", abbriv |-> "none"]
File(name, uid, gid, magic, byte, block, cage, mage) ==
  [name |-> name, uid |-> uid, gid |-> gid, magic |-> magic,
   byte |-> byte, block |-> block, cage |-> cage, mage |-> mage]

(* The bytes of a type are below the first unit, in each of the others, or *)
(* no int; the blocks of the directories are beyond the last unit.         *)
SixFiles ==
  {File("f1", 0, 1, Magic("ASCII text"), 380, 2, 19990, 13000),
   File("f2", 7, 1, Magic("ASCII text"), 900, 2, 19937, 18000),
   File("f3", 7, 2, Magic("directory"), 4000, 8, 18200, 11000),
   File("f4", 7, 2, [Magic("symbolic link to x") EXCEPT !.prefix = "symbolic link"], 1, 0, 12000, 12000),
   File("f5", 0, 2, [Magic("perl script text") EXCEPT !.abbriv = "script text"], 40000, 80, 14000, 16000),
   File("f6", 0, 1, Magic("directory"), 4000, 600, 20005, 15000)}

(* Each unit is four of the one before it; IntLimit is two of the third,   *)
(* as 2^31 bytes are 2 GB.                                                 *)
FourUnits == <<1024, 4096, 16384, 65536, 262144>>

FourHashes ==
  [d \in {"ASCII text", "directory", "symbolic link", "script text"} |->
     CASE d = "ASCII text" -> 9 [] d = "directory" -> 6 [] d = "symbolic link" -> 5
       [] OTHER -> 1]

Users == [u \in {"root", "jie"} |-> IF u = "root" THEN 0 ELSE 7]
Groups == [g \in {"nci"} |-> 2]

Opt(opt, names) == [opt |-> opt, names |-> names]
SomeCommands ==
  {<<>>, <<Opt("--xml", {}), Opt("-sort", {"nfile"})>>, <<Opt("-sort", {"block"})>>,
   <<Opt("-sort", {"cage"})>>, <<Opt("-sort", {"cage"}), Opt("-sort", {"mage"})>>,
   <<Opt("-sort", {"size"})>>, <<Opt("--core", {})>>, <<Opt("-v", {}), Opt("-u", {"jie"})>>,
   <<Opt("-u", {"nobody"}), Opt("-g", {"nci"})>>}
=============================================================================
