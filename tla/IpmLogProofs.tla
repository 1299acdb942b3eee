---------------------------- MODULE IpmLogProofs -----------------------------
(***************************************************************************)
(* Theorems about ipm_log, for every number of tasks and all sizes of      *)
(* their sections.                                                         *)
(***************************************************************************)
EXTENDS IpmLog, TLAPS, SequenceTheorems

(* One of the sections ends last. *)
HasEnd(f) == f # {} => \E e \in f : \A p \in f : p.to <= e.to

(* Well typed, with the tasks where the code lets them be.                 *)
TypeInv ==
  /\ TypeOK
  /\ inside \in [Ranks -> BOOLEAN]
  /\ \A r \in Ranks :
       /\ at[r] = "received" => r # Last
       /\ at[r] = "offset" => mpi_size > 1
       /\ at[r] \in {"ask", "gather"} =>
            r = 0 /\ i \in 1 .. mpi_size - 1
  /\ \A m \in msgs : m.type = "structs" => m.data \in Ranks
  /\ HasEnd(file)

(* The places, one by one.                                                 *)
LEMMA PlacesAre ==
  Places = {"enter", "offset", "sent", "received", "serial", "ask", "gather", "answered",
            "done", "crashed", "alloc", "deleted", "open", "write", "close", "closed",
            "gathered"}
BY DEF Places, Kind

(* The tasks are numbered from 0; each but the last has one after it.      *)
LEMMA RanksAre ==
  /\ 0 \in Ranks
  /\ \A r \in Ranks : r \in Nat /\ r < mpi_size /\ (r # Last => r + 1 \in Ranks)
  /\ Last \in Ranks
  /\ Ranks \subseteq Nat
BY SizeAssumption DEF Ranks, Last

(* A section is as long as the task's buffer says.                         *)
LEMMA SectionType ==
  ASSUME TypeOK, NEW r \in Ranks, NEW n \in Nat
  PROVE  /\ Section(r, n) \in [rank : Ranks, from : Nat, to : Nat]
         /\ Section(r, n).rank = r /\ Section(r, n).from = n
         /\ Section(r, n).to = n + buff_size[r]
         /\ buff_size[r] \in Nat \ {0}
<1>1. buff_size[r] \in Nat \ {0}
  BY SizesAssumption DEF TypeOK
<1>. QED
  BY <1>1 DEF Section

(* The sections of a file that was written have an end.                    *)
LEMMA FileEndIs ==
  ASSUME TypeOK, NEW e \in file, \A p \in file : p.to <= e.to
  PROVE  FileEnd = e.to /\ FileEnd \in Nat
<1>1. \A p \in file : p.to \in Nat
  BY DEF TypeOK
<1>. DEFINE S == {0} \cup {p.to : p \in file}
            Bounds(n) == \A p \in file : p.to <= n
<1>2. e.to \in S /\ Bounds(e.to)
  OBVIOUS
<1>3. ASSUME NEW n \in S, Bounds(n) PROVE n = e.to
  BY <1>1, <1>3
<1>4. FileEnd = CHOOSE n \in S : Bounds(n)
  BY DEF FileEnd
<1>5. e.to \in Nat
  BY <1>1
<1>. HIDE DEF S, Bounds
<1>. QED
  BY <1>2, <1>3, <1>4, <1>5

(* A file with one more section has an end too.                            *)
LEMMA AddSection ==
  ASSUME TypeOK, HasEnd(file), NEW p \in [rank : Ranks, from : Nat, to : Nat]
  PROVE  HasEnd(file \cup {p}) /\ FileEnd \in Nat
<1>1. CASE file = {}
  <2>1. p.to <= p.to
    OBVIOUS
  <2>2. {0} \cup {q.to : q \in file} = {0}
    BY <1>1
  <2>3. FileEnd = 0
    BY <1>1, <2>2 DEF FileEnd
  <2>. QED
    BY <1>1, <2>1, <2>3 DEF HasEnd
<1>2. CASE file # {}
  <2>1. PICK e \in file : \A q \in file : q.to <= e.to
    BY <1>2 DEF HasEnd
  <2>2. e.to \in Nat /\ p.to \in Nat /\ \A q \in file : q.to \in Nat
    BY DEF TypeOK
  <2>3. \E x \in file \cup {p} : \A q \in file \cup {p} : q.to <= x.to
    <3>1. CASE p.to <= e.to
      BY <2>1, <3>1
    <3>2. CASE e.to <= p.to
      <4>1. \A q \in file : q.to <= p.to
        BY <2>1, <2>2, <3>2
      <4>2. p.to <= p.to
        BY <2>2
      <4>. QED
        BY <4>1, <4>2
    <3>. QED
      BY <2>2, <3>1, <3>2
  <2>. QED
    BY <2>1, <2>3, FileEndIs DEF HasEnd
<1>. QED
  BY <1>1, <1>2

(* What the three kinds of message are made of.                            *)
LEMMA MessageTypes ==
  /\ \A r \in Ranks : r # Last => \A n \in Nat :
       /\ OffsetMsg(r, n) \in [type : {"token", "offset", "structs"}, from : Ranks,
                              to : Ranks, data : Nat]
       /\ OffsetMsg(r, n).type = "offset"
  /\ \A r \in Ranks :
       /\ Token(r) \in [type : {"token", "offset", "structs"}, from : Ranks,
                        to : Ranks, data : Nat]
       /\ Token(r).type = "token"
       /\ Answer(r) \in [type : {"token", "offset", "structs"}, from : Ranks,
                         to : Ranks, data : Nat]
       /\ Answer(r).type = "structs" /\ Answer(r).data = r /\ Answer(r).from = r
BY RanksAre DEF OffsetMsg, Token, Answer

(* Every reachable state is well typed; a task that is not the last, and   *)
(* only such a task, passes an offset on.                                  *)
THEOREM TypeInvariant == Spec => []TypeInv
<1>1. Init => TypeInv
  BY RanksAre, PlacesAre, SizeAssumption
  DEF Init, InitCollectives, TypeInv, TypeOK, HasEnd
<1>2. TypeInv /\ [Next]_vars => TypeInv'
  <2>. SUFFICES ASSUME TypeInv, [Next]_vars PROVE TypeInv'
    OBVIOUS
  <2>. USE RanksAre, PlacesAre DEF TypeInv, TypeOK, Goto, given, CallOp, ReturnOp
  <2>1. ASSUME NEW r \in Ranks, Enter(r) PROVE TypeInv'
    BY <2>1 DEF Enter
  <2>2. ASSUME NEW r \in Ranks, CallAlloc(r) PROVE TypeInv'
    BY <2>2 DEF CallAlloc
  <2>3. ASSUME NEW r \in Ranks, ReturnAlloc(r) PROVE TypeInv'
    BY <2>3 DEF ReturnAlloc
  <2>4. ASSUME NEW r \in Ranks, CallDeleted(r) PROVE TypeInv'
    BY <2>4 DEF CallDeleted
  <2>5. ASSUME NEW r \in Ranks, CallPlain(r) PROVE TypeInv'
    BY <2>5 DEF CallPlain
  <2>6. ASSUME NEW r \in Ranks, ReturnOpen(r) PROVE TypeInv'
    BY <2>6 DEF ReturnOpen
  <2>7. ASSUME NEW r \in Ranks, SendOffset(r) PROVE TypeInv'
    <3>1. r # Last
      BY <2>7, SizeAssumption DEF SendOffset, Last
    <3>2. buff_size[r] \in Nat /\ offset[r] \in Nat
      BY SizesAssumption
    <3>3. offset[r] + buff_size[r] \in Nat
      BY <3>2
    <3>. QED
      BY <2>7, <3>1, <3>3, MessageTypes DEF SendOffset
  <2>8. ASSUME NEW r \in Ranks, RecvOffset(r) PROVE TypeInv'
    BY <2>8 DEF RecvOffset, AfterOffset
  <2>9. ASSUME NEW r \in Ranks, ReturnSend(r) PROVE TypeInv'
    BY <2>9 DEF ReturnSend
  <2>10. ASSUME NEW r \in Ranks, CallWrite(r) PROVE TypeInv'
    <3>1. Section(r, offset[r]) \in [rank : Ranks, from : Nat, to : Nat]
      BY SectionType
    <3>2. HasEnd(file')
      BY <2>10, <3>1, AddSection DEF CallWrite
    <3>. QED
      BY <2>10, <3>1, <3>2 DEF CallWrite
  <2>11. ASSUME NEW r \in Ranks, ReturnPlain(r) PROVE TypeInv'
    BY <2>11 DEF ReturnPlain
  <2>12. ASSUME NEW r \in Ranks, OpenSerial(r) PROVE TypeInv'
    <3>1. Section(task, 0) \in [rank : Ranks, from : Nat, to : Nat]
      BY SectionType
    <3>2. file' = {Section(task, 0)} /\ i' = 1
          /\ at' = [at EXCEPT ![r] = IF 1 < mpi_size THEN "ask" ELSE "gathered"]
      BY <2>12 DEF OpenSerial, NextTask
    <3>3. HasEnd(file')
      <4>1. Section(task, 0).to \in Nat
        BY <3>1
      <4>. QED
        BY <3>2, <4>1 DEF HasEnd
    <3>4. r = 0 /\ 1 \in 0 .. mpi_size /\ (1 < mpi_size => 1 \in 1 .. mpi_size - 1)
      BY <2>12, SizeAssumption DEF OpenSerial
    <3>5. /\ inside' = inside /\ env' = env /\ buff_size' = buff_size /\ msgs' = msgs
          /\ buffer' = buffer /\ offset' = offset /\ old' = FALSE /\ task' = task
      BY <2>12 DEF OpenSerial
    <3>6. file' \subseteq [rank : Ranks, from : Nat, to : Nat]
      BY <3>1, <3>2
    <3>. QED
      BY <3>2, <3>3, <3>4, <3>5, <3>6
  <2>13. ASSUME NEW r \in Ranks, OpenSerialFails(r) PROVE TypeInv'
    BY <2>13 DEF OpenSerialFails
  <2>14. ASSUME NEW r \in Ranks, AskTask(r) PROVE TypeInv'
    <3>1. r = 0 /\ i \in Ranks
      BY <2>14 DEF AskTask, Ranks
    <3>. QED
      BY <2>14, <3>1, MessageTypes DEF AskTask
  <2>15. ASSUME NEW r \in Ranks, AnswerTask(r) PROVE TypeInv'
    <3>1. msgs' \subseteq [type : {"token", "offset", "structs"}, from : Ranks, to : Ranks,
                         data : Nat]
      BY <2>15, MessageTypes DEF AnswerTask
    <3>2. \A m \in msgs' : m.type = "structs" => m.data \in Ranks
      BY <2>15, MessageTypes DEF AnswerTask
    <3>3. /\ inside' = inside /\ env' = env /\ buff_size' = buff_size /\ i' = i
          /\ buffer' = buffer /\ offset' = offset /\ old' = old /\ task' = task
          /\ file' = file /\ at' = [at EXCEPT ![r] = "answered"]
      BY <2>15 DEF AnswerTask
    <3>. QED
      BY <3>1, <3>2, <3>3
  <2>16. ASSUME NEW r \in Ranks, GatherTask(r) PROVE TypeInv'
    <3>1. PICK m \in msgs : /\ m.type = "structs" /\ m.from = i
                            /\ msgs' = msgs \ {m} /\ task' = m.data
      BY <2>16 DEF GatherTask
    <3>2. task' \in Ranks /\ r = 0 /\ i \in 1 .. mpi_size - 1
      BY <2>16, <3>1 DEF GatherTask
    <3>3. FileEnd \in Nat
      BY SectionType, AddSection
    <3>. DEFINE new == Section(task', FileEnd)
    <3>4. new \in [rank : Ranks, from : Nat, to : Nat]
      BY <3>2, <3>3, SectionType
    <3>5. file' = file \cup {new}
      BY <2>16 DEF GatherTask
    <3>. HIDE DEF new
    <3>6. HasEnd(file')
      BY <3>4, <3>5, AddSection
    <3>7. /\ at' = [at EXCEPT ![r] = IF i + 1 < mpi_size THEN "ask" ELSE "gathered"]
          /\ i' = i + 1
          /\ i + 1 \in 0 .. mpi_size
          /\ i + 1 < mpi_size => i + 1 \in 1 .. mpi_size - 1
      BY <2>16, <3>2, SizeAssumption DEF GatherTask, NextTask
    <3>8. /\ inside' = inside /\ env' = env /\ buff_size' = buff_size
          /\ buffer' = buffer /\ offset' = offset /\ old' = old
      BY <2>16 DEF GatherTask
    <3>. QED
      BY <3>1, <3>2, <3>4, <3>5, <3>6, <3>7, <3>8
  <2>17. CASE UNCHANGED vars
    BY <2>17 DEF vars
  <2>. QED
    BY <2>1, <2>2, <2>3, <2>4, <2>5, <2>6, <2>7, <2>8, <2>9, <2>10, <2>11, <2>12, <2>13,
       <2>14, <2>15, <2>16, <2>17 DEF Next, Step
<1>. QED
  BY <1>1, <1>2, PTL DEF Spec

(***************************************************************************)
(* All tasks take the same of the two ways, and so call the same           *)
(* collective operations.                                                  *)
(***************************************************************************)

(* All tasks have a buffer, and may write in parallel.                     *)
Parallel == env.parallel /\ \A q \in Ranks : buffer[q]

ParallelPlaces == {"deleted", "open", "offset", "received", "sent", "write", "close", "closed"}
SerialPlaces == {"serial", "ask", "gather", "answered", "gathered"}
CallPlaces == {"alloc", "deleted", "open", "write", "close", "closed", "gathered"}

Kinds == {"allreduce", "barrier", "open", "write_all", "close"}

(* The operations that a task at a place has called and that have returned. *)
Before(place) ==
  CASE place \in {"enter", "alloc"}                       -> 0
    [] place = "deleted"                                  -> 1
    [] place = "open"                                     -> 2
    [] place \in {"offset", "received", "sent", "write"}  -> 3
    [] place = "close"                                    -> 4
    [] place = "closed"                                   -> 5
    [] place \in SerialPlaces                             -> IF env.parallel THEN 1 ELSE 0
    [] OTHER                                              -> 0

(* The n-th operation of every task. *)
KindAt(n) ==
  CASE n = 1 -> IF env.parallel THEN "allreduce" ELSE "barrier"
    [] n = 2 -> "barrier"
    [] n = 3 -> "open"
    [] n = 4 -> "write_all"
    [] n = 5 -> "close"
    [] OTHER -> "barrier"

Mode(r) ==
  /\ at[r] = "alloc" => env.parallel
  /\ at[r] \in ParallelPlaces => Parallel
  /\ at[r] \in SerialPlaces => ~Parallel
  /\ inside[r] => at[r] \in CallPlaces

Calls(r) ==
  /\ \A n \in 1 .. Len(ops[r]) : ops[r][n].kind = KindAt(n)
  /\ env.parallel /\ Len(ops[r]) >= 1 => ops[r][1].data = buffer[r]
  /\ at[r] \notin {"done", "crashed"} =>
       Len(ops[r]) = Before(at[r]) + (IF inside[r] THEN 1 ELSE 0)

ModeInv ==
  /\ ops \in [Ranks -> Seq([kind : Kinds, data : BOOLEAN])]
  /\ \A r \in Ranks : Mode(r) /\ Calls(r)

(* The operation at each place.                                            *)
LEMMA KindIs ==
  /\ Kind["alloc"] = "allreduce" /\ Kind["deleted"] = "barrier" /\ Kind["open"] = "open"
  /\ Kind["write"] = "write_all" /\ Kind["close"] = "close" /\ Kind["closed"] = "barrier"
  /\ Kind["gathered"] = "barrier"
BY DEF Kind

(* The number of operations before a place is a number.                    *)
LEMMA BeforeType == \A place : Before(place) \in Nat
BY DEF Before

(* The number of operations before each place.                             *)
LEMMA BeforeIs ==
  /\ Before("enter") = 0 /\ Before("alloc") = 0
  /\ Before("deleted") = 1 /\ Before("open") = 2
  /\ Before("offset") = 3 /\ Before("received") = 3 /\ Before("sent") = 3
  /\ Before("write") = 3 /\ Before("close") = 4 /\ Before("closed") = 5
  /\ \A place \in SerialPlaces : Before(place) = IF env.parallel THEN 1 ELSE 0
BY DEF Before, SerialPlaces

(* The kind of the next operation of a task at a place.                    *)
Expected(place) == KindAt(Before(place) + 1)

(* The operation that belongs to each place.                               *)
LEMMA ExpectedIs ==
  /\ env.parallel => Expected("alloc") = "allreduce"
  /\ Expected("deleted") = "barrier" /\ Expected("open") = "open"
  /\ Expected("write") = "write_all" /\ Expected("close") = "close"
  /\ Expected("closed") = "barrier" /\ Expected("gathered") = "barrier"
BY DEF Expected, Before, KindAt, SerialPlaces

(* The position of the operation at each place.                            *)
LEMMA NextIs ==
  /\ Before("alloc") + 1 = 1 /\ Before("deleted") + 1 = 2 /\ Before("open") + 1 = 3
  /\ Before("write") + 1 = 4 /\ Before("close") + 1 = 5 /\ Before("closed") + 1 = 6
  /\ Before("gathered") + 1 = IF env.parallel THEN 2 ELSE 1
BY DEF Before, SerialPlaces

(* The operation at each position.                                         *)
LEMMA KindAtIs ==
  /\ KindAt(1) = IF env.parallel THEN "allreduce" ELSE "barrier"
  /\ KindAt(2) = "barrier" /\ KindAt(3) = "open" /\ KindAt(4) = "write_all"
  /\ KindAt(5) = "close" /\ KindAt(6) = "barrier"
BY DEF KindAt

(* A call of the operation that belongs to the place of the task.          *)
LEMMA CallKeepsMode ==
  ASSUME TypeInv, ModeInv, NEW r \in Ranks, NEW kind \in Kinds, NEW data \in BOOLEAN,
         CallOp(r, kind, data), UNCHANGED <<given, at>>,
         at[r] \in CallPlaces, kind = Expected(at[r]),
         at[r] = "alloc" => data = buffer[r]
  PROVE  ModeInv'
<1>. DEFINE x == [kind |-> kind, data |-> data]
            C == [kind : Kinds, data : BOOLEAN]
<1>1. /\ ops' = [ops EXCEPT ![r] = Append(ops[r], x)] /\ ~inside[r]
      /\ inside' = [inside EXCEPT ![r] = TRUE]
      /\ at' = at /\ env' = env /\ buffer' = buffer
  BY DEF CallOp, given
<1>2. x \in C /\ x.kind = kind /\ x.data = data
  OBVIOUS
<1>3. inside \in [Ranks -> BOOLEAN] /\ ops \in [Ranks -> Seq(C)]
  BY DEF TypeInv, ModeInv
<1>. HIDE DEF x, C
<1>4. /\ Append(ops[r], x) \in Seq(C)
      /\ Len(Append(ops[r], x)) = Len(ops[r]) + 1
      /\ \A n \in 1 .. Len(ops[r]) : Append(ops[r], x)[n] = ops[r][n]
      /\ Append(ops[r], x)[Len(ops[r]) + 1] = x
      /\ Len(ops[r]) \in Nat
  BY <1>2, <1>3, AppendProperties, LenProperties
<1>5. /\ ops' \in [Ranks -> Seq(C)]
      /\ ops'[r] = Append(ops[r], x)
      /\ \A q \in Ranks \ {r} : ops'[q] = ops[q] /\ inside'[q] = inside[q]
      /\ inside'[r]
  BY <1>1, <1>3, <1>4
<1>6. Len(ops[r]) = Before(at[r])
  BY <1>1, BeforeType DEF ModeInv, Calls, CallPlaces
<1>7. (\A q \in Ranks : Mode(q))'
  BY <1>1, <1>5 DEF ModeInv, Mode, Parallel
<1>8. ASSUME NEW q \in Ranks \ {r} PROVE Calls(q)'
  BY <1>1, <1>5 DEF ModeInv, Calls, KindAt, Before
<1>9. Calls(r)'
  <2>1. \A n \in 1 .. Len(ops'[r]) : ops'[r][n].kind = KindAt(n)
    <3>1. \A n \in 1 .. Len(ops[r]) : ops[r][n].kind = KindAt(n)
      BY DEF ModeInv, Calls
    <3>2. kind = KindAt(Len(ops[r]) + 1)
      BY <1>6 DEF Expected
    <3>. QED
      BY <1>2, <1>4, <1>5, <3>1, <3>2
  <2>2. env.parallel => ops'[r][1].data = buffer[r]
    <3>1. CASE Len(ops[r]) = 0
      <4>1. Before("deleted") # 0 /\ Before("open") # 0 /\ Before("write") # 0
            /\ Before("close") # 0 /\ Before("closed") # 0
        BY BeforeIs
      <4>2. env.parallel => Before("gathered") # 0
        BY BeforeIs DEF SerialPlaces
      <4>3. env.parallel => at[r] = "alloc"
        BY <1>6, <3>1, <4>1, <4>2 DEF CallPlaces
      <4>. QED
        BY <1>2, <1>4, <1>5, <3>1, <4>3
    <3>2. CASE Len(ops[r]) >= 1
      BY <1>4, <1>5, <3>2 DEF ModeInv, Calls
    <3>. QED
      BY <1>4, <3>1, <3>2
  <2>3. \A n : KindAt(n)' = KindAt(n)
    BY <1>1 DEF KindAt
  <2>4. Before(at[r])' = Before(at[r])
    BY <1>1 DEF Before
  <2>. QED
    BY <1>1, <1>4, <1>5, <1>6, <2>1, <2>2, <2>3, <2>4 DEF Calls
<1>. QED
  BY <1>5, <1>7, <1>8, <1>9 DEF ModeInv, C

(* A task that goes on to another place with no operation outstanding.     *)
LEMMA MoveKeepsMode ==
  ASSUME TypeInv, ModeInv, NEW r \in Ranks, NEW place \in Places,
         UNCHANGED <<ops, given>>, at' = [at EXCEPT ![r] = place],
         inside' = [inside EXCEPT ![r] = FALSE],
         place \notin {"done", "crashed"} => Len(ops[r]) = Before(place),
         place = "alloc" => env.parallel,
         place \in ParallelPlaces => Parallel,
         place \in SerialPlaces => ~Parallel
  PROVE  ModeInv'
<1>1. /\ ops' = ops /\ env' = env /\ buffer' = buffer
      /\ inside \in [Ranks -> BOOLEAN] /\ at \in [Ranks -> Places]
  BY DEF given, TypeInv, TypeOK
<1>2. /\ at'[r] = place /\ ~inside'[r]
      /\ \A q \in Ranks \ {r} : at'[q] = at[q] /\ inside'[q] = inside[q]
  BY <1>1
<1>3. /\ Parallel' = Parallel
      /\ \A p : Before(p)' = Before(p)
      /\ \A n : KindAt(n)' = KindAt(n)
  BY <1>1 DEF Parallel, Before, KindAt
<1>4. ASSUME NEW q \in Ranks \ {r} PROVE Mode(q)' /\ Calls(q)'
  BY <1>1, <1>2, <1>3 DEF ModeInv, Mode, Calls
<1>5. Mode(r)'
  BY <1>1, <1>2, <1>3 DEF Mode
<1>6. Calls(r)'
  <2>1. Len(ops[r]) \in Nat
    BY LenProperties DEF ModeInv
  <2>. QED
    BY <1>1, <1>2, <1>3, <2>1 DEF Calls, ModeInv
<1>. QED
  BY <1>1, <1>4, <1>5, <1>6 DEF ModeInv

(* Where a task may be between two operations.                             *)
LEMMA BetweenCalls ==
  ASSUME TypeInv, ModeInv, NEW r \in Ranks
  PROVE  /\ at[r] \notin CallPlaces =>
              /\ inside = [inside EXCEPT ![r] = FALSE]
              /\ at[r] \notin {"done", "crashed"} => Len(ops[r]) = Before(at[r])
         /\ ReturnOp(r) =>
              /\ inside' = [inside EXCEPT ![r] = FALSE]
              /\ ops' = ops
              /\ Len(ops[r]) = Before(at[r]) + 1
<1>1. inside \in [Ranks -> BOOLEAN] /\ Before(at[r]) \in Nat
  BY BeforeType DEF TypeInv
<1>2. inside[r] => at[r] \in CallPlaces
  BY DEF ModeInv, Mode
<1>3. at[r] \notin {"done", "crashed"} =>
        Len(ops[r]) = Before(at[r]) + (IF inside[r] THEN 1 ELSE 0)
  BY DEF ModeInv, Calls
<1>4. at[r] \notin CallPlaces =>
        /\ inside = [inside EXCEPT ![r] = FALSE]
        /\ at[r] \notin {"done", "crashed"} => Len(ops[r]) = Before(at[r])
  BY <1>1, <1>2, <1>3
<1>5. ReturnOp(r) =>
        /\ inside' = [inside EXCEPT ![r] = FALSE]
        /\ ops' = ops
        /\ Len(ops[r]) = Before(at[r]) + 1
  BY <1>1, <1>2, <1>3 DEF ReturnOp, CallPlaces
<1>. QED
  BY <1>4, <1>5

(* The tasks agree on whether all of them have a buffer.                   *)
LEMMA Agreement ==
  ASSUME TypeInv, ModeInv, NEW r \in Ranks, at[r] = "alloc", ReturnOp(r)
  PROVE  AllocationSucceeded(r) <=> Parallel
<1>1. env.parallel
  BY DEF ModeInv, Mode
<1>2. Len(ops[r]) = 1
  <2>1. Before(at[r]) + 1 = 1
    BY NextIs
  <2>. QED
    BY <2>1, BetweenCalls
<1>3. ops[r][1].kind = "allreduce"
  <2>1. KindAt(1) = "allreduce"
    BY <1>1, KindAtIs
  <2>2. \A n \in 1 .. Len(ops[r]) : ops[r][n].kind = KindAt(n)
    BY DEF ModeInv, Calls
  <2>3. 1 \in 1 .. Len(ops[r])
    BY <1>2
  <2>. QED
    BY <2>1, <2>2, <2>3
<1>4. AllCalled(r)
  BY <1>2, <1>3 DEF ReturnOp, Position
<1>5. \A q \in Ranks : ops[q][1].data = buffer[q]
  BY <1>1, <1>2, <1>4 DEF AllCalled, Called, Position, ModeInv, Calls
<1>6. \A q \in Ranks : DataOf(q, r) = buffer[q]
  BY <1>2, <1>5 DEF DataOf, Position
<1>. QED
  BY <1>1, <1>6 DEF AllocationSucceeded, Parallel

(* Either all tasks write in parallel or none does, and each calls the     *)
(* operations of its way in their order.                                   *)
THEOREM ModeInvariant == Spec => []ModeInv
<1>1. Init => ModeInv
  <2>. SUFFICES ASSUME Init PROVE ModeInv
    OBVIOUS
  <2>1. ops = [r \in Ranks |-> <<>>] /\ inside = [r \in Ranks |-> FALSE]
        /\ at = [r \in Ranks |-> "enter"]
    BY DEF Init, InitCollectives
  <2>2. <<>> \in Seq([kind : Kinds, data : BOOLEAN]) /\ Len(<<>>) = 0
    OBVIOUS
  <2>3. Before("enter") = 0
    BY BeforeIs
  <2>. QED
    BY <2>1, <2>2, <2>3
    DEF ModeInv, Mode, Calls, ParallelPlaces, SerialPlaces
<1>2. TypeInv /\ ModeInv /\ [Next]_vars => ModeInv'
  <2>. SUFFICES ASSUME TypeInv, ModeInv, [Next]_vars PROVE ModeInv'
    OBVIOUS
  <2>. USE PlacesAre DEF Goto
  <2>1. ASSUME NEW r \in Ranks, Enter(r) PROVE ModeInv'
    <3>. DEFINE place == CASE env.devnull -> "done"
                           [] env.parallel /\ ~env.devnull -> "alloc"
                           [] OTHER -> "serial"
    <3>1. /\ at[r] = "enter" /\ at' = [at EXCEPT ![r] = place]
          /\ UNCHANGED <<ops, inside, given>>
      BY <2>1 DEF Enter
    <3>2. place \in {"done", "alloc", "serial"}
          /\ (place = "alloc" => env.parallel) /\ (place = "serial" => ~env.parallel)
      OBVIOUS
    <3>. HIDE DEF place
    <3>3. inside' = [inside EXCEPT ![r] = FALSE] /\ Len(ops[r]) = 0
      BY <3>1, BetweenCalls, BeforeIs DEF CallPlaces
    <3>4. place # "done" => Before(place) = 0
      BY <3>2, BeforeIs DEF SerialPlaces
    <3>. QED
      BY <3>1, <3>2, <3>3, <3>4, MoveKeepsMode DEF ParallelPlaces, SerialPlaces, Parallel
  <2>2. ASSUME NEW r \in Ranks, CallAlloc(r) PROVE ModeInv'
    <3>1. /\ at[r] = "alloc" /\ CallOp(r, "allreduce", buffer[r]) /\ env.parallel
          /\ UNCHANGED <<given, at>> /\ buffer[r] \in BOOLEAN
      BY <2>2 DEF CallAlloc, ModeInv, Mode, TypeInv, TypeOK
    <3>2. "allreduce" = Expected(at[r]) /\ Expected(at[r]) \in Kinds
      BY <3>1, ExpectedIs DEF Kinds
    <3>3. at[r] \in CallPlaces
      BY <3>1 DEF CallPlaces
    <3>. QED
      BY <3>1, <3>2, <3>3, CallKeepsMode
  <2>3. ASSUME NEW r \in Ranks, ReturnAlloc(r) PROVE ModeInv'
    <3>. DEFINE place == IF AllocationSucceeded(r) THEN "deleted" ELSE "serial"
    <3>1. /\ at[r] = "alloc" /\ ReturnOp(r) /\ at' = [at EXCEPT ![r] = place]
          /\ UNCHANGED given /\ env.parallel
      BY <2>3 DEF ReturnAlloc, ModeInv, Mode
    <3>2. place \in {"deleted", "serial"} /\ (place = "deleted" <=> Parallel)
      BY <3>1, Agreement
    <3>. HIDE DEF place
    <3>3. inside' = [inside EXCEPT ![r] = FALSE] /\ ops' = ops /\ Len(ops[r]) = 1
      <4>1. Before(at[r]) + 1 = 1
        BY <3>1, NextIs
      <4>. QED
        BY <3>1, <4>1, BetweenCalls
    <3>4. Before(place) = 1
      BY <3>1, <3>2, BeforeIs DEF SerialPlaces
    <3>. QED
      BY <3>1, <3>2, <3>3, <3>4, MoveKeepsMode DEF ParallelPlaces, SerialPlaces
  <2>4. ASSUME NEW r \in Ranks, CallDeleted(r) PROVE ModeInv'
    <3>1. /\ at[r] = "deleted" /\ CallOp(r, "barrier", TRUE) /\ UNCHANGED <<given, at>>
      BY <2>4 DEF CallDeleted
    <3>2. "barrier" = Expected(at[r]) /\ Expected(at[r]) \in Kinds
      BY <3>1, ExpectedIs DEF Kinds
    <3>3. at[r] \in CallPlaces
      BY <3>1 DEF CallPlaces
    <3>. QED
      BY <3>1, <3>2, <3>3, CallKeepsMode
  <2>5. ASSUME NEW r \in Ranks, CallPlain(r) PROVE ModeInv'
    <3>1. /\ at[r] \in {"open", "close", "closed", "gathered"}
          /\ CallOp(r, Kind[at[r]], TRUE) /\ UNCHANGED <<given, at>>
      BY <2>5 DEF CallPlain
    <3>2. Kind[at[r]] = Expected(at[r]) /\ Kind[at[r]] \in Kinds
      BY <3>1, KindIs, ExpectedIs DEF Kinds
    <3>. QED
      BY <3>1, <3>2, CallKeepsMode DEF CallPlaces
  <2>6. ASSUME NEW r \in Ranks, CallWrite(r) PROVE ModeInv'
    <3>1. /\ at[r] = "write" /\ CallOp(r, "write_all", TRUE) /\ UNCHANGED <<given, at>>
      BY <2>6 DEF CallWrite
    <3>2. "write_all" = Expected(at[r]) /\ Expected(at[r]) \in Kinds
      BY <3>1, ExpectedIs DEF Kinds
    <3>3. at[r] \in CallPlaces
      BY <3>1 DEF CallPlaces
    <3>. QED
      BY <3>1, <3>2, <3>3, CallKeepsMode
  <2>7. ASSUME NEW r \in Ranks, ReturnOpen(r) PROVE ModeInv'
    <3>. DEFINE place == CASE ~env.opens -> "done"
                           [] env.opens /\ mpi_size > 1 -> "offset"
                           [] OTHER -> "write"
    <3>1. /\ at[r] = "open" /\ ReturnOp(r) /\ at' = [at EXCEPT ![r] = place]
          /\ UNCHANGED given
      BY <2>7 DEF ReturnOpen
    <3>2. place \in {"done", "offset", "write"} /\ Parallel
      BY <3>1 DEF ModeInv, Mode, ParallelPlaces
    <3>. HIDE DEF place
    <3>3. inside' = [inside EXCEPT ![r] = FALSE] /\ ops' = ops /\ Len(ops[r]) = 3
      <4>1. Before(at[r]) + 1 = 3
        BY <3>1, NextIs
      <4>. QED
        BY <3>1, <4>1, BetweenCalls
    <3>4. place # "done" => Before(place) = 3
      BY <3>2, BeforeIs
    <3>. QED
      BY <3>1, <3>2, <3>3, <3>4, MoveKeepsMode DEF ParallelPlaces, SerialPlaces
  <2>8. ASSUME NEW r \in Ranks, NEW place \in {"sent", "received", "write"},
               at[r] \in {"offset", "received", "sent"}, UNCHANGED <<ops, inside, given>>,
               at' = [at EXCEPT ![r] = place]
        PROVE  ModeInv'
    <3>1. Parallel
      BY <2>8 DEF ModeInv, Mode, ParallelPlaces
    <3>2. inside' = [inside EXCEPT ![r] = FALSE] /\ Len(ops[r]) = 3
      BY <2>8, BetweenCalls, BeforeIs DEF CallPlaces
    <3>3. Before(place) = 3
      BY <2>8, BeforeIs
    <3>. QED
      BY <2>8, <3>1, <3>2, <3>3, MoveKeepsMode DEF ParallelPlaces, SerialPlaces
  <2>9. ASSUME NEW r \in Ranks, NEW place \in SerialPlaces,
               at[r] \in {"serial", "ask", "gather", "answered"},
               UNCHANGED <<ops, inside, given>>, at' = [at EXCEPT ![r] = place]
        PROVE  ModeInv'
    <3>1. ~Parallel
      BY <2>9 DEF ModeInv, Mode, SerialPlaces
    <3>2. /\ inside' = [inside EXCEPT ![r] = FALSE]
          /\ Len(ops[r]) = IF env.parallel THEN 1 ELSE 0
      BY <2>9, BetweenCalls, BeforeIs DEF CallPlaces, SerialPlaces
    <3>3. Before(place) = IF env.parallel THEN 1 ELSE 0
      BY <2>9, BeforeIs DEF SerialPlaces
    <3>4. place \in Places /\ place \notin ParallelPlaces /\ place # "alloc"
      BY DEF SerialPlaces, ParallelPlaces
    <3>. QED
      BY <2>9, <3>1, <3>2, <3>3, <3>4, MoveKeepsMode
  <2>10. ASSUME NEW r \in Ranks, SendOffset(r) PROVE ModeInv'
    BY <2>8, <2>10 DEF SendOffset
  <2>11. ASSUME NEW r \in Ranks, RecvOffset(r) PROVE ModeInv'
    BY <2>8, <2>11 DEF RecvOffset, AfterOffset
  <2>12. ASSUME NEW r \in Ranks, ReturnSend(r) PROVE ModeInv'
    BY <2>8, <2>9, <2>12 DEF ReturnSend, SerialPlaces
  <2>13. ASSUME NEW r \in Ranks, ReturnPlain(r) PROVE ModeInv'
    <3>. DEFINE place == CASE at[r] = "deleted" -> "open"
                           [] at[r] = "write" -> "close"
                           [] at[r] = "close" -> "closed"
                           [] OTHER -> "done"
    <3>1. /\ at[r] \in {"deleted", "write", "close", "closed", "gathered"}
          /\ ReturnOp(r) /\ at' = [at EXCEPT ![r] = place] /\ UNCHANGED given
      BY <2>13 DEF ReturnPlain
    <3>2. /\ place \in {"open", "close", "closed", "done"}
          /\ place # "done" => Parallel /\ Before(place) = Before(at[r]) + 1
      BY <3>1, BeforeIs DEF ModeInv, Mode, ParallelPlaces
    <3>. HIDE DEF place
    <3>3. /\ inside' = [inside EXCEPT ![r] = FALSE] /\ ops' = ops
          /\ Len(ops[r]) = Before(at[r]) + 1
      BY <3>1, BetweenCalls
    <3>. QED
      BY <3>1, <3>2, <3>3, MoveKeepsMode DEF ParallelPlaces, SerialPlaces
  <2>14. ASSUME NEW r \in Ranks, OpenSerial(r) PROVE ModeInv'
    BY <2>9, <2>14 DEF OpenSerial, NextTask, SerialPlaces
  <2>15. ASSUME NEW r \in Ranks, OpenSerialFails(r) PROVE ModeInv'
    <3>1. /\ at' = [q \in Ranks |-> "crashed"] /\ inside' = [q \in Ranks |-> FALSE]
          /\ ops' = ops /\ env' = env /\ buffer' = buffer
      BY <2>15 DEF OpenSerialFails, given
    <3>2. \A q \in Ranks : Mode(q)'
      BY <3>1 DEF Mode, ParallelPlaces, SerialPlaces
    <3>3. \A q \in Ranks : Calls(q)'
      BY <3>1 DEF ModeInv, Calls, KindAt
    <3>. QED
      BY <3>1, <3>2, <3>3 DEF ModeInv
  <2>16. ASSUME NEW r \in Ranks, AskTask(r) PROVE ModeInv'
    BY <2>9, <2>16 DEF AskTask, SerialPlaces
  <2>17. ASSUME NEW r \in Ranks, AnswerTask(r) PROVE ModeInv'
    BY <2>9, <2>17 DEF AnswerTask, SerialPlaces
  <2>18. ASSUME NEW r \in Ranks, GatherTask(r) PROVE ModeInv'
    BY <2>9, <2>18 DEF GatherTask, NextTask, SerialPlaces
  <2>19. CASE UNCHANGED vars
    <3>1. /\ ops' = ops /\ inside' = inside /\ at' = at /\ env' = env
          /\ buffer' = buffer
      BY <2>19 DEF vars
    <3>2. /\ Parallel' = Parallel
          /\ \A p : Before(p)' = Before(p)
          /\ \A n : KindAt(n)' = KindAt(n)
      BY <3>1 DEF Parallel, Before, KindAt
    <3>3. \A q \in Ranks : Mode(q)' /\ Calls(q)'
      BY <3>1, <3>2 DEF ModeInv, Mode, Calls
    <3>. QED
      BY <3>1, <3>3 DEF ModeInv
  <2>. QED
    BY <2>1, <2>2, <2>3, <2>4, <2>5, <2>6, <2>7, <2>10, <2>11, <2>12, <2>13, <2>14,
       <2>15, <2>16, <2>17, <2>18, <2>19 DEF Next, Step
<1>. QED
  BY <1>1, <1>2, TypeInvariant, PTL DEF Spec

(* At no position have two tasks called different operations, whichever    *)
(* of them could allocate a buffer, for any number of tasks.               *)
THEOREM CollectivesCorrect == Spec => []CollectivesMatch
<1>1. TypeInv /\ ModeInv => CollectivesMatch
  <2>. SUFFICES ASSUME ModeInv, NEW q \in Ranks, NEW r \in Ranks,
                       NEW n \in 1 .. Position(r), n <= Position(q)
                PROVE  ops[q][n].kind = ops[r][n].kind
    BY DEF CollectivesMatch
  <2>1. Position(q) \in Nat /\ Position(r) \in Nat
    BY LenProperties DEF ModeInv, Position
  <2>2. n \in 1 .. Len(ops[q]) /\ n \in 1 .. Len(ops[r])
    BY <2>1 DEF Position
  <2>. QED
    BY <2>2 DEF ModeInv, Calls
<1>. QED
  BY <1>1, TypeInvariant, ModeInvariant, PTL

(* Every reachable state of ipm_log is well typed.                         *)
THEOREM TypeCorrect == Spec => []TypeOK
<1>1. TypeInv => TypeOK
  BY DEF TypeInv
<1>. QED
  BY <1>1, TypeInvariant, PTL

(***************************************************************************)
(* The sections adjoin.                                                    *)
(***************************************************************************)

(* The offset of a task no longer changes, and it has passed it on.        *)
Settled(r) == at[r] \in {"sent", "write", "close", "closed", "done"}

(* The offset of a task is the end of the section of the task before.      *)
Chained(r) ==
  r # 0 => Settled(r - 1) /\ offset[r] = offset[r - 1] + buff_size[r - 1]

(* Parallel IO: the offsets that have been passed on.                      *)
ChainInv ==
  /\ offset[0] = 0
  /\ \A m \in msgs : m.type = "offset" =>
       /\ Parallel
       /\ m.to = m.from + 1
       /\ Settled(m.from)
       /\ m.data = offset[m.from] + buff_size[m.from]
  /\ \A r \in Ranks : at[r] \in {"received", "sent", "write", "close", "closed"} => Chained(r)
  /\ Parallel => \A p \in file :
       p = Section(p.rank, offset[p.rank]) /\ Settled(p.rank) /\ Chained(p.rank)

(* The environment and the allocations stay as they are.                   *)
LEMMA GivenStays ==
  ASSUME [Next]_vars
  PROVE  given' = given /\ Parallel' = Parallel
<1>1. given' = given
  BY DEF Next, Step, vars, given, Enter, CallAlloc, ReturnAlloc, CallDeleted, CallPlain,
         ReturnOpen, SendOffset, RecvOffset, ReturnSend, CallWrite, ReturnPlain, OpenSerial,
         OpenSerialFails, AskTask, AnswerTask, GatherTask
<1>. QED
  BY <1>1 DEF given, Parallel

(* What the steps of other tasks leave alone.                              *)
LEMMA SettledStays ==
  ASSUME TypeInv, ModeInv, [Next]_vars, NEW q \in Ranks
  PROVE  /\ at[q] # "offset" => offset'[q] = offset[q]
         /\ Parallel /\ Settled(q) => Settled(q)'
         /\ q = 0 => offset'[q] = offset[q]
<1>. DEFINE Kept == /\ at[q] # "offset" => offset'[q] = offset[q]
                    /\ Parallel /\ Settled(q) => Settled(q)'
                    /\ q = 0 => offset'[q] = offset[q]
<1>. USE DEF Goto
<1>0. at \in [Ranks -> Places] /\ offset \in [Ranks -> Nat]
  BY DEF TypeInv, TypeOK
<1>1. CASE offset' = offset /\ at' = at
  BY <1>1 DEF Settled
<1>2. ASSUME NEW r \in Ranks, offset' = offset, NEW place, at' = [at EXCEPT ![r] = place],
             at[r] \in {"enter", "alloc", "deleted", "open", "offset", "received", "serial",
                        "ask", "gather", "answered", "gathered"}
             \/ place \in {"write", "close", "closed", "done"}
      PROVE  Kept
  BY <1>0, <1>2 DEF Settled
<1>3. ASSUME NEW r \in Ranks, Enter(r) \/ ReturnAlloc(r) \/ ReturnOpen(r)
      PROVE  Kept
  BY <1>2, <1>3 DEF Enter, ReturnAlloc, ReturnOpen
<1>4. ASSUME NEW r \in Ranks, SendOffset(r) \/ ReturnSend(r)
      PROVE  Kept
  BY <1>2, <1>4 DEF SendOffset, ReturnSend
<1>5. ASSUME NEW r \in Ranks, ReturnPlain(r)
      PROVE  Kept
  BY <1>2, <1>5 DEF ReturnPlain
<1>6. ASSUME NEW r \in Ranks, OpenSerial(r) \/ AskTask(r) \/ AnswerTask(r) \/ GatherTask(r)
      PROVE  Kept
  BY <1>2, <1>6 DEF OpenSerial, AskTask, AnswerTask, GatherTask
<1>7. ASSUME NEW r \in Ranks, RecvOffset(r)
      PROVE  Kept
  BY <1>0, <1>7 DEF RecvOffset, AfterOffset, Settled
<1>8. ASSUME NEW r \in Ranks, OpenSerialFails(r)
      PROVE  Kept
  BY <1>8 DEF OpenSerialFails, ModeInv, Mode, SerialPlaces
<1>9. ASSUME NEW r \in Ranks, CallAlloc(r) \/ CallDeleted(r) \/ CallPlain(r) \/ CallWrite(r)
      PROVE  offset' = offset /\ at' = at
  BY <1>9 DEF CallAlloc, CallDeleted, CallPlain, CallWrite
<1>10. CASE UNCHANGED vars
  BY <1>1, <1>10 DEF vars
<1>. QED
  BY <1>1, <1>3, <1>4, <1>5, <1>6, <1>7, <1>8, <1>9, <1>10 DEF Next, Step

(* A chained offset stays chained.                                         *)
LEMMA ChainStays ==
  ASSUME TypeInv, ModeInv, Parallel, [Next]_vars, NEW r \in Ranks, Chained(r),
         offset'[r] = offset[r]
  PROVE  Chained(r)'
<1>1. CASE r = 0
  BY <1>1 DEF Chained
<1>2. CASE r # 0
  <2>1. r - 1 \in Ranks
    BY <1>2, SizeAssumption DEF Ranks
  <2>2. Settled(r - 1) /\ offset[r] = offset[r - 1] + buff_size[r - 1]
    BY <1>2 DEF Chained
  <2>3. Settled(r - 1)' /\ offset'[r - 1] = offset[r - 1] /\ buff_size' = buff_size
    BY <2>1, <2>2, SettledStays, GivenStays DEF Settled, given
  <2>. QED
    BY <2>2, <2>3 DEF Chained
<1>. QED
  BY <1>1, <1>2

(* A step keeps the chain if what it adds to it belongs there.             *)
LEMMA ChainKept ==
  ASSUME TypeInv, TypeInv', ModeInv, ModeInv', ChainInv, [Next]_vars,
         \A m \in msgs' : m.type = "offset" =>
           \/ m \in msgs
           \/ /\ Parallel' /\ m.to = m.from + 1 /\ Settled(m.from)'
              /\ m.data = offset'[m.from] + buff_size'[m.from],
         Parallel => \A p \in file' :
           \/ p \in file
           \/ p = Section(p.rank, offset[p.rank])' /\ Settled(p.rank)' /\ Chained(p.rank)',
         \A r \in Ranks : at'[r] \in {"received", "sent", "write", "close", "closed"} =>
           \/ at[r] \in {"received", "sent", "write", "close", "closed"}
           \/ Chained(r)'
  PROVE  ChainInv'
<1>1. /\ Parallel' = Parallel /\ buff_size' = buff_size
  BY GivenStays DEF given
<1>2. offset'[0] = 0
  BY RanksAre, SettledStays DEF ChainInv
<1>3. ASSUME NEW m \in msgs', m.type = "offset"
      PROVE  /\ Parallel' /\ m.to = m.from + 1 /\ Settled(m.from)'
             /\ m.data = offset'[m.from] + buff_size'[m.from]
  <2>. SUFFICES ASSUME m \in msgs
                PROVE  /\ Parallel' /\ m.to = m.from + 1 /\ Settled(m.from)'
                       /\ m.data = offset'[m.from] + buff_size'[m.from]
    BY <1>3
  <2>1. m.from \in Ranks
    BY <1>3 DEF TypeInv, TypeOK
  <2>2. /\ Parallel /\ m.to = m.from + 1 /\ Settled(m.from)
        /\ m.data = offset[m.from] + buff_size[m.from]
    BY <1>3, <2>1 DEF ChainInv
  <2>3. Settled(m.from)' /\ offset'[m.from] = offset[m.from]
    BY <2>1, <2>2, SettledStays DEF Settled
  <2>. QED
    BY <1>1, <2>2, <2>3
<1>4. ASSUME NEW r \in Ranks, at'[r] \in {"received", "sent", "write", "close", "closed"}
      PROVE  Chained(r)'
  <2>1. CASE at[r] \in {"received", "sent", "write", "close", "closed"}
    <3>1. Chained(r) /\ offset'[r] = offset[r]
      BY <2>1, SettledStays DEF ChainInv
    <3>2. Parallel
      BY <2>1 DEF ModeInv, Mode, ParallelPlaces
    <3>. QED
      BY <3>1, <3>2, ChainStays
  <2>. QED
    BY <1>4, <2>1
<1>5. ASSUME Parallel', NEW p \in file'
      PROVE  /\ p = Section(p.rank, offset[p.rank])'
             /\ Settled(p.rank)' /\ Chained(p.rank)'
  <2>. SUFFICES ASSUME p \in file
                PROVE  /\ p = Section(p.rank, offset[p.rank])'
                       /\ Settled(p.rank)' /\ Chained(p.rank)'
    BY <1>1, <1>5
  <2>1. Parallel /\ p \in file /\ p.rank \in Ranks
    BY <1>1, <1>5 DEF TypeInv, TypeOK
  <2>2. p = Section(p.rank, offset[p.rank]) /\ Settled(p.rank) /\ Chained(p.rank)
    BY <2>1 DEF ChainInv
  <2>3. offset'[p.rank] = offset[p.rank] /\ Settled(p.rank)'
    BY <2>1, <2>2, SettledStays DEF Settled
  <2>4. Chained(p.rank)'
    BY <2>1, <2>2, <2>3, ChainStays
  <2>5. p = [rank |-> p.rank, from |-> offset[p.rank],
             to |-> offset[p.rank] + buff_size[p.rank]]
    BY <2>2 DEF Section
  <2>. QED
    BY <1>1, <2>3, <2>4, <2>5 DEF Section
<1>. QED
  BY <1>2, <1>3, <1>4, <1>5 DEF ChainInv

(* In parallel IO every section begins where that of the task before ends. *)
THEOREM ChainInvariant == Spec => []ChainInv
<1>1. Init => ChainInv
  BY RanksAre DEF Init, ChainInv
<1>2. TypeInv /\ TypeInv' /\ ModeInv /\ ModeInv' /\ ChainInv /\ [Next]_vars => ChainInv'
  <2>. SUFFICES ASSUME TypeInv, TypeInv', ModeInv, ModeInv', ChainInv, [Next]_vars
                PROVE  ChainInv'
    OBVIOUS
  <2>. USE DEF Goto
  <2>0. at \in [Ranks -> Places]
    BY DEF TypeInv, TypeOK
  <2>1. ASSUME NEW r \in Ranks, Enter(r) PROVE ChainInv'
    BY <2>0, <2>1, ChainKept DEF Enter
  <2>2. ASSUME NEW r \in Ranks, CallAlloc(r) \/ CallDeleted(r) \/ CallPlain(r)
        PROVE  ChainInv'
    BY <2>2, ChainKept DEF CallAlloc, CallDeleted, CallPlain
  <2>3. ASSUME NEW r \in Ranks, ReturnAlloc(r) PROVE ChainInv'
    BY <2>0, <2>3, ChainKept DEF ReturnAlloc
  <2>4. ASSUME NEW r \in Ranks, ReturnOpen(r) PROVE ChainInv'
    <3>1. at'[r] = "write" => r = 0
      BY <2>0, <2>4, SizeAssumption DEF ReturnOpen, Ranks
    <3>2. at'[r] \in {"done", "offset", "write"} /\ msgs' = msgs /\ file' = file
          /\ \A q \in Ranks \ {r} : at'[q] = at[q]
      BY <2>0, <2>4 DEF ReturnOpen
    <3>3. r = 0 => Chained(r)'
      BY DEF Chained
    <3>. QED
      BY <3>1, <3>2, <3>3, ChainKept
  <2>5. ASSUME NEW r \in Ranks, SendOffset(r) PROVE ChainInv'
    <3>. DEFINE new == OffsetMsg(r, offset[r] + buff_size[r])
    <3>1. /\ at'[r] = "sent" /\ \A q \in Ranks \ {r} : at'[q] = at[q]
          /\ at[r] \in {"offset", "received"} /\ (at[r] = "offset" => r = 0)
          /\ offset' = offset /\ buff_size' = buff_size /\ file' = file
          /\ msgs' = msgs \cup {new}
      BY <2>0, <2>5 DEF SendOffset, given
    <3>2. Parallel'
      BY <3>1, GivenStays DEF ModeInv, Mode, ParallelPlaces
    <3>3. new.from = r /\ new.to = r + 1 /\ new.data = offset[r] + buff_size[r]
      BY DEF OffsetMsg
    <3>4. Settled(r)'
      BY <3>1 DEF Settled
    <3>5. r = 0 => Chained(r)'
      BY DEF Chained
    <3>. HIDE DEF new
    <3>. QED
      BY <3>1, <3>2, <3>3, <3>4, <3>5, ChainKept
  <2>6. ASSUME NEW r \in Ranks, RecvOffset(r) PROVE ChainInv'
    <3>1. PICK m \in msgs : /\ m.type = "offset" /\ m.to = r
                            /\ offset' = [offset EXCEPT ![r] = m.data]
                            /\ msgs' = msgs \ {m}
      BY <2>6 DEF RecvOffset
    <3>2. /\ \A q \in Ranks \ {r} : at'[q] = at[q]
          /\ at[r] = "offset" /\ r # 0 /\ file' = file /\ buff_size' = buff_size
      BY <2>0, <2>6 DEF RecvOffset, given
    <3>3. /\ m.from \in Ranks /\ r = m.from + 1 /\ Parallel /\ Settled(m.from)
          /\ m.data = offset[m.from] + buff_size[m.from]
      BY <3>1 DEF ChainInv, TypeInv, TypeOK
    <3>a. m.from \in Nat
      BY <3>3, RanksAre
    <3>4. m.from = r - 1
      BY <3>3, <3>a
    <3>5. Settled(m.from)' /\ offset'[m.from] = offset[m.from]
      BY <3>3, SettledStays DEF Settled
    <3>6. offset'[r] = m.data
      BY <3>1 DEF TypeInv, TypeOK
    <3>7. Chained(r)'
      BY <3>2, <3>3, <3>4, <3>5, <3>6 DEF Chained
    <3>. QED
      BY <3>1, <3>2, <3>7, ChainKept
  <2>7. ASSUME NEW r \in Ranks, ReturnSend(r) PROVE ChainInv'
    BY <2>0, <2>7, ChainKept DEF ReturnSend
  <2>8. ASSUME NEW r \in Ranks, CallWrite(r) PROVE ChainInv'
    <3>. DEFINE new == Section(r, offset[r])
    <3>1. /\ at[r] = "write" /\ at' = at /\ offset' = offset /\ buff_size' = buff_size
          /\ msgs' = msgs /\ file' = file \cup {new}
      BY <2>8 DEF CallWrite, given
    <3>2. Parallel /\ Chained(r) /\ Settled(r)
      BY <3>1 DEF ModeInv, Mode, ParallelPlaces, ChainInv, Settled
    <3>3. Chained(r)' /\ Settled(r)'
      BY <3>1, <3>2, ChainStays DEF Settled
    <3>4. new.rank = r /\ new = Section(r, offset[r])'
      BY <3>1 DEF Section
    <3>. HIDE DEF new
    <3>. QED
      BY <3>1, <3>3, <3>4, ChainKept
  <2>9. ASSUME NEW r \in Ranks, ReturnPlain(r) PROVE ChainInv'
    BY <2>0, <2>9, ChainKept DEF ReturnPlain
  <2>10. ASSUME NEW r \in Ranks, OpenSerial(r) PROVE ChainInv'
    <3>1. ~Parallel /\ msgs' = msgs
      BY <2>10 DEF OpenSerial, ModeInv, Mode, SerialPlaces
    <3>. QED
      BY <2>0, <2>10, <3>1, ChainKept DEF OpenSerial, NextTask
  <2>11. ASSUME NEW r \in Ranks, OpenSerialFails(r) PROVE ChainInv'
    BY <2>11, ChainKept DEF OpenSerialFails
  <2>12. ASSUME NEW r \in Ranks, AskTask(r) PROVE ChainInv'
    BY <2>0, <2>12, ChainKept DEF AskTask, Token
  <2>13. ASSUME NEW r \in Ranks, AnswerTask(r) PROVE ChainInv'
    BY <2>0, <2>13, ChainKept DEF AnswerTask, Answer
  <2>14. ASSUME NEW r \in Ranks, GatherTask(r) PROVE ChainInv'
    <3>1. ~Parallel /\ msgs' \subseteq msgs
      BY <2>14 DEF GatherTask, ModeInv, Mode, SerialPlaces
    <3>. QED
      BY <2>0, <2>14, <3>1, ChainKept DEF GatherTask, NextTask
  <2>15. CASE UNCHANGED vars
    BY <2>15, ChainKept DEF vars
  <2>. QED
    BY <2>1, <2>2, <2>3, <2>4, <2>5, <2>6, <2>7, <2>8, <2>9, <2>10, <2>11, <2>12, <2>13,
       <2>14, <2>15 DEF Next, Step
<1>. QED
  BY <1>1, <1>2, TypeInvariant, ModeInvariant, PTL DEF Spec

(***************************************************************************)
(* The other way: task 0 asks one task after another.                      *)
(***************************************************************************)

(* The only request or answer in transit is that of the task task 0 is at. *)
RequestInv ==
  /\ \A m \in msgs : m.type # "offset" => at[0] = "gather" /\ m \in {Token(i), Answer(i)}
  /\ \A m, n \in msgs : m.type # "offset" /\ n.type # "offset" => m = n

(* While no request is made, those in transit stay the only ones.          *)
LEMMA RequestsKept ==
  ASSUME RequestInv,
         at[0] = "gather" => at'[0] = "gather" /\ i' = i,
         \A m \in msgs' : m.type # "offset" => m \in msgs
  PROVE  RequestInv'
BY DEF RequestInv, Token, Answer

(* At most one request or answer is in transit at a time.                  *)
THEOREM RequestInvariant == Spec => []RequestInv
<1>1. Init => RequestInv
  BY DEF Init, RequestInv
<1>2. TypeInv /\ RequestInv /\ [Next]_vars => RequestInv'
  <2>. SUFFICES ASSUME TypeInv, RequestInv, [Next]_vars PROVE RequestInv'
    OBVIOUS
  <2>. USE DEF Goto
  <2>0. at \in [Ranks -> Places] /\ 0 \in Ranks
    BY RanksAre DEF TypeInv, TypeOK
  <2>1. ASSUME NEW r \in Ranks, at[r] # "gather", \A q \in Ranks \ {r} : at'[q] = at[q],
               i' = i, \A m \in msgs' : m.type # "offset" => m \in msgs
        PROVE  RequestInv'
    BY <2>0, <2>1, RequestsKept
  <2>2. ASSUME NEW r \in Ranks,
               Enter(r) \/ ReturnAlloc(r) \/ ReturnOpen(r) \/ ReturnSend(r) \/ ReturnPlain(r)
        PROVE  RequestInv'
    BY <2>0, <2>1, <2>2 DEF Enter, ReturnAlloc, ReturnOpen, ReturnSend, ReturnPlain
  <2>3. ASSUME NEW r \in Ranks,
               CallAlloc(r) \/ CallDeleted(r) \/ CallPlain(r) \/ CallWrite(r)
        PROVE  RequestInv'
    BY <2>3, RequestsKept DEF CallAlloc, CallDeleted, CallPlain, CallWrite
  <2>4. ASSUME NEW r \in Ranks, SendOffset(r) PROVE RequestInv'
    BY <2>0, <2>1, <2>4 DEF SendOffset, OffsetMsg
  <2>5. ASSUME NEW r \in Ranks, RecvOffset(r) PROVE RequestInv'
    BY <2>0, <2>1, <2>5 DEF RecvOffset
  <2>6. ASSUME NEW r \in Ranks, OpenSerial(r) PROVE RequestInv'
    <3>1. at[0] = "serial" /\ msgs' = msgs
      BY <2>6 DEF OpenSerial
    <3>. QED
      BY <3>1, RequestsKept
  <2>7. ASSUME NEW r \in Ranks, OpenSerialFails(r) PROVE RequestInv'
    <3>1. at[0] = "serial" /\ msgs' = msgs
      BY <2>7 DEF OpenSerialFails
    <3>. QED
      BY <3>1, RequestsKept
  <2>8. ASSUME NEW r \in Ranks, AskTask(r) PROVE RequestInv'
    <3>1. r = 0 /\ at[0] = "ask" /\ at'[0] = "gather" /\ i' = i
          /\ msgs' = msgs \cup {Token(i)}
      BY <2>0, <2>8 DEF AskTask, TypeInv
    <3>2. \A m \in msgs : m.type = "offset"
      BY <3>1 DEF RequestInv
    <3>3. \A m \in msgs' : m.type # "offset" => m = Token(i)'
      BY <3>1, <3>2 DEF Token
    <3>. QED
      BY <3>1, <3>3 DEF RequestInv
  <2>9. ASSUME NEW r \in Ranks, AnswerTask(r) PROVE RequestInv'
    <3>1. /\ r # 0 /\ Token(r) \in msgs /\ at'[0] = at[0] /\ i' = i
          /\ msgs' = (msgs \ {Token(r)}) \cup {Answer(r)}
      BY <2>0, <2>9 DEF AnswerTask
    <3>2. Token(r).type = "token"
      BY MessageTypes
    <3>3. at[0] = "gather" /\ Token(r) \in {Token(i), Answer(i)}
          /\ \A m \in msgs : m.type # "offset" => m = Token(r)
      BY <3>1, <3>2 DEF RequestInv
    <3>4. r = i
      BY <3>3 DEF Token, Answer
    <3>5. \A m \in msgs' : m.type # "offset" => m = Answer(i)'
      BY <3>1, <3>3, <3>4 DEF Answer
    <3>. QED
      BY <3>1, <3>3, <3>5 DEF RequestInv
  <2>10. ASSUME NEW r \in Ranks, GatherTask(r) PROVE RequestInv'
    <3>1. PICK m \in msgs : m.type = "structs" /\ msgs' = msgs \ {m}
      BY <2>10 DEF GatherTask
    <3>2. \A n \in msgs : n.type # "offset" => n = m
      BY <3>1 DEF RequestInv
    <3>. QED
      BY <3>1, <3>2 DEF RequestInv
  <2>11. CASE UNCHANGED vars
    BY <2>11, RequestsKept DEF vars
  <2>. QED
    BY <2>2, <2>3, <2>4, <2>5, <2>6, <2>7, <2>8, <2>9, <2>10, <2>11 DEF Next, Step
<1>. QED
  BY <1>1, <1>2, TypeInvariant, PTL DEF Spec

(* "A memory footprint which is a constant independent of concurrency": no *)
(* two tasks send their structs to task 0 at a time, for any number of     *)
(* tasks.                                                                  *)
THEOREM AnswersCorrect == Spec => []OneAnswerAtATime
<1>1. RequestInv => OneAnswerAtATime
  BY DEF RequestInv, OneAnswerAtATime
<1>. QED
  BY <1>1, RequestInvariant, PTL

(* The file has the sections of the tasks below k, and that of k - 1 ends  *)
(* last.                                                                   *)
Written(k) ==
  /\ \A p \in file : p.rank < k
  /\ \A n \in 0 .. k - 1 : \E p \in file : p.rank = n
  /\ SectionsAdjoin
  /\ \E e \in file : e.rank = k - 1 /\ \A p \in file : p.to <= e.to

SerialInv ==
  /\ at[0] # "answered"
  /\ at[0] \in {"enter", "alloc", "serial"} => task = 0
  /\ ~Parallel =>
       /\ at[0] \in {"enter", "alloc", "serial", "crashed"} => file = {}
       /\ at[0] \in {"ask", "gather"} => Written(i)
       /\ at[0] = "gathered" => Written(mpi_size)
       /\ at[0] = "done" => (env.devnull /\ file = {}) \/ Written(mpi_size)

(* Task 0 appends the section of the next task.                            *)
LEMMA AppendSection ==
  ASSUME TypeInv, NEW k \in Nat \ {0}, k \in Ranks, Written(k), UNCHANGED given,
         file' = file \cup {Section(k, FileEnd)}
  PROVE  Written(k + 1)'
<1>. DEFINE new == Section(k, FileEnd)
<1>1. PICK e \in file : e.rank = k - 1 /\ \A p \in file : p.to <= e.to
  BY DEF Written
<1>2. FileEnd = e.to /\ e.to \in Nat
  BY <1>1, FileEndIs DEF TypeInv
<1>3. /\ new.rank = k /\ new.from = e.to /\ new.to = e.to + buff_size[k]
      /\ buff_size[k] \in Nat \ {0}
  BY <1>2, SectionType DEF TypeInv
<1>4. file' = file \cup {new} /\ buff_size' = buff_size
  BY DEF given
<1>. HIDE DEF new
<1>5. \A p \in file : p.rank \in Nat /\ p.to \in Nat /\ p.from \in Nat /\ p.rank < k
                      /\ p.to <= e.to
  BY <1>1, RanksAre DEF TypeInv, TypeOK, Written
<1>6. \A p \in file : p.rank = e.rank => p = e
  BY DEF Written, SectionsAdjoin
<1>7. new.to \in Nat /\ e.to <= new.to
  BY <1>2, <1>3
<1>8. SectionsAdjoin'
  <2>1. ASSUME NEW p \in file
        PROVE  /\ p.rank = 0 => p.from = 0
               /\ p.to = p.from + buff_size[p.rank]
               /\ p.rank # k /\ p.rank # k + 1
               /\ k = p.rank + 1 => new.from = p.to
               /\ \A q \in file : /\ q.rank = p.rank => q = p
                                  /\ q.rank = p.rank + 1 => q.from = p.to
    <3>1. k = p.rank + 1 => p = e
      BY <1>1, <1>5, <1>6
    <3>2. p.rank # k /\ p.rank # k + 1
      BY <1>5
    <3>. QED
      BY <1>3, <3>1, <3>2 DEF Written, SectionsAdjoin
  <2>2. k # 0 /\ k # k + 1
    OBVIOUS
  <2>. QED
    BY <1>3, <1>4, <2>1, <2>2 DEF SectionsAdjoin
<1>9. \A p \in file' : p.rank < k + 1
  BY <1>3, <1>4, <1>5
<1>10. \A n \in 0 .. (k + 1) - 1 : \E p \in file' : p.rank = n
  <2>1. \A n \in 0 .. (k + 1) - 1 : n = k \/ n \in 0 .. k - 1
    OBVIOUS
  <2>2. \A n \in 0 .. k - 1 : \E p \in file : p.rank = n
    BY DEF Written
  <2>. QED
    BY <1>3, <1>4, <2>1, <2>2
<1>11. \E p \in file' : p.rank = (k + 1) - 1 /\ \A q \in file' : q.to <= p.to
  <2>1. \A q \in file : q.to <= new.to
    BY <1>2, <1>5, <1>7
  <2>2. new.to <= new.to /\ new.rank = (k + 1) - 1
    BY <1>3, <1>7
  <2>. QED
    BY <1>4, <2>1, <2>2
<1>. QED
  BY <1>8, <1>9, <1>10, <1>11 DEF Written

(* Nothing happens to the file while task 0 stays where it is.             *)
LEMMA SerialKept ==
  ASSUME SerialInv, UNCHANGED <<given, task, i>>, at'[0] = at[0],
         Parallel \/ file' = file
  PROVE  SerialInv'
<1>1. env' = env /\ buffer' = buffer /\ buff_size' = buff_size
  BY DEF given
<1>2. Parallel' = Parallel
  BY <1>1 DEF Parallel
<1>3. ASSUME file' = file, NEW k PROVE Written(k)' <=> Written(k)
  BY <1>1, <1>3 DEF Written, SectionsAdjoin
<1>. QED
  BY <1>1, <1>2, <1>3 DEF SerialInv

(* Task 0 writes the sections one after another.                           *)
THEOREM SerialInvariant == Spec => []SerialInv
<1>1. Init => SerialInv
  BY RanksAre DEF Init, SerialInv
<1>2. TypeInv /\ ModeInv /\ RequestInv /\ SerialInv /\ [Next]_vars => SerialInv'
  <2>. SUFFICES ASSUME TypeInv, ModeInv, RequestInv, SerialInv, [Next]_vars
                PROVE  SerialInv'
    OBVIOUS
  <2>. USE DEF Goto
  <2>0. at \in [Ranks -> Places] /\ 0 \in Ranks
    BY RanksAre DEF TypeInv, TypeOK
  <2>1. ASSUME env' = env, buffer' = buffer, buff_size' = buff_size
        PROVE  /\ Parallel' = Parallel
               /\ file' = file => \A k : Written(k)' <=> Written(k)
    BY <2>1 DEF Parallel, Written, SectionsAdjoin
  <2>2. ASSUME NEW r \in Ranks, r # 0,
               Enter(r) \/ ReturnAlloc(r) \/ ReturnOpen(r) \/ ReturnSend(r)
                 \/ ReturnPlain(r) \/ RecvOffset(r) \/ AnswerTask(r)
        PROVE  SerialInv'
    BY <2>0, <2>2, SerialKept
    DEF Enter, ReturnAlloc, ReturnOpen, ReturnSend, ReturnPlain, RecvOffset, AnswerTask
  <2>3. ASSUME NEW r \in Ranks, CallAlloc(r) \/ CallDeleted(r) \/ CallPlain(r)
        PROVE  SerialInv'
    BY <2>3, SerialKept DEF CallAlloc, CallDeleted, CallPlain
  <2>4. ASSUME NEW r \in Ranks, CallWrite(r) PROVE SerialInv'
    <3>1. Parallel
      BY <2>4 DEF CallWrite, ModeInv, Mode, ParallelPlaces
    <3>. QED
      BY <2>4, <3>1, SerialKept DEF CallWrite
  <2>5. ASSUME Enter(0) PROVE SerialInv'
    <3>1. /\ at[0] = "enter" /\ at'[0] \in {"done", "alloc", "serial"}
          /\ (at'[0] = "done" => env.devnull)
          /\ task' = task /\ file' = file
          /\ env' = env /\ buffer' = buffer /\ buff_size' = buff_size
      BY <2>0, <2>5 DEF Enter, given
    <3>. QED
      BY <2>1, <3>1 DEF SerialInv
  <2>6. ASSUME ReturnAlloc(0) PROVE SerialInv'
    <3>1. /\ at[0] = "alloc" /\ at'[0] \in {"deleted", "serial"}
          /\ task' = task /\ file' = file
          /\ env' = env /\ buffer' = buffer /\ buff_size' = buff_size
      BY <2>0, <2>6 DEF ReturnAlloc, given
    <3>. QED
      BY <2>1, <3>1 DEF SerialInv
  <2>7. ASSUME ReturnOpen(0) \/ SendOffset(0) PROVE SerialInv'
    <3>1. /\ at[0] \in {"open", "offset", "received"}
          /\ at'[0] \in {"done", "offset", "write", "sent"}
          /\ env' = env /\ buffer' = buffer /\ buff_size' = buff_size
      BY <2>0, <2>7 DEF ReturnOpen, SendOffset, given
    <3>2. Parallel
      BY <2>0, <3>1 DEF ModeInv, Mode, ParallelPlaces
    <3>. QED
      BY <2>1, <3>1, <3>2 DEF SerialInv
  <2>8. ASSUME NEW r \in Ranks, r # 0, SendOffset(r) PROVE SerialInv'
    BY <2>0, <2>8, SerialKept DEF SendOffset
  <2>9. ASSUME ReturnSend(0) PROVE SerialInv'
    <3>1. /\ at[0] = "sent" /\ at'[0] = "write"
          /\ env' = env /\ buffer' = buffer /\ buff_size' = buff_size
      BY <2>0, <2>9 DEF ReturnSend, SerialInv, given
    <3>. QED
      BY <3>1 DEF SerialInv
  <2>10. ASSUME ReturnPlain(0) PROVE SerialInv'
    <3>1. /\ at'[0] = (CASE at[0] = "deleted" -> "open"
                         [] at[0] = "write" -> "close"
                         [] at[0] = "close" -> "closed"
                         [] OTHER -> "done")
          /\ at[0] \in {"deleted", "write", "close", "closed", "gathered"}
          /\ task' = task /\ file' = file
          /\ env' = env /\ buffer' = buffer /\ buff_size' = buff_size
      BY <2>0, <2>10 DEF ReturnPlain, given
    <3>2. at'[0] \in {"open", "close", "closed", "done"}
      BY <3>1
    <3>3. CASE at[0] = "gathered"
      BY <2>1, <3>1, <3>2, <3>3 DEF SerialInv
    <3>4. CASE at[0] # "gathered"
      <4>1. Parallel
        BY <2>0, <3>1, <3>4 DEF ModeInv, Mode, ParallelPlaces
      <4>. QED
        BY <2>1, <3>1, <3>2, <4>1 DEF SerialInv
    <3>. QED
      BY <3>3, <3>4
  <2>11. ASSUME NEW r \in Ranks, OpenSerial(r) PROVE SerialInv'
    <3>1. /\ at[0] = "serial" /\ r = 0 /\ i' = 1
          /\ at'[0] = (IF 1 < mpi_size THEN "ask" ELSE "gathered")
          /\ file' = {Section(task, 0)} /\ task' = task
          /\ env' = env /\ buffer' = buffer /\ buff_size' = buff_size
      BY <2>0, <2>11 DEF OpenSerial, NextTask, given
    <3>2. task = 0
      BY <3>1 DEF SerialInv
    <3>. DEFINE new == Section(task, 0)
    <3>3. new.rank = 0 /\ new.from = 0 /\ new.to = buff_size[0] /\ buff_size[0] \in Nat
      BY <2>0, <3>2, SectionType DEF TypeInv
    <3>. HIDE DEF new
    <3>4. file' = {new}
      BY <3>1 DEF new
    <3>5. SectionsAdjoin'
      BY <3>1, <3>3, <3>4 DEF SectionsAdjoin
    <3>6. Written(1)'
      <4>1. \A n \in 0 .. 1 - 1 : n = 0
        OBVIOUS
      <4>2. \A p \in file' : p = new /\ p.rank < 1 /\ p.to <= new.to
        BY <3>3, <3>4
      <4>. QED
        BY <3>3, <3>4, <3>5, <4>1, <4>2 DEF Written
    <3>7. ~(1 < mpi_size) => mpi_size = 1
      BY SizeAssumption
    <3>. QED
      BY <3>1, <3>6, <3>7 DEF SerialInv
  <2>12. ASSUME NEW r \in Ranks, OpenSerialFails(r) PROVE SerialInv'
    <3>1. /\ at[0] = "serial" /\ at'[0] = "crashed" /\ file' = file
          /\ env' = env /\ buffer' = buffer /\ buff_size' = buff_size
      BY <2>0, <2>12 DEF OpenSerialFails, given
    <3>. QED
      BY <2>1, <3>1 DEF SerialInv
  <2>13. ASSUME NEW r \in Ranks, AskTask(r) PROVE SerialInv'
    <3>1. /\ at[0] = "ask" /\ at'[0] = "gather" /\ file' = file /\ i' = i
          /\ env' = env /\ buffer' = buffer /\ buff_size' = buff_size
      BY <2>0, <2>13 DEF AskTask, TypeInv, given
    <3>. QED
      BY <2>1, <3>1 DEF SerialInv
  <2>14. ASSUME NEW r \in Ranks, GatherTask(r) PROVE SerialInv'
    <3>1. PICK m \in msgs : m.type = "structs" /\ task' = m.data
      BY <2>14 DEF GatherTask
    <3>2. /\ r = 0 /\ at[0] = "gather" /\ i \in 1 .. mpi_size - 1
      BY <2>14 DEF GatherTask, TypeInv
    <3>3. /\ at'[0] = (IF i + 1 < mpi_size THEN "ask" ELSE "gathered") /\ i' = i + 1
          /\ env' = env /\ buffer' = buffer /\ buff_size' = buff_size
          /\ file' = file \cup {Section(task', FileEnd)} /\ UNCHANGED given
      BY <2>0, <2>14, <3>2 DEF GatherTask, NextTask, given
    <3>4. task' = i
      BY <3>1 DEF RequestInv, Token, Answer
    <3>5. ~Parallel /\ Written(i)
      BY <2>0, <3>2 DEF ModeInv, Mode, SerialPlaces, SerialInv
    <3>6. PICK k \in Nat \ {0} : k = i /\ k \in Ranks
      BY <3>2, SizeAssumption DEF Ranks
    <3>7. Written(k + 1)'
      <4>1. Written(k)
        BY <3>5, <3>6
      <4>2. file' = file \cup {Section(k, FileEnd)}
        BY <3>3, <3>4, <3>6
      <4>. QED
        BY <3>3, <3>6, <4>1, <4>2, AppendSection
    <3>8. i' = k + 1 /\ (at'[0] = "gathered" => mpi_size = k + 1)
      BY <3>2, <3>3, <3>6, SizeAssumption
    <3>9. Written(i)'
      BY <3>7, <3>8
    <3>10. at'[0] = "gathered" => Written(mpi_size)'
      BY <3>7, <3>8
    <3>11. at'[0] \in {"ask", "gathered"}
      BY <3>3
    <3>. QED
      BY <3>9, <3>10, <3>11 DEF SerialInv
  <2>15. CASE UNCHANGED vars
    BY <2>15, SerialKept DEF vars, given
  <2>16. ASSUME NEW r \in Ranks, RecvOffset(r) \/ AnswerTask(r) PROVE SerialInv'
    BY <2>2, <2>16 DEF RecvOffset, AnswerTask
  <2>. QED
    BY <2>2, <2>3, <2>4, <2>5, <2>6, <2>7, <2>8, <2>9, <2>10, <2>11, <2>12, <2>13, <2>14,
       <2>15, <2>16 DEF Next, Step
<1>. QED
  BY <1>1, <1>2, TypeInvariant, ModeInvariant, RequestInvariant, PTL DEF Spec

(* No task writes over another's section, whichever of the two ways the    *)
(* file is written in, for any number of tasks and all sizes.              *)
THEOREM SectionsCorrect == Spec => []SectionsAdjoin
<1>1. TypeInv /\ ModeInv /\ ChainInv /\ SerialInv => SectionsAdjoin
  <2>. SUFFICES ASSUME TypeInv, ModeInv, ChainInv, SerialInv PROVE SectionsAdjoin
    OBVIOUS
  <2>1. CASE Parallel
    <3>1. SUFFICES ASSUME NEW p \in file
                   PROVE  /\ p.rank = 0 => p.from = 0
                          /\ p.to = p.from + buff_size[p.rank]
                          /\ \A q \in file :
                               /\ q.rank = p.rank => q = p
                               /\ q.rank = p.rank + 1 => q.from = p.to
      BY DEF SectionsAdjoin
    <3>2. \A q \in file : /\ q.rank \in Ranks /\ q = Section(q.rank, offset[q.rank])
                          /\ Chained(q.rank)
      BY <2>1 DEF TypeInv, TypeOK, ChainInv
    <3>3. \A q \in file : /\ q.from = offset[q.rank]
                          /\ q.to = offset[q.rank] + buff_size[q.rank]
      BY <3>2 DEF Section
    <3>4. p.rank \in Nat
      BY <3>2, RanksAre
    <3>5. ASSUME NEW q \in file, q.rank = p.rank + 1 PROVE q.from = p.to
      <4>1. q.rank # 0 /\ q.rank - 1 = p.rank
        BY <3>4, <3>5
      <4>. QED
        BY <3>2, <3>3, <4>1 DEF Chained
    <3>6. \A q \in file : q.rank = p.rank => q = p
      BY <3>2
    <3>7. p.rank = 0 => p.from = 0
      BY <3>3 DEF ChainInv
    <3>. QED
      BY <3>3, <3>5, <3>6, <3>7
  <2>2. CASE ~Parallel
    <3>1. at[0] \in Places /\ at[0] \notin ParallelPlaces
      BY <2>2, RanksAre DEF TypeInv, TypeOK, ModeInv, Mode
    <3>2. file = {} \/ Written(i) \/ Written(mpi_size)
      BY <2>2, <3>1, PlacesAre DEF SerialInv, ParallelPlaces
    <3>. QED
      BY <3>2 DEF Written, SectionsAdjoin
  <2>. QED
    BY <2>1, <2>2
<1>. QED
  BY <1>1, TypeInvariant, ModeInvariant, ChainInvariant, SerialInvariant, PTL

(***************************************************************************)
(* The log is complete.                                                    *)
(***************************************************************************)

(* A task that has called write_all, and found the file open.              *)
Wrote(r) ==
  \/ at[r] \in {"close", "closed"}
  \/ at[r] = "write" /\ inside[r]
  \/ at[r] = "done" /\ env.opens

(* Task 0 has deleted or truncated the file. *)
Cleared ==
  \/ at[0] \in {"open", "offset", "received", "sent", "write", "close", "closed", "ask",
                "gather", "gathered", "done"}
  \/ at[0] = "deleted" /\ inside[0]

CompleteInv ==
  ~env.devnull =>
    /\ Parallel => \A r \in Ranks : Wrote(r) => \E p \in file : p.rank = r
    /\ Cleared => ~old

(* A task goes on, or calls an operation.                                  *)
LEMMA CompleteKept ==
  ASSUME CompleteInv, NEW r \in Ranks, UNCHANGED given, file \subseteq file',
         \A q \in Ranks \ {r} : at'[q] = at[q] /\ inside'[q] = inside[q],
         Parallel /\ ~env.devnull /\ Wrote(r)' =>
           Wrote(r) \/ \E p \in file' : p.rank = r,
         ~env.devnull /\ r = 0 /\ Cleared' => Cleared \/ ~old',
         old' = old \/ ~old'
  PROVE  CompleteInv'
<1>1. env' = env /\ Parallel' = Parallel
  BY DEF given, Parallel
<1>2. SUFFICES ASSUME ~env.devnull
               PROVE  /\ Parallel => \A q \in Ranks : Wrote(q)' => \E p \in file' : p.rank = q
                      /\ Cleared' => ~old'
  BY <1>1 DEF CompleteInv
<1>3. ASSUME Parallel, NEW q \in Ranks, Wrote(q)' PROVE \E p \in file' : p.rank = q
  <2>1. Wrote(q) \/ \E p \in file' : p.rank = q
    BY <1>1, <1>2, <1>3 DEF Wrote
  <2>. QED
    BY <1>2, <1>3, <2>1 DEF CompleteInv
<1>4. Cleared' => ~old'
  <2>1. r # 0 => (Cleared' <=> Cleared)
    BY RanksAre DEF Cleared
  <2>. QED
    BY <1>2, <2>1 DEF CompleteInv
<1>. QED
  BY <1>3, <1>4

(* A task that has written finds its section in the file, and the file of  *)
(* an earlier job is gone before any task opens it.                        *)
THEOREM CompleteInvariant == Spec => []CompleteInv
<1>1. Init => CompleteInv
  BY RanksAre DEF Init, CompleteInv, Wrote, Cleared
<1>2. TypeInv /\ ModeInv /\ SerialInv /\ CompleteInv /\ [Next]_vars => CompleteInv'
  <2>. SUFFICES ASSUME TypeInv, ModeInv, SerialInv, CompleteInv, [Next]_vars
                PROVE  CompleteInv'
    OBVIOUS
  <2>. USE DEF Goto, CallOp, ReturnOp
  <2>0. /\ at \in [Ranks -> Places] /\ inside \in [Ranks -> BOOLEAN] /\ 0 \in Ranks
        /\ \A r \in Ranks : inside[r] => at[r] \in CallPlaces
    BY RanksAre DEF TypeInv, TypeOK, ModeInv, Mode
  <2>1. ASSUME NEW r \in Ranks, Enter(r) PROVE CompleteInv'
    <3>1. at'[r] \in {"alloc", "serial", "done"} /\ (at'[r] = "done" => env.devnull)
      BY <2>0, <2>1 DEF Enter
    <3>. QED
      BY <2>0, <2>1, <3>1, CompleteKept DEF Enter, Wrote, Cleared
  <2>2. ASSUME NEW r \in Ranks, CallAlloc(r) \/ CallPlain(r) PROVE CompleteInv'
    BY <2>0, <2>2, CompleteKept DEF CallAlloc, CallPlain, Wrote, Cleared
  <2>3. ASSUME NEW r \in Ranks, ReturnAlloc(r) PROVE CompleteInv'
    BY <2>0, <2>3, CompleteKept DEF ReturnAlloc, Wrote, Cleared
  <2>4. ASSUME NEW r \in Ranks, CallDeleted(r) PROVE CompleteInv'
    BY <2>0, <2>4, CompleteKept DEF CallDeleted, Wrote, Cleared
  <2>5. ASSUME NEW r \in Ranks, ReturnOpen(r) PROVE CompleteInv'
    <3>1. /\ at[r] = "open" /\ ~inside'[r] /\ at'[r] \in {"done", "offset", "write"}
          /\ at'[r] = "done" => ~env.opens
      BY <2>0, <2>5 DEF ReturnOpen
    <3>2. ~Wrote(r)' /\ (r = 0 => Cleared)
      BY <2>5, <3>1 DEF ReturnOpen, Wrote, Cleared, given
    <3>. QED
      BY <2>0, <2>5, <3>2, CompleteKept DEF ReturnOpen
  <2>6. ASSUME NEW r \in Ranks, SendOffset(r) \/ ReturnSend(r) PROVE CompleteInv'
    <3>1. /\ at[r] \in {"offset", "received", "sent", "answered"} /\ ~inside'[r]
          /\ r = 0 => at[r] # "answered"
          /\ at'[r] \in {"sent", "write", "gathered"}
      BY <2>0, <2>6 DEF SendOffset, ReturnSend, SerialInv, CallPlaces
    <3>2. ~Wrote(r)' /\ (r = 0 => Cleared)
      BY <3>1 DEF Wrote, Cleared
    <3>. QED
      BY <2>0, <2>6, <3>2, CompleteKept DEF SendOffset, ReturnSend, given
  <2>7. ASSUME NEW r \in Ranks, RecvOffset(r) PROVE CompleteInv'
    <3>1. /\ at[r] = "offset" /\ r # 0 /\ ~inside'[r] /\ at'[r] \in {"received", "write"}
      BY <2>0, <2>7 DEF RecvOffset, AfterOffset, CallPlaces
    <3>. QED
      BY <2>0, <2>7, <3>1, CompleteKept DEF RecvOffset, Wrote
  <2>8. ASSUME NEW r \in Ranks, CallWrite(r) PROVE CompleteInv'
    <3>1. \E p \in file' : p.rank = r
      <4>1. Section(r, offset[r]).rank = r
        BY DEF Section
      <4>2. Section(r, offset[r]) \in file'
        BY <2>8 DEF CallWrite
      <4>. QED
        BY <4>1, <4>2
    <3>. QED
      BY <2>0, <2>8, <3>1, CompleteKept DEF CallWrite, Cleared
  <2>9. ASSUME NEW r \in Ranks, ReturnPlain(r) PROVE CompleteInv'
    <3>1. /\ inside[r] /\ ~inside'[r]
          /\ at'[r] = (CASE at[r] = "deleted" -> "open"
                         [] at[r] = "write" -> "close"
                         [] at[r] = "close" -> "closed"
                         [] OTHER -> "done")
          /\ at[r] \in {"deleted", "write", "close", "closed", "gathered"}
      BY <2>0, <2>9 DEF ReturnPlain
    <3>2. r = 0 => Cleared
      BY <3>1 DEF Cleared
    <3>3. Parallel /\ Wrote(r)' => Wrote(r)
      <4>1. Parallel => at[r] # "gathered"
        BY DEF ModeInv, Mode, SerialPlaces
      <4>. QED
        BY <3>1, <4>1 DEF Wrote
    <3>. QED
      BY <2>0, <2>9, <3>2, <3>3, CompleteKept DEF ReturnPlain
  <2>10. ASSUME NEW r \in Ranks, OpenSerial(r) PROVE CompleteInv'
    <3>1. /\ ~Parallel /\ env' = env /\ buffer' = buffer /\ ~old'
      BY <2>10 DEF OpenSerial, ModeInv, Mode, SerialPlaces, given
    <3>. QED
      BY <3>1 DEF CompleteInv, Parallel
  <2>11. ASSUME NEW r \in Ranks, OpenSerialFails(r) PROVE CompleteInv'
    <3>1. at' = [q \in Ranks |-> "crashed"]
      BY <2>11 DEF OpenSerialFails
    <3>. QED
      BY <2>0, <3>1 DEF CompleteInv, Wrote, Cleared
  <2>12. ASSUME NEW r \in Ranks, AskTask(r) PROVE CompleteInv'
    BY <2>0, <2>12, CompleteKept DEF AskTask, Wrote, Cleared, TypeInv
  <2>13. ASSUME NEW r \in Ranks, AnswerTask(r) PROVE CompleteInv'
    BY <2>0, <2>13, CompleteKept DEF AnswerTask, Wrote
  <2>14. ASSUME NEW r \in Ranks, GatherTask(r) PROVE CompleteInv'
    BY <2>0, <2>14, CompleteKept DEF GatherTask, NextTask, Wrote, Cleared, TypeInv
  <2>15. CASE UNCHANGED vars
    BY <2>15 DEF vars, CompleteInv, Wrote, Cleared, Parallel
  <2>. QED
    BY <2>1, <2>2, <2>3, <2>4, <2>5, <2>6, <2>7, <2>8, <2>9, <2>10, <2>11, <2>12, <2>13,
       <2>14, <2>15 DEF Next, Step
<1>. QED
  BY <1>1, <1>2, TypeInvariant, ModeInvariant, SerialInvariant, PTL DEF Spec

(* When ipm_log has returned in all tasks and the file could be opened, it *)
(* has the section of each task and nothing of an earlier file, for any    *)
(* number of tasks and whichever of them have a buffer.                    *)
THEOREM CompleteCorrect == Spec => []LogComplete
<1>1. TypeInv /\ ModeInv /\ SerialInv /\ CompleteInv => LogComplete
  <2>. SUFFICES ASSUME TypeInv, ModeInv, SerialInv, CompleteInv,
                       \A r \in Ranks : at[r] = "done", ~env.devnull, env.opens
                PROVE  {p.rank : p \in file} = Ranks /\ ~old
    BY DEF LogComplete
  <2>1. ~old
    BY RanksAre DEF CompleteInv, Cleared
  <2>2. \A p \in file : p.rank \in Ranks
    BY DEF TypeInv, TypeOK
  <2>3. ASSUME NEW r \in Ranks PROVE \E p \in file : p.rank = r
    <3>1. CASE Parallel
      BY <3>1 DEF CompleteInv, Wrote
    <3>2. CASE ~Parallel
      <4>1. Written(mpi_size) /\ r \in 0 .. mpi_size - 1
        BY <3>2, RanksAre DEF SerialInv, Ranks
      <4>. QED
        BY <4>1 DEF Written
    <3>. QED
      BY <3>1, <3>2
  <2>. QED
    BY <2>1, <2>2, <2>3
<1>. QED
  BY <1>1, TypeInvariant, ModeInvariant, SerialInvariant, CompleteInvariant, PTL
=============================================================================
