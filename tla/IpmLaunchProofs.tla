--------------------------- MODULE IpmLaunchProofs ---------------------------
(***************************************************************************)
(* Theorems about the launcher, for every number of tasks.                 *)
(***************************************************************************)
EXTENDS IpmLaunch, TLAPS, FiniteSetTheorems, SequenceTheorems

(* What the place of a task says of its lock and of its child.             *)
PlaceInv ==
  \A t \in Tasks :
    /\ at[t] \in {"lock", "append", "poll", "arrive", "count", "await"} => parallel
    /\ at[t] \in {"init", "lock", "append"} => l_type[t] = "F_WRLCK"
    /\ parallel /\ at[t] \notin {"init", "lock", "append", "exit"} => l_type[t] = "F_UNLCK"
    /\ at[t] \in {"init", "lock", "append"} => t \notin file.ranks
    /\ at[t] \in {"arrive", "count", "await"} => child[t] = "ended"
    /\ at[t] = "count" => line[t] # NoLine
    /\ id[t] # 0 => child[t] = "ended" /\ at[t] \in {"arrive", "count", "await", "exit"}
    /\ result[t][1] = "all" => at[t] \in {"arrive", "count", "await", "exit"}

(* The holder of the lock is the one task that appends its record.         *)
LockInv ==
  /\ holder = {t \in Tasks : at[t] = "append"}
  /\ \A t, u \in holder : t = u

(* A block is written when all have registered, and only once; until then  *)
(* the records at the beginning of the file are those of the tasks.        *)
RegisteredInv ==
  Fresh =>
    /\ file.blocks # <<>> => file.ranks = Tasks
    /\ file.closed => file.blocks # <<>>
    /\ file.lead <= Cardinality(file.ranks)
    /\ \A t \in Tasks : at[t] = "append" => n_before[t] <= Cardinality(file.ranks)
    /\ file.first = NoLine =>
         /\ file.blocks = <<>> => file.lead = Cardinality(file.ranks)
         /\ file.blocks = <<>> => \A t \in Tasks : at[t] = "append" => n_before[t] = file.lead
         /\ file.ranks = Tasks =>
              file.lead = N /\ Len(file.blocks) = 1 /\ file.closed

(* The tasks that have counted themselves at a barrier.                    *)
Arrived == {t \in Tasks : id[t] # 0}

(* A line of the barrier counts no more than those in A, who have come.    *)
Sound(l, A) == (l.id = 0 /\ l.count <= Cardinality(A)) \/ A = Tasks

(* The lines of the file, and those that tasks have read, are sound; one   *)
(* that has seen all knows that all have come.                             *)
ArrivedInv ==
  Fresh =>
    /\ \A k \in 1 .. Len(file.blocks) : Sound(file.blocks[k], Arrived)
    /\ \A t \in Tasks : at[t] = "count" /\ magic[t] # 0 => Sound(line[t], Arrived)
    /\ \A t \in Tasks : magic[t] # 0 /\ result[t][1] = "all" => Arrived = Tasks

LaunchInv == TypeOK /\ PlaceInv /\ LockInv /\ RegisteredInv /\ ArrivedInv

-----------------------------------------------------------------------------
(* The tasks are N.                                                        *)
LEMMA TasksAre == IsFiniteSet(Tasks) /\ Cardinality(Tasks) = N /\ N \in Nat /\ N > 0
BY SizeAssumption, FS_Interval DEF Tasks

(* A set of tasks counts them, and one of N tasks is all of them.          *)
LEMMA SetOfTasks ==
  ASSUME NEW S \in SUBSET Tasks
  PROVE  /\ Cardinality(S) \in Nat /\ Cardinality(S) <= N
         /\ Cardinality(S) >= N => S = Tasks
         /\ \A t \in Tasks : t \notin S => Cardinality(S \cup {t}) = Cardinality(S) + 1
<1>1. IsFiniteSet(S) /\ Cardinality(S) <= N /\ (Cardinality(S) = N => S = Tasks)
  BY TasksAre, FS_Subset
<1>2. Cardinality(S) \in Nat
  BY <1>1, FS_CardinalityType
<1>3. \A t \in Tasks : t \notin S => Cardinality(S \cup {t}) = Cardinality(S) + 1
  BY <1>1, FS_AddElement
<1>. QED
  BY <1>1, <1>2, <1>3, TasksAre

(* No line is -1, which is how the model writes that there is none.        *)
LEMMA LinesAre == NoLine \notin Lines /\ NewBlock \in Lines
BY DEF NoLine, NewBlock, Lines

(* What a reader may find at its offset.                                   *)
LEMMA AtOffsetIs ==
  ASSUME TypeOK, NEW t \in Tasks, NEW l \in AtOffset(t)
  PROVE  l \in Lines /\ (magic[t] # 0 => magic[t] \in 1 .. Len(file.blocks) /\ l = file.blocks[magic[t]])
<1>1. file.blocks \in Seq(Lines) /\ file.first \in Lines \cup {NoLine}
      /\ magic[t] \in 0 .. Len(file.blocks)
  BY DEF TypeOK, Files
<1>2. CASE magic[t] = 0
  <2>1. l \in AtStart
    BY <1>2 DEF AtOffset
  <2>2. Tasks \subseteq Nat /\ 0 .. N + 1 \subseteq Nat
    BY TasksAre DEF Tasks
  <2>3. l \in Lines
    BY <1>1, <2>1, <2>2 DEF AtStart, Lines
  <2>. QED
    BY <1>2, <2>3
<1>3. CASE magic[t] # 0
  <2>1. magic[t] \in 1 .. Len(file.blocks)
    BY <1>1, <1>3
  <2>2. l = file.blocks[magic[t]]
    BY <1>3 DEF AtOffset
  <2>3. l \in Lines
    BY <1>1, <2>1, <2>2
  <2>. QED
    BY <2>1, <2>2, <2>3
<1>. QED
  BY <1>2, <1>3

(* An arrival adds one.                                                    *)
LEMMA CountedIs ==
  ASSUME NEW l \in Lines
  PROVE  Counted(l) \in Lines /\ Counted(l).count = l.count + 1
         /\ Counted(l).id = (IF l.count = N - 1 THEN l.id + 1 ELSE l.id)
         /\ l.id \in Nat /\ l.count \in Nat
BY DEF Counted, Lines

(* The file with a record more.                                            *)
LEMMA RegisteredIs ==
  ASSUME TypeOK, NEW t \in Tasks
  PROVE  /\ Registered(t) \in Files
         /\ Registered(t).old = file.old /\ Registered(t).first = file.first
         /\ Registered(t).ranks = file.ranks \cup {t}
         /\ Registered(t).lead =
              (IF file.blocks = <<>> /\ file.first = NoLine THEN file.lead + 1 ELSE file.lead)
         /\ Registered(t).closed = IsLastToRegister(t)
         /\ Registered(t).blocks =
              (IF IsLastToRegister(t) THEN Append(file.blocks, NewBlock) ELSE file.blocks)
<1>1. file \in Files /\ file.lead \in Nat /\ file.blocks \in Seq(Lines) /\ file.ranks \in SUBSET Tasks
  BY DEF TypeOK, Files
<1>. DEFINE l == IF file.blocks = <<>> /\ file.first = NoLine THEN file.lead + 1 ELSE file.lead
            c == IsLastToRegister(t)
            b == IF c THEN Append(file.blocks, NewBlock) ELSE file.blocks
            r == file.ranks \cup {t}
<1>2. Append(file.blocks, NewBlock) \in Seq(Lines)
  BY <1>1, LinesAre
<1>3. c \in BOOLEAN
  BY DEF IsLastToRegister
<1>4. l \in Nat /\ b \in Seq(Lines) /\ r \in SUBSET Tasks
  BY <1>1, <1>2
<1>5. Registered(t) = [file EXCEPT !.lead = l, !.ranks = r, !.closed = c, !.blocks = b]
  BY DEF Registered
<1>. HIDE DEF l, c, b, r
<1>6. /\ Registered(t) \in Files /\ Registered(t).old = file.old /\ Registered(t).first = file.first
      /\ Registered(t).lead = l /\ Registered(t).ranks = r /\ Registered(t).closed = c
      /\ Registered(t).blocks = b
  BY <1>1, <1>3, <1>4, <1>5 DEF Files
<1>. QED
  BY <1>6 DEF l, c, b, r

(* The file with a line of the barrier written over.                       *)
LEMMA WrittenIs ==
  ASSUME TypeOK, NEW t \in Tasks, line[t] # NoLine
  PROVE  /\ Written(t) \in Files
         /\ Written(t).old = file.old /\ Written(t).ranks = file.ranks
         /\ Written(t).closed = file.closed
         /\ Len(Written(t).blocks) = Len(file.blocks)
         /\ magic[t] = 0 => Written(t).lead = 0 /\ Written(t).first # NoLine
         /\ magic[t] # 0 => Written(t).first = file.first /\ Written(t).lead = file.lead
         /\ \A k \in 1 .. Len(file.blocks) :
              Written(t).blocks[k] = IF magic[t] = k THEN Counted(line[t]) ELSE file.blocks[k]
<1>1. file \in Files /\ magic[t] \in 0 .. Len(file.blocks) /\ file.blocks \in Seq(Lines)
      /\ file.lead \in Nat /\ file.ranks \in SUBSET Tasks /\ file.closed \in BOOLEAN
  BY DEF TypeOK, Files
<1>. DEFINE e == Counted(line[t])
<1>2. e \in Lines
  BY CountedIs DEF TypeOK
<1>3. CASE magic[t] = 0
  <2>1. Written(t) = [file EXCEPT !.first = e, !.lead = 0]
    BY <1>3 DEF Written
  <2>. HIDE DEF e
  <2>2. \A k \in 1 .. Len(file.blocks) : magic[t] # k
    BY <1>3
  <2>3. /\ Written(t).old = file.old /\ Written(t).ranks = file.ranks
        /\ Written(t).closed = file.closed /\ Written(t).blocks = file.blocks
        /\ Written(t).lead = 0 /\ Written(t).first = e
    BY <1>1, <2>1 DEF Files
  <2>4. e \in Lines \cup {NoLine}
    BY <1>2
  <2>5. Written(t) \in Files
    <3>1. Written(t) = [old |-> file.old, lead |-> 0, first |-> e, ranks |-> file.ranks,
                        closed |-> file.closed, blocks |-> file.blocks]
      BY <1>1, <2>1 DEF Files
    <3>2. file.old \in Nat
      BY <1>1 DEF Files
    <3>. QED
      BY <1>1, <2>4, <3>1, <3>2 DEF Files
  <2>. QED
    BY <1>2, <1>3, <2>2, <2>3, <2>5, LinesAre
<1>4. CASE magic[t] # 0
  <2>. DEFINE b == [file.blocks EXCEPT ![magic[t]] = Counted(line[t])]
  <2>1. Written(t) = [file EXCEPT !.blocks = b]
    BY <1>4, <1>1 DEF Written, Files
  <2>2. b \in Seq(Lines) /\ Len(b) = Len(file.blocks)
    BY <1>1, <1>2, <1>4, ExceptSeq
  <2>3. \A k \in 1 .. Len(file.blocks) :
          b[k] = IF magic[t] = k THEN Counted(line[t]) ELSE file.blocks[k]
    BY <1>1, <1>2, <1>4, ExceptSeq
  <2>. HIDE DEF b
  <2>4. /\ Written(t) \in Files /\ Written(t).old = file.old /\ Written(t).ranks = file.ranks
        /\ Written(t).closed = file.closed /\ Written(t).blocks = b
        /\ Written(t).lead = file.lead /\ Written(t).first = file.first
    BY <1>1, <2>1, <2>2 DEF Files
  <2>. QED
    BY <1>4, <2>2, <2>3, <2>4
<1>. QED
  BY <1>3, <1>4
-----------------------------------------------------------------------------
(* The invariant holds of the files that may have been left.               *)
LEMMA LaunchInit == Init => LaunchInv
<1>. SUFFICES ASSUME Init PROVE LaunchInv
  OBVIOUS
<1>1. PICK left \in Leftovers :
        file = [old |-> left.old, lead |-> left.old, first |-> NoLine, ranks |-> {},
                closed |-> left.closed,
                blocks |-> IF left.closed THEN <<[id |-> 1, count |-> 2 * N]>> ELSE <<>>]
  BY DEF Init
<1>2. left.old \in Nat /\ left.closed \in BOOLEAN /\ (left.closed => left.old # 0)
  BY LeftoverAssumption
<1>3. [id |-> 1, count |-> 2 * N] \in Lines
  BY TasksAre DEF Lines
<1>4. (IF left.closed THEN <<[id |-> 1, count |-> 2 * N]>> ELSE <<>>) \in Seq(Lines)
  BY <1>3
<1>5. file \in Files
  BY <1>1, <1>2, <1>4 DEF Files
<1>6. TypeOK
  <2>1. \A t \in Tasks : magic[t] \in 0 .. Len(file.blocks)
    BY <1>5 DEF Init, Files
  <2>. QED
    BY <1>5, <2>1 DEF Init, TypeOK
<1>7. PlaceInv
  BY <1>1 DEF Init, PlaceInv
<1>8. LockInv
  BY DEF Init, LockInv
<1>9. Fresh => file.blocks = <<>> /\ ~file.closed /\ file.lead = 0 /\ file.ranks = {}
  BY <1>1, <1>2 DEF Fresh
<1>10. Cardinality({}) = 0 /\ Tasks # {}
  BY FS_EmptySet, TasksAre
<1>11. RegisteredInv
  BY <1>9, <1>10 DEF RegisteredInv, Init
<1>12. ArrivedInv
  BY <1>9 DEF ArrivedInv, Init
<1>. QED
  BY <1>6, <1>7, <1>8, <1>11, <1>12 DEF LaunchInv

(* Every step keeps the types.                                             *)
LEMMA TypeStep ==
  ASSUME LaunchInv, [Next]_vars
  PROVE  TypeOK'
<1>. USE DEF LaunchInv
<1>. SUFFICES ASSUME TypeOK, PlaceInv, NEW t \in Tasks, Step(t) \/ ChildEnds(t) \/ Killed(t)
             PROVE  TypeOK'
  <2>1. CASE UNCHANGED vars
    BY <2>1 DEF vars, init_vars, file_vars, barrier_vars, TypeOK
  <2>. QED
    BY <2>1 DEF Next
<1>. USE DEF TypeOK, GoTo, init_vars, file_vars, barrier_vars
<1>1. CASE ParallelInit(t)
  BY <1>1 DEF ParallelInit
<1>2. CASE ReadRecords(t)
  BY <1>2 DEF ReadRecords, Held, Files
<1>3. CASE AppendRecord(t)
  <2>1. file' \in Files /\ Len(file'.blocks) >= Len(file.blocks)
    <3>1. file.blocks \in Seq(Lines)
      BY DEF Files
    <3>2. file' = Registered(t)
      BY <1>3 DEF AppendRecord
    <3>3. Len(file.blocks) \in Nat /\ Len(Append(file.blocks, NewBlock)) = Len(file.blocks) + 1
      BY <3>1, LinesAre
    <3>4. Registered(t) \in Files
          /\ Registered(t).blocks \in {file.blocks, Append(file.blocks, NewBlock)}
      BY RegisteredIs
    <3>. QED
      BY <3>2, <3>3, <3>4
  <2>2. magic' \in [Tasks -> 0 .. Len(file'.blocks)]
    BY <1>3, <2>1 DEF AppendRecord, Files
  <2>. QED
    BY <1>3, <2>1, <2>2 DEF AppendRecord
<1>4. CASE FindBlock(t)
  BY <1>4 DEF FindBlock, Files
<1>5. CASE InitTimeout(t)
  BY <1>5 DEF InitTimeout
<1>6. CASE ParseArgs(t)
  BY <1>6 DEF ParseArgs
<1>7. CASE Fork(t)
  BY <1>7 DEF Fork
<1>8. CASE SendToken(t)
  BY <1>8 DEF SendToken
<1>9. CASE WaitChild(t)
  BY <1>9 DEF WaitChild
<1>10. CASE ReadBarrier(t)
  BY <1>10, AtOffsetIs DEF ReadBarrier, Held
<1>11. CASE Arrive(t)
  <2>1. line[t] # NoLine
    BY <1>11 DEF Arrive, PlaceInv
  <2>2. file' \in Files /\ Len(file'.blocks) = Len(file.blocks)
    BY <1>11, <2>1, WrittenIs DEF Arrive
  <2>. QED
    BY <1>11, <2>2 DEF Arrive
<1>12. CASE TryAgain(t)
  BY <1>12 DEF TryAgain
<1>13. CASE ArriveTimeout(t)
  BY <1>13 DEF ArriveTimeout
<1>14. CASE SeeAll(t)
  <2>1. PICK l \in AtOffset(t) : line' = [line EXCEPT ![t] = l]
    BY <1>14 DEF SeeAll
  <2>2. line' \in [Tasks -> Lines \cup {NoLine}]
    BY <2>1, AtOffsetIs
  <2>. QED
    BY <1>14, <2>2 DEF SeeAll, Leave
<1>15. CASE BarrierTimeout(t)
  BY <1>15 DEF BarrierTimeout, Leave
<1>16. CASE ChildEnds(t)
  BY <1>16 DEF ChildEnds
<1>17. CASE Killed(t)
  BY <1>17 DEF Killed
<1>. QED
  BY <1>1, <1>2, <1>3, <1>4, <1>5, <1>6, <1>7, <1>8, <1>9, <1>10, <1>11, <1>12, <1>13, <1>14,
     <1>15, <1>16, <1>17 DEF Step

(* A task's place, lock and child go together.                             *)
LEMMA PlaceStep ==
  ASSUME LaunchInv, [Next]_vars
  PROVE  PlaceInv'
<1>. SUFFICES ASSUME TypeOK, PlaceInv, NEW t \in Tasks, Step(t) \/ ChildEnds(t) \/ Killed(t)
             PROVE  PlaceInv'
  <2>1. CASE UNCHANGED vars
    BY <2>1 DEF vars, init_vars, file_vars, barrier_vars, PlaceInv, LaunchInv
  <2>. QED
    BY <2>1 DEF Next, LaunchInv
<1>0. /\ at \in [Tasks -> {"init", "lock", "append", "poll", "args", "fork", "token", "wait",
                           "arrive", "count", "await", "exit"}]
      /\ child \in [Tasks -> {"none", "ready", "running", "ended"}]
      /\ l_type \in [Tasks -> {"F_WRLCK", "F_UNLCK"}]
      /\ id \in [Tasks -> Nat] /\ line \in [Tasks -> Lines \cup {NoLine}]
      /\ round \in [Tasks -> {1, 2}] /\ result \in [Tasks -> [{1, 2} -> {"none", "all", "timeout"}]]
  BY DEF TypeOK
<1>. USE <1>0 DEF PlaceInv, GoTo, init_vars, file_vars, barrier_vars
<1>1. CASE ParallelInit(t)
  BY <1>1 DEF ParallelInit
<1>2. CASE ReadRecords(t)
  BY <1>2 DEF ReadRecords
<1>3. CASE AppendRecord(t)
  <2>1. file'.ranks = file.ranks \cup {t}
    BY <1>3, RegisteredIs DEF AppendRecord
  <2>2. at[t] = "append" /\ at' = [at EXCEPT ![t] = "poll"] /\ l_type' = [l_type EXCEPT ![t] = "F_UNLCK"]
        /\ UNCHANGED <<parallel, child, id, line, result>>
    BY <1>3 DEF AppendRecord
  <2>. QED
    BY <2>1, <2>2
<1>4. CASE FindBlock(t)
  BY <1>4 DEF FindBlock
<1>5. CASE InitTimeout(t)
  BY <1>5 DEF InitTimeout
<1>6. CASE ParseArgs(t)
  BY <1>6 DEF ParseArgs
<1>7. CASE Fork(t)
  BY <1>7 DEF Fork
<1>8. CASE SendToken(t)
  BY <1>8 DEF SendToken
<1>9. CASE WaitChild(t)
  BY <1>9 DEF WaitChild
<1>10. CASE ReadBarrier(t)
  <2>1. PICK l \in AtOffset(t) : line' = [line EXCEPT ![t] = l]
    BY <1>10 DEF ReadBarrier
  <2>2. l # NoLine
    BY AtOffsetIs, LinesAre
  <2>. QED
    BY <1>10, <2>1, <2>2 DEF ReadBarrier
<1>11. CASE Arrive(t)
  <2>1. file'.ranks = file.ranks
    BY <1>11, WrittenIs DEF Arrive
  <2>. QED
    BY <1>11, <2>1 DEF Arrive
<1>12. CASE TryAgain(t)
  BY <1>12 DEF TryAgain
<1>13. CASE ArriveTimeout(t)
  BY <1>13 DEF ArriveTimeout
<1>14. CASE SeeAll(t)
  <2>1. PICK l \in AtOffset(t) : line' = [line EXCEPT ![t] = l]
    BY <1>14 DEF SeeAll
  <2>. QED
    BY <1>14, <2>1 DEF SeeAll, Leave
<1>15. CASE BarrierTimeout(t)
  BY <1>15 DEF BarrierTimeout, Leave
<1>16. CASE ChildEnds(t)
  BY <1>16 DEF ChildEnds
<1>17. CASE Killed(t)
  BY <1>17 DEF Killed
<1>. QED
  BY <1>1, <1>2, <1>3, <1>4, <1>5, <1>6, <1>7, <1>8, <1>9, <1>10, <1>11, <1>12, <1>13, <1>14,
     <1>15, <1>16, <1>17 DEF Step

(* The lock is held by the task that appends, and by no other.             *)
LEMMA LockStep ==
  ASSUME LaunchInv, [Next]_vars
  PROVE  LockInv'
<1>. SUFFICES ASSUME TypeOK, PlaceInv, LockInv, NEW t \in Tasks,
                    Step(t) \/ ChildEnds(t) \/ Killed(t)
             PROVE  LockInv'
  <2>1. CASE UNCHANGED vars
    BY <2>1 DEF vars, init_vars, file_vars, barrier_vars, LockInv, LaunchInv
  <2>. QED
    BY <2>1 DEF Next, LaunchInv
<1>0. /\ at \in [Tasks -> {"init", "lock", "append", "poll", "args", "fork", "token", "wait",
                           "arrive", "count", "await", "exit"}]
      /\ l_type \in [Tasks -> {"F_WRLCK", "F_UNLCK"}]
  BY DEF TypeOK
<1>. USE <1>0 DEF LockInv, GoTo, init_vars, file_vars, barrier_vars
<1>1. CASE ReadRecords(t)
  <2>1. l_type[t] = "F_WRLCK" /\ at[t] = "lock"
    BY <1>1 DEF ReadRecords, PlaceInv
  <2>2. holder \subseteq {t} /\ holder' = holder \cup {t} /\ at' = [at EXCEPT ![t] = "append"]
    BY <1>1, <2>1 DEF ReadRecords, CanLock, Held
  <2>. QED
    BY <2>1, <2>2
<1>2. CASE AppendRecord(t)
  BY <1>2 DEF AppendRecord
<1>3. CASE ReadBarrier(t)
  <2>1. l_type[t] = "F_UNLCK" /\ at[t] = "arrive"
    BY <1>3 DEF ReadBarrier, PlaceInv
  <2>2. holder' = holder \ {t} /\ at' = [at EXCEPT ![t] = "count"]
    BY <1>3, <2>1 DEF ReadBarrier, Held
  <2>. QED
    BY <2>1, <2>2
<1>4. CASE ParallelInit(t)
  BY <1>4 DEF ParallelInit
<1>5. CASE FindBlock(t) \/ InitTimeout(t)
  BY <1>5 DEF FindBlock, InitTimeout
<1>6. CASE ParseArgs(t)
  BY <1>6 DEF ParseArgs
<1>7. CASE Fork(t)
  BY <1>7 DEF Fork
<1>8. CASE SendToken(t)
  BY <1>8 DEF SendToken
<1>9. CASE WaitChild(t)
  BY <1>9 DEF WaitChild
<1>10. CASE Arrive(t)
  BY <1>10 DEF Arrive
<1>11. CASE TryAgain(t)
  BY <1>11 DEF TryAgain
<1>12. CASE ArriveTimeout(t)
  BY <1>12 DEF ArriveTimeout
<1>13. CASE SeeAll(t) \/ BarrierTimeout(t)
  <2>1. at[t] = "await" /\ holder' = holder \ {t}
        /\ at' = [at EXCEPT ![t] = IF round[t] = 1 THEN "arrive" ELSE "exit"]
    BY <1>13 DEF SeeAll, BarrierTimeout, Leave
  <2>. QED
    BY <2>1
<1>14. CASE ChildEnds(t)
  BY <1>14 DEF ChildEnds
<1>15. CASE Killed(t)
  BY <1>15 DEF Killed
<1>. QED
  BY <1>1, <1>2, <1>3, <1>4, <1>5, <1>6, <1>7, <1>8, <1>9, <1>10, <1>11, <1>12, <1>13, <1>14,
     <1>15 DEF Step

(* The last to register is the one that finds all others' records.         *)
LEMMA LastIs ==
  ASSUME TypeOK, RegisteredInv, Fresh, NEW t \in Tasks, at[t] = "append", t \notin file.ranks
  PROVE  /\ IsLastToRegister(t) => file.ranks \cup {t} = Tasks
         /\ Cardinality(file.ranks \cup {t}) = Cardinality(file.ranks) + 1
         /\ file.blocks = <<>>
         /\ file.first = NoLine /\ file.ranks \cup {t} = Tasks => IsLastToRegister(t) /\ file.lead + 1 = N
<1>1. file.ranks \in SUBSET Tasks /\ file.ranks \cup {t} \in SUBSET Tasks /\ n_before[t] \in Nat
      /\ file.lead \in Nat
  BY DEF TypeOK, Files
<1>2. Cardinality(file.ranks) \in Nat
      /\ Cardinality(file.ranks \cup {t}) = Cardinality(file.ranks) + 1
  BY <1>1, SetOfTasks
<1>3. n_before[t] <= Cardinality(file.ranks) /\ file.blocks = <<>>
  BY DEF RegisteredInv
<1>4. ASSUME IsLastToRegister(t) PROVE file.ranks \cup {t} = Tasks
  <2>1. Cardinality(file.ranks \cup {t}) >= N
    BY <1>1, <1>2, <1>3, <1>4, TasksAre DEF IsLastToRegister
  <2>. QED
    BY <1>1, <2>1, SetOfTasks
<1>5. ASSUME file.first = NoLine, file.ranks \cup {t} = Tasks
      PROVE  IsLastToRegister(t) /\ file.lead + 1 = N
  <2>1. n_before[t] = Cardinality(file.ranks) /\ file.lead = Cardinality(file.ranks)
    BY <1>3, <1>5 DEF RegisteredInv
  <2>2. Cardinality(file.ranks \cup {t}) = N
    BY <1>5, TasksAre
  <2>3. Cardinality(file.ranks) + 1 = N
    BY <1>2, <2>2
  <2>. QED
    BY <1>2, <2>1, <2>3, TasksAre DEF IsLastToRegister
<1>. QED
  BY <1>2, <1>3, <1>4, <1>5

(* The lock makes the records and the block agree.                         *)
LEMMA RegisteredStep ==
  ASSUME LaunchInv, [Next]_vars
  PROVE  RegisteredInv'
<1>. SUFFICES ASSUME TypeOK, PlaceInv, LockInv, RegisteredInv, NEW t \in Tasks,
                    Step(t) \/ ChildEnds(t) \/ Killed(t)
             PROVE  RegisteredInv'
  <2>1. CASE UNCHANGED vars
    BY <2>1 DEF vars, init_vars, file_vars, barrier_vars, RegisteredInv, Fresh, LaunchInv
  <2>. QED
    BY <2>1 DEF Next, LaunchInv
<1>0. /\ at \in [Tasks -> {"init", "lock", "append", "poll", "args", "fork", "token", "wait",
                           "arrive", "count", "await", "exit"}]
      /\ n_before \in [Tasks -> Nat]
      /\ file.ranks \in SUBSET Tasks /\ Cardinality(file.ranks) \in Nat /\ file.lead \in Nat
      /\ file.blocks \in Seq(Lines)
  <2>1. file \in Files
    BY DEF TypeOK
  <2>2. file.ranks \in SUBSET Tasks
    BY <2>1 DEF Files
  <2>. QED
    BY <2>1, <2>2, SetOfTasks DEF TypeOK, Files
<1>1. CASE ReadRecords(t)
  <2>1. file' = file /\ n_before' = [n_before EXCEPT ![t] = file.lead]
        /\ at' = [at EXCEPT ![t] = "append"]
    BY <1>1 DEF ReadRecords, GoTo
  <2>. QED
    BY <1>0, <2>1 DEF RegisteredInv, Fresh
<1>2. CASE AppendRecord(t)
  <2>1. /\ at[t] = "append" /\ file' = Registered(t) /\ n_before' = n_before
        /\ at' = [at EXCEPT ![t] = "poll"]
    BY <1>2 DEF AppendRecord, GoTo
  <2>. SUFFICES ASSUME Fresh' PROVE RegisteredInv'
    BY DEF RegisteredInv
  <2>2. Fresh /\ t \notin file.ranks
    BY <2>1, RegisteredIs DEF Fresh, PlaceInv
  <2>3. \A u \in Tasks : at'[u] # "append"
    BY <1>0, <2>1 DEF LockInv
  <2>4. /\ IsLastToRegister(t) => file.ranks \cup {t} = Tasks
        /\ Cardinality(file.ranks \cup {t}) = Cardinality(file.ranks) + 1
        /\ file.blocks = <<>>
        /\ file.first = NoLine /\ file.ranks \cup {t} = Tasks => IsLastToRegister(t) /\ file.lead + 1 = N
    BY <2>1, <2>2, LastIs
  <2>5. /\ file'.first = file.first /\ file'.ranks = file.ranks \cup {t}
        /\ file'.lead = (IF file.first = NoLine THEN file.lead + 1 ELSE file.lead)
        /\ file'.closed = IsLastToRegister(t)
        /\ file'.blocks = (IF IsLastToRegister(t) THEN <<NewBlock>> ELSE <<>>)
    <3>1. Append(<<>>, NewBlock) = <<NewBlock>>
      OBVIOUS
    <3>. QED
      BY <2>1, <2>4, <3>1, RegisteredIs
  <2>6. file.lead <= Cardinality(file.ranks)
        /\ (file.first = NoLine => file.lead = Cardinality(file.ranks))
    BY <2>2, <2>4 DEF RegisteredInv
  <2>7. <<NewBlock>> # <<>> /\ Len(<<NewBlock>>) = 1
    OBVIOUS
  <2>8. file'.blocks # <<>> => file'.ranks = Tasks
    BY <2>4, <2>5
  <2>9. file'.closed => file'.blocks # <<>>
    BY <2>5, <2>7
  <2>10. file'.lead <= Cardinality(file'.ranks)
         /\ (file'.first = NoLine => file'.lead = Cardinality(file'.ranks))
    BY <1>0, <2>4, <2>5, <2>6
  <2>11. file'.first = NoLine /\ file'.ranks = Tasks
           => file'.lead = N /\ Len(file'.blocks) = 1 /\ file'.closed
    BY <2>4, <2>5, <2>7
  <2>. QED
    BY <2>3, <2>8, <2>9, <2>10, <2>11 DEF RegisteredInv
<1>3. CASE Arrive(t)
  <2>1. /\ at[t] = "count" /\ file' = Written(t) /\ n_before' = n_before
        /\ at' = [at EXCEPT ![t] = "await"] /\ line[t] # NoLine
    BY <1>3 DEF Arrive, GoTo, PlaceInv
  <2>2. /\ file'.old = file.old /\ file'.ranks = file.ranks /\ file'.closed = file.closed
        /\ Len(file'.blocks) = Len(file.blocks) /\ file'.blocks \in Seq(Lines)
        /\ file'.lead <= Cardinality(file.ranks) \/ file'.lead = file.lead
        /\ file'.first = NoLine => file.first = NoLine /\ file'.lead = file.lead
    BY <1>0, <2>1, WrittenIs DEF Files
  <2>3. file'.blocks = <<>> <=> file.blocks = <<>>
    BY <1>0, <2>2, EmptySeq
  <2>4. \A u \in Tasks : at'[u] = "append" => at[u] = "append"
    BY <1>0, <2>1
  <2>. QED
    BY <2>1, <2>2, <2>3, <2>4 DEF RegisteredInv, Fresh
<1>4. ASSUME UNCHANGED <<file, n_before>>, \A u \in Tasks : at'[u] = "append" => at[u] = "append"
      PROVE  RegisteredInv'
  BY <1>4 DEF RegisteredInv, Fresh
<1>5. ASSUME NEW p \in {"lock", "args", "exit", "fork", "token", "wait", "arrive", "count", "await"},
             UNCHANGED <<file, n_before>>, at' = [at EXCEPT ![t] = p] \/ at' = at
      PROVE  RegisteredInv'
  BY <1>0, <1>4, <1>5
<1>. USE DEF GoTo, file_vars
<1>6. CASE ParallelInit(t)
  BY <1>5, <1>6 DEF ParallelInit
<1>7. CASE FindBlock(t) \/ InitTimeout(t)
  BY <1>5, <1>7 DEF FindBlock, InitTimeout
<1>8. CASE ParseArgs(t)
  BY <1>5, <1>8 DEF ParseArgs
<1>9. CASE Fork(t)
  BY <1>5, <1>9 DEF Fork
<1>10. CASE SendToken(t)
  BY <1>5, <1>10 DEF SendToken
<1>11. CASE WaitChild(t)
  BY <1>5, <1>11 DEF WaitChild
<1>12. CASE ReadBarrier(t) \/ TryAgain(t)
  BY <1>5, <1>12 DEF ReadBarrier, TryAgain
<1>13. CASE ArriveTimeout(t)
  BY <1>5, <1>13 DEF ArriveTimeout
<1>14. CASE SeeAll(t) \/ BarrierTimeout(t)
  BY <1>5, <1>14 DEF SeeAll, BarrierTimeout, Leave
<1>15. CASE ChildEnds(t)
  BY <1>5, <1>15 DEF ChildEnds
<1>16. CASE Killed(t)
  BY <1>5, <1>16 DEF Killed
<1>. QED
  BY <1>1, <1>2, <1>3, <1>6, <1>7, <1>8, <1>9, <1>10, <1>11, <1>12, <1>13, <1>14, <1>15, <1>16
     DEF Step

(* What has been counted stays true of more tasks.                         *)
LEMMA SoundMonotonic ==
  ASSUME NEW B \in SUBSET Tasks, NEW A \in SUBSET B, NEW l \in Lines, Sound(l, A)
  PROVE  Sound(l, B)
<1>1. Cardinality(A) <= Cardinality(B)
  <2>1. IsFiniteSet(B)
    BY TasksAre, FS_Subset
  <2>. QED
    BY <2>1, FS_Subset
<1>2. Cardinality(A) \in Nat /\ Cardinality(B) \in Nat
  BY SetOfTasks
<1>3. l.count \in Nat
  BY DEF Lines
<1>4. A = Tasks => B = Tasks
  OBVIOUS
<1>. QED
  BY <1>1, <1>2, <1>3, <1>4 DEF Sound

(* A counter at the number of tasks says that all have come.               *)
LEMMA SoundFull ==
  ASSUME NEW A \in SUBSET Tasks, NEW l \in Lines, Sound(l, A), l.count = N
  PROVE  A = Tasks
BY SetOfTasks, TasksAre DEF Sound

(* A task that finds its barrier, the first it comes to or a later one     *)
(* when all have come, counts one arrival more, its own.                   *)
LEMMA SoundArrival ==
  ASSUME NEW A \in SUBSET Tasks, NEW t \in Tasks, NEW l \in Lines, Sound(l, A),
         l.id = 0 => t \notin A
  PROVE  Sound(Counted(l), A \cup {t})
<1>. DEFINE B == A \cup {t}
            c == Counted(l)
<1>1. B \in SUBSET Tasks
  OBVIOUS
<1>2. CASE A = Tasks
  BY <1>2 DEF Sound
<1>3. CASE A # Tasks
  <2>1. l.id = 0 /\ l.count <= Cardinality(A) /\ l.count \in Nat /\ t \notin A
    BY <1>3 DEF Sound, Lines
  <2>2. Cardinality(B) = Cardinality(A) + 1 /\ Cardinality(A) \in Nat
    BY <2>1, SetOfTasks
  <2>3. Cardinality(B) >= N => B = Tasks
    BY <1>1, SetOfTasks
  <2>4. c.count = l.count + 1 /\ c.id = (IF l.count = N - 1 THEN l.id + 1 ELSE l.id)
    BY CountedIs
  <2>. HIDE DEF B, c
  <2>5. c.count <= Cardinality(B)
    BY <2>1, <2>2, <2>4
  <2>6. l.count = N - 1 => B = Tasks
    BY <2>1, <2>2, <2>3, TasksAre
  <2>7. Sound(c, B)
    BY <2>1, <2>4, <2>5, <2>6 DEF Sound
  <2>. QED
    BY <2>7 DEF c, B
<1>. QED
  BY <1>2, <1>3

(* No line counts a task that has not come.                                *)
LEMMA ArrivedStep ==
  ASSUME LaunchInv, [Next]_vars
  PROVE  ArrivedInv'
<1>0. TypeOK'
  BY TypeStep
<1>. SUFFICES ASSUME TypeOK, PlaceInv, RegisteredInv, ArrivedInv, NEW t \in Tasks,
                    Step(t) \/ ChildEnds(t) \/ Killed(t)
             PROVE  ArrivedInv'
  <2>1. CASE UNCHANGED vars
    BY <2>1 DEF vars, init_vars, file_vars, barrier_vars, ArrivedInv, Arrived, Fresh, LaunchInv
  <2>. QED
    BY <2>1 DEF Next, LaunchInv
<1>1. /\ at \in [Tasks -> {"init", "lock", "append", "poll", "args", "fork", "token", "wait",
                           "arrive", "count", "await", "exit"}]
      /\ file \in Files /\ file.blocks \in Seq(Lines) /\ magic \in [Tasks -> 0 .. Len(file.blocks)]
      /\ id \in [Tasks -> Nat] /\ line \in [Tasks -> Lines \cup {NoLine}] /\ round \in [Tasks -> {1, 2}]
      /\ result \in [Tasks -> [{1, 2} -> {"none", "all", "timeout"}]]
  BY DEF TypeOK, Files
<1>2. /\ \A k \in 1 .. Len(file.blocks) : file.blocks[k] \in Lines
      /\ Arrived \in SUBSET Tasks
  BY <1>1 DEF Arrived
<1>3. CASE AppendRecord(t)
  <2>1. /\ at[t] = "append" /\ file' = Registered(t) /\ at' = [at EXCEPT ![t] = "poll"]
        /\ UNCHANGED <<id, line, magic, result>>
    BY <1>3 DEF AppendRecord, GoTo, barrier_vars
  <2>. SUFFICES ASSUME Fresh' PROVE ArrivedInv'
    BY DEF ArrivedInv
  <2>2. Fresh /\ file.blocks = <<>>
    <3>1. Fresh /\ t \notin file.ranks
      BY <2>1, RegisteredIs DEF Fresh, PlaceInv
    <3>. QED
      BY <2>1, <3>1, LastIs
  <2>3. file'.blocks = <<>> \/ file'.blocks = <<NewBlock>>
    <3>1. Append(<<>>, NewBlock) = <<NewBlock>>
      OBVIOUS
    <3>. QED
      BY <2>1, <2>2, <3>1, RegisteredIs
  <2>4. \A k \in 1 .. Len(file'.blocks) : file'.blocks[k] = NewBlock
    BY <2>3
  <2>5. Sound(NewBlock, Arrived)
    BY <1>2, SetOfTasks DEF Sound, NewBlock
  <2>6. \A u \in Tasks : magic[u] = 0
    BY <1>1, <2>2
  <2>7. Arrived' = Arrived
    BY <2>1 DEF Arrived
  <2>. QED
    BY <2>1, <2>4, <2>5, <2>6, <2>7 DEF ArrivedInv
<1>4. CASE ReadBarrier(t)
  <2>1. PICK l \in AtOffset(t) : line' = [line EXCEPT ![t] = l]
    BY <1>4 DEF ReadBarrier
  <2>2. /\ at' = [at EXCEPT ![t] = "count"] /\ UNCHANGED <<file, id, magic, result>>
    BY <1>4 DEF ReadBarrier, GoTo
  <2>3. Fresh /\ magic[t] # 0 => Sound(l, Arrived)
    BY AtOffsetIs DEF ArrivedInv
  <2>4. Arrived' = Arrived /\ (Fresh' <=> Fresh)
    BY <2>2 DEF Arrived, Fresh
  <2>. QED
    BY <1>1, <2>1, <2>2, <2>3, <2>4 DEF ArrivedInv
<1>5. CASE Arrive(t)
  <2>1. /\ at[t] = "count" /\ line[t].id = id[t] /\ file' = Written(t)
        /\ id' = [id EXCEPT ![t] = @ + 1] /\ at' = [at EXCEPT ![t] = "await"]
        /\ UNCHANGED <<line, magic, result>> /\ line[t] \in Lines
    BY <1>1, <1>5 DEF Arrive, GoTo, PlaceInv
  <2>. SUFFICES ASSUME Fresh' PROVE ArrivedInv'
    BY DEF ArrivedInv
  <2>2. /\ Fresh /\ Len(file'.blocks) = Len(file.blocks)
        /\ \A k \in 1 .. Len(file.blocks) :
             file'.blocks[k] = IF magic[t] = k THEN Counted(line[t]) ELSE file.blocks[k]
    BY <2>1, WrittenIs, LinesAre DEF Fresh
  <2>3. Arrived' = Arrived \cup {t} /\ Arrived' \in SUBSET Tasks /\ Arrived \in SUBSET Arrived'
    BY <1>1, <1>2, <2>1 DEF Arrived
  <2>4. magic[t] # 0 => Sound(Counted(line[t]), Arrived')
    <3>1. line[t].id = 0 => t \notin Arrived
      BY <2>1 DEF Arrived
    <3>2. magic[t] # 0 => Sound(line[t], Arrived)
      BY <2>1, <2>2 DEF ArrivedInv
    <3>. QED
      BY <1>2, <2>1, <2>3, <3>1, <3>2, SoundArrival
  <2>5. \A k \in 1 .. Len(file.blocks) : Sound(file.blocks[k], Arrived')
    BY <1>2, <2>2, <2>3, SoundMonotonic DEF ArrivedInv
  <2>6. \A k \in 1 .. Len(file'.blocks) : Sound(file'.blocks[k], Arrived')
    BY <2>2, <2>4, <2>5
  <2>7. \A u \in Tasks : at'[u] = "count" /\ magic'[u] # 0 => Sound(line'[u], Arrived')
    <3>. SUFFICES ASSUME NEW u \in Tasks, at'[u] = "count", magic'[u] # 0
                 PROVE  Sound(line'[u], Arrived')
      OBVIOUS
    <3>1. at[u] = "count" /\ magic[u] # 0 /\ line'[u] = line[u] /\ line[u] \in Lines
      BY <1>1, <2>1 DEF PlaceInv
    <3>2. Sound(line[u], Arrived)
      BY <2>2, <3>1 DEF ArrivedInv
    <3>. QED
      BY <2>3, <3>1, <3>2, SoundMonotonic
  <2>8. \A u \in Tasks : magic'[u] # 0 /\ result'[u][1] = "all" => Arrived' = Tasks
    BY <2>1, <2>2, <2>3 DEF ArrivedInv
  <2>. QED
    BY <2>6, <2>7, <2>8 DEF ArrivedInv, Tasks
<1>6. CASE SeeAll(t)
  <2>1. PICK l \in AtOffset(t) : l.count = N /\ line' = [line EXCEPT ![t] = l]
    BY <1>6 DEF SeeAll
  <2>2. /\ at[t] = "await" /\ result' = [result EXCEPT ![t][round[t]] = "all"]
        /\ at' = [at EXCEPT ![t] = IF round[t] = 1 THEN "arrive" ELSE "exit"]
        /\ UNCHANGED <<file, magic, id>>
    BY <1>6 DEF SeeAll, Leave, GoTo
  <2>3. Arrived' = Arrived /\ (Fresh' <=> Fresh)
    BY <2>2 DEF Arrived, Fresh
  <2>4. Fresh /\ magic[t] # 0 => Arrived = Tasks
    BY <1>2, <2>1, AtOffsetIs, SoundFull DEF ArrivedInv
  <2>5. \A u \in Tasks : u # t => result'[u] = result[u] /\ line'[u] = line[u] /\ at'[u] = at[u]
    BY <1>1, <2>1, <2>2
  <2>6. at'[t] # "count"
    BY <1>1, <2>2
  <2>. QED
    BY <2>2, <2>3, <2>4, <2>5, <2>6 DEF ArrivedInv
<1>7. CASE BarrierTimeout(t)
  <2>1. /\ result' = [result EXCEPT ![t][round[t]] = "timeout"]
        /\ at' = [at EXCEPT ![t] = IF round[t] = 1 THEN "arrive" ELSE "exit"]
        /\ UNCHANGED <<file, magic, id, line>>
    BY <1>7 DEF BarrierTimeout, Leave, GoTo
  <2>2. Arrived' = Arrived /\ (Fresh' <=> Fresh)
    BY <2>1 DEF Arrived, Fresh
  <2>3. \A u \in Tasks : result'[u][1] = "all" => result[u][1] = "all"
    BY <1>1, <2>1
  <2>4. \A u \in Tasks : at'[u] = "count" => at[u] = "count"
    BY <1>1, <2>1
  <2>. QED
    BY <2>1, <2>2, <2>3, <2>4 DEF ArrivedInv
<1>8. CASE FindBlock(t)
  <2>1. /\ at[t] = "poll" /\ at' = [at EXCEPT ![t] = "args"]
        /\ magic' = [magic EXCEPT ![t] = Len(file.blocks)] /\ UNCHANGED <<file, id, line, result>>
    BY <1>8 DEF FindBlock, GoTo, barrier_vars
  <2>2. Arrived' = Arrived /\ (Fresh' <=> Fresh)
    BY <2>1 DEF Arrived, Fresh
  <2>3. result[t][1] # "all"
    BY <2>1 DEF PlaceInv
  <2>. QED
    BY <1>1, <2>1, <2>2, <2>3 DEF ArrivedInv
<1>9. ASSUME UNCHANGED <<file, magic, id, line, result>>,
             \A u \in Tasks : at'[u] = "count" => at[u] = "count"
      PROVE  ArrivedInv'
  BY <1>9 DEF ArrivedInv, Arrived, Fresh
<1>10. ASSUME NEW p \in {"lock", "append", "args", "exit", "fork", "token", "wait", "arrive", "await"},
              UNCHANGED <<file, magic, id, line, result>>, at' = [at EXCEPT ![t] = p] \/ at' = at
       PROVE  ArrivedInv'
  BY <1>1, <1>9, <1>10
<1>. USE DEF GoTo, file_vars, barrier_vars
<1>11. CASE ParallelInit(t)
  BY <1>10, <1>11 DEF ParallelInit
<1>12. CASE ReadRecords(t) \/ InitTimeout(t)
  BY <1>10, <1>12 DEF ReadRecords, InitTimeout
<1>13. CASE ParseArgs(t)
  BY <1>10, <1>13 DEF ParseArgs
<1>14. CASE Fork(t)
  BY <1>10, <1>14 DEF Fork
<1>15. CASE SendToken(t)
  BY <1>10, <1>15 DEF SendToken
<1>16. CASE WaitChild(t)
  BY <1>10, <1>16 DEF WaitChild
<1>17. CASE TryAgain(t) \/ ArriveTimeout(t)
  BY <1>10, <1>17 DEF TryAgain, ArriveTimeout
<1>18. CASE ChildEnds(t)
  BY <1>10, <1>18 DEF ChildEnds
<1>19. CASE Killed(t)
  BY <1>10, <1>19 DEF Killed
<1>. QED
  BY <1>3, <1>4, <1>5, <1>6, <1>7, <1>8, <1>11, <1>12, <1>13, <1>14, <1>15, <1>16, <1>17, <1>18,
     <1>19 DEF Step

-----------------------------------------------------------------------------
(* The invariant.                                                          *)
THEOREM LaunchInvariant == Spec => []LaunchInv
<1>1. LaunchInv /\ [Next]_vars => LaunchInv'
  BY TypeStep, PlaceStep, LockStep, RegisteredStep, ArrivedStep DEF LaunchInv
<1>. QED
  BY LaunchInit, <1>1, PTL DEF Spec

(* Every reachable state of the launchers and their file is well typed.    *)
THEOREM TypeCorrect == Spec => []TypeOK
<1>1. LaunchInv => TypeOK
  BY DEF LaunchInv
<1>. QED
  BY LaunchInvariant, <1>1, PTL

(* One and only one task is the last to register, whenever they come.      *)
THEOREM RegistrationCorrect == Spec => []RegistrationComplete
<1>1. LaunchInv => RegistrationComplete
  BY DEF LaunchInv, RegisteredInv, RegistrationComplete
<1>. QED
  BY LaunchInvariant, <1>1, PTL

(* The wait for +++ is a barrier for those that do not time out.           *)
THEOREM InitCorrect == Spec => []InitSeparates
<1>1. LaunchInv => InitSeparates
  <2>. SUFFICES ASSUME LaunchInv, Fresh, NEW t \in Tasks, magic[t] # 0 PROVE file.ranks = Tasks
    BY DEF InitSeparates
  <2>1. magic[t] \in 0 .. Len(file.blocks)
    BY DEF LaunchInv, TypeOK
  <2>2. file.blocks # <<>>
    BY <2>1
  <2>. QED
    BY <2>2 DEF LaunchInv, RegisteredInv
<1>. QED
  BY LaunchInvariant, <1>1, PTL

(* The first barrier is one, though its counter is changed without a lock. *)
THEOREM BarrierCorrect == Spec => []BarrierSeparates
<1>1. LaunchInv => BarrierSeparates
  BY DEF LaunchInv, ArrivedInv, PlaceInv, BarrierSeparates, Arrived
<1>. QED
  BY LaunchInvariant, <1>1, PTL
=============================================================================
