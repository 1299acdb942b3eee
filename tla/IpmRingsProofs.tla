---------------------------- MODULE IpmRingsProofs ----------------------------
(***************************************************************************)
(* ipm_get_machtopo and ipm_log over it (IpmMachTopo, IpmTmpfsLog), for    *)
(* every number of tasks and every placement of them on hosts: the rings   *)
(* close, one root at a time appends to the log, and all is in it at the   *)
(* end.                                                                    *)
(*                                                                         *)
(* The invariant gives the messages in transit as a function of what the   *)
(* tasks have done: whether a message is in transit, and what it holds,    *)
(* depends on whether its sender has sent and its receiver has received    *)
(* it.  So a step shows what it sends or receives once, and that it leaves *)
(* all other messages as they are.                                         *)
(***************************************************************************)
EXTENDS IpmTmpfsLog, TLAPS, FiniteSetsExt, FiniteSetTheorems, SequenceTheorems, WellFoundedInduction

(* The lemmas about sums; none of those about folds is used here.          *)
Plus(x, y) == x + y
AnyValue(b, x) == TRUE

INSTANCE FoldTheorems WITH Step <- Plus, Good <- AnyValue

(***************************************************************************)
(* What each message is, and when it is in transit.                        *)
(***************************************************************************)

(* The root of a task's host. *)
Root(q) == Min(OnHost(q))

(* The tasks that task 0 has gathered are those up to here. *)
NGathered == IF at[0] = "enter" THEN 1 ELSE IF at[0] = "gather" THEN n[0] ELSE mpi_size
Gathered(r) == r < NGathered

(* r has received the root of its host. *)
KnowsRoot(r) == at[r] \notin {"enter", "root"}

(* Task 0 has told root r its size and neighbours, and r knows them. *)
SizeTold(r) ==
  \/ at[0] \notin {"enter", "gather", "roots"}
  \/ at[0] = "roots" /\ \E j \in 1 .. n[0] - 1 : local_roots[j] = r
KnowsSize(r) == at[r] \in {"collect", "tell", "bcast", "done"}

(* q has reported to its root, and that has received it. *)
Reported(q) == at[q] \in {"told", "bcast", "done"}
Collects(r, q) == \E j \in 1 .. Len(local_ranks[r]) : local_ranks[r][j] = q

(* The root has told q the ring, and q knows it. *)
RingTold(q) ==
  \/ at[Root(q)] \in {"bcast", "done"}
  \/ at[Root(q)] = "tell" /\ \E j \in 1 .. n[Root(q)] - 1 : local_ranks[Root(q)][j] = q
KnowsRing(q) == at[q] \in {"bcast", "done"}

(* Where x is in s.                                                        *)
PlaceIn(s, x) == CHOOSE j \in 1 .. Len(s) : s[j] = x

(* The neighbours of a root in the list of roots.                          *)
LeftRoot(r) ==
  LET j == PlaceIn(local_roots, r)
  IN IF j = 1 THEN local_roots[Len(local_roots)] ELSE local_roots[j - 1]
RightRoot(r) ==
  IF Len(local_roots) = 1 THEN -1 ELSE RightOf(local_roots, PlaceIn(local_roots, r))

(* What task 0 tells root r, and what its root tells task q.               *)
SizeOf(r) ==
  [intra_size |-> Cardinality(OnHost(r)), inter_left |-> LeftRoot(r),
   inter_right |-> RightRoot(r)]
RingOf(q) ==
  LET s == local_ranks[Root(q)]
      j == PlaceIn(s, q)
  IN [intra_root |-> Root(q), intra_size |-> Cardinality(OnHost(q)),
      intra_left |-> s[j - 1], intra_right |-> RightOf(s, j),
      inter_left |-> LeftRoot(Root(q)), inter_right |-> RightRoot(Root(q))]

(* In ipm_log: p has passed on the token of its host, q has got it. *)
PassedOn(p) ==
  IF Root(p) = p THEN step[p] \notin {"before", "send"} ELSE step[p] = "end"
Got(q) ==
  IF Root(q) = q THEN step[q] \in {"chain", "cat", "rm", "pass", "end"}
  ELSE step[q] \in {"send", "end"}
Follows(q, p) ==
  LET s == local_ranks[Root(p)]
  IN Root(p) = Root(q) /\ \E j \in 1 .. Len(s) : s[j] = p /\ RightOf(s, j) = q
TokenIn(p, q) == p # q /\ Follows(q, p) /\ PassedOn(p) /\ ~Got(q)

(* The turn of the roots. *)
HadTurn(p) == step[p] \in {"cat", "rm", "pass", "end"}
TurnIn(p, q) ==
  \E j \in 1 .. Len(local_roots) - 1 :
    local_roots[j] = p /\ local_roots[j + 1] = q /\ step[p] = "end" /\ ~HadTurn(q)

(* The messages from p to q in transit, in their order: the host's name or *)
(* the answer to it; a report, a ring or the size of a host; a token.      *)
Opt(given, x) == IF given THEN <<x>> ELSE <<>>
First(p, q) ==
  IF q = 0 /\ p # 0 THEN Opt(at[p] # "enter" /\ ~Gathered(p), host[p])
  ELSE IF p = 0 /\ q # 0 THEN Opt(Gathered(q) /\ ~KnowsRoot(q), Root(q))
  ELSE <<>>
Second(p, q) ==
  IF q = Root(p) /\ p # q THEN Opt(Reported(p) /\ ~Collects(q, p), p)
  ELSE IF p = Root(q) /\ p # q THEN Opt(RingTold(q) /\ ~KnowsRing(q), RingOf(q))
  ELSE IF p = 0 /\ Root(q) = q /\ q # 0 THEN Opt(SizeTold(q) /\ ~KnowsSize(q), SizeOf(q))
  ELSE <<>>
Third(p, q) == Opt(TokenIn(p, q) \/ TurnIn(p, q), 0)

Queue(p, q) == First(p, q) \o Second(p, q) \o Third(p, q)

NetIs == net = [c \in Pairs |-> Queue(c[1], c[2])]

(* Each task is on a host.                                                 *)
HostInv == host \in [Ranks -> Hosts]

(* The places of a task in ipm_get_machtopo, and who comes where.          *)
Places ==
  {"enter", "gather", "root", "roots", "member", "size", "collect", "tell", "told", "bcast",
   "done"}

PlaceOk(r) ==
  /\ r = 0 => at[r] \notin {"root", "size", "member", "told"}
  /\ r # 0 => at[r] \notin {"gather", "roots"}
  /\ at[r] \in {"size", "collect", "tell"} => Root(r) = r
  /\ at[r] \in {"member", "told"} => Root(r) # r
  /\ r = 0 /\ at[r] = "enter" => n[r] = 1
  /\ at[r] = "gather" => n[r] \in 1 .. mpi_size - 1
  /\ at[r] = "roots" => n[r] \in 2 .. Len(local_roots) + 1
  /\ at[r] = "tell" => n[r] \in 2 .. Cardinality(OnHost(r)) + 1

PlaceInv ==
  /\ at \in [Ranks -> Places]
  /\ n \in [Ranks -> Nat]
  /\ \A r \in Ranks : PlaceOk(r)

(* The tasks on the host of q that task 0 has gathered.                    *)
GatheredOn(q) == {p \in OnHost(q) : Gathered(p)}

(* Task 0's list has the root of each task that it has gathered once, from *)
(* 0 on in ascending order, and how many it has gathered there.            *)
ListInv ==
  /\ local_roots \in Seq(Ranks) /\ local_sizes \in Seq(Nat)
  /\ Len(local_sizes) = Len(local_roots) /\ Len(local_roots) >= 1 /\ local_roots[1] = 0
  /\ \A i, j \in 1 .. Len(local_roots) : i < j => local_roots[i] < local_roots[j]
  /\ \A q \in Ranks : \A j \in 1 .. Len(local_roots) : local_roots[j] = q =>
       /\ Root(q) = q /\ Gathered(q)
       /\ local_sizes[j] = Cardinality(GatheredOn(q))
  /\ \A q \in Ranks : Gathered(q) => \E j \in 1 .. Len(local_roots) : local_roots[j] = Root(q)

(* Nobody is ahead of what it waits for.                                   *)
OrderOk(r) ==
  /\ r # 0 /\ Gathered(r) => at[r] # "enter"
  /\ r # 0 /\ KnowsRoot(r) => Gathered(r)
  /\ Root(r) = r /\ KnowsSize(r) => SizeTold(r)
  /\ Root(r) # r /\ KnowsRing(r) => RingTold(r)

OrderInv == \A r \in Ranks : OrderOk(r)

(* The list of a root: itself and then those that have reported, once      *)
(* each, in the order it has received them.                                *)
RanksOk(r) ==
  IF Root(r) = r /\ KnowsSize(r)
  THEN LET s == local_ranks[r]
       IN /\ Len(s) >= 1 /\ Len(s) <= Cardinality(OnHost(r)) /\ s[1] = r
          /\ \A i, j \in 1 .. Len(s) : s[i] = s[j] => i = j
          /\ \A q \in Ranks : Collects(r, q) => Root(q) = r /\ (q # r => Reported(q))
          /\ at[r] # "collect" => Len(s) = Cardinality(OnHost(r))
  ELSE local_ranks[r] = <<>>

RanksInv ==
  /\ local_ranks \in [Ranks -> Seq(Ranks)]
  /\ \A r \in Ranks : RanksOk(r)

(* What a task keeps at each stage.                                        *)
TopoOk(r) ==
  /\ r = 0 \/ KnowsRoot(r) => topo[r].intra_root = Root(r)
  /\ Root(r) = r /\ KnowsSize(r) =>
       /\ topo[r].intra_size = Cardinality(OnHost(r))
       /\ topo[r].inter_left = LeftRoot(r) /\ topo[r].inter_right = RightRoot(r)
  /\ Root(r) = r /\ KnowsRing(r) =>
       /\ topo[r].intra_left = local_ranks[r][Cardinality(OnHost(r))]
       /\ Cardinality(OnHost(r)) > 1 => topo[r].intra_right = local_ranks[r][2]
  /\ Root(r) # r /\ KnowsRing(r) => topo[r] = RingOf(r)

TopoType ==
  [intra_root : Int, intra_size : Int, intra_left : Int, intra_right : Int,
   inter_left : Int, inter_right : Int]

TopoInv ==
  /\ topo \in [Ranks -> TopoType]
  /\ \A r \in Ranks : TopoOk(r)

(* The broadcast of the number of hosts, task 0's.                         *)
BcastOk(r) ==
  /\ inside[r] => at[r] = "bcast"
  /\ ops[r] = Opt(at[r] = "done" \/ inside[r],
                  [kind |-> "bcast", data |-> IF r = 0 THEN Len(local_roots) ELSE -1])
  /\ at[r] = "done" => nhosts[r] = Len(local_roots) /\ (at[0] = "done" \/ inside[0])

BcastInv ==
  /\ ops \in [Ranks -> Seq([kind : {"bcast"}, data : Int])]
  /\ inside \in [Ranks -> BOOLEAN]
  /\ nhosts \in [Ranks -> Int]
  /\ \A r \in Ranks : BcastOk(r)

(* Who is where in ipm_log, and when.                                      *)
LogInv ==
  /\ step \in [Ranks -> {"before", "send", "wait", "chain", "cat", "rm", "pass", "end"}]
  /\ \A r \in Ranks : step[r] # "before" => at[r] = "done"
  /\ step[0] # "before" => \A r \in Ranks : at[r] = "done"
  /\ \A r \in Ranks : Root(r) # r => step[r] \in {"before", "send", "wait", "end"}
  /\ \A r \in Ranks : Cardinality(OnHost(r)) = 1 => step[r] \notin {"send", "wait"}
  /\ \A r \in Ranks : step[r] = "pass" => RightRoot(r) # 0 /\ Len(local_roots) > 1

(* The token of a host comes to a task after all those before it in the    *)
(* ring, and back to the root, which starts it, after all.                 *)
RingInv ==
  \A r, p, q \in Ranks : \A i, j \in 1 .. Len(local_ranks[r]) :
    /\ Root(r) = r /\ local_ranks[r][i] = p /\ local_ranks[r][j] = q
    /\ j = 1 \/ i < j
    /\ Got(q)
    => PassedOn(p)

(* The turn comes to a root when all those before it are through.          *)
TurnInv ==
  \A p, q \in Ranks : \A i, j \in 1 .. Len(local_roots) :
    local_roots[i] = p /\ local_roots[j] = q /\ i < j /\ HadTurn(q) => step[p] = "end"

(* The files in /tmp, and what is in the log.                              *)
FilesInv ==
  /\ tmp = {q \in Ranks : step[q] # "before" /\ step[Root(q)] \notin {"pass", "end"}}
  /\ log = [q \in Ranks |-> IF step[Root(q)] \in {"rm", "pass", "end"} THEN 1 ELSE 0]

(* The invariant.                                                          *)
TopoPart == HostInv /\ PlaceInv /\ ListInv /\ OrderInv /\ RanksInv /\ TopoInv /\ BcastInv
LogPart == LogInv /\ RingInv /\ TurnInv /\ FilesInv
IInv == NetIs /\ TopoPart /\ LogPart

-----------------------------------------------------------------------------
(***************************************************************************)
(* Messages in transit.                                                    *)
(***************************************************************************)

(* Pieces of a queue: what is appended to it ...                           *)
LEMMA AppendPieces ==
  ASSUME NEW T, NEW s1 \in Seq(T), NEW s2 \in Seq(T), NEW x \in T
  PROVE  /\ Append(s1 \o s2 \o <<>>, x) = s1 \o s2 \o <<x>>
         /\ Append(s1 \o <<>> \o <<>>, x) = s1 \o <<x>> \o <<>>
         /\ Append(<<>> \o <<>> \o <<>>, x) = <<x>> \o <<>> \o <<>>
<1>1. s1 \o s2 \in Seq(T) /\ <<>> \in Seq(T) /\ <<x>> \in Seq(T)
  BY ConcatProperties
<1>2. s1 \o <<x>> \in Seq(T)
  BY <1>1, ConcatProperties
<1>3. s1 \o s2 \o <<>> = s1 \o s2 /\ s1 \o <<>> = s1
  BY <1>1, ConcatEmptySeq
<1>4. s1 \o <<>> \o <<>> = s1 /\ s1 \o <<x>> \o <<>> = s1 \o <<x>>
  BY <1>2, <1>3, ConcatEmptySeq
<1>5. Append(s1 \o s2, x) = s1 \o s2 \o <<x>> /\ Append(s1, x) = s1 \o <<x>>
  BY <1>1, AppendIsConcat
<1>6. <<>> \o <<>> \o <<>> = <<>> /\ <<x>> \o <<>> \o <<>> = <<x>>
  BY <1>1, ConcatEmptySeq
<1>7. Append(<<>>, x) = <<x>>
  OBVIOUS
<1>. QED
  BY <1>3, <1>4, <1>5, <1>6, <1>7

(* The first of a sequence, and the others. *)
LEMMA FirstAndOthers ==
  ASSUME NEW T, NEW s \in Seq(T), NEW x \in T
  PROVE  <<x>> \o s # <<>> /\ Head(<<x>> \o s) = x /\ Tail(<<x>> \o s) = s
<1>. DEFINE t == <<x>> \o s
<1>1. <<x>> \in Seq(T) /\ Len(<<x>>) = 1 /\ <<x>>[1] = x
  OBVIOUS
<1>2. Len(s) \in Nat
  BY LenProperties
<1>3. /\ t \in Seq(T) /\ Len(t) = 1 + Len(s)
      /\ \A i \in 1 .. 1 + Len(s) : t[i] = IF i <= 1 THEN <<x>>[i] ELSE s[i - 1]
  BY <1>1, ConcatProperties
<1>. HIDE DEF t
<1>4. t # <<>>
  BY <1>2, <1>3
<1>5. t[1] = x
  BY <1>1, <1>2, <1>3
<1>6. Head(t) = t[1]
  BY <1>3, <1>4
<1>7. /\ Tail(t) \in Seq(T) /\ Len(Tail(t)) = Len(t) - 1
      /\ \A i \in 1 .. Len(Tail(t)) : Tail(t)[i] = t[i + 1]
  BY <1>3, <1>4, HeadTailProperties
<1>8. Len(Tail(t)) = Len(s)
  BY <1>2, <1>3, <1>7
<1>9. \A i \in 1 .. Len(Tail(t)) : Tail(t)[i] = s[i]
  <2>1. SUFFICES ASSUME NEW i \in 1 .. Len(s)
                 PROVE  t[i + 1] = s[i]
    BY <1>7, <1>8
  <2>2. i + 1 \in 1 .. 1 + Len(s) /\ ~(i + 1 <= 1) /\ (i + 1) - 1 = i
    BY <1>2
  <2>. QED
    BY <1>3, <2>2
<1>10. Tail(t) = s
  BY <1>7, <1>8, <1>9, SeqEqual
<1>. QED
  BY <1>4, <1>5, <1>6, <1>10 DEF t

(* ... and what is taken from it.                                          *)
LEMMA TakePieces ==
  ASSUME NEW T, NEW s2 \in Seq(T), NEW s3 \in Seq(T), NEW x \in T
  PROVE  /\ /\ <<x>> \o s2 \o s3 # <<>>
            /\ Head(<<x>> \o s2 \o s3) = x
            /\ Tail(<<x>> \o s2 \o s3) = <<>> \o s2 \o s3
         /\ /\ <<>> \o <<x>> \o s3 # <<>>
            /\ Head(<<>> \o <<x>> \o s3) = x
            /\ Tail(<<>> \o <<x>> \o s3) = <<>> \o <<>> \o s3
         /\ /\ <<>> \o <<>> \o <<x>> # <<>>
            /\ Head(<<>> \o <<>> \o <<x>>) = x
            /\ Tail(<<>> \o <<>> \o <<x>>) = <<>> \o <<>> \o <<>>
         /\ <<>> \o <<>> \o <<>> = <<>>
<1>1. s2 \o s3 \in Seq(T) /\ <<>> \in Seq(T) /\ <<x>> \in Seq(T)
  BY ConcatProperties
<1>2. <<x>> \o s2 \o s3 = <<x>> \o (s2 \o s3)
  BY <1>1, ConcatAssociative
<1>3. <<>> \o s2 = s2 /\ <<>> \o <<x>> = <<x>> /\ <<>> \o <<>> = <<>> /\ <<>> \o s3 = s3
  BY <1>1, ConcatEmptySeq
<1>4. Head(<<x>>) = x /\ Tail(<<x>>) = <<>> /\ <<x>> # <<>>
  OBVIOUS
<1>5. <<x>> \o (s2 \o s3) # <<>> /\ Head(<<x>> \o (s2 \o s3)) = x /\ Tail(<<x>> \o (s2 \o s3)) = s2 \o s3
  BY <1>1, FirstAndOthers
<1>6. <<x>> \o s3 # <<>> /\ Head(<<x>> \o s3) = x /\ Tail(<<x>> \o s3) = s3
  BY FirstAndOthers
<1>. QED
  BY <1>2, <1>3, <1>4, <1>5, <1>6

(* The root of a task's host is the first task there.                      *)
LEMMA RootIsFirst ==
  ASSUME NEW q \in Ranks
  PROVE  Root(q) \in OnHost(q) /\ \A p \in OnHost(q) : Root(q) <= p
<1>1. mpi_size - 1 \in Nat /\ OnHost(q) \in SUBSET (0 .. mpi_size - 1) /\ q \in OnHost(q)
  BY SizeAssumption DEF OnHost, Ranks
<1>2. \E x \in OnHost(q) : \A y \in OnHost(q) : x <= y
  BY <1>1, LeastNatural
<1>. QED
  BY <1>2 DEF Root, Min

(* The tasks of a host have the same root, and no others.                  *)
LEMMA RootFacts ==
  /\ 0 \in Ranks /\ Root(0) = 0
  /\ \A q \in Ranks :
       /\ Root(q) \in Ranks /\ Root(q) <= q /\ Root(Root(q)) = Root(q)
       /\ OnHost(q) = {p \in Ranks : Root(p) = Root(q)}
       /\ \A p \in Ranks : host[p] = host[q] <=> Root(p) = Root(q)
<1>1. \A q \in Ranks : Root(q) \in Ranks /\ host[Root(q)] = host[q] /\ Root(q) <= q
  BY RootIsFirst DEF OnHost
<1>2. \A p, q \in Ranks : host[p] = host[q] <=> Root(p) = Root(q)
  <2>1. \A p, q \in Ranks : host[p] = host[q] => Root(p) = Root(q)
    BY DEF Root, OnHost
  <2>. QED
    BY <1>1, <2>1
<1>3. \A q \in Ranks : Root(Root(q)) = Root(q)
  BY <1>1, <1>2
<1>4. \A q \in Ranks : OnHost(q) = {p \in Ranks : Root(p) = Root(q)}
  BY <1>2 DEF OnHost
<1>5. 0 \in Ranks /\ \A q \in Ranks : q >= 0 /\ (q <= 0 => q = 0)
  BY SizeAssumption DEF Ranks
<1>6. Root(0) = 0
  BY <1>1, <1>5
<1>. QED
  BY <1>1, <1>2, <1>3, <1>4, <1>5, <1>6

(* How many tasks are on a host.                                           *)
LEMMA HostSize ==
  ASSUME NEW q \in Ranks
  PROVE  /\ IsFiniteSet(OnHost(q)) /\ Cardinality(OnHost(q)) \in Nat \ {0}
         /\ OnHost(Root(q)) = OnHost(q)
         /\ Root(q) # q => Cardinality(OnHost(q)) > 1
<1>1. IsFiniteSet(Ranks)
  BY SizeAssumption, FS_Interval DEF Ranks
<1>2. OnHost(q) \in SUBSET Ranks /\ q \in OnHost(q) /\ Root(q) \in OnHost(q)
  BY RootFacts
<1>3. IsFiniteSet(OnHost(q))
  BY <1>1, <1>2, FS_Subset
<1>4. Cardinality(OnHost(q)) \in Nat /\ Cardinality(OnHost(q)) # 0
  BY <1>2, <1>3, FS_CardinalityType, FS_EmptySet
<1>5. OnHost(Root(q)) = OnHost(q)
  BY RootFacts
<1>6. ASSUME Root(q) # q
      PROVE  Cardinality(OnHost(q)) # 1
  BY <1>2, <1>3, <1>6, FS_Singleton
<1>. QED
  BY <1>3, <1>4, <1>5, <1>6

(* As long as the hosts of the tasks are the same, so are their roots.     *)
LEMMA HostKept ==
  ASSUME host' = host
  PROVE  \A q \in Ranks : Root(q)' = Root(q) /\ OnHost(q)' = OnHost(q)
BY DEF Root, OnHost

(* Nothing occurs twice in s.                                              *)
Injective(s) == \A i, j \in 1 .. Len(s) : s[i] = s[j] => i = j

(* A sequence without repetition has no more elements than there are, and  *)
(* all of them if it has as many.                                          *)
LEMMA NoRepetition ==
  ASSUME NEW S, IsFiniteSet(S), NEW T, NEW s \in Seq(T), Injective(s),
         \A i \in 1 .. Len(s) : s[i] \in S
  PROVE  /\ Len(s) <= Cardinality(S)
         /\ Len(s) = Cardinality(S) => \A x \in S : \E i \in 1 .. Len(s) : s[i] = x
<1>1. Len(s) \in Nat /\ s \in [1 .. Len(s) -> T] /\ DOMAIN s = 1 .. Len(s)
  BY LenProperties
<1>2. s \in [1 .. Len(s) -> S]
  BY <1>1
<1>3. s \in Injection(1 .. Len(s), S)
  BY <1>2 DEF Injective, Injection, IsInjective
<1>4. IsFiniteSet(1 .. Len(s)) /\ Cardinality(1 .. Len(s)) = Len(s)
  BY <1>1, FS_Interval
<1>5. /\ Len(s) <= Cardinality(S)
      /\ Len(s) = Cardinality(S) => s \in Surjection(1 .. Len(s), S)
  BY <1>3, <1>4, FS_Injection
<1>. QED
  BY <1>5 DEF Surjection

(* Where an element of such a sequence is.                                 *)
LEMMA PlaceFound ==
  ASSUME NEW s, Injective(s), NEW j \in 1 .. Len(s)
  PROVE  PlaceIn(s, s[j]) = j
BY DEF PlaceIn, Injective

(* ... and it remains when another element is appended.                    *)
LEMMA InjectiveAppend ==
  ASSUME NEW T, NEW s \in Seq(T), NEW x \in T, Injective(s), \A i \in 1 .. Len(s) : s[i] # x
  PROVE  Injective(Append(s, x))
<1>1. Len(s) \in Nat
  BY LenProperties
<1>2. /\ Len(Append(s, x)) = Len(s) + 1
      /\ \A i \in 1 .. Len(s) : Append(s, x)[i] = s[i]
      /\ Append(s, x)[Len(s) + 1] = x
  BY AppendProperties
<1>. QED
  BY <1>1, <1>2 DEF Injective

(* The pieces of a queue that a step leaves as they are.                   *)
FirstKept(p, q) == First(p, q)' = First(p, q)
SecondKept(p, q) == Second(p, q)' = Second(p, q)
ThirdKept(p, q) == Third(p, q)' = Third(p, q)
Kept(p, q) == FirstKept(p, q) /\ SecondKept(p, q) /\ ThirdKept(p, q)

(* What is in a piece of a queue. *)
Messages(p, q) == {host[p], Root(q), p, RingOf(q), SizeOf(q), 0}

(* The messages of a piece of a queue.                                     *)
LEMMA PieceTypes ==
  ASSUME NEW p, NEW q
  PROVE  /\ First(p, q) \in Seq(Messages(p, q))
         /\ Second(p, q) \in Seq(Messages(p, q))
         /\ Third(p, q) \in Seq(Messages(p, q))
<1>. DEFINE T == Messages(p, q)
<1>1. \A x \in T : <<x>> \in Seq(T)
  OBVIOUS
<1>2. /\ <<host[p]>> \in Seq(T) /\ <<Root(q)>> \in Seq(T) /\ <<p>> \in Seq(T)
      /\ <<RingOf(q)>> \in Seq(T) /\ <<SizeOf(q)>> \in Seq(T) /\ <<0>> \in Seq(T)
      /\ <<>> \in Seq(T)
  BY <1>1 DEF Messages
<1>. HIDE DEF T
<1>3. First(p, q) \in Seq(T)
  BY <1>2 DEF First, Opt
<1>4. Second(p, q) \in Seq(T)
  BY <1>2 DEF Second, Opt
<1>5. Third(p, q) \in Seq(T)
  BY <1>2 DEF Third, Opt
<1>. QED
  BY <1>3, <1>4, <1>5 DEF T

(* A task sends what the queue to the receiver is then.                    *)
LEMMA QueueSent ==
  ASSUME NetIs, NEW p \in Ranks, NEW q \in Ranks, NEW x, net' = Sent(net, p, q, x),
         Queue(p, q)' = Append(Queue(p, q), x),
         \A i, k \in Ranks : i # p \/ k # q => Queue(i, k)' = Queue(i, k)
  PROVE  NetIs'
<1>1. net \in [Pairs -> {Queue(c[1], c[2]) : c \in Pairs}]
  BY DEF NetIs
<1>2. <<p, q>> \in Pairs /\ net[<<p, q>>] = Queue(p, q)
  BY DEF NetIs, Pairs
<1>3. net' = [c \in Pairs |-> IF c = <<p, q>> THEN Append(net[<<p, q>>], x) ELSE net[c]]
  BY <1>1, <1>2 DEF Sent
<1>4. ASSUME NEW c \in Pairs
      PROVE  net'[c] = Queue(c[1], c[2])'
  <2>1. PICK i \in Ranks, k \in Ranks : c = <<i, k>>
    BY DEF Pairs
  <2>2. net[c] = Queue(i, k)
    BY <2>1 DEF NetIs
  <2>. QED
    BY <1>2, <1>3, <2>1, <2>2
<1>. QED
  BY <1>3, <1>4 DEF NetIs

(* ... and receives the first of what it was.                              *)
LEMMA QueueReceived ==
  ASSUME NetIs, NEW p \in Ranks, NEW q \in Ranks, net' = Received(p, q),
         Queue(p, q)' = Tail(Queue(p, q)),
         \A i, k \in Ranks : i # p \/ k # q => Queue(i, k)' = Queue(i, k)
  PROVE  NetIs'
<1>1. net \in [Pairs -> {Queue(c[1], c[2]) : c \in Pairs}]
  BY DEF NetIs
<1>2. <<p, q>> \in Pairs /\ net[<<p, q>>] = Queue(p, q)
  BY DEF NetIs, Pairs
<1>3. net' = [c \in Pairs |-> IF c = <<p, q>> THEN Tail(net[<<p, q>>]) ELSE net[c]]
  BY <1>1, <1>2 DEF Received
<1>4. ASSUME NEW c \in Pairs
      PROVE  net'[c] = Queue(c[1], c[2])'
  <2>1. PICK i \in Ranks, k \in Ranks : c = <<i, k>>
    BY DEF Pairs
  <2>2. net[c] = Queue(i, k)
    BY <2>1 DEF NetIs
  <2>. QED
    BY <1>2, <1>3, <2>1, <2>2
<1>. QED
  BY <1>3, <1>4 DEF NetIs

(* The queue, from the piece that changes. *)
LEMMA NetSent ==
  ASSUME NetIs, NEW p \in Ranks, NEW q \in Ranks, NEW x, net' = Sent(net, p, q, x),
         \A i, k \in Ranks : i # p \/ k # q => Kept(i, k),
         \/ /\ First(p, q) = <<>> /\ Second(p, q) = <<>> /\ Third(p, q) = <<>>
            /\ First(p, q)' = <<x>> /\ SecondKept(p, q) /\ ThirdKept(p, q)
         \/ /\ Second(p, q) = <<>> /\ Third(p, q) = <<>>
            /\ FirstKept(p, q) /\ Second(p, q)' = <<x>> /\ ThirdKept(p, q)
         \/ /\ Third(p, q) = <<>>
            /\ FirstKept(p, q) /\ SecondKept(p, q) /\ Third(p, q)' = <<x>>
  PROVE  NetIs'
<1>1. \A i, k \in Ranks : i # p \/ k # q => Queue(i, k)' = Queue(i, k)
  BY DEF Kept, FirstKept, SecondKept, ThirdKept, Queue
<1>. DEFINE T == Messages(p, q) \cup {x}
            s1 == First(p, q)
            s2 == Second(p, q)
<1>2. s1 \in Seq(T) /\ s2 \in Seq(T) /\ x \in T
  BY PieceTypes
<1>3. /\ Append(s1 \o s2 \o <<>>, x) = s1 \o s2 \o <<x>>
      /\ Append(s1 \o <<>> \o <<>>, x) = s1 \o <<x>> \o <<>>
      /\ Append(<<>> \o <<>> \o <<>>, x) = <<x>> \o <<>> \o <<>>
  <2>. HIDE DEF T, s1, s2
  <2>. QED
    BY <1>2, AppendPieces
<1>4. Queue(p, q)' = Append(Queue(p, q), x)
  BY <1>3 DEF FirstKept, SecondKept, ThirdKept, Queue
<1>. QED
  BY <1>1, <1>4, QueueSent

(* The same for a message received: it is the only one of its piece, and   *)
(* those before it are empty.                                              *)
LEMMA NetReceived ==
  ASSUME NetIs, NEW p \in Ranks, NEW q \in Ranks, NEW x, net' = Received(p, q),
         \A i, k \in Ranks : i # p \/ k # q => Kept(i, k),
         \/ First(p, q) = <<x>> /\ First(p, q)' = <<>> /\ SecondKept(p, q) /\ ThirdKept(p, q)
         \/ /\ First(p, q) = <<>> /\ Second(p, q) = <<x>>
            /\ FirstKept(p, q) /\ Second(p, q)' = <<>> /\ ThirdKept(p, q)
         \/ /\ First(p, q) = <<>> /\ Second(p, q) = <<>> /\ Third(p, q) = <<x>>
            /\ FirstKept(p, q) /\ SecondKept(p, q) /\ Third(p, q)' = <<>>
  PROVE  NetIs'
<1>1. \A i, k \in Ranks : i # p \/ k # q => Queue(i, k)' = Queue(i, k)
  BY DEF Kept, FirstKept, SecondKept, ThirdKept, Queue
<1>. DEFINE T == Messages(p, q) \cup {x}
            s2 == Second(p, q)
            s3 == Third(p, q)
<1>2. s2 \in Seq(T) /\ s3 \in Seq(T) /\ x \in T
  BY PieceTypes
<1>3. /\ Tail(<<x>> \o s2 \o s3) = <<>> \o s2 \o s3
      /\ Tail(<<>> \o <<x>> \o s3) = <<>> \o <<>> \o s3
      /\ Tail(<<>> \o <<>> \o <<x>>) = <<>> \o <<>> \o <<>>
  <2>. HIDE DEF T, s2, s3
  <2>1. Tail(<<x>> \o s2 \o s3) = <<>> \o s2 \o s3
    BY <1>2, TakePieces
  <2>2. Tail(<<>> \o <<x>> \o s3) = <<>> \o <<>> \o s3
    BY <1>2, TakePieces
  <2>3. Tail(<<>> \o <<>> \o <<x>>) = <<>> \o <<>> \o <<>>
    BY <1>2, TakePieces
  <2>. QED
    BY <2>1, <2>2, <2>3
<1>4. Queue(p, q)' = Tail(Queue(p, q))
  BY <1>3 DEF FirstKept, SecondKept, ThirdKept, Queue
<1>. QED
  BY <1>1, <1>4, QueueReceived

(* As long as no piece of a queue changes, no message need be sent or      *)
(* received.                                                               *)
LEMMA NetKept ==
  ASSUME NetIs, net' = net, \A p, q \in Ranks : Kept(p, q)
  PROVE  NetIs'
<1>1. \A p, q \in Ranks : Queue(p, q)' = Queue(p, q)
  BY DEF Kept, FirstKept, SecondKept, ThirdKept, Queue
<1>2. \A c \in Pairs : Queue(c[1], c[2])' = Queue(c[1], c[2])
  BY <1>1 DEF Pairs
<1>. QED
  BY <1>2 DEF NetIs

(* What is at the head of a queue.                                         *)
LEMMA HeadOfQueue ==
  ASSUME NetIs, NEW p \in Ranks, NEW q \in Ranks
  PROVE  /\ First(p, q) = <<>> /\ Second(p, q) = <<>> /\ Third(p, q) = <<>> =>
              net[<<p, q>>] = <<>>
         /\ \A x :
              (\/ First(p, q) = <<x>>
               \/ First(p, q) = <<>> /\ Second(p, q) = <<x>>
               \/ First(p, q) = <<>> /\ Second(p, q) = <<>> /\ Third(p, q) = <<x>>)
              => net[<<p, q>>] # <<>> /\ Head(net[<<p, q>>]) = x
<1>1. net[<<p, q>>] = Queue(p, q)
  BY DEF NetIs, Pairs
<1>2. First(p, q) = <<>> /\ Second(p, q) = <<>> /\ Third(p, q) = <<>> => Queue(p, q) = <<>>
  BY TakePieces, PieceTypes DEF Queue
<1>3. ASSUME NEW x,
             \/ First(p, q) = <<x>>
             \/ First(p, q) = <<>> /\ Second(p, q) = <<x>>
             \/ First(p, q) = <<>> /\ Second(p, q) = <<>> /\ Third(p, q) = <<x>>
      PROVE  Queue(p, q) # <<>> /\ Head(Queue(p, q)) = x
  <2>. DEFINE T == Messages(p, q) \cup {x}
              s2 == Second(p, q)
              s3 == Third(p, q)
  <2>1. s2 \in Seq(T) /\ s3 \in Seq(T) /\ x \in T
    BY PieceTypes
  <2>2. /\ <<x>> \o s2 \o s3 # <<>> /\ Head(<<x>> \o s2 \o s3) = x
        /\ <<>> \o <<x>> \o s3 # <<>> /\ Head(<<>> \o <<x>> \o s3) = x
        /\ <<>> \o <<>> \o <<x>> # <<>> /\ Head(<<>> \o <<>> \o <<x>>) = x
    <3>. HIDE DEF T, s2, s3
    <3>. QED
      BY <2>1, TakePieces
  <2>. QED
    BY <1>3, <2>2 DEF Queue
<1>. QED
  BY <1>1, <1>2, <1>3

-----------------------------------------------------------------------------
(***************************************************************************)
(* What a step of ipm_get_machtopo leaves as it is.                        *)
(***************************************************************************)

(* Whether there is a message depends on what its two tasks have done: the *)
(* host's name a task sends to task 0, and its answer, ...                 *)
NameKept(p) ==
  p # 0 => (at[p] = "enter" <=> at'[p] = "enter") /\ (Gathered(p)' <=> Gathered(p))
AnswerKept(q) ==
  q # 0 => (Gathered(q)' <=> Gathered(q)) /\ (KnowsRoot(q)' <=> KnowsRoot(q))

(* ... what a task reports to its root, and that tells it, ...             *)
ReportKept(p) ==
  Root(p) # p => /\ Reported(p)' <=> Reported(p)
                 /\ Collects(Root(p), p)' <=> Collects(Root(p), p)
RingKept(q) ==
  Root(q) # q => /\ RingTold(q)' <=> RingTold(q)
                 /\ KnowsRing(q)' <=> KnowsRing(q)
                 /\ RingTold(q) => RingOf(q)' = RingOf(q)

(* ... and what task 0 tells a root.                                       *)
SizeKept(q) ==
  Root(q) = q /\ q # 0 => /\ SizeTold(q)' <=> SizeTold(q)
                          /\ KnowsSize(q)' <=> KnowsSize(q)
                          /\ SizeTold(q) => SizeOf(q)' = SizeOf(q)

(* The host's name and the answer to it remain in transit, or out of it.   *)
LEMMA FirstSame ==
  ASSUME HostInv, host' = host, NEW p \in Ranks, NEW q \in Ranks,
         q = 0 => NameKept(p), p = 0 => AnswerKept(q)
  PROVE  FirstKept(p, q)
<1>1. Root(q)' = Root(q) /\ host'[p] = host[p]
  BY HostKept
<1>2. CASE q = 0 /\ p # 0
  BY <1>1, <1>2 DEF NameKept, FirstKept, First, Opt
<1>3. CASE ~(q = 0 /\ p # 0) /\ p = 0 /\ q # 0
  <2>1. First(p, q) = Opt(Gathered(q) /\ ~KnowsRoot(q), Root(q))
    BY <1>3 DEF First
  <2>2. First(p, q)' = Opt(Gathered(q)' /\ ~KnowsRoot(q)', Root(q)')
    BY <1>3 DEF First, Opt
  <2>3. (Gathered(q)' <=> Gathered(q)) /\ (KnowsRoot(q)' <=> KnowsRoot(q))
    BY <1>3 DEF AnswerKept
  <2>. QED
    BY <1>1, <2>1, <2>2, <2>3 DEF FirstKept, Opt
<1>4. CASE ~(q = 0 /\ p # 0) /\ ~(p = 0 /\ q # 0)
  BY <1>4 DEF FirstKept, First
<1>. QED
  BY <1>2, <1>3, <1>4

(* So do what a task reports, what its root tells it, and what task 0      *)
(* tells a root.                                                           *)
LEMMA SecondSame ==
  ASSUME HostInv, host' = host, NEW p \in Ranks, NEW q \in Ranks,
         q = Root(p) => ReportKept(p), p = Root(q) => RingKept(q), p = 0 => SizeKept(q)
  PROVE  SecondKept(p, q)
<1>1. Root(q)' = Root(q) /\ Root(p)' = Root(p)
  BY HostKept
<1>2. CASE q = Root(p) /\ p # q
  <2>1. Second(p, q) = Opt(Reported(p) /\ ~Collects(q, p), p)
    BY <1>2 DEF Second
  <2>2. Second(p, q)' = Opt(Reported(p)' /\ ~Collects(q, p)', p)
    BY <1>1, <1>2 DEF Second, Opt
  <2>3. (Reported(p)' <=> Reported(p)) /\ (Collects(q, p)' <=> Collects(q, p))
    BY <1>1, <1>2 DEF ReportKept, Collects
  <2>. QED
    BY <2>1, <2>2, <2>3 DEF SecondKept, Opt
<1>3. CASE ~(q = Root(p) /\ p # q) /\ p = Root(q) /\ p # q
  <2>1. Second(p, q) = Opt(RingTold(q) /\ ~KnowsRing(q), RingOf(q))
    BY <1>3 DEF Second
  <2>2. Second(p, q)' = Opt(RingTold(q)' /\ ~KnowsRing(q)', RingOf(q)')
    BY <1>1, <1>3 DEF Second, Opt
  <2>3. /\ (RingTold(q)' <=> RingTold(q)) /\ (KnowsRing(q)' <=> KnowsRing(q))
        /\ RingTold(q) => RingOf(q)' = RingOf(q)
    BY <1>3 DEF RingKept
  <2>. QED
    BY <2>1, <2>2, <2>3 DEF SecondKept, Opt
<1>4. CASE /\ ~(q = Root(p) /\ p # q) /\ ~(p = Root(q) /\ p # q)
           /\ p = 0 /\ Root(q) = q /\ q # 0
  <2>1. Second(p, q) = Opt(SizeTold(q) /\ ~KnowsSize(q), SizeOf(q))
    BY <1>4 DEF Second
  <2>2. Second(p, q)' = Opt(SizeTold(q)' /\ ~KnowsSize(q)', SizeOf(q)')
    BY <1>1, <1>4 DEF Second, Opt
  <2>3. /\ (SizeTold(q)' <=> SizeTold(q)) /\ (KnowsSize(q)' <=> KnowsSize(q))
        /\ SizeTold(q) => SizeOf(q)' = SizeOf(q)
    BY <1>4 DEF SizeKept
  <2>. QED
    BY <2>1, <2>2, <2>3 DEF SecondKept, Opt
<1>5. CASE /\ ~(q = Root(p) /\ p # q) /\ ~(p = Root(q) /\ p # q)
           /\ ~(p = 0 /\ Root(q) = q /\ q # 0)
  BY <1>1, <1>5 DEF SecondKept, Second
<1>. QED
  BY <1>2, <1>3, <1>4, <1>5

(* A token is in transit only once the tasks are in ipm_log: before that   *)
(* the rings may change.                                                   *)
LEMMA ThirdSame ==
  ASSUME HostInv, host' = host, step' = step, NEW p \in Ranks, NEW q \in Ranks,
         step[p] # "before" => /\ local_roots' = local_roots
                               /\ local_ranks'[Root(p)] = local_ranks[Root(p)]
  PROVE  ThirdKept(p, q)
<1>1. Root(q)' = Root(q) /\ Root(p)' = Root(p)
  BY HostKept
<1>2. (PassedOn(p)' <=> PassedOn(p)) /\ (Got(q)' <=> Got(q))
  BY <1>1 DEF PassedOn, Got
<1>3. step[p] # "before" => (Follows(q, p)' <=> Follows(q, p))
  BY <1>1 DEF Follows
<1>4. PassedOn(p) => step[p] # "before"
  BY DEF PassedOn
<1>5. TokenIn(p, q)' <=> TokenIn(p, q)
  BY <1>2, <1>3, <1>4 DEF TokenIn
<1>6. TurnIn(p, q)' <=> TurnIn(p, q)
  BY DEF TurnIn, HadTurn
<1>. QED
  BY <1>5, <1>6 DEF ThirdKept, Third, Opt

(* What the queues hold, from what each task has done.                     *)
LEMMA KeptFacts ==
  ASSUME HostInv, host' = host, NEW p \in Ranks, NEW q \in Ranks, ThirdKept(p, q),
         NameKept(p), AnswerKept(q), ReportKept(p), RingKept(q), SizeKept(q)
  PROVE  Kept(p, q)
BY FirstSame, SecondSame DEF Kept

(* The list that a root has collected. *)
ListOf(r, s) ==
  /\ s \in Seq(Ranks) /\ Len(s) \in 1 .. Cardinality(OnHost(r)) /\ s[1] = r /\ Injective(s)
  /\ \A j \in 1 .. Len(s) : s[j] \in Ranks /\ Root(s[j]) = r

(* The list of a root that has been told its size is such a list.          *)
LEMMA CollectedList ==
  ASSUME RanksInv, NEW r \in Ranks, Root(r) = r, KnowsSize(r)
  PROVE  /\ ListOf(r, local_ranks[r])
         /\ at[r] # "collect" => Len(local_ranks[r]) = Cardinality(OnHost(r))
<1>. DEFINE s == local_ranks[r]
<1>1. s \in Seq(Ranks)
  BY DEF RanksInv
<1>2. Len(s) \in Nat /\ \A j \in 1 .. Len(s) : s[j] \in Ranks
  BY <1>1, LenProperties, ElementOfSeq
<1>3. /\ Len(s) >= 1 /\ Len(s) <= Cardinality(OnHost(r)) /\ s[1] = r
      /\ \A i, j \in 1 .. Len(s) : s[i] = s[j] => i = j
      /\ at[r] # "collect" => Len(s) = Cardinality(OnHost(r))
  BY DEF RanksInv, RanksOk
<1>4. Cardinality(OnHost(r)) \in Nat
  BY HostSize
<1>6. \A j \in 1 .. Len(s) : Root(s[j]) = r
  BY <1>2 DEF RanksInv, RanksOk, Collects
<1>. HIDE DEF s
<1>5. ListOf(r, s)
  BY <1>1, <1>2, <1>3, <1>4, <1>6 DEF ListOf, Injective
<1>. QED
  BY <1>3, <1>5 DEF s

(* Once it has them all, each task of its host is in the list.             *)
LEMMA ListComplete ==
  ASSUME HostInv, NEW r \in Ranks, NEW s, ListOf(r, s), Len(s) = Cardinality(OnHost(r)),
         NEW q \in Ranks, Root(q) = r
  PROVE  \E j \in 1 .. Len(s) : s[j] = q
<1>1. Root(r) = r
  BY RootFacts
<1>2. \A j \in 1 .. Len(s) : s[j] \in OnHost(r)
  BY <1>1, RootFacts DEF ListOf
<1>3. q \in OnHost(r)
  BY <1>1, RootFacts
<1>4. IsFiniteSet(OnHost(r)) /\ s \in Seq(Ranks) /\ Injective(s)
  BY HostSize DEF ListOf
<1>. QED
  BY <1>2, <1>3, <1>4, NoRepetition

(* Task 0's list of roots. *)
LEMMA RootList ==
  ASSUME ListInv
  PROVE  /\ local_roots \in Seq(Ranks) /\ Len(local_roots) \in Nat \ {0} /\ local_roots[1] = 0
         /\ Injective(local_roots)
         /\ \A j \in 1 .. Len(local_roots) :
              local_roots[j] \in Ranks /\ Root(local_roots[j]) = local_roots[j]
<1>1. local_roots \in Seq(Ranks)
  BY DEF ListInv
<1>2. Len(local_roots) \in Nat /\ \A j \in 1 .. Len(local_roots) : local_roots[j] \in Ranks
  BY <1>1, LenProperties, ElementOfSeq
<1>3. Len(local_roots) \in Nat \ {0} /\ local_roots[1] = 0
  BY <1>2 DEF ListInv
<1>4. \A i, j \in 1 .. Len(local_roots) : i < j => local_roots[i] < local_roots[j]
  BY DEF ListInv
<1>5. Injective(local_roots)
  <2>1. SUFFICES ASSUME NEW i \in 1 .. Len(local_roots), NEW j \in 1 .. Len(local_roots),
                        local_roots[i] = local_roots[j], i < j
                 PROVE  FALSE
    BY <1>2 DEF Injective
  <2>2. local_roots[i] < local_roots[j] /\ local_roots[i] \in Int /\ local_roots[j] \in Int
    BY <1>2, <1>4, <2>1 DEF Ranks
  <2>. QED
    BY <2>1, <2>2
<1>. QED
  BY <1>1, <1>2, <1>3, <1>5 DEF ListInv

(* Nothing of ipm_log happens before the broadcast.                        *)
LEMMA BeforeBcast ==
  ASSUME HostInv, PlaceInv, BcastInv, LogInv, at[0] \notin {"bcast", "done"}
  PROVE  \A p \in Ranks : at[p] # "done" /\ step[p] = "before"
BY RootFacts DEF BcastInv, BcastOk, LogInv

(* ... nor on the host of a root that collects or has yet to.              *)
LEMMA BeforeTell ==
  ASSUME HostInv, PlaceInv, OrderInv, LogInv, NEW r \in Ranks, Root(r) = r,
         at[r] \notin {"tell", "bcast", "done"}
  PROVE  \A p \in Ranks : Root(p) = r => at[p] \notin {"bcast", "done"} /\ step[p] = "before"
<1>1. SUFFICES ASSUME NEW p \in Ranks, Root(p) = r
               PROVE  at[p] \notin {"bcast", "done"}
  BY DEF LogInv
<1>2. ASSUME p # r, at[p] \in {"bcast", "done"}
      PROVE  FALSE
  <2>1. RingTold(p)
    BY <1>1, <1>2 DEF OrderInv, OrderOk, KnowsRing
  <2>. QED
    BY <1>1, <2>1 DEF RingTold
<1>. QED
  BY <1>2

(* A task that has not returned has passed on no token.                    *)
LEMMA NoToken ==
  ASSUME LogInv, NEW p \in Ranks, NEW q \in Ranks, at[p] # "done"
  PROVE  Third(p, q) = <<>>
<1>1. step[p] = "before"
  BY DEF LogInv
<1>2. ~TokenIn(p, q) /\ ~TurnIn(p, q)
  BY <1>1 DEF TokenIn, PassedOn, TurnIn
<1>. QED
  BY <1>2 DEF Third, Opt

(* The turn of a root comes after task 0's, when all tasks have returned.  *)
LEMMA TurnAllDone ==
  ASSUME HostInv, ListInv, LogInv, TurnInv, NEW q \in Ranks,
         NEW j \in 1 .. Len(local_roots), local_roots[j] = q, HadTurn(q)
  PROVE  \A r \in Ranks : at[r] = "done"
<1>1. local_roots[1] = 0 /\ Len(local_roots) \in Nat \ {0}
  BY RootList
<1>2. step[0] # "before"
  <2>1. CASE j = 1
    BY <1>1, <2>1 DEF HadTurn
  <2>2. CASE j # 1
    <3>1. 1 \in 1 .. Len(local_roots) /\ 1 < j /\ 0 \in Ranks
      BY <1>1, <2>2, RootFacts
    <3>2. step[0] = "end"
      BY <1>1, <3>1 DEF TurnInv
    <3>. QED
      BY <3>2
  <2>. QED
    BY <2>1, <2>2
<1>. QED
  BY <1>2 DEF LogInv

(* So the turn is in transit only then.                                    *)
LEMMA TurnInDone ==
  ASSUME HostInv, ListInv, LogInv, TurnInv, NEW p, NEW q, TurnIn(p, q)
  PROVE  \A r \in Ranks : at[r] = "done"
<1>1. PICK j \in 1 .. Len(local_roots) - 1 : local_roots[j] = p /\ step[p] = "end"
  BY DEF TurnIn
<1>2. j \in 1 .. Len(local_roots) /\ p \in Ranks
  BY <1>1, RootList
<1>. QED
  BY <1>1, <1>2, TurnAllDone DEF HadTurn

(* A step before ipm_log, which does not change the rings of those that    *)
(* are in it.                                                              *)
RingsKept ==
  /\ (\A p \in Ranks : step[p] = "before") \/ local_roots' = local_roots
  /\ \A r \in Ranks : Root(r) = r =>
       \/ local_ranks'[r] = local_ranks[r]
       \/ \A p \in Ranks : Root(p) = r => step[p] = "before"

(* Such a step leaves the tokens in transit as they are.                   *)
LEMMA ThirdKeptBefore ==
  ASSUME HostInv, host' = host, log_vars' = log_vars, RingsKept
  PROVE  \A p, q \in Ranks : ThirdKept(p, q)
<1>1. step' = step
  BY DEF log_vars
<1>2. ASSUME NEW p \in Ranks, step[p] # "before"
      PROVE  local_roots' = local_roots /\ local_ranks'[Root(p)] = local_ranks[Root(p)]
  <2>1. Root(p) \in Ranks /\ Root(Root(p)) = Root(p)
    BY RootFacts
  <2>. QED
    BY <1>2, <2>1 DEF RingsKept
<1>. QED
  BY <1>1, <1>2, ThirdSame

(* ... and all that is said of ipm_log.                                    *)
LEMMA LogPartKept ==
  ASSUME HostInv, ListInv, LogPart, host' = host, log_vars' = log_vars, RingsKept, RanksInv',
         \A r \in Ranks : at[r] = "done" => at'[r] = "done"
  PROVE  LogPart'
<1>1. step' = step /\ tmp' = tmp /\ log' = log
  BY DEF log_vars
<1>2. \A q \in Ranks : Root(q)' = Root(q) /\ OnHost(q)' = OnHost(q)
  BY HostKept
<1>3. LogInv'
  <2>1. (\E p \in Ranks : step[p] # "before") => local_roots' = local_roots
    BY DEF RingsKept
  <2>2. \A r \in Ranks : step[r] = "pass" => RightRoot(r)' # 0 /\ Len(local_roots') > 1
    <3>1. SUFFICES ASSUME NEW r \in Ranks, step[r] = "pass"
                   PROVE  RightRoot(r)' # 0 /\ Len(local_roots') > 1
      OBVIOUS
    <3>2. local_roots' = local_roots
      BY <2>1, <3>1
    <3>. QED
      BY <3>1, <3>2 DEF RightRoot, LogPart, LogInv
  <2>3. /\ \A r \in Ranks : step[r] # "before" => at'[r] = "done"
        /\ step[0] # "before" => \A r \in Ranks : at'[r] = "done"
    BY DEF LogPart, LogInv
  <2>. QED
    BY <1>1, <1>2, <2>2, <2>3 DEF LogPart, LogInv
<1>4. \A q \in Ranks : (Got(q)' <=> Got(q)) /\ (PassedOn(q)' <=> PassedOn(q))
  BY <1>1, <1>2 DEF Got, PassedOn
<1>5. RingInv'
  <2>1. SUFFICES ASSUME NEW r \in Ranks, NEW p \in Ranks, NEW q \in Ranks,
                        NEW i \in 1 .. Len(local_ranks'[r]), NEW j \in 1 .. Len(local_ranks'[r]),
                        Root(r) = r, local_ranks'[r][i] = p, local_ranks'[r][j] = q,
                        j = 1 \/ i < j, Got(q)
                 PROVE  PassedOn(p)
    BY <1>2, <1>4 DEF RingInv
  <2>2. CASE local_ranks'[r] = local_ranks[r]
    BY <2>1, <2>2 DEF RingInv, LogPart
  <2>3. CASE \A k \in Ranks : Root(k) = r => step[k] = "before"
    <3>1. KnowsSize(r)'
      BY <1>2, <2>1 DEF RanksInv, RanksOk
    <3>2. Collects(r, q)'
      BY <2>1 DEF Collects
    <3>3. Root(q) = r
      BY <1>2, <2>1, <3>1, <3>2 DEF RanksInv, RanksOk
    <3>4. step[q] = "before"
      BY <2>3, <3>3
    <3>. QED
      BY <2>1, <3>4 DEF Got
  <2>. QED
    BY <2>1, <2>2, <2>3 DEF RingsKept
<1>6. TurnInv'
  <2>1. CASE \A p \in Ranks : step[p] = "before"
    BY <1>1, <2>1 DEF TurnInv, HadTurn
  <2>2. CASE local_roots' = local_roots
    BY <1>1, <2>2 DEF TurnInv, HadTurn, LogPart
  <2>. QED
    BY <2>1, <2>2 DEF RingsKept
<1>7. FilesInv'
  <2>1. tmp' = {q \in Ranks : step'[q] # "before" /\ step'[Root(q)'] \notin {"pass", "end"}}
    BY <1>1, <1>2 DEF FilesInv, LogPart
  <2>2. log' = [q \in Ranks |-> IF step'[Root(q)'] \in {"rm", "pass", "end"} THEN 1 ELSE 0]
    BY <1>1, <1>2 DEF FilesInv, LogPart
  <2>. QED
    BY <2>1, <2>2 DEF FilesInv
<1>. QED
  BY <1>3, <1>5, <1>6, <1>7 DEF LogPart

(* Task 0's list does not change with what the tasks do elsewhere.         *)
LEMMA ListSame ==
  ASSUME ListInv, host' = host, local_roots' = local_roots, local_sizes' = local_sizes,
         \A q \in Ranks : Gathered(q)' <=> Gathered(q)
  PROVE  ListInv'
<1>1. \A q \in Ranks : Root(q)' = Root(q) /\ OnHost(q)' = OnHost(q)
  BY HostKept
<1>2. \A q \in Ranks : OnHost(q) \subseteq Ranks
  BY DEF OnHost
<1>3. \A q \in Ranks : GatheredOn(q)' = GatheredOn(q)
  BY <1>1, <1>2 DEF GatheredOn
<1>4. \A q \in Ranks : \A j \in 1 .. Len(local_roots') : local_roots'[j] = q =>
        Root(q)' = q /\ Gathered(q)' /\ local_sizes'[j] = Cardinality(GatheredOn(q)')
  BY <1>1, <1>3 DEF ListInv
<1>5. \A q \in Ranks : Gathered(q)' => \E j \in 1 .. Len(local_roots') : local_roots'[j] = Root(q)'
  BY <1>1 DEF ListInv
<1>. QED
  BY <1>4, <1>5 DEF ListInv

(* A step of ipm_log leaves what ipm_get_machtopo has made.                *)
LEMMA TopoPartKept ==
  ASSUME TopoPart, UNCHANGED rest
  PROVE  TopoPart' /\ \A p, q \in Ranks : FirstKept(p, q) /\ SecondKept(p, q)
<1>1. /\ ops' = ops /\ inside' = inside /\ host' = host /\ at' = at /\ n' = n
      /\ local_roots' = local_roots /\ local_sizes' = local_sizes
      /\ local_ranks' = local_ranks /\ topo' = topo /\ nhosts' = nhosts
  BY DEF rest, root_vars
<1>2. \A q \in Ranks : Root(q)' = Root(q) /\ OnHost(q)' = OnHost(q)
  BY <1>1, HostKept
<1>3. \A q \in Ranks :
        /\ (Gathered(q)' <=> Gathered(q)) /\ (KnowsRoot(q)' <=> KnowsRoot(q))
        /\ (SizeTold(q)' <=> SizeTold(q)) /\ (KnowsSize(q)' <=> KnowsSize(q))
        /\ (Reported(q)' <=> Reported(q)) /\ (KnowsRing(q)' <=> KnowsRing(q))
        /\ \A p \in Ranks : Collects(p, q)' <=> Collects(p, q)
  BY <1>1 DEF Gathered, NGathered, KnowsRoot, SizeTold, KnowsSize, Reported, KnowsRing, Collects
<1>4. \A q \in Ranks : RingTold(q)' <=> RingTold(q)
  BY <1>1, <1>2 DEF RingTold
<1>5. \A q \in Ranks : LeftRoot(q)' = LeftRoot(q) /\ RightRoot(q)' = RightRoot(q)
  BY <1>1 DEF LeftRoot, RightRoot
<1>6. \A q \in Ranks : SizeOf(q)' = SizeOf(q) /\ RingOf(q)' = RingOf(q)
  BY <1>1, <1>2 DEF LeftRoot, RightRoot, SizeOf, RingOf
<1>7. HostInv /\ HostInv'
  BY <1>1 DEF TopoPart, HostInv
<1>8. \A p, q \in Ranks : FirstKept(p, q) /\ SecondKept(p, q)
  <2>1. \A q \in Ranks : NameKept(q) /\ AnswerKept(q)
    BY <1>1, <1>3 DEF NameKept, AnswerKept
  <2>2. \A q \in Ranks : RingKept(q) /\ SizeKept(q)
    BY <1>3, <1>4, <1>6 DEF RingKept, SizeKept
  <2>3. \A q \in Ranks : Collects(Root(q), q)' <=> Collects(Root(q), q)
    BY <1>1, <1>2 DEF Collects
  <2>4. \A q \in Ranks : ReportKept(q)
    BY <1>3, <2>3 DEF ReportKept
  <2>. QED
    BY <1>1, <1>7, <2>1, <2>2, <2>4, FirstSame, SecondSame
<1>9. PlaceInv'
  BY <1>1, <1>2 DEF TopoPart, PlaceInv, PlaceOk
<1>10. ListInv'
  BY <1>1, <1>3, ListSame DEF TopoPart
<1>11. OrderInv'
  BY <1>2, <1>3, <1>4, <1>1 DEF TopoPart, OrderInv, OrderOk
<1>12. RanksInv'
  BY <1>2, <1>3, <1>1 DEF TopoPart, RanksInv, RanksOk
<1>13. TopoInv'
  BY <1>1, <1>2, <1>3, <1>5, <1>6 DEF TopoPart, TopoInv, TopoOk
<1>14. BcastInv'
  BY <1>1 DEF TopoPart, BcastInv, BcastOk
<1>. QED
  BY <1>7, <1>8, <1>9, <1>10, <1>11, <1>12, <1>13, <1>14 DEF TopoPart

(* A task comes to another place, and the others stay where they are.      *)
LEMMA Moved ==
  ASSUME PlaceInv, NEW r \in Ranks, NEW y \in Places, Goto(r, y)
  PROVE  /\ at' \in [Ranks -> Places] /\ at'[r] = y
         /\ \A q \in Ranks : q # r => at'[q] = at[q]
BY DEF PlaceInv, Goto

(* What is said of the list of a root remains true when the list is the    *)
(* same and no report is taken back.                                       *)
LEMMA RanksOkKept ==
  ASSUME HostInv, host' = host, NEW q \in Ranks, RanksOk(q), local_ranks'[q] = local_ranks[q],
         KnowsSize(q)' <=> KnowsSize(q), at'[q] # "collect" => at[q] # "collect",
         \A p \in Ranks : Reported(p) => Reported(p)'
  PROVE  RanksOk(q)'
<1>1. Root(q)' = Root(q) /\ OnHost(q)' = OnHost(q)
  BY HostKept
<1>2. \A p \in Ranks : Root(p)' = Root(p) /\ (Collects(q, p)' <=> Collects(q, p))
  BY HostKept DEF Collects
<1>3. CASE Root(q) = q /\ KnowsSize(q)
  <2>. DEFINE s == local_ranks[q]
  <2>1. /\ Len(s) >= 1 /\ Len(s) <= Cardinality(OnHost(q)) /\ s[1] = q
        /\ \A i, j \in 1 .. Len(s) : s[i] = s[j] => i = j
        /\ \A p \in Ranks : Collects(q, p) => Root(p) = q /\ (p # q => Reported(p))
        /\ at[q] # "collect" => Len(s) = Cardinality(OnHost(q))
    BY <1>3 DEF RanksOk
  <2>2. /\ \A p \in Ranks : Collects(q, p)' => Root(p)' = q /\ (p # q => Reported(p)')
        /\ at'[q] # "collect" => Len(s) = Cardinality(OnHost(q)')
    BY <1>1, <1>2, <2>1
  <2>3. Root(q)' = q /\ KnowsSize(q)' /\ local_ranks'[q] = s
    BY <1>1, <1>3
  <2>. HIDE DEF s
  <2>. QED
    BY <1>1, <2>1, <2>2, <2>3 DEF RanksOk
<1>4. CASE ~(Root(q) = q /\ KnowsSize(q))
  BY <1>1, <1>4 DEF RanksOk
<1>. QED
  BY <1>3, <1>4

(* ... and so does what is said of what a task keeps.                      *)
LEMMA TopoOkKept ==
  ASSUME HostInv, host' = host, NEW q \in Ranks, TopoOk(q), topo'[q] = topo[q],
         KnowsRoot(q)' => KnowsRoot(q), KnowsSize(q)' => KnowsSize(q),
         KnowsRing(q)' => KnowsRing(q),
         KnowsSize(q) => local_roots' = local_roots,
         KnowsRing(q) => local_ranks'[Root(q)] = local_ranks[Root(q)]
  PROVE  TopoOk(q)'
<1>1. \A p \in Ranks : Root(p)' = Root(p) /\ OnHost(p)' = OnHost(p)
  BY HostKept
<1>2. KnowsSize(q) => \A p \in Ranks : LeftRoot(p)' = LeftRoot(p) /\ RightRoot(p)' = RightRoot(p)
  BY DEF LeftRoot, RightRoot
<1>3. KnowsRing(q) => KnowsSize(q)
  BY DEF KnowsRing, KnowsSize
<1>4. Root(q) \in Ranks
  BY RootFacts
<1>5. KnowsRing(q) => RingOf(q)' = RingOf(q)
  <2>1. Root(q)' = Root(q) /\ OnHost(q)' = OnHost(q)
    BY <1>1
  <2>2. KnowsRing(q) => /\ LeftRoot(Root(q))' = LeftRoot(Root(q))
                        /\ RightRoot(Root(q))' = RightRoot(Root(q))
    BY <1>3, <2>1 DEF LeftRoot, RightRoot
  <2>. QED
    BY <2>1, <2>2 DEF RingOf
<1>6. Root(q) = q /\ KnowsSize(q)' =>
        /\ topo'[q].intra_size = Cardinality(OnHost(q)')
        /\ topo'[q].inter_left = LeftRoot(q)' /\ topo'[q].inter_right = RightRoot(q)'
  BY <1>1, <1>2 DEF TopoOk
<1>7. Root(q) = q /\ KnowsRing(q)' =>
        /\ topo'[q].intra_left = local_ranks'[q][Cardinality(OnHost(q)')]
        /\ Cardinality(OnHost(q)') > 1 => topo'[q].intra_right = local_ranks'[q][2]
  BY <1>1 DEF TopoOk
<1>8. /\ q = 0 \/ KnowsRoot(q)' => topo'[q].intra_root = Root(q)'
      /\ Root(q) # q /\ KnowsRing(q)' => topo'[q] = RingOf(q)'
  BY <1>1, <1>5 DEF TopoOk
<1>. QED
  BY <1>1, <1>6, <1>7, <1>8 DEF TopoOk

(* Neither called nor returned from.                                       *)
LEMMA BcastKept ==
  ASSUME BcastInv, NEW r \in Ranks, UNCHANGED <<ops, inside, nhosts>>,
         at[r] \notin {"bcast", "done"}, at'[r] # "done",
         \A q \in Ranks : q # r => at'[q] = at[q],
         local_roots' = local_roots \/ at[0] \notin {"bcast", "done"}
  PROVE  BcastInv'
<1>1. \A q \in Ranks : BcastOk(q)
  BY DEF BcastInv
<1>2. 0 \in Ranks /\ ~inside[r]
  BY <1>1, RootFacts DEF BcastOk
<1>3. ASSUME NEW q \in Ranks, q # r, local_roots' = local_roots
      PROVE  BcastOk(q)'
  BY <1>1, <1>2, <1>3 DEF BcastOk
<1>4. ASSUME NEW q \in Ranks, q # r, at[0] \notin {"bcast", "done"}
      PROVE  BcastOk(q)'
  <2>1. ~inside[0] /\ at[q] # "done"
    BY <1>1, <1>2, <1>4 DEF BcastOk
  <2>. QED
    BY <1>1, <1>4, <2>1 DEF BcastOk, Opt
<1>5. BcastOk(r)'
  <2>1. ops[r] = <<>>
    BY <1>1, <1>2 DEF BcastOk, Opt
  <2>. QED
    BY <1>2, <2>1 DEF BcastOk, Opt
<1>. QED
  BY <1>3, <1>4, <1>5 DEF BcastInv

(* What a step of task r leaves as it is. *)
Others(r) ==
  /\ host' = host
  /\ \A q \in Ranks : q # r =>
       at'[q] = at[q] /\ n'[q] = n[q] /\ local_ranks'[q] = local_ranks[q]

(* What the other tasks have done and know is not changed by such a step.  *)
LEMMA OthersFlags ==
  ASSUME HostInv, NEW r \in Ranks, Others(r)
  PROVE  /\ \A q \in Ranks : q # r =>
              /\ (KnowsRoot(q)' <=> KnowsRoot(q)) /\ (KnowsSize(q)' <=> KnowsSize(q))
              /\ (KnowsRing(q)' <=> KnowsRing(q)) /\ (Reported(q)' <=> Reported(q))
              /\ \A p \in Ranks : Collects(q, p)' <=> Collects(q, p)
         /\ \A q \in Ranks : Root(q) # r => (RingTold(q)' <=> RingTold(q))
         /\ r # 0 => \A q \in Ranks : Gathered(q)' <=> Gathered(q)
         /\ r # 0 /\ local_roots' = local_roots => \A q \in Ranks : SizeTold(q)' <=> SizeTold(q)
<1>1. \A q \in Ranks : q # r =>
        /\ (KnowsRoot(q)' <=> KnowsRoot(q)) /\ (KnowsSize(q)' <=> KnowsSize(q))
        /\ (KnowsRing(q)' <=> KnowsRing(q)) /\ (Reported(q)' <=> Reported(q))
        /\ \A p \in Ranks : Collects(q, p)' <=> Collects(q, p)
  BY DEF Others, KnowsRoot, KnowsSize, KnowsRing, Reported, Collects
<1>2. ASSUME NEW q \in Ranks, Root(q) # r
      PROVE  RingTold(q)' <=> RingTold(q)
  <2>1. Root(q)' = Root(q) /\ Root(q) \in Ranks
    BY HostKept, RootFacts DEF Others
  <2>2. /\ at'[Root(q)] = at[Root(q)] /\ n'[Root(q)] = n[Root(q)]
        /\ local_ranks'[Root(q)] = local_ranks[Root(q)]
    BY <1>2, <2>1 DEF Others
  <2>. QED
    BY <2>1, <2>2 DEF RingTold
<1>3. r # 0 => at'[0] = at[0] /\ n'[0] = n[0]
  BY RootFacts DEF Others
<1>4. r # 0 => \A q \in Ranks : Gathered(q)' <=> Gathered(q)
  BY <1>3 DEF Gathered, NGathered
<1>5. r # 0 /\ local_roots' = local_roots => \A q \in Ranks : SizeTold(q)' <=> SizeTold(q)
  BY <1>3 DEF SizeTold
<1>. QED
  BY <1>1, <1>2, <1>4, <1>5

(* The data of a message to a root or a task of its host, once it is sent. *)
LEMMA DataKept ==
  ASSUME HostInv, host' = host, local_roots' = local_roots, NEW q \in Ranks
  PROVE  /\ SizeOf(q)' = SizeOf(q)
         /\ local_ranks'[Root(q)] = local_ranks[Root(q)] => RingOf(q)' = RingOf(q)
<1>1. Root(q)' = Root(q) /\ OnHost(q)' = OnHost(q)
  BY HostKept
<1>2. /\ LeftRoot(q)' = LeftRoot(q) /\ RightRoot(q)' = RightRoot(q)
      /\ LeftRoot(Root(q))' = LeftRoot(Root(q)) /\ RightRoot(Root(q))' = RightRoot(Root(q))
  BY <1>1 DEF LeftRoot, RightRoot
<1>. QED
  BY <1>1, <1>2 DEF SizeOf, RingOf

(* What IInv is made of. *)
LEMMA Parts ==
  ASSUME IInv
  PROVE  /\ NetIs /\ HostInv /\ PlaceInv /\ ListInv /\ OrderInv /\ RanksInv /\ TopoInv /\ BcastInv
         /\ LogPart /\ LogInv /\ RingInv /\ TurnInv /\ FilesInv
BY DEF IInv, TopoPart, LogPart

(* A step of task r in ipm_get_machtopo, apart from what task 0 gathers    *)
(* and the broadcast.                                                      *)
StepOf(r) ==
  /\ Others(r)
  /\ UNCHANGED <<log_vars, local_roots, local_sizes, ops, inside, nhosts>>
  /\ at' \in [Ranks -> Places] /\ n' \in [Ranks -> Nat]
  /\ at[r] \notin {"bcast", "done"} /\ at'[r] # "done"
  /\ topo' \in [Ranks -> TopoType] /\ \A q \in Ranks : q # r => topo'[q] = topo[q]
  /\ local_ranks' \in [Ranks -> Seq(Ranks)]
  /\ \/ local_ranks'[r] = local_ranks[r]
     \/ Root(r) = r /\ at[r] \notin {"tell", "bcast", "done"}

(* A step of ipm_get_machtopo leaves the tokens of ipm_log as they are.    *)
LEMMA StepThird ==
  ASSUME IInv, NEW r \in Ranks, StepOf(r)
  PROVE  RingsKept /\ \A p, q \in Ranks : ThirdKept(p, q)
<1>1. HostInv /\ PlaceInv /\ OrderInv /\ LogInv
  BY Parts
<1>2. RingsKept
  <2>1. SUFFICES ASSUME NEW q \in Ranks, Root(q) = q, local_ranks'[q] # local_ranks[q]
                 PROVE  \A p \in Ranks : Root(p) = q => step[p] = "before"
    BY DEF RingsKept, StepOf
  <2>2. q = r /\ at[r] \notin {"tell", "bcast", "done"}
    BY <2>1 DEF StepOf, Others
  <2>. QED
    BY <1>1, <2>1, <2>2, BeforeTell
<1>. QED
  BY <1>1, <1>2, ThirdKeptBefore DEF StepOf, Others

(* It preserves the invariant if it preserves what is said of its task,    *)
(* and the messages.                                                       *)
LEMMA StepInv ==
  ASSUME IInv, NEW r \in Ranks, StepOf(r),
         \A q \in Ranks : Gathered(q)' <=> Gathered(q),
         \A q \in Ranks : (SizeTold(q) => SizeTold(q)') /\ (RingTold(q) => RingTold(q)'),
         Reported(r) => Reported(r)',
         PlaceOk(r)', OrderOk(r)', RanksOk(r)', TopoOk(r)', NetIs'
  PROVE  IInv'
<1>0. /\ NetIs /\ HostInv /\ PlaceInv /\ ListInv /\ OrderInv /\ RanksInv /\ TopoInv /\ BcastInv
      /\ LogPart /\ LogInv
  BY Parts
<1>1. /\ Others(r) /\ log_vars' = log_vars /\ host' = host
      /\ local_roots' = local_roots /\ local_sizes' = local_sizes
  BY DEF StepOf, Others
<1>2. \A q \in Ranks : Root(q)' = Root(q) /\ OnHost(q)' = OnHost(q)
  BY <1>1, HostKept
<1>3. \A q \in Ranks : q # r =>
        at'[q] = at[q] /\ n'[q] = n[q] /\ local_ranks'[q] = local_ranks[q]
  BY <1>1 DEF Others
<1>4. PlaceInv'
  <2>1. ASSUME NEW q \in Ranks, q # r
        PROVE  PlaceOk(q)'
    BY <1>0, <1>1, <1>2, <1>3, <2>1 DEF PlaceInv, PlaceOk
  <2>. QED
    BY <2>1 DEF PlaceInv, StepOf
<1>5. ListInv'
  BY <1>0, <1>1, ListSame
<1>6. \A q \in Ranks : q # r =>
              /\ (KnowsRoot(q)' <=> KnowsRoot(q)) /\ (KnowsSize(q)' <=> KnowsSize(q))
              /\ (KnowsRing(q)' <=> KnowsRing(q)) /\ (Reported(q)' <=> Reported(q))
  BY <1>0, <1>1, OthersFlags
<1>7. OrderInv'
  <2>1. ASSUME NEW q \in Ranks, q # r
        PROVE  OrderOk(q)'
    BY <1>0, <1>2, <1>3, <1>6, <2>1 DEF OrderInv, OrderOk
  <2>. QED
    BY <2>1 DEF OrderInv
<1>8. RanksInv'
  <2>1. \A p \in Ranks : Reported(p) => Reported(p)'
    BY <1>6
  <2>2. ASSUME NEW q \in Ranks, q # r
        PROVE  RanksOk(q)'
    BY <1>0, <1>1, <1>3, <1>6, <2>1, <2>2, RanksOkKept DEF RanksInv
  <2>. QED
    BY <2>2 DEF RanksInv, StepOf
<1>9. TopoInv'
  <2>1. ASSUME NEW q \in Ranks, q # r
        PROVE  TopoOk(q)'
    <3>1. ASSUME KnowsRing(q), local_ranks'[Root(q)] # local_ranks[Root(q)]
          PROVE  FALSE
      <4>1. Root(q) = r /\ Root(r) = r /\ at[r] \notin {"tell", "bcast", "done"}
        BY <1>3, <3>1, RootFacts DEF StepOf
      <4>2. at[q] \notin {"bcast", "done"}
        BY <1>0, <4>1, BeforeTell
      <4>. QED
        BY <3>1, <4>2 DEF KnowsRing
    <3>2. topo'[q] = topo[q]
      BY <2>1 DEF StepOf
    <3>. QED
      BY <1>0, <1>1, <1>6, <2>1, <3>1, <3>2, TopoOkKept DEF TopoInv
  <2>. QED
    BY <2>1 DEF TopoInv, StepOf
<1>10. BcastInv'
  BY <1>0, <1>1, <1>3, BcastKept DEF StepOf
<1>11. LogPart'
  <2>1. \A q \in Ranks : at[q] = "done" => at'[q] = "done"
    BY <1>3 DEF StepOf
  <2>2. RingsKept
    BY StepThird
  <2>. QED
    BY <1>0, <1>1, <1>8, <2>1, <2>2, LogPartKept
<1>12. HostInv'
  BY <1>0, <1>1 DEF HostInv
<1>. QED
  BY <1>4, <1>5, <1>7, <1>8, <1>9, <1>10, <1>11, <1>12 DEF IInv, TopoPart

-----------------------------------------------------------------------------
(***************************************************************************)
(* The steps of ipm_get_machtopo.                                          *)
(***************************************************************************)

(* The messages of the other tasks. *)
LEMMA StepFlags ==
  ASSUME IInv, NEW r \in Ranks, StepOf(r), \A q \in Ranks : Gathered(q)' <=> Gathered(q)
  PROVE  /\ \A q \in Ranks : q # r => NameKept(q) /\ AnswerKept(q)
         /\ \A q \in Ranks : q # r /\ (Collects(Root(q), q)' <=> Collects(Root(q), q)) =>
              ReportKept(q)
         /\ \A q \in Ranks : q # r /\ (RingTold(q)' <=> RingTold(q)) => RingKept(q)
         /\ \A q \in Ranks : q # r /\ (SizeTold(q)' <=> SizeTold(q)) => SizeKept(q)
         /\ \A q \in Ranks : Root(q) # r \/ local_ranks'[r] = local_ranks[r] =>
              (Collects(Root(q), q)' <=> Collects(Root(q), q))
         /\ \A q \in Ranks : RingTold(q) => RingOf(q)' = RingOf(q)
         /\ \A q \in Ranks : SizeOf(q)' = SizeOf(q)
<1>0. HostInv
  BY Parts
<1>1. Others(r) /\ host' = host /\ local_roots' = local_roots
  BY DEF StepOf, Others
<1>2. \A q \in Ranks : Root(q)' = Root(q)
  BY <1>1, HostKept
<1>3. \A q \in Ranks : q # r =>
              /\ (KnowsRoot(q)' <=> KnowsRoot(q)) /\ (KnowsSize(q)' <=> KnowsSize(q))
              /\ (KnowsRing(q)' <=> KnowsRing(q)) /\ (Reported(q)' <=> Reported(q))
              /\ at'[q] = at[q]
  BY <1>0, <1>1, OthersFlags DEF Others
<1>4. \A q \in Ranks : SizeOf(q)' = SizeOf(q)
  BY <1>0, <1>1, DataKept
<1>5. ASSUME NEW q \in Ranks, RingTold(q)
      PROVE  RingOf(q)' = RingOf(q)
  <2>1. at[Root(q)] \in {"tell", "bcast", "done"} /\ Root(q) \in Ranks
    BY <1>5, RootFacts DEF RingTold
  <2>2. local_ranks'[Root(q)] = local_ranks[Root(q)]
    BY <1>1, <2>1 DEF StepOf, Others
  <2>. QED
    BY <1>0, <1>1, <2>2, DataKept
<1>6. ASSUME NEW q \in Ranks, Root(q) # r \/ local_ranks'[r] = local_ranks[r]
      PROVE  Collects(Root(q), q)' <=> Collects(Root(q), q)
  <2>1. Root(q)' = Root(q) /\ Root(q) \in Ranks
    BY <1>2, RootFacts
  <2>2. local_ranks'[Root(q)] = local_ranks[Root(q)]
    BY <1>1, <1>6, <2>1 DEF Others
  <2>. QED
    BY <2>1, <2>2 DEF Collects
<1>7. \A q \in Ranks : q # r => NameKept(q) /\ AnswerKept(q)
  BY <1>3 DEF NameKept, AnswerKept
<1>8. \A q \in Ranks : q # r /\ (Collects(Root(q), q)' <=> Collects(Root(q), q)) => ReportKept(q)
  BY <1>3 DEF ReportKept
<1>9. \A q \in Ranks : q # r /\ (RingTold(q)' <=> RingTold(q)) => RingKept(q)
  BY <1>3, <1>5 DEF RingKept
<1>10. \A q \in Ranks : q # r /\ (SizeTold(q)' <=> SizeTold(q)) => SizeKept(q)
  BY <1>3, <1>4 DEF SizeKept
<1>. QED
  BY <1>4, <1>5, <1>6, <1>7, <1>8, <1>9, <1>10

(* No message changes but the ones that this says.                         *)
LEMMA StepMessages ==
  ASSUME IInv, NEW r \in Ranks, StepOf(r), NEW p \in Ranks, NEW q \in Ranks
  PROVE  /\ ThirdKept(p, q)
         /\ (q = 0 => NameKept(p)) /\ (p = 0 => AnswerKept(q)) => FirstKept(p, q)
         /\ (q = Root(p) => ReportKept(p)) /\ (p = Root(q) => RingKept(q)) /\ (p = 0 => SizeKept(q))
              => SecondKept(p, q)
<1>1. HostInv /\ host' = host
  BY Parts DEF StepOf, Others
<1>. QED
  BY <1>1, StepThird, FirstSame, SecondSame

(* A task other than 0 sends the name of its host to task 0.               *)
LEMMA EnterStep ==
  ASSUME mpi_size > 1, IInv, UNCHANGED log_vars, NEW r \in Ranks, Enter(r)
  PROVE  IInv'
<1>. DEFINE y == IF r = 0 THEN "gather" ELSE "root"
<1>0. /\ NetIs /\ HostInv /\ PlaceInv /\ ListInv /\ OrderInv /\ RanksInv /\ TopoInv /\ BcastInv
      /\ LogInv
  BY Parts
<1>1. /\ at[r] = "enter" /\ Goto(r, y) /\ topo' = [topo EXCEPT ![r].intra_size = 0]
      /\ IF r = 0 THEN UNCHANGED <<net, sending>> ELSE Send(r, 0, host[r])
      /\ nhosts' = [nhosts EXCEPT ![r] = @]
      /\ UNCHANGED <<ops, inside, host, n, local_roots, local_sizes, local_ranks>>
  <2>1. ~Alone
    BY SizeAssumption DEF Alone
  <2>. QED
    BY <2>1 DEF Enter, root_vars
<1>2. /\ at' \in [Ranks -> Places] /\ at'[r] = y
      /\ \A q \in Ranks : q # r => at'[q] = at[q]
  <2>1. y \in Places
    BY DEF Places
  <2>. HIDE DEF y
  <2>. QED
    BY <1>0, <1>1, <2>1, Moved
<1>3. /\ topo' \in [Ranks -> TopoType] /\ topo'[r].intra_root = topo[r].intra_root
      /\ \A q \in Ranks : q # r => topo'[q] = topo[q]
  BY <1>0, <1>1 DEF TopoInv, TopoType
<1>4. StepOf(r)
  <2>1. nhosts' = nhosts
    BY <1>0, <1>1 DEF BcastInv
  <2>2. Others(r)
    BY <1>1, <1>2 DEF Others
  <2>. QED
    BY <1>0, <1>1, <1>2, <1>3, <2>1, <2>2 DEF StepOf, PlaceInv, RanksInv
<1>5. /\ ~KnowsSize(r) /\ ~KnowsSize(r)' /\ ~KnowsRing(r) /\ ~KnowsRing(r)'
      /\ ~Reported(r) /\ ~Reported(r)' /\ ~KnowsRoot(r) /\ (r # 0 => ~KnowsRoot(r)')
  BY <1>1, <1>2 DEF KnowsSize, KnowsRing, Reported, KnowsRoot
<1>6. \A q \in Ranks : Root(q)' = Root(q)
  BY <1>1, HostKept
<1>7. r = 0 => n[0] = 1
  BY <1>0, <1>1 DEF PlaceInv, PlaceOk
<1>8. \A q \in Ranks : /\ (RingTold(q)' <=> RingTold(q)) /\ (Gathered(q)' <=> Gathered(q))
                       /\ (SizeTold(q)' <=> SizeTold(q))
  <2>1. \A q \in Ranks : Root(q) = r => ~RingTold(q) /\ ~RingTold(q)'
    BY <1>1, <1>2, <1>6 DEF RingTold
  <2>2. r = 0 => \A q \in Ranks : /\ (Gathered(q)' <=> Gathered(q))
                                  /\ ~SizeTold(q) /\ ~SizeTold(q)'
    BY <1>1, <1>2, <1>7 DEF Gathered, NGathered, SizeTold
  <2>. QED
    BY <1>0, <1>1, <1>4, <2>1, <2>2, OthersFlags DEF StepOf
<1>9. /\ \A q \in Ranks : AnswerKept(q) /\ ReportKept(q) /\ RingKept(q) /\ SizeKept(q)
      /\ \A q \in Ranks : q # r => NameKept(q)
  <2>1. \A q \in Ranks : q # r =>
          NameKept(q) /\ AnswerKept(q) /\ ReportKept(q) /\ RingKept(q) /\ SizeKept(q)
    BY <1>1, <1>4, <1>8, StepFlags
  <2>2. AnswerKept(r) /\ ReportKept(r)
    <3>1. Collects(Root(r), r)' <=> Collects(Root(r), r)
      BY <1>1, <1>4, <1>8, StepFlags
    <3>. QED
      BY <1>5, <1>8, <3>1 DEF AnswerKept, ReportKept
  <2>3. RingKept(r) /\ SizeKept(r)
    <3>1. (RingTold(r) => RingOf(r)' = RingOf(r)) /\ SizeOf(r)' = SizeOf(r)
      BY <1>4, <1>8, StepFlags
    <3>. QED
      BY <1>5, <1>8, <3>1 DEF RingKept, SizeKept
  <2>. QED
    BY <2>1, <2>2, <2>3
<1>10. NetIs'
  <2>1. CASE r = 0
    <3>1. \A q \in Ranks : NameKept(q)
      BY <1>9, <2>1 DEF NameKept
    <3>2. \A p, q \in Ranks : Kept(p, q)
      BY <1>4, <1>9, <3>1, StepMessages DEF Kept
    <3>. QED
      BY <1>0, <1>1, <2>1, <3>2, NetKept
  <2>2. CASE r # 0
    <3>1. net' = Sent(net, r, 0, host[r]) /\ 0 \in Ranks
      BY <1>1, <2>2, RootFacts DEF Send
    <3>2. \A p, q \in Ranks : p # r \/ q # 0 => Kept(p, q)
      BY <1>4, <1>9, StepMessages DEF Kept
    <3>3. SecondKept(r, 0) /\ ThirdKept(r, 0)
      BY <1>4, <1>9, <3>1, StepMessages
    <3>4. Third(r, 0) = <<>>
      BY <1>0, <1>1, <3>1, NoToken
    <3>5. Second(r, 0) = <<>> /\ First(r, 0) = <<>>
      BY <1>1, <1>5, <2>2, RootFacts DEF Second, First, Opt
    <3>6. ~Gathered(r)
      BY <1>0, <1>1, <2>2 DEF OrderInv, OrderOk
    <3>7. First(r, 0)' = <<host[r]>>
      BY <1>1, <1>2, <1>8, <2>2, <3>6 DEF First, Opt
    <3>. QED
      BY <1>0, <3>1, <3>2, <3>3, <3>4, <3>5, <3>7, NetSent
  <2>. QED
    BY <2>1, <2>2
<1>11. PlaceOk(r)'
  <2>1. r = 0 => n'[r] \in 1 .. mpi_size - 1
    BY <1>1, <1>7, SizeAssumption
  <2>. QED
    BY <1>2, <2>1 DEF PlaceOk
<1>12. OrderOk(r)'
  BY <1>2, <1>5 DEF OrderOk
<1>13. RanksOk(r)'
  <2>1. RanksOk(r)
    BY <1>0 DEF RanksInv
  <2>. QED
    BY <1>1, <1>5, <2>1 DEF RanksOk
<1>14. TopoOk(r)'
  <2>1. r = 0 => topo[r].intra_root = Root(r)
    BY <1>0 DEF TopoInv, TopoOk
  <2>. QED
    BY <1>3, <1>5, <1>6, <2>1 DEF TopoOk
<1>. QED
  BY <1>4, <1>5, <1>8, <1>10, <1>11, <1>12, <1>13, <1>14, StepInv

(* Once task 0 is past gathering it has gathered all.                      *)
LEMMA AllGathered ==
  ASSUME at[0] \notin {"enter", "gather"}
  PROVE  \A q \in Ranks : Gathered(q)
BY SizeAssumption DEF Gathered, NGathered, Ranks

(* A task that task 0 has not gathered finds it gathering.                 *)
LEMMA NotGathered ==
  ASSUME PlaceInv, OrderInv, NEW q \in Ranks, ~Gathered(q)
  PROVE  at[0] \in {"enter", "gather"}
BY AllGathered

(* The neighbours of a root in the list of roots.                          *)
LEMMA RootNeighbours ==
  ASSUME HostInv, ListInv, NEW r \in Ranks, NEW j \in 1 .. Len(local_roots), local_roots[j] = r
  PROVE  /\ PlaceIn(local_roots, r) = j
         /\ LeftRoot(r) = IF j = 1 THEN local_roots[Len(local_roots)] ELSE local_roots[j - 1]
         /\ RightRoot(r) = IF Len(local_roots) = 1 THEN -1 ELSE RightOf(local_roots, j)
         /\ LeftRoot(r) \in Ranks /\ RightRoot(r) \in Int
<1>1. PlaceIn(local_roots, r) = j
  BY RootList, PlaceFound
<1>2. /\ LeftRoot(r) = IF j = 1 THEN local_roots[Len(local_roots)] ELSE local_roots[j - 1]
      /\ RightRoot(r) = IF Len(local_roots) = 1 THEN -1 ELSE RightOf(local_roots, j)
  BY <1>1 DEF LeftRoot, RightRoot
<1>3. Len(local_roots) \in Nat \ {0} /\ \A i \in 1 .. Len(local_roots) : local_roots[i] \in Ranks
  BY RootList
<1>4. LeftRoot(r) \in Ranks
  BY <1>2, <1>3
<1>5. RightRoot(r) \in Int
  <2>1. Ranks \subseteq Int
    BY DEF Ranks
  <2>2. RightOf(local_roots, j) \in Ranks
    BY <1>3 DEF RightOf
  <2>3. RightOf(local_roots, j) \in Int
    BY <2>1, <2>2, Zenon
  <2>4. -1 \in Int
    OBVIOUS
  <2>. QED
    BY <1>2, <2>3, <2>4, Zenon
<1>. QED
  BY <1>1, <1>2, <1>4, <1>5

(* These are integers.                                                     *)
LEMMA RootsTyped ==
  ASSUME HostInv, ListInv, NEW r \in Ranks, Root(r) = r, Gathered(r)
  PROVE  LeftRoot(r) \in Int /\ RightRoot(r) \in Int
<1>1. PICK j \in 1 .. Len(local_roots) : local_roots[j] = r
  BY DEF ListInv
<1>2. Ranks \subseteq Int
  BY DEF Ranks
<1>. QED
  BY <1>1, <1>2, RootNeighbours

(* A task receives the root of its host from task 0.                       *)
LEMMA RecvRootStep ==
  ASSUME mpi_size > 1, IInv, UNCHANGED log_vars, NEW r \in Ranks, RecvRoot(r)
  PROVE  IInv'
<1>. DEFINE y == IF Root(r) = r THEN "size" ELSE "member"
<1>0. /\ NetIs /\ HostInv /\ PlaceInv /\ ListInv /\ OrderInv /\ RanksInv /\ TopoInv /\ BcastInv
      /\ LogInv
  BY Parts
<1>1. PICK root \in Ranks :
        /\ at[r] = "root" /\ Recv(r, 0, root) /\ topo' = [topo EXCEPT ![r].intra_root = root]
        /\ Goto(r, IF root = r THEN "size" ELSE "member")
        /\ UNCHANGED <<ops, inside, host, n, local_roots, local_sizes, local_ranks, nhosts>>
  BY DEF RecvRoot, root_vars
<1>2. r # 0 /\ 0 \in Ranks /\ Root(0) = 0
  BY <1>0, <1>1, RootFacts DEF PlaceInv, PlaceOk
<1>3. ~KnowsRoot(r) /\ ~KnowsSize(r) /\ ~KnowsRing(r) /\ ~Reported(r)
  BY <1>1 DEF KnowsSize, KnowsRing, Reported, KnowsRoot
<1>4. Gathered(r) /\ First(0, r) = <<Root(r)>>
  <2>1. ASSUME ~Gathered(r)
        PROVE  FALSE
    <3>1. at[0] \in {"enter", "gather"}
      BY <1>0, <2>1, NotGathered
    <3>2. Third(0, r) = <<>>
      BY <1>0, <1>2, <3>1, NoToken
    <3>3. Second(0, r) = <<>>
      BY <1>2, <3>1 DEF Second, Opt, RingTold, SizeTold
    <3>4. First(0, r) = <<>>
      BY <1>2, <2>1 DEF First, Opt
    <3>. QED
      BY <1>0, <1>1, <1>2, <3>2, <3>3, <3>4, HeadOfQueue DEF Recv
  <2>. QED
    BY <1>2, <1>3, <2>1 DEF First, Opt
<1>5. root = Root(r) /\ net' = Received(0, r)
  BY <1>0, <1>1, <1>2, <1>4, HeadOfQueue DEF Recv
<1>6. /\ at' \in [Ranks -> Places] /\ at'[r] = y
      /\ \A q \in Ranks : q # r => at'[q] = at[q]
  <2>1. y \in Places /\ Goto(r, y)
    BY <1>1, <1>5 DEF Places
  <2>. HIDE DEF y
  <2>. QED
    BY <1>0, <2>1, Moved
<1>7. /\ topo' \in [Ranks -> TopoType] /\ topo'[r].intra_root = Root(r)
      /\ \A q \in Ranks : q # r => topo'[q] = topo[q]
  <2>1. Root(r) \in Int
    BY RootFacts DEF Ranks
  <2>. QED
    BY <1>0, <1>1, <1>5, <2>1 DEF TopoInv, TopoType
<1>8. StepOf(r)
  <2>1. Others(r)
    BY <1>1, <1>6 DEF Others
  <2>. QED
    BY <1>0, <1>1, <1>6, <1>7, <2>1 DEF StepOf, PlaceInv, RanksInv
<1>9. KnowsRoot(r)' /\ ~KnowsSize(r)' /\ ~KnowsRing(r)' /\ ~Reported(r)'
  BY <1>6 DEF KnowsSize, KnowsRing, Reported, KnowsRoot
<1>10. \A q \in Ranks : Root(q)' = Root(q)
  BY <1>1, HostKept
<1>11. \A q \in Ranks : /\ (RingTold(q)' <=> RingTold(q)) /\ (Gathered(q)' <=> Gathered(q))
                        /\ (SizeTold(q)' <=> SizeTold(q))
  <2>1. \A q \in Ranks : Root(q) = r => ~RingTold(q) /\ ~RingTold(q)'
    BY <1>1, <1>6, <1>10 DEF RingTold
  <2>. QED
    BY <1>0, <1>1, <1>2, <1>8, <2>1, OthersFlags DEF StepOf
<1>12. /\ \A q \in Ranks : NameKept(q) /\ ReportKept(q) /\ RingKept(q) /\ SizeKept(q)
       /\ \A q \in Ranks : q # r => AnswerKept(q)
  <2>1. \A q \in Ranks : q # r =>
          NameKept(q) /\ AnswerKept(q) /\ ReportKept(q) /\ RingKept(q) /\ SizeKept(q)
    BY <1>1, <1>8, <1>11, StepFlags
  <2>2. NameKept(r)
    BY <1>1, <1>6, <1>11 DEF NameKept
  <2>3. ReportKept(r)
    <3>1. Collects(Root(r), r)' <=> Collects(Root(r), r)
      BY <1>1, <1>8, <1>11, StepFlags
    <3>. QED
      BY <1>3, <1>9, <3>1 DEF ReportKept
  <2>4. RingKept(r) /\ SizeKept(r)
    <3>1. (RingTold(r) => RingOf(r)' = RingOf(r)) /\ SizeOf(r)' = SizeOf(r)
      BY <1>8, <1>11, StepFlags
    <3>. QED
      BY <1>3, <1>9, <1>11, <3>1 DEF RingKept, SizeKept
  <2>. QED
    BY <2>1, <2>2, <2>3, <2>4
<1>13. NetIs'
  <2>1. \A p, q \in Ranks : p # 0 \/ q # r => Kept(p, q)
    BY <1>8, <1>12, StepMessages DEF Kept
  <2>2. SecondKept(0, r) /\ ThirdKept(0, r)
    BY <1>2, <1>8, <1>12, StepMessages
  <2>3. First(0, r)' = <<>>
    BY <1>2, <1>9 DEF First, Opt
  <2>. QED
    BY <1>0, <1>2, <1>4, <1>5, <2>1, <2>2, <2>3, NetReceived
<1>14. PlaceOk(r)'
  BY <1>2, <1>6, <1>10 DEF PlaceOk
<1>15. OrderOk(r)'
  BY <1>4, <1>6, <1>9, <1>11 DEF OrderOk
<1>16. RanksOk(r)'
  <2>1. RanksOk(r)
    BY <1>0 DEF RanksInv
  <2>. QED
    BY <1>1, <1>3, <1>9, <2>1 DEF RanksOk
<1>17. TopoOk(r)'
  BY <1>7, <1>9, <1>10 DEF TopoOk
<1>. QED
  BY <1>3, <1>8, <1>11, <1>13, <1>14, <1>15, <1>16, <1>17, StepInv

(* A task reports to the root of its host.                                 *)
LEMMA ReportStep ==
  ASSUME mpi_size > 1, IInv, UNCHANGED log_vars, NEW r \in Ranks, Report(r)
  PROVE  IInv'
<1>. DEFINE y == "told"
<1>0. /\ NetIs /\ HostInv /\ PlaceInv /\ ListInv /\ OrderInv /\ RanksInv /\ TopoInv /\ BcastInv
      /\ LogInv
  BY Parts
<1>1. /\ at[r] = "member" /\ net' = Sent(net, r, topo[r].intra_root, r) /\ Goto(r, y)
      /\ UNCHANGED <<ops, inside, host, n, local_roots, local_sizes, local_ranks, topo, nhosts>>
  BY DEF Report, Send, root_vars
<1>2. r # 0 /\ 0 \in Ranks /\ Root(r) # r /\ Root(r) \in Ranks /\ Root(Root(r)) = Root(r)
  BY <1>0, <1>1, RootFacts DEF PlaceInv, PlaceOk
<1>3. KnowsRoot(r) /\ ~KnowsSize(r) /\ ~KnowsRing(r) /\ ~Reported(r)
  BY <1>1 DEF KnowsSize, KnowsRing, Reported, KnowsRoot
<1>4. topo[r].intra_root = Root(r)
  BY <1>0, <1>3 DEF TopoInv, TopoOk
<1>5. /\ at' \in [Ranks -> Places] /\ at'[r] = y
      /\ \A q \in Ranks : q # r => at'[q] = at[q]
  <2>1. y \in Places
    BY DEF Places
  <2>. HIDE DEF y
  <2>. QED
    BY <1>0, <1>1, <2>1, Moved
<1>6. StepOf(r)
  <2>1. Others(r)
    BY <1>1, <1>5 DEF Others
  <2>. QED
    BY <1>0, <1>1, <1>5, <2>1 DEF StepOf, PlaceInv, RanksInv, TopoInv
<1>7. KnowsRoot(r)' /\ ~KnowsSize(r)' /\ ~KnowsRing(r)' /\ Reported(r)'
  BY <1>5 DEF KnowsSize, KnowsRing, Reported, KnowsRoot
<1>8. \A q \in Ranks : Root(q)' = Root(q) /\ Root(q) # r
  BY <1>1, <1>2, HostKept, RootFacts
<1>9. \A q \in Ranks : /\ (RingTold(q)' <=> RingTold(q)) /\ (Gathered(q)' <=> Gathered(q))
                       /\ (SizeTold(q)' <=> SizeTold(q))
                       /\ (Collects(Root(q), q)' <=> Collects(Root(q), q))
  <2>1. \A q \in Ranks : /\ (RingTold(q)' <=> RingTold(q)) /\ (Gathered(q)' <=> Gathered(q))
                         /\ (SizeTold(q)' <=> SizeTold(q))
    BY <1>0, <1>1, <1>2, <1>6, <1>8, OthersFlags DEF StepOf
  <2>. QED
    BY <1>6, <1>8, <2>1, StepFlags
<1>10. /\ \A q \in Ranks : NameKept(q) /\ AnswerKept(q) /\ RingKept(q) /\ SizeKept(q)
       /\ \A q \in Ranks : q # r => ReportKept(q)
  <2>1. \A q \in Ranks : q # r =>
          NameKept(q) /\ AnswerKept(q) /\ ReportKept(q) /\ RingKept(q) /\ SizeKept(q)
    BY <1>6, <1>9, StepFlags
  <2>2. NameKept(r) /\ AnswerKept(r)
    BY <1>1, <1>3, <1>5, <1>7, <1>9 DEF NameKept, AnswerKept
  <2>3. RingKept(r) /\ SizeKept(r)
    <3>1. (RingTold(r) => RingOf(r)' = RingOf(r)) /\ SizeOf(r)' = SizeOf(r)
      BY <1>6, <1>9, StepFlags
    <3>. QED
      BY <1>3, <1>7, <1>9, <3>1 DEF RingKept, SizeKept
  <2>. QED
    BY <2>1, <2>2, <2>3
<1>11. ~Collects(Root(r), r)
  <2>1. RanksOk(Root(r))
    BY <1>0, <1>2 DEF RanksInv
  <2>2. CASE KnowsSize(Root(r))
    BY <1>2, <1>3, <2>1, <2>2 DEF RanksOk
  <2>3. CASE ~KnowsSize(Root(r))
    <3>1. local_ranks[Root(r)] = <<>>
      BY <2>1, <2>3 DEF RanksOk
    <3>. QED
      BY <3>1 DEF Collects
  <2>. QED
    BY <2>2, <2>3
<1>12. NetIs'
  <2>0. PICK m \in Ranks : m = Root(r) /\ Root(m) = m /\ m # r
    BY <1>2
  <2>1. \A p, q \in Ranks : p # r \/ q # m => Kept(p, q)
    BY <1>6, <1>10, <2>0, StepMessages DEF Kept
  <2>2. FirstKept(r, m) /\ ThirdKept(r, m)
    BY <1>6, <1>10, StepMessages
  <2>3. Third(r, m) = <<>>
    BY <1>0, <1>1, NoToken
  <2>4. Second(r, m) = <<>>
    BY <1>3, <2>0 DEF Second, Opt
  <2>5. Second(r, m)' = <<r>>
    <3>1. ~Collects(m, r)' /\ Root(r)' = m
      BY <1>8, <1>9, <1>11, <2>0 DEF Collects
    <3>. QED
      BY <1>7, <2>0, <3>1 DEF Second, Opt
  <2>6. net' = Sent(net, r, m, r)
    BY <1>1, <1>4, <2>0
  <2>. QED
    BY <1>0, <2>1, <2>2, <2>3, <2>4, <2>5, <2>6, NetSent
<1>13. PlaceOk(r)'
  BY <1>2, <1>5, <1>8 DEF PlaceOk
<1>14. OrderOk(r)'
  <2>1. Gathered(r)
    BY <1>0, <1>2, <1>3 DEF OrderInv, OrderOk
  <2>. QED
    BY <1>2, <1>5, <1>7, <1>9, <2>1 DEF OrderOk
<1>15. RanksOk(r)'
  <2>1. RanksOk(r)
    BY <1>0 DEF RanksInv
  <2>. QED
    BY <1>1, <1>3, <1>7, <2>1 DEF RanksOk
<1>16. TopoOk(r)'
  BY <1>1, <1>2, <1>4, <1>7, <1>8 DEF TopoOk
<1>. QED
  BY <1>3, <1>6, <1>9, <1>12, <1>13, <1>14, <1>15, <1>16, StepInv

(* A root's own list, when it is about to collect.                         *)
LEMMA OwnList ==
  ASSUME HostInv, host' = host, NEW r \in Ranks, Root(r) = r, local_ranks'[r] = <<r>>,
         at'[r] = "collect"
  PROVE  RanksOk(r)' /\ \A q \in Ranks : Collects(r, q)' <=> q = r
<1>1. Root(r)' = Root(r) /\ OnHost(r)' = OnHost(r)
  BY HostKept
<1>2. \A q \in Ranks : Collects(r, q)' <=> q = r
  BY DEF Collects
<1>3. 1 <= Cardinality(OnHost(r)) /\ Len(<<r>>) = 1 /\ <<r>>[1] = r
  BY HostSize
<1>4. KnowsSize(r)'
  BY DEF KnowsSize
<1>. QED
  BY <1>1, <1>2, <1>3, <1>4 DEF RanksOk

(* A root receives its size and its neighbours from task 0.                *)
LEMMA RecvSizeStep ==
  ASSUME mpi_size > 1, IInv, UNCHANGED log_vars, NEW r \in Ranks, RecvSize(r)
  PROVE  IInv'
<1>. DEFINE y == "collect"
            d == Head(net[<<0, r>>])
<1>0. /\ NetIs /\ HostInv /\ PlaceInv /\ ListInv /\ OrderInv /\ RanksInv /\ TopoInv /\ BcastInv
      /\ LogInv /\ TurnInv
  BY Parts
<1>1. /\ at[r] = "size" /\ net[<<0, r>>] # <<>> /\ Goto(r, y)
      /\ topo' = [topo EXCEPT ![r].intra_size = d.intra_size, ![r].inter_left = d.inter_left,
                              ![r].inter_right = d.inter_right]
      /\ net' = Received(0, r) /\ local_ranks' = [local_ranks EXCEPT ![r] = <<r>>]
      /\ UNCHANGED <<ops, inside, host, n, local_roots, local_sizes, nhosts>>
  BY DEF RecvSize, root_vars
<1>2. r # 0 /\ 0 \in Ranks /\ Root(0) = 0 /\ Root(r) = r
  BY <1>0, <1>1, RootFacts DEF PlaceInv, PlaceOk
<1>3. KnowsRoot(r) /\ ~KnowsSize(r) /\ ~KnowsRing(r) /\ ~Reported(r)
  BY <1>1 DEF KnowsSize, KnowsRing, Reported, KnowsRoot
<1>4. First(0, r) = <<>>
  BY <1>2, <1>3 DEF First, Opt
<1>5. Third(0, r) = <<>>
  <2>1. ~TokenIn(0, r)
    BY <1>2 DEF TokenIn, Follows
  <2>2. ~TurnIn(0, r)
    BY <1>0, <1>1, TurnInDone
  <2>. QED
    BY <2>1, <2>2 DEF Third, Opt
<1>6. SizeTold(r) /\ Second(0, r) = <<SizeOf(r)>>
  <2>1. Second(0, r) = Opt(SizeTold(r) /\ ~KnowsSize(r), SizeOf(r))
    BY <1>2 DEF Second
  <2>2. ASSUME ~SizeTold(r)
        PROVE  FALSE
    <3>1. Second(0, r) = <<>>
      BY <2>1, <2>2 DEF Opt
    <3>. QED
      BY <1>0, <1>1, <1>2, <1>4, <1>5, <3>1, HeadOfQueue
  <2>. QED
    BY <1>3, <2>1, <2>2 DEF Opt
<1>7. d = SizeOf(r)
  BY <1>0, <1>2, <1>4, <1>6, HeadOfQueue
<1>8. /\ d.intra_size = Cardinality(OnHost(r)) /\ d.inter_left = LeftRoot(r)
      /\ d.inter_right = RightRoot(r)
  BY <1>7 DEF SizeOf
<1>. HIDE DEF d
<1>9. /\ at' \in [Ranks -> Places] /\ at'[r] = y
      /\ \A q \in Ranks : q # r => at'[q] = at[q]
  <2>1. y \in Places
    BY DEF Places
  <2>. HIDE DEF y
  <2>. QED
    BY <1>0, <1>1, <2>1, Moved
<1>10. Gathered(r)
  BY <1>0, <1>2, <1>3 DEF OrderInv, OrderOk
<1>11. /\ topo' \in [Ranks -> TopoType] /\ topo'[r].intra_root = topo[r].intra_root
       /\ topo'[r].intra_size = Cardinality(OnHost(r)) /\ topo'[r].inter_left = LeftRoot(r)
       /\ topo'[r].inter_right = RightRoot(r)
       /\ \A q \in Ranks : q # r => topo'[q] = topo[q]
  <2>1. d.intra_size \in Int /\ d.inter_left \in Int /\ d.inter_right \in Int
    BY <1>0, <1>2, <1>8, <1>10, HostSize, RootsTyped
  <2>. QED
    BY <1>0, <1>1, <1>8, <2>1 DEF TopoInv, TopoType
<1>12. /\ local_ranks' \in [Ranks -> Seq(Ranks)] /\ local_ranks'[r] = <<r>>
       /\ \A q \in Ranks : q # r => local_ranks'[q] = local_ranks[q]
  BY <1>0, <1>1 DEF RanksInv
<1>13. StepOf(r)
  <2>1. Others(r)
    BY <1>1, <1>9, <1>12 DEF Others
  <2>. QED
    BY <1>0, <1>1, <1>2, <1>9, <1>11, <1>12, <2>1 DEF StepOf, PlaceInv
<1>14. KnowsRoot(r)' /\ KnowsSize(r)' /\ ~KnowsRing(r)' /\ ~Reported(r)'
  BY <1>9 DEF KnowsSize, KnowsRing, Reported, KnowsRoot
<1>15. \A q \in Ranks : Root(q)' = Root(q)
  BY <1>1, HostKept
<1>16. \A q \in Ranks : /\ (RingTold(q)' <=> RingTold(q)) /\ (Gathered(q)' <=> Gathered(q))
                        /\ (SizeTold(q)' <=> SizeTold(q))
  <2>1. \A q \in Ranks : Root(q) = r => ~RingTold(q) /\ ~RingTold(q)'
    BY <1>1, <1>9, <1>15 DEF RingTold
  <2>. QED
    BY <1>0, <1>1, <1>2, <1>13, <2>1, OthersFlags DEF StepOf
<1>17. RanksOk(r)' /\ \A q \in Ranks : q # r => ~Collects(r, q)'
  BY <1>0, <1>1, <1>2, <1>9, <1>12, OwnList
<1>18. \A q \in Ranks : q # r => (Collects(Root(q), q)' <=> Collects(Root(q), q))
  <2>1. \A q \in Ranks : Root(q) # r => (Collects(Root(q), q)' <=> Collects(Root(q), q))
    BY <1>13, <1>16, StepFlags
  <2>2. local_ranks[r] = <<>>
    BY <1>0, <1>3 DEF RanksInv, RanksOk
  <2>3. \A q \in Ranks : ~Collects(r, q)
    BY <2>2 DEF Collects
  <2>4. ASSUME NEW q \in Ranks, q # r, Root(q) = r
        PROVE  Collects(Root(q), q)' <=> Collects(Root(q), q)
    <3>1. Root(q)' = r
      BY <1>15, <2>4
    <3>2. Collects(Root(q), q)' <=> Collects(r, q)'
      BY <3>1 DEF Collects
    <3>. QED
      BY <1>17, <2>3, <2>4, <3>2
  <2>. QED
    BY <2>1, <2>4
<1>19. /\ \A q \in Ranks : NameKept(q) /\ AnswerKept(q) /\ ReportKept(q) /\ RingKept(q)
       /\ \A q \in Ranks : q # r => SizeKept(q)
  <2>1. \A q \in Ranks : q # r =>
          NameKept(q) /\ AnswerKept(q) /\ ReportKept(q) /\ RingKept(q) /\ SizeKept(q)
    BY <1>13, <1>16, <1>18, StepFlags
  <2>2. NameKept(r) /\ AnswerKept(r)
    BY <1>1, <1>3, <1>9, <1>14, <1>16 DEF NameKept, AnswerKept
  <2>3. ReportKept(r) /\ RingKept(r)
    BY <1>2 DEF ReportKept, RingKept
  <2>. QED
    BY <2>1, <2>2, <2>3
<1>20. NetIs'
  <2>1. \A p, q \in Ranks : p # 0 \/ q # r => Kept(p, q)
    BY <1>13, <1>19, StepMessages DEF Kept
  <2>2. FirstKept(0, r) /\ ThirdKept(0, r)
    BY <1>2, <1>13, <1>19, StepMessages
  <2>3. Second(0, r)' = <<>>
    <3>1. Root(0)' = 0 /\ Root(r)' = r
      BY <1>2, <1>15
    <3>. QED
      BY <1>2, <1>14, <3>1 DEF Second, Opt
  <2>. QED
    BY <1>0, <1>1, <1>2, <1>4, <1>6, <2>1, <2>2, <2>3, NetReceived
<1>21. PlaceOk(r)'
  BY <1>2, <1>9, <1>15 DEF PlaceOk
<1>22. OrderOk(r)'
  BY <1>2, <1>6, <1>9, <1>10, <1>14, <1>15, <1>16 DEF OrderOk
<1>23. TopoOk(r)'
  <2>1. topo[r].intra_root = Root(r)
    BY <1>0, <1>3 DEF TopoInv, TopoOk
  <2>2. LeftRoot(r)' = LeftRoot(r) /\ RightRoot(r)' = RightRoot(r) /\ OnHost(r)' = OnHost(r)
    BY <1>1, HostKept DEF LeftRoot, RightRoot
  <2>. QED
    BY <1>2, <1>11, <1>14, <1>15, <2>1, <2>2 DEF TopoOk
<1>. QED
  BY <1>3, <1>13, <1>16, <1>17, <1>20, <1>21, <1>22, <1>23, StepInv

(* All tasks of a root's host are counted when all are gathered.           *)
LEMMA SizesComplete ==
  ASSUME HostInv, ListInv, at[0] \notin {"enter", "gather"},
         NEW q \in Ranks, NEW j \in 1 .. Len(local_roots), local_roots[j] = q
  PROVE  local_sizes[j] = Cardinality(OnHost(q)) /\ Root(q) = q
<1>1. OnHost(q) \subseteq Ranks
  BY DEF OnHost
<1>2. GatheredOn(q) = OnHost(q)
  BY <1>1, AllGathered DEF GatheredOn
<1>. QED
  BY <1>2 DEF ListInv

(* Task 0 sets its own, once it has told all roots theirs.                 *)
LEMMA OwnRootStep ==
  ASSUME mpi_size > 1, IInv, UNCHANGED log_vars, NEW r \in Ranks, OwnRoot(r)
  PROVE  IInv'
<1>. DEFINE y == "collect"
            len == Len(local_roots)
            right == IF len > 1 THEN local_roots[2] ELSE -1
<1>0. /\ NetIs /\ HostInv /\ PlaceInv /\ ListInv /\ OrderInv /\ RanksInv /\ TopoInv /\ BcastInv
      /\ LogInv
  BY Parts
<1>1. /\ at[r] = "roots" /\ n[r] > len /\ Goto(r, y)
      /\ topo' = [topo EXCEPT ![r].intra_size = local_sizes[1],
                              ![r].inter_left = local_roots[len], ![r].inter_right = right]
      /\ local_ranks' = [local_ranks EXCEPT ![r] = <<r>>]
      /\ UNCHANGED <<ops, inside, host, n, local_roots, local_sizes, net, nhosts>>
  BY DEF OwnRoot, root_vars
<1>2. r = 0 /\ 0 \in Ranks /\ Root(r) = r /\ n[r] = len + 1
  <2>1. r = 0 /\ n[r] \in 2 .. len + 1
    BY <1>0, <1>1 DEF PlaceInv, PlaceOk
  <2>2. len \in Nat
    BY <1>0, RootList
  <2>. HIDE DEF len
  <2>. QED
    BY <1>1, <2>1, <2>2, RootFacts
<1>3. KnowsRoot(r) /\ ~KnowsSize(r) /\ ~KnowsRing(r) /\ ~Reported(r)
  BY <1>1 DEF KnowsSize, KnowsRing, Reported, KnowsRoot
<1>4. len \in Nat \ {0} /\ local_roots[1] = r /\ 1 \in 1 .. len
  BY <1>0, <1>2, RootList
<1>5. /\ local_sizes[1] = Cardinality(OnHost(r)) /\ local_roots[len] = LeftRoot(r)
      /\ right = RightRoot(r) /\ LeftRoot(r) \in Int /\ RightRoot(r) \in Int
      /\ Cardinality(OnHost(r)) \in Int
  <2>1. local_sizes[1] = Cardinality(OnHost(r))
    BY <1>0, <1>1, <1>2, <1>4, SizesComplete
  <2>2. /\ LeftRoot(r) = IF 1 = 1 THEN local_roots[len] ELSE local_roots[1 - 1]
        /\ RightRoot(r) = IF len = 1 THEN -1 ELSE RightOf(local_roots, 1)
        /\ LeftRoot(r) \in Ranks /\ RightRoot(r) \in Int
    BY <1>0, <1>4, RootNeighbours
  <2>3. len # 1 => RightOf(local_roots, 1) = local_roots[2]
    BY <1>4 DEF RightOf
  <2>4. right = RightRoot(r)
    <3>1. len > 1 <=> len # 1
      <4>1. len \in Nat \ {0}
        BY <1>4
      <4>. HIDE DEF len, right
      <4>. QED
        BY <4>1
    <3>. QED
      BY <2>2, <2>3, <3>1
  <2>5. LeftRoot(r) \in Int /\ Cardinality(OnHost(r)) \in Int
    BY <2>2, HostSize DEF Ranks
  <2>. QED
    BY <2>1, <2>2, <2>4, <2>5
<1>. HIDE DEF right
<1>6. /\ at' \in [Ranks -> Places] /\ at'[r] = y
      /\ \A q \in Ranks : q # r => at'[q] = at[q]
  <2>1. y \in Places
    BY DEF Places
  <2>. HIDE DEF y
  <2>. QED
    BY <1>0, <1>1, <2>1, Moved
<1>7. /\ topo' \in [Ranks -> TopoType] /\ topo'[r].intra_root = topo[r].intra_root
      /\ topo'[r].intra_size = Cardinality(OnHost(r)) /\ topo'[r].inter_left = LeftRoot(r)
      /\ topo'[r].inter_right = RightRoot(r)
      /\ \A q \in Ranks : q # r => topo'[q] = topo[q]
  BY <1>0, <1>1, <1>5 DEF TopoInv, TopoType
<1>8. /\ local_ranks' \in [Ranks -> Seq(Ranks)] /\ local_ranks'[r] = <<r>>
      /\ \A q \in Ranks : q # r => local_ranks'[q] = local_ranks[q]
  BY <1>0, <1>1 DEF RanksInv
<1>9. StepOf(r)
  <2>1. Others(r)
    BY <1>1, <1>6, <1>8 DEF Others
  <2>. QED
    BY <1>0, <1>1, <1>2, <1>6, <1>7, <1>8, <2>1 DEF StepOf, PlaceInv
<1>10. KnowsRoot(r)' /\ KnowsSize(r)' /\ ~KnowsRing(r)' /\ ~Reported(r)'
  BY <1>6 DEF KnowsSize, KnowsRing, Reported, KnowsRoot
<1>11. \A q \in Ranks : Root(q)' = Root(q)
  BY <1>1, HostKept
<1>12. \A q \in Ranks : /\ Gathered(q) /\ Gathered(q)' /\ (RingTold(q)' <=> RingTold(q))
                        /\ SizeTold(q)'
  <2>1. \A q \in Ranks : Root(q) = r => ~RingTold(q) /\ ~RingTold(q)'
    BY <1>1, <1>6, <1>11 DEF RingTold
  <2>2. \A q \in Ranks : Gathered(q)
    BY <1>1, <1>2, AllGathered
  <2>3. \A q \in Ranks : Gathered(q)' /\ SizeTold(q)'
    BY <1>2, <1>6, SizeAssumption DEF Gathered, NGathered, SizeTold, Ranks
  <2>. QED
    BY <1>0, <1>9, <2>1, <2>2, <2>3, OthersFlags DEF StepOf
<1>13. \A q \in Ranks : Root(q) = q => SizeTold(q)
  <2>1. SUFFICES ASSUME NEW q \in Ranks, Root(q) = q
                 PROVE  SizeTold(q)
    OBVIOUS
  <2>2. PICK j \in 1 .. len : local_roots[j] = q
    BY <1>0, <1>12, <2>1 DEF ListInv
  <2>3. j \in 1 .. n[0] - 1
    <3>1. n[0] = len + 1
      BY <1>2
    <3>. HIDE DEF len
    <3>. QED
      BY <1>4, <3>1
  <2>. QED
    BY <1>1, <1>2, <2>2, <2>3 DEF SizeTold
<1>14. RanksOk(r)' /\ \A q \in Ranks : q # r => ~Collects(r, q)'
  BY <1>0, <1>1, <1>2, <1>6, <1>8, OwnList
<1>15. \A q \in Ranks : q # r => (Collects(Root(q), q)' <=> Collects(Root(q), q))
  <2>1. \A q \in Ranks : Root(q) # r => (Collects(Root(q), q)' <=> Collects(Root(q), q))
    BY <1>9, <1>12, StepFlags
  <2>2. local_ranks[r] = <<>>
    BY <1>0, <1>3 DEF RanksInv, RanksOk
  <2>3. \A q \in Ranks : ~Collects(r, q)
    BY <2>2 DEF Collects
  <2>4. ASSUME NEW q \in Ranks, q # r, Root(q) = r
        PROVE  Collects(Root(q), q)' <=> Collects(Root(q), q)
    <3>1. Root(q)' = r
      BY <1>11, <2>4
    <3>2. Collects(Root(q), q)' <=> Collects(r, q)'
      BY <3>1 DEF Collects
    <3>. QED
      BY <1>14, <2>3, <2>4, <3>2
  <2>. QED
    BY <2>1, <2>4
<1>16. NetIs'
  <2>1. \A q \in Ranks : q # r =>
          NameKept(q) /\ AnswerKept(q) /\ ReportKept(q) /\ RingKept(q)
    BY <1>9, <1>12, <1>15, StepFlags
  <2>2. \A q \in Ranks : q # r => SizeKept(q)
    <3>1. \A q \in Ranks : q # r /\ Root(q) = q => (SizeTold(q)' <=> SizeTold(q))
      BY <1>12, <1>13
    <3>2. \A q \in Ranks : Root(q) # q => SizeKept(q)
      BY DEF SizeKept
    <3>. QED
      BY <1>9, <1>12, <3>1, <3>2, StepFlags
  <2>3. NameKept(r) /\ AnswerKept(r) /\ ReportKept(r) /\ RingKept(r) /\ SizeKept(r)
    BY <1>2 DEF NameKept, AnswerKept, ReportKept, RingKept, SizeKept
  <2>4. \A p, q \in Ranks : Kept(p, q)
    BY <1>9, <2>1, <2>2, <2>3, StepMessages DEF Kept
  <2>. QED
    BY <1>0, <1>1, <2>4, NetKept
<1>17. PlaceOk(r)'
  BY <1>2, <1>6, <1>11 DEF PlaceOk
<1>18. OrderOk(r)'
  BY <1>2, <1>6, <1>10, <1>11, <1>12 DEF OrderOk
<1>19. TopoOk(r)'
  <2>1. topo[r].intra_root = Root(r)
    BY <1>0, <1>3 DEF TopoInv, TopoOk
  <2>2. LeftRoot(r)' = LeftRoot(r) /\ RightRoot(r)' = RightRoot(r) /\ OnHost(r)' = OnHost(r)
    BY <1>1, HostKept DEF LeftRoot, RightRoot
  <2>. QED
    BY <1>2, <1>7, <1>10, <1>11, <2>1, <2>2 DEF TopoOk
<1>. QED
  BY <1>3, <1>9, <1>12, <1>14, <1>16, <1>17, <1>18, <1>19, StepInv

(* No token on the host of a root that collects.                           *)
LEMMA NoTokenToCollector ==
  ASSUME HostInv, PlaceInv, ListInv, OrderInv, LogInv, TurnInv,
         NEW r \in Ranks, Root(r) = r, at[r] = "collect", NEW p \in Ranks
  PROVE  Third(p, r) = <<>>
<1>1. ~TurnIn(p, r)
  BY TurnInDone
<1>2. Root(p) = r => step[p] = "before"
  BY BeforeTell
<1>3. ~TokenIn(p, r)
  BY <1>2 DEF TokenIn, Follows, PassedOn
<1>. QED
  BY <1>1, <1>3 DEF Third, Opt

(* A root receives from a task of its host, and from no other.             *)
LEMMA CollectStep ==
  ASSUME mpi_size > 1, IInv, UNCHANGED log_vars, NEW r \in Ranks, Collect(r)
  PROVE  IInv'
<1>. DEFINE s == local_ranks[r]
            size == Cardinality(OnHost(r))
<1>0. /\ NetIs /\ HostInv /\ PlaceInv /\ ListInv /\ OrderInv /\ RanksInv /\ TopoInv /\ BcastInv
      /\ LogInv /\ TurnInv
  BY Parts
<1>1. PICK p \in Ranks, m \in Ranks :
        /\ at[r] = "collect" /\ Len(s) < topo[r].intra_size
        /\ net[<<p, r>>] # <<>> /\ m = Head(net[<<p, r>>]) /\ net' = Received(p, r)
        /\ local_ranks' = [local_ranks EXCEPT ![r] = Append(@, m)]
        /\ UNCHANGED <<ops, inside, host, at, n, local_roots, local_sizes, topo, nhosts>>
  BY DEF Collect, Recv, root_vars
<1>2. Root(r) = r /\ 0 \in Ranks /\ Root(0) = 0
  BY <1>0, <1>1, RootFacts DEF PlaceInv, PlaceOk
<1>3. KnowsRoot(r) /\ KnowsSize(r) /\ ~KnowsRing(r) /\ ~Reported(r)
  BY <1>1 DEF KnowsSize, KnowsRing, Reported, KnowsRoot
<1>4. First(p, r) = <<>>
  <2>1. CASE r = 0
    <3>1. Gathered(p)
      BY <1>1, <2>1, AllGathered
    <3>. QED
      BY <2>1, <3>1 DEF First, Opt
  <2>2. CASE r # 0
    BY <1>3, <2>2 DEF First, Opt
  <2>. QED
    BY <2>1, <2>2
<1>5. Third(p, r) = <<>>
  BY <1>0, <1>1, <1>2, NoTokenToCollector
<1>6. Second(p, r) # <<>>
  BY <1>0, <1>1, <1>4, <1>5, HeadOfQueue
<1>7. Root(p) = r /\ p # r /\ Reported(p) /\ ~Collects(r, p) /\ Second(p, r) = <<p>>
  <2>1. Root(p) = r /\ p # r
    BY <1>2, <1>3, <1>6 DEF Second, Opt
  <2>2. Second(p, r) = Opt(Reported(p) /\ ~Collects(r, p), p)
    BY <2>1 DEF Second
  <2>. QED
    BY <1>6, <2>1, <2>2 DEF Opt
<1>8. m = p
  BY <1>0, <1>1, <1>4, <1>7, HeadOfQueue
<1>9. ListOf(r, s) /\ s \in Seq(Ranks) /\ Len(s) \in Nat /\ size \in Nat /\ Len(s) < size
  <2>1. ListOf(r, s)
    BY <1>0, <1>2, <1>3, CollectedList
  <2>2. topo[r].intra_size = size
    BY <1>0, <1>2, <1>3 DEF TopoInv, TopoOk
  <2>3. size \in Nat
    BY HostSize
  <2>4. s \in Seq(Ranks) /\ Len(s) \in Nat
    BY <2>1, <2>3 DEF ListOf
  <2>5. Len(s) < size
    BY <1>1, <2>2
  <2>. QED
    BY <2>1, <2>3, <2>4, <2>5
<1>10. /\ local_ranks' \in [Ranks -> Seq(Ranks)] /\ local_ranks'[r] = Append(s, p)
       /\ \A q \in Ranks : q # r => local_ranks'[q] = local_ranks[q]
  <2>1. Append(s, p) \in Seq(Ranks)
    BY <1>9, AppendProperties
  <2>. QED
    BY <1>0, <1>1, <1>8, <2>1 DEF RanksInv
<1>11. /\ Len(Append(s, p)) = Len(s) + 1 /\ Append(s, p)[Len(s) + 1] = p
       /\ \A i \in 1 .. Len(s) : Append(s, p)[i] = s[i]
  BY <1>9, AppendProperties
<1>12. \A q \in Ranks : Collects(r, q)' <=> Collects(r, q) \/ q = p
  <2>. DEFINE t == Append(s, p)
  <2>1. 1 .. Len(t) = 1 .. Len(s) \cup {Len(s) + 1}
    BY <1>9, <1>11
  <2>2. \A q \in Ranks : Collects(r, q)' <=> \E j \in 1 .. Len(t) : t[j] = q
    BY <1>10 DEF Collects
  <2>3. \A q \in Ranks : Collects(r, q) <=> \E j \in 1 .. Len(s) : s[j] = q
    BY DEF Collects
  <2>4. /\ \A i \in 1 .. Len(s) : i \in 1 .. Len(t) /\ t[i] = s[i]
        /\ Len(s) + 1 \in 1 .. Len(t) /\ t[Len(s) + 1] = p
    BY <1>11, <2>1
  <2>. HIDE DEF s, t
  <2>. QED
    BY <2>1, <2>2, <2>3, <2>4
<1>13. StepOf(r)
  <2>1. Others(r)
    BY <1>1, <1>10 DEF Others
  <2>. QED
    BY <1>0, <1>1, <1>2, <1>10, <2>1 DEF StepOf, PlaceInv, TopoInv
<1>14. KnowsRoot(r)' /\ KnowsSize(r)' /\ ~KnowsRing(r)' /\ ~Reported(r)' /\ at'[r] = "collect"
  BY <1>1 DEF KnowsSize, KnowsRing, Reported, KnowsRoot
<1>15. \A q \in Ranks : Root(q)' = Root(q) /\ OnHost(q)' = OnHost(q)
  BY <1>1, HostKept
<1>16. \A q \in Ranks : /\ (RingTold(q)' <=> RingTold(q)) /\ (Gathered(q)' <=> Gathered(q))
                        /\ (SizeTold(q)' <=> SizeTold(q))
  <2>1. \A q \in Ranks : Root(q) = r => ~RingTold(q) /\ ~RingTold(q)'
    BY <1>1, <1>15 DEF RingTold
  <2>2. \A q \in Ranks : (Gathered(q)' <=> Gathered(q)) /\ (SizeTold(q)' <=> SizeTold(q))
    BY <1>1 DEF Gathered, NGathered, SizeTold
  <2>. QED
    BY <1>0, <1>13, <2>1, <2>2, OthersFlags DEF StepOf
<1>17. \A q \in Ranks : q # p => (Collects(Root(q), q)' <=> Collects(Root(q), q))
  <2>1. \A q \in Ranks : Root(q) # r => (Collects(Root(q), q)' <=> Collects(Root(q), q))
    BY <1>13, <1>16, StepFlags
  <2>2. ASSUME NEW q \in Ranks, q # p, Root(q) = r
        PROVE  Collects(Root(q), q)' <=> Collects(Root(q), q)
    <3>1. Root(q)' = r
      BY <1>15, <2>2
    <3>2. Collects(Root(q), q)' <=> Collects(r, q)'
      BY <3>1 DEF Collects
    <3>. QED
      BY <1>12, <2>2, <3>2
  <2>. QED
    BY <2>1, <2>2
<1>18. /\ \A q \in Ranks : NameKept(q) /\ AnswerKept(q) /\ RingKept(q) /\ SizeKept(q)
       /\ \A q \in Ranks : q # p => ReportKept(q)
  <2>1. \A q \in Ranks : q # r =>
          NameKept(q) /\ AnswerKept(q) /\ RingKept(q) /\ SizeKept(q) /\ (q # p => ReportKept(q))
    BY <1>13, <1>16, <1>17, StepFlags
  <2>2. NameKept(r) /\ AnswerKept(r)
    BY <1>1, <1>3, <1>14, <1>16 DEF NameKept, AnswerKept
  <2>3. ReportKept(r) /\ RingKept(r)
    BY <1>2 DEF ReportKept, RingKept
  <2>4. SizeKept(r)
    <3>1. SizeOf(r)' = SizeOf(r)
      BY <1>13, <1>16, StepFlags
    <3>. QED
      BY <1>3, <1>14, <1>16, <3>1 DEF SizeKept
  <2>. QED
    BY <2>1, <2>2, <2>3, <2>4
<1>19. NetIs'
  <2>1. \A i, k \in Ranks : i # p \/ k # r => Kept(i, k)
    BY <1>7, <1>13, <1>18, StepMessages DEF Kept
  <2>2. FirstKept(p, r) /\ ThirdKept(p, r)
    BY <1>13, <1>18, StepMessages
  <2>3. Second(p, r)' = <<>>
    <3>1. Root(p)' = r /\ Collects(r, p)'
      BY <1>7, <1>12, <1>15
    <3>. QED
      BY <1>7, <3>1 DEF Second, Opt
  <2>. QED
    BY <1>0, <1>1, <1>4, <1>7, <2>1, <2>2, <2>3, NetReceived
<1>20. PlaceOk(r)'
  BY <1>2, <1>14, <1>15 DEF PlaceOk
<1>21. OrderOk(r)'
  <2>1. OrderOk(r)
    BY <1>0 DEF OrderInv
  <2>. QED
    BY <1>2, <1>3, <1>14, <1>15, <1>16, <2>1 DEF OrderOk
<1>22. RanksOk(r)'
  <2>1. RanksOk(r)
    BY <1>0 DEF RanksInv
  <2>2. \A q \in Ranks : Collects(r, q) => Root(q) = r /\ (q # r => Reported(q))
    BY <1>2, <1>3, <2>1 DEF RanksOk
  <2>3. \A q \in Ranks : Collects(r, q)' => Root(q)' = r /\ (q # r => Reported(q)')
    <3>1. \A q \in Ranks : q # r => (Reported(q)' <=> Reported(q))
      BY <1>0, <1>13, OthersFlags DEF StepOf
    <3>. QED
      BY <1>7, <1>12, <1>15, <2>2, <3>1
  <2>4. Injective(Append(s, p))
    <3>1. Injective(s) /\ \A i \in 1 .. Len(s) : s[i] # p
      BY <1>7, <1>9 DEF ListOf, Collects
    <3>. HIDE DEF s
    <3>. QED
      BY <1>9, <3>1, InjectiveAppend
  <2>5. /\ Len(Append(s, p)) >= 1 /\ Len(Append(s, p)) <= Cardinality(OnHost(r)')
        /\ Append(s, p)[1] = r
    <3>1. s[1] = r /\ Len(s) >= 1
      BY <1>9 DEF ListOf
    <3>2. 1 \in 1 .. Len(s)
      BY <1>9, <3>1
    <3>3. Append(s, p)[1] = r
      BY <1>11, <3>1, <3>2
    <3>4. Len(s) + 1 >= 1 /\ Len(s) + 1 <= size
      <4>. HIDE DEF s, size
      <4>. QED
        BY <1>9
    <3>. QED
      BY <1>11, <1>15, <3>3, <3>4
  <2>. QED
    BY <1>10, <1>14, <1>15, <1>2, <2>3, <2>4, <2>5 DEF RanksOk, Injective
<1>23. TopoOk(r)'
  <2>1. TopoOk(r) /\ topo'[r] = topo[r]
    BY <1>0, <1>1 DEF TopoInv
  <2>. QED
    BY <1>0, <1>1, <1>3, <1>14, <2>1, TopoOkKept
<1>. QED
  BY <1>3, <1>13, <1>16, <1>19, <1>20, <1>21, <1>22, <1>23, StepInv

(* It has as many as there are tasks on its host.                          *)
LEMMA CollectedStep ==
  ASSUME mpi_size > 1, IInv, UNCHANGED log_vars, NEW r \in Ranks, Collected(r)
  PROVE  IInv'
<1>. DEFINE y == "tell"
            s == local_ranks[r]
            size == Cardinality(OnHost(r))
<1>0. /\ NetIs /\ HostInv /\ PlaceInv /\ ListInv /\ OrderInv /\ RanksInv /\ TopoInv /\ BcastInv
      /\ LogInv
  BY Parts
<1>1. /\ at[r] = "collect" /\ Len(s) >= topo[r].intra_size /\ n' = [n EXCEPT ![r] = 2]
      /\ Goto(r, y)
      /\ UNCHANGED <<ops, inside, host, net, local_roots, local_sizes, local_ranks, topo, nhosts>>
  BY DEF Collected, root_vars
<1>2. Root(r) = r /\ 0 \in Ranks
  BY <1>0, <1>1, RootFacts DEF PlaceInv, PlaceOk
<1>3. KnowsRoot(r) /\ KnowsSize(r) /\ ~KnowsRing(r) /\ ~Reported(r)
  BY <1>1 DEF KnowsSize, KnowsRing, Reported, KnowsRoot
<1>4. size \in Nat \ {0} /\ Len(s) = size /\ ListOf(r, s)
  <2>1. ListOf(r, s)
    BY <1>0, <1>2, <1>3, CollectedList
  <2>2. topo[r].intra_size = size
    BY <1>0, <1>2, <1>3 DEF TopoInv, TopoOk
  <2>3. size \in Nat \ {0}
    BY HostSize
  <2>4. Len(s) \in 1 .. size /\ Len(s) >= size
    BY <1>1, <2>1, <2>2 DEF ListOf
  <2>5. Len(s) = size
    <3>. HIDE DEF s, size
    <3>. QED
      BY <2>3, <2>4
  <2>. QED
    BY <2>1, <2>3, <2>5
<1>5. /\ at' \in [Ranks -> Places] /\ at'[r] = y
      /\ \A q \in Ranks : q # r => at'[q] = at[q]
  <2>1. y \in Places
    BY DEF Places
  <2>. HIDE DEF y
  <2>. QED
    BY <1>0, <1>1, <2>1, Moved
<1>6. n' \in [Ranks -> Nat] /\ n'[r] = 2 /\ \A q \in Ranks : q # r => n'[q] = n[q]
  BY <1>0, <1>1 DEF PlaceInv
<1>7. StepOf(r)
  <2>1. Others(r)
    BY <1>1, <1>5, <1>6 DEF Others
  <2>. QED
    BY <1>0, <1>1, <1>5, <1>6, <2>1 DEF StepOf, RanksInv, TopoInv
<1>8. KnowsRoot(r)' /\ KnowsSize(r)' /\ ~KnowsRing(r)' /\ ~Reported(r)'
  BY <1>5 DEF KnowsSize, KnowsRing, Reported, KnowsRoot
<1>9. \A q \in Ranks : Root(q)' = Root(q) /\ OnHost(q)' = OnHost(q)
  BY <1>1, HostKept
<1>10. \A q \in Ranks : (Gathered(q)' <=> Gathered(q)) /\ (SizeTold(q)' <=> SizeTold(q))
  <2>1. CASE r = 0
    BY <1>1, <1>5, <2>1 DEF Gathered, NGathered, SizeTold
  <2>2. CASE r # 0
    BY <1>0, <1>1, <1>7, <2>2, OthersFlags DEF StepOf
  <2>. QED
    BY <2>1, <2>2
<1>11. \A q \in Ranks : q # r => (RingTold(q)' <=> RingTold(q))
  <2>1. ASSUME NEW q \in Ranks, q # r, Root(q) = r
        PROVE  ~RingTold(q) /\ ~RingTold(q)'
    <3>1. ~RingTold(q)
      BY <1>1, <2>1 DEF RingTold
    <3>2. s[1] # q
      BY <1>4, <2>1 DEF ListOf
    <3>3. Root(q)' = r
      BY <1>9, <2>1
    <3>4. n'[r] - 1 = 1
      BY <1>6
    <3>5. \A j \in 1 .. n'[r] - 1 : j = 1
      BY <3>4
    <3>. QED
      BY <1>1, <1>5, <3>1, <3>2, <3>3, <3>5 DEF RingTold
  <2>. QED
    BY <1>0, <1>7, <2>1, OthersFlags DEF StepOf
<1>12. ~RingTold(r)
  BY <1>1, <1>2 DEF RingTold
<1>13. \A q \in Ranks : NameKept(q) /\ AnswerKept(q) /\ ReportKept(q) /\ RingKept(q) /\ SizeKept(q)
  <2>1. \A q \in Ranks : q # r =>
          NameKept(q) /\ AnswerKept(q) /\ ReportKept(q) /\ RingKept(q) /\ SizeKept(q)
    BY <1>1, <1>7, <1>10, <1>11, StepFlags
  <2>2. NameKept(r) /\ AnswerKept(r)
    BY <1>1, <1>3, <1>5, <1>8, <1>10 DEF NameKept, AnswerKept
  <2>3. ReportKept(r) /\ RingKept(r)
    BY <1>2 DEF ReportKept, RingKept
  <2>4. SizeKept(r)
    <3>1. SizeOf(r)' = SizeOf(r)
      BY <1>7, <1>10, StepFlags
    <3>. QED
      BY <1>3, <1>8, <1>10, <3>1 DEF SizeKept
  <2>. QED
    BY <2>1, <2>2, <2>3, <2>4
<1>14. NetIs'
  <2>1. \A i, k \in Ranks : Kept(i, k)
    BY <1>7, <1>13, StepMessages DEF Kept
  <2>. QED
    BY <1>0, <1>1, <2>1, NetKept
<1>15. PlaceOk(r)'
  <2>1. n'[r] \in 2 .. Cardinality(OnHost(r)') + 1
    <3>1. 2 \in 2 .. size + 1
      <4>. HIDE DEF size
      <4>. QED
        BY <1>4
    <3>. QED
      BY <1>6, <1>9, <3>1
  <2>. QED
    BY <1>2, <1>5, <1>9, <2>1 DEF PlaceOk
<1>16. OrderOk(r)'
  <2>1. OrderOk(r)
    BY <1>0 DEF OrderInv
  <2>. QED
    BY <1>1, <1>2, <1>3, <1>5, <1>8, <1>9, <1>10, <2>1 DEF OrderOk
<1>17. RanksOk(r)'
  <2>1. RanksOk(r)
    BY <1>0 DEF RanksInv
  <2>2. /\ Len(s) >= 1 /\ Len(s) <= size /\ s[1] = r
        /\ \A i, j \in 1 .. Len(s) : s[i] = s[j] => i = j
        /\ \A q \in Ranks : Collects(r, q) => Root(q) = r /\ (q # r => Reported(q))
    BY <1>2, <1>3, <2>1 DEF RanksOk
  <2>3. \A q \in Ranks : Collects(r, q)' => Root(q)' = r /\ (q # r => Reported(q)')
    <3>1. \A q \in Ranks : q # r => (Reported(q)' <=> Reported(q))
      BY <1>0, <1>7, OthersFlags DEF StepOf
    <3>2. \A q \in Ranks : Collects(r, q)' <=> Collects(r, q)
      BY <1>1 DEF Collects
    <3>. QED
      BY <1>9, <2>2, <3>1, <3>2
  <2>4. local_ranks'[r] = s /\ Root(r)' = r /\ Cardinality(OnHost(r)') = size
    BY <1>1, <1>2, <1>9
  <2>. HIDE DEF s, size
  <2>. QED
    BY <1>4, <1>8, <2>2, <2>3, <2>4 DEF RanksOk
<1>18. TopoOk(r)'
  <2>1. TopoOk(r) /\ topo'[r] = topo[r]
    BY <1>0, <1>1 DEF TopoInv
  <2>. QED
    BY <1>0, <1>1, <1>3, <1>8, <2>1, TopoOkKept
<1>19. \A q \in Ranks : RingTold(q) => RingTold(q)'
  BY <1>11, <1>12
<1>. QED
  BY <1>3, <1>7, <1>10, <1>14, <1>15, <1>16, <1>17, <1>18, <1>19, StepInv

(* Task 0 tells the next root its size and its neighbours.                 *)
LEMMA TellRootStep ==
  ASSUME mpi_size > 1, IInv, UNCHANGED log_vars, NEW r \in Ranks, TellRoot(r)
  PROVE  IInv'
<1>. DEFINE len == Len(local_roots)
            d(j) == [intra_size |-> local_sizes[j], inter_left |-> local_roots[j - 1],
                     inter_right |-> RightOf(local_roots, j)]
<1>0. /\ NetIs /\ HostInv /\ PlaceInv /\ ListInv /\ OrderInv /\ RanksInv /\ TopoInv /\ BcastInv
      /\ LogInv
  BY Parts
<1>1. /\ at[r] = "roots" /\ n[r] <= len
      /\ net' = Sent(net, r, local_roots[n[r]], d(n[r])) /\ n' = [n EXCEPT ![r] = @ + 1]
      /\ UNCHANGED <<ops, inside, host, at, local_roots, local_sizes, local_ranks, topo, nhosts>>
  BY DEF TellRoot, Send, root_vars
<1>2. r = 0 /\ Root(0) = 0 /\ n[r] \in 2 .. len + 1
  BY <1>0, <1>1, RootFacts DEF PlaceInv, PlaceOk
<1>3. PICK j \in 2 .. len : n[r] = j /\ j \in 1 .. len /\ j \in Nat
  <2>1. len \in Nat
    BY <1>0, RootList
  <2>. HIDE DEF len
  <2>2. n[r] \in 2 .. len /\ n[r] \in 1 .. len /\ n[r] \in Nat
    BY <1>1, <1>2, <2>1
  <2>. QED
    BY <2>2
<1>4. PICK m \in Ranks : m = local_roots[j] /\ Root(m) = m
  BY <1>0, <1>3, RootList
<1>5. m # 0
  <2>1. local_roots[1] = 0 /\ Injective(local_roots) /\ 1 \in 1 .. len
    BY <1>0, RootList
  <2>2. j # 1
    BY <1>3
  <2>. QED
    BY <1>3, <1>4, <2>1, <2>2 DEF Injective
<1>6. d(j) = SizeOf(m)
  <2>1. local_sizes[j] = Cardinality(OnHost(m))
    BY <1>0, <1>1, <1>2, <1>3, <1>4, SizesComplete
  <2>2. /\ LeftRoot(m) = IF j = 1 THEN local_roots[len] ELSE local_roots[j - 1]
        /\ RightRoot(m) = IF len = 1 THEN -1 ELSE RightOf(local_roots, j)
    BY <1>0, <1>3, <1>4, RootNeighbours
  <2>3. j # 1 /\ len # 1
    BY <1>3
  <2>4. LeftRoot(m) = local_roots[j - 1] /\ RightRoot(m) = RightOf(local_roots, j)
    BY <2>2, <2>3
  <2>. QED
    BY <2>1, <2>4 DEF SizeOf
<1>. HIDE DEF d
<1>7. n' \in [Ranks -> Nat] /\ n'[0] = j + 1 /\ \A q \in Ranks : q # 0 => n'[q] = n[q]
  <2>1. j + 1 \in Nat
    BY <1>3
  <2>. QED
    BY <1>0, <1>1, <1>2, <1>3, <2>1 DEF PlaceInv
<1>8. StepOf(r)
  <2>1. Others(r)
    BY <1>1, <1>2, <1>7 DEF Others
  <2>. QED
    BY <1>0, <1>1, <1>7, <2>1 DEF StepOf, PlaceInv, RanksInv, TopoInv
<1>9. \A q \in Ranks : Root(q)' = Root(q) /\ OnHost(q)' = OnHost(q)
  BY <1>1, HostKept
<1>10. ~SizeTold(m) /\ \A q \in Ranks : SizeTold(q)' <=> SizeTold(q) \/ q = m
  <2>1. \A q \in Ranks : SizeTold(q) <=> \E i \in 1 .. j - 1 : local_roots[i] = q
    BY <1>1, <1>2, <1>3 DEF SizeTold
  <2>2. \A q \in Ranks : SizeTold(q)' <=> \E i \in 1 .. j : local_roots[i] = q
    <3>1. n'[0] - 1 = j
      BY <1>3, <1>7
    <3>. QED
      BY <1>1, <1>2, <3>1 DEF SizeTold
  <2>3. 1 .. j = 1 .. j - 1 \cup {j}
    BY <1>3
  <2>4. \A i \in 1 .. j - 1 : local_roots[i] # m
    <3>1. \A i \in 1 .. j - 1 : i \in 1 .. len /\ i # j
      BY <1>3
    <3>. QED
      BY <1>0, <1>3, <1>4, <3>1, RootList DEF Injective
  <2>. QED
    BY <1>4, <2>1, <2>2, <2>3, <2>4
<1>11. \A q \in Ranks : (RingTold(q)' <=> RingTold(q)) /\ (Gathered(q)' <=> Gathered(q))
  <2>1. \A q \in Ranks : Gathered(q)' <=> Gathered(q)
    BY <1>1, <1>2 DEF Gathered, NGathered
  <2>2. \A q \in Ranks : Root(q) = r => ~RingTold(q) /\ ~RingTold(q)'
    BY <1>1, <1>9 DEF RingTold
  <2>. QED
    BY <1>0, <1>8, <2>1, <2>2, OthersFlags DEF StepOf
<1>12. /\ \A q \in Ranks : NameKept(q) /\ AnswerKept(q) /\ ReportKept(q) /\ RingKept(q)
       /\ \A q \in Ranks : q # m => SizeKept(q)
  <2>1. \A q \in Ranks : q # r =>
          /\ NameKept(q) /\ AnswerKept(q) /\ ReportKept(q) /\ RingKept(q)
          /\ q # m => SizeKept(q)
    BY <1>1, <1>8, <1>10, <1>11, StepFlags
  <2>2. NameKept(r) /\ AnswerKept(r) /\ ReportKept(r) /\ RingKept(r) /\ SizeKept(r)
    BY <1>2 DEF NameKept, AnswerKept, ReportKept, RingKept, SizeKept
  <2>. QED
    BY <2>1, <2>2
<1>13. NetIs'
  <2>1. \A p, q \in Ranks : p # 0 \/ q # m => Kept(p, q)
    BY <1>8, <1>12, StepMessages DEF Kept
  <2>2. FirstKept(0, m) /\ ThirdKept(0, m)
    BY <1>2, <1>8, <1>12, StepMessages
  <2>3. Third(0, m) = <<>>
    BY <1>0, <1>1, <1>2, NoToken
  <2>4. ~KnowsSize(m) /\ ~KnowsSize(m)'
    <3>1. ~KnowsSize(m)
      BY <1>0, <1>4, <1>10 DEF OrderInv, OrderOk
    <3>. QED
      BY <1>1, <3>1 DEF KnowsSize
  <2>5. Second(0, m) = <<>>
    BY <1>2, <1>4, <1>5, <1>10 DEF Second, Opt
  <2>6. Second(0, m)' = <<d(j)>>
    <3>1. Root(0)' = 0 /\ Root(m)' = m /\ SizeTold(m)'
      BY <1>2, <1>4, <1>9, <1>10
    <3>2. SizeOf(m)' = d(j)
      BY <1>6, <1>8, <1>11, StepFlags
    <3>. QED
      BY <1>5, <2>4, <3>1, <3>2 DEF Second, Opt
  <2>7. net' = Sent(net, 0, m, d(j))
    BY <1>1, <1>2, <1>3, <1>4
  <2>8. PICK x : x = d(j)
    OBVIOUS
  <2>. QED
    BY <1>0, <1>2, <2>1, <2>2, <2>3, <2>5, <2>6, <2>7, <2>8, NetSent
<1>14. PlaceOk(r)'
  <2>1. n'[0] \in 2 .. Len(local_roots') + 1
    <3>1. j + 1 \in 2 .. len + 1
      BY <1>3
    <3>. QED
      BY <1>1, <1>7, <3>1
  <2>. QED
    BY <1>1, <1>2, <1>9, <2>1 DEF PlaceOk
<1>15. ~KnowsSize(r) /\ ~KnowsSize(r)' /\ ~KnowsRing(r) /\ ~KnowsRing(r)'
  BY <1>1 DEF KnowsSize, KnowsRing
<1>16. OrderOk(r)'
  BY <1>2, <1>9, <1>15 DEF OrderOk
<1>17. RanksOk(r)'
  <2>1. RanksOk(r)
    BY <1>0 DEF RanksInv
  <2>. QED
    BY <1>1, <1>15, <2>1 DEF RanksOk
<1>18. TopoOk(r)'
  <2>1. TopoOk(r) /\ topo'[r] = topo[r]
    BY <1>0, <1>1 DEF TopoInv
  <2>2. KnowsRoot(r)
    BY <1>1 DEF KnowsRoot
  <2>. QED
    BY <1>0, <1>1, <1>15, <2>1, <2>2, TopoOkKept
<1>19. Reported(r) => Reported(r)'
  BY <1>1 DEF Reported
<1>. QED
  BY <1>8, <1>10, <1>11, <1>13, <1>14, <1>16, <1>17, <1>18, <1>19, StepInv

(* The ring as a task of a host is told it, and its place there.           *)
LEMMA RingOfPlace ==
  ASSUME HostInv, ListInv, NEW q \in Ranks, Gathered(Root(q)), Root(q) # q,
         ListOf(Root(q), local_ranks[Root(q)]),
         NEW j \in 1 .. Len(local_ranks[Root(q)]), local_ranks[Root(q)][j] = q
  PROVE  /\ RingOf(q) = [intra_root |-> Root(q), intra_size |-> Cardinality(OnHost(q)),
                         intra_left |-> local_ranks[Root(q)][j - 1],
                         intra_right |-> RightOf(local_ranks[Root(q)], j),
                         inter_left |-> LeftRoot(Root(q)), inter_right |-> RightRoot(Root(q))]
         /\ RingOf(q) \in TopoType
<1>. DEFINE s == local_ranks[Root(q)]
<1>1. /\ s \in Seq(Ranks) /\ Injective(s) /\ s[1] = Root(q) /\ Root(q) \in Ranks
      /\ Root(Root(q)) = Root(q) /\ \A i \in 1 .. Len(s) : s[i] \in Ranks
  BY RootFacts DEF ListOf
<1>2. PlaceIn(s, q) = j
  BY <1>1, PlaceFound
<1>3. RingOf(q) = [intra_root |-> Root(q), intra_size |-> Cardinality(OnHost(q)),
                   intra_left |-> s[j - 1], intra_right |-> RightOf(s, j),
                   inter_left |-> LeftRoot(Root(q)), inter_right |-> RightRoot(Root(q))]
  BY <1>2 DEF RingOf
<1>4. Len(s) \in Nat
  BY <1>1, LenProperties
<1>5. j # 1
  BY <1>1
<1>6. s[j - 1] \in Int /\ RightOf(s, j) \in Int /\ Root(q) \in Int
  <2>. HIDE DEF s
  <2>1. j - 1 \in 1 .. Len(s) /\ (j # Len(s) => j + 1 \in 1 .. Len(s)) /\ 1 \in 1 .. Len(s)
    BY <1>4, <1>5 DEF s
  <2>2. s[j - 1] \in Ranks /\ RightOf(s, j) \in Ranks
    BY <1>1, <2>1 DEF RightOf
  <2>3. Ranks \subseteq Int
    BY DEF Ranks
  <2>4. s[j - 1] \in Int /\ Root(q) \in Int
    BY <1>1, <2>2, <2>3
  <2>5. RightOf(s, j) \in Int
    BY <2>2, <2>3, Zenon
  <2>. QED
    BY <2>4, <2>5
<1>7. LeftRoot(Root(q)) \in Int /\ RightRoot(Root(q)) \in Int
  BY <1>1, RootsTyped
<1>8. Cardinality(OnHost(q)) \in Int
  BY HostSize
<1>9. RingOf(q) \in TopoType
  BY <1>3, <1>6, <1>7, <1>8 DEF TopoType
<1>. QED
  BY <1>3, <1>9

(* A root tells the next task of its host the ring.                        *)
LEMMA TellStep ==
  ASSUME mpi_size > 1, IInv, UNCHANGED log_vars, NEW r \in Ranks, Tell(r)
  PROVE  IInv'
<1>. DEFINE s == local_ranks[r]
            size == Cardinality(OnHost(r))
            d(j) == [topo[r] EXCEPT !.intra_root = r, !.intra_left = s[j - 1],
                                    !.intra_right = RightOf(s, j)]
<1>0. /\ NetIs /\ HostInv /\ PlaceInv /\ ListInv /\ OrderInv /\ RanksInv /\ TopoInv /\ BcastInv
      /\ LogInv
  BY Parts
<1>1. /\ at[r] = "tell" /\ n[r] <= topo[r].intra_size
      /\ net' = Sent(net, r, s[n[r]], d(n[r])) /\ n' = [n EXCEPT ![r] = @ + 1]
      /\ UNCHANGED <<ops, inside, host, at, local_roots, local_sizes, local_ranks, topo, nhosts>>
  BY DEF Tell, Send, root_vars
<1>2. Root(r) = r /\ n[r] \in 2 .. size + 1 /\ 0 \in Ranks
  BY <1>0, <1>1, RootFacts DEF PlaceInv, PlaceOk
<1>3. KnowsRoot(r) /\ KnowsSize(r) /\ ~KnowsRing(r) /\ ~Reported(r)
  BY <1>1 DEF KnowsSize, KnowsRing, Reported, KnowsRoot
<1>4. /\ ListOf(r, s) /\ Len(s) = size /\ size \in Nat \ {0} /\ topo[r].intra_size = size
      /\ topo[r].inter_left = LeftRoot(r) /\ topo[r].inter_right = RightRoot(r)
      /\ \A q \in Ranks : Collects(r, q) /\ q # r => Reported(q)
  <2>1. ListOf(r, s) /\ Len(s) = size
    BY <1>0, <1>1, <1>2, <1>3, CollectedList
  <2>2. /\ topo[r].intra_size = size
        /\ topo[r].inter_left = LeftRoot(r) /\ topo[r].inter_right = RightRoot(r)
    BY <1>0, <1>2, <1>3 DEF TopoInv, TopoOk
  <2>3. \A q \in Ranks : Collects(r, q) /\ q # r => Reported(q)
    BY <1>0, <1>2, <1>3 DEF RanksInv, RanksOk
  <2>. QED
    BY <2>1, <2>2, <2>3, HostSize
<1>5. PICK j \in 2 .. size : n[r] = j /\ j \in 1 .. size /\ j \in Nat
  <2>1. n[r] <= size
    BY <1>1, <1>4
  <2>. HIDE DEF size
  <2>2. n[r] \in 2 .. size /\ n[r] \in 1 .. size /\ n[r] \in Nat
    BY <1>2, <1>4, <2>1
  <2>. QED
    BY <2>2
<1>6. PICK m \in Ranks : m = s[j] /\ Root(m) = r /\ m # r /\ Collects(r, m) /\ Reported(m)
  <2>1. s[j] \in Ranks /\ Root(s[j]) = r /\ j \in 1 .. Len(s)
    BY <1>4, <1>5 DEF ListOf
  <2>2. s[1] = r /\ Injective(s) /\ 1 \in 1 .. Len(s)
    BY <1>4 DEF ListOf
  <2>3. s[j] # r
    BY <1>5, <2>1, <2>2 DEF Injective
  <2>4. \A k \in Ranks : k = s[j] => Collects(r, k)
    BY <2>1 DEF Collects
  <2>. QED
    BY <1>4, <2>1, <2>3, <2>4
<1>7. Gathered(r)
  <2>1. CASE r = 0
    BY <1>1, <2>1, AllGathered
  <2>2. CASE r # 0
    BY <1>0, <1>3, <2>2 DEF OrderInv, OrderOk
  <2>. QED
    BY <2>1, <2>2
<1>8. d(j) = RingOf(m)
  <2>1. RingOf(m) = [intra_root |-> r, intra_size |-> Cardinality(OnHost(m)),
                     intra_left |-> s[j - 1], intra_right |-> RightOf(s, j),
                     inter_left |-> LeftRoot(r), inter_right |-> RightRoot(r)]
    BY <1>0, <1>4, <1>5, <1>6, <1>7, RingOfPlace
  <2>2. Cardinality(OnHost(m)) = size
    BY <1>6, HostSize
  <2>3. topo[r] \in TopoType
    BY <1>0 DEF TopoInv
  <2>4. PICK x, y : x = s[j - 1] /\ y = RightOf(s, j)
    OBVIOUS
  <2>5. PICK t \in TopoType : t = topo[r]
    BY <2>3
  <2>6. t = [intra_root |-> t.intra_root, intra_size |-> size, intra_left |-> t.intra_left,
             intra_right |-> t.intra_right, inter_left |-> LeftRoot(r),
             inter_right |-> RightRoot(r)]
    BY <1>4, <2>5 DEF TopoType
  <2>. DEFINE u == [t EXCEPT !.intra_root = r]
              v == [u EXCEPT !.intra_left = x]
  <2>7. [t EXCEPT !.intra_root = r, !.intra_left = x, !.intra_right = y] =
          [v EXCEPT !.intra_right = y]
    BY DEF TopoType
  <2>. HIDE DEF d, s, size
  <2>8. u = [intra_root |-> r, intra_size |-> size, intra_left |-> t.intra_left,
             intra_right |-> t.intra_right, inter_left |-> LeftRoot(r),
             inter_right |-> RightRoot(r)]
    BY <2>6
  <2>. HIDE DEF u
  <2>9. v = [intra_root |-> r, intra_size |-> size, intra_left |-> x,
             intra_right |-> t.intra_right, inter_left |-> LeftRoot(r),
             inter_right |-> RightRoot(r)]
    BY <2>8
  <2>. HIDE DEF v
  <2>10. [v EXCEPT !.intra_right = y] =
           [intra_root |-> r, intra_size |-> size, intra_left |-> x,
            intra_right |-> y, inter_left |-> LeftRoot(r), inter_right |-> RightRoot(r)]
    BY <2>9
  <2>11. d(j) = [t EXCEPT !.intra_root = r, !.intra_left = x, !.intra_right = y]
    BY <2>4, <2>5 DEF d, s
  <2>. QED
    BY <2>1, <2>2, <2>4, <2>7, <2>10, <2>11 DEF s
<1>. HIDE DEF d
<1>9. n' \in [Ranks -> Nat] /\ n'[r] = j + 1 /\ \A q \in Ranks : q # r => n'[q] = n[q]
  <2>1. j + 1 \in Nat
    BY <1>5
  <2>. QED
    BY <1>0, <1>1, <1>5, <2>1 DEF PlaceInv
<1>10. StepOf(r)
  <2>1. Others(r)
    BY <1>1, <1>9 DEF Others
  <2>. QED
    BY <1>0, <1>1, <1>9, <2>1 DEF StepOf, PlaceInv, RanksInv, TopoInv
<1>11. \A q \in Ranks : Root(q)' = Root(q) /\ OnHost(q)' = OnHost(q)
  BY <1>1, HostKept
<1>12. \A q \in Ranks : (Gathered(q)' <=> Gathered(q)) /\ (SizeTold(q)' <=> SizeTold(q))
  <2>1. CASE r = 0
    BY <1>1, <2>1 DEF Gathered, NGathered, SizeTold
  <2>2. CASE r # 0
    BY <1>0, <1>1, <1>10, <2>2, OthersFlags DEF StepOf
  <2>. QED
    BY <2>1, <2>2
<1>13. ~RingTold(m) /\ \A q \in Ranks : RingTold(q)' <=> RingTold(q) \/ q = m
  <2>1. \A q \in Ranks : Root(q) = r => (RingTold(q) <=> \E i \in 1 .. j - 1 : s[i] = q)
    BY <1>1, <1>5 DEF RingTold
  <2>2. \A q \in Ranks : Root(q) = r => (RingTold(q)' <=> \E i \in 1 .. j : s[i] = q)
    <3>1. n'[r] - 1 = j
      BY <1>5, <1>9
    <3>. QED
      BY <1>1, <1>11, <3>1 DEF RingTold
  <2>3. 1 .. j = 1 .. j - 1 \cup {j}
    BY <1>5
  <2>4. \A i \in 1 .. j - 1 : s[i] # m
    <3>1. \A i \in 1 .. j - 1 : i \in 1 .. Len(s) /\ i # j
      BY <1>4, <1>5
    <3>. QED
      BY <1>4, <1>5, <1>6, <3>1 DEF ListOf, Injective
  <2>5. \A q \in Ranks : Root(q) # r => (RingTold(q)' <=> RingTold(q))
    BY <1>0, <1>10, OthersFlags DEF StepOf
  <2>. HIDE DEF s
  <2>. QED
    BY <1>6, <2>1, <2>2, <2>3, <2>4, <2>5
<1>14. /\ \A q \in Ranks : NameKept(q) /\ AnswerKept(q) /\ ReportKept(q) /\ SizeKept(q)
       /\ \A q \in Ranks : q # m => RingKept(q)
  <2>1. \A q \in Ranks : q # r =>
          /\ NameKept(q) /\ AnswerKept(q) /\ ReportKept(q) /\ SizeKept(q)
          /\ q # m => RingKept(q)
    BY <1>1, <1>10, <1>12, <1>13, StepFlags
  <2>2. NameKept(r) /\ AnswerKept(r)
    BY <1>1, <1>12 DEF NameKept, AnswerKept, KnowsRoot
  <2>3. ReportKept(r) /\ RingKept(r)
    BY <1>2 DEF ReportKept, RingKept
  <2>4. SizeKept(r)
    <3>1. SizeOf(r)' = SizeOf(r)
      BY <1>10, <1>12, StepFlags
    <3>. QED
      BY <1>1, <1>12, <3>1 DEF SizeKept, KnowsSize
  <2>. QED
    BY <2>1, <2>2, <2>3, <2>4
<1>15. NetIs'
  <2>1. \A p, q \in Ranks : p # r \/ q # m => Kept(p, q)
    BY <1>6, <1>10, <1>14, StepMessages DEF Kept
  <2>2. FirstKept(r, m) /\ ThirdKept(r, m)
    BY <1>10, <1>14, StepMessages
  <2>3. Third(r, m) = <<>>
    BY <1>0, <1>1, NoToken
  <2>4. ~KnowsRing(m) /\ ~KnowsRing(m)'
    <3>1. ~KnowsRing(m)
      BY <1>0, <1>6, <1>13 DEF OrderInv, OrderOk
    <3>. QED
      BY <1>1, <3>1 DEF KnowsRing
  <2>5. Second(r, m) = <<>>
    BY <1>2, <1>6, <1>13 DEF Second, Opt
  <2>6. RingOf(m)' = RingOf(m)
    BY <1>0, <1>1, <1>6, DataKept
  <2>7. Second(r, m)' = <<d(j)>>
    <3>1. Root(r)' = r /\ Root(m)' = r /\ RingTold(m)' /\ RingOf(m)' = d(j)
      BY <1>2, <1>6, <1>8, <1>11, <1>13, <2>6
    <3>. QED
      BY <1>6, <2>4, <3>1 DEF Second, Opt
  <2>8. net' = Sent(net, r, m, d(j))
    BY <1>1, <1>5, <1>6
  <2>9. PICK x : x = d(j)
    OBVIOUS
  <2>. QED
    BY <1>0, <2>1, <2>2, <2>3, <2>5, <2>7, <2>8, <2>9, NetSent
<1>16. PlaceOk(r)'
  <2>1. n'[r] \in 2 .. Cardinality(OnHost(r)') + 1
    <3>1. j + 1 \in 2 .. size + 1
      <4>. HIDE DEF size
      <4>. QED
        BY <1>4, <1>5
    <3>. QED
      BY <1>9, <1>11, <3>1
  <2>. QED
    BY <1>1, <1>2, <1>11, <2>1 DEF PlaceOk
<1>17. KnowsRoot(r)' /\ KnowsSize(r)' /\ ~KnowsRing(r)'
  BY <1>1 DEF KnowsSize, KnowsRing, KnowsRoot
<1>18. OrderOk(r)'
  <2>1. OrderOk(r)
    BY <1>0 DEF OrderInv
  <2>. QED
    BY <1>1, <1>2, <1>3, <1>7, <1>11, <1>12, <2>1 DEF OrderOk
<1>19. Reported(r) => Reported(r)'
  BY <1>3
<1>20. RanksOk(r)'
  <2>1. RanksOk(r) /\ at'[r] # "collect" /\ at[r] # "collect"
    BY <1>0, <1>1 DEF RanksInv
  <2>2. \A p \in Ranks : Reported(p) => Reported(p)'
    BY <1>1 DEF Reported
  <2>. QED
    BY <1>0, <1>1, <1>3, <1>17, <2>1, <2>2, RanksOkKept
<1>21. TopoOk(r)'
  <2>1. TopoOk(r) /\ topo'[r] = topo[r]
    BY <1>0, <1>1 DEF TopoInv
  <2>. QED
    BY <1>0, <1>1, <1>3, <1>17, <2>1, TopoOkKept
<1>22. \A q \in Ranks : (SizeTold(q) => SizeTold(q)') /\ (RingTold(q) => RingTold(q)')
  BY <1>12, <1>13
<1>. QED
  BY <1>10, <1>12, <1>15, <1>16, <1>18, <1>19, <1>20, <1>21, <1>22, StepInv

(* It sets its own neighbours, once it has told all.                       *)
LEMMA OwnRingStep ==
  ASSUME mpi_size > 1, IInv, UNCHANGED log_vars, NEW r \in Ranks, OwnRing(r)
  PROVE  IInv'
<1>. DEFINE y == "bcast"
            s == local_ranks[r]
            size == Cardinality(OnHost(r))
<1>0. /\ NetIs /\ HostInv /\ PlaceInv /\ ListInv /\ OrderInv /\ RanksInv /\ TopoInv /\ BcastInv
      /\ LogInv
  BY Parts
<1>1. PICK right \in IF topo[r].intra_size > 1 THEN {s[2]} ELSE {-1, 0} :
        /\ at[r] = "tell" /\ n[r] > topo[r].intra_size /\ Goto(r, y)
        /\ topo' = [topo EXCEPT ![r].intra_left = s[topo[r].intra_size],
                                ![r].intra_right = right]
        /\ UNCHANGED <<ops, inside, host, n, local_roots, local_sizes, net, local_ranks, nhosts>>
  BY DEF OwnRing, root_vars
<1>2. Root(r) = r /\ n[r] \in 2 .. size + 1 /\ 0 \in Ranks
  BY <1>0, <1>1, RootFacts DEF PlaceInv, PlaceOk
<1>3. KnowsRoot(r) /\ KnowsSize(r) /\ ~KnowsRing(r) /\ ~Reported(r)
  BY <1>1 DEF KnowsSize, KnowsRing, Reported, KnowsRoot
<1>4. /\ ListOf(r, s) /\ Len(s) = size /\ size \in Nat \ {0} /\ topo[r].intra_size = size
      /\ \A q \in Ranks : Collects(r, q) /\ q # r => Reported(q)
  <2>1. ListOf(r, s) /\ Len(s) = size
    BY <1>0, <1>1, <1>2, <1>3, CollectedList
  <2>2. topo[r].intra_size = size
    BY <1>0, <1>2, <1>3 DEF TopoInv, TopoOk
  <2>3. \A q \in Ranks : Collects(r, q) /\ q # r => Reported(q)
    BY <1>0, <1>2, <1>3 DEF RanksInv, RanksOk
  <2>. QED
    BY <2>1, <2>2, <2>3, HostSize
<1>5. n[r] - 1 = size
  <2>1. n[r] > size
    BY <1>1, <1>4
  <2>. HIDE DEF size
  <2>. QED
    BY <1>2, <1>4, <2>1
<1>6. /\ s[size] \in Int /\ (size > 1 => right = s[2]) /\ right \in Int
  <2>1. \A i \in 1 .. size : s[i] \in Int
    BY <1>4 DEF ListOf, Ranks
  <2>2. size > 1 => right = s[2]
    BY <1>1, <1>4
  <2>3. ~(size > 1) => right \in {-1, 0}
    BY <1>1, <1>4
  <2>. HIDE DEF s, size
  <2>4. s[size] \in Int
    BY <1>4, <2>1
  <2>5. size > 1 => s[2] \in Int
    BY <1>4, <2>1
  <2>6. -1 \in Int /\ 0 \in Int
    OBVIOUS
  <2>. QED
    BY <2>2, <2>3, <2>4, <2>5, <2>6, Zenon
<1>7. /\ at' \in [Ranks -> Places] /\ at'[r] = y
      /\ \A q \in Ranks : q # r => at'[q] = at[q]
  <2>1. y \in Places
    BY DEF Places
  <2>. HIDE DEF y
  <2>. QED
    BY <1>0, <1>1, <2>1, Moved
<1>8. /\ topo' \in [Ranks -> TopoType] /\ topo'[r].intra_root = topo[r].intra_root
      /\ topo'[r].intra_size = topo[r].intra_size
      /\ topo'[r].inter_left = topo[r].inter_left /\ topo'[r].inter_right = topo[r].inter_right
      /\ topo'[r].intra_left = s[size] /\ topo'[r].intra_right = right
      /\ \A q \in Ranks : q # r => topo'[q] = topo[q]
  <2>1. topo' = [topo EXCEPT ![r].intra_left = s[size], ![r].intra_right = right]
    BY <1>1, <1>4
  <2>2. PICK x \in Int : x = s[size]
    BY <1>6
  <2>. HIDE DEF s, size
  <2>. QED
    BY <1>0, <1>6, <2>1, <2>2 DEF TopoInv, TopoType
<1>9. StepOf(r)
  <2>1. Others(r)
    BY <1>1, <1>7 DEF Others
  <2>. QED
    BY <1>0, <1>1, <1>7, <1>8, <2>1 DEF StepOf, PlaceInv, RanksInv
<1>10. KnowsRoot(r)' /\ KnowsSize(r)' /\ KnowsRing(r)' /\ Reported(r)'
  BY <1>7 DEF KnowsSize, KnowsRing, Reported, KnowsRoot
<1>11. \A q \in Ranks : Root(q)' = Root(q) /\ OnHost(q)' = OnHost(q)
  BY <1>1, HostKept
<1>12. \A q \in Ranks : (Gathered(q)' <=> Gathered(q)) /\ (SizeTold(q)' <=> SizeTold(q))
  <2>1. CASE r = 0
    BY <1>1, <1>7, <2>1 DEF Gathered, NGathered, SizeTold
  <2>2. CASE r # 0
    BY <1>0, <1>1, <1>9, <2>2, OthersFlags DEF StepOf
  <2>. QED
    BY <2>1, <2>2
<1>13. \A q \in Ranks : RingTold(q)' <=> RingTold(q)
  <2>1. ASSUME NEW q \in Ranks, Root(q) = r
        PROVE  RingTold(q) /\ RingTold(q)'
    <3>1. \E i \in 1 .. n[r] - 1 : s[i] = q
      BY <1>0, <1>4, <1>5, <2>1, ListComplete
    <3>2. RingTold(q)
      BY <1>1, <2>1, <3>1 DEF RingTold
    <3>3. Root(q)' = r
      BY <1>11, <2>1
    <3>. QED
      BY <1>7, <3>2, <3>3 DEF RingTold
  <2>. QED
    BY <1>0, <1>9, <2>1, OthersFlags DEF StepOf
<1>14. \A q \in Ranks : NameKept(q) /\ AnswerKept(q) /\ ReportKept(q) /\ RingKept(q) /\ SizeKept(q)
  <2>1. \A q \in Ranks : q # r =>
          NameKept(q) /\ AnswerKept(q) /\ ReportKept(q) /\ RingKept(q) /\ SizeKept(q)
    BY <1>1, <1>9, <1>12, <1>13, StepFlags
  <2>2. NameKept(r) /\ AnswerKept(r)
    BY <1>1, <1>3, <1>7, <1>10, <1>12 DEF NameKept, AnswerKept
  <2>3. ReportKept(r) /\ RingKept(r)
    BY <1>2 DEF ReportKept, RingKept
  <2>4. SizeKept(r)
    <3>1. SizeOf(r)' = SizeOf(r)
      BY <1>9, <1>12, StepFlags
    <3>. QED
      BY <1>3, <1>10, <1>12, <3>1 DEF SizeKept
  <2>. QED
    BY <2>1, <2>2, <2>3, <2>4
<1>15. NetIs'
  <2>1. \A i, k \in Ranks : Kept(i, k)
    BY <1>9, <1>14, StepMessages DEF Kept
  <2>. QED
    BY <1>0, <1>1, <2>1, NetKept
<1>16. PlaceOk(r)'
  BY <1>7 DEF PlaceOk
<1>17. OrderOk(r)'
  <2>1. OrderOk(r)
    BY <1>0 DEF OrderInv
  <2>. QED
    BY <1>1, <1>2, <1>3, <1>7, <1>10, <1>11, <1>12, <2>1 DEF OrderOk
<1>18. RanksOk(r)'
  <2>1. RanksOk(r) /\ at'[r] # "collect" /\ at[r] # "collect"
    BY <1>0, <1>1, <1>7 DEF RanksInv
  <2>2. \A p \in Ranks : Reported(p) => Reported(p)'
    <3>1. \A q \in Ranks : q # r => (Reported(q)' <=> Reported(q))
      BY <1>0, <1>9, OthersFlags DEF StepOf
    <3>. QED
      BY <1>3, <3>1
  <2>. QED
    BY <1>0, <1>1, <1>3, <1>10, <2>1, <2>2, RanksOkKept
<1>19. TopoOk(r)'
  <2>1. TopoOk(r)
    BY <1>0 DEF TopoInv
  <2>2. /\ topo[r].intra_root = r /\ topo[r].intra_size = size
        /\ topo[r].inter_left = LeftRoot(r) /\ topo[r].inter_right = RightRoot(r)
    BY <1>2, <1>3, <2>1 DEF TopoOk
  <2>3. LeftRoot(r)' = LeftRoot(r) /\ RightRoot(r)' = RightRoot(r)
    BY <1>1 DEF LeftRoot, RightRoot
  <2>4. Root(r)' = r /\ Cardinality(OnHost(r)') = size /\ local_ranks'[r] = s
    BY <1>1, <1>2, <1>11
  <2>. HIDE DEF s, size
  <2>. QED
    BY <1>6, <1>8, <2>2, <2>3, <2>4 DEF TopoOk
<1>. QED
  BY <1>3, <1>9, <1>12, <1>13, <1>15, <1>16, <1>17, <1>18, <1>19, StepInv

(* What is in transit to a task that waits to be told the ring of its      *)
(* host.                                                                   *)
LEMMA ToldFacts ==
  ASSUME IInv, NEW r \in Ranks, at[r] = "told", net[<<Root(r), r>>] # <<>>
  PROVE  /\ RingTold(r) /\ RingOf(r) \in TopoType
         /\ First(Root(r), r) = <<>> /\ Second(Root(r), r) = <<RingOf(r)>>
         /\ Head(net[<<Root(r), r>>]) = RingOf(r)
<1>0. /\ NetIs /\ HostInv /\ PlaceInv /\ ListInv /\ OrderInv /\ RanksInv /\ TopoInv /\ BcastInv
      /\ LogInv /\ TurnInv
  BY Parts
<1>1. PICK m \in Ranks : m = Root(r) /\ Root(m) = m /\ m # r /\ r # 0
  BY <1>0, RootFacts DEF PlaceInv, PlaceOk
<1>2. KnowsRoot(r) /\ ~KnowsRing(r)
  BY DEF KnowsRoot, KnowsRing
<1>3. First(m, r) = <<>>
  BY <1>1, <1>2 DEF First, Opt
<1>4. Second(m, r) = Opt(RingTold(r) /\ ~KnowsRing(r), RingOf(r))
  BY <1>1 DEF Second
<1>5. ASSUME ~RingTold(r)
      PROVE  FALSE
  <2>1. at[m] # "done"
    BY <1>1, <1>5 DEF RingTold
  <2>2. Third(m, r) = <<>>
    BY <1>0, <2>1, NoToken
  <2>. QED
    BY <1>0, <1>1, <1>3, <1>4, <1>5, <2>2, HeadOfQueue DEF Opt
<1>6. Second(m, r) = <<RingOf(r)>>
  BY <1>2, <1>4, <1>5 DEF Opt
<1>7. Head(net[<<m, r>>]) = RingOf(r)
  BY <1>0, <1>3, <1>6, HeadOfQueue
<1>8. KnowsSize(m) /\ at[m] # "collect"
  BY <1>1, <1>5 DEF RingTold, KnowsSize
<1>9. Gathered(m)
  <2>1. CASE m = 0
    BY <1>8, <2>1, AllGathered DEF KnowsSize
  <2>2. CASE m # 0
    BY <1>0, <1>8, <2>2 DEF OrderInv, OrderOk, KnowsSize, KnowsRoot
  <2>. QED
    BY <2>1, <2>2
<1>10. ListOf(m, local_ranks[m]) /\ Len(local_ranks[m]) = Cardinality(OnHost(m))
  BY <1>0, <1>1, <1>8, CollectedList
<1>11. PICK j \in 1 .. Len(local_ranks[m]) : local_ranks[m][j] = r
  BY <1>0, <1>1, <1>10, ListComplete
<1>12. RingOf(r) \in TopoType
  BY <1>0, <1>1, <1>9, <1>10, <1>11, RingOfPlace
<1>. QED
  BY <1>1, <1>3, <1>5, <1>6, <1>7, <1>12

(* A task receives the ring from its root.                                 *)
LEMMA ToldStep ==
  ASSUME mpi_size > 1, IInv, UNCHANGED log_vars, NEW r \in Ranks, Told(r)
  PROVE  IInv'
<1>. DEFINE y == "bcast"
<1>0. /\ NetIs /\ HostInv /\ PlaceInv /\ ListInv /\ OrderInv /\ RanksInv /\ TopoInv /\ BcastInv
      /\ LogInv
  BY Parts
<1>1. /\ at[r] = "told" /\ net[<<topo[r].intra_root, r>>] # <<>> /\ Goto(r, y)
      /\ topo' = [topo EXCEPT ![r] = Head(net[<<topo[r].intra_root, r>>])]
      /\ net' = Received(topo[r].intra_root, r)
      /\ UNCHANGED <<ops, inside, host, n, local_roots, local_sizes, local_ranks, nhosts>>
  BY DEF Told, root_vars
<1>2. PICK m \in Ranks : m = Root(r) /\ Root(m) = m /\ m # r /\ r # 0 /\ 0 \in Ranks
  BY <1>0, <1>1, RootFacts DEF PlaceInv, PlaceOk
<1>3. KnowsRoot(r) /\ ~KnowsSize(r) /\ ~KnowsRing(r) /\ Reported(r)
  BY <1>1 DEF KnowsSize, KnowsRing, Reported, KnowsRoot
<1>4. topo[r].intra_root = m
  BY <1>0, <1>2, <1>3 DEF TopoInv, TopoOk
<1>5. /\ RingTold(r) /\ RingOf(r) \in TopoType
      /\ First(m, r) = <<>> /\ Second(m, r) = <<RingOf(r)>> /\ Head(net[<<m, r>>]) = RingOf(r)
  BY <1>1, <1>2, <1>4, ToldFacts
<1>6. /\ at' \in [Ranks -> Places] /\ at'[r] = y
      /\ \A q \in Ranks : q # r => at'[q] = at[q]
  <2>1. y \in Places
    BY DEF Places
  <2>. HIDE DEF y
  <2>. QED
    BY <1>0, <1>1, <2>1, Moved
<1>7. /\ topo' \in [Ranks -> TopoType] /\ topo'[r] = RingOf(r)
      /\ \A q \in Ranks : q # r => topo'[q] = topo[q]
  BY <1>0, <1>1, <1>4, <1>5 DEF TopoInv
<1>8. StepOf(r)
  <2>1. Others(r)
    BY <1>1, <1>6 DEF Others
  <2>. QED
    BY <1>0, <1>1, <1>6, <1>7, <2>1 DEF StepOf, PlaceInv, RanksInv
<1>9. KnowsRoot(r)' /\ KnowsSize(r)' /\ KnowsRing(r)' /\ Reported(r)'
  BY <1>6 DEF KnowsSize, KnowsRing, Reported, KnowsRoot
<1>10. \A q \in Ranks : Root(q)' = Root(q)
  BY <1>1, HostKept
<1>11. \A q \in Ranks : /\ (RingTold(q)' <=> RingTold(q)) /\ (Gathered(q)' <=> Gathered(q))
                        /\ (SizeTold(q)' <=> SizeTold(q))
  <2>1. \A q \in Ranks : Root(q) # r
    BY <1>2, RootFacts
  <2>. QED
    BY <1>0, <1>1, <1>2, <1>8, <2>1, OthersFlags DEF StepOf
<1>12. /\ \A q \in Ranks : NameKept(q) /\ AnswerKept(q) /\ ReportKept(q) /\ SizeKept(q)
       /\ \A q \in Ranks : q # r => RingKept(q)
  <2>1. \A q \in Ranks : q # r =>
          NameKept(q) /\ AnswerKept(q) /\ ReportKept(q) /\ RingKept(q) /\ SizeKept(q)
    BY <1>1, <1>8, <1>11, StepFlags
  <2>2. NameKept(r) /\ AnswerKept(r)
    BY <1>1, <1>3, <1>6, <1>9, <1>11 DEF NameKept, AnswerKept
  <2>3. ReportKept(r)
    <3>1. Collects(Root(r), r)' <=> Collects(Root(r), r)
      BY <1>1, <1>8, <1>11, StepFlags
    <3>. QED
      BY <1>3, <1>9, <3>1 DEF ReportKept
  <2>4. SizeKept(r)
    BY <1>2 DEF SizeKept
  <2>. QED
    BY <2>1, <2>2, <2>3, <2>4
<1>13. RingOf(r)' = RingOf(r)
  BY <1>0, <1>1, DataKept
<1>14. NetIs'
  <2>1. \A p, q \in Ranks : p # m \/ q # r => Kept(p, q)
    <3>1. \A p, q \in Ranks : p # m \/ q # r => (p = Root(q) => q # r)
      BY <1>2
    <3>. QED
      BY <1>8, <1>12, <3>1, StepMessages DEF Kept
  <2>2. FirstKept(m, r) /\ ThirdKept(m, r)
    BY <1>2, <1>8, <1>12, StepMessages
  <2>3. Second(m, r)' = <<>>
    <3>1. Root(m)' = m /\ Root(r)' = m
      BY <1>2, <1>10
    <3>. QED
      BY <1>2, <1>9, <3>1 DEF Second, Opt
  <2>4. net' = Received(m, r)
    BY <1>1, <1>4
  <2>5. PICK x : x = RingOf(r)
    OBVIOUS
  <2>. QED
    BY <1>0, <1>2, <1>5, <2>1, <2>2, <2>3, <2>4, <2>5, NetReceived
<1>15. PlaceOk(r)'
  BY <1>6 DEF PlaceOk
<1>16. OrderOk(r)'
  <2>1. OrderOk(r)
    BY <1>0 DEF OrderInv
  <2>. QED
    BY <1>1, <1>2, <1>3, <1>5, <1>6, <1>9, <1>10, <1>11, <2>1 DEF OrderOk
<1>17. RanksOk(r)'
  <2>1. RanksOk(r)
    BY <1>0 DEF RanksInv
  <2>2. Root(r)' # r
    BY <1>2, <1>10
  <2>. QED
    BY <1>1, <1>2, <2>1, <2>2 DEF RanksOk
<1>18. TopoOk(r)'
  <2>1. RingOf(r).intra_root = m
    BY <1>2 DEF RingOf
  <2>2. Root(r)' = m
    BY <1>2, <1>10
  <2>. QED
    BY <1>2, <1>7, <1>13, <2>1, <2>2 DEF TopoOk
<1>. QED
  BY <1>8, <1>9, <1>11, <1>14, <1>15, <1>16, <1>17, <1>18, StepInv

(* What is known before the broadcast is known after it.                   *)
LEMMA BcastStep ==
  ASSUME IInv, UNCHANGED <<log_vars, host, net, n, local_roots, local_sizes, local_ranks, topo>>,
         NEW r \in Ranks, at[r] = "bcast", at' \in [Ranks -> Places], at'[r] \in {"bcast", "done"},
         \A q \in Ranks : q # r => at'[q] = at[q], BcastInv'
  PROVE  IInv'
<1>0. /\ NetIs /\ HostInv /\ PlaceInv /\ ListInv /\ OrderInv /\ RanksInv /\ TopoInv /\ BcastInv
      /\ LogPart
  BY Parts
<1>1. \A q \in Ranks : Root(q)' = Root(q) /\ OnHost(q)' = OnHost(q)
  BY HostKept
<1>2. \A q \in Ranks :
        /\ (KnowsRoot(q)' <=> KnowsRoot(q)) /\ (KnowsSize(q)' <=> KnowsSize(q))
        /\ (KnowsRing(q)' <=> KnowsRing(q)) /\ (Reported(q)' <=> Reported(q))
        /\ \A p \in Ranks : Collects(q, p)' <=> Collects(q, p)
  BY DEF KnowsRoot, KnowsSize, KnowsRing, Reported, Collects
<1>3. 0 \in Ranks /\ \A q \in Ranks : Root(q) \in Ranks
  BY RootFacts
<1>4. \A q \in Ranks : (Gathered(q)' <=> Gathered(q)) /\ (SizeTold(q)' <=> SizeTold(q))
  BY <1>3 DEF Gathered, NGathered, SizeTold
<1>5. \A q \in Ranks : RingTold(q)' <=> RingTold(q)
  <2>1. SUFFICES ASSUME NEW q \in Ranks
                 PROVE  RingTold(q)' <=> RingTold(q)
    OBVIOUS
  <2>2. PICK m \in Ranks : m = Root(q)
    BY <1>3
  <2>3. Root(q)' = m
    BY <1>1, <2>2
  <2>. QED
    BY <2>2, <2>3 DEF RingTold
<1>6. \A q \in Ranks : SizeOf(q)' = SizeOf(q) /\ RingOf(q)' = RingOf(q)
  BY <1>0, DataKept
<1>7. RingsKept
  BY DEF RingsKept
<1>8. NetIs'
  <2>1. \A p, q \in Ranks : ThirdKept(p, q)
    BY <1>0, <1>7, ThirdKeptBefore
  <2>2. \A q \in Ranks : NameKept(q) /\ AnswerKept(q)
    BY <1>2, <1>4 DEF NameKept, AnswerKept
  <2>3. \A q \in Ranks : RingKept(q) /\ SizeKept(q)
    BY <1>2, <1>4, <1>5, <1>6 DEF RingKept, SizeKept
  <2>4. \A q \in Ranks : ReportKept(q)
    <3>1. \A q \in Ranks : Collects(Root(q), q)' <=> Collects(Root(q), q)
      BY <1>1 DEF Collects
    <3>. QED
      BY <1>2, <3>1 DEF ReportKept
  <2>5. \A p, q \in Ranks : FirstKept(p, q) /\ SecondKept(p, q)
    BY <1>0, <2>2, <2>3, <2>4, FirstSame, SecondSame
  <2>. QED
    BY <1>0, <2>1, <2>5, NetKept DEF Kept
<1>9. HostInv'
  BY <1>0 DEF HostInv
<1>10. PlaceInv'
  BY <1>0, <1>1 DEF PlaceInv, PlaceOk
<1>11. ListInv'
  BY <1>0, <1>4, ListSame
<1>12. OrderInv'
  <2>1. SUFFICES ASSUME NEW q \in Ranks
                 PROVE  OrderOk(q)'
    BY DEF OrderInv
  <2>2. at'[q] = "enter" <=> at[q] = "enter"
    OBVIOUS
  <2>. QED
    BY <1>0, <1>1, <1>2, <1>4, <1>5, <2>2 DEF OrderInv, OrderOk
<1>13. RanksInv'
  <2>1. SUFFICES ASSUME NEW q \in Ranks
                 PROVE  RanksOk(q)'
    BY <1>0 DEF RanksInv
  <2>2. RanksOk(q) /\ (at'[q] # "collect" => at[q] # "collect")
    BY <1>0 DEF RanksInv
  <2>. QED
    BY <1>0, <1>2, <2>2, RanksOkKept
<1>14. TopoInv'
  <2>1. SUFFICES ASSUME NEW q \in Ranks
                 PROVE  TopoOk(q)'
    BY <1>0 DEF TopoInv
  <2>2. TopoOk(q)
    BY <1>0 DEF TopoInv
  <2>. QED
    BY <1>0, <1>2, <2>2, TopoOkKept
<1>15. LogPart'
  <2>1. \A q \in Ranks : at[q] = "done" => at'[q] = "done"
    OBVIOUS
  <2>. QED
    BY <1>0, <1>7, <1>13, <2>1, LogPartKept
<1>. QED
  BY <1>8, <1>9, <1>10, <1>11, <1>12, <1>13, <1>14, <1>15 DEF IInv, TopoPart

(* A task calls the broadcast of the number of hosts.                      *)
LEMMA CallBcastStep ==
  ASSUME mpi_size > 1, IInv, UNCHANGED log_vars, NEW r \in Ranks, CallBcast(r)
  PROVE  IInv'
<1>. DEFINE x == IF r = 0 THEN Len(local_roots) ELSE -1
<1>0. PlaceInv /\ ListInv /\ BcastInv
  BY Parts
<1>1. /\ at[r] = "bcast" /\ ~inside[r]
      /\ ops' = [ops EXCEPT ![r] = Append(@, [kind |-> "bcast", data |-> x])]
      /\ inside' = [inside EXCEPT ![r] = TRUE]
      /\ UNCHANGED <<host, at, net, n, local_roots, local_sizes, local_ranks, topo, nhosts>>
  BY DEF CallBcast, CallOp, root_vars
<1>2. x \in Int
  <2>1. Len(local_roots) \in Int /\ -1 \in Int
    BY <1>0, RootList
  <2>. QED
    BY <2>1, Zenon
<1>3. PICK m : m = [kind |-> "bcast", data |-> x]
  OBVIOUS
<1>4. m \in [kind : {"bcast"}, data : Int]
  BY <1>2, <1>3
<1>5. ops[r] = <<>>
  BY <1>0, <1>1 DEF BcastInv, BcastOk, Opt
<1>6. Append(<<>>, m) = <<m>>
  OBVIOUS
<1>7. /\ ops' \in [Ranks -> Seq([kind : {"bcast"}, data : Int])] /\ ops'[r] = <<m>>
      /\ \A q \in Ranks : q # r => ops'[q] = ops[q]
  <2>1. <<m>> \in Seq([kind : {"bcast"}, data : Int])
    BY <1>4
  <2>2. ops' = [ops EXCEPT ![r] = <<m>>]
    BY <1>1, <1>3, <1>5, <1>6
  <2>. QED
    BY <1>0, <2>1, <2>2 DEF BcastInv
<1>8. /\ inside' \in [Ranks -> BOOLEAN] /\ inside'[r]
      /\ \A q \in Ranks : q # r => (inside'[q] <=> inside[q])
  BY <1>0, <1>1 DEF BcastInv
<1>9. ASSUME NEW q \in Ranks
      PROVE  BcastOk(q)'
  <2>1. BcastOk(q) /\ 0 \in Ranks
    BY <1>0, RootFacts DEF BcastInv
  <2>2. inside[0] => inside'[0]
    BY <1>8, <2>1
  <2>3. CASE q = r
    BY <1>1, <1>3, <1>7, <1>8, <2>3 DEF BcastOk, Opt
  <2>4. CASE q # r
    BY <1>1, <1>7, <1>8, <2>1, <2>2, <2>4 DEF BcastOk, Opt
  <2>. QED
    BY <2>3, <2>4
<1>10. BcastInv'
  BY <1>0, <1>1, <1>7, <1>8, <1>9 DEF BcastInv
<1>. QED
  BY <1>0, <1>1, <1>10, BcastStep DEF PlaceInv

(* It returns from it with the number task 0 has called it with.           *)
LEMMA ReturnBcastStep ==
  ASSUME mpi_size > 1, IInv, UNCHANGED log_vars, NEW r \in Ranks, ReturnBcast(r)
  PROVE  IInv'
<1>. DEFINE y == "done"
<1>0. PlaceInv /\ ListInv /\ BcastInv
  BY Parts
<1>1. /\ at[r] = "bcast" /\ inside[r] /\ inside' = [inside EXCEPT ![r] = FALSE] /\ ops' = ops
      /\ nhosts' = [nhosts EXCEPT ![r] = ops[0][Len(ops[r])].data] /\ Goto(r, y)
      /\ UNCHANGED <<host, net, n, local_roots, local_sizes, local_ranks, topo>>
  BY DEF ReturnBcast, ReturnOp, DataOf, Position, root_vars
<1>2. ops[r][Len(ops[r])].kind = "reduce" \/ r = 0 \/ Len(ops[0]) >= Len(ops[r])
  BY RootFacts DEF ReturnBcast, ReturnOp, AllCalled, Called, Position
<1>3. PICK m : m = [kind |-> "bcast", data |-> IF r = 0 THEN Len(local_roots) ELSE -1]
  OBVIOUS
<1>4. ops[r] = <<m>> /\ 0 \in Ranks
  BY <1>0, <1>1, <1>3, RootFacts DEF BcastInv, BcastOk, Opt
<1>5. Len(<<m>>) = 1 /\ <<m>>[1] = m
  OBVIOUS
<1>6. r = 0 \/ Len(ops[0]) >= 1
  <2>1. ops[r][Len(ops[r])].kind = "bcast"
    BY <1>3, <1>4, <1>5
  <2>. QED
    BY <1>2, <1>4, <1>5, <2>1
<1>7. at[0] = "done" \/ inside[0]
  <2>1. CASE r = 0
    BY <1>1, <2>1
  <2>2. CASE r # 0
    <3>1. ops[0] # <<>>
      BY <1>6, <2>2
    <3>. QED
      BY <1>0, <1>4, <3>1 DEF BcastInv, BcastOk, Opt
  <2>. QED
    BY <2>1, <2>2
<1>8. PICK m0 : m0 = [kind |-> "bcast", data |-> Len(local_roots)]
  OBVIOUS
<1>9. ops[0] = <<m0>>
  BY <1>0, <1>4, <1>7, <1>8 DEF BcastInv, BcastOk, Opt
<1>10. ops[0][Len(ops[r])].data = Len(local_roots)
  <2>1. <<m0>>[1] = m0
    OBVIOUS
  <2>. QED
    BY <1>4, <1>5, <1>8, <1>9, <2>1
<1>11. /\ at' \in [Ranks -> Places] /\ at'[r] = y
       /\ \A q \in Ranks : q # r => at'[q] = at[q]
  <2>1. y \in Places
    BY DEF Places
  <2>. HIDE DEF y
  <2>. QED
    BY <1>0, <1>1, <2>1, Moved
<1>12. /\ inside' \in [Ranks -> BOOLEAN] /\ ~inside'[r]
       /\ \A q \in Ranks : q # r => (inside'[q] <=> inside[q])
  BY <1>0, <1>1 DEF BcastInv
<1>13. /\ nhosts' \in [Ranks -> Int] /\ nhosts'[r] = Len(local_roots)
       /\ \A q \in Ranks : q # r => nhosts'[q] = nhosts[q]
  <2>1. Len(local_roots) \in Int
    BY <1>0, RootList
  <2>. QED
    BY <1>0, <1>1, <1>10, <2>1 DEF BcastInv
<1>14. ASSUME NEW q \in Ranks
       PROVE  BcastOk(q)'
  <2>1. BcastOk(q)
    BY <1>0 DEF BcastInv
  <2>2. at'[0] = "done" \/ inside'[0]
    BY <1>4, <1>7, <1>11, <1>12
  <2>3. CASE q = r
    <3>1. ops'[r] = <<m>>
      BY <1>1, <1>4
    <3>. QED
      BY <1>1, <1>3, <1>11, <1>12, <1>13, <2>2, <2>3, <3>1 DEF BcastOk, Opt
  <2>4. CASE q # r
    BY <1>1, <1>11, <1>12, <1>13, <2>1, <2>2, <2>4 DEF BcastOk, Opt
  <2>. QED
    BY <2>3, <2>4
<1>15. BcastInv'
  BY <1>0, <1>1, <1>12, <1>13, <1>14 DEF BcastInv
<1>. QED
  BY <1>1, <1>11, <1>15, BcastStep

(* One more task is gathered. *)
OneMore(i) ==
  /\ host' = host /\ ~Gathered(i)
  /\ \A q \in Ranks : Gathered(q)' <=> Gathered(q) \/ q = i

(* Those gathered of its host are one more, those of the others the same.  *)
LEMMA GatheredMore ==
  ASSUME NEW i \in Ranks, OneMore(i), NEW q \in Ranks
  PROVE  /\ Root(q) # Root(i) => GatheredOn(q)' = GatheredOn(q)
         /\ Root(q) = Root(i) => Cardinality(GatheredOn(q)') = Cardinality(GatheredOn(q)) + 1
         /\ Cardinality(GatheredOn(q)) \in Nat
<1>1. OnHost(q)' = OnHost(q) /\ OnHost(q) = {p \in Ranks : Root(p) = Root(q)}
  BY HostKept, RootFacts DEF OneMore
<1>2. IsFiniteSet(GatheredOn(q)) /\ Cardinality(GatheredOn(q)) \in Nat
  <2>1. GatheredOn(q) \in SUBSET OnHost(q)
    BY DEF GatheredOn
  <2>. QED
    BY <2>1, HostSize, FS_Subset, FS_CardinalityType
<1>3. CASE Root(q) # Root(i)
  BY <1>1, <1>2, <1>3 DEF GatheredOn, OneMore
<1>4. CASE Root(q) = Root(i)
  <2>1. GatheredOn(q)' = GatheredOn(q) \cup {i} /\ i \notin GatheredOn(q)
    BY <1>1, <1>4 DEF GatheredOn, OneMore
  <2>. QED
    BY <1>2, <1>4, <2>1, FS_AddElement
<1>. QED
  BY <1>3, <1>4

(* It is the first of its host ...                                         *)
LEMMA ListNew ==
  ASSUME HostInv, ListInv, NEW i \in Ranks, OneMore(i), \A q \in Ranks : Gathered(q) => q < i,
         Root(i) = i, local_roots' = Append(local_roots, i), local_sizes' = Append(local_sizes, 1)
  PROVE  ListInv'
<1>. DEFINE s == local_roots
            c == local_sizes
<1>1. /\ s \in Seq(Ranks) /\ c \in Seq(Nat) /\ Len(c) = Len(s) /\ Len(s) \in Nat \ {0}
      /\ s[1] = 0 /\ \A k \in 1 .. Len(s) : s[k] \in Ranks
  BY RootList DEF ListInv
<1>2. /\ local_roots' \in Seq(Ranks) /\ Len(local_roots') = Len(s) + 1
      /\ \A k \in 1 .. Len(s) : local_roots'[k] = s[k]
      /\ local_roots'[Len(s) + 1] = i
  BY <1>1, AppendProperties
<1>3. /\ local_sizes' \in Seq(Nat) /\ Len(local_sizes') = Len(s) + 1
      /\ \A k \in 1 .. Len(s) : local_sizes'[k] = c[k]
      /\ local_sizes'[Len(s) + 1] = 1
  BY <1>1, AppendProperties
<1>4. /\ \A k, l \in 1 .. Len(s) : k < l => s[k] < s[l]
      /\ \A q \in Ranks : \A k \in 1 .. Len(s) : s[k] = q =>
           Root(q) = q /\ Gathered(q) /\ c[k] = Cardinality(GatheredOn(q))
      /\ \A q \in Ranks : Gathered(q) => \E k \in 1 .. Len(s) : s[k] = Root(q)
  BY DEF ListInv
<1>5. \A q \in Ranks : Root(q)' = Root(q)
  BY HostKept DEF OneMore
<1>6. \A k \in 1 .. Len(s) : s[k] < i /\ Gathered(s[k]) /\ Root(s[k]) = s[k]
  BY <1>1, <1>4
<1>7. \A k \in 1 .. Len(s) : s[k] # i
  BY <1>6 DEF OneMore
<1>8. Cardinality(GatheredOn(i)') = 1
  <2>1. \A p \in Ranks : Root(p) = i => ~Gathered(p)
    BY <1>4, <1>7
  <2>2. OnHost(i) = {p \in Ranks : Root(p) = i}
    BY RootFacts
  <2>3. GatheredOn(i) = {}
    BY <2>1, <2>2 DEF GatheredOn
  <2>4. Cardinality(GatheredOn(i)) = 0
    BY <2>3, FS_EmptySet
  <2>. QED
    BY <2>4, GatheredMore
<1>. HIDE DEF s, c
<1>9. \A k \in 1 .. Len(s) + 1 : k \in 1 .. Len(s) \/ k = Len(s) + 1
  BY <1>1
<1>10. \A k \in 1 .. Len(s) : k \in 1 .. Len(s) + 1
  BY <1>1
<1>11. \A k, l \in 1 .. Len(s) + 1 : k < l => local_roots'[k] < local_roots'[l]
  <2>1. SUFFICES ASSUME NEW k \in 1 .. Len(s) + 1, NEW l \in 1 .. Len(s) + 1, k < l
                 PROVE  local_roots'[k] < local_roots'[l]
    OBVIOUS
  <2>2. k \in 1 .. Len(s)
    BY <1>1, <2>1
  <2>3. CASE l \in 1 .. Len(s)
    BY <1>2, <1>4, <2>1, <2>2, <2>3
  <2>4. CASE l = Len(s) + 1
    BY <1>2, <1>6, <2>2, <2>4
  <2>. QED
    BY <1>9, <2>3, <2>4
<1>12. ASSUME NEW q \in Ranks, NEW k \in 1 .. Len(s) + 1, local_roots'[k] = q
       PROVE  /\ Root(q)' = q /\ Gathered(q)'
              /\ local_sizes'[k] = Cardinality(GatheredOn(q)')
  <2>1. CASE k \in 1 .. Len(s)
    <3>1. s[k] = q
      BY <1>2, <1>12, <2>1
    <3>2. Root(q) = q /\ Gathered(q) /\ c[k] = Cardinality(GatheredOn(q)) /\ q # i
      BY <1>4, <1>7, <2>1, <3>1
    <3>3. GatheredOn(q)' = GatheredOn(q)
      BY <3>2, GatheredMore
    <3>4. local_sizes'[k] = c[k]
      BY <1>3, <2>1
    <3>. QED
      BY <1>5, <3>2, <3>3, <3>4 DEF OneMore
  <2>2. CASE k = Len(s) + 1
    BY <1>2, <1>3, <1>5, <1>8, <1>12, <2>2 DEF OneMore
  <2>. QED
    BY <1>9, <2>1, <2>2
<1>13. ASSUME NEW q \in Ranks, Gathered(q)'
       PROVE  \E k \in 1 .. Len(s) + 1 : local_roots'[k] = Root(q)'
  <2>1. CASE q = i
    <3>1. Len(s) + 1 \in 1 .. Len(s) + 1
      BY <1>1
    <3>. QED
      BY <1>2, <1>5, <2>1, <3>1
  <2>2. CASE q # i
    BY <1>2, <1>4, <1>5, <1>10, <1>13, <2>2 DEF OneMore
  <2>. QED
    BY <2>1, <2>2
<1>14. Len(s) + 1 >= 1 /\ local_roots'[1] = 0
  <2>1. 1 \in 1 .. Len(s)
    BY <1>1
  <2>. QED
    BY <1>1, <1>2, <2>1
<1>. QED
  BY <1>2, <1>3, <1>11, <1>12, <1>13, <1>14 DEF ListInv

(* ... or that is known.                                                   *)
LEMMA ListCounted ==
  ASSUME HostInv, ListInv, NEW i \in Ranks, OneMore(i),
         NEW j \in 1 .. Len(local_roots), local_roots[j] = Root(i),
         local_roots' = local_roots, local_sizes' = [local_sizes EXCEPT ![j] = @ + 1]
  PROVE  ListInv'
<1>. DEFINE s == local_roots
            c == local_sizes
<1>1. /\ s \in Seq(Ranks) /\ c \in Seq(Nat) /\ Len(c) = Len(s) /\ Len(s) \in Nat \ {0}
      /\ s[1] = 0 /\ Injective(s)
  BY RootList DEF ListInv
<1>2. c \in [1 .. Len(s) -> Nat] /\ c[j] \in Nat
  <2>1. c \in [1 .. Len(c) -> Nat]
    BY <1>1, LenProperties
  <2>. QED
    BY <1>1, <2>1
<1>3. /\ local_sizes' \in Seq(Nat) /\ Len(local_sizes') = Len(s)
      /\ local_sizes'[j] = c[j] + 1 /\ \A k \in 1 .. Len(s) : k # j => local_sizes'[k] = c[k]
  <2>1. c[j] + 1 \in Nat
    BY <1>2
  <2>2. local_sizes' \in Seq(Nat) /\ Len(local_sizes') = Len(c)
    BY <1>1, <2>1, ExceptSeq
  <2>. QED
    BY <1>1, <1>2, <2>2
<1>4. /\ \A k, l \in 1 .. Len(s) : k < l => s[k] < s[l]
      /\ \A q \in Ranks : \A k \in 1 .. Len(s) : s[k] = q =>
           Root(q) = q /\ Gathered(q) /\ c[k] = Cardinality(GatheredOn(q))
      /\ \A q \in Ranks : Gathered(q) => \E k \in 1 .. Len(s) : s[k] = Root(q)
  BY DEF ListInv
<1>5. \A q \in Ranks : Root(q)' = Root(q)
  BY HostKept DEF OneMore
<1>. HIDE DEF s, c
<1>6. local_roots' = s /\ s[j] = Root(i) /\ j \in 1 .. Len(s)
  BY DEF s
<1>7. ASSUME NEW q \in Ranks, NEW k \in 1 .. Len(s), s[k] = q
      PROVE  Root(q)' = q /\ Gathered(q)' /\ local_sizes'[k] = Cardinality(GatheredOn(q)')
  <2>1. Root(q) = q /\ Gathered(q) /\ c[k] = Cardinality(GatheredOn(q))
    BY <1>4, <1>7
  <2>2. CASE k = j
    <3>1. Cardinality(GatheredOn(q)') = Cardinality(GatheredOn(q)) + 1
      BY <1>6, <1>7, <2>1, <2>2, GatheredMore
    <3>. QED
      BY <1>3, <1>5, <2>1, <2>2, <3>1 DEF OneMore
  <2>3. CASE k # j
    <3>1. Root(q) # Root(i)
      BY <1>1, <1>6, <1>7, <2>1, <2>3 DEF Injective
    <3>2. GatheredOn(q)' = GatheredOn(q)
      BY <3>1, GatheredMore
    <3>. QED
      BY <1>3, <1>5, <2>1, <2>3, <3>2 DEF OneMore
  <2>. QED
    BY <2>2, <2>3
<1>8. ASSUME NEW q \in Ranks, Gathered(q)'
      PROVE  \E k \in 1 .. Len(s) : s[k] = Root(q)'
  BY <1>4, <1>5, <1>6, <1>8 DEF OneMore
<1>9. Len(s) >= 1
  BY <1>1
<1>. QED
  BY <1>1, <1>3, <1>4, <1>6, <1>7, <1>8, <1>9 DEF ListInv

(* Where task 0 finds the host of the next task in its list.               *)
LEMMA IndexOfHost ==
  ASSUME HostInv, ListInv, NEW i \in Ranks, \A q \in Ranks : q < i => Gathered(q)
  PROVE  \/ /\ IndexOf(host[i]) \in 1 .. Len(local_roots)
            /\ local_roots[IndexOf(host[i])] = Root(i)
         \/ IndexOf(host[i]) = Len(local_roots) + 1 /\ Root(i) = i
<1>. DEFINE known == {j \in 1 .. Len(local_roots) : host[local_roots[j]] = host[i]}
<1>1. /\ Len(local_roots) \in Nat \ {0}
      /\ \A j \in 1 .. Len(local_roots) :
           local_roots[j] \in Ranks /\ Root(local_roots[j]) = local_roots[j]
  BY RootList
<1>2. \A j \in known : local_roots[j] = Root(i)
  BY <1>1, RootFacts
<1>3. CASE known = {}
  <2>1. IndexOf(host[i]) = Len(local_roots) + 1
    BY <1>3 DEF IndexOf
  <2>2. ASSUME Root(i) # i
        PROVE  FALSE
    <3>1. Root(i) \in Ranks /\ Root(i) < i /\ Root(Root(i)) = Root(i)
      BY <2>2, RootFacts DEF Ranks
    <3>2. PICK j \in 1 .. Len(local_roots) : local_roots[j] = Root(i)
      BY <3>1 DEF ListInv
    <3>3. host[local_roots[j]] = host[i]
      BY <1>1, <3>2, RootFacts
    <3>. QED
      BY <1>3, <3>3
  <2>. QED
    BY <2>1, <2>2
<1>4. CASE known # {}
  <2>1. known \in SUBSET (0 .. Len(local_roots))
    BY <1>1
  <2>2. \E x \in known : \A y \in known : x <= y
    <3>1. PICK k : k = known
      OBVIOUS
    <3>2. k \in SUBSET (0 .. Len(local_roots)) /\ k # {} /\ Len(local_roots) \in Nat
      BY <1>1, <1>4, <2>1, <3>1
    <3>3. \E x \in k : \A y \in k : x <= y
      BY <3>2, LeastNatural
    <3>. QED
      BY <3>1, <3>3
  <2>3. Min(known) \in known
    BY <2>2 DEF Min
  <2>4. IndexOf(host[i]) = Min(known)
    BY <1>4 DEF IndexOf
  <2>. QED
    BY <1>2, <2>3, <2>4
<1>. QED
  BY <1>3, <1>4

(* A task receives a message and answers it. *)
LEMMA NetExchanged ==
  ASSUME NetIs, NEW p \in Ranks, NEW q \in Ranks, NEW x, NEW z, p # q,
         net' = Sent(Received(p, q), q, p, x),
         \A i, k \in Ranks : ~(i = p /\ k = q) /\ ~(i = q /\ k = p) => Kept(i, k),
         First(p, q) = <<z>>, First(p, q)' = <<>>, SecondKept(p, q), ThirdKept(p, q),
         First(q, p) = <<>>, Second(q, p) = <<>>, Third(q, p) = <<>>,
         First(q, p)' = <<x>>, SecondKept(q, p), ThirdKept(q, p)
  PROVE  NetIs'
<1>1. \A i, k \in Ranks : ~(i = p /\ k = q) /\ ~(i = q /\ k = p) => Queue(i, k)' = Queue(i, k)
  BY DEF Kept, FirstKept, SecondKept, ThirdKept, Queue
<1>2. Queue(p, q)' = Tail(Queue(p, q))
  <2>. DEFINE T == Messages(p, q) \cup {z}
              s2 == Second(p, q)
              s3 == Third(p, q)
  <2>1. s2 \in Seq(T) /\ s3 \in Seq(T) /\ z \in T
    BY PieceTypes
  <2>2. Tail(<<z>> \o s2 \o s3) = <<>> \o s2 \o s3
    <3>. HIDE DEF s2, s3, T
    <3>. QED
      BY <2>1, TakePieces
  <2>. QED
    BY <2>2 DEF SecondKept, ThirdKept, Queue
<1>3. Queue(q, p)' = Append(Queue(q, p), x)
  <2>1. x \in {x} /\ <<>> \in Seq({x})
    OBVIOUS
  <2>2. Append(<<>> \o <<>> \o <<>>, x) = <<x>> \o <<>> \o <<>>
    BY <2>1, AppendPieces
  <2>. QED
    BY <2>2 DEF SecondKept, ThirdKept, Queue
<1>4. net \in [Pairs -> {Queue(c[1], c[2]) : c \in Pairs}]
  BY DEF NetIs
<1>5. /\ <<p, q>> \in Pairs /\ net[<<p, q>>] = Queue(p, q)
      /\ <<q, p>> \in Pairs /\ net[<<q, p>>] = Queue(q, p)
  BY DEF NetIs, Pairs
<1>6. net' = [c \in Pairs |-> IF c = <<q, p>> THEN Append(net[<<q, p>>], x)
                             ELSE IF c = <<p, q>> THEN Tail(net[<<p, q>>]) ELSE net[c]]
  BY <1>4, <1>5 DEF Sent, Received
<1>7. ASSUME NEW c \in Pairs
      PROVE  net'[c] = Queue(c[1], c[2])'
  <2>1. PICK i, k \in Ranks : c = <<i, k>>
    BY DEF Pairs
  <2>2. net[c] = Queue(i, k)
    BY <2>1 DEF NetIs
  <2>3. <<p, q>> # <<q, p>>
    OBVIOUS
  <2>. QED
    BY <1>1, <1>2, <1>3, <1>5, <1>6, <2>1, <2>2, <2>3
<1>. QED
  BY <1>6, <1>7 DEF NetIs

(* Before all are gathered, no root knows its size and none reports.       *)
LEMMA GatherFacts ==
  ASSUME IInv, at[0] = "gather"
  PROVE  /\ \A q \in Ranks : ~KnowsSize(q) /\ ~KnowsRing(q) /\ ~RingTold(q) /\ ~SizeTold(q)
         /\ \A p, q \in Ranks : Third(p, q) = <<>>
<1>0. /\ NetIs /\ HostInv /\ PlaceInv /\ ListInv /\ OrderInv /\ RanksInv /\ TopoInv /\ BcastInv
      /\ LogInv
  BY Parts
<1>1. \A q \in Ranks : ~SizeTold(q)
  BY DEF SizeTold
<1>2. \A q \in Ranks : Root(q) = q => ~KnowsSize(q)
  BY <1>0, <1>1 DEF OrderInv, OrderOk
<1>3. \A q \in Ranks : ~RingTold(q)
  BY <1>2, RootFacts DEF RingTold, KnowsSize
<1>4. \A q \in Ranks : ~KnowsRing(q)
  <2>1. \A q \in Ranks : Root(q) # q => ~KnowsRing(q)
    BY <1>0, <1>3 DEF OrderInv, OrderOk
  <2>. QED
    BY <1>2, <2>1 DEF KnowsRing, KnowsSize
<1>5. \A q \in Ranks : ~KnowsSize(q)
  BY <1>0, <1>2, <1>4 DEF KnowsSize, KnowsRing, PlaceInv, PlaceOk
<1>6. \A p, q \in Ranks : Third(p, q) = <<>>
  BY <1>0, <1>4, NoToken DEF KnowsRing
<1>. QED
  BY <1>1, <1>3, <1>4, <1>5, <1>6

(* The task whose turn it is, and what is in transit from it.              *)
LEMMA GatherNext ==
  ASSUME IInv, at[0] = "gather", NEW i \in Ranks, n[0] = i, net[<<i, 0>>] # <<>>
  PROVE  /\ i # 0 /\ Root(0) = 0 /\ 0 \in Ranks
         /\ at[i] # "enter" /\ ~KnowsRoot(i) /\ ~Gathered(i)
         /\ \A q \in Ranks : Gathered(q) <=> q < i
         /\ First(i, 0) = <<host[i]>> /\ Head(net[<<i, 0>>]) = host[i]
         /\ First(0, i) = <<>> /\ Second(0, i) = <<>> /\ Third(0, i) = <<>>
<1>0. NetIs /\ HostInv /\ PlaceInv /\ OrderInv
  BY Parts
<1>1. 0 \in Ranks /\ Root(0) = 0 /\ i # 0
  BY <1>0, RootFacts DEF PlaceInv, PlaceOk
<1>2. \A q \in Ranks : Gathered(q) <=> q < i
  BY DEF Gathered, NGathered
<1>3. ~Gathered(i)
  BY <1>2 DEF Ranks
<1>4. ~KnowsRoot(i)
  BY <1>0, <1>1, <1>3 DEF OrderInv, OrderOk
<1>5. First(0, i) = <<>> /\ Second(0, i) = <<>> /\ Third(0, i) = <<>>
  <2>1. ~RingTold(i) /\ ~SizeTold(i) /\ Third(0, i) = <<>>
    BY <1>1, GatherFacts
  <2>. QED
    BY <1>1, <1>3, <2>1 DEF First, Second, Opt
<1>6. Second(i, 0) = <<>>
  <2>1. ~Reported(i)
    BY <1>4 DEF Reported, KnowsRoot
  <2>. QED
    BY <1>1, <2>1 DEF Second, Opt
<1>7. ASSUME at[i] = "enter"
      PROVE  FALSE
  <2>1. First(i, 0) = <<>>
    BY <1>1, <1>7 DEF First, Opt
  <2>. QED
    BY <1>0, <1>1, <1>6, <2>1, GatherFacts, HeadOfQueue
<1>8. First(i, 0) = <<host[i]>>
  BY <1>1, <1>3, <1>7 DEF First, Opt
<1>9. Head(net[<<i, 0>>]) = host[i]
  <2>1. PICK x : x = host[i]
    OBVIOUS
  <2>. QED
    BY <1>0, <1>1, <1>8, <2>1, HeadOfQueue
<1>. QED
  BY <1>1, <1>2, <1>3, <1>4, <1>5, <1>7, <1>8, <1>9

(* Task 0 receives the name of the next task's host, and answers with the  *)
(* root of it.                                                             *)
LEMMA GatherStep ==
  ASSUME mpi_size > 1, IInv, UNCHANGED log_vars, NEW r \in Ranks, Gather(r)
  PROVE  IInv'
<1>0. /\ NetIs /\ HostInv /\ PlaceInv /\ ListInv /\ OrderInv /\ RanksInv /\ TopoInv /\ BcastInv
      /\ LogInv /\ LogPart
  BY Parts
<1>1. at[r] = "gather" /\ r = 0 /\ 0 \in Ranks
  BY <1>0, RootFacts DEF Gather, PlaceInv, PlaceOk
<1>2. PICK i \in Ranks : n[0] = i /\ i \in Nat /\ i < mpi_size
  BY <1>0, <1>1, SizeAssumption DEF PlaceInv, PlaceOk, Ranks
<1>. DEFINE j == IndexOf(Head(net[<<i, r>>]))
            s == IF j > Len(local_roots) THEN Append(local_roots, i) ELSE local_roots
            last == LastGathered(i)
            y == IF last THEN "roots" ELSE "gather"
            k == IF last THEN 2 ELSE i + 1
<1>3. /\ net[<<i, 0>>] # <<>> /\ local_roots' = s /\ local_sizes' = Counted(j, i)
      /\ net' = Sent(Received(i, 0), 0, i, s[j])
      /\ n' = [n EXCEPT ![0] = k] /\ Goto(0, y)
      /\ UNCHANGED <<ops, inside, host, local_ranks, topo, nhosts>>
  BY <1>1, <1>2 DEF Gather
<1>4. /\ i # 0 /\ Root(0) = 0 /\ at[i] # "enter" /\ ~KnowsRoot(i) /\ ~Gathered(i)
      /\ \A q \in Ranks : Gathered(q) <=> q < i
      /\ First(i, 0) = <<host[i]>> /\ Head(net[<<i, 0>>]) = host[i]
      /\ First(0, i) = <<>> /\ Second(0, i) = <<>> /\ Third(0, i) = <<>>
  BY <1>1, <1>2, <1>3, GatherNext
<1>5. \/ j \in 1 .. Len(local_roots) /\ local_roots[j] = Root(i)
      \/ j = Len(local_roots) + 1 /\ Root(i) = i
  BY <1>0, <1>1, <1>4, IndexOfHost
<1>. HIDE DEF j
<1>6. Len(local_roots) \in Nat \ {0} /\ Len(local_sizes) = Len(local_roots)
  BY <1>0, RootList DEF ListInv
<1>7. s[j] = Root(i)
  <2>1. CASE j \in 1 .. Len(local_roots) /\ local_roots[j] = Root(i)
    BY <1>6, <2>1
  <2>2. CASE j = Len(local_roots) + 1 /\ Root(i) = i
    <3>1. local_roots \in Seq(Ranks)
      BY <1>0 DEF ListInv
    <3>2. Append(local_roots, i)[Len(local_roots) + 1] = i
      BY <3>1, AppendProperties
    <3>. QED
      BY <1>6, <2>2, <3>2
  <2>. QED
    BY <1>5, <2>1, <2>2
<1>8. /\ at' \in [Ranks -> Places] /\ at'[0] = y /\ y \in {"gather", "roots"}
      /\ \A q \in Ranks : q # 0 => at'[q] = at[q]
  <2>1. y \in Places
    BY DEF Places
  <2>2. y \in {"gather", "roots"}
    OBVIOUS
  <2>. HIDE DEF y
  <2>. QED
    BY <1>0, <1>1, <1>3, <2>1, <2>2, Moved
<1>9. n' \in [Ranks -> Nat] /\ n'[0] = k /\ \A q \in Ranks : q # 0 => n'[q] = n[q]
  <2>1. k \in Nat
    BY <1>2
  <2>. QED
    BY <1>0, <1>1, <1>3, <2>1 DEF PlaceInv
<1>10. OneMore(i)
  <2>1. NGathered' = i + 1
    BY <1>2, <1>8, <1>9, SizeAssumption DEF NGathered, LastGathered
  <2>2. \A q \in Ranks : Gathered(q)' <=> q < i + 1
    BY <2>1 DEF Gathered
  <2>3. \A q \in Ranks : q < i + 1 <=> q < i \/ q = i
    BY <1>2 DEF Ranks
  <2>. QED
    BY <1>3, <1>4, <2>2, <2>3 DEF OneMore
<1>11. ListInv'
  <2>1. CASE j \in 1 .. Len(local_roots) /\ local_roots[j] = Root(i)
    <3>1. ~(j > Len(local_roots)) /\ ~(j > Len(local_sizes))
      BY <1>6, <2>1
    <3>2. local_roots' = local_roots /\ local_sizes' = [local_sizes EXCEPT ![j] = @ + 1]
      BY <1>3, <3>1 DEF Counted
    <3>. QED
      BY <1>0, <1>10, <2>1, <3>2, ListCounted
  <2>2. CASE j = Len(local_roots) + 1 /\ Root(i) = i
    <3>1. j > Len(local_roots) /\ j > Len(local_sizes)
      BY <1>6, <2>2
    <3>2. local_roots' = Append(local_roots, i) /\ local_sizes' = Append(local_sizes, 1)
      BY <1>3, <3>1 DEF Counted
    <3>. QED
      BY <1>0, <1>4, <1>10, <2>2, <3>2, ListNew
  <2>. QED
    BY <1>5, <2>1, <2>2
<1>. HIDE DEF s
<1>12. \A q \in Ranks : Root(q)' = Root(q) /\ OnHost(q)' = OnHost(q)
  BY <1>3, HostKept
<1>13. /\ \A q \in Ranks : ~KnowsSize(q) /\ ~KnowsRing(q) /\ ~RingTold(q) /\ ~SizeTold(q)
       /\ \A p, q \in Ranks : Third(p, q) = <<>>
  BY <1>1, GatherFacts
<1>14. \A q \in Ranks :
         /\ (KnowsRoot(q)' <=> KnowsRoot(q)) /\ ~KnowsSize(q)' /\ ~KnowsRing(q)'
         /\ (Reported(q)' <=> Reported(q)) /\ (Collects(Root(q), q)' <=> Collects(Root(q), q))
  <2>1. \A q \in Ranks : q # 0 =>
          /\ (KnowsRoot(q)' <=> KnowsRoot(q)) /\ (KnowsSize(q)' <=> KnowsSize(q))
          /\ (KnowsRing(q)' <=> KnowsRing(q)) /\ (Reported(q)' <=> Reported(q))
    BY <1>8 DEF KnowsRoot, KnowsSize, KnowsRing, Reported
  <2>2. /\ (KnowsRoot(0)' <=> KnowsRoot(0)) /\ ~KnowsSize(0)' /\ ~KnowsRing(0)'
        /\ (Reported(0)' <=> Reported(0))
    BY <1>1, <1>8 DEF KnowsRoot, KnowsSize, KnowsRing, Reported
  <2>3. \A q \in Ranks : Collects(Root(q), q)' <=> Collects(Root(q), q)
    BY <1>3, <1>12 DEF Collects
  <2>. QED
    BY <1>13, <2>1, <2>2, <2>3
<1>15. \A q \in Ranks : ~RingTold(q)' /\ (SizeTold(q)' => q = 0)
  <2>1. \A q \in Ranks : ~RingTold(q)'
    <3>1. SUFFICES ASSUME NEW q \in Ranks
                   PROVE  ~RingTold(q)'
      OBVIOUS
    <3>2. PICK m \in Ranks : m = Root(q)
      BY RootFacts
    <3>3. Root(q)' = m /\ ~KnowsSize(m)'
      BY <1>12, <1>14, <3>2
    <3>. QED
      BY <3>3 DEF RingTold, KnowsSize
  <2>2. ASSUME NEW q \in Ranks, SizeTold(q)'
        PROVE  q = 0
    <3>1. at'[0] = "roots" /\ \E l \in 1 .. n'[0] - 1 : local_roots'[l] = q
      BY <1>8, <2>2 DEF SizeTold
    <3>2. n'[0] = 2
      BY <1>9, <3>1, <1>8
    <3>3. local_roots'[1] = q
      BY <3>1, <3>2
    <3>. QED
      BY <1>11, <3>3 DEF ListInv
  <2>. QED
    BY <2>1, <2>2
<1>16. RingsKept
  <2>1. \A p \in Ranks : step[p] = "before"
    BY <1>0, <1>1, BeforeBcast
  <2>. QED
    BY <1>3, <2>1 DEF RingsKept
<1>17. NetIs'
  <2>1. \A p, q \in Ranks : ThirdKept(p, q)
    BY <1>0, <1>3, <1>16, ThirdKeptBefore
  <2>2. \A q \in Ranks : ReportKept(q) /\ RingKept(q) /\ SizeKept(q)
    BY <1>13, <1>14, <1>15 DEF ReportKept, RingKept, SizeKept
  <2>3. \A q \in Ranks : q # i => NameKept(q) /\ AnswerKept(q)
    BY <1>8, <1>10, <1>14 DEF NameKept, AnswerKept, OneMore
  <2>4. \A p, q \in Ranks : SecondKept(p, q)
    BY <1>0, <1>3, <2>2, SecondSame
  <2>5. \A p, q \in Ranks : ~(p = i /\ q = 0) /\ ~(p = 0 /\ q = i) => FirstKept(p, q)
    BY <1>0, <1>3, <2>3, FirstSame
  <2>6. First(i, 0)' = <<>>
    <3>1. Gathered(i)'
      BY <1>10 DEF OneMore
    <3>. QED
      BY <1>4, <3>1 DEF First, Opt
  <2>7. First(0, i)' = <<Root(i)>>
    <3>1. Gathered(i)' /\ ~KnowsRoot(i)' /\ Root(i)' = Root(i)
      BY <1>4, <1>10, <1>12, <1>14 DEF OneMore
    <3>. QED
      BY <1>4, <3>1 DEF First, Opt
  <2>8. PICK x, z : x = Root(i) /\ z = host[i]
    OBVIOUS
  <2>9. net' = Sent(Received(i, 0), 0, i, x)
    BY <1>3, <1>7, <2>8
  <2>10. \A p, q \in Ranks : ~(p = i /\ q = 0) /\ ~(p = 0 /\ q = i) => Kept(p, q)
    BY <2>1, <2>4, <2>5 DEF Kept
  <2>. QED
    BY <1>0, <1>1, <1>4, <2>1, <2>4, <2>6, <2>7, <2>8, <2>9, <2>10, NetExchanged
<1>18. HostInv'
  BY <1>0, <1>3 DEF HostInv
<1>19. PlaceInv'
  <2>1. ASSUME NEW q \in Ranks, q # 0
        PROVE  PlaceOk(q)'
    <3>1. PlaceOk(q) /\ at'[q] = at[q] /\ n'[q] = n[q]
      BY <1>0, <1>8, <1>9, <2>1 DEF PlaceInv
    <3>. QED
      BY <1>12, <2>1, <3>1 DEF PlaceOk
  <2>2. PlaceOk(0)'
    <3>1. at'[0] = "gather" => n'[0] \in 1 .. mpi_size - 1
      BY <1>2, <1>8, <1>9, SizeAssumption DEF LastGathered
    <3>2. at'[0] = "roots" => n'[0] \in 2 .. Len(local_roots') + 1
      <4>1. PICK len : len = Len(local_roots')
        OBVIOUS
      <4>2. local_roots' \in Seq(Ranks) /\ len >= 1
        BY <1>11, <4>1 DEF ListInv
      <4>3. len \in Nat
        BY <4>1, <4>2, LenProperties
      <4>4. at'[0] = "roots" => n'[0] = 2
        BY <1>8, <1>9
      <4>. QED
        BY <4>1, <4>2, <4>3, <4>4
    <3>. QED
      BY <1>8, <3>1, <3>2 DEF PlaceOk
  <2>. QED
    BY <1>8, <1>9, <2>1, <2>2 DEF PlaceInv
<1>20. OrderInv'
  <2>1. ASSUME NEW q \in Ranks
        PROVE  OrderOk(q)'
    <3>1. OrderOk(q)
      BY <1>0 DEF OrderInv
    <3>. QED
      BY <1>4, <1>8, <1>10, <1>14, <3>1 DEF OrderOk, OneMore
  <2>. QED
    BY <2>1 DEF OrderInv
<1>21. RanksInv'
  <2>1. ASSUME NEW q \in Ranks
        PROVE  RanksOk(q)'
    <3>1. RanksOk(q)
      BY <1>0 DEF RanksInv
    <3>2. at'[q] # "collect" => at[q] # "collect"
      BY <1>13 DEF KnowsSize
    <3>. QED
      BY <1>0, <1>3, <1>13, <1>14, <3>1, <3>2, RanksOkKept
  <2>. QED
    BY <1>0, <1>3, <2>1 DEF RanksInv
<1>22. TopoInv'
  <2>1. ASSUME NEW q \in Ranks
        PROVE  TopoOk(q)'
    <3>1. TopoOk(q)
      BY <1>0 DEF TopoInv
    <3>. QED
      BY <1>0, <1>3, <1>13, <1>14, <3>1, TopoOkKept
  <2>. QED
    BY <1>0, <1>3, <2>1 DEF TopoInv
<1>23. BcastInv'
  BY <1>0, <1>1, <1>3, <1>8, BcastKept
<1>24. LogPart'
  <2>1. \A q \in Ranks : at[q] = "done" => at'[q] = "done"
    BY <1>1, <1>8
  <2>. QED
    BY <1>0, <1>3, <1>16, <1>21, <2>1, LogPartKept
<1>. QED
  BY <1>11, <1>17, <1>18, <1>19, <1>20, <1>21, <1>22, <1>23, <1>24 DEF IInv, TopoPart

-----------------------------------------------------------------------------
(***************************************************************************)
(* What a step of ipm_log leaves as it is.                                 *)
(***************************************************************************)

(* The places of a task in ipm_log.                                        *)
Steps == {"before", "send", "wait", "chain", "cat", "rm", "pass", "end"}

(* A step of task r in ipm_log. *)
Moves(r, y) == UNCHANGED rest /\ y \in Steps /\ step' = [step EXCEPT ![r] = y]

(* q follows p in the list of roots.                                       *)
NextRoot(p, q) ==
  \E j \in 1 .. Len(local_roots) - 1 : local_roots[j] = p /\ local_roots[j + 1] = q

(* Such a step changes nothing of what is said of ipm_get_machtopo.        *)
LEMMA MoveFacts ==
  ASSUME IInv, NEW r \in Ranks, NEW y, Moves(r, y)
  PROVE  /\ TopoPart' /\ \A p, q \in Ranks : FirstKept(p, q) /\ SecondKept(p, q)
         /\ step' \in [Ranks -> Steps] /\ step'[r] = y
         /\ \A q \in Ranks : q # r => step'[q] = step[q]
         /\ \A q \in Ranks : Root(q)' = Root(q) /\ OnHost(q)' = OnHost(q)
         /\ \A q \in Ranks : q # r =>
              (PassedOn(q)' <=> PassedOn(q)) /\ (Got(q)' <=> Got(q)) /\ (HadTurn(q)' <=> HadTurn(q))
         /\ at' = at /\ local_roots' = local_roots /\ local_ranks' = local_ranks
         /\ RightRoot(r)' = RightRoot(r)
<1>1. TopoPart' /\ \A p, q \in Ranks : FirstKept(p, q) /\ SecondKept(p, q)
  BY TopoPartKept DEF IInv, Moves
<1>2. /\ step' \in [Ranks -> Steps] /\ step'[r] = y
      /\ \A q \in Ranks : q # r => step'[q] = step[q]
  BY Parts DEF LogInv, Steps, Moves
<1>3. host' = host /\ at' = at /\ local_roots' = local_roots /\ local_ranks' = local_ranks
  BY DEF Moves, rest, root_vars
<1>4. \A q \in Ranks : Root(q)' = Root(q) /\ OnHost(q)' = OnHost(q)
  BY <1>3, HostKept
<1>5. \A q \in Ranks : q # r =>
        (PassedOn(q)' <=> PassedOn(q)) /\ (Got(q)' <=> Got(q)) /\ (HadTurn(q)' <=> HadTurn(q))
  BY <1>2, <1>4 DEF PassedOn, Got, HadTurn
<1>6. RightRoot(r)' = RightRoot(r)
  BY <1>3 DEF RightRoot
<1>. QED
  BY <1>1, <1>2, <1>3, <1>4, <1>5, <1>6

(* Whether there is a token, or the turn of a root, in transit.            *)
LEMMA MoveThird ==
  ASSUME IInv, NEW r \in Ranks, NEW y, Moves(r, y), NEW p \in Ranks, NEW q \in Ranks,
         p # q /\ Follows(q, p) => (PassedOn(p)' <=> PassedOn(p)) /\ (Got(q)' <=> Got(q)),
         NextRoot(p, q) => (step'[p] = "end" <=> step[p] = "end") /\ (HadTurn(q)' <=> HadTurn(q))
  PROVE  ThirdKept(p, q)
<1>1. Root(p)' = Root(p) /\ Root(q)' = Root(q) /\ local_ranks' = local_ranks /\ local_roots' = local_roots
  BY MoveFacts
<1>2. Follows(q, p)' <=> Follows(q, p)
  BY <1>1 DEF Follows
<1>3. TokenIn(p, q)' <=> TokenIn(p, q)
  BY <1>2 DEF TokenIn
<1>4. (TurnIn(p, q) <=> NextRoot(p, q) /\ step[p] = "end" /\ ~HadTurn(q))
  BY DEF TurnIn, NextRoot
<1>5. (TurnIn(p, q)' <=> NextRoot(p, q) /\ step'[p] = "end" /\ ~HadTurn(q)')
  BY <1>1 DEF TurnIn, NextRoot
<1>. QED
  BY <1>3, <1>4, <1>5 DEF ThirdKept, Third, Opt

(* It preserves the invariant if it preserves what is said of ipm_log, and *)
(* the messages.                                                           *)
LEMMA LogStepInv ==
  ASSUME IInv, NEW r \in Ranks, NEW y, Moves(r, y),
         NetIs', LogInv', RingInv', TurnInv', FilesInv'
  PROVE  IInv'
BY MoveFacts DEF IInv, LogPart

(* The next root is on another host. *)
LEMMA RootsFollow ==
  ASSUME HostInv, ListInv, NEW p \in Ranks, NEW q \in Ranks, NextRoot(p, q)
  PROVE  Root(p) = p /\ Root(q) = q /\ p # q /\ q # 0 /\ ~Follows(q, p) /\ ~Follows(p, q)
<1>1. PICK j \in 1 .. Len(local_roots) - 1 : local_roots[j] = p /\ local_roots[j + 1] = q
  BY DEF NextRoot
<1>2. /\ Len(local_roots) \in Nat \ {0} /\ local_roots[1] = 0 /\ Injective(local_roots)
      /\ \A k \in 1 .. Len(local_roots) : Root(local_roots[k]) = local_roots[k]
  BY RootList
<1>3. j \in 1 .. Len(local_roots) /\ j + 1 \in 1 .. Len(local_roots) /\ j # j + 1
      /\ 1 \in 1 .. Len(local_roots) /\ j + 1 # 1
  BY <1>2
<1>4. Root(p) = p /\ Root(q) = q /\ p # q /\ q # 0
  BY <1>1, <1>2, <1>3 DEF Injective
<1>. QED
  BY <1>4 DEF Follows

(* A root has one next, and is next of one.                                *)
LEMMA RootsFollowUnique ==
  ASSUME HostInv, ListInv, NEW p \in Ranks, NEW q \in Ranks, NextRoot(p, q)
  PROVE  \A k \in Ranks : (NextRoot(p, k) => k = q) /\ (NextRoot(k, q) => k = p)
<1>1. PICK j \in 1 .. Len(local_roots) - 1 : local_roots[j] = p /\ local_roots[j + 1] = q
  BY DEF NextRoot
<1>2. Len(local_roots) \in Nat \ {0} /\ Injective(local_roots)
  BY RootList
<1>3. ASSUME NEW k \in Ranks, NextRoot(p, k)
      PROVE  k = q
  <2>1. PICK i \in 1 .. Len(local_roots) - 1 : local_roots[i] = p /\ local_roots[i + 1] = k
    BY <1>3 DEF NextRoot
  <2>2. i \in 1 .. Len(local_roots) /\ j \in 1 .. Len(local_roots)
    BY <1>2
  <2>3. i = j
    BY <1>1, <1>2, <2>1, <2>2 DEF Injective
  <2>. QED
    BY <1>1, <2>1, <2>3
<1>4. ASSUME NEW k \in Ranks, NextRoot(k, q)
      PROVE  k = p
  <2>1. PICK i \in 1 .. Len(local_roots) - 1 : local_roots[i] = k /\ local_roots[i + 1] = q
    BY <1>4 DEF NextRoot
  <2>2. i + 1 \in 1 .. Len(local_roots) /\ j + 1 \in 1 .. Len(local_roots)
    BY <1>2
  <2>3. i + 1 = j + 1
    BY <1>1, <1>2, <2>1, <2>2 DEF Injective
  <2>. QED
    BY <1>1, <2>1, <2>3
<1>. QED
  BY <1>3, <1>4

(* A ring gives each of its tasks one neighbour to the right and one to    *)
(* the left.                                                               *)
LEMMA FollowsUnique ==
  ASSUME NEW p \in Ranks, NEW q \in Ranks, Follows(q, p), ListOf(Root(p), local_ranks[Root(p)])
  PROVE  \A k \in Ranks : (Follows(k, p) => k = q) /\ (Follows(q, k) => k = p)
<1>. DEFINE s == local_ranks[Root(p)]
<1>1. Root(p) = Root(q)
  BY DEF Follows
<1>2. Injective(s) /\ s \in Seq(Ranks)
  BY DEF ListOf
<1>3. Len(s) \in Nat
  BY <1>2, LenProperties
<1>4. PICK j \in 1 .. Len(s) : s[j] = p /\ RightOf(s, j) = q
  BY DEF Follows
<1>5. ASSUME NEW k \in Ranks, Follows(k, p)
      PROVE  k = q
  <2>1. PICK i \in 1 .. Len(s) : s[i] = p /\ RightOf(s, i) = k
    BY <1>5 DEF Follows
  <2>2. i = j
    BY <1>2, <1>4, <2>1 DEF Injective
  <2>. QED
    BY <1>4, <2>1, <2>2
<1>6. ASSUME NEW k \in Ranks, Follows(q, k)
      PROVE  k = p
  <2>1. PICK i \in 1 .. Len(s) : s[i] = k /\ RightOf(s, i) = q
    BY <1>1, <1>6 DEF Follows
  <2>. HIDE DEF s
  <2>2. 1 \in 1 .. Len(s)
    BY <1>3
  <2>3. CASE i = Len(s) /\ j = Len(s)
    BY <1>4, <2>1, <2>3
  <2>4. CASE i # Len(s) /\ j # Len(s)
    <3>1. i + 1 \in 1 .. Len(s) /\ j + 1 \in 1 .. Len(s) /\ s[i + 1] = s[j + 1]
      BY <1>3, <1>4, <2>1, <2>4 DEF RightOf
    <3>2. i + 1 = j + 1
      BY <1>2, <3>1 DEF Injective
    <3>. QED
      BY <1>4, <2>1, <3>2
  <2>5. CASE i = Len(s) /\ j # Len(s)
    <3>1. j + 1 \in 1 .. Len(s) /\ s[1] = s[j + 1]
      BY <1>3, <1>4, <2>1, <2>5 DEF RightOf
    <3>2. 1 = j + 1
      BY <1>2, <2>2, <3>1 DEF Injective
    <3>. QED
      BY <3>2
  <2>6. CASE i # Len(s) /\ j = Len(s)
    <3>1. i + 1 \in 1 .. Len(s) /\ s[1] = s[i + 1]
      BY <1>3, <1>4, <2>1, <2>6 DEF RightOf
    <3>2. 1 = i + 1
      BY <1>2, <2>2, <3>1 DEF Injective
    <3>. QED
      BY <3>2
  <2>. QED
    BY <2>3, <2>4, <2>5, <2>6
<1>. QED
  BY <1>5, <1>6

(* What is known when a task has returned from ipm_get_machtopo.           *)
LEMMA ReturnedAll ==
  ASSUME IInv, NEW r \in Ranks, at[r] = "done"
  PROVE  /\ \A q \in Ranks : Gathered(q)
         /\ ListOf(Root(r), local_ranks[Root(r)])
         /\ Len(local_ranks[Root(r)]) = Cardinality(OnHost(r))
         /\ \E j \in 1 .. Len(local_ranks[Root(r)]) : local_ranks[Root(r)][j] = r
         /\ \A q \in Ranks : Root(q) = Root(r) =>
              \E j \in 1 .. Len(local_ranks[Root(r)]) : local_ranks[Root(r)][j] = q
<1>0. HostInv /\ PlaceInv /\ OrderInv /\ RanksInv /\ BcastInv
  BY Parts
<1>1. at[0] \in {"bcast", "done"}
  BY <1>0, RootFacts DEF BcastInv, BcastOk
<1>2. \A q \in Ranks : Gathered(q)
  BY <1>1, AllGathered
<1>3. PICK m \in Ranks : m = Root(r) /\ Root(m) = m /\ OnHost(m) = OnHost(r)
  BY RootFacts, HostSize
<1>4. KnowsSize(m) /\ at[m] # "collect"
  <2>1. CASE m = r
    BY <2>1 DEF KnowsSize
  <2>2. CASE m # r
    <3>1. RingTold(r)
      BY <1>0, <1>3, <2>2 DEF OrderInv, OrderOk, KnowsRing
    <3>. QED
      BY <1>3, <3>1 DEF RingTold, KnowsSize
  <2>. QED
    BY <2>1, <2>2
<1>5. ListOf(m, local_ranks[m]) /\ Len(local_ranks[m]) = Cardinality(OnHost(m))
  BY <1>0, <1>3, <1>4, CollectedList
<1>6. \A q \in Ranks : Root(q) = m => \E j \in 1 .. Len(local_ranks[m]) : local_ranks[m][j] = q
  BY <1>0, <1>5, ListComplete
<1>. QED
  BY <1>2, <1>3, <1>5, <1>6

(* All messages of ipm_get_machtopo to it have been received.              *)
LEMMA ReturnedQueue ==
  ASSUME IInv, NEW p \in Ranks, NEW r \in Ranks, at[r] = "done"
  PROVE  First(p, r) = <<>> /\ Second(p, r) = <<>>
<1>0. HostInv /\ PlaceInv /\ OrderInv /\ RanksInv
  BY Parts
<1>1. KnowsRoot(r) /\ KnowsSize(r) /\ KnowsRing(r)
  BY DEF KnowsRoot, KnowsSize, KnowsRing
<1>2. Gathered(p)
  BY ReturnedAll
<1>3. First(p, r) = <<>>
  BY <1>1, <1>2 DEF First, Opt
<1>4. r = Root(p) => Collects(r, p)
  <2>1. ASSUME r = Root(p)
        PROVE  Collects(r, p)
    <3>1. Root(r) = r
      BY <2>1, RootFacts
    <3>2. \E j \in 1 .. Len(local_ranks[r]) : local_ranks[r][j] = p
      BY <2>1, <3>1, ReturnedAll
    <3>. QED
      BY <3>2 DEF Collects
  <2>. QED
    BY <2>1
<1>5. Second(p, r) = <<>>
  BY <1>1, <1>4 DEF Second, Opt
<1>. QED
  BY <1>3, <1>5

(* What it keeps of the ring of its host.                                  *)
LEMMA ReturnedRing ==
  ASSUME IInv, NEW r \in Ranks, at[r] = "done",
         NEW j \in 1 .. Len(local_ranks[Root(r)]), local_ranks[Root(r)][j] = r
  PROVE  /\ topo[r].intra_root = Root(r) /\ topo[r].intra_size = Cardinality(OnHost(r))
         /\ topo[r].intra_left = IF j = 1 THEN local_ranks[Root(r)][Len(local_ranks[Root(r)])]
                                 ELSE local_ranks[Root(r)][j - 1]
         /\ Cardinality(OnHost(r)) > 1 =>
              topo[r].intra_right = RightOf(local_ranks[Root(r)], j)
         /\ topo[r].inter_left = LeftRoot(Root(r)) /\ topo[r].inter_right = RightRoot(Root(r))
<1>. DEFINE s == local_ranks[Root(r)]
            size == Cardinality(OnHost(r))
<1>0. HostInv /\ PlaceInv /\ ListInv /\ TopoInv
  BY Parts
<1>1. KnowsRoot(r) /\ KnowsSize(r) /\ KnowsRing(r)
  BY DEF KnowsRoot, KnowsSize, KnowsRing
<1>2. TopoOk(r)
  BY <1>0 DEF TopoInv
<1>3. topo[r].intra_root = Root(r)
  BY <1>1, <1>2 DEF TopoOk
<1>4. ListOf(Root(r), s) /\ Len(s) = size /\ size \in Nat \ {0} /\ \A q \in Ranks : Gathered(q)
  BY ReturnedAll, HostSize
<1>5. Root(r) \in Ranks /\ s[1] = Root(r) /\ Injective(s) /\ 1 \in 1 .. Len(s)
  BY <1>4, RootFacts DEF ListOf
<1>6. CASE Root(r) = r
  <2>1. j = 1
    BY <1>5, <1>6 DEF Injective
  <2>2. /\ topo[r].intra_size = size
        /\ topo[r].inter_left = LeftRoot(r) /\ topo[r].inter_right = RightRoot(r)
        /\ topo[r].intra_left = s[size] /\ (size > 1 => topo[r].intra_right = s[2])
    BY <1>1, <1>2, <1>6 DEF TopoOk
  <2>3. size > 1 => RightOf(s, 1) = s[2]
    <3>1. size > 1 => 1 # Len(s)
      BY <1>4
    <3>. HIDE DEF s
    <3>. QED
      BY <3>1 DEF RightOf
  <2>. QED
    BY <1>3, <1>4, <1>6, <2>1, <2>2, <2>3
<1>7. CASE Root(r) # r
  <2>1. topo[r] = RingOf(r)
    BY <1>1, <1>2, <1>7 DEF TopoOk
  <2>2. RingOf(r) = [intra_root |-> Root(r), intra_size |-> size,
                     intra_left |-> s[j - 1], intra_right |-> RightOf(s, j),
                     inter_left |-> LeftRoot(Root(r)), inter_right |-> RightRoot(Root(r))]
    BY <1>0, <1>4, <1>5, <1>7, RingOfPlace
  <2>3. j # 1
    BY <1>5, <1>7
  <2>. HIDE DEF s, size
  <2>4. /\ topo[r].intra_root = Root(r) /\ topo[r].intra_size = size
        /\ topo[r].intra_left = s[j - 1] /\ topo[r].intra_right = RightOf(s, j)
        /\ topo[r].inter_left = LeftRoot(Root(r)) /\ topo[r].inter_right = RightRoot(Root(r))
    BY <2>1, <2>2
  <2>. QED
    BY <2>3, <2>4 DEF s, size
<1>. QED
  BY <1>6, <1>7

(* Its neighbours follow each other in the ring.                           *)
LEMMA ReturnedNeighbours ==
  ASSUME IInv, NEW r \in Ranks, at[r] = "done", Cardinality(OnHost(r)) > 1
  PROVE  /\ \E m \in Ranks : topo[r].intra_right = m /\ m # r /\ Follows(m, r)
         /\ \E m \in Ranks : topo[r].intra_left = m /\ m # r /\ Follows(r, m)
<1>. DEFINE s == local_ranks[Root(r)]
<1>1. /\ ListOf(Root(r), s) /\ Len(s) = Cardinality(OnHost(r)) /\ Len(s) \in Nat
      /\ Root(Root(r)) = Root(r)
  BY ReturnedAll, HostSize, RootFacts
<1>2. /\ Injective(s) /\ \A i \in 1 .. Len(s) : s[i] \in Ranks /\ Root(s[i]) = Root(r)
  BY <1>1 DEF ListOf
<1>3. PICK j \in 1 .. Len(s) : s[j] = r
  BY ReturnedAll
<1>4. /\ topo[r].intra_left = IF j = 1 THEN s[Len(s)] ELSE s[j - 1]
      /\ topo[r].intra_right = RightOf(s, j)
  BY <1>3, ReturnedRing
<1>5. Len(s) > 1
  BY <1>1
<1>6. \A i \in 1 .. Len(s), q \in Ranks : RightOf(s, i) = q /\ Root(q) = Root(r) => Follows(q, s[i])
  BY <1>2 DEF Follows
<1>. DEFINE left == IF j = 1 THEN Len(s) ELSE j - 1
<1>7. /\ left \in 1 .. Len(s) /\ left # j /\ topo[r].intra_left = s[left] /\ RightOf(s, left) = r
  <2>1. topo[r].intra_left = s[left]
    BY <1>4
  <2>. HIDE DEF s
  <2>2. left \in 1 .. Len(s) /\ left # j
    BY <1>1, <1>5
  <2>3. RightOf(s, left) = s[j]
    <3>1. CASE j = 1
      BY <3>1 DEF RightOf
    <3>2. CASE j # 1
      <4>1. j - 1 # Len(s) /\ j - 1 + 1 = j
        BY <1>1
      <4>. QED
        BY <3>2, <4>1 DEF RightOf
    <3>. QED
      BY <3>1, <3>2
  <2>. QED
    BY <1>3, <2>1, <2>2, <2>3 DEF s
<1>. DEFINE right == IF j = Len(s) THEN 1 ELSE j + 1
<1>8. right \in 1 .. Len(s) /\ right # j /\ topo[r].intra_right = s[right] /\ RightOf(s, j) = s[right]
  <2>1. RightOf(s, j) = s[right]
    BY DEF RightOf
  <2>. HIDE DEF s
  <2>2. right \in 1 .. Len(s) /\ right # j
    BY <1>1, <1>5
  <2>. QED
    BY <1>4, <2>1, <2>2 DEF s
<1>. HIDE DEF left, right
<1>9. s[left] \in Ranks /\ s[right] \in Ranks /\ s[left] # r /\ s[right] # r
  BY <1>2, <1>3, <1>7, <1>8 DEF Injective
<1>10. Follows(r, s[left]) /\ Follows(s[right], r)
  BY <1>2, <1>3, <1>6, <1>7, <1>8, <1>9
<1>. QED
  BY <1>7, <1>8, <1>9, <1>10

-----------------------------------------------------------------------------
(***************************************************************************)
(* The steps of ipm_log.                                                   *)
(***************************************************************************)

(* The token comes to a task from the one before.                          *)
LEMMA FollowsPassed ==
  ASSUME RingInv, NEW p \in Ranks, NEW q \in Ranks, Follows(q, p), Got(q),
         ListOf(Root(p), local_ranks[Root(p)])
  PROVE  PassedOn(p)
<1>. DEFINE s == local_ranks[Root(p)]
<1>1. Root(p) \in Ranks /\ Root(Root(p)) = Root(p)
  BY RootFacts
<1>2. PICK j \in 1 .. Len(s) : s[j] = p /\ RightOf(s, j) = q
  BY DEF Follows
<1>3. s \in Seq(Ranks)
  BY DEF ListOf
<1>4. Len(s) \in Nat
  BY <1>3, LenProperties
<1>5. CASE j = Len(s)
  <2>1. 1 \in 1 .. Len(s) /\ s[1] = q
    <3>. HIDE DEF s
    <3>. QED
      BY <1>2, <1>4, <1>5 DEF RightOf
  <2>. QED
    BY <1>1, <1>2, <2>1 DEF RingInv
<1>6. CASE j # Len(s)
  <2>1. j + 1 \in 1 .. Len(s) /\ s[j + 1] = q /\ j < j + 1
    <3>. HIDE DEF s
    <3>. QED
      BY <1>2, <1>4, <1>6 DEF RightOf
  <2>2. PICK k \in 1 .. Len(s) : s[k] = q /\ j < k
    BY <2>1
  <2>. QED
    BY <1>1, <1>2, <2>2 DEF RingInv
<1>. QED
  BY <1>5, <1>6

(* The root has it again once all have passed it on.                       *)
LEMMA RootGot ==
  ASSUME IInv, NEW r \in Ranks, Root(r) = r, Got(r), NEW p \in Ranks, Root(p) = r
  PROVE  PassedOn(p)
<1>1. at[r] = "done"
  BY Parts DEF LogInv, Got
<1>2. PICK i \in 1 .. Len(local_ranks[r]) : local_ranks[r][i] = p
  BY <1>1, ReturnedAll
<1>3. ListOf(r, local_ranks[r])
  BY <1>1, ReturnedAll
<1>4. 1 \in 1 .. Len(local_ranks[r]) /\ local_ranks[r][1] = r
  BY <1>3 DEF ListOf
<1>. QED
  BY <1>2, <1>4, Parts DEF RingInv

(* A task writes its section to /tmp, and goes on to wait for the token or *)
(* to send it.                                                             *)
LEMMA WriteTmpStep ==
  ASSUME mpi_size > 1, IInv, NEW r \in Ranks, WriteTmp(r)
  PROVE  IInv'
<1>. DEFINE y == FirstOf(r)
            size == Cardinality(OnHost(r))
<1>0. NetIs /\ HostInv /\ PlaceInv /\ ListInv /\ RanksInv /\ LogInv /\ RingInv /\ TurnInv /\ FilesInv
  BY Parts
<1>1. /\ step[r] = "before" /\ at[r] = "done" /\ Reduced(r) /\ tmp' = tmp \cup {r}
      /\ step' = [step EXCEPT ![r] = y] /\ UNCHANGED <<rest, net, log>>
  BY DEF WriteTmp, GoOn
<1>2. /\ size \in Nat \ {0} /\ (Root(r) # r => size > 1) /\ Root(r) \in Ranks
      /\ Root(Root(r)) = Root(r)
  BY HostSize, RootFacts
<1>3. topo[r].intra_root = Root(r) /\ topo[r].intra_size = size
  BY <1>1, ReturnedAll, ReturnedRing
<1>4. /\ size = 1 /\ Root(r) = r => y = "chain"
      /\ size > 1 /\ Root(r) = r => y = "send"
      /\ Root(r) # r => y = "wait"
  <2>1. size = 1 => ~(size > 1)
    OBVIOUS
  <2>. QED
    BY <1>2, <1>3, <2>1 DEF FirstOf, IsRoot
<1>5. size = 1 \/ size > 1
  BY <1>2
<1>. HIDE DEF y
<1>6. Moves(r, y)
  BY <1>1, <1>2, <1>4, <1>5 DEF Moves, Steps
<1>7. /\ \A p, q \in Ranks : FirstKept(p, q) /\ SecondKept(p, q)
      /\ step' \in [Ranks -> Steps] /\ step'[r] = y
      /\ \A q \in Ranks : q # r => step'[q] = step[q]
      /\ \A q \in Ranks : Root(q)' = Root(q) /\ OnHost(q)' = OnHost(q)
      /\ \A q \in Ranks : q # r =>
           (PassedOn(q)' <=> PassedOn(q)) /\ (Got(q)' <=> Got(q)) /\ (HadTurn(q)' <=> HadTurn(q))
      /\ at' = at /\ local_roots' = local_roots /\ local_ranks' = local_ranks
  BY <1>6, MoveFacts
<1>8. /\ ~HadTurn(r) /\ ~HadTurn(r)' /\ ~Got(r) /\ ~PassedOn(r)
      /\ (size > 1 => ~Got(r)' /\ ~PassedOn(r)') /\ (size = 1 => PassedOn(r)')
  BY <1>1, <1>2, <1>4, <1>5, <1>7 DEF HadTurn, Got, PassedOn
<1>9. size = 1 => \A q \in Ranks : Root(q) = Root(r) => q = r
  <2>1. ASSUME size = 1, NEW q \in Ranks, Root(q) = Root(r)
        PROVE  q = r
    <3>1. q \in OnHost(r) /\ r \in OnHost(r) /\ IsFiniteSet(OnHost(r))
      BY <2>1, RootFacts, HostSize
    <3>2. PICK x : OnHost(r) = {x}
      BY <2>1, <3>1, FS_Singleton
    <3>. QED
      BY <3>1, <3>2
  <2>. QED
    BY <2>1
<1>10. NetIs'
  <2>1. ASSUME NEW p \in Ranks, NEW q \in Ranks
        PROVE  ThirdKept(p, q)
    <3>1. p # q /\ Follows(q, p) => (PassedOn(p)' <=> PassedOn(p)) /\ (Got(q)' <=> Got(q))
      BY <1>5, <1>7, <1>8, <1>9 DEF Follows
    <3>2. (step'[p] = "end" <=> step[p] = "end") /\ (HadTurn(q)' <=> HadTurn(q))
      BY <1>1, <1>2, <1>4, <1>5, <1>7, <1>8
    <3>. QED
      BY <1>6, <3>1, <3>2, MoveThird
  <2>. QED
    BY <1>0, <1>1, <1>7, <2>1, NetKept DEF Kept
<1>11. LogInv'
  <2>1. step' \in [Ranks -> {"before", "send", "wait", "chain", "cat", "rm", "pass", "end"}]
    BY <1>7 DEF Steps
  <2>2. step'[0] # "before" => \A q \in Ranks : at'[q] = "done"
    BY <1>0, <1>1, <1>7, RootFacts DEF LogInv, Reduced
  <2>3. \A q \in Ranks : step'[q] # "before" => at'[q] = "done"
    BY <1>0, <1>1, <1>7 DEF LogInv
  <2>4. ASSUME NEW q \in Ranks
        PROVE  /\ Root(q) # q => step'[q] \in {"before", "send", "wait", "end"}
               /\ Cardinality(OnHost(q)) = 1 => step'[q] \notin {"send", "wait"}
               /\ step'[q] = "pass" => RightRoot(q)' # 0 /\ Len(local_roots') > 1
    <3>1. CASE q = r
      <4>1. step'[r] = y /\ y # "pass"
        BY <1>2, <1>4, <1>5, <1>7
      <4>2. size = 1 => Root(r) = r
        BY <1>9, <1>2
      <4>. QED
        BY <1>2, <1>4, <1>5, <3>1, <4>1, <4>2
    <3>2. CASE q # r
      <4>1. RightRoot(q)' = RightRoot(q)
        BY <1>7 DEF RightRoot
      <4>. QED
        BY <1>0, <1>7, <3>2, <4>1 DEF LogInv
    <3>. QED
      BY <3>1, <3>2
  <2>. QED
    BY <1>7, <2>1, <2>2, <2>3, <2>4 DEF LogInv
<1>12. RingInv'
  <2>1. SUFFICES ASSUME NEW m \in Ranks, NEW p \in Ranks, NEW q \in Ranks,
                        NEW i \in 1 .. Len(local_ranks[m]), NEW j \in 1 .. Len(local_ranks[m]),
                        Root(m) = m, local_ranks[m][i] = p, local_ranks[m][j] = q,
                        j = 1 \/ i < j, Got(q)'
                 PROVE  PassedOn(p)'
    BY <1>7 DEF RingInv
  <2>2. CASE q = r
    <3>1. size = 1 /\ Root(r) = r
      BY <1>2, <1>5, <1>8, <2>1, <2>2
    <3>2. KnowsSize(r)
      BY <1>1 DEF KnowsSize
    <3>3. Collects(m, r)
      BY <2>1, <2>2 DEF Collects
    <3>4. m = r
      <4>1. local_ranks[m] # <<>>
        BY <2>1
      <4>. QED
        BY <1>0, <2>1, <3>1, <3>3, <4>1 DEF RanksInv, RanksOk
    <3>5. Root(p) = r
      <4>1. Collects(r, p)
        BY <2>1, <3>4 DEF Collects
      <4>. QED
        BY <1>0, <3>1, <3>2, <4>1 DEF RanksInv, RanksOk
    <3>. QED
      BY <1>8, <1>9, <3>1, <3>5
  <2>3. CASE q # r
    <3>1. PassedOn(p)
      BY <1>0, <1>7, <2>1, <2>3 DEF RingInv
    <3>. QED
      BY <1>7, <1>8, <3>1
  <2>. QED
    BY <2>2, <2>3
<1>13. TurnInv'
  <2>1. SUFFICES ASSUME NEW p \in Ranks, NEW q \in Ranks,
                        NEW i \in 1 .. Len(local_roots), NEW j \in 1 .. Len(local_roots),
                        local_roots[i] = p, local_roots[j] = q, i < j, HadTurn(q)'
                 PROVE  step'[p] = "end"
    BY <1>7 DEF TurnInv
  <2>2. step[p] = "end"
    BY <1>0, <1>7, <1>8, <2>1 DEF TurnInv
  <2>. QED
    BY <1>1, <1>7, <2>2
<1>14. FilesInv'
  <2>1. step[Root(r)] \notin {"pass", "end"}
    <3>1. CASE Root(r) = r
      BY <1>1, <3>1
    <3>2. CASE Root(r) # r
      <4>1. ~PassedOn(r)
        BY <1>8
      <4>2. ~Got(Root(r))
        BY <1>2, <4>1, RootGot
      <4>. QED
        BY <1>2, <4>2 DEF Got
    <3>. QED
      BY <3>1, <3>2
  <2>2. y \in {"send", "wait", "chain"}
    BY <1>2, <1>4, <1>5
  <2>3. ASSUME NEW q \in Ranks
        PROVE  /\ step'[Root(q)] \in {"pass", "end"} <=> step[Root(q)] \in {"pass", "end"}
               /\ step'[Root(q)] \in {"rm", "pass", "end"} <=> step[Root(q)] \in {"rm", "pass", "end"}
               /\ step'[q] # "before" <=> step[q] # "before" \/ q = r
    <3>1. Root(q) \in Ranks
      BY RootFacts
    <3>. QED
      BY <1>1, <1>7, <2>2, <3>1
  <2>4. tmp' = {q \in Ranks : step'[q] # "before" /\ step'[Root(q)] \notin {"pass", "end"}}
    BY <1>0, <1>1, <2>1, <2>3 DEF FilesInv
  <2>5. log' = [q \in Ranks |-> IF step'[Root(q)] \in {"rm", "pass", "end"} THEN 1 ELSE 0]
    BY <1>0, <1>1, <2>3 DEF FilesInv
  <2>. QED
    BY <1>7, <2>4, <2>5 DEF FilesInv
<1>. QED
  BY <1>6, <1>10, <1>11, <1>12, <1>13, <1>14, LogStepInv

(* What a step leaves as it is, and what it must keep.                     *)
LEMMA MoveLog ==
  ASSUME IInv, NEW r \in Ranks, NEW y, Moves(r, y), step[r] # "before",
         Root(r) # r => y \in {"before", "send", "wait", "end"},
         Cardinality(OnHost(r)) = 1 => y \notin {"send", "wait"},
         y = "pass" => RightRoot(r) # 0 /\ Len(local_roots) > 1
  PROVE  LogInv'
<1>0. LogInv
  BY Parts
<1>1. /\ step' \in [Ranks -> Steps] /\ step'[r] = y
      /\ \A q \in Ranks : q # r => step'[q] = step[q]
      /\ \A q \in Ranks : Root(q)' = Root(q) /\ OnHost(q)' = OnHost(q)
      /\ at' = at /\ local_roots' = local_roots /\ RightRoot(r)' = RightRoot(r)
  BY MoveFacts
<1>2. step' \in [Ranks -> {"before", "send", "wait", "chain", "cat", "rm", "pass", "end"}]
  BY <1>1 DEF Steps
<1>3. step'[0] # "before" => \A q \in Ranks : at'[q] = "done"
  BY <1>0, <1>1, RootFacts DEF LogInv
<1>4. \A q \in Ranks : step'[q] # "before" => at'[q] = "done"
  BY <1>0, <1>1 DEF LogInv
<1>5. ASSUME NEW q \in Ranks
      PROVE  /\ Root(q) # q => step'[q] \in {"before", "send", "wait", "end"}
             /\ Cardinality(OnHost(q)) = 1 => step'[q] \notin {"send", "wait"}
             /\ step'[q] = "pass" => RightRoot(q)' # 0 /\ Len(local_roots') > 1
  <2>1. CASE q = r
    BY <1>1, <2>1
  <2>2. CASE q # r
    <3>1. RightRoot(q)' = RightRoot(q)
      BY <1>1 DEF RightRoot
    <3>. QED
      BY <1>0, <1>1, <2>2, <3>1 DEF LogInv
  <2>. QED
    BY <2>1, <2>2
<1>. QED
  BY <1>1, <1>2, <1>3, <1>4, <1>5 DEF LogInv

(* The token of a host remains where it is, or goes on after those before  *)
(* it.                                                                     *)
LEMMA MoveRing ==
  ASSUME IInv, NEW r \in Ranks, NEW y, Moves(r, y),
         PassedOn(r) => PassedOn(r)', Got(r)' => Got(r)
  PROVE  RingInv'
<1>1. /\ \A q \in Ranks : Root(q)' = Root(q)
      /\ \A q \in Ranks : q # r =>
           (PassedOn(q)' <=> PassedOn(q)) /\ (Got(q)' <=> Got(q))
      /\ local_ranks' = local_ranks
  BY MoveFacts
<1>2. SUFFICES ASSUME NEW m \in Ranks, NEW p \in Ranks, NEW q \in Ranks,
                      NEW i \in 1 .. Len(local_ranks[m]), NEW j \in 1 .. Len(local_ranks[m]),
                      Root(m) = m, local_ranks[m][i] = p, local_ranks[m][j] = q,
                      j = 1 \/ i < j, Got(q)'
               PROVE  PassedOn(p)'
  BY <1>1 DEF RingInv
<1>3. Got(q)
  BY <1>1, <1>2
<1>4. PassedOn(p)
  BY <1>2, <1>3, Parts DEF RingInv
<1>. QED
  BY <1>1, <1>4

(* A root that takes no turn leaves those of the others as they are.       *)
LEMMA MoveTurn ==
  ASSUME IInv, NEW r \in Ranks, NEW y, Moves(r, y),
         Root(r) = r => (HadTurn(r)' => HadTurn(r)) /\ step[r] # "end"
  PROVE  TurnInv'
<1>1. /\ \A q \in Ranks : q # r => (HadTurn(q)' <=> HadTurn(q)) /\ step'[q] = step[q]
      /\ local_roots' = local_roots
  BY MoveFacts
<1>2. SUFFICES ASSUME NEW p \in Ranks, NEW q \in Ranks,
                      NEW i \in 1 .. Len(local_roots), NEW j \in 1 .. Len(local_roots),
                      local_roots[i] = p, local_roots[j] = q, i < j, HadTurn(q)'
               PROVE  step'[p] = "end"
  BY <1>1 DEF TurnInv
<1>3. Root(p) = p /\ Root(q) = q
  BY <1>2, Parts, RootList
<1>4. HadTurn(q)
  BY <1>1, <1>2, <1>3
<1>5. step[p] = "end"
  BY <1>2, <1>4, Parts DEF TurnInv
<1>. QED
  BY <1>1, <1>3, <1>5

(* A step that writes and removes no file.                                 *)
LEMMA MoveFiles ==
  ASSUME IInv, NEW r \in Ranks, NEW y, Moves(r, y), tmp' = tmp, log' = log,
         step[r] # "before", y # "before",
         Root(r) = r => /\ y \in {"pass", "end"} <=> step[r] \in {"pass", "end"}
                        /\ y \in {"rm", "pass", "end"} <=> step[r] \in {"rm", "pass", "end"}
  PROVE  FilesInv'
<1>1. /\ step'[r] = y /\ \A q \in Ranks : q # r => step'[q] = step[q]
      /\ \A q \in Ranks : Root(q)' = Root(q)
  BY MoveFacts
<1>2. ASSUME NEW q \in Ranks
      PROVE  /\ step'[Root(q)] \in {"pass", "end"} <=> step[Root(q)] \in {"pass", "end"}
             /\ step'[Root(q)] \in {"rm", "pass", "end"} <=> step[Root(q)] \in {"rm", "pass", "end"}
             /\ step'[q] # "before" <=> step[q] # "before"
  <2>1. Root(q) \in Ranks /\ Root(Root(q)) = Root(q)
    BY RootFacts
  <2>. QED
    BY <1>1, <2>1
<1>. QED
  BY <1>1, <1>2, Parts DEF FilesInv

(* A task passes the token on to its right neighbour.                      *)
LEMMA SendTokenStep ==
  ASSUME mpi_size > 1, IInv, NEW r \in Ranks, SendToken(r)
  PROVE  IInv'
<1>. DEFINE y == IF Root(r) = r THEN "wait" ELSE "end"
<1>0. NetIs /\ HostInv /\ PlaceInv /\ ListInv /\ RanksInv /\ LogInv /\ RingInv
  BY Parts
<1>1. /\ step[r] = "send" /\ net' = Sent(net, r, topo[r].intra_right, 0)
      /\ step' = [step EXCEPT ![r] = IF IsRoot(r) THEN "wait" ELSE "end"]
      /\ UNCHANGED <<rest, tmp, log>>
  BY DEF SendToken, Send, GoOn
<1>2. at[r] = "done" /\ Cardinality(OnHost(r)) # 1
  BY <1>0, <1>1 DEF LogInv
<1>3. Cardinality(OnHost(r)) > 1
  BY <1>2, HostSize
<1>4. topo[r].intra_root = Root(r) /\ ListOf(Root(r), local_ranks[Root(r)])
  BY <1>2, ReturnedAll, ReturnedRing
<1>5. step' = [step EXCEPT ![r] = y]
  BY <1>1, <1>4 DEF IsRoot
<1>6. PICK m \in Ranks : topo[r].intra_right = m /\ m # r /\ Follows(m, r)
  BY <1>2, <1>3, ReturnedNeighbours
<1>7. y \in {"wait", "end"} /\ (Root(r) = r => y = "wait") /\ (Root(r) # r => y = "end")
  OBVIOUS
<1>. HIDE DEF y
<1>8. Moves(r, y)
  BY <1>1, <1>5, <1>7 DEF Moves, Steps
<1>9. /\ \A p, q \in Ranks : FirstKept(p, q) /\ SecondKept(p, q)
      /\ step'[r] = y /\ \A q \in Ranks : q # r => step'[q] = step[q]
      /\ \A q \in Ranks : Root(q)' = Root(q)
      /\ \A q \in Ranks : q # r =>
           (PassedOn(q)' <=> PassedOn(q)) /\ (Got(q)' <=> Got(q)) /\ (HadTurn(q)' <=> HadTurn(q))
      /\ local_ranks' = local_ranks /\ local_roots' = local_roots
  BY <1>8, MoveFacts
<1>10. ~PassedOn(r) /\ PassedOn(r)' /\ (Got(r)' <=> Got(r))
  BY <1>1, <1>7, <1>9 DEF PassedOn, Got
<1>11. Root(r) = r => ~HadTurn(r) /\ ~HadTurn(r)' /\ step[r] # "end" /\ step'[r] # "end"
  BY <1>1, <1>7, <1>9 DEF HadTurn
<1>12. ~Got(m)
  BY <1>0, <1>4, <1>6, <1>10, FollowsPassed
<1>13. NetIs'
  <2>1. ASSUME NEW p \in Ranks, NEW q \in Ranks, p # r \/ q # m
        PROVE  ThirdKept(p, q)
    <3>1. p = r => ~Follows(q, p)
      BY <1>4, <1>6, <2>1, FollowsUnique
    <3>2. Follows(q, p) => (PassedOn(p)' <=> PassedOn(p)) /\ (Got(q)' <=> Got(q))
      BY <1>9, <1>10, <3>1
    <3>3. NextRoot(p, q) => Root(p) = p /\ Root(q) = q
      BY <1>0, RootsFollow
    <3>4. NextRoot(p, q) => (step'[p] = "end" <=> step[p] = "end") /\ (HadTurn(q)' <=> HadTurn(q))
      BY <1>9, <1>11, <3>3
    <3>. QED
      BY <1>8, <3>2, <3>4, MoveThird
  <2>2. ~NextRoot(r, m)
    BY <1>0, <1>6, RootsFollow
  <2>3. ~TurnIn(r, m) /\ ~TurnIn(r, m)'
    BY <1>9, <2>2 DEF TurnIn, NextRoot
  <2>4. Third(r, m) = <<>>
    BY <1>10, <2>3 DEF Third, TokenIn, Opt
  <2>5. Third(r, m)' = <<0>>
    <3>1. Follows(m, r)'
      BY <1>6, <1>9 DEF Follows
    <3>2. TokenIn(r, m)'
      BY <1>6, <1>9, <1>10, <1>12, <3>1 DEF TokenIn
    <3>. QED
      BY <3>2 DEF Third, Opt
  <2>6. \A p, q \in Ranks : p # r \/ q # m => Kept(p, q)
    BY <1>9, <2>1 DEF Kept
  <2>7. net' = Sent(net, r, m, 0)
    BY <1>1, <1>6
  <2>. QED
    BY <1>0, <1>9, <2>4, <2>5, <2>6, <2>7, NetSent
<1>14. LogInv'
  BY <1>1, <1>2, <1>7, <1>8, MoveLog
<1>15. RingInv'
  BY <1>8, <1>10, MoveRing
<1>16. TurnInv'
  BY <1>8, <1>11, MoveTurn
<1>17. FilesInv'
  BY <1>1, <1>7, <1>8, MoveFiles
<1>. QED
  BY <1>8, <1>13, <1>14, <1>15, <1>16, <1>17, LogStepInv

(* A task that gets the token gets it after all those before it.           *)
LEMMA PassedBefore ==
  ASSUME IInv, NEW r \in Ranks, at[r] = "done", NEW p \in Ranks, Follows(r, p), PassedOn(p),
         NEW i \in 1 .. Len(local_ranks[Root(r)]), NEW j \in 1 .. Len(local_ranks[Root(r)]),
         local_ranks[Root(r)][j] = r, j = 1 \/ i < j
  PROVE  PassedOn(local_ranks[Root(r)][i])
<1>. DEFINE s == local_ranks[Root(r)]
<1>1. /\ ListOf(Root(r), s) /\ Root(r) \in Ranks /\ Root(Root(r)) = Root(r)
  BY ReturnedAll, RootFacts
<1>2. s \in Seq(Ranks) /\ Injective(s) /\ s[1] = Root(r) /\ \A k \in 1 .. Len(s) : s[k] \in Ranks /\ Root(s[k]) = Root(r)
  BY <1>1 DEF ListOf
<1>3. Len(s) \in Nat
  BY <1>2, LenProperties
<1>4. PICK l \in 1 .. Len(s) : s[l] = p /\ RightOf(s, l) = r
  BY DEF Follows
<1>5. /\ l = Len(s) => j = 1
      /\ l # Len(s) => j = l + 1
  <2>. HIDE DEF s
  <2>1. ASSUME l = Len(s)
        PROVE  j = 1
    <3>1. 1 \in 1 .. Len(s) /\ s[1] = s[j]
      BY <1>3, <1>4, <2>1 DEF RightOf, s
    <3>. QED
      BY <1>2, <3>1 DEF Injective, s
  <2>2. ASSUME l # Len(s)
        PROVE  j = l + 1
    <3>1. l + 1 \in 1 .. Len(s) /\ s[l + 1] = s[j]
      BY <1>3, <1>4, <2>2 DEF RightOf, s
    <3>. QED
      BY <1>2, <3>1 DEF Injective, s
  <2>. QED
    BY <2>1, <2>2
<1>6. i = l \/ i < l
  <2>. HIDE DEF s
  <2>1. i \in 1 .. Len(s) /\ j \in 1 .. Len(s)
    BY DEF s
  <2>. QED
    BY <1>3, <1>5, <2>1
<1>7. CASE i = l
  BY <1>4, <1>7
<1>8. CASE i < l
  <2>1. l # 1 /\ 1 \in 1 .. Len(s)
    <3>. HIDE DEF s
    <3>1. i \in 1 .. Len(s)
      BY DEF s
    <3>. QED
      BY <1>3, <1>8, <3>1
  <2>2. p # Root(p)
    BY <1>2, <1>4, <2>1 DEF Injective
  <2>3. Got(p)
    BY <2>2 DEF PassedOn, Got
  <2>. QED
    BY <1>1, <1>2, <1>4, <1>8, <2>3, Parts DEF RingInv
<1>. QED
  BY <1>6, <1>7, <1>8

(* A task receives it from its left neighbour.                             *)
LEMMA RecvTokenStep ==
  ASSUME mpi_size > 1, IInv, NEW r \in Ranks, RecvToken(r)
  PROVE  IInv'
<1>. DEFINE y == IF Root(r) = r THEN "chain" ELSE "send"
<1>0. NetIs /\ HostInv /\ PlaceInv /\ ListInv /\ RanksInv /\ LogInv /\ RingInv
  BY Parts
<1>1. /\ step[r] = "wait" /\ net[<<topo[r].intra_left, r>>] # <<>>
      /\ net' = Received(topo[r].intra_left, r)
      /\ step' = [step EXCEPT ![r] = IF IsRoot(r) THEN "chain" ELSE "send"]
      /\ UNCHANGED <<rest, tmp, log>>
  BY DEF RecvToken, Recv, GoOn
<1>2. at[r] = "done" /\ Cardinality(OnHost(r)) # 1
  BY <1>0, <1>1 DEF LogInv
<1>3. Cardinality(OnHost(r)) > 1
  BY <1>2, HostSize
<1>4. topo[r].intra_root = Root(r) /\ ListOf(Root(r), local_ranks[Root(r)])
  BY <1>2, ReturnedAll, ReturnedRing
<1>5. step' = [step EXCEPT ![r] = y]
  BY <1>1, <1>4 DEF IsRoot
<1>6. PICK m \in Ranks : topo[r].intra_left = m /\ m # r /\ Follows(r, m)
  BY <1>2, <1>3, ReturnedNeighbours
<1>7. y \in {"chain", "send"} /\ (Root(r) = r => y = "chain") /\ (Root(r) # r => y = "send")
  OBVIOUS
<1>. HIDE DEF y
<1>8. Moves(r, y)
  BY <1>1, <1>5, <1>7 DEF Moves, Steps
<1>9. /\ \A p, q \in Ranks : FirstKept(p, q) /\ SecondKept(p, q)
      /\ step'[r] = y /\ \A q \in Ranks : q # r => step'[q] = step[q]
      /\ \A q \in Ranks : Root(q)' = Root(q)
      /\ \A q \in Ranks : q # r =>
           (PassedOn(q)' <=> PassedOn(q)) /\ (Got(q)' <=> Got(q)) /\ (HadTurn(q)' <=> HadTurn(q))
      /\ local_ranks' = local_ranks /\ local_roots' = local_roots
  BY <1>8, MoveFacts
<1>10. (PassedOn(r)' <=> PassedOn(r)) /\ ~Got(r) /\ Got(r)'
  BY <1>1, <1>7, <1>9 DEF PassedOn, Got
<1>11. ~HadTurn(r) /\ ~HadTurn(r)' /\ step[r] # "end" /\ step'[r] # "end"
  BY <1>1, <1>7, <1>9 DEF HadTurn
<1>12. First(m, r) = <<>> /\ Second(m, r) = <<>>
  BY <1>2, ReturnedQueue
<1>13. ~NextRoot(m, r)
  BY <1>0, <1>6, RootsFollow
<1>14. ~TurnIn(m, r) /\ ~TurnIn(m, r)'
  BY <1>9, <1>13 DEF TurnIn, NextRoot
<1>15. TokenIn(m, r) /\ Third(m, r) = <<0>>
  <2>1. ASSUME ~TokenIn(m, r)
        PROVE  FALSE
    <3>1. Third(m, r) = <<>>
      BY <1>14, <2>1 DEF Third, Opt
    <3>. QED
      BY <1>0, <1>1, <1>6, <1>12, <3>1, HeadOfQueue
  <2>. QED
    BY <2>1 DEF Third, Opt
<1>16. NetIs'
  <2>1. ASSUME NEW p \in Ranks, NEW q \in Ranks, p # m \/ q # r
        PROVE  ThirdKept(p, q)
    <3>1. q = r => ~Follows(q, p)
      <4>1. ListOf(Root(m), local_ranks[Root(m)])
        BY <1>4, <1>6 DEF Follows
      <4>. QED
        BY <1>6, <2>1, <4>1, FollowsUnique
    <3>2. Follows(q, p) => (PassedOn(p)' <=> PassedOn(p)) /\ (Got(q)' <=> Got(q))
      BY <1>9, <1>10, <3>1
    <3>3. (step'[p] = "end" <=> step[p] = "end") /\ (HadTurn(q)' <=> HadTurn(q))
      BY <1>9, <1>11
    <3>. QED
      BY <1>8, <3>2, <3>3, MoveThird
  <2>2. Third(m, r)' = <<>>
    BY <1>10, <1>14 DEF Third, TokenIn, Opt
  <2>3. \A p, q \in Ranks : p # m \/ q # r => Kept(p, q)
    BY <1>9, <2>1 DEF Kept
  <2>4. net' = Received(m, r)
    BY <1>1, <1>6
  <2>. QED
    BY <1>0, <1>9, <1>12, <1>15, <2>2, <2>3, <2>4, NetReceived
<1>17. LogInv'
  BY <1>1, <1>2, <1>7, <1>8, MoveLog
<1>18. RingInv'
  <2>1. SUFFICES ASSUME NEW k \in Ranks, NEW p \in Ranks, NEW q \in Ranks,
                        NEW i \in 1 .. Len(local_ranks[k]), NEW j \in 1 .. Len(local_ranks[k]),
                        Root(k) = k, local_ranks[k][i] = p, local_ranks[k][j] = q,
                        j = 1 \/ i < j, Got(q)'
                 PROVE  PassedOn(p)
    BY <1>9, <1>10 DEF RingInv
  <2>2. CASE q # r
    BY <1>0, <1>9, <2>1, <2>2 DEF RingInv
  <2>3. CASE q = r
    <3>1. local_ranks[k] # <<>> /\ Collects(k, r)
      BY <2>1, <2>3 DEF Collects
    <3>2. k = Root(r)
      BY <1>0, <2>1, <3>1 DEF RanksInv, RanksOk
    <3>3. PassedOn(m)
      BY <1>15 DEF TokenIn
    <3>. QED
      BY <1>2, <1>6, <2>1, <2>3, <3>2, <3>3, PassedBefore
  <2>. QED
    BY <2>2, <2>3
<1>19. TurnInv'
  BY <1>8, <1>11, MoveTurn
<1>20. FilesInv'
  BY <1>1, <1>7, <1>8, MoveFiles
<1>. QED
  BY <1>8, <1>16, <1>17, <1>18, <1>19, <1>20, LogStepInv

(* What a root keeps of the ring of roots.                                 *)
LEMMA ReturnedRoot ==
  ASSUME IInv, NEW r \in Ranks, at[r] = "done", Root(r) = r
  PROVE  /\ nhosts[r] = Len(local_roots) /\ Len(local_roots) \in Nat \ {0}
         /\ topo[r].inter_left = LeftRoot(r) /\ topo[r].inter_right = RightRoot(r)
         /\ r # 0 => /\ Len(local_roots) > 1
                     /\ \E m \in Ranks : LeftRoot(r) = m /\ NextRoot(m, r)
         /\ Len(local_roots) > 1 /\ RightRoot(r) # 0 =>
              \E m \in Ranks : RightRoot(r) = m /\ NextRoot(r, m)
         /\ Len(local_roots) = 1 \/ RightRoot(r) = 0 => \A m \in Ranks : ~NextRoot(r, m)
<1>. DEFINE s == local_roots
<1>0. HostInv /\ ListInv /\ BcastInv
  BY Parts
<1>1. nhosts[r] = Len(s)
  BY <1>0 DEF BcastInv, BcastOk
<1>2. /\ Len(s) \in Nat \ {0} /\ s[1] = 0 /\ Injective(s)
      /\ \A k \in 1 .. Len(s) : s[k] \in Ranks
  BY <1>0, RootList
<1>3. topo[r].inter_left = LeftRoot(r) /\ topo[r].inter_right = RightRoot(r)
  BY ReturnedAll, ReturnedRing
<1>4. PICK j \in 1 .. Len(s) : s[j] = r
  BY <1>0, ReturnedAll DEF ListInv
<1>5. /\ LeftRoot(r) = IF j = 1 THEN s[Len(s)] ELSE s[j - 1]
      /\ RightRoot(r) = IF Len(s) = 1 THEN -1 ELSE RightOf(s, j)
  BY <1>0, <1>4, RootNeighbours
<1>6. ASSUME r # 0
      PROVE  Len(s) > 1 /\ \E m \in Ranks : LeftRoot(r) = m /\ NextRoot(m, r)
  <2>1. j # 1
    BY <1>2, <1>4, <1>6
  <2>. HIDE DEF s
  <2>2. Len(s) > 1 /\ j - 1 \in 1 .. Len(s) /\ j - 1 \in 1 .. Len(s) - 1 /\ j - 1 + 1 = j
    BY <1>2, <2>1
  <2>3. LeftRoot(r) = s[j - 1] /\ s[j - 1] \in Ranks
    BY <1>2, <1>5, <2>1, <2>2
  <2>. QED
    BY <1>4, <2>2, <2>3 DEF NextRoot, s
<1>7. ASSUME Len(s) > 1, RightRoot(r) # 0
      PROVE  \E m \in Ranks : RightRoot(r) = m /\ NextRoot(r, m)
  <2>. HIDE DEF s
  <2>1. RightRoot(r) = RightOf(s, j)
    BY <1>5, <1>7
  <2>2. j # Len(s)
    BY <1>2, <1>7, <2>1 DEF RightOf
  <2>3. RightRoot(r) = s[j + 1]
    BY <2>1, <2>2 DEF RightOf
  <2>4. j + 1 \in 1 .. Len(s) /\ j \in 1 .. Len(s) - 1
    BY <1>2, <2>2
  <2>. QED
    BY <1>2, <1>4, <2>3, <2>4 DEF NextRoot, s
<1>8. ASSUME Len(s) = 1 \/ RightRoot(r) = 0, NEW m \in Ranks, NextRoot(r, m)
      PROVE  FALSE
  <2>1. PICK i \in 1 .. Len(s) - 1 : s[i] = r /\ s[i + 1] = m
    BY <1>8 DEF NextRoot
  <2>. HIDE DEF s
  <2>2. i \in 1 .. Len(s) /\ i + 1 \in 1 .. Len(s) /\ Len(s) # 1 /\ i # Len(s) /\ i + 1 # 1
    BY <1>2
  <2>3. i = j
    BY <1>2, <1>4, <2>1, <2>2 DEF Injective
  <2>4. RightRoot(r) = s[i + 1]
    BY <1>5, <2>2, <2>3 DEF RightOf
  <2>5. 1 \in 1 .. Len(s)
    BY <1>2
  <2>6. s[i + 1] # s[1]
    BY <1>2, <2>2, <2>5 DEF Injective
  <2>. QED
    BY <1>2, <1>8, <2>2, <2>4, <2>6
<1>. QED
  BY <1>1, <1>2, <1>3, <1>6, <1>7, <1>8

(* A root appends the files of its host to the log: all of them are there, *)
(* and none has been appended.                                             *)
LEMMA CatStep ==
  ASSUME mpi_size > 1, IInv, NEW r \in Ranks, Cat(r)
  PROVE  IInv'
<1>. DEFINE y == "rm"
<1>0. NetIs /\ HostInv /\ PlaceInv /\ ListInv /\ LogInv /\ FilesInv
  BY Parts
<1>1. /\ step[r] = "cat" /\ step' = [step EXCEPT ![r] = y]
      /\ log' = [q \in Ranks |-> IF q \in tmp \cap OnHost(r) THEN log[q] + 1 ELSE log[q]]
      /\ UNCHANGED <<rest, net, tmp>>
  BY DEF Cat, GoOn
<1>2. Root(r) = r /\ at[r] = "done"
  BY <1>0, <1>1 DEF LogInv
<1>3. Moves(r, y)
  BY <1>1 DEF Moves, Steps
<1>4. /\ \A p, q \in Ranks : FirstKept(p, q) /\ SecondKept(p, q)
      /\ step'[r] = y /\ \A q \in Ranks : q # r => step'[q] = step[q]
      /\ \A q \in Ranks : Root(q)' = Root(q)
      /\ \A q \in Ranks : q # r =>
           (PassedOn(q)' <=> PassedOn(q)) /\ (Got(q)' <=> Got(q)) /\ (HadTurn(q)' <=> HadTurn(q))
  BY <1>3, MoveFacts
<1>5. /\ PassedOn(r) /\ PassedOn(r)' /\ Got(r) /\ Got(r)' /\ HadTurn(r) /\ HadTurn(r)'
      /\ step[r] # "end" /\ step'[r] # "end"
  BY <1>1, <1>2, <1>4 DEF PassedOn, Got, HadTurn
<1>6. NetIs'
  <2>1. \A p, q \in Ranks : ThirdKept(p, q)
    <3>1. ASSUME NEW p \in Ranks, NEW q \in Ranks
          PROVE  ThirdKept(p, q)
      <4>1. (PassedOn(p)' <=> PassedOn(p)) /\ (Got(q)' <=> Got(q))
        BY <1>4, <1>5
      <4>2. (step'[p] = "end" <=> step[p] = "end") /\ (HadTurn(q)' <=> HadTurn(q))
        BY <1>4, <1>5
      <4>. QED
        BY <1>3, <4>1, <4>2, MoveThird
    <3>. QED
      BY <3>1
  <2>. QED
    BY <1>0, <1>1, <1>4, <2>1, NetKept DEF Kept
<1>7. LogInv'
  BY <1>1, <1>2, <1>3, MoveLog
<1>8. RingInv'
  BY <1>3, <1>5, MoveRing
<1>9. TurnInv'
  BY <1>3, <1>5, MoveTurn
<1>10. FilesInv'
  <2>1. \A q \in Ranks : Root(q) = r => q \in tmp /\ q \in OnHost(r)
    <3>1. ASSUME NEW q \in Ranks, Root(q) = r
          PROVE  q \in tmp /\ q \in OnHost(r)
      <4>1. PassedOn(q)
        BY <1>2, <1>5, <3>1, RootGot
      <4>2. step[q] # "before"
        BY <4>1 DEF PassedOn
      <4>3. q \in OnHost(r)
        BY <1>2, <3>1, RootFacts
      <4>. QED
        BY <1>0, <1>1, <3>1, <4>2, <4>3 DEF FilesInv
    <3>. QED
      BY <3>1
  <2>2. \A q \in Ranks : Root(q) # r => q \notin OnHost(r)
    BY <1>2, RootFacts
  <2>3. ASSUME NEW q \in Ranks
        PROVE  /\ step'[Root(q)] \in {"pass", "end"} <=> step[Root(q)] \in {"pass", "end"}
               /\ step'[q] # "before" <=> step[q] # "before"
               /\ log'[q] = IF step'[Root(q)] \in {"rm", "pass", "end"} THEN 1 ELSE 0
    <3>1. Root(q) \in Ranks
      BY RootFacts
    <3>2. log[q] = IF step[Root(q)] \in {"rm", "pass", "end"} THEN 1 ELSE 0
      BY <1>0 DEF FilesInv
    <3>3. CASE Root(q) = r
      BY <1>1, <1>4, <2>1, <3>2, <3>3
    <3>4. CASE Root(q) # r
      BY <1>1, <1>4, <2>2, <3>1, <3>2, <3>4
    <3>. QED
      BY <3>3, <3>4
  <2>4. tmp' = {q \in Ranks : step'[q] # "before" /\ step'[Root(q)'] \notin {"pass", "end"}}
    BY <1>0, <1>1, <1>4, <2>3 DEF FilesInv
  <2>5. log' = [q \in Ranks |-> IF step'[Root(q)'] \in {"rm", "pass", "end"} THEN 1 ELSE 0]
    BY <1>1, <1>4, <2>3
  <2>. QED
    BY <2>4, <2>5 DEF FilesInv
<1>. QED
  BY <1>3, <1>6, <1>7, <1>8, <1>9, <1>10, LogStepInv

(* It removes them.                                                        *)
LEMMA RemoveStep ==
  ASSUME mpi_size > 1, IInv, NEW r \in Ranks, Remove(r)
  PROVE  IInv'
<1>. DEFINE last == Len(local_roots) = 1 \/ RightRoot(r) = 0
            y == IF last THEN "end" ELSE "pass"
<1>0. NetIs /\ HostInv /\ PlaceInv /\ ListInv /\ LogInv /\ TurnInv /\ FilesInv
  BY Parts
<1>1. /\ step[r] = "rm" /\ tmp' = tmp \ OnHost(r)
      /\ step' = [step EXCEPT ![r] =
                    IF nhosts[r] > 1 /\ topo[r].inter_right # 0 THEN "pass" ELSE "end"]
      /\ UNCHANGED <<rest, net, log>>
  BY DEF Remove, GoOn
<1>2. Root(r) = r /\ at[r] = "done"
  BY <1>0, <1>1 DEF LogInv
<1>3. /\ nhosts[r] = Len(local_roots) /\ Len(local_roots) \in Nat \ {0}
      /\ topo[r].inter_right = RightRoot(r) /\ (last => \A m \in Ranks : ~NextRoot(r, m))
  BY <1>2, ReturnedRoot
<1>4. /\ last => ~(nhosts[r] > 1 /\ topo[r].inter_right # 0)
      /\ ~last => nhosts[r] > 1 /\ topo[r].inter_right # 0
  <2>1. PICK hosts : hosts = Len(local_roots)
    OBVIOUS
  <2>2. hosts \in Nat \ {0} /\ nhosts[r] = hosts
    BY <1>3, <2>1
  <2>3. hosts > 1 <=> hosts # 1
    BY <2>2
  <2>4. CASE hosts = 1
    BY <1>3, <2>1, <2>2, <2>3, <2>4
  <2>5. CASE hosts # 1
    <3>1. nhosts[r] > 1
      BY <2>2, <2>3, <2>5
    <3>2. Len(local_roots) # 1
      BY <2>1, <2>5
    <3>3. CASE RightRoot(r) = 0
      BY <1>3, <3>3
    <3>4. CASE RightRoot(r) # 0
      BY <1>3, <3>1, <3>2, <3>4
    <3>. QED
      BY <3>3, <3>4
  <2>. QED
    BY <2>4, <2>5
<1>5. step' = [step EXCEPT ![r] = y]
  <2>1. CASE last
    BY <1>1, <1>4, <2>1
  <2>2. CASE ~last
    BY <1>1, <1>4, <2>2
  <2>. QED
    BY <2>1, <2>2
<1>6. /\ y \in {"pass", "end"}
      /\ y = "pass" => RightRoot(r) # 0 /\ Len(local_roots) > 1
      /\ y = "end" => last
  <2>1. CASE last
    BY <2>1
  <2>2. CASE ~last
    <3>1. RightRoot(r) # 0 /\ Len(local_roots) > 1
      BY <1>3, <1>4, <2>2
    <3>. QED
      BY <2>2, <3>1
  <2>. QED
    BY <2>1, <2>2
<1>. HIDE DEF y, last
<1>7. Moves(r, y)
  BY <1>1, <1>5, <1>6 DEF Moves, Steps
<1>8. /\ \A p, q \in Ranks : FirstKept(p, q) /\ SecondKept(p, q)
      /\ step'[r] = y /\ \A q \in Ranks : q # r => step'[q] = step[q]
      /\ \A q \in Ranks : Root(q)' = Root(q)
      /\ \A q \in Ranks : q # r =>
           (PassedOn(q)' <=> PassedOn(q)) /\ (Got(q)' <=> Got(q)) /\ (HadTurn(q)' <=> HadTurn(q))
  BY <1>7, MoveFacts
<1>9. /\ PassedOn(r) /\ PassedOn(r)' /\ Got(r) /\ Got(r)' /\ HadTurn(r) /\ HadTurn(r)'
      /\ step[r] # "end"
  BY <1>1, <1>2, <1>6, <1>8 DEF PassedOn, Got, HadTurn
<1>10. NetIs'
  <2>1. ASSUME NEW p \in Ranks, NEW q \in Ranks
        PROVE  ThirdKept(p, q)
    <3>1. (PassedOn(p)' <=> PassedOn(p)) /\ (Got(q)' <=> Got(q)) /\ (HadTurn(q)' <=> HadTurn(q))
      BY <1>8, <1>9
    <3>2. NextRoot(p, q) => (step'[p] = "end" <=> step[p] = "end")
      BY <1>3, <1>6, <1>8, <1>9
    <3>. QED
      BY <1>7, <3>1, <3>2, MoveThird
  <2>. QED
    BY <1>0, <1>1, <1>8, <2>1, NetKept DEF Kept
<1>11. LogInv'
  BY <1>1, <1>2, <1>6, <1>7, MoveLog
<1>12. RingInv'
  BY <1>7, <1>9, MoveRing
<1>13. TurnInv'
  BY <1>7, <1>9, MoveTurn
<1>14. FilesInv'
  <2>1. \A q \in Ranks : q \in OnHost(r) <=> Root(q) = r
    BY <1>2, RootFacts
  <2>2. ASSUME NEW q \in Ranks
        PROVE  /\ step'[Root(q)] \in {"pass", "end"} <=> step[Root(q)] \in {"pass", "end"} \/ Root(q) = r
               /\ step'[q] # "before" <=> step[q] # "before"
               /\ step'[Root(q)] \in {"rm", "pass", "end"} <=> step[Root(q)] \in {"rm", "pass", "end"}
    <3>1. Root(q) \in Ranks
      BY RootFacts
    <3>. QED
      BY <1>1, <1>6, <1>8, <3>1
  <2>3. tmp' = {q \in Ranks : step'[q] # "before" /\ step'[Root(q)'] \notin {"pass", "end"}}
    BY <1>0, <1>1, <1>8, <2>1, <2>2 DEF FilesInv
  <2>4. log' = [q \in Ranks |-> IF step'[Root(q)'] \in {"rm", "pass", "end"} THEN 1 ELSE 0]
    BY <1>0, <1>1, <1>8, <2>2 DEF FilesInv
  <2>. QED
    BY <2>3, <2>4 DEF FilesInv
<1>. QED
  BY <1>7, <1>10, <1>11, <1>12, <1>13, <1>14, LogStepInv

(* The turn comes to a root after all roots before it.                     *)
LEMMA TurnBefore ==
  ASSUME HostInv, ListInv, TurnInv, NEW m \in Ranks, NEW r \in Ranks, NextRoot(m, r),
         step[m] = "end",
         NEW i \in 1 .. Len(local_roots), NEW j \in 1 .. Len(local_roots),
         local_roots[j] = r, i < j
  PROVE  step[local_roots[i]] = "end"
<1>1. PICK k \in 1 .. Len(local_roots) - 1 : local_roots[k] = m /\ local_roots[k + 1] = r
  BY DEF NextRoot
<1>2. /\ Len(local_roots) \in Nat \ {0} /\ Injective(local_roots)
      /\ \A l \in 1 .. Len(local_roots) : local_roots[l] \in Ranks
  BY RootList
<1>3. k \in 1 .. Len(local_roots) /\ k + 1 \in 1 .. Len(local_roots)
  BY <1>2
<1>4. j = k + 1
  BY <1>1, <1>2, <1>3 DEF Injective
<1>5. i = k \/ i < k
  BY <1>2, <1>4
<1>6. CASE i = k
  BY <1>1, <1>6
<1>7. CASE i < k
  <2>1. HadTurn(m)
    BY DEF HadTurn
  <2>. QED
    BY <1>1, <1>2, <1>3, <1>7, <2>1 DEF TurnInv
<1>. QED
  BY <1>5, <1>6, <1>7

(* The first root has none before it.                                      *)
LEMMA NoneBefore ==
  ASSUME HostInv, ListInv,
         NEW i \in 1 .. Len(local_roots), NEW j \in 1 .. Len(local_roots),
         local_roots[j] = 0
  PROVE  ~(i < j)
<1>1. /\ Len(local_roots) \in Nat \ {0} /\ Injective(local_roots) /\ local_roots[1] = 0
  BY RootList
<1>2. 1 \in 1 .. Len(local_roots)
  BY <1>1
<1>3. j = 1
  BY <1>1, <1>2 DEF Injective
<1>. QED
  BY <1>1, <1>3

(* A root other than 0 waits for its turn.                                 *)
LEMMA ChainStep ==
  ASSUME mpi_size > 1, IInv, NEW r \in Ranks, Chain(r)
  PROVE  IInv'
<1>. DEFINE y == "cat"
<1>0. NetIs /\ HostInv /\ PlaceInv /\ ListInv /\ LogInv /\ TurnInv
  BY Parts
<1>1. /\ step[r] = "chain" /\ step' = [step EXCEPT ![r] = y]
      /\ UNCHANGED <<rest, tmp, log>>
  BY DEF Chain, GoOn
<1>2. Root(r) = r /\ at[r] = "done"
  BY <1>0, <1>1 DEF LogInv
<1>3. y \in {"cat"}
  OBVIOUS
<1>4. Moves(r, y)
  BY <1>1 DEF Moves, Steps
<1>. HIDE DEF y
<1>5. /\ \A p, q \in Ranks : FirstKept(p, q) /\ SecondKept(p, q)
      /\ step'[r] = y /\ \A q \in Ranks : q # r => step'[q] = step[q]
      /\ \A q \in Ranks : Root(q)' = Root(q)
      /\ \A q \in Ranks : q # r =>
           (PassedOn(q)' <=> PassedOn(q)) /\ (Got(q)' <=> Got(q)) /\ (HadTurn(q)' <=> HadTurn(q))
      /\ local_roots' = local_roots
  BY <1>4, MoveFacts
<1>6. /\ PassedOn(r) /\ PassedOn(r)' /\ Got(r) /\ Got(r)' /\ ~HadTurn(r) /\ HadTurn(r)'
      /\ step[r] # "end" /\ step'[r] # "end"
  BY <1>1, <1>2, <1>3, <1>5 DEF PassedOn, Got, HadTurn
<1>7. ASSUME NEW p \in Ranks, NEW q \in Ranks, ~NextRoot(p, q) \/ q # r
      PROVE  ThirdKept(p, q)
  <2>1. (PassedOn(p)' <=> PassedOn(p)) /\ (Got(q)' <=> Got(q))
    BY <1>5, <1>6
  <2>2. NextRoot(p, q) => (step'[p] = "end" <=> step[p] = "end") /\ (HadTurn(q)' <=> HadTurn(q))
    BY <1>5, <1>6, <1>7
  <2>. QED
    BY <1>4, <2>1, <2>2, MoveThird
<1>8. /\ nhosts[r] = Len(local_roots) /\ topo[r].inter_left = LeftRoot(r)
      /\ r # 0 => Len(local_roots) > 1 /\ \E m \in Ranks : LeftRoot(r) = m /\ NextRoot(m, r)
  BY <1>2, ReturnedRoot
<1>9. NetIs' /\ \A i, j \in 1 .. Len(local_roots) :
        local_roots[j] = r /\ i < j => step[local_roots[i]] = "end"
  <2>1. CASE r = 0
    <3>1. net' = net
      BY <1>0, <2>1 DEF Chain, Waits
    <3>2. \A p, q \in Ranks : NextRoot(p, q) => q # r
      BY <1>0, <2>1, RootsFollow
    <3>3. \A p, q \in Ranks : Kept(p, q)
      BY <1>5, <1>7, <3>2 DEF Kept
    <3>4. \A i, j \in 1 .. Len(local_roots) : ~(local_roots[j] = r /\ i < j)
      BY <1>0, <2>1, NoneBefore
    <3>. QED
      BY <1>0, <3>1, <3>3, <3>4, NetKept
  <2>2. CASE r # 0
    <3>1. PICK m \in Ranks : LeftRoot(r) = m /\ NextRoot(m, r)
      BY <1>8, <2>2
    <3>2. Waits(r)
      BY <1>8, <2>2 DEF Waits
    <3>3. net[<<m, r>>] # <<>> /\ net' = Received(m, r)
      BY <1>8, <3>1, <3>2 DEF Chain, Recv
    <3>4. First(m, r) = <<>> /\ Second(m, r) = <<>>
      BY <1>2, ReturnedQueue
    <3>5. ~Follows(r, m)
      BY <1>0, <3>1, RootsFollow
    <3>6. ~TokenIn(m, r) /\ ~TurnIn(m, r)'
      BY <1>6, <3>5 DEF TokenIn, TurnIn
    <3>7. TurnIn(m, r)
      <4>1. ASSUME ~TurnIn(m, r)
            PROVE  FALSE
        <5>1. Third(m, r) = <<>>
          BY <3>6, <4>1 DEF Third, Opt
        <5>. QED
          BY <1>0, <3>3, <3>4, <5>1, HeadOfQueue
      <4>. QED
        BY <4>1
    <3>8. step[m] = "end" /\ Third(m, r) = <<0>>
      BY <3>7 DEF TurnIn, Third, Opt
    <3>9. ~TokenIn(m, r)'
      <4>1. Got(r)'
        BY <1>6
      <4>. QED
        BY <4>1 DEF TokenIn
    <3>10. Third(m, r)' = <<>>
      BY <3>6, <3>9 DEF Third, Opt
    <3>11. ASSUME NEW p \in Ranks, NEW q \in Ranks, p # m \/ q # r
           PROVE  Kept(p, q)
      <4>1. NextRoot(p, q) => q # r
        BY <1>0, <3>1, <3>11, RootsFollowUnique
      <4>. QED
        BY <1>5, <1>7, <4>1 DEF Kept
    <3>12. FirstKept(m, r) /\ SecondKept(m, r)
      BY <1>5
    <3>13. NetIs'
      BY <1>0, <3>3, <3>4, <3>8, <3>10, <3>11, <3>12, NetReceived
    <3>. QED
      BY <1>0, <3>1, <3>8, <3>13, TurnBefore
  <2>. QED
    BY <2>1, <2>2
<1>10. LogInv'
  BY <1>1, <1>2, <1>3, <1>4, MoveLog
<1>11. RingInv'
  BY <1>4, <1>6, MoveRing
<1>12. TurnInv'
  <2>1. SUFFICES ASSUME NEW p \in Ranks, NEW q \in Ranks,
                        NEW i \in 1 .. Len(local_roots), NEW j \in 1 .. Len(local_roots),
                        local_roots[i] = p, local_roots[j] = q, i < j, HadTurn(q)'
                 PROVE  step'[p] = "end"
    BY <1>5 DEF TurnInv
  <2>2. step[p] = "end"
    <3>1. CASE q = r
      BY <1>9, <2>1, <3>1
    <3>2. CASE q # r
      BY <1>0, <1>5, <2>1, <3>2 DEF TurnInv
    <3>. QED
      BY <3>1, <3>2
  <2>. QED
    BY <1>5, <1>6, <2>2
<1>13. FilesInv'
  BY <1>1, <1>3, <1>4, MoveFiles
<1>. QED
  BY <1>4, <1>9, <1>10, <1>11, <1>12, <1>13, LogStepInv

(* It passes the turn on to the next root.                                 *)
LEMMA PassStep ==
  ASSUME mpi_size > 1, IInv, NEW r \in Ranks, Pass(r)
  PROVE  IInv'
<1>. DEFINE y == "end"
<1>0. NetIs /\ HostInv /\ PlaceInv /\ ListInv /\ LogInv /\ TurnInv
  BY Parts
<1>1. /\ step[r] = "pass" /\ step' = [step EXCEPT ![r] = y]
      /\ net' = Sent(net, r, topo[r].inter_right, 0)
      /\ UNCHANGED <<rest, tmp, log>>
  BY DEF Pass, Send, GoOn
<1>2. Root(r) = r /\ at[r] = "done" /\ RightRoot(r) # 0 /\ Len(local_roots) > 1
  BY <1>0, <1>1 DEF LogInv
<1>3. PICK m \in Ranks : RightRoot(r) = m /\ NextRoot(r, m)
  BY <1>2, ReturnedRoot
<1>4. net' = Sent(net, r, m, 0)
  BY <1>1, <1>2, <1>3, ReturnedRoot
<1>5. y \in {"end"}
  OBVIOUS
<1>6. Moves(r, y)
  BY <1>1 DEF Moves, Steps
<1>7. y = "end"
  OBVIOUS
<1>. HIDE DEF y
<1>8. /\ \A p, q \in Ranks : FirstKept(p, q) /\ SecondKept(p, q)
      /\ step'[r] = y /\ \A q \in Ranks : q # r => step'[q] = step[q]
      /\ \A q \in Ranks : Root(q)' = Root(q)
      /\ \A q \in Ranks : q # r =>
           (PassedOn(q)' <=> PassedOn(q)) /\ (Got(q)' <=> Got(q)) /\ (HadTurn(q)' <=> HadTurn(q))
      /\ local_roots' = local_roots
  BY <1>6, MoveFacts
<1>9. /\ PassedOn(r) /\ PassedOn(r)' /\ Got(r) /\ Got(r)' /\ HadTurn(r) /\ HadTurn(r)'
      /\ step[r] # "end" /\ step'[r] = "end"
  BY <1>1, <1>2, <1>7, <1>8 DEF PassedOn, Got, HadTurn
<1>10. ~HadTurn(m)
  <2>1. PICK j \in 1 .. Len(local_roots) - 1 : local_roots[j] = r /\ local_roots[j + 1] = m
    BY <1>3 DEF NextRoot
  <2>2. Len(local_roots) \in Nat \ {0}
    BY <1>0, RootList
  <2>3. j \in 1 .. Len(local_roots) /\ j + 1 \in 1 .. Len(local_roots) /\ j < j + 1
    BY <2>2
  <2>4. PICK k \in 1 .. Len(local_roots) : local_roots[k] = m /\ j < k
    BY <2>1, <2>3
  <2>. QED
    BY <1>0, <1>9, <2>1, <2>3, <2>4 DEF TurnInv
<1>11. ~HadTurn(m)' /\ m # r
  BY <1>8, <1>9, <1>10
<1>12. ~Follows(m, r)
  BY <1>0, <1>3, RootsFollow
<1>13. NetIs'
  <2>1. ~TokenIn(r, m) /\ ~TurnIn(r, m)
    BY <1>9, <1>12 DEF TokenIn, TurnIn
  <2>2. Third(r, m) = <<>>
    BY <2>1 DEF Third, Opt
  <2>3. TurnIn(r, m)'
    BY <1>3, <1>8, <1>9, <1>11 DEF TurnIn, NextRoot
  <2>4. Third(r, m)' = <<0>>
    BY <2>3 DEF Third, Opt
  <2>5. ASSUME NEW p \in Ranks, NEW q \in Ranks, p # r \/ q # m
        PROVE  Kept(p, q)
    <3>1. (PassedOn(p)' <=> PassedOn(p)) /\ (Got(q)' <=> Got(q)) /\ (HadTurn(q)' <=> HadTurn(q))
      BY <1>8, <1>9
    <3>2. NextRoot(p, q) => p # r
      BY <1>0, <1>3, <2>5, RootsFollowUnique
    <3>3. NextRoot(p, q) => (step'[p] = "end" <=> step[p] = "end")
      BY <1>8, <3>2
    <3>4. ThirdKept(p, q)
      BY <1>6, <3>1, <3>3, MoveThird
    <3>. QED
      BY <1>8, <3>4 DEF Kept
  <2>6. FirstKept(r, m) /\ SecondKept(r, m)
    BY <1>8
  <2>. QED
    BY <1>0, <1>4, <2>2, <2>4, <2>5, <2>6, NetSent
<1>14. LogInv'
  BY <1>1, <1>2, <1>5, <1>6, MoveLog
<1>15. RingInv'
  BY <1>6, <1>9, MoveRing
<1>16. TurnInv'
  BY <1>6, <1>9, MoveTurn
<1>17. FilesInv'
  BY <1>1, <1>5, <1>6, MoveFiles
<1>. QED
  BY <1>6, <1>13, <1>14, <1>15, <1>16, <1>17, LogStepInv

-----------------------------------------------------------------------------
(***************************************************************************)
(* The invariant in every state.                                           *)
(***************************************************************************)

(* Nothing of what IInv says is changed when a send returns.               *)
LEMMA StutterStep ==
  ASSUME IInv, UNCHANGED <<rest, net, log_vars>>
  PROVE  IInv'
<1>0. NetIs /\ HostInv /\ ListInv /\ RanksInv /\ LogPart /\ TopoPart
  BY Parts DEF IInv
<1>1. TopoPart' /\ \A p, q \in Ranks : FirstKept(p, q) /\ SecondKept(p, q)
  BY <1>0, TopoPartKept
<1>2. /\ host' = host /\ at' = at /\ local_roots' = local_roots /\ local_ranks' = local_ranks
      /\ net' = net
  BY DEF rest, root_vars
<1>3. RingsKept
  BY <1>2 DEF RingsKept
<1>4. LogPart'
  BY <1>0, <1>1, <1>2, <1>3, LogPartKept DEF TopoPart
<1>5. NetIs'
  BY <1>0, <1>1, <1>2, <1>3, ThirdKeptBefore, NetKept DEF Kept
<1>. QED
  BY <1>1, <1>4, <1>5 DEF IInv

(* At the start all messages are still to be sent.                         *)
LEMMA InitQueues ==
  ASSUME mpi_size > 1, TmpfsInit
  PROVE  NetIs
<1>1. /\ \A r \in Ranks : at[r] = "enter" /\ step[r] = "before"
      /\ net = [c \in Pairs |-> <<>>]
  BY DEF TmpfsInit, Init
<1>2. at[0] = "enter"
  BY <1>1, RootFacts
<1>3. ASSUME NEW p \in Ranks, NEW q \in Ranks
      PROVE  Queue(p, q) = <<>>
  <2>1. q # 0 => ~Gathered(q)
    BY <1>2, <1>3 DEF Gathered, NGathered, Ranks
  <2>2. First(p, q) = <<>>
    BY <1>1, <2>1 DEF First, Opt
  <2>3. Root(q) \in Ranks
    BY RootFacts
  <2>4. ~Reported(p) /\ ~RingTold(q) /\ ~SizeTold(q)
    BY <1>1, <1>2, <2>3 DEF Reported, RingTold, SizeTold
  <2>5. Second(p, q) = <<>>
    BY <2>4 DEF Second, Opt
  <2>6. ~PassedOn(p) /\ step[p] # "end"
    BY <1>1 DEF PassedOn
  <2>7. Third(p, q) = <<>>
    BY <2>6 DEF Third, TokenIn, TurnIn, Opt
  <2>. QED
    BY <2>2, <2>5, <2>7 DEF Queue
<1>. QED
  BY <1>1, <1>3 DEF NetIs, Pairs

(* ... and the list of task 0 holds itself.                                *)
LEMMA InitList ==
  ASSUME mpi_size > 1, TmpfsInit
  PROVE  ListInv
<1>1. /\ local_roots = <<0>> /\ local_sizes = <<1>> /\ \A r \in Ranks : at[r] = "enter"
  BY DEF TmpfsInit, Init
<1>2. 0 \in Ranks /\ Root(0) = 0 /\ at[0] = "enter"
  BY <1>1, RootFacts
<1>3. \A q \in Ranks : Gathered(q) <=> q = 0
  BY <1>2 DEF Gathered, NGathered, Ranks
<1>4. GatheredOn(0) = {0}
  BY <1>2, <1>3 DEF GatheredOn, OnHost
<1>5. Cardinality(GatheredOn(0)) = 1
  BY <1>4, FS_Singleton
<1>6. local_roots \in Seq(Ranks) /\ local_sizes \in Seq(Nat)
  BY <1>1, <1>2
<1>7. Len(local_roots) = 1 /\ Len(local_sizes) = 1 /\ local_roots[1] = 0 /\ local_sizes[1] = 1
  BY <1>1
<1>8. \A j \in 1 .. Len(local_roots) : j = 1
  BY <1>7
<1>9. \A q \in Ranks : \A j \in 1 .. Len(local_roots) : local_roots[j] = q =>
        Root(q) = q /\ Gathered(q) /\ local_sizes[j] = Cardinality(GatheredOn(q))
  BY <1>2, <1>3, <1>5, <1>7, <1>8
<1>10. 1 \in 1 .. Len(local_roots)
  BY <1>7
<1>11. \A q \in Ranks : Gathered(q) => \E j \in 1 .. Len(local_roots) : local_roots[j] = Root(q)
  BY <1>2, <1>3, <1>7, <1>10
<1>12. \A i, j \in 1 .. Len(local_roots) : i < j => local_roots[i] < local_roots[j]
  BY <1>7
<1>. QED
  BY <1>6, <1>7, <1>9, <1>11, <1>12 DEF ListInv

(* The initial states satisfy the invariant ...                            *)
LEMMA InitInv ==
  ASSUME mpi_size > 1, TmpfsInit
  PROVE  IInv
<1>1. /\ \A r \in Ranks : at[r] = "enter" /\ n[r] = 1 /\ step[r] = "before"
      /\ \A r \in Ranks : local_ranks[r] = <<>> /\ ops[r] = <<>> /\ inside[r] = FALSE
      /\ host \in [Ranks -> Hosts] /\ tmp = {} /\ log = [r \in Ranks |-> 0]
  BY DEF TmpfsInit, Init, InitCollectives
<1>2. at[0] = "enter" /\ 0 \in Ranks
  BY <1>1, RootFacts
<1>3. HostInv
  BY <1>1 DEF HostInv
<1>4. PlaceInv
  <2>1. at \in [Ranks -> Places]
    <3>1. "enter" \in Places
      BY DEF Places
    <3>. QED
      BY <3>1 DEF TmpfsInit, Init
  <2>2. n \in [Ranks -> Nat]
    BY DEF TmpfsInit, Init
  <2>. QED
    BY <1>1, <2>1, <2>2 DEF PlaceInv, PlaceOk
<1>5. ListInv
  BY InitList
<1>6. \A r \in Ranks : ~KnowsRoot(r) /\ ~KnowsSize(r) /\ ~KnowsRing(r)
  BY <1>1 DEF KnowsRoot, KnowsSize, KnowsRing
<1>7. \A r \in Ranks : Gathered(r) => r = 0
  BY <1>2 DEF Gathered, NGathered, Ranks
<1>8. OrderInv
  BY <1>6, <1>7 DEF OrderInv, OrderOk
<1>9. RanksInv
  <2>1. local_ranks \in [Ranks -> Seq(Ranks)]
    BY DEF TmpfsInit, Init
  <2>. QED
    BY <1>1, <1>6, <2>1 DEF RanksInv, RanksOk
<1>10. TopoInv
  <2>1. topo \in [Ranks -> TopoType]
    BY DEF TmpfsInit, Init, TopoType
  <2>2. topo[0].intra_root = 0
    BY <1>2 DEF TmpfsInit, Init
  <2>3. \A r \in Ranks : TopoOk(r)
    BY <1>6, <2>2, RootFacts DEF TopoOk
  <2>. QED
    BY <2>1, <2>3 DEF TopoInv
<1>11. BcastInv
  <2>1. /\ ops \in [Ranks -> Seq([kind : {"bcast"}, data : Int])]
        /\ inside \in [Ranks -> BOOLEAN]
    BY DEF TmpfsInit, Init, InitCollectives
  <2>2. nhosts \in [Ranks -> Int]
    <3>1. -1 \in Int
      OBVIOUS
    <3>. QED
      BY <3>1 DEF TmpfsInit, Init
  <2>3. \A r \in Ranks : BcastOk(r)
    BY <1>1 DEF BcastOk, Opt
  <2>. QED
    BY <2>1, <2>2, <2>3 DEF BcastInv
<1>12. \A r \in Ranks : ~Got(r) /\ ~HadTurn(r)
  BY <1>1 DEF Got, HadTurn
<1>13. LogInv
  <2>1. step \in [Ranks -> {"before", "send", "wait", "chain", "cat", "rm", "pass", "end"}]
    BY DEF TmpfsInit
  <2>. QED
    BY <1>1, <1>2, <2>1 DEF LogInv
<1>14. RingInv /\ TurnInv
  BY <1>12 DEF RingInv, TurnInv
<1>15. FilesInv
  <2>1. \A q \in Ranks : step[q] = "before" /\ step[Root(q)] = "before"
    BY <1>1, RootFacts
  <2>. QED
    BY <1>1, <2>1 DEF FilesInv
<1>. QED
  BY <1>3, <1>4, <1>5, <1>8, <1>9, <1>10, <1>11, <1>13, <1>14, <1>15, InitQueues
  DEF IInv, TopoPart, LogPart

(* ... and every step preserves it.                                        *)
LEMMA NextInv ==
  ASSUME mpi_size > 1, IInv, [TmpfsNext]_vars
  PROVE  IInv'
<1>1. CASE UNCHANGED vars
  BY <1>1, StutterStep DEF vars, topo_vars, rest
<1>2. ASSUME NEW r \in Ranks, ReturnSend(r), UNCHANGED log_vars
      PROVE  IInv'
  BY <1>2, StutterStep DEF ReturnSend, rest
<1>3. ASSUME NEW r \in Ranks, Step(r), UNCHANGED log_vars
      PROVE  IInv'
  BY <1>3, EnterStep, RecvRootStep, ReportStep, RecvSizeStep, OwnRootStep, CollectStep,
     CollectedStep, TellRootStep, TellStep, OwnRingStep, ToldStep, CallBcastStep,
     ReturnBcastStep, GatherStep
  DEF Step
<1>4. ASSUME NEW r \in Ranks, LogStep(r)
      PROVE  IInv'
  BY <1>4, WriteTmpStep, SendTokenStep, RecvTokenStep, ChainStep, CatStep, RemoveStep, PassStep
  DEF LogStep
<1>. QED
  BY <1>1, <1>2, <1>3, <1>4 DEF TmpfsNext, Next

(* A single task sends nothing and waits for none. *)
AloneInv ==
  /\ at \in [Ranks -> {"enter", "done"}]
  /\ step \in [Ranks -> {"before", "chain", "cat", "rm", "end"}]
  /\ topo \in [Ranks -> TopoType] /\ nhosts \in [Ranks -> Int]
  /\ \A r \in Ranks :
       /\ topo[r].intra_root = 0
       /\ at[r] = "done" => topo[r].intra_size = 1 /\ nhosts[r] = 1
       /\ step[r] # "before" => at[r] = "done"
       /\ r \in tmp <=> step[r] \in {"chain", "cat", "rm"}
       /\ log[r] = IF step[r] \in {"rm", "end"} THEN 1 ELSE 0
  /\ tmp \in SUBSET Ranks
  /\ DOMAIN log = Ranks /\ log = [q \in Ranks |-> log[q]]

(* The invariant for a job of any size. *)
TmpfsInv == IF mpi_size = 1 THEN AloneInv ELSE IInv

(* The host of the only task has no other.                                 *)
LEMMA AloneHost ==
  ASSUME mpi_size = 1
  PROVE  Ranks = {0} /\ \A r \in Ranks : r = 0 /\ OnHost(r) = {0}
<1>1. Ranks = {0}
  BY DEF Ranks
<1>. QED
  BY <1>1 DEF OnHost

(* A single task starts so.                                                *)
LEMMA AloneInit ==
  ASSUME mpi_size = 1, TmpfsInit
  PROVE  AloneInv
<1>1. /\ at = [r \in Ranks |-> "enter"] /\ step = [r \in Ranks |-> "before"]
      /\ nhosts = [r \in Ranks |-> -1] /\ tmp = {} /\ log = [r \in Ranks |-> 0]
      /\ topo = [r \in Ranks |->
           [intra_root |-> 0, intra_size |-> 0, intra_left |-> 0, intra_right |-> 0,
            inter_left |-> 0, inter_right |-> 0]]
  BY DEF TmpfsInit, Init
<1>2. topo \in [Ranks -> TopoType] /\ \A r \in Ranks : topo[r].intra_root = 0
  BY <1>1 DEF TopoType
<1>3. nhosts \in [Ranks -> Int]
  <2>1. -1 \in Int
    OBVIOUS
  <2>. QED
    BY <1>1, <2>1
<1>. QED
  BY <1>1, <1>2, <1>3 DEF AloneInv

(* Of ipm_get_machtopo it executes only the entry.                         *)
LEMMA AloneStep ==
  ASSUME mpi_size = 1, AloneInv, UNCHANGED log_vars, NEW r \in Ranks, Step(r)
  PROVE  AloneInv'
<1>1. at[r] \in {"enter", "done"} /\ r = 0
  BY AloneHost DEF AloneInv
<1>2. Enter(r)
  BY <1>1 DEF Step, Gather, RecvRoot, TellRoot, OwnRoot, RecvSize, Collect, Collected, Report,
     Tell, OwnRing, Told, CallBcast, ReturnBcast
<1>3. /\ at[r] = "enter" /\ at' = [at EXCEPT ![r] = "done"]
      /\ topo' = [topo EXCEPT ![r].intra_size = 1] /\ nhosts' = [nhosts EXCEPT ![r] = 1]
      /\ step' = step /\ tmp' = tmp /\ log' = log
  BY <1>2 DEF Enter, Alone, Goto, log_vars
<1>4. at' \in [Ranks -> {"enter", "done"}] /\ nhosts' \in [Ranks -> Int]
      /\ at'[r] = "done" /\ nhosts'[r] = 1
  BY <1>3 DEF AloneInv
<1>5. topo' \in [Ranks -> TopoType] /\ topo'[r].intra_root = topo[r].intra_root
      /\ topo'[r].intra_size = 1
  BY <1>3 DEF AloneInv, TopoType
<1>6. \A q \in Ranks : q = r
  BY <1>1, AloneHost
<1>. QED
  BY <1>3, <1>4, <1>5, <1>6 DEF AloneInv

(* Its file goes to the log and is removed.                                *)
LEMMA AloneLogStep ==
  ASSUME mpi_size = 1, AloneInv, NEW r \in Ranks, LogStep(r)
  PROVE  AloneInv'
<1>0. r = 0 /\ OnHost(r) = {r} /\ \A q \in Ranks : q = r
  BY AloneHost
<1>1. /\ topo[r].intra_root = 0 /\ (at[r] = "done" => topo[r].intra_size = 1 /\ nhosts[r] = 1)
      /\ step[r] \in {"before", "chain", "cat", "rm", "end"} /\ (step[r] # "before" => at[r] = "done")
      /\ (r \in tmp <=> step[r] \in {"chain", "cat", "rm"})
      /\ log[r] = IF step[r] \in {"rm", "end"} THEN 1 ELSE 0
      /\ tmp \in SUBSET Ranks
  BY DEF AloneInv
<1>2. UNCHANGED rest
  BY DEF LogStep, WriteTmp, SendToken, RecvToken, Chain, Cat, Remove, Pass
<1>3. at' = at /\ topo' = topo /\ nhosts' = nhosts
  BY <1>2 DEF rest
<1>4. ASSUME NEW y \in {"chain", "cat", "rm", "end"}, step' = [step EXCEPT ![r] = y],
             at[r] = "done", tmp' \in SUBSET Ranks,
             r \in tmp' <=> y \in {"chain", "cat", "rm"},
             log' = [q \in Ranks |-> log'[q]],
             log'[r] = IF y \in {"rm", "end"} THEN 1 ELSE 0
      PROVE  AloneInv'
  <2>1. step' \in [Ranks -> {"before", "chain", "cat", "rm", "end"}] /\ step'[r] = y
    BY <1>4 DEF AloneInv
  <2>2. DOMAIN log' = Ranks
    BY <1>4
  <2>. QED
    BY <1>0, <1>1, <1>3, <1>4, <2>1, <2>2 DEF AloneInv
<1>5. CASE WriteTmp(r)
  <2>0. step[r] = "before" /\ at[r] = "done" /\ tmp' = tmp \cup {r} /\ log' = log
        /\ step' = [step EXCEPT ![r] = FirstOf(r)]
    BY <1>5 DEF WriteTmp, GoOn
  <2>1. FirstOf(r) = "chain"
    <3>1. ~(topo[r].intra_size > 1)
      BY <1>1, <2>0
    <3>. QED
      BY <3>1 DEF FirstOf
  <2>2. step' = [step EXCEPT ![r] = "chain"]
    BY <2>0, <2>1
  <2>. QED
    BY <1>1, <1>4, <2>0, <2>2 DEF AloneInv
<1>6. CASE Chain(r)
  <2>1. step' = [step EXCEPT ![r] = "cat"] /\ tmp' = tmp /\ log' = log /\ step[r] = "chain"
    BY <1>6 DEF Chain, GoOn
  <2>. QED
    BY <1>1, <1>4, <2>1 DEF AloneInv
<1>7. CASE Cat(r)
  <2>1. /\ step' = [step EXCEPT ![r] = "rm"] /\ tmp' = tmp /\ step[r] = "cat"
        /\ log' = [q \in Ranks |-> IF q \in tmp \cap OnHost(r) THEN log[q] + 1 ELSE log[q]]
    BY <1>7 DEF Cat, GoOn
  <2>2. log[r] = 0 /\ r \in tmp \cap OnHost(r)
    BY <1>0, <1>1, <2>1
  <2>3. log'[r] = 1
    BY <2>1, <2>2
  <2>4. log' = [q \in Ranks |-> log'[q]]
    BY <2>1
  <2>. QED
    BY <1>1, <1>4, <2>1, <2>3, <2>4
<1>8. CASE Remove(r)
  <2>0. nhosts[r] = 1
    BY <1>1, <1>8 DEF Remove
  <2>1. /\ step' = [step EXCEPT ![r] = "end"] /\ tmp' = tmp \ {r} /\ log' = log
        /\ step[r] = "rm"
    <3>1. ~(nhosts[r] > 1)
      BY <2>0
    <3>. QED
      BY <1>0, <1>8, <3>1 DEF Remove, GoOn
  <2>. QED
    BY <1>1, <1>4, <2>1 DEF AloneInv
<1>9. ~SendToken(r) /\ ~RecvToken(r) /\ ~Pass(r)
  BY <1>1 DEF SendToken, RecvToken, Pass
<1>. QED
  BY <1>5, <1>6, <1>7, <1>8, <1>9 DEF LogStep

(* The initial states of a job of any size satisfy the invariant ...       *)
LEMMA TmpfsInitInv ==
  ASSUME TmpfsInit
  PROVE  TmpfsInv
<1>1. mpi_size # 1 => mpi_size > 1
  BY SizeAssumption
<1>. QED
  BY <1>1, AloneInit, InitInv DEF TmpfsInv

(* ... and every step preserves it.                                        *)
LEMMA TmpfsNextInv ==
  ASSUME TmpfsInv, [TmpfsNext]_vars
  PROVE  TmpfsInv'
<1>1. mpi_size # 1 => mpi_size > 1
  BY SizeAssumption
<1>2. CASE mpi_size = 1
  <2>1. AloneInv
    BY <1>2 DEF TmpfsInv
  <2>2. ASSUME UNCHANGED <<at, topo, nhosts, log_vars>>
        PROVE  AloneInv'
    BY <2>1, <2>2 DEF AloneInv, log_vars
  <2>3. ASSUME UNCHANGED vars
        PROVE  AloneInv'
    BY <2>2, <2>3 DEF vars, topo_vars
  <2>4. ASSUME NEW r \in Ranks, ReturnSend(r), UNCHANGED log_vars
        PROVE  AloneInv'
    BY <2>2, <2>4 DEF ReturnSend
  <2>5. AloneInv'
    BY <1>2, <2>1, <2>3, <2>4, AloneStep, AloneLogStep DEF TmpfsNext, Next
  <2>. QED
    BY <1>2, <2>5 DEF TmpfsInv
<1>3. CASE mpi_size > 1
  <2>1. mpi_size # 1
    BY <1>3
  <2>. QED
    BY <1>3, <2>1, NextInv DEF TmpfsInv
<1>. QED
  BY <1>1, <1>2, <1>3

(* The invariant holds in every state.                                     *)
THEOREM TmpfsInvariant == TmpfsSpec => []TmpfsInv
BY TmpfsInitInv, TmpfsNextInv, PTL DEF TmpfsSpec

-----------------------------------------------------------------------------
(***************************************************************************)
(* What follows from it.                                                   *)
(***************************************************************************)

(* No task returns before all have called it.                              *)
LEMMA SynchronizingFollows ==
  ASSUME TmpfsInv
  PROVE  Synchronizing
<1>1. SUFFICES ASSUME NEW r \in Ranks, at[r] = "done", NEW q \in Ranks, at[q] = "enter"
               PROVE  FALSE
  BY DEF Synchronizing
<1>2. CASE mpi_size = 1
  BY <1>1, <1>2, AloneHost
<1>3. CASE mpi_size # 1
  <2>1. IInv
    BY <1>3 DEF TmpfsInv
  <2>2. Gathered(q)
    BY <1>1, <2>1, ReturnedAll
  <2>3. q = 0
    BY <1>1, <2>1, <2>2, Parts DEF OrderInv, OrderOk
  <2>4. at[0] = "done" \/ at[0] = "bcast"
    BY <1>1, <2>1, Parts, RootFacts DEF BcastInv, BcastOk
  <2>. QED
    BY <1>1, <2>3, <2>4
<1>. QED
  BY <1>2, <1>3

(* No two roots append to the log at a time.                               *)
LEMMA OneAppendsFollows ==
  ASSUME TmpfsInv
  PROVE  OneAppends
<1>1. SUFFICES ASSUME NEW p \in Ranks, NEW q \in Ranks,
                      step[p] \in {"cat", "rm"}, step[q] \in {"cat", "rm"}
               PROVE  p = q
  BY DEF OneAppends
<1>2. CASE mpi_size = 1
  BY <1>2, AloneHost
<1>3. CASE mpi_size # 1
  <2>1. IInv
    BY <1>3 DEF TmpfsInv
  <2>2. HostInv /\ ListInv /\ LogInv /\ TurnInv
    BY <2>1, Parts
  <2>3. Root(p) = p /\ at[p] = "done" /\ Root(q) = q
    BY <1>1, <2>2 DEF LogInv
  <2>4. Gathered(p) /\ Gathered(q)
    BY <2>1, <2>3, ReturnedAll
  <2>5. PICK i \in 1 .. Len(local_roots) : local_roots[i] = p
    BY <2>2, <2>3, <2>4 DEF ListInv
  <2>6. PICK j \in 1 .. Len(local_roots) : local_roots[j] = q
    BY <2>2, <2>3, <2>4 DEF ListInv
  <2>7. HadTurn(p) /\ HadTurn(q) /\ step[p] # "end" /\ step[q] # "end"
    BY <1>1 DEF HadTurn
  <2>8. ~(i < j) /\ ~(j < i)
    BY <2>2, <2>5, <2>6, <2>7 DEF TurnInv
  <2>9. Len(local_roots) \in Nat
    BY <2>2, RootList
  <2>10. i = j
    BY <2>8, <2>9
  <2>. QED
    BY <2>5, <2>6, <2>10
<1>. QED
  BY <1>2, <1>3

(* At the end all is in the log.                                           *)
LEMMA TmpfsCompleteFollows ==
  ASSUME TmpfsInv
  PROVE  TmpfsComplete
<1>1. SUFFICES ASSUME \A r \in Ranks : step[r] = "end"
               PROVE  log = [r \in Ranks |-> 1] /\ tmp = {}
  BY DEF TmpfsComplete
<1>2. CASE mpi_size = 1
  <2>1. AloneInv
    BY <1>2 DEF TmpfsInv
  <2>2. \A r \in Ranks : r \notin tmp /\ log[r] = 1
    BY <1>1, <2>1 DEF AloneInv
  <2>. QED
    BY <2>1, <2>2 DEF AloneInv
<1>3. CASE mpi_size # 1
  <2>1. FilesInv
    BY <1>3, Parts DEF TmpfsInv
  <2>2. \A q \in Ranks : step[Root(q)] = "end"
    BY <1>1, RootFacts
  <2>. QED
    BY <2>1, <2>2 DEF FilesInv
<1>. QED
  BY <1>2, <1>3

(* So many elements are in a sequence without repetition.                  *)
LEMMA SizeOfSeq ==
  ASSUME NEW T, NEW s \in Seq(T), Injective(s), NEW S, S = {s[i] : i \in 1 .. Len(s)}
  PROVE  Cardinality(S) = Len(s) /\ IsFiniteSet(S)
<1>1. Len(s) \in Nat /\ s \in [1 .. Len(s) -> T] /\ DOMAIN s = 1 .. Len(s)
  BY LenProperties
<1>2. s \in [1 .. Len(s) -> S]
  BY <1>1
<1>3. s \in Bijection(1 .. Len(s), S)
  BY <1>2 DEF Injective, Bijection, Injection, Surjection, IsInjective
<1>4. IsFiniteSet(1 .. Len(s)) /\ Cardinality(1 .. Len(s)) = Len(s)
  BY <1>1, FS_Interval
<1>. QED
  BY <1>3, <1>4, FS_Bijection DEF ExistsBijection

(* f is the way from r to the right, in m steps. *)
GoesRight(f, right, r, m) ==
  f = [k \in 0 .. m |-> IF k = 0 THEN r ELSE right[f[k - 1]]]

(* There is such a way.                                                    *)
LEMMA StepsExist ==
  ASSUME NEW right, NEW r, NEW m \in Nat
  PROVE  \E f : GoesRight(f, right, r, m)
<1>. DEFINE Go(x) == \E f : GoesRight(f, right, r, x)
            Bad == {x \in 0 .. m : ~Go(x)}
<1>1. SUFFICES ASSUME Bad # {}
               PROVE  FALSE
  <2>1. m \in 0 .. m
    OBVIOUS
  <2>. QED
    BY <1>1, <2>1
<1>2. PICK x \in Bad : \A y \in Bad : x <= y
  <2>1. Bad \in SUBSET (0 .. m)
    OBVIOUS
  <2>. HIDE DEF Bad
  <2>. QED
    BY <1>1, <2>1, LeastNatural
<1>3. x \in 0 .. m /\ ~Go(x)
  OBVIOUS
<1>4. x # 0
  <2>2. Go(0)
    <3>. DEFINE h == [k \in 0 .. 0 |-> r]
    <3>1. \A k \in 0 .. 0 : h[k] = (IF k = 0 THEN r ELSE right[h[k - 1]])
      OBVIOUS
    <3>2. h = [k \in 0 .. 0 |-> h[k]]
      OBVIOUS
    <3>. HIDE DEF h
    <3>3. h = [k \in 0 .. 0 |-> IF k = 0 THEN r ELSE right[h[k - 1]]]
      BY <3>1, <3>2
    <3>. QED
      BY <3>3 DEF GoesRight
  <2>. HIDE DEF Go
  <2>. QED
    BY <1>3, <2>2
<1>5. x - 1 \in 0 .. m /\ ~(x <= x - 1)
  BY <1>3, <1>4
<1>6. Go(x - 1)
  <2>. HIDE DEF Go
  <2>. QED
    BY <1>2, <1>5
<1>7. PICK f : f = [k \in 0 .. x - 1 |-> IF k = 0 THEN r ELSE right[f[k - 1]]]
  BY <1>6 DEF GoesRight
<1>. DEFINE g == [k \in 0 .. x |-> IF k = x THEN right[f[x - 1]] ELSE f[k]]
<1>8. ASSUME NEW k \in 0 .. x
      PROVE  g[k] = IF k = 0 THEN r ELSE right[g[k - 1]]
  <2>1. CASE k = 0
    <3>1. g[k] = f[0] /\ 0 \in 0 .. x - 1
      BY <1>3, <1>4, <2>1
    <3>2. f[0] = r
      BY <1>7, <3>1
    <3>. QED
      BY <2>1, <3>1, <3>2
  <2>2. CASE k # 0
    <3>1. k - 1 \in 0 .. x /\ k - 1 # x /\ k - 1 \in 0 .. x - 1
      BY <1>3, <1>8, <2>2
    <3>2. g[k - 1] = f[k - 1]
      BY <3>1
    <3>3. CASE k = x
      BY <2>2, <3>2, <3>3
    <3>4. CASE k # x
      <4>1. k \in 0 .. x - 1
        BY <1>3, <1>8, <3>4
      <4>2. g[k] = f[k]
        BY <3>4
      <4>3. f[k] = right[f[k - 1]]
        BY <1>7, <2>2, <4>1
      <4>. QED
        BY <2>2, <3>2, <4>2, <4>3
    <3>. QED
      BY <3>3, <3>4
  <2>. QED
    BY <2>1, <2>2
<1>9. g = [k \in 0 .. x |-> IF k = 0 THEN r ELSE right[g[k - 1]]]
  <2>1. g = [k \in 0 .. x |-> g[k]]
    OBVIOUS
  <2>. HIDE DEF g
  <2>. QED
    BY <1>8, <2>1
<1>10. Go(x)
  <2>. HIDE DEF g
  <2>. QED
    BY <1>9 DEF GoesRight
<1>. HIDE DEF Go
<1>. QED
  BY <1>3, <1>10

(* If the neighbours of each are those in a list, they close it to a ring. *)
LEMMA RingOfSeq ==
  ASSUME NEW s \in Seq(Ranks), Injective(s), Len(s) \in 1 .. mpi_size,
         NEW S, S = {s[i] : i \in 1 .. Len(s)}, NEW right, NEW left,
         \A i \in 1 .. Len(s) :
           /\ right[s[i]] = RightOf(s, i)
           /\ left[s[i]] = IF i = 1 THEN s[Len(s)] ELSE s[i - 1]
  PROVE  Ring(right, left, s[1], S)
<1>. DEFINE r == s[1]
            size == Len(s)
            f == CHOOSE f : GoesRight(f, right, r, mpi_size)
<1>1. mpi_size \in Nat /\ size \in 1 .. mpi_size /\ size \in Nat
  BY SizeAssumption
<1>2. f = [k \in 0 .. mpi_size |-> IF k = 0 THEN r ELSE right[f[k - 1]]]
  <2>1. \E g : GoesRight(g, right, r, mpi_size)
    BY <1>1, StepsExist
  <2>2. GoesRight(f, right, r, mpi_size)
    BY <2>1
  <2>. QED
    BY <2>2 DEF GoesRight
<1>. HIDE DEF f
<1>3. /\ f[0] = r
      /\ \A k \in 0 .. mpi_size : k # 0 => f[k] = right[f[k - 1]]
  <2>1. 0 \in 0 .. mpi_size
    BY <1>1
  <2>2. \A k \in 0 .. mpi_size : f[k] = IF k = 0 THEN r ELSE right[f[k - 1]]
    BY <1>2
  <2>. QED
    BY <2>1, <2>2
<1>. HIDE DEF size
<1>4. \A k \in 0 .. size - 1 : f[k] = s[k + 1]
  <2>. DEFINE Bad == {k \in 0 .. size - 1 : f[k] # s[k + 1]}
  <2>1. SUFFICES ASSUME Bad # {}
                 PROVE  FALSE
    OBVIOUS
  <2>2. PICK x \in Bad : \A y \in Bad : x <= y
    <3>1. Bad \in SUBSET (0 .. size - 1) /\ size - 1 \in Nat
      BY <1>1
    <3>. HIDE DEF Bad
    <3>. QED
      BY <2>1, <3>1, LeastNatural
  <2>3. x \in 0 .. size - 1 /\ f[x] # s[x + 1]
    OBVIOUS
  <2>4. x # 0
    BY <1>3, <2>3
  <2>5. x - 1 \in 0 .. size - 1 /\ ~(x <= x - 1) /\ x \in 0 .. mpi_size /\ x \in 1 .. size
        /\ x # size /\ x - 1 + 1 = x
    BY <1>1, <2>3, <2>4
  <2>6. f[x - 1] = s[x]
    BY <2>2, <2>5
  <2>7. f[x] = right[s[x]]
    BY <1>3, <2>4, <2>5, <2>6
  <2>8. right[s[x]] = s[x + 1]
    BY <2>5 DEF size, RightOf
  <2>. QED
    BY <2>3, <2>7, <2>8
<1>5. f[size] = r
  <2>1. size - 1 \in 0 .. size - 1 /\ size \in 0 .. mpi_size /\ size # 0 /\ size \in 1 .. size
        /\ size - 1 + 1 = size
    BY <1>1
  <2>2. f[size] = right[s[size]]
    BY <1>3, <1>4, <2>1
  <2>3. right[s[size]] = RightOf(s, size)
    BY <2>1 DEF size
  <2>. QED
    BY <2>2, <2>3 DEF RightOf, size
<1>6. Cardinality(S) = size
  BY SizeOfSeq DEF size
<1>7. {f[k] : k \in 0 .. size - 1} = S
  <2>1. \A k \in 0 .. size - 1 : k + 1 \in 1 .. size
    BY <1>1
  <2>2. \A i \in 1 .. size : i - 1 \in 0 .. size - 1 /\ i - 1 + 1 = i
    BY <1>1
  <2>3. \A k \in 0 .. size - 1 : f[k] \in S
    BY <1>4, <2>1 DEF size
  <2>4. \A i \in 1 .. size : f[i - 1] = s[i]
    BY <1>4, <2>2
  <2>5. \A x \in S : \E k \in 0 .. size - 1 : f[k] = x
    BY <2>2, <2>4 DEF size
  <2>6. {f[k] : k \in 0 .. size - 1} \subseteq S
    BY <2>3
  <2>7. S \subseteq {f[k] : k \in 0 .. size - 1}
    BY <2>5
  <2>. QED
    BY <2>6, <2>7
<1>8. \A q \in S : left[right[q]] = q
  <2>1. SUFFICES ASSUME NEW i \in 1 .. size
                 PROVE  left[right[s[i]]] = s[i]
    BY DEF size
  <2>2. right[s[i]] = RightOf(s, i)
    BY DEF size
  <2>3. CASE i = size
    <3>1. 1 \in 1 .. size
      BY <1>1
    <3>2. left[s[1]] = s[size]
      BY <3>1 DEF size
    <3>. QED
      BY <2>2, <2>3, <3>2 DEF RightOf, size
  <2>4. CASE i # size
    <3>1. i + 1 \in 1 .. size /\ i + 1 # 1 /\ i + 1 - 1 = i
      BY <1>1, <2>4
    <3>2. left[s[i + 1]] = s[i]
      BY <3>1 DEF size
    <3>. QED
      BY <2>2, <2>4, <3>2 DEF RightOf, size
  <2>. QED
    BY <2>3, <2>4
<1>. QED
  BY <1>5, <1>6, <1>7, <1>8 DEF Ring, f, GoesRight

(* The tasks of each host are a ring.                                      *)
LEMMA HostRing ==
  ASSUME IInv, \A q \in Ranks : at[q] = "done", NEW r \in Ranks, Root(r) = r,
         Cardinality(OnHost(r)) > 1
  PROVE  Ring([q \in OnHost(r) |-> topo[q].intra_right],
              [q \in OnHost(r) |-> topo[q].intra_left], r, OnHost(r))
<1>. DEFINE s == local_ranks[r]
            S == OnHost(r)
            right == [q \in S |-> topo[q].intra_right]
            left == [q \in S |-> topo[q].intra_left]
<1>1. /\ ListOf(r, s) /\ Len(s) = Cardinality(S)
      /\ \A q \in Ranks : Root(q) = r => \E j \in 1 .. Len(s) : s[j] = q
  BY ReturnedAll
<1>2. s \in Seq(Ranks) /\ Injective(s) /\ s[1] = r
      /\ \A j \in 1 .. Len(s) : s[j] \in Ranks /\ Root(s[j]) = r
  BY <1>1 DEF ListOf
<1>3. \A q \in Ranks : q \in S <=> Root(q) = r
  BY RootFacts
<1>4. S \subseteq Ranks
  BY DEF OnHost
<1>5. S = {s[i] : i \in 1 .. Len(s)}
  <2>1. S \subseteq {s[i] : i \in 1 .. Len(s)}
    BY <1>1, <1>3, <1>4
  <2>2. {s[i] : i \in 1 .. Len(s)} \subseteq S
    BY <1>2, <1>3
  <2>. QED
    BY <2>1, <2>2
<1>6. Len(s) \in 1 .. mpi_size
  <2>1. IsFiniteSet(Ranks) /\ Cardinality(Ranks) = mpi_size
    <3>1. mpi_size - 1 \in Int /\ 0 \in Int /\ ~(0 > mpi_size - 1) /\ mpi_size - 1 - 0 + 1 = mpi_size
      BY SizeAssumption
    <3>. QED
      BY <3>1, FS_Interval DEF Ranks
  <2>2. Cardinality(S) <= mpi_size
    BY <1>4, <2>1, FS_Subset
  <2>3. Cardinality(S) \in Nat \ {0}
    BY HostSize
  <2>. QED
    BY <1>1, <2>2, <2>3, SizeAssumption
<1>7. ASSUME NEW i \in 1 .. Len(s)
      PROVE  /\ right[s[i]] = RightOf(s, i)
             /\ left[s[i]] = IF i = 1 THEN s[Len(s)] ELSE s[i - 1]
  <2>1. PICK q \in Ranks : q = s[i] /\ Root(q) = r /\ q \in S
    BY <1>2, <1>3
  <2>2. OnHost(q) = S
    BY <2>1, HostSize
  <2>3. /\ topo[q].intra_left = IF i = 1 THEN s[Len(s)] ELSE s[i - 1]
        /\ topo[q].intra_right = RightOf(s, i)
    BY <2>1, <2>2, ReturnedRing
  <2>. HIDE DEF s, S
  <2>. QED
    BY <2>1, <2>3
<1>. HIDE DEF s, S, right, left
<1>8. Ring(right, left, s[1], S)
  BY <1>2, <1>5, <1>6, <1>7, RingOfSeq
<1>. QED
  BY <1>2, <1>8 DEF S, right, left

(* The list of roots has each root once.                                   *)
LEMMA RootsListed ==
  ASSUME IInv, \A q \in Ranks : at[q] = "done"
  PROVE  /\ Roots = {local_roots[i] : i \in 1 .. Len(local_roots)}
         /\ Cardinality(Roots) = Len(local_roots) /\ Len(local_roots) \in 1 .. mpi_size
<1>0. HostInv /\ ListInv
  BY Parts
<1>1. /\ local_roots \in Seq(Ranks) /\ Len(local_roots) \in Nat \ {0} /\ Injective(local_roots)
      /\ \A j \in 1 .. Len(local_roots) :
           local_roots[j] \in Ranks /\ Root(local_roots[j]) = local_roots[j]
  BY <1>0, RootList
<1>2. Roots = {Root(r) : r \in Ranks}
  BY DEF Roots, Root
<1>3. \A r \in Ranks : \E j \in 1 .. Len(local_roots) : local_roots[j] = Root(r)
  <2>1. \A r \in Ranks : Gathered(r)
    BY RootFacts, ReturnedAll
  <2>. QED
    BY <1>0, <2>1 DEF ListInv
<1>4. Roots = {local_roots[i] : i \in 1 .. Len(local_roots)}
  BY <1>1, <1>2, <1>3
<1>5. Cardinality(Roots) = Len(local_roots)
  BY <1>1, <1>4, SizeOfSeq
<1>6. IsFiniteSet(Ranks) /\ Cardinality(Ranks) = mpi_size
  <2>1. mpi_size - 1 \in Int /\ 0 \in Int /\ ~(0 > mpi_size - 1) /\ mpi_size - 1 - 0 + 1 = mpi_size
    BY SizeAssumption
  <2>. QED
    BY <2>1, FS_Interval DEF Ranks
<1>7. Len(local_roots) <= mpi_size
  BY <1>1, <1>6, NoRepetition
<1>8. Len(local_roots) \in 1 .. mpi_size
  BY <1>1, <1>7, SizeAssumption
<1>. QED
  BY <1>4, <1>5, <1>8

(* So are the roots.                                                       *)
LEMMA RootsRing ==
  ASSUME IInv, \A q \in Ranks : at[q] = "done", Cardinality(Roots) > 1
  PROVE  Ring([q \in Roots |-> topo[q].inter_right],
              [q \in Roots |-> topo[q].inter_left], 0, Roots)
<1>. DEFINE s == local_roots
            S == Roots
            right == [q \in S |-> topo[q].inter_right]
            left == [q \in S |-> topo[q].inter_left]
<1>0. HostInv /\ ListInv
  BY Parts
<1>1. /\ s \in Seq(Ranks) /\ Len(s) \in Nat \ {0} /\ Injective(s) /\ s[1] = 0
      /\ \A j \in 1 .. Len(s) : s[j] \in Ranks /\ Root(s[j]) = s[j]
  BY <1>0, RootList
<1>2. S = {s[i] : i \in 1 .. Len(s)} /\ Len(s) \in 1 .. mpi_size /\ Len(s) # 1
  BY RootsListed
<1>3. ASSUME NEW i \in 1 .. Len(s)
      PROVE  /\ right[s[i]] = RightOf(s, i)
             /\ left[s[i]] = IF i = 1 THEN s[Len(s)] ELSE s[i - 1]
  <2>1. PICK q \in Ranks : q = s[i] /\ Root(q) = q /\ q \in S
    BY <1>1, <1>2
  <2>2. topo[q].inter_left = LeftRoot(q) /\ topo[q].inter_right = RightRoot(q)
    BY <2>1, ReturnedRoot
  <2>3. /\ LeftRoot(q) = IF i = 1 THEN s[Len(s)] ELSE s[i - 1]
        /\ RightRoot(q) = IF Len(s) = 1 THEN -1 ELSE RightOf(s, i)
    BY <1>0, <2>1, RootNeighbours
  <2>. HIDE DEF s, S
  <2>. QED
    BY <1>2, <2>1, <2>2, <2>3
<1>. HIDE DEF s, S, right, left
<1>4. Ring(right, left, s[1], S)
  BY <1>1, <1>2, <1>3, RingOfSeq
<1>. QED
  BY <1>1, <1>4 DEF S, right, left

(* What each task knows when all have returned.                            *)
LEMMA TopologyFollows ==
  ASSUME TmpfsInv
  PROVE  TopologyRight
<1>1. SUFFICES ASSUME \A r \in Ranks : at[r] = "done"
               PROVE  /\ \A r \in Ranks :
                           /\ topo[r].intra_root = Min(OnHost(r))
                           /\ topo[r].intra_size = Cardinality(OnHost(r))
                           /\ nhosts[r] = Cardinality(Roots)
                           /\ topo[r].inter_left = topo[Min(OnHost(r))].inter_left
                           /\ topo[r].inter_right = topo[Min(OnHost(r))].inter_right
                      /\ \A r \in Roots : Cardinality(OnHost(r)) > 1 =>
                           Ring([q \in OnHost(r) |-> topo[q].intra_right],
                                [q \in OnHost(r) |-> topo[q].intra_left], r, OnHost(r))
                      /\ Cardinality(Roots) > 1 =>
                           Ring([q \in Roots |-> topo[q].inter_right],
                                [q \in Roots |-> topo[q].inter_left], 0, Roots)
  BY DEF TopologyRight
<1>2. Roots = {Root(r) : r \in Ranks}
  BY DEF Roots, Root
<1>3. CASE mpi_size = 1
  <2>1. AloneInv
    BY <1>3 DEF TmpfsInv
  <2>2. Ranks = {0} /\ OnHost(0) = {0} /\ Root(0) = 0
    BY <1>3, AloneHost, RootFacts
  <2>3. Roots = {0} /\ Cardinality({0}) = 1
    <3>1. Roots = {0}
      BY <1>2, <2>2
    <3>2. Cardinality({0}) = 1
      BY FS_Singleton
    <3>. QED
      BY <3>1, <3>2
  <2>4. topo[0].intra_root = 0 /\ topo[0].intra_size = 1 /\ nhosts[0] = 1
    BY <1>1, <2>1, <2>2 DEF AloneInv
  <2>. QED
    BY <2>2, <2>3, <2>4 DEF Root
<1>4. CASE mpi_size # 1
  <2>1. IInv
    BY <1>4 DEF TmpfsInv
  <2>2. ASSUME NEW r \in Ranks
        PROVE  /\ topo[r].intra_root = Root(r)
               /\ topo[r].intra_size = Cardinality(OnHost(r))
               /\ nhosts[r] = Cardinality(Roots)
               /\ topo[r].inter_left = topo[Root(r)].inter_left
               /\ topo[r].inter_right = topo[Root(r)].inter_right
    <3>1. PICK j \in 1 .. Len(local_ranks[Root(r)]) : local_ranks[Root(r)][j] = r
      BY <1>1, <2>1, ReturnedAll
    <3>2. /\ topo[r].intra_root = Root(r) /\ topo[r].intra_size = Cardinality(OnHost(r))
          /\ topo[r].inter_left = LeftRoot(Root(r)) /\ topo[r].inter_right = RightRoot(Root(r))
      BY <1>1, <2>1, <3>1, ReturnedRing
    <3>3. PICK m \in Ranks : m = Root(r) /\ Root(m) = m
      BY RootFacts
    <3>4. topo[m].inter_left = LeftRoot(m) /\ topo[m].inter_right = RightRoot(m)
      BY <1>1, <2>1, <3>3, ReturnedRoot
    <3>5. nhosts[r] = Len(local_roots)
      BY <1>1, <2>1, Parts DEF BcastInv, BcastOk
    <3>6. Cardinality(Roots) = Len(local_roots)
      BY <1>1, <2>1, RootsListed
    <3>. QED
      BY <3>2, <3>3, <3>4, <3>5, <3>6
  <2>3. \A r \in Roots : r \in Ranks /\ Root(r) = r
    BY <1>2, RootFacts
  <2>. QED
    BY <1>1, <2>1, <2>2, <2>3, HostRing, RootsRing DEF Root
<1>. QED
  BY <1>3, <1>4

(* TopologyRight for every number of tasks and every placement on hosts:   *)
(* when all tasks have returned from ipm_get_machtopo, each knows its      *)
(* root, the tasks of its host and the number of hosts, and the neighbours *)
(* close to one ring on each host and one of the roots.                    *)
THEOREM TopologyCorrect == TmpfsSpec => []TopologyRight
BY TmpfsInvariant, TopologyFollows, PTL

(* Synchronizing: ipm_get_machtopo returns in no task before it has been   *)
(* called in all.                                                          *)
THEOREM SynchronizingCorrect == TmpfsSpec => []Synchronizing
BY TmpfsInvariant, SynchronizingFollows, PTL

(* OneAppends: no two roots are between the begin of cat and the end of    *)
(* rm, so the log is appended to by one task at a time.                    *)
THEOREM OneAppendsCorrect == TmpfsSpec => []OneAppends
BY TmpfsInvariant, OneAppendsFollows, PTL

(* TmpfsComplete: when ipm_log has returned in all tasks, the log has the  *)
(* section of each once, and no file is left in /tmp.                      *)
THEOREM TmpfsCompleteCorrect == TmpfsSpec => []TmpfsComplete
BY TmpfsInvariant, TmpfsCompleteFollows, PTL
=============================================================================
