------------------------------- MODULE IpmHash -------------------------------
(***************************************************************************)
(* The event hash table of one IPM task: a fixed array probed by double    *)
(* hashing (IPM_HASH_HKEY), one entry per (region, call, rank, size) key,  *)
(* compressed in place by ipm_hash_cull when it holds MAXSIZE_HASHLIMIT    *)
(* keys or more and a probe collides.                                      *)
(*                                                                         *)
(* The code is one sequential macro, but the macro calls a function that   *)
(* uses the same macro (and the same static probe counter) on the same     *)
(* table.  A step here is one turn of the while loop of IPM_HASH_HKEY, so  *)
(* a cull that begins in the middle of a probe, a cull nested in the       *)
(* re-insertion loop of another, and the probe that goes on afterwards are *)
(* all visible.                                                            *)
(***************************************************************************)
EXTENDS Integers, Sequences, FiniteSets, FiniteSetsExt

CONSTANTS
  M,          (* MAXSIZE_HASH: the number of slots probed, a prime         *)
  Limit,      (* MAXSIZE_HASHLIMIT                                         *)
  MaskRange,  (* 2^bits of CALL_MASK_BPREC (2^48 in the code)               *)
  SizeSpan,   (* sizes are below SizeSpan (2^31 in the code)               *)
  CallRadix,  (* width of the call field of a key (2^8)                    *)
  RankRadix,  (* width of the rank field of a key (2^16)                   *)
  Regions, Calls, Ranks, Sizes,  (* the fields an event may have           *)
  Walls,      (* the durations an event may have                           *)
  TMinInit,   (* the initial t_min of an entry (1e15)                      *)
  NoKey,      (* the key 0 of a free slot                                  *)
  MaxEvents   (* bound on hash_nlog                                        *)

ASSUME TableAssumption ==
  /\ M \in Nat /\ M > 2
  /\ Limit \in 1 .. M
  /\ MaskRange \in Nat \ {0}
  /\ SizeSpan \in Nat \ {0}
  /\ CallRadix \in Nat \ {0}
  /\ RankRadix \in Nat \ {0}
  /\ MaxEvents \in Nat

ASSUME KeyAssumption ==
  /\ Regions \subseteq Nat
  /\ Calls \subseteq Nat \ {0}
  /\ Ranks \subseteq Int
  /\ Sizes \subseteq Nat
  /\ Walls \subseteq Nat
  /\ TMinInit \in Nat

(* The fields are integers of some width. *)
ASSUME FieldAssumption ==
  IsFiniteSet(Regions) /\ IsFiniteSet(Calls) /\ IsFiniteSet(Ranks) /\ IsFiniteSet(Sizes)

VARIABLES
  hash,        (* task.hash                                                *)
  hash_nkey,   (* task.hash_nkey                                           *)
  hash_nlog,   (* task.hash_nlog                                           *)
  grain,       (* per call, the lowest bit of its precision mask           *)
  collisions,  (* the static probe counter, modulo M: only that is used    *)
  event,       (* the event being logged: its key and duration             *)
  culls,       (* the activations of ipm_hash_cull, innermost first        *)
  pc,          (* "idle", "probe" or, after exit(1), "exit"                *)
  seen,        (* history: what was logged, by exact key                   *)
  resumed      (* history: has a probe gone on after a cull it called?     *)

vars ==
  <<hash, hash_nkey, hash_nlog, grain, collisions, event, culls, pc, seen, resumed>>

Slots == 0 .. M - 1

Keys == [region : Regions, call : Calls, rank : Ranks, size : Nat]

(* The keys events are logged with, before masking.                        *)
EventKeys == [region : Regions, call : Calls, rank : Ranks, size : Sizes]

ASSUME NoKeyAssumption == NoKey \notin Keys

Entries ==
  [key : Keys \cup {NoKey}, count : Nat, t_tot : Nat, t_min : Nat, t_max : Nat]

(* IPM_MPI_KEY_CLEAR *)
FreeEntry == [key |-> NoKey, count |-> 0, t_tot |-> 0, t_min |-> 0, t_max |-> 0]

(* The entry IPM_HASH_HKEY makes in a free slot. *)
NewEntry(k) ==
  [key |-> k, count |-> 0, t_tot |-> 0, t_min |-> TMinInit, t_max |-> 0]

Occupied == {s \in Slots : hash[s].key # NoKey}

(* size & CALL_BUF_PRECISION(call): the bits below the lowest bit of the   *)
(* mask are dropped.                                                       *)
Masked(k, g) == [k EXCEPT !.size = (k.size \div g[k.call]) * g[k.call]]

(* The integer the fields are packed into; a negative rank is stored as its *)
(* absolute value with the sign bit of the size field (KEY_MASK_NORANK).    *)
Packed(k) ==
  ((k.region * CallRadix + k.call) * RankRadix
     + (IF k.rank < 0 THEN -k.rank ELSE k.rank)) * (2 * SizeSpan)
    + (IF k.rank < 0 THEN SizeSpan ELSE 0) + k.size

(* The slot of the c-th probe for key k. *)
Probe(k, c) == (Packed(k) + (c * (1 + (Packed(k) % (M - 2))))) % M

(* The key the innermost activation of IPM_HASH_HKEY looks for. *)
CurKey == IF culls = <<>> THEN event.key ELSE Head(culls).key

CurSlot == Probe(CurKey, collisions)

OverLimit == hash_nkey >= Limit

(* The call with the most entries, the lowest number among equals. *)
Density(c) == Cardinality({s \in Occupied : hash[s].key.call = c})

MostDenseCall ==
  CHOOSE c \in Calls : \A d \in Calls :
    Density(c) > Density(d) \/ (Density(c) = Density(d) /\ c <= d)

(* Faulty Merged: an entry re-inserted after a cull counts as one event.   *)
MergedAsOneEvent(entry, e) ==
  [key |-> entry.key, count |-> entry.count + 1, t_tot |-> entry.t_tot + e.t_tot,
   t_min |-> IF e.t_min < entry.t_min THEN e.t_min ELSE entry.t_min,
   t_max |-> IF e.t_max > entry.t_max THEN e.t_max ELSE entry.t_max]

(* Faulty Merged: the maximum is that of the entry merged last.            *)
MergedLastMax(entry, e) ==
  [key |-> entry.key, count |-> entry.count + e.count, t_tot |-> entry.t_tot + e.t_tot,
   t_min |-> IF e.t_min < entry.t_min THEN e.t_min ELSE entry.t_min,
   t_max |-> e.t_max]

(* What an entry becomes when e is merged into it. *)
Merged(entry, e) ==
  [key   |-> entry.key,
   count |-> entry.count + e.count,
   t_tot |-> entry.t_tot + e.t_tot,
   t_min |-> IF e.t_min < entry.t_min THEN e.t_min ELSE entry.t_min,
   t_max |-> IF e.t_max > entry.t_max THEN e.t_max ELSE entry.t_max]

(* The occupied slots of a saved table not re-inserted before slot i. *)
Remaining(saved, i) == {s \in Slots : s >= i /\ saved[s].key # NoKey}

(* An activation of the re-insertion loop that has reached slot i. *)
Reinserting(saved, i, g) ==
  [saved |-> saved, i |-> i, key |-> Masked(saved[i].key, g)]

LowestOf(S) == CHOOSE s \in S : \A t \in S : s <= t
-----------------------------------------------------------------------------
Init ==
  /\ hash = [s \in Slots |-> FreeEntry]
  /\ hash_nkey = 0
  /\ hash_nlog = 0
  /\ grain = [c \in Calls |-> 1]
  /\ collisions = 0
  /\ event = [key |-> NoKey, wall |-> 0]
  /\ culls = <<>>
  /\ pc = "idle"
  /\ seen = [k \in EventKeys |-> [count |-> 0, t_tot |-> 0]]
  /\ resumed = FALSE

(* Faulty LogEvent: the static probe counter is not reset.                 *)
LogEventMidProbe(k, wall) ==
  /\ pc = "idle"
  /\ hash_nlog < MaxEvents
  /\ hash_nlog' = hash_nlog + 1
  /\ event' = [key |-> Masked(k, grain), wall |-> wall]
  /\ pc' = "probe"
  /\ seen' = [seen EXCEPT ![k] = [count |-> @.count + 1, t_tot |-> @.t_tot + wall]]
  /\ UNCHANGED <<hash, hash_nkey, grain, collisions, culls, resumed>>

(* IPM_LOG_MPIEVENT up to the loop of IPM_HASH_HKEY. *)
LogEvent(k, wall) ==
  /\ pc = "idle"
  /\ hash_nlog < MaxEvents
  /\ hash_nlog' = hash_nlog + 1
  /\ event' = [key |-> Masked(k, grain), wall |-> wall]
  /\ collisions' = 0
  /\ pc' = "probe"
  /\ seen' = [seen EXCEPT ![k] = [count |-> @.count + 1, t_tot |-> @.t_tot + wall]]
  /\ UNCHANGED <<hash, hash_nkey, grain, culls, resumed>>

(* The slot is free: the key is entered there. *)
InsertKey ==
  /\ pc = "probe"
  /\ hash[CurSlot].key = NoKey
  /\ hash' = [hash EXCEPT ![CurSlot] = NewEntry(CurKey)]
  /\ hash_nkey' = hash_nkey + 1
  /\ UNCHANGED <<hash_nlog, grain, collisions, event, culls, pc, seen, resumed>>

(* The slot holds the key of the event: the event is counted there. *)
CountEvent ==
  /\ pc = "probe"
  /\ culls = <<>>
  /\ hash[CurSlot].key = CurKey
  /\ hash' = [hash EXCEPT ![CurSlot] =
                Merged(@, [count |-> 1, t_tot |-> event.wall,
                           t_max |-> event.wall, t_min |-> event.wall])]
  /\ pc' = "idle"
  /\ UNCHANGED <<hash_nkey, hash_nlog, grain, collisions, event, culls, seen, resumed>>

(* The slot holds the key ipm_hash_cull is re-inserting: the saved entry is *)
(* added to it and the loop goes on to the next saved entry; at the last    *)
(* one the cull returns into the probe that called it, which counts one     *)
(* more collision on the counter the re-insertions left.                    *)
ReinsertEntry ==
  /\ pc = "probe"
  /\ culls # <<>>
  /\ hash[CurSlot].key = CurKey
  /\ LET top  == Head(culls)
         rest == Remaining(top.saved, top.i + 1)
     IN /\ hash' = [hash EXCEPT ![CurSlot] = Merged(@, top.saved[top.i])]
        /\ IF rest = {}
             THEN /\ culls' = Tail(culls)
                  /\ collisions' = (collisions + 1) % M
                  /\ resumed' = TRUE
             ELSE /\ culls' = <<Reinserting(top.saved, LowestOf(rest), grain)>> \o Tail(culls)
                  /\ collisions' = 0
                  /\ UNCHANGED resumed
  /\ UNCHANGED <<hash_nkey, hash_nlog, grain, event, pc, seen>>

(* The slot holds another key. *)
Collision ==
  /\ pc = "probe"
  /\ hash[CurSlot].key \notin {NoKey, CurKey}

(* Faulty NextProbe: the collision is not counted, the slot is tried again. *)
NextProbeSameSlot == Collision /\ ~OverLimit /\ UNCHANGED vars

NextProbe ==
  /\ Collision
  /\ ~OverLimit
  /\ collisions' = (collisions + 1) % M
  /\ UNCHANGED <<hash, hash_nkey, hash_nlog, grain, event, culls, pc, seen, resumed>>

(* Faulty Cull: the table is cleared and hash_nkey is not.                 *)
CullKeepingNkey ==
  /\ Collision
  /\ OverLimit
  /\ hash' = [s \in Slots |-> FreeEntry]
  /\ grain' = [grain EXCEPT ![MostDenseCall] = 2 * @]
  /\ 2 * grain[MostDenseCall] < MaskRange
  /\ culls' = <<Reinserting(hash, LowestOf(Remaining(hash, 0)), grain')>> \o culls
  /\ collisions' = 0
  /\ UNCHANGED <<hash_nkey, hash_nlog, event, pc, seen, resumed>>

(* ipm_hash_cull up to its re-insertion loop: the table is saved and        *)
(* cleared and the call with the most entries loses one bit of precision.   *)
Cull ==
  /\ Collision
  /\ OverLimit
  /\ hash' = [s \in Slots |-> FreeEntry]
  /\ hash_nkey' = 0
  /\ grain' = [grain EXCEPT ![MostDenseCall] = 2 * @]
  /\ IF 2 * grain[MostDenseCall] < MaskRange
       THEN /\ culls' = <<Reinserting(hash, LowestOf(Remaining(hash, 0)), grain')>> \o culls
            /\ collisions' = 0
            /\ pc' = pc
       ELSE /\ pc' = "exit"
            /\ UNCHANGED <<culls, collisions>>
  /\ UNCHANGED <<hash_nlog, event, seen, resumed>>

HashStep == InsertKey \/ CountEvent \/ ReinsertEntry \/ NextProbe \/ Cull

Next ==
  \/ \E k \in EventKeys, wall \in Walls : LogEvent(k, wall)
  \/ HashStep

Spec == Init /\ [][Next]_vars

(* The macro runs to its end: nothing in it waits for anything. *)
FairSpec == Spec /\ WF_vars(HashStep)
-----------------------------------------------------------------------------
(***************************************************************************)
(* Correctness.                                                            *)
(***************************************************************************)

TypeOK ==
  /\ hash \in [Slots -> Entries]
  /\ hash_nkey \in Nat
  /\ hash_nlog \in 0 .. MaxEvents
  /\ grain \in [Calls -> Nat \ {0}]
  /\ collisions \in 0 .. M - 1
  /\ event \in [key : Keys \cup {NoKey}, wall : Nat]
  /\ culls \in Seq([saved : [Slots -> Entries], i : Slots, key : Keys])
  /\ pc \in {"idle", "probe", "exit"}
  /\ resumed \in BOOLEAN
  /\ (pc = "probe" => event.key \in Keys)

(* hash_nkey, which decides when to cull and is reported as nkey, is the   *)
(* number of slots in use, through every clear and re-insertion.           *)
NkeyExact == hash_nkey = Cardinality(Occupied)

(* No two slots hold the same key ("KEY_COUNT = number of unique keys in   *)
(* this hash", ipm.h).                                                     *)
UniqueKeys ==
  \A s, t \in Occupied : hash[s].key = hash[t].key => s = t

(* A probe for k from its first slot on reaches slot s before it reaches a *)
(* free slot or another copy of k.                                         *)
FoundAt(k, s) ==
  \E c \in 0 .. M - 1 :
    /\ Probe(k, c) = s
    /\ \A d \in 0 .. c - 1 : hash[Probe(k, d)].key \notin {NoKey, k}

(* Until a probe goes on after a cull it called, every entry, in the table *)
(* and in one being rebuilt, is the one a later event of its key will find *)
(* (IPM_HASH_HKEY).  Keys are then unique.                                 *)
FindableUntilResumed ==
  ~resumed => \A s \in Occupied : FoundAt(hash[s].key, s)

(* The entries that hold events: those of the table, and those saved by an *)
(* activation of ipm_hash_cull and not yet re-inserted.                    *)
Held ==
  ({0} \X Occupied)
    \cup UNION {{n} \X Remaining(culls[n].saved, culls[n].i) : n \in 1 .. Len(culls)}

EntryAt(h) == IF h[1] = 0 THEN hash[h[2]] ELSE culls[h[1]].saved[h[2]]

(* However often the table is compressed, and in the middle of it, every   *)
(* event counted so far is held once, under its own region, call and rank  *)
(* and under the size class it has at the present precision.               *)
EventsConserved ==
  pc # "exit" =>
    \A class \in {Masked(k, grain) : k \in EventKeys} :
      LET held   == {h \in Held : Masked(EntryAt(h).key, grain) = class}
          logged == {k \in EventKeys : Masked(k, grain) = class}
          inHand == IF pc = "probe" /\ Masked(event.key, grain) = class THEN 1 ELSE 0
      IN /\ MapThenSumSet(LAMBDA h : EntryAt(h).count, held) + inHand
              = MapThenSumSet(LAMBDA k : seen[k].count, logged)
         /\ MapThenSumSet(LAMBDA h : EntryAt(h).t_tot, held) + inHand * event.wall
              = MapThenSumSet(LAMBDA k : seen[k].t_tot, logged)

(* The probe loop ends, whatever the table holds: the event is counted, or *)
(* the precision runs out and the program exits.                           *)
ProbeEnds == pc = "probe" ~> pc \in {"idle", "exit"}

(* The per-site profile the table stands for.                              *)
Sites == [region : Regions, call : Calls, rank : Ranks]

SiteOf(k) == [region |-> k.region, call |-> k.call, rank |-> k.rank]

ProfileOf(site) ==
  LET held == {h \in Held : SiteOf(EntryAt(h).key) = site}
  IN [count |-> MapThenSumSet(LAMBDA h : EntryAt(h).count, held),
      t_tot |-> MapThenSumSet(LAMBDA h : EntryAt(h).t_tot, held),
      t_min |-> Min({TMinInit} \cup {EntryAt(h).t_min : h \in held}),
      t_max |-> Max({0} \cup {EntryAt(h).t_max : h \in held})]

LostProfile == [count |-> 0, t_tot |-> 0, t_min |-> TMinInit, t_max |-> 0]

Profile == INSTANCE IpmProfile WITH
  profile <- [s \in Sites |-> IF pc = "exit" THEN LostProfile ELSE ProfileOf(s)],
  alive   <- pc # "exit"

(* The table implements the profile: a step of the probe, of the cull or   *)
(* of the re-insertion changes no site's numbers, and the step that counts *)
(* an event changes its site's and no other's.                             *)
ImplementsProfile == Profile!Spec
=============================================================================
