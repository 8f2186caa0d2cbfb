------------------------- MODULE FxCompactionProofs -------------------------
(***************************************************************************)
(* Proofs about FxCompaction: whatever is committed, flushed and lost in   *)
(* whatever order, a mount finds a super-block it can replay from, and     *)
(* gives every object each of its mutations once.                          *)
(*                                                                         *)
(* The idea is that the journal alone determines what an object must hold: *)
(* a mutation is in a layer file once a BeginFlush and an EndFlush of its  *)
(* object follow it, is sealed once a BeginFlush does, and is in the       *)
(* mutable layer until then.  A running system and a replay from any       *)
(* offset both compute this, and a super-block's offsets leave out only    *)
(* what layer files hold.                                                  *)
(***************************************************************************)
EXTENDS FxCompaction, TLAPS, FiniteSetTheorems, WellFoundedInduction

(***************************************************************************)
(* Where the journal l, up to offset k, puts the mutations of o from f on. *)
(***************************************************************************)
Begun(l, o, m, k) == \E b \in m .. k : l[b].begin = o
Ended(l, o, m, k) == \E b \in m .. k, e \in m .. k :
                       b < e /\ l[b].begin = o /\ l[e].end = o

MutableIn(l, o, f, k) == {m \in f .. k : o \in l[m].updates /\ ~Begun(l, o, m, k)}
SealedIn(l, o, f, k) == {m \in f .. k : /\ o \in l[m].updates
                                        /\ Begun(l, o, m, k) /\ ~Ended(l, o, m, k)}
LayersIn(l, o, k) == {m \in 1 .. k : o \in l[m].updates /\ Ended(l, o, m, k)}
UpdatesIn(l, o, f, k) == {m \in f .. k : o \in l[m].updates}

-----------------------------------------------------------------------------
(* Types. *)

Infos == [layers : SUBSET Nat, count : Nat]

Txns == [updates : SUBSET (Objects \cup {"root_parent"}),
         begin : Objects \cup {"none"}, end : Objects \cup {"none"},
         info : Infos, trim : Nat]

SuperBlocks == [generation : Nat \ {0}, offset : Nat \ {0}, checkpoint : Nat \ {0},
                offsets : [Objects -> Nat], contents : SUBSET Nat]

ObjectStates == [mutable : SUBSET Nat, sealed : SUBSET Nat, layers : SUBSET Nat,
                 count : Nat, recent : Nat, flushing : Nat, opened : BOOLEAN]

Steps == {"Begin", "Create", "Write", "End", "Purge"}

(***************************************************************************)
(* Type correctness.                                                       *)
(***************************************************************************)
TypeOK ==
    /\ log \in Seq(Txns)
    /\ durable \in Nat /\ durable <= Len(log)
    /\ copies \in [Copies -> SUBSET (SuperBlocks \cup {Torn})]
    /\ mounted \in BOOLEAN
    /\ replaying \in Nat
    /\ object \in [Objects -> ObjectStates]
    /\ root_parent \in SUBSET Nat
    /\ checkpoints \in [Objects -> [old : Nat, current : Nat]]
    /\ journal \in [super_block : SuperBlocks, to_write : Copies, zero_offset : Nat]
    /\ commit \in [pc : {"free", "trimming", "ready"}, trim : Nat]
    /\ compaction \in [pc : {"idle", "flushing", "writing"}, todo : SUBSET Objects,
                       step : Steps, snapshot : Nat, layers : SUBSET Nat]
    /\ panicked \in BOOLEAN

(***************************************************************************)
(* What an EndFlush records is what the journal before it says is flushed, *)
(* and its object's parent has the record.                                 *)
(***************************************************************************)
LogInv ==
    \A n \in 1 .. Len(log) :
      /\ log[n].begin = "none" \/ log[n].end = "none"
      /\ \A o \in Objects :
           log[n].end = o => /\ Parent(o) \in log[n].updates
                             /\ log[n].info.layers = LayersIn(log, o, n)
                             /\ log[n].info.count = Cardinality(LayersIn(log, o, n))

(***************************************************************************)
(* A super-block from which the journal l, of which d transactions are     *)
(* durable, can be replayed: it lies within the durable part, nothing it   *)
(* needs is trimmed, and the mutations before the offsets it has are in    *)
(* layer files.                                                            *)
(***************************************************************************)
From(sb, o) == IF sb.offsets[o] # None THEN sb.offsets[o] ELSE sb.offset

Sound(sb, l, d) ==
    /\ sb \in SuperBlocks
    /\ sb.offset <= d + 1
    /\ sb.checkpoint <= sb.offset
    /\ sb.contents = UpdatesIn(l, "root_parent", 1, sb.offset - 1)
    /\ \A n \in 1 .. Len(l) : l[n].trim <= sb.checkpoint
    /\ \A o \in Objects :
         /\ sb.checkpoint <= From(sb, o) /\ From(sb, o) <= sb.offset
         /\ \A m \in 1 .. sb.offset - 1 :
              o \in l[m].updates /\ m < From(sb, o) => Ended(l, o, m, sb.offset - 1)

\* What is about to be trimmed, too.
NotTrimmed(sb) == journal.zero_offset <= sb.checkpoint /\ commit.trim <= sb.checkpoint

(***************************************************************************)
(* The super-blocks.  While the one written last may be torn or lost, the  *)
(* other copy has one that is sound, and newer than what else the crash    *)
(* may leave.                                                              *)
(***************************************************************************)
Current == Other(journal.to_write)
Clean == copies[Current] = {journal.super_block}

Fallback(p) ==
    /\ Sound(p, log, durable) /\ NotTrimmed(p)
    /\ \A sb \in copies[Current] : sb = journal.super_block \/ sb.generation < p.generation

CopiesInv ==
    /\ Sound(journal.super_block, log, durable) /\ NotTrimmed(journal.super_block)
    /\ journal.super_block \in copies[Current]
    /\ \E p \in copies[journal.to_write] :
         /\ copies[journal.to_write] = {p}
         /\ p.generation < journal.super_block.generation
         /\ Clean \/ Fallback(p)

CrashedInv ==
    \E a \in copies["A"], b \in copies["B"] :
      /\ copies["A"] = {a} /\ copies["B"] = {b}
      /\ \/ a.generation < b.generation /\ Sound(b, log, durable)
         \/ b.generation < a.generation /\ Sound(a, log, durable)

(***************************************************************************)
(* The objects, the root parent and the checkpoints are what the journal   *)
(* up to k says, from the offset f(o) on.                                  *)
(***************************************************************************)
Least(c, S) == IF S = {} THEN c = None ELSE c \in S /\ \A m \in S : c <= m

Holds(o, f, k) ==
    /\ object[o].mutable = MutableIn(log, o, f, k)
    /\ object[o].sealed = SealedIn(log, o, f, k)
    /\ Least(checkpoints[o].current, object[o].mutable)
    /\ Least(checkpoints[o].old, object[o].sealed)

Unopened(o) ==
    /\ ~object[o].opened
    /\ object[o].layers = {} /\ object[o].count = 0
    /\ object[o].recent = Cardinality(object[o].mutable)
    /\ object[o].flushing = Cardinality(object[o].sealed)

Opened(o) ==
    /\ object[o].opened
    /\ object[o].layers = LayersIn(log, o, Len(log))
    /\ object[o].count = Cardinality(Mutations(o))
    /\ object[o].recent = 0 /\ object[o].flushing = 0

ReplayInv ==
    LET sb == journal.super_block
        k == replaying - 1
    IN
    /\ replaying >= sb.checkpoint /\ replaying <= EndOffset
    /\ \A o \in Objects : Holds(o, From(sb, o), k) /\ Unopened(o)
    /\ root_parent = sb.contents \cup UpdatesIn(log, "root_parent", sb.offset, k)

MountedInv ==
    /\ \A o \in Objects : /\ Holds(o, 1, Len(log))
                          /\ Opened(o) \/ (Unopened(o) /\ o = "volume")
    /\ root_parent = Mutations("root_parent")

(***************************************************************************)
(* The compaction.  The super-block is only written over one that has been *)
(* flushed, and what is written to a layer file and recorded with it is    *)
(* what its BeginFlush sealed.                                             *)
(***************************************************************************)
CompactionInv ==
    LET o == FlushedNext(compaction.todo)
        held == object[o].sealed \cup object[o].layers
    IN
    /\ compaction.pc = "writing" => Clean /\ durable = Len(log)
    /\ compaction.pc = "flushing" /\ compaction.todo = {} => Clean \/ durable < Len(log)
    /\ ~Clean => \/ durable < Len(log)
                 \/ ToFlush # {}
                 \/ journal.super_block.checkpoint = EndOffset
    /\ compaction.step # "Begin" => compaction.todo # {} /\ object[o].opened
    /\ compaction.step \in {"Create", "Write", "End"} => compaction.snapshot = Cardinality(held)
    /\ compaction.step = "End" => compaction.layers = held

AtRest == commit = [pc |-> "free", trim |-> None] /\ compaction = Idle /\ ~panicked

IInv ==
    /\ TypeOK /\ LogInv
    /\ mounted => replaying = None /\ CopiesInv /\ MountedInv /\ CompactionInv
    /\ replaying # None => ReplayInv /\ CopiesInv /\ Clean
    /\ ~mounted => AtRest /\ durable = Len(log)
    /\ ~mounted /\ replaying = None =>
         /\ CrashedInv
         /\ object = [o \in Objects |-> EmptyObject]
         /\ checkpoints = [o \in Objects |-> NoCheckpoint]

-----------------------------------------------------------------------------
(* The parts of the journal. *)

\* A BeginFlush after m is one before k or the last transaction.
LEMMA BegunStep ==
    ASSUME NEW l, NEW o, NEW k \in Nat, NEW m \in 1 .. k + 1
    PROVE  Begun(l, o, m, k + 1) <=> Begun(l, o, m, k) \/ l[k + 1].begin = o
BY DEF Begun

\* A flush is complete when it was before, or when it ends here.
LEMMA EndedStep ==
    ASSUME NEW l, NEW o, NEW k \in Nat, NEW m \in 1 .. k + 1
    PROVE  Ended(l, o, m, k + 1) <=>
             Ended(l, o, m, k) \/ (l[k + 1].end = o /\ Begun(l, o, m, k))
BY DEF Begun, Ended

\* What one more transaction does to the mutable layer.
MutableStep(l, o, f, k, t) ==
    MutableIn(l, o, f, k + 1) =
      IF t.begin = o THEN {}
      ELSE MutableIn(l, o, f, k) \cup (IF o \in t.updates THEN {k + 1} ELSE {})

\* A BeginFlush empties it, everything else adds to it.
LEMMA StepMutable ==
    ASSUME NEW l, NEW o, NEW k \in Nat, NEW f \in 1 .. k + 1
    PROVE  MutableStep(l, o, f, k, l[k + 1])
<1>1. ~Begun(l, o, k + 1, k)
  BY DEF Begun
<1>2. \A m \in f .. k + 1 : m \in 1 .. k + 1
  OBVIOUS
<1>3. \A m \in f .. k + 1 :
        Begun(l, o, m, k + 1) <=> Begun(l, o, m, k) \/ l[k + 1].begin = o
  BY <1>2, BegunStep
<1>4. \A m : m \in f .. k + 1 <=> m \in f .. k \/ m = k + 1
  OBVIOUS
<1> QED
  BY <1>1, <1>3, <1>4 DEF MutableIn, MutableStep

\* What one more transaction does to the sealed layers.
SealedStep(l, o, f, k, t) ==
    SealedIn(l, o, f, k + 1) =
      IF t.begin = o
      THEN SealedIn(l, o, f, k) \cup MutableIn(l, o, f, k)
             \cup (IF o \in t.updates THEN {k + 1} ELSE {})
      ELSE IF t.end = o THEN {} ELSE SealedIn(l, o, f, k)

\* A BeginFlush seals what is mutable, an EndFlush has it in layer files.
LEMMA StepSealed ==
    ASSUME NEW l, NEW o, NEW k \in Nat, NEW f \in 1 .. k + 1,
           ~(l[k + 1].begin = o /\ l[k + 1].end = o)
    PROVE  SealedStep(l, o, f, k, l[k + 1])
<1>1. ~Begun(l, o, k + 1, k) /\ ~Ended(l, o, k + 1, k)
  BY DEF Begun, Ended
<1>2. \A m \in f .. k + 1 : m \in 1 .. k + 1
  OBVIOUS
<1>3. \A m \in f .. k + 1 :
        Begun(l, o, m, k + 1) <=> Begun(l, o, m, k) \/ l[k + 1].begin = o
  BY <1>2, BegunStep
<1>4. \A m \in f .. k + 1 :
        Ended(l, o, m, k + 1) <=>
          Ended(l, o, m, k) \/ (l[k + 1].end = o /\ Begun(l, o, m, k))
  BY <1>2, EndedStep
<1>5. \A m : m \in f .. k + 1 <=> m \in f .. k \/ m = k + 1
  OBVIOUS
<1>6. \A m : Ended(l, o, m, k) => Begun(l, o, m, k)
  BY DEF Begun, Ended
<1>7. k + 1 \notin f .. k
  OBVIOUS
<1> DEFINE n == k + 1
<1>8. CASE l[n].begin = o
  BY <1>1, <1>3, <1>4, <1>5, <1>6, <1>7, <1>8 DEF SealedIn, MutableIn, SealedStep
<1>9. CASE l[n].begin # o
  BY <1>1, <1>3, <1>4, <1>5, <1>6, <1>7, <1>9 DEF SealedIn, MutableIn, SealedStep
<1> QED
  BY <1>8, <1>9

\* What one more transaction does to the layer files.
LEMMA StepLayers ==
    ASSUME NEW l, NEW o, NEW k \in Nat
    PROVE  LayersIn(l, o, k + 1) =
             IF l[k + 1].end = o THEN LayersIn(l, o, k) \cup SealedIn(l, o, 1, k)
             ELSE LayersIn(l, o, k)
<1>1. ~Begun(l, o, k + 1, k) /\ ~Ended(l, o, k + 1, k)
  BY DEF Begun, Ended
<1>4. \A m \in 1 .. k + 1 :
        Ended(l, o, m, k + 1) <=>
          Ended(l, o, m, k) \/ (l[k + 1].end = o /\ Begun(l, o, m, k))
  BY EndedStep
<1>5. \A m : m \in 1 .. k + 1 <=> m \in 1 .. k \/ m = k + 1
  OBVIOUS
<1>6. \A m : Ended(l, o, m, k) => Begun(l, o, m, k)
  BY DEF Begun, Ended
<1> QED
  BY <1>1, <1>4, <1>5, <1>6 DEF SealedIn, LayersIn

\* Every mutation is in one of the three places, and in one only.
LEMMA Parts ==
    ASSUME NEW l, NEW o, NEW k \in Nat
    PROVE  /\ UpdatesIn(l, o, 1, k) =
                LayersIn(l, o, k) \cup SealedIn(l, o, 1, k) \cup MutableIn(l, o, 1, k)
           /\ LayersIn(l, o, k) \cap (SealedIn(l, o, 1, k) \cup MutableIn(l, o, 1, k)) = {}
           /\ SealedIn(l, o, 1, k) \cap MutableIn(l, o, 1, k) = {}
<1>1. \A m : Ended(l, o, m, k) => Begun(l, o, m, k)
  BY DEF Begun, Ended
<1> QED
  BY <1>1 DEF UpdatesIn, LayersIn, SealedIn, MutableIn

\* The parts depend on nothing but the journal up to k.
SameParts(l, l2, k) ==
    \A o : /\ \A m \in 1 .. k : Ended(l2, o, m, k) <=> Ended(l, o, m, k)
          /\ MutableIn(l2, o, 1, k) = MutableIn(l, o, 1, k)
          /\ SealedIn(l2, o, 1, k) = SealedIn(l, o, 1, k)
          /\ LayersIn(l2, o, k) = LayersIn(l, o, k)
          /\ UpdatesIn(l2, o, 1, k) = UpdatesIn(l, o, 1, k)

\* Journals that agree up to k have the same parts.
LEMMA Same ==
    ASSUME NEW l, NEW l2, NEW k \in Nat, \A i \in 1 .. k : l2[i] = l[i]
    PROVE  SameParts(l, l2, k)
<1> SUFFICES ASSUME NEW o
             PROVE  /\ \A m \in 1 .. k : Ended(l2, o, m, k) <=> Ended(l, o, m, k)
                    /\ MutableIn(l2, o, 1, k) = MutableIn(l, o, 1, k)
                    /\ SealedIn(l2, o, 1, k) = SealedIn(l, o, 1, k)
                    /\ LayersIn(l2, o, k) = LayersIn(l, o, k)
                    /\ UpdatesIn(l2, o, 1, k) = UpdatesIn(l, o, 1, k)
  BY DEF SameParts
<1>1. \A m \in 1 .. k : Ended(l2, o, m, k) <=> Ended(l, o, m, k)
  BY DEF Ended
<1>2. \A m \in 1 .. k : Begun(l2, o, m, k) <=> Begun(l, o, m, k)
  BY DEF Begun
<1> QED
  BY <1>1, <1>2 DEF MutableIn, SealedIn, LayersIn, UpdatesIn

\* They are finite.
LEMMA FiniteParts ==
    ASSUME NEW l, NEW o, NEW k \in Nat, NEW f \in Nat
    PROVE  /\ IsFiniteSet(MutableIn(l, o, f, k)) /\ IsFiniteSet(SealedIn(l, o, f, k))
           /\ IsFiniteSet(LayersIn(l, o, k)) /\ IsFiniteSet(UpdatesIn(l, o, f, k))
<1>1. IsFiniteSet(f .. k) /\ IsFiniteSet(1 .. k)
  BY FS_Interval
<1>2. /\ MutableIn(l, o, f, k) \in SUBSET (f .. k) /\ SealedIn(l, o, f, k) \in SUBSET (f .. k)
      /\ LayersIn(l, o, k) \in SUBSET (1 .. k) /\ UpdatesIn(l, o, f, k) \in SUBSET (f .. k)
  BY DEF MutableIn, SealedIn, LayersIn, UpdatesIn
<1> QED
  BY <1>1, <1>2, FS_Subset

\* Replay from f on finds all of what is not in layer files, if what is before
\* f is in layer files.
LEMMA FromOn ==
    ASSUME NEW l, NEW o, NEW k \in Nat, NEW f \in Nat \ {0},
           \A m \in 1 .. k : o \in l[m].updates /\ m < f => Ended(l, o, m, k)
    PROVE  /\ MutableIn(l, o, f, k) = MutableIn(l, o, 1, k)
           /\ SealedIn(l, o, f, k) = SealedIn(l, o, 1, k)
<1>1. \A m : Ended(l, o, m, k) => Begun(l, o, m, k)
  BY DEF Begun, Ended
<1>2. \A m \in 1 .. k : m \in f .. k \/ m < f
  OBVIOUS
<1>3. \A m \in f .. k : m \in 1 .. k
  OBVIOUS
<1> QED
  BY <1>1, <1>2, <1>3 DEF MutableIn, SealedIn

\* What has been flushed stays so as the journal grows.
LEMMA EndedGrows ==
    ASSUME NEW l, NEW o, NEW k \in Nat, NEW j \in Nat, j <= k, NEW m \in Nat,
           Ended(l, o, m, j)
    PROVE  Ended(l, o, m, k)
BY DEF Ended

\* The last EndFlush says what is in layer files.
LEMMA LastEnd ==
    ASSUME NEW l, NEW o, NEW k \in Nat, NEW e \in 1 .. k,
           \A n \in 1 .. k : l[n].end = o => n <= e
    PROVE  LayersIn(l, o, k) = LayersIn(l, o, e)
<1>1. \A m \in 1 .. k : Ended(l, o, m, k) => m <= e /\ Ended(l, o, m, e)
  BY DEF Ended
<1>2. \A m \in 1 .. e : Ended(l, o, m, e) => Ended(l, o, m, k)
  BY DEF Ended
<1> QED
  BY <1>1, <1>2 DEF LayersIn

\* Without one nothing is.
LEMMA NoEnd ==
    ASSUME NEW l, NEW o, NEW k \in Nat, \A n \in 1 .. k : l[n].end # o
    PROVE  LayersIn(l, o, k) = {}
BY DEF LayersIn, Ended

\* Every non-empty set of naturals has a least element.
LEMMA MinIs ==
    ASSUME NEW S \in SUBSET Nat, S # {}
    PROVE  Min(S) \in S /\ \A n \in S : Min(S) <= n
<1>1. PICK x \in S : \A y \in S : ~(<<y, x>> \in OpToRel(<, Nat))
  BY NatLessThanWellFounded, WFMin
<1>2. \A y \in S : x <= y
  <2> TAKE y \in S
  <2>1. <<y, x>> \in Nat \X Nat
    OBVIOUS
  <2>2. ~(y < x)
    BY <1>1, <2>1 DEF OpToRel
  <2> QED
    BY <2>2
<1> QED
  BY <1>2 DEF Min

\* Every non-empty set of offsets in the journal has a greatest element.
LEMMA MaxIs ==
    ASSUME NEW k \in Nat, NEW S \in SUBSET (1 .. k), S # {}
    PROVE  Max(S) \in S /\ \A n \in S : Max(S) >= n
<1> DEFINE T == {i \in Nat : i <= k /\ k - i \in S}
<1>1. T \in SUBSET Nat /\ T # {}
  <2>1. PICK n \in S : TRUE
    OBVIOUS
  <2>2. k - n \in Nat /\ k - n <= k /\ k - (k - n) = n
    OBVIOUS
  <2>3. k - n \in T
    BY <2>1, <2>2
  <2> QED
    BY <2>3
<1>2. Min(T) \in T /\ \A n \in T : Min(T) <= n
  BY <1>1, MinIs
<1>3. k - Min(T) \in S
  BY <1>2
<1>4. \A n \in S : k - Min(T) >= n
  <2> TAKE n \in S
  <2>1. k - n \in Nat /\ k - n <= k /\ k - (k - n) = n
    OBVIOUS
  <2>2. k - n \in T
    BY <2>1
  <2>3. Min(T) \in Nat
    BY <1>2
  <2> QED
    BY <1>2, <2>2, <2>3
<1> QED
  BY <1>3, <1>4 DEF Max

\* What is sealed was written before what is mutable.
LEMMA SealedFirst ==
    ASSUME NEW l, NEW o, NEW k \in Nat, NEW f \in Nat,
           NEW s \in SealedIn(l, o, f, k), NEW m \in MutableIn(l, o, f, k)
    PROVE  s < m
BY DEF SealedIn, MutableIn, Begun

-----------------------------------------------------------------------------
(* What a transaction does to an object and to its checkpoints. *)

\* The fields of an object after a transaction is applied live.
LiveStep(new, obj, o, n, t) ==
    LET own == IF o \in t.updates THEN {n} ELSE {} IN
    /\ new \in ObjectStates
    /\ new.mutable = IF t.begin = o THEN {} ELSE obj.mutable \cup own
    /\ new.sealed = IF t.begin = o THEN obj.sealed \cup obj.mutable \cup own
                    ELSE IF t.end = o THEN {} ELSE obj.sealed
    /\ new.layers = IF t.begin # o /\ t.end = o THEN t.info.layers ELSE obj.layers
    /\ new.count = IF o \in t.updates THEN obj.count + 1 ELSE obj.count
    /\ new.recent = obj.recent /\ new.flushing = obj.flushing
    /\ new.opened = obj.opened

\* That is what ApplyLive makes of them.
LEMMA LiveFields ==
    ASSUME NEW obj \in ObjectStates, NEW o \in Objects, NEW n \in Nat, NEW t \in Txns,
           ~(t.begin = o /\ t.end = o)
    PROVE  LiveStep(ApplyLive(obj, o, n, t), obj, o, n, t)
<1>0. t.info.layers \in SUBSET Nat
  BY DEF Txns, Infos
<1> DEFINE u == IF o \in t.updates
                THEN [obj EXCEPT !.mutable = @ \cup {n}, !.count = @ + 1] ELSE obj
           own == IF o \in t.updates THEN {n} ELSE {}
<1>1. /\ u \in ObjectStates /\ u.mutable = obj.mutable \cup own /\ u.sealed = obj.sealed
      /\ u.layers = obj.layers
      /\ u.count = IF o \in t.updates THEN obj.count + 1 ELSE obj.count
      /\ u.recent = obj.recent /\ u.flushing = obj.flushing /\ u.opened = obj.opened
  <2>1. CASE o \in t.updates
    <3>1. u = [obj EXCEPT !.mutable = obj.mutable \cup {n}, !.count = obj.count + 1]
      BY <2>1
    <3>2. obj.mutable \cup {n} \in SUBSET Nat /\ obj.count + 1 \in Nat
      BY DEF ObjectStates
    <3> HIDE DEF u
    <3>3. own = {n}
      BY <2>1
    <3>4. u \in ObjectStates
      BY <3>1, <3>2 DEF ObjectStates
    <3> QED
      BY <3>1, <3>3, <3>4, <2>1 DEF ObjectStates
  <2>2. CASE o \notin t.updates
    BY <2>2
  <2> QED
    BY <2>1, <2>2
<1> HIDE DEF u
<1>2. ApplyLive(obj, o, n, t) =
        CASE t.begin = o -> [u EXCEPT !.sealed = @ \cup u.mutable, !.mutable = {}]
          [] t.end = o -> [u EXCEPT !.sealed = {}, !.layers = t.info.layers]
          [] OTHER -> u
  BY DEF ApplyLive, u
<1>3. CASE t.begin = o
  <2>1. ApplyLive(obj, o, n, t) =
          [u EXCEPT !.sealed = u.sealed \cup u.mutable, !.mutable = {}]
    BY <1>2, <1>3
  <2>2. u.sealed \cup u.mutable \in SUBSET Nat
    BY <1>1 DEF ObjectStates
  <2>3. ApplyLive(obj, o, n, t) \in ObjectStates
    BY <2>1, <2>2, <1>1 DEF ObjectStates
  <2> QED
    BY <2>1, <2>3, <1>1, <1>3 DEF ObjectStates, LiveStep
<1>4. CASE t.begin # o /\ t.end = o
  <2>1. ApplyLive(obj, o, n, t) = [u EXCEPT !.sealed = {}, !.layers = t.info.layers]
    BY <1>2, <1>4
  <2> QED
    BY <2>1, <1>0, <1>1, <1>4 DEF ObjectStates, LiveStep
<1>5. CASE t.begin # o /\ t.end # o
  BY <1>1, <1>2, <1>5 DEF LiveStep
<1> QED
  BY <1>3, <1>4, <1>5

\* Counts and layers may be replaced.
LEMMA ObjectExcept ==
    ASSUME NEW v \in ObjectStates, NEW a \in Nat, NEW b \in Nat, NEW S \in SUBSET Nat
    PROVE  /\ [v EXCEPT !.flushing = a, !.recent = b] \in ObjectStates
           /\ [v EXCEPT !.sealed = S, !.flushing = a] \in ObjectStates
<1>1. [v EXCEPT !.flushing = a, !.recent = b] \in ObjectStates
  BY DEF ObjectStates
<1>2. [v EXCEPT !.sealed = S, !.flushing = a] \in ObjectStates
  BY DEF ObjectStates
<1> QED
  BY <1>1, <1>2

\* The fields of an object after a transaction is replayed.
ReplayStep(new, obj, o, n, t) ==
    LET own == IF o \in t.updates THEN {n} ELSE {}
        one == IF o \in t.updates THEN 1 ELSE 0
    IN
    /\ new \in ObjectStates
    /\ new.mutable = IF t.begin = o THEN {} ELSE obj.mutable \cup own
    /\ new.sealed = IF t.begin = o THEN obj.sealed \cup obj.mutable \cup own
                    ELSE IF t.end = o THEN {} ELSE obj.sealed
    /\ new.recent = IF t.begin = o THEN 0 ELSE obj.recent + one
    /\ new.flushing = IF t.begin = o THEN obj.flushing + obj.recent + one
                      ELSE IF t.end = o THEN 0 ELSE obj.flushing
    /\ new.layers = obj.layers /\ new.count = obj.count /\ new.opened = obj.opened

\* That is what ApplyReplay makes of them.
LEMMA ReplayFields ==
    ASSUME NEW obj \in ObjectStates, NEW o \in Objects, NEW n \in Nat, NEW t \in Txns,
           ~(t.begin = o /\ t.end = o)
    PROVE  ReplayStep(ApplyReplay(obj, o, n, t), obj, o, n, t)
<1> DEFINE u == IF o \in t.updates
                THEN [obj EXCEPT !.mutable = @ \cup {n}, !.recent = @ + 1] ELSE obj
           own == IF o \in t.updates THEN {n} ELSE {}
           one == IF o \in t.updates THEN 1 ELSE 0
<1>1. /\ u \in ObjectStates /\ u.mutable = obj.mutable \cup own /\ u.sealed = obj.sealed
      /\ u.layers = obj.layers /\ u.count = obj.count
      /\ u.recent = obj.recent + one
      /\ u.flushing = obj.flushing /\ u.opened = obj.opened
  <2>1. CASE o \in t.updates
    <3>1. u = [obj EXCEPT !.mutable = obj.mutable \cup {n}, !.recent = obj.recent + 1]
      BY <2>1
    <3>2. obj.mutable \cup {n} \in SUBSET Nat /\ obj.recent + 1 \in Nat
      BY DEF ObjectStates
    <3> HIDE DEF u
    <3>3. own = {n} /\ one = 1
      BY <2>1
    <3>4. u \in ObjectStates
      BY <3>1, <3>2 DEF ObjectStates
    <3> QED
      BY <3>1, <3>3, <3>4, <2>1 DEF ObjectStates
  <2>2. CASE o \notin t.updates
    <3>1. obj.recent + 0 = obj.recent
      BY DEF ObjectStates
    <3> QED
      BY <3>1, <2>2
  <2> QED
    BY <2>1, <2>2
<1> HIDE DEF u
<1>2. ApplyReplay(obj, o, n, t) =
        CASE t.begin = o -> [u EXCEPT !.sealed = @ \cup u.mutable, !.mutable = {},
                                      !.flushing = @ + u.recent, !.recent = 0]
          [] t.end = o -> [u EXCEPT !.sealed = {}, !.flushing = 0]
          [] OTHER -> u
  BY DEF ApplyReplay, ReplayEndFlush, u
<1>3. CASE t.begin = o
  <2>1. ApplyReplay(obj, o, n, t) =
          [u EXCEPT !.sealed = u.sealed \cup u.mutable, !.mutable = {},
                    !.flushing = u.flushing + u.recent, !.recent = 0]
    BY <1>2, <1>3
  <2>2. u.sealed \cup u.mutable \in SUBSET Nat /\ u.flushing + u.recent \in Nat
    BY <1>1 DEF ObjectStates
  <2>3. ApplyReplay(obj, o, n, t) \in ObjectStates
    <3> DEFINE v == [u EXCEPT !.sealed = u.sealed \cup u.mutable, !.mutable = {}]
    <3>1. v \in ObjectStates
      BY <2>2, <1>1 DEF ObjectStates
    <3>2. ApplyReplay(obj, o, n, t) =
            [v EXCEPT !.flushing = u.flushing + u.recent, !.recent = 0]
      BY <2>1
    <3> HIDE DEF v
    <3>3. 0 \in Nat
      OBVIOUS
    <3>4. [v EXCEPT !.flushing = u.flushing + u.recent, !.recent = 0] \in ObjectStates
      BY <3>1, <3>3, <2>2, ObjectExcept, Zenon
    <3> QED
      BY <3>2, <3>4, Zenon
  <2>4. u.flushing + u.recent = obj.flushing + obj.recent + one
    BY <1>1 DEF ObjectStates
  <2> QED
    BY <2>1, <2>3, <2>4, <1>1, <1>3 DEF ObjectStates, ReplayStep
<1>4. CASE t.begin # o /\ t.end = o
  <2>1. ApplyReplay(obj, o, n, t) = [u EXCEPT !.sealed = {}, !.flushing = 0]
    BY <1>2, <1>4
  <2>2. ApplyReplay(obj, o, n, t) \in ObjectStates
    <3>1. 0 \in Nat /\ {} \in SUBSET Nat
      OBVIOUS
    <3>2. [u EXCEPT !.sealed = {}, !.flushing = 0] \in ObjectStates
      BY <3>1, <1>1, ObjectExcept, Zenon
    <3> QED
      BY <2>1, <3>2, Zenon
  <2> QED
    BY <2>1, <2>2, <1>1, <1>4 DEF ObjectStates, ReplayStep
<1>5. CASE t.begin # o /\ t.end # o
  BY <1>1, <1>2, <1>5 DEF ReplayStep
<1> QED
  BY <1>3, <1>4, <1>5

CheckpointStates == [old : Nat, current : Nat]

\* The fields of an object's checkpoints after a transaction.
LEMMA CheckpointFields ==
    ASSUME NEW c \in CheckpointStates, NEW o \in Objects, NEW n \in Nat, NEW t \in Txns,
           ~(t.begin = o /\ t.end = o)
    PROVE  LET new == ApplyCheckpoint(c, o, n, t)
               current == IF o \in t.updates /\ c.current = None THEN n ELSE c.current
           IN
           /\ new \in CheckpointStates
           /\ new.current = IF t.begin = o THEN None ELSE current
           /\ new.old = IF t.begin = o THEN IF c.old # None THEN c.old ELSE current
                        ELSE IF t.end = o THEN None ELSE c.old
<1> DEFINE u == IF o \in t.updates THEN Depends(c, n) ELSE c
           current == IF o \in t.updates /\ c.current = None THEN n ELSE c.current
<1>1. u \in CheckpointStates /\ u.old = c.old /\ u.current = current
  BY DEF Depends, CheckpointStates
<1> HIDE DEF u
<1>2. ApplyCheckpoint(c, o, n, t) =
        CASE t.begin = o -> [old |-> Earliest(u), current |-> None]
          [] t.end = o /\ u.old # None -> [u EXCEPT !.old = None]
          [] OTHER -> u
  BY DEF ApplyCheckpoint, u
<1>3. CASE t.begin = o
  <2>1. ApplyCheckpoint(c, o, n, t) = [old |-> Earliest(u), current |-> None]
    BY <1>2, <1>3
  <2> QED
    BY <2>1, <1>1, <1>3 DEF Earliest, CheckpointStates, None
<1>4. CASE t.begin # o /\ t.end = o /\ u.old # None
  <2>1. ApplyCheckpoint(c, o, n, t) = [u EXCEPT !.old = None]
    BY <1>2, <1>4
  <2> QED
    BY <2>1, <1>1, <1>4 DEF CheckpointStates, None
<1>5. CASE t.begin # o /\ ~(t.end = o /\ u.old # None)
  <2>1. ApplyCheckpoint(c, o, n, t) = u
    BY <1>2, <1>5
  <2> QED
    BY <2>1, <1>1, <1>5
<1> QED
  BY <1>3, <1>4, <1>5

\* The checkpoints stay the least offsets of what is mutable and of what is
\* sealed, if what is sealed is before what is mutable.
LeastAfter(new, o, n, t, M, S) ==
    LET own == IF o \in t.updates THEN {n} ELSE {} IN
    /\ new \in CheckpointStates
    /\ Least(new.current, IF t.begin = o THEN {} ELSE M \cup own)
    /\ Least(new.old, IF t.begin = o THEN S \cup M \cup own
                      ELSE IF t.end = o THEN {} ELSE S)

\* ApplyCheckpoint sees to it.
LEMMA LeastStep ==
    ASSUME NEW c \in CheckpointStates, NEW o \in Objects, NEW n \in Nat \ {0}, NEW t \in Txns,
           ~(t.begin = o /\ t.end = o),
           NEW M, NEW S, M \in SUBSET (1 .. n - 1), S \in SUBSET (1 .. n - 1),
           \A s \in S, m \in M : s < m,
           Least(c.current, M), Least(c.old, S)
    PROVE  LeastAfter(ApplyCheckpoint(c, o, n, t), o, n, t, M, S)
<1> DEFINE new == ApplyCheckpoint(c, o, n, t)
           own == IF o \in t.updates THEN {n} ELSE {}
           current == IF o \in t.updates /\ c.current = None THEN n ELSE c.current
<1>1. /\ new \in CheckpointStates
      /\ new.current = IF t.begin = o THEN None ELSE current
      /\ new.old = IF t.begin = o THEN IF c.old # None THEN c.old ELSE current
                   ELSE IF t.end = o THEN None ELSE c.old
  BY CheckpointFields
<1> HIDE DEF new
<1>2. Least(current, M \cup own)
  <2>1. CASE M = {}
    <3>1. c.current = None
      BY <2>1 DEF Least
    <3>2. CASE o \in t.updates
      BY <2>1, <3>1, <3>2 DEF Least
    <3>3. CASE o \notin t.updates
      BY <2>1, <3>1, <3>3 DEF Least
    <3> QED
      BY <3>2, <3>3
  <2>2. CASE M # {}
    <3>1. c.current \in M /\ \A m \in M : c.current <= m
      BY <2>2 DEF Least
    <3>2. c.current # None /\ c.current <= n
      BY <3>1 DEF None
    <3>3. current = c.current
      BY <3>2
    <3> QED
      BY <3>1, <3>2, <3>3, <2>2 DEF Least
  <2> QED
    BY <2>1, <2>2
<1>3. Least(IF c.old # None THEN c.old ELSE current, S \cup (M \cup own))
  <2>1. CASE S = {}
    <3>1. c.old = None
      BY <2>1 DEF Least
    <3> QED
      BY <3>1, <2>1, <1>2 DEF None
  <2>2. CASE S # {}
    <3>1. c.old \in S /\ \A m \in S : c.old <= m
      BY <2>2 DEF Least
    <3>2. \A m \in M \cup own : c.old <= m
      <4>0. c.old \in 1 .. n - 1
        BY <3>1
      <4>1. c.old \in Nat /\ n \in Nat /\ c.old <= n
        BY <4>0
      <4>2. \A m \in M : c.old <= m
        BY <3>1, <4>1
      <4> QED
        BY <4>1, <4>2
    <3>3. c.old # None
      BY <3>1 DEF None
    <3> QED
      BY <3>1, <3>2, <3>3 DEF Least
  <2> QED
    BY <2>1, <2>2
<1>4. S \cup (M \cup own) = S \cup M \cup own
  OBVIOUS
<1>5. Least(None, {})
  BY DEF Least
<1> QED
  BY <1>1, <1>2, <1>3, <1>4, <1>5 DEF new, LeastAfter

-----------------------------------------------------------------------------
(* The journal grows. *)

\* A super-block stays sound as long as the durable part of the journal stays
\* and nothing it needs is trimmed.
LEMMA SoundAgree ==
    ASSUME NEW sb, NEW l, NEW d \in Nat, NEW l2, NEW d2 \in Nat, d <= d2,
           Sound(sb, l, d), \A i \in 1 .. d : l2[i] = l[i],
           \A n \in 1 .. Len(l2) : l2[n].trim <= sb.checkpoint
    PROVE  Sound(sb, l2, d2)
<1>0. sb \in SuperBlocks /\ sb.offset <= d + 1
  BY DEF Sound
<1> DEFINE k == sb.offset - 1
<1>1. k \in Nat /\ k <= d
  BY <1>0 DEF SuperBlocks
<1>2. \A i \in 1 .. k : l2[i] = l[i]
  BY <1>1
<1>3. /\ UpdatesIn(l2, "root_parent", 1, k) = UpdatesIn(l, "root_parent", 1, k)
      /\ \A o \in Objects : \A m \in 1 .. k : Ended(l2, o, m, k) <=> Ended(l, o, m, k)
  <2>1. SameParts(l, l2, k)
    BY <1>1, <1>2, Same
  <2> QED
    BY <2>1 DEF SameParts
<1>4. \A o \in Objects : \A m \in 1 .. k : Ended(l2, o, m, k) <=> Ended(l, o, m, k)
  BY <1>3
<1>5. sb.offset <= d2 + 1
  BY <1>0 DEF SuperBlocks
<1>6. \A o \in Objects :
        /\ sb.checkpoint <= From(sb, o) /\ From(sb, o) <= sb.offset
        /\ \A m \in 1 .. k : o \in l2[m].updates /\ m < From(sb, o) => Ended(l2, o, m, k)
  BY <1>2, <1>4 DEF Sound
<1> QED
  BY <1>0, <1>3, <1>5, <1>6 DEF Sound

\* The journal after a transaction.
LEMMA LogGrows ==
    ASSUME log \in Seq(Txns), NEW t \in Txns, log' = Append(log, t)
    PROVE  /\ log' \in Seq(Txns) /\ Len(log) \in Nat /\ Len(log') = Len(log) + 1
           /\ \A i \in 1 .. Len(log) : log'[i] = log[i]
           /\ log'[Len(log) + 1] = t
OBVIOUS

\* A transaction that fits the state it is applied in.
Proper(t) ==
    /\ t \in Txns
    /\ t.begin = "none" \/ t.end = "none"
    /\ \A o \in Objects :
         /\ t.end = o => /\ Parent(o) \in t.updates
                         /\ t.info.layers = object[o].sealed \cup object[o].layers
                         /\ t.info.count = Cardinality(object[o].sealed \cup object[o].layers)
         /\ ~object[o].opened => o \notin t.updates /\ t.begin # o /\ t.end # o

\* One transaction flushes one object, and nobody is called "none".
LEMMA OneObject ==
    ASSUME NEW t, t.begin = "none" \/ t.end = "none", NEW o \in Objects
    PROVE  ~(t.begin = o /\ t.end = o)
BY ObjectsAssumption

\* What an opened object and a closed one hold.
LEMMA HeldLayers ==
    ASSUME TypeOK, MountedInv, NEW o \in Objects
    PROVE  /\ object[o].mutable = MutableIn(log, o, 1, Len(log))
           /\ object[o].sealed = SealedIn(log, o, 1, Len(log))
           /\ object[o].opened => object[o].layers = LayersIn(log, o, Len(log))
BY DEF MountedInv, Holds, Opened, Unopened

\* The journal's invariant survives a commit.
LEMMA LogInvGrows ==
    ASSUME TypeOK, LogInv, MountedInv, NEW t, Proper(t), log' = Append(log, t)
    PROVE  LogInv'
<1> DEFINE k == Len(log)
<1>1. /\ k \in Nat /\ Len(log') = k + 1 /\ \A i \in 1 .. k : log'[i] = log[i]
      /\ log'[k + 1] = t
  BY LogGrows DEF TypeOK, Proper
<1> SUFFICES ASSUME NEW n \in 1 .. k + 1
             PROVE  /\ log'[n].begin = "none" \/ log'[n].end = "none"
                    /\ \A o \in Objects :
                         log'[n].end = o =>
                           /\ Parent(o) \in log'[n].updates
                           /\ log'[n].info.layers = LayersIn(log', o, n)
                           /\ log'[n].info.count = Cardinality(LayersIn(log', o, n))
  BY <1>1 DEF LogInv, Parent
<1>2. CASE n \in 1 .. k
  <2>1. \A o \in Objects : LayersIn(log', o, n) = LayersIn(log, o, n)
    <3> TAKE o \in Objects
    <3>1. n \in Nat /\ \A i \in 1 .. n : log'[i] = log[i]
      BY <1>1, <1>2
    <3>2. SameParts(log, log', n)
      BY <3>1, Same
    <3> QED
      BY <3>2 DEF SameParts
  <2>2. log'[n] = log[n]
    BY <1>1, <1>2
  <2> QED
    BY <1>2, <2>1, <2>2 DEF LogInv
<1>3. CASE n = k + 1
  <2>1. log'[n] = t
    BY <1>1, <1>3
  <2>2. ASSUME NEW o \in Objects, t.end = o
        PROVE  LayersIn(log', o, n) = object[o].sealed \cup object[o].layers
    <3>1. LayersIn(log', o, k + 1) = LayersIn(log', o, k) \cup SealedIn(log', o, 1, k)
      BY <1>1, <2>2, StepLayers
    <3>2. LayersIn(log', o, k) = LayersIn(log, o, k)
          /\ SealedIn(log', o, 1, k) = SealedIn(log, o, 1, k)
      <4>1. SameParts(log, log', k)
        BY <1>1, Same
      <4> QED
        BY <4>1 DEF SameParts
    <3>3. object[o].opened
      BY <2>2 DEF Proper
    <3>4. /\ object[o].sealed = SealedIn(log, o, 1, k)
          /\ object[o].layers = LayersIn(log, o, k)
      BY <3>3, HeldLayers
    <3> QED
      BY <3>1, <3>2, <3>4, <1>3
  <2>3. ASSUME NEW o \in Objects, t.end = o
        PROVE  /\ Parent(o) \in t.updates
               /\ t.info.layers = LayersIn(log', o, n)
               /\ t.info.count = Cardinality(LayersIn(log', o, n))
    <3>1. /\ Parent(o) \in t.updates
          /\ t.info.layers = object[o].sealed \cup object[o].layers
          /\ t.info.count = Cardinality(object[o].sealed \cup object[o].layers)
      BY <2>3 DEF Proper
    <3> QED
      BY <3>1, <2>2, <2>3, Zenon
  <2>4. t.begin = "none" \/ t.end = "none"
    BY DEF Proper
  <2> QED
    BY <2>1, <2>3, <2>4
<1> QED
  BY <1>2, <1>3

\* What an object holds is what the journal says, after a commit too.
LEMMA HoldsGrows ==
    ASSUME TypeOK, MountedInv, NEW t, Proper(t), WriteAndApply(t), NEW o \in Objects
    PROVE  Holds(o, 1, Len(log))'
<1> DEFINE k == Len(log)
           own == IF o \in t.updates THEN {k + 1} ELSE {}
<1>1. /\ k \in Nat /\ Len(log') = k + 1 /\ \A i \in 1 .. k : log'[i] = log[i]
      /\ log'[k + 1] = t
  BY LogGrows DEF TypeOK, Proper, WriteAndApply
<1>2. t \in Txns /\ ~(t.begin = o /\ t.end = o)
  BY OneObject DEF Proper
<1>3. /\ object'[o] = ApplyLive(object[o], o, k + 1, t)
      /\ checkpoints'[o] = ApplyCheckpoint(checkpoints[o], o, k + 1, t)
  BY DEF WriteAndApply
<1>4. object[o] \in ObjectStates /\ checkpoints[o] \in CheckpointStates
  BY DEF TypeOK, CheckpointStates
<1>5. /\ object'[o].mutable = IF t.begin = o THEN {} ELSE object[o].mutable \cup own
      /\ object'[o].sealed = IF t.begin = o
                             THEN object[o].sealed \cup object[o].mutable \cup own
                             ELSE IF t.end = o THEN {} ELSE object[o].sealed
  <2>1. LiveStep(object'[o], object[o], o, k + 1, t)
    BY <1>1, <1>2, <1>3, <1>4, LiveFields
  <2> QED
    BY <2>1 DEF LiveStep
<1>6. /\ object[o].mutable = MutableIn(log, o, 1, k)
      /\ object[o].sealed = SealedIn(log, o, 1, k)
  BY HeldLayers
<1>7. /\ object[o].mutable = MutableIn(log', o, 1, k)
      /\ object[o].sealed = SealedIn(log', o, 1, k)
  <2>1. SameParts(log, log', k)
    BY <1>1, Same
  <2> QED
    BY <2>1, <1>6 DEF SameParts
<1>8. 1 \in 1 .. k + 1
  BY <1>1
<1>9. object'[o].mutable = MutableIn(log', o, 1, k + 1)
  <2>1. MutableStep(log', o, 1, k, log'[k + 1])
    BY <1>1, <1>8, StepMutable
  <2>2. MutableStep(log', o, 1, k, t)
    BY <1>1, <2>1, Zenon
  <2> QED
    BY <1>5, <1>7, <2>2, Zenon DEF MutableStep
<1>10. object'[o].sealed = SealedIn(log', o, 1, k + 1)
  <2>0. ~(log'[k + 1].begin = o /\ log'[k + 1].end = o)
    BY <1>1, <1>2
  <2>1. SealedStep(log', o, 1, k, log'[k + 1])
    BY <1>1, <1>8, <2>0, StepSealed
  <2>2. SealedStep(log', o, 1, k, t)
    BY <1>1, <2>1, Zenon
  <2> QED
    BY <1>5, <1>7, <2>2, Zenon DEF SealedStep
<1>11. /\ Least(checkpoints[o].current, object[o].mutable)
       /\ Least(checkpoints[o].old, object[o].sealed)
  BY DEF MountedInv, Holds
<1>12. \A s \in object[o].sealed, m \in object[o].mutable : s < m
  BY <1>1, <1>6, SealedFirst
<1>13. /\ object[o].mutable \in SUBSET (1 .. k + 1 - 1)
       /\ object[o].sealed \in SUBSET (1 .. k + 1 - 1)
  BY <1>1, <1>6 DEF MutableIn, SealedIn
<1>14. /\ Least(checkpoints'[o].current, object'[o].mutable)
       /\ Least(checkpoints'[o].old, object'[o].sealed)
  <2>1. k + 1 \in Nat \ {0}
    BY <1>1
  <2> QED
    <3>1. LeastAfter(checkpoints'[o], o, k + 1, t, object[o].mutable, object[o].sealed)
      BY <1>2, <1>3, <1>4, <1>11, <1>12, <1>13, <2>1, LeastStep
    <3> QED
      BY <3>1, <1>5, Zenon DEF LeastAfter
<1> QED
  BY <1>1, <1>9, <1>10, <1>14 DEF Holds

\* The layer files and the count of an opened object, after a commit.
LEMMA OpenedGrows ==
    ASSUME TypeOK, MountedInv, NEW t, Proper(t), WriteAndApply(t), NEW o \in Objects,
           Opened(o)
    PROVE  Opened(o)'
<1> DEFINE k == Len(log)
           own == IF o \in t.updates THEN {k + 1} ELSE {}
<1>1. /\ k \in Nat /\ Len(log') = k + 1 /\ \A i \in 1 .. k : log'[i] = log[i]
      /\ log'[k + 1] = t
  BY LogGrows DEF TypeOK, Proper, WriteAndApply
<1>2. t \in Txns /\ ~(t.begin = o /\ t.end = o)
  BY OneObject DEF Proper
<1>3. object'[o] = ApplyLive(object[o], o, k + 1, t)
  BY DEF WriteAndApply
<1>4. object[o] \in ObjectStates
  BY DEF TypeOK
<1>5. /\ object'[o].layers = IF t.begin # o /\ t.end = o THEN t.info.layers
                             ELSE object[o].layers
      /\ object'[o].count = IF o \in t.updates THEN object[o].count + 1 ELSE object[o].count
      /\ object'[o].recent = object[o].recent /\ object'[o].flushing = object[o].flushing
      /\ object'[o].opened = object[o].opened
  <2>1. LiveStep(object'[o], object[o], o, k + 1, t)
    BY <1>1, <1>2, <1>3, <1>4, LiveFields
  <2> QED
    BY <2>1 DEF LiveStep
<1>6. SameParts(log, log', k)
  BY <1>1, Same
<1>7. object'[o].layers = LayersIn(log', o, k + 1)
  <2>1. LayersIn(log', o, k + 1) =
          IF t.end = o THEN LayersIn(log', o, k) \cup SealedIn(log', o, 1, k)
          ELSE LayersIn(log', o, k)
    BY <1>1, StepLayers
  <2>2. /\ object[o].layers = LayersIn(log', o, k)
        /\ object[o].sealed = SealedIn(log', o, 1, k)
    BY <1>6, HeldLayers DEF SameParts, Opened
  <2>3. CASE t.end = o
    <3>1. t.info.layers = object[o].sealed \cup object[o].layers
      BY <2>3 DEF Proper
    <3> QED
      BY <1>2, <1>5, <2>1, <2>2, <2>3, <3>1
  <2>4. CASE t.end # o
    BY <1>5, <2>1, <2>2, <2>4
  <2> QED
    BY <2>3, <2>4
<1>8. Mutations(o)' = Mutations(o) \cup own
  <2>1. Mutations(o)' = {n \in 1 .. k + 1 : o \in log'[n].updates}
    BY <1>1 DEF Mutations
  <2>2. \A n : n \in 1 .. k + 1 <=> n \in 1 .. k \/ n = k + 1
    BY <1>1
  <2> QED
    BY <2>1, <2>2, <1>1 DEF Mutations
<1>9. object'[o].count = Cardinality(Mutations(o)')
  <2>1. IsFiniteSet(Mutations(o)) /\ k + 1 \notin Mutations(o)
    <3>1. Mutations(o) \in SUBSET (1 .. k) /\ IsFiniteSet(1 .. k) /\ k + 1 \notin 1 .. k
      BY <1>1, FS_Interval DEF Mutations
    <3> QED
      BY <3>1, FS_Subset
  <2>2. object[o].count = Cardinality(Mutations(o))
    BY DEF Opened
  <2>3. CASE o \in t.updates
    <3>1. Cardinality(Mutations(o) \cup {k + 1}) = Cardinality(Mutations(o)) + 1
      BY <2>1, FS_AddElement
    <3> QED
      BY <3>1, <2>2, <2>3, <1>5, <1>8
  <2>4. CASE o \notin t.updates
    <3>1. Mutations(o)' = Mutations(o)
      BY <2>4, <1>8
    <3> QED
      BY <3>1, <2>2, <2>4, <1>5
  <2> QED
    BY <2>3, <2>4
<1> QED
  BY <1>1, <1>5, <1>7, <1>9 DEF Opened

\* Nothing is committed to a store that is not open.
LEMMA UnopenedGrows ==
    ASSUME TypeOK, NEW t, Proper(t), WriteAndApply(t), NEW o \in Objects, Unopened(o)
    PROVE  Unopened(o)'
<1>1. Len(log) + 1 \in Nat /\ object[o] \in ObjectStates
  BY DEF TypeOK
<1>2. t \in Txns /\ ~(t.begin = o /\ t.end = o)
  BY OneObject DEF Proper
<1>3. LiveStep(object'[o], object[o], o, Len(log) + 1, t)
  BY <1>1, <1>2, LiveFields DEF WriteAndApply
<1>4. o \notin t.updates /\ t.begin # o /\ t.end # o
  BY DEF Proper, Unopened
<1>5. /\ object'[o].mutable = object[o].mutable /\ object'[o].sealed = object[o].sealed
      /\ object'[o].layers = object[o].layers /\ object'[o].count = object[o].count
      /\ object'[o].recent = object[o].recent /\ object'[o].flushing = object[o].flushing
      /\ object'[o].opened = object[o].opened
  BY <1>3, <1>4 DEF LiveStep
<1> QED
  BY <1>5 DEF Unopened

\* A commit keeps the mounted state in step with the journal.
LEMMA MountedGrows ==
    ASSUME TypeOK, MountedInv, NEW t, Proper(t), WriteAndApply(t)
    PROVE  MountedInv'
<1>1. \A o \in Objects : Holds(o, 1, Len(log))'
  BY HoldsGrows
<1>2. \A o \in Objects : (Opened(o) \/ (Unopened(o) /\ o = "volume"))'
  BY OpenedGrows, UnopenedGrows DEF MountedInv
<1>3. root_parent' = Mutations("root_parent")'
  <2> DEFINE k == Len(log)
  <2>1. /\ k \in Nat /\ Len(log') = k + 1 /\ \A i \in 1 .. k : log'[i] = log[i]
        /\ log'[k + 1] = t
    BY LogGrows DEF TypeOK, Proper, WriteAndApply
  <2>2. \A n : n \in 1 .. k + 1 <=> n \in 1 .. k \/ n = k + 1
    BY <2>1
  <2>3. Mutations("root_parent")' =
          {n \in 1 .. k + 1 : "root_parent" \in log'[n].updates}
    BY <2>1 DEF Mutations
  <2>4. root_parent' = IF "root_parent" \in t.updates THEN root_parent \cup {k + 1}
                       ELSE root_parent
    BY DEF WriteAndApply
  <2>5. root_parent = {n \in 1 .. k : "root_parent" \in log[n].updates}
    BY DEF MountedInv, Mutations
  <2> QED
    BY <2>1, <2>2, <2>3, <2>4, <2>5
<1> QED
  BY <1>1, <1>2, <1>3 DEF MountedInv

\* The types after a commit.
LEMMA CommitTypes ==
    ASSUME TypeOK, NEW t, Proper(t), WriteAndApply(t)
    PROVE  /\ log' \in Seq(Txns) /\ Len(log') = Len(log) + 1
           /\ object' \in [Objects -> ObjectStates]
           /\ checkpoints' \in [Objects -> [old : Nat, current : Nat]]
           /\ root_parent' \in SUBSET Nat
<1>1. Len(log) + 1 \in Nat /\ t \in Txns
  BY DEF TypeOK, Proper
<1>2. ASSUME NEW o \in Objects
      PROVE  /\ ApplyLive(object[o], o, Len(log) + 1, t) \in ObjectStates
             /\ ApplyCheckpoint(checkpoints[o], o, Len(log) + 1, t) \in CheckpointStates
  <2>1. ~(t.begin = o /\ t.end = o)
    BY OneObject DEF Proper
  <2>2. object[o] \in ObjectStates /\ checkpoints[o] \in CheckpointStates
    BY DEF TypeOK, CheckpointStates
  <2>3. LiveStep(ApplyLive(object[o], o, Len(log) + 1, t), object[o], o, Len(log) + 1, t)
    BY <1>1, <2>1, <2>2, LiveFields
  <2>4. ApplyCheckpoint(checkpoints[o], o, Len(log) + 1, t) \in CheckpointStates
    BY <1>1, <2>1, <2>2, CheckpointFields
  <2> QED
    BY <2>3, <2>4 DEF LiveStep
<1>3. log' \in Seq(Txns) /\ Len(log') = Len(log) + 1
  BY <1>1, LogGrows DEF TypeOK, WriteAndApply
<1>4. object' \in [Objects -> ObjectStates]
  BY <1>2 DEF WriteAndApply
<1>5. checkpoints' \in [Objects -> CheckpointStates]
  BY <1>2 DEF WriteAndApply
<1>6. root_parent' \in SUBSET Nat
  BY <1>1 DEF TypeOK, WriteAndApply
<1> QED
  BY <1>3, <1>4, <1>5, <1>6 DEF CheckpointStates

\* Nothing is trimmed that sb needs, now or by what is about to be trimmed.
Keeps(sb) == (\A n \in 1 .. Len(log) : log[n].trim <= sb.checkpoint) /\ NotTrimmed(sb)

\* The super-blocks stay as they are when only the journal grows, and is not
\* trimmed further than has been announced.
LEMMA CopiesFrame ==
    ASSUME TypeOK, CopiesInv, copies' = copies, durable' \in Nat, durable <= durable',
           journal'.super_block = journal.super_block, journal'.to_write = journal.to_write,
           \A i \in 1 .. durable : log'[i] = log[i],
           \A sb \in SuperBlocks : Keeps(sb) => Keeps(sb)'
    PROVE  CopiesInv' /\ (Clean' <=> Clean)
<1>1. Current' = Current
  BY DEF Current, Other
<1>2. Clean' <=> Clean
  BY <1>1 DEF Clean
<1>3. ASSUME NEW sb, Sound(sb, log, durable), NotTrimmed(sb)
      PROVE  Sound(sb, log', durable') /\ NotTrimmed(sb)'
  <2>1. sb \in SuperBlocks /\ Keeps(sb)
    BY <1>3 DEF Sound, Keeps
  <2>2. (\A n \in 1 .. Len(log') : log'[n].trim <= sb.checkpoint) /\ NotTrimmed(sb)'
    BY <2>1 DEF Keeps
  <2>3. durable \in Nat
    BY DEF TypeOK
  <2> QED
    BY <1>3, <2>2, <2>3, SoundAgree
<1>4. PICK p \in copies[journal.to_write] :
         /\ copies[journal.to_write] = {p}
         /\ p.generation < journal.super_block.generation
         /\ Clean \/ Fallback(p)
  BY DEF CopiesInv
<1>5. Fallback(p) => Fallback(p)'
  BY <1>1, <1>3 DEF Fallback
<1>6. /\ Sound(journal.super_block, log, durable)' /\ NotTrimmed(journal.super_block)'
  BY <1>3 DEF CopiesInv
<1>7. (journal.super_block \in copies[Current])'
  BY <1>1 DEF CopiesInv
<1>8. (\E q \in copies[journal.to_write] :
         /\ copies[journal.to_write] = {q}
         /\ q.generation < journal.super_block.generation
         /\ Clean \/ Fallback(q))'
  BY <1>2, <1>4, <1>5
<1> QED
  BY <1>2, <1>6, <1>7, <1>8 DEF CopiesInv

-----------------------------------------------------------------------------
(* The transactions. *)

\* What the transactions of users and those that make and purge layer files
\* look like.
LEMMA UpdateFields ==
    ASSUME NEW objs
    PROVE  /\ Update(objs) \in Txns /\ Update(objs).begin = "none" /\ Update(objs).end = "none"
           /\ Update(objs).updates = objs \cap (Objects \cup {"root_parent"})
           /\ Update(objs).trim = 0
<1>1. NoInfo \in Infos
  BY DEF NoInfo, Infos
<1>2. Update(objs) \in Txns
  BY <1>1 DEF Txns, Update, None
<1> QED
  BY <1>2 DEF Update, None

\* What the one that begins a flush looks like.
LEMMA BeginFields ==
    ASSUME NEW objs, NEW o \in Objects
    PROVE  /\ BeginFlush(o, objs) \in Txns
           /\ BeginFlush(o, objs).begin = o /\ BeginFlush(o, objs).end = "none"
           /\ BeginFlush(o, objs).updates = objs \cap (Objects \cup {"root_parent"})
           /\ BeginFlush(o, objs).trim = 0
<1>1. BeginFlush(o, objs) \in Txns
  BY UpdateFields DEF BeginFlush, Txns
<1> QED
  BY <1>1 DEF BeginFlush, Update, None

\* What the one that ends it looks like.
LEMMA EndFields ==
    ASSUME NEW objs, NEW o \in Objects, NEW info \in Infos
    PROVE  /\ EndFlush(o, objs, info) \in Txns
           /\ EndFlush(o, objs, info).begin = "none" /\ EndFlush(o, objs, info).end = o
           /\ EndFlush(o, objs, info).updates = objs \cap (Objects \cup {"root_parent"})
           /\ EndFlush(o, objs, info).trim = 0 /\ EndFlush(o, objs, info).info = info
<1>0. Update(objs) \in Txns
  BY UpdateFields
<1>1. EndFlush(o, objs, info) \in Txns
  BY <1>0 DEF EndFlush, Txns
<1> QED
  BY <1>1 DEF EndFlush, Update, None

\* What the one that trims the journal looks like.
LEMMA TrimFields ==
    ASSUME NEW offset \in Nat
    PROVE  /\ Trim(offset) \in Txns /\ Trim(offset).begin = "none" /\ Trim(offset).end = "none"
           /\ Trim(offset).updates = {"root_parent", "allocator"} \cap
                                       (Objects \cup {"root_parent"})
           /\ Trim(offset).trim = offset
<1>1. Trim(offset) \in Txns
  BY UpdateFields DEF Trim, Txns
<1> QED
  BY <1>1 DEF Trim, Update, None

\* Only a volume may be closed.
LEMMA OnlyVolumes ==
    ASSUME MountedInv, NEW o \in Objects, ~object[o].opened
    PROVE  o = "volume"
BY DEF MountedInv, Opened

\* The next object to flush is one that is still to be flushed.
LEMMA NextIn ==
    ASSUME NEW todo \in SUBSET Objects, todo # {}
    PROVE  FlushedNext(todo) \in todo
BY ObjectsAssumption DEF FlushedNext

\* Each step of a flush commits a transaction that fits.
LEMMA FlushProper ==
    ASSUME TypeOK, MountedInv, CompactionInv, compaction.todo # {},
           NEW o, o = FlushedNext(compaction.todo), object[o].opened
    PROVE  LET t == FlushTxn(o, compaction.step) IN
           /\ Proper(t) /\ t.trim = 0
           /\ t.begin = IF compaction.step = "Begin" THEN o ELSE "none"
           /\ t.end = IF compaction.step = "End" THEN o ELSE "none"
           /\ compaction.step = "Begin" => o \notin t.updates
<1> DEFINE info == [layers |-> compaction.layers, count |-> compaction.snapshot]
           step == compaction.step
           t == FlushTxn(o, step)
<1>1. o \in Objects /\ step \in Steps
  BY NextIn DEF TypeOK
<1>2. info \in Infos
  BY DEF TypeOK, Infos
<1> HIDE DEF info
<1>4. "volume" \notin Files(o) /\ Parent(o) \in Files(o)
      /\ Parent(o) \in Objects \cup {"root_parent"}
  BY <1>1, ObjectsAssumption DEF Files, Parent
<1>5. \A p \in Objects : ~object[p].opened => p = "volume" /\ p # o
  BY OnlyVolumes
<1>6. o # "none"
  BY <1>1, ObjectsAssumption
<1>7. CASE step = "Begin"
  <2> DEFINE objs == IF o = "allocator" THEN {"root"} ELSE {}
  <2>1. t = BeginFlush(o, objs)
    BY <1>7 DEF FlushTxn
  <2> HIDE DEF t, objs
  <2>2. /\ t \in Txns /\ t.begin = o /\ t.end = "none" /\ t.trim = 0
        /\ t.updates = objs \cap (Objects \cup {"root_parent"})
    BY <1>1, <2>1, BeginFields
  <2>3. "volume" \notin objs /\ o \notin objs
    BY DEF objs
  <2>4. Proper(t)
    BY <1>5, <2>2, <2>3, ObjectsAssumption DEF Proper
  <2> QED
    BY <1>7, <2>2, <2>3, <2>4 DEF t
<1>8. CASE step = "End"
  <2>1. t = EndFlush(o, Files(o), info)
    BY <1>8 DEF FlushTxn, info
  <2> HIDE DEF t
  <2>2. /\ t \in Txns /\ t.begin = "none" /\ t.end = o /\ t.trim = 0 /\ t.info = info
        /\ t.updates = Files(o) \cap (Objects \cup {"root_parent"})
    <3>1. t \in Txns
      BY <1>1, <1>2, <2>1, EndFields
    <3>2. t.begin = "none" /\ t.end = o
      BY <1>1, <1>2, <2>1, EndFields
    <3>3. t.trim = 0 /\ t.info = info
      BY <1>1, <1>2, <2>1, EndFields
    <3>4. t.updates = Files(o) \cap (Objects \cup {"root_parent"})
      BY <1>1, <1>2, <2>1, EndFields
    <3> QED
      BY <3>1, <3>2, <3>3, <3>4
  <2>3. /\ compaction.layers = object[o].sealed \cup object[o].layers
        /\ compaction.snapshot = Cardinality(object[o].sealed \cup object[o].layers)
    BY <1>8 DEF CompactionInv
  <2>4. /\ t.info.layers = object[o].sealed \cup object[o].layers
        /\ t.info.count = Cardinality(object[o].sealed \cup object[o].layers)
    BY <2>2, <2>3 DEF info
  <2>5. Proper(t)
    BY <1>4, <1>5, <1>6, <2>2, <2>4 DEF Proper
  <2> QED
    BY <1>8, <2>2, <2>5 DEF t
<1>9. CASE step \notin {"Begin", "End"}
  <2>1. t = Update(Files(o))
    BY <1>9 DEF FlushTxn
  <2> HIDE DEF t
  <2>2. /\ t \in Txns /\ t.begin = "none" /\ t.end = "none" /\ t.trim = 0
        /\ t.updates = Files(o) \cap (Objects \cup {"root_parent"})
    BY <2>1, UpdateFields
  <2>3. Proper(t)
    BY <1>4, <1>5, <2>2, ObjectsAssumption DEF Proper
  <2> QED
    BY <1>9, <2>2, <2>3 DEF t
<1> QED
  BY <1>7, <1>8, <1>9

-----------------------------------------------------------------------------
(* Commits keep the invariant. *)

CommitTypesOK ==
    /\ journal \in [super_block : SuperBlocks, to_write : Copies, zero_offset : Nat]
    /\ commit \in [pc : {"free", "trimming", "ready"}, trim : Nat]
    /\ compaction \in [pc : {"idle", "flushing", "writing"}, todo : SUBSET Objects,
                       step : Steps, snapshot : Nat, layers : SUBSET Nat]

\* All but the compaction's own part.
LEMMA CommitNext ==
    ASSUME IInv, NEW t, Proper(t), WriteAndApply(t), t.trim <= commit.trim,
           UNCHANGED <<durable, copies, mounted, replaying, panicked>>,
           CommitTypesOK',
           journal'.super_block = journal.super_block, journal'.to_write = journal.to_write,
           journal'.zero_offset <= journal.zero_offset, commit'.trim <= commit.trim
    PROVE  /\ mounted /\ MountedInv /\ CompactionInv /\ TypeOK
           /\ (Clean' <=> Clean) /\ durable' < Len(log')
           /\ CompactionInv' => IInv'
<1>1. mounted /\ TypeOK /\ LogInv /\ MountedInv /\ CompactionInv /\ CopiesInv
      /\ replaying = None
  BY DEF IInv, WriteAndApply, Running
<1>2. /\ log' \in Seq(Txns) /\ Len(log') = Len(log) + 1
      /\ object' \in [Objects -> ObjectStates]
      /\ checkpoints' \in [Objects -> [old : Nat, current : Nat]]
      /\ root_parent' \in SUBSET Nat
  BY <1>1, CommitTypes
<1>3. durable \in Nat /\ Len(log) \in Nat /\ durable <= Len(log)
  BY <1>1 DEF TypeOK
<1>4. TypeOK'
  <2>1. CommitTypesOK'
    OBVIOUS
  <2> QED
    BY <1>1, <1>2, <1>3, <2>1 DEF TypeOK, CommitTypesOK
<1>5. MountedInv'
  BY <1>1, MountedGrows
<1>6. LogInv'
  BY <1>1, LogInvGrows DEF WriteAndApply
<1>7. CopiesInv' /\ (Clean' <=> Clean)
  <2>1. /\ Len(log') = Len(log) + 1 /\ \A i \in 1 .. Len(log) : log'[i] = log[i]
        /\ log'[Len(log) + 1] = t
    BY <1>1, LogGrows DEF TypeOK, Proper, WriteAndApply
  <2>2. \A i \in 1 .. durable : log'[i] = log[i]
    BY <2>1, <1>3
  <2>3. ASSUME NEW sb \in SuperBlocks, Keeps(sb)
        PROVE  Keeps(sb)'
    <3>1. /\ sb.checkpoint \in Nat /\ commit.trim \in Nat /\ journal.zero_offset \in Nat
          /\ commit'.trim \in Nat /\ journal'.zero_offset \in Nat /\ t.trim \in Nat
      BY <1>1, <1>4 DEF TypeOK, SuperBlocks, Proper, Txns
    <3>2. /\ commit.trim <= sb.checkpoint /\ journal.zero_offset <= sb.checkpoint
          /\ \A n \in 1 .. Len(log) : log[n].trim <= sb.checkpoint
      BY <2>3 DEF Keeps, NotTrimmed
    <3>3. commit'.trim <= sb.checkpoint /\ journal'.zero_offset <= sb.checkpoint
          /\ t.trim <= sb.checkpoint
      BY <3>1, <3>2
    <3>4. \A n \in 1 .. Len(log') : n \in 1 .. Len(log) \/ n = Len(log) + 1
      BY <2>1, <1>3
    <3>5. \A n \in 1 .. Len(log') : log'[n].trim <= sb.checkpoint
      BY <3>2, <3>3, <3>4, <2>1
    <3> QED
      BY <3>3, <3>5 DEF Keeps, NotTrimmed
  <2>4. durable' \in Nat /\ durable <= durable'
    BY <1>3
  <2> QED
    BY <1>1, <2>2, <2>3, <2>4, CopiesFrame
<1>8. durable' < Len(log')
  BY <1>2, <1>3
<1>9. CompactionInv' => IInv'
  BY <1>1, <1>4, <1>5, <1>6, <1>7 DEF IInv
<1> QED
  BY <1>1, <1>7, <1>8, <1>9

\* A commit that is not the compaction's leaves it alone.
LEMMA OthersCommit ==
    ASSUME IInv, NEW t, Proper(t), WriteAndApply(t), t.trim <= commit.trim,
           UNCHANGED <<durable, copies, mounted, replaying, panicked, compaction>>,
           CommitTypesOK', t.begin = "none", t.end = "none",
           journal'.super_block = journal.super_block, journal'.to_write = journal.to_write,
           journal'.zero_offset <= journal.zero_offset, commit'.trim <= commit.trim
    PROVE  IInv'
<1>1. /\ mounted /\ MountedInv /\ CompactionInv /\ TypeOK
      /\ (Clean' <=> Clean) /\ durable' < Len(log')
      /\ CompactionInv' => IInv'
  BY CommitNext
<1> DEFINE o == FlushedNext(compaction.todo)
<1>2. compaction.step # "Begin" =>
        /\ object'[o].sealed = object[o].sealed /\ object'[o].layers = object[o].layers
        /\ object'[o].opened = object[o].opened
  <2> SUFFICES ASSUME compaction.step # "Begin"
               PROVE  /\ object'[o].sealed = object[o].sealed
                      /\ object'[o].layers = object[o].layers
                      /\ object'[o].opened = object[o].opened
    OBVIOUS
  <2>1. o \in Objects /\ object[o] \in ObjectStates /\ Len(log) + 1 \in Nat
    <3>1. compaction.todo # {} /\ compaction.todo \in SUBSET Objects
      BY <1>1 DEF CompactionInv, TypeOK
    <3> QED
      BY <3>1, <1>1, NextIn DEF TypeOK
  <2>2. t \in Txns /\ t.begin # o /\ t.end # o
    BY <2>1, ObjectsAssumption DEF Proper
  <2>3. LiveStep(object'[o], object[o], o, Len(log) + 1, t)
    BY <2>1, <2>2, LiveFields DEF WriteAndApply
  <2> QED
    BY <2>2, <2>3 DEF LiveStep
<1>3. compaction.pc # "writing"
  BY DEF WriteAndApply, WriterLocked
<1>4. CompactionInv'
  BY <1>1, <1>2, <1>3 DEF CompactionInv
<1> QED
  BY <1>1, <1>4

\* Trimming keeps the invariant.
LEMMA TrimKeeps ==
    ASSUME IInv, TrimJournal
    PROVE  IInv'
<1>1. TypeOK
  BY DEF IInv
<1>2. commit.trim \in Nat /\ journal.zero_offset \in Nat
  BY <1>1 DEF TypeOK
<1> DEFINE t == Trim(commit.trim)
<1>3. /\ t \in Txns /\ t.begin = "none" /\ t.end = "none" /\ t.trim = commit.trim
      /\ t.updates = {"root_parent", "allocator"} \cap (Objects \cup {"root_parent"})
  BY <1>2, TrimFields
<1> HIDE DEF t
<1>4. WriteAndApply(t)
  BY DEF TrimJournal, t
<1>5. MountedInv
  BY <1>4 DEF IInv, WriteAndApply, Running
<1>6. Proper(t)
  BY <1>3, <1>5, OnlyVolumes, ObjectsAssumption DEF Proper
<1>7. /\ journal' = [journal EXCEPT !.zero_offset = IF @ = commit.trim THEN None ELSE @]
      /\ commit' = [pc |-> "ready", trim |-> None]
      /\ UNCHANGED <<durable, copies, mounted, replaying, compaction, panicked>>
  BY DEF TrimJournal
<1>8. CommitTypesOK'
  BY <1>1, <1>7 DEF TypeOK, CommitTypesOK, None
<1>9. /\ journal'.super_block = journal.super_block /\ journal'.to_write = journal.to_write
      /\ journal'.zero_offset <= journal.zero_offset /\ commit'.trim <= commit.trim
  BY <1>1, <1>2, <1>7 DEF TypeOK, None
<1>10. t.trim <= commit.trim
  BY <1>2, <1>3
<1> QED
  BY <1>3, <1>4, <1>6, <1>7, <1>8, <1>9, <1>10, OthersCommit

\* A user's transaction keeps the invariant.
LEMMA UserKeeps ==
    ASSUME IInv, NEW o \in Objects, UserCommit(o)
    PROVE  IInv'
<1>1. TypeOK
  BY DEF IInv
<1>2. commit.trim \in Nat /\ journal.zero_offset \in Nat
  BY <1>1 DEF TypeOK
<1> DEFINE t == Update({o, "allocator"})
<1>3. /\ t \in Txns /\ t.begin = "none" /\ t.end = "none" /\ t.trim = 0
      /\ t.updates = {o, "allocator"} \cap (Objects \cup {"root_parent"})
  BY UpdateFields
<1> HIDE DEF t
<1>4. WriteAndApply(t) /\ object[o].opened
  BY DEF UserCommit, Commit, t
<1>5. MountedInv
  BY <1>4 DEF IInv, WriteAndApply, Running
<1>6. Proper(t)
  BY <1>3, <1>4, <1>5, OnlyVolumes, ObjectsAssumption DEF Proper
<1>7. /\ UNCHANGED <<durable, copies, mounted, replaying, journal, compaction, panicked>>
      /\ commit' = [pc |-> "free", trim |-> None]
  BY DEF UserCommit, Commit
<1>8. CommitTypesOK'
  BY <1>1, <1>7 DEF TypeOK, CommitTypesOK, None
<1>9. /\ journal'.super_block = journal.super_block /\ journal'.to_write = journal.to_write
      /\ journal'.zero_offset <= journal.zero_offset /\ commit'.trim <= commit.trim
  BY <1>1, <1>2, <1>7 DEF TypeOK, None
<1>10. t.trim <= commit.trim
  BY <1>2, <1>3
<1> QED
  BY <1>3, <1>4, <1>6, <1>7, <1>8, <1>9, <1>10, OthersCommit

\* An opened object has counted what its layers and its mutable layer hold.
LEMMA CountHeld ==
    ASSUME TypeOK, MountedInv, NEW o \in Objects, object[o].opened
    PROVE  object[o].count =
             Cardinality(object[o].sealed \cup object[o].mutable \cup object[o].layers)
<1>1. Opened(o)
  BY DEF MountedInv, Unopened
<1>2. Len(log) \in Nat
  BY DEF TypeOK
<1>3. UpdatesIn(log, o, 1, Len(log)) =
        LayersIn(log, o, Len(log)) \cup SealedIn(log, o, 1, Len(log))
          \cup MutableIn(log, o, 1, Len(log))
  BY <1>2, Parts
<1>4. Mutations(o) = UpdatesIn(log, o, 1, Len(log))
  BY DEF Mutations, UpdatesIn
<1>5. Mutations(o) = object[o].sealed \cup object[o].mutable \cup object[o].layers
  BY <1>3, <1>4, HeldLayers
<1>6. object[o].count = Cardinality(Mutations(o))
  BY <1>1 DEF Opened
<1> QED
  BY <1>5, <1>6, Zenon

\* A step of a flush keeps the invariant.
LEMMA FlushKeeps ==
    ASSUME IInv, FlushStep
    PROVE  IInv'
<1> DEFINE o == FlushedNext(compaction.todo)
           step == compaction.step
           next == NextStep(o, step)
           t == FlushTxn(o, step)
<1>1. /\ compaction.pc = "flushing" /\ compaction.todo # {}
      /\ ~(step = "Begin" /\ ~object[o].opened)
      /\ WriteAndApply(t) /\ commit' = [pc |-> "free", trim |-> None]
      /\ compaction' =
           [compaction EXCEPT
              !.step = next,
              !.todo = IF next = "Begin" THEN @ \ {o} ELSE @,
              !.snapshot = IF step = "Begin" THEN object[o].count ELSE @,
              !.layers = IF step = "Write" THEN object[o].sealed \cup object[o].layers ELSE @]
      /\ UNCHANGED <<durable, copies, mounted, replaying, journal, panicked>>
  BY DEF FlushStep, Commit
<1>2. TypeOK /\ mounted /\ MountedInv /\ CompactionInv
  BY <1>1 DEF IInv, WriteAndApply, Running
<1>3. o \in Objects /\ step \in Steps /\ object[o] \in ObjectStates
  <2>1. compaction.todo \in SUBSET Objects /\ step \in Steps
    BY <1>2 DEF TypeOK
  <2> QED
    BY <1>1, <1>2, <2>1, NextIn DEF TypeOK
<1>4. object[o].opened
  BY <1>1, <1>2 DEF CompactionInv
<1>5. /\ Proper(t) /\ t.trim = 0
      /\ t.begin = IF step = "Begin" THEN o ELSE "none"
      /\ t.end = IF step = "End" THEN o ELSE "none"
      /\ step = "Begin" => o \notin t.updates
  BY <1>1, <1>2, <1>4, FlushProper
<1> HIDE DEF t, next, step
<1>6. /\ compaction'.pc = "flushing" /\ compaction'.step = next
      /\ compaction'.todo = IF next = "Begin" THEN compaction.todo \ {o} ELSE compaction.todo
      /\ compaction'.snapshot = IF step = "Begin" THEN object[o].count ELSE compaction.snapshot
      /\ compaction'.layers = IF step = "Write" THEN object[o].sealed \cup object[o].layers
                              ELSE compaction.layers
  BY <1>1, <1>2 DEF TypeOK
<1>7. /\ next \in Steps
      /\ step = "Begin" => next \in {"Create", "Write"}
      /\ step = "Create" => next = "Write"
      /\ step = "Write" => next = "End"
      /\ step = "End" => next \in {"Purge", "Begin"}
      /\ step = "Purge" => next = "Begin"
  BY <1>3 DEF NextStep, Steps, next
<1>8. CommitTypesOK'
  <2>1. /\ object[o].count \in Nat /\ object[o].sealed \cup object[o].layers \in SUBSET Nat
    BY <1>3 DEF ObjectStates
  <2>2. compaction' \in [pc : {"idle", "flushing", "writing"}, todo : SUBSET Objects,
                         step : Steps, snapshot : Nat, layers : SUBSET Nat]
    BY <1>1, <1>2, <1>7, <2>1 DEF TypeOK
  <2>3. commit' \in [pc : {"free", "trimming", "ready"}, trim : Nat]
    BY <1>1 DEF None
  <2> QED
    BY <1>1, <1>2, <2>2, <2>3 DEF TypeOK, CommitTypesOK
<1>9. /\ MountedInv /\ CompactionInv /\ TypeOK
      /\ (Clean' <=> Clean) /\ durable' < Len(log')
      /\ CompactionInv' => IInv'
  <2>1. commit.trim \in Nat /\ journal.zero_offset \in Nat
    BY <1>2 DEF TypeOK
  <2>2. /\ t.trim <= commit.trim /\ commit'.trim <= commit.trim
        /\ journal'.zero_offset <= journal.zero_offset
        /\ journal'.super_block = journal.super_block
        /\ journal'.to_write = journal.to_write
    BY <1>1, <1>5, <2>1 DEF None
  <2>3. UNCHANGED <<durable, copies, mounted, replaying, panicked>>
    BY <1>1
  <2> QED
    BY <1>1, <1>5, <1>8, <2>2, <2>3, CommitNext
<1>10. LiveStep(object'[o], object[o], o, Len(log) + 1, t)
  <2>1. Len(log) + 1 \in Nat /\ t \in Txns /\ ~(t.begin = o /\ t.end = o)
    BY <1>2, <1>3, <1>5, OneObject DEF TypeOK, Proper
  <2> QED
    BY <1>1, <1>3, <2>1, LiveFields DEF WriteAndApply
<1>11. object'[o].opened
  BY <1>4, <1>10 DEF LiveStep
<1> DEFINE held == object[o].sealed \cup object[o].layers
           newheld == object'[o].sealed \cup object'[o].layers
<1>12. step \in {"Create", "Write"} => newheld = held
  <2>1. step \in {"Create", "Write"} => t.begin # o /\ t.end # o
    BY <1>3, <1>5, ObjectsAssumption
  <2> QED
    BY <1>10, <2>1 DEF LiveStep
<1>13. step = "Begin" => compaction'.snapshot = Cardinality(newheld)
  <2> SUFFICES ASSUME step = "Begin" PROVE object[o].count = Cardinality(newheld)
    BY <1>6
  <2>1. newheld = object[o].sealed \cup object[o].mutable \cup object[o].layers
    <3>1. t.begin = o /\ o \notin t.updates
      BY <1>5
    <3>2. object'[o].sealed = object[o].sealed \cup object[o].mutable \cup {}
      BY <3>1, <1>10, Zenon DEF LiveStep
    <3>3. object'[o].layers = object[o].layers
      BY <3>1, <1>10 DEF LiveStep
    <3> QED
      BY <3>2, <3>3
  <2>2. object[o].count =
          Cardinality(object[o].sealed \cup object[o].mutable \cup object[o].layers)
    BY <1>2, <1>3, <1>4, CountHeld
  <2> QED
    BY <2>1, <2>2, Zenon
<1>14. step \in {"Create", "Write"} => compaction'.snapshot = Cardinality(newheld)
  <2>1. step \in {"Create", "Write"} => compaction.snapshot = Cardinality(held)
    BY <1>2 DEF CompactionInv, step
  <2>2. step \in {"Create", "Write"} => compaction'.snapshot = compaction.snapshot
    BY <1>6
  <2> QED
    BY <1>12, <2>1, <2>2, Zenon
<1>15. step = "Write" => compaction'.layers = newheld
  BY <1>6, <1>12
<1>16. next # "Begin" => FlushedNext(compaction'.todo) = o /\ compaction'.todo # {}
  BY <1>1, <1>6
<1>17. CompactionInv'
  <2> DEFINE p == FlushedNext(compaction'.todo)
  <2>1. compaction'.pc # "writing"
    BY <1>6
  <2>2. compaction'.step # "Begin" => compaction'.todo # {} /\ object'[p].opened
    BY <1>6, <1>11, <1>16
  <2>3. compaction'.step \in {"Create", "Write", "End"} =>
          compaction'.snapshot = Cardinality(object'[p].sealed \cup object'[p].layers)
    <3> SUFFICES ASSUME compaction'.step \in {"Create", "Write", "End"}
                 PROVE  compaction'.snapshot =
                          Cardinality(object'[p].sealed \cup object'[p].layers)
      OBVIOUS
    <3>1. next # "Begin" /\ step \in {"Begin", "Create", "Write"}
      BY <1>3, <1>6, <1>7 DEF Steps, step
    <3>2. p = o
      BY <3>1, <1>16
    <3>3. compaction'.snapshot = Cardinality(newheld)
      BY <3>1, <1>13, <1>14
    <3> QED
      BY <3>2, <3>3
  <2>4. compaction'.step = "End" =>
          compaction'.layers = object'[p].sealed \cup object'[p].layers
    <3> SUFFICES ASSUME compaction'.step = "End"
                 PROVE  compaction'.layers = object'[p].sealed \cup object'[p].layers
      OBVIOUS
    <3>1. next # "Begin" /\ step = "Write"
      BY <1>3, <1>6, <1>7 DEF Steps, step
    <3>2. p = o
      BY <3>1, <1>16
    <3> QED
      BY <3>1, <3>2, <1>15
  <2> QED
    BY <1>9, <2>1, <2>2, <2>3, <2>4 DEF CompactionInv
<1> QED
  BY <1>9, <1>17

-----------------------------------------------------------------------------
(* The steps that commit nothing keep the invariant. *)

\* The objects and the journal are in step as long as neither changes.
LEMMA MountedFrame ==
    ASSUME UNCHANGED <<log, object, checkpoints, root_parent>>
    PROVE  (LogInv => LogInv') /\ (MountedInv => MountedInv')
<1>1. LogInv => LogInv'
  BY DEF LogInv, Parent
<1>2. \A o \in Objects : Holds(o, 1, Len(log)) => Holds(o, 1, Len(log))'
  BY DEF Holds
<1>3. \A o \in Objects : (Opened(o) => Opened(o)') /\ (Unopened(o) => Unopened(o)')
  BY DEF Opened, Unopened, Mutations
<1>4. Mutations("root_parent")' = Mutations("root_parent")
  BY DEF Mutations
<1>5. MountedInv => MountedInv'
  BY <1>2, <1>3, <1>4 DEF MountedInv
<1> QED
  BY <1>1, <1>5

\* Announcing a trim keeps the invariant.
LEMMA PreCommitKeeps ==
    ASSUME IInv, PreCommit
    PROVE  IInv'
<1>1. /\ TypeOK /\ mounted /\ LogInv /\ MountedInv /\ CompactionInv /\ CopiesInv
      /\ replaying = None
  BY DEF IInv, PreCommit, Running
<1>2. /\ commit' = [pc |-> "trimming", trim |-> journal.zero_offset]
      /\ UNCHANGED <<log, durable, copies, mounted, replaying, object, root_parent,
                     checkpoints, journal, compaction, panicked>>
  BY DEF PreCommit
<1>3. TypeOK'
  BY <1>1, <1>2 DEF TypeOK
<1>4. LogInv' /\ MountedInv'
  BY <1>1, <1>2, MountedFrame
<1>5. CopiesInv' /\ (Clean' <=> Clean)
  <2>1. \A sb \in SuperBlocks : Keeps(sb) => Keeps(sb)'
    BY <1>2 DEF Keeps, NotTrimmed
  <2>2. durable' \in Nat /\ durable <= durable'
    BY <1>1, <1>2 DEF TypeOK
  <2> QED
    BY <1>1, <1>2, <2>1, <2>2, CopiesFrame
<1>6. CompactionInv'
  BY <1>1, <1>2, <1>5 DEF CompactionInv, ToFlush, EndOffset
<1> QED
  BY <1>1, <1>2, <1>3, <1>4, <1>5, <1>6 DEF IInv

\* Starting a compaction, or finding that it cannot go on, keeps the invariant.
LEMMA StartKeeps ==
    ASSUME IInv, StartCompaction \/ FlushUnopened
    PROVE  IInv'
<1>1. /\ TypeOK /\ mounted /\ LogInv /\ MountedInv /\ CompactionInv /\ CopiesInv
      /\ replaying = None
  BY DEF IInv, StartCompaction, FlushUnopened, Running
<1>2. UNCHANGED <<log, durable, copies, mounted, replaying, object, root_parent,
                  checkpoints, journal, commit>>
  BY DEF StartCompaction, FlushUnopened
<1>4. LogInv' /\ MountedInv'
  BY <1>1, <1>2, MountedFrame
<1>5. CopiesInv' /\ (Clean' <=> Clean)
  <2>1. \A sb \in SuperBlocks : Keeps(sb) => Keeps(sb)'
    BY <1>2 DEF Keeps, NotTrimmed
  <2>2. durable' \in Nat /\ durable <= durable'
    BY <1>1, <1>2 DEF TypeOK
  <2> QED
    BY <1>1, <1>2, <2>1, <2>2, CopiesFrame
<1>6. CASE StartCompaction
  <2>1. /\ EndOffset - journal.super_block.checkpoint > ReclaimSize
        /\ compaction' = [Idle EXCEPT !.pc = "flushing", !.todo = ToFlush]
        /\ panicked' = panicked
    BY <1>6 DEF StartCompaction
  <2>2. /\ compaction'.pc = "flushing" /\ compaction'.todo = ToFlush
        /\ compaction'.step = "Begin"
    BY <2>1 DEF Idle
  <2>3. TypeOK'
    <3>1. ToFlush \in SUBSET Objects
      BY DEF ToFlush
    <3>2. compaction' \in [pc : {"idle", "flushing", "writing"}, todo : SUBSET Objects,
                           step : Steps, snapshot : Nat, layers : SUBSET Nat]
      BY <2>1, <3>1 DEF Idle, Steps
    <3> QED
      BY <1>1, <1>2, <2>1, <3>2 DEF TypeOK
  <2>4. journal.super_block.checkpoint # EndOffset
    <3>1. journal.super_block.checkpoint \in Nat /\ EndOffset \in Nat /\ ReclaimSize \in Nat
      BY <1>1, BoundsAssumption DEF TypeOK, SuperBlocks, EndOffset
    <3> QED
      BY <2>1, <3>1
  <2>5. ToFlush = {} => Clean' \/ durable' < Len(log')
    BY <1>1, <1>2, <1>5, <2>4 DEF CompactionInv
  <2>6. ~Clean' => \/ durable' < Len(log')
                   \/ ToFlush' # {}
                   \/ journal'.super_block.checkpoint = EndOffset'
    BY <1>1, <1>2, <1>5 DEF CompactionInv, ToFlush, EndOffset
  <2>7. CompactionInv'
    BY <2>2, <2>5, <2>6 DEF CompactionInv
  <2> QED
    BY <1>1, <1>2, <1>4, <1>5, <2>3, <2>7 DEF IInv
<1>7. CASE FlushUnopened
  <2>1. compaction' = compaction /\ panicked' = TRUE
    BY <1>7 DEF FlushUnopened
  <2>2. TypeOK'
    BY <1>1, <1>2, <2>1 DEF TypeOK
  <2>3. CompactionInv'
    BY <1>1, <1>2, <1>5, <2>1 DEF CompactionInv, ToFlush, EndOffset
  <2> QED
    BY <1>1, <1>2, <1>4, <1>5, <2>2, <2>3 DEF IInv
<1> QED
  BY <1>6, <1>7

\* What was written last is the newest, and the other copy has one super-block.
LEMMA WrittenIs ==
    ASSUME TypeOK, CopiesInv
    PROVE  /\ Written(Current) = journal.super_block
           /\ copies[journal.to_write] = {Written(journal.to_write)}
<1>1. PICK p \in copies[journal.to_write] :
         /\ copies[journal.to_write] = {p}
         /\ p.generation < journal.super_block.generation
         /\ Clean \/ Fallback(p)
  BY DEF CopiesInv
<1>2. \A c \in Copies : \A sb \in copies[c] : sb.generation \in Nat
  BY DEF TypeOK, SuperBlocks, Torn
<1>3. Current \in Copies /\ journal.to_write \in Copies
  BY DEF TypeOK, Current, Other, Copies
<1>4. \A sb \in copies[Current] :
        sb = journal.super_block \/ sb.generation < journal.super_block.generation
  <2>1. CASE Clean
    BY <2>1 DEF Clean
  <2>2. CASE Fallback(p)
    <3>1. /\ p.generation \in Nat /\ journal.super_block.generation \in Nat
      BY <1>2, <1>3 DEF CopiesInv
    <3>2. \A sb \in copies[Current] :
            sb = journal.super_block \/ sb.generation < p.generation
      BY <2>2 DEF Fallback
    <3> QED
      BY <1>1, <1>2, <1>3, <3>1, <3>2
  <2> QED
    BY <1>1, <2>1, <2>2
<1>5. journal.super_block \in copies[Current]
  BY DEF CopiesInv
<1>6. \A sb \in copies[Current] : sb.generation <= journal.super_block.generation
  BY <1>2, <1>3, <1>4, <1>5
<1>7. /\ Written(Current) \in copies[Current]
      /\ \A sb \in copies[Current] : sb.generation <= Written(Current).generation
  BY <1>5, <1>6 DEF Written
<1>8. Written(Current) = journal.super_block
  BY <1>2, <1>3, <1>4, <1>5, <1>7
<1>9. \A sb \in copies[journal.to_write] : sb.generation <= p.generation
  BY <1>1, <1>2, <1>3
<1>10. Written(journal.to_write) \in copies[journal.to_write]
  BY <1>1, <1>9 DEF Written
<1> QED
  BY <1>1, <1>8, <1>10

\* After a flush of the device the super-blocks are what was written last.
LEMMA FlushedCopies ==
    ASSUME TypeOK, CopiesInv, UNCHANGED <<log, journal, commit>>,
           durable' = Len(log), copies' = [c \in Copies |-> {Written(c)}]
    PROVE  CopiesInv' /\ Clean' /\ copies' \in [Copies -> SUBSET (SuperBlocks \cup {Torn})]
<1> DEFINE sb == journal.super_block
<1>1. Current \in Copies /\ journal.to_write \in Copies /\ Current' = Current
      /\ Copies = {Current, journal.to_write}
  BY DEF TypeOK, Current, Other, Copies
<1>2. copies'[Current] = {sb} /\ copies'[journal.to_write] = copies[journal.to_write]
  BY <1>1, WrittenIs
<1>3. Clean'
  BY <1>1, <1>2 DEF Clean
<1>4. Sound(sb, log, durable)'
  <2>1. Sound(sb, log, durable) /\ durable \in Nat /\ durable' \in Nat /\ durable <= durable'
    BY DEF CopiesInv, TypeOK
  <2>2. \A n \in 1 .. Len(log) : log[n].trim <= sb.checkpoint
    BY <2>1 DEF Sound
  <2> QED
    BY <2>1, <2>2, SoundAgree
<1>5. NotTrimmed(sb)'
  BY DEF CopiesInv, NotTrimmed
<1>6. PICK p \in copies[journal.to_write] :
         /\ copies[journal.to_write] = {p}
         /\ p.generation < journal.super_block.generation
  BY DEF CopiesInv
<1>7. CopiesInv'
  BY <1>1, <1>2, <1>3, <1>4, <1>5, <1>6 DEF CopiesInv
<1>8. copies' \in [Copies -> SUBSET (SuperBlocks \cup {Torn})]
  <2>1. \A c \in Copies : copies'[c] \in SUBSET (SuperBlocks \cup {Torn})
    <3>1. sb \in SuperBlocks
      BY DEF TypeOK
    <3>2. copies[journal.to_write] \in SUBSET (SuperBlocks \cup {Torn})
      BY <1>1 DEF TypeOK
    <3> QED
      BY <1>1, <1>2, <3>1, <3>2
  <2> QED
    BY <2>1
<1> QED
  BY <1>3, <1>7, <1>8

\* A flush of the device keeps the invariant, by sync() or before a super-block
\* is written.
LEMMA SyncKeeps ==
    ASSUME IInv, Sync \/ SuperBlockFlush
    PROVE  IInv'
<1>1. /\ TypeOK /\ mounted /\ LogInv /\ MountedInv /\ CompactionInv /\ CopiesInv
      /\ replaying = None
  BY DEF IInv, Sync, SuperBlockFlush, Running
<1>2. UNCHANGED <<log, mounted, replaying, object, root_parent, checkpoints, journal,
                  commit, panicked>>
  BY DEF Sync, SuperBlockFlush
<1>3. LogInv' /\ MountedInv'
  BY <1>1, <1>2, MountedFrame
<1>4. FlushDevice
  BY DEF Sync, SuperBlockFlush
<1>5. /\ CopiesInv' /\ copies' \in [Copies -> SUBSET (SuperBlocks \cup {Torn})]
      /\ durable' = Len(log) \/ durable' = durable
      /\ Clean' \/ ((Clean' <=> Clean) /\ durable' = durable)
      /\ Clean' \/ durable = Len(log)
  <2>1. CASE durable' = Len(log) /\ copies' = [c \in Copies |-> {Written(c)}]
    BY <1>1, <1>2, <2>1, FlushedCopies
  <2>2. CASE durable = Len(log) /\ UNCHANGED <<durable, copies>>
    <3>1. \A sb \in SuperBlocks : Keeps(sb) => Keeps(sb)'
      BY <1>2 DEF Keeps, NotTrimmed
    <3>2. durable' \in Nat /\ durable <= durable'
      BY <1>1, <2>2 DEF TypeOK
    <3>3. CopiesInv' /\ (Clean' <=> Clean)
      BY <1>1, <1>2, <2>2, <3>1, <3>2, CopiesFrame
    <3>4. copies \in [Copies -> SUBSET (SuperBlocks \cup {Torn})]
      BY <1>1 DEF TypeOK
    <3> QED
      BY <3>3, <3>4, <2>2
  <2> QED
    BY <1>4, <2>1, <2>2 DEF FlushDevice
<1>6. durable' \in Nat /\ durable' <= Len(log')
  BY <1>1, <1>2, <1>5 DEF TypeOK
<1>7. CASE Sync
  <2>1. compaction' = compaction /\ compaction.pc # "writing"
    BY <1>7 DEF Sync, WriterLocked
  <2>2. TypeOK'
    BY <1>1, <1>2, <1>5, <1>6, <2>1 DEF TypeOK
  <2>3. CompactionInv'
    BY <1>1, <1>2, <1>5, <2>1 DEF CompactionInv, ToFlush, EndOffset
  <2> QED
    BY <1>1, <1>2, <1>3, <1>5, <2>2, <2>3 DEF IInv
<1>8. CASE SuperBlockFlush
  <2>1. /\ compaction.pc = "flushing" /\ compaction.todo = {}
        /\ compaction' = [compaction EXCEPT !.pc = "writing"]
    BY <1>8 DEF SuperBlockFlush
  <2>2. compaction.step = "Begin"
    BY <1>1, <2>1 DEF CompactionInv
  <2>3. /\ compaction'.pc = "writing" /\ compaction'.todo = {} /\ compaction'.step = "Begin"
    BY <1>1, <2>1, <2>2 DEF TypeOK
  <2>4. TypeOK'
    <3>1. compaction' \in [pc : {"idle", "flushing", "writing"}, todo : SUBSET Objects,
                           step : Steps, snapshot : Nat, layers : SUBSET Nat]
      BY <1>1, <2>1 DEF TypeOK
    <3> QED
      BY <1>1, <1>2, <1>5, <1>6, <3>1 DEF TypeOK
  <2>5. Clean \/ durable < Len(log)
    BY <1>1, <2>1 DEF CompactionInv
  <2>6. durable \in Nat /\ Len(log) \in Nat
    BY <1>1 DEF TypeOK
  <2>7. Clean' /\ durable' = Len(log')
    <3>1. durable < Len(log) => durable # Len(log)
      BY <2>6
    <3>2. durable' = Len(log)
      <4>1. CASE durable' = Len(log) /\ copies' = [c \in Copies |-> {Written(c)}]
        BY <4>1
      <4>2. CASE durable = Len(log) /\ UNCHANGED <<durable, copies>>
        BY <4>2
      <4> QED
        BY <1>4, <4>1, <4>2 DEF FlushDevice
    <3> QED
      BY <1>2, <1>5, <2>5, <3>1, <3>2
  <2>8. CompactionInv'
    BY <2>3, <2>7 DEF CompactionInv
  <2> QED
    BY <1>1, <1>2, <1>3, <1>5, <2>4, <2>8 DEF IInv
<1> QED
  BY <1>7, <1>8

\* The earliest checkpoint of an object is that of its first mutation that is
\* in no layer file.
LEMMA EarliestIs ==
    ASSUME TypeOK, MountedInv, NEW o \in Objects
    PROVE  LET e == Earliest(checkpoints[o])
               volatile == object[o].sealed \cup object[o].mutable
           IN  /\ e \in Nat
               /\ e = None => volatile = {}
               /\ e # None => e \in volatile /\ \A m \in volatile : e <= m
<1> DEFINE S == object[o].sealed
           M == object[o].mutable
           c == checkpoints[o]
<1>1. Least(c.current, M) /\ Least(c.old, S)
  BY DEF MountedInv, Holds
<1>2. M = MutableIn(log, o, 1, Len(log)) /\ S = SealedIn(log, o, 1, Len(log))
  BY HeldLayers
<1>3. Len(log) \in Nat /\ c.old \in Nat /\ c.current \in Nat
  BY DEF TypeOK
<1>4. \A s \in S, m \in M : s < m
  BY <1>2, <1>3, SealedFirst
<1>5. S \in SUBSET (Nat \ {0}) /\ M \in SUBSET (Nat \ {0})
  BY <1>2, <1>3 DEF MutableIn, SealedIn
<1> HIDE DEF S, M, c
<1>6. CASE S = {}
  <2>1. c.old = None /\ Earliest(c) = c.current
    BY <1>1, <1>6 DEF Least, Earliest
  <2>2. CASE M = {}
    <3>1. c.current = None
      BY <1>1, <2>2 DEF Least
    <3> QED
      BY <1>3, <1>6, <2>1, <2>2, <3>1 DEF S, M, c
  <2>3. CASE M # {}
    <3>1. c.current \in M /\ \A m \in M : c.current <= m
      BY <1>1, <2>3 DEF Least
    <3>2. c.current # None
      BY <1>5, <3>1 DEF None
    <3> QED
      BY <1>3, <1>6, <2>1, <3>1, <3>2 DEF S, M, c
  <2> QED
    BY <2>2, <2>3
<1>7. CASE S # {}
  <2>1. c.old \in S /\ \A m \in S : c.old <= m
    BY <1>1, <1>7 DEF Least
  <2>2. c.old # None
    BY <1>5, <2>1 DEF None
  <2>3. Earliest(c) = c.old
    BY <2>2 DEF Earliest
  <2>4. \A m \in M : c.old <= m
    <3> TAKE m \in M
    <3>1. c.old < m /\ m \in Nat
      BY <1>4, <1>5, <2>1
    <3> QED
      BY <3>1, <1>3
  <2> QED
    BY <1>3, <2>1, <2>2, <2>3, <2>4 DEF S, M, c
<1> QED
  BY <1>6, <1>7

\* What is in no layer file is not left out by a sound super-block.
LEMMA VolatileNeeded ==
    ASSUME TypeOK, MountedInv, NEW sb, Sound(sb, log, durable), NEW o \in Objects,
           NEW m \in object[o].sealed \cup object[o].mutable
    PROVE  m \in 1 .. Len(log) /\ From(sb, o) <= m /\ sb.checkpoint <= m
<1>1. m \in 1 .. Len(log) /\ o \in log[m].updates /\ ~Ended(log, o, m, Len(log))
  <2>1. \A j : Ended(log, o, j, Len(log)) => Begun(log, o, j, Len(log))
    BY DEF Begun, Ended
  <2>2. /\ object[o].mutable = MutableIn(log, o, 1, Len(log))
        /\ object[o].sealed = SealedIn(log, o, 1, Len(log))
    BY HeldLayers
  <2> QED
    BY <2>1, <2>2 DEF MutableIn, SealedIn
<1>2. /\ sb.offset \in Nat \ {0} /\ sb.checkpoint \in Nat /\ sb.offsets[o] \in Nat
      /\ sb.offset <= durable + 1
      /\ sb.checkpoint <= From(sb, o) /\ From(sb, o) <= sb.offset
  BY DEF Sound, SuperBlocks
<1>3. From(sb, o) \in Nat
  BY <1>2 DEF From
<1>4. durable \in Nat /\ Len(log) \in Nat /\ durable <= Len(log)
  BY DEF TypeOK
<1>5. ~(m < From(sb, o))
  <2> SUFFICES ASSUME m < From(sb, o) PROVE FALSE
    OBVIOUS
  <2>1. m \in 1 .. sb.offset - 1
    BY <1>1, <1>2, <1>3
  <2>2. Ended(log, o, m, sb.offset - 1)
    BY <1>1, <2>1 DEF Sound
  <2>3. sb.offset - 1 \in Nat /\ sb.offset - 1 <= Len(log) /\ m \in Nat
    BY <1>1, <1>2, <1>4
  <2>4. Ended(log, o, m, Len(log))
    BY <1>4, <2>2, <2>3, EndedGrows
  <2> QED
    BY <1>1, <2>4
<1> QED
  BY <1>1, <1>2, <1>3, <1>5

\* The new super-block is sound, and needs no more of the journal than the old
\* one.
LEMMA NewSound ==
    ASSUME TypeOK, MountedInv, CopiesInv, durable = Len(log)
    PROVE  /\ Sound(NewSuperBlock, log, durable)
           /\ journal.super_block.checkpoint <= NewSuperBlock.checkpoint
           /\ NewSuperBlock.generation = journal.super_block.generation + 1
           /\ ToFlush # {} \/ NewSuperBlock.checkpoint = EndOffset
<1> DEFINE old == journal.super_block
           new == NewSuperBlock
           needed == {Offsets[o] : o \in Objects} \ {None}
<1>1. /\ Len(log) \in Nat /\ EndOffset = Len(log) + 1 /\ EndOffset \in Nat \ {0}
  BY DEF TypeOK, EndOffset
<1>2. Sound(old, log, durable)
  BY DEF CopiesInv
<1>3. /\ old.generation \in Nat \ {0} /\ old.offset \in Nat \ {0}
      /\ old.checkpoint \in Nat \ {0} /\ old.offset <= EndOffset
      /\ old.checkpoint <= old.offset
  BY <1>1, <1>2 DEF Sound, SuperBlocks
<1>4. ASSUME NEW o \in Objects
      PROVE  /\ Offsets[o] = Earliest(checkpoints[o]) /\ Offsets[o] \in Nat
             /\ Offsets[o] # None =>
                  /\ Offsets[o] \in object[o].sealed \cup object[o].mutable
                  /\ Offsets[o] \in 1 .. Len(log) /\ old.checkpoint <= Offsets[o]
  <2>1. Offsets[o] = Earliest(checkpoints[o])
    BY DEF Offsets
  <2>2. Offsets[o] \in Nat
    BY <2>1, EarliestIs
  <2>3. Offsets[o] # None => Offsets[o] \in object[o].sealed \cup object[o].mutable
    BY <2>1, EarliestIs
  <2> QED
    BY <1>2, <2>1, <2>2, <2>3, VolatileNeeded
<1>5. needed \in SUBSET Nat /\ \A n \in needed : n \in 1 .. Len(log) /\ old.checkpoint <= n
  BY <1>4
<1> DEFINE checkpoint == IF needed = {} THEN EndOffset ELSE Min(needed)
<1>6. /\ checkpoint \in Nat \ {0} /\ checkpoint <= EndOffset /\ old.checkpoint <= checkpoint
      /\ \A n \in needed : checkpoint <= n
  <2>1. CASE needed = {}
    BY <1>1, <1>3, <2>1
  <2>2. CASE needed # {}
    <3>1. checkpoint \in needed /\ \A n \in needed : checkpoint <= n
      BY <1>5, <2>2, MinIs
    <3>2. checkpoint \in 1 .. Len(log) /\ old.checkpoint <= checkpoint
      BY <1>5, <3>1
    <3> HIDE DEF checkpoint, needed
    <3>3. checkpoint \in Nat \ {0} /\ checkpoint <= EndOffset
      BY <1>1, <3>2
    <3> QED
      BY <3>1, <3>2, <3>3
  <2> QED
    BY <2>1, <2>2
<1>7. new = [generation |-> old.generation + 1, offset |-> EndOffset,
             checkpoint |-> checkpoint, offsets |-> Offsets, contents |-> root_parent]
  BY DEF NewSuperBlock
<1> HIDE DEF new, checkpoint
<1>8. /\ new.generation = old.generation + 1 /\ new.offset = EndOffset
      /\ new.checkpoint = checkpoint /\ new.offsets = Offsets /\ new.contents = root_parent
  BY <1>7
<1>9. new \in SuperBlocks
  <2>1. old.generation + 1 \in Nat \ {0} /\ root_parent \in SUBSET Nat
    BY <1>3 DEF TypeOK
  <2>2. Offsets \in [Objects -> Nat]
    BY <1>4 DEF Offsets
  <2> QED
    BY <1>1, <1>6, <1>7, <2>1, <2>2 DEF SuperBlocks
<1>10. new.contents = UpdatesIn(log, "root_parent", 1, new.offset - 1)
  <2>1. new.offset - 1 = Len(log)
    BY <1>1, <1>8
  <2>2. root_parent = UpdatesIn(log, "root_parent", 1, Len(log))
    BY DEF MountedInv, Mutations, UpdatesIn
  <2> QED
    BY <1>8, <2>1, <2>2, Zenon
<1>11. \A n \in 1 .. Len(log) : log[n].trim <= new.checkpoint
  <2> TAKE n \in 1 .. Len(log)
  <2>0. log[n] \in Txns
    BY DEF TypeOK
  <2>1. log[n].trim \in Nat
    BY <2>0 DEF Txns
  <2>2. log[n].trim <= old.checkpoint
    BY <1>2 DEF Sound
  <2> QED
    BY <1>3, <1>6, <1>8, <2>1, <2>2
<1>12. ASSUME NEW o \in Objects
       PROVE  /\ new.checkpoint <= From(new, o) /\ From(new, o) <= new.offset
              /\ \A m \in 1 .. new.offset - 1 :
                   o \in log[m].updates /\ m < From(new, o) =>
                     Ended(log, o, m, new.offset - 1)
  <2>1. new.offset - 1 = Len(log)
    BY <1>1, <1>8
  <2>2. new.offsets[o] = Offsets[o]
    BY <1>8
  <2>3. CASE Offsets[o] = None
    <3>1. From(new, o) = EndOffset
      BY <1>8, <2>2, <2>3 DEF From
    <3> QED
      <4>1. object[o].sealed = {} /\ object[o].mutable = {}
        BY <1>4, <2>3, EarliestIs
      <4>2. \A m \in 1 .. Len(log) : o \in log[m].updates => Ended(log, o, m, Len(log))
        BY <4>1, HeldLayers DEF MutableIn, SealedIn
      <4> QED
        BY <1>1, <1>6, <1>8, <2>1, <3>1, <4>2
  <2>4. CASE Offsets[o] # None
    <3>1. From(new, o) = Offsets[o]
      BY <2>2, <2>4 DEF From
    <3>2. Offsets[o] \in needed /\ Offsets[o] \in 1 .. Len(log)
      BY <1>4, <2>4
    <3>3. \A m \in object[o].sealed \cup object[o].mutable : Offsets[o] <= m
      BY <1>4, <2>4, EarliestIs
    <3>4. \A m \in 1 .. Len(log) :
            o \in log[m].updates /\ m < Offsets[o] => Ended(log, o, m, Len(log))
      <4> SUFFICES ASSUME NEW m \in 1 .. Len(log), o \in log[m].updates, m < Offsets[o],
                          ~Ended(log, o, m, Len(log))
                   PROVE  FALSE
        OBVIOUS
      <4>1. m \in object[o].sealed \cup object[o].mutable
        BY HeldLayers DEF MutableIn, SealedIn
      <4>2. Offsets[o] <= m /\ m \in Nat /\ Offsets[o] \in Nat
        BY <1>1, <1>4, <3>3, <4>1
      <4> QED
        BY <4>2
    <3>5. new.checkpoint <= Offsets[o]
      BY <1>6, <1>8, <3>2
    <3>6. Offsets[o] <= new.offset
      BY <1>1, <1>8, <3>2
    <3> QED
      BY <2>1, <3>1, <3>4, <3>5, <3>6
  <2> QED
    BY <2>3, <2>4
<1>13. Sound(new, log, durable)
  <2>1. new.offset <= durable + 1 /\ new.checkpoint <= new.offset
    BY <1>1, <1>6, <1>8
  <2> QED
    BY <1>9, <1>10, <1>11, <1>12, <2>1 DEF Sound
<1>14. ToFlush # {} \/ new.checkpoint = EndOffset
  <2>1. CASE needed = {}
    BY <1>8, <2>1 DEF checkpoint
  <2>2. CASE needed # {}
    BY <1>4, <2>2 DEF ToFlush
  <2> QED
    BY <2>1, <2>2
<1> QED
  BY <1>6, <1>8, <1>13, <1>14 DEF new

\* Writing a super-block keeps the invariant: the copy it does not touch holds
\* the one that was current.
LEMMA WriteKeeps ==
    ASSUME IInv, SuperBlockWrite
    PROVE  IInv'
<1>1. /\ TypeOK /\ mounted /\ LogInv /\ MountedInv /\ CompactionInv /\ CopiesInv
      /\ replaying = None
  BY DEF IInv, SuperBlockWrite, Running
<1>0. PICK old, new, copy :
        old = journal.super_block /\ new = NewSuperBlock /\ copy = journal.to_write
  OBVIOUS
<1>2. /\ UNCHANGED <<log, durable, mounted, replaying, object, root_parent, checkpoints,
                     commit, panicked>>
      /\ copies' = [copies EXCEPT ![copy] = @ \cup {Torn, new}]
      /\ journal' = [super_block |-> new, to_write |-> Other(copy),
                     zero_offset |-> old.checkpoint]
      /\ compaction' = Idle
  BY <1>0 DEF SuperBlockWrite, ZeroOffset
<1>3. Clean /\ durable = Len(log)
  BY <1>1 DEF SuperBlockWrite, WriterLocked, CompactionInv
<1>4. /\ Sound(new, log, durable) /\ old.checkpoint <= new.checkpoint
      /\ new.generation = old.generation + 1
      /\ ToFlush # {} \/ new.checkpoint = EndOffset
  BY <1>0, <1>1, <1>3, NewSound
<1>5. /\ copy \in Copies /\ Other(copy) \in Copies /\ Other(copy) # copy
      /\ Other(Other(copy)) = copy /\ Current = Other(copy) /\ Current' = copy
  BY <1>0, <1>1, <1>2 DEF TypeOK, Current, Other, Copies
<1>6. copies'[copy] = copies[copy] \cup {Torn, new} /\ copies'[Other(copy)] = {old}
  BY <1>0, <1>1, <1>2, <1>3, <1>5 DEF TypeOK, Clean
<1>7. /\ journal'.super_block = new /\ journal'.to_write = Other(copy)
      /\ journal'.zero_offset = old.checkpoint
  BY <1>2
<1>8. /\ old \in SuperBlocks /\ new \in SuperBlocks /\ old.checkpoint \in Nat
      /\ new.checkpoint \in Nat /\ old.generation \in Nat \ {0} /\ new.generation \in Nat
      /\ commit.trim \in Nat
  BY <1>0, <1>1, <1>4 DEF TypeOK, Sound, SuperBlocks
<1>9. PICK p \in copies[copy] : copies[copy] = {p} /\ p.generation < old.generation
  BY <1>0, <1>1 DEF CopiesInv
<1>10. NotTrimmed(old)' /\ NotTrimmed(new)'
  <2>1. commit.trim <= old.checkpoint
    BY <1>0, <1>1 DEF CopiesInv, NotTrimmed
  <2>2. commit.trim <= new.checkpoint /\ old.checkpoint <= old.checkpoint
    BY <1>4, <1>8, <2>1
  <2> QED
    BY <1>2, <1>4, <1>7, <2>1, <2>2 DEF NotTrimmed
<1>11. Sound(old, log', durable') /\ Sound(new, log', durable')
  BY <1>0, <1>1, <1>2, <1>4 DEF CopiesInv
<1>12. \A sb \in copies'[copy] : sb = new \/ sb.generation < old.generation
  <2>1. Torn.generation < old.generation
    BY <1>8 DEF Torn
  <2> QED
    BY <1>6, <1>9, <2>1
<1>13. Fallback(old)'
  BY <1>5, <1>7, <1>10, <1>11, <1>12 DEF Fallback
<1>14. CopiesInv'
  <2>1. Sound(journal.super_block, log, durable)' /\ NotTrimmed(journal.super_block)'
    BY <1>7, <1>10, <1>11
  <2>2. (journal.super_block \in copies[Current])'
    BY <1>5, <1>6, <1>7
  <2>3. old.generation < new.generation
    BY <1>4, <1>8
  <2>4. (\E q \in copies[journal.to_write] :
           /\ copies[journal.to_write] = {q}
           /\ q.generation < journal.super_block.generation
           /\ Clean \/ Fallback(q))'
    BY <1>6, <1>7, <1>13, <2>3
  <2> QED
    BY <2>1, <2>2, <2>4 DEF CopiesInv
<1>15. TypeOK'
  <2>1. journal' \in [super_block : SuperBlocks, to_write : Copies, zero_offset : Nat]
    BY <1>2, <1>5, <1>8
  <2>2. copies' \in [Copies -> SUBSET (SuperBlocks \cup {Torn})]
    BY <1>1, <1>2, <1>5, <1>8 DEF TypeOK
  <2>3. compaction' \in [pc : {"idle", "flushing", "writing"}, todo : SUBSET Objects,
                         step : Steps, snapshot : Nat, layers : SUBSET Nat]
    BY <1>2 DEF Idle, Steps
  <2> QED
    BY <1>1, <1>2, <2>1, <2>2, <2>3 DEF TypeOK
<1>16. LogInv' /\ MountedInv'
  BY <1>1, <1>2, MountedFrame
<1>17. CompactionInv'
  <2>1. compaction'.pc = "idle" /\ compaction'.step = "Begin"
    BY <1>2 DEF Idle
  <2>2. ToFlush' # {} \/ journal'.super_block.checkpoint = EndOffset'
    BY <1>2, <1>4, <1>7 DEF ToFlush, EndOffset
  <2> QED
    BY <2>1, <2>2 DEF CompactionInv
<1> QED
  BY <1>1, <1>2, <1>14, <1>15, <1>16, <1>17 DEF IInv

-----------------------------------------------------------------------------
(* Crash and mount keep the invariant. *)

\* A crash leaves a sound super-block, and it is the newest.
LEMMA CrashKeeps ==
    ASSUME IInv, Crash
    PROVE  IInv'
<1>1. TypeOK /\ LogInv /\ CopiesInv
  BY DEF IInv, Crash
<1>2. PICK n \in durable .. Len(log) : log' = SubSeq(log, 1, n) /\ durable' = n
  BY DEF Crash
<1>3. PICK a \in copies["A"], b \in copies["B"] :
        copies' = [c \in Copies |-> IF c = "A" THEN {a} ELSE {b}]
  BY DEF Crash
<1>4. /\ durable \in Nat /\ Len(log) \in Nat /\ n \in Nat /\ durable <= n /\ n <= Len(log)
  BY <1>1, <1>2 DEF TypeOK
<1>5. /\ log' \in Seq(Txns) /\ Len(log') = n
      /\ \A i \in 1 .. n : log'[i] = log[i]
  <2>1. log \in Seq(Txns)
    BY <1>1 DEF TypeOK
  <2> QED
    BY <1>2, <1>4, <2>1
<1>6. LogInv'
  <2> SUFFICES ASSUME NEW i \in 1 .. n
               PROVE  /\ log'[i].begin = "none" \/ log'[i].end = "none"
                      /\ \A o \in Objects :
                           log'[i].end = o =>
                             /\ Parent(o) \in log'[i].updates
                             /\ log'[i].info.layers = LayersIn(log', o, i)
                             /\ log'[i].info.count = Cardinality(LayersIn(log', o, i))
    BY <1>5 DEF LogInv, Parent
  <2>1. i \in Nat /\ \A j \in 1 .. i : log'[j] = log[j]
    BY <1>4, <1>5
  <2>2. SameParts(log, log', i)
    BY <2>1, Same
  <2>3. log'[i] = log[i] /\ i \in 1 .. Len(log)
    BY <1>4, <1>5
  <2> QED
    BY <1>1, <2>2, <2>3 DEF SameParts, LogInv
<1>7. ASSUME NEW sb, Sound(sb, log, durable)
      PROVE  Sound(sb, log', durable')
  <2>1. \A i \in 1 .. durable : log'[i] = log[i]
    BY <1>4, <1>5
  <2>2. \A i \in 1 .. Len(log') : log'[i].trim <= sb.checkpoint
    <3>1. \A i \in 1 .. Len(log) : log[i].trim <= sb.checkpoint
      BY <1>7 DEF Sound
    <3> QED
      BY <1>4, <1>5, <3>1
  <2> QED
    BY <1>2, <1>4, <1>7, <2>1, <2>2, SoundAgree
<1>8. PICK cur, nxt, sb, p :
        /\ cur = Current /\ nxt = journal.to_write /\ sb = journal.super_block
        /\ copies[nxt] = {p} /\ p.generation < sb.generation
        /\ Clean \/ Fallback(p)
  BY <1>1 DEF CopiesInv
<1>9. Sound(sb, log, durable)
  BY <1>1, <1>8 DEF CopiesInv
<1>10. \A x \in copies[cur] :
         x = sb \/ (x.generation < p.generation /\ Sound(p, log, durable))
  BY <1>8 DEF Clean, Fallback
<1>11. (cur = "A" /\ nxt = "B") \/ (cur = "B" /\ nxt = "A")
  BY <1>1, <1>8 DEF TypeOK, Current, Other, Copies
<1>12. copies'["A"] = {a} /\ copies'["B"] = {b}
  BY <1>3 DEF Copies
<1>13. CrashedInv'
  <2>1. \/ a.generation < b.generation /\ Sound(b, log', durable')
        \/ b.generation < a.generation /\ Sound(a, log', durable')
    <3>1. CASE cur = "A" /\ nxt = "B"
      <4>1. b = p
        BY <1>8, <3>1
      <4> QED
        BY <1>7, <1>8, <1>9, <1>10, <3>1, <4>1
    <3>2. CASE cur = "B" /\ nxt = "A"
      <4>1. a = p
        BY <1>8, <3>2
      <4> QED
        BY <1>7, <1>8, <1>9, <1>10, <3>2, <4>1
    <3> QED
      BY <1>11, <3>1, <3>2
  <2> QED
    BY <1>12, <2>1 DEF CrashedInv
<1>14. /\ mounted' = FALSE /\ replaying' = None /\ root_parent' = {} /\ panicked' = FALSE
       /\ object' = [o \in Objects |-> EmptyObject]
       /\ checkpoints' = [o \in Objects |-> NoCheckpoint]
       /\ commit' = [pc |-> "free", trim |-> None] /\ compaction' = Idle
       /\ journal' = journal
  BY DEF Crash
<1>15. TypeOK'
  <2>1. object' \in [Objects -> ObjectStates]
    BY <1>14 DEF EmptyObject, ObjectStates
  <2>2. checkpoints' \in [Objects -> [old : Nat, current : Nat]]
    BY <1>14 DEF NoCheckpoint, None
  <2>3. compaction' \in [pc : {"idle", "flushing", "writing"}, todo : SUBSET Objects,
                         step : Steps, snapshot : Nat, layers : SUBSET Nat]
    BY <1>14 DEF Idle, Steps
  <2>4. copies' \in [Copies -> SUBSET (SuperBlocks \cup {Torn})]
    <3>1. a \in SuperBlocks \cup {Torn} /\ b \in SuperBlocks \cup {Torn}
      BY <1>1 DEF TypeOK, Copies
    <3> QED
      BY <1>3, <3>1
  <2>5. commit' \in [pc : {"free", "trimming", "ready"}, trim : Nat]
    BY <1>14 DEF None
  <2>6. durable' \in Nat /\ durable' <= Len(log') /\ log' \in Seq(Txns)
    BY <1>2, <1>4, <1>5
  <2>7. /\ mounted' \in BOOLEAN /\ replaying' \in Nat /\ panicked' \in BOOLEAN
        /\ root_parent' \in SUBSET Nat
        /\ journal' \in [super_block : SuperBlocks, to_write : Copies, zero_offset : Nat]
    BY <1>1, <1>14 DEF TypeOK, None
  <2> QED
    BY <2>1, <2>2, <2>3, <2>4, <2>5, <2>6, <2>7 DEF TypeOK
<1>16. AtRest' /\ durable' = Len(log')
  BY <1>2, <1>5, <1>14 DEF AtRest
<1> QED
  BY <1>6, <1>13, <1>14, <1>15, <1>16 DEF IInv

\* After a crash, the super-block that is chosen.
LEMMA ChosenIs ==
    ASSUME TypeOK, CrashedInv
    PROVE  /\ Chosen \in Copies /\ copies[Chosen] = {Written(Chosen)}
           /\ Sound(Written(Chosen), log, durable)
           /\ copies[Other(Chosen)] = {Written(Other(Chosen))}
           /\ Written(Other(Chosen)).generation < Written(Chosen).generation
<1>1. PICK a \in copies["A"], b \in copies["B"] :
        /\ copies["A"] = {a} /\ copies["B"] = {b}
        /\ \/ a.generation < b.generation /\ Sound(b, log, durable)
           \/ b.generation < a.generation /\ Sound(a, log, durable)
  BY DEF CrashedInv
<1>2. a.generation \in Nat /\ b.generation \in Nat
  BY DEF TypeOK, Copies, SuperBlocks, Torn
<1>3. \A sb \in copies["A"] : sb.generation <= a.generation
  BY <1>1, <1>2
<1>4. \A sb \in copies["B"] : sb.generation <= b.generation
  BY <1>1, <1>2
<1>5. Written("A") \in copies["A"] /\ Written("B") \in copies["B"]
  BY <1>1, <1>3, <1>4 DEF Written
<1>6. Written("A") = a /\ Written("B") = b
  BY <1>1, <1>5
<1>7. CASE a.generation < b.generation /\ Sound(b, log, durable)
  <2>1. Chosen = "B" /\ Other(Chosen) = "A"
    BY <1>2, <1>6, <1>7 DEF Chosen, Other
  <2> QED
    BY <1>1, <1>6, <1>7, <2>1 DEF Copies
<1>8. CASE b.generation < a.generation /\ Sound(a, log, durable)
  <2>1. Chosen = "A" /\ Other(Chosen) = "B"
    BY <1>2, <1>6, <1>8 DEF Chosen, Other
  <2> QED
    BY <1>1, <1>6, <1>8, <2>1 DEF Copies
<1> QED
  BY <1>1, <1>7, <1>8

\* An offset from which on the journal up to k has nothing.
LEMMA NothingFrom ==
    ASSUME NEW l, NEW o, NEW k \in Nat, NEW f \in Nat, k < f
    PROVE  /\ MutableIn(l, o, f, k) = {} /\ SealedIn(l, o, f, k) = {}
           /\ UpdatesIn(l, o, f, k) = {}
BY DEF MutableIn, SealedIn, UpdatesIn

\* The offset at which a sound super-block has o replayed.
LEMMA FromType ==
    ASSUME NEW sb, NEW l, NEW d, Sound(sb, l, d), NEW o \in Objects
    PROVE  /\ From(sb, o) \in Nat \ {0} /\ sb.checkpoint \in Nat \ {0}
           /\ sb.offset \in Nat \ {0}
           /\ sb.checkpoint <= From(sb, o) /\ From(sb, o) <= sb.offset
<1>1. /\ sb.checkpoint \in Nat \ {0} /\ sb.offset \in Nat \ {0} /\ sb.offsets[o] \in Nat
      /\ sb.checkpoint <= From(sb, o) /\ From(sb, o) <= sb.offset
  BY DEF Sound, SuperBlocks
<1> QED
  BY <1>1 DEF From, None

\* Choosing a super-block keeps the invariant.
LEMMA LoadKeeps ==
    ASSUME IInv, LoadSuperBlock
    PROVE  IInv'
<1>1. /\ TypeOK /\ LogInv /\ CrashedInv /\ AtRest /\ durable = Len(log)
      /\ ~mounted /\ replaying = None
      /\ object = [o \in Objects |-> EmptyObject]
      /\ checkpoints = [o \in Objects |-> NoCheckpoint]
  BY DEF IInv, LoadSuperBlock
<1>2. PICK sb, copy, p :
        /\ sb = Written(Chosen) /\ copy = Chosen /\ p = Written(Other(Chosen))
  OBVIOUS
<1>3. /\ copy \in Copies /\ copies[copy] = {sb} /\ Sound(sb, log, durable)
      /\ copies[Other(copy)] = {p} /\ p.generation < sb.generation
  BY <1>1, <1>2, ChosenIs
<1>4. /\ journal' = [super_block |-> sb, to_write |-> Other(copy), zero_offset |-> None]
      /\ root_parent' = sb.contents /\ replaying' = sb.checkpoint
      /\ UNCHANGED <<log, durable, copies, mounted, object, checkpoints, commit, compaction,
                     panicked>>
  BY <1>2 DEF LoadSuperBlock
<1>5. /\ sb \in SuperBlocks /\ sb.checkpoint \in Nat \ {0} /\ sb.offset \in Nat \ {0}
      /\ sb.contents \in SUBSET Nat /\ sb.checkpoint <= sb.offset /\ sb.offset <= durable + 1
  BY <1>3 DEF Sound, SuperBlocks
<1>6. journal'.super_block = sb /\ journal'.to_write = Other(copy) /\ journal'.zero_offset = 0
  BY <1>4 DEF None
<1>7. Other(copy) \in Copies /\ Other(Other(copy)) = copy
  BY <1>3 DEF Other, Copies
<1>8. TypeOK'
  <2>1. journal' \in [super_block : SuperBlocks, to_write : Copies, zero_offset : Nat]
    BY <1>4, <1>5, <1>7 DEF None
  <2> QED
    BY <1>1, <1>4, <1>5, <2>1 DEF TypeOK
<1>9. LogInv'
  BY <1>1, <1>4 DEF LogInv, Parent
<1>10. Current' = copy /\ Clean'
  BY <1>3, <1>4, <1>6, <1>7 DEF Current, Clean
<1>11. CopiesInv'
  <2>1. NotTrimmed(sb)'
    BY <1>1, <1>4, <1>5, <1>6 DEF NotTrimmed, AtRest, None
  <2>2. Sound(journal.super_block, log, durable)' /\ NotTrimmed(journal.super_block)'
    BY <1>3, <1>4, <1>6, <2>1
  <2>3. (journal.super_block \in copies[Current])'
    BY <1>3, <1>4, <1>6, <1>10
  <2>4. (\E q \in copies[journal.to_write] :
           /\ copies[journal.to_write] = {q}
           /\ q.generation < journal.super_block.generation
           /\ Clean \/ Fallback(q))'
    BY <1>3, <1>4, <1>6, <1>10
  <2> QED
    BY <2>2, <2>3, <2>4 DEF CopiesInv
<1>12. ReplayInv'
  <2> DEFINE k == sb.checkpoint - 1
  <2>1. k \in Nat /\ k < sb.checkpoint /\ k < sb.offset
    BY <1>5
  <2>2. replaying' >= sb.checkpoint /\ replaying' <= EndOffset'
    BY <1>1, <1>4, <1>5 DEF TypeOK, EndOffset
  <2>3. ASSUME NEW o \in Objects
        PROVE  Holds(o, From(sb, o), k)' /\ Unopened(o)'
    <3>1. From(sb, o) \in Nat /\ k < From(sb, o)
      BY <1>3, <2>1, FromType
    <3>2. MutableIn(log', o, From(sb, o), k) = {} /\ SealedIn(log', o, From(sb, o), k) = {}
      BY <2>1, <3>1, NothingFrom
    <3>3. object'[o] = EmptyObject /\ checkpoints'[o] = NoCheckpoint
      BY <1>1, <1>4
    <3>4. Cardinality({}) = 0
      BY FS_EmptySet
    <3>5. Holds(o, From(sb, o), k)'
      BY <3>2, <3>3 DEF Holds, EmptyObject, NoCheckpoint, Least
    <3>6. Unopened(o)'
      BY <3>3, <3>4 DEF Unopened, EmptyObject
    <3> QED
      BY <3>5, <3>6
  <2>4. root_parent' = sb.contents \cup UpdatesIn(log', "root_parent", sb.offset, k)
    <3>1. UpdatesIn(log', "root_parent", sb.offset, k) = {}
      BY <1>5, <2>1, NothingFrom
    <3> QED
      BY <1>4, <3>1
  <2>5. replaying' - 1 = k
    BY <1>4
  <2> QED
    BY <1>6, <2>2, <2>3, <2>4, <2>5 DEF ReplayInv
<1>13. AtRest' /\ durable' = Len(log') /\ ~mounted' /\ replaying' # None
  BY <1>1, <1>4, <1>5 DEF AtRest, None
<1> QED
  BY <1>8, <1>9, <1>10, <1>11, <1>12, <1>13 DEF IInv

\* What is in two places that share nothing.
LEMMA TwoPlaces ==
    ASSUME NEW A, NEW B, IsFiniteSet(A), IsFiniteSet(B), A \cap B = {}
    PROVE  /\ IsFiniteSet(A \cup B) /\ Cardinality(A) \in Nat /\ Cardinality(B) \in Nat
           /\ Cardinality(A \cup B) = Cardinality(A) + Cardinality(B)
<1>1. Cardinality(A) \in Nat /\ Cardinality(B) \in Nat /\ IsFiniteSet(A \cup B)
  BY FS_CardinalityType, FS_Union
<1>2. Cardinality(A \cup B) = Cardinality(A) + Cardinality(B) - Cardinality(A \cap B)
  BY FS_Union
<1>3. Cardinality(A \cap B) = 0
  <2>1. Cardinality({}) = 0
    BY FS_EmptySet
  <2> QED
    BY <2>1, Zenon
<1> QED
  BY <1>1, <1>2, <1>3

\* The counts a replay keeps are those of what it has in the mutable layer and
\* in the sealed ones.
LEMMA ReplayCounts ==
    ASSUME NEW obj \in ObjectStates, NEW new, NEW o, NEW n \in Nat, NEW t,
           ReplayStep(new, obj, o, n, t),
           IsFiniteSet(obj.mutable), IsFiniteSet(obj.sealed),
           obj.sealed \cap obj.mutable = {}, n \notin obj.sealed \cup obj.mutable,
           obj.recent = Cardinality(obj.mutable), obj.flushing = Cardinality(obj.sealed)
    PROVE  new.recent = Cardinality(new.mutable) /\ new.flushing = Cardinality(new.sealed)
<1> DEFINE own == IF o \in t.updates THEN {n} ELSE {}
           one == IF o \in t.updates THEN 1 ELSE 0
<1>1. IsFiniteSet(own) /\ Cardinality(own) = one
  BY FS_EmptySet, FS_Singleton
<1>2. obj.mutable \cap own = {} /\ obj.sealed \cap (obj.mutable \cup own) = {}
  OBVIOUS
<1> HIDE DEF own, one
<1>3. /\ IsFiniteSet(obj.mutable \cup own)
      /\ Cardinality(obj.mutable \cup own) = obj.recent + one
  BY <1>1, <1>2, TwoPlaces
<1>4. Cardinality(obj.sealed \cup (obj.mutable \cup own)) = obj.flushing + (obj.recent + one)
  <2>1. Cardinality(obj.sealed \cup (obj.mutable \cup own)) =
          Cardinality(obj.sealed) + Cardinality(obj.mutable \cup own)
    BY <1>2, <1>3, TwoPlaces, Zenon
  <2> QED
    BY <1>3, <2>1, Zenon
<1>5. obj.sealed \cup (obj.mutable \cup own) = obj.sealed \cup obj.mutable \cup own
  OBVIOUS
<1>6. Cardinality(obj.sealed \cup obj.mutable \cup own) = obj.flushing + obj.recent + one
  <2>1. obj.flushing \in Nat /\ obj.recent \in Nat /\ one \in Nat
    BY DEF ObjectStates, one
  <2>2. obj.flushing + (obj.recent + one) = obj.flushing + obj.recent + one
    BY <2>1
  <2> QED
    BY <1>4, <1>5, <2>2
<1>7. Cardinality({}) = 0
  BY FS_EmptySet
<1>8. /\ new.mutable = IF t.begin = o THEN {} ELSE obj.mutable \cup own
      /\ new.sealed = IF t.begin = o THEN obj.sealed \cup obj.mutable \cup own
                      ELSE IF t.end = o THEN {} ELSE obj.sealed
      /\ new.recent = IF t.begin = o THEN 0 ELSE obj.recent + one
      /\ new.flushing = IF t.begin = o THEN obj.flushing + obj.recent + one
                        ELSE IF t.end = o THEN 0 ELSE obj.flushing
  BY Zenon DEF ReplayStep, own, one
<1>9. CASE t.begin = o
  <2>1. /\ new.mutable = {} /\ new.recent = 0
        /\ new.sealed = obj.sealed \cup obj.mutable \cup own
        /\ new.flushing = obj.flushing + obj.recent + one
    BY <1>8, <1>9, Zenon
  <2> QED
    BY <1>6, <1>7, <2>1, Zenon
<1>10. CASE t.begin # o
  <2>1. new.mutable = obj.mutable \cup own /\ new.recent = obj.recent + one
    BY <1>8, <1>10, Zenon
  <2>2. new.flushing = Cardinality(new.sealed)
    BY <1>7, <1>8, <1>10, Zenon
  <2> QED
    BY <1>3, <2>1, <2>2, Zenon
<1> QED
  BY <1>9, <1>10

\* What the replay of one transaction makes of an object.
LEMMA ReplayObject ==
    ASSUME TypeOK, LogInv, NEW o \in Objects, NEW n \in 1 .. Len(log), NEW f \in 1 .. n,
           Holds(o, f, n - 1), Unopened(o),
           object'[o] = ApplyReplay(object[o], o, n, log[n]),
           checkpoints'[o] = ApplyCheckpoint(checkpoints[o], o, n, log[n]), log' = log
    PROVE  /\ Holds(o, f, n)' /\ Unopened(o)'
           /\ object'[o] \in ObjectStates /\ checkpoints'[o] \in CheckpointStates
<1> DEFINE k == n - 1
           t == log[n]
<1>0. /\ k \in Nat /\ n \in Nat \ {0} /\ k + 1 = n /\ f \in 1 .. k + 1 /\ f \in Nat
  BY DEF TypeOK
<1> HIDE DEF k
<1>1. t \in Txns /\ ~(t.begin = o /\ t.end = o)
  <2>1. t.begin = "none" \/ t.end = "none"
    BY DEF LogInv
  <2>2. log \in Seq(Txns)
    BY DEF TypeOK
  <2>3. log[n] \in Txns
    BY <2>2
  <2>4. ~(t.begin = o /\ t.end = o)
    BY <2>1, OneObject, Zenon
  <2> QED
    BY <2>3, <2>4
<1>2. object[o] \in ObjectStates /\ checkpoints[o] \in CheckpointStates
  BY DEF TypeOK, CheckpointStates
<1>3. ReplayStep(object'[o], object[o], o, n, t)
  BY <1>0, <1>1, <1>2, ReplayFields
<1>4. /\ object[o].mutable = MutableIn(log, o, f, k)
      /\ object[o].sealed = SealedIn(log, o, f, k)
      /\ Least(checkpoints[o].current, object[o].mutable)
      /\ Least(checkpoints[o].old, object[o].sealed)
  BY DEF Holds, k
<1>5. MutableStep(log, o, f, k, t) /\ SealedStep(log, o, f, k, t)
  <2>1. MutableStep(log, o, f, k, log[k + 1])
    BY <1>0, StepMutable
  <2>2. SealedStep(log, o, f, k, log[k + 1])
    BY <1>0, <1>1, StepSealed
  <2> QED
    BY <1>0, <2>1, <2>2
<1> HIDE DEF t
<1>6. /\ object'[o].mutable = MutableIn(log, o, f, n)
      /\ object'[o].sealed = SealedIn(log, o, f, n)
  <2>1. object'[o].mutable = MutableIn(log, o, f, k + 1)
    BY <1>0, <1>3, <1>4, <1>5, Zenon DEF ReplayStep, MutableStep
  <2>2. object'[o].sealed = SealedIn(log, o, f, k + 1)
    BY <1>0, <1>3, <1>4, <1>5, Zenon DEF ReplayStep, SealedStep
  <2> QED
    BY <1>0, <2>1, <2>2, Zenon
<1>7. \A s \in object[o].sealed, m \in object[o].mutable : s < m
  BY <1>0, <1>4, SealedFirst
<1>8. /\ object[o].mutable \in SUBSET (1 .. n - 1) /\ object[o].sealed \in SUBSET (1 .. n - 1)
  BY <1>0, <1>4 DEF MutableIn, SealedIn
<1>9. LeastAfter(checkpoints'[o], o, n, t, object[o].mutable, object[o].sealed)
  <2>1. checkpoints'[o] = ApplyCheckpoint(checkpoints[o], o, n, t)
    BY DEF t
  <2> QED
    BY <1>0, <1>1, <1>2, <1>4, <1>7, <1>8, <2>1, LeastStep DEF t
<1>10. /\ Least(checkpoints'[o].current, object'[o].mutable)
       /\ Least(checkpoints'[o].old, object'[o].sealed)
  BY <1>3, <1>9, Zenon DEF LeastAfter, ReplayStep
<1>11. Holds(o, f, n)'
  BY <1>6, <1>10 DEF Holds
<1>12. object'[o].recent = Cardinality(object'[o].mutable)
       /\ object'[o].flushing = Cardinality(object'[o].sealed)
  <2>1. IsFiniteSet(object[o].mutable) /\ IsFiniteSet(object[o].sealed)
    BY <1>0, <1>4, FiniteParts
  <2>2. object[o].sealed \cap object[o].mutable = {}
    BY <1>4 DEF MutableIn, SealedIn
  <2>3. n \notin object[o].sealed \cup object[o].mutable
    BY <1>0, <1>8
  <2>4. /\ object[o].recent = Cardinality(object[o].mutable)
        /\ object[o].flushing = Cardinality(object[o].sealed)
    BY DEF Unopened
  <2> QED
    BY <1>0, <1>2, <1>3, <2>1, <2>2, <2>3, <2>4, ReplayCounts
<1>13. Unopened(o)'
  BY <1>3, <1>12 DEF Unopened, ReplayStep
<1> QED
  BY <1>3, <1>9, <1>11, <1>13 DEF ReplayStep, LeastAfter

\* Replaying a transaction keeps the invariant.
LEMMA ReplayKeeps ==
    ASSUME IInv, ReplayTransaction
    PROVE  IInv'
<1>0. PICK n, sb : n = replaying /\ sb = journal.super_block
  OBVIOUS
<1>1. /\ TypeOK /\ LogInv /\ ReplayInv /\ CopiesInv /\ Clean /\ replaying # None
  BY DEF IInv, ReplayTransaction
<1>2. ~mounted /\ AtRest /\ durable = Len(log)
  BY <1>1 DEF IInv, TypeOK
<1>3. /\ UNCHANGED <<log, durable, copies, mounted, journal, commit, compaction, panicked>>
      /\ replaying' = n + 1
      /\ root_parent' = IF n >= sb.offset /\ "root_parent" \in log[n].updates
                        THEN root_parent \cup {n} ELSE root_parent
  BY <1>0 DEF ReplayTransaction
<1>4. /\ Len(log) \in Nat /\ n \in 1 .. Len(log) /\ n \in Nat /\ n - 1 \in Nat
  BY <1>0, <1>1 DEF ReplayTransaction, EndOffset, TypeOK, None
<1>5. Sound(sb, log, durable)
  BY <1>0, <1>1 DEF CopiesInv
<1>6. ASSUME NEW o \in Objects
      PROVE  /\ Holds(o, From(sb, o), n)' /\ Unopened(o)'
             /\ object'[o] \in ObjectStates /\ checkpoints'[o] \in CheckpointStates
  <2>1. From(sb, o) \in Nat \ {0}
    BY <1>5, FromType
  <2>2. Holds(o, From(sb, o), n - 1) /\ Unopened(o)
    BY <1>0, <1>1 DEF ReplayInv
  <2>3. /\ object'[o] = IF n >= From(sb, o) THEN ApplyReplay(object[o], o, n, log[n])
                        ELSE object[o]
        /\ checkpoints'[o] = IF n >= From(sb, o)
                             THEN ApplyCheckpoint(checkpoints[o], o, n, log[n])
                             ELSE checkpoints[o]
    BY <1>0 DEF ReplayTransaction, ShouldApply, From
  <2>4. CASE n >= From(sb, o)
    <3>1. From(sb, o) \in 1 .. n
      BY <1>4, <2>1, <2>4
    <3>2. /\ object'[o] = ApplyReplay(object[o], o, n, log[n])
          /\ checkpoints'[o] = ApplyCheckpoint(checkpoints[o], o, n, log[n])
      BY <2>3, <2>4
    <3>3. log' = log
      BY <1>3
    <3> QED
      BY <1>1, <1>4, <2>2, <3>1, <3>2, <3>3, ReplayObject
  <2>5. CASE ~(n >= From(sb, o))
    <3>1. object'[o] = object[o] /\ checkpoints'[o] = checkpoints[o] /\ log' = log
      BY <1>3, <2>3, <2>5
    <3>2. n < From(sb, o) /\ n - 1 < From(sb, o) /\ From(sb, o) \in Nat
      BY <1>4, <2>1, <2>5
    <3>3. /\ MutableIn(log, o, From(sb, o), n) = MutableIn(log, o, From(sb, o), n - 1)
          /\ SealedIn(log, o, From(sb, o), n) = SealedIn(log, o, From(sb, o), n - 1)
      <4>1. /\ MutableIn(log, o, From(sb, o), n) = {} /\ SealedIn(log, o, From(sb, o), n) = {}
        BY <1>4, <3>2, NothingFrom
      <4>2. /\ MutableIn(log, o, From(sb, o), n - 1) = {}
            /\ SealedIn(log, o, From(sb, o), n - 1) = {}
        BY <1>4, <3>2, NothingFrom
      <4> QED
        BY <4>1, <4>2, Zenon
    <3>4. object[o] \in ObjectStates /\ checkpoints[o] \in CheckpointStates
      BY <1>1 DEF TypeOK, CheckpointStates
    <3>5. Holds(o, From(sb, o), n)'
      BY <2>2, <3>1, <3>3, Zenon DEF Holds
    <3>6. Unopened(o)'
      BY <2>2, <3>1, Zenon DEF Unopened
    <3> QED
      BY <3>1, <3>4, <3>5, <3>6
  <2> QED
    BY <2>4, <2>5
<1>7. root_parent' = sb.contents \cup UpdatesIn(log, "root_parent", sb.offset, n)
  <2>1. root_parent = sb.contents \cup UpdatesIn(log, "root_parent", sb.offset, n - 1)
    BY <1>0, <1>1 DEF ReplayInv
  <2>2. sb.offset \in Nat
    BY <1>5 DEF Sound, SuperBlocks
  <2>3. UpdatesIn(log, "root_parent", sb.offset, n) =
          UpdatesIn(log, "root_parent", sb.offset, n - 1)
            \cup (IF n >= sb.offset /\ "root_parent" \in log[n].updates THEN {n} ELSE {})
    <3>1. \A m : m \in sb.offset .. n <=>
                   m \in sb.offset .. n - 1 \/ (m = n /\ n >= sb.offset)
      BY <1>4, <2>2
    <3> QED
      BY <3>1 DEF UpdatesIn
  <2> QED
    BY <1>3, <2>1, <2>3
<1>8. CopiesInv' /\ Clean'
  <2>1. \A x \in SuperBlocks : Keeps(x) => Keeps(x)'
    BY <1>3 DEF Keeps, NotTrimmed
  <2>2. durable' \in Nat /\ durable <= durable' /\ \A i \in 1 .. durable : log'[i] = log[i]
    BY <1>1, <1>3 DEF TypeOK
  <2> QED
    BY <1>1, <1>3, <2>1, <2>2, CopiesFrame
<1>9. ReplayInv'
  <2>1. sb.checkpoint \in Nat /\ n >= sb.checkpoint
    BY <1>0, <1>1, <1>5 DEF ReplayInv, Sound, SuperBlocks
  <2>2. /\ replaying' >= sb.checkpoint /\ replaying' <= EndOffset' /\ replaying' - 1 = n
    BY <1>3, <1>4, <2>1 DEF EndOffset
  <2>3. journal'.super_block = sb
    BY <1>0, <1>3
  <2>4. root_parent' = sb.contents \cup UpdatesIn(log', "root_parent", sb.offset, n)
    BY <1>3, <1>7
  <2> QED
    BY <1>6, <2>2, <2>3, <2>4 DEF ReplayInv
<1>10. TypeOK'
  <2>1. object' \in [Objects -> ObjectStates]
    <3>1. object' = [o \in Objects |-> object'[o]]
      BY DEF ReplayTransaction
    <3> QED
      BY <1>6, <3>1
  <2>2. checkpoints' \in [Objects -> [old : Nat, current : Nat]]
    <3>1. checkpoints' = [o \in Objects |-> checkpoints'[o]]
      BY DEF ReplayTransaction
    <3> QED
      BY <1>6, <3>1 DEF CheckpointStates
  <2>3. root_parent' \in SUBSET Nat /\ replaying' \in Nat
    <3>1. root_parent \in SUBSET Nat /\ root_parent \cup {n} \in SUBSET Nat
      BY <1>1, <1>4 DEF TypeOK
    <3>2. n + 1 \in Nat
      BY <1>4
    <3> QED
      BY <1>3, <3>1, <3>2, Zenon
  <2> QED
    BY <1>1, <1>3, <2>1, <2>2, <2>3 DEF TypeOK
<1>11. LogInv'
  BY <1>1, <1>3 DEF LogInv, Parent
<1>12. AtRest' /\ durable' = Len(log') /\ ~mounted' /\ replaying' # None
  BY <1>2, <1>3, <1>4 DEF AtRest, None
<1> QED
  BY <1>8, <1>9, <1>10, <1>11, <1>12 DEF IInv

\* The last record in an object's parent names the object's layer files and
\* counts what they hold.
LEMMA InfoIs ==
    ASSUME TypeOK, LogInv, NEW o \in Objects
    PROVE  LET info == InfoOf(o, Mutations(Parent(o))) IN
           /\ info.layers = LayersIn(log, o, Len(log))
           /\ info.count = Cardinality(LayersIn(log, o, Len(log)))
<1> DEFINE k == Len(log)
           parent == Mutations(Parent(o))
           ends == {n \in parent : log[n].end = o}
<1>1. k \in Nat
  BY DEF TypeOK
<1>2. ends \in SUBSET (1 .. k)
  BY DEF Mutations
<1>3. \A n \in 1 .. k : log[n].end = o => n \in ends
  BY DEF LogInv, Mutations
<1>4. \A n \in ends : log[n].end = o
  OBVIOUS
<1>5. InfoOf(o, parent) = IF ends = {} THEN NoInfo ELSE log[Max(ends)].info
  BY DEF InfoOf
<1> HIDE DEF ends, parent
<1>6. CASE ends = {}
  <2>1. LayersIn(log, o, k) = {}
    BY <1>1, <1>3, <1>6, NoEnd
  <2>2. InfoOf(o, parent) = NoInfo /\ NoInfo.layers = {} /\ NoInfo.count = 0
    BY <1>5, <1>6 DEF NoInfo
  <2>3. Cardinality({}) = 0
    BY FS_EmptySet
  <2> QED
    BY <2>1, <2>2, <2>3, Zenon DEF parent
<1>7. CASE ends # {}
  <2>0. PICK e : e = Max(ends)
    OBVIOUS
  <2>1. e \in ends /\ \A n \in ends : e >= n
    BY <1>1, <1>2, <1>7, <2>0, MaxIs
  <2>2. e \in 1 .. k /\ log[e].end = o
    BY <1>2, <1>4, <2>1
  <2>3. \A n \in 1 .. k : log[n].end = o => n <= e
    <3> TAKE n \in 1 .. k
    <3> HAVE log[n].end = o
    <3>1. e >= n
      BY <1>3, <2>1
    <3> QED
      BY <3>1, <2>2, <1>1
  <2>4. LayersIn(log, o, k) = LayersIn(log, o, e)
    BY <1>1, <2>2, <2>3, LastEnd
  <2>5. /\ log[e].info.layers = LayersIn(log, o, e)
        /\ log[e].info.count = Cardinality(LayersIn(log, o, e))
    BY <2>2 DEF LogInv
  <2>6. InfoOf(o, parent) = log[e].info
    BY <1>5, <1>7, <2>0, Zenon
  <2> QED
    BY <2>4, <2>5, <2>6, Zenon DEF parent
<1> QED
  BY <1>6, <1>7

\* An object that has been opened holds every mutation once and has counted it.
Complete(obj, o) ==
    /\ obj \in ObjectStates
    /\ obj.layers = LayersIn(log, o, Len(log))
    /\ obj.count = Cardinality(Mutations(o))
    /\ obj.recent = 0 /\ obj.flushing = 0 /\ obj.opened
    /\ Contents(obj) = Mutations(o)
    /\ obj.layers \cap (obj.sealed \cup obj.mutable) = {}
    /\ obj.sealed \cap obj.mutable = {}

\* Opening an object that the replay has brought up to date makes it complete.
LEMMA OpenIs ==
    ASSUME TypeOK, LogInv, NEW o \in Objects, NEW obj \in ObjectStates,
           obj.mutable = MutableIn(log, o, 1, Len(log)),
           obj.sealed = SealedIn(log, o, 1, Len(log)),
           obj.recent = Cardinality(obj.mutable), obj.flushing = Cardinality(obj.sealed)
    PROVE  LET new == Open(obj, o, Mutations(Parent(o))) IN
           /\ Complete(new, o)
           /\ new.mutable = obj.mutable /\ new.sealed = obj.sealed
<1> DEFINE new == Open(obj, o, Mutations(Parent(o)))
           layers == LayersIn(log, o, Len(log))
           count == Cardinality(layers) + obj.flushing + obj.recent
<1>1. Len(log) \in Nat
  BY DEF TypeOK
<1>2. /\ IsFiniteSet(layers) /\ IsFiniteSet(obj.sealed) /\ IsFiniteSet(obj.mutable)
  BY <1>1, FiniteParts
<1>3. /\ Mutations(o) = layers \cup obj.sealed \cup obj.mutable
      /\ layers \cap (obj.sealed \cup obj.mutable) = {}
      /\ obj.sealed \cap obj.mutable = {}
  <2>1. Mutations(o) = UpdatesIn(log, o, 1, Len(log))
    BY DEF Mutations, UpdatesIn
  <2> QED
    BY <1>1, <2>1, Parts, Zenon
<1>4. layers \in SUBSET Nat
  BY <1>1 DEF LayersIn
<1>5. new = [obj EXCEPT !.layers = layers, !.count = count,
                        !.flushing = 0, !.recent = 0, !.opened = TRUE]
  <2>1. /\ InfoOf(o, Mutations(Parent(o))).layers = layers
        /\ InfoOf(o, Mutations(Parent(o))).count = Cardinality(layers)
    BY InfoIs
  <2> QED
    BY <2>1, Zenon DEF Open
<1> HIDE DEF new, layers
<1>6. Cardinality(Mutations(o)) = count /\ count \in Nat
  <2>1. layers \cup obj.sealed \cup obj.mutable = layers \cup (obj.sealed \cup obj.mutable)
    OBVIOUS
  <2>2. /\ IsFiniteSet(obj.sealed \cup obj.mutable)
        /\ Cardinality(obj.sealed) \in Nat /\ Cardinality(obj.mutable) \in Nat
        /\ Cardinality(obj.sealed \cup obj.mutable) =
             Cardinality(obj.sealed) + Cardinality(obj.mutable)
    BY <1>2, <1>3, TwoPlaces, Zenon
  <2>3. /\ Cardinality(layers) \in Nat
        /\ Cardinality(layers \cup (obj.sealed \cup obj.mutable)) =
             Cardinality(layers) + Cardinality(obj.sealed \cup obj.mutable)
    BY <1>2, <1>3, <2>2, TwoPlaces, Zenon
  <2>4. obj.flushing \in Nat /\ obj.recent \in Nat
    BY DEF ObjectStates
  <2>5. Cardinality(Mutations(o)) = Cardinality(layers) + (obj.flushing + obj.recent)
    BY <1>3, <2>1, <2>2, <2>3, Zenon
  <2> QED
    BY <2>3, <2>4, <2>5
<1> HIDE DEF count
<1>7. new \in ObjectStates
  <2>1. [obj EXCEPT !.layers = layers, !.count = count] \in ObjectStates
    BY <1>4, <1>6 DEF ObjectStates
  <2> DEFINE u == [obj EXCEPT !.layers = layers, !.count = count]
  <2>2. new = [u EXCEPT !.flushing = 0, !.recent = 0, !.opened = TRUE]
    BY <1>5
  <2> HIDE DEF u
  <2>3. u \in ObjectStates
    BY <2>1 DEF u
  <2> QED
    BY <2>2, <2>3 DEF ObjectStates
<1>8. /\ new.layers = layers /\ new.count = count /\ new.flushing = 0 /\ new.recent = 0
      /\ new.opened = TRUE /\ new.mutable = obj.mutable /\ new.sealed = obj.sealed
  BY <1>5 DEF ObjectStates
<1>9. Complete(new, o)
  <2>1. Contents(new) = Mutations(o)
    BY <1>3, <1>8, Zenon DEF Contents
  <2>2. new.layers \cap (new.sealed \cup new.mutable) = {} /\ new.sealed \cap new.mutable = {}
    BY <1>3, <1>8, Zenon
  <2>3. new.layers = LayersIn(log, o, Len(log)) /\ new.count = Cardinality(Mutations(o))
    BY <1>6, <1>8, Zenon DEF layers
  <2>4. new.recent = 0 /\ new.flushing = 0 /\ new.opened
    BY <1>8, Zenon
  <2> QED
    BY <1>7, <2>1, <2>2, <2>3, <2>4, Zenon DEF Complete
<1> QED
  BY <1>8, <1>9, Zenon DEF new

\* A replay from a sound super-block leaves out nothing that is not in layer
\* files.
LEMMA NothingMissed ==
    ASSUME TypeOK, NEW sb, Sound(sb, log, durable), durable = Len(log), NEW o \in Objects
    PROVE  /\ MutableIn(log, o, From(sb, o), Len(log)) = MutableIn(log, o, 1, Len(log))
           /\ SealedIn(log, o, From(sb, o), Len(log)) = SealedIn(log, o, 1, Len(log))
<1>1. /\ Len(log) \in Nat /\ From(sb, o) \in Nat \ {0} /\ sb.offset \in Nat \ {0}
      /\ From(sb, o) <= sb.offset
  BY FromType DEF TypeOK
<1>2. sb.offset <= Len(log) + 1
  BY DEF Sound
<1>3. \A m \in 1 .. sb.offset - 1 :
        o \in log[m].updates /\ m < From(sb, o) => Ended(log, o, m, sb.offset - 1)
  BY DEF Sound
<1>4. ASSUME NEW m \in 1 .. Len(log), o \in log[m].updates, m < From(sb, o)
      PROVE  Ended(log, o, m, Len(log))
  <2>1. m \in 1 .. sb.offset - 1 /\ sb.offset - 1 \in Nat /\ sb.offset - 1 <= Len(log)
        /\ m \in Nat
    BY <1>1, <1>2, <1>4
  <2>2. Ended(log, o, m, sb.offset - 1)
    BY <1>3, <1>4, <2>1
  <2> QED
    BY <1>1, <2>1, <2>2, EndedGrows
<1> QED
  BY <1>1, <1>4, FromOn

\* A complete object is open, and holds what it did.
LEMMA OpenedNow ==
    ASSUME NEW o \in Objects, Holds(o, 1, Len(log)), Complete(object'[o], o),
           object'[o].mutable = object[o].mutable, object'[o].sealed = object[o].sealed,
           UNCHANGED <<log, checkpoints>>
    PROVE  Opened(o)' /\ Holds(o, 1, Len(log))'
<1>1. Mutations(o)' = Mutations(o)
  BY DEF Mutations
<1>2. LayersIn(log, o, Len(log))' = LayersIn(log, o, Len(log))
  BY Zenon
<1>3. Opened(o)'
  BY <1>1, <1>2, Zenon DEF Opened, Complete
<1>4. Holds(o, 1, Len(log))'
  BY Zenon DEF Holds
<1> QED
  BY <1>3, <1>4

\* Mounting keeps the invariant: the root store is opened with the root parent's
\* contents, and the allocator with the root store's.
LEMMA MountKeeps ==
    ASSUME IInv, Mount
    PROVE  IInv'
<1>0. PICK sb : sb = journal.super_block
  OBVIOUS
<1>1. TypeOK /\ LogInv /\ Len(log) \in Nat /\ replaying = Len(log) + 1
  BY DEF IInv, Mount, EndOffset, TypeOK
<1>2. ReplayInv /\ CopiesInv /\ Clean /\ ~mounted /\ replaying # None
  BY <1>1 DEF IInv, None, TypeOK
<1>3. AtRest /\ durable = Len(log)
  BY <1>2 DEF IInv
<1>4. Sound(sb, log, durable)
  BY <1>0, <1>2 DEF CopiesInv
<1>5. ASSUME NEW o \in Objects
      PROVE  Holds(o, 1, Len(log)) /\ Unopened(o) /\ object[o] \in ObjectStates
  <2>1. replaying - 1 = Len(log)
    BY <1>1
  <2>2. Holds(o, From(sb, o), Len(log)) /\ Unopened(o)
    BY <1>0, <1>2, <2>1 DEF ReplayInv
  <2>3. /\ MutableIn(log, o, From(sb, o), Len(log)) = MutableIn(log, o, 1, Len(log))
        /\ SealedIn(log, o, From(sb, o), Len(log)) = SealedIn(log, o, 1, Len(log))
    BY <1>1, <1>3, <1>4, NothingMissed
  <2>4. Holds(o, 1, Len(log))
    BY <2>2, <2>3, Zenon DEF Holds
  <2>5. object[o] \in ObjectStates
    BY <1>1 DEF TypeOK
  <2> QED
    BY <2>2, <2>4, <2>5
<1>6. root_parent = Mutations("root_parent")
  <2>1. replaying - 1 = Len(log)
    BY <1>1
  <2>2. root_parent = sb.contents \cup UpdatesIn(log, "root_parent", sb.offset, Len(log))
    BY <1>0, <1>2, <2>1 DEF ReplayInv
  <2>3. /\ sb.contents = UpdatesIn(log, "root_parent", 1, sb.offset - 1)
        /\ sb.offset \in Nat \ {0} /\ sb.offset <= Len(log) + 1
    BY <1>3, <1>4 DEF Sound, SuperBlocks
  <2>4. \A m : m \in 1 .. Len(log) <=>
                 m \in 1 .. sb.offset - 1 \/ m \in sb.offset .. Len(log)
    BY <1>1, <2>3
  <2> QED
    BY <2>2, <2>3, <2>4 DEF Mutations, UpdatesIn
<1>7. ASSUME NEW o \in Objects
      PROVE  LET new == Open(object[o], o, Mutations(Parent(o))) IN
             /\ Complete(new, o)
             /\ new.mutable = object[o].mutable /\ new.sealed = object[o].sealed
  <2>1. object[o] \in ObjectStates
    BY <1>5
  <2>2. /\ object[o].mutable = MutableIn(log, o, 1, Len(log))
        /\ object[o].sealed = SealedIn(log, o, 1, Len(log))
    BY <1>5, Zenon DEF Holds
  <2>3. /\ object[o].recent = Cardinality(object[o].mutable)
        /\ object[o].flushing = Cardinality(object[o].sealed)
    BY <1>5, Zenon DEF Unopened
  <2> QED
    BY <1>1, <2>1, <2>2, <2>3, OpenIs
<1>8. PICK root : root = Open(object["root"], "root", root_parent)
  OBVIOUS
<1>9. "root" \in Objects /\ Objects \subseteq {"root", "allocator", "volume"}
  BY ObjectsAssumption
<1>10. /\ Complete(root, "root")
       /\ root.mutable = object["root"].mutable /\ root.sealed = object["root"].sealed
  <2>1. root = Open(object["root"], "root", Mutations(Parent("root")))
    BY <1>6, <1>8 DEF Parent
  <2> QED
    BY <1>7, <1>9, <2>1
<1>11. Contents(root) = Mutations("root")
  BY <1>10 DEF Complete
<1>12. /\ object' = [o \in Objects |->
                       CASE o = "root" -> root
                         [] o = "allocator" -> Open(object[o], o, Contents(root))
                         [] o = "volume" -> object[o]]
       /\ mounted' = TRUE /\ replaying' = None
       /\ UNCHANGED <<log, durable, copies, root_parent, checkpoints, journal, commit,
                      compaction, panicked>>
  BY <1>8 DEF Mount
<1>13. ASSUME NEW o \in Objects
       PROVE  /\ object'[o] \in ObjectStates /\ Holds(o, 1, Len(log))'
              /\ (Opened(o) \/ (Unopened(o) /\ o = "volume"))'
  <2>0. UNCHANGED <<log, checkpoints>>
    BY <1>12
  <2>1. CASE o = "root"
    <3>1. object'[o] = root
      BY <1>12, <2>1
    <3>2. /\ Complete(object'[o], o) /\ object'[o].mutable = object[o].mutable
          /\ object'[o].sealed = object[o].sealed
      BY <1>10, <2>1, <3>1
    <3>3. Opened(o)' /\ Holds(o, 1, Len(log))'
      BY <1>5, <2>0, <3>2, OpenedNow
    <3> QED
      BY <3>2, <3>3 DEF Complete
  <2>2. CASE o = "allocator"
    <3>1. object'[o] = Open(object[o], o, Mutations(Parent(o)))
      BY <1>11, <1>12, <2>2 DEF Parent
    <3>2. /\ Complete(object'[o], o) /\ object'[o].mutable = object[o].mutable
          /\ object'[o].sealed = object[o].sealed
      BY <1>7, <3>1
    <3>3. Opened(o)' /\ Holds(o, 1, Len(log))'
      BY <1>5, <2>0, <3>2, OpenedNow
    <3> QED
      BY <3>2, <3>3 DEF Complete
  <2>3. CASE o = "volume"
    <3>1. object'[o] = object[o]
      BY <1>12, <2>3
    <3>2. Holds(o, 1, Len(log))'
      BY <1>5, <2>0, <3>1 DEF Holds
    <3>3. Unopened(o)'
      BY <1>5, <3>1 DEF Unopened
    <3> QED
      BY <1>5, <2>3, <3>1, <3>2, <3>3
  <2> QED
    BY <1>9, <2>1, <2>2, <2>3
<1>14. MountedInv'
  <2>1. root_parent' = Mutations("root_parent")'
    BY <1>6, <1>12 DEF Mutations
  <2> QED
    BY <1>13, <2>1 DEF MountedInv
<1>15. CopiesInv' /\ Clean'
  <2>1. \A x \in SuperBlocks : Keeps(x) => Keeps(x)'
    BY <1>12 DEF Keeps, NotTrimmed
  <2>2. durable' \in Nat /\ durable <= durable' /\ \A i \in 1 .. durable : log'[i] = log[i]
    BY <1>1, <1>12 DEF TypeOK
  <2> QED
    BY <1>1, <1>2, <1>12, <2>1, <2>2, CopiesFrame
<1>16. CompactionInv'
  <2>1. compaction'.pc = "idle" /\ compaction'.step = "Begin"
    BY <1>3, <1>12 DEF AtRest, Idle
  <2> QED
    BY <1>15, <2>1 DEF CompactionInv
<1>17. TypeOK'
  <2>1. object' \in [Objects -> ObjectStates]
    BY <1>12, <1>13
  <2>2. mounted' \in BOOLEAN /\ replaying' \in Nat
    BY <1>12 DEF None
  <2> QED
    BY <1>1, <1>12, <2>1, <2>2 DEF TypeOK
<1>18. LogInv'
  BY <1>1, <1>12 DEF LogInv, Parent
<1> QED
  BY <1>12, <1>14, <1>15, <1>16, <1>17, <1>18 DEF IInv

\* Whatever is open while the system is mounted is complete.
LEMMA OpenComplete ==
    ASSUME TypeOK, MountedInv, NEW o \in Objects, object[o].opened
    PROVE  Complete(object[o], o)
<1>1. Opened(o) /\ object[o] \in ObjectStates /\ Len(log) \in Nat
  BY DEF MountedInv, Unopened, TypeOK
<1>2. /\ object[o].mutable = MutableIn(log, o, 1, Len(log))
      /\ object[o].sealed = SealedIn(log, o, 1, Len(log))
      /\ object[o].layers = LayersIn(log, o, Len(log))
  BY HeldLayers
<1>3. Mutations(o) = UpdatesIn(log, o, 1, Len(log))
  BY DEF Mutations, UpdatesIn
<1>4. /\ Mutations(o) = object[o].layers \cup object[o].sealed \cup object[o].mutable
      /\ object[o].layers \cap (object[o].sealed \cup object[o].mutable) = {}
      /\ object[o].sealed \cap object[o].mutable = {}
  BY <1>1, <1>2, <1>3, Parts, Zenon
<1>5. Contents(object[o]) = Mutations(o)
  BY <1>4, Zenon DEF Contents
<1> QED
  BY <1>1, <1>2, <1>4, <1>5, Zenon DEF Complete, Opened

\* A store that is not open would be complete if it were opened now.
LEMMA WouldBeComplete ==
    ASSUME TypeOK, LogInv, MountedInv, NEW o \in Objects, ~object[o].opened
    PROVE  LET new == Open(object[o], o, Contents(object["root"])) IN
           /\ Complete(new, o)
           /\ new.mutable = object[o].mutable /\ new.sealed = object[o].sealed
<1>1. o = "volume" /\ Unopened(o) /\ object[o] \in ObjectStates
  BY OnlyVolumes DEF MountedInv, Opened, TypeOK
<1>2. "root" \in Objects /\ object["root"].opened
  BY ObjectsAssumption, OnlyVolumes
<1>3. Contents(object["root"]) = Mutations(Parent(o))
  <2>1. Complete(object["root"], "root")
    BY <1>2, OpenComplete
  <2> QED
    BY <1>1, <2>1 DEF Complete, Parent
<1>4. /\ object[o].mutable = MutableIn(log, o, 1, Len(log))
      /\ object[o].sealed = SealedIn(log, o, 1, Len(log))
  BY HeldLayers
<1>5. /\ object[o].recent = Cardinality(object[o].mutable)
      /\ object[o].flushing = Cardinality(object[o].sealed)
  BY <1>1, Zenon DEF Unopened
<1> HIDE DEF LogInv, MountedInv, TypeOK
<1>6. LET new == Open(object[o], o, Mutations(Parent(o))) IN
      /\ Complete(new, o)
      /\ new.mutable = object[o].mutable /\ new.sealed = object[o].sealed
  BY <1>1, <1>4, <1>5, OpenIs
<1> QED
  BY <1>3, <1>6, Zenon

\* Opening a volume keeps the invariant.
LEMMA OpenVolumeKeeps ==
    ASSUME IInv, OpenVolume
    PROVE  IInv'
<1>1. /\ TypeOK /\ mounted /\ LogInv /\ MountedInv /\ CompactionInv /\ CopiesInv
      /\ replaying = None
  BY DEF IInv, OpenVolume, Running
<1>2. /\ "volume" \in Objects /\ ~object["volume"].opened
      /\ object' = [object EXCEPT !["volume"] =
                      Open(object["volume"], "volume", Contents(object["root"]))]
      /\ UNCHANGED <<log, durable, copies, mounted, replaying, root_parent, checkpoints,
                     journal, commit, compaction, panicked>>
  BY DEF OpenVolume
<1>3. /\ object'["volume"] =
           Open(object["volume"], "volume", Contents(object["root"]))
      /\ \A o \in Objects : o # "volume" => object'[o] = object[o]
  BY <1>1, <1>2 DEF TypeOK
<1>4. /\ Complete(object'["volume"], "volume")
      /\ object'["volume"].mutable = object["volume"].mutable
      /\ object'["volume"].sealed = object["volume"].sealed
  BY <1>1, <1>2, <1>3, WouldBeComplete
<1>5. ASSUME NEW o \in Objects
      PROVE  /\ object'[o] \in ObjectStates /\ Holds(o, 1, Len(log))'
             /\ (Opened(o) \/ (Unopened(o) /\ o = "volume"))'
  <2>0. UNCHANGED <<log, checkpoints>> /\ Holds(o, 1, Len(log))
    BY <1>1, <1>2 DEF MountedInv
  <2>1. CASE o = "volume"
    <3>1. Opened(o)' /\ Holds(o, 1, Len(log))'
      BY <1>4, <2>0, <2>1, OpenedNow
    <3> QED
      BY <1>4, <2>1, <3>1 DEF Complete
  <2>2. CASE o # "volume"
    <3>1. object'[o] = object[o] /\ Opened(o) /\ object[o] \in ObjectStates
      BY <1>1, <1>3, <2>2 DEF MountedInv, TypeOK
    <3>2. Holds(o, 1, Len(log))'
      BY <2>0, <3>1 DEF Holds
    <3>3. Mutations(o)' = Mutations(o)
      BY <2>0 DEF Mutations
    <3>4. Opened(o)'
      BY <2>0, <3>1, <3>3 DEF Opened
    <3> QED
      BY <3>1, <3>2, <3>4
  <2> QED
    BY <2>1, <2>2
<1>6. MountedInv'
  <2>1. root_parent' = Mutations("root_parent")'
    BY <1>1, <1>2 DEF MountedInv, Mutations
  <2> QED
    BY <1>5, <2>1 DEF MountedInv
<1>7. CopiesInv' /\ (Clean' <=> Clean)
  <2>1. \A x \in SuperBlocks : Keeps(x) => Keeps(x)'
    BY <1>2 DEF Keeps, NotTrimmed
  <2>2. durable' \in Nat /\ durable <= durable' /\ \A i \in 1 .. durable : log'[i] = log[i]
    BY <1>1, <1>2 DEF TypeOK
  <2> QED
    BY <1>1, <1>2, <2>1, <2>2, CopiesFrame
<1>8. CompactionInv'
  <2>0. PICK o : o = FlushedNext(compaction.todo)
    OBVIOUS
  <2>1. compaction.step # "Begin" => object[o].opened /\ o \in Objects
    <3>1. compaction.todo \in SUBSET Objects
      BY <1>1 DEF TypeOK
    <3> QED
      BY <1>1, <2>0, <3>1, NextIn DEF CompactionInv
  <2>2. compaction.step # "Begin" => object'[o] = object[o]
    BY <1>2, <1>3, <2>1
  <2>3. o = FlushedNext(compaction.todo)' /\ ToFlush' = ToFlush /\ EndOffset' = EndOffset
    BY <1>2, <2>0 DEF ToFlush, EndOffset
  <2>4. compaction' = compaction /\ durable' = durable /\ log' = log /\ journal' = journal
    BY <1>2
  <2>5. /\ compaction.pc = "writing" => Clean' /\ durable' = Len(log')
        /\ compaction.pc = "flushing" /\ compaction.todo = {} =>
             Clean' \/ durable' < Len(log')
        /\ ~Clean' => \/ durable' < Len(log')
                      \/ ToFlush' # {}
                      \/ journal'.super_block.checkpoint = EndOffset'
    BY <1>1, <1>7, <2>3, <2>4 DEF CompactionInv
  <2>6. /\ compaction.step # "Begin" => compaction.todo # {} /\ object'[o].opened
        /\ compaction.step \in {"Create", "Write", "End"} =>
             compaction.snapshot = Cardinality(object'[o].sealed \cup object'[o].layers)
        /\ compaction.step = "End" =>
             compaction.layers = object'[o].sealed \cup object'[o].layers
    <3>1. CASE compaction.step = "Begin"
      BY <3>1
    <3>2. CASE compaction.step # "Begin"
      BY <1>1, <2>0, <2>2, <3>2, Zenon DEF CompactionInv
    <3> QED
      BY <3>1, <3>2
  <2> QED
    BY <2>3, <2>4, <2>5, <2>6 DEF CompactionInv
<1>9. TypeOK'
  <2>1. object' \in [Objects -> ObjectStates]
    BY <1>1, <1>2, <1>5 DEF TypeOK
  <2> QED
    BY <1>1, <1>2, <2>1 DEF TypeOK
<1>10. LogInv'
  BY <1>1, <1>2 DEF LogInv, Parent
<1> QED
  BY <1>1, <1>2, <1>6, <1>7, <1>8, <1>9, <1>10 DEF IInv

-----------------------------------------------------------------------------
(* The theorems. *)

\* The first transaction and the super-block that format leaves.
LEMMA FirstIs ==
    ASSUME log = <<Format>>, durable = 1
    PROVE  /\ Len(log) = 1 /\ log[1] \in Txns /\ log \in Seq(Txns)
           /\ log[1].begin = "none" /\ log[1].end = "none"
           /\ \A o \in Objects \cup {"root_parent"} :
                /\ o \in log[1].updates
                /\ MutableIn(log, o, 1, 1) = {1} \/ o \notin Objects
                /\ SealedIn(log, o, 1, 1) = {} /\ LayersIn(log, o, 1) = {}
                /\ Mutations(o) = {1}
           /\ Sound(FirstSuperBlock, log, durable)
<1>1. Len(log) = 1 /\ log[1] = Format
  OBVIOUS
<1>2. /\ Format \in Txns /\ Format.begin = "none" /\ Format.end = "none" /\ Format.trim = 0
      /\ Format.updates = Objects \cup {"root_parent"}
  BY UpdateFields DEF Format
<1>3. log \in Seq(Txns)
  BY <1>2
<1> HIDE DEF Format
<1>4. \A m : m \in 1 .. 1 <=> m = 1
  OBVIOUS
<1>5. \A o \in Objects : o # "none"
  BY ObjectsAssumption
<1>6. ASSUME NEW o \in Objects \cup {"root_parent"}
      PROVE  /\ o \in log[1].updates
             /\ MutableIn(log, o, 1, 1) = {1} \/ o \notin Objects
             /\ SealedIn(log, o, 1, 1) = {} /\ LayersIn(log, o, 1) = {}
             /\ Mutations(o) = {1}
  <2>1. o # "none"
    BY <1>5
  <2>2. ~Begun(log, o, 1, 1)
    BY <1>1, <1>2, <1>4, <2>1 DEF Begun
  <2>3. ~Ended(log, o, 1, 1)
    BY <1>4 DEF Ended
  <2>4. o \in log[1].updates
    BY <1>1, <1>2
  <2> QED
    BY <1>1, <1>4, <2>2, <2>3, <2>4 DEF MutableIn, SealedIn, LayersIn, Mutations
<1>7. Sound(FirstSuperBlock, log, durable)
  <2> DEFINE sb == FirstSuperBlock
  <2>1. /\ sb.generation = 2 /\ sb.offset = 2 /\ sb.checkpoint = 1 /\ sb.contents = {1}
        /\ sb.offsets = [o \in Objects |-> 1]
    BY DEF FirstSuperBlock
  <2>2. sb \in SuperBlocks
    BY DEF FirstSuperBlock, SuperBlocks
  <2> HIDE DEF sb
  <2>3. \A o \in Objects : From(sb, o) = 1
    BY <2>1 DEF From, None
  <2>4. 2 - 1 = 1
    OBVIOUS
  <2>5. sb.contents = UpdatesIn(log, "root_parent", 1, sb.offset - 1)
    BY <1>1, <1>2, <1>4, <2>1, <2>4 DEF UpdatesIn
  <2>6. \A n \in 1 .. Len(log) : log[n].trim <= sb.checkpoint
    BY <1>1, <1>2, <2>1
  <2>7. \A o \in Objects :
          /\ sb.checkpoint <= From(sb, o) /\ From(sb, o) <= sb.offset
          /\ \A m \in 1 .. sb.offset - 1 :
               o \in log[m].updates /\ m < From(sb, o) => Ended(log, o, m, sb.offset - 1)
    BY <2>1, <2>3
  <2>8. Sound(sb, log, durable)
    BY <2>1, <2>2, <2>5, <2>6, <2>7 DEF Sound
  <2> QED
    BY <2>8 DEF sb
<1> QED
  BY <1>1, <1>2, <1>3, <1>6, <1>7

\* The invariant holds after format and the first mount.
LEMMA InitHolds == Init => IInv
<1> SUFFICES ASSUME Init PROVE IInv
  OBVIOUS
<1> DEFINE sb == FirstSuperBlock
           first == [EmptyObject EXCEPT !.mutable = {1}, !.count = 1, !.opened = TRUE]
<1>1. /\ log = <<Format>> /\ durable = 1 /\ mounted = TRUE /\ replaying = None
      /\ copies = [c \in Copies |-> IF c = "A" THEN {sb} ELSE {Torn}]
      /\ object = [o \in Objects |-> first]
      /\ root_parent = {1}
      /\ checkpoints = [o \in Objects |-> [old |-> None, current |-> 1]]
      /\ journal = [super_block |-> sb, to_write |-> "B", zero_offset |-> None]
      /\ commit = [pc |-> "free", trim |-> None] /\ compaction = Idle /\ panicked = FALSE
  BY DEF Init
<1>2. /\ Len(log) = 1 /\ log[1] \in Txns /\ log \in Seq(Txns)
      /\ log[1].begin = "none" /\ log[1].end = "none"
      /\ \A o \in Objects \cup {"root_parent"} :
           /\ MutableIn(log, o, 1, 1) = {1} \/ o \notin Objects
           /\ SealedIn(log, o, 1, 1) = {} /\ LayersIn(log, o, 1) = {}
           /\ Mutations(o) = {1}
      /\ Sound(sb, log, durable)
  BY <1>1, FirstIs
<1>3. /\ first \in ObjectStates /\ first.mutable = {1} /\ first.sealed = {}
      /\ first.layers = {} /\ first.count = 1 /\ first.recent = 0 /\ first.flushing = 0
      /\ first.opened = TRUE
  <2>1. EmptyObject \in ObjectStates
    BY DEF EmptyObject, ObjectStates
  <2>2. /\ EmptyObject.sealed = {} /\ EmptyObject.layers = {} /\ EmptyObject.recent = 0
        /\ EmptyObject.flushing = 0
    BY DEF EmptyObject
  <2> HIDE DEF EmptyObject
  <2>3. first \in ObjectStates
    <3> DEFINE u == [EmptyObject EXCEPT !.mutable = {1}, !.count = 1]
    <3>1. first = [u EXCEPT !.opened = TRUE]
      OBVIOUS
    <3>2. {1} \in SUBSET Nat /\ 1 \in Nat
      OBVIOUS
    <3>3. u \in ObjectStates
      BY <2>1, <3>2 DEF ObjectStates
    <3> HIDE DEF u, first
    <3> QED
      BY <3>1, <3>3 DEF ObjectStates
  <2> QED
    BY <2>1, <2>2, <2>3 DEF ObjectStates
<1>4. sb \in SuperBlocks /\ sb.generation = 2 /\ sb.checkpoint = 1
  BY <1>2 DEF Sound, FirstSuperBlock
<1> HIDE DEF first, sb
<1>5. TypeOK
  <2>1. copies \in [Copies -> SUBSET (SuperBlocks \cup {Torn})]
    BY <1>1, <1>4
  <2>2. object \in [Objects -> ObjectStates]
    BY <1>1, <1>3
  <2>3. checkpoints \in [Objects -> [old : Nat, current : Nat]]
    BY <1>1 DEF None
  <2>4. journal \in [super_block : SuperBlocks, to_write : Copies, zero_offset : Nat]
    BY <1>1, <1>4 DEF Copies, None
  <2>5. compaction \in [pc : {"idle", "flushing", "writing"}, todo : SUBSET Objects,
                        step : Steps, snapshot : Nat, layers : SUBSET Nat]
    BY <1>1 DEF Idle, Steps
  <2>6. commit \in [pc : {"free", "trimming", "ready"}, trim : Nat]
    BY <1>1 DEF None
  <2>7. /\ durable \in Nat /\ durable <= Len(log) /\ mounted \in BOOLEAN /\ replaying \in Nat
        /\ panicked \in BOOLEAN /\ root_parent \in SUBSET Nat
    <3>1. durable = 1 /\ mounted = TRUE /\ panicked = FALSE /\ root_parent = {1}
          /\ replaying = 0 /\ Len(log) = 1
      BY <1>1, <1>2 DEF None
    <3>2. {1} \in SUBSET Nat
      OBVIOUS
    <3>3. durable \in Nat /\ durable <= Len(log)
      BY <3>1
    <3> QED
      BY <3>1, <3>2, <3>3
  <2> QED
    BY <1>2, <2>1, <2>2, <2>3, <2>4, <2>5, <2>6, <2>7 DEF TypeOK
<1>6. LogInv
  <2>1. \A o \in Objects : o # "none"
    BY ObjectsAssumption
  <2>2. \A n \in 1 .. Len(log) : n = 1
    BY <1>2
  <2> QED
    BY <1>2, <2>1, <2>2 DEF LogInv
<1>7. Current = "A" /\ copies["A"] = {sb} /\ copies["B"] = {Torn} /\ Clean
  BY <1>1 DEF Current, Other, Copies, Clean
<1>8. CopiesInv
  <2>1. journal.super_block = sb /\ journal.to_write = "B"
    BY <1>1
  <2>2. NotTrimmed(sb)
    BY <1>1, <1>4 DEF NotTrimmed, None
  <2>3. Torn.generation < sb.generation
    BY <1>4 DEF Torn
  <2>4. \E p \in copies[journal.to_write] :
          /\ copies[journal.to_write] = {p}
          /\ p.generation < journal.super_block.generation
          /\ Clean \/ Fallback(p)
    BY <1>7, <2>1, <2>3
  <2> QED
    BY <1>2, <1>7, <2>1, <2>2, <2>4 DEF CopiesInv
<1>9. MountedInv
  <2>1. ASSUME NEW o \in Objects
        PROVE  Holds(o, 1, Len(log)) /\ Opened(o)
    <3>1. object[o] = first /\ checkpoints[o] = [old |-> None, current |-> 1]
      BY <1>1
    <3>2. Least(1, {1}) /\ Least(None, {})
      BY DEF Least
    <3>3. Holds(o, 1, Len(log))
      <4>1. MutableIn(log, o, 1, Len(log)) = {1} /\ SealedIn(log, o, 1, Len(log)) = {}
        BY <1>2
      <4>2. checkpoints[o].old = None /\ checkpoints[o].current = 1
        BY <3>1
      <4> QED
        BY <1>3, <3>1, <3>2, <4>1, <4>2, Zenon DEF Holds
    <3>4. Cardinality({1}) = 1
      BY FS_Singleton
    <3>5. object[o].count = Cardinality(Mutations(o))
      BY <1>2, <1>3, <3>1, <3>4
    <3>6. Opened(o)
      BY <1>2, <1>3, <3>1, <3>5 DEF Opened
    <3> QED
      BY <3>3, <3>6
  <2> QED
    BY <1>1, <1>2, <2>1 DEF MountedInv
<1>10. CompactionInv
  <2>1. compaction.pc = "idle" /\ compaction.step = "Begin"
    BY <1>1 DEF Idle
  <2> QED
    BY <1>7, <2>1 DEF CompactionInv
<1> QED
  BY <1>1, <1>5, <1>6, <1>8, <1>9, <1>10 DEF IInv

\* A stuttering step keeps the invariant.
LEMMA StutterKeeps ==
    ASSUME IInv, UNCHANGED vars
    PROVE  IInv'
<1>1. UNCHANGED <<log, durable, copies, mounted, replaying, object, root_parent, checkpoints,
                  journal, commit, compaction, panicked>>
  BY DEF vars
<1>2. TypeOK' /\ LogInv'
  <2>1. TypeOK'
    BY <1>1 DEF IInv, TypeOK
  <2> QED
    BY <1>1, <2>1, MountedFrame DEF IInv
<1>3. (MountedInv => MountedInv') /\ (AtRest => AtRest')
  BY <1>1, MountedFrame DEF AtRest
<1>4. CopiesInv => CopiesInv' /\ (Clean' <=> Clean)
  <2>1. \A x \in SuperBlocks : Keeps(x) => Keeps(x)'
    BY <1>1 DEF Keeps, NotTrimmed
  <2>2. durable' \in Nat /\ durable <= durable' /\ \A i \in 1 .. durable : log'[i] = log[i]
    BY <1>1 DEF IInv, TypeOK
  <2>3. TypeOK
    BY DEF IInv
  <2> QED
    BY <1>1, <2>1, <2>2, <2>3, CopiesFrame
<1>5. Clean' <=> Clean
  BY <1>1 DEF Clean, Current, Other
<1>6. CompactionInv => CompactionInv'
  <2>1. ToFlush' = ToFlush /\ EndOffset' = EndOffset
        /\ FlushedNext(compaction.todo)' = FlushedNext(compaction.todo)
    BY <1>1 DEF ToFlush, EndOffset
  <2> QED
    BY <1>1, <1>5, <2>1, Zenon DEF CompactionInv
<1>7. ReplayInv => ReplayInv'
  <2>1. ASSUME NEW o \in Objects, NEW f, NEW k, Holds(o, f, k), Unopened(o)
        PROVE  Holds(o, f, k)' /\ Unopened(o)'
    BY <1>1, <2>1, Zenon DEF Holds, Unopened
  <2> QED
    BY <1>1, <2>1, Zenon DEF ReplayInv, EndOffset
<1>8. CrashedInv => CrashedInv'
  BY <1>1, Zenon DEF CrashedInv
<1>9. /\ mounted' = mounted /\ replaying' = replaying /\ durable' = durable /\ log' = log
      /\ object' = object /\ checkpoints' = checkpoints
  BY <1>1
<1> QED
  BY <1>2, <1>3, <1>4, <1>5, <1>6, <1>7, <1>8, <1>9 DEF IInv

\* Every step keeps the invariant.
LEMMA NextKeeps ==
    ASSUME IInv, [Next]_vars
    PROVE  IInv'
<1>1. CASE UNCHANGED vars
  BY <1>1, StutterKeeps
<1>2. CASE Next
  BY <1>2, PreCommitKeeps, TrimKeeps, UserKeeps, SyncKeeps, StartKeeps, FlushKeeps, WriteKeeps,
     CrashKeeps, LoadKeeps, ReplayKeeps, MountKeeps, OpenVolumeKeeps DEF Next
<1> QED
  BY <1>1, <1>2

\* The inductive invariant holds in every reachable state.
THEOREM Invariance == Spec => []IInv
<1>1. IInv /\ [Next]_vars => IInv'
  BY NextKeeps
<1> QED
  BY InitHolds, <1>1, PTL DEF Spec

\* The journal, the super-blocks and the objects keep their types.
THEOREM TypeCorrect == Spec => []TypeOK
<1>1. IInv => TypeOK
  BY DEF IInv
<1> QED
  BY Invariance, <1>1, PTL

\* EveryMutationOnce for any objects, any number of transactions and any number
\* of crashes, during a replay too: whatever a crash leaves, a mount finds each
\* of an object's mutations in one place.
THEOREM MutationsSurvive == Spec => []EveryMutationOnce
<1>1. ASSUME IInv PROVE EveryMutationOnce
  <2> SUFFICES ASSUME mounted, NEW o \in Objects
               PROVE  LET obj == IF object[o].opened THEN object[o]
                                 ELSE Open(object[o], o, Contents(object["root"]))
                      IN  /\ Contents(obj) = Mutations(o)
                          /\ obj.layers \cap (obj.sealed \cup obj.mutable) = {}
                          /\ obj.sealed \cap obj.mutable = {}
    BY DEF EveryMutationOnce
  <2>1. TypeOK /\ LogInv /\ MountedInv
    BY <1>1 DEF IInv
  <2>2. CASE object[o].opened
    <3>1. Complete(object[o], o)
      BY <2>1, <2>2, OpenComplete
    <3> QED
      BY <2>2, <3>1, Zenon DEF Complete
  <2>3. CASE ~object[o].opened
    <3>1. Complete(Open(object[o], o, Contents(object["root"])), o)
      BY <2>1, <2>3, WouldBeComplete
    <3> QED
      BY <2>3, <3>1, Zenon DEF Complete
  <2> QED
    BY <2>2, <2>3
<1> QED
  BY Invariance, <1>1, PTL

\* CountsMatch for any objects, any number of transactions and any number of
\* crashes: what a replay adds to what the last flush has recorded is right.
THEOREM CountsSurvive == Spec => []CountsMatch
<1>1. ASSUME IInv PROVE CountsMatch
  BY <1>1, OpenComplete DEF IInv, CountsMatch, Complete
<1> QED
  BY Invariance, <1>1, PTL

\* AlwaysReplayable for any objects, any number of transactions and any number
\* of crashes: the super-block that is chosen after a crash can be replayed from.
THEOREM SuperBlockSuffices == Spec => []AlwaysReplayable
<1>1. ASSUME IInv PROVE AlwaysReplayable
  <2> SUFFICES ASSUME ~mounted PROVE Replayable(Written(Chosen))
    BY DEF AlwaysReplayable
  <2>1. TypeOK /\ durable = Len(log)
    BY <1>1 DEF IInv
  <2>2. CrashedInv
    <3>1. CASE replaying = None
      BY <1>1, <3>1 DEF IInv
    <3>2. CASE replaying # None
      <4>1. CopiesInv /\ Clean
        BY <1>1, <3>2 DEF IInv
      <4>2. PICK cur, nxt, sb, p :
              /\ cur = Current /\ nxt = journal.to_write /\ sb = journal.super_block
              /\ copies[nxt] = {p} /\ p.generation < sb.generation
        BY <4>1 DEF CopiesInv
      <4>3. copies[cur] = {sb} /\ Sound(sb, log, durable)
        BY <4>1, <4>2 DEF CopiesInv, Clean
      <4>4. (cur = "A" /\ nxt = "B") \/ (cur = "B" /\ nxt = "A")
        BY <2>1, <4>2 DEF TypeOK, Current, Other, Copies
      <4> QED
        BY <4>2, <4>3, <4>4 DEF CrashedInv
    <3> QED
      BY <3>1, <3>2
  <2>3. PICK sb : sb = Written(Chosen)
    OBVIOUS
  <2>4. Sound(sb, log, durable)
    BY <2>1, <2>2, <2>3, ChosenIs
  <2>5. sb # Torn
    BY <2>4 DEF Sound, SuperBlocks, Torn
  <2>6. EndOffset >= sb.offset
    BY <2>1, <2>4 DEF Sound, SuperBlocks, EndOffset, TypeOK
  <2>7. \A n \in 1 .. Len(log) : log[n].trim <= sb.checkpoint
    BY <2>4 DEF Sound
  <2> QED
    BY <2>3, <2>5, <2>6, <2>7 DEF Replayable
<1> QED
  BY Invariance, <1>1, PTL
=============================================================================
