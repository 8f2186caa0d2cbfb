------------------------- MODULE LockManagerProofs -------------------------
(***************************************************************************)
(* The lock manager of fxfs, for any number of tasks, keys, programs and   *)
(* polls: the table counts the guards there are, a committing transaction  *)
(* is alone with its keys, no wake-up is lost, and tasks wait in a circle  *)
(* only by way of the late filesystem lock, waits for nested calls and for *)
(* the commit mutex included.                                              *)
(***************************************************************************)
EXTENDS LockManager, FiniteSetTheorems, WellFoundedInduction, TLAPS

\* The tasks that hold key k for reading, and for writing.
Readers(k) == {t \in Tasks : k \in reads[t]}
Writers(k) == {t \in Tasks : k \in writes[t]}

(***************************************************************************)
(* Where a task can be in its program, with what in its guards: R for      *)
(* reading and W for writing.                                              *)
(***************************************************************************)
\* new_transaction without keys, or a cache flush that has its attribute's key.
AtFilesystem(r, R, W) ==
    r.stages = <<ReadStage({Filesystem})>> /\ R = {} /\ W \subseteq TxnKeys

\* new_transaction, with the keys it will ask for next.
BeforeKeys(r, R, W) ==
    \E S \in SUBSET TxnKeys :
      S # {} /\ r.stages = <<ReadStage({Filesystem}), TxnStage(S)>> /\ R = {} /\ W = {}

\* new_transaction, at its keys: what it has got is below what it still wants.
AtKeys(r, R, W) ==
    \E S \in SUBSET TxnKeys :
      /\ S # {} /\ r.stages = <<TxnStage(S)>>
      /\ R = {Filesystem} /\ W \subseteq TxnKeys
      /\ \A j \in W, k \in S : j < k

\* A cache flush, at the attribute's key.
AtAttribute(r, R, W) ==
    \E k \in TxnKeys :
      r.stages = <<TxnStage({k}), ReadStage({Filesystem})>> /\ R = {} /\ W = {}

\* A reader, and a writer that may already wait for the readers to leave.
AtRead(r, R, W) ==
    \E k \in Keys : k # Filesystem /\ r.stages = <<ReadStage({k})>> /\ R = {} /\ W = {}

AtWrite(r, R, W) ==
    \E k \in Keys : /\ k \in Objects \cup {Filesystem}
                    /\ r.stages = <<WriteStage({k})>> /\ R = {}
                    /\ W = IF r.want_write THEN {k} ELSE {}

\* A reader or a writer that has its key.
HasGuard(R, W) ==
    \E k \in Keys : \/ k # Filesystem /\ R = {k} /\ W = {}
                    \/ k \in Objects \cup {Filesystem} /\ R = {} /\ W = {k}

\* A transaction, a reader or a writer inside lock().
LockingShape(r, R, W) ==
    \/ /\ r.txn /\ ~r.want_write
       /\ AtFilesystem(r, R, W) \/ BeforeKeys(r, R, W) \/ AtKeys(r, R, W) \/ AtAttribute(r, R, W)
    \/ ~r.txn /\ ~r.want_write /\ AtRead(r, R, W)
    \/ ~r.txn /\ AtWrite(r, R, W)

\* Program counter, locals and guards agree.
Shape(r, R, W) ==
    /\ r.pc \in {"idle", "locking", "holding", "preparing", "committing", "applying",
               "committed", "dropping"}
    /\ r.pc # "locking" => ~r.want_write
    /\ r.pc \in {"idle", "locking", "holding", "dropping"} => r.upgraded = {}
    /\ r.pc = "idle" => R = {} /\ W = {}
    /\ r.pc = "locking" => LockingShape(r, R, W)
    /\ r.pc = "holding" /\ ~r.txn => HasGuard(R, W)
    /\ r.pc \in {"holding", "preparing", "committing", "applying", "committed"} /\ r.txn
         => R = {Filesystem} /\ W \subseteq TxnKeys
    /\ r.pc \in {"preparing", "committing", "applying", "committed"} => r.txn
    /\ r.pc = "preparing" => r.upgraded \subseteq W /\ r.upgraded # W
    /\ r.pc \in {"committing", "applying", "committed"} => r.upgraded = W

Shapes == \A t \in Tasks : Shape(task[t], reads[t], writes[t])

(***************************************************************************)
(* What an entry says of the tasks R that hold its key for reading and the *)
(* tasks W that hold it for writing.                                       *)
(***************************************************************************)
EntryInv(e, R, W) ==
    IF e = Vacant THEN R = {} /\ W = {}
    ELSE /\ e.read_count = Cardinality(R)
         /\ \A t, u \in W : t = u
         /\ e.state = "ReadLock" => W = {} /\ R # {}
         /\ e.state # "ReadLock" => W # {}
         /\ e.state = "WriteLock" => R = {}

\* Every entry counts the readers there are and has at most one writer.
Table == \A k \in Keys : EntryInv(keys[k], Readers(k), Writers(k))

\* An upgraded lock stays a write lock until it is given back.
Upgraded == \A t \in Tasks : \A k \in task[t].upgraded : keys[k].state = "WriteLock"

(***************************************************************************)
(* Sequence numbers tell entries apart: an entry is younger than every     *)
(* entry the key had before it.                                            *)
(***************************************************************************)
Sequences ==
    /\ \A k \in Keys : keys[k] # Vacant => keys[k].sequence \in 1 .. sequence
    /\ \A t \in Tasks : task[t].waker_sequence <= sequence

\* If the entry is the one the task left its waker in, the slot is the task's.
OwnSlot(t) ==
    Locking(t) /\ keys[Key(t)] # Vacant /\ keys[Key(t)].sequence = task[t].waker_sequence
      => /\ task[t].waker_index \in DOMAIN keys[Key(t)].wakers
         /\ keys[Key(t)].wakers[task[t].waker_index].task = t

OwnSlots == \A t \in Tasks : OwnSlot(t)

\* A task that waits for the readers of k to leave.
AwaitsReaders(t, k) ==
    /\ keys[k] # Vacant /\ keys[k].state = "WantWrite"
    /\ keys[k].waker = CurrentWaker(t) /\ keys[k].read_count > 0

\* A task that waits for the writer of k.
AwaitsWriter(t, k) ==
    /\ keys[k] # Vacant /\ keys[k].state # "ReadLock"
    /\ \E i \in DOMAIN keys[k].wakers : keys[k].wakers[i] = CurrentWaker(t)

\* The lock that commit_prepare is at.
NextUpgrade(t) == First(writes[t] \ task[t].upgraded)

\* A task that nobody has woken has its waker where it will be found.
SleepsWell(t) ==
    ~awake[t] =>
      /\ Locking(t) /\ task[t].want_write => AwaitsReaders(t, Key(t))
      /\ Locking(t) /\ ~task[t].want_write => AwaitsWriter(t, Key(t))
      /\ task[t].pc = "preparing" => AwaitsReaders(t, NextUpgrade(t))

Asleep == \A t \in Tasks : SleepsWell(t)

IInv == TypeOK /\ Shapes /\ Table /\ Upgraded /\ Sequences /\ OwnSlots /\ Asleep

-----------------------------------------------------------------------------
(* Smallest and greatest keys.                                              *)

\* A set of keys without a least or without a greatest element is empty: take
\* the smallest such set and one of its elements away.
LEMMA KeysHaveEnds ==
  ASSUME NEW S \in SUBSET Keys, S # {}
  PROVE  /\ \E k \in S : \A j \in S : k <= j
         /\ \E k \in S : \A j \in S : j <= k
<1> DEFINE Ends(T) == /\ \E k \in T : \A j \in T : k <= j
                      /\ \E k \in T : \A j \in T : j <= k
           Bad == {T \in SUBSET Keys : T # {} /\ ~Ends(T)}
<1>1. SUFFICES Bad = {}
  BY <1>1
<1>2. SUFFICES ASSUME Bad # {} PROVE FALSE
  OBVIOUS
<1>3. IsWellFoundedOn(StrictSubsetOrdering(Keys), SUBSET Keys)
  <2>1. IsFiniteSet(Keys)
    BY KeysAssumption
  <2>2. FiniteSubsetsOf(Keys) = SUBSET Keys
    BY <2>1, FS_FiniteSubsetsOfFinite
  <2>3. QED  BY <2>2, FS_StrictSubsetOrderingWellFounded
<1>4. PICK T \in Bad : \A U \in Bad : ~(<<U, T>> \in StrictSubsetOrdering(Keys))
  <2>1. Bad \subseteq SUBSET Keys
    OBVIOUS
  <2> HIDE DEF Bad
  <2>2. QED  BY <1>2, <1>3, <2>1, WFMin
<1>5. PICK x \in T : TRUE
  OBVIOUS
<1>6. T \ {x} \notin Bad
  BY <1>4, <1>5 DEF StrictSubsetOrdering
<1>7. CASE T \ {x} = {}
  <2>1. T = {x} /\ x \in Nat
    BY <1>5, <1>7, KeysAssumption
  <2>2. QED  BY <2>1
<1>8. CASE T \ {x} # {}
  <2>1. Ends(T \ {x})
    BY <1>6, <1>8
  <2>2. PICK lo \in T \ {x} : \A j \in T \ {x} : lo <= j
    BY <2>1
  <2>3. PICK hi \in T \ {x} : \A j \in T \ {x} : j <= hi
    BY <2>1
  <2>4. T \subseteq Nat
    BY KeysAssumption
  <2>5. \E k \in T : \A j \in T : k <= j
    <3>1. CASE x <= lo  BY <3>1, <1>5, <2>2, <2>4
    <3>2. CASE lo <= x  BY <3>2, <1>5, <2>2, <2>4
    <3>3. QED  BY <3>1, <3>2, <1>5, <2>2, <2>4
  <2>6. \E k \in T : \A j \in T : j <= k
    <3>1. CASE x <= hi  BY <3>1, <1>5, <2>3, <2>4
    <3>2. CASE hi <= x  BY <3>2, <1>5, <2>3, <2>4
    <3>3. QED  BY <3>1, <3>2, <1>5, <2>3, <2>4
  <2>7. QED  BY <2>5, <2>6
<1>9. QED  BY <1>7, <1>8

\* First is the least element.
LEMMA FirstIsLeast ==
  ASSUME NEW S \in SUBSET Keys, S # {}
  PROVE  First(S) \in S /\ \A j \in S : First(S) <= j
BY KeysHaveEnds DEF First

\* A set of one key.
LEMMA FirstOfOne ==
  ASSUME NEW k \in Keys
  PROVE  First({k}) = k
BY FirstIsLeast

-----------------------------------------------------------------------------
(* Programs are lists of at most two calls.                                 *)

\* Heads, tails and joins of lists of one or two calls.
LEMMA Lists ==
  ASSUME NEW x, NEW y
  PROVE  /\ <<x>> # <<>> /\ <<x, y>> # <<>>
         /\ Head(<<x>>) = x /\ Tail(<<x>>) = <<>>
         /\ Head(<<x, y>>) = x /\ Tail(<<x, y>>) = <<y>>
         /\ <<x>> \o <<>> = <<x>>
OBVIOUS

\* The empty list and a list of one call are sequences.
LEMMA ShortSeqs ==
  ASSUME NEW S, NEW x \in S
  PROVE  <<>> \in Seq(S) /\ <<x>> \in Seq(S)
OBVIOUS

\* One key less in a call.
LEMMA WithoutKey ==
  ASSUME NEW S, NEW k, NEW h, h = TxnStage(S)
  PROVE  [h EXCEPT !.lock_keys = @ \ {k}] = TxnStage(S \ {k})
<1>1. h = [target_state |-> "Locked", lock_keys |-> S] /\ h.lock_keys = S
  BY DEF TxnStage
<1>2. [h EXCEPT !.lock_keys = @ \ {k}] = [h EXCEPT !.lock_keys = S \ {k}]
  BY <1>1
<1>3. [h EXCEPT !.lock_keys = S \ {k}] = [target_state |-> "Locked", lock_keys |-> S \ {k}]
  BY <1>1
<1>4. QED  BY <1>2, <1>3 DEF TxnStage

\* The calls that are left after key k of the first one.
Left(stages, k) ==
    IF Head(stages).lock_keys \ {k} = {} THEN Tail(stages)
    ELSE <<[Head(stages) EXCEPT !.lock_keys = @ \ {k}]>> \o Tail(stages)

\* The lists of calls there are.
Short == {<<s>> : s \in Stage} \cup {<<s, u>> : s \in Stage, u \in Stage}

\* The task after it has acquired key k in a poll with waker g.
After(old, g, k) == Acquired([old EXCEPT !.poll = g], k)

\* The locals of lock() are reset for the next key, and nothing else is.
LEMMA NextKeyFields ==
  ASSUME NEW p \in TaskState
  PROVE  /\ NextKey(p) \in TaskState
         /\ NextKey(p).waker_sequence = 0 /\ NextKey(p).want_write = FALSE
         /\ NextKey(p).stages = p.stages /\ NextKey(p).txn = p.txn
         /\ NextKey(p).upgraded = p.upgraded /\ NextKey(p).pc = p.pc
BY DEF TaskState, NextKey

\* The fields of a task that has just acquired a key.
LEMMA AcquiredFields ==
  ASSUME NEW old \in TaskState, NEW g \in 0 .. MaxRepoll, NEW k,
         old.stages \in Short, Left(old.stages, k) \in Seq(Stage)
  PROVE  /\ After(old, g, k) \in TaskState
         /\ After(old, g, k).waker_sequence = 0 /\ After(old, g, k).want_write = FALSE
         /\ After(old, g, k).stages = Left(old.stages, k)
         /\ After(old, g, k).txn = old.txn /\ After(old, g, k).upgraded = old.upgraded
         /\ Left(old.stages, k) = <<>> => After(old, g, k).pc = "holding"
         /\ Left(old.stages, k) # <<>> => After(old, g, k).pc = "locking"
<1> DEFINE next == Left(old.stages, k)
           r == After(old, g, k)
<1> DEFINE q == [old EXCEPT !.poll = g]
           pc == IF next = <<>> THEN "holding" ELSE "locking"
           h == Head(old.stages)
           rest == [h EXCEPT !.lock_keys = @ \ {k}]
<1>1. q \in TaskState /\ q.stages = old.stages /\ q.txn = old.txn
        /\ q.upgraded = old.upgraded
  BY DEF TaskState
<1>2. h \in Stage
  BY Lists DEF Short
<1>3. rest.lock_keys = h.lock_keys \ {k}
  BY <1>2 DEF Stage
<1>4. next = IF rest.lock_keys = {} THEN Tail(old.stages) ELSE <<rest>> \o Tail(old.stages)
  BY <1>3 DEF Left
<1>5. r = NextKey([q EXCEPT !.stages = next, !.pc = pc])
  BY <1>1, <1>4 DEF Acquired, After
<1>6. pc \in {"holding", "locking"} /\ next \in Seq(Stage)
  OBVIOUS
<1> HIDE DEF q, pc, next, r
<1>7. /\ r \in TaskState /\ r.waker_sequence = 0 /\ r.want_write = FALSE
      /\ r.stages = next /\ r.txn = q.txn /\ r.upgraded = q.upgraded /\ r.pc = pc
  <2> DEFINE p == [q EXCEPT !.stages = next, !.pc = pc]
  <2>1. /\ p \in TaskState
        /\ p.stages = next /\ p.txn = q.txn /\ p.upgraded = q.upgraded /\ p.pc = pc
    BY <1>1, <1>6 DEF TaskState
  <2>2. r = NextKey(p)
    BY <1>5
  <2> HIDE DEF p
  <2>3. QED  BY <2>1, <2>2, NextKeyFields
<1>8. QED  BY <1>1, <1>7 DEF pc, next, r

\* The key a task is at, and what of its guards it can meet there.
LEMMA PlaceKey ==
  ASSUME NEW r, NEW R, NEW W, Shape(r, R, W), r.pc = "locking",
         NEW key, key = First(Head(r.stages).lock_keys),
         NEW target, target = Head(r.stages).target_state
  PROVE  /\ key \in Keys /\ target \in TargetState
         /\ key \notin R
         /\ key \in W <=> r.want_write
         /\ r.want_write => target = "WriteLock"
<1>1. LockingShape(r, R, W)
  BY DEF Shape
<1> DEFINE stage == Head(r.stages)
<1> USE DEF TargetState
<1>2. CASE ~r.want_write /\ AtFilesystem(r, R, W)
  <2>1. stage = ReadStage({Filesystem})
    BY <1>2, Lists DEF AtFilesystem
  <2>2. key = Filesystem /\ target = "ReadLock"
    BY <2>1, FirstOfOne DEF ReadStage, Keys
  <2>3. QED  BY <1>2, <2>2, KeysAssumption DEF AtFilesystem, Keys
<1>3. CASE ~r.want_write /\ BeforeKeys(r, R, W)
  <2>1. stage = ReadStage({Filesystem})
    BY <1>3, Lists DEF BeforeKeys
  <2>2. key = Filesystem /\ target = "ReadLock"
    BY <2>1, FirstOfOne DEF ReadStage, Keys
  <2>3. QED  BY <1>3, <2>2 DEF BeforeKeys, Keys
<1>4. CASE ~r.want_write /\ AtKeys(r, R, W)
  <2>1. PICK S \in SUBSET TxnKeys : /\ S # {} /\ r.stages = <<TxnStage(S)>>
                                   /\ \A j \in W, k \in S : j < k
    BY <1>4 DEF AtKeys
  <2>2. key = First(S) /\ target = "Locked"
    BY <2>1, Lists DEF TxnStage
  <2>3. First(S) \in S
    BY <2>1, FirstIsLeast DEF Keys
  <2>4. First(S) \in TxnKeys /\ First(S) \in Nat /\ First(S) # Filesystem
    BY <2>3, KeysAssumption DEF Keys
  <2>5. First(S) \notin W
    BY <2>1, <2>3, <2>4
  <2>6. QED  BY <1>4, <2>2, <2>4, <2>5 DEF AtKeys, Keys
<1>5. CASE ~r.want_write /\ AtAttribute(r, R, W)
  <2>1. PICK k \in TxnKeys : r.stages = <<TxnStage({k}), ReadStage({Filesystem})>>
    BY <1>5 DEF AtAttribute
  <2>2. key = k /\ target = "Locked"
    BY <2>1, Lists, FirstOfOne DEF TxnStage, Keys
  <2>3. QED  BY <1>5, <2>2 DEF AtAttribute, Keys
<1>6. CASE ~r.want_write /\ AtRead(r, R, W)
  <2>1. PICK k \in Keys : r.stages = <<ReadStage({k})>>
    BY <1>6 DEF AtRead
  <2>2. key = k /\ target = "ReadLock"
    BY <2>1, Lists, FirstOfOne DEF ReadStage, Keys
  <2>3. QED  BY <1>6, <2>2 DEF AtRead, Keys
<1>7. CASE AtWrite(r, R, W)
  <2>1. PICK k \in Keys : /\ r.stages = <<WriteStage({k})>> /\ R = {}
                          /\ W = IF r.want_write THEN {k} ELSE {}
    BY <1>7 DEF AtWrite
  <2>2. key = k /\ target = "WriteLock"
    BY <2>1, Lists, FirstOfOne DEF WriteStage
  <2>3. QED  BY <2>1, <2>2
<1>8. QED  BY <1>1, <1>2, <1>3, <1>4, <1>5, <1>6, <1>7 DEF LockingShape

\* The same facts about the key a task of the specification is at.
LEMMA AtKey ==
  ASSUME Shapes, NEW t \in Tasks, Locking(t)
  PROVE  /\ Key(t) \in Keys /\ Target(t) \in TargetState
         /\ Key(t) \notin reads[t]
         /\ Key(t) \in writes[t] <=> task[t].want_write
         /\ task[t].want_write => Target(t) = "WriteLock"
BY PlaceKey DEF Shapes, Locking, Key, Target

\* After a key has been acquired the task is at the next place of its program.
LEMMA AcquireShape ==
  ASSUME NEW old \in TaskState, NEW R0, NEW W0, Shape(old, R0, W0), old.pc = "locking",
         NEW k0, k0 = First(Head(old.stages).lock_keys),
         NEW target, target = Head(old.stages).target_state,
         NEW g \in 0 .. MaxRepoll, NEW r, r = After(old, g, k0),
         NEW R, R = IF target = "ReadLock" THEN R0 \cup {k0} ELSE R0,
         NEW W, W = IF target = "ReadLock" THEN W0 ELSE W0 \cup {k0}
  PROVE  /\ r \in TaskState /\ Shape(r, R, W) /\ r.waker_sequence = 0 /\ ~r.want_write
         /\ r.upgraded = {}
<1> DEFINE next == Left(old.stages, k0)
           Goal == /\ r \in TaskState /\ Shape(r, R, W) /\ r.waker_sequence = 0 /\ ~r.want_write
                   /\ r.upgraded = {}
<1>1. ASSUME next \in Seq(Stage), old.stages \in Short
      PROVE  /\ r \in TaskState /\ r.waker_sequence = 0 /\ ~r.want_write
             /\ r.stages = next /\ r.txn = old.txn /\ r.upgraded = old.upgraded
             /\ r.pc = IF next = <<>> THEN "holding" ELSE "locking"
  BY <1>1, AcquiredFields
<1>2. LockingShape(old, R0, W0) /\ old.upgraded = {}
  BY DEF Shape
<1>3. Filesystem \in Keys /\ TxnKeys \subseteq Keys /\ Filesystem \notin TxnKeys
  BY KeysAssumption DEF Keys
<1>4. /\ \A k \in Keys : ReadStage({k}) \in Stage /\ WriteStage({k}) \in Stage
      /\ \A S \in SUBSET TxnKeys : TxnStage(S) \in Stage
  BY <1>3 DEF ReadStage, WriteStage, TxnStage, Stage, TargetState
<1>5. ASSUME next = <<>>, old.stages \in Short,
             old.txn => R = {Filesystem} /\ W \subseteq TxnKeys,
             ~old.txn => HasGuard(R, W)
      PROVE  Goal
  <2> HIDE DEF next
  <2>1. next \in Seq(Stage)
    BY <1>5
  <2>2. QED  BY <1>1, <1>2, <1>5, <2>1 DEF Shape
<1>6. ASSUME next \in Seq(Stage), next # <<>>, old.stages \in Short, LockingShape(r, R, W)
      PROVE  Goal
  <2> HIDE DEF next
  <2>1. QED  BY <1>1, <1>2, <1>6 DEF Shape
<1>7. CASE old.txn /\ AtFilesystem(old, R0, W0)
  <2>1. old.stages = <<ReadStage({Filesystem})>>
    BY <1>7 DEF AtFilesystem
  <2>2. Head(old.stages) = ReadStage({Filesystem}) /\ Tail(old.stages) = <<>>
    BY <2>1, Lists
  <2>3. k0 = Filesystem /\ target = "ReadLock"
    BY <1>3, <2>2, FirstOfOne DEF ReadStage
  <2>4. next = <<>>
    BY <2>2, <2>3 DEF ReadStage, Left
  <2>5. old.stages \in Short
    BY <1>3, <1>4, <2>1 DEF Short
  <2>6. QED  BY <1>5, <1>7, <2>3, <2>4, <2>5 DEF AtFilesystem
<1>8. CASE old.txn /\ BeforeKeys(old, R0, W0)
  <2>1. PICK S \in SUBSET TxnKeys :
               S # {} /\ old.stages = <<ReadStage({Filesystem}), TxnStage(S)>>
    BY <1>8 DEF BeforeKeys
  <2>2. Head(old.stages) = ReadStage({Filesystem}) /\ Tail(old.stages) = <<TxnStage(S)>>
    BY <2>1, Lists
  <2>3. k0 = Filesystem /\ target = "ReadLock"
    BY <1>3, <2>2, FirstOfOne DEF ReadStage
  <2>4. next = <<TxnStage(S)>>
    BY <2>2, <2>3 DEF ReadStage, Left
  <2>5. next \in Seq(Stage) /\ next # <<>>
    BY <1>4, <2>4, Lists, ShortSeqs
  <2>6. old.stages \in Short
    BY <1>3, <1>4, <2>1 DEF Short
  <2>7. r.txn /\ r.stages = <<TxnStage(S)>> /\ ~r.want_write
    BY <1>1, <1>8, <2>4, <2>5, <2>6
  <2>8. R = {Filesystem} /\ W = {}
    BY <1>8, <2>3 DEF BeforeKeys
  <2>9. AtKeys(r, R, W)
    BY <2>1, <2>7, <2>8 DEF AtKeys
  <2>10. QED  BY <1>6, <2>5, <2>6, <2>7, <2>9 DEF LockingShape
<1>9. CASE old.txn /\ AtKeys(old, R0, W0)
  <2>1. PICK S \in SUBSET TxnKeys : /\ S # {} /\ old.stages = <<TxnStage(S)>>
                                   /\ \A j \in W0, k \in S : j < k
    BY <1>9 DEF AtKeys
  <2>2. Head(old.stages) = TxnStage(S) /\ Tail(old.stages) = <<>>
    BY <2>1, Lists
  <2>3. k0 = First(S) /\ target = "Locked" /\ Head(old.stages).lock_keys = S
    BY <2>2 DEF TxnStage
  <2>4. k0 \in S /\ \A j \in S : k0 <= j
    BY <2>1, <2>3, <1>3, FirstIsLeast
  <2>5. R = {Filesystem} /\ W = W0 \cup {k0} /\ W0 \subseteq TxnKeys
    BY <1>9, <2>3 DEF AtKeys
  <2>6. old.stages \in Short
    BY <1>4, <2>1 DEF Short
  <2>7. CASE S = {k0}
    <3>1. next = <<>>
      BY <2>2, <2>3, <2>7 DEF Left
    <3>2. QED  BY <1>5, <1>9, <2>4, <2>5, <2>6, <3>1
  <2>8. CASE S # {k0}
    <3>1. next = <<TxnStage(S \ {k0})>>
      <4>1. S \ {k0} # {}
        BY <2>8, <2>1, <2>4
      <4>2. [Head(old.stages) EXCEPT !.lock_keys = @ \ {k0}] = TxnStage(S \ {k0})
        BY <2>2, WithoutKey
      <4>3. next = <<TxnStage(S \ {k0})>> \o <<>>
        BY <2>2, <2>3, <4>1, <4>2 DEF Left
      <4>4. QED  BY <4>3, Lists
    <3>2. next \in Seq(Stage) /\ next # <<>>
      BY <1>4, <3>1, Lists, ShortSeqs
    <3>3. r.txn /\ r.stages = <<TxnStage(S \ {k0})>> /\ ~r.want_write
      BY <1>1, <1>9, <2>6, <3>1, <3>2
    <3>4. \A j \in W, k \in S \ {k0} : j < k
      <4>1. S \subseteq Nat
        BY KeysAssumption, <1>3
      <4>2. \A k \in S \ {k0} : k0 < k
        BY <2>4, <4>1
      <4>3. QED  BY <2>1, <2>5, <4>2
    <3>5. S \ {k0} # {} /\ W \subseteq TxnKeys
      BY <2>8, <2>1, <2>4, <2>5
    <3>6. AtKeys(r, R, W)
      BY <2>5, <3>3, <3>4, <3>5 DEF AtKeys
    <3>7. QED  BY <1>6, <2>6, <3>2, <3>3, <3>6 DEF LockingShape
  <2>9. QED  BY <2>7, <2>8
<1>10. CASE old.txn /\ AtAttribute(old, R0, W0)
  <2>1. PICK k \in TxnKeys : old.stages = <<TxnStage({k}), ReadStage({Filesystem})>>
    BY <1>10 DEF AtAttribute
  <2>2. Head(old.stages) = TxnStage({k}) /\ Tail(old.stages) = <<ReadStage({Filesystem})>>
    BY <2>1, Lists
  <2>3. k0 = k /\ target = "Locked"
    BY <1>3, <2>2, FirstOfOne DEF TxnStage
  <2>4. next = <<ReadStage({Filesystem})>>
    BY <2>2, <2>3 DEF TxnStage, Left
  <2>5. next \in Seq(Stage) /\ next # <<>>
    BY <1>3, <1>4, <2>4, Lists, ShortSeqs
  <2>6. old.stages \in Short
    BY <1>3, <1>4, <2>1 DEF Short
  <2>7. r.txn /\ r.stages = <<ReadStage({Filesystem})>> /\ ~r.want_write
    BY <1>1, <1>10, <2>4, <2>5, <2>6
  <2>8. R = {} /\ W = {k}
    BY <1>10, <2>3 DEF AtAttribute
  <2>9. AtFilesystem(r, R, W)
    BY <2>7, <2>8 DEF AtFilesystem
  <2>10. QED  BY <1>6, <2>5, <2>6, <2>7, <2>9 DEF LockingShape
<1>11. CASE ~old.txn /\ AtRead(old, R0, W0)
  <2>1. PICK k \in Keys : k # Filesystem /\ old.stages = <<ReadStage({k})>>
    BY <1>11 DEF AtRead
  <2>2. Head(old.stages) = ReadStage({k}) /\ Tail(old.stages) = <<>>
    BY <2>1, Lists
  <2>3. k0 = k /\ target = "ReadLock"
    BY <2>2, FirstOfOne DEF ReadStage
  <2>4. next = <<>>
    BY <2>2, <2>3 DEF ReadStage, Left
  <2>5. old.stages \in Short
    BY <1>4, <2>1 DEF Short
  <2>6. R = {k} /\ W = {}
    BY <1>11, <2>3 DEF AtRead
  <2>7. QED  BY <1>5, <1>11, <2>1, <2>4, <2>5, <2>6 DEF HasGuard
<1>12. CASE ~old.txn /\ AtWrite(old, R0, W0)
  <2>1. PICK k \in Keys : /\ k \in Objects \cup {Filesystem} /\ old.stages = <<WriteStage({k})>>
                         /\ R0 = {} /\ W0 \subseteq {k}
    BY <1>12 DEF AtWrite
  <2>2. Head(old.stages) = WriteStage({k}) /\ Tail(old.stages) = <<>>
    BY <2>1, Lists
  <2>3. k0 = k /\ target = "WriteLock"
    BY <2>2, FirstOfOne DEF WriteStage
  <2>4. next = <<>>
    BY <2>2, <2>3 DEF WriteStage, Left
  <2>5. old.stages \in Short
    BY <1>4, <2>1 DEF Short
  <2>6. R = {} /\ W = {k}
    BY <2>1, <2>3
  <2>7. QED  BY <1>5, <1>12, <2>1, <2>4, <2>5, <2>6 DEF HasGuard
<1>13. QED
  BY <1>2, <1>7, <1>8, <1>9, <1>10, <1>11, <1>12 DEF LockingShape

\* The same, for the places of a task.
KeyOf(r) == First(Head(r.stages).lock_keys)
TargetOf(r) == Head(r.stages).target_state
ReadsAfter(r, R) == IF TargetOf(r) = "ReadLock" THEN R \cup {KeyOf(r)} ELSE R
WritesAfter(r, W) == IF TargetOf(r) = "ReadLock" THEN W ELSE W \cup {KeyOf(r)}

\* A task that has acquired its key is again at a place of its program.
LEMMA AfterShape ==
  ASSUME NEW old \in TaskState, NEW R0, NEW W0, Shape(old, R0, W0), old.pc = "locking",
         NEW g \in 0 .. MaxRepoll
  PROVE  /\ After(old, g, KeyOf(old)) \in TaskState
         /\ Shape(After(old, g, KeyOf(old)), ReadsAfter(old, R0), WritesAfter(old, W0))
         /\ After(old, g, KeyOf(old)).waker_sequence = 0
         /\ After(old, g, KeyOf(old)).upgraded = {}
BY AcquireShape DEF KeyOf, TargetOf, ReadsAfter, WritesAfter

\* What is left of its program, and where it is then.
LEMMA AfterPlace ==
  ASSUME NEW old \in TaskState, NEW R0, NEW W0, Shape(old, R0, W0), old.pc = "locking",
         NEW g \in 0 .. MaxRepoll, NEW k
  PROVE  /\ After(old, g, k).txn = old.txn
         /\ After(old, g, k).stages = Left(old.stages, k)
         /\ Left(old.stages, k) = <<>> => After(old, g, k).pc = "holding"
         /\ Left(old.stages, k) # <<>> => After(old, g, k).pc = "locking"
<1>1. LockingShape(old, R0, W0)
  BY DEF Shape
<1>2. Filesystem \in Keys /\ TxnKeys \subseteq Keys
  BY DEF Keys
<1>3. /\ \A j \in Keys : ReadStage({j}) \in Stage /\ WriteStage({j}) \in Stage
      /\ \A S \in SUBSET TxnKeys : TxnStage(S) \in Stage
  BY <1>2 DEF ReadStage, WriteStage, TxnStage, Stage, TargetState
<1>4. old.stages \in Short
  <2>1. CASE AtFilesystem(old, R0, W0)
    BY <1>2, <1>3, <2>1 DEF AtFilesystem, Short
  <2>2. CASE BeforeKeys(old, R0, W0)
    BY <1>2, <1>3, <2>2 DEF BeforeKeys, Short
  <2>3. CASE AtKeys(old, R0, W0)
    BY <1>2, <1>3, <2>3 DEF AtKeys, Short
  <2>4. CASE AtAttribute(old, R0, W0)
    BY <1>2, <1>3, <2>4 DEF AtAttribute, Short
  <2>5. CASE AtRead(old, R0, W0) \/ AtWrite(old, R0, W0)
    <3>1. PICK j \in Keys : old.stages = <<ReadStage({j})>> \/ old.stages = <<WriteStage({j})>>
      BY <2>5 DEF AtRead, AtWrite
    <3>2. QED  BY <1>3, <3>1 DEF Short
  <2>6. QED  BY <1>1, <2>1, <2>2, <2>3, <2>4, <2>5 DEF LockingShape
<1>5. Left(old.stages, k) \in Seq(Stage)
  <2>1. PICK s \in Stage : /\ Head(old.stages) = s
                           /\ Tail(old.stages) = <<>> \/ \E u \in Stage : Tail(old.stages) = <<u>>
    <3>1. CASE \E s \in Stage : old.stages = <<s>>
      BY <3>1, Lists
    <3>2. CASE \E s \in Stage, u \in Stage : old.stages = <<s, u>>
      <4>1. PICK s \in Stage, u \in Stage : old.stages = <<s, u>>
        BY <3>2
      <4>2. Head(old.stages) = s /\ Tail(old.stages) = <<u>>
        BY <4>1, Lists
      <4>3. QED  BY <4>2
    <3>3. QED  BY <1>4, <3>1, <3>2 DEF Short
  <2>2. PICK rest : rest = [s EXCEPT !.lock_keys = @ \ {k}]
    OBVIOUS
  <2>3. rest \in Stage
    BY <2>2 DEF Stage
  <2>4. Tail(old.stages) \in Seq(Stage)
    BY <2>1, ShortSeqs
  <2>5. <<rest>> \in Seq(Stage)
    BY <2>3, ShortSeqs
  <2>6. <<rest>> \o Tail(old.stages) \in Seq(Stage)
    BY <2>4, <2>5
  <2>7. QED  BY <2>1, <2>2, <2>4, <2>6 DEF Left
<1>6. QED  BY <1>4, <1>5, AcquiredFields

\* PlaceKey with the key and the target written out.
LEMMA PlaceKeyOf ==
  ASSUME NEW r, NEW R, NEW W, Shape(r, R, W), r.pc = "locking"
  PROVE  /\ KeyOf(r) \in Keys /\ TargetOf(r) \in TargetState
         /\ KeyOf(r) \notin R
         /\ KeyOf(r) \in W <=> r.want_write
         /\ r.want_write => TargetOf(r) = "WriteLock"
BY PlaceKey DEF KeyOf, TargetOf

-----------------------------------------------------------------------------
(* One step of task t.                                                      *)

\* Everybody else stays where it is.
OthersStay(t) ==
    \A u \in Tasks \ {t} :
      task'[u] = task[u] /\ reads'[u] = reads[u] /\ writes'[u] = writes[u]

\* Nor is it put to sleep, and its locks stay in the state they are in.
OthersUnmoved(t) ==
    /\ OthersStay(t)
    /\ \A u \in Tasks \ {t} :
         /\ awake[u] => awake'[u]
         /\ \A k \in writes[u] : keys'[k].state = keys[k].state

\* A poll by task t turns entry e into f without a change for the tasks that
\* wait for the key; mine says that t has, or gets, the key for writing.
Undisturbed(t, e, f, mine) ==
    e # Vacant =>
      /\ f # Vacant /\ f.sequence = e.sequence
      /\ e.state # "ReadLock" => f.state # "ReadLock"
      /\ \A i \in DOMAIN e.wakers :
           e.wakers[i].task # t => i \in DOMAIN f.wakers /\ f.wakers[i] = e.wakers[i]
      /\ mine \/ e.state = "ReadLock"
           \/ (f.state = e.state /\ f.waker = e.waker /\ f.read_count >= e.read_count)

\* Upgraded, for one task.
UpgradedBy(t) == \A k \in task[t].upgraded : keys[k].state = "WriteLock"

\* A task that wants a key for writing has it among its writes.
LEMMA NextUpgradeIsMine ==
  ASSUME TypeOK, Shapes, NEW t \in Tasks, task[t].pc = "preparing"
  PROVE  NextUpgrade(t) \in writes[t] /\ NextUpgrade(t) \in Keys
           /\ NextUpgrade(t) \notin task[t].upgraded
<1>1. writes[t] \subseteq Keys
  BY DEF TypeOK
<1>2. writes[t] \ task[t].upgraded # {}
  BY DEF Shapes, Shape
<1>3. NextUpgrade(t) \in writes[t] \ task[t].upgraded
  BY <1>1, <1>2, FirstIsLeast DEF NextUpgrade
<1>4. QED  BY <1>1, <1>3

\* commit_prepare upgrades locks of the transaction only.
LEMMA UpgradedAreWrites ==
  ASSUME TypeOK, Shapes, NEW t \in Tasks
  PROVE  task[t].upgraded \subseteq writes[t] /\ writes[t] \subseteq Keys
BY DEF TypeOK, Shapes, Shape

\* A poll touches one entry and one task.
LEMMA KeyStep ==
  ASSUME IInv, TypeOK', NEW t \in Tasks, NEW k \in Keys, OthersStay(t),
         \A u \in Tasks \ {t} : awake'[u] = awake[u],
         \A j \in Keys \ {k} : keys'[j] = keys[j],
         \A j \in Keys \ {k} : (j \in reads'[t] <=> j \in reads[t])
                                 /\ (j \in writes'[t] <=> j \in writes[t]),
         Shape(task'[t], reads'[t], writes'[t]),
         EntryInv(keys'[k], Readers(k)', Writers(k)'),
         Undisturbed(t, keys[k], keys'[k], k \in writes'[t]),
         UpgradedBy(t)',
         sequence' >= sequence,
         keys'[k] # Vacant => keys'[k].sequence \in 1 .. sequence',
         keys[k] = Vacant /\ keys'[k] # Vacant => keys'[k].sequence > sequence,
         task'[t].waker_sequence <= sequence',
         OwnSlot(t)', SleepsWell(t)'
  PROVE  IInv'
<1> USE DEF IInv
<1>1. Shapes'
  BY DEF Shapes, OthersStay
<1>2. Table'
  <2> SUFFICES ASSUME NEW j \in Keys PROVE EntryInv(keys'[j], Readers(j)', Writers(j)')
    BY DEF Table
  <2>1. CASE j = k
    BY <2>1
  <2>2. CASE j # k
    <3>1. Readers(j)' = Readers(j) /\ Writers(j)' = Writers(j)
      BY <2>2 DEF Readers, Writers, OthersStay
    <3>2. QED  BY <2>2, <3>1 DEF Table
  <2>3. QED  BY <2>1, <2>2
<1>3. ASSUME NEW u \in Tasks \ {t}, k \in writes[u]
      PROVE  /\ keys[k] # Vacant /\ keys[k].state # "ReadLock" /\ k \notin writes'[t]
             /\ keys'[k].state = keys[k].state /\ keys'[k].waker = keys[k].waker
             /\ keys'[k].read_count >= keys[k].read_count
  <2>1. u \in Writers(k) /\ u \in Writers(k)'
    BY <1>3 DEF Writers, OthersStay
  <2>2. keys[k] # Vacant /\ keys[k].state # "ReadLock"
    BY <2>1 DEF Table, EntryInv
  <2>3. keys'[k] # Vacant
    BY <2>2 DEF Undisturbed
  <2>4. t \notin Writers(k)'
    BY <1>3, <2>1, <2>3 DEF EntryInv
  <2>5. k \notin writes'[t]
    BY <2>4 DEF Writers
  <2>6. QED  BY <2>2, <2>5 DEF Undisturbed
<1>4. Upgraded'
  <2> SUFFICES ASSUME NEW u \in Tasks, NEW j \in task'[u].upgraded
               PROVE  keys'[j].state = "WriteLock"
    BY DEF Upgraded
  <2>1. CASE u = t
    BY <2>1 DEF UpgradedBy
  <2>2. CASE u # t
    <3>1. j \in task[u].upgraded
      BY <2>2 DEF OthersStay
    <3>2. j \in writes[u] /\ j \in Keys /\ keys[j].state = "WriteLock"
      BY <3>1, UpgradedAreWrites DEF Upgraded
    <3>3. QED  BY <1>3, <2>2, <3>2
  <2>3. QED  BY <2>1, <2>2
<1>5. Sequences'
  <2>1. sequence \in Nat /\ sequence' \in Nat
    BY DEF TypeOK
  <2>2. \A j \in Keys : keys'[j] # Vacant => keys'[j].sequence \in 1 .. sequence'
    BY <2>1 DEF Sequences
  <2>3. \A u \in Tasks : task'[u].waker_sequence <= sequence'
    <3> TAKE u \in Tasks
    <3>1. CASE u = t  BY <3>1
    <3>2. CASE u # t
      <4>1. task[u].waker_sequence <= sequence /\ task[u].waker_sequence \in Nat
        BY DEF Sequences, TypeOK, TaskState
      <4>2. task'[u] = task[u]
        BY <3>2 DEF OthersStay
      <4>3. QED  BY <2>1, <4>1, <4>2
    <3>3. QED  BY <3>1, <3>2
  <2>4. QED  BY <2>2, <2>3 DEF Sequences
<1>6. ASSUME NEW u \in Tasks \ {t}, Locking(u)
      PROVE  /\ Locking(u)' /\ Key(u)' = Key(u) /\ Key(u) \in Keys
             /\ CurrentWaker(u)' = CurrentWaker(u)
  <2>1. task'[u] = task[u]
    BY DEF OthersStay
  <2>2. Key(u) \in Keys
    BY <1>6, AtKey
  <2>3. QED  BY <1>6, <2>1, <2>2 DEF Locking, Key, CurrentWaker
<1>7. OwnSlots'
  <2> SUFFICES ASSUME NEW u \in Tasks, u # t PROVE OwnSlot(u)'
    BY DEF OwnSlots
  <2>1. task'[u] = task[u]
    BY DEF OthersStay
  <2> SUFFICES ASSUME Locking(u)', keys'[Key(u)'] # Vacant,
                      keys'[Key(u)'].sequence = task[u].waker_sequence
               PROVE  /\ task[u].waker_index \in DOMAIN keys'[Key(u)'].wakers
                      /\ keys'[Key(u)'].wakers[task[u].waker_index].task = u
    BY <2>1 DEF OwnSlot
  <2>2. Locking(u)
    BY <2>1 DEF Locking
  <2>3. Key(u)' = Key(u) /\ Key(u) \in Keys
    BY <1>6, <2>2
  <2>4. OwnSlot(u)
    BY DEF OwnSlots
  <2>5. CASE Key(u) # k
    BY <2>2, <2>3, <2>4, <2>5 DEF OwnSlot
  <2>6. CASE Key(u) = k /\ keys[k] = Vacant
    <3>1. keys'[k].sequence > sequence /\ task[u].waker_sequence <= sequence
      BY <2>3, <2>6 DEF Sequences
    <3>2. keys'[k].sequence = task[u].waker_sequence /\ task[u].waker_sequence \in Nat
            /\ sequence \in Nat
      BY <2>3, <2>6 DEF TypeOK, TaskState
    <3>3. QED  BY <3>1, <3>2
  <2>7. CASE Key(u) = k /\ keys[k] # Vacant
    <3>1. keys'[k].sequence = keys[k].sequence
      BY <2>7 DEF Undisturbed
    <3>2. /\ task[u].waker_index \in DOMAIN keys[k].wakers
          /\ keys[k].wakers[task[u].waker_index].task = u
      BY <2>2, <2>3, <2>4, <2>7, <3>1 DEF OwnSlot
    <3>3. QED  BY <2>3, <2>7, <3>2 DEF Undisturbed
  <2>8. QED  BY <2>3, <2>5, <2>6, <2>7
<1>8. Asleep'
  <2> SUFFICES ASSUME NEW u \in Tasks, u # t, ~awake[u] PROVE SleepsWell(u)'
    BY DEF Asleep, SleepsWell
  <2>1. task'[u] = task[u] /\ writes'[u] = writes[u] /\ CurrentWaker(u)' = CurrentWaker(u)
    BY DEF OthersStay, CurrentWaker
  <2>2. SleepsWell(u)
    BY DEF Asleep
  <2>3. ASSUME NEW j \in Keys, j \in writes[u], AwaitsReaders(u, j)
        PROVE  AwaitsReaders(u, j)'
    <3>1. CASE j # k
      BY <2>1, <2>3, <3>1 DEF AwaitsReaders
    <3>2. CASE j = k
      <4>1. keys'[k] # Vacant
        BY <1>3, <2>3, <3>2 DEF Undisturbed
      <4>2. keys'[k].read_count > 0
        <5>1. keys[k] \in LockEntry /\ keys'[k] \in LockEntry
          BY <4>1, <2>3, <3>2 DEF TypeOK, AwaitsReaders
        <5>2. QED  BY <1>3, <2>3, <3>2, <5>1 DEF AwaitsReaders, LockEntry
      <4>3. QED  BY <1>3, <2>1, <2>3, <3>2, <4>1, <4>2 DEF AwaitsReaders
    <3>3. QED  BY <3>1, <3>2
  <2>4. ASSUME NEW j \in Keys, AwaitsWriter(u, j)
        PROVE  AwaitsWriter(u, j)'
    <3>1. CASE j # k
      BY <2>1, <2>4, <3>1 DEF AwaitsWriter
    <3>2. CASE j = k
      <4>1. keys[k] # Vacant /\ keys[k].state # "ReadLock"
        BY <2>4, <3>2 DEF AwaitsWriter
      <4>2. PICK i \in DOMAIN keys[k].wakers : keys[k].wakers[i] = CurrentWaker(u)
        BY <2>4, <3>2 DEF AwaitsWriter
      <4>3. keys[k].wakers[i].task # t
        BY <4>2 DEF CurrentWaker
      <4>4. QED  BY <2>1, <3>2, <4>1, <4>2, <4>3 DEF AwaitsWriter, Undisturbed
    <3>3. QED  BY <3>1, <3>2
  <2>5. ASSUME Locking(u)', task'[u].want_write PROVE AwaitsReaders(u, Key(u))'
    <3>1. Locking(u) /\ task[u].want_write
      BY <2>1, <2>5 DEF Locking
    <3>2. Key(u) \in writes[u] /\ Key(u) \in Keys
      BY <3>1, AtKey
    <3>3. AwaitsReaders(u, Key(u))
      BY <2>2, <3>1 DEF SleepsWell
    <3>4. Key(u)' = Key(u)
      BY <1>6, <3>1
    <3>5. QED  BY <2>3, <3>2, <3>3, <3>4 DEF AwaitsReaders
  <2>6. ASSUME Locking(u)', ~task'[u].want_write PROVE AwaitsWriter(u, Key(u))'
    <3>1. Locking(u) /\ ~task[u].want_write
      BY <2>1, <2>6 DEF Locking
    <3>2. AwaitsWriter(u, Key(u)) /\ Key(u) \in Keys
      BY <2>2, <3>1, AtKey DEF SleepsWell
    <3>3. Key(u)' = Key(u)
      BY <1>6, <3>1
    <3>4. QED  BY <2>4, <3>2, <3>3 DEF AwaitsWriter
  <2>7. ASSUME task'[u].pc = "preparing" PROVE AwaitsReaders(u, NextUpgrade(u))'
    <3>1. task[u].pc = "preparing"
      BY <2>1, <2>7
    <3>2. NextUpgrade(u) \in writes[u] /\ NextUpgrade(u) \in Keys
      BY <3>1, NextUpgradeIsMine
    <3>3. AwaitsReaders(u, NextUpgrade(u))
      BY <2>2, <3>1 DEF SleepsWell
    <3>4. NextUpgrade(u)' = NextUpgrade(u)
      BY <2>1 DEF NextUpgrade
    <3>5. QED  BY <2>3, <3>2, <3>3, <3>4 DEF AwaitsReaders
  <2>8. QED  BY <2>5, <2>6, <2>7 DEF SleepsWell
<1>9. QED  BY <1>1, <1>2, <1>4, <1>5, <1>7, <1>8

-----------------------------------------------------------------------------
(* The steps that leave the table alone.                                    *)

\* A step that leaves the table alone and does not put its task to sleep keeps
\* the invariant.
LEMMA QuietStep ==
  ASSUME IInv, TypeOK', NEW t \in Tasks, OthersStay(t),
         \A u \in Tasks \ {t} : awake'[u] = awake[u],
         UNCHANGED <<keys, sequence, reads, writes>>,
         Shape(task'[t], reads[t], writes[t]),
         \A j \in task'[t].upgraded : keys[j].state = "WriteLock",
         task'[t].waker_sequence <= sequence,
         task'[t].pc = "locking" => task'[t].waker_sequence = 0,
         awake'[t] \/ task'[t].pc \notin {"locking", "preparing"}
  PROVE  IInv'
<1> DEFINE k == Filesystem
<1>1. k \in Keys
  BY DEF Keys
<1>2. EntryInv(keys'[k], Readers(k)', Writers(k)')
  BY <1>1 DEF IInv, Table, Readers, Writers
<1>3. Undisturbed(t, keys[k], keys'[k], k \in writes'[t])
  <2>1. keys[k] \in LockEntry \cup {Vacant}
    BY <1>1 DEF IInv, TypeOK
  <2>2. keys[k] # Vacant => keys[k].read_count \in Nat
    BY <2>1 DEF LockEntry
  <2>3. QED  BY <2>2 DEF Undisturbed
<1>4. UpgradedBy(t)'
  BY DEF UpgradedBy
<1>5. OwnSlot(t)'
  <2> SUFFICES ASSUME task'[t].pc = "locking", keys[Key(t)'] # Vacant
               PROVE  keys[Key(t)'].sequence # 0
    BY DEF OwnSlot, Locking
  <2>1. Key(t)' \in Keys
    BY PlaceKey DEF Key
  <2>2. QED  BY <2>1 DEF IInv, Sequences
<1>6. SleepsWell(t)'
  BY DEF SleepsWell, Locking
<1>7. sequence' >= sequence /\ task'[t].waker_sequence <= sequence'
        /\ (keys'[k] # Vacant => keys'[k].sequence \in 1 .. sequence')
  BY <1>1 DEF IInv, Sequences, TypeOK
<1>8. QED
  <2> HIDE DEF k
  <2>1. QED  BY <1>1, <1>2, <1>3, <1>4, <1>5, <1>6, <1>7, KeyStep

\* The programs there are, nested ones included.
TxnPrograms ==
    {NewTransaction(S) : S \in SUBSET TxnKeys} \cup {TransactionWithLocks(k) : k \in TxnKeys}
GuardPrograms ==
    {<<ReadStage({k})>> : k \in Keys \ {Filesystem}}
      \cup {<<WriteStage({k})>> : k \in Objects \cup {Filesystem}}

\* Starting a program keeps the invariant.
LEMMA StartStep ==
  ASSUME IInv, NEW t \in Tasks, NEW txn \in BOOLEAN,
         NEW stages \in IF txn THEN TxnPrograms ELSE GuardPrograms,
         Start(t, txn, stages), caller' \in [Tasks -> Tasks \cup {NoTask}]
  PROVE  IInv'
<1>1. task' = [task EXCEPT ![t] = [Idle EXCEPT !.pc = "locking", !.stages = stages, !.txn = txn]]
  BY DEF Start
<1> DEFINE r == [Idle EXCEPT !.pc = "locking", !.stages = stages, !.txn = txn]
<1>2. /\ r.pc = "locking" /\ r.stages = stages /\ r.txn = txn /\ r.upgraded = {}
      /\ r.want_write = FALSE /\ r.waker_sequence = 0
      /\ stages \in Seq(Stage) => r \in TaskState
  <2>1. Idle \in TaskState /\ Idle.upgraded = {} /\ Idle.want_write = FALSE
          /\ Idle.waker_sequence = 0
    BY BoundsAssumption DEF TaskState, Idle
  <2>2. r.pc = "locking" /\ r.stages = stages /\ r.txn = txn
    BY <2>1 DEF TaskState
  <2>3. r.upgraded = {} /\ r.want_write = FALSE /\ r.waker_sequence = 0
    BY <2>1 DEF TaskState
  <2>4. stages \in Seq(Stage) => r \in TaskState
    BY <2>1 DEF TaskState
  <2>5. QED  BY <2>2, <2>3, <2>4
<1>3. task' = [task EXCEPT ![t] = r]
  BY <1>1
<1> HIDE DEF r
<1>4. task'[t] = r /\ OthersStay(t)
  BY <1>3 DEF Start, OthersStay, IInv, TypeOK
<1>5. Filesystem \in Keys /\ TxnKeys \subseteq Keys /\ Objects \subseteq Keys
  BY DEF Keys, TxnKeys
<1>6. /\ \A j \in Keys : ReadStage({j}) \in Stage /\ WriteStage({j}) \in Stage
      /\ \A S \in SUBSET TxnKeys : TxnStage(S) \in Stage
  BY <1>5 DEF ReadStage, WriteStage, TxnStage, Stage, TargetState
<1>7. stages \in Seq(Stage) /\ LockingShape(r, {}, {})
  <2>1. CASE txn
    <3>1. stages \in TxnPrograms
      BY <2>1
    <3>2. CASE \E S \in SUBSET TxnKeys : stages = NewTransaction(S)
      <4>1. PICK S \in SUBSET TxnKeys : stages = NewTransaction(S)
        BY <3>2
      <4>2. S \in SUBSET TxnKeys
        OBVIOUS
      <4>3. CASE S = {}
        <5>1. stages = <<ReadStage({Filesystem})>>
          BY <4>1, <4>3 DEF NewTransaction
        <5>2. AtFilesystem(r, {}, {})
          BY <1>2, <5>1 DEF AtFilesystem
        <5>3. QED  BY <1>2, <1>5, <1>6, <2>1, <5>1, <5>2 DEF LockingShape
      <4>4. CASE S # {}
        <5>1. stages = <<ReadStage({Filesystem}), TxnStage(S)>>
          BY <4>1, <4>4 DEF NewTransaction
        <5>2. BeforeKeys(r, {}, {})
          BY <1>2, <4>2, <4>4, <5>1 DEF BeforeKeys
        <5>3. QED  BY <1>2, <1>5, <1>6, <2>1, <4>2, <5>1, <5>2 DEF LockingShape
      <4>5. QED  BY <4>3, <4>4
    <3>3. CASE \E j \in TxnKeys : stages = TransactionWithLocks(j)
      <4>1. PICK j \in TxnKeys : stages = <<TxnStage({j}), ReadStage({Filesystem})>>
        BY <3>3 DEF TransactionWithLocks
      <4>2. AtAttribute(r, {}, {})
        BY <1>2, <4>1 DEF AtAttribute
      <4>3. QED  BY <1>2, <1>5, <1>6, <2>1, <4>1, <4>2 DEF LockingShape
    <3>4. QED  BY <3>1, <3>2, <3>3 DEF TxnPrograms
  <2>2. CASE ~txn
    <3>1. stages \in GuardPrograms
      BY <2>2
    <3>2. CASE \E j \in Keys \ {Filesystem} : stages = <<ReadStage({j})>>
      <4>1. AtRead(r, {}, {})
        BY <1>2, <3>2 DEF AtRead
      <4>2. QED  BY <1>2, <1>5, <1>6, <2>2, <3>2, <4>1 DEF LockingShape
    <3>3. CASE \E j \in Objects \cup {Filesystem} : stages = <<WriteStage({j})>>
      <4>1. AtWrite(r, {}, {})
        BY <1>2, <1>5, <3>3 DEF AtWrite
      <4>2. QED  BY <1>2, <1>5, <1>6, <2>2, <3>3, <4>1 DEF LockingShape
    <3>4. QED  BY <3>1, <3>2, <3>3 DEF GuardPrograms
  <2>3. QED  BY <2>1, <2>2
<1>8. reads[t] = {} /\ writes[t] = {}
  BY DEF IInv, Shapes, Shape, Start
<1>9. Shape(r, reads[t], writes[t])
  <2>1. Shape(r, {}, {})
    BY <1>2, <1>7 DEF Shape
  <2>2. QED  BY <1>8, <2>1
<1>10. r \in TaskState
  BY <1>2, <1>7
<1>11. TypeOK'
  <2>1. task' \in [Tasks -> TaskState]
    BY <1>3, <1>10 DEF IInv, TypeOK
  <2>2. calls' \in [Tasks -> 0 .. MaxCalls]
    BY BoundsAssumption DEF IInv, TypeOK, Start
  <2>3. awake' \in [Tasks -> BOOLEAN]
    BY DEF IInv, TypeOK, Start
  <2>4. QED  BY <2>1, <2>2, <2>3 DEF IInv, TypeOK, Start
<1>12. /\ \A u \in Tasks \ {t} : awake'[u] = awake[u]
       /\ awake'[t] /\ UNCHANGED <<keys, sequence, reads, writes>>
  BY DEF Start, IInv, TypeOK
<1>13. /\ task'[t].upgraded = {} /\ task'[t].waker_sequence = 0 /\ 0 <= sequence
  BY <1>2, <1>4 DEF IInv, TypeOK
<1>14. QED
  <2>1. Shape(task'[t], reads[t], writes[t])
    BY <1>4, <1>9
  <2>2. QED  BY <1>4, <1>11, <1>12, <1>13, <2>1, QuietStep

\* What a task may read with locks held is no filesystem lock.
LEMMA NestedReadsAreObjects ==
  ASSUME IInv, NEW t \in Tasks, task[t].pc = "holding"
  PROVE  NestedReads(t) \subseteq Keys \ {Filesystem}
<1>1. task[t].txn => writes[t] \subseteq TxnKeys
  BY DEF IInv, Shapes, Shape
<1>2. QED  BY <1>1, KeysAssumption DEF NestedReads, ReadOnly

\* A task that starts on its own keeps the invariant.
LEMMA BeginStep ==
  ASSUME IInv, NEW t \in Tasks, Begin(t)
  PROVE  IInv'
<1>1. PICK txn \in BOOLEAN :
        \E stages \in IF txn THEN Transactions ELSE Guards : Start(t, txn, stages)
  BY DEF Begin
<1>2. PICK stages \in IF txn THEN Transactions ELSE Guards : Start(t, txn, stages)
  BY <1>1
<1>3. SortedTransactions \subseteq TxnPrograms
  BY KeysAssumption DEF SortedTransactions, TxnPrograms, TxnKeys
<1>4. Transactions \subseteq TxnPrograms
  BY <1>3 DEF Transactions, TxnPrograms, TxnKeys
<1>5. Guards \subseteq GuardPrograms
  <2>1. TxnKeys \subseteq Keys \ {Filesystem}
    BY KeysAssumption DEF Keys
  <2>2. QED  BY <2>1 DEF Guards, GuardPrograms
<1>6. stages \in IF txn THEN TxnPrograms ELSE GuardPrograms
  BY <1>2, <1>4, <1>5
<1>7. caller' \in [Tasks -> Tasks \cup {NoTask}]
  BY DEF Begin, IInv, TypeOK
<1>8. QED  BY <1>2, <1>6, <1>7, StartStep

\* A nested call keeps the invariant.
LEMMA CallStep ==
  ASSUME IInv, NEW t \in Tasks, NEW u \in Tasks,
         ReadNested(t, u) \/ OpenStore(t, u) \/ PreCommit(t, u)
  PROVE  IInv'
<1>1. \E txn \in BOOLEAN : \E stages \in IF txn THEN TxnPrograms ELSE GuardPrograms :
        Call(t, u, txn, stages)
  <2>1. CASE ReadNested(t, u)
    <3>1. PICK k \in NestedReads(t) : Call(t, u, FALSE, <<ReadStage({k})>>)
      BY <2>1 DEF ReadNested
    <3>2. k \in Keys \ {Filesystem}
      BY <2>1, NestedReadsAreObjects DEF ReadNested
    <3>3. <<ReadStage({k})>> \in GuardPrograms
      BY <3>2 DEF GuardPrograms
    <3>4. QED  BY <3>1, <3>3
  <2>2. CASE OpenStore(t, u)
    <3>1. PICK k \in Objects : Call(t, u, FALSE, <<WriteStage({k})>>)
      BY <2>2, KeysAssumption DEF OpenStore
    <3>2. <<WriteStage({k})>> \in GuardPrograms
      BY DEF GuardPrograms
    <3>3. QED  BY <3>1, <3>2
  <2>3. CASE PreCommit(t, u)
    <3>1. Call(t, u, TRUE, NewTransaction({Journal}))
      BY <2>3 DEF PreCommit
    <3>2. NewTransaction({Journal}) \in TxnPrograms
      BY DEF TxnPrograms, TxnKeys
    <3>3. QED  BY <3>1, <3>2
  <2>4. QED  BY <2>1, <2>2, <2>3
<1>2. PICK txn \in BOOLEAN :
        \E stages \in IF txn THEN TxnPrograms ELSE GuardPrograms : Call(t, u, txn, stages)
  BY <1>1
<1>3. PICK stages \in IF txn THEN TxnPrograms ELSE GuardPrograms : Call(t, u, txn, stages)
  BY <1>2
<1>4. Start(u, txn, stages) /\ caller' \in [Tasks -> Tasks \cup {NoTask}]
  BY <1>3 DEF Call, IInv, TypeOK
<1>5. QED  BY <1>3, <1>4, StartStep

\* Starting the upgrade of the locks keeps the invariant.
LEMMA CommitStep ==
  ASSUME IInv, NEW t \in Tasks, Commit(t)
  PROVE  IInv'
<1> DEFINE pc == IF writes[t] = {} THEN "committing" ELSE "preparing"
           r == [task[t] EXCEPT !.pc = pc]
<1>1. task[t] \in TaskState /\ task[t].pc = "holding" /\ task[t].txn
  BY DEF Commit, IInv, TypeOK
<1>2. /\ r.pc = pc /\ r.txn = task[t].txn /\ r.upgraded = task[t].upgraded
      /\ r.want_write = task[t].want_write /\ r.waker_sequence = task[t].waker_sequence
      /\ r \in TaskState
  <2>1. pc \in {"committing", "preparing"}
    OBVIOUS
  <2> HIDE DEF pc
  <2>2. QED  BY <1>1, <2>1 DEF TaskState
<1>3. task' = [task EXCEPT ![t] = r]
  BY DEF Commit, IInv, TypeOK
<1> HIDE DEF r
<1>4. task'[t] = r /\ OthersStay(t)
  BY <1>3 DEF Commit, OthersStay, IInv, TypeOK
<1>5. Shape(task[t], reads[t], writes[t])
  BY DEF IInv, Shapes
<1>6. task[t].upgraded = {} /\ ~task[t].want_write /\ reads[t] = {Filesystem}
        /\ writes[t] \subseteq TxnKeys
  BY <1>1, <1>5 DEF Shape
<1>7. Shape(r, reads[t], writes[t])
  BY <1>1, <1>2, <1>6 DEF Shape
<1>8. TypeOK'
  <2>1. task' \in [Tasks -> TaskState]
    BY <1>2, <1>3 DEF IInv, TypeOK
  <2>2. awake' \in [Tasks -> BOOLEAN]
    BY DEF IInv, TypeOK, Commit
  <2>3. QED  BY <2>1, <2>2 DEF IInv, TypeOK, Commit
<1>9. /\ \A u \in Tasks \ {t} : awake'[u] = awake[u]
      /\ awake'[t] /\ UNCHANGED <<keys, sequence, reads, writes>>
  BY DEF Commit, IInv, TypeOK
<1>10. /\ task'[t].upgraded = {} /\ task'[t].waker_sequence <= sequence /\ task'[t].pc # "locking"
  BY <1>2, <1>4, <1>6 DEF IInv, Sequences
<1>11. Shape(task'[t], reads[t], writes[t])
  BY <1>4, <1>7
<1>12. QED  BY <1>4, <1>8, <1>9, <1>10, <1>11, QuietStep

\* Taking and releasing the commit mutex keeps the invariant.
LEMMA CommitMutexStep ==
  ASSUME IInv, NEW t \in Tasks, LockCommitMutex(t) \/ Applied(t)
  PROVE  IInv'
<1>1. PICK pc \in {"applying", "committed"} : task' = [task EXCEPT ![t].pc = pc]
  BY DEF LockCommitMutex, Applied
<1>2. PICK r : r = [task[t] EXCEPT !.pc = pc]
  OBVIOUS
<1>3. task[t] \in TaskState /\ task[t].pc \in {"committing", "applying"}
  BY DEF LockCommitMutex, Applied, IInv, TypeOK
<1>4. /\ r.pc = pc /\ r.txn = task[t].txn /\ r.upgraded = task[t].upgraded
      /\ r.want_write = task[t].want_write /\ r.waker_sequence = task[t].waker_sequence
      /\ r \in TaskState
  BY <1>2, <1>3 DEF TaskState
<1>5. task' = [task EXCEPT ![t] = r]
  BY <1>1, <1>2 DEF IInv, TypeOK
<1>6. task'[t] = r /\ OthersStay(t)
  BY <1>5 DEF LockCommitMutex, Applied, OthersStay, IInv, TypeOK
<1>7. Shape(task[t], reads[t], writes[t])
  BY DEF IInv, Shapes
<1>8. Shape(r, reads[t], writes[t])
  BY <1>3, <1>4, <1>7 DEF Shape
<1>9. TypeOK'
  <2>1. task' \in [Tasks -> TaskState]
    BY <1>4, <1>5 DEF IInv, TypeOK
  <2>2. QED  BY <2>1 DEF IInv, TypeOK, LockCommitMutex, Applied
<1>10. UNCHANGED <<keys, sequence, reads, writes, awake>>
  BY DEF LockCommitMutex, Applied
<1>11. /\ \A j \in task'[t].upgraded : keys[j].state = "WriteLock"
       /\ task'[t].waker_sequence <= sequence /\ task'[t].pc \notin {"locking", "preparing"}
  BY <1>4, <1>6 DEF IInv, Upgraded, Sequences
<1>12. Shape(task'[t], reads[t], writes[t])
  BY <1>6, <1>8
<1>13. QED  BY <1>6, <1>9, <1>10, <1>11, <1>12, QuietStep

\* The fields of a task that runs no program.
LEMMA IdleFields ==
  /\ Idle \in TaskState /\ Idle.pc = "idle" /\ Idle.upgraded = {} /\ Idle.want_write = FALSE
  /\ Idle.waker_sequence = 0 /\ Idle.txn = FALSE
BY BoundsAssumption DEF TaskState, Idle

\* Dropping a future or a guard, before the guard gives its keys back, keeps the
\* invariant.
LEMMA DroppingStep ==
  ASSUME IInv, NEW t \in Tasks, Dropping(t)
  PROVE  IInv'
<1> DEFINE r == [Idle EXCEPT !.pc = "dropping"]
<1>1. /\ r.pc = "dropping" /\ r.upgraded = {} /\ r.want_write = FALSE /\ r.waker_sequence = 0
      /\ r \in TaskState
  BY IdleFields DEF TaskState
<1>2. task' = [task EXCEPT ![t] = r]
  BY DEF Dropping
<1> HIDE DEF r
<1>3. task'[t] = r /\ OthersStay(t)
  BY <1>2 DEF Dropping, OthersStay, IInv, TypeOK
<1>4. Shape(task'[t], reads[t], writes[t])
  BY <1>1, <1>3 DEF Shape
<1>5. TypeOK'
  <2>1. task' \in [Tasks -> TaskState]
    BY <1>1, <1>2 DEF IInv, TypeOK
  <2>2. awake' \in [Tasks -> BOOLEAN]
    BY DEF IInv, TypeOK, Dropping
  <2>3. QED  BY <2>1, <2>2 DEF IInv, TypeOK, Dropping
<1>6. /\ \A u \in Tasks \ {t} : awake'[u] = awake[u]
      /\ UNCHANGED <<keys, sequence, reads, writes>>
  BY DEF Dropping, IInv, TypeOK
<1>7. /\ task'[t].upgraded = {} /\ task'[t].waker_sequence <= sequence
      /\ task'[t].pc \notin {"locking", "preparing"}
  BY <1>1, <1>3 DEF IInv, TypeOK
<1>8. QED  BY <1>3, <1>4, <1>5, <1>6, <1>7, QuietStep

\* The end of a drop keeps the invariant.
LEMMA DroppedStep ==
  ASSUME IInv, NEW t \in Tasks, Dropped(t)
  PROVE  IInv'
<1>1. task'[t] = Idle /\ OthersStay(t)
  BY DEF Dropped, OthersStay, IInv, TypeOK
<1>2. Shape(task'[t], reads[t], writes[t])
  BY <1>1, IdleFields DEF Shape, Dropped
<1>3. TypeOK'
  <2>1. task' \in [Tasks -> TaskState]
    BY IdleFields DEF IInv, TypeOK, Dropped
  <2>2. QED  BY <2>1 DEF IInv, TypeOK, Dropped
<1>4. /\ task'[t].upgraded = {} /\ task'[t].waker_sequence <= sequence
      /\ task'[t].pc \notin {"locking", "preparing"}
  BY <1>1, IdleFields DEF IInv, TypeOK
<1>5. UNCHANGED <<keys, sequence, reads, writes, awake>>
  BY DEF Dropped
<1>6. QED  BY <1>1, <1>2, <1>3, <1>4, <1>5, QuietStep

-----------------------------------------------------------------------------
(* The polls of lock().                                                     *)

\* The guards of the task after it has pushed the key it is at.
Pushed(t) ==
    /\ reads' = [reads EXCEPT ![t] = IF Target(t) = "ReadLock" THEN @ \cup {Key(t)} ELSE @]
    /\ writes' = [writes EXCEPT ![t] = IF Target(t) = "ReadLock" THEN @ ELSE @ \cup {Key(t)}]

\* Push puts the key into the guard that the target state calls for.
LEMMA PushIsPushed ==
  ASSUME IInv, NEW t \in Tasks, Push(t, Key(t))
  PROVE  Pushed(t)
<1>1. reads \in [Tasks -> SUBSET Keys] /\ writes \in [Tasks -> SUBSET Keys]
  BY DEF IInv, TypeOK
<1>2. [reads EXCEPT ![t] = @] = reads /\ [writes EXCEPT ![t] = @] = writes
  BY <1>1
<1>3. CASE Target(t) = "ReadLock"
  BY <1>2, <1>3 DEF Push, Pushed
<1>4. CASE Target(t) # "ReadLock"
  BY <1>2, <1>4 DEF Push, Pushed
<1>5. QED  BY <1>3, <1>4

\* Who holds the key then.
LEMMA PushedHolders ==
  ASSUME IInv, NEW t \in Tasks, Locking(t), Pushed(t), NEW k, k = Key(t)
  PROVE  /\ reads' \in [Tasks -> SUBSET Keys] /\ writes' \in [Tasks -> SUBSET Keys]
         /\ \A u \in Tasks \ {t} : reads'[u] = reads[u] /\ writes'[u] = writes[u]
         /\ reads'[t] = IF Target(t) = "ReadLock" THEN reads[t] \cup {k} ELSE reads[t]
         /\ writes'[t] = IF Target(t) = "ReadLock" THEN writes[t] ELSE writes[t] \cup {k}
         /\ Readers(k)' = IF Target(t) = "ReadLock" THEN Readers(k) \cup {t} ELSE Readers(k)
         /\ Writers(k)' = IF Target(t) = "ReadLock" THEN Writers(k) ELSE Writers(k) \cup {t}
         /\ t \notin Readers(k)
         /\ t \in Writers(k) <=> task[t].want_write
<1>1. k \in Keys /\ k \notin reads[t] /\ (k \in writes[t] <=> task[t].want_write)
  BY AtKey DEF IInv
<1>2. reads \in [Tasks -> SUBSET Keys] /\ writes \in [Tasks -> SUBSET Keys]
  BY DEF IInv, TypeOK
<1>3. /\ reads' \in [Tasks -> SUBSET Keys] /\ writes' \in [Tasks -> SUBSET Keys]
      /\ \A u \in Tasks \ {t} : reads'[u] = reads[u] /\ writes'[u] = writes[u]
      /\ reads'[t] = IF Target(t) = "ReadLock" THEN reads[t] \cup {k} ELSE reads[t]
      /\ writes'[t] = IF Target(t) = "ReadLock" THEN writes[t] ELSE writes[t] \cup {k}
  BY <1>1, <1>2 DEF Pushed
<1>4. Readers(k)' = IF Target(t) = "ReadLock" THEN Readers(k) \cup {t} ELSE Readers(k)
  BY <1>3 DEF Readers
<1>5. Writers(k)' = IF Target(t) = "ReadLock" THEN Writers(k) ELSE Writers(k) \cup {t}
  BY <1>3 DEF Writers
<1>6. t \notin Readers(k) /\ (t \in Writers(k) <=> task[t].want_write)
  BY <1>1 DEF Readers, Writers
<1>7. QED  BY <1>3, <1>4, <1>5, <1>6

\* A poll that acquires the key.
LEMMA GrantStep ==
  ASSUME IInv, NEW t \in Tasks, NEW g \in 0 .. MaxRepoll, Locking(t), NEW k, k = Key(t),
         Pushed(t),
         task' = [task EXCEPT ![t] = After(task[t], g, k)],
         awake' = [awake EXCEPT ![t] = TRUE],
         keys' \in [Keys -> LockEntry \cup {Vacant}],
         sequence' \in Nat, sequence' >= sequence, UNCHANGED <<calls, caller, commit_mutex>>,
         \A j \in Keys \ {k} : keys'[j] = keys[j],
         EntryInv(keys'[k], Readers(k)', Writers(k)'),
         Undisturbed(t, keys[k], keys'[k], k \in writes'[t]),
         keys'[k] # Vacant => keys'[k].sequence \in 1 .. sequence',
         keys[k] = Vacant /\ keys'[k] # Vacant => keys'[k].sequence > sequence
  PROVE  IInv'
<1>1. k \in Keys
  BY AtKey DEF IInv
<1> DEFINE r == After(task[t], g, k)
<1>2. /\ reads' \in [Tasks -> SUBSET Keys] /\ writes' \in [Tasks -> SUBSET Keys]
      /\ \A u \in Tasks \ {t} : reads'[u] = reads[u] /\ writes'[u] = writes[u]
      /\ reads'[t] = IF Target(t) = "ReadLock" THEN reads[t] \cup {k} ELSE reads[t]
      /\ writes'[t] = IF Target(t) = "ReadLock" THEN writes[t] ELSE writes[t] \cup {k}
  BY PushedHolders
<1>3. /\ r \in TaskState /\ Shape(r, reads'[t], writes'[t]) /\ r.waker_sequence = 0
      /\ r.upgraded = {}
  <2>1. task[t] \in TaskState /\ Shape(task[t], reads[t], writes[t]) /\ task[t].pc = "locking"
    BY DEF IInv, TypeOK, Shapes, Locking
  <2>2. k = KeyOf(task[t]) /\ Target(t) = TargetOf(task[t])
    BY DEF Key, Target, KeyOf, TargetOf
  <2>3. reads'[t] = ReadsAfter(task[t], reads[t]) /\ writes'[t] = WritesAfter(task[t], writes[t])
    BY <1>2, <2>2 DEF ReadsAfter, WritesAfter
  <2>4. QED  BY <2>1, <2>2, <2>3, AfterShape
<1>4. task' = [task EXCEPT ![t] = r]
  OBVIOUS
<1> HIDE DEF r
<1>5. task'[t] = r /\ OthersStay(t)
  BY <1>2, <1>4 DEF OthersStay, IInv, TypeOK
<1>6. TypeOK'
  <2>1. task' \in [Tasks -> TaskState]
    BY <1>3, <1>4 DEF IInv, TypeOK
  <2>2. awake' \in [Tasks -> BOOLEAN]
    BY DEF IInv, TypeOK
  <2>3. QED  BY <1>2, <2>1, <2>2 DEF IInv, TypeOK
<1>7. awake'[t] /\ \A u \in Tasks \ {t} : awake'[u] = awake[u]
  BY DEF IInv, TypeOK
<1>8. UpgradedBy(t)' /\ SleepsWell(t)' /\ task'[t].waker_sequence <= sequence'
  BY <1>3, <1>5, <1>7 DEF UpgradedBy, SleepsWell
<1>9. OwnSlot(t)'
  <2> SUFFICES ASSUME task'[t].pc = "locking", keys'[Key(t)'] # Vacant
               PROVE  keys'[Key(t)'].sequence # 0
    BY <1>3, <1>5 DEF OwnSlot, Locking
  <2>1. Key(t)' = KeyOf(task'[t])
    BY DEF Key, KeyOf
  <2>2. KeyOf(task'[t]) \in Keys
    BY <1>3, <1>5, PlaceKeyOf
  <2>3. QED  BY <2>1, <2>2 DEF IInv, Sequences
<1>10. \A j \in Keys \ {k} : (j \in reads'[t] <=> j \in reads[t])
                               /\ (j \in writes'[t] <=> j \in writes[t])
  BY <1>2
<1>11. Shape(task'[t], reads'[t], writes'[t])
  BY <1>3, <1>5
<1>12. QED  BY <1>1, <1>5, <1>6, <1>7, <1>8, <1>9, <1>10, <1>11, KeyStep

\* What the polls do to an entry.
WithState(e, s, w) == [e EXCEPT !.state = s, !.waker = w]
WithWakers(e, ws) == [e EXCEPT !.wakers = ws]
WithReaders(e, n) == [e EXCEPT !.read_count = n]

\* The fields of an entry with another state and upgrade waker.
LEMMA WithStateFields ==
  ASSUME NEW e \in LockEntry, NEW s \in TargetState \cup {"WantWrite"},
         NEW w \in Waker \cup {NoWaker}
  PROVE  /\ WithState(e, s, w) \in LockEntry
         /\ WithState(e, s, w).state = s /\ WithState(e, s, w).waker = w
         /\ WithState(e, s, w).read_count = e.read_count
         /\ WithState(e, s, w).sequence = e.sequence /\ WithState(e, s, w).wakers = e.wakers
BY DEF LockEntry, WithState

\* The fields of an entry with other wakers.
LEMMA WithWakersFields ==
  ASSUME NEW e \in LockEntry, NEW ws \in Seq(Waker)
  PROVE  /\ WithWakers(e, ws) \in LockEntry
         /\ WithWakers(e, ws).wakers = ws
         /\ WithWakers(e, ws).state = e.state /\ WithWakers(e, ws).waker = e.waker
         /\ WithWakers(e, ws).read_count = e.read_count
         /\ WithWakers(e, ws).sequence = e.sequence
BY DEF LockEntry, WithWakers

\* The fields of an entry with another number of readers.
LEMMA WithReadersFields ==
  ASSUME NEW e \in LockEntry, NEW n \in Nat
  PROVE  /\ WithReaders(e, n) \in LockEntry
         /\ WithReaders(e, n).read_count = n
         /\ WithReaders(e, n).state = e.state /\ WithReaders(e, n).waker = e.waker
         /\ WithReaders(e, n).wakers = e.wakers /\ WithReaders(e, n).sequence = e.sequence
BY DEF LockEntry, WithReaders

\* An entry of the map is not the absence of one.
LEMMA EntriesAreNotVacant ==
  ASSUME NEW e \in LockEntry
  PROVE  e # Vacant
BY DEF LockEntry, Vacant

\* How the number of holders of a key changes with one task.
LEMMA Counts ==
  ASSUME NEW S \in SUBSET Tasks
  PROVE  /\ Cardinality(S) \in Nat
         /\ Cardinality(S) = 0 <=> S = {}
         /\ \A t \in Tasks \ S : Cardinality(S \cup {t}) = Cardinality(S) + 1
         /\ \A t \in S : Cardinality(S \ {t}) = Cardinality(S) - 1
<1>1. IsFiniteSet(S)
  BY FS_Subset, BoundsAssumption
<1>2. QED  BY <1>1, FS_CardinalityType, FS_EmptySet, FS_AddElement, FS_RemoveElement

\* lock(), on a key without an entry, keeps the invariant.
LEMMA PollVacantStep ==
  ASSUME IInv, NEW t \in Tasks, NEW g \in 0 .. MaxRepoll, Lock(t, g), PollVacant(t, g),
         NEW k, k = Key(t)
  PROVE  IInv'
<1> DEFINE n == IF Target(t) = "ReadLock" THEN 1 ELSE 0
           e == [sequence |-> sequence + 1, read_count |-> n, state |-> Target(t),
                 waker |-> NoWaker, wakers |-> <<>>]
<1>1. Locking(t) /\ Pushed(t) /\ UNCHANGED <<calls, caller, commit_mutex>>
  BY PushIsPushed DEF Lock, PollVacant
<1>2. k \in Keys /\ Target(t) \in TargetState /\ ~task[t].want_write
  <2>1. k \in Keys /\ Target(t) \in TargetState /\ (k \in writes[t] <=> task[t].want_write)
    BY <1>1, AtKey DEF IInv
  <2>2. t \notin Writers(k)
    BY <2>1 DEF PollVacant, IInv, Table, EntryInv
  <2>3. QED  BY <2>1, <2>2 DEF Writers
<1>3. keys[k] = Vacant /\ keys' = [keys EXCEPT ![k] = e] /\ sequence' = sequence + 1
  BY DEF PollVacant
<1>4. /\ Readers(k)' = IF Target(t) = "ReadLock" THEN Readers(k) \cup {t} ELSE Readers(k)
      /\ Writers(k)' = IF Target(t) = "ReadLock" THEN Writers(k) ELSE Writers(k) \cup {t}
  BY <1>1, PushedHolders
<1>5. Readers(k) = {} /\ Writers(k) = {}
  BY <1>2, <1>3 DEF IInv, Table, EntryInv
<1>6. task' = [task EXCEPT ![t] = After(task[t], g, k)] /\ awake' = [awake EXCEPT ![t] = TRUE]
  BY DEF PollVacant, After
<1>7. sequence \in Nat /\ keys \in [Keys -> LockEntry \cup {Vacant}]
  BY DEF IInv, TypeOK
<1>8. /\ e \in LockEntry /\ e.sequence = sequence + 1 /\ e.read_count = n
      /\ e.state = Target(t)
  BY <1>2, <1>7 DEF LockEntry
<1> HIDE DEF e
<1>9. keys'[k] = e /\ keys' \in [Keys -> LockEntry \cup {Vacant}]
        /\ \A j \in Keys \ {k} : keys'[j] = keys[j]
  BY <1>2, <1>3, <1>7, <1>8
<1>10. e # Vacant
  BY <1>8, EntriesAreNotVacant
<1>11. EntryInv(keys'[k], Readers(k)', Writers(k)')
  <2>1. CASE Target(t) = "ReadLock"
    <3>1. Readers(k)' = {t} /\ Writers(k)' = {} /\ e.read_count = 1 /\ e.state = "ReadLock"
      BY <1>4, <1>5, <1>8, <2>1
    <3>2. Cardinality({t}) = 1
      BY FS_Singleton
    <3>3. QED  BY <1>9, <1>10, <3>1, <3>2 DEF EntryInv
  <2>2. CASE Target(t) # "ReadLock"
    <3>1. Readers(k)' = {} /\ Writers(k)' = {t} /\ e.read_count = 0 /\ e.state # "ReadLock"
      BY <1>4, <1>5, <1>8, <2>2
    <3>2. Cardinality({}) = 0
      BY FS_EmptySet
    <3>3. QED  BY <1>9, <1>10, <3>1, <3>2 DEF EntryInv
  <2>3. QED  BY <2>1, <2>2
<1>12. Undisturbed(t, keys[k], keys'[k], k \in writes'[t])
  BY <1>3 DEF Undisturbed
<1>13. sequence' \in Nat /\ sequence' >= sequence /\ keys'[k].sequence \in 1 .. sequence'
         /\ keys'[k].sequence > sequence
  BY <1>3, <1>7, <1>8, <1>9
<1>14. QED
  BY <1>1, <1>6, <1>9, <1>11, <1>12, <1>13, GrantStep

\* lock(), on an entry that can be shared, keeps the invariant.
LEMMA PollSharedStep ==
  ASSUME IInv, NEW t \in Tasks, NEW g \in 0 .. MaxRepoll, Lock(t, g), PollShared(t, g),
         NEW k, k = Key(t), NEW e, e = keys[k]
  PROVE  IInv'
<1>1. Locking(t) /\ Pushed(t) /\ UNCHANGED <<calls, caller, commit_mutex>>
  BY PushIsPushed DEF Lock, PollShared
<1>2. k \in Keys /\ Target(t) \in TargetState
  BY <1>1, AtKey DEF IInv
<1>3. sequence \in Nat /\ keys \in [Keys -> LockEntry \cup {Vacant}] /\ sequence' = sequence
  BY DEF IInv, TypeOK, PollShared
<1>4. e \in LockEntry
  <2>1. e \in LockEntry \cup {Vacant} /\ e.state \in {"ReadLock", "Locked"}
    BY <1>2, <1>3 DEF PollShared
  <2>2. QED  BY <2>1 DEF Vacant
<1>5. /\ Readers(k)' = IF Target(t) = "ReadLock" THEN Readers(k) \cup {t} ELSE Readers(k)
      /\ Writers(k)' = IF Target(t) = "ReadLock" THEN Writers(k) ELSE Writers(k) \cup {t}
      /\ writes'[t] = IF Target(t) = "ReadLock" THEN writes[t] ELSE writes[t] \cup {k}
      /\ t \notin Readers(k)
  BY <1>1, PushedHolders
<1>6. e # Vacant
  BY <1>4, EntriesAreNotVacant
<1>7. /\ e.read_count = Cardinality(Readers(k)) /\ \A a, b \in Writers(k) : a = b
      /\ e.state = "ReadLock" => Writers(k) = {} /\ Readers(k) # {}
      /\ e.state # "ReadLock" => Writers(k) # {}
  BY <1>2, <1>6 DEF IInv, Table, EntryInv
<1>8. /\ Cardinality(Readers(k)) \in Nat
      /\ Cardinality(Readers(k) \cup {t}) = Cardinality(Readers(k)) + 1
  BY <1>5, Counts DEF Readers
<1>9. task' = [task EXCEPT ![t] = After(task[t], g, k)] /\ awake' = [awake EXCEPT ![t] = TRUE]
  BY DEF PollShared, After
<1>10. e.sequence \in 1 .. sequence /\ e.read_count \in Nat
  BY <1>2, <1>6, <1>7, <1>8 DEF IInv, Sequences
<1>11. ASSUME NEW f \in LockEntry, keys' = [keys EXCEPT ![k] = f],
              f.sequence = e.sequence, f.wakers = e.wakers,
              EntryInv(f, Readers(k)', Writers(k)'),
              e.state # "ReadLock" => f.state # "ReadLock",
              k \in writes'[t] \/ e.state = "ReadLock"
                \/ (f.state = e.state /\ f.waker = e.waker /\ f.read_count >= e.read_count)
       PROVE  IInv'
  <2>1. /\ keys'[k] = f /\ keys' \in [Keys -> LockEntry \cup {Vacant}]
        /\ \A j \in Keys \ {k} : keys'[j] = keys[j]
    BY <1>2, <1>3, <1>11
  <2>2. Undisturbed(t, e, f, k \in writes'[t])
    BY <1>11, EntriesAreNotVacant DEF Undisturbed
  <2>3. sequence' >= sequence /\ f.sequence \in 1 .. sequence'
    BY <1>3, <1>10, <1>11
  <2>4. /\ EntryInv(keys'[k], Readers(k)', Writers(k)')
        /\ Undisturbed(t, keys[k], keys'[k], k \in writes'[t])
        /\ keys'[k].sequence \in 1 .. sequence' /\ keys[k] # Vacant /\ sequence' \in Nat
    BY <1>3, <1>6, <1>11, <2>1, <2>2, <2>3
  <2>5. QED  BY <1>1, <1>9, <2>1, <2>3, <2>4, GrantStep
<1>12. CASE Target(t) = "ReadLock"
  <2> DEFINE f == WithReaders(e, e.read_count + 1)
  <2>1. keys' = [keys EXCEPT ![k].read_count = @ + 1]
    BY <1>12 DEF PollShared
  <2>2. keys' = [keys EXCEPT ![k] = f]
    BY <2>1, <1>2, <1>3 DEF WithReaders
  <2>3. /\ f \in LockEntry /\ f.read_count = e.read_count + 1 /\ f.state = e.state
        /\ f.waker = e.waker /\ f.wakers = e.wakers /\ f.sequence = e.sequence
    <3>1. e.read_count + 1 \in Nat
      BY <1>10
    <3>2. QED  BY <1>4, <3>1, WithReadersFields
  <2> HIDE DEF f
  <2>4. f # Vacant
    BY <2>3, EntriesAreNotVacant
  <2>5. EntryInv(f, Readers(k)', Writers(k)')
    <3>1. Readers(k)' = Readers(k) \cup {t} /\ Writers(k)' = Writers(k)
      BY <1>5, <1>12
    <3>2. e.state \in {"ReadLock", "Locked"}
      BY DEF PollShared
    <3>3. QED  BY <1>7, <1>8, <2>3, <2>4, <3>1, <3>2 DEF EntryInv
  <2>6. f.read_count >= e.read_count
    BY <1>10, <2>3
  <2>7. QED  BY <1>11, <2>2, <2>3, <2>5, <2>6
<1>13. CASE Target(t) # "ReadLock"
  <2> DEFINE f == WithState(e, Target(t), e.waker)
  <2>1. keys' = [keys EXCEPT ![k].state = Target(t)] /\ e.state = "ReadLock" /\ Target(t) = "Locked"
    BY <1>2, <1>13 DEF PollShared, TargetState
  <2>2. keys' = [keys EXCEPT ![k] = f]
    <3>1. [e EXCEPT !.state = Target(t)] = f
      BY <1>4 DEF WithState, LockEntry
    <3>2. QED  BY <2>1, <1>2, <1>3, <3>1
  <2>3. /\ f \in LockEntry /\ f.read_count = e.read_count /\ f.state = "Locked"
        /\ f.wakers = e.wakers /\ f.sequence = e.sequence
    <3>1. e.waker \in Waker \cup {NoWaker} /\ Target(t) \in TargetState \cup {"WantWrite"}
      BY <1>2, <1>4 DEF LockEntry
    <3>2. QED  BY <1>4, <2>1, <3>1, WithStateFields
  <2> HIDE DEF f
  <2>4. f # Vacant
    BY <2>3, EntriesAreNotVacant
  <2>5. EntryInv(f, Readers(k)', Writers(k)')
    <3>1. Readers(k)' = Readers(k) /\ Writers(k)' = {t}
      BY <1>5, <1>7, <1>13, <2>1
    <3>2. QED  BY <1>7, <2>3, <2>4, <3>1 DEF EntryInv
  <2>6. /\ e.state # "ReadLock" => f.state # "ReadLock"
        /\ k \in writes'[t] \/ e.state = "ReadLock"
             \/ (f.state = e.state /\ f.waker = e.waker /\ f.read_count >= e.read_count)
    <3>1. e.state = "ReadLock"
      BY <1>13 DEF PollShared
    <3>2. QED  BY <3>1
  <2>7. QED  BY <1>11, <2>2, <2>3, <2>5, <2>6
<1>14. QED  BY <1>12, <1>13

\* A poll that changes the entry of key k to f and its own task to r.
LEMMA EntryStep ==
  ASSUME IInv, NEW t \in Tasks, NEW k \in Keys, keys[k] # Vacant,
         NEW r \in TaskState, NEW f \in LockEntry, NEW b \in BOOLEAN,
         task' = [task EXCEPT ![t] = r], keys' = [keys EXCEPT ![k] = f],
         awake' = [awake EXCEPT ![t] = b],
         sequence' = sequence, UNCHANGED <<calls, caller, commit_mutex>>,
         reads' \in [Tasks -> SUBSET Keys], writes' \in [Tasks -> SUBSET Keys],
         \A u \in Tasks \ {t} : reads'[u] = reads[u] /\ writes'[u] = writes[u],
         \A j \in Keys \ {k} : (j \in reads'[t] <=> j \in reads[t])
                                 /\ (j \in writes'[t] <=> j \in writes[t]),
         Shape(r, reads'[t], writes'[t]),
         EntryInv(f, Readers(k)', Writers(k)'),
         Undisturbed(t, keys[k], f, k \in writes'[t]),
         \A j \in r.upgraded : IF j = k THEN f.state = "WriteLock"
                                        ELSE keys[j].state = "WriteLock",
         r.waker_sequence <= sequence,
         r.pc = "locking" => KeyOf(r) = k,
         r.pc = "locking" /\ f.sequence = r.waker_sequence
           => r.waker_index \in DOMAIN f.wakers /\ f.wakers[r.waker_index].task = t,
         ~b /\ r.pc = "locking" /\ ~r.want_write
           => f.state # "ReadLock"
                /\ \E i \in DOMAIN f.wakers : f.wakers[i] = [task |-> t, poll |-> r.poll],
         ~b /\ ((r.pc = "locking" /\ r.want_write) \/ r.pc = "preparing")
           => f.state = "WantWrite" /\ f.waker = [task |-> t, poll |-> r.poll]
                /\ f.read_count > 0,
         ~b /\ r.pc = "preparing" => First(writes'[t] \ r.upgraded) = k
  PROVE  IInv'
<1>1. f # Vacant
  BY EntriesAreNotVacant
<1>2. /\ keys \in [Keys -> LockEntry \cup {Vacant}] /\ task \in [Tasks -> TaskState]
      /\ awake \in [Tasks -> BOOLEAN] /\ sequence \in Nat
  BY DEF IInv, TypeOK
<1>3. keys'[k] = f /\ \A j \in Keys \ {k} : keys'[j] = keys[j]
  BY <1>2
<1>4. task'[t] = r /\ OthersStay(t)
  BY <1>2 DEF OthersStay
<1>5. awake'[t] = b /\ \A u \in Tasks \ {t} : awake'[u] = awake[u]
  BY <1>2
<1>6. TypeOK'
  <2>1. keys' \in [Keys -> LockEntry \cup {Vacant}]
    BY <1>2
  <2>2. task' \in [Tasks -> TaskState]
    BY <1>2
  <2>3. awake' \in [Tasks -> BOOLEAN]
    BY <1>2
  <2>4. QED  BY <2>1, <2>2, <2>3 DEF IInv, TypeOK
<1>7. UpgradedBy(t)'
  <2>1. r.upgraded \subseteq Keys
    BY DEF TaskState
  <2>2. QED  BY <1>3, <1>4, <2>1 DEF UpgradedBy
<1>8. CurrentWaker(t)' = [task |-> t, poll |-> r.poll]
  BY <1>4 DEF CurrentWaker
<1>9. Locking(t)' <=> r.pc = "locking"
  BY <1>4 DEF Locking
<1>10. r.pc = "locking" => Key(t)' = k
  BY <1>4 DEF Key, KeyOf
<1>11. OwnSlot(t)'
  BY <1>3, <1>4, <1>9, <1>10 DEF OwnSlot
<1>12. SleepsWell(t)'
  <2> SUFFICES ASSUME ~b PROVE SleepsWell(t)'
    BY <1>5 DEF SleepsWell
  <2>1. ASSUME r.pc = "locking", r.want_write PROVE AwaitsReaders(t, Key(t))'
    BY <1>1, <1>3, <1>8, <1>10, <2>1 DEF AwaitsReaders
  <2>2. ASSUME r.pc = "locking", ~r.want_write PROVE AwaitsWriter(t, Key(t))'
    BY <1>1, <1>3, <1>8, <1>10, <2>2 DEF AwaitsWriter
  <2>3. ASSUME r.pc = "preparing" PROVE AwaitsReaders(t, NextUpgrade(t))'
    <3>1. NextUpgrade(t)' = k
      BY <1>4, <2>3 DEF NextUpgrade
    <3>2. QED  BY <1>1, <1>3, <1>8, <2>3, <3>1 DEF AwaitsReaders
  <2>4. QED  BY <1>4, <1>9, <2>1, <2>2, <2>3 DEF SleepsWell
<1>13. f.sequence \in 1 .. sequence
  BY DEF Undisturbed, IInv, Sequences
<1>14. /\ Shape(task'[t], reads'[t], writes'[t])
       /\ EntryInv(keys'[k], Readers(k)', Writers(k)')
       /\ Undisturbed(t, keys[k], keys'[k], k \in writes'[t])
       /\ sequence' >= sequence /\ task'[t].waker_sequence <= sequence'
       /\ keys'[k].sequence \in 1 .. sequence'
  BY <1>2, <1>3, <1>4, <1>13
<1>15. QED  BY <1>3, <1>4, <1>5, <1>6, <1>7, <1>11, <1>12, <1>14, KeyStep

\* The task after a poll that only leaves its waker.
PolledTask(old, w, g) == [old EXCEPT !.want_write = w, !.poll = g]

\* The fields of a task after a poll that only leaves its waker.
LEMMA PolledFields ==
  ASSUME NEW old \in TaskState, NEW g \in 0 .. MaxRepoll, NEW w \in BOOLEAN
  PROVE  /\ PolledTask(old, w, g) \in TaskState /\ PolledTask(old, w, g).poll = g
         /\ PolledTask(old, w, g).want_write = w
         /\ PolledTask(old, w, g).pc = old.pc /\ PolledTask(old, w, g).stages = old.stages
         /\ PolledTask(old, w, g).txn = old.txn /\ PolledTask(old, w, g).upgraded = old.upgraded
         /\ PolledTask(old, w, g).waker_sequence = old.waker_sequence
         /\ PolledTask(old, w, g).waker_index = old.waker_index
BY DEF TaskState, PolledTask

\* A task that keeps its place and its guards, apart from its waker.
LEMMA ShapeKept ==
  ASSUME NEW old, NEW r, NEW R, NEW W, Shape(old, R, W),
         r.pc = old.pc, r.stages = old.stages, r.txn = old.txn,
         r.upgraded = old.upgraded, r.want_write = old.want_write
  PROVE  Shape(r, R, W)
<1> USE DEF Shape
<1>1. LockingShape(old, R, W) => LockingShape(r, R, W)
  BY DEF LockingShape, AtFilesystem, BeforeKeys, AtKeys, AtAttribute, AtRead, AtWrite
<1>2. QED  BY <1>1

\* lock(), polled again while it waits for readers to leave, keeps the invariant.
LEMMA PollWantWriteStep ==
  ASSUME IInv, NEW t \in Tasks, NEW g \in 0 .. MaxRepoll, Lock(t, g), PollWantWrite(t, g),
         NEW k, k = Key(t), NEW e, e = keys[k]
  PROVE  IInv'
<1>1. /\ Locking(t) /\ UNCHANGED <<calls, caller, commit_mutex>> /\ sequence' = sequence /\ reads' = reads
      /\ writes' = writes /\ e # Vacant /\ task[t].want_write
  BY DEF Lock, PollWantWrite
<1>2. k \in Keys /\ Target(t) = "WriteLock" /\ k \in writes[t]
  BY <1>1, AtKey DEF IInv
<1>3. /\ keys \in [Keys -> LockEntry \cup {Vacant}] /\ task \in [Tasks -> TaskState]
      /\ sequence \in Nat
      /\ reads \in [Tasks -> SUBSET Keys] /\ writes \in [Tasks -> SUBSET Keys]
  BY DEF IInv, TypeOK
<1>4. e \in LockEntry /\ e.read_count \in Nat
  <2>1. e \in LockEntry
    BY <1>1, <1>2, <1>3
  <2>2. QED  BY <2>1 DEF LockEntry
<1>5. /\ e.read_count = Cardinality(Readers(k)) /\ \A a, b \in Writers(k) : a = b
      /\ t \in Writers(k) /\ e.state # "ReadLock"
  BY <1>1, <1>2 DEF IInv, Table, EntryInv, Writers
<1>6. Readers(k)' = Readers(k) /\ Writers(k)' = Writers(k)
  BY <1>1 DEF Readers, Writers
<1>7. e.sequence \in 1 .. sequence
  BY <1>1, <1>2 DEF IInv, Sequences
<1>8. CASE HasReaders(k)
  <2> DEFINE w == [task |-> t, poll |-> g]
             f == WithState(e, "WantWrite", w)
             r == PolledTask(task[t], TRUE, g)
  <2>1. keys' = [keys EXCEPT ![k] = f]
    <3>1. keys' = [keys EXCEPT ![k].state = "WantWrite", ![k].waker = w]
      BY <1>8 DEF PollWantWrite
    <3>2. QED  BY <1>2, <1>3, <3>1 DEF WithState
  <2>2. task' = [task EXCEPT ![t] = r]
    <3>1. [task[t] EXCEPT !.poll = g] = r
      BY <1>1, <1>3 DEF TaskState, PolledTask
    <3>2. task' = [task EXCEPT ![t] = [task[t] EXCEPT !.poll = g]]
      BY <1>3, <1>8 DEF PollWantWrite
    <3>3. QED  BY <3>1, <3>2
  <2>3. awake' = [awake EXCEPT ![t] = FALSE]
    BY <1>8 DEF PollWantWrite
  <2>4. /\ f \in LockEntry /\ f.state = "WantWrite" /\ f.waker = w
        /\ f.read_count = e.read_count /\ f.sequence = e.sequence /\ f.wakers = e.wakers
    <3>1. w \in Waker
      BY DEF Waker
    <3>2. QED  BY <1>4, <3>1, WithStateFields
  <2>5. /\ r \in TaskState /\ r.poll = g /\ r.want_write = TRUE
        /\ r.pc = task[t].pc /\ r.stages = task[t].stages /\ r.txn = task[t].txn
        /\ r.upgraded = task[t].upgraded /\ r.waker_sequence = task[t].waker_sequence
        /\ r.waker_index = task[t].waker_index
    BY <1>3, PolledFields
  <2> HIDE DEF f, r
  <2>6. f # Vacant
    BY <2>4, EntriesAreNotVacant
  <2>7. EntryInv(f, Readers(k)', Writers(k)')
    BY <1>5, <1>6, <2>4, <2>6 DEF EntryInv
  <2>8. Undisturbed(t, keys[k], f, k \in writes'[t])
    BY <1>1, <1>2, <2>4, <2>6 DEF Undisturbed
  <2>9. Shape(task[t], reads[t], writes[t]) /\ task[t].pc = "locking"
    BY <1>1 DEF IInv, Shapes, Locking
  <2>10. Shape(r, reads'[t], writes'[t])
    BY <1>1, <2>5, <2>9, ShapeKept
  <2>11. r.upgraded = {} /\ r.waker_sequence <= sequence /\ r.pc = "locking" /\ KeyOf(r) = k
    BY <2>5, <2>9 DEF Shape, IInv, Sequences, Key, KeyOf
  <2>12. f.sequence = r.waker_sequence
           => r.waker_index \in DOMAIN f.wakers /\ f.wakers[r.waker_index].task = t
    BY <1>1, <2>4, <2>5 DEF IInv, OwnSlots, OwnSlot
  <2>13. f.state = "WantWrite" /\ f.waker = [task |-> t, poll |-> r.poll] /\ f.read_count > 0
    BY <1>8, <2>4, <2>5 DEF HasReaders
  <2>14. QED
    BY <1>1, <1>2, <1>3, <2>1, <2>2, <2>3, <2>4, <2>5, <2>7, <2>8, <2>10, <2>11, <2>12, <2>13,
       EntryStep
<1>9. CASE ~HasReaders(k)
  <2> DEFINE f == WithState(e, "WriteLock", NoWaker)
  <2>1. keys' = [keys EXCEPT ![k] = f]
    <3>1. keys' = [keys EXCEPT ![k].state = "WriteLock", ![k].waker = NoWaker]
      BY <1>9 DEF PollWantWrite
    <3>2. QED  BY <1>2, <1>3, <3>1 DEF WithState
  <2>2. task' = [task EXCEPT ![t] = After(task[t], g, k)] /\ awake' = [awake EXCEPT ![t] = TRUE]
    BY <1>9 DEF PollWantWrite, After
  <2>3. /\ f \in LockEntry /\ f.state = "WriteLock"
        /\ f.read_count = e.read_count /\ f.sequence = e.sequence /\ f.wakers = e.wakers
    BY <1>4, WithStateFields DEF TargetState
  <2> HIDE DEF f
  <2>4. f # Vacant
    BY <2>3, EntriesAreNotVacant
  <2>5. Readers(k) = {}
    <3>1. Cardinality(Readers(k)) = 0
      BY <1>4, <1>5, <1>9 DEF HasReaders
    <3>2. QED  BY <3>1, Counts DEF Readers
  <2>6. /\ keys'[k] = f /\ keys' \in [Keys -> LockEntry \cup {Vacant}]
        /\ \A j \in Keys \ {k} : keys'[j] = keys[j]
    BY <1>2, <1>3, <2>1, <2>3
  <2>7. EntryInv(keys'[k], Readers(k)', Writers(k)')
    BY <1>5, <1>6, <2>3, <2>4, <2>5, <2>6 DEF EntryInv
  <2>8. Undisturbed(t, keys[k], keys'[k], k \in writes'[t])
    BY <1>1, <1>2, <2>3, <2>4, <2>6 DEF Undisturbed
  <2>9. Pushed(t)
    <3>1. [reads EXCEPT ![t] = reads[t]] = reads
      BY <1>3
    <3>2. writes[t] \cup {k} = writes[t]
      BY <1>2
    <3>3. [writes EXCEPT ![t] = writes[t]] = writes
      BY <1>3
    <3>4. QED  BY <1>1, <1>2, <3>1, <3>2, <3>3 DEF Pushed
  <2>10. sequence' \in Nat /\ sequence' >= sequence /\ keys'[k].sequence \in 1 .. sequence'
           /\ keys[k] # Vacant
    BY <1>1, <1>3, <1>7, <2>3, <2>6
  <2>11. QED  BY <1>1, <2>2, <2>6, <2>7, <2>8, <2>9, <2>10, GrantStep
<1>10. QED  BY <1>8, <1>9

\* Only a caller of write_lock is at a key it wants for writing.
LEMMA WriteShape ==
  ASSUME NEW r, NEW R, NEW W, Shape(r, R, W), r.pc = "locking", TargetOf(r) = "WriteLock"
  PROVE  ~r.txn /\ AtWrite(r, R, W)
<1>1. LockingShape(r, R, W)
  BY DEF Shape
<1>2. \A S : ReadStage(S).target_state # "WriteLock" /\ TxnStage(S).target_state # "WriteLock"
  BY DEF ReadStage, TxnStage
<1>3. ~AtFilesystem(r, R, W)
  BY <1>2, Lists DEF AtFilesystem, TargetOf
<1>4. ~BeforeKeys(r, R, W)
  BY <1>2, Lists DEF BeforeKeys, TargetOf
<1>5. ~AtKeys(r, R, W)
  BY <1>2, Lists DEF AtKeys, TargetOf
<1>6. ~AtAttribute(r, R, W)
  <2> SUFFICES ASSUME NEW k, r.stages = <<TxnStage({k}), ReadStage({Filesystem})>> PROVE FALSE
    BY DEF AtAttribute
  <2>1. Head(r.stages) = TxnStage({k})
    BY Lists
  <2>2. QED  BY <1>2, <2>1 DEF TargetOf
<1>7. ~AtRead(r, R, W)
  <2> SUFFICES ASSUME NEW k, r.stages = <<ReadStage({k})>> PROVE FALSE
    BY DEF AtRead
  <2>1. Head(r.stages) = ReadStage({k})
    BY Lists
  <2>2. QED  BY <1>2, <2>1 DEF TargetOf
<1>8. QED  BY <1>1, <1>3, <1>4, <1>5, <1>6, <1>7 DEF LockingShape

\* lock(), when it asks readers to leave, keeps the invariant.
LEMMA StartWantWriteStep ==
  ASSUME IInv, NEW t \in Tasks, NEW g \in 0 .. MaxRepoll, Lock(t, g), StartWantWrite(t, g),
         NEW k, k = Key(t), NEW e, e = keys[k]
  PROVE  IInv'
<1>1. /\ Locking(t) /\ UNCHANGED <<calls, caller, commit_mutex>> /\ sequence' = sequence /\ Pushed(t)
      /\ Target(t) = "WriteLock" /\ e.state = "ReadLock"
  BY PushIsPushed DEF Lock, StartWantWrite
<1>2. k \in Keys
  BY <1>1, AtKey DEF IInv
<1>3. /\ keys \in [Keys -> LockEntry \cup {Vacant}] /\ task \in [Tasks -> TaskState]
      /\ sequence \in Nat
  BY DEF IInv, TypeOK
<1>4. e \in LockEntry /\ e # Vacant
  BY <1>1, <1>2, <1>3 DEF Vacant
<1>5. /\ e.read_count = Cardinality(Readers(k)) /\ Writers(k) = {} /\ Readers(k) # {}
  BY <1>1, <1>2, <1>4 DEF IInv, Table, EntryInv
<1>6. /\ reads' \in [Tasks -> SUBSET Keys] /\ writes' \in [Tasks -> SUBSET Keys]
      /\ \A u \in Tasks \ {t} : reads'[u] = reads[u] /\ writes'[u] = writes[u]
      /\ reads'[t] = reads[t] /\ writes'[t] = writes[t] \cup {k}
      /\ Readers(k)' = Readers(k) /\ Writers(k)' = {t}
      /\ ~task[t].want_write
  <2>1. /\ reads' \in [Tasks -> SUBSET Keys] /\ writes' \in [Tasks -> SUBSET Keys]
        /\ \A u \in Tasks \ {t} : reads'[u] = reads[u] /\ writes'[u] = writes[u]
        /\ reads'[t] = IF Target(t) = "ReadLock" THEN reads[t] \cup {k} ELSE reads[t]
        /\ writes'[t] = IF Target(t) = "ReadLock" THEN writes[t] ELSE writes[t] \cup {k}
    BY <1>1, PushedHolders
  <2>2. /\ Readers(k)' = IF Target(t) = "ReadLock" THEN Readers(k) \cup {t} ELSE Readers(k)
        /\ Writers(k)' = IF Target(t) = "ReadLock" THEN Writers(k) ELSE Writers(k) \cup {t}
        /\ t \in Writers(k) <=> task[t].want_write
    BY <1>1, PushedHolders
  <2>3. QED  BY <1>1, <1>5, <2>1, <2>2
<1>7. Cardinality(Readers(k)) \in Nat /\ Cardinality(Readers(k)) # 0
  BY <1>5, Counts DEF Readers
<1> DEFINE w == [task |-> t, poll |-> g]
           f == WithState(e, "WantWrite", w)
           r == PolledTask(task[t], TRUE, g)
<1>8. keys' = [keys EXCEPT ![k] = f]
  <2>1. keys' = [keys EXCEPT ![k].state = "WantWrite", ![k].waker = w]
    BY DEF StartWantWrite
  <2>2. QED  BY <1>2, <1>3, <2>1 DEF WithState
<1>9. task' = [task EXCEPT ![t] = r]
  <2>1. task' = [task EXCEPT ![t].want_write = TRUE, ![t].poll = g]
    BY DEF StartWantWrite
  <2>2. QED  BY <1>3, <2>1 DEF PolledTask
<1>10. awake' = [awake EXCEPT ![t] = FALSE]
  BY DEF StartWantWrite
<1>11. /\ f \in LockEntry /\ f.state = "WantWrite" /\ f.waker = w
       /\ f.read_count = e.read_count /\ f.sequence = e.sequence /\ f.wakers = e.wakers
  <2>1. w \in Waker
    BY DEF Waker
  <2>2. QED  BY <1>4, <2>1, WithStateFields
<1>12. /\ r \in TaskState /\ r.poll = g /\ r.want_write = TRUE
       /\ r.pc = task[t].pc /\ r.stages = task[t].stages /\ r.txn = task[t].txn
       /\ r.upgraded = task[t].upgraded /\ r.waker_sequence = task[t].waker_sequence
       /\ r.waker_index = task[t].waker_index
  <2>1. task[t] \in TaskState
    BY <1>3
  <2>2. QED  BY <2>1, PolledFields
<1> HIDE DEF f, r
<1>13. f # Vacant
  BY <1>11, EntriesAreNotVacant
<1>14. EntryInv(f, Readers(k)', Writers(k)')
  BY <1>5, <1>6, <1>11, <1>13 DEF EntryInv
<1>15. Undisturbed(t, keys[k], f, k \in writes'[t])
  BY <1>1, <1>6, <1>11, <1>13 DEF Undisturbed
<1>16. Shape(task[t], reads[t], writes[t]) /\ task[t].pc = "locking"
  BY <1>1 DEF IInv, Shapes, Locking
<1>17. Shape(r, reads'[t], writes'[t])
  <2>1. TargetOf(task[t]) = "WriteLock" /\ KeyOf(task[t]) = k
    BY <1>1 DEF Target, TargetOf, Key, KeyOf
  <2>2. ~task[t].txn /\ AtWrite(task[t], reads[t], writes[t])
    BY <1>16, <2>1, WriteShape
  <2>3. PICK j \in Keys : /\ task[t].stages = <<WriteStage({j})>> /\ reads[t] = {}
                          /\ writes[t] = {} /\ j \in Objects \cup {Filesystem}
    BY <1>6, <2>2 DEF AtWrite
  <2>4. j = k
    BY <2>1, <2>3, Lists, FirstOfOne DEF KeyOf, WriteStage
  <2>5. AtWrite(r, reads'[t], writes'[t])
    BY <1>6, <1>12, <2>3, <2>4 DEF AtWrite
  <2>6. LockingShape(r, reads'[t], writes'[t])
    BY <1>12, <2>2, <2>5 DEF LockingShape
  <2>7. QED  BY <1>12, <1>16, <2>2, <2>6 DEF Shape
<1>18. r.upgraded = {} /\ r.waker_sequence <= sequence /\ r.pc = "locking" /\ KeyOf(r) = k
  BY <1>12, <1>16 DEF Shape, IInv, Sequences, Key, KeyOf
<1>19. f.sequence = r.waker_sequence
         => r.waker_index \in DOMAIN f.wakers /\ f.wakers[r.waker_index].task = t
  BY <1>1, <1>4, <1>11, <1>12 DEF IInv, OwnSlots, OwnSlot
<1>20. f.state = "WantWrite" /\ f.waker = [task |-> t, poll |-> r.poll] /\ f.read_count > 0
  BY <1>5, <1>7, <1>11, <1>12
<1>21. \A j \in Keys \ {k} : (j \in reads'[t] <=> j \in reads[t])
                               /\ (j \in writes'[t] <=> j \in writes[t])
  BY <1>6
<1>22. QED
  BY <1>1, <1>2, <1>4, <1>6, <1>8, <1>9, <1>10, <1>11, <1>12, <1>14, <1>15, <1>17, <1>18,
     <1>19, <1>20, <1>21, EntryStep

\* The task after its waker has been appended to an entry.
Appended(old, g, s, i) == [old EXCEPT !.poll = g, !.waker_sequence = s, !.waker_index = i]

\* The fields of a task whose waker has been appended.
LEMMA AppendedFields ==
  ASSUME NEW old \in TaskState, NEW g \in 0 .. MaxRepoll, NEW s \in Nat, NEW i \in Nat
  PROVE  /\ Appended(old, g, s, i) \in TaskState /\ Appended(old, g, s, i).poll = g
         /\ Appended(old, g, s, i).want_write = old.want_write
         /\ Appended(old, g, s, i).pc = old.pc /\ Appended(old, g, s, i).stages = old.stages
         /\ Appended(old, g, s, i).txn = old.txn
         /\ Appended(old, g, s, i).upgraded = old.upgraded
         /\ Appended(old, g, s, i).waker_sequence = s
         /\ Appended(old, g, s, i).waker_index = i
BY DEF TaskState, Appended

\* lock(), when it leaves a waker in the entry, keeps the invariant: the slot it
\* overwrites is its own.
LEMMA WaitStep ==
  ASSUME IInv, NEW t \in Tasks, NEW g \in 0 .. MaxRepoll, Lock(t, g), Wait(t, g),
         NEW k, k = Key(t), NEW e, e = keys[k]
  PROVE  IInv'
<1>1. /\ Locking(t) /\ UNCHANGED <<calls, caller, commit_mutex>> /\ sequence' = sequence /\ reads' = reads
      /\ writes' = writes /\ e # Vacant /\ ~task[t].want_write /\ e.state # "ReadLock"
      /\ awake' = [awake EXCEPT ![t] = FALSE]
  BY DEF Lock, Wait
<1>2. k \in Keys
  BY <1>1, AtKey DEF IInv
<1>3. /\ keys \in [Keys -> LockEntry \cup {Vacant}] /\ task \in [Tasks -> TaskState]
      /\ sequence \in Nat
      /\ reads \in [Tasks -> SUBSET Keys] /\ writes \in [Tasks -> SUBSET Keys]
  BY DEF IInv, TypeOK
<1>4. e \in LockEntry /\ e.wakers \in Seq(Waker)
  <2>1. e \in LockEntry
    BY <1>1, <1>2, <1>3
  <2>2. QED  BY <2>1 DEF LockEntry
<1>5. EntryInv(e, Readers(k)', Writers(k)')
  BY <1>1, <1>2 DEF IInv, Table, Readers, Writers
<1>6. Shape(task[t], reads[t], writes[t]) /\ task[t].pc = "locking" /\ task[t].upgraded = {}
  BY <1>1 DEF IInv, Shapes, Locking, Shape
<1> DEFINE w == [task |-> t, poll |-> g]
<1>7. w \in Waker /\ w.task = t
  BY DEF Waker
<1>8. ASSUME NEW r \in TaskState, task' = [task EXCEPT ![t] = r], r.poll = g,
             r.pc = task[t].pc, r.stages = task[t].stages, r.txn = task[t].txn,
             r.upgraded = task[t].upgraded, r.want_write = task[t].want_write,
             r.waker_sequence <= sequence,
             NEW ws \in Seq(Waker), keys' = [keys EXCEPT ![k] = WithWakers(e, ws)],
             r.waker_index \in DOMAIN ws, ws[r.waker_index] = w,
             \A i \in DOMAIN e.wakers :
               e.wakers[i].task # t => i \in DOMAIN ws /\ ws[i] = e.wakers[i]
      PROVE  IInv'
  <2> DEFINE f == WithWakers(e, ws)
  <2>1. /\ f \in LockEntry /\ f.wakers = ws /\ f.state = e.state /\ f.waker = e.waker
        /\ f.read_count = e.read_count /\ f.sequence = e.sequence
    BY <1>4, <1>8, WithWakersFields
  <2>2. keys' = [keys EXCEPT ![k] = f]
    BY <1>8
  <2> HIDE DEF f
  <2>3. f # Vacant
    BY <2>1, EntriesAreNotVacant
  <2>4. EntryInv(f, Readers(k)', Writers(k)')
    BY <1>1, <1>5, <2>1, <2>3 DEF EntryInv
  <2>5. Undisturbed(t, keys[k], f, k \in writes'[t])
    <3>1. e.read_count \in Nat
      BY <1>4 DEF LockEntry
    <3>2. QED  BY <1>8, <2>1, <2>3, <3>1 DEF Undisturbed
  <2>6. Shape(r, reads'[t], writes'[t])
    BY <1>1, <1>6, <1>8, ShapeKept
  <2>7. r.upgraded = {} /\ r.pc = "locking" /\ KeyOf(r) = k /\ ~r.want_write
    BY <1>1, <1>6, <1>8 DEF Key, KeyOf
  <2>8. /\ r.waker_index \in DOMAIN f.wakers /\ f.wakers[r.waker_index].task = t
        /\ f.wakers[r.waker_index] = [task |-> t, poll |-> r.poll]
    BY <1>7, <1>8, <2>1
  <2>9. f.state # "ReadLock"
    BY <1>1, <2>1
  <2>10. QED
    <3>1. \E i \in DOMAIN f.wakers : f.wakers[i] = [task |-> t, poll |-> r.poll]
      BY <2>8
    <3>2. keys[k] # Vacant /\ FALSE \in BOOLEAN
      BY <1>1
    <3>3. QED
      BY <1>1, <1>2, <1>3, <1>8, <2>1, <2>2, <2>4, <2>5, <2>6, <2>7, <2>8, <2>9, <3>1, <3>2,
         EntryStep
<1>9. CASE e.sequence = task[t].waker_sequence
  <2> DEFINE i == task[t].waker_index
             ws == [e.wakers EXCEPT ![i] = w]
             r == PolledTask(task[t], FALSE, g)
  <2>1. i \in DOMAIN e.wakers /\ e.wakers[i].task = t
    BY <1>1, <1>9 DEF IInv, OwnSlots, OwnSlot
  <2>2. /\ ws \in Seq(Waker) /\ i \in DOMAIN ws /\ ws[i] = w
        /\ \A j \in DOMAIN e.wakers : e.wakers[j].task # t => j \in DOMAIN ws /\ ws[j] = e.wakers[j]
    <3> HIDE DEF i, w
    <3>1. QED  BY <1>4, <1>7, <2>1
  <2>3. keys' = [keys EXCEPT ![k] = WithWakers(e, ws)]
    <3>1. keys' = [keys EXCEPT ![k].wakers[i] = w]
      BY <1>9 DEF Wait
    <3> HIDE DEF i, w
    <3>2. QED  BY <1>2, <1>3, <3>1 DEF WithWakers
  <2>4. task' = [task EXCEPT ![t] = r]
    <3>1. [task[t] EXCEPT !.poll = g] = r
      BY <1>1, <1>3 DEF TaskState, PolledTask
    <3>2. task' = [task EXCEPT ![t] = [task[t] EXCEPT !.poll = g]]
      BY <1>3, <1>9 DEF Wait
    <3>3. QED  BY <3>1, <3>2
  <2>5. /\ r \in TaskState /\ r.poll = g /\ r.want_write = FALSE
        /\ r.pc = task[t].pc /\ r.stages = task[t].stages /\ r.txn = task[t].txn
        /\ r.upgraded = task[t].upgraded /\ r.waker_sequence = task[t].waker_sequence
        /\ r.waker_index = i
    BY <1>3, PolledFields
  <2>6. r.waker_sequence <= sequence /\ r.want_write = task[t].want_write
    <3>1. task[t].want_write = FALSE
      BY <1>1, <1>3 DEF TaskState
    <3>2. QED  BY <2>5, <3>1 DEF IInv, Sequences
  <2> HIDE DEF r, ws, w, i
  <2>7. QED  BY <1>8, <2>2, <2>3, <2>4, <2>5, <2>6
<1>10. CASE e.sequence # task[t].waker_sequence
  <2> DEFINE i == Len(e.wakers) + 1
             ws == Append(e.wakers, w)
             r == Appended(task[t], g, sequence, i)
  <2>1. /\ ws \in Seq(Waker) /\ i \in DOMAIN ws /\ ws[i] = w /\ i \in Nat
        /\ \A j \in DOMAIN e.wakers : e.wakers[j].task # t => j \in DOMAIN ws /\ ws[j] = e.wakers[j]
    <3> HIDE DEF w
    <3>1. QED  BY <1>4, <1>7
  <2>2. keys' = [keys EXCEPT ![k] = WithWakers(e, ws)]
    <3>1. keys' = [keys EXCEPT ![k].wakers = Append(@, w)]
      BY <1>10 DEF Wait
    <3> HIDE DEF w
    <3>2. QED  BY <1>2, <1>3, <3>1 DEF WithWakers
  <2>3. task' = [task EXCEPT ![t] = r]
    <3>1. task' = [task EXCEPT ![t].poll = g, ![t].waker_sequence = sequence, ![t].waker_index = i]
      BY <1>10 DEF Wait
    <3> HIDE DEF i
    <3>2. QED  BY <1>3, <3>1 DEF Appended
  <2>4. /\ r \in TaskState /\ r.poll = g /\ r.want_write = task[t].want_write
        /\ r.pc = task[t].pc /\ r.stages = task[t].stages /\ r.txn = task[t].txn
        /\ r.upgraded = task[t].upgraded /\ r.waker_sequence = sequence
        /\ r.waker_index = i
    <3>1. task[t] \in TaskState /\ sequence \in Nat /\ i \in Nat
      BY <1>3, <2>1
    <3> HIDE DEF i
    <3>2. r \in TaskState /\ r.poll = g
      BY <3>1, AppendedFields
    <3>3. r.pc = task[t].pc /\ r.stages = task[t].stages /\ r.upgraded = task[t].upgraded
      BY <3>1, AppendedFields
    <3>4. r.waker_sequence = sequence /\ r.waker_index = i
      BY <3>1 DEF Appended, TaskState
    <3>5. r.txn = task[t].txn
      BY <3>1 DEF Appended, TaskState
    <3>6. r.want_write = task[t].want_write
      BY <3>1 DEF Appended, TaskState
    <3>7. QED  BY <3>2, <3>3, <3>4, <3>5, <3>6
  <2> HIDE DEF r, ws, w, i
  <2>5. r.waker_sequence <= sequence
    BY <1>3, <2>4
  <2>6. QED  BY <1>8, <2>1, <2>2, <2>3, <2>4, <2>5
<1>11. QED  BY <1>9, <1>10

\* Every poll of lock() keeps the invariant.
LEMMA LockStep ==
  ASSUME IInv, NEW t \in Tasks, NEW g \in 0 .. MaxRepoll, Lock(t, g)
  PROVE  IInv'
<1>1. PICK k : k = Key(t)
  OBVIOUS
<1>2. PICK e : e = keys[k]
  OBVIOUS
<1>3. CASE PollVacant(t, g)
  BY <1>1, <1>3, PollVacantStep
<1>4. CASE PollWantWrite(t, g)
  BY <1>1, <1>2, <1>4, PollWantWriteStep
<1>5. CASE StartWantWrite(t, g)
  BY <1>1, <1>2, <1>5, StartWantWriteStep
<1>6. CASE PollShared(t, g)
  BY <1>1, <1>2, <1>6, PollSharedStep
<1>7. CASE Wait(t, g)
  BY <1>1, <1>2, <1>7, WaitStep
<1>8. QED  BY <1>3, <1>4, <1>5, <1>6, <1>7 DEF Lock

-----------------------------------------------------------------------------
(* The upgrade of a transaction's locks.                                    *)

\* The task after it has upgraded one more lock.
Raised(old, g, U, pc) == [old EXCEPT !.poll = g, !.upgraded = U, !.pc = pc]

\* The fields of a task that has upgraded one more lock.
LEMMA RaisedFields ==
  ASSUME NEW old \in TaskState, NEW g \in 0 .. MaxRepoll, NEW U \in SUBSET Keys,
         NEW pc \in {"committing", "preparing"}
  PROVE  /\ Raised(old, g, U, pc) \in TaskState /\ Raised(old, g, U, pc).poll = g
         /\ Raised(old, g, U, pc).pc = pc /\ Raised(old, g, U, pc).upgraded = U
         /\ Raised(old, g, U, pc).waker_sequence = old.waker_sequence
BY DEF TaskState, Raised

\* It is still a transaction, and still does not wait in lock().
LEMMA RaisedFlags ==
  ASSUME NEW old \in TaskState, NEW g \in 0 .. MaxRepoll, NEW U \in SUBSET Keys,
         NEW pc \in {"committing", "preparing"}, old.txn, ~old.want_write
  PROVE  Raised(old, g, U, pc).txn /\ ~Raised(old, g, U, pc).want_write
BY DEF TaskState, Raised

\* Every poll of commit_prepare keeps the invariant.
LEMMA CommitPrepareStep ==
  ASSUME IInv, NEW t \in Tasks, NEW g \in 0 .. MaxRepoll, CommitPrepare(t, g),
         NEW k, k = NextUpgrade(t), NEW e, e = keys[k]
  PROVE  IInv'
<1>1. /\ task[t].pc = "preparing" /\ UNCHANGED <<calls, caller, commit_mutex>> /\ sequence' = sequence /\ reads' = reads
      /\ writes' = writes
  BY DEF CommitPrepare
<1>2. k \in Keys /\ k \in writes[t] /\ k \notin task[t].upgraded
  BY <1>1, NextUpgradeIsMine DEF IInv
<1>3. /\ keys \in [Keys -> LockEntry \cup {Vacant}] /\ task \in [Tasks -> TaskState]
      /\ sequence \in Nat /\ task[t] \in TaskState
      /\ reads \in [Tasks -> SUBSET Keys] /\ writes \in [Tasks -> SUBSET Keys]
  BY DEF IInv, TypeOK
<1>4. t \in Writers(k)
  BY <1>2 DEF Writers
<1>5. /\ e # Vacant /\ e.read_count = Cardinality(Readers(k)) /\ \A a, b \in Writers(k) : a = b
      /\ e.state # "ReadLock"
  BY <1>2, <1>4 DEF IInv, Table, EntryInv
<1>6. e \in LockEntry /\ e.read_count \in Nat
  <2>1. e \in LockEntry
    BY <1>2, <1>3, <1>5
  <2>2. QED  BY <2>1 DEF LockEntry
<1>7. Readers(k)' = Readers(k) /\ Writers(k)' = Writers(k)
  BY <1>1 DEF Readers, Writers
<1>8. /\ Shape(task[t], reads[t], writes[t]) /\ task[t].txn /\ ~task[t].want_write
      /\ reads[t] = {Filesystem} /\ writes[t] \subseteq TxnKeys
      /\ task[t].upgraded \subseteq writes[t]
  BY <1>1 DEF IInv, Shapes, Shape
<1>9. \A j \in task[t].upgraded : j # k /\ keys[j].state = "WriteLock"
  BY <1>2 DEF IInv, Upgraded
<1>10. task[t].waker_sequence <= sequence
  BY DEF IInv, Sequences
<1>11. CASE HasReaders(k)
  <2> DEFINE w == [task |-> t, poll |-> g]
             f == WithState(e, "WantWrite", w)
             r == PolledTask(task[t], FALSE, g)
  <2>1. keys' = [keys EXCEPT ![k] = f]
    <3>1. keys' = [keys EXCEPT ![k].state = "WantWrite", ![k].waker = w]
      BY <1>11 DEF CommitPrepare, NextUpgrade
    <3>2. QED  BY <1>2, <1>3, <3>1 DEF WithState
  <2>2. task' = [task EXCEPT ![t] = r]
    <3>1. [task[t] EXCEPT !.poll = g] = r
      BY <1>3, <1>8 DEF TaskState, PolledTask
    <3>2. task' = [task EXCEPT ![t] = [task[t] EXCEPT !.poll = g]]
      BY <1>3, <1>11 DEF CommitPrepare, NextUpgrade
    <3>3. QED  BY <3>1, <3>2
  <2>3. awake' = [awake EXCEPT ![t] = FALSE]
    BY <1>11 DEF CommitPrepare, NextUpgrade
  <2>4. /\ f \in LockEntry /\ f.state = "WantWrite" /\ f.waker = w
        /\ f.read_count = e.read_count /\ f.sequence = e.sequence /\ f.wakers = e.wakers
    <3>1. w \in Waker
      BY DEF Waker
    <3>2. QED  BY <1>6, <3>1, WithStateFields
  <2>5. /\ r \in TaskState /\ r.poll = g /\ r.want_write = FALSE
        /\ r.pc = task[t].pc /\ r.stages = task[t].stages /\ r.txn = task[t].txn
        /\ r.upgraded = task[t].upgraded /\ r.waker_sequence = task[t].waker_sequence
    BY <1>3, PolledFields
  <2> HIDE DEF f, r
  <2>6. f # Vacant
    BY <2>4, EntriesAreNotVacant
  <2>7. EntryInv(f, Readers(k)', Writers(k)')
    BY <1>4, <1>5, <1>7, <2>4, <2>6 DEF EntryInv
  <2>8. Undisturbed(t, keys[k], f, k \in writes'[t])
    BY <1>1, <1>2, <2>4, <2>6 DEF Undisturbed
  <2>9. Shape(r, reads'[t], writes'[t])
    <3>1. r.want_write = task[t].want_write
      BY <1>3, <1>8, <2>5 DEF TaskState
    <3>2. QED  BY <1>1, <1>8, <2>5, <3>1, ShapeKept
  <2>10. /\ r.waker_sequence <= sequence /\ r.pc = "preparing"
         /\ First(writes'[t] \ r.upgraded) = k
    BY <1>1, <1>10, <2>5 DEF NextUpgrade
  <2>11. f.state = "WantWrite" /\ f.waker = [task |-> t, poll |-> r.poll] /\ f.read_count > 0
    BY <1>11, <2>4, <2>5 DEF HasReaders
  <2>12. \A j \in r.upgraded : IF j = k THEN f.state = "WriteLock"
                                        ELSE keys[j].state = "WriteLock"
    BY <1>9, <2>5
  <2>13. keys[k] # Vacant /\ FALSE \in BOOLEAN
    BY <1>5
  <2>14. QED
    BY <1>1, <1>2, <1>3, <2>1, <2>2, <2>3, <2>4, <2>5, <2>7, <2>8, <2>9, <2>10, <2>11, <2>12,
       <2>13, EntryStep
<1>12. CASE ~HasReaders(k)
  <2> DEFINE f == WithState(e, "WriteLock", NoWaker)
             U == task[t].upgraded \cup {k}
             pc == IF U = writes[t] THEN "committing" ELSE "preparing"
             r == Raised(task[t], g, U, pc)
  <2>1. keys' = [keys EXCEPT ![k] = f]
    <3>1. keys' = [keys EXCEPT ![k].state = "WriteLock", ![k].waker = NoWaker]
      BY <1>12 DEF CommitPrepare, NextUpgrade
    <3>2. QED  BY <1>2, <1>3, <3>1 DEF WithState
  <2>2. task' = [task EXCEPT ![t] = r]
    <3>1. task' = [task EXCEPT ![t].poll = g, ![t].upgraded = U,
                               ![t].pc = IF U = writes[t] THEN "committing" ELSE @]
      BY <1>12 DEF CommitPrepare, NextUpgrade
    <3> HIDE DEF U
    <3>2. QED  BY <1>1, <1>3, <3>1 DEF Raised
  <2>3. awake' = [awake EXCEPT ![t] = TRUE]
    BY <1>12 DEF CommitPrepare, NextUpgrade
  <2>4. /\ f \in LockEntry /\ f.state = "WriteLock"
        /\ f.read_count = e.read_count /\ f.sequence = e.sequence /\ f.wakers = e.wakers
    BY <1>6, WithStateFields DEF TargetState
  <2>5. U \in SUBSET Keys /\ pc \in {"committing", "preparing"} /\ U \subseteq writes[t]
    <3>1. task[t].upgraded \in SUBSET Keys
      BY <1>3 DEF TaskState
    <3>2. QED  BY <1>2, <1>8, <3>1
  <2>6. pc = "committing" <=> U = writes[t]
    OBVIOUS
  <2>7. \A j \in U : j = k \/ keys[j].state = "WriteLock"
    BY <1>9
  <2> HIDE DEF U, pc
  <2>8. /\ r \in TaskState /\ r.poll = g /\ r.pc = pc /\ r.upgraded = U
        /\ r.waker_sequence = task[t].waker_sequence
    BY <1>3, <2>5, RaisedFields
  <2>9. r.txn /\ ~r.want_write
    BY <1>3, <1>8, <2>5, RaisedFlags
  <2> HIDE DEF f, r
  <2>10. f # Vacant
    BY <2>4, EntriesAreNotVacant
  <2>11. Readers(k) = {}
    <3>1. Cardinality(Readers(k)) = 0
      BY <1>5, <1>6, <1>12 DEF HasReaders
    <3>2. QED  BY <3>1, Counts DEF Readers
  <2>12. EntryInv(f, Readers(k)', Writers(k)')
    BY <1>4, <1>5, <1>7, <2>4, <2>10, <2>11 DEF EntryInv
  <2>13. Undisturbed(t, keys[k], f, k \in writes'[t])
    BY <1>1, <1>2, <2>4, <2>10 DEF Undisturbed
  <2>14. Shape(r, reads'[t], writes'[t])
    BY <1>1, <1>8, <2>5, <2>6, <2>8, <2>9 DEF Shape
  <2>15. r.waker_sequence <= sequence /\ r.pc # "locking"
    BY <1>10, <2>5, <2>8
  <2>16. \A j \in r.upgraded : IF j = k THEN f.state = "WriteLock"
                                        ELSE keys[j].state = "WriteLock"
    BY <2>4, <2>7, <2>8
  <2>17. keys[k] # Vacant /\ TRUE \in BOOLEAN
    BY <1>5
  <2>18. QED
    BY <1>1, <1>2, <1>3, <2>1, <2>2, <2>3, <2>4, <2>8, <2>12, <2>13, <2>14, <2>15, <2>16,
       <2>17, EntryStep
<1>13. QED  BY <1>11, <1>12

-----------------------------------------------------------------------------
(* Locks that are given back.                                               *)

\* An entry left to its readers, and one with a reader less.
Relinquished(e, s) ==
    [e EXCEPT !.state = "ReadLock", !.waker = NoWaker, !.wakers = <<>>, !.sequence = s]

ReadFreed(e) ==
    IF e.read_count = 1 /\ e.state = "ReadLock" THEN Vacant
    ELSE WithReaders(e, e.read_count - 1)

\* The fields of an entry that drop_write_locks leaves to its readers.
LEMMA RelinquishedFields ==
  ASSUME NEW e \in LockEntry, NEW s \in Nat
  PROVE  /\ Relinquished(e, s) \in LockEntry
         /\ Relinquished(e, s).state = "ReadLock" /\ Relinquished(e, s).sequence = s
         /\ Relinquished(e, s).read_count = e.read_count
<1>1. <<>> \in Seq(Waker)
  OBVIOUS
<1>2. QED  BY <1>1 DEF LockEntry, Relinquished, TargetState

\* A writer that leaves.
LEMMA WriterLeaves ==
  ASSUME NEW R \in SUBSET Tasks, NEW W \in SUBSET Tasks, NEW t \in W,
         NEW e \in LockEntry \cup {Vacant}, EntryInv(e, R, W), NEW s \in Nat
  PROVE  /\ e \in LockEntry
         /\ e.state \in {"Locked", "WantWrite"} /\ e.read_count > 0
              => Relinquished(e, s) # Vacant /\ EntryInv(Relinquished(e, s), R, W \ {t})
         /\ ~(e.state \in {"Locked", "WantWrite"} /\ e.read_count > 0)
              => EntryInv(Vacant, R, W \ {t})
<1>1. e \in LockEntry /\ e # Vacant /\ e.state # "ReadLock"
  BY DEF EntryInv
<1>2. e.read_count = Cardinality(R) /\ Cardinality(R) \in Nat /\ (Cardinality(R) = 0 <=> R = {})
  BY <1>1, Counts DEF EntryInv
<1>3. W \ {t} = {} /\ (e.state = "WriteLock" => R = {})
  BY <1>1 DEF EntryInv
<1>4. ASSUME e.read_count > 0
      PROVE  Relinquished(e, s) # Vacant /\ EntryInv(Relinquished(e, s), R, W \ {t})
  <2>1. /\ Relinquished(e, s) # Vacant /\ Relinquished(e, s).state = "ReadLock"
        /\ Relinquished(e, s).read_count = e.read_count
    BY <1>1, RelinquishedFields, EntriesAreNotVacant
  <2>2. R # {}
    BY <1>2, <1>4
  <2>3. QED  BY <1>2, <1>3, <2>1, <2>2 DEF EntryInv
<1>5. ASSUME ~(e.state \in {"Locked", "WantWrite"} /\ e.read_count > 0)
      PROVE  EntryInv(Vacant, R, W \ {t})
  <2>1. e.state \in {"ReadLock", "Locked", "WriteLock", "WantWrite"}
    BY <1>1 DEF LockEntry, TargetState
  <2>2. R = {}
    BY <1>1, <1>2, <1>3, <1>5, <2>1
  <2>3. QED  BY <1>3, <2>2 DEF EntryInv
<1>6. QED  BY <1>1, <1>4, <1>5

\* A reader that leaves.
LEMMA ReaderLeaves ==
  ASSUME NEW R \in SUBSET Tasks, NEW W \in SUBSET Tasks, NEW t \in R,
         NEW e \in LockEntry \cup {Vacant}, EntryInv(e, R, W)
  PROVE  /\ e \in LockEntry /\ e.read_count \in Nat \ {0} /\ e.state # "WriteLock"
         /\ ReadFreed(e) \in LockEntry \cup {Vacant}
         /\ EntryInv(ReadFreed(e), R \ {t}, W)
         /\ ReadFreed(e) # Vacant =>
              /\ ReadFreed(e).read_count = e.read_count - 1
              /\ ReadFreed(e).state = e.state /\ ReadFreed(e).waker = e.waker
              /\ ReadFreed(e).wakers = e.wakers /\ ReadFreed(e).sequence = e.sequence
         /\ e.state # "ReadLock" => ReadFreed(e) # Vacant
<1>1. e \in LockEntry /\ e # Vacant /\ e.state # "WriteLock"
  BY DEF EntryInv
<1>2. /\ e.read_count = Cardinality(R) /\ Cardinality(R) \in Nat \ {0}
      /\ Cardinality(R \ {t}) = Cardinality(R) - 1
      /\ Cardinality(R \ {t}) = 0 <=> R \ {t} = {}
  <2>1. Cardinality(R) \in Nat /\ Cardinality(R) # 0 /\ Cardinality(R \ {t}) = Cardinality(R) - 1
    BY Counts
  <2>2. Cardinality(R \ {t}) = 0 <=> R \ {t} = {}
    BY Counts
  <2>3. QED  BY <1>1, <2>1, <2>2 DEF EntryInv
<1>3. CASE e.read_count = 1 /\ e.state = "ReadLock"
  <2>1. ReadFreed(e) = Vacant
    BY <1>3 DEF ReadFreed
  <2>2. R \ {t} = {} /\ W = {}
    BY <1>1, <1>2, <1>3 DEF EntryInv
  <2>3. EntryInv(Vacant, R \ {t}, W)
    BY <2>2 DEF EntryInv
  <2>4. QED  BY <1>1, <1>2, <1>3, <2>1, <2>3
<1>4. CASE ~(e.read_count = 1 /\ e.state = "ReadLock")
  <2> DEFINE f == WithReaders(e, e.read_count - 1)
  <2>1. ReadFreed(e) = f
    BY <1>4 DEF ReadFreed
  <2>2. e.read_count - 1 \in Nat
    BY <1>2
  <2>3. /\ f \in LockEntry /\ f.read_count = e.read_count - 1
        /\ f.state = e.state /\ f.waker = e.waker
        /\ f.wakers = e.wakers /\ f.sequence = e.sequence
    BY <1>1, <2>2, WithReadersFields
  <2> HIDE DEF f
  <2>4. f # Vacant
    BY <2>3, EntriesAreNotVacant
  <2>5. e.state = "ReadLock" => R \ {t} # {}
    BY <1>2, <1>4
  <2>6. EntryInv(f, R \ {t}, W)
    BY <1>1, <1>2, <2>3, <2>4, <2>5 DEF EntryInv
  <2>7. QED  BY <1>1, <1>2, <2>1, <2>3, <2>4, <2>6
<1>5. QED  BY <1>3, <1>4

\* The new sequence numbers of the entries that are left to their readers.
LEMMA NewSequences ==
  ASSUME IInv, NEW S \in SUBSET Keys
  PROVE  /\ Cardinality(LeftToReaders(S)) \in Nat
         /\ \A j \in LeftToReaders(S) :
              Cardinality({i \in LeftToReaders(S) : i <= j}) \in 1 .. Cardinality(LeftToReaders(S))
<1> DEFINE L == LeftToReaders(S)
<1>1. L \subseteq Keys
  BY DEF LeftToReaders
<1>2. IsFiniteSet(L) /\ Cardinality(L) \in Nat
  BY <1>1, FS_Subset, FS_CardinalityType, KeysAssumption
<1> HIDE DEF L
<1>3. ASSUME NEW j \in L
      PROVE  Cardinality({i \in L : i <= j}) \in 1 .. Cardinality(L)
  <2> DEFINE B == {i \in L : i <= j}
  <2>1. B \subseteq L /\ j \in B
    BY <1>1, KeysAssumption
  <2> HIDE DEF B
  <2>2. IsFiniteSet(B) /\ Cardinality(B) \in Nat /\ Cardinality(B) <= Cardinality(L)
    BY <1>2, <2>1, FS_Subset, FS_CardinalityType
  <2>3. Cardinality(B) # 0
    BY <2>1, <2>2, FS_EmptySet
  <2>4. Cardinality(B) \in 1 .. Cardinality(L)
    BY <1>2, <2>2, <2>3
  <2>5. QED  BY <2>4 DEF B
<1>4. QED  BY <1>2, <1>3 DEF L

\* Task t gives back the keys WS it holds for writing and RS it holds for
\* reading.
GivesBack(t, WS, RS) ==
    /\ WS \subseteq writes[t] /\ RS \subseteq reads[t] /\ WS \cap RS = {}
    /\ OthersStay(t)
    /\ task'[t] \in TaskState /\ task' \in [Tasks -> TaskState]
    /\ task'[t].pc \notin {"locking", "preparing"} /\ task'[t].upgraded = {}
    /\ task'[t].waker_sequence <= sequence
    /\ Shape(task'[t], reads'[t], writes'[t])
    /\ reads' = [reads EXCEPT ![t] = @ \ RS] /\ writes' = [writes EXCEPT ![t] = @ \ WS]
    /\ awake' \in [Tasks -> BOOLEAN] /\ UNCHANGED <<calls, commit_mutex>>
    /\ caller' \in [Tasks -> Tasks \cup {NoTask}]
    /\ \A u \in Tasks \ {t} :
         awake'[u] <=> \/ awake[u]
                       \/ CurrentWaker(u) \in WokenByWriter(WS) \cup WokenByReader(keys, RS)
    /\ sequence' = sequence + Cardinality(LeftToReaders(WS))
    /\ keys' \in [Keys -> {keys'[j] : j \in Keys}]
    /\ \A j \in Keys \ (WS \cup RS) : keys'[j] = keys[j]
    /\ \A j \in RS : keys'[j] = ReadFreed(keys[j])
    /\ \A j \in WS \ LeftToReaders(WS) : keys'[j] = Vacant
    /\ \A j \in LeftToReaders(WS) :
         keys'[j] = Relinquished(keys[j],
                      sequence + Cardinality({i \in LeftToReaders(WS) : i <= j}))

\* Giving keys back keeps the invariant: whoever waited for a key that is given
\* back is woken, and whoever is not woken still waits for somebody.
LEMMA DropStep ==
  ASSUME IInv, NEW t \in Tasks, NEW WS, NEW RS, GivesBack(t, WS, RS)
  PROVE  IInv' /\ OthersUnmoved(t)
<1> USE DEF GivesBack
<1>1. /\ keys \in [Keys -> LockEntry \cup {Vacant}] /\ task \in [Tasks -> TaskState]
      /\ sequence \in Nat
      /\ reads \in [Tasks -> SUBSET Keys] /\ writes \in [Tasks -> SUBSET Keys]
  BY DEF IInv, TypeOK
<1>2. WS \subseteq Keys /\ RS \subseteq Keys
  BY <1>1
<1>3. /\ Cardinality(LeftToReaders(WS)) \in Nat
      /\ \A j \in LeftToReaders(WS) :
           Cardinality({i \in LeftToReaders(WS) : i <= j}) \in 1 .. Cardinality(LeftToReaders(WS))
  BY <1>2, NewSequences
<1>4. LeftToReaders(WS) \subseteq WS
        /\ \A j \in WS : j \in LeftToReaders(WS) <=>
             keys[j].state \in {"Locked", "WantWrite"} /\ keys[j].read_count > 0
  BY DEF LeftToReaders
<1>5. \A u \in Tasks \ {t} : /\ task'[u] = task[u] /\ reads'[u] = reads[u]
                             /\ writes'[u] = writes[u] /\ CurrentWaker(u)' = CurrentWaker(u)
  BY DEF OthersStay, CurrentWaker
<1>6. reads'[t] = reads[t] \ RS /\ writes'[t] = writes[t] \ WS
  BY <1>1
<1>7. ASSUME NEW j \in WS
      PROVE  /\ t \in Writers(j) /\ Readers(j)' = Readers(j) /\ Writers(j)' = Writers(j) \ {t}
             /\ keys[j] \in LockEntry
             /\ keys'[j] \in LockEntry \cup {Vacant}
             /\ EntryInv(keys'[j], Readers(j)', Writers(j)')
             /\ keys'[j] # Vacant => keys'[j].sequence \in sequence + 1 .. sequence'
  <2>1. t \in Writers(j) /\ Readers(j)' = Readers(j) /\ Writers(j)' = Writers(j) \ {t}
    BY <1>5, <1>6, <1>7 DEF Readers, Writers
  <2>2. /\ j \in Keys /\ keys[j] \in LockEntry \cup {Vacant}
        /\ EntryInv(keys[j], Readers(j), Writers(j))
    BY <1>1, <1>2 DEF IInv, Table
  <2>3. Readers(j) \in SUBSET Tasks /\ Writers(j) \in SUBSET Tasks
    BY DEF Readers, Writers
  <2>4. CASE j \in LeftToReaders(WS)
    <3> DEFINE s == sequence + Cardinality({i \in LeftToReaders(WS) : i <= j})
    <3>1. s \in sequence + 1 .. sequence' /\ s \in Nat /\ keys'[j] = Relinquished(keys[j], s)
      <4>1. /\ Cardinality({i \in LeftToReaders(WS) : i <= j})
                  \in 1 .. Cardinality(LeftToReaders(WS))
            /\ Cardinality(LeftToReaders(WS)) \in Nat
        BY <1>3, <2>4
      <4>2. sequence' = sequence + Cardinality(LeftToReaders(WS)) /\ sequence \in Nat
        BY <1>1
      <4>3. s \in sequence + 1 .. sequence' /\ s \in Nat
        BY <4>1, <4>2
      <4>4. QED  BY <2>4, <4>3
    <3> HIDE DEF s
    <3>2. /\ keys[j] \in LockEntry /\ Relinquished(keys[j], s) # Vacant
          /\ EntryInv(Relinquished(keys[j], s), Readers(j), Writers(j) \ {t})
      <4>1. keys[j].state \in {"Locked", "WantWrite"} /\ keys[j].read_count > 0
        BY <1>4, <2>4
      <4>2. t \in Writers(j) /\ s \in Nat
        BY <2>1, <3>1
      <4>3. PICK R, W, e : R = Readers(j) /\ W = Writers(j) /\ e = keys[j]
        OBVIOUS
      <4>4. /\ R \in SUBSET Tasks /\ W \in SUBSET Tasks /\ t \in W
            /\ e \in LockEntry \cup {Vacant} /\ EntryInv(e, R, W)
            /\ e.state \in {"Locked", "WantWrite"} /\ e.read_count > 0
        BY <2>2, <2>3, <4>1, <4>2, <4>3
      <4>5. /\ e \in LockEntry /\ Relinquished(e, s) # Vacant
            /\ EntryInv(Relinquished(e, s), R, W \ {t})
        <5> HIDE DEF GivesBack
        <5>1. e \in LockEntry
          BY <4>2, <4>4, WriterLeaves
        <5>2. Relinquished(e, s) # Vacant
          BY <4>2, <4>4, WriterLeaves
        <5>3. EntryInv(Relinquished(e, s), R, W \ {t})
          BY <4>2, <4>4, WriterLeaves
        <5>4. QED  BY <5>1, <5>2, <5>3
      <4>6. QED  BY <4>3, <4>5
    <3>3. Relinquished(keys[j], s) \in LockEntry /\ Relinquished(keys[j], s).sequence = s
      BY <3>1, <3>2, RelinquishedFields
    <3>4. QED  BY <2>1, <3>1, <3>2, <3>3
  <2>5. CASE j \notin LeftToReaders(WS)
    <3>1. keys'[j] = Vacant
      BY <2>5
    <3>2. ~(keys[j].state \in {"Locked", "WantWrite"} /\ keys[j].read_count > 0)
      BY <1>4, <2>5
    <3>3. keys[j] \in LockEntry /\ EntryInv(Vacant, Readers(j), Writers(j) \ {t})
      BY <1>1, <2>1, <2>2, <2>3, <3>2, WriterLeaves
    <3>4. QED  BY <2>1, <3>1, <3>3
  <2>6. QED  BY <2>4, <2>5
<1>8. ASSUME NEW j \in RS
      PROVE  /\ keys[j] \in LockEntry /\ keys[j].read_count \in Nat \ {0}
             /\ keys[j].state # "WriteLock"
             /\ keys'[j] \in LockEntry \cup {Vacant}
             /\ EntryInv(keys'[j], Readers(j)', Writers(j)')
             /\ keys'[j] # Vacant =>
                  /\ keys'[j].read_count = keys[j].read_count - 1
                  /\ keys'[j].state = keys[j].state /\ keys'[j].waker = keys[j].waker
                  /\ keys'[j].wakers = keys[j].wakers /\ keys'[j].sequence = keys[j].sequence
             /\ keys[j].state # "ReadLock" => keys'[j] # Vacant
  <2>1. t \in Readers(j) /\ Readers(j)' = Readers(j) \ {t} /\ Writers(j)' = Writers(j)
    BY <1>5, <1>6, <1>8 DEF Readers, Writers
  <2>2. /\ j \in Keys /\ keys[j] \in LockEntry \cup {Vacant}
        /\ EntryInv(keys[j], Readers(j), Writers(j))
    BY <1>1, <1>2 DEF IInv, Table
  <2>3. Readers(j) \in SUBSET Tasks /\ Writers(j) \in SUBSET Tasks
    BY DEF Readers, Writers
  <2>4. keys'[j] = ReadFreed(keys[j])
    OBVIOUS
  <2>5. PICK R, W, e, f : R = Readers(j) /\ W = Writers(j) /\ e = keys[j] /\ f = ReadFreed(e)
    OBVIOUS
  <2>6. /\ R \in SUBSET Tasks /\ W \in SUBSET Tasks /\ t \in R
        /\ e \in LockEntry \cup {Vacant} /\ EntryInv(e, R, W)
    BY <2>1, <2>2, <2>3, <2>5
  <2>7. /\ e \in LockEntry /\ e.read_count \in Nat \ {0} /\ e.state # "WriteLock"
        /\ f \in LockEntry \cup {Vacant}
        /\ EntryInv(f, R \ {t}, W)
        /\ f # Vacant =>
             /\ f.read_count = e.read_count - 1
             /\ f.state = e.state /\ f.waker = e.waker
             /\ f.wakers = e.wakers /\ f.sequence = e.sequence
        /\ e.state # "ReadLock" => f # Vacant
    <3>1. /\ e \in LockEntry /\ e.read_count \in Nat \ {0} /\ e.state # "WriteLock"
          /\ ReadFreed(e) \in LockEntry \cup {Vacant}
      BY <2>6, ReaderLeaves
    <3>2. EntryInv(ReadFreed(e), R \ {t}, W)
      BY <2>6, ReaderLeaves
    <3>3. ReadFreed(e) # Vacant =>
             /\ ReadFreed(e).read_count = e.read_count - 1
             /\ ReadFreed(e).state = e.state /\ ReadFreed(e).waker = e.waker
             /\ ReadFreed(e).wakers = e.wakers /\ ReadFreed(e).sequence = e.sequence
      BY <2>6, ReaderLeaves
    <3>4. e.state # "ReadLock" => ReadFreed(e) # Vacant
      BY <2>6, ReaderLeaves
    <3>5. QED  BY <2>5, <3>1, <3>2, <3>3, <3>4
  <2>8. keys'[j] = f /\ keys[j] = e /\ Readers(j)' = R \ {t} /\ Writers(j)' = W
    BY <2>1, <2>4, <2>5
  <2>9. QED  BY <2>7, <2>8
<1>9. TypeOK'
  <2>1. \A j \in Keys : keys'[j] \in LockEntry \cup {Vacant}
    BY <1>1, <1>7, <1>8
  <2>2. keys' \in [Keys -> LockEntry \cup {Vacant}]
    BY <2>1
  <2>3. sequence' \in Nat
    BY <1>1, <1>3
  <2>4. reads' \in [Tasks -> SUBSET Keys] /\ writes' \in [Tasks -> SUBSET Keys]
    BY <1>1
  <2>5. QED  BY <2>2, <2>3, <2>4 DEF IInv, TypeOK
<1>10. Shapes'
  BY <1>5 DEF IInv, Shapes
<1>11. Table'
  <2> SUFFICES ASSUME NEW j \in Keys PROVE EntryInv(keys'[j], Readers(j)', Writers(j)')
    BY DEF Table
  <2>1. CASE j \in WS  BY <1>7, <2>1
  <2>2. CASE j \in RS  BY <1>8, <2>2
  <2>3. CASE j \notin WS \cup RS
    <3>1. Readers(j)' = Readers(j) /\ Writers(j)' = Writers(j)
      BY <1>5, <1>6, <2>3 DEF Readers, Writers
    <3>2. QED  BY <2>3, <3>1 DEF IInv, Table
  <2>4. QED  BY <2>1, <2>2, <2>3
<1>12. ASSUME NEW u \in Tasks \ {t}, NEW j \in writes[u]
       PROVE  j \in Keys /\ j \notin WS
  <2>1. j \in Keys /\ u \in Writers(j)
    BY <1>1 DEF Writers
  <2>2. SUFFICES ASSUME j \in WS PROVE FALSE
    BY <2>1
  <2>3. t \in Writers(j)
    BY <2>2 DEF Writers
  <2>4. QED  BY <2>1, <2>3 DEF IInv, Table, EntryInv
<1>13. Upgraded'
  <2> SUFFICES ASSUME NEW u \in Tasks \ {t}, NEW j \in task'[u].upgraded
               PROVE  keys'[j].state = "WriteLock"
    BY DEF Upgraded
  <2>1. j \in writes[u] /\ keys[j].state = "WriteLock"
    BY <1>5, UpgradedAreWrites DEF IInv, Upgraded
  <2>2. j \in Keys /\ j \notin WS /\ j \notin RS
    BY <1>8, <1>12, <2>1
  <2>3. QED  BY <2>1, <2>2
<1>14. Sequences'
  <2>1. sequence' \in Nat /\ sequence' >= sequence
    BY <1>1, <1>3
  <2>2. ASSUME NEW j \in Keys, keys'[j] # Vacant PROVE keys'[j].sequence \in 1 .. sequence'
    <3>1. CASE j \in WS
      BY <1>1, <1>7, <2>1, <2>2, <3>1
    <3>2. CASE j \notin WS
      <4>1. keys[j] # Vacant /\ keys'[j].sequence = keys[j].sequence
        BY <1>8, <2>2, <3>2, EntriesAreNotVacant
      <4>2. keys[j].sequence \in 1 .. sequence
        BY <4>1 DEF IInv, Sequences
      <4>3. QED  BY <1>1, <2>1, <4>1, <4>2
    <3>3. QED  BY <3>1, <3>2
  <2>3. ASSUME NEW u \in Tasks PROVE task'[u].waker_sequence <= sequence'
    <3>1. task'[u].waker_sequence <= sequence
      BY <1>5 DEF IInv, Sequences
    <3>2. task'[u].waker_sequence \in Nat
      BY DEF TaskState
    <3>3. QED  BY <1>1, <2>1, <3>1, <3>2
  <2>4. QED  BY <2>2, <2>3 DEF Sequences
<1>15. ASSUME NEW u \in Tasks \ {t}, Locking(u)'
       PROVE  Locking(u) /\ Key(u)' = Key(u) /\ Key(u) \in Keys
  <2>1. Locking(u) /\ Key(u)' = Key(u)
    BY <1>5, <1>15 DEF Locking, Key
  <2>2. QED  BY <2>1, AtKey DEF IInv
<1>16. OwnSlots'
  <2> SUFFICES ASSUME NEW u \in Tasks, Locking(u)', keys'[Key(u)'] # Vacant,
                      keys'[Key(u)'].sequence = task'[u].waker_sequence
               PROVE  /\ task'[u].waker_index \in DOMAIN keys'[Key(u)'].wakers
                      /\ keys'[Key(u)'].wakers[task'[u].waker_index].task = u
    BY DEF OwnSlots, OwnSlot
  <2>1. u # t
    BY DEF Locking
  <2>2. PICK j : j = Key(u)
    OBVIOUS
  <2>3. Locking(u) /\ Key(u)' = j /\ j \in Keys /\ task'[u] = task[u]
    BY <1>5, <1>15, <2>1, <2>2
  <2>4. j \notin WS
    <3>1. task[u].waker_sequence <= sequence /\ task[u].waker_sequence \in Nat
      BY <1>1 DEF IInv, Sequences, TaskState
    <3>2. SUFFICES ASSUME j \in WS PROVE FALSE
      OBVIOUS
    <3>3. keys'[j].sequence \in sequence + 1 .. sequence'
      BY <1>7, <2>3, <3>2
    <3>4. QED  BY <1>1, <2>3, <3>1, <3>3
  <2>5. /\ keys[j] # Vacant /\ keys'[j].sequence = keys[j].sequence
        /\ keys'[j].wakers = keys[j].wakers
    BY <1>8, <2>3, <2>4, EntriesAreNotVacant
  <2>6. QED  BY <2>2, <2>3, <2>5 DEF IInv, OwnSlots, OwnSlot
<1>17. Asleep'
  <2> SUFFICES ASSUME NEW u \in Tasks \ {t}, ~awake'[u] PROVE SleepsWell(u)'
    BY DEF Asleep, SleepsWell, Locking
  <2>1. /\ task'[u] = task[u] /\ writes'[u] = writes[u] /\ CurrentWaker(u)' = CurrentWaker(u)
        /\ ~awake[u] /\ CurrentWaker(u) \notin WokenByWriter(WS)
        /\ CurrentWaker(u) \notin WokenByReader(keys, RS)
    BY <1>5
  <2>2. SleepsWell(u)
    BY DEF IInv, Asleep
  <2>3. ASSUME NEW j \in writes[u], AwaitsReaders(u, j)
        PROVE  AwaitsReaders(u, j)'
    <3>1. j \in Keys /\ j \notin WS
      BY <1>12
    <3>2. keys[j] # Vacant /\ keys[j].state = "WantWrite" /\ keys[j].waker = CurrentWaker(u)
            /\ keys[j].read_count > 0
      BY <2>3 DEF AwaitsReaders
    <3>3. CASE j \in RS
      <4>1. keys[j].read_count # 1
        BY <2>1, <3>2, <3>3 DEF WokenByReader
      <4>2. /\ keys'[j] # Vacant /\ keys'[j].read_count = keys[j].read_count - 1
            /\ keys'[j].state = "WantWrite" /\ keys'[j].waker = CurrentWaker(u)
            /\ keys[j].read_count \in Nat \ {0}
        BY <1>8, <3>2, <3>3
      <4>3. keys'[j].read_count > 0
        BY <4>1, <4>2
      <4>4. QED  BY <2>1, <4>2, <4>3 DEF AwaitsReaders
    <3>4. CASE j \notin RS
      BY <2>1, <3>1, <3>2, <3>4 DEF AwaitsReaders
    <3>5. QED  BY <3>3, <3>4
  <2>4. ASSUME NEW j \in Keys, AwaitsWriter(u, j)
        PROVE  AwaitsWriter(u, j)'
    <3>1. PICK i \in DOMAIN keys[j].wakers : keys[j].wakers[i] = CurrentWaker(u)
      BY <2>4 DEF AwaitsWriter
    <3>2. keys[j] # Vacant /\ keys[j].state # "ReadLock"
      BY <2>4 DEF AwaitsWriter
    <3>3. j \notin WS
      BY <2>1, <3>1 DEF WokenByWriter, WakersOf
    <3>4. keys'[j] # Vacant /\ keys'[j].state # "ReadLock" /\ keys'[j].wakers = keys[j].wakers
      BY <1>8, <3>2, <3>3
    <3>5. QED  BY <2>1, <3>1, <3>4 DEF AwaitsWriter
  <2>5. ASSUME Locking(u)', task'[u].want_write PROVE AwaitsReaders(u, Key(u))'
    <3>1. Locking(u) /\ task[u].want_write /\ Key(u)' = Key(u)
      BY <1>15, <2>1, <2>5
    <3>2. Key(u) \in writes[u]
      BY <3>1, AtKey DEF IInv
    <3>3. AwaitsReaders(u, Key(u))
      BY <2>1, <2>2, <3>1 DEF SleepsWell
    <3>4. QED  BY <2>3, <3>1, <3>2, <3>3 DEF AwaitsReaders
  <2>6. ASSUME Locking(u)', ~task'[u].want_write PROVE AwaitsWriter(u, Key(u))'
    <3>1. Locking(u) /\ ~task[u].want_write /\ Key(u)' = Key(u) /\ Key(u) \in Keys
      BY <1>15, <2>1, <2>6
    <3>2. AwaitsWriter(u, Key(u))
      BY <2>1, <2>2, <3>1 DEF SleepsWell
    <3>3. QED  BY <2>4, <3>1, <3>2 DEF AwaitsWriter
  <2>7. ASSUME task'[u].pc = "preparing" PROVE AwaitsReaders(u, NextUpgrade(u))'
    <3>1. task[u].pc = "preparing"
      BY <2>1, <2>7
    <3>2. NextUpgrade(u) \in writes[u]
      BY <3>1, NextUpgradeIsMine DEF IInv
    <3>3. AwaitsReaders(u, NextUpgrade(u))
      BY <2>1, <2>2, <3>1 DEF SleepsWell
    <3>4. NextUpgrade(u)' = NextUpgrade(u)
      BY <2>1 DEF NextUpgrade
    <3>5. QED  BY <2>3, <3>2, <3>3, <3>4 DEF AwaitsReaders
  <2>8. QED  BY <2>5, <2>6, <2>7 DEF SleepsWell
<1>18. OthersUnmoved(t)
  <2>1. SUFFICES ASSUME NEW u \in Tasks \ {t}, NEW j \in writes[u]
                 PROVE  keys'[j].state = keys[j].state
    BY DEF OthersUnmoved
  <2>2. j \in Keys /\ j \notin WS
    BY <1>12
  <2>3. CASE j \in RS
    <3>1. u \in Writers(j)
      BY DEF Writers
    <3>2. keys[j].state # "ReadLock"
      BY <1>8, <2>2, <2>3, <3>1, EntriesAreNotVacant DEF IInv, Table, EntryInv
    <3>3. QED  BY <1>8, <2>3, <3>2
  <2>4. QED  BY <2>2, <2>3
<1>19. QED  BY <1>9, <1>10, <1>11, <1>13, <1>14, <1>16, <1>17, <1>18 DEF IInv

\* Dropping a write guard keeps the invariant.
LEMMA DropWriteGuardStep ==
  ASSUME IInv, NEW t \in Tasks, DropWriteGuard(t)
  PROVE  IInv' /\ OthersUnmoved(t)
<1>1. PICK WS, RS : WS = writes[t] /\ RS = {}
  OBVIOUS
<1>2. /\ task \in [Tasks -> TaskState] /\ sequence \in Nat
      /\ reads \in [Tasks -> SUBSET Keys] /\ writes \in [Tasks -> SUBSET Keys]
      /\ awake \in [Tasks -> BOOLEAN] /\ caller \in [Tasks -> Tasks \cup {NoTask}]
  BY DEF IInv, TypeOK
<1>3. /\ task[t].pc = "dropping" /\ task' = task /\ reads' = reads /\ UNCHANGED <<calls, caller, commit_mutex>>
      /\ keys' = DropWriteLocks(WS) /\ awake' = Wake(WokenByWriter(WS))
      /\ writes' = [writes EXCEPT ![t] = {}]
      /\ sequence' = sequence + Cardinality(LeftToReaders(WS))
  BY <1>1 DEF DropWriteGuard
<1>4. reads' = [reads EXCEPT ![t] = @ \ RS] /\ writes' = [writes EXCEPT ![t] = @ \ WS]
  <2>1. reads[t] \ RS = reads[t] /\ writes[t] \ WS = {}
    BY <1>1
  <2>2. QED  BY <1>2, <1>3, <2>1
<1>5. OthersStay(t)
  BY <1>2, <1>3 DEF OthersStay
<1>6. /\ task'[t].pc = "dropping" /\ task'[t].upgraded = {} /\ task'[t].waker_sequence <= sequence
      /\ Shape(task'[t], reads'[t], writes'[t])
  <2>1. Shape(task[t], reads[t], writes[t]) /\ task[t].waker_sequence <= sequence
    BY DEF IInv, Shapes, Sequences
  <2>2. QED  BY <1>3, <2>1 DEF Shape
<1>7. WokenByReader(keys, RS) = {}
  BY <1>1 DEF WokenByReader
<1>8. /\ awake' \in [Tasks -> BOOLEAN]
      /\ \A u \in Tasks \ {t} :
           awake'[u] <=> \/ awake[u]
                         \/ CurrentWaker(u) \in WokenByWriter(WS) \cup WokenByReader(keys, RS)
  BY <1>2, <1>3, <1>7 DEF Wake
<1>9. /\ keys' \in [Keys -> {keys'[j] : j \in Keys}]
      /\ \A j \in Keys \ (WS \cup RS) : keys'[j] = keys[j]
      /\ \A j \in RS : keys'[j] = ReadFreed(keys[j])
  BY <1>1, <1>3 DEF DropWriteLocks
<1>10. LeftToReaders(WS) \subseteq WS /\ WS \subseteq Keys
  BY <1>1, <1>2 DEF LeftToReaders
<1>11. \A j \in WS \ LeftToReaders(WS) : keys'[j] = Vacant
  BY <1>3, <1>10 DEF DropWriteLocks
<1>12. \A j \in LeftToReaders(WS) :
         keys'[j] = Relinquished(keys[j],
                      sequence + Cardinality({i \in LeftToReaders(WS) : i <= j}))
  BY <1>3, <1>10 DEF DropWriteLocks, Relinquished
<1>13. WS \subseteq writes[t] /\ RS \subseteq reads[t] /\ WS \cap RS = {}
         /\ task'[t] \in TaskState /\ task' \in [Tasks -> TaskState]
         /\ caller' \in [Tasks -> Tasks \cup {NoTask}]
  BY <1>1, <1>2, <1>3
<1>14. GivesBack(t, WS, RS)
  BY <1>3, <1>4, <1>5, <1>6, <1>8, <1>9, <1>11, <1>12, <1>13 DEF GivesBack
<1>15. QED  BY <1>14, DropStep

\* Dropping a read guard keeps the invariant.
LEMMA DropReadGuardStep ==
  ASSUME IInv, NEW t \in Tasks, DropReadGuard(t)
  PROVE  IInv' /\ OthersUnmoved(t)
<1>1. PICK WS, RS : WS = {} /\ RS = reads[t]
  OBVIOUS
<1>2. /\ task \in [Tasks -> TaskState] /\ sequence \in Nat
      /\ reads \in [Tasks -> SUBSET Keys] /\ writes \in [Tasks -> SUBSET Keys]
      /\ awake \in [Tasks -> BOOLEAN] /\ caller \in [Tasks -> Tasks \cup {NoTask}]
  BY DEF IInv, TypeOK
<1>3. /\ task[t].pc = "dropping" /\ task' = task /\ writes' = writes /\ UNCHANGED <<calls, caller, commit_mutex>>
      /\ keys' = DropReadLocks(keys, RS) /\ awake' = Wake(WokenByReader(keys, RS))
      /\ reads' = [reads EXCEPT ![t] = {}] /\ sequence' = sequence
  BY <1>1 DEF DropReadGuard
<1>4. reads' = [reads EXCEPT ![t] = @ \ RS] /\ writes' = [writes EXCEPT ![t] = @ \ WS]
  <2>1. reads[t] \ RS = {} /\ writes[t] \ WS = writes[t]
    BY <1>1
  <2>2. QED  BY <1>2, <1>3, <2>1
<1>5. OthersStay(t)
  BY <1>2, <1>3 DEF OthersStay
<1>6. /\ task'[t].pc = "dropping" /\ task'[t].upgraded = {} /\ task'[t].waker_sequence <= sequence
      /\ Shape(task'[t], reads'[t], writes'[t])
  <2>1. Shape(task[t], reads[t], writes[t]) /\ task[t].waker_sequence <= sequence
    BY DEF IInv, Shapes, Sequences
  <2>2. QED  BY <1>3, <2>1 DEF Shape
<1>7. WokenByWriter(WS) = {} /\ LeftToReaders(WS) = {}
  BY <1>1 DEF WokenByWriter, LeftToReaders
<1>8. /\ awake' \in [Tasks -> BOOLEAN]
      /\ \A u \in Tasks \ {t} :
           awake'[u] <=> \/ awake[u]
                         \/ CurrentWaker(u) \in WokenByWriter(WS) \cup WokenByReader(keys, RS)
  BY <1>2, <1>3, <1>7 DEF Wake
<1>9. /\ keys' \in [Keys -> {keys'[j] : j \in Keys}]
      /\ \A j \in Keys \ (WS \cup RS) : keys'[j] = keys[j]
  BY <1>1, <1>3 DEF DropReadLocks
<1>10. \A j \in RS : keys'[j] = ReadFreed(keys[j])
  BY <1>1, <1>2, <1>3 DEF DropReadLocks, ReadFreed, WithReaders
<1>11. sequence' = sequence + Cardinality(LeftToReaders(WS))
  BY <1>2, <1>3, <1>7, FS_EmptySet
<1>12. WS \subseteq writes[t] /\ RS \subseteq reads[t] /\ WS \cap RS = {}
         /\ task'[t] \in TaskState /\ task' \in [Tasks -> TaskState]
         /\ caller' \in [Tasks -> Tasks \cup {NoTask}]
  BY <1>1, <1>2, <1>3
<1>13. /\ \A j \in WS \ LeftToReaders(WS) : keys'[j] = Vacant
       /\ \A j \in LeftToReaders(WS) :
            keys'[j] = Relinquished(keys[j],
                         sequence + Cardinality({i \in LeftToReaders(WS) : i <= j}))
  BY <1>1, <1>7
<1>14. GivesBack(t, WS, RS)
  BY <1>3, <1>4, <1>5, <1>6, <1>8, <1>9, <1>10, <1>11, <1>12, <1>13 DEF GivesBack
<1>15. QED  BY <1>14, DropStep

\* Dropping a transaction, which gives back both kinds of locks, keeps the
\* invariant.
LEMMA DropTransactionStep ==
  ASSUME IInv, NEW t \in Tasks, DropTransaction(t)
  PROVE  IInv' /\ OthersUnmoved(t)
<1>1. PICK WS, RS : WS = writes[t] /\ RS = reads[t]
  OBVIOUS
<1>2. /\ task \in [Tasks -> TaskState] /\ sequence \in Nat
      /\ reads \in [Tasks -> SUBSET Keys] /\ writes \in [Tasks -> SUBSET Keys]
      /\ awake \in [Tasks -> BOOLEAN]
  BY DEF IInv, TypeOK
<1>3. PICK table : table = DropWriteLocks(WS)
  OBVIOUS
<1>4. /\ task[t].txn /\ task[t].pc \in {"holding", "preparing", "committing", "committed"}
      /\ task' = [task EXCEPT ![t] = Idle] /\ UNCHANGED <<calls, commit_mutex>>
      /\ caller' \in [Tasks -> Tasks \cup {NoTask}]
      /\ keys' = DropReadLocks(table, RS)
      /\ awake' = [Wake(WokenByWriter(WS) \cup WokenByReader(table, RS)) EXCEPT ![t] = FALSE]
      /\ reads' = [reads EXCEPT ![t] = {}] /\ writes' = [writes EXCEPT ![t] = {}]
      /\ sequence' = sequence + Cardinality(LeftToReaders(WS))
  BY <1>1, <1>3 DEF DropTransaction, IInv, TypeOK
<1>5. RS = {Filesystem} /\ WS \subseteq TxnKeys /\ WS \cap RS = {}
  BY <1>1, <1>4, KeysAssumption DEF IInv, Shapes, Shape
<1>6. reads' = [reads EXCEPT ![t] = @ \ RS] /\ writes' = [writes EXCEPT ![t] = @ \ WS]
  <2>1. reads[t] \ RS = {} /\ writes[t] \ WS = {}
    BY <1>1
  <2>2. QED  BY <1>2, <1>4, <2>1
<1>7. /\ OthersStay(t) /\ task'[t] = Idle /\ reads'[t] = {} /\ writes'[t] = {}
      /\ task' \in [Tasks -> TaskState]
  BY <1>2, <1>4, IdleFields DEF OthersStay
<1>8. /\ task'[t].pc = "idle" /\ task'[t].upgraded = {} /\ task'[t].waker_sequence <= sequence
      /\ Shape(task'[t], reads'[t], writes'[t]) /\ task'[t] \in TaskState
  BY <1>2, <1>7, IdleFields DEF Shape
<1>9. WS \subseteq Keys /\ RS \subseteq Keys /\ LeftToReaders(WS) \subseteq WS
  BY <1>1, <1>2 DEF LeftToReaders
<1>10. /\ \A j \in Keys \ WS : table[j] = keys[j]
       /\ \A j \in WS \ LeftToReaders(WS) : table[j] = Vacant
  BY <1>3, <1>9 DEF DropWriteLocks
<1>11. \A j \in LeftToReaders(WS) :
         table[j] = Relinquished(keys[j],
                      sequence + Cardinality({i \in LeftToReaders(WS) : i <= j}))
  BY <1>3, <1>9 DEF DropWriteLocks, Relinquished
<1>12. \A j \in RS : table[j] = keys[j]
  BY <1>5, <1>9, <1>10
<1>13. WokenByReader(table, RS) = WokenByReader(keys, RS)
  BY <1>12 DEF WokenByReader
<1>14. /\ awake' \in [Tasks -> BOOLEAN]
       /\ \A u \in Tasks \ {t} :
            awake'[u] <=> \/ awake[u]
                          \/ CurrentWaker(u) \in WokenByWriter(WS) \cup WokenByReader(keys, RS)
  BY <1>2, <1>4, <1>13 DEF Wake
<1>15. keys' \in [Keys -> {keys'[j] : j \in Keys}] /\ \A j \in Keys \ RS : keys'[j] = table[j]
  BY <1>4 DEF DropReadLocks
<1>16. \A j \in RS : keys'[j] = ReadFreed(table[j])
  BY <1>4, <1>9 DEF DropReadLocks, ReadFreed, WithReaders
<1>17. \A j \in RS : keys'[j] = ReadFreed(keys[j])
  BY <1>12, <1>16
<1>18. /\ \A j \in Keys \ (WS \cup RS) : keys'[j] = keys[j]
       /\ \A j \in WS \ LeftToReaders(WS) : keys'[j] = Vacant
  BY <1>5, <1>9, <1>10, <1>15
<1>19. \A j \in LeftToReaders(WS) :
         keys'[j] = Relinquished(keys[j],
                      sequence + Cardinality({i \in LeftToReaders(WS) : i <= j}))
  <2>1. \A j \in LeftToReaders(WS) : keys'[j] = table[j]
    BY <1>5, <1>9, <1>15
  <2>2. QED  BY <1>11, <2>1
<1>20. WS \subseteq writes[t] /\ RS \subseteq reads[t]
  BY <1>1
<1>21. GivesBack(t, WS, RS)
  BY <1>4, <1>5, <1>6, <1>7, <1>8, <1>14, <1>15, <1>17, <1>18, <1>19, <1>20 DEF GivesBack
<1>22. QED  BY <1>21, DropStep

-----------------------------------------------------------------------------

\* The invariant holds of an empty table.
LEMMA InitIInv ==
  ASSUME Init
  PROVE  IInv
<1> USE DEF Init
<1>1. TypeOK
  BY IdleFields, BoundsAssumption DEF TypeOK
<1>2. \A t \in Tasks : task[t] = Idle /\ reads[t] = {} /\ writes[t] = {}
  OBVIOUS
<1>3. \A k \in Keys : keys[k] = Vacant /\ Readers(k) = {} /\ Writers(k) = {}
  BY <1>2 DEF Readers, Writers
<1>4. Shapes
  BY <1>2, IdleFields DEF Shapes, Shape
<1>5. Table
  BY <1>3 DEF Table, EntryInv
<1>6. Upgraded
  BY <1>2, IdleFields DEF Upgraded
<1>7. Sequences
  BY <1>2, <1>3, IdleFields DEF Sequences
<1>8. OwnSlots /\ Asleep
  BY <1>2, IdleFields DEF OwnSlots, OwnSlot, Asleep, SleepsWell, Locking
<1>9. QED  BY <1>1, <1>4, <1>5, <1>6, <1>7, <1>8 DEF IInv

\* Every step keeps the invariant, one case for each operation.
LEMMA NextIInv ==
  ASSUME IInv, [Next]_vars
  PROVE  IInv'
<1>1. CASE UNCHANGED vars
  <2> USE <1>1 DEF vars, IInv
  <2>1. TypeOK'
    BY DEF TypeOK
  <2>2. Shapes' /\ Upgraded' /\ Sequences'
    BY DEF Shapes, Upgraded, Sequences
  <2>3. Table'
    BY DEF Table, Readers, Writers
  <2>4. OwnSlots'
    BY DEF OwnSlots, OwnSlot, Locking, Key
  <2>5. Asleep'
    BY DEF Asleep, SleepsWell, AwaitsReaders, AwaitsWriter, NextUpgrade, CurrentWaker, Locking, Key
  <2>6. QED  BY <2>1, <2>2, <2>3, <2>4, <2>5
<1>2. ASSUME NEW t \in Tasks, Begin(t) PROVE IInv'
  BY <1>2, BeginStep
<1>3. ASSUME NEW t \in Tasks, Commit(t) PROVE IInv'
  BY <1>3, CommitStep
<1>4. ASSUME NEW t \in Tasks, DropTransaction(t) PROVE IInv'
  BY <1>4, DropTransactionStep
<1>5. ASSUME NEW t \in Tasks, Cancel(t) \/ Release(t) PROVE IInv'
  BY <1>5, DroppingStep DEF Cancel, Release
<1>6. ASSUME NEW t \in Tasks, DropWriteGuard(t) PROVE IInv'
  BY <1>6, DropWriteGuardStep
<1>7. ASSUME NEW t \in Tasks, DropReadGuard(t) PROVE IInv'
  BY <1>7, DropReadGuardStep
<1>8. ASSUME NEW t \in Tasks, Dropped(t) PROVE IInv'
  BY <1>8, DroppedStep
<1>9. ASSUME NEW t \in Tasks, NEW g \in 0 .. MaxRepoll, Lock(t, g) PROVE IInv'
  BY <1>9, LockStep
<1>10. ASSUME NEW t \in Tasks, NEW g \in 0 .. MaxRepoll, CommitPrepare(t, g) PROVE IInv'
  <2>1. PICK k : k = NextUpgrade(t)
    OBVIOUS
  <2>2. PICK e : e = keys[k]
    OBVIOUS
  <2>3. QED  BY <1>10, <2>1, <2>2, CommitPrepareStep
<1>11. ASSUME NEW t \in Tasks, LockCommitMutex(t) \/ Applied(t) PROVE IInv'
  BY <1>11, CommitMutexStep
<1>12. ASSUME NEW t \in Tasks, NEW u \in Tasks,
              ReadNested(t, u) \/ OpenStore(t, u) \/ PreCommit(t, u)
       PROVE  IInv'
  BY <1>12, CallStep
<1>13. QED
  BY <1>1, <1>2, <1>3, <1>4, <1>5, <1>6, <1>7, <1>8, <1>9, <1>10, <1>11, <1>12 DEF Next

-----------------------------------------------------------------------------
(* The results.                                                             *)

(***************************************************************************)
(* What every poll of lock() and commit_prepare and every drop of a guard  *)
(* or a transaction keeps: programs and guards agree, the table counts the *)
(* guards, an entry's sequence number identifies it, the slot a future     *)
(* remembers is its own, and a task that sleeps unwoken has left its       *)
(* current waker in the entry it is blocked by.                            *)
(***************************************************************************)
THEOREM Inductive == Spec => []IInv
<1>1. Init => IInv
  BY InitIInv
<1>2. IInv /\ [Next]_vars => IInv'
  BY NextIInv
<1>3. QED  BY <1>1, <1>2, PTL DEF Spec

(***************************************************************************)
(* The table, the locals of lock() and the guards have their types,        *)
(* read_count never goes below zero included.                              *)
(***************************************************************************)
THEOREM TypeCorrect == Spec => []TypeOK
<1>1. IInv => TypeOK
  BY DEF IInv
<1>2. QED  BY <1>1, Inductive, PTL

(***************************************************************************)
(* read_count is the number of read guards, an entry exists exactly as     *)
(* long as somebody holds the key and is in a writer's state exactly as    *)
(* long as one task has it for writing: drop_read_locks, drop_write_locks  *)
(* and commit_prepare never meet a key in a state they call unreachable!() *)
(* or an entry that is gone, whichever futures are dropped half-way.       *)
(***************************************************************************)
THEOREM TableSafe == Spec => []TableMatchesGuards
<1>1. ASSUME IInv PROVE TableMatchesGuards
  <2>1. SUFFICES ASSUME NEW k \in Keys
                 PROVE  IF keys[k] = Vacant
                        THEN Readers(k) = {} /\ Writers(k) = {}
                        ELSE /\ keys[k].read_count = Cardinality(Readers(k))
                             /\ Cardinality(Writers(k)) <= 1
                             /\ keys[k].state = "ReadLock" => Writers(k) = {} /\ Readers(k) # {}
                             /\ keys[k].state # "ReadLock" => Writers(k) # {}
    BY DEF TableMatchesGuards, Readers, Writers
  <2>2. EntryInv(keys[k], Readers(k), Writers(k))
    BY <1>1 DEF IInv, Table
  <2>3. ASSUME keys[k] # Vacant PROVE Cardinality(Writers(k)) <= 1
    <3>1. CASE Writers(k) = {}
      BY <3>1, FS_EmptySet
    <3>2. CASE Writers(k) # {}
      <4>1. PICK t : Writers(k) = {t}
        BY <2>2, <2>3, <3>2 DEF EntryInv
      <4>2. QED  BY <4>1, FS_Singleton
    <3>3. QED  BY <3>1, <3>2
  <2>4. QED  BY <2>2, <2>3 DEF EntryInv
<1>2. QED  BY <1>1, Inductive, PTL

(***************************************************************************)
(* Past commit_prepare, and with a write lock granted by lock(), a task is *)
(* the only one that holds the key.                                        *)
(***************************************************************************)
THEOREM ExclusiveSafe == Spec => []ExclusiveAccess
<1>1. ASSUME IInv PROVE ExclusiveAccess
  <2>1. SUFFICES ASSUME NEW t \in Tasks, NEW u \in Tasks, NEW k \in Keys,
                        t # u, Exclusive(t, k)
                 PROVE  k \notin reads[u] \cup writes[u]
    BY DEF ExclusiveAccess
  <2>2. k \in writes[t] /\ keys[k].state = "WriteLock"
    BY <1>1, <2>1 DEF IInv, Upgraded, Exclusive
  <2>3. t \in Writers(k)
    BY <2>2 DEF Writers
  <2>4. EntryInv(keys[k], Readers(k), Writers(k))
    BY <1>1 DEF IInv, Table
  <2>5. Readers(k) = {} /\ \A v \in Writers(k) : v = t
    BY <2>2, <2>3, <2>4 DEF EntryInv
  <2>6. u \notin Readers(k) /\ u \notin Writers(k)
    BY <2>1, <2>5
  <2>7. QED  BY <2>6 DEF Readers, Writers
<1>2. QED  BY <1>1, Inductive, PTL

(***************************************************************************)
(* A future that lock() or commit_prepare has left pending, and that       *)
(* nobody has woken, is blocked by its key, and its latest waker is in the *)
(* entry, where drop_read_locks or drop_write_locks will find it.          *)
(***************************************************************************)
THEOREM WakeupSafe == Spec => []NoLostWakeup
<1>1. ASSUME IInv PROVE NoLostWakeup
  <2>1. SUFFICES ASSUME NEW t \in Tasks, ~awake[t]
                 PROVE  /\ Locking(t) =>
                             /\ keys[Key(t)] # Vacant
                             /\ IF task[t].want_write
                                THEN /\ keys[Key(t)].state = "WantWrite"
                                     /\ keys[Key(t)].waker = CurrentWaker(t)
                                     /\ keys[Key(t)].read_count > 0
                                ELSE /\ keys[Key(t)].state \in {"Locked", "WantWrite", "WriteLock"}
                                     /\ \E i \in DOMAIN keys[Key(t)].wakers :
                                          keys[Key(t)].wakers[i] = CurrentWaker(t)
                        /\ task[t].pc = "preparing" =>
                             /\ keys[NextUpgrade(t)] # Vacant
                             /\ keys[NextUpgrade(t)].waker = CurrentWaker(t)
                             /\ keys[NextUpgrade(t)].read_count > 0
    BY DEF NoLostWakeup, NextUpgrade
  <2>2. /\ Locking(t) /\ task[t].want_write => AwaitsReaders(t, Key(t))
        /\ Locking(t) /\ ~task[t].want_write => AwaitsWriter(t, Key(t))
        /\ task[t].pc = "preparing" => AwaitsReaders(t, NextUpgrade(t))
    BY <1>1, <2>1 DEF IInv, Asleep, SleepsWell
  <2>3. ASSUME Locking(t), keys[Key(t)] # Vacant, keys[Key(t)].state # "ReadLock"
        PROVE  keys[Key(t)].state \in {"Locked", "WantWrite", "WriteLock"}
    <3>1. Key(t) \in Keys
      BY <1>1, <2>3, AtKey DEF IInv
    <3>2. keys[Key(t)] \in LockEntry
      BY <1>1, <2>3, <3>1 DEF IInv, TypeOK
    <3>3. QED  BY <2>3, <3>2 DEF LockEntry, TargetState
  <2>4. QED  BY <2>2, <2>3 DEF AwaitsReaders, AwaitsWriter
<1>2. QED  BY <1>1, Inductive, PTL

-----------------------------------------------------------------------------
(* Nested calls, the commit mutex and the journal's key.                    *)

\* Task v reads key k, or opens a store by its key k: it asks for the lock, or has it.
IsReader(v, k) ==
    /\ ~task[v].txn
    /\ \/ Locking(v) /\ task[v].stages = <<ReadStage({k})>>
       \/ task[v].pc = "holding" /\ reads[v] = {k} /\ writes[v] = {}

IsOpener(v, k) ==
    /\ ~task[v].txn
    /\ \/ Locking(v) /\ task[v].stages = <<WriteStage({k})>>
       \/ task[v].pc = "holding" /\ reads[v] = {} /\ writes[v] = {k}

\* A transaction that has keys of K still to lock.
AsksFor(stages, K) ==
    \E S \in SUBSET K :
      /\ S # {}
      /\ stages = <<ReadStage({Filesystem}), TxnStage(S)>> \/ stages = <<TxnStage(S)>>

\* Task v is the transaction of pre_commit.
IsExtender(v) ==
    /\ task[v].txn /\ task[v].pc \in {"locking", "holding"}
    /\ Locking(v) => AsksFor(task[v].stages, {Journal})

(***************************************************************************)
(* What a task v that t awaits can be doing: reading something that t may  *)
(* read (and a lock of t's own does not stop it), opening a store for      *)
(* fsck, extending the journal for a commit, or dropping its guards.       *)
(***************************************************************************)
CalledBy(t, v) ==
    \/ task[v].pc = "dropping" /\ task[t].pc \in {"holding", "applying"}
    \/ /\ task[t].pc = "holding"
       /\ \E k \in NestedReads(t) : /\ IsReader(v, k)
                                    /\ k \in writes[t] /\ Locking(v) => awake[v]
    \/ /\ task[t].pc = "holding" /\ Filesystem \in writes[t]
       /\ \E k \in Stores : IsOpener(v, k)
    \/ task[t].pc = "applying" /\ IsExtender(v)

Called == \A t, v \in Tasks : caller[v] = t => CalledBy(t, v)

\* Whoever has the commit mutex applies its transaction.
MutexHeld == commit_mutex \in Tasks => task[commit_mutex].pc = "applying"

\* Before its commit a transaction lets readers pass.
LetsPass(t) ==
    task[t].txn /\ task[t].pc \in {"locking", "holding"}
      => \A k \in writes[t] : keys[k].state = "Locked"

\* Only pre_commit locks the journal's key, and it commits without upgrading it; no
\* transaction locks a store.
JournalLast(v) ==
    /\ Journal \in writes[v] =>
         task[v].pc = "dropping" \/ (task[v].pc = "holding" /\ caller[v] # NoTask)
    /\ Locking(v) /\ task[v].txn /\ caller[v] = NoTask =>
         \/ task[v].stages = <<ReadStage({Filesystem})>>
         \/ AsksFor(task[v].stages, Objects \ Stores)
         \/ \E k \in Objects \ Stores :
              task[v].stages = <<TxnStage({k}), ReadStage({Filesystem})>>
    /\ task[v].txn => writes[v] \cap Stores = {}

CInv == Called /\ MutexHeld /\ (\A t \in Tasks : LetsPass(t)) /\ (\A t \in Tasks : JournalLast(t))

\* A task that awaits another one, and the one it awaits, are not disturbed by
\* the steps of a third.
LEMMA CalledStays ==
  ASSUME NEW t \in Tasks, NEW v \in Tasks, CalledBy(t, v), awake[v] => awake'[v],
         task'[t] = task[t], reads'[t] = reads[t], writes'[t] = writes[t],
         task'[v] = task[v], reads'[v] = reads[v], writes'[v] = writes[v]
  PROVE  CalledBy(t, v)'
<1>1. NestedReads(t)' = NestedReads(t)
  BY DEF NestedReads
<1>2. \A k : (IsReader(v, k)' <=> IsReader(v, k)) /\ (IsOpener(v, k)' <=> IsOpener(v, k))
  BY DEF IsReader, IsOpener, Locking
<1>3. (IsExtender(v)' <=> IsExtender(v)) /\ (Locking(v)' <=> Locking(v))
  BY DEF IsExtender, Locking
<1>4. CASE task[v].pc = "dropping" /\ task[t].pc \in {"holding", "applying"}
  BY <1>4 DEF CalledBy
<1>5. CASE /\ task[t].pc = "holding"
           /\ \E k \in NestedReads(t) : /\ IsReader(v, k)
                                        /\ k \in writes[t] /\ Locking(v) => awake[v]
  BY <1>1, <1>2, <1>3, <1>5 DEF CalledBy
<1>6. CASE /\ task[t].pc = "holding" /\ Filesystem \in writes[t]
           /\ \E k \in Stores : IsOpener(v, k)
  BY <1>2, <1>6 DEF CalledBy
<1>7. CASE task[t].pc = "applying" /\ IsExtender(v)
  BY <1>3, <1>7 DEF CalledBy
<1>8. QED  BY <1>4, <1>5, <1>6, <1>7 DEF CalledBy

\* A task that is awaited by another one is not idle, and that one is at a place
\* where it calls.
LEMMA CallPlaces ==
  ASSUME CInv, NEW t \in Tasks, NEW v \in Tasks, caller[v] = t
  PROVE  /\ task[t].pc \in {"holding", "applying"}
         /\ task[v].pc \in {"locking", "holding", "dropping"}
BY DEF CInv, Called, CalledBy, IsReader, IsOpener, IsExtender, Locking

\* A step of a task that awaits nobody.
LEMMA CStep ==
  ASSUME CInv, NEW t \in Tasks, Running(t), OthersUnmoved(t),
         \A v \in Tasks \ {t} : caller'[v] = caller[v],
         \A x \in Tasks : caller'[t] = x => CalledBy(x, t)',
         MutexHeld', LetsPass(t)', JournalLast(t)'
  PROVE  CInv'
<1>1. Called'
  <2>1. SUFFICES ASSUME NEW x \in Tasks, NEW v \in Tasks, caller'[v] = x
                 PROVE  CalledBy(x, v)'
    BY DEF Called
  <2>2. CASE v = t
    BY <2>1, <2>2
  <2>3. CASE v # t
    <3>1. caller[v] = x /\ x # t
      BY <2>1, <2>3 DEF Running
    <3>2. CalledBy(x, v)
      BY <3>1 DEF CInv, Called
    <3>3. QED  BY <2>3, <3>1, <3>2, CalledStays DEF OthersUnmoved, OthersStay
  <2>4. QED  BY <2>2, <2>3
<1>2. ASSUME NEW u \in Tasks \ {t} PROVE LetsPass(u)' /\ JournalLast(u)'
  <2>1. /\ task'[u] = task[u] /\ writes'[u] = writes[u] /\ caller'[u] = caller[u]
        /\ \A k \in writes[u] : keys'[k].state = keys[k].state
    BY DEF OthersUnmoved, OthersStay
  <2>2. LetsPass(u) /\ JournalLast(u)
    BY DEF CInv
  <2>3. LetsPass(u)'
    BY <2>1, <2>2 DEF LetsPass
  <2>4. JournalLast(u)'
    BY <2>1, <2>2 DEF JournalLast, Locking
  <2>5. QED  BY <2>3, <2>4
<1>3. QED  BY <1>1, <1>2 DEF CInv

\* A task that starts is not awaited and awaits nobody.
LEMMA StartPlace ==
  ASSUME IInv, CInv, NEW t \in Tasks, NEW txn \in BOOLEAN, NEW stages, Start(t, txn, stages)
  PROVE  /\ Running(t) /\ caller[t] = NoTask /\ OthersUnmoved(t) /\ MutexHeld' /\ LetsPass(t)'
         /\ task'[t].pc = "locking" /\ task'[t].txn = txn /\ task'[t].stages = stages
         /\ awake'[t] /\ reads'[t] = {} /\ writes'[t] = {}
<1> DEFINE r == [Idle EXCEPT !.pc = "locking", !.stages = stages, !.txn = txn]
<1>1. r.pc = "locking" /\ r.stages = stages /\ r.txn = txn
  BY IdleFields DEF TaskState
<1>2. task' = [task EXCEPT ![t] = r]
  BY DEF Start
<1> HIDE DEF r
<1>3. task'[t] = r /\ \A u \in Tasks \ {t} : task'[u] = task[u]
  BY <1>2 DEF IInv, TypeOK
<1>4. awake'[t] /\ \A u \in Tasks \ {t} : awake'[u] = awake[u]
  BY DEF Start, IInv, TypeOK
<1>5. task[t].pc = "idle" /\ UNCHANGED <<keys, reads, writes, commit_mutex>>
  BY DEF Start
<1>6. reads[t] = {} /\ writes[t] = {}
  BY <1>5 DEF IInv, Shapes, Shape
<1>7. OthersUnmoved(t)
  BY <1>3, <1>4, <1>5 DEF OthersUnmoved, OthersStay
<1>8. Running(t) /\ caller[t] = NoTask
  <2>1. Running(t)
    BY <1>5, CallPlaces DEF Running
  <2>2. caller[t] \in Tasks \cup {NoTask}
    BY DEF IInv, TypeOK
  <2>3. QED  BY <1>5, <2>1, <2>2, CallPlaces
<1>9. MutexHeld'
  BY <1>3, <1>5 DEF CInv, MutexHeld
<1>10. LetsPass(t)'
  BY <1>5, <1>6 DEF LetsPass
<1>11. QED  BY <1>1, <1>3, <1>4, <1>5, <1>6, <1>7, <1>8, <1>9, <1>10

\* A task that starts on its own.
LEMMA BeginC ==
  ASSUME IInv, CInv, NEW t \in Tasks, Begin(t)
  PROVE  CInv'
<1>1. PICK txn \in BOOLEAN :
        \E stages \in IF txn THEN Transactions ELSE Guards : Start(t, txn, stages)
  BY DEF Begin
<1>2. PICK stages \in IF txn THEN Transactions ELSE Guards : Start(t, txn, stages)
  BY <1>1
<1>3. /\ Running(t) /\ caller[t] = NoTask /\ OthersUnmoved(t) /\ MutexHeld' /\ LetsPass(t)'
      /\ task'[t].pc = "locking" /\ task'[t].txn = txn /\ task'[t].stages = stages
      /\ writes'[t] = {}
  BY <1>2, StartPlace
<1>4. caller' = caller
  BY DEF Begin
<1>5. ASSUME txn
      PROVE  \/ stages = <<ReadStage({Filesystem})>>
             \/ AsksFor(stages, Objects \ Stores)
             \/ \E k \in Objects \ Stores : stages = <<TxnStage({k}), ReadStage({Filesystem})>>
  <2>1. CASE stages \in SortedTransactions
    <3>1. PICK S \in Requests : stages = NewTransaction(S)
      BY <2>1 DEF SortedTransactions
    <3>2. S \in SUBSET (Objects \ Stores)
      BY KeysAssumption
    <3>3. QED  BY <3>1, <3>2 DEF NewTransaction, AsksFor
  <2>2. CASE \E k \in Objects \ Stores : stages = TransactionWithLocks(k)
    BY <2>2 DEF TransactionWithLocks
  <2>3. QED  BY <1>2, <1>5, <2>1, <2>2 DEF Transactions
<1>6. JournalLast(t)'
  BY <1>3, <1>5 DEF JournalLast
<1>7. \A x \in Tasks : caller'[t] # x
  BY <1>3, <1>4, BoundsAssumption
<1>8. QED  BY <1>3, <1>4, <1>6, <1>7, CStep

\* A nested call.
LEMMA CallC ==
  ASSUME IInv, CInv, NEW t \in Tasks, NEW u \in Tasks,
         ReadNested(t, u) \/ OpenStore(t, u) \/ PreCommit(t, u)
  PROVE  CInv'
<1>1. ASSUME NEW txn \in BOOLEAN, NEW stages, Call(t, u, txn, stages),
             task[t].pc \in {"holding", "applying"},
             u # t /\ NestedReads(t)' = NestedReads(t) /\ task'[t] = task[t]
               /\ writes'[t] = writes[t] /\ Locking(u)' /\ task'[u].txn = txn
               /\ task'[u].stages = stages /\ awake'[u] => CalledBy(t, u)'
      PROVE  CInv'
  <2>1. Start(u, txn, stages) /\ caller' = [caller EXCEPT ![u] = t]
    BY <1>1 DEF Call
  <2>2. /\ Running(u) /\ OthersUnmoved(u) /\ MutexHeld' /\ LetsPass(u)'
        /\ task'[u].pc = "locking" /\ task'[u].txn = txn /\ task'[u].stages = stages
        /\ awake'[u] /\ reads'[u] = {} /\ writes'[u] = {}
    BY <2>1, StartPlace
  <2>3. u # t
    BY <1>1, <2>1 DEF Start
  <2>4. task'[t] = task[t] /\ reads'[t] = reads[t] /\ writes'[t] = writes[t]
    BY <2>2, <2>3 DEF OthersUnmoved, OthersStay
  <2>5. NestedReads(t)' = NestedReads(t)
    BY <2>4 DEF NestedReads
  <2>6. CalledBy(t, u)'
    BY <1>1, <2>2, <2>3, <2>4, <2>5 DEF Locking
  <2>7. caller'[u] = t /\ \A v \in Tasks \ {u} : caller'[v] = caller[v]
    BY <2>1 DEF IInv, TypeOK
  <2>8. JournalLast(u)'
    BY <2>2, <2>7, BoundsAssumption DEF JournalLast
  <2>9. QED  BY <2>2, <2>6, <2>7, <2>8, CStep
<1>2. CASE ReadNested(t, u)
  <2>1. PICK k \in NestedReads(t) : Call(t, u, FALSE, <<ReadStage({k})>>)
    BY <1>2 DEF ReadNested
  <2>2. task[t].pc = "holding"
    BY <1>2 DEF ReadNested
  <2>3. ASSUME u # t, NestedReads(t)' = NestedReads(t), task'[t] = task[t],
               Locking(u)', task'[u].txn = FALSE, task'[u].stages = <<ReadStage({k})>>, awake'[u]
        PROVE  CalledBy(t, u)'
    <3>1. IsReader(u, k)'
      BY <2>3 DEF IsReader
    <3>2. QED  BY <2>2, <2>3, <3>1 DEF CalledBy
  <2>4. QED  BY <1>1, <2>1, <2>2, <2>3
<1>3. CASE OpenStore(t, u)
  <2>1. PICK k \in Stores : Call(t, u, FALSE, <<WriteStage({k})>>)
    BY <1>3 DEF OpenStore
  <2>2. task[t].pc = "holding" /\ Filesystem \in writes[t]
    BY <1>3 DEF OpenStore
  <2>3. ASSUME task'[t] = task[t], writes'[t] = writes[t],
               Locking(u)', task'[u].txn = FALSE, task'[u].stages = <<WriteStage({k})>>
        PROVE  CalledBy(t, u)'
    <3>1. IsOpener(u, k)'
      BY <2>3 DEF IsOpener
    <3>2. QED  BY <2>2, <2>3, <3>1 DEF CalledBy
  <2>4. QED  BY <1>1, <2>1, <2>2, <2>3
<1>4. CASE PreCommit(t, u)
  <2>1. Call(t, u, TRUE, NewTransaction({Journal})) /\ task[t].pc = "applying"
    BY <1>4 DEF PreCommit
  <2>2. AsksFor(NewTransaction({Journal}), {Journal})
    BY DEF AsksFor, NewTransaction
  <2>3. ASSUME task'[t] = task[t], Locking(u)', task'[u].txn,
               task'[u].stages = NewTransaction({Journal})
        PROVE  CalledBy(t, u)'
    <3>1. IsExtender(u)'
      BY <2>2, <2>3 DEF IsExtender, Locking
    <3>2. QED  BY <2>1, <2>3, <3>1 DEF CalledBy
  <2>4. QED  BY <1>1, <2>1, <2>3
<1>5. QED  BY <1>2, <1>3, <1>4

\* A step of a task that is awaited by nobody and does not apply its transaction.
LEMMA FreeC ==
  ASSUME IInv, CInv, NEW t \in Tasks, Running(t), OthersUnmoved(t), caller' = caller,
         caller[t] \notin Tasks, MutexHeld', LetsPass(t)', JournalLast(t)'
  PROVE  CInv'
BY CStep

\* The start of a commit.
LEMMA CommitC ==
  ASSUME IInv, CInv, NEW t \in Tasks, Running(t), Commit(t)
  PROVE  CInv'
<1>1. PICK pc \in {"committing", "preparing"} : task' = [task EXCEPT ![t].pc = pc]
  BY DEF Commit
<1>2. task'[t].pc = pc /\ task'[t].txn = task[t].txn
        /\ \A u \in Tasks \ {t} : task'[u] = task[u]
  <2>1. task \in [Tasks -> TaskState]
    BY DEF IInv, TypeOK
  <2>2. task'[t] = [task[t] EXCEPT !.pc = pc] /\ \A u \in Tasks \ {t} : task'[u] = task[u]
    BY <1>1, <2>1
  <2>3. QED  BY <2>1, <2>2 DEF TaskState
<1>3. task[t].pc = "holding" /\ caller[t] = NoTask
        /\ UNCHANGED <<keys, reads, writes, caller, commit_mutex>>
  BY DEF Commit
<1>4. OthersUnmoved(t)
  BY <1>2, <1>3 DEF OthersUnmoved, OthersStay, Commit, IInv, TypeOK
<1>5. MutexHeld'
  BY <1>2, <1>3 DEF CInv, MutexHeld
<1>6. LetsPass(t)'
  BY <1>2 DEF LetsPass
<1>7. JournalLast(t)'
  BY <1>2, <1>3 DEF JournalLast, Locking, CInv
<1>8. QED  BY <1>3, <1>4, <1>5, <1>6, <1>7, BoundsAssumption, FreeC

\* A poll of commit_prepare.
LEMMA CommitPrepareC ==
  ASSUME IInv, CInv, NEW t \in Tasks, Running(t), NEW g \in 0 .. MaxRepoll, CommitPrepare(t, g)
  PROVE  CInv'
<1>1. PICK k : k = NextUpgrade(t)
  OBVIOUS
<1>2. task[t].pc = "preparing"
        /\ UNCHANGED <<reads, writes, caller, commit_mutex>>
  BY DEF CommitPrepare
<1>3. k \in writes[t] /\ k \in Keys
  BY <1>1, <1>2, NextUpgradeIsMine DEF IInv
<1>4. task \in [Tasks -> TaskState] /\ keys \in [Keys -> LockEntry \cup {Vacant}]
        /\ awake \in [Tasks -> BOOLEAN]
  BY DEF IInv, TypeOK
<1>5. /\ task'[t].pc \in {"preparing", "committing"} /\ task'[t].txn = task[t].txn
      /\ \A u \in Tasks \ {t} : task'[u] = task[u]
  <2>1. CASE HasReaders(k)
    <3>1. task' = [task EXCEPT ![t].poll = g]
      BY <1>1, <2>1 DEF CommitPrepare, NextUpgrade
    <3>2. task'[t] = [task[t] EXCEPT !.poll = g] /\ \A u \in Tasks \ {t} : task'[u] = task[u]
      BY <1>4, <3>1
    <3>3. task'[t].pc = task[t].pc /\ task'[t].txn = task[t].txn
      BY <1>4, <3>2 DEF TaskState
    <3>4. QED  BY <1>2, <3>2, <3>3
  <2>2. CASE ~HasReaders(k)
    <3>1. PICK U, pc :
            /\ task' = [task EXCEPT ![t].poll = g, ![t].upgraded = U, ![t].pc = pc]
            /\ pc \in {"committing", "preparing"}
      <4> DEFINE U == task[t].upgraded \cup {k}
                 pc == IF U = writes[t] THEN "committing" ELSE task[t].pc
      <4>1. task' = [task EXCEPT ![t].poll = g, ![t].upgraded = U,
                                 ![t].pc = IF U = writes[t] THEN "committing" ELSE @]
        BY <1>1, <2>2 DEF CommitPrepare, NextUpgrade
      <4>2. task' = [task EXCEPT ![t].poll = g, ![t].upgraded = U, ![t].pc = pc]
        BY <1>4, <4>1 DEF TaskState
      <4>3. pc \in {"committing", "preparing"}
        BY <1>2
      <4>4. QED  BY <4>2, <4>3
    <3>2. task'[t] = [task[t] EXCEPT !.poll = g, !.upgraded = U, !.pc = pc]
            /\ \A u \in Tasks \ {t} : task'[u] = task[u]
      BY <1>4, <3>1
    <3>3. task'[t].pc = pc /\ task'[t].txn = task[t].txn
      BY <1>4, <3>2 DEF TaskState
    <3>4. QED  BY <3>1, <3>2, <3>3
  <2>3. QED  BY <2>1, <2>2
<1>6. \A j \in Keys \ {k} : keys'[j] = keys[j]
  BY <1>1, <1>4 DEF CommitPrepare, NextUpgrade
<1>7. ASSUME NEW u \in Tasks \ {t}, NEW j \in writes[u]
      PROVE  keys'[j].state = keys[j].state
  <2>1. j \in Keys /\ u \in Writers(j)
    BY DEF IInv, TypeOK, Writers
  <2>2. j # k
    <3>1. SUFFICES ASSUME j = k PROVE FALSE
      OBVIOUS
    <3>2. t \in Writers(j)
      BY <1>3, <3>1 DEF Writers
    <3>3. QED  BY <2>1, <3>2 DEF IInv, Table, EntryInv
  <2>3. QED  BY <1>6, <2>1, <2>2
<1>8. \A u \in Tasks \ {t} : awake'[u] = awake[u]
  BY <1>4 DEF CommitPrepare
<1>9. OthersUnmoved(t)
  BY <1>2, <1>5, <1>7, <1>8 DEF OthersUnmoved, OthersStay
<1>10. MutexHeld' /\ LetsPass(t)'
  BY <1>2, <1>5 DEF CInv, MutexHeld, LetsPass
<1>11. JournalLast(t)'
  BY <1>2, <1>5 DEF JournalLast, Locking, CInv
<1>12. caller[t] \notin Tasks
  BY <1>2, CallPlaces
<1>13. QED  BY <1>2, <1>9, <1>10, <1>11, <1>12, FreeC

\* The commit mutex.
LEMMA CommitMutexC ==
  ASSUME IInv, CInv, NEW t \in Tasks, Running(t), LockCommitMutex(t) \/ Applied(t)
  PROVE  CInv'
<1>1. PICK pc : /\ task' = [task EXCEPT ![t].pc = pc]
                /\ \/ pc = "applying" /\ commit_mutex' = t
                   \/ pc = "committed" /\ commit_mutex' = NoTask
  BY DEF LockCommitMutex, Applied
<1>2. task'[t].pc = pc /\ task'[t].txn = task[t].txn
        /\ \A u \in Tasks \ {t} : task'[u] = task[u]
  <2>1. task \in [Tasks -> TaskState]
    BY DEF IInv, TypeOK
  <2>2. task'[t] = [task[t] EXCEPT !.pc = pc] /\ \A u \in Tasks \ {t} : task'[u] = task[u]
    BY <1>1, <2>1
  <2>3. QED  BY <2>1, <2>2 DEF TaskState
<1>3. task[t].pc \in {"committing", "applying"}
        /\ UNCHANGED <<keys, reads, writes, caller, awake>>
  BY DEF LockCommitMutex, Applied
<1>4. OthersUnmoved(t)
  BY <1>2, <1>3 DEF OthersUnmoved, OthersStay
<1>5. MutexHeld'
  BY <1>1, <1>2, BoundsAssumption DEF MutexHeld
<1>6. LetsPass(t)'
  BY <1>1, <1>2 DEF LetsPass
<1>7. JournalLast(t)'
  BY <1>1, <1>2, <1>3 DEF JournalLast, Locking, CInv
<1>8. caller[t] \notin Tasks
  BY <1>3, CallPlaces
<1>9. QED  BY <1>3, <1>4, <1>5, <1>6, <1>7, <1>8, FreeC

\* The drop of a future or of a plain guard.
LEMMA DroppingC ==
  ASSUME IInv, CInv, NEW t \in Tasks, Running(t), Cancel(t) \/ Release(t)
  PROVE  CInv'
<1>1. Dropping(t) /\ task[t].pc \in {"locking", "holding"}
  BY DEF Cancel, Release, Locking
<1>2. task'[t].pc = "dropping" /\ task'[t].txn = FALSE /\ \A u \in Tasks \ {t} : task'[u] = task[u]
  <2>1. [Idle EXCEPT !.pc = "dropping"].pc = "dropping"
          /\ [Idle EXCEPT !.pc = "dropping"].txn = FALSE
    BY IdleFields DEF TaskState
  <2>2. QED  BY <1>1, <2>1 DEF Dropping, IInv, TypeOK
<1>3. UNCHANGED <<keys, reads, writes, caller, commit_mutex>>
  BY <1>1 DEF Dropping
<1>4. OthersUnmoved(t)
  BY <1>1, <1>2, <1>3 DEF OthersUnmoved, OthersStay, Dropping, IInv, TypeOK
<1>5. MutexHeld'
  BY <1>1, <1>2, <1>3 DEF MutexHeld, CInv
<1>6. LetsPass(t)' /\ JournalLast(t)'
  BY <1>2 DEF LetsPass, JournalLast, Locking
<1>7. ASSUME NEW x \in Tasks, caller'[t] = x PROVE CalledBy(x, t)'
  <2>1. caller[t] = x /\ x # t
    BY <1>3, <1>7 DEF Running
  <2>2. task'[x].pc \in {"holding", "applying"}
    BY <1>2, <2>1, CallPlaces
  <2>3. QED  BY <1>2, <2>2 DEF CalledBy
<1>8. QED  BY <1>3, <1>4, <1>5, <1>6, <1>7, CStep

\* The drop of a transaction, and of the guards of other tasks.
LEMMA DropC ==
  ASSUME IInv, CInv, NEW t \in Tasks, Running(t),
         DropTransaction(t) \/ DropWriteGuard(t) \/ DropReadGuard(t) \/ Dropped(t)
  PROVE  CInv'
<1>1. CASE DropTransaction(t) \/ Dropped(t)
  <2>1. OthersUnmoved(t)
    <3>1. CASE DropTransaction(t)
      BY <3>1, DropTransactionStep
    <3>2. CASE Dropped(t)
      BY <3>2 DEF Dropped, OthersUnmoved, OthersStay, IInv, TypeOK
    <3>3. QED  BY <1>1, <3>1, <3>2
  <2>2. task' = [task EXCEPT ![t] = Idle] /\ caller' = [caller EXCEPT ![t] = NoTask]
          /\ commit_mutex' = commit_mutex
    BY <1>1 DEF DropTransaction, Dropped
  <2>3. writes'[t] = {}
    BY <1>1 DEF DropTransaction, Dropped, IInv, TypeOK
  <2>4. task[t].pc # "applying"
    BY <1>1 DEF DropTransaction, Dropped
  <2>5. task'[t].pc = "idle" /\ caller'[t] = NoTask
          /\ \A u \in Tasks \ {t} : task'[u] = task[u] /\ caller'[u] = caller[u]
    BY <2>2, IdleFields DEF IInv, TypeOK
  <2>6. MutexHeld'
    BY <2>2, <2>4, <2>5 DEF CInv, MutexHeld
  <2>7. LetsPass(t)' /\ JournalLast(t)'
    BY <2>3, <2>5 DEF LetsPass, JournalLast, Locking
  <2>8. QED  BY <2>1, <2>5, <2>6, <2>7, CStep, BoundsAssumption
<1>2. CASE DropWriteGuard(t) \/ DropReadGuard(t)
  <2>1. OthersUnmoved(t)
    BY <1>2, DropWriteGuardStep, DropReadGuardStep
  <2>2. task' = task /\ caller' = caller /\ commit_mutex' = commit_mutex
          /\ task[t].pc = "dropping" /\ writes'[t] \subseteq writes[t]
    BY <1>2 DEF DropWriteGuard, DropReadGuard, IInv, TypeOK
  <2>3. MutexHeld'
    BY <2>2 DEF CInv, MutexHeld
  <2>4. LetsPass(t)' /\ JournalLast(t)'
    BY <2>2 DEF LetsPass, JournalLast, Locking, CInv
  <2>5. ASSUME NEW x \in Tasks, caller'[t] = x PROVE CalledBy(x, t)'
    <3>1. task[x].pc \in {"holding", "applying"}
      BY <2>2, <2>5, CallPlaces
    <3>2. QED  BY <2>2, <3>1 DEF CalledBy
  <2>6. QED  BY <2>1, <2>2, <2>3, <2>4, <2>5, CStep
<1>3. QED  BY <1>1, <1>2

\* What a poll of lock() does to its task: it goes on waiting, or it gets the key.
StaysAt(t) ==
    /\ task'[t].pc = "locking" /\ task'[t].stages = task[t].stages /\ task'[t].txn = task[t].txn
    /\ reads'[t] = reads[t]
    /\ Target(t) # "WriteLock" => writes'[t] = writes[t]
    /\ Target(t) = "ReadLock" => keys[Key(t)].state # "Locked"

GetsKey(t, g) ==
    /\ task'[t] = After(task[t], g, Key(t))
    /\ reads'[t] = IF Target(t) = "ReadLock" THEN reads[t] \cup {Key(t)} ELSE reads[t]
    /\ writes'[t] = IF Target(t) = "ReadLock" THEN writes[t] ELSE writes[t] \cup {Key(t)}
    /\ Target(t) = "Locked" => keys'[Key(t)].state = "Locked"

\* A poll waits or gets the key, and leaves the locks of everybody else, and
\* those its transaction has already got, in the state they are in.
LEMMA LockOutcome ==
  ASSUME IInv, NEW t \in Tasks, NEW g \in 0 .. MaxRepoll, Lock(t, g)
  PROVE  /\ StaysAt(t) \/ GetsKey(t, g)
         /\ OthersUnmoved(t)
         /\ task[t].txn => Target(t) # "WriteLock"
                             /\ \A j \in writes[t] : keys'[j].state = keys[j].state
<1>1. PICK k : k = Key(t)
  OBVIOUS
<1>2. Locking(t) /\ k \in Keys /\ (k \in writes[t] <=> task[t].want_write)
        /\ Target(t) \in TargetState /\ (task[t].want_write => Target(t) = "WriteLock")
  BY <1>1, AtKey DEF Lock, IInv
<1>3. task \in [Tasks -> TaskState] /\ keys \in [Keys -> LockEntry \cup {Vacant}]
        /\ awake \in [Tasks -> BOOLEAN] /\ reads \in [Tasks -> SUBSET Keys]
        /\ writes \in [Tasks -> SUBSET Keys]
  BY DEF IInv, TypeOK
<1>4. task[t].txn => Target(t) # "WriteLock"
  <2>1. Shape(task[t], reads[t], writes[t]) /\ task[t].pc = "locking"
    BY <1>2 DEF IInv, Shapes, Locking
  <2>2. TargetOf(task[t]) = Target(t)
    BY DEF TargetOf, Target
  <2>3. QED  BY <2>1, <2>2, WriteShape
<1>5. \A j \in Keys \ {k} : keys'[j] = keys[j]
  <2>1. CASE PollVacant(t, g)  BY <1>1, <1>3, <2>1 DEF PollVacant
  <2>2. CASE PollWantWrite(t, g)  BY <1>1, <1>3, <2>2 DEF PollWantWrite
  <2>3. CASE StartWantWrite(t, g)  BY <1>1, <1>3, <2>3 DEF StartWantWrite
  <2>4. CASE PollShared(t, g)  BY <1>1, <1>3, <2>4 DEF PollShared
  <2>5. CASE Wait(t, g)  BY <1>1, <1>3, <2>5 DEF Wait
  <2>6. QED  BY <2>1, <2>2, <2>3, <2>4, <2>5 DEF Lock
<1>6. /\ \A u \in Tasks \ {t} : task'[u] = task[u] /\ awake'[u] = awake[u]
      /\ \A u \in Tasks \ {t} : reads'[u] = reads[u] /\ writes'[u] = writes[u]
  <2>1. CASE PollVacant(t, g)  BY <1>3, <2>1 DEF PollVacant, Push
  <2>2. CASE PollWantWrite(t, g)  BY <1>3, <2>2 DEF PollWantWrite
  <2>3. CASE StartWantWrite(t, g)  BY <1>3, <2>3 DEF StartWantWrite, Push
  <2>4. CASE PollShared(t, g)  BY <1>3, <2>4 DEF PollShared, Push
  <2>5. CASE Wait(t, g)  BY <1>3, <2>5 DEF Wait
  <2>6. QED  BY <2>1, <2>2, <2>3, <2>4, <2>5 DEF Lock
<1>7. EntryInv(keys[k], Readers(k), Writers(k))
  BY <1>2 DEF IInv, Table
<1>8. \A u \in Tasks : k \in writes[u] <=> u \in Writers(k)
  BY DEF Writers
<1>9. Vacant.state = "Vacant"
  BY DEF Vacant
<1>10. Push(t, k) => /\ reads'[t] = IF Target(t) = "ReadLock" THEN reads[t] \cup {k} ELSE reads[t]
                     /\ writes'[t] = IF Target(t) = "ReadLock" THEN writes[t]
                                                              ELSE writes[t] \cup {k}
  BY <1>3 DEF Push
<1>11. /\ StaysAt(t) \/ GetsKey(t, g)
       /\ \A u \in Tasks : k \in writes[u] /\ (u # t \/ task[t].txn)
                             => keys'[k].state = keys[k].state
  <2>1. CASE PollVacant(t, g)
    <3>1. Writers(k) = {}
      BY <1>1, <1>7, <2>1 DEF PollVacant, EntryInv
    <3>2. keys'[k].state = Target(t)
      BY <1>1, <1>2, <1>3, <2>1 DEF PollVacant
    <3>3. task'[t] = After(task[t], g, k)
      BY <1>1, <1>3, <2>1 DEF PollVacant, After
    <3>4. Push(t, k)
      BY <1>1, <2>1 DEF PollVacant
    <3>5. GetsKey(t, g)
      BY <1>1, <1>10, <3>2, <3>3, <3>4 DEF GetsKey
    <3>6. QED  BY <1>8, <3>1, <3>5
  <2>2. CASE PollWantWrite(t, g)
    <3>1. task[t].want_write /\ Target(t) = "WriteLock" /\ keys[k] # Vacant
            /\ reads' = reads /\ writes' = writes
      BY <1>1, <1>2, <2>2 DEF PollWantWrite
    <3>2. \A u \in Tasks : k \in writes[u] => u = t
      BY <1>2, <1>7, <1>8, <3>1 DEF EntryInv
    <3>3. CASE HasReaders(k)
      <4>1. task' = [task EXCEPT ![t].poll = g]
        BY <1>1, <2>2, <3>3 DEF PollWantWrite
      <4>2. task'[t] = [task[t] EXCEPT !.poll = g]
        BY <1>3, <4>1
      <4>3. task'[t].pc = task[t].pc /\ task'[t].stages = task[t].stages
              /\ task'[t].txn = task[t].txn
        BY <1>3, <4>2 DEF TaskState
      <4>4. StaysAt(t)
        BY <1>2, <3>1, <4>3 DEF StaysAt, Locking
      <4>5. QED  BY <1>4, <3>1, <3>2, <4>4
    <3>4. CASE ~HasReaders(k)
      <4>1. task'[t] = After(task[t], g, k)
        BY <1>1, <1>3, <2>2, <3>4 DEF PollWantWrite, After
      <4>2. writes[t] \cup {k} = writes[t]
        BY <1>2, <3>1
      <4>3. GetsKey(t, g)
        BY <1>1, <3>1, <4>1, <4>2 DEF GetsKey
      <4>4. QED  BY <1>4, <3>1, <3>2, <4>3
    <3>5. QED  BY <3>3, <3>4
  <2>3. CASE StartWantWrite(t, g)
    <3>1. keys[k].state = "ReadLock" /\ Target(t) = "WriteLock" /\ Push(t, k)
      BY <1>1, <2>3 DEF StartWantWrite
    <3>2. Writers(k) = {}
      BY <1>7, <1>9, <3>1 DEF EntryInv
    <3>3. task' = [task EXCEPT ![t].want_write = TRUE, ![t].poll = g]
      BY <2>3 DEF StartWantWrite
    <3>4. task'[t] = [task[t] EXCEPT !.want_write = TRUE, !.poll = g]
      BY <1>3, <3>3
    <3>5. task'[t].pc = task[t].pc /\ task'[t].stages = task[t].stages
            /\ task'[t].txn = task[t].txn
      BY <1>3, <3>4 DEF TaskState
    <3>6. StaysAt(t)
      BY <1>2, <1>10, <3>1, <3>5 DEF StaysAt, Locking
    <3>7. QED  BY <1>8, <3>2, <3>6
  <2>4. CASE PollShared(t, g)
    <3>1. Push(t, k) /\ task'[t] = After(task[t], g, k)
      BY <1>1, <1>3, <2>4 DEF PollShared, After
    <3>2. keys[k] \in LockEntry
      BY <1>1, <1>2, <1>3, <1>9, <2>4 DEF PollShared
    <3>3. CASE Target(t) = "ReadLock"
      <4>1. keys' = [keys EXCEPT ![k].read_count = @ + 1]
        BY <1>1, <2>4, <3>3 DEF PollShared
      <4>2. keys'[k] = [keys[k] EXCEPT !.read_count = @ + 1]
        BY <1>2, <1>3, <4>1
      <4>3. keys'[k].state = keys[k].state
        BY <3>2, <4>2 DEF LockEntry
      <4>4. GetsKey(t, g)
        BY <1>1, <1>10, <3>1, <3>3 DEF GetsKey
      <4>5. QED  BY <4>3, <4>4
    <3>4. CASE Target(t) # "ReadLock"
      <4>1. keys[k].state = "ReadLock" /\ keys' = [keys EXCEPT ![k].state = Target(t)]
        BY <1>1, <2>4, <3>4 DEF PollShared
      <4>2. Writers(k) = {}
        BY <1>7, <1>9, <4>1 DEF EntryInv
      <4>3. keys'[k] = [keys[k] EXCEPT !.state = Target(t)]
        BY <1>2, <1>3, <4>1
      <4>4. keys'[k].state = Target(t)
        BY <3>2, <4>3 DEF LockEntry
      <4>5. GetsKey(t, g)
        BY <1>1, <1>10, <3>1, <3>4, <4>4 DEF GetsKey
      <4>6. QED  BY <1>8, <4>2, <4>5
    <3>5. QED  BY <3>3, <3>4
  <2>5. CASE Wait(t, g)
    <3>1. keys[k] # Vacant /\ reads' = reads /\ writes' = writes
            /\ (Target(t) = "ReadLock" => keys[k].state # "Locked")
      BY <1>1, <2>5 DEF Wait
    <3>2. keys[k] \in LockEntry
      BY <1>2, <1>3, <3>1
    <3>3. \E ws : keys'[k] = [keys[k] EXCEPT !.wakers = ws]
      <4>1. CASE keys[k].sequence = task[t].waker_sequence
        <5>1. keys' = [keys EXCEPT ![k].wakers[task[t].waker_index] = [task |-> t, poll |-> g]]
          BY <1>1, <2>5, <4>1 DEF Wait
        <5>2. QED  BY <1>2, <1>3, <5>1
      <4>2. CASE keys[k].sequence # task[t].waker_sequence
        <5>1. keys' = [keys EXCEPT ![k].wakers = Append(@, [task |-> t, poll |-> g])]
          BY <1>1, <2>5, <4>2 DEF Wait
        <5>2. QED  BY <1>2, <1>3, <5>1
      <4>3. QED  BY <4>1, <4>2
    <3>4. keys'[k].state = keys[k].state
      BY <3>2, <3>3 DEF LockEntry
    <3>5. task'[t].pc = task[t].pc /\ task'[t].stages = task[t].stages
            /\ task'[t].txn = task[t].txn
      <4>1. CASE keys[k].sequence = task[t].waker_sequence
        <5>1. task' = [task EXCEPT ![t].poll = g]
          BY <1>1, <2>5, <4>1 DEF Wait
        <5>2. task'[t] = [task[t] EXCEPT !.poll = g]
          BY <1>3, <5>1
        <5>3. QED  BY <1>3, <5>2 DEF TaskState
      <4>2. CASE keys[k].sequence # task[t].waker_sequence
        <5>1. PICK n : task' = [task EXCEPT ![t].poll = g, ![t].waker_sequence = sequence,
                                            ![t].waker_index = n]
          BY <1>1, <2>5, <4>2 DEF Wait
        <5>2. task'[t] = [task[t] EXCEPT !.poll = g, !.waker_sequence = sequence,
                                         !.waker_index = n]
          BY <1>3, <5>1
        <5>3. QED  BY <1>3, <5>2 DEF TaskState
      <4>3. QED  BY <4>1, <4>2
    <3>6. StaysAt(t)
      BY <1>1, <1>2, <3>1, <3>5 DEF StaysAt, Locking
    <3>7. QED  BY <3>4, <3>6
  <2>6. QED  BY <2>1, <2>2, <2>3, <2>4, <2>5 DEF Lock
<1>12. OthersUnmoved(t)
  <2>1. ASSUME NEW u \in Tasks \ {t}, NEW j \in writes[u] PROVE keys'[j].state = keys[j].state
    <3>1. j \in Keys
      BY <1>3
    <3>2. QED  BY <1>5, <1>11, <3>1
  <2>2. QED  BY <1>6, <2>1 DEF OthersUnmoved, OthersStay
<1>13. ASSUME task[t].txn, NEW j \in writes[t] PROVE keys'[j].state = keys[j].state
  <2>1. j \in Keys
    BY <1>3
  <2>2. QED  BY <1>5, <1>11, <1>13, <2>1
<1>14. QED  BY <1>4, <1>11, <1>12, <1>13

\* A call that asks for one key, and nothing after it.
LEMMA OneKey ==
  ASSUME NEW j \in Keys, NEW s, NEW r, s.lock_keys = {j}, r.stages = <<s>>
  PROVE  KeyOf(r) = j /\ TargetOf(r) = s.target_state /\ Left(r.stages, j) = <<>>
<1>1. Head(r.stages) = s /\ Tail(r.stages) = <<>>
  BY Lists
<1>2. KeyOf(r) = j /\ TargetOf(r) = s.target_state
  BY <1>1, FirstOfOne DEF KeyOf, TargetOf
<1>3. Left(r.stages, j) = <<>>
  BY <1>1 DEF Left
<1>4. QED  BY <1>2, <1>3

\* Readers and writers ask for one key.
LEMMA OneStage ==
  ASSUME NEW j \in Keys, NEW r
  PROVE  /\ r.stages = <<ReadStage({j})>>
              => KeyOf(r) = j /\ TargetOf(r) = "ReadLock" /\ Left(r.stages, j) = <<>>
         /\ r.stages = <<WriteStage({j})>>
              => KeyOf(r) = j /\ TargetOf(r) = "WriteLock" /\ Left(r.stages, j) = <<>>
<1>1. /\ ReadStage({j}).lock_keys = {j} /\ ReadStage({j}).target_state = "ReadLock"
      /\ WriteStage({j}).lock_keys = {j} /\ WriteStage({j}).target_state = "WriteLock"
  BY DEF ReadStage, WriteStage
<1>2. ASSUME NEW s, s.lock_keys = {j}, r.stages = <<s>>
      PROVE  KeyOf(r) = j /\ TargetOf(r) = s.target_state /\ Left(r.stages, j) = <<>>
  BY <1>2, OneKey
<1>3. QED  BY <1>1, <1>2

\* A transaction asks for the filesystem lock, or for a key of its request.
LEMMA AsksStep ==
  ASSUME NEW K \in SUBSET TxnKeys, NEW r, AsksFor(r.stages, K)
  PROVE  \/ /\ KeyOf(r) = Filesystem /\ TargetOf(r) = "ReadLock"
            /\ AsksFor(Left(r.stages, KeyOf(r)), K)
            /\ Left(r.stages, KeyOf(r)) # <<>>
         \/ /\ KeyOf(r) \in K /\ TargetOf(r) = "Locked"
            /\ \/ Left(r.stages, KeyOf(r)) = <<>>
               \/ AsksFor(Left(r.stages, KeyOf(r)), K) /\ Left(r.stages, KeyOf(r)) # <<>>
            /\ K = {KeyOf(r)} => Left(r.stages, KeyOf(r)) = <<>>
<1>1. Filesystem \in Keys /\ TxnKeys \subseteq Keys
  BY DEF Keys
<1>2. PICK S \in SUBSET K : /\ S # {}
                            /\ \/ r.stages = <<ReadStage({Filesystem}), TxnStage(S)>>
                               \/ r.stages = <<TxnStage(S)>>
  BY DEF AsksFor
<1>3. CASE r.stages = <<ReadStage({Filesystem}), TxnStage(S)>>
  <2>1. Head(r.stages) = ReadStage({Filesystem}) /\ Tail(r.stages) = <<TxnStage(S)>>
    BY <1>3, Lists
  <2>2. KeyOf(r) = Filesystem /\ TargetOf(r) = "ReadLock"
    BY <1>1, <2>1, FirstOfOne DEF KeyOf, TargetOf, ReadStage
  <2>3. Left(r.stages, KeyOf(r)) = <<TxnStage(S)>>
    BY <2>1, <2>2 DEF Left, ReadStage
  <2>4. AsksFor(Left(r.stages, KeyOf(r)), K)
    BY <1>2, <2>3 DEF AsksFor
  <2>5. QED  BY <2>2, <2>3, <2>4, Lists
<1>4. CASE r.stages = <<TxnStage(S)>>
  <2>1. Head(r.stages) = TxnStage(S) /\ Tail(r.stages) = <<>>
    BY <1>4, Lists
  <2>2. TxnStage(S).lock_keys = S /\ TxnStage(S).target_state = "Locked"
    BY DEF TxnStage
  <2>3. KeyOf(r) = First(S) /\ TargetOf(r) = "Locked"
    BY <2>1, <2>2 DEF KeyOf, TargetOf
  <2>4. First(S) \in S
    BY <1>1, <1>2, FirstIsLeast
  <2>5. CASE S = {First(S)}
    <3>1. Left(r.stages, KeyOf(r)) = <<>>
      BY <2>1, <2>2, <2>3, <2>5 DEF Left
    <3>2. QED  BY <2>3, <2>4, <3>1
  <2>6. CASE S # {First(S)}
    <3>1. S \ {First(S)} # {} /\ S \ {First(S)} \in SUBSET K /\ K # {First(S)}
      BY <2>4, <2>6
    <3>2. [Head(r.stages) EXCEPT !.lock_keys = @ \ {First(S)}] = TxnStage(S \ {First(S)})
      BY <2>1, WithoutKey
    <3>3. Left(r.stages, KeyOf(r)) = <<TxnStage(S \ {First(S)})>> \o <<>>
      BY <2>1, <2>2, <2>3, <3>1, <3>2 DEF Left
    <3>4. Left(r.stages, KeyOf(r)) = <<TxnStage(S \ {First(S)})>>
      BY <3>3, Lists
    <3>5. AsksFor(Left(r.stages, KeyOf(r)), K)
      BY <3>1, <3>4 DEF AsksFor
    <3>6. QED  BY <2>3, <2>4, <3>1, <3>4, <3>5, Lists
  <2>7. QED  BY <2>5, <2>6
<1>5. QED  BY <1>2, <1>3, <1>4

\* What a task that lets readers pass, or has a guard, has locked.
LEMMA HoldersWrite ==
  ASSUME IInv, NEW t \in Tasks, task[t].pc = "holding"
  PROVE  /\ writes[t] \cap ReadOnly = {}
         /\ ~task[t].txn => Journal \notin writes[t]
<1>1. Shape(task[t], reads[t], writes[t])
  BY DEF IInv, Shapes
<1>2. CASE task[t].txn
  BY <1>1, <1>2, KeysAssumption DEF Shape
<1>3. CASE ~task[t].txn
  <2>1. HasGuard(reads[t], writes[t])
    BY <1>1, <1>3 DEF Shape
  <2>2. writes[t] \subseteq Objects \cup {Filesystem}
    BY <2>1 DEF HasGuard
  <2>3. QED  BY <2>2, KeysAssumption DEF TxnKeys
<1>4. QED  BY <1>2, <1>3

\* A poll of lock() by a nested call.
LEMMA NestedLock ==
  ASSUME IInv, CInv, NEW t \in Tasks, Running(t), NEW g \in 0 .. MaxRepoll, Lock(t, g),
         NEW x \in Tasks, caller[t] = x
  PROVE  /\ CalledBy(x, t)'
         /\ task[t].txn => /\ Journal \in writes'[t] => task'[t].pc = "holding"
                           /\ writes'[t] \subseteq writes[t] \cup {Journal}
<1>1. x # t
  BY DEF Running
<1>2. CalledBy(x, t) /\ Locking(t) /\ task[t].pc = "locking"
  BY DEF CInv, Called, Lock, Locking
<1>3. /\ StaysAt(t) \/ GetsKey(t, g)
      /\ OthersUnmoved(t)
      /\ task[t].txn => Target(t) # "WriteLock"
  BY LockOutcome
<1>4. /\ task'[x] = task[x] /\ reads'[x] = reads[x] /\ writes'[x] = writes[x]
      /\ NestedReads(x)' = NestedReads(x)
  <2>1. task'[x] = task[x] /\ reads'[x] = reads[x] /\ writes'[x] = writes[x]
    BY <1>1, <1>3 DEF OthersUnmoved, OthersStay
  <2>2. QED  BY <2>1 DEF NestedReads
<1>5. task[t] \in TaskState /\ Shape(task[t], reads[t], writes[t])
  BY DEF IInv, TypeOK, Shapes
<1>6. Key(t) = KeyOf(task[t]) /\ Target(t) = TargetOf(task[t])
  BY DEF Key, KeyOf, Target, TargetOf
<1>7. ASSUME GetsKey(t, g)
      PROVE  /\ task'[t].txn = task[t].txn /\ task'[t].stages = Left(task[t].stages, Key(t))
             /\ Left(task[t].stages, Key(t)) = <<>> => task'[t].pc = "holding"
             /\ Left(task[t].stages, Key(t)) # <<>> => task'[t].pc = "locking"
  BY <1>2, <1>5, <1>7, AfterPlace DEF GetsKey
<1>8. CASE task[x].pc = "holding" /\ \E k \in NestedReads(x) : IsReader(t, k)
  <2>1. PICK k \in NestedReads(x) : IsReader(t, k)
    BY <1>8
  <2>2. k \in Keys /\ ~task[t].txn /\ task[t].stages = <<ReadStage({k})>>
    BY <1>2, <2>1 DEF IsReader, NestedReads
  <2>3. Key(t) = k /\ Target(t) = "ReadLock" /\ Left(task[t].stages, k) = <<>>
    BY <1>6, <2>2, OneStage
  <2>4. reads[t] = {} /\ writes[t] = {}
    <3>1. LockingShape(task[t], reads[t], writes[t])
      BY <1>2, <1>5 DEF Shape
    <3>2. ~AtWrite(task[t], reads[t], writes[t])
      <4>1. SUFFICES ASSUME NEW j, task[t].stages = <<WriteStage({j})>> PROVE FALSE
        BY DEF AtWrite
      <4>2. Head(task[t].stages) = WriteStage({j})
        BY <4>1, Lists
      <4>3. QED  BY <2>3, <4>2 DEF Target, WriteStage
    <3>3. AtRead(task[t], reads[t], writes[t])
      BY <2>2, <3>1, <3>2 DEF LockingShape
    <3>4. QED  BY <3>3 DEF AtRead
  <2>5. CASE StaysAt(t)
    <3>1. IsReader(t, k)'
      BY <2>2, <2>5 DEF StaysAt, IsReader, Locking
    <3>2. k \notin writes[x]
      <4>1. SUFFICES ASSUME k \in writes[x] PROVE FALSE
        OBVIOUS
      <4>2. k \notin ReadOnly
        BY <1>8, <4>1, HoldersWrite
      <4>3. task[x].txn
        BY <2>1, <4>2 DEF NestedReads, ReadOnly
      <4>4. keys[k].state = "Locked"
        BY <1>8, <4>1, <4>3 DEF CInv, LetsPass
      <4>5. QED  BY <2>3, <2>5, <4>4 DEF StaysAt
    <3>3. k \in NestedReads(x)' /\ (k \in writes[x])' = FALSE /\ task'[x].pc = "holding"
      BY <1>4, <1>8, <2>1, <3>2
    <3>4. QED  BY <2>2, <3>1, <3>3 DEF CalledBy
  <2>6. CASE GetsKey(t, g)
    <3>1. task'[t].pc = "holding" /\ ~task'[t].txn
      BY <1>7, <2>2, <2>3, <2>6
    <3>2. reads'[t] = {k} /\ writes'[t] = {}
      BY <2>3, <2>4, <2>6 DEF GetsKey
    <3>3. IsReader(t, k)' /\ ~Locking(t)'
      BY <3>1, <3>2 DEF IsReader, Locking
    <3>4. k \in NestedReads(x)' /\ task'[x].pc = "holding"
      BY <1>4, <1>8, <2>1
    <3>5. QED  BY <2>2, <3>3, <3>4 DEF CalledBy
  <2>7. QED  BY <1>3, <2>5, <2>6
<1>9. CASE task[x].pc = "holding" /\ Filesystem \in writes[x] /\ \E k \in Stores : IsOpener(t, k)
  <2>1. PICK k \in Stores : IsOpener(t, k)
    BY <1>9
  <2>2. k \in Keys /\ ~task[t].txn /\ task[t].stages = <<WriteStage({k})>>
    BY <1>2, <2>1, KeysAssumption DEF IsOpener, Keys, TxnKeys, Locking
  <2>3. Key(t) = k /\ Target(t) = "WriteLock" /\ Left(task[t].stages, k) = <<>>
    BY <1>6, <2>2, OneStage
  <2>4. reads[t] = {} /\ writes[t] \subseteq {k}
    <3>1. AtWrite(task[t], reads[t], writes[t])
      BY <1>2, <1>5, <1>6, <2>3, WriteShape
    <3>2. PICK j \in Keys : task[t].stages = <<WriteStage({j})>> /\ reads[t] = {}
                              /\ writes[t] \subseteq {j}
      BY <3>1 DEF AtWrite
    <3>3. j = k
      BY <1>6, <2>3, <3>2, OneStage
    <3>4. QED  BY <3>2, <3>3
  <2>5. IsOpener(t, k)'
    <3>1. CASE StaysAt(t)
      BY <2>2, <3>1 DEF StaysAt, IsOpener, Locking
    <3>2. CASE GetsKey(t, g)
      <4>1. task'[t].pc = "holding" /\ ~task'[t].txn
        BY <1>7, <2>2, <2>3, <3>2
      <4>2. reads'[t] = {} /\ writes'[t] = {k}
        BY <2>3, <2>4, <3>2 DEF GetsKey
      <4>3. QED  BY <4>1, <4>2 DEF IsOpener
    <3>3. QED  BY <1>3, <3>1, <3>2
  <2>6. QED  BY <1>4, <1>9, <2>2, <2>5 DEF CalledBy
<1>10. CASE task[x].pc = "applying" /\ IsExtender(t)
  <2>1. task[t].txn /\ AsksFor(task[t].stages, {Journal}) /\ {Journal} \in SUBSET TxnKeys
    BY <1>2, <1>10 DEF IsExtender, TxnKeys
  <2>2. Journal \notin writes[t]
    BY <1>2 DEF CInv, JournalLast
  <2>3. CASE StaysAt(t)
    <3>1. IsExtender(t)' /\ Journal \notin writes'[t] /\ writes'[t] = writes[t]
      BY <1>3, <2>1, <2>2, <2>3 DEF StaysAt, IsExtender, Locking
    <3>2. QED  BY <1>4, <1>10, <3>1 DEF CalledBy
  <2>4. CASE GetsKey(t, g)
    <3>1. \/ /\ Key(t) = Filesystem /\ Target(t) = "ReadLock"
             /\ AsksFor(Left(task[t].stages, Key(t)), {Journal})
             /\ Left(task[t].stages, Key(t)) # <<>>
          \/ Key(t) = Journal /\ Left(task[t].stages, Key(t)) = <<>>
      BY <1>6, <2>1, AsksStep
    <3>2. CASE /\ Key(t) = Filesystem /\ Target(t) = "ReadLock"
               /\ AsksFor(Left(task[t].stages, Key(t)), {Journal})
               /\ Left(task[t].stages, Key(t)) # <<>>
      <4>1. task'[t].pc = "locking" /\ task'[t].txn /\ AsksFor(task'[t].stages, {Journal})
        BY <1>7, <2>1, <2>4, <3>2
      <4>2. IsExtender(t)'
        BY <4>1 DEF IsExtender
      <4>3. Journal \notin writes'[t] /\ writes'[t] = writes[t]
        BY <2>2, <2>4, <3>2 DEF GetsKey
      <4>4. QED  BY <1>4, <1>10, <4>2, <4>3 DEF CalledBy
    <3>3. CASE Key(t) = Journal /\ Left(task[t].stages, Key(t)) = <<>>
      <4>1. task'[t].pc = "holding" /\ task'[t].txn
        BY <1>7, <2>1, <2>4, <3>3
      <4>2. IsExtender(t)'
        BY <4>1 DEF IsExtender, Locking
      <4>3. writes'[t] \subseteq writes[t] \cup {Journal}
        BY <2>4, <3>3 DEF GetsKey
      <4>4. QED  BY <1>4, <1>10, <4>1, <4>2, <4>3 DEF CalledBy
    <3>4. QED  BY <3>1, <3>2, <3>3
  <2>5. QED  BY <1>3, <2>3, <2>4
<1>11. QED  BY <1>2, <1>8, <1>9, <1>10 DEF CalledBy

\* A poll of lock() by a transaction that nobody awaits.
LEMMA OwnLock ==
  ASSUME IInv, CInv, NEW t \in Tasks, NEW g \in 0 .. MaxRepoll, Lock(t, g),
         task[t].txn, caller[t] = NoTask, caller'[t] = NoTask
  PROVE  JournalLast(t)'
<1>1. /\ StaysAt(t) \/ GetsKey(t, g)
      /\ Target(t) # "WriteLock"
  BY LockOutcome
<1>2. Locking(t) /\ task[t].pc = "locking" /\ Journal \notin writes[t]
        /\ writes[t] \cap Stores = {}
  BY DEF Lock, Locking, CInv, JournalLast
<1>3. task[t] \in TaskState /\ Shape(task[t], reads[t], writes[t])
  BY DEF IInv, TypeOK, Shapes
<1>4. Key(t) = KeyOf(task[t]) /\ Target(t) = TargetOf(task[t])
  BY DEF Key, KeyOf, Target, TargetOf
<1>5. \/ task[t].stages = <<ReadStage({Filesystem})>>
      \/ AsksFor(task[t].stages, Objects \ Stores)
      \/ \E k \in Objects \ Stores :
           task[t].stages = <<TxnStage({k}), ReadStage({Filesystem})>>
  BY <1>2 DEF CInv, JournalLast
<1>6. CASE StaysAt(t)
  BY <1>1, <1>2, <1>5, <1>6 DEF StaysAt, JournalLast
<1>7. CASE GetsKey(t, g)
  <2> DEFINE next == Left(task[t].stages, Key(t))
  <2>1. /\ task'[t].stages = next
        /\ next = <<>> => task'[t].pc = "holding"
    BY <1>2, <1>3, <1>7, AfterPlace DEF GetsKey
  <2>2. ASSUME \/ next = <<>>
               \/ next = <<ReadStage({Filesystem})>>
               \/ AsksFor(next, Objects \ Stores),
               Target(t) = "ReadLock" \/ (Key(t) # Journal /\ Key(t) \notin Stores)
        PROVE  JournalLast(t)'
    <3>1. Journal \notin writes'[t] /\ writes'[t] \cap Stores = {}
      BY <1>2, <1>7, <2>2 DEF GetsKey
    <3>2. QED  BY <2>1, <2>2, <3>1 DEF JournalLast, Locking
  <2>3. CASE task[t].stages = <<ReadStage({Filesystem})>>
    <3>1. Filesystem \in Keys
      BY DEF Keys
    <3>2. next = <<>> /\ Target(t) = "ReadLock"
      BY <1>4, <2>3, <3>1, OneStage
    <3>3. QED  BY <2>2, <3>2
  <2>4. CASE AsksFor(task[t].stages, Objects \ Stores)
    <3>1. Objects \ Stores \in SUBSET TxnKeys /\ Journal \notin Objects \ Stores
      BY KeysAssumption DEF TxnKeys
    <3>2. \/ Target(t) = "ReadLock" /\ AsksFor(next, Objects \ Stores)
          \/ Key(t) \in Objects \ Stores /\ (next = <<>> \/ AsksFor(next, Objects \ Stores))
      BY <1>4, <2>4, <3>1, AsksStep
    <3>3. QED  BY <2>2, <3>1, <3>2
  <2>5. CASE \E k \in Objects \ Stores :
               task[t].stages = <<TxnStage({k}), ReadStage({Filesystem})>>
    <3>1. PICK k \in Objects \ Stores :
            task[t].stages = <<TxnStage({k}), ReadStage({Filesystem})>>
      BY <2>5
    <3>2. Head(task[t].stages) = TxnStage({k})
            /\ Tail(task[t].stages) = <<ReadStage({Filesystem})>>
      BY <3>1, Lists
    <3>3. k \in Keys /\ k # Journal /\ k \notin Stores
      BY KeysAssumption DEF Keys, TxnKeys
    <3>4. Key(t) = k
      BY <3>2, <3>3, FirstOfOne DEF Key, TxnStage
    <3>5. next = <<ReadStage({Filesystem})>>
      BY <3>2, <3>4 DEF Left, TxnStage
    <3>6. QED  BY <2>2, <3>3, <3>4, <3>5
  <2>6. QED  BY <1>5, <2>3, <2>4, <2>5
<1>8. QED  BY <1>1, <1>6, <1>7

\* A poll of lock().
LEMMA LockC ==
  ASSUME IInv, CInv, NEW t \in Tasks, Running(t), NEW g \in 0 .. MaxRepoll, Lock(t, g)
  PROVE  CInv'
<1>1. /\ StaysAt(t) \/ GetsKey(t, g)
      /\ OthersUnmoved(t)
      /\ task[t].txn => Target(t) # "WriteLock"
                          /\ \A j \in writes[t] : keys'[j].state = keys[j].state
  BY LockOutcome
<1>2. Locking(t) /\ task[t].pc = "locking" /\ caller' = caller /\ commit_mutex' = commit_mutex
  BY DEF Lock, Locking
<1>3. task[t] \in TaskState /\ Shape(task[t], reads[t], writes[t])
  BY DEF IInv, TypeOK, Shapes
<1>4. task'[t].txn = task[t].txn
  <2>1. CASE StaysAt(t)  BY <2>1 DEF StaysAt
  <2>2. CASE GetsKey(t, g)  BY <1>2, <1>3, <2>2, AfterPlace DEF GetsKey
  <2>3. QED  BY <1>1, <2>1, <2>2
<1>5. MutexHeld'
  BY <1>1, <1>2 DEF CInv, MutexHeld, OthersUnmoved, OthersStay
<1>6. LetsPass(t)'
  <2>1. SUFFICES ASSUME task[t].txn, NEW k \in writes'[t] PROVE keys'[k].state = "Locked"
    BY <1>4 DEF LetsPass
  <2>2. \A j \in writes[t] : keys'[j].state = "Locked"
    BY <1>1, <1>2, <2>1 DEF CInv, LetsPass
  <2>3. CASE StaysAt(t)
    BY <1>1, <2>1, <2>2, <2>3 DEF StaysAt
  <2>4. CASE GetsKey(t, g)
    <3>1. Target(t) \in {"ReadLock", "Locked"}
      BY <1>1, <1>2, <2>1, AtKey DEF IInv, TargetState
    <3>2. QED  BY <2>1, <2>2, <2>4, <3>1 DEF GetsKey
  <2>5. QED  BY <1>1, <2>3, <2>4
<1>7. ASSUME NEW x \in Tasks, caller'[t] = x PROVE CalledBy(x, t)'
  BY <1>2, <1>7, NestedLock
<1>8. JournalLast(t)'
  <2>1. CASE task[t].txn /\ caller[t] = NoTask
    BY <1>2, <2>1, OwnLock
  <2>2. CASE task[t].txn /\ caller[t] # NoTask
    <3>1. caller[t] \in Tasks
      BY <2>2 DEF IInv, TypeOK
    <3>2. /\ Journal \in writes'[t] => task'[t].pc = "holding"
          /\ writes'[t] \subseteq writes[t] \cup {Journal}
      BY <2>2, <3>1, NestedLock
    <3>3. writes'[t] \cap Stores = {}
      BY <2>2, <3>2, KeysAssumption DEF CInv, JournalLast
    <3>4. QED  BY <1>2, <2>2, <3>2, <3>3 DEF JournalLast
  <2>3. CASE ~task[t].txn
    <3>1. Journal \notin writes[t]
      BY <1>2 DEF CInv, JournalLast
    <3>2. AtRead(task[t], reads[t], writes[t]) \/ AtWrite(task[t], reads[t], writes[t])
      BY <1>2, <1>3, <2>3 DEF Shape, LockingShape
    <3>3. PICK k \in Keys : \/ task[t].stages = <<ReadStage({k})>>
                            \/ task[t].stages = <<WriteStage({k})>> /\ k \in Objects \cup {Filesystem}
      BY <3>2 DEF AtRead, AtWrite
    <3>4. Target(t) = "ReadLock" \/ Key(t) \in Objects \cup {Filesystem}
      BY <3>3, OneStage DEF Target, TargetOf, Key, KeyOf
    <3>5. Target(t) = "ReadLock" \/ Key(t) # Journal
      BY <3>4, KeysAssumption DEF TxnKeys
    <3>6. Journal \notin writes'[t]
      <4>1. CASE GetsKey(t, g)
        BY <3>1, <3>5, <4>1 DEF GetsKey
      <4>2. CASE StaysAt(t)
        <5>1. writes'[t] \subseteq writes[t] \cup {Key(t)}
          BY <1>2 DEF Lock, PollVacant, PollWantWrite, StartWantWrite, PollShared, Wait, Push,
                      IInv, TypeOK
        <5>2. QED  BY <3>1, <3>5, <4>2, <5>1 DEF StaysAt
      <4>3. QED  BY <1>1, <4>1, <4>2
    <3>7. QED  BY <1>4, <2>3, <3>6 DEF JournalLast
  <2>4. QED  BY <2>1, <2>2, <2>3
<1>9. QED  BY <1>1, <1>2, <1>5, <1>6, <1>7, <1>8, CStep

\* Every step keeps what nested calls rely on.
LEMMA NextC ==
  ASSUME IInv, CInv, [Next]_vars
  PROVE  CInv'
<1>1. CASE UNCHANGED vars
  <2>1. Called'
    <3>1. SUFFICES ASSUME NEW t \in Tasks, NEW v \in Tasks, caller[v] = t PROVE CalledBy(t, v)'
      BY <1>1 DEF Called, vars
    <3>2. CalledBy(t, v)
      BY <3>1 DEF CInv, Called
    <3>3. QED  BY <1>1, <3>2, CalledStays DEF vars
  <2>2. MutexHeld' /\ \A t \in Tasks : LetsPass(t)' /\ JournalLast(t)'
    BY <1>1 DEF vars, CInv, MutexHeld, LetsPass, JournalLast, Locking
  <2>3. QED  BY <2>1, <2>2 DEF CInv
<1>2. CASE Next
  <2>1. PICK t \in Tasks :
          /\ Running(t)
          /\ \/ Begin(t) \/ Commit(t) \/ LockCommitMutex(t) \/ Applied(t) \/ DropTransaction(t)
             \/ Cancel(t) \/ Release(t) \/ DropWriteGuard(t) \/ DropReadGuard(t) \/ Dropped(t)
             \/ \E u \in Tasks : ReadNested(t, u) \/ OpenStore(t, u) \/ PreCommit(t, u)
             \/ \E g \in 0 .. MaxRepoll : Lock(t, g) \/ CommitPrepare(t, g)
    BY <1>2 DEF Next
  <2>2. CASE Begin(t) \/ Commit(t) \/ LockCommitMutex(t) \/ Applied(t)
    BY <2>1, <2>2, BeginC, CommitC, CommitMutexC
  <2>3. CASE Cancel(t) \/ Release(t)
    BY <2>1, <2>3, DroppingC
  <2>4. CASE DropTransaction(t) \/ DropWriteGuard(t) \/ DropReadGuard(t) \/ Dropped(t)
    BY <2>1, <2>4, DropC
  <2>5. CASE \E u \in Tasks : ReadNested(t, u) \/ OpenStore(t, u) \/ PreCommit(t, u)
    BY <2>5, CallC
  <2>6. CASE \E g \in 0 .. MaxRepoll : Lock(t, g) \/ CommitPrepare(t, g)
    BY <2>1, <2>6, LockC, CommitPrepareC
  <2>7. QED  BY <2>1, <2>2, <2>3, <2>4, <2>5, <2>6
<1>3. QED  BY <1>1, <1>2

(***************************************************************************)
(* A task that awaits a nested call is held up by what it may call only:   *)
(* a reader of something it may read, which its own locks let pass, the    *)
(* store that fsck opens, or the transaction with which pre_commit extends *)
(* the journal, the only one that locks the journal's key.                 *)
(***************************************************************************)
THEOREM NestedCalls == Spec => [](IInv /\ CInv)
<1>1. ASSUME Init PROVE CInv
  <2>1. \A t \in Tasks : task[t] = Idle /\ writes[t] = {} /\ caller[t] = NoTask
    BY <1>1 DEF Init
  <2>2. Called /\ MutexHeld
    BY <1>1, <2>1, BoundsAssumption DEF Called, MutexHeld, Init
  <2>3. \A t \in Tasks : LetsPass(t) /\ JournalLast(t)
    BY <2>1, IdleFields DEF LetsPass, JournalLast, Locking
  <2>4. QED  BY <2>2, <2>3 DEF CInv
<1>2. IInv /\ CInv /\ [Next]_vars => CInv'
  BY NextC
<1>3. QED  BY <1>1, <1>2, Inductive, PTL DEF Spec

-----------------------------------------------------------------------------
(* Circles.                                                                 *)

\* What a task that waits waits for.
LEMMA BlockedBy ==
  ASSUME CInv, NEW t \in Tasks, NEW u \in Blockers(t)
  PROVE  /\ u \in Tasks
         /\ \/ /\ task[t].pc \in {"holding", "applying"}
               /\ caller[u] = t /\ CalledBy(t, u)
            \/ task[t].pc = "committing" /\ task[u].pc = "applying"
            \/ task[t].pc = "locking" /\ ~awake[t] /\ task[t].want_write /\ Key(t) \in reads[u]
            \/ task[t].pc = "locking" /\ ~awake[t] /\ ~task[t].want_write /\ Key(t) \in writes[u]
            \/ task[t].pc = "preparing" /\ NextUpgrade(t) \in reads[u]
<1>1. u \in Tasks
  BY DEF Blockers
<1>2. CASE caller[u] = t
  BY <1>1, <1>2, CallPlaces DEF CInv, Called
<1>3. CASE task[t].pc = "committing" /\ commit_mutex = u
  BY <1>1, <1>3 DEF CInv, MutexHeld
<1>4. QED  BY <1>1, <1>2, <1>3 DEF Blockers, Locking, NextUpgrade

\* The members of a circle: each is blocked by another one.
LEMMA Member ==
  ASSUME IInv, CInv, NEW S \in SUBSET Tasks, CircularWait(S), NEW t \in S
  PROVE  /\ t \in Tasks /\ Shape(task[t], reads[t], writes[t])
         /\ task[t].pc \in {"locking", "holding", "preparing", "committing", "applying"}
         /\ task[t].pc = "locking" =>
              /\ ~awake[t]
              /\ \E u \in S : Key(t) \in IF task[t].want_write THEN reads[u] ELSE writes[u]
         /\ task[t].pc = "preparing" => \E u \in S : NextUpgrade(t) \in reads[u]
         /\ task[t].pc = "committing" => \E u \in S : task[u].pc = "applying"
         /\ task[t].pc \in {"holding", "applying"} =>
              \E u \in S : caller[u] = t /\ CalledBy(t, u)
<1>1. PICK u \in S : u \in Blockers(t)
  BY DEF CircularWait
<1>2. t \in Tasks /\ Shape(task[t], reads[t], writes[t])
  BY DEF IInv, Shapes
<1>3. \/ /\ task[t].pc \in {"holding", "applying"}
         /\ caller[u] = t /\ CalledBy(t, u)
      \/ task[t].pc = "committing" /\ task[u].pc = "applying"
      \/ task[t].pc = "locking" /\ ~awake[t] /\ task[t].want_write /\ Key(t) \in reads[u]
      \/ task[t].pc = "locking" /\ ~awake[t] /\ ~task[t].want_write /\ Key(t) \in writes[u]
      \/ task[t].pc = "preparing" /\ NextUpgrade(t) \in reads[u]
  BY <1>1, <1>2, BlockedBy
<1>4. QED  BY <1>2, <1>3

\* Nobody locks a layer.
LEMMA MembersLock ==
  ASSUME IInv, CInv, NEW S \in SUBSET Tasks, CircularWait(S), NEW t \in S
  PROVE  writes[t] \subseteq TxnKeys \cup {Filesystem} /\ writes[t] \cap ReadOnly = {}
<1>1. Shape(task[t], reads[t], writes[t])
        /\ task[t].pc \in {"locking", "holding", "preparing", "committing", "applying"}
  BY Member
<1>2. CASE task[t].pc = "locking"
  <2>1. LockingShape(task[t], reads[t], writes[t])
    BY <1>1, <1>2 DEF Shape
  <2>2. writes[t] \subseteq TxnKeys \cup {Filesystem}
    BY <2>1 DEF LockingShape, AtFilesystem, BeforeKeys, AtKeys, AtAttribute, AtRead, AtWrite, TxnKeys
  <2>3. QED  BY <2>2, KeysAssumption
<1>3. CASE task[t].pc = "holding" /\ ~task[t].txn
  <2>1. HasGuard(reads[t], writes[t])
    BY <1>1, <1>3 DEF Shape
  <2>2. writes[t] \subseteq TxnKeys \cup {Filesystem}
    BY <2>1 DEF HasGuard, TxnKeys
  <2>3. QED  BY <2>2, KeysAssumption
<1>4. CASE task[t].pc # "locking" /\ task[t].txn
  BY <1>1, <1>4, KeysAssumption DEF Shape
<1>5. QED  BY <1>1, <1>2, <1>3, <1>4 DEF Shape

\* Nobody in a circle reads a layer: it would wait for no lock, and for the
\* readers of the layers below it only.
LEMMA NoLayerReader ==
  ASSUME IInv, CInv, NEW S \in SUBSET Tasks, CircularWait(S)
  PROVE  \A t \in S : \A k \in ReadOnly : ~IsReader(t, k)
<1>1. ASSUME NEW t \in S, NEW k \in ReadOnly, IsReader(t, k)
      PROVE  /\ task[t].pc = "holding" /\ reads[t] = {k} /\ writes[t] = {}
             /\ \E u \in S : \E j \in RootLayers :
                  IsReader(u, j) /\ reads[t] \cap RootLayers = {}
  <2>1. t \in Tasks /\ k \in Keys
    BY DEF Keys
  <2>2. task[t].pc # "locking"
    <3>1. SUFFICES ASSUME task[t].pc = "locking" PROVE FALSE
      OBVIOUS
    <3>2. task[t].stages = <<ReadStage({k})>>
      BY <1>1, <3>1 DEF IsReader
    <3>3. Key(t) = k /\ Target(t) = "ReadLock"
      BY <2>1, <3>2, OneStage DEF Key, KeyOf, Target, TargetOf
    <3>4. ~task[t].want_write
      BY <2>1, <3>1, <3>3, AtKey DEF IInv, Locking
    <3>5. PICK u \in S : k \in writes[u]
      BY <3>1, <3>3, <3>4, Member
    <3>6. QED  BY <3>5, MembersLock
  <2>3. task[t].pc = "holding" /\ reads[t] = {k} /\ writes[t] = {}
    BY <1>1, <2>2 DEF IsReader, Locking
  <2>4. PICK u \in S : caller[u] = t /\ CalledBy(t, u)
    BY <2>3, Member
  <2>5. task[u].pc # "dropping"
    BY Member
  <2>6. PICK j \in NestedReads(t) : IsReader(u, j)
    BY <2>3, <2>4, <2>5 DEF CalledBy
  <2>7. j \in RootLayers /\ reads[t] \cap RootLayers = {}
    BY <2>3, <2>6 DEF NestedReads
  <2>8. QED  BY <2>3, <2>6, <2>7
<1>2. ASSUME NEW t \in S, NEW k \in RootLayers, IsReader(t, k) PROVE FALSE
  <2>1. k \in ReadOnly
    BY DEF ReadOnly
  <2>2. reads[t] = {k} /\ reads[t] \cap RootLayers = {}
    BY <1>1, <1>2, <2>1
  <2>3. QED  BY <2>2
<1>3. SUFFICES ASSUME NEW t \in S, NEW k \in ReadOnly, IsReader(t, k) PROVE FALSE
  OBVIOUS
<1>4. PICK u \in S : \E j \in RootLayers : IsReader(u, j)
  BY <1>1, <1>3
<1>5. QED  BY <1>2, <1>4

\* Whoever holds locks in a circle, and waits for none, is fsck, which waits for
\* a store it opens.
LEMMA Holder ==
  ASSUME IInv, CInv, NEW S \in SUBSET Tasks, CircularWait(S), NEW t \in S,
         task[t].pc = "holding"
  PROVE  /\ ~task[t].txn /\ reads[t] = {} /\ writes[t] = {Filesystem}
         /\ \E u \in S : task[u].pc = "locking" /\ \E j \in Stores : IsOpener(u, j)
<1>1. ASSUME NEW v \in S, task[v].pc = "holding"
      PROVE  \E u \in S :
               \/ \E j \in writes[v] : /\ task[v].txn /\ IsReader(u, j)
                                       /\ task[u].pc = "locking" => awake[u]
               \/ Filesystem \in writes[v] /\ \E j \in Stores : IsOpener(u, j)
  <2>1. PICK u \in S : CalledBy(v, u)
    BY <1>1, Member
  <2>2. task[u].pc # "dropping"
    BY Member
  <2>3. CASE \E k \in NestedReads(v) : /\ IsReader(u, k)
                                       /\ k \in writes[v] /\ Locking(u) => awake[u]
    <3>1. PICK k \in NestedReads(v) : /\ IsReader(u, k)
                                      /\ k \in writes[v] /\ Locking(u) => awake[u]
      BY <2>3
    <3>2. k \notin ReadOnly
      BY <3>1, NoLayerReader
    <3>3. k \in writes[v] /\ task[v].txn
      BY <3>2 DEF NestedReads, ReadOnly
    <3>4. QED  BY <3>1, <3>3 DEF Locking
  <2>4. CASE Filesystem \in writes[v] /\ \E k \in Stores : IsOpener(u, k)
    BY <2>4
  <2>5. QED  BY <1>1, <2>1, <2>2, <2>3, <2>4 DEF CalledBy
<1>2. ASSUME NEW v \in S, task[v].pc = "holding"
      PROVE  /\ task[v].txn => writes[v] \subseteq TxnKeys
             /\ ~task[v].txn => HasGuard(reads[v], writes[v])
  BY <1>2, Member DEF Shape
<1>3. Filesystem \notin TxnKeys /\ Filesystem \notin Stores
  BY KeysAssumption DEF TxnKeys
<1>4. ASSUME NEW v \in S, task[v].pc = "holding", ~task[v].txn PROVE Filesystem \in writes[v]
  BY <1>1, <1>4
<1>5. ASSUME NEW v \in S, task[v].pc = "holding" PROVE ~task[v].txn
  <2>1. SUFFICES ASSUME task[v].txn PROVE FALSE
    OBVIOUS
  <2>2. PICK u \in S : \E j \in writes[v] : /\ IsReader(u, j)
                                            /\ task[u].pc = "locking" => awake[u]
    BY <1>1, <1>2, <1>3, <1>5, <2>1
  <2>3. PICK j : IsReader(u, j) /\ (task[u].pc = "locking" => awake[u])
    BY <2>2
  <2>4. task[u].pc = "holding" /\ ~task[u].txn /\ writes[u] = {}
    BY <2>3, Member DEF IsReader, Locking
  <2>5. QED  BY <1>4, <2>4
<1>6. ~task[t].txn /\ Filesystem \in writes[t]
  BY <1>4, <1>5
<1>7. reads[t] = {} /\ writes[t] = {Filesystem}
  BY <1>2, <1>6 DEF HasGuard
<1>8. PICK u \in S : \E j \in Stores : IsOpener(u, j)
  BY <1>1, <1>6
<1>9. task[u].pc = "locking"
  <2>1. SUFFICES ASSUME task[u].pc = "holding" PROVE FALSE
    BY <1>8 DEF IsOpener, Locking
  <2>2. PICK j \in Stores : writes[u] = {j}
    BY <1>8, <2>1 DEF IsOpener, Locking
  <2>3. ~task[u].txn
    BY <1>8 DEF IsOpener
  <2>4. QED  BY <1>3, <1>4, <2>1, <2>2, <2>3
<1>10. QED  BY <1>6, <1>7, <1>8, <1>9

\* The readers in a circle have read locks of the filesystem only.
LEMMA MembersRead ==
  ASSUME IInv, CInv, NEW S \in SUBSET Tasks, CircularWait(S), NEW t \in S
  PROVE  reads[t] \subseteq {Filesystem}
<1>1. Shape(task[t], reads[t], writes[t])
        /\ task[t].pc \in {"locking", "holding", "preparing", "committing", "applying"}
  BY Member
<1>2. CASE task[t].pc = "locking"
  <2>1. LockingShape(task[t], reads[t], writes[t])
    BY <1>1, <1>2 DEF Shape
  <2>2. QED
    BY <2>1 DEF LockingShape, AtFilesystem, BeforeKeys, AtKeys, AtAttribute, AtRead, AtWrite
<1>3. CASE task[t].pc = "holding"
  BY <1>3, Holder
<1>4. CASE task[t].pc \in {"preparing", "committing", "applying"}
  BY <1>1, <1>4 DEF Shape
<1>5. QED  BY <1>1, <1>2, <1>3, <1>4

\* Nobody in a circle holds locks and waits for none: the store that fsck opens
\* could be locked by somebody who opens it too, and who gets on.
LEMMA NobodyHolds ==
  ASSUME IInv, CInv, NEW S \in SUBSET Tasks, CircularWait(S), NEW t \in S
  PROVE  task[t].pc # "holding"
<1>1. SUFFICES ASSUME task[t].pc = "holding" PROVE FALSE
  OBVIOUS
<1>2. PICK u \in S : task[u].pc = "locking" /\ \E j \in Stores : IsOpener(u, j)
  BY <1>1, Holder
<1>3. PICK k \in Stores : task[u].stages = <<WriteStage({k})>>
  BY <1>2 DEF IsOpener, Locking
<1>4. k \in Keys /\ k # Filesystem
  BY KeysAssumption DEF Keys, TxnKeys
<1>5. Key(u) = k
  BY <1>3, <1>4, OneStage DEF Key, KeyOf
<1>6. ASSUME NEW v \in S, task[v].pc = "locking", Key(v) = k
      PROVE  ~task[v].want_write /\ \E w \in S : k \in writes[w]
  BY <1>4, <1>6, Member, MembersRead
<1>7. PICK w \in S : k \in writes[w]
  BY <1>2, <1>5, <1>6
<1>8. ~task[w].txn
  BY <1>7 DEF CInv, JournalLast
<1>9. Shape(task[w], reads[w], writes[w])
        /\ task[w].pc \in {"locking", "holding", "preparing", "committing", "applying"}
  BY Member
<1>10. task[w].pc = "locking"
  <2>1. task[w].pc \in {"locking", "holding"}
    BY <1>8, <1>9 DEF Shape
  <2>2. task[w].pc # "holding"
    BY <1>4, <1>7, Holder
  <2>3. QED  BY <2>1, <2>2
<1>11. AtRead(task[w], reads[w], writes[w]) \/ AtWrite(task[w], reads[w], writes[w])
  BY <1>8, <1>9, <1>10 DEF Shape, LockingShape
<1>12. task[w].stages = <<WriteStage({k})>> /\ task[w].want_write
  BY <1>7, <1>11 DEF AtRead, AtWrite
<1>13. Key(w) = k
  BY <1>4, <1>12, OneStage DEF Key, KeyOf
<1>14. QED  BY <1>6, <1>10, <1>12, <1>13

\* A task that acquires the keys of a transaction.
TakesKeys(t) == task[t].pc = "locking" /\ AtKeys(task[t], reads[t], writes[t])

\* Without a late filesystem lock nobody in a circle commits: the transaction of
\* pre_commit would wait for the journal's key, which only another one could hold.
LEMMA NobodyCommits ==
  ASSUME IInv, CInv, NEW S \in SUBSET Tasks, CircularWait(S),
         \A t \in S : ~LateFilesystemLock(t)
  PROVE  \A t \in S : task[t].pc = "locking"
<1>1. ASSUME NEW t \in S, task[t].pc = "applying" PROVE FALSE
  <2>1. PICK u \in S : caller[u] = t /\ CalledBy(t, u)
    BY <1>1, Member
  <2>2. IsExtender(u)
    BY <1>1, <2>1, Member DEF CalledBy
  <2>3. task[u].pc = "locking"
    BY <2>2, NobodyHolds DEF IsExtender
  <2>4. task[u].txn /\ AsksFor(task[u].stages, {Journal}) /\ {Journal} \in SUBSET TxnKeys
    BY <2>2, <2>3 DEF IsExtender, Locking, TxnKeys
  <2>5. \/ Key(u) = Filesystem /\ Target(u) = "ReadLock"
        \/ Key(u) = Journal /\ Target(u) = "Locked"
    BY <2>4, AsksStep DEF Key, KeyOf, Target, TargetOf
  <2>6. Key(u) = Journal /\ Target(u) = "Locked"
    BY <2>1, <2>3, <2>5, BoundsAssumption DEF LateFilesystemLock, Locking
  <2>7. ~task[u].want_write
    BY <2>3, <2>6, AtKey DEF IInv, Locking
  <2>8. PICK w \in S : Journal \in writes[w]
    BY <2>3, <2>6, <2>7, Member
  <2>9. task[w].pc = "holding"
    BY <2>8, Member DEF CInv, JournalLast
  <2>10. QED  BY <2>9, NobodyHolds
<1>2. ASSUME NEW t \in S, task[t].pc = "preparing" PROVE FALSE
  <2>1. NextUpgrade(t) \in writes[t]
    BY <1>2, NextUpgradeIsMine DEF IInv
  <2>2. writes[t] \subseteq TxnKeys
    BY <1>2, Member DEF Shape
  <2>3. PICK u \in S : NextUpgrade(t) \in reads[u]
    BY <1>2, Member
  <2>4. QED  BY <2>1, <2>2, <2>3, MembersRead, KeysAssumption
<1>3. QED  BY <1>1, <1>2, Member, NobodyHolds

\* What the members of a circle without a late filesystem lock hold.
LEMMA InCircle ==
  ASSUME IInv, CInv, NEW S \in SUBSET Tasks, CircularWait(S),
         \A t \in S : ~LateFilesystemLock(t), NEW t \in S
  PROVE  \/ TakesKeys(t) /\ ~task[t].want_write
         \/ task[t].pc = "locking" /\ ~task[t].want_write /\ reads[t] = {} /\ writes[t] = {}
         \/ /\ task[t].pc = "locking" /\ task[t].want_write
            /\ reads[t] = {} /\ writes[t] = {Filesystem} /\ Key(t) = Filesystem
<1>1. task[t].pc = "locking"
  BY NobodyCommits
<1>2. LockingShape(task[t], reads[t], writes[t])
  BY <1>1, Member DEF Shape
<1>3. CASE ~task[t].want_write /\ AtFilesystem(task[t], reads[t], writes[t])
  <2>1. task[t].stages = <<ReadStage({Filesystem})>> /\ reads[t] = {} /\ Filesystem \in Keys
    BY <1>3 DEF AtFilesystem, Keys
  <2>2. Key(t) = Filesystem /\ Target(t) = "ReadLock"
    BY <2>1, OneStage DEF Key, KeyOf, Target, TargetOf
  <2>3. writes[t] = {}
    BY <1>1, <2>2 DEF LateFilesystemLock, Locking
  <2>4. QED  BY <1>1, <1>3, <2>1, <2>3
<1>4. CASE AtWrite(task[t], reads[t], writes[t])
  <2>1. PICK k \in Keys : /\ task[t].stages = <<WriteStage({k})>> /\ reads[t] = {}
                          /\ writes[t] = IF task[t].want_write THEN {k} ELSE {}
    BY <1>4 DEF AtWrite
  <2>2. Key(t) = k
    BY <2>1, OneStage DEF Key, KeyOf
  <2>3. CASE task[t].want_write
    <3>1. PICK u \in S : k \in reads[u]
      BY <1>1, <2>2, <2>3, Member
    <3>2. k = Filesystem
      BY <3>1, MembersRead
    <3>3. QED  BY <1>1, <2>1, <2>2, <2>3, <3>2
  <2>4. QED  BY <1>1, <2>1, <2>3
<1>5. CASE ~task[t].want_write /\ AtKeys(task[t], reads[t], writes[t])
  BY <1>1, <1>5 DEF TakesKeys
<1>6. CASE ~task[t].want_write /\ (\/ BeforeKeys(task[t], reads[t], writes[t])
                                   \/ AtAttribute(task[t], reads[t], writes[t])
                                   \/ AtRead(task[t], reads[t], writes[t]))
  BY <1>1, <1>6 DEF BeforeKeys, AtAttribute, AtRead
<1>7. QED  BY <1>2, <1>3, <1>4, <1>5, <1>6 DEF LockingShape

\* A task in its keys waits for one that has already got further.
LEMMA FurtherOn ==
  ASSUME IInv, NEW t \in Tasks, TakesKeys(t), NEW u \in Tasks, TakesKeys(u),
         Key(t) \in writes[u]
  PROVE  Key(t) < Key(u)
<1>1. PICK S \in SUBSET TxnKeys :
              /\ S # {} /\ task[u].stages = <<TxnStage(S)>>
              /\ \A j \in writes[u], k \in S : j < k
  BY DEF TakesKeys, AtKeys
<1>2. Key(u) = First(S)
  BY <1>1, Lists DEF Key, TxnStage
<1>3. First(S) \in S
  BY <1>1, FirstIsLeast DEF Keys
<1>4. QED  BY <1>1, <1>2, <1>3

\* Somebody in a circle without a late filesystem lock takes keys: only such a
\* task holds a read lock of the filesystem, or an object.
LEMMA SomebodyTakesKeys ==
  ASSUME IInv, CInv, NEW S \in SUBSET Tasks, CircularWait(S),
         \A t \in S : ~LateFilesystemLock(t)
  PROVE  \E t \in S : TakesKeys(t)
<1>1. SUFFICES ASSUME \A t \in S : ~TakesKeys(t) PROVE FALSE
  OBVIOUS
<1>2. ASSUME NEW t \in S
      PROVE  /\ reads[t] = {} /\ writes[t] \subseteq {Filesystem}
             /\ task[t].pc = "locking"
             /\ ~task[t].want_write => writes[t] = {}
  BY <1>1, InCircle
<1>3. ASSUME NEW t \in S PROVE ~task[t].want_write /\ writes[t] = {}
  <2>1. PICK u \in S : Key(t) \in IF task[t].want_write THEN reads[u] ELSE writes[u]
    BY <1>2, Member
  <2>2. QED  BY <1>2, <2>1
<1>4. PICK t \in S : TRUE
  BY DEF CircularWait
<1>5. PICK u \in S : Key(t) \in writes[u]
  BY <1>2, <1>3, Member
<1>6. QED  BY <1>3, <1>5

(***************************************************************************)
(* lock() takes the keys of a call in their order, new_transaction takes   *)
(* the filesystem lock first, a transaction reads its own attribute before *)
(* its commit only, and nobody locks a layer; so tasks, nested calls and   *)
(* commits included, wait in a circle only if one of them asks for the     *)
(* filesystem lock with locks held (a cache flush in                       *)
(* new_transaction_with_locks, or pre_commit) and another one (fsck) waits *)
(* for the readers of that lock to leave.                                  *)
(***************************************************************************)
THEOREM CircleSafe == Spec => []CircleOnlyByLateLock
<1>1. ASSUME IInv, CInv PROVE CircleOnlyByLateLock
  <2>1. SUFFICES ASSUME NEW S \in SUBSET Tasks, CircularWait(S)
                 PROVE  /\ \E t \in S : LateFilesystemLock(t)
                        /\ \E u \in S : WantsFilesystem(u)
    BY DEF CircleOnlyByLateLock
  <2>2. \E t \in S : LateFilesystemLock(t)
    <3>1. SUFFICES ASSUME \A t \in S : ~LateFilesystemLock(t) PROVE FALSE
      OBVIOUS
    <3>2. ASSUME NEW t \in S, TakesKeys(t)
          PROVE  /\ Key(t) \in Keys
                 /\ \E u \in S : TakesKeys(u) /\ Key(t) < Key(u)
      <4>1. PICK K \in SUBSET TxnKeys : K # {} /\ task[t].stages = <<TxnStage(K)>>
        BY <3>2 DEF TakesKeys, AtKeys
      <4>2. task[t].pc = "locking" /\ reads[t] # {}
        BY <3>2 DEF TakesKeys, AtKeys
      <4>3. Key(t) = First(K)
        BY <4>1, Lists DEF Key, TxnStage
      <4>4. Key(t) \in TxnKeys /\ Key(t) \in Keys /\ Key(t) # Filesystem
        BY <4>1, <4>3, FirstIsLeast, KeysAssumption DEF Keys
      <4>5. ~task[t].want_write
        BY <1>1, <2>1, <3>1, <4>2, InCircle
      <4>6. PICK u \in S : Key(t) \in writes[u]
        BY <1>1, <2>1, <4>2, <4>5, Member
      <4>7. TakesKeys(u)
        BY <1>1, <2>1, <3>1, <4>4, <4>6, InCircle
      <4>8. QED  BY <1>1, <3>2, <4>4, <4>6, <4>7, FurtherOn
    <3>3. PICK T : T = {Key(t) : t \in {v \in S : TakesKeys(v)}}
      OBVIOUS
    <3>4. T \in SUBSET Keys /\ T # {}
      BY <1>1, <2>1, <3>1, <3>2, <3>3, SomebodyTakesKeys
    <3>5. PICK k \in T : \A j \in T : j <= k
      BY <3>4, KeysHaveEnds
    <3>6. PICK t \in S : TakesKeys(t) /\ k = Key(t)
      BY <3>3, <3>5
    <3>7. PICK u \in S : TakesKeys(u) /\ Key(t) < Key(u)
      BY <3>2, <3>6
    <3>8. Key(u) \in T /\ Key(u) \in Nat /\ k \in Nat
      BY <3>3, <3>4, <3>5, <3>7, KeysAssumption
    <3>9. QED  BY <3>5, <3>6, <3>7, <3>8
  <2>3. PICK t \in S : LateFilesystemLock(t)
    BY <2>2
  <2>4. Key(t) = Filesystem /\ Target(t) = "ReadLock" /\ task[t].pc = "locking"
    BY <2>3 DEF LateFilesystemLock, Locking
  <2>5. ~task[t].want_write
    BY <1>1, <2>4, AtKey DEF IInv, Locking
  <2>6. PICK u \in S : Filesystem \in writes[u]
    BY <1>1, <2>1, <2>4, <2>5, Member
  <2>7. Shape(task[u], reads[u], writes[u]) /\ Filesystem \notin TxnKeys
          /\ task[u].pc \in {"locking", "preparing", "committing", "applying"}
    BY <1>1, <2>1, Member, NobodyHolds, KeysAssumption
  <2>8. task[u].pc = "locking" /\ LockingShape(task[u], reads[u], writes[u])
    BY <2>6, <2>7 DEF Shape
  <2>9. task[u].want_write
    BY <2>6, <2>7, <2>8 DEF LockingShape, AtFilesystem, BeforeKeys, AtKeys, AtAttribute,
                            AtRead, AtWrite
  <2>10. QED  BY <2>2, <2>6, <2>9 DEF WantsFilesystem
<1>2. QED  BY <1>1, NestedCalls, PTL
=============================================================================
