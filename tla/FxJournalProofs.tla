-------------------------- MODULE FxJournalProofs --------------------------
(***************************************************************************)
(* Proofs about FxJournal: whatever crashes when, a mount recovers a       *)
(* prefix of the transactions that were committed, everything that had     *)
(* been synced is among them, and the data they refer to is there. The     *)
(* invariant, and what reading, mounting and crashing do to it, are in     *)
(* FxJournalRecovery; here are the steps of a mounted filesystem.          *)
(***************************************************************************)
EXTENDS FxJournalRecovery

-----------------------------------------------------------------------------
(* Mounted: the past, the log and the allocator. *)

\* What was lost stays lost, and the log may grow behind the past.
Grows(tr, g) ==
    /\ Len(log) <= Len(log') /\ \A i \in 1 .. Len(log) : log'[i] = log[i]
    /\ \A i \in Len(log) + 1 .. Len(log') : \A q \in 1 .. g : log'[i].offset >= tr[At(q)].position
    /\ next_id <= next_id'
    /\ \A b \in Blocks : \A n \in 1 .. MaxTxns :
         n < next_id /\ n \notin unstable.data[b] => n \notin unstable'.data[b]

\* A longer log says nothing else of the readers of earlier mounts.
LEMMA HistoryGrow ==
    ASSUME NEW tr, NEW g \in Nat, History(tr, g), Grows(tr, g),
           \A q \in 1 .. g : tr[At(q)] \in Readers,
           Len(log) \in Nat, Len(log') \in Nat, next_id \in Nat, next_id' \in Nat
    PROVE  History(tr, g)'
<1>0. \A i \in 1 .. Len(log) : i \in 1 .. Len(log') /\ log'[i] = log[i]
  BY DEF Grows
<1>1. ASSUME NEW q \in 1 .. g PROVE Old(tr[At(q)], q)'
  <2> DEFINE r == tr[At(q)]
             t == r.transactions
  <2>1. r \in Readers /\ Old(r, q) /\ t \in Seq(Entries)
    BY DEF History, Readers
  <2> HIDE DEF r
  <2>2. ASSUME NEW i \in 1 .. Len(t) PROVE t[i].txn.new.id < next_id /\ t[i].txn.new.id < next_id'
    <3>1. t[i].txn \in AnyTxn
      BY <2>1, EntryOf
    <3>2. t[i].txn.new.id \in Nat
      BY <3>1, TxnOf, ExtentOf
    <3>3. t[i].txn.new.id < next_id
      BY <2>1 DEF Old
    <3>4. \A x \in Nat : x < next_id => x < next_id'
      BY DEF Grows
    <3> QED
      BY <3>2, <3>3, <3>4
  <2>3. ASSUME NEW w, Barred(r, w) PROVE Barred(r, w)'
    <3>1. PICK i \in Pushed(r) : Obstructs(r, i, w) /\ Lost(t[i])
      BY <2>3 DEF Barred
    <3>2. BlockOf(t[i]) \in Blocks /\ i \in 1 .. Len(t) /\ t[i].txn.new.id \in 1 .. MaxTxns
      BY <2>1, PushedIs
    <3>3. Lost(t[i])'
      BY <3>1, <3>2, <2>2 DEF Lost, Grows
    <3> QED
      BY <3>1, <3>3 DEF Barred
  <2>4. UpperOK(r)'
    BY <2>1, <2>3, <1>0 DEF Old, UpperOK
  <2>5. Old(r, q)'
    BY <2>1, <2>2, <2>4 DEF Old
  <2> QED
    BY <2>5 DEF r
<1>2. ASSUME NEW q \in 1 .. g, NEW p \in 1 .. g, q <= p PROVE Pair(tr[At(q)], tr[At(p)])'
  <2> DEFINE r == tr[At(q)]
             s == tr[At(p)]
  <2>1. Pair(r, s) /\ r \in Readers /\ Old(r, q)
    BY <1>2 DEF History
  <2>2. ASSUME NEW i \in 1 .. Len(r.transactions), i <= Len(log'), r.transactions[i] = log'[i]
        PROVE  i <= Len(s.transactions) /\ s.transactions[i] = log'[i]
    <3>1. i <= Len(log)
      <4>1. ASSUME i > Len(log) PROVE FALSE
        <5>1. i \in Len(log) + 1 .. Len(log')
          BY <4>1, <2>2
        <5>2. log'[i].offset >= r.position
          BY <5>1 DEF Grows
        <5>3. r.transactions[i].offset < r.position
          BY <2>1 DEF Old
        <5>4. r.transactions[i].offset \in Nat /\ r.position \in Nat
          BY <2>1, EntryOf DEF Readers
        <5> HIDE DEF r
        <5> QED
          BY <5>2, <5>3, <5>4, <2>2
      <4> QED
        BY <4>1
    <3>2. i \in 1 .. Len(log) /\ log'[i] = log[i]
      BY <3>1, <1>0
    <3> QED
      BY <2>1, <2>2, <3>1, <3>2 DEF Pair
  <2>3. Pair(r, s)'
    BY <2>1, <2>2 DEF Pair
  <2> QED
    BY <2>3
<1> QED
  BY <1>1, <1>2 DEF History

\* The log stays when transactions get their numbers.
LEMMA LogStays ==
    ASSUME LogInv, UNCHANGED <<log, synced>>, next_id \in Nat, next_id' \in Nat, next_id <= next_id'
    PROVE  LogInv'
<1>1. \A x \in Nat : x < next_id => x < next_id'
  OBVIOUS
<1>2. \A i \in 1 .. Len(log) : log[i].txn.new.id < next_id'
  BY <1>1, LogTxn
<1>3. \A i \in 2 .. Len(log) : log[i].txn \in Txn /\ log[i].txn.id < next_id'
  <2> TAKE i \in 2 .. Len(log)
  <2>1. log[i].txn \in Txn /\ log[i].txn.id < next_id
    BY DEF LogInv
  <2>2. log[i].txn.id \in Nat
    BY <2>1, TxnOf DEF AnyTxn
  <2> QED
    BY <2>1, <2>2, <1>1
<1> QED
  BY <1>2, <1>3 DEF LogInv, Ascending, BlockOf

\* The extent of a file is the one of the last transaction on it.
LEMMA ExtentIs ==
    ASSUME LogInv, AllocInv, NEW f \in Files, extents[f] # Hole
    PROVE  \E i \in 1 .. Len(log) : /\ log[i].txn.file = f /\ extents[f] = log[i].txn.new
                                    /\ \A j \in i + 1 .. Len(log) : log[j].txn.file # f
                                    /\ BlockOf(log[i]) = extents[f].block /\ BlockOf(log[i]) # NoBlock
<1>1. PICK i \in 1 .. Len(log) : IsLast(i, f) /\ extents[f] = log[i].txn.new
  BY DEF AllocInv
<1>2. BlockOf(log[i]) = log[i].txn.new.block /\ BlockOf(log[i]) # NoBlock
  BY <1>1, LogTxn
<1> QED
  BY <1>1, <1>2 DEF IsLast

\* The last transaction on a file that has a block, and the file's extent.
LEMMA LastIs ==
    ASSUME LogInv, AllocInv, NEW i \in 1 .. Len(log), BlockOf(log[i]) # NoBlock,
           \A j \in i + 1 .. Len(log) : log[j].txn.file # log[i].txn.file
    PROVE  log[i].txn.file \in Files /\ extents[log[i].txn.file] = log[i].txn.new
<1> DEFINE f == log[i].txn.file
<1>1. i \in 2 .. Len(log)
  <2>1. i # 1
    <3>1. log[1] = Entry(0, NoTxn)
      BY DEF LogInv
    <3>2. log[1].txn.new.block = NoBlock
      BY <3>1, Constants DEF Entry
    <3> QED
      BY <3>2, LogTxn
  <2>2. Len(log) \in Nat
    BY DEF LogInv
  <2> QED
    BY <2>1, <2>2
<1>2. log[i].txn \in Txn
  BY <1>1 DEF LogInv
<1>3. f \in Files
  BY <1>2 DEF Txn
<1>4. PICK l \in 1 .. Len(log) : IsLast(l, f) /\ extents[f] = log[l].txn.new
  <2>1. ~(\A k \in 1 .. Len(log) : log[k].txn.file # f)
    OBVIOUS
  <2> HIDE DEF f
  <2> QED
    BY <1>3, <2>1 DEF AllocInv
<1>5. l = i
  <2>1. /\ log[l].txn.file = f /\ \A j \in l + 1 .. Len(log) : log[j].txn.file # f
        /\ Len(log) \in Nat
    BY <1>4 DEF IsLast, LogInv
  <2>2. l \notin i + 1 .. Len(log) /\ i \notin l + 1 .. Len(log)
    BY <2>1
  <2> QED
    BY <2>1, <2>2
<1> QED
  BY <1>3, <1>4, <1>5

\* A transaction is committed at offset o.
Commits(f, o, txn) ==
    /\ f \in Files /\ o \in Nat /\ txn \in Txn /\ \A i \in 1 .. Len(log) : log[i].offset < o
    /\ txn.file = f /\ txn.new = pending[f] /\ txn.old = extents[f].block
    /\ next_id \in Nat /\ next_id' \in Nat /\ next_id <= next_id'
    /\ txn.id < next_id' /\ txn.new.id < next_id'
    /\ log' = Append(log, Entry(o, txn)) /\ synced' = synced
    /\ extents' = [extents EXCEPT ![f] = txn.new]
    /\ pending' = [pending EXCEPT ![f] = Hole]
    /\ deallocated' = deallocated \cup Deallocates(o, txn)

\* The log with one more transaction.
LEMMA Appended ==
    ASSUME LogInv, NEW f, NEW o, NEW txn, Commits(f, o, txn)
    PROVE  /\ log' \in Seq(Entries) /\ Len(log') = Len(log) + 1 /\ Len(log) \in Nat /\ Len(log) >= 1
           /\ \A i \in 1 .. Len(log) : i \in 1 .. Len(log') /\ log'[i] = log[i]
           /\ log'[Len(log) + 1] = Entry(o, txn) /\ Entry(o, txn).txn = txn /\ Entry(o, txn).offset = o
           /\ \A i \in 1 .. Len(log') : i \in 1 .. Len(log) \/ i = Len(log) + 1
           /\ BlockOf(Entry(o, txn)) = txn.new.block
<1>1. Entry(o, txn) \in Entries
  BY DEF Commits, Entry, Entries, AnyTxn
<1>2. log \in Seq(Entries) /\ Len(log) \in Nat /\ Len(log) >= 1
  BY DEF LogInv
<1>3. /\ log' \in Seq(Entries) /\ Len(log') = Len(log) + 1
      /\ \A i \in 1 .. Len(log) : log'[i] = log[i]
      /\ log'[Len(log) + 1] = Entry(o, txn)
  BY <1>1, <1>2, AppendProperties DEF Commits
<1> QED
  BY <1>2, <1>3 DEF Entry, BlockOf

\* It is a log still: the transaction gives up what its file had.
LEMMA LogCommit ==
    ASSUME LogInv, AllocInv, NEW f, NEW o, NEW txn, Commits(f, o, txn)
    PROVE  LogInv'
<1> DEFINE n == Len(log) + 1
           e == Entry(o, txn)
<1>1. /\ log' \in Seq(Entries) /\ Len(log') = n /\ Len(log) \in Nat /\ Len(log) >= 1
      /\ \A i \in 1 .. Len(log) : i \in 1 .. n /\ log'[i] = log[i]
      /\ log'[n] = e /\ e.txn = txn /\ e.offset = o
      /\ \A i \in 1 .. n : i \in 1 .. Len(log) \/ i = n
      /\ BlockOf(e) = txn.new.block
  BY Appended
<1>2. /\ f \in Files /\ o \in Nat /\ txn \in Txn /\ \A i \in 1 .. Len(log) : log[i].offset < o
      /\ txn.file = f /\ txn.new = pending[f] /\ txn.old = extents[f].block
      /\ next_id \in Nat /\ next_id' \in Nat /\ next_id <= next_id'
      /\ txn.id < next_id' /\ txn.new.id < next_id' /\ synced' = synced
  BY DEF Commits
<1> HIDE DEF n, e
<1>3. log'[1] = Entry(0, NoTxn) /\ synced' \in Nat /\ synced' + 1 <= Len(log')
  BY <1>1, <1>2 DEF LogInv, n
<1>4. Ascending(log')
  <2>1. ASSUME NEW i \in 1 .. n, NEW j \in 1 .. n, i < j PROVE log'[i].offset < log'[j].offset
    <3>1. i \in 1 .. Len(log)
      BY <2>1, <1>1 DEF n
    <3>2. CASE j \in 1 .. Len(log)
      BY <3>1, <3>2, <2>1, <1>1 DEF LogInv, Ascending
    <3>3. CASE j = n
      BY <3>1, <3>3, <1>1, <1>2
    <3> QED
      BY <3>2, <3>3, <1>1
  <2> QED
    BY <2>1, <1>1 DEF Ascending
<1>5. \A x \in Nat : x < next_id => x < next_id'
  BY <1>2
<1>6. \A i \in 2 .. n : log'[i].txn \in Txn /\ log'[i].txn.id < next_id'
  <2> TAKE i \in 2 .. n
  <2>1. CASE i = n
    BY <2>1, <1>1, <1>2
  <2>2. CASE i \in 2 .. Len(log)
    <3>1. log[i].txn \in Txn /\ log[i].txn.id < next_id /\ log'[i] = log[i]
      BY <2>2, <1>1 DEF LogInv
    <3>2. log[i].txn.id \in Nat
      BY <3>1, TxnOf DEF AnyTxn
    <3> QED
      BY <3>1, <3>2, <1>5
  <2> QED
    BY <2>1, <2>2, <1>1 DEF n
<1>7. \A i \in 1 .. n : log'[i].txn.new.id < next_id'
  <2> TAKE i \in 1 .. n
  <2>1. CASE i = n
    BY <2>1, <1>1, <1>2
  <2>2. CASE i \in 1 .. Len(log)
    BY <2>2, <1>1, <1>5, LogTxn
  <2> QED
    BY <2>1, <2>2, <1>1
<1>8. ASSUME NEW i \in 1 .. n, NEW k \in 1 .. n, i < k, BlockOf(log'[i]) # NoBlock,
             log'[k].txn.old = BlockOf(log'[i]) \/ BlockOf(log'[k]) = BlockOf(log'[i])
      PROVE  \E j \in i + 1 .. k : log'[j].txn.file = log'[i].txn.file
  <2>1. i \in 1 .. Len(log) /\ log'[i] = log[i]
    BY <1>8, <1>1 DEF n
  <2>2. CASE k \in 1 .. Len(log)
    <3>1. \E j \in i + 1 .. k : log[j].txn.file = log[i].txn.file
      BY <1>8, <1>1, <2>1, <2>2 DEF LogInv
    <3>2. \A j \in i + 1 .. k : j \in 1 .. Len(log)
      BY <2>1, <2>2, <1>1
    <3> QED
      BY <3>1, <3>2, <2>1, <1>1
  <2>3. CASE k = n
    <3>1. n \in i + 1 .. n /\ \A j \in i + 1 .. Len(log) : j \in i + 1 .. n /\ j \in 1 .. Len(log)
      BY <1>1, <2>1 DEF n
    <3>2. CASE log[i].txn.file = f
      BY <3>1, <3>2, <2>1, <2>3, <1>1, <1>2
    <3>3. CASE log[i].txn.file # f /\ \E j \in i + 1 .. Len(log) : log[j].txn.file = log[i].txn.file
      BY <3>1, <3>3, <2>1, <2>3, <1>1
    <3>4. CASE /\ log[i].txn.file # f
               /\ \A j \in i + 1 .. Len(log) : log[j].txn.file # log[i].txn.file
      <4>1. log[i].txn.file \in Files /\ extents[log[i].txn.file] = log[i].txn.new
        BY <3>4, <2>1, <1>8, LastIs
      <4>2. extents[log[i].txn.file].block = BlockOf(log[i])
        BY <4>1, <2>1, LogTxn
      <4>3. CASE txn.new.block = BlockOf(log[i])
        <5>1. pending[f] # Hole
          BY <4>3, <1>2, <1>8, <2>1, Constants
        <5> QED
          BY <5>1, <4>1, <4>2, <4>3, <1>2 DEF AllocInv
      <4>4. CASE txn.old = BlockOf(log[i])
        <5>1. extents[f] # Hole
          BY <4>4, <1>2, <1>8, <2>1, Constants
        <5>2. PICK l \in 1 .. Len(log) :
                 /\ log[l].txn.file = f /\ extents[f] = log[l].txn.new
                 /\ \A j \in l + 1 .. Len(log) : log[j].txn.file # f
                 /\ BlockOf(log[l]) = extents[f].block /\ BlockOf(log[l]) # NoBlock
          BY <5>1, <1>2, ExtentIs
        <5>3. l # i
          BY <3>4, <5>2
        <5>4. CASE l < i
          <6>1. \E j \in l + 1 .. i : log[j].txn.file = log[l].txn.file
            BY <5>2, <5>4, <4>4, <2>1, <1>2 DEF LogInv
          <6>2. \A j \in l + 1 .. i : j \in l + 1 .. Len(log)
            BY <2>1, <1>1
          <6> QED
            BY <6>1, <6>2, <5>2
        <5>5. CASE i < l
          <6>1. \E j \in i + 1 .. l : log[j].txn.file = log[i].txn.file
            BY <5>2, <5>5, <4>4, <2>1, <1>2, <1>8 DEF LogInv
          <6>2. \A j \in i + 1 .. l : j \in i + 1 .. Len(log)
            BY <5>2, <1>1
          <6> QED
            BY <6>1, <6>2, <3>4
        <5> QED
          BY <5>2, <5>3, <5>4, <5>5, <2>1
      <4> QED
        BY <4>3, <4>4, <1>8, <2>1, <2>3, <1>1
    <3> QED
      BY <3>2, <3>3, <3>4
  <2> QED
    BY <2>2, <2>3, <1>1
<1>9. ASSUME NEW i \in 1 .. n, NEW j \in 1 .. n, i < j, BlockOf(log'[i]) # NoBlock,
             log'[i].txn.file = log'[j].txn.file
      PROVE  \E k \in i + 1 .. j : log'[k].txn.old = BlockOf(log'[i])
  <2>1. i \in 1 .. Len(log) /\ log'[i] = log[i]
    BY <1>9, <1>1 DEF n
  <2>2. CASE j \in 1 .. Len(log)
    <3>1. \E k \in i + 1 .. j : log[k].txn.old = BlockOf(log[i])
      BY <1>9, <1>1, <2>1, <2>2 DEF LogInv
    <3>2. \A k \in i + 1 .. j : k \in 1 .. Len(log)
      BY <2>1, <2>2, <1>1
    <3> QED
      BY <3>1, <3>2, <2>1, <1>1
  <2>3. CASE j = n
    <3>0. log[i].txn.file = f
      BY <1>9, <2>1, <2>3, <1>1, <1>2
    <3>1. n \in i + 1 .. n /\ \A k \in i + 1 .. Len(log) : k \in i + 1 .. n /\ k \in 1 .. Len(log)
      BY <1>1, <2>1 DEF n
    <3>2. CASE \A k \in i + 1 .. Len(log) : log[k].txn.file # log[i].txn.file
      <4>1. extents[f] = log[i].txn.new
        BY <3>0, <3>2, <2>1, <1>9, LastIs
      <4>2. txn.old = BlockOf(log[i])
        BY <4>1, <1>2, <2>1, LogTxn
      <4> QED
        BY <4>2, <3>1, <2>1, <2>3, <1>1
    <3>3. ASSUME NEW l \in i + 1 .. Len(log), log[l].txn.file = log[i].txn.file
          PROVE  \E k \in i + 1 .. n : log'[k].txn.old = BlockOf(log'[i])
      <4>1. l \in 1 .. Len(log) /\ i < l
        BY <2>1, <1>1
      <4>2. \E k \in i + 1 .. l : log[k].txn.old = BlockOf(log[i])
        BY <4>1, <3>3, <2>1, <1>9 DEF LogInv
      <4>3. \A k \in i + 1 .. l : k \in i + 1 .. Len(log)
        BY <4>1, <2>1, <1>1
      <4> QED
        BY <4>2, <4>3, <3>1, <2>1, <1>1
    <3> QED
      BY <3>2, <3>3, <2>3
  <2> QED
    BY <2>2, <2>3, <1>1
<1>10. /\ (log \in Seq(Entries))' /\ (Len(log) >= 1 /\ log[1] = Entry(0, NoTxn))'
       /\ (synced \in Nat /\ synced + 1 <= Len(log))' /\ Ascending(log)'
  BY <1>1, <1>3, <1>4 DEF n
<1>11. /\ (\A i \in 2 .. Len(log) : log[i].txn \in Txn /\ log[i].txn.id < next_id)'
       /\ (\A i \in 1 .. Len(log) : log[i].txn.new.id < next_id)'
  BY <1>1, <1>6, <1>7
<1>12. (\A i, k \in 1 .. Len(log) :
          i < k /\ BlockOf(log[i]) # NoBlock
            /\ (log[k].txn.old = BlockOf(log[i]) \/ BlockOf(log[k]) = BlockOf(log[i]))
            => \E j \in i + 1 .. k : log[j].txn.file = log[i].txn.file)'
  BY <1>1, <1>8
<1>13. (\A i, j \in 1 .. Len(log) :
          i < j /\ BlockOf(log[i]) # NoBlock /\ log[i].txn.file = log[j].txn.file
            => \E k \in i + 1 .. j : log[k].txn.old = BlockOf(log[i]))'
  BY <1>1, <1>9
<1> QED
  BY <1>10, <1>11, <1>12, <1>13, Zenon DEF LogInv

\* The allocator after the commit.
LEMMA AllocCommit ==
    ASSUME LogInv, AllocInv, NEW f, NEW o, NEW txn, Commits(f, o, txn), data' = data
    PROVE  AllocInv'
<1>0. PICK n : n = Len(log) + 1
  OBVIOUS
<1> DEFINE e == Entry(o, txn)
<1>1. /\ Len(log') = n /\ Len(log) \in Nat /\ Len(log) >= 1
      /\ \A i \in 1 .. Len(log) : i \in 1 .. n /\ log'[i] = log[i]
      /\ log'[n] = e /\ e.txn = txn
      /\ \A i \in 1 .. n : i \in 1 .. Len(log) \/ i = n
  BY <1>0, Appended
<1>2. /\ f \in Files /\ o \in Nat /\ txn \in Txn /\ txn.file = f /\ txn.new = pending[f]
      /\ next_id \in Nat /\ next_id' \in Nat /\ next_id <= next_id'
      /\ extents' = [extents EXCEPT ![f] = txn.new]
      /\ pending' = [pending EXCEPT ![f] = Hole]
      /\ deallocated' = deallocated \cup Deallocates(o, txn)
  BY DEF Commits
<1>3. /\ extents \in [Files -> Extents] /\ pending \in [Files -> Extents]
      /\ deallocated \subseteq [offset : Nat, block : Blocks]
  BY DEF AllocInv
<1>4. extents' \in [Files -> Extents] /\ pending' \in [Files -> Extents]
  BY <1>2, <1>3, Constants
<1>5. deallocated' \subseteq [offset : Nat, block : Blocks]
  <2>1. txn.old \in Blocks \cup {NoBlock}
    BY <1>2 DEF Txn
  <2> QED
    BY <2>1, <1>2, <1>3 DEF Deallocates
<1> HIDE DEF e
<1>6. ASSUME NEW x \in Files
      PROVE  \/ extents'[x] = Hole /\ \A i \in 1 .. n : log'[i].txn.file # x
             \/ \E i \in 1 .. n : IsLast(i, x)' /\ extents'[x] = log'[i].txn.new
  <2>1. CASE x = f
    <3>1. n \in 1 .. n /\ n + 1 .. n = {}
      BY <1>0, <1>1
    <3>2. IsLast(n, x)'
      BY <2>1, <3>1, <1>1, <1>2 DEF IsLast
    <3>3. extents'[x] = log'[n].txn.new
      BY <2>1, <1>1, <1>2, <1>3
    <3> QED
      BY <3>1, <3>2, <3>3
  <2>2. CASE x # f
    <3>1. extents'[x] = extents[x]
      BY <2>2, <1>2, <1>3
    <3>2. CASE extents[x] = Hole /\ \A i \in 1 .. Len(log) : log[i].txn.file # x
      <4>1. \A i \in 1 .. n : log'[i].txn.file # x
        BY <3>2, <2>2, <1>1, <1>2
      <4> QED
        BY <4>1, <3>1, <3>2
    <3>3. ASSUME NEW i \in 1 .. Len(log), IsLast(i, x), extents[x] = log[i].txn.new
          PROVE  i \in 1 .. n /\ IsLast(i, x)' /\ extents'[x] = log'[i].txn.new
      <4>1. i \in 1 .. n /\ log'[i] = log[i]
        BY <1>1
      <4>2. \A j \in i + 1 .. n : log'[j].txn.file # x
        <5> TAKE j \in i + 1 .. n
        <5>1. j = n \/ (j \in i + 1 .. Len(log) /\ j \in 1 .. Len(log))
          BY <1>0, <1>1
        <5> QED
          BY <5>1, <3>3, <2>2, <1>1, <1>2 DEF IsLast
      <4> QED
        BY <4>1, <4>2, <3>1, <3>3, <1>1 DEF IsLast
    <3> QED
      BY <3>2, <3>3 DEF AllocInv
  <2> QED
    BY <2>1, <2>2
<1>7. ASSUME NEW x \in Files, pending'[x] # Hole
      PROVE  /\ \A y \in Files : extents'[y].block # pending'[x].block
             /\ \A y \in Files : y # x => pending'[y].block # pending'[x].block
             /\ data'[pending'[x].block] = pending'[x].id
             /\ pending'[x].id < next_id'
  <2>1. x # f /\ pending'[x] = pending[x]
    BY <1>7, <1>2, <1>3
  <2>2. /\ \A y \in Files : extents[y].block # pending[x].block
        /\ \A y \in Files : y # x => pending[y].block # pending[x].block
        /\ data[pending[x].block] = pending[x].id
        /\ pending[x].id < next_id
    BY <2>1, <1>7 DEF AllocInv
  <2>3. pending[x].block # NoBlock /\ pending[x].id \in Nat
    BY <2>1, <1>7, <1>3, ExtentOf
  <2>4. \A y \in Files : extents'[y].block # pending[x].block
    <3> TAKE y \in Files
    <3>1. extents'[y] = IF y = f THEN pending[f] ELSE extents[y]
      BY <1>2, <1>3
    <3> QED
      BY <3>1, <2>1, <2>2, <1>2
  <2>5. \A y \in Files : y # x => pending'[y].block # pending[x].block
    <3> TAKE y \in Files
    <3>1. pending'[y] = IF y = f THEN Hole ELSE pending[y]
      BY <1>2, <1>3
    <3> QED
      BY <3>1, <2>2, <2>3, Constants
  <2>6. pending[x].id < next_id'
    <3>1. \A a \in Nat : a < next_id => a < next_id'
      BY <1>2
    <3> QED
      BY <3>1, <2>2, <2>3
  <2> QED
    BY <2>1, <2>2, <2>4, <2>5, <2>6
<1> QED
  BY <1>1, <1>4, <1>5, <1>6, <1>7 DEF AllocInv

\* The other steps of the allocator.
LEMMA AllocFrame ==
    ASSUME AllocInv, UNCHANGED <<extents, pending, data, log, next_id>>,
           deallocated' \subseteq deallocated
    PROVE  AllocInv'
<1>1. \A i, f : IsLast(i, f)' <=> IsLast(i, f)
  BY DEF IsLast
<1> QED
  BY <1>1 DEF AllocInv

\* The allocator after a transaction is dropped.
LEMMA AllocDrop ==
    ASSUME AllocInv, NEW f \in Files, pending' = [pending EXCEPT ![f] = Hole],
           UNCHANGED <<extents, deallocated, data, log, next_id>>
    PROVE  AllocInv'
<1>1. \A i, x : IsLast(i, x)' <=> IsLast(i, x)
  BY DEF IsLast
<1>2. pending \in [Files -> Extents]
  BY DEF AllocInv
<1>3. pending' \in [Files -> Extents]
  BY <1>2, Constants
<1>4. \A x \in Files : pending'[x] = IF x = f THEN Hole ELSE pending[x]
  BY <1>2
<1>5. ASSUME NEW x \in Files, pending'[x] # Hole
      PROVE  /\ \A y \in Files : extents[y].block # pending'[x].block
             /\ \A y \in Files : y # x => pending'[y].block # pending'[x].block
             /\ data[pending'[x].block] = pending'[x].id
             /\ pending'[x].id < next_id
  <2>1. x # f /\ pending'[x] = pending[x]
    BY <1>4, <1>5
  <2>2. /\ \A y \in Files : extents[y].block # pending[x].block
        /\ \A y \in Files : y # x => pending[y].block # pending[x].block
        /\ data[pending[x].block] = pending[x].id
        /\ pending[x].id < next_id
    BY <2>1, <1>5 DEF AllocInv
  <2>3. pending[x].block # NoBlock
    BY <2>1, <1>2, <1>5, ExtentOf
  <2> QED
    BY <2>1, <2>2, <2>3, <1>4, Constants
<1> QED
  BY <1>1, <1>3, <1>5 DEF AllocInv

\* The block that data is written to.
LEMMA FreeBlock ==
    ASSUME AllocInv, Free # {}, NEW b, b = Min(Free)
    PROVE  /\ b \in Blocks /\ b # NoBlock
           /\ \A e \in Files : extents[e].block # b /\ pending[e].block # b
           /\ \A d \in deallocated : d.block # b
<1>1. Free \in SUBSET Nat
  BY BlocksAssumption DEF Free
<1>2. b \in Free
  BY <1>1, LeastOf
<1>3. b \in Blocks /\ b \notin Taken /\ b # NoBlock
  BY <1>2, BlocksAssumption DEF Free, NoBlock
<1> QED
  BY <1>3 DEF Taken

\* The allocator and the device after data is written to a free block.
LEMMA AllocWrite ==
    ASSUME LogInv, AllocInv, DeviceInv, NEW f \in Files, WriteData(f)
    PROVE  AllocInv' /\ DeviceInv' /\ LogInv' /\ next_id \in Nat /\ next_id' = next_id + 1
<1> DEFINE b == Min(Free)
<1>1. /\ next_id <= MaxTxns /\ Free # {}
      /\ pending' = [pending EXCEPT ![f] = [block |-> b, id |-> next_id]]
      /\ data' = [data EXCEPT ![b] = next_id]
      /\ unstable' = [unstable EXCEPT !.data[b] = @ \cup {next_id, 0}]
      /\ next_id' = next_id + 1
      /\ UNCHANGED <<journal, extents, deallocated, log, synced>>
  BY DEF WriteData
<1>2. /\ b \in Blocks /\ b # NoBlock
      /\ \A e \in Files : extents[e].block # b /\ pending[e].block # b
  BY <1>1, FreeBlock
<1> HIDE DEF b
<1>3. /\ next_id \in Nat /\ next_id >= 1 /\ next_id \in 1 .. MaxTxns /\ MaxTxns \in Nat
      /\ data \in [Blocks -> 0 .. MaxTxns]
      /\ unstable \in [journal : [Indices -> SUBSET Checksums],
                       data : [Blocks -> SUBSET (0 .. MaxTxns)]]
      /\ pending \in [Files -> Extents]
  BY <1>1, JournalBoundsAssumption DEF DeviceInv, AllocInv
<1>4. LogInv'
  BY <1>1, <1>3, LogStays
<1>5. /\ unstable'.journal = unstable.journal
      /\ \A x \in Blocks : unstable'.data[x] = IF x = b THEN unstable.data[b] \cup {next_id, 0}
                                                ELSE unstable.data[x]
      /\ unstable' \in [journal : [Indices -> SUBSET Checksums],
                        data : [Blocks -> SUBSET (0 .. MaxTxns)]]
  <2>1. unstable.data[b] \cup {next_id, 0} \in SUBSET (0 .. MaxTxns)
    BY <1>2, <1>3
  <2> QED
    BY <2>1, <1>1, <1>2, <1>3
<1>6. DeviceInv'
  <2>1. \A x \in Blocks : data'[x] = IF x = b THEN next_id ELSE data[x]
    BY <1>1, <1>2, <1>3
  <2>2. data' \in [Blocks -> 0 .. MaxTxns]
    BY <1>1, <1>2, <1>3
  <2>3. \A x \in Blocks : data'[x] \in unstable'.data[x]
    BY <2>1, <1>5 DEF DeviceInv
  <2>4. \A x \in Blocks : \A n \in unstable'.data[x] : n < next_id + 1
    <3> TAKE x \in Blocks
    <3> TAKE n \in unstable'.data[x]
    <3>1. n \in unstable.data[x] \/ n = next_id \/ n = 0
      BY <1>5
    <3>2. ASSUME n \in unstable.data[x] PROVE n < next_id + 1
      <4>1. n \in 0 .. MaxTxns /\ n < next_id
        BY <3>2, <1>3 DEF DeviceInv
      <4> QED
        BY <4>1, <1>3
    <3> QED
      BY <3>1, <3>2, <1>3
  <2>5. \A i \in Indices : journal'[i] \in unstable'.journal[i]
    BY <1>1, <1>5 DEF DeviceInv
  <2>6. journal' \in [Indices -> Checksums] /\ next_id' \in 1 .. MaxTxns + 1
    BY <1>1, <1>3 DEF DeviceInv
  <2> QED
    BY <1>1, <1>5, <2>2, <2>3, <2>4, <2>5, <2>6 DEF DeviceInv
<1>7. AllocInv'
  <2>1. \A i, x : IsLast(i, x)' <=> IsLast(i, x)
    BY <1>1 DEF IsLast
  <2>2. [block |-> b, id |-> next_id] \in Extents
    BY <1>2, <1>3 DEF Extents
  <2>3. pending' \in [Files -> Extents]
    BY <2>2, <1>1, <1>3
  <2>4. \A x \in Files : pending'[x] = IF x = f THEN [block |-> b, id |-> next_id] ELSE pending[x]
    BY <1>1, <1>3
  <2>5. ASSUME NEW x \in Files, pending'[x] # Hole
        PROVE  /\ \A y \in Files : extents[y].block # pending'[x].block
               /\ \A y \in Files : y # x => pending'[y].block # pending'[x].block
               /\ data'[pending'[x].block] = pending'[x].id
               /\ pending'[x].id < next_id + 1
    <3>1. CASE x = f
      BY <3>1, <2>4, <1>1, <1>2, <1>3
    <3>2. CASE x # f
      <4>1. pending'[x] = pending[x] /\ pending[x] # Hole
        BY <3>2, <2>4, <2>5
      <4>2. /\ \A y \in Files : extents[y].block # pending[x].block
            /\ \A y \in Files : y # x => pending[y].block # pending[x].block
            /\ data[pending[x].block] = pending[x].id
            /\ pending[x].id < next_id
        BY <4>1 DEF AllocInv
      <4>3. pending[x].block # b /\ pending[x].block \in Blocks /\ pending[x].id \in Nat
        BY <4>1, <1>2, <1>3, ExtentOf
      <4>4. data'[pending[x].block] = data[pending[x].block]
        BY <4>3, <1>1, <1>3
      <4>5. \A y \in Files : y # x => pending'[y].block # pending[x].block
        BY <4>2, <4>3, <2>4
      <4>6. pending[x].id < next_id + 1
        BY <4>2, <4>3, <1>3
      <4> QED
        BY <4>1, <4>2, <4>4, <4>5, <4>6
    <3> QED
      BY <3>1, <3>2
  <2> QED
    BY <1>1, <2>1, <2>3, <2>5 DEF AllocInv
<1> QED
  BY <1>1, <1>3, <1>4, <1>6, <1>7

\* A unit's transaction has a number.
LEMMA UnitId ==
    ASSUME NEW s \in Seq(AllUnits), NEW j \in 1 .. Len(s)
    PROVE  s[j].record.txn.id \in Nat
<1>1. s[j] \in AllUnits
  BY ElementOfSeq
<1>2. s[j].record.txn \in AnyTxn
  BY <1>1 DEF AllUnits, Records
<1> QED
  BY <1>2, TxnOf

\* Bounds may be raised.
LEMMA OlderGrows ==
    ASSUME NEW c \in Checksums, NEW i, NEW a \in Nat, NEW b \in Nat, a <= b, IsOlder(c, i, a)
    PROVE  IsOlder(c, i, b)
<1>1. CASE c = Torn
  BY <1>1 DEF IsOlder
<1>2. CASE c # Torn
  <2>1. Len(c.units) = At(i + 1) /\ \A j \in 1 .. At(i + 1) : c.units[j].record.txn.id < a
    BY <1>2 DEF IsOlder
  <2>2. c.units \in Seq(AllUnits)
    BY DEF Checksums
  <2>3. \A x \in Nat : x < a => x < b
    OBVIOUS
  <2>4. \A j \in 1 .. At(i + 1) : c.units[j].record.txn.id < b
    BY <2>1, <2>2, <2>3, UnitId
  <2> QED
    BY <2>1, <2>4 DEF IsOlder
<1> QED
  BY <1>1, <1>2

\* What a step does to a stream that ends.
FrozenStep(tr, g) ==
    /\ Grows(tr, g) /\ mid_block' = mid_block
    /\ writer'.offset \in Nat /\ writer.offset <= writer'.offset /\ writer'.offset % BlockSize # 0
    /\ writer'.buf \in Seq(AllUnits)
    /\ \A i \in 1 .. Len(log') : log'[i].offset < FileOffset(writer')
    /\ in_flight' = NotInFlight \/ (in_flight'.offset \in Nat /\ in_flight'.offset >= BlockSize
                                   /\ in_flight'.offset % BlockSize # 0)
    /\ \A i \in Indices : \A c \in unstable'.journal[i] : c \in unstable.journal[i] \/ (c = Torn /\ i > 0)

\* A mount inside a block leaves the chain of blocks as it was.
LEMMA FrozenKeeps ==
    ASSUME LogInv, DeviceInv, LogInv', DeviceInv',
           NEW u, NEW R, NEW tr, NEW g, NEW m, NEW v, Frozen(u, R, tr, g, m, v), FrozenStep(tr, g)
    PROVE  Frozen(u, R, tr, g, m, v)'
<1>1. /\ IsStream(u, R, tr) /\ Len(u) = At(g) /\ g \in 1 .. JournalBlocks /\ g \in Nat
      /\ u \in Seq(AllUnits) /\ ResetsIn(R, 1 .. g - 1) /\ mid_block
      /\ At(g) \in Nat /\ History(tr, g) /\ Base(tr[At(g)], m, v)
      /\ \A q \in 1 .. g : tr[At(q)] \in Readers
  <2>1. IsStream(u, R, tr) /\ Len(u) = At(g) /\ g \in 1 .. JournalBlocks /\ g \in Nat
    BY SizesAssumption DEF Frozen
  <2>2. At(g) \in Nat /\ At(g) <= Len(u)
    BY <2>1, AtNext
  <2> QED
    BY <2>1, <2>2, ReaderAt DEF Frozen, IsStream
<1>2. /\ Len(log) \in Nat /\ Len(log') \in Nat /\ next_id \in Nat /\ next_id' \in Nat
      /\ next_id <= next_id' /\ Len(log) <= Len(log')
      /\ \A i \in 1 .. Len(log) : log'[i] = log[i]
  BY DEF LogInv, DeviceInv, FrozenStep, Grows
<1>3. History(tr, g)'
  BY <1>1, <1>2, HistoryGrow DEF FrozenStep
<1>4. Base(tr[At(g)], m, v)'
  <2> DEFINE r == tr[At(g)]
  <2>1. /\ m \in 1 .. Len(log) /\ m <= Len(r.transactions)
        /\ \A i \in 1 .. m : r.transactions[i] = log[i]
        /\ v \in Nat /\ r.flushed <= v /\ v <= r.position
        /\ \A i \in 1 .. Len(r.transactions) : i <= m <=> r.transactions[i].offset < v
        /\ \A i \in m + 1 .. Len(log) : log[i].offset >= r.position
    BY <1>1 DEF Base
  <2> HIDE DEF r
  <2>2. m \in 1 .. Len(log') /\ \A i \in 1 .. m : i \in 1 .. Len(log)
    BY <2>1, <1>2
  <2>3. \A i \in m + 1 .. Len(log') : log'[i].offset >= r.position
    <3> TAKE i \in m + 1 .. Len(log')
    <3>1. CASE i <= Len(log)
      <4>1. i \in 1 .. Len(log) /\ i \in m + 1 .. Len(log)
        BY <3>1, <2>1, <1>2
      <4> QED
        BY <4>1, <2>1, <1>2
    <3>2. CASE i > Len(log)
      <4>1. i \in Len(log) + 1 .. Len(log') /\ g \in 1 .. g
        BY <3>2, <2>1, <1>1, <1>2
      <4> QED
        BY <4>1 DEF FrozenStep, Grows, r
    <3> QED
      BY <3>1, <3>2, <2>1, <1>2
  <2>4. \A i \in 1 .. m : r.transactions[i] = log'[i]
    BY <2>1, <2>2, <1>2
  <2> QED
    BY <2>1, <2>2, <2>3, <2>4 DEF Base, r
<1>5. ASSUME NEW i \in Indices, NEW c \in unstable'.journal[i]
      PROVE  IF i < g THEN IsChain(c, u, R, i) \/ (c = Torn /\ i > 0)
             ELSE IsOlder(c, i, next_id') /\ (i = g => ~Follows(c, u, R, i))
  <2>1. CASE c \in unstable.journal[i]
    <3>1. c \in Checksums
      BY <2>1 DEF DeviceInv
    <3>2. IF i < g THEN IsChain(c, u, R, i) \/ (c = Torn /\ i > 0)
          ELSE IsOlder(c, i, next_id) /\ (i = g => ~Follows(c, u, R, i))
      BY <2>1 DEF Frozen
    <3>3. IsOlder(c, i, next_id) => IsOlder(c, i, next_id')
      BY <3>1, <1>2, OlderGrows
    <3> QED
      BY <3>2, <3>3
  <2>2. CASE c = Torn /\ i > 0
    BY <2>2 DEF IsOlder, Follows
  <2> QED
    BY <2>1, <2>2 DEF FrozenStep
<1>6. \A j \in 1 .. Len(u) : u[j].record.txn.id < next_id'
  <2> TAKE j \in 1 .. Len(u)
  <2>1. u[j].record.txn.id \in Nat /\ u[j].record.txn.id < next_id
    BY <1>1, UnitId DEF Frozen
  <2>2. \A x \in Nat : x < next_id => x < next_id'
    BY <1>2
  <2> QED
    BY <2>1, <2>2
<1>7. writer'.offset >= BlockSize /\ tr[At(g)].position <= writer'.offset
  <2>1. /\ writer.offset \in Nat /\ writer.offset >= BlockSize /\ writer'.offset \in Nat
        /\ writer.offset <= writer'.offset /\ tr[At(g)].position <= writer.offset
        /\ tr[At(g)].position \in Nat /\ BlockSize \in Nat
    <3>1. g \in 1 .. g
      BY <1>1
    <3>2. tr[At(g)].position \in Nat
      BY <3>1, <1>1 DEF Readers
    <3> QED
      BY <3>2, SizesAssumption DEF Frozen, FrozenStep
  <2> QED
    BY <2>1
<1> QED
  BY <1>1, <1>3, <1>4, <1>5, <1>6, <1>7 DEF Frozen, FrozenStep

\* A step of a mounted filesystem, put together.
LEMMA MountedStep ==
    ASSUME Inv, pc = "mounted", pc' = "mounted", reader' = reader, mid_block' = mid_block,
           committing' \in Files \cup {NoFile},
           LogInv', DeviceInv', AllocInv', InnerType', WriterType', SyncType', InFlightInv',
           \A u, R, tr, g, m, v :
             Frozen(u, R, tr, g, m, v) => FrozenStep(tr, g),
           \A u, R, tr, g, m, N, v :
             Aligned(u, R, tr, g, m, N, v) =>
               (\E u1, R1, tr1, g1, m1, N1, v1 : Aligned(u1, R1, tr1, g1, m1, N1, v1))'
    PROVE  Inv'
<1>1. LogInv /\ DeviceInv /\ Mounted /\ mid_block \in BOOLEAN
  BY DEF Inv
<1>2. \/ (\E u1, R1, tr1, g1, m1, N1, v1 : Aligned(u1, R1, tr1, g1, m1, N1, v1))'
      \/ (\E u1, R1, tr1, g1, m1, v1 : Frozen(u1, R1, tr1, g1, m1, v1))'
  <2>1. ASSUME NEW u, NEW R, NEW tr, NEW g, NEW m, NEW v, Frozen(u, R, tr, g, m, v)
        PROVE  (\E u1, R1, tr1, g1, m1, v1 : Frozen(u1, R1, tr1, g1, m1, v1))'
    <3>1. Frozen(u, R, tr, g, m, v)'
      BY <1>1, <2>1, FrozenKeeps
    <3> QED
      BY <3>1
  <2> QED
    BY <1>1, <2>1 DEF Mounted
<1>3. Mounted'
  BY <1>1, <1>2 DEF Mounted
<1> QED
  BY <1>1, <1>3 DEF Inv

-----------------------------------------------------------------------------
(* Mounted at the end of a block: what a step leaves alone. *)

\* What the timeline depends on.
LEMMA TimelineFrame ==
    ASSUME NEW u, NEW R, NEW tr, NEW g, NEW m, Timeline(u, R, tr, g, m), UNCHANGED <<log, inner>>
    PROVE  Timeline(u, R, tr, g, m)'
BY DEF Timeline, Recent, DurableOffset

\* What tells this mount from the others.
LEMMA MarkedFrame ==
    ASSUME NEW u, NEW R, NEW g, NEW N, Marked(u, R, g, N), committing' = committing
    PROVE  Marked(u, R, g, N)'
BY DEF Marked

\* The writer and the write that is under way.
LEMMA WriterFrame ==
    ASSUME NEW u, NEW R, NEW g, WriterInv(u, R, g), UNCHANGED <<writer, in_flight>>,
           inner'.flushed_offset = inner.flushed_offset
    PROVE  WriterInv(u, R, g)'
BY DEF WriterInv

\* Blocks that are held back or used again.
LEMMA ReuseFrame ==
    ASSUME NEW u, NEW R, NEW tr, NEW g, ReuseInv(u, R, tr, g),
           UNCHANGED <<pending, log, inner, committing, deallocated>>
    PROVE  ReuseInv(u, R, tr, g)'
BY DEF ReuseInv, DurableOffset

\* The sync that is under way.
LEMMA SyncFrame ==
    ASSUME NEW u, NEW R, NEW tr, NEW g, NEW m, SyncInv(u, R, tr, g, m),
           UNCHANGED <<syncing, log, inner, unstable, mid_block>>
    PROVE  SyncInv(u, R, tr, g, m)'
BY DEF SyncInv, Checkpoint, JournalDurable, DataDurable, Freed

\* What is durable.
LEMMA DurableFrame ==
    ASSUME NEW u, NEW R, NEW tr, NEW g, NEW m, DurableInv(u, R, tr, g, m),
           UNCHANGED <<inner, unstable, log, synced, mid_block, data>>
    PROVE  DurableInv(u, R, tr, g, m)'
BY DEF DurableInv, DurableOffset, Checkpoint, JournalDurable, DataDurable, DataThere, Freed

\* The journal on the device, while transactions get their numbers.
LEMMA DiskFrame ==
    ASSUME NEW u, NEW R, NEW g \in Nat, NEW N \in Nat, DiskInv(u, R, g, N), DeviceInv,
           u \in Seq(AllUnits),
           inner'.flushed_offset = inner.flushed_offset, writer'.offset = writer.offset,
           journal' = journal, \A i \in Indices : unstable'.journal[i] \subseteq unstable.journal[i],
           next_id' \in Nat, next_id <= next_id'
    PROVE  DiskInv(u, R, g, N)'
<1>1. next_id \in Nat /\ \A x \in Nat : x < next_id => x < next_id'
  BY DEF DeviceInv
<1>2. \A j \in 1 .. Len(u) : u[j].record.txn.id < next_id'
  BY <1>1, UnitId DEF DiskInv
<1>3. ASSUME NEW i \in Indices, NEW c \in unstable'.journal[i]
      PROVE  \/ c = Torn /\ i >= g
             \/ At(i + 1) <= writer.offset /\ IsChain(c, u, R, i)
             \/ At(g) \in R /\ i = g /\ ~Follows(c, u, R, i) /\ IsOlder(c, i, next_id')
             \/ At(g) \in R /\ i > g /\ IsOlder(c, i, N)
  <2>1. c \in unstable.journal[i]
    OBVIOUS
  <2>2. c \in Checksums
    BY <2>1 DEF DeviceInv
  <2>3. IsOlder(c, i, next_id) => IsOlder(c, i, next_id')
    BY <2>2, <1>1, OlderGrows
  <2> QED
    BY <2>1, <2>3 DEF DiskInv
<1> QED
  BY <1>2, <1>3 DEF DiskInv

\* The past of a mount at the end of a block.
LEMMA AlignedPast ==
    ASSUME NEW u, NEW R, NEW tr, NEW g, NEW m, NEW N, NEW v, Aligned(u, R, tr, g, m, N, v),
           LogInv, DeviceInv, InnerType, LogInv', DeviceInv', next_id <= next_id',
           Len(log) <= Len(log'), \A i \in 1 .. Len(log) : log'[i] = log[i],
           \A i \in Len(log) + 1 .. Len(log') : log'[i].offset >= Len(u),
           \A b \in Blocks : \A n \in 1 .. MaxTxns :
             n < next_id /\ n \notin unstable.data[b] => n \notin unstable'.data[b]
    PROVE  History(tr, g)' /\ Base(tr[At(g)], m, v)'
<1>1. /\ Len(u) \in Nat /\ IsStream(u, R, tr) /\ g \in Nat /\ At(g) \in Nat /\ g >= 1
      /\ At(g) <= Len(u) /\ tr[At(g)] \in Readers /\ tr[At(g)].position = At(g)
  BY AlignedIs
<1>2. History(tr, g) /\ Base(tr[At(g)], m, v)
  BY DEF Aligned
<1>3. /\ Len(log) \in Nat /\ Len(log') \in Nat /\ next_id \in Nat /\ next_id' \in Nat
      /\ log' \in Seq(Entries)
  BY DEF LogInv, DeviceInv
<1>4. \A q \in 1 .. g : tr[At(q)] \in Readers
  BY <1>1, ReaderAt
<1>5. \A i \in Len(log) + 1 .. Len(log') : log'[i].offset \in Nat /\ log'[i].offset >= At(g)
  <2> TAKE i \in Len(log) + 1 .. Len(log')
  <2>1. i \in 1 .. Len(log')
    BY <1>3
  <2>2. log'[i].offset \in Nat
    BY <2>1, <1>3, EntryOf
  <2> QED
    BY <2>2, <1>1
<1>6. Grows(tr, g)
  <2>1. ASSUME NEW i \in Len(log) + 1 .. Len(log'), NEW q \in 1 .. g
        PROVE  log'[i].offset >= tr[At(q)].position
    <3>1. Pair(tr[At(q)], tr[At(g)])
      <4>1. g \in 1 .. g /\ q <= g
        BY <1>1
      <4> QED
        BY <4>1, <1>2 DEF History
    <3>2. tr[At(q)].position <= At(g) /\ tr[At(q)].position \in Nat
      BY <3>1, <1>1, <1>4 DEF Pair, Readers
    <3>3. log'[i].offset \in Nat /\ log'[i].offset >= At(g)
      BY <1>5
    <3> QED
      BY <3>2, <3>3, <1>1
  <2> QED
    BY <2>1 DEF Grows
<1>7. History(tr, g)'
  BY <1>1, <1>2, <1>3, <1>4, <1>6, HistoryGrow
<1>8. Base(tr[At(g)], m, v)'
  <2> DEFINE r == tr[At(g)]
  <2>1. /\ m \in 1 .. Len(log) /\ m <= Len(r.transactions)
        /\ \A i \in 1 .. m : r.transactions[i] = log[i]
        /\ v \in Nat /\ r.flushed <= v /\ v <= r.position
        /\ \A i \in 1 .. Len(r.transactions) : i <= m <=> r.transactions[i].offset < v
        /\ \A i \in m + 1 .. Len(log) : log[i].offset >= r.position
        /\ r.position = At(g)
    BY <1>1, <1>2 DEF Base
  <2> HIDE DEF r
  <2>2. m \in 1 .. Len(log') /\ \A i \in 1 .. m : i \in 1 .. Len(log)
    BY <2>1, <1>3
  <2>3. \A i \in m + 1 .. Len(log') : log'[i].offset >= r.position
    <3> TAKE i \in m + 1 .. Len(log')
    <3>1. CASE i <= Len(log)
      <4>1. i \in 1 .. Len(log) /\ i \in m + 1 .. Len(log)
        BY <3>1, <2>1, <1>3
      <4> QED
        BY <4>1, <2>1
    <3>2. CASE i > Len(log)
      <4>1. i \in Len(log) + 1 .. Len(log')
        BY <3>2, <2>1, <1>3
      <4> QED
        BY <4>1, <1>5, <2>1
    <3> QED
      BY <3>1, <3>2, <2>1, <1>3
  <2>4. \A i \in 1 .. m : r.transactions[i] = log'[i]
    BY <2>1, <2>2
  <2> QED
    BY <2>1, <2>2, <2>3, <2>4 DEF Base, r
<1> QED
  BY <1>7, <1>8

-----------------------------------------------------------------------------
(* Steps that leave the stream alone: writing and dropping transactions. *)

\* A step that writes nothing to a journal that ends inside a block.
LEMMA FrozenSame ==
    ASSUME NEW u, NEW R, NEW tr, NEW g, NEW m, NEW v, Frozen(u, R, tr, g, m, v), LogInv, DeviceInv,
           UNCHANGED <<log, writer, in_flight, mid_block>>, next_id <= next_id',
           \A i \in Indices : unstable'.journal[i] \subseteq unstable.journal[i],
           \A b \in Blocks : \A n \in 1 .. MaxTxns :
             n < next_id /\ n \notin unstable.data[b] => n \notin unstable'.data[b]
    PROVE  FrozenStep(tr, g)
<1>1. Len(log) \in Nat
  BY DEF LogInv
<1>2. Grows(tr, g)
  BY <1>1 DEF Grows
<1>3. writer.offset \in Nat /\ writer.offset <= writer.offset
  BY DEF Frozen
<1> QED
  BY <1>2, <1>3 DEF FrozenStep, Frozen, FileOffset

\* Nothing of the device changes.
LEMMA SameDevice ==
    ASSUME LogInv, DeviceInv, UNCHANGED <<journal, data, unstable, next_id>>
    PROVE  /\ DeviceInv' /\ next_id \in Nat /\ next_id <= next_id'
           /\ \A i \in Indices : unstable'.journal[i] \subseteq unstable.journal[i]
           /\ \A b \in Blocks : \A n \in 1 .. MaxTxns :
                n < next_id /\ n \notin unstable.data[b] => n \notin unstable'.data[b]
<1>1. DeviceInv'
  BY DeviceFrame
<1>2. next_id \in Nat
  BY DEF DeviceInv
<1> QED
  BY <1>1, <1>2

\* A transaction that is dropped was never in the journal.
LEMMA DropKeeps ==
    ASSUME Inv, NEW f \in Files, DropTransaction(f)
    PROVE  Inv'
<1>1. /\ pc = "mounted" /\ LogInv /\ DeviceInv /\ Mounted /\ InnerType /\ WriterType
      /\ SyncType /\ InFlightInv
      /\ AllocInv /\ committing \in Files \cup {NoFile}
  BY DEF DropTransaction, Inv, Mounted
<1>2. /\ pending' = [pending EXCEPT ![f] = Hole]
      /\ UNCHANGED <<journal, data, unstable, pc, reader, inner, writer, in_flight, syncing, committing,
                     extents, deallocated, log, synced, mid_block, next_id>>
  BY DEF DropTransaction, device, replay, history
<1>3. /\ DeviceInv' /\ next_id \in Nat /\ next_id <= next_id'
      /\ \A i \in Indices : unstable'.journal[i] \subseteq unstable.journal[i]
      /\ \A b \in Blocks : \A n \in 1 .. MaxTxns :
           n < next_id /\ n \notin unstable.data[b] => n \notin unstable'.data[b]
  BY <1>1, <1>2, SameDevice
<1>4. LogInv' /\ AllocInv'
  BY <1>1, <1>2, LogFrame, AllocDrop
<1>5. InnerType' /\ WriterType' /\ SyncType' /\ InFlightInv'
  BY <1>1, <1>2 DEF InnerType, WriterType, SyncType, InFlightInv
<1>6. \A e \in Files : pending'[e] # Hole => pending[e] # Hole /\ pending'[e] = pending[e]
  <2>1. pending \in [Files -> Extents]
    BY <1>1 DEF AllocInv
  <2> QED
    BY <2>1, <1>2
<1>7. ASSUME NEW u, NEW R, NEW tr, NEW g, NEW m, NEW v, Frozen(u, R, tr, g, m, v)
      PROVE  FrozenStep(tr, g)
  BY <1>1, <1>2, <1>3, <1>7, FrozenSame
<1>8. ASSUME NEW u, NEW R, NEW tr, NEW g, NEW m, NEW N, NEW v, Aligned(u, R, tr, g, m, N, v)
      PROVE  (\E u1, R1, tr1, g1, m1, N1, v1 : Aligned(u1, R1, tr1, g1, m1, N1, v1))'
  <2>1. /\ u \in Seq(AllUnits) /\ g \in Nat /\ N \in Nat
    BY <1>1, <1>8, AlignedIs
  <2>2. History(tr, g)' /\ Base(tr[At(g)], m, v)'
    <3>1. Len(log) <= Len(log') /\ \A i \in Len(log) + 1 .. Len(log') : log'[i].offset >= Len(u)
      BY <1>1, <1>2 DEF LogInv
    <3> QED
      BY <1>1, <1>2, <1>3, <1>4, <1>8, <3>1, AlignedPast
  <2>3. Timeline(u, R, tr, g, m)' /\ Marked(u, R, g, N)' /\ WriterInv(u, R, g)'
    BY <1>2, <1>8, TimelineFrame, MarkedFrame, WriterFrame DEF Aligned
  <2>4. DiskInv(u, R, g, N)'
    BY <1>1, <1>2, <1>3, <1>8, <2>1, DiskFrame DEF Aligned
  <2>5. SyncInv(u, R, tr, g, m)' /\ DurableInv(u, R, tr, g, m)'
    BY <1>2, <1>8, SyncFrame, DurableFrame DEF Aligned
  <2>6. ReuseInv(u, R, tr, g)'
    <3>1. ReuseInv(u, R, tr, g)
      BY <1>8 DEF Aligned
    <3> QED
      BY <3>1, <1>2, <1>6 DEF ReuseInv, DurableOffset
  <2>7. (N \in 1 .. next_id /\ \A e \in Files : pending[e] # Hole => pending[e].id >= N)'
    BY <1>2, <1>6, <1>8 DEF Aligned
  <2>8. Aligned(u, R, tr, g, m, N, v)'
    BY <1>8, <2>2, <2>3, <2>4, <2>5, <2>6, <2>7 DEF Aligned
  <2> QED
    BY <2>8
<1> QED
  BY <1>1, <1>2, <1>3, <1>4, <1>5, <1>7, <1>8, MountedStep

\* What replay() will take to be flushed when it gets to the end of the stream.
LEMMA NextFlushedIs ==
    ASSUME NEW u, NEW R, NEW tr, NEW g, NEW m, NEW N, NEW v, Aligned(u, R, tr, g, m, N, v),
           LogInv, DeviceInv, InnerType
    PROVE  /\ NextFlushed(u, R, tr, g) \in Nat
           /\ Floor(R, g) \in Nat /\ SuperBlockOffset <= Floor(R, g) /\ Floor(R, g) <= NextFlushed(u, R, tr, g)
           /\ NextFlushed(u, R, tr, g) <= DurableOffset(g) /\ NextFlushed(u, R, tr, g) <= Len(u)
           /\ tr[Len(u)] \in Readers /\ tr[Len(u)].flushed <= NextFlushed(u, R, tr, g)
<1>1. /\ Len(u) \in Nat /\ IsStream(u, R, tr) /\ g \in Nat /\ g >= 1 /\ At(g) \in Nat /\ At(g) >= BlockSize
      /\ At(g) <= Len(u) /\ tr[At(g)] \in Readers /\ tr[At(g)].position = At(g)
      /\ DurableOffset(g) \in Nat /\ At(g) <= DurableOffset(g)
  BY AlignedIs
<1>2. v \in Nat /\ v <= At(g) /\ tr[At(g)].flushed <= v
  BY LogPlaces
<1>3. SuperBlockOffset \in Nat /\ SuperBlockOffset <= BlockSize /\ BlockSize \in Nat
  BY Constants, SizesAssumption
<1>4. SuperBlockOffset <= tr[At(g)].flushed /\ tr[At(g)].flushed \in Nat
  <2>1. g \in 1 .. g
    BY <1>1
  <2>2. Old(tr[At(g)], g)
    BY <2>1 DEF Aligned, History
  <2> QED
    BY <2>2, <1>1 DEF Old, Readers
<1>5. Floor(R, g) \in Nat /\ SuperBlockOffset <= Floor(R, g)
  BY <1>1, <1>3 DEF Floor
<1>6. tr[Len(u)] \in Readers
  <2>1. Len(u) \in 0 .. Len(u)
    BY <1>1
  <2> QED
    BY <2>1, <1>1 DEF IsStream
<1>7. CASE Len(u) = At(g)
  BY <1>7, <1>1, <1>2, <1>3, <1>4, <1>5, <1>6 DEF NextFlushed, Floor
<1>8. CASE Len(u) # At(g)
  <2>1. Len(u) \in At(g) + 1 .. Len(u)
    BY <1>8, <1>1
  <2>2. Recent(tr[Len(u)], Len(u), R, g, m)
    BY <2>1 DEF Aligned, Timeline
  <2>3. tr[Len(u)].flushed \in Nat /\ tr[Len(u)].position \in Nat
    BY <1>6 DEF Readers
  <2>4. NextFlushed(u, R, tr, g) = tr[Len(u)].flushed
    BY <1>8 DEF NextFlushed
  <2> QED
    BY <2>2, <2>3, <2>4, <1>1, <1>5, <1>6 DEF Recent
<1> QED
  BY <1>7, <1>8

\* A block that is given out again was given up by a transaction that is
\* durable, and the one that had used it will be known to be.
LEMMA ReusedBlock ==
    ASSUME NEW u, NEW R, NEW tr, NEW g, NEW m, NEW N, NEW v, Aligned(u, R, tr, g, m, N, v),
           LogInv, DeviceInv, InnerType, AllocInv, Free # {},
           NEW i \in 1 .. Len(log), BlockOf(log[i]) = Min(Free)
    PROVE  /\ Freed(i, DurableOffset(g))
           /\ \/ log[i].offset < NextFlushed(u, R, tr, g)
              \/ inner.needs_did_flush_device /\ log[i].offset < inner.device_flushed_offset
<1> DEFINE b == Min(Free)
<1>1. /\ b \in Blocks /\ b # NoBlock /\ \A e \in Files : extents[e].block # b
      /\ \A d \in deallocated : d.block # b
  BY FreeBlock
<1> HIDE DEF b
<1>2. /\ Len(log) \in Nat /\ m \in Nat /\ At(g) \in Nat /\ At(g) <= Len(u) /\ Len(u) \in Nat
      /\ DurableOffset(g) \in Nat /\ inner.device_flushed_offset \in Nat
  BY AlignedIs
<1>3. PICK j \in i + 1 .. Len(log) : log[j].txn.file = log[i].txn.file
  <2>1. SUFFICES ASSUME \A j \in i + 1 .. Len(log) : log[j].txn.file # log[i].txn.file
                 PROVE  FALSE
    OBVIOUS
  <2>2. log[i].txn.file \in Files /\ extents[log[i].txn.file] = log[i].txn.new
    BY <2>1, <1>1, LastIs DEF b
  <2>3. extents[log[i].txn.file].block = b
    BY <2>2, LogTxn DEF b
  <2> QED
    BY <2>2, <2>3, <1>1
<1>4. PICK k \in i + 1 .. j : log[k].txn.old = BlockOf(log[i])
  <2>1. i < j /\ j \in 1 .. Len(log)
    BY <1>2, <1>3
  <2> QED
    BY <2>1, <1>1, <1>3 DEF LogInv, b
<1>5. k \in i + 1 .. Len(log) /\ k \in 1 .. Len(log) /\ i < k
  BY <1>2, <1>3, <1>4
<1>6. log[k].offset \in Nat /\ log[i].offset \in Nat /\ log[i].offset < log[k].offset
  BY <1>5, LogTxn DEF LogInv, Ascending
<1>7. log[k].offset < DurableOffset(g)
  <2>1. SUFFICES ASSUME log[k].offset >= DurableOffset(g) PROVE FALSE
    BY <1>2, <1>6
  <2>2. [offset |-> log[k].offset, block |-> log[k].txn.old] \in deallocated
    BY <2>1, <1>1, <1>4, <1>5 DEF Aligned, ReuseInv, b
  <2> QED
    BY <2>2, <1>1, <1>4 DEF b
<1>8. Freed(i, DurableOffset(g))
  BY <1>4, <1>5, <1>7 DEF Freed
<1>9. CASE log[i].offset < At(g)
  <2>1. i <= m
    <3>1. SUFFICES ASSUME i > m PROVE FALSE
      BY <1>2
    <3>2. i \in m + 1 .. Len(log)
      BY <3>1, <1>2
    <3>3. log[i].offset >= At(g)
      BY <3>2, LogPlaces
    <3> QED
      BY <3>3, <1>9, <1>2, <1>6
  <2>2. i # 1
    <3>1. log[1].txn.new.block = NoBlock
      BY Constants DEF LogInv, Entry
    <3> QED
      BY <3>1, <1>1, LogTxn DEF b
  <2>3. At(g) \in R
    BY <2>1, <2>2, <1>2 DEF Aligned
  <2>4. At(g) <= NextFlushed(u, R, tr, g) /\ NextFlushed(u, R, tr, g) \in Nat
    BY <2>3, NextFlushedIs DEF Floor
  <2> QED
    BY <2>4, <1>2, <1>6, <1>8, <1>9
<1>10. CASE log[i].offset >= At(g)
  <2>1. log[i].offset < inner.device_flushed_offset
    BY <1>10, <1>2, <1>6, <1>7 DEF DurableOffset
  <2>2. inner.needs_did_flush_device \/ inner.device_flushed_offset <= NextFlushed(u, R, tr, g)
    BY DEF Aligned, ReuseInv
  <2>3. NextFlushed(u, R, tr, g) \in Nat
    BY NextFlushedIs
  <2> QED
    BY <2>1, <2>2, <2>3, <1>2, <1>6, <1>8
<1> QED
  BY <1>9, <1>10, <1>2, <1>6

\* Data is written to a block whose transactions are freed.
LEMMA DataWritten ==
    ASSUME LogInv, log' = log, NEW b, NEW x,
           \A a \in Blocks : a # b => unstable'.data[a] = unstable.data[a] /\ data'[a] = data[a],
           \A i \in 1 .. Len(log) : BlockOf(log[i]) = b => Freed(i, x)
    PROVE  /\ DataDurable(x) => DataDurable(x)'
           /\ DataThere(x) => DataThere(x)'
<1>1. \A i : Freed(i, x)' <=> Freed(i, x)
  BY DEF Freed
<1>2. \A i \in 1 .. Len(log) : BlockOf(log[i]) # NoBlock => BlockOf(log[i]) \in Blocks
  BY LogTxn
<1> QED
  BY <1>1, <1>2 DEF DataDurable, DataThere

\* Data may be written into blocks that are free.
LEMMA WriteKeeps ==
    ASSUME Inv, NEW f \in Files, WriteData(f)
    PROVE  Inv'
<1>1. /\ pc = "mounted" /\ LogInv /\ DeviceInv /\ Mounted /\ InnerType /\ WriterType
      /\ SyncType /\ InFlightInv
      /\ AllocInv /\ committing \in Files \cup {NoFile}
  BY DEF WriteData, Inv, Mounted
<1>0. PICK b : b = Min(Free)
  OBVIOUS
<1>2. /\ committing # f /\ pending[f] = Hole /\ Free # {}
      /\ pending' = [pending EXCEPT ![f] = [block |-> b, id |-> next_id]]
      /\ data' = [data EXCEPT ![b] = next_id]
      /\ unstable' = [unstable EXCEPT !.data[b] = @ \cup {next_id, 0}]
      /\ next_id' = next_id + 1
      /\ UNCHANGED <<journal, pc, reader, inner, writer, in_flight, syncing, committing,
                     extents, deallocated, log, synced, mid_block>>
  BY <1>0 DEF WriteData, replay, history
<1>3. AllocInv' /\ DeviceInv' /\ LogInv' /\ next_id \in Nat
  BY <1>1, AllocWrite
<1>4. /\ b \in Blocks /\ b # NoBlock
  BY <1>0, <1>1, <1>2, FreeBlock
<1>5. /\ unstable'.journal = unstable.journal
      /\ unstable'.data[b] = unstable.data[b] \cup {next_id, 0}
      /\ \A a \in Blocks : a # b => unstable'.data[a] = unstable.data[a] /\ data'[a] = data[a]
  BY <1>1, <1>2, <1>4 DEF DeviceInv
<1>6. /\ next_id <= next_id'
      /\ \A i \in Indices : unstable'.journal[i] \subseteq unstable.journal[i]
      /\ \A a \in Blocks : \A n \in 1 .. MaxTxns :
           n < next_id /\ n \notin unstable.data[a] => n \notin unstable'.data[a]
  <2>1. ASSUME NEW a \in Blocks, NEW n \in 1 .. MaxTxns, n < next_id, n \notin unstable.data[a]
        PROVE  n \notin unstable'.data[a]
    <3>1. n # next_id /\ n # 0
      BY <2>1, <1>3, JournalBoundsAssumption
    <3> QED
      BY <3>1, <2>1, <1>5
  <2> QED
    BY <2>1, <1>2, <1>3, <1>5
<1>7. InnerType' /\ WriterType' /\ SyncType' /\ InFlightInv'
  BY <1>1, <1>2, <1>5 DEF InnerType, WriterType, SyncType, InFlightInv
<1>8. \A e \in Files : pending'[e] = IF e = f THEN [block |-> b, id |-> next_id] ELSE pending[e]
  <2>1. pending \in [Files -> Extents]
    BY <1>1 DEF AllocInv
  <2> QED
    BY <2>1, <1>2
<1>9. ASSUME NEW u, NEW R, NEW tr, NEW g, NEW m, NEW v, Frozen(u, R, tr, g, m, v)
      PROVE  FrozenStep(tr, g)
  BY <1>1, <1>2, <1>3, <1>6, <1>9, FrozenSame
<1>10. ASSUME NEW u, NEW R, NEW tr, NEW g, NEW m, NEW N, NEW v, Aligned(u, R, tr, g, m, N, v)
       PROVE  (\E u1, R1, tr1, g1, m1, N1, v1 : Aligned(u1, R1, tr1, g1, m1, N1, v1))'
  <2>1. /\ u \in Seq(AllUnits) /\ g \in Nat /\ N \in Nat /\ N <= next_id /\ DurableOffset(g) \in Nat
        /\ Len(u) \in Nat /\ At(g) \in Nat /\ inner.device_flushed_offset \in Nat
    BY <1>1, <1>10, AlignedIs
  <2>2. History(tr, g)' /\ Base(tr[At(g)], m, v)'
    <3>1. Len(log) <= Len(log') /\ \A i \in Len(log) + 1 .. Len(log') : log'[i].offset >= Len(u)
      BY <1>1, <1>2 DEF LogInv
    <3> QED
      BY <1>1, <1>2, <1>3, <1>6, <1>10, <3>1, AlignedPast
  <2>3. Timeline(u, R, tr, g, m)' /\ Marked(u, R, g, N)' /\ WriterInv(u, R, g)'
    BY <1>2, <1>10, TimelineFrame, MarkedFrame, WriterFrame DEF Aligned
  <2>4. DiskInv(u, R, g, N)'
    <3>1. next_id' \in Nat
      BY <1>2, <1>3
    <3> QED
      BY <1>1, <1>2, <1>6, <1>10, <2>1, <3>1, DiskFrame DEF Aligned
  <2>5. PICK d : d = DurableOffset(g)
    OBVIOUS
  <2>6. \A i \in 1 .. Len(log) : BlockOf(log[i]) = b =>
          /\ Freed(i, d)
          /\ \/ log[i].offset < NextFlushed(u, R, tr, g)
             \/ inner.needs_did_flush_device /\ log[i].offset < inner.device_flushed_offset
    BY <1>0, <1>1, <1>2, <1>10, <2>5, ReusedBlock
  <2>7. SyncInv(u, R, tr, g, m)'
    <3>1. SyncInv(u, R, tr, g, m)
      BY <1>10 DEF Aligned
    <3>2. CASE syncing = Idle
      BY <3>2, <1>2 DEF SyncInv
    <3>3. CASE syncing # Idle
      <4>1. PICK s : s = syncing.offset
        OBVIOUS
      <4>2. ASSUME syncing.pc = "flushed", ~mid_block PROVE DataDurable(s)'
        <5>1. s \in At(g) .. Len(u) /\ inner.device_flushed_offset < s /\ DataDurable(s)
          BY <3>1, <3>3, <4>1, <4>2 DEF SyncInv
        <5>2. d <= s /\ s \in Nat
          BY <5>1, <2>1, <2>5 DEF DurableOffset
        <5>3. \A i \in 1 .. Len(log) : BlockOf(log[i]) = b => Freed(i, s)
          <6> SUFFICES ASSUME NEW i \in 1 .. Len(log), BlockOf(log[i]) = b PROVE Freed(i, s)
            OBVIOUS
          <6>1. PICK k \in i + 1 .. Len(log) : log[k].txn.old = BlockOf(log[i]) /\ log[k].offset < d
            BY <2>6 DEF Freed
          <6>2. k \in 1 .. Len(log)
            BY <1>1 DEF LogInv
          <6>3. log[k].offset \in Nat
            BY <6>2, <1>1, LogTxn
          <6>4. log[k].offset < s
            BY <6>1, <6>3, <5>2, <2>1, <2>5
          <6> QED
            BY <6>1, <6>4 DEF Freed
        <5> QED
          BY <1>1, <1>2, <1>5, <5>1, <5>3, DataWritten
      <4>3. JournalDurable(u, R, s)' <=> JournalDurable(u, R, s)
        BY <1>5 DEF JournalDurable
      <4>4. Checkpoint(tr, Len(u), m, s)' <=> Checkpoint(tr, Len(u), m, s)
        BY <1>2 DEF Checkpoint
      <4> QED
        BY <3>1, <3>3, <4>1, <4>2, <4>3, <4>4, <1>2 DEF SyncInv
    <3> QED
      BY <3>2, <3>3
  <2>8. DurableInv(u, R, tr, g, m)'
    <3>1. DurableOffset(g)' = d
      BY <2>5, <1>2 DEF DurableOffset
    <3>2. DurableInv(u, R, tr, g, m)
      BY <1>10 DEF Aligned
    <3>3. ~mid_block => DataDurable(d)' /\ DataThere(d)'
      <4>1. \A i \in 1 .. Len(log) : BlockOf(log[i]) = b => Freed(i, d)
        BY <2>6
      <4>2. /\ DataDurable(d) => DataDurable(d)'
            /\ DataThere(d) => DataThere(d)'
        BY <1>1, <1>2, <1>5, <4>1, DataWritten
      <4> QED
        BY <3>2, <4>2, <2>5 DEF DurableInv
    <3>4. JournalDurable(u, R, d)' <=> JournalDurable(u, R, d)
      BY <1>5 DEF JournalDurable
    <3>5. Checkpoint(tr, Len(u), m, d)' <=> Checkpoint(tr, Len(u), m, d)
      BY <1>2 DEF Checkpoint
    <3> QED
      BY <3>1, <3>2, <3>3, <3>4, <3>5, <2>5, <1>2 DEF DurableInv
  <2>9. ReuseInv(u, R, tr, g)'
    <3>1. ReuseInv(u, R, tr, g)
      BY <1>10 DEF Aligned
    <3>2. PICK nf : nf = NextFlushed(u, R, tr, g)
      OBVIOUS
    <3>3. NextFlushed(u, R, tr, g)' = nf
      BY <3>2 DEF NextFlushed
    <3>4. ASSUME NEW e \in Files, NEW i \in 1 .. Len(log),
                 pending'[e] # Hole, BlockOf(log[i]) = pending'[e].block
          PROVE  \/ log[i].offset < nf
                 \/ /\ inner.needs_did_flush_device /\ committing # e
                    /\ log[i].offset < inner.device_flushed_offset
      <4>1. CASE e = f
        <5>1. BlockOf(log[i]) = b
          BY <4>1, <3>4, <1>8
        <5> QED
          BY <4>1, <5>1, <2>6, <3>2, <1>2
      <4>2. CASE e # f
        BY <4>2, <3>4, <1>8, <3>1, <3>2 DEF ReuseInv
      <4> QED
        BY <4>1, <4>2
    <3>5. DurableOffset(g)' = DurableOffset(g)
      BY <1>2 DEF DurableOffset
    <3> QED
      BY <3>1, <3>2, <3>3, <3>4, <3>5, <1>2 DEF ReuseInv
  <2>10. (N \in 1 .. next_id /\ \A e \in Files : pending[e] # Hole => pending[e].id >= N)'
    <3>1. N \in 1 .. next_id /\ \A e \in Files : pending[e] # Hole => pending[e].id >= N
      BY <1>10 DEF Aligned
    <3>2. N \in 1 .. next_id' /\ next_id >= N
      BY <3>1, <1>2, <1>3, <2>1
    <3> QED
      BY <3>1, <3>2, <1>8
  <2>11. Aligned(u, R, tr, g, m, N, v)'
    BY <1>10, <2>2, <2>3, <2>4, <2>7, <2>8, <2>9, <2>10 DEF Aligned
  <2> QED
    BY <2>11
<1> QED
  BY <1>1, <1>2, <1>3, <1>6, <1>7, <1>9, <1>10, MountedStep

-----------------------------------------------------------------------------
(* sync() *)

\* What is freed before an offset is freed before a later one.
LEMMA FreedLater ==
    ASSUME LogInv, NEW i \in 1 .. Len(log), NEW a \in Nat, NEW b \in Nat, a <= b, Freed(i, a)
    PROVE  Freed(i, b)
<1>1. PICK k \in i + 1 .. Len(log) : log[k].txn.old = BlockOf(log[i]) /\ log[k].offset < a
  BY DEF Freed
<1>2. k \in 1 .. Len(log)
  BY DEF LogInv
<1>3. log[k].offset \in Nat
  BY <1>2, LogTxn
<1>4. log[k].offset < b
  BY <1>1, <1>3
<1> QED
  BY <1>1, <1>4 DEF Freed

\* The blocks in flight are behind what has been flushed.
LEMMA InFlightBehind ==
    ASSUME NEW u, NEW R, NEW g, WriterInv(u, R, g), NEW i \in Indices,
           At(i) < inner.flushed_offset
    PROVE  i \notin DOMAIN Overwritten(in_flight) /\ At(i + 1) <= inner.flushed_offset
<1>0. i \in Nat /\ At(i) \in Nat /\ JournalBlocks \in Nat
  BY AtNext, SizesAssumption DEF Indices
<1>1. PICK k \in 0 .. JournalBlocks : inner.flushed_offset = At(k)
  BY DEF WriterInv
<1>2. k \in Nat /\ At(k) \in Nat
  BY <1>0, <1>1, AtNext
<1>3. i < k
  <2>1. SUFFICES ASSUME k <= i PROVE FALSE
    BY <1>0, <1>2
  <2>2. At(k) <= At(i)
    BY <2>1, <1>0, <1>2, AtMinus
  <2> QED
    BY <2>2, <1>0, <1>1, <1>2
<1>4. At(i + 1) <= inner.flushed_offset
  <2>1. At(i) + BlockSize <= At(k) /\ At(i + 1) = At(i) + BlockSize
    BY <1>0, <1>2, <1>3, AtLess, AtNext
  <2> QED
    BY <2>1, <1>1
<1>5. CASE in_flight = NotInFlight
  BY <1>4, <1>5, NoneInFlight
<1>6. CASE in_flight # NotInFlight
  <2>1. in_flight.offset = At(k) /\ in_flight.buf \in Seq(AllUnits)
    BY <1>1, <1>6 DEF WriterInv
  <2>2. At(k) \div BlockSize = k /\ At(k) % BlockSize = 0
    <3>1. 0 \in 0 .. BlockSize - 1 /\ At(k) + 0 = At(k)
      BY <1>2, SizesAssumption
    <3> QED
      BY <3>1, <1>2, DivAt
  <2>3. DOMAIN Overwritten(in_flight) = k .. k + (Len(in_flight.buf) \div BlockSize) - 1
    BY <2>1, <2>2 DEF Overwritten
  <2>4. i \notin k .. k + (Len(in_flight.buf) \div BlockSize) - 1
    BY <1>0, <1>2, <1>3
  <2> QED
    BY <2>3, <2>4, <1>4
<1> QED
  BY <1>5, <1>6

\* The device is flushed: everything on it is durable.
LEMMA SyncFlushKeeps ==
    ASSUME Inv, SyncFlushDevice
    PROVE  Inv'
<1>1. /\ pc = "mounted" /\ LogInv /\ DeviceInv /\ Mounted /\ InnerType /\ WriterType
      /\ SyncType /\ InFlightInv
      /\ AllocInv /\ committing \in Files \cup {NoFile}
  BY DEF SyncFlushDevice, Inv, Mounted
<1>2. /\ syncing.pc = "flushing" /\ inner.flushed_offset >= syncing.offset
      /\ inner.device_flushed_offset < syncing.offset
      /\ syncing' = [syncing EXCEPT !.pc = "flushed"]
      /\ UNCHANGED <<journal, data, pc, reader, inner, writer, in_flight, committing,
                     extents, pending, deallocated, log, synced, mid_block, next_id>>
  BY DEF SyncFlushDevice, Flushed, replay, history, allocator
<1>3. /\ DOMAIN unstable' = {"journal", "data"}
      /\ unstable'.journal = [i \in Indices |-> IF i \in DOMAIN Overwritten(in_flight)
                                             THEN unstable.journal[i] ELSE {journal[i]}]
      /\ unstable'.data = [b \in Blocks |-> {data[b]}]
      /\ unstable' = [journal |-> unstable'.journal, data |-> unstable'.data]
  <2>1. unstable' = [Durable(journal, data) EXCEPT !.journal =
                      [i \in Indices |-> IF i \in DOMAIN Overwritten(in_flight)
                                         THEN unstable.journal[i] ELSE @[i]]]
    BY DEF SyncFlushDevice
  <2> QED
    BY <2>1 DEF Durable
<1>4. \A i \in Indices : unstable'.journal[i] \subseteq unstable.journal[i]
  BY <1>1, <1>3 DEF DeviceInv
<1>5. \A b \in Blocks : unstable'.data[b] = {data[b]} /\ data[b] \in unstable.data[b]
  BY <1>1, <1>3 DEF DeviceInv
<1>6. DeviceInv'
  <2>1. /\ journal \in [Indices -> Checksums] /\ data \in [Blocks -> 0 .. MaxTxns]
        /\ unstable.journal \in [Indices -> SUBSET Checksums]
        /\ \A i \in Indices : journal[i] \in unstable.journal[i]
        /\ \A b \in Blocks : \A n \in unstable.data[b] : n < next_id
        /\ next_id \in 1 .. MaxTxns + 1
    BY <1>1 DEF DeviceInv
  <2>2. unstable'.journal \in [Indices -> SUBSET Checksums]
    BY <2>1, <1>3
  <2>3. unstable'.data \in [Blocks -> SUBSET (0 .. MaxTxns)]
    BY <2>1, <1>3
  <2>4. \A i \in Indices : journal[i] \in unstable'.journal[i]
    BY <2>1, <1>3
  <2>5. \A b \in Blocks : \A n \in unstable'.data[b] : n < next_id
    BY <2>1, <1>5
  <2>6. unstable' \in [journal : [Indices -> SUBSET Checksums], data : [Blocks -> SUBSET (0 .. MaxTxns)]]
    BY <2>2, <2>3, <1>3
  <2> QED
    BY <2>1, <2>4, <2>5, <2>6, <1>2, <1>5 DEF DeviceInv
<1>7. LogInv' /\ AllocInv'
  BY <1>1, <1>2, LogFrame, AllocFrame
<1>8. syncing'.pc = "flushed" /\ syncing'.offset = syncing.offset /\ syncing'.upto = syncing.upto
  BY <1>1, <1>2 DEF SyncType
<1>9. InnerType' /\ WriterType' /\ SyncType' /\ InFlightInv'
  <2>1. InnerType' /\ WriterType' /\ SyncType'
    BY <1>1, <1>2 DEF InnerType, WriterType, SyncType
  <2>2. InFlightInv'
    BY <1>1, <1>2, <1>3 DEF InFlightInv
  <2> QED
    BY <2>1, <2>2
<1>10. next_id \in Nat /\ next_id <= next_id' /\
       \A b \in Blocks : \A n \in 1 .. MaxTxns :
           n < next_id /\ n \notin unstable.data[b] => n \notin unstable'.data[b]
  <2>1. next_id \in Nat
    BY <1>1 DEF DeviceInv
  <2> QED
    BY <2>1, <1>2, <1>5
<1>11. ASSUME NEW u, NEW R, NEW tr, NEW g, NEW m, NEW v, Frozen(u, R, tr, g, m, v)
      PROVE  FrozenStep(tr, g)
  BY <1>1, <1>2, <1>4, <1>10, <1>11, FrozenSame
<1>12. ASSUME NEW u, NEW R, NEW tr, NEW g, NEW m, NEW N, NEW v, Aligned(u, R, tr, g, m, N, v)
       PROVE  (\E u1, R1, tr1, g1, m1, N1, v1 : Aligned(u1, R1, tr1, g1, m1, N1, v1))'
  <2>1. /\ u \in Seq(AllUnits) /\ g \in Nat /\ N \in Nat /\ DurableOffset(g) \in Nat
        /\ Len(u) \in Nat /\ At(g) \in Nat /\ inner.device_flushed_offset \in Nat
        /\ inner.flushed_offset \in Nat
    BY <1>1, <1>12, AlignedIs
  <2>2. History(tr, g)' /\ Base(tr[At(g)], m, v)'
    <3>1. Len(log) <= Len(log') /\ \A i \in Len(log) + 1 .. Len(log') : log'[i].offset >= Len(u)
      BY <1>1, <1>2 DEF LogInv
    <3> QED
      BY <1>1, <1>2, <1>6, <1>7, <1>10, <1>12, <3>1, AlignedPast
  <2>3. Timeline(u, R, tr, g, m)' /\ Marked(u, R, g, N)' /\ WriterInv(u, R, g)' /\ ReuseInv(u, R, tr, g)'
    BY <1>2, <1>12, TimelineFrame, MarkedFrame, WriterFrame, ReuseFrame DEF Aligned
  <2>4. DiskInv(u, R, g, N)'
    BY <1>1, <1>2, <1>4, <1>10, <1>12, <2>1, DiskFrame DEF Aligned
  <2>5. PICK d : d = DurableOffset(g)
    OBVIOUS
  <2>6. PICK s : s = syncing.offset
    OBVIOUS
  <2>7. DurableInv(u, R, tr, g, m) /\ SyncInv(u, R, tr, g, m) /\ WriterInv(u, R, g) /\ DiskInv(u, R, g, N)
    BY <1>12 DEF Aligned
  <2>8. \A i, x : Freed(i, x)' <=> Freed(i, x)
    BY <1>2 DEF Freed
  <2>9. DurableInv(u, R, tr, g, m)'
    <3>1. DurableOffset(g)' = d
      BY <2>5, <1>2 DEF DurableOffset
    <3>2. JournalDurable(u, R, d)'
      BY <2>5, <2>7, <1>4 DEF DurableInv, JournalDurable
    <3>3. Checkpoint(tr, Len(u), m, d)'
      BY <2>5, <2>7, <1>2 DEF DurableInv, Checkpoint
    <3>4. ASSUME ~mid_block PROVE DataDurable(d)' /\ DataThere(d)'
      <4>1. DataDurable(d) /\ DataThere(d)
        BY <2>5, <2>7, <3>4 DEF DurableInv
      <4>2. DataThere(d)'
        BY <4>1, <1>2, <2>8 DEF DataThere
      <4>3. DataDurable(d)'
        <5> SUFFICES ASSUME NEW i \in 1 .. Len(log), log[i].offset < d, BlockOf(log[i]) # NoBlock
                     PROVE  unstable'.data[BlockOf(log[i])] = {log[i].txn.new.id} \/ Freed(i, d)
          BY <1>2, <2>8 DEF DataDurable
        <5>1. BlockOf(log[i]) \in Blocks
          BY <1>1, LogTxn
        <5>2. unstable.data[BlockOf(log[i])] = {log[i].txn.new.id} \/ Freed(i, d)
          BY <4>1 DEF DataDurable
        <5> QED
          BY <5>1, <5>2, <1>5
      <4> QED
        BY <4>2, <4>3
    <3> QED
      BY <3>1, <3>2, <3>3, <3>4, <2>5, <2>7, <1>2 DEF DurableInv
  <2>10. /\ s \in At(g) .. Len(u) /\ syncing.upto \in Nat /\ syncing.upto + 1 <= Len(log)
         /\ log[syncing.upto + 1].offset < s /\ Checkpoint(tr, Len(u), m, s)
    <3>1. syncing # Idle
      BY <1>2 DEF Idle
    <3> QED
      BY <2>6, <2>7, <3>1 DEF SyncInv
  <2>11. s \in Nat /\ d <= s
    BY <2>1, <2>5, <2>6, <2>10, <1>2 DEF DurableOffset
  <2>12. JournalDurable(u, R, s)'
    <3> SUFFICES ASSUME NEW i \in Indices, At(i) < s, NEW c \in unstable'.journal[i]
                 PROVE  IsChain(c, u, R, i)
      BY DEF JournalDurable
    <3>1. At(i) \in Nat
      BY AtNext DEF Indices
    <3>2. At(i) < inner.flushed_offset
      BY <3>1, <2>1, <2>6, <2>11, <1>2
    <3>3. i \notin DOMAIN Overwritten(in_flight) /\ At(i + 1) <= inner.flushed_offset
      BY <3>2, <2>7, InFlightBehind
    <3>4. c = journal[i]
      BY <3>3, <1>3
    <3> QED
      BY <3>3, <3>4, <2>7 DEF DiskInv
  <2>13. ASSUME ~mid_block PROVE DataDurable(s)'
    <3> SUFFICES ASSUME NEW i \in 1 .. Len(log), log[i].offset < s, BlockOf(log[i]) # NoBlock
                 PROVE  unstable'.data[BlockOf(log[i])] = {log[i].txn.new.id} \/ Freed(i, s)
      BY <1>2, <2>8 DEF DataDurable
    <3>1. BlockOf(log[i]) \in Blocks
      BY <1>1, LogTxn
    <3>2. data[BlockOf(log[i])] = log[i].txn.new.id \/ Freed(i, d)
      BY <2>13, <2>5, <2>7 DEF DurableInv, DataThere
    <3>3. Freed(i, d) => Freed(i, s)
      BY <1>1, <2>1, <2>5, <2>11, FreedLater
    <3> QED
      BY <3>1, <3>2, <3>3, <1>5
  <2>14. SyncInv(u, R, tr, g, m)'
    <3>1. Checkpoint(tr, Len(u), m, s)'
      BY <2>10, <1>2 DEF Checkpoint
    <3> QED
      BY <3>1, <2>6, <2>10, <2>12, <2>13, <1>2, <1>8 DEF SyncInv
  <2>15. Aligned(u, R, tr, g, m, N, v)'
    BY <1>2, <1>12, <2>2, <2>3, <2>4, <2>9, <2>14 DEF Aligned
  <2> QED
    BY <2>15
<1> QED
  BY <1>1, <1>2, <1>6, <1>7, <1>9, <1>11, <1>12, MountedStep

\* sync() returns: its checkpoint is durable, and so is what it vouches for.
LEMMA SyncReturnKeeps ==
    ASSUME Inv, SyncReturn
    PROVE  Inv'
<1>1. /\ pc = "mounted" /\ LogInv /\ DeviceInv /\ Mounted /\ InnerType /\ WriterType
      /\ SyncType /\ InFlightInv
      /\ AllocInv /\ committing \in Files \cup {NoFile}
  BY DEF SyncReturn, Inv, Mounted
<1>2. /\ syncing.pc \in {"flushing", "flushed"}
      /\ inner.flushed_offset >= syncing.offset \/ syncing.pc = "flushed"
      /\ syncing' = Idle /\ synced' = Max({synced, syncing.upto})
      /\ UNCHANGED <<journal, data, unstable, pc, reader, writer, in_flight, committing,
                     extents, pending, log, mid_block, next_id>>
  BY DEF SyncReturn, Flushed, replay, history, device
<1>3. PICK s : s = syncing.offset
  OBVIOUS
<1>4. \/ /\ syncing.pc = "flushed"
         /\ inner' = [inner EXCEPT !.device_flushed_offset = s, !.needs_did_flush_device = TRUE]
         /\ deallocated' = {d \in deallocated : d.offset >= s}
      \/ /\ syncing.pc = "flushing" /\ inner.device_flushed_offset >= s
         /\ UNCHANGED <<inner, deallocated>>
  BY <1>3 DEF SyncReturn, StillDeallocated
<1>5. deallocated' \subseteq deallocated
  BY <1>4
<1>6. /\ DeviceInv' /\ next_id \in Nat /\ next_id <= next_id'
      /\ \A i \in Indices : unstable'.journal[i] \subseteq unstable.journal[i]
      /\ \A b \in Blocks : \A n \in 1 .. MaxTxns :
           n < next_id /\ n \notin unstable.data[b] => n \notin unstable'.data[b]
  BY <1>1, <1>2, SameDevice
<1>7. /\ synced \in Nat /\ syncing.upto \in Nat /\ Len(log) \in Nat /\ s \in Nat
      /\ synced' = (IF synced >= syncing.upto THEN synced ELSE syncing.upto)
      /\ synced + 1 <= Len(log) /\ syncing.upto + 1 <= Len(log)
  <2>1. /\ synced \in Nat /\ syncing.upto \in Nat /\ Len(log) \in Nat /\ s \in Nat
        /\ synced + 1 <= Len(log) /\ syncing.upto + 1 <= Len(log)
    BY <1>1, <1>3 DEF LogInv, SyncType
  <2> QED
    BY <2>1, <1>2, MaxTwo
<1>8. LogInv'
  <2>1. synced' \in Nat /\ synced' + 1 <= Len(log')
    BY <1>2, <1>7
  <2>2. log' = log /\ next_id' = next_id
    BY <1>2
  <2>3. log' \in Seq(Entries) /\ Len(log') >= 1 /\ log'[1] = Entry(0, NoTxn) /\ Ascending(log')
    BY <2>2, <1>1 DEF LogInv
  <2>4. /\ \A i \in 2 .. Len(log') : log'[i].txn \in Txn /\ log'[i].txn.id < next_id'
        /\ \A i \in 1 .. Len(log') : log'[i].txn.new.id < next_id'
    BY <2>2, <1>1 DEF LogInv
  <2>5. \A i, k \in 1 .. Len(log') :
         i < k /\ BlockOf(log'[i]) # NoBlock
           /\ (log'[k].txn.old = BlockOf(log'[i]) \/ BlockOf(log'[k]) = BlockOf(log'[i]))
           => \E j \in i + 1 .. k : log'[j].txn.file = log'[i].txn.file
    BY <2>2, <1>1 DEF LogInv
  <2>6. \A i, j \in 1 .. Len(log') :
         i < j /\ BlockOf(log'[i]) # NoBlock /\ log'[i].txn.file = log'[j].txn.file
           => \E k \in i + 1 .. j : log'[k].txn.old = BlockOf(log'[i])
    BY <2>2, <1>1 DEF LogInv
  <2> QED
    BY <2>1, <2>3, <2>4, <2>5, <2>6 DEF LogInv
<1>9. AllocInv'
  BY <1>1, <1>2, <1>5, AllocFrame
<1>10. InnerType' /\ WriterType' /\ SyncType' /\ InFlightInv'
  <2>1. InnerType' /\ WriterType'
    BY <1>1, <1>2, <1>4, <1>7 DEF InnerType, WriterType
  <2>2. SyncType'
    BY <1>1, <1>2, <1>7 DEF SyncType, Idle
  <2>3. InFlightInv'
    BY <1>1, <1>2 DEF InFlightInv
  <2> QED
    BY <2>1, <2>2, <2>3
<1>11. /\ inner'.flushed_offset = inner.flushed_offset /\ inner'.discard_offset = inner.discard_offset
       /\ inner'.device_flushed_offset = (IF syncing.pc = "flushed" THEN s ELSE inner.device_flushed_offset)
       /\ inner'.needs_did_flush_device = (syncing.pc = "flushed" \/ inner.needs_did_flush_device)
       /\ inner.needs_did_flush_device \in BOOLEAN
  BY <1>1, <1>4 DEF InnerType
<1>12. ASSUME NEW u, NEW R, NEW tr, NEW g, NEW m, NEW v, Frozen(u, R, tr, g, m, v)
      PROVE  FrozenStep(tr, g)
  BY <1>1, <1>2, <1>6, <1>12, FrozenSame
<1>13. ASSUME NEW u, NEW R, NEW tr, NEW g, NEW m, NEW N, NEW v, Aligned(u, R, tr, g, m, N, v)
       PROVE  (\E u1, R1, tr1, g1, m1, N1, v1 : Aligned(u1, R1, tr1, g1, m1, N1, v1))'
  <2>1. /\ u \in Seq(AllUnits) /\ g \in Nat /\ N \in Nat /\ DurableOffset(g) \in Nat
        /\ Len(u) \in Nat /\ At(g) \in Nat /\ inner.device_flushed_offset \in Nat
        /\ inner.flushed_offset \in Nat /\ IsStream(u, R, tr) /\ At(g) <= DurableOffset(g)
        /\ inner.device_flushed_offset <= DurableOffset(g)
    BY <1>1, <1>13, AlignedIs
  <2>2. History(tr, g)' /\ Base(tr[At(g)], m, v)'
    <3>1. Len(log) <= Len(log') /\ \A i \in Len(log) + 1 .. Len(log') : log'[i].offset >= Len(u)
      BY <1>1, <1>2 DEF LogInv
    <3> QED
      BY <1>1, <1>2, <1>6, <1>8, <1>13, <3>1, AlignedPast
  <2>3. Marked(u, R, g, N)' /\ WriterInv(u, R, g)'
    BY <1>2, <1>11, <1>13, MarkedFrame, WriterFrame DEF Aligned
  <2>4. DiskInv(u, R, g, N)'
    BY <1>1, <1>2, <1>6, <1>11, <1>13, <2>1, DiskFrame DEF Aligned
  <2>5. PICK d : d = DurableOffset(g)
    OBVIOUS
  <2>6. PICK e : e = IF syncing.pc = "flushed" THEN s ELSE d
    OBVIOUS
  <2>7. DurableInv(u, R, tr, g, m) /\ SyncInv(u, R, tr, g, m) /\ Timeline(u, R, tr, g, m)
        /\ ReuseInv(u, R, tr, g)
    BY <1>13 DEF Aligned
  <2>8. /\ s \in At(g) .. Len(u) /\ log[syncing.upto + 1].offset < s /\ Checkpoint(tr, Len(u), m, s)
        /\ syncing.pc = "flushed" =>
            /\ s <= inner.flushed_offset /\ inner.device_flushed_offset < s
            /\ JournalDurable(u, R, s)
            /\ ~mid_block => DataDurable(s)
    <3>1. syncing # Idle
      BY <1>2 DEF Idle
    <3> QED
      BY <1>3, <2>7, <3>1 DEF SyncInv
  <2>9. /\ d \in Nat /\ e \in Nat /\ d <= e /\ s <= e /\ DurableOffset(g)' = e
        /\ inner.device_flushed_offset <= inner'.device_flushed_offset
        /\ inner'.device_flushed_offset \in Nat
    <3>1. CASE syncing.pc = "flushed"
      <4>1. inner'.device_flushed_offset = s /\ e = s /\ inner.device_flushed_offset < s
        BY <3>1, <1>11, <2>6, <2>8
      <4> QED
        BY <4>1, <1>7, <2>1, <2>5, <2>8 DEF DurableOffset
    <3>2. CASE syncing.pc # "flushed"
      <4>1. inner' = inner /\ e = d /\ inner.device_flushed_offset >= s
        BY <3>2, <1>4, <2>6
      <4>2. DurableOffset(g)' = d
        BY <4>1, <2>5 DEF DurableOffset
      <4> QED
        BY <4>1, <4>2, <1>7, <2>1, <2>5
    <3> QED
      BY <3>1, <3>2
  <2>10. Timeline(u, R, tr, g, m)'
    <3>1. ASSUME NEW p \in At(g) + 1 .. Len(u) PROVE Recent(tr[p], p, R, g, m)'
      <4>1. Recent(tr[p], p, R, g, m)
        BY <2>7 DEF Timeline
      <4>2. tr[p].flushed <= e
        <5>1. p \in 0 .. Len(u)
          BY <2>1
        <5>2. tr[p].flushed \in Nat
          BY <5>1, <2>1 DEF IsStream, Readers
        <5>3. tr[p].flushed <= d
          BY <4>1, <2>5 DEF Recent
        <5> QED
          BY <5>2, <5>3, <2>9
      <4> QED
        BY <4>1, <4>2, <2>9, <1>2 DEF Recent
    <3> QED
      BY <3>1, <2>7, <1>2, <1>11 DEF Timeline
  <2>11. \A i, x : Freed(i, x)' <=> Freed(i, x)
    BY <1>2 DEF Freed
  <2>12. DurableInv(u, R, tr, g, m)'
    <3>1. e <= inner.flushed_offset /\ JournalDurable(u, R, e) /\ Checkpoint(tr, Len(u), m, e)
          /\ (~mid_block => DataDurable(e))
      BY <2>5, <2>6, <2>7, <2>8 DEF DurableInv
    <3>2. JournalDurable(u, R, e)' /\ Checkpoint(tr, Len(u), m, e)' /\ (~mid_block => DataDurable(e)')
      BY <3>1, <1>2, <2>11 DEF JournalDurable, Checkpoint, DataDurable
    <3>3. log[synced' + 1].offset < e
      <4>1. synced + 1 \in 1 .. Len(log) /\ syncing.upto + 1 \in 1 .. Len(log)
        BY <1>7
      <4>2. log[synced + 1].offset \in Nat /\ log[syncing.upto + 1].offset \in Nat
        BY <4>1, <1>1, LogTxn
      <4>3. log[synced + 1].offset < d
        BY <2>5, <2>7 DEF DurableInv
      <4>4. log[synced + 1].offset < e /\ log[syncing.upto + 1].offset < e
        BY <4>2, <4>3, <2>8, <2>9, <1>7, SMTT(20)
      <4> QED
        BY <4>4, <1>7
    <3>4. ASSUME ~mid_block PROVE DataThere(e)'
      <4> SUFFICES ASSUME NEW i \in 1 .. Len(log), BlockOf(log[i]) # NoBlock
                   PROVE  data[BlockOf(log[i])] = log[i].txn.new.id \/ Freed(i, e)
        BY <1>2, <2>11 DEF DataThere
      <4>1. data[BlockOf(log[i])] = log[i].txn.new.id \/ Freed(i, d)
        BY <3>4, <2>5, <2>7 DEF DurableInv, DataThere
      <4> QED
        BY <4>1, <1>1, <2>9, FreedLater
    <3> QED
      BY <3>1, <3>2, <3>3, <3>4, <2>9, <1>2, <1>11 DEF DurableInv
  <2>13. ReuseInv(u, R, tr, g)'
    <3>1. PICK nf : nf = NextFlushed(u, R, tr, g)
      OBVIOUS
    <3>2. NextFlushed(u, R, tr, g)' = nf
      BY <3>1 DEF NextFlushed
    <3>3. ASSUME NEW f \in Files, NEW i \in 1 .. Len(log), pending[f] # Hole, BlockOf(log[i]) = pending[f].block
          PROVE  \/ log[i].offset < nf
                 \/ /\ inner'.needs_did_flush_device /\ committing # f
                    /\ log[i].offset < inner'.device_flushed_offset
      <4>1. \/ log[i].offset < nf
            \/ /\ inner.needs_did_flush_device /\ committing # f
               /\ log[i].offset < inner.device_flushed_offset
        BY <3>1, <3>3, <2>7 DEF ReuseInv
      <4>2. log[i].offset \in Nat
        BY <1>1, LogTxn
      <4>3. log[i].offset < inner.device_flushed_offset => log[i].offset < inner'.device_flushed_offset
        BY <4>2, <2>1, <2>9
      <4> QED
        BY <4>1, <4>3, <1>11
    <3>4. inner'.needs_did_flush_device \/ inner'.device_flushed_offset <= nf
      BY <3>1, <2>7, <1>11 DEF ReuseInv
    <3>5. ASSUME NEW k \in 1 .. Len(log), log[k].offset >= e, log[k].txn.old # NoBlock
          PROVE  [offset |-> log[k].offset, block |-> log[k].txn.old] \in deallocated'
      <4>1. log[k].offset \in Nat
        BY <1>1, LogTxn
      <4>2. log[k].offset >= d /\ log[k].offset >= s
        BY <3>5, <4>1, <2>9, <1>7
      <4>3. [offset |-> log[k].offset, block |-> log[k].txn.old] \in deallocated
        BY <3>5, <4>2, <2>5, <2>7 DEF ReuseInv
      <4> QED
        BY <4>2, <4>3, <1>4
    <3> QED
      BY <3>2, <3>3, <3>4, <3>5, <2>7, <2>9, <1>2, <1>11 DEF ReuseInv
  <2>14. SyncInv(u, R, tr, g, m)'
    BY <1>2 DEF SyncInv
  <2>15. Aligned(u, R, tr, g, m, N, v)'
    BY <1>2, <1>13, <2>2, <2>3, <2>4, <2>10, <2>12, <2>13, <2>14 DEF Aligned
  <2> QED
    BY <2>15
<1> QED
  BY <1>1, <1>2, <1>6, <1>8, <1>9, <1>10, <1>12, <1>13, MountedStep

-----------------------------------------------------------------------------
(* The flush task. *)

\* The elements of a concatenation.
LEMMA ConcatIs ==
    ASSUME NEW a \in Seq(AllUnits), NEW b \in Seq(AllUnits), NEW k, NEW n, k = Len(a), n = Len(b)
    PROVE  /\ a \o b \in Seq(AllUnits) /\ Len(a \o b) = k + n
           /\ \A j \in 1 .. k + n : (a \o b)[j] = IF j <= k THEN a[j] ELSE b[j - k]
BY ConcatProperties

\* What the write of some full blocks leaves in each.
LEMMA OverwrittenIs ==
    ASSUME NEW w \in Writers, NEW k \in Nat, NEW q \in Nat, w.offset = At(k), Len(w.buf) = At(q)
    PROVE  /\ DOMAIN Overwritten(w) = k .. k + q - 1
           /\ \A i \in k .. k + q - 1 : Overwritten(w)[i] = ChecksumAfter(w, At(i - k + 1))
<1>0. At(k) \in Nat /\ At(q) \in Nat /\ 0 \in 0 .. BlockSize - 1
  <2>1. 0 \in 0 .. BlockSize - 1
    BY SizesAssumption
  <2> QED
    BY <2>1, AtNext
<1>1. At(k) + 0 = At(k) /\ At(q) + 0 = At(q)
  BY <1>0
<1>2. At(k) \div BlockSize = k /\ At(k) % BlockSize = 0 /\ At(q) \div BlockSize = q
  BY <1>0, <1>1, DivAt
<1>3. Overwritten(w) = [i \in k .. k + q - 1 |-> ChecksumAfter(w, (i - k + 1) * BlockSize)]
  BY <1>2 DEF Overwritten
<1> QED
  BY <1>3 DEF At

\* They are blocks of the stream.
LEMMA OverwrittenChain ==
    ASSUME NEW w \in Writers, NEW k \in Nat, NEW q \in Nat, w.offset = At(k), Len(w.buf) = At(q),
           NEW u, NEW R, NEW g \in Nat, ResetsIn(R, 1 .. g), g <= k, w.checksum.resets = R,
           Len(w.checksum.units) = w.offset,
           \A j \in 1 .. w.offset : w.checksum.units[j] = u[j],
           \A j \in 1 .. Len(w.buf) : w.buf[j] = u[w.offset + j],
           NEW i \in DOMAIN Overwritten(w)
    PROVE  IsChain(Overwritten(w)[i], u, R, i) /\ Overwritten(w)[i] \in Checksums
<1>1. i \in k .. k + q - 1 /\ Overwritten(w)[i] = ChecksumAfter(w, At(i - k + 1))
  BY OverwrittenIs
<1> DEFINE n == At(i - k + 1)
           c == ChecksumAfter(w, n)
<1>2. i \in Nat /\ i - k + 1 \in Nat /\ i - k + 1 <= q /\ k <= i + 1 /\ i + 1 \in Nat /\ k <= i
  BY <1>1
<1>3. n \in Nat /\ At(k) \in Nat /\ At(q) \in Nat /\ n <= At(q) /\ At(i + 1) = At(k) + n /\ At(i) \in Nat
  <2>1. n \in Nat /\ At(k) \in Nat /\ At(q) \in Nat /\ At(i) \in Nat
    BY <1>2, AtNext
  <2>2. n <= At(q)
    BY <1>2, AtMinus
  <2>3. (i + 1) - k = i - k + 1
    BY <1>2
  <2>4. At((i + 1) - k) = At(i + 1) - At(k) /\ At(i + 1) \in Nat
    BY <1>2, AtMinus, AtNext
  <2> QED
    BY <2>1, <2>2, <2>3, <2>4
<1> HIDE DEF n
<1>4. w.buf \in Seq(AllUnits) /\ w.checksum \in Checksums /\ w.checksum.units \in Seq(AllUnits)
  BY DEF Writers, Checksums
<1> DEFINE x == SubSeq(w.buf, 1, n)
<1>5. /\ x \in Seq(AllUnits) /\ Len(x) = n
      /\ \A j \in 1 .. n : x[j] = w.buf[j]
  <2>1. \A j \in 1 .. n : w.buf[j] \in AllUnits
    BY <1>3, <1>4, ElementOfSeq
  <2> QED
    BY <2>1, <1>3, <1>4, SubSeqProperties
<1> HIDE DEF x
<1>6. /\ w.checksum.units \o x \in Seq(AllUnits)
      /\ Len(w.checksum.units \o x) = At(k) + n
      /\ \A j \in 1 .. At(k) + n : (w.checksum.units \o x)[j] =
             IF j <= At(k) THEN w.checksum.units[j] ELSE x[j - At(k)]
  <2>2. PICK a : a = w.checksum.units
    OBVIOUS
  <2>3. a \in Seq(AllUnits) /\ x \in Seq(AllUnits) /\ Len(a) = At(k) /\ Len(x) = n
    BY <2>2, <1>4, <1>5
  <2>4. /\ a \o x \in Seq(AllUnits) /\ Len(a \o x) = At(k) + n
        /\ \A j \in 1 .. At(k) + n : (a \o x)[j] = IF j <= At(k) THEN a[j] ELSE x[j - At(k)]
    BY <2>3, ConcatIs
  <2> QED
    BY <2>2, <2>4
<1>7. c \in Checksums /\ c.units = w.checksum.units \o x /\ c.resets = R
  BY <1>4, <1>6 DEF ChecksumAfter, Checksums, x
<1>8. \A j \in 1 .. At(i + 1) : c.units[j] = u[j]
  <2> TAKE j \in 1 .. At(i + 1)
  <2>1. CASE j <= At(k)
    <3>1. j \in 1 .. At(k) /\ j \in 1 .. At(k) + n
      BY <2>1, <1>3
    <3> QED
      BY <3>1, <2>1, <1>6, <1>7
  <2>2. CASE j > At(k)
    <3>1. j - At(k) \in 1 .. n /\ j \in 1 .. At(k) + n /\ ~(j <= At(k)) /\ At(k) + (j - At(k)) = j
          /\ j - At(k) \in 1 .. Len(w.buf)
      BY <2>2, <1>3
    <3>2. x[j - At(k)] = u[j]
      BY <3>1, <1>5
    <3> QED
      BY <3>1, <3>2, <1>6, <1>7
  <2> QED
    BY <2>1, <2>2, <1>3
<1>9. R = R \cap (0 .. At(i))
  <2>1. ASSUME NEW p \in R PROVE p \in 0 .. At(i)
    <3>1. PICK a \in 1 .. g : p = At(a)
      BY <2>1 DEF ResetsIn
    <3>2. a \in Nat /\ a <= i
      BY <1>2
    <3>3. At(a) \in Nat /\ At(a) <= At(i)
      BY <3>2, <1>2, AtMinus, AtNext
    <3> QED
      BY <3>1, <3>3, <1>3
  <2> QED
    BY <2>1
<1>10. IsChain(c, u, R, i)
  BY <1>3, <1>6, <1>7, <1>8, <1>9 DEF IsChain
<1> QED
  BY <1>1, <1>7, <1>10 DEF n

\* The full blocks of the buffer, and the rest.
LEMMA TakenIs ==
    ASSUME NEW w \in Writers, NEW q, q = Len(w.buf) \div BlockSize
    PROVE  /\ q \in Nat /\ Len(w.buf) \in Nat
           /\ Len(w.buf) - (Len(w.buf) % BlockSize) = At(q) /\ At(q) \in Nat /\ At(q) <= Len(w.buf)
           /\ SubSeq(w.buf, 1, At(q)) \in Seq(AllUnits) /\ Len(SubSeq(w.buf, 1, At(q))) = At(q)
           /\ \A j \in 1 .. At(q) : SubSeq(w.buf, 1, At(q))[j] = w.buf[j]
           /\ SubSeq(w.buf, At(q) + 1, Len(w.buf)) \in Seq(AllUnits)
           /\ Len(SubSeq(w.buf, At(q) + 1, Len(w.buf))) = Len(w.buf) - At(q)
           /\ \A j \in 1 .. Len(w.buf) - At(q) :
                SubSeq(w.buf, At(q) + 1, Len(w.buf))[j] = w.buf[At(q) + j]
<1>1. w.buf \in Seq(AllUnits) /\ Len(w.buf) \in Nat
  BY DEF Writers
<1>2. /\ q \in Nat /\ At(q) <= Len(w.buf) /\ At(q) \in Nat
      /\ Len(w.buf) % BlockSize = Len(w.buf) - At(q)
  BY <1>1, Division, AtNext
<1>3. Len(w.buf) - (Len(w.buf) % BlockSize) = At(q)
  BY <1>1, <1>2
<1>4. \A j \in 1 .. Len(w.buf) : w.buf[j] \in AllUnits
  BY <1>1, ElementOfSeq
<1>5. /\ SubSeq(w.buf, 1, At(q)) \in Seq(AllUnits) /\ Len(SubSeq(w.buf, 1, At(q))) = At(q)
      /\ \A j \in 1 .. At(q) : SubSeq(w.buf, 1, At(q))[j] = w.buf[j]
  <2>1. \A j \in 1 .. At(q) : w.buf[j] \in AllUnits
    BY <1>1, <1>2, <1>4
  <2> QED
    BY <2>1, <1>1, <1>2, SubSeqProperties
<1>6. /\ SubSeq(w.buf, At(q) + 1, Len(w.buf)) \in Seq(AllUnits)
      /\ Len(SubSeq(w.buf, At(q) + 1, Len(w.buf))) = Len(w.buf) - At(q)
      /\ \A j \in 1 .. Len(w.buf) - At(q) :
                SubSeq(w.buf, At(q) + 1, Len(w.buf))[j] = w.buf[At(q) + j]
  <2>1. \A j \in At(q) + 1 .. Len(w.buf) : w.buf[j] \in AllUnits
    BY <1>1, <1>2, <1>4
  <2>2. At(q) + 1 \in Int /\ Len(w.buf) \in Int /\ At(q) + 1 <= Len(w.buf) + 1
        /\ Len(w.buf) - (At(q) + 1) + 1 = Len(w.buf) - At(q)
    BY <1>1, <1>2
  <2>3. /\ SubSeq(w.buf, At(q) + 1, Len(w.buf)) \in Seq(AllUnits)
        /\ Len(SubSeq(w.buf, At(q) + 1, Len(w.buf))) = Len(w.buf) - At(q)
        /\ \A j \in 1 .. Len(w.buf) - At(q) :
                SubSeq(w.buf, At(q) + 1, Len(w.buf))[j] = w.buf[At(q) + 1 + j - 1]
    BY <2>1, <2>2, <1>1, SubSeqProperties
  <2>4. \A j \in 1 .. Len(w.buf) - At(q) : At(q) + 1 + j - 1 = At(q) + j
    BY <1>1, <1>2
  <2> QED
    BY <2>3, <2>4
<1> QED
  BY <1>1, <1>2, <1>3, <1>5, <1>6

\* take_buffer: what is about to be written may already be on the device.
LEMMA TakeKeeps ==
    ASSUME Inv, TakeBuffer
    PROVE  Inv'
<1>1. /\ pc = "mounted" /\ LogInv /\ DeviceInv /\ Mounted /\ InnerType /\ WriterType
      /\ SyncType /\ InFlightInv /\ AllocInv /\ committing \in Files \cup {NoFile}
  BY DEF TakeBuffer, Inv, Mounted
<1>2. PICK q : q = Len(writer.buf) \div BlockSize
  OBVIOUS
<1>3. PICK taken : taken = [writer EXCEPT !.buf = SubSeq(@, 1, At(q))]
  OBVIOUS
<1>4. PICK blocks : blocks = Overwritten(taken)
  OBVIOUS
<1>5. /\ q \in Nat /\ Len(writer.buf) \in Nat
      /\ Len(writer.buf) - (Len(writer.buf) % BlockSize) = At(q) /\ At(q) \in Nat /\ At(q) <= Len(writer.buf)
      /\ SubSeq(writer.buf, 1, At(q)) \in Seq(AllUnits) /\ Len(SubSeq(writer.buf, 1, At(q))) = At(q)
      /\ \A j \in 1 .. At(q) : SubSeq(writer.buf, 1, At(q))[j] = writer.buf[j]
      /\ SubSeq(writer.buf, At(q) + 1, Len(writer.buf)) \in Seq(AllUnits)
      /\ Len(SubSeq(writer.buf, At(q) + 1, Len(writer.buf))) = Len(writer.buf) - At(q)
      /\ \A j \in 1 .. Len(writer.buf) - At(q) :
                SubSeq(writer.buf, At(q) + 1, Len(writer.buf))[j] = writer.buf[At(q) + j]
  BY <1>1, <1>2, TakenIs DEF WriterType
<1>6. /\ in_flight = NotInFlight /\ At(q) > 0 /\ in_flight' = taken
      /\ writer' = [offset |-> writer.offset + At(q), checksum |-> ChecksumAfter(writer, At(q)),
                    buf |-> SubSeq(writer.buf, At(q) + 1, Len(writer.buf))]
      /\ unstable' = [unstable EXCEPT !.journal = [i \in Indices |->
                      IF i \in DOMAIN blocks THEN @[i] \cup {Torn, blocks[i]} ELSE @[i]]]
      /\ UNCHANGED <<journal, data, pc, reader, inner, syncing, committing, extents, pending, deallocated,
                     log, synced, mid_block, next_id>>
  BY <1>3, <1>4, <1>5 DEF TakeBuffer, replay, history, allocator
<1>7. /\ unstable'.data = unstable.data
      /\ unstable'.journal = [i \in Indices |-> IF i \in DOMAIN blocks
                               THEN unstable.journal[i] \cup {Torn, blocks[i]} ELSE unstable.journal[i]]
      /\ unstable' = [journal |-> unstable'.journal, data |-> unstable.data]
  BY <1>1, <1>6 DEF DeviceInv
<1>8. /\ writer \in Writers /\ writer.offset \in Nat /\ writer.buf \in Seq(AllUnits)
      /\ writer.checksum \in Checksums /\ writer.checksum.units \in Seq(AllUnits)
  BY <1>1 DEF WriterType, Writers, Checksums
<1>9. /\ taken \in Writers /\ taken.offset = writer.offset /\ taken.checksum = writer.checksum
      /\ taken.buf = SubSeq(writer.buf, 1, At(q)) /\ Len(taken.buf) = At(q)
  BY <1>3, <1>5, <1>8 DEF Writers
<1> DEFINE cs == writer.checksum.units \o SubSeq(writer.buf, 1, At(q))
<1>10. /\ cs \in Seq(AllUnits) /\ Len(cs) = Len(writer.checksum.units) + At(q)
       /\ \A j \in 1 .. Len(writer.checksum.units) + At(q) :
            cs[j] = IF j <= Len(writer.checksum.units) THEN writer.checksum.units[j]
                    ELSE writer.buf[j - Len(writer.checksum.units)]
  <2>1. \A a, b \in Seq(AllUnits) :
          /\ a \o b \in Seq(AllUnits) /\ Len(a \o b) = Len(a) + Len(b)
          /\ \A j \in 1 .. Len(a) + Len(b) :
               (a \o b)[j] = IF j <= Len(a) THEN a[j] ELSE b[j - Len(a)]
    BY ConcatProperties
  <2>2. /\ cs \in Seq(AllUnits) /\ Len(cs) = Len(writer.checksum.units) + At(q)
        /\ \A j \in 1 .. Len(writer.checksum.units) + At(q) :
            cs[j] = IF j <= Len(writer.checksum.units) THEN writer.checksum.units[j]
                    ELSE SubSeq(writer.buf, 1, At(q))[j - Len(writer.checksum.units)]
    BY <2>1, <1>5, <1>8, SMTT(20)
  <2>3. Len(writer.checksum.units) \in Nat
    BY <1>8
  <2>4. \A j \in 1 .. Len(writer.checksum.units) + At(q) :
           ~(j <= Len(writer.checksum.units)) => j - Len(writer.checksum.units) \in 1 .. At(q)
    BY <2>3, <1>5, SMTT(20)
  <2> HIDE DEF cs
  <2> QED
    BY <2>2, <2>4, <1>5
<1> HIDE DEF cs
<1>11. /\ writer' \in Writers /\ writer'.offset = writer.offset + At(q)
       /\ writer'.checksum.units = cs /\ writer'.checksum.resets = writer.checksum.resets
       /\ writer'.buf = SubSeq(writer.buf, At(q) + 1, Len(writer.buf))
       /\ Len(writer'.buf) = Len(writer.buf) - At(q)
       /\ writer'.offset \in Nat
  <2>1. ChecksumAfter(writer, At(q)) \in Checksums /\ ChecksumAfter(writer, At(q)).units = cs
        /\ ChecksumAfter(writer, At(q)).resets = writer.checksum.resets
    BY <1>8, <1>10 DEF ChecksumAfter, Checksums, cs
  <2>2. writer.offset + At(q) \in Nat
    BY <1>5, <1>8
  <2> QED
    BY <2>1, <2>2, <1>5, <1>6 DEF Writers
<1>12. FileOffset(writer') = FileOffset(writer)
  BY <1>5, <1>8, <1>11 DEF FileOffset
<1>13. WriterType'
  BY <1>6, <1>9, <1>11 DEF WriterType
<1>14. LogInv' /\ AllocInv' /\ InnerType' /\ SyncType'
  BY <1>1, <1>6, LogFrame, AllocFrame DEF InnerType, SyncType
<1>15. InFlightInv'
  BY <1>4, <1>6, <1>7 DEF InFlightInv
<1>16. ASSUME \A i \in Indices : i \in DOMAIN blocks => blocks[i] \in Checksums
       PROVE  DeviceInv'
  <2>1. Torn \in Checksums
    BY DEF Torn, StartingChecksum, Checksums
  <2>2. /\ unstable.journal \in [Indices -> SUBSET Checksums]
        /\ unstable.data \in [Blocks -> SUBSET (0 .. MaxTxns)]
        /\ \A i \in Indices : journal[i] \in unstable.journal[i]
    BY <1>1 DEF DeviceInv
  <2>3. ASSUME NEW i \in Indices PROVE unstable'.journal[i] \in SUBSET Checksums
    BY <2>1, <2>2, <1>7, <1>16
  <2>4. unstable'.journal \in [Indices -> SUBSET Checksums]
    BY <2>3, <1>7
  <2>5. \A i \in Indices : journal[i] \in unstable'.journal[i]
    BY <2>2, <1>7
  <2>6. unstable' \in [journal : [Indices -> SUBSET Checksums], data : [Blocks -> SUBSET (0 .. MaxTxns)]]
    BY <2>2, <2>4, <1>7
  <2> QED
    BY <2>5, <2>6, <1>1, <1>6, <1>7 DEF DeviceInv
<1>17. next_id \in Nat /\ next_id <= next_id' /\ Len(log) \in Nat
  BY <1>1, <1>6 DEF DeviceInv, LogInv
<1>18. ASSUME NEW u, NEW R, NEW tr, NEW g, NEW m, NEW v, Frozen(u, R, tr, g, m, v)
       PROVE  FrozenStep(tr, g) /\ DeviceInv'
  <2>1. writer.offset >= BlockSize /\ writer.offset % BlockSize # 0
    BY <1>18 DEF Frozen
  <2>2. DOMAIN blocks \subseteq Nat \ {0} /\ \A i \in DOMAIN blocks : blocks[i] = Torn
    <3>1. PICK a, b : a = writer.offset \div BlockSize /\ b = Len(taken.buf) \div BlockSize
      OBVIOUS
    <3>2. blocks = [i \in a .. a + b |-> Torn]
      BY <3>1, <2>1, <1>4, <1>9 DEF Overwritten
    <3>3. a \in Nat /\ a # 0
      <4>1. a \in Nat /\ writer.offset < At(a) + BlockSize
        BY <3>1, <1>8, Division
      <4>2. a # 0
        BY <4>1, <2>1, <1>8, AtSome, SizesAssumption
      <4> QED
        BY <4>1, <4>2
    <3> QED
      BY <3>2, <3>3
  <2>3. DeviceInv'
    <3>1. Torn \in Checksums
      BY DEF Torn, StartingChecksum, Checksums
    <3> QED
      BY <3>1, <2>2, <1>16
  <2>4. Grows(tr, g)
    BY <1>6, <1>7, <1>17 DEF Grows
  <2>5. (writer.offset + At(q)) % BlockSize # 0
    <3>1. SUFFICES ASSUME (writer.offset + At(q)) % BlockSize = 0 PROVE FALSE
      OBVIOUS
    <3>2. PICK i \in Nat : writer.offset + At(q) = At(i)
      <4>1. writer.offset + At(q) \in Nat
        BY <1>5, <1>8
      <4> QED
        BY <3>1, <4>1, ModAt
    <3>3. q <= i
      <4>1. SUFFICES ASSUME i < q PROVE FALSE
        BY <1>5
      <4>2. At(i) + BlockSize <= At(q) /\ At(i) \in Nat
        BY <4>1, <1>5, AtLess, AtNext
      <4> QED
        BY <3>2, <4>2, <1>5, <1>8, SizesAssumption
    <3>4. At(i - q) = At(i) - At(q) /\ i - q \in Nat /\ At(i) \in Nat
      <4>1. i - q \in Nat
        BY <3>3, <1>5
      <4>2. At(i) \in Nat
        BY AtNext
      <4> QED
        BY <4>1, <4>2, <3>3, <1>5, AtMinus
    <3>5. writer.offset = At(i - q)
      BY <3>2, <3>4, <1>5, <1>8
    <3> QED
      BY <3>4, <3>5, <2>1, <1>8, ModAt
  <2>6. \A i \in Indices : \A c \in unstable'.journal[i] : c \in unstable.journal[i] \/ (c = Torn /\ i > 0)
    BY <2>2, <1>7 DEF Indices
  <2>7. writer.offset <= writer'.offset
    BY <1>5, <1>8, <1>11
  <2>8. \A i \in 1 .. Len(log') : log'[i].offset < FileOffset(writer')
    BY <1>6, <1>12, <1>18 DEF Frozen
  <2>9. FrozenStep(tr, g)
    BY <1>5, <1>6, <1>8, <1>9, <1>11, <2>1, <2>4, <2>5, <2>6, <2>7, <2>8 DEF FrozenStep
  <2> QED
    BY <2>3, <2>9
<1>19. ASSUME NEW u, NEW R, NEW tr, NEW g, NEW m, NEW N, NEW v, Aligned(u, R, tr, g, m, N, v)
       PROVE  Aligned(u, R, tr, g, m, N, v)' /\ DeviceInv'
  <2>1. /\ u \in Seq(AllUnits) /\ Len(u) \in Nat /\ g \in Nat /\ g >= 1 /\ JournalBlocks \in Nat
        /\ At(g) \in Nat /\ DurableOffset(g) \in Nat /\ inner.flushed_offset \in Nat
        /\ DurableOffset(g) <= inner.flushed_offset /\ Len(u) <= EndOfFile
        /\ EndOfFile \in Nat /\ N \in Nat
    BY <1>1, <1>19, AlignedIs
  <2>2. WriterInv(u, R, g) /\ DiskInv(u, R, g, N) /\ DurableInv(u, R, tr, g, m) /\ SyncInv(u, R, tr, g, m)
        /\ ResetsIn(R, 1 .. g)
    BY <1>19 DEF Aligned
  <2>3. PICK k \in 0 .. JournalBlocks : writer.offset = At(k)
    BY <2>2 DEF WriterInv
  <2>4. k \in Nat /\ At(k) \in Nat /\ inner.flushed_offset = At(k)
    <3>1. Len(NotInFlight.buf) = 0
      BY DEF NotInFlight, NewWriter
    <3>2. ~(Len(in_flight.buf) > 0)
      BY <3>1, <1>6
    <3>3. k \in Nat
      BY <2>1, <2>3
    <3>4. At(k) \in Nat
      BY <3>3, AtNext
    <3>5. inner.flushed_offset = writer.offset
      BY <3>2, <2>2 DEF WriterInv
    <3> QED
      BY <3>3, <3>4, <3>5, <2>3
  <2>5. g <= k
    <3>1. SUFFICES ASSUME k < g PROVE FALSE
      BY <2>1, <2>4
    <3>2. At(k) + BlockSize <= At(g)
      BY <3>1, <2>1, <2>4, AtLess
    <3>3. At(g) <= inner.flushed_offset
      BY <2>2 DEF WriterInv
    <3> QED
      BY <3>2, <3>3, <2>1, <2>4, SizesAssumption
  <2>6. /\ writer.checksum.resets = R /\ Len(writer.checksum.units) = writer.offset
        /\ Len(u) = writer.offset + Len(writer.buf)
        /\ \A j \in 1 .. writer.offset : writer.checksum.units[j] = u[j]
        /\ \A j \in 1 .. Len(writer.buf) : writer.buf[j] = u[writer.offset + j]
    BY <2>2 DEF WriterInv
  <2>7. \A j \in 1 .. Len(taken.buf) : taken.buf[j] = u[taken.offset + j]
    <3> TAKE j \in 1 .. Len(taken.buf)
    <3>1. j \in 1 .. At(q) /\ j \in 1 .. Len(writer.buf)
      BY <1>5, <1>9
    <3>2. taken.buf[j] = writer.buf[j] /\ taken.offset = writer.offset
      BY <3>1, <1>5, <1>9
    <3> QED
      BY <3>1, <3>2, <2>6
  <2>8. /\ DOMAIN blocks = k .. k + q - 1
        /\ \A i \in DOMAIN blocks : IsChain(blocks[i], u, R, i) /\ blocks[i] \in Checksums
    <3>1. DOMAIN blocks = k .. k + q - 1
      BY <1>4, <1>5, <1>9, <2>3, <2>4, OverwrittenIs
    <3>2. \A j \in 1 .. taken.offset : taken.checksum.units[j] = u[j]
      BY <2>6, <1>9
    <3>3. taken.checksum.resets = R /\ Len(taken.checksum.units) = taken.offset
      BY <2>6, <1>9
    <3>4. \A i \in DOMAIN blocks : IsChain(blocks[i], u, R, i) /\ blocks[i] \in Checksums
      <4> TAKE i \in DOMAIN blocks
      <4>1. i \in DOMAIN Overwritten(taken) /\ taken.offset = At(k)
        BY <1>4, <1>9, <2>3
      <4>2. IsChain(Overwritten(taken)[i], u, R, i) /\ Overwritten(taken)[i] \in Checksums
        <5>1. taken \in Writers /\ k \in Nat /\ q \in Nat /\ Len(taken.buf) = At(q) /\ g \in Nat
          BY <1>5, <1>9, <2>1, <2>4
        <5> QED
          BY <4>1, <5>1, <3>2, <3>3, <2>2, <2>5, <2>7, OverwrittenChain
      <4> QED
        BY <4>2, <1>4
    <3> QED
      BY <3>1, <3>4
  <2>9. DeviceInv'
    BY <2>8, <1>16
  <2>10. /\ k + q \in Nat /\ k + q <= JournalBlocks /\ writer'.offset = At(k + q)
    <3>1. k + q \in Nat /\ At(k + q) = At(k) + At(q) /\ At(k + q) \in Nat
      <4>1. k + q \in Nat
        BY <2>4, <1>5
      <4> QED
        BY <4>1, <2>4, <1>5, AtPlus, AtNext
    <3>2. At(k + q) <= EndOfFile
      <4>1. At(q) \in Nat /\ Len(writer.buf) \in Nat /\ At(q) <= Len(writer.buf)
        BY <1>5
      <4>2. Len(u) = At(k) + Len(writer.buf)
        BY <2>3, <2>6
      <4> QED
        BY <4>1, <4>2, <3>1, <2>1, <2>4
    <3>3. k + q <= JournalBlocks
      <4>1. SUFFICES ASSUME JournalBlocks < k + q PROVE FALSE
        BY <3>1, <2>1
      <4>2. At(JournalBlocks) + BlockSize <= At(k + q)
        BY <4>1, <3>1, <2>1, AtLess
      <4> QED
        BY <4>2, <3>1, <3>2, <2>1, AtSome, SizesAssumption
    <3> QED
      BY <3>1, <3>3, <2>3, <1>11
  <2>11. WriterInv(u, R, g)'
    <3>1. \A j \in 1 .. writer'.offset : writer'.checksum.units[j] = u[j]
      <4> TAKE j \in 1 .. writer'.offset
      <4>1. j \in 1 .. writer.offset + At(q)
        BY <1>11
      <4>2. CASE j <= writer.offset
        <5>1. j \in 1 .. writer.offset
          BY <4>1, <4>2, <1>5, <1>8
        <5> QED
          BY <5>1, <4>1, <4>2, <1>10, <1>11, <2>6
      <4>3. CASE j > writer.offset
        <5>1. j - writer.offset \in 1 .. Len(writer.buf) /\ writer.offset + (j - writer.offset) = j
              /\ ~(j <= writer.offset)
          BY <4>1, <4>3, <1>5, <1>8, SMTT(20)
        <5>2. cs[j] = writer.buf[j - writer.offset]
          BY <5>1, <4>1, <1>10, <2>6
        <5> QED
          BY <5>1, <5>2, <1>11, <2>6
      <4> QED
        BY <4>1, <4>2, <4>3, <1>5, <1>8
    <3>2. \A j \in 1 .. Len(writer'.buf) : writer'.buf[j] = u[writer'.offset + j]
      <4> TAKE j \in 1 .. Len(writer'.buf)
      <4>1. j \in 1 .. Len(writer.buf) - At(q) /\ At(q) + j \in 1 .. Len(writer.buf)
            /\ writer.offset + (At(q) + j) = writer.offset + At(q) + j
        <5>1. j \in 1 .. Len(writer.buf) - At(q)
          BY <1>11
        <5>2. Len(writer.buf) \in Nat /\ At(q) \in Nat /\ writer.offset \in Nat
          BY <1>5, <1>8
        <5> QED
          BY <5>1, <5>2
      <4>2. writer'.buf[j] = writer.buf[At(q) + j]
        BY <4>1, <1>5, <1>11
      <4> QED
        BY <4>1, <4>2, <2>6, <1>11
    <3>3. /\ Len(writer'.checksum.units) = writer'.offset /\ writer'.checksum.resets = R
          /\ writer'.checksum.units \in Seq(AllUnits) /\ writer'.buf \in Seq(AllUnits)
          /\ Len(u) = writer'.offset + Len(writer'.buf)
      <4>1. writer'.checksum.resets = R /\ writer'.checksum.units \in Seq(AllUnits) /\ writer'.buf \in Seq(AllUnits)
        BY <1>5, <1>10, <1>11, <2>6
      <4>2. Len(writer'.checksum.units) = writer'.offset
        BY <1>10, <1>11, <2>6
      <4>3. Len(u) = writer'.offset + Len(writer'.buf)
        <5>1. Len(writer.buf) \in Nat /\ At(q) \in Nat /\ writer.offset \in Nat
          BY <1>5, <1>8
        <5>2. writer'.offset = writer.offset + At(q) /\ Len(writer'.buf) = Len(writer.buf) - At(q)
              /\ Len(u) = writer.offset + Len(writer.buf)
          BY <1>11, <2>6
        <5> QED
          BY <5>1, <5>2
      <4> QED
        BY <4>1, <4>2, <4>3
    <3>4. /\ \E i \in 0 .. JournalBlocks : writer'.offset = At(i)
          /\ \E i \in 0 .. JournalBlocks : inner'.flushed_offset = At(i)
      <4>1. k + q \in 0 .. JournalBlocks
        BY <2>1, <2>10
      <4> QED
        BY <4>1, <2>3, <2>4, <2>10, <1>6
    <3>5. At(g) <= inner'.flushed_offset /\ inner'.flushed_offset <= writer'.offset /\ writer'.offset \in Nat
      <4>1. At(g) <= inner.flushed_offset
        BY <2>2 DEF WriterInv
      <4> QED
        BY <4>1, <1>5, <1>6, <1>8, <1>11, <2>3, <2>4
    <3>6. /\ in_flight'.offset = inner'.flushed_offset
          /\ in_flight'.buf \in Seq(AllUnits) /\ in_flight'.checksum.units \in Seq(AllUnits)
          /\ Len(in_flight'.checksum.units) = in_flight'.offset
          /\ in_flight'.checksum.resets = R
          /\ in_flight'.offset + Len(in_flight'.buf) = writer'.offset
          /\ Len(in_flight'.buf) > 0
          /\ \A j \in 1 .. in_flight'.offset : in_flight'.checksum.units[j] = u[j]
          /\ \A j \in 1 .. Len(in_flight'.buf) : in_flight'.buf[j] = u[in_flight'.offset + j]
      BY <1>5, <1>6, <1>8, <1>9, <1>11, <2>3, <2>4, <2>6, <2>7
    <3> QED
      BY <3>1, <3>2, <3>3, <3>4, <3>5, <3>6, <2>1 DEF WriterInv
  <2>12. DiskInv(u, R, g, N)'
    <3>1. ASSUME NEW i \in Indices, NEW c \in unstable'.journal[i]
          PROVE  \/ c = Torn /\ i >= g
                 \/ At(i + 1) <= writer'.offset /\ IsChain(c, u, R, i)
                 \/ At(g) \in R /\ i = g /\ ~Follows(c, u, R, i) /\ IsOlder(c, i, next_id)
                 \/ At(g) \in R /\ i > g /\ IsOlder(c, i, N)
      <4>0. i \in Nat /\ At(i + 1) \in Nat
        BY AtNext, SizesAssumption DEF Indices
      <4>1. CASE c \in unstable.journal[i]
        <5>1. At(i + 1) <= writer.offset => At(i + 1) <= writer'.offset
          BY <4>0, <1>5, <1>8, <1>11
        <5> QED
          BY <4>1, <5>1, <2>2 DEF DiskInv
      <4>2. CASE i \in DOMAIN blocks /\ c = Torn
        <5>1. i >= g
          BY <4>2, <2>1, <2>4, <2>5, <2>8
        <5> QED
          BY <4>2, <5>1
      <4>3. CASE i \in DOMAIN blocks /\ c = blocks[i]
        <5>1. i + 1 <= k + q /\ i + 1 \in Nat
          BY <4>0, <4>3, <2>4, <2>8, <1>5
        <5>2. At(i + 1) <= At(k + q)
          BY <5>1, <2>10, AtMinus
        <5> QED
          BY <4>3, <5>2, <2>8, <2>10
      <4> QED
        BY <4>1, <4>2, <4>3, <1>7
    <3> QED
      BY <3>1, <2>2, <1>6 DEF DiskInv
  <2>13. \A x \in Nat : x <= inner.flushed_offset /\ JournalDurable(u, R, x) => JournalDurable(u, R, x)'
    <3> SUFFICES ASSUME NEW x \in Nat, x <= inner.flushed_offset, JournalDurable(u, R, x),
                        NEW i \in Indices, At(i) < x, NEW c \in unstable'.journal[i]
                 PROVE  IsChain(c, u, R, i)
      BY DEF JournalDurable
    <3>1. i \in Nat /\ At(i) \in Nat
      BY AtNext, SizesAssumption DEF Indices
    <3>2. i \notin DOMAIN blocks
      <4>1. SUFFICES ASSUME k <= i PROVE FALSE
        BY <3>1, <2>4, <2>8
      <4>2. At(k) <= At(i)
        BY <4>1, <3>1, <2>4, AtMinus
      <4> QED
        BY <4>2, <3>1, <2>4
    <3> QED
      BY <3>2, <1>7 DEF JournalDurable
  <2>14. \A i, x : Freed(i, x)' <=> Freed(i, x)
    BY <1>6 DEF Freed
  <2>15. \A x : (DataDurable(x) => DataDurable(x)') /\ (DataThere(x) => DataThere(x)')
    BY <2>14, <1>6, <1>7 DEF DataDurable, DataThere
  <2>16. \A x : Checkpoint(tr, Len(u), m, x)' <=> Checkpoint(tr, Len(u), m, x)
    BY <1>6 DEF Checkpoint
  <2>17. SyncInv(u, R, tr, g, m)'
    <3>1. PICK s : s = syncing.offset
      OBVIOUS
    <3>2. s \in Nat
      BY <3>1, <1>1 DEF SyncType
    <3> QED
      BY <3>1, <3>2, <1>6, <2>2, <2>13, <2>15, <2>16 DEF SyncInv
  <2>18. DurableInv(u, R, tr, g, m)'
    <3>1. PICK d : d = DurableOffset(g)
      OBVIOUS
    <3>2. DurableOffset(g)' = d
      BY <3>1, <1>6 DEF DurableOffset
    <3>3. /\ d <= inner.flushed_offset /\ JournalDurable(u, R, d)' /\ Checkpoint(tr, Len(u), m, d)'
          /\ log[synced + 1].offset < d /\ (~mid_block => DataDurable(d)' /\ DataThere(d)')
      BY <3>1, <2>1, <2>2, <2>13, <2>15, <2>16 DEF DurableInv
    <3> QED
      BY <3>2, <3>3, <1>6 DEF DurableInv
  <2>19. History(tr, g)' /\ Base(tr[At(g)], m, v)'
    <3>1. Len(log) <= Len(log') /\ \A i \in Len(log) + 1 .. Len(log') : log'[i].offset >= Len(u)
      BY <1>6, <1>17
    <3> QED
      BY <1>1, <1>6, <1>7, <1>14, <1>17, <1>19, <2>9, <3>1, AlignedPast
  <2>20. Timeline(u, R, tr, g, m)' /\ Marked(u, R, g, N)' /\ ReuseInv(u, R, tr, g)'
    BY <1>6, <1>19, TimelineFrame, MarkedFrame, ReuseFrame DEF Aligned
  <2>21. Aligned(u, R, tr, g, m, N, v)'
    BY <1>6, <1>19, <2>11, <2>12, <2>17, <2>18, <2>19, <2>20 DEF Aligned
  <2> QED
    BY <2>9, <2>21
<1>20. DeviceInv'
  BY <1>1, <1>18, <1>19 DEF Mounted
<1> QED
  BY <1>1, <1>6, <1>13, <1>14, <1>15, <1>18, <1>19, <1>20, MountedStep

\* The write completes, and the flush task says how far it got.
LEMMA FlushKeeps ==
    ASSUME Inv, Flush
    PROVE  Inv'
<1>1. /\ pc = "mounted" /\ LogInv /\ DeviceInv /\ Mounted /\ InnerType /\ WriterType
      /\ SyncType /\ InFlightInv /\ AllocInv /\ committing \in Files \cup {NoFile}
  BY DEF Flush, Inv, Mounted
<1>2. PICK blocks : blocks = Overwritten(in_flight)
  OBVIOUS
<1>3. /\ in_flight # NotInFlight /\ in_flight' = NotInFlight
      /\ journal' = [i \in Indices |-> IF i \in DOMAIN blocks THEN blocks[i] ELSE journal[i]]
      /\ inner' = [inner EXCEPT !.flushed_offset = FileOffset(in_flight)]
      /\ UNCHANGED <<data, unstable, pc, reader, writer, syncing, committing, extents, pending, deallocated,
                     log, synced, mid_block, next_id>>
  BY <1>2 DEF Flush, replay, history, allocator
<1>4. /\ in_flight \in Writers /\ in_flight.offset \in Nat /\ Len(in_flight.buf) \in Nat
      /\ FileOffset(in_flight) \in Nat
  BY <1>1 DEF WriterType, Writers, FileOffset
<1>5. /\ inner' \in [flushed_offset : Nat, device_flushed_offset : Nat,
                     needs_did_flush_device : BOOLEAN, discard_offset : Nat]
      /\ inner'.flushed_offset = in_flight.offset + Len(in_flight.buf)
      /\ inner'.device_flushed_offset = inner.device_flushed_offset
      /\ inner'.needs_did_flush_device = inner.needs_did_flush_device
      /\ inner'.discard_offset = inner.discard_offset
  BY <1>1, <1>3, <1>4 DEF InnerType, FileOffset
<1>6. LogInv' /\ AllocInv' /\ InnerType' /\ SyncType'
  BY <1>1, <1>3, <1>5, LogFrame, AllocFrame DEF InnerType, SyncType
<1>7. InFlightInv'
  BY <1>3, NoneInFlight DEF InFlightInv
<1>8. WriterType'
  <2>1. StartingChecksum \in Checksums
    BY DEF StartingChecksum, Checksums
  <2>2. NotInFlight \in Writers
    BY <2>1 DEF NotInFlight, NewWriter, Writers
  <2> QED
    BY <2>2, <1>1, <1>3 DEF WriterType
<1>9. DeviceInv'
  <2>1. /\ journal \in [Indices -> Checksums] /\ unstable.journal \in [Indices -> SUBSET Checksums]
        /\ \A i \in Indices : journal[i] \in unstable.journal[i]
    BY <1>1 DEF DeviceInv
  <2>2. \A i \in Indices : i \in DOMAIN blocks => blocks[i] \in unstable.journal[i]
    BY <1>1, <1>2 DEF InFlightInv
  <2>3. \A i \in Indices : journal'[i] \in unstable.journal[i]
    BY <2>1, <2>2, <1>3
  <2>4. \A i \in Indices : journal'[i] \in Checksums
    BY <2>1, <2>3
  <2>5. journal' \in [Indices -> Checksums]
    BY <2>4, <1>3
  <2> QED
    BY <2>3, <2>5, <1>1, <1>3 DEF DeviceInv
<1>10. next_id \in Nat /\ next_id <= next_id' /\ Len(log) \in Nat
  BY <1>1, <1>3 DEF DeviceInv, LogInv
<1>11. ASSUME NEW u, NEW R, NEW tr, NEW g, NEW m, NEW v, Frozen(u, R, tr, g, m, v)
       PROVE  FrozenStep(tr, g)
  <2>1. Grows(tr, g)
    BY <1>3, <1>10 DEF Grows
  <2>2. writer.offset <= writer.offset
    BY <1>11 DEF Frozen
  <2> QED
    BY <2>1, <2>2, <1>3, <1>11 DEF FrozenStep, Frozen, FileOffset
<1>12. ASSUME NEW u, NEW R, NEW tr, NEW g, NEW m, NEW N, NEW v, Aligned(u, R, tr, g, m, N, v)
       PROVE  Aligned(u, R, tr, g, m, N, v)'
  <2>1. /\ u \in Seq(AllUnits) /\ Len(u) \in Nat /\ g \in Nat /\ g >= 1 /\ JournalBlocks \in Nat
        /\ At(g) \in Nat /\ DurableOffset(g) \in Nat /\ inner.flushed_offset \in Nat
        /\ DurableOffset(g) <= inner.flushed_offset /\ N \in Nat
        /\ inner.flushed_offset <= writer.offset /\ writer.offset \in Nat
    BY <1>1, <1>12, AlignedIs
  <2>2. WriterInv(u, R, g) /\ DiskInv(u, R, g, N) /\ DurableInv(u, R, tr, g, m) /\ SyncInv(u, R, tr, g, m)
        /\ ResetsIn(R, 1 .. g) /\ Timeline(u, R, tr, g, m) /\ ReuseInv(u, R, tr, g)
    BY <1>12 DEF Aligned
  <2>3. PICK k \in 0 .. JournalBlocks, l \in 0 .. JournalBlocks :
          inner.flushed_offset = At(k) /\ writer.offset = At(l)
    BY <2>2 DEF WriterInv
  <2>4. k \in Nat /\ l \in Nat /\ At(k) \in Nat /\ At(l) \in Nat
    <3>1. k \in Nat /\ l \in Nat
      BY <2>1, <2>3
    <3> QED
      BY <3>1, AtNext
  <2>5. g <= k /\ k <= l
    <3>1. ASSUME k < g PROVE FALSE
      <4>1. At(k) + BlockSize <= At(g)
        BY <3>1, <2>1, <2>4, AtLess
      <4>2. At(g) <= inner.flushed_offset
        BY <2>2 DEF WriterInv
      <4> QED
        BY <4>1, <4>2, <2>1, <2>3, <2>4, SizesAssumption
    <3>2. ASSUME l < k PROVE FALSE
      <4>1. At(l) + BlockSize <= At(k)
        BY <3>2, <2>4, AtLess
      <4> QED
        BY <4>1, <2>1, <2>3, <2>4, SizesAssumption
    <3> QED
      BY <3>1, <3>2, <2>1, <2>4
  <2>6. /\ in_flight.offset = At(k) /\ Len(in_flight.checksum.units) = in_flight.offset
        /\ in_flight.checksum.resets = R
        /\ in_flight.offset + Len(in_flight.buf) = At(l)
        /\ \A j \in 1 .. in_flight.offset : in_flight.checksum.units[j] = u[j]
        /\ \A j \in 1 .. Len(in_flight.buf) : in_flight.buf[j] = u[in_flight.offset + j]
    BY <1>3, <2>2, <2>3 DEF WriterInv
  <2>7. l - k \in Nat /\ Len(in_flight.buf) = At(l - k)
    <3>1. At(l - k) = At(l) - At(k)
      BY <2>4, <2>5, AtMinus
    <3> QED
      BY <3>1, <2>4, <2>5, <2>6, <1>4
  <2>8. /\ DOMAIN blocks = k .. l - 1
        /\ \A i \in DOMAIN blocks : IsChain(blocks[i], u, R, i)
    <3>1. DOMAIN blocks = k .. k + (l - k) - 1
      BY <1>2, <1>4, <2>4, <2>6, <2>7, OverwrittenIs
    <3>2. k + (l - k) - 1 = l - 1
      BY <2>4
    <3>3. ASSUME NEW i \in DOMAIN blocks PROVE IsChain(blocks[i], u, R, i)
      <4>1. i \in DOMAIN Overwritten(in_flight)
        BY <1>2
      <4>2. IsChain(Overwritten(in_flight)[i], u, R, i)
        BY <4>1, <1>4, <2>1, <2>2, <2>4, <2>5, <2>6, <2>7, OverwrittenChain
      <4> QED
        BY <4>2, <1>2
    <3> QED
      BY <3>1, <3>2, <3>3
  <2>9. inner'.flushed_offset = At(l) /\ inner'.flushed_offset = writer.offset
    BY <1>5, <2>3, <2>6
  <2>10. WriterInv(u, R, g)'
    <3>1. At(g) <= inner'.flushed_offset /\ inner'.flushed_offset <= writer.offset
      <4>1. At(g) <= inner.flushed_offset
        BY <2>2 DEF WriterInv
      <4> QED
        BY <4>1, <2>1, <2>9
    <3>2. \E i \in 0 .. JournalBlocks : inner'.flushed_offset = At(i)
      BY <2>3, <2>9
    <3> QED
      BY <3>1, <3>2, <2>2, <2>9, <1>3 DEF WriterInv
  <2>11. DiskInv(u, R, g, N)'
    <3>1. ASSUME NEW i \in Indices, At(i + 1) <= inner'.flushed_offset
          PROVE  IsChain(journal'[i], u, R, i)
      <4>1. i \in Nat /\ i + 1 \in Nat
        BY SizesAssumption DEF Indices
      <4>2. At(i + 1) \in Nat
        BY <4>1, AtNext
      <4>3. CASE i \in DOMAIN blocks
        BY <4>3, <2>8, <1>3
      <4>4. CASE i \notin DOMAIN blocks
        <5>1. i < l
          <6>1. SUFFICES ASSUME l <= i PROVE FALSE
            BY <4>1, <2>4
          <6>2. At(l) <= At(i) /\ At(i) \in Nat /\ At(i + 1) = At(i) + BlockSize
            BY <6>1, <4>1, <2>4, AtMinus, AtNext
          <6> QED
            BY <6>2, <3>1, <4>2, <2>4, <2>9, SizesAssumption
        <5>2. i + 1 <= k
          BY <4>1, <4>4, <5>1, <2>4, <2>8
        <5>3. At(i + 1) <= At(k)
          BY <5>2, <4>1, <2>4, AtMinus
        <5> QED
          BY <4>4, <5>3, <2>2, <2>3, <1>3 DEF DiskInv
      <4> QED
        BY <4>3, <4>4
    <3> QED
      BY <3>1, <2>2, <1>3 DEF DiskInv
  <2>12. DurableOffset(g)' = DurableOffset(g) /\ inner.flushed_offset <= inner'.flushed_offset
         /\ inner'.flushed_offset \in Nat
    BY <1>5, <2>1, <2>9 DEF DurableOffset
  <2>13. Timeline(u, R, tr, g, m)'
    BY <2>2, <2>12, <1>3, <1>5 DEF Timeline, Recent
  <2>14. ReuseInv(u, R, tr, g)'
    <3>1. NextFlushed(u, R, tr, g)' = NextFlushed(u, R, tr, g)
      BY DEF NextFlushed
    <3> QED
      BY <3>1, <2>2, <2>12, <1>3, <1>5 DEF ReuseInv
  <2>15. \A x : /\ JournalDurable(u, R, x)' <=> JournalDurable(u, R, x)
                /\ DataDurable(x)' <=> DataDurable(x)
                /\ DataThere(x)' <=> DataThere(x)
                /\ Checkpoint(tr, Len(u), m, x)' <=> Checkpoint(tr, Len(u), m, x)
    BY <1>3 DEF JournalDurable, DataDurable, DataThere, Checkpoint, Freed
  <2>16. SyncInv(u, R, tr, g, m)'
    <3>1. PICK s : s = syncing.offset
      OBVIOUS
    <3>2. s \in Nat
      BY <3>1, <1>1 DEF SyncType
    <3>3. s <= inner.flushed_offset => s <= inner'.flushed_offset
      BY <3>2, <2>1, <2>12
    <3> QED
      BY <3>1, <3>3, <1>3, <1>5, <2>2, <2>15 DEF SyncInv
  <2>17. DurableInv(u, R, tr, g, m)'
    <3>1. PICK d : d = DurableOffset(g)
      OBVIOUS
    <3>2. DurableOffset(g)' = d /\ d <= inner'.flushed_offset
      BY <3>1, <2>1, <2>12
    <3>3. /\ JournalDurable(u, R, d)' /\ Checkpoint(tr, Len(u), m, d)'
          /\ log[synced + 1].offset < d /\ (~mid_block => DataDurable(d)' /\ DataThere(d)')
      BY <3>1, <2>2, <2>15 DEF DurableInv
    <3> QED
      BY <3>2, <3>3, <1>3 DEF DurableInv
  <2>18. History(tr, g)' /\ Base(tr[At(g)], m, v)'
    <3>1. Len(log) <= Len(log') /\ \A i \in Len(log) + 1 .. Len(log') : log'[i].offset >= Len(u)
      BY <1>3, <1>10
    <3> QED
      BY <1>1, <1>3, <1>6, <1>9, <1>10, <1>12, <3>1, AlignedPast
  <2>19. Marked(u, R, g, N)'
    BY <1>3, <1>12, MarkedFrame DEF Aligned
  <2> QED
    BY <1>3, <1>12, <2>10, <2>11, <2>13, <2>14, <2>16, <2>17, <2>18, <2>19 DEF Aligned
<1> QED
  BY <1>1, <1>3, <1>6, <1>7, <1>8, <1>9, <1>11, <1>12, MountedStep

-----------------------------------------------------------------------------
(* Steps that write to the stream. *)

\* u2 continues the stream u.
Ext(u, tr, u2, tr2, R) ==
    /\ IsStream(u2, R, tr2)
    /\ Len(u) <= Len(u2)
    /\ \A j \in 1 .. Len(u) : u2[j] = u[j]
    /\ \A p \in 0 .. Len(u) : tr2[p] = tr[p]
    /\ \A p \in Len(u) + 1 .. Len(u2) : tr2[p].position >= Len(u)

\* What a block of the stream is, it stays.
LEMMA ChainExt ==
    ASSUME NEW u, NEW tr, NEW u2, NEW tr2, NEW R, Ext(u, tr, u2, tr2, R), Len(u) \in Nat,
           NEW i \in Nat, NEW c
    PROVE  /\ At(i + 1) <= Len(u) => (IsChain(c, u2, R, i) <=> IsChain(c, u, R, i))
           /\ At(i) <= Len(u) => (Follows(c, u2, R, i) <=> Follows(c, u, R, i))
<1>1. At(i) \in Nat /\ At(i + 1) \in Nat
  <2>1. i + 1 \in Nat
    OBVIOUS
  <2> QED
    BY <2>1, AtNext
<1>2. At(i + 1) <= Len(u) => \A j \in 1 .. At(i + 1) : j \in 1 .. Len(u)
  BY <1>1
<1>3. At(i) <= Len(u) => \A j \in 1 .. At(i) : j \in 1 .. Len(u)
  BY <1>1
<1>4. \A j \in 1 .. Len(u) : u2[j] = u[j]
  BY DEF Ext
<1> QED
  BY <1>2, <1>3, <1>4 DEF IsChain, Follows

\* A step that adds y to the writer's buffer, and perhaps a transaction to the log.
Writes(u, tr, u2, tr2, R, y) ==
    /\ Ext(u, tr, u2, tr2, R)
    /\ y \in Seq(AllUnits) /\ Len(u2) = Len(u) + Len(y) /\ Len(u2) <= EndOfFile
    /\ \A j \in 1 .. Len(y) : u2[Len(u) + j] = y[j]
    /\ \A j \in Len(u) + 1 .. Len(u2) : u2[j].record.txn.id < next_id'
    /\ writer'.offset = writer.offset /\ writer'.checksum = writer.checksum
    /\ writer'.buf = writer.buf \o y
    /\ inner'.flushed_offset = inner.flushed_offset
    /\ inner'.device_flushed_offset = inner.device_flushed_offset
    /\ UNCHANGED <<journal, data, unstable, in_flight, mid_block, synced>>
    /\ next_id <= next_id'
    /\ Len(log) <= Len(log') /\ \A i \in 1 .. Len(log) : log'[i] = log[i]
    /\ \A i \in Len(log) + 1 .. Len(log') : log'[i].offset >= Len(u)
    /\ \A i \in Len(log) + 1 .. Len(log') :
         BlockOf(log'[i]) # NoBlock => data[BlockOf(log'[i])] = log'[i].txn.new.id

\* The writer, and the device.
LEMMA WriterExt ==
    ASSUME NEW u, NEW R, NEW tr, NEW g, NEW m, NEW N, NEW v, Aligned(u, R, tr, g, m, N, v),
           LogInv, DeviceInv, InnerType, LogInv', DeviceInv',
           NEW u2, NEW tr2, NEW y, Writes(u, tr, u2, tr2, R, y)
    PROVE  WriterInv(u2, R, g)' /\ DiskInv(u2, R, g, N)'
<1>1. /\ u \in Seq(AllUnits) /\ Len(u) \in Nat /\ g \in Nat /\ At(g) \in Nat /\ At(g) <= Len(u)
      /\ writer.offset \in Nat /\ writer.offset <= Len(u) /\ next_id \in Nat /\ N \in Nat
      /\ inner.flushed_offset \in Nat /\ inner.flushed_offset <= writer.offset
  BY AlignedIs
<1>2. WriterInv(u, R, g) /\ DiskInv(u, R, g, N)
  BY DEF Aligned
<1>3. /\ Ext(u, tr, u2, tr2, R) /\ u2 \in Seq(AllUnits) /\ \A j \in 1 .. Len(u) : u2[j] = u[j]
      /\ Len(u2) \in Nat
  <2>1. Ext(u, tr, u2, tr2, R)
    BY DEF Writes
  <2>2. u2 \in Seq(AllUnits) /\ \A j \in 1 .. Len(u) : u2[j] = u[j]
    BY <2>1 DEF Ext, IsStream
  <2> QED
    BY <2>1, <2>2
<1>4. PICK a, b : a = Len(writer.buf) /\ b = Len(y)
  OBVIOUS
<1>5. /\ writer.buf \in Seq(AllUnits) /\ y \in Seq(AllUnits) /\ a \in Nat /\ b \in Nat
      /\ Len(u) = writer.offset + a /\ Len(u2) = Len(u) + b
  BY <1>2, <1>4 DEF WriterInv, Writes
<1>6. /\ writer'.buf \in Seq(AllUnits) /\ Len(writer'.buf) = a + b
      /\ \A j \in 1 .. a + b : writer'.buf[j] = IF j <= a THEN writer.buf[j] ELSE y[j - a]
  BY <1>4, <1>5, ConcatIs DEF Writes
<1>7. \A j \in 1 .. Len(writer'.buf) : writer'.buf[j] = u2[writer'.offset + j]
  <2> TAKE j \in 1 .. Len(writer'.buf)
  <2>0. writer'.offset = writer.offset /\ j \in 1 .. a + b
    BY <1>6 DEF Writes
  <2>1. CASE j <= a
    <3>1. j \in 1 .. a /\ writer.offset + j \in 1 .. Len(u)
      <4>1. writer.offset \in Nat /\ a \in Nat /\ b \in Nat /\ Len(u) = writer.offset + a
        BY <1>1, <1>5
      <4>2. j \in Nat /\ 1 <= j /\ j <= a
        BY <2>0, <2>1, <4>1
      <4>3. writer.offset + j <= writer.offset + a /\ 1 <= writer.offset + j /\ writer.offset + j \in Nat
            /\ writer.offset + a \in Nat
        BY <4>1, <4>2
      <4> QED
        BY <4>1, <4>2, <4>3
    <3>2. writer.buf[j] = u[writer.offset + j]
      BY <3>1, <1>2, <1>4 DEF WriterInv
    <3> QED
      BY <2>0, <2>1, <3>1, <3>2, <1>3, <1>6
  <2>2. CASE j > a
    <3>1. j - a \in 1 .. b /\ Len(u) + (j - a) = writer.offset + j /\ ~(j <= a)
      BY <2>0, <2>2, <1>1, <1>5
    <3>2. u2[Len(u) + (j - a)] = y[j - a]
      BY <3>1, <1>4 DEF Writes
    <3> QED
      BY <2>0, <3>1, <3>2, <1>6
  <2> QED
    BY <2>0, <2>1, <2>2, <1>5
<1>8. /\ \A j \in 1 .. writer.offset : j \in 1 .. Len(u)
      /\ \A j \in 1 .. writer.offset : writer.checksum.units[j] = u2[j]
  <2>1. \A j \in 1 .. writer.offset : j \in 1 .. Len(u)
    BY <1>1
  <2> QED
    BY <2>1, <1>2, <1>3 DEF WriterInv
<1>9. \/ in_flight = NotInFlight /\ inner.flushed_offset = writer.offset
      \/ /\ in_flight.offset = inner.flushed_offset
         /\ in_flight.buf \in Seq(AllUnits) /\ in_flight.checksum.units \in Seq(AllUnits)
         /\ Len(in_flight.checksum.units) = in_flight.offset
         /\ in_flight.checksum.resets = R
         /\ in_flight.offset + Len(in_flight.buf) = writer.offset
         /\ Len(in_flight.buf) > 0
         /\ \A j \in 1 .. in_flight.offset : in_flight.checksum.units[j] = u2[j]
         /\ \A j \in 1 .. Len(in_flight.buf) : in_flight.buf[j] = u2[in_flight.offset + j]
  <2>1. CASE in_flight = NotInFlight /\ inner.flushed_offset = writer.offset
    BY <2>1
  <2>2. CASE ~(in_flight = NotInFlight /\ inner.flushed_offset = writer.offset)
    <3>1. /\ in_flight.offset = inner.flushed_offset
          /\ in_flight.buf \in Seq(AllUnits) /\ in_flight.checksum.units \in Seq(AllUnits)
          /\ Len(in_flight.checksum.units) = in_flight.offset
          /\ in_flight.checksum.resets = R
          /\ in_flight.offset + Len(in_flight.buf) = writer.offset
          /\ Len(in_flight.buf) > 0
          /\ \A j \in 1 .. in_flight.offset : in_flight.checksum.units[j] = u[j]
          /\ \A j \in 1 .. Len(in_flight.buf) : in_flight.buf[j] = u[in_flight.offset + j]
      BY <2>2, <1>2 DEF WriterInv
    <3>2. Len(in_flight.buf) \in Nat /\ in_flight.offset \in Nat
      BY <3>1, <1>1
    <3>3. /\ \A j \in 1 .. in_flight.offset : j \in 1 .. Len(u)
          /\ \A j \in 1 .. Len(in_flight.buf) : in_flight.offset + j \in 1 .. Len(u)
      <4>1. PICK o, l : o = in_flight.offset /\ l = Len(in_flight.buf)
        OBVIOUS
      <4>2. o \in Nat /\ l \in Nat /\ o + l <= Len(u) /\ Len(u) \in Nat
        BY <3>1, <3>2, <4>1, <1>1
      <4>3. (\A j \in 1 .. o : j \in 1 .. Len(u)) /\ \A j \in 1 .. l : o + j \in 1 .. Len(u)
        BY <4>2
      <4> QED
        BY <4>1, <4>3
    <3> QED
      BY <3>1, <3>3, <1>3
  <2> QED
    BY <2>1, <2>2
<1>10. WriterInv(u2, R, g)'
  <2>1. /\ writer'.offset = writer.offset /\ writer'.checksum = writer.checksum
        /\ inner'.flushed_offset = inner.flushed_offset /\ in_flight' = in_flight
        /\ Len(u2) <= EndOfFile
    BY DEF Writes
  <2>2. Len(u2) = writer'.offset + Len(writer'.buf)
    BY <2>1, <1>1, <1>5, <1>6
  <2>3. /\ \E k \in 0 .. JournalBlocks : writer.offset = At(k)
        /\ \E k \in 0 .. JournalBlocks : inner.flushed_offset = At(k)
        /\ At(g) <= inner.flushed_offset
        /\ writer.checksum.units \in Seq(AllUnits)
        /\ Len(writer.checksum.units) = writer.offset /\ writer.checksum.resets = R
    BY <1>2 DEF WriterInv
  <2> QED
    BY <2>1, <2>2, <2>3, <1>1, <1>6, <1>7, <1>8, <1>9 DEF WriterInv
<1>11. DiskInv(u2, R, g, N)'
  <2>0. /\ writer'.offset = writer.offset /\ inner'.flushed_offset = inner.flushed_offset
        /\ journal' = journal /\ unstable' = unstable /\ next_id' \in Nat
        /\ \A x \in Nat : x < next_id => x < next_id'
    BY <1>1 DEF Writes, DeviceInv
  <2>1. ASSUME NEW i \in Indices, At(i + 1) <= inner'.flushed_offset
        PROVE  IsChain(journal'[i], u2, R, i)
    <3>1. i \in Nat /\ i + 1 \in Nat
      BY SizesAssumption DEF Indices
    <3>2. At(i + 1) \in Nat
      BY <3>1, AtNext
    <3>3. At(i + 1) <= Len(u)
      BY <2>0, <2>1, <3>2, <1>1
    <3>4. IsChain(journal[i], u, R, i)
      BY <2>0, <2>1, <1>2 DEF DiskInv
    <3> QED
      BY <2>0, <3>1, <3>3, <3>4, <1>1, <1>3, ChainExt
  <2>2. ASSUME NEW i \in Indices, NEW c \in unstable'.journal[i]
        PROVE  \/ c = Torn /\ i >= g
               \/ At(i + 1) <= writer'.offset /\ IsChain(c, u2, R, i)
               \/ At(g) \in R /\ i = g /\ ~Follows(c, u2, R, i) /\ IsOlder(c, i, next_id')
               \/ At(g) \in R /\ i > g /\ IsOlder(c, i, N)
    <3>1. i \in Nat /\ i + 1 \in Nat
      BY SizesAssumption DEF Indices
    <3>2. At(i + 1) \in Nat
      BY <3>1, AtNext
    <3>3. At(i + 1) <= writer.offset => At(i + 1) <= Len(u)
      BY <3>2, <1>1
    <3>4. c \in Checksums /\ c \in unstable.journal[i]
      BY <2>0 DEF DeviceInv
    <3>5. \/ c = Torn /\ i >= g
          \/ At(i + 1) <= writer.offset /\ IsChain(c, u, R, i)
          \/ At(g) \in R /\ i = g /\ ~Follows(c, u, R, i) /\ IsOlder(c, i, next_id)
          \/ At(g) \in R /\ i > g /\ IsOlder(c, i, N)
      BY <3>4, <1>2 DEF DiskInv
    <3>6. IsOlder(c, i, next_id) => IsOlder(c, i, next_id')
      <4>1. next_id <= next_id'
        BY DEF Writes
      <4> QED
        BY <4>1, <2>0, <3>4, <1>1, OlderGrows
    <3>7. At(i + 1) <= Len(u) /\ IsChain(c, u, R, i) => IsChain(c, u2, R, i)
      BY <3>1, <1>1, <1>3, ChainExt
    <3>8. i = g /\ ~Follows(c, u, R, i) => ~Follows(c, u2, R, i)
      BY <3>1, <1>1, <1>3, ChainExt
    <3> QED
      BY <2>0, <3>3, <3>5, <3>6, <3>7, <3>8
  <2>3. \A j \in 1 .. Len(u2) : u2[j].record.txn.id < next_id'
    <3> TAKE j \in 1 .. Len(u2)
    <3>1. CASE j <= Len(u)
      <4>1. j \in 1 .. Len(u)
        BY <3>1, <1>1, <1>3
      <4>2. u[j].record.txn.id < next_id /\ u[j].record.txn.id \in Nat
        BY <4>1, <1>1, <1>2, UnitId DEF DiskInv
      <4> QED
        BY <4>1, <4>2, <2>0, <1>3
    <3>2. CASE j > Len(u)
      <4>1. j \in Len(u) + 1 .. Len(u2)
        BY <3>2, <1>1, <1>3
      <4> QED
        BY <4>1 DEF Writes
    <3> QED
      BY <3>1, <3>2, <1>1, <1>3
  <2> QED
    BY <2>1, <2>2, <2>3 DEF DiskInv
<1> QED
  BY <1>10, <1>11

\* The readers of the past stay where they are.
LEMMA ReadersExt ==
    ASSUME NEW u, NEW tr, NEW u2, NEW tr2, NEW R, Ext(u, tr, u2, tr2, R), Len(u) \in Nat,
           NEW g \in Nat, At(g) <= Len(u)
    PROVE  \A q \in 1 .. g : tr2[At(q)] = tr[At(q)]
<1> TAKE q \in 1 .. g
<1>1. q \in Nat /\ q <= g
  OBVIOUS
<1>2. At(q) \in Nat /\ At(g) \in Nat /\ At(q) <= At(g)
  BY <1>1, AtNext, AtMinus
<1>3. At(q) \in 0 .. Len(u)
  BY <1>2
<1> QED
  BY <1>3 DEF Ext

\* The past.
LEMMA PastExt ==
    ASSUME NEW u, NEW R, NEW tr, NEW g, NEW m, NEW N, NEW v, Aligned(u, R, tr, g, m, N, v),
           LogInv, DeviceInv, InnerType, LogInv', DeviceInv',
           NEW u2, NEW tr2, NEW y, Writes(u, tr, u2, tr2, R, y)
    PROVE  /\ IsStream(u2, R, tr2) /\ tr2[At(g)] = tr[At(g)]
           /\ History(tr2, g)' /\ Base(tr2[At(g)], m, v)'
<1>1. Len(u) \in Nat /\ g \in Nat /\ g >= 1 /\ At(g) \in Nat /\ At(g) <= Len(u)
  BY AlignedIs
<1>2. Ext(u, tr, u2, tr2, R)
  BY DEF Writes
<1>3. History(tr, g)' /\ Base(tr[At(g)], m, v)'
  BY AlignedPast DEF Writes
<1>4. \A q \in 1 .. g : tr2[At(q)] = tr[At(q)]
  BY <1>1, <1>2, ReadersExt
<1>5. History(tr2, g)'
  BY <1>3, <1>4 DEF History
<1>6. tr2[At(g)] = tr[At(g)]
  BY <1>1, <1>4
<1> QED
  BY <1>2, <1>3, <1>5, <1>6 DEF Ext

\* Checkpoints and what is durable.
LEMMA CheckpointExt ==
    ASSUME LogInv, LogInv', NEW u, NEW tr, NEW u2, NEW tr2, NEW R, NEW y, NEW m \in Nat,
           Writes(u, tr, u2, tr2, R, y), Len(u) \in Nat,
           NEW x \in Nat, x <= Len(u), Checkpoint(tr, Len(u), m, x)
    PROVE  Checkpoint(tr2, Len(u2), m, x)'
<1>1. /\ Ext(u, tr, u2, tr2, R) /\ Len(u2) \in Nat /\ IsStream(u2, R, tr2)
      /\ tr2 \in [0 .. Len(u2) -> Readers]
  <2>1. Ext(u, tr, u2, tr2, R)
    BY DEF Writes
  <2>2. IsStream(u2, R, tr2)
    BY <2>1 DEF Ext
  <2> QED
    BY <2>1, <2>2 DEF IsStream
<1>2. ASSUME NEW p \in x .. Len(u2) PROVE tr2[p].position >= x
  <2>1. CASE p <= Len(u)
    <3>1. p \in x .. Len(u) /\ p \in 0 .. Len(u)
      BY <2>1
    <3>2. tr2[p] = tr[p] /\ tr[p].position >= x
      BY <3>1, <1>1 DEF Ext, Checkpoint
    <3> QED
      BY <3>2
  <2>2. CASE p > Len(u)
    <3>1. p \in Len(u) + 1 .. Len(u2) /\ p \in 0 .. Len(u2)
      BY <2>2, <1>1
    <3>2. tr2[p].position >= Len(u)
      BY <3>1, <1>1 DEF Ext
    <3>3. tr2[p].position \in Nat
      BY <3>1, <1>1 DEF Readers
    <3> QED
      BY <3>2, <3>3
  <2> QED
    BY <2>1, <2>2, <1>1
<1>3. ASSUME NEW i \in m + 1 .. Len(log'), log'[i].offset < x
      PROVE  log'[i].offset + MutationSize + 1 <= x
  <2>0. Len(log) \in Nat /\ Len(log') \in Nat /\ i \in 1 .. Len(log')
    BY DEF LogInv
  <2>1. CASE i <= Len(log)
    <3>1. i \in m + 1 .. Len(log) /\ i \in 1 .. Len(log)
      BY <2>0, <2>1
    <3>2. log'[i] = log[i]
      BY <3>1 DEF Writes
    <3> QED
      BY <3>1, <3>2, <1>3 DEF Checkpoint
  <2>2. CASE i > Len(log)
    <3>1. i \in Len(log) + 1 .. Len(log')
      BY <2>0, <2>2
    <3>2. log'[i].offset >= Len(u)
      BY <3>1 DEF Writes
    <3>3. log'[i].offset \in Nat
      BY <2>0, EntryOf DEF LogInv
    <3> QED
      BY <3>2, <3>3, <1>3
  <2> QED
    BY <2>0, <2>1, <2>2
<1> QED
  BY <1>2, <1>3 DEF Checkpoint

\* Durable data stays durable when something is written behind it.
LEMMA DurableDataExt ==
    ASSUME LogInv, LogInv', NEW u, NEW tr, NEW u2, NEW tr2, NEW R, NEW y,
           Writes(u, tr, u2, tr2, R, y), Len(u) \in Nat, NEW x \in Nat, x <= Len(u)
    PROVE  /\ DataDurable(x) => DataDurable(x)'
           /\ DataThere(x) => DataThere(x)'
<1>1. /\ Len(log) \in Nat /\ Len(log') \in Nat /\ Len(log) <= Len(log')
      /\ \A i \in 1 .. Len(log) : i \in 1 .. Len(log') /\ log'[i] = log[i]
      /\ \A i \in 1 .. Len(log') : i \in 1 .. Len(log) \/ i \in Len(log) + 1 .. Len(log')
      /\ unstable' = unstable /\ data' = data
  BY DEF LogInv, Writes
<1>2. ASSUME NEW i \in 1 .. Len(log), Freed(i, x) PROVE Freed(i, x)'
  <2>1. PICK k \in i + 1 .. Len(log) : log[k].txn.old = BlockOf(log[i]) /\ log[k].offset < x
    BY <1>2 DEF Freed
  <2>2. k \in 1 .. Len(log) /\ k \in i + 1 .. Len(log')
    BY <1>1
  <2>3. log'[k] = log[k] /\ log'[i] = log[i]
    BY <2>2, <1>1
  <2>4. log'[k].txn.old = BlockOf(log'[i]) /\ log'[k].offset < x
    BY <2>1, <2>3
  <2> QED
    BY <2>2, <2>4 DEF Freed
<1>3. \A i \in Len(log) + 1 .. Len(log') : ~(log'[i].offset < x)
  <2> TAKE i \in Len(log) + 1 .. Len(log')
  <2>1. i \in 1 .. Len(log')
    BY <1>1
  <2>2. log'[i].offset \in Nat
    BY <2>1, EntryOf DEF LogInv
  <2>3. log'[i].offset >= Len(u)
    BY DEF Writes
  <2> QED
    BY <2>2, <2>3
<1>4. ASSUME DataDurable(x) PROVE DataDurable(x)'
  <2> SUFFICES ASSUME NEW i \in 1 .. Len(log'), log'[i].offset < x, BlockOf(log'[i]) # NoBlock
               PROVE  unstable.data[BlockOf(log'[i])] = {log'[i].txn.new.id} \/ Freed(i, x)'
    BY <1>1 DEF DataDurable
  <2>1. i \in 1 .. Len(log) /\ log'[i] = log[i]
    BY <1>1, <1>3
  <2>2. unstable.data[BlockOf(log[i])] = {log[i].txn.new.id} \/ Freed(i, x)
    BY <2>1, <1>4 DEF DataDurable
  <2> QED
    BY <2>1, <2>2, <1>2
<1>5. ASSUME DataThere(x) PROVE DataThere(x)'
  <2> SUFFICES ASSUME NEW i \in 1 .. Len(log'), BlockOf(log'[i]) # NoBlock
               PROVE  data[BlockOf(log'[i])] = log'[i].txn.new.id \/ Freed(i, x)'
    BY <1>1 DEF DataThere
  <2>1. CASE i \in 1 .. Len(log)
    BY <2>1, <1>1, <1>2, <1>5 DEF DataThere
  <2>2. CASE i \in Len(log) + 1 .. Len(log')
    BY <2>2 DEF Writes
  <2> QED
    BY <2>1, <2>2, <1>1
<1> QED
  BY <1>4, <1>5

\* So do the blocks of the journal.
LEMMA JournalExt ==
    ASSUME NEW u, NEW R, NEW tr, NEW g, NEW m, NEW N, NEW v, Aligned(u, R, tr, g, m, N, v),
           LogInv, DeviceInv, InnerType, NEW u2, NEW tr2, NEW y, Writes(u, tr, u2, tr2, R, y),
           NEW x \in Nat, x <= inner.flushed_offset, JournalDurable(u, R, x)
    PROVE  JournalDurable(u2, R, x)'
<1>1. /\ Len(u) \in Nat /\ writer.offset \in Nat /\ writer.offset <= Len(u)
      /\ inner.flushed_offset \in Nat /\ inner.flushed_offset <= writer.offset
  BY AlignedIs
<1> SUFFICES ASSUME NEW i \in Indices, At(i) < x, NEW c \in unstable'.journal[i]
             PROVE  IsChain(c, u2, R, i)
  BY DEF JournalDurable
<1>2. i \in Nat /\ i + 1 \in Nat
  BY SizesAssumption DEF Indices
<1>3. At(i) \in Nat /\ At(i + 1) \in Nat
  BY <1>2, AtNext
<1>4. At(i + 1) <= inner.flushed_offset
  <2>1. At(i) < inner.flushed_offset
    BY <1>1, <1>3
  <2> QED
    BY <2>1, InFlightBehind DEF Aligned
<1>5. At(i + 1) <= Len(u)
  BY <1>1, <1>3, <1>4
<1>6. IsChain(c, u, R, i)
  BY DEF JournalDurable, Writes
<1>7. Ext(u, tr, u2, tr2, R)
  BY DEF Writes
<1> QED
  BY <1>1, <1>2, <1>5, <1>6, <1>7, ChainExt

\* And all that was durable together.
LEMMA DurableExt ==
    ASSUME NEW u, NEW R, NEW tr, NEW g, NEW m, NEW N, NEW v, Aligned(u, R, tr, g, m, N, v),
           LogInv, DeviceInv, InnerType, LogInv', DeviceInv',
           NEW u2, NEW tr2, NEW y, Writes(u, tr, u2, tr2, R, y)
    PROVE  DurableInv(u2, R, tr2, g, m)'
<1>1. PICK d : d = DurableOffset(g)
  OBVIOUS
<1>2. /\ Len(u) \in Nat /\ d \in Nat /\ d <= inner.flushed_offset /\ inner.flushed_offset \in Nat
      /\ inner.flushed_offset <= writer.offset /\ writer.offset <= Len(u) /\ writer.offset \in Nat
      /\ m \in Nat
  BY <1>1, AlignedIs
<1>3. d <= Len(u)
  BY <1>2
<1>4. DurableOffset(g)' = d
  BY <1>1 DEF DurableOffset, Writes
<1>5. /\ JournalDurable(u, R, d) /\ Checkpoint(tr, Len(u), m, d) /\ log[synced + 1].offset < d
      /\ ~mid_block => DataDurable(d) /\ DataThere(d)
  BY <1>1 DEF Aligned, DurableInv
<1>6. JournalDurable(u2, R, d)'
  BY <1>2, <1>5, JournalExt
<1>7. Checkpoint(tr2, Len(u2), m, d)'
  BY <1>2, <1>3, <1>5, CheckpointExt
<1>8. ~mid_block => DataDurable(d)' /\ DataThere(d)'
  BY <1>2, <1>3, <1>5, DurableDataExt
<1>9. synced' = synced /\ log'[synced + 1] = log[synced + 1] /\ mid_block' = mid_block
      /\ inner'.flushed_offset = inner.flushed_offset
  <2>1. synced + 1 \in 1 .. Len(log)
    BY DEF LogInv
  <2> QED
    BY <2>1 DEF Writes
<1> QED
  BY <1>2, <1>4, <1>5, <1>6, <1>7, <1>8, <1>9 DEF DurableInv

\* A sync that is under way.
LEMMA SyncExt ==
    ASSUME NEW u, NEW R, NEW tr, NEW g, NEW m, NEW N, NEW v, Aligned(u, R, tr, g, m, N, v),
           LogInv, DeviceInv, InnerType, SyncType, LogInv', DeviceInv',
           NEW u2, NEW tr2, NEW y, Writes(u, tr, u2, tr2, R, y), syncing' = syncing
    PROVE  SyncInv(u2, R, tr2, g, m)'
<1>1. SyncInv(u, R, tr, g, m)
  BY DEF Aligned
<1>2. CASE syncing = Idle
  BY <1>2 DEF SyncInv
<1>3. CASE syncing # Idle
  <2>1. PICK s : s = syncing.offset
    OBVIOUS
  <2>2. /\ syncing.pc \in {"flushing", "flushed"} /\ s \in At(g) .. Len(u)
        /\ syncing.upto \in Nat /\ syncing.upto + 1 <= Len(log)
        /\ log[syncing.upto + 1].offset < s
        /\ Checkpoint(tr, Len(u), m, s)
        /\ syncing.pc = "flushed" =>
            /\ s <= inner.flushed_offset /\ inner.device_flushed_offset < s
            /\ JournalDurable(u, R, s)
            /\ ~mid_block => DataDurable(s)
    BY <1>1, <1>3, <2>1 DEF SyncInv
  <2>3. Len(u) \in Nat /\ At(g) \in Nat /\ m \in Nat /\ Len(log) \in Nat
    BY AlignedIs
  <2>4. s \in Nat /\ s <= Len(u)
    BY <2>2, <2>3
  <2>5. Checkpoint(tr2, Len(u2), m, s)'
    BY <2>2, <2>3, <2>4, CheckpointExt
  <2>6. syncing.pc = "flushed" => JournalDurable(u2, R, s)'
    BY <2>2, <2>4, JournalExt
  <2>7. syncing.pc = "flushed" => (~mid_block => DataDurable(s)')
    BY <2>2, <2>3, <2>4, DurableDataExt
  <2>8. /\ inner'.flushed_offset = inner.flushed_offset /\ mid_block' = mid_block
        /\ inner'.device_flushed_offset = inner.device_flushed_offset
        /\ Len(log) <= Len(log') /\ Len(log') \in Nat
        /\ log'[syncing.upto + 1] = log[syncing.upto + 1]
    <3>1. syncing.upto + 1 \in 1 .. Len(log)
      BY <2>2, <2>3
    <3> QED
      BY <3>1 DEF Writes, LogInv
  <2>9. syncing.upto + 1 <= Len(log')
    BY <2>2, <2>3, <2>8
  <2>10. s \in At(g) .. Len(u2)
    <3>1. Len(u) <= Len(u2) /\ Len(u2) \in Nat
      <4>1. Ext(u, tr, u2, tr2, R)
        BY DEF Writes
      <4> QED
        BY <4>1 DEF Ext, IsStream
    <3> QED
      BY <3>1, <2>2, <2>3
  <2> QED
    BY <2>1, <2>2, <2>5, <2>6, <2>7, <2>8, <2>9, <2>10 DEF SyncInv
<1> QED
  BY <1>2, <1>3

\* The log is in the stream.
LEMMA LogEnds ==
    ASSUME NEW u, NEW R, NEW tr, NEW g, NEW m, NEW N, NEW v, Aligned(u, R, tr, g, m, N, v),
           LogInv, DeviceInv, InnerType
    PROVE  /\ \A i \in 1 .. Len(log) : log[i].offset < Len(u)
           /\ \A i \in m + 1 .. Len(log) : log[i].offset >= At(g) /\ log[i].offset + MutationSize + 1 <= Len(u)
<1>1. Len(u) \in Nat /\ At(g) \in Nat /\ At(g) <= Len(u) /\ m \in Nat /\ Len(log) \in Nat
  BY AlignedIs
<1>2. \A i \in m + 1 .. Len(log) : log[i].offset >= At(g) /\ log[i].offset + MutationSize + 1 <= Len(u)
  BY DEF Aligned, Timeline
<1>3. ASSUME NEW i \in 1 .. Len(log) PROVE log[i].offset < Len(u)
  <2>1. log[i].offset \in Nat /\ MutationSize \in Nat
    BY LogTxn, SizesAssumption
  <2>2. CASE i <= m
    <3>1. i \in 1 .. m
      BY <2>2, <1>1
    <3>2. log[i].offset < At(g)
      BY <3>1, LogPlaces
    <3> QED
      BY <3>2, <2>1, <1>1
  <2>3. CASE i > m
    <3>1. i \in m + 1 .. Len(log)
      BY <2>3, <1>1
    <3>2. log[i].offset + MutationSize + 1 <= Len(u)
      BY <3>1, <1>2
    <3> QED
      BY <3>2, <2>1, <1>1
  <2> QED
    BY <2>2, <2>3, <1>1
<1> QED
  BY <1>2, <1>3

\* More that is flushed does no harm.
LEMMA TidyRaise ==
    ASSUME NEW r \in Readers, NEW s \in Readers, s.transactions = r.transactions,
           r.flushed <= s.flushed, Tidy(r)
    PROVE  Tidy(s)
<1>1. r.flushed \in Nat /\ s.flushed \in Nat /\ r.transactions \in Seq(Entries)
  BY DEF Readers
<1>2. \A i \in 1 .. Len(r.transactions) :
        r.transactions[i].offset < r.flushed => r.transactions[i].offset < s.flushed
  <2> TAKE i \in 1 .. Len(r.transactions)
  <2>1. r.transactions[i].offset \in Nat
    BY <1>1, EntryOf
  <2> QED
    BY <2>1, <1>1
<1> QED
  BY <1>2 DEF Tidy

\* r has read the whole log.
Full(r) == /\ Len(r.transactions) = Len(log)
           /\ \A i \in 1 .. Len(log) : r.transactions[i] = log[i]

\* replay() at the end of the stream.
LEMMA ResumedIs ==
    ASSUME NEW u, NEW R, NEW tr, NEW g, NEW m, NEW N, NEW v, Aligned(u, R, tr, g, m, N, v),
           LogInv, DeviceInv, InnerType, NEW r0, r0 = Resumed(tr[Len(u)], Len(u), R)
    PROVE  /\ r0 \in Readers /\ tr[Len(u)] \in Readers /\ tr[Len(u)].offset = Len(u)
           /\ r0.offset = Len(u) /\ r0.position = Len(u) /\ r0.current = NoEntry
           /\ r0.flushed = NextFlushed(u, R, tr, g)
           /\ r0.transactions = tr[Len(u)].transactions
           /\ Tidy(r0)
           /\ \A p \in R : p \in Nat /\ p <= At(g)
           /\ inner.discard_offset = NoOffset => Full(r0)
<1>1. /\ Len(u) \in Nat /\ IsStream(u, R, tr) /\ g \in Nat /\ g >= 1 /\ At(g) \in Nat
      /\ At(g) <= Len(u) /\ tr[At(g)] \in Readers /\ tr[At(g)].position = At(g)
      /\ Len(u) <= EndOfFile /\ EndOfFile \in Nat
      /\ m \in Nat /\ m \in 1 .. Len(log) /\ Len(log) \in Nat
  BY AlignedIs
<1>2. ASSUME NEW p \in R PROVE p \in Nat /\ p <= At(g)
  <2>1. PICK a \in 1 .. g : p = At(a)
    BY <1>2 DEF Aligned, ResetsIn
  <2>2. a \in Nat /\ a <= g
    BY <1>1
  <2>3. At(a) \in Nat /\ At(a) <= At(g)
    BY <2>2, <1>1, AtNext, AtMinus
  <2> QED
    BY <2>1, <2>3
<1>3. Timeline(u, R, tr, g, m)
  BY DEF Aligned
<1>4. CASE Len(u) = At(g)
  <2> DEFINE r == tr[At(g)]
  <2>0. g \in 1 .. g
    BY <1>1
  <2>1. Old(r, g)
    BY <2>0 DEF Aligned, History
  <2>2. r.flushed \in Nat /\ r.flushed <= At(g) /\ r.offset = At(g) /\ Tidy(r) /\ r.transactions \in Seq(Entries)
    BY <2>1, <1>1 DEF Old, Readers
  <2>3. /\ r0 \in Readers /\ r0.offset = Len(u) /\ r0.position = Len(u) /\ r0.current = NoEntry
        /\ r0.flushed = NextFlushed(u, R, tr, g) /\ r0.transactions = r.transactions
        /\ r.flushed <= r0.flushed
    <3>1. CASE At(g) \in R
      <4>1. r0 = AtReset(r)
        BY <3>1, <1>4 DEF Resumed
      <4>2. NextFlushed(u, R, tr, g) = At(g)
        BY <3>1, <1>4 DEF NextFlushed
      <4>3. /\ AtReset(r) \in Readers
            /\ AtReset(r).offset = r.offset /\ AtReset(r).position = r.offset
            /\ AtReset(r).transactions = r.transactions /\ AtReset(r).current = NoEntry
            /\ AtReset(r).flushed = IF r.flushed >= r.position THEN r.flushed ELSE r.position
        BY <1>1, AtResetIs
      <4>4. AtReset(r).flushed = At(g)
        BY <4>3, <2>2, <1>1
      <4> QED
        BY <4>1, <4>2, <4>3, <4>4, <2>2, <1>1, <1>4
    <3>2. CASE At(g) \notin R
      <4>1. r0 = r
        BY <3>2, <1>4 DEF Resumed
      <4>2. NextFlushed(u, R, tr, g) = r.flushed
        BY <3>2, <1>4 DEF NextFlushed
      <4>3. r.current = NoEntry
        BY <3>2 DEF Aligned
      <4> QED
        BY <4>1, <4>2, <4>3, <2>2, <1>1, <1>4
    <3> QED
      BY <3>1, <3>2
  <2>4. Tidy(r0)
    BY <2>2, <2>3, <1>1, TidyRaise
  <2>5. ASSUME inner.discard_offset = NoOffset PROVE Full(r0)
    <3>1. Base(r, m, v) /\ Len(log) = m
      BY <1>3, <1>4 DEF Aligned, Timeline
    <3>2. m <= Len(r.transactions) /\ Len(r.transactions) \in Nat
      BY <3>1, <2>2 DEF Base
    <3>3. Len(r.transactions) = m
      <4>1. SUFFICES ASSUME Len(r.transactions) > m PROVE FALSE
        BY <3>2, <1>1
      <4>2. r.transactions[m + 1].offset = NoOffset
        BY <4>1, <2>5, <1>3, <1>4 DEF Timeline
      <4>3. m + 1 \in 1 .. Len(r.transactions)
        BY <4>1, <3>2, <1>1
      <4>4. r.transactions[m + 1].offset < At(g) /\ r.transactions[m + 1].offset \in Nat
        BY <4>3, <2>1, <2>2, <1>1, EntryOf DEF Old
      <4> QED
        BY <4>2, <4>4, <1>1, Constants
    <3> QED
      BY <3>1, <3>3, <2>3 DEF Base, Full
  <2> QED
    BY <1>2, <1>4, <2>2, <2>3, <2>4, <2>5, <1>1
<1>5. CASE Len(u) # At(g)
  <2> DEFINE r == tr[Len(u)]
  <2>1. Len(u) \notin R /\ Len(u) \in At(g) + 1 .. Len(u) /\ Len(u) \in 0 .. Len(u) /\ Len(u) > At(g)
    BY <1>1, <1>2, <1>5
  <2>2. r0 = r /\ r \in Readers
    BY <2>1, <1>1 DEF Resumed, IsStream
  <2>3. Recent(r, Len(u), R, g, m) /\ r.position = Len(u) /\ r.current = NoEntry
    BY <2>1, <1>3 DEF Timeline
  <2>4. NextFlushed(u, R, tr, g) = r.flushed
    BY <1>5 DEF NextFlushed
  <2>5. Full(r)
    <3>1. /\ Len(r.transactions) <= Len(log) /\ m <= Len(r.transactions)
          /\ \A i \in 1 .. Len(r.transactions) : r.transactions[i] = log[i]
          /\ \A i \in m + 1 .. Len(log) : i <= Len(r.transactions) <=> log[i].offset + MutationSize + 1 <= Len(u)
      BY <2>3 DEF Recent
    <3>2. Len(r.transactions) \in Nat
      BY <2>2 DEF Readers
    <3>3. Len(log) <= Len(r.transactions)
      <4>1. CASE Len(log) = m
        BY <4>1, <3>1
      <4>2. CASE Len(log) # m
        <5>1. Len(log) \in m + 1 .. Len(log)
          BY <4>2, <1>1
        <5>2. log[Len(log)].offset + MutationSize + 1 <= Len(u)
          BY <5>1, <1>3 DEF Timeline
        <5> QED
          BY <5>1, <5>2, <3>1
      <4> QED
        BY <4>1, <4>2
    <3> QED
      BY <3>1, <3>2, <3>3, <1>1 DEF Full
  <2> HIDE DEF r
  <2> QED
    BY <1>2, <2>2, <2>3, <2>4, <2>5 DEF Recent, r
<1> QED
  BY <1>4, <1>5

\* A reader behind the end of the stream u.
New(r, p, u, R, tr, g) ==
    /\ r \in Readers /\ r.offset = p
    /\ Len(u) <= r.position /\ r.position <= p /\ p < r.position + BlockSize
    /\ NextFlushed(u, R, tr, g) <= r.flushed /\ r.flushed <= DurableOffset(g)
    /\ Tidy(r)

\* It belongs to this mount.
LEMMA RecentNew ==
    ASSUME NEW u, NEW R, NEW tr, NEW g, NEW m, NEW N, NEW v, Aligned(u, R, tr, g, m, N, v),
           LogInv, DeviceInv, InnerType, LogInv',
           inner'.device_flushed_offset = inner.device_flushed_offset,
           NEW p \in Nat, NEW r, New(r, p, u, R, tr, g), Full(r),
           Len(log) <= Len(log'), \A i \in 1 .. Len(log) : log'[i] = log[i],
           \A i \in Len(log) + 1 .. Len(log') : log'[i].offset + MutationSize + 1 > p
    PROVE  Recent(r, p, R, g, m)'
<1>1. /\ Len(u) \in Nat /\ At(g) \in Nat /\ At(g) <= Len(u) /\ m \in Nat /\ m \in 1 .. Len(log)
      /\ Len(log) \in Nat /\ DurableOffset(g) \in Nat /\ DurableOffset(g) <= inner.flushed_offset
      /\ inner.flushed_offset \in Nat /\ inner.flushed_offset <= writer.offset
      /\ writer.offset \in Nat /\ writer.offset <= Len(u)
  BY AlignedIs
<1>2. /\ NextFlushed(u, R, tr, g) \in Nat /\ Floor(R, g) \in Nat
      /\ Floor(R, g) <= NextFlushed(u, R, tr, g)
  BY NextFlushedIs
<1>3. DurableOffset(g)' = DurableOffset(g)
  BY DEF DurableOffset
<1>4. r.position \in Nat /\ r.flushed \in Nat
  BY DEF New, Readers
<1>5. /\ r.offset = p /\ Len(u) <= r.position /\ r.position <= p /\ p < r.position + BlockSize
      /\ NextFlushed(u, R, tr, g) <= r.flushed /\ r.flushed <= DurableOffset(g) /\ Tidy(r)
  BY DEF New
<1>6. At(g) <= r.position /\ Floor(R, g) <= r.flushed /\ r.flushed <= r.position
  BY <1>1, <1>2, <1>4, <1>5, SMTT(20)
<1>7. Len(log') \in Nat
  BY DEF LogInv
<1>8. \A i \in 1 .. Len(log) : log'[i].offset < r.position
  <2> TAKE i \in 1 .. Len(log)
  <2>1. log[i].offset \in Nat /\ log[i].offset < Len(u)
    BY LogTxn, LogEnds
  <2> QED
    BY <2>1, <1>1, <1>4, <1>5
<1>9. ASSUME NEW i \in m + 1 .. Len(log')
      PROVE  i <= Len(log) <=> log'[i].offset + MutationSize + 1 <= p
  <2>0. log'[i].offset \in Nat /\ MutationSize \in Nat
    <3>1. i \in 1 .. Len(log') /\ MutationSize \in Nat
      BY <1>1, <1>7, SizesAssumption
    <3> QED
      BY <3>1, EntryOf DEF LogInv
  <2>1. CASE i <= Len(log)
    <3>1. i \in m + 1 .. Len(log) /\ i \in 1 .. Len(log)
      BY <2>1, <1>1
    <3>2. log'[i] = log[i] /\ log[i].offset + MutationSize + 1 <= Len(u)
      BY <3>1, LogEnds
    <3> DEFINE x == log[i].offset
    <3>3. x \in Nat /\ x + MutationSize + 1 <= Len(u) /\ log'[i].offset = x
      BY <3>2, <2>0
    <3> HIDE DEF x
    <3>4. x + MutationSize + 1 <= p
      BY <3>3, <2>0, <1>1, <1>4, <1>5
    <3> QED
      BY <2>1, <3>3, <3>4
  <2>2. CASE i > Len(log)
    <3>1. i \in Len(log) + 1 .. Len(log')
      BY <2>2, <1>1, <1>7
    <3>2. log'[i].offset + MutationSize + 1 > p
      BY <3>1
    <3> QED
      BY <2>0, <2>2, <3>2, <1>1, <1>7
  <2> QED
    BY <2>1, <2>2, <1>1
<1>10. /\ Len(r.transactions) = Len(log)
       /\ \A i \in 1 .. Len(log) : r.transactions[i] = log'[i]
  BY DEF Full
<1>11. m <= Len(r.transactions) /\ Len(r.transactions) <= Len(log')
  BY <1>1, <1>10
<1> QED
  BY <1>3, <1>5, <1>6, <1>8, <1>9, <1>10, <1>11 DEF Recent

\* u1 continues the stream u with the units y of the records S, and x is
\* replay()'s state behind it.  Up to the last record it has read the log.
Stage(u, R, tr, g, u1, tr1, y, x, S) ==
    /\ IsStream(u1, R, tr1)
    /\ y \in Seq(AllUnits) /\ Len(u1) = Len(u) + Len(y)
    /\ \A j \in 1 .. Len(u) : u1[j] = u[j]
    /\ \A j \in 1 .. Len(y) : u1[Len(u) + j] = y[j] /\ y[j].record \in S
    /\ \A p \in 0 .. Len(u) : tr1[p] = tr[p]
    /\ x = Resumed(tr1[Len(u1)], Len(u1), R) /\ (Len(y) > 0 => x = tr1[Len(u1)])
    /\ tr1[Len(u1)].offset = Len(u1)
    /\ New(x, Len(u1), u, R, tr, g) /\ x.position = Len(u1)
    /\ \A p \in Len(u) + 1 .. Len(u1) : New(tr1[p], p, u, R, tr, g)
    /\ \A p \in Len(u) + 1 .. Len(u1) - 1 : Full(tr1[p])
    /\ \A p, s \in Len(u) + 1 .. Len(u1) :
         p <= s => tr1[p].flushed <= tr1[s].flushed /\ tr1[p].position <= tr1[s].position

\* Nothing is written.
LEMMA StageStart ==
    ASSUME NEW u, NEW R, NEW tr, NEW g, NEW m, NEW N, NEW v, Aligned(u, R, tr, g, m, N, v),
           LogInv, DeviceInv, InnerType, NEW r0, r0 = Resumed(tr[Len(u)], Len(u), R)
    PROVE  Stage(u, R, tr, g, u, tr, <<>>, r0, {})
<1>1. /\ Len(u) \in Nat /\ IsStream(u, R, tr) /\ BlockSize \in Nat /\ BlockSize >= 3
      /\ DurableOffset(g) \in Nat
  BY AlignedIs
<1>2. /\ r0 \in Readers /\ tr[Len(u)].offset = Len(u)
      /\ r0.offset = Len(u) /\ r0.position = Len(u)
      /\ r0.flushed = NextFlushed(u, R, tr, g) /\ Tidy(r0)
  BY ResumedIs
<1>3. NextFlushed(u, R, tr, g) \in Nat /\ NextFlushed(u, R, tr, g) <= DurableOffset(g)
  BY NextFlushedIs
<1>4. New(r0, Len(u), u, R, tr, g)
  BY <1>1, <1>2, <1>3 DEF New
<1>5. <<>> \in Seq(AllUnits) /\ Len(<<>>) = 0 /\ Len(u) = Len(u) + Len(<<>>)
  BY <1>1
<1>6. \A p \in Len(u) + 1 .. Len(u) : FALSE
  BY <1>1
<1>7. \A p \in Len(u) + 1 .. Len(u) - 1 : FALSE
  BY <1>1
<1>8. \A p \in 1 .. 0 : FALSE
  OBVIOUS
<1> QED
  BY <1>1, <1>2, <1>4, <1>5, <1>6, <1>7, <1>8 DEF Stage

\* One more record.
LEMMA StageRecord ==
    ASSUME NEW u, NEW R, NEW tr, NEW g, NEW u1, NEW tr1, NEW y, NEW x, NEW S,
           Stage(u, R, tr, g, u1, tr1, y, x, S), Len(u) \in Nat,
           NextFlushed(u, R, tr, g) \in Nat, DurableOffset(g) \in Nat,
           \A p \in R : p \in Nat /\ p <= Len(u),
           NEW rec \in Records, Size(rec) \in 1 .. BlockSize,
           NEW a \in Readers, a = AtRecord(x, rec), a.transactions \in Seq(Entries),
           x.flushed <= a.flushed, a.flushed <= DurableOffset(g), Tidy(a),
           Full(x) \/ (Len(y) = 0 /\ Size(rec) = 1)
    PROVE  \E u2, tr2 :
             Stage(u, R, tr, g, u2, tr2, y \o Units(rec), Past(x, rec, Len(u1) + Size(rec)), S \cup {rec})
<1> DEFINE L == Len(u)
           K == Len(u1)
           z == Size(rec)
<1>0. L \in Nat /\ z \in Nat /\ z >= 1 /\ z <= BlockSize /\ BlockSize \in Nat /\ BlockSize >= 3
  BY SizesAssumption
<1>1. /\ IsStream(u1, R, tr1) /\ u1 \in Seq(AllUnits) /\ K \in Nat
      /\ y \in Seq(AllUnits) /\ K = L + Len(y) /\ Len(y) \in Nat /\ L <= K
      /\ tr1 \in [0 .. K -> Readers]
  <2>1. IsStream(u1, R, tr1) /\ y \in Seq(AllUnits) /\ K = L + Len(y)
    BY DEF Stage
  <2>2. u1 \in Seq(AllUnits) /\ tr1 \in [0 .. K -> Readers]
    BY <2>1 DEF IsStream
  <2> QED
    BY <2>1, <2>2, <1>0
<1>2. /\ x = Resumed(tr1[K], K, R) /\ (Len(y) > 0 => x = tr1[K])
      /\ tr1[K].offset = K
      /\ New(x, K, u, R, tr, g) /\ x.position = K
  BY DEF Stage
<1>3. /\ x \in Readers /\ x.offset = K /\ x.flushed \in Nat /\ NextFlushed(u, R, tr, g) <= x.flushed
      /\ x.flushed <= DurableOffset(g) /\ Tidy(x) /\ a.flushed \in Nat
  BY <1>2 DEF New, Readers
<1>4. \A p \in R : p \in Nat /\ p <= K
  BY <1>0, <1>1
<1>4a. /\ IsStream(u1, R, tr1) /\ tr1[Len(u1)].offset = Len(u1)
       /\ \A p \in R : p \in Nat /\ p <= Len(u1)
       /\ Size(rec) \in Nat /\ Size(rec) >= 1
       /\ x \in Readers /\ x = Resumed(tr1[Len(u1)], Len(u1), R) /\ AtRecord(x, rec) \in Readers
  BY <1>0, <1>1, <1>2, <1>3, <1>4
<1> HIDE DEF L, K, z
<1>4b. PICK u2, tr2 : Appends(u1, R, tr1, rec, x, u2, tr2)
  BY <1>4a, AppendRecord
<1>5. /\ IsStream(u2, R, tr2)
      /\ u2 = u1 \o Units(rec)
      /\ Len(u2) = K + z
      /\ \A j \in 1 .. K : u2[j] = u1[j]
      /\ \A j \in 1 .. z : u2[K + j] = [part |-> j, record |-> rec]
      /\ \A p \in 0 .. K : tr2[p] = tr1[p]
      /\ \A p \in K + 1 .. Len(u2) - 1 : tr2[p] = Within(x, p)
      /\ tr2[Len(u2)] = Past(x, rec, Len(u2))
  BY <1>4b DEF Appends, K, z
<1>6. /\ Units(rec) \in Seq(AllUnits) /\ Len(Units(rec)) = z
      /\ \A i \in 1 .. z : Units(rec)[i] = [part |-> i, record |-> rec]
  BY <1>0, UnitsIs DEF z
<1> DEFINE y2 == y \o Units(rec)
           x2 == Past(x, rec, K + z)
           T == S \cup {rec}
<1>7. /\ y2 \in Seq(AllUnits) /\ Len(y2) = Len(y) + z
      /\ \A j \in 1 .. Len(y) + z : y2[j] = IF j <= Len(y) THEN y[j] ELSE Units(rec)[j - Len(y)]
  BY <1>1, <1>6, ConcatIs
<1> HIDE DEF y2
<1>8. Len(u2) = L + Len(y2) /\ Len(y2) > 0 /\ Len(u2) \in Nat /\ Len(u2) > K /\ Len(y2) \in Nat
  BY <1>0, <1>1, <1>5, <1>7
<1>9. \A j \in 1 .. L : u2[j] = u[j]
  <2> TAKE j \in 1 .. L
  <2>1. j \in 1 .. K
    BY <1>0, <1>1
  <2>2. u1[j] = u[j]
    BY DEF Stage, L
  <2> QED
    BY <2>1, <2>2, <1>5
<1>10. \A j \in 1 .. Len(y2) : u2[L + j] = y2[j] /\ y2[j].record \in T
  <2> TAKE j \in 1 .. Len(y2)
  <2>0. j \in 1 .. Len(y) + z
    BY <1>7
  <2>1. CASE j <= Len(y)
    <3>1. j \in 1 .. Len(y) /\ L + j \in 1 .. K
      BY <2>1, <2>0, <1>0, <1>1
    <3>2. u1[L + j] = y[j] /\ y[j].record \in S
      BY <3>1 DEF Stage, L
    <3>3. u2[L + j] = u1[L + j]
      BY <3>1, <1>5
    <3>4. y2[j] = y[j]
      BY <2>0, <2>1, <1>7
    <3> QED
      BY <3>2, <3>3, <3>4
  <2>2. CASE j > Len(y)
    <3>0. j - Len(y) \in 1 .. z /\ K + (j - Len(y)) = L + j /\ ~(j <= Len(y))
      BY <2>2, <2>0, <1>0, <1>1
    <3>1. PICK i : i = j - Len(y)
      OBVIOUS
    <3>2. i \in 1 .. z /\ K + i = L + j
      BY <3>0, <3>1
    <3>3. u2[L + j] = [part |-> i, record |-> rec]
      BY <3>2, <1>5
    <3>4. y2[j] = Units(rec)[i]
      BY <2>0, <3>0, <3>1, <1>7
    <3>5. y2[j] = [part |-> i, record |-> rec]
      BY <3>4, <3>2, <1>6
    <3> QED
      BY <3>3, <3>5
  <2> QED
    BY <2>0, <2>1, <2>2, <1>0, <1>1
<1>11. \A p \in 0 .. L : tr2[p] = tr[p]
  <2> TAKE p \in 0 .. L
  <2>1. p \in 0 .. K
    BY <1>0, <1>1
  <2>2. tr1[p] = tr[p]
    BY DEF Stage, L
  <2> QED
    BY <2>1, <2>2, <1>5
<1>12. tr2[Len(u2)] = x2 /\ x2 = [a EXCEPT !.offset = K + z, !.position = K + z]
  BY <1>5 DEF Past
<1>13. /\ x2 \in Readers /\ x2.offset = Len(u2) /\ x2.position = Len(u2)
       /\ x2.flushed = a.flushed /\ x2.transactions = a.transactions
  <2>1. K + z \in Nat
    BY <1>0, <1>1
  <2> QED
    BY <2>1, <1>12, <1>5 DEF Readers
<1>14. Tidy(x2)
  BY <1>13 DEF Tidy
<1> HIDE DEF x2
<1>15. x2 = Resumed(tr2[Len(u2)], Len(u2), R)
  <2>1. Len(u2) \notin R
    BY <1>4, <1>8, <1>1
  <2> QED
    BY <2>1, <1>12 DEF Resumed
<1>16. New(x2, Len(u2), u, R, tr, g)
  <2>1. Len(u) <= x2.position /\ x2.position <= Len(u2) /\ Len(u2) < x2.position + BlockSize
    BY <1>13, <1>8, <1>1, <1>0 DEF L
  <2>2. NextFlushed(u, R, tr, g) <= x2.flushed /\ x2.flushed <= DurableOffset(g)
    BY <1>13, <1>3
  <2> QED
    BY <2>1, <2>2, <1>13, <1>14 DEF New
<1>17. ASSUME NEW p \in K + 1 .. Len(u2) - 1
       PROVE  /\ tr2[p] \in Readers /\ tr2[p].offset = p /\ tr2[p].position = K /\ tr2[p].flushed = x.flushed
              /\ tr2[p].transactions = x.transactions
  <2>1. tr2[p] = Within(x, p) /\ p \in Nat
    BY <1>5, <1>1
  <2>2. x.position = K
    BY <1>2
  <2> QED
    BY <2>1, <2>2, <1>3 DEF Within, Readers
<1>18. \A p \in L + 1 .. Len(u2) : p \in L + 1 .. K \/ p \in K + 1 .. Len(u2) - 1 \/ p = Len(u2)
  <2>1. L \in Nat /\ K \in Nat /\ Len(u2) \in Nat /\ L <= K /\ K < Len(u2)
    BY <1>0, <1>1, <1>8
  <2> QED
    BY <2>1
<1>19. ASSUME NEW p \in L + 1 .. Len(u2) PROVE New(tr2[p], p, u, R, tr, g)
  <2>1. CASE p \in L + 1 .. K
    <3>1. New(tr1[p], p, u, R, tr, g)
      BY <2>1 DEF Stage, L, K
    <3>2. p \in 0 .. K
      BY <2>1, <1>0, <1>1
    <3> QED
      BY <3>1, <3>2, <1>5
  <2>2. CASE p \in K + 1 .. Len(u2) - 1
    <3>1. /\ tr2[p] \in Readers /\ tr2[p].offset = p /\ tr2[p].position = K /\ tr2[p].flushed = x.flushed
          /\ tr2[p].transactions = x.transactions
      BY <2>2, <1>17
    <3>2. K <= p /\ p < K + BlockSize
      BY <2>2, <1>0, <1>1, <1>5
    <3>3. Tidy(tr2[p])
      BY <3>1, <1>3 DEF Tidy
    <3>4. Len(u) <= K
      BY <1>1 DEF L
    <3> QED
      BY <3>1, <3>2, <3>3, <3>4, <1>3 DEF New
  <2>3. CASE p = Len(u2)
    BY <2>3, <1>16, <1>12
  <2> QED
    BY <2>1, <2>2, <2>3, <1>18
<1>20. ASSUME NEW p \in L + 1 .. Len(u2) - 1 PROVE Full(tr2[p])
  <2>0. p \in L + 1 .. K - 1 \/ p = K \/ p \in K + 1 .. Len(u2) - 1
    BY <1>0, <1>1, <1>8
  <2>1. CASE p \in L + 1 .. K - 1
    <3>1. Full(tr1[p])
      BY <2>1 DEF Stage, L, K
    <3>2. p \in 0 .. K
      BY <2>1, <1>0, <1>1
    <3> QED
      BY <3>1, <3>2, <1>5
  <2>2. CASE p = K
    <3>1. Len(y) > 0 /\ Len(y) # 0
      BY <2>2, <1>0, <1>1
    <3>2. x = tr1[K] /\ Full(x) /\ K \in 0 .. K
      BY <3>1, <1>2, <1>1
    <3> QED
      BY <2>2, <3>2, <1>5
  <2>3. CASE p \in K + 1 .. Len(u2) - 1
    <3>1. z # 1
      BY <2>3, <1>0, <1>1, <1>5
    <3>2. Full(x)
      BY <3>1 DEF z
    <3> QED
      BY <3>2, <2>3, <1>17 DEF Full
  <2> QED
    BY <2>0, <2>1, <2>2, <2>3
<1>21. ASSUME NEW p \in L + 1 .. Len(u2), NEW s \in L + 1 .. Len(u2), p <= s
       PROVE  tr2[p].flushed <= tr2[s].flushed /\ tr2[p].position <= tr2[s].position
  <2>1. ASSUME NEW q \in L + 1 .. K
        PROVE  tr2[q] = tr1[q] /\ tr2[q].flushed <= x.flushed /\ tr2[q].position <= K
               /\ tr2[q].flushed \in Nat /\ tr2[q].position \in Nat
    <3>1. q \in 0 .. K /\ K \in L + 1 .. K /\ q <= K /\ Len(y) > 0
      BY <1>0, <1>1
    <3>2. tr1[q].flushed <= tr1[K].flushed /\ tr1[q].position <= tr1[K].position
      BY <3>1 DEF Stage, L, K
    <3>3. tr1[q] \in Readers
      BY <3>1, <1>1
    <3> QED
      BY <3>1, <3>2, <3>3, <1>2, <1>5 DEF Readers
  <2>2. x2.flushed \in Nat /\ x.flushed <= x2.flushed /\ x2.position = Len(u2) /\ K <= Len(u2)
    BY <1>13, <1>3, <1>8, <1>1
  <2>3. CASE p \in L + 1 .. K
    <3>1. CASE s \in L + 1 .. K
      <4>1. tr1[p].flushed <= tr1[s].flushed /\ tr1[p].position <= tr1[s].position
        BY <1>21, <2>3, <3>1 DEF Stage, L, K
      <4> QED
        BY <4>1, <2>1, <2>3, <3>1
    <3>2. CASE s \in K + 1 .. Len(u2) - 1
      BY <2>3, <3>2, <2>1, <1>17
    <3>3. CASE s = Len(u2)
      <4>1. tr2[p].flushed <= x.flushed /\ tr2[p].position <= K /\ tr2[p].flushed \in Nat /\ tr2[p].position \in Nat
        BY <2>1, <2>3
      <4>2. tr2[s] = x2
        BY <3>3, <1>12
      <4> QED
        BY <4>1, <4>2, <2>2, <1>3, <1>8, <1>1, SMTT(30)
    <3> QED
      BY <3>1, <3>2, <3>3, <1>18
  <2>4. CASE p \in K + 1 .. Len(u2) - 1
    <3>a. K \in Nat /\ Len(u2) \in Nat /\ s \in Nat /\ s <= Len(u2) /\ p <= s
      BY <1>21, <1>0, <1>1, <1>8
    <3>0. s \in K + 1 .. Len(u2) - 1 \/ s = Len(u2)
      BY <2>4, <3>a
    <3>1. CASE s \in K + 1 .. Len(u2) - 1
      BY <3>1, <2>4, <1>17, <1>3, <1>1, SMTT(20)
    <3>2. CASE s = Len(u2)
      BY <3>2, <2>4, <1>17, <1>12, <2>2
    <3> QED
      BY <3>0, <3>1, <3>2
  <2>5. CASE p = Len(u2)
    <3>1. s = p
      BY <2>5, <1>21, <1>0, <1>8
    <3> QED
      BY <3>1, <2>5, <1>12, <2>2, <1>8
  <2> QED
    BY <2>3, <2>4, <2>5, <1>18
<1>22. tr2[Len(u2)].offset = Len(u2)
  BY <1>12, <1>13
<1>23. /\ \A p \in L + 1 .. Len(u2) : New(tr2[p], p, u, R, tr, g)
       /\ \A p \in L + 1 .. Len(u2) - 1 : Full(tr2[p])
       /\ \A p, s \in L + 1 .. Len(u2) :
            p <= s => tr2[p].flushed <= tr2[s].flushed /\ tr2[p].position <= tr2[s].position
  BY <1>19, <1>20, <1>21
<1>24. Stage(u, R, tr, g, u2, tr2, y2, x2, T)
  <2> HIDE DEF T
  <2> QED
    BY <1>5, <1>7, <1>8, <1>9, <1>10, <1>11, <1>12, <1>13, <1>15, <1>16, <1>22, <1>23 DEF Stage, L
<1> QED
  BY <1>24 DEF y2, x2, T, K, z

\* The log may have grown by what was just read.
Longer(o) ==
    /\ Len(log) <= Len(log') /\ \A i \in 1 .. Len(log) : log'[i] = log[i]
    /\ \A i \in Len(log) + 1 .. Len(log') : log'[i].offset >= o

\* A reader at the end of the new stream.
LEMMA RecentLast ==
    ASSUME NEW u, NEW R, NEW tr, NEW g, NEW m, NEW N, NEW v, Aligned(u, R, tr, g, m, N, v),
           LogInv, DeviceInv, InnerType, LogInv',
           inner'.device_flushed_offset = inner.device_flushed_offset,
           NEW p \in Nat, NEW x, New(x, p, u, R, tr, g), x.position = p, Full(x)', Longer(Len(u)),
           \A i \in Len(log) + 1 .. Len(log') : log'[i].offset + MutationSize + 1 <= p
    PROVE  Recent(x, p, R, g, m)'
<1>1. /\ Len(u) \in Nat /\ At(g) \in Nat /\ At(g) <= Len(u) /\ m \in Nat /\ m \in 1 .. Len(log)
      /\ Len(log) \in Nat /\ DurableOffset(g) \in Nat /\ DurableOffset(g) <= inner.flushed_offset
      /\ inner.flushed_offset \in Nat /\ inner.flushed_offset <= writer.offset
      /\ writer.offset \in Nat /\ writer.offset <= Len(u) /\ BlockSize \in Nat /\ BlockSize >= 3
  BY AlignedIs
<1>2. /\ NextFlushed(u, R, tr, g) \in Nat /\ Floor(R, g) \in Nat
      /\ Floor(R, g) <= NextFlushed(u, R, tr, g)
  BY NextFlushedIs
<1>3. DurableOffset(g)' = DurableOffset(g)
  BY DEF DurableOffset
<1>4. x.position \in Nat /\ x.flushed \in Nat
  BY DEF New, Readers
<1>5. /\ x.offset = p /\ Len(u) <= x.position /\ x.position <= p /\ p < x.position + BlockSize
      /\ NextFlushed(u, R, tr, g) <= x.flushed /\ x.flushed <= DurableOffset(g) /\ Tidy(x)
  BY DEF New
<1>6. At(g) <= x.position /\ Floor(R, g) <= x.flushed /\ x.flushed <= x.position
  BY <1>1, <1>2, <1>4, <1>5, SMTT(20)
<1>7. Len(log') \in Nat /\ Len(log) <= Len(log')
  BY DEF LogInv, Longer
<1>8. ASSUME NEW i \in 1 .. Len(log')
      PROVE  log'[i].offset < p /\ (i > m => log'[i].offset + MutationSize + 1 <= p)
  <2>0. log'[i].offset \in Nat /\ MutationSize \in Nat
    BY SizesAssumption, EntryOf DEF LogInv
  <2>1. CASE i \in 1 .. Len(log)
    <3>1. log'[i] = log[i] /\ log[i].offset < Len(u)
      BY <2>1, LogEnds DEF Longer
    <3>2. i > m => log[i].offset + MutationSize + 1 <= Len(u)
      <4>1. i > m => i \in m + 1 .. Len(log)
        BY <2>1, <1>1
      <4> QED
        BY <4>1, LogEnds
    <3> DEFINE o == log[i].offset
    <3>3. o \in Nat /\ o < Len(u) /\ (i > m => o + MutationSize + 1 <= Len(u)) /\ log'[i].offset = o
      BY <3>1, <3>2, <2>0
    <3> HIDE DEF o
    <3> QED
      BY <3>3, <2>0, <1>1, <1>4, <1>5
  <2>2. CASE i \in Len(log) + 1 .. Len(log')
    <3>1. log'[i].offset + MutationSize + 1 <= p
      BY <2>2
    <3> QED
      BY <3>1, <2>0
  <2> QED
    BY <2>1, <2>2, <1>1, <1>7
<1>10. /\ Len(x.transactions) = Len(log')
       /\ \A i \in 1 .. Len(log') : x.transactions[i] = log'[i]
  BY DEF Full
<1>11. m <= Len(x.transactions) /\ Len(x.transactions) <= Len(log')
  BY <1>1, <1>7, <1>10
<1>12. \A i \in m + 1 .. Len(log') : i <= Len(x.transactions) <=> log'[i].offset + MutationSize + 1 <= p
  <2> TAKE i \in m + 1 .. Len(log')
  <2>1. i \in 1 .. Len(log') /\ i > m /\ i <= Len(log')
    BY <1>1, <1>7
  <2> QED
    BY <2>1, <1>8, <1>10
<1>13. \A i \in 1 .. Len(x.transactions) : x.transactions[i] = log'[i] /\ x.transactions[i].offset < x.position
  BY <1>8, <1>10
<1> QED
  BY <1>3, <1>5, <1>6, <1>11, <1>12, <1>13 DEF Recent

\* The readers of this mount, with those of what it has just written.
LEMMA TimelineExt ==
    ASSUME NEW u, NEW R, NEW tr, NEW g, NEW m, NEW N, NEW v, Aligned(u, R, tr, g, m, N, v),
           LogInv, DeviceInv, InnerType, LogInv',
           inner'.device_flushed_offset = inner.device_flushed_offset,
           inner'.discard_offset = NoOffset,
           NEW u2, NEW tr2, NEW y, NEW x, NEW S, Stage(u, R, tr, g, u2, tr2, y, x, S), Len(y) > 0,
           x.current = NoEntry, Full(x)', Longer(Len(u)),
           \A i \in Len(log) + 1 .. Len(log') : log'[i].offset + MutationSize + 1 = Len(u2)
    PROVE  Timeline(u2, R, tr2, g, m)'
<1>1. /\ Len(u) \in Nat /\ At(g) \in Nat /\ At(g) <= Len(u) /\ m \in Nat /\ m \in 1 .. Len(log)
      /\ Len(log) \in Nat /\ IsStream(u, R, tr) /\ MutationSize \in Nat
  BY AlignedIs, SizesAssumption
<1>2. Timeline(u, R, tr, g, m)
  BY DEF Aligned
<1>3. /\ NextFlushed(u, R, tr, g) \in Nat /\ tr[Len(u)] \in Readers
      /\ tr[Len(u)].flushed <= NextFlushed(u, R, tr, g)
  BY NextFlushedIs
<1>4. tr[Len(u)].position = Len(u)
  <2>1. CASE Len(u) = At(g)
    BY <2>1, AlignedIs
  <2>2. CASE Len(u) > At(g)
    BY <2>2, <1>2 DEF Timeline
  <2> QED
    BY <2>1, <2>2, <1>1
<1>5. Len(log') \in Nat /\ Len(log) <= Len(log') /\ \A i \in 1 .. Len(log) : log'[i] = log[i]
  BY DEF LogInv, Longer
<1>6. /\ IsStream(u2, R, tr2) /\ Len(u2) \in Nat /\ Len(u2) > Len(u) /\ tr2 \in [0 .. Len(u2) -> Readers]
      /\ x = tr2[Len(u2)] /\ x.position = Len(u2)
  <2>1. IsStream(u2, R, tr2) /\ y \in Seq(AllUnits) /\ Len(u2) = Len(u) + Len(y)
    BY DEF Stage
  <2>2. x = tr2[Len(u2)] /\ x.position = Len(u2)
    BY DEF Stage
  <2>3. tr2 \in [0 .. Len(u2) -> Readers]
    BY <2>1 DEF IsStream
  <2> QED
    BY <2>1, <2>2, <2>3, <1>1
<1>7. \A p \in 0 .. Len(u) : tr2[p] = tr[p]
  BY DEF Stage
<1>8. \A p \in Len(u) + 1 .. Len(u2) : New(tr2[p], p, u, R, tr, g)
  BY DEF Stage
<1>9. ASSUME NEW i \in Len(log) + 1 .. Len(log')
      PROVE  log'[i].offset \in Nat /\ log'[i].offset >= Len(u) /\ log'[i].offset + MutationSize + 1 = Len(u2)
  <2>1. i \in 1 .. Len(log')
    BY <1>1, <1>5
  <2>2. log'[i].offset \in Nat
    BY <2>1, EntryOf DEF LogInv
  <2> QED
    BY <2>2 DEF Longer
<1>10. ASSUME NEW p \in At(g) + 1 .. Len(u) PROVE Recent(tr2[p], p, R, g, m)'
  <2> DEFINE r == tr[p]
  <2>0. p \in 0 .. Len(u) /\ p \in Nat /\ p <= Len(u)
    BY <1>1
  <2>1. tr2[p] = r /\ Recent(r, p, R, g, m) /\ r \in Readers
    <3>1. r \in Readers
      BY <2>0, <1>1 DEF IsStream
    <3> QED
      BY <3>1, <2>0, <1>2, <1>7 DEF Timeline
  <2> HIDE DEF r
  <2>2. DurableOffset(g)' = DurableOffset(g)
    BY DEF DurableOffset
  <2>3. /\ m <= Len(r.transactions) /\ Len(r.transactions) <= Len(log) /\ Len(r.transactions) \in Nat
        /\ \A i \in 1 .. Len(r.transactions) :
             r.transactions[i] = log[i] /\ r.transactions[i].offset < r.position
        /\ \A i \in m + 1 .. Len(log) : i <= Len(r.transactions) <=> log[i].offset + MutationSize + 1 <= p
    BY <2>1 DEF Recent, Readers
  <2>4. \A i \in 1 .. Len(r.transactions) :
             r.transactions[i] = log'[i] /\ r.transactions[i].offset < r.position
    <3> TAKE i \in 1 .. Len(r.transactions)
    <3>1. i \in 1 .. Len(log)
      BY <2>3, <1>1
    <3> QED
      BY <3>1, <2>3, <1>5
  <2>5. \A i \in m + 1 .. Len(log') : i <= Len(r.transactions) <=> log'[i].offset + MutationSize + 1 <= p
    <3> TAKE i \in m + 1 .. Len(log')
    <3>1. CASE i \in m + 1 .. Len(log)
      <4>1. i \in 1 .. Len(log)
        BY <3>1, <1>1
      <4> QED
        BY <3>1, <4>1, <2>3, <1>5
    <3>2. CASE i \in Len(log) + 1 .. Len(log')
      <4>1. log'[i].offset \in Nat /\ log'[i].offset >= Len(u)
        BY <3>2, <1>9
      <4>2. ~(log'[i].offset + MutationSize + 1 <= p)
        BY <4>1, <2>0, <1>1
      <4>3. ~(i <= Len(r.transactions))
        BY <3>2, <2>3, <1>1
      <4> QED
        BY <4>2, <4>3
    <3> QED
      BY <3>1, <3>2, <1>1, <1>5
  <2>6. Len(r.transactions) <= Len(log')
    BY <2>3, <1>1, <1>5
  <2> QED
    BY <2>1, <2>2, <2>3, <2>4, <2>5, <2>6 DEF Recent
<1>11. ASSUME NEW p \in Len(u) + 1 .. Len(u2) PROVE Recent(tr2[p], p, R, g, m)'
  <2>0. p \in Nat /\ New(tr2[p], p, u, R, tr, g)
    BY <1>1, <1>8
  <2>1. CASE p = Len(u2)
    <3>1. \A i \in Len(log) + 1 .. Len(log') : log'[i].offset + MutationSize + 1 <= p
      BY <1>9, <2>1, <1>6
    <3> QED
      BY <2>0, <2>1, <3>1, <1>6, RecentLast
  <2>2. CASE p # Len(u2)
    <3>1. p \in Len(u) + 1 .. Len(u2) - 1 /\ p < Len(u2)
      BY <2>2, <1>1, <1>6
    <3>2. Full(tr2[p])
      BY <3>1 DEF Stage
    <3>3. \A i \in Len(log) + 1 .. Len(log') : log'[i].offset + MutationSize + 1 > p
      BY <1>9, <3>1, <1>6
    <3> QED
      BY <2>0, <3>2, <3>3, <1>5, RecentNew
  <2> QED
    BY <2>1, <2>2
<1>12. ASSUME NEW p \in At(g) .. Len(u2), NEW s \in At(g) .. Len(u2), p <= s
       PROVE  tr2[p].flushed <= tr2[s].flushed /\ tr2[p].position <= tr2[s].position
  <2>1. CASE s \in At(g) .. Len(u)
    <3>1. p \in At(g) .. Len(u) /\ p \in 0 .. Len(u) /\ s \in 0 .. Len(u)
      BY <1>1, <1>12, <2>1
    <3>2. tr[p].flushed <= tr[s].flushed /\ tr[p].position <= tr[s].position
      BY <3>1, <2>1, <1>2, <1>12 DEF Timeline
    <3> QED
      BY <3>1, <3>2, <1>7
  <2>2. CASE s \in Len(u) + 1 .. Len(u2) /\ p \in Len(u) + 1 .. Len(u2)
    BY <2>2, <1>12 DEF Stage
  <2>3. CASE s \in Len(u) + 1 .. Len(u2) /\ p \in At(g) .. Len(u)
    <3>1. p \in 0 .. Len(u) /\ Len(u) \in At(g) .. Len(u) /\ p <= Len(u)
      BY <1>1, <2>3
    <3>2. tr[p].flushed <= tr[Len(u)].flushed /\ tr[p].position <= Len(u)
      BY <3>1, <2>3, <1>2, <1>4 DEF Timeline
    <3>3. tr[p] \in Readers /\ tr2[p] = tr[p]
      BY <3>1, <1>1, <1>7 DEF IsStream
    <3>4. /\ tr2[s] \in Readers /\ Len(u) <= tr2[s].position
          /\ NextFlushed(u, R, tr, g) <= tr2[s].flushed
      BY <2>3, <1>8 DEF New
    <3>5. /\ tr[p].flushed \in Nat /\ tr[p].position \in Nat /\ tr[Len(u)].flushed \in Nat
          /\ tr2[s].position \in Nat /\ tr2[s].flushed \in Nat
      BY <3>3, <3>4, <1>3 DEF Readers
    <3>6. tr[p].flushed <= tr2[s].flushed
      <4>1. tr[Len(u)].flushed <= tr2[s].flushed
        BY <3>4, <3>5, <1>3
      <4> QED
        BY <4>1, <3>2, <3>5
    <3>7. tr[p].position <= tr2[s].position
      BY <3>2, <3>4, <3>5, <1>1, SMTT(20)
    <3> QED
      BY <3>3, <3>6, <3>7
  <2>4. /\ s \in At(g) .. Len(u) \/ s \in Len(u) + 1 .. Len(u2)
        /\ p \in At(g) .. Len(u) \/ p \in Len(u) + 1 .. Len(u2)
    BY <1>1, <1>6
  <2> QED
    BY <2>1, <2>2, <2>3, <2>4
<1>13. ASSUME NEW i \in m + 1 .. Len(log')
       PROVE  log'[i].offset >= At(g) /\ log'[i].offset + MutationSize + 1 <= Len(u2)
  <2>1. CASE i \in m + 1 .. Len(log)
    <3>1. i \in 1 .. Len(log)
      BY <2>1, <1>1
    <3>2. log[i].offset \in Nat /\ log[i].offset >= At(g) /\ log[i].offset + MutationSize + 1 <= Len(u)
      BY <2>1, <3>1, LogEnds, LogTxn
    <3> DEFINE o == log[i].offset
    <3>3. log'[i].offset = o /\ o \in Nat /\ o >= At(g) /\ o + MutationSize + 1 <= Len(u)
      BY <3>1, <3>2, <1>5
    <3> HIDE DEF o
    <3> QED
      BY <3>3, <1>1, <1>6
  <2>2. CASE i \in Len(log) + 1 .. Len(log')
    BY <2>2, <1>9, <1>1, <1>6, SMTT(20)
  <2> QED
    BY <2>1, <2>2, <1>1, <1>5
<1>14. \A p \in At(g) + 1 .. Len(u2) : Recent(tr2[p], p, R, g, m)'
  <2> TAKE p \in At(g) + 1 .. Len(u2)
  <2>1. p \in At(g) + 1 .. Len(u) \/ p \in Len(u) + 1 .. Len(u2)
    BY <1>1, <1>6
  <2> QED
    BY <2>1, <1>10, <1>11
<1>15. Len(u2) > At(g) /\ Len(u2) # At(g) /\ tr2[Len(u2)].position = Len(u2) /\ tr2[Len(u2)].current = NoEntry
  BY <1>1, <1>6
<1> QED
  BY <1>12, <1>13, <1>14, <1>15 DEF Timeline

\* Everything that the stream's new end leaves as it was.
LEMMA AlignedExt ==
    ASSUME NEW u, NEW R, NEW tr, NEW g, NEW m, NEW N, NEW v, Aligned(u, R, tr, g, m, N, v),
           LogInv, DeviceInv, InnerType, LogInv', DeviceInv',
           NEW u2, NEW tr2, NEW y, Writes(u, tr, u2, tr2, R, y),
           \A f \in Files : pending'[f] # Hole => pending'[f].id >= N,
           Timeline(u2, R, tr2, g, m)', Marked(u2, R, g, N)', ReuseInv(u2, R, tr2, g)',
           SyncInv(u2, R, tr2, g, m)'
    PROVE  Aligned(u2, R, tr2, g, m, N, v)'
<1>1. /\ IsStream(u2, R, tr2) /\ tr2[At(g)] = tr[At(g)]
      /\ History(tr2, g)' /\ Base(tr2[At(g)], m, v)'
  BY PastExt
<1>2. WriterInv(u2, R, g)' /\ DiskInv(u2, R, g, N)'
  BY WriterExt
<1>3. DurableInv(u2, R, tr2, g, m)'
  BY DurableExt
<1>4. N \in 1 .. next_id'
  <2>1. N \in 1 .. next_id /\ next_id \in Nat /\ next_id' \in Nat /\ next_id <= next_id'
    BY DEF Aligned, DeviceInv, Writes
  <2> QED
    BY <2>1
<1>5. /\ g \in 1 .. JournalBlocks /\ ResetsIn(R, 1 .. g)
      /\ At(g) \notin R => m = 1 /\ tr[At(g)].current = NoEntry
      /\ tr[At(g)].position = At(g)
  BY DEF Aligned
<1> QED
  BY <1>1, <1>2, <1>3, <1>4, <1>5 DEF Aligned

\* Writing into the writer's buffer.
Buffered(w, y) == [w EXCEPT !.buf = @ \o y]

\* A writer with more in its buffer.
LEMMA BufferedIs ==
    ASSUME NEW w \in Writers, NEW y \in Seq(AllUnits), NEW z \in Seq(AllUnits)
    PROVE  /\ Buffered(w, y) \in Writers
           /\ Buffered(w, y).offset = w.offset /\ Buffered(w, y).checksum = w.checksum
           /\ Buffered(w, y).buf = w.buf \o y
           /\ Buffered(Buffered(w, y), z) = Buffered(w, y \o z)
           /\ Buffered(w, <<>>) = w
           /\ FileOffset(w) \in Nat /\ FileOffset(w) = w.offset + Len(w.buf)
           /\ FileOffset(Buffered(w, y)) = FileOffset(w) + Len(y)
<1>1. w.offset \in Nat /\ w.buf \in Seq(AllUnits) /\ Len(w.buf) \in Nat /\ Len(y) \in Nat
  BY DEF Writers
<1>2. w.buf \o y \in Seq(AllUnits) /\ Len(w.buf \o y) = Len(w.buf) + Len(y)
  BY <1>1, ConcatIs
<1>3. /\ Buffered(w, y) \in Writers
      /\ Buffered(w, y).offset = w.offset /\ Buffered(w, y).checksum = w.checksum
      /\ Buffered(w, y).buf = w.buf \o y
  BY <1>2 DEF Buffered, Writers
<1>4. (w.buf \o y) \o z = w.buf \o (y \o z)
  <2>1. \A a, b, c \in Seq(AllUnits) : (a \o b) \o c = a \o (b \o c)
    BY ConcatAssociative
  <2> QED
    BY <1>1, <2>1
<1>5. Buffered(Buffered(w, y), z) = Buffered(w, y \o z)
  BY <1>4 DEF Buffered, Writers
<1>6. Buffered(w, <<>>) = w
  <2>1. w.buf \o <<>> = w.buf
    BY <1>1, ConcatEmptySeq
  <2> QED
    BY <2>1 DEF Buffered, Writers
<1>7. FileOffset(w) = w.offset + Len(w.buf) /\ FileOffset(w) \in Nat
  BY <1>1 DEF FileOffset
<1>8. FileOffset(Buffered(w, y)) = FileOffset(w) + Len(y)
  <2>1. FileOffset(Buffered(w, y)) = w.offset + (Len(w.buf) + Len(y))
    BY <1>2, <1>3 DEF FileOffset
  <2> QED
    BY <2>1, <1>1, <1>7
<1> QED
  BY <1>3, <1>5, <1>6, <1>7, <1>8

\* A record is written as its units.
LEMMA WriteRecordIs ==
    ASSUME NEW w, NEW rec
    PROVE  WriteRecord(w, rec) = Buffered(w, Units(rec))
BY DEF WriteRecord, Buffered

\* A writer that is inside a block writes on.
LEMMA FrozenWrites ==
    ASSUME NEW u, NEW R, NEW tr, NEW g, NEW m, NEW v, Frozen(u, R, tr, g, m, v), LogInv, DeviceInv,
           LogInv', WriterType, NEW y \in Seq(AllUnits), writer' = Buffered(writer, y),
           UNCHANGED <<unstable, in_flight, mid_block>>, next_id <= next_id',
           Longer(FileOffset(writer)),
           \A i \in Len(log) + 1 .. Len(log') : log'[i].offset < FileOffset(writer')
    PROVE  FrozenStep(tr, g)
<1>1. /\ writer \in Writers /\ writer.offset \in Nat /\ g \in Nat /\ g \in 1 .. g /\ Len(y) \in Nat
      /\ writer.buf \in Seq(AllUnits) /\ Len(writer.buf) \in Nat
  BY DEF WriterType, Writers, Frozen
<1>2. /\ writer'.offset = writer.offset /\ writer'.buf = writer.buf \o y
      /\ FileOffset(writer) \in Nat /\ FileOffset(writer) = writer.offset + Len(writer.buf)
      /\ FileOffset(writer') = FileOffset(writer) + Len(y) /\ writer' \in Writers
  BY <1>1, BufferedIs
<1>3. Len(log) \in Nat /\ Len(log') \in Nat
  BY DEF LogInv
<1>4. ASSUME NEW i \in Len(log) + 1 .. Len(log'), NEW q \in 1 .. g
      PROVE  log'[i].offset >= tr[At(q)].position
  <2>0. i \in 1 .. Len(log') /\ q \in Nat /\ q <= g
    BY <1>3, <1>1
  <2>1. log'[i].offset \in Nat
    BY <2>0, EntryOf DEF LogInv
  <2>2. Pair(tr[At(q)], tr[At(g)])
    BY <2>0, <1>1 DEF Frozen, History
  <2>3. tr[At(q)].position <= tr[At(g)].position /\ tr[At(g)].position <= writer.offset
    BY <2>2 DEF Pair, Frozen
  <2>4. tr[At(q)] \in Readers /\ tr[At(g)] \in Readers
    <3>1. At(q) \in Nat /\ At(g) \in Nat /\ At(q) <= At(g) /\ Len(u) = At(g) /\ IsStream(u, R, tr)
      BY <2>0, <1>1, AtNext, AtMinus DEF Frozen
    <3>2. At(q) \in 0 .. Len(u) /\ At(g) \in 0 .. Len(u)
      BY <3>1
    <3> QED
      BY <3>1, <3>2 DEF IsStream
  <2>5. tr[At(q)].position \in Nat /\ tr[At(g)].position \in Nat
    BY <2>4 DEF Readers
  <2>6. log'[i].offset >= FileOffset(writer)
    BY DEF Longer
  <2>7. writer.offset <= FileOffset(writer)
    BY <1>1, <1>2
  <2>8. tr[At(q)].position <= writer.offset
    BY <2>3, <2>5, <1>1
  <2>9. writer.offset <= log'[i].offset
    BY <2>1, <2>6, <2>7, <1>1, <1>2, SMTT(20)
  <2> QED
    BY <2>1, <2>5, <2>8, <2>9, <1>1
<1>5. Grows(tr, g)
  BY <1>3, <1>4 DEF Grows, Longer
<1>6. ASSUME NEW i \in 1 .. Len(log') PROVE log'[i].offset < FileOffset(writer')
  <2>1. CASE i \in 1 .. Len(log)
    <3>1. log'[i].offset < FileOffset(writer) /\ log'[i].offset \in Nat
      BY <2>1, LogTxn DEF Longer, Frozen
    <3> QED
      BY <3>1, <1>1, <1>2
  <2>2. CASE i \in Len(log) + 1 .. Len(log')
    BY <2>2
  <2> QED
    BY <2>1, <2>2, <1>3
<1>7. writer.offset <= writer'.offset /\ writer'.offset % BlockSize # 0 /\ writer'.buf \in Seq(AllUnits)
  <2>1. writer.offset % BlockSize # 0
    BY DEF Frozen
  <2>2. writer.buf \o y \in Seq(AllUnits)
    BY <1>1, ConcatIs
  <2> QED
    BY <2>1, <2>2, <1>1, <1>2
<1>8. in_flight' = NotInFlight \/ (in_flight'.offset \in Nat /\ in_flight'.offset >= BlockSize
                                   /\ in_flight'.offset % BlockSize # 0)
  BY DEF Frozen
<1> QED
  BY <1>1, <1>2, <1>5, <1>6, <1>7, <1>8 DEF FrozenStep

\* A stage that has been written.
LEMMA StageWrites ==
    ASSUME NEW u, NEW R, NEW tr, NEW g, NEW u2, NEW tr2, NEW y, NEW x, NEW S,
           Stage(u, R, tr, g, u2, tr2, y, x, S), Len(u) \in Nat, Len(u2) <= EndOfFile,
           \A rec \in S : rec.txn.id < next_id', WriterType, writer' = Buffered(writer, y),
           inner'.flushed_offset = inner.flushed_offset,
           inner'.device_flushed_offset = inner.device_flushed_offset,
           UNCHANGED <<journal, data, unstable, in_flight, mid_block, synced>>,
           next_id <= next_id', Longer(Len(u)),
           \A i \in Len(log) + 1 .. Len(log') :
             BlockOf(log'[i]) # NoBlock => data[BlockOf(log'[i])] = log'[i].txn.new.id
    PROVE  Writes(u, tr, u2, tr2, R, y)
<1>1. /\ IsStream(u2, R, tr2) /\ y \in Seq(AllUnits) /\ Len(u2) = Len(u) + Len(y)
      /\ \A j \in 1 .. Len(u) : u2[j] = u[j]
      /\ \A j \in 1 .. Len(y) : u2[Len(u) + j] = y[j] /\ y[j].record \in S
      /\ \A p \in 0 .. Len(u) : tr2[p] = tr[p]
  BY DEF Stage
<1>2. \A p \in Len(u) + 1 .. Len(u2) : tr2[p].position >= Len(u)
  <2> TAKE p \in Len(u) + 1 .. Len(u2)
  <2>1. New(tr2[p], p, u, R, tr, g)
    BY DEF Stage
  <2>2. Len(u) <= tr2[p].position /\ tr2[p].position \in Nat
    BY <2>1 DEF New, Readers
  <2> QED
    BY <2>2
<1>3. Len(y) \in Nat /\ Len(u) <= Len(u2)
  BY <1>1
<1>4. Ext(u, tr, u2, tr2, R)
  BY <1>1, <1>2, <1>3 DEF Ext
<1>5. \A j \in Len(u) + 1 .. Len(u2) : u2[j].record.txn.id < next_id'
  <2> TAKE j \in Len(u) + 1 .. Len(u2)
  <2>1. j - Len(u) \in 1 .. Len(y) /\ Len(u) + (j - Len(u)) = j
    BY <1>1, <1>3
  <2>2. u2[j].record \in S
    BY <2>1, <1>1
  <2> QED
    BY <2>2
<1>6. writer'.offset = writer.offset /\ writer'.checksum = writer.checksum /\ writer'.buf = writer.buf \o y
  BY <1>1, BufferedIs DEF WriterType
<1> QED
  BY <1>1, <1>4, <1>5, <1>6 DEF Writes, Longer

-----------------------------------------------------------------------------
(* pre_commit *)

\* Records that commit nothing.
Neutral(S) == \A rec \in S : rec.kind # "Mutation" /\ rec.txn = NoTxn

\* What the mount dropped is discarded, and replay() is left with the log.
LEMMA StageDiscard ==
    ASSUME NEW u, NEW R, NEW tr, NEW g, NEW m, NEW N, NEW v, Aligned(u, R, tr, g, m, N, v),
           LogInv, DeviceInv, InnerType, WriterType
    PROVE  \E u1, tr1, y, x, S :
             /\ Stage(u, R, tr, g, u1, tr1, y, x, S) /\ Neutral(S) /\ Len(y) \in {0, 1}
             /\ DiscardPending(writer) = Buffered(writer, y)
             /\ Full(x) /\ x.current = NoEntry
             /\ Len(y) = 0 => inner.discard_offset = NoOffset
<1> DEFINE r0 == Resumed(tr[Len(u)], Len(u), R)
<1>1. /\ Len(u) \in Nat /\ IsStream(u, R, tr) /\ At(g) \in Nat /\ At(g) <= Len(u) /\ g \in Nat /\ g >= 1
      /\ DurableOffset(g) \in Nat /\ m \in Nat /\ m \in 1 .. Len(log) /\ Len(log) \in Nat
      /\ BlockSize \in Nat /\ BlockSize >= 3
  BY AlignedIs
<1>2. /\ r0 \in Readers /\ r0.current = NoEntry /\ r0.flushed = NextFlushed(u, R, tr, g)
      /\ r0.transactions = tr[Len(u)].transactions /\ Tidy(r0)
      /\ \A p \in R : p \in Nat /\ p <= At(g)
      /\ inner.discard_offset = NoOffset => Full(r0)
  BY ResumedIs
<1>3. Stage(u, R, tr, g, u, tr, <<>>, r0, {})
  BY StageStart
<1>4. NextFlushed(u, R, tr, g) \in Nat /\ NextFlushed(u, R, tr, g) <= DurableOffset(g)
  BY NextFlushedIs
<1>5. writer \in Writers /\ <<>> \in Seq(AllUnits) /\ Len(<<>>) = 0
  BY DEF WriterType
<1> HIDE DEF r0
<1>6. CASE inner.discard_offset = NoOffset
  <2>1. DiscardPending(writer) = Buffered(writer, <<>>)
    BY <1>5, <1>6, BufferedIs DEF DiscardPending
  <2>2. Neutral({})
    BY DEF Neutral
  <2>3. Len(<<>>) \in {0, 1}
    BY <1>5
  <2> QED
    BY <1>2, <1>3, <1>6, <2>1, <2>2, <2>3
<1>7. CASE inner.discard_offset # NoOffset
  <2> DEFINE t == tr[At(g)].transactions
             o == inner.discard_offset
             rec == Discard(o)
             z == UpTo(t, o)
             a == AtRecord(r0, rec)
  <2>1. Timeline(u, R, tr, g, m) /\ Base(tr[At(g)], m, v) /\ Old(tr[At(g)], g)
    <3>1. g \in 1 .. g
      BY <1>1
    <3> QED
      BY <3>1 DEF Aligned, History
  <2>2. Len(u) = At(g)
    <3>1. ~(Len(u) > At(g))
      BY <1>7, <2>1 DEF Timeline
    <3> QED
      BY <3>1, <1>1
  <2>3. /\ t \in Seq(Entries) /\ Ascending(t) /\ Len(t) \in Nat /\ r0.transactions = t
        /\ m <= Len(t) /\ \A i \in 1 .. m : t[i] = log[i]
    <3>1. t \in Seq(Entries)
      BY AlignedIs DEF Readers
    <3> QED
      BY <3>1, <2>1, <2>2, <1>2 DEF Old, Base
  <2>4. Len(t) > m /\ o = t[m + 1].offset /\ Len(log) = m
    <3>1. /\ Len(log) = m /\ (Len(t) = m => inner.discard_offset = NoOffset)
          /\ (Len(t) > m => inner.discard_offset = t[m + 1].offset)
      BY <2>1, <2>2 DEF Timeline
    <3>2. Len(t) > m
      BY <3>1, <2>3, <1>1, <1>7
    <3> QED
      BY <3>1, <3>2
  <2> HIDE DEF t, o, rec
  <2>5. o \in Nat
    BY DEF InnerType, o
  <2>6. /\ z \in Seq(Entries) /\ Len(z) \in 0 .. Len(t)
        /\ \A i \in 1 .. Len(z) : z[i] = t[i]
        /\ \A i \in 1 .. Len(t) : i <= Len(z) <=> t[i].offset < o
    BY <2>3, <2>5, UpToAscending
  <2> HIDE DEF z
  <2>7. Len(z) = m
    <3>1. m \in 1 .. Len(t) /\ m + 1 \in 1 .. Len(t) /\ m < m + 1
      BY <2>3, <2>4, <1>1
    <3>2. t[m].offset < t[m + 1].offset
      BY <3>1, <2>3 DEF Ascending
    <3>3. t[m].offset \in Nat /\ t[m + 1].offset \in Nat
      BY <3>1, <2>3, EntryOf
    <3>4. m <= Len(z) /\ ~(m + 1 <= Len(z))
      BY <3>1, <3>2, <3>3, <2>4, <2>6
    <3> QED
      BY <3>4, <2>6, <1>1
  <2>8. a = [r0 EXCEPT !.transactions = z, !.current = NoEntry]
    BY <1>2, <2>3, <2>5, AtDiscard DEF rec, z
  <2>9. /\ a \in Readers /\ a.transactions = z /\ a.current = NoEntry /\ a.flushed = r0.flushed
    BY <2>8, <2>6, <1>2, Constants DEF Readers
  <2> HIDE DEF a
  <2>10. Tidy(a)
    <3>1. \A i \in 1 .. m : i \in 1 .. Len(t) /\ z[i] = t[i]
      BY <2>3, <2>6, <2>7, <1>1
    <3> QED
      BY <3>1, <2>3, <2>7, <2>9, <1>2 DEF Tidy
  <2>11. rec \in Records /\ Size(rec) = 1 /\ Size(rec) \in 1 .. BlockSize /\ rec.kind # "Mutation" /\ rec.txn = NoTxn
    <3>1. rec \in Records /\ Size(rec) = 1
      BY <2>5, RecordTypes, Constants DEF rec
    <3>2. rec.kind # "Mutation" /\ rec.txn = NoTxn
      BY DEF rec, Discard, Record
    <3> QED
      BY <3>1, <3>2, <1>1
  <2>12. \A p \in R : p \in Nat /\ p <= Len(u)
    BY <1>2, <2>2
  <2>13. PICK u2, tr2 : Stage(u, R, tr, g, u2, tr2, <<>> \o Units(rec), Past(r0, rec, Len(u) + Size(rec)), {} \cup {rec})
    <3>1. r0.flushed <= a.flushed /\ a.flushed <= DurableOffset(g)
      BY <2>9, <1>2, <1>4
    <3> QED
      BY <3>1, <1>1, <1>3, <1>4, <1>5, <2>6, <2>9, <2>10, <2>11, <2>12, StageRecord DEF a
  <2>14. Units(rec) \in Seq(AllUnits) /\ Len(Units(rec)) = 1 /\ <<>> \o Units(rec) = Units(rec)
    <3>1. Size(rec) \in Nat
      BY <2>11
    <3>2. Units(rec) \in Seq(AllUnits) /\ Len(Units(rec)) = Size(rec)
      BY <3>1, <2>11, UnitsIs
    <3>3. <<>> \o Units(rec) = Units(rec)
      BY <3>2, ConcatEmptySeq
    <3> QED
      BY <3>2, <3>3, <2>11
  <2> DEFINE x == Past(r0, rec, Len(u) + Size(rec))
  <2>15. x = [a EXCEPT !.offset = Len(u) + Size(rec), !.position = Len(u) + Size(rec)]
    BY DEF Past, a
  <2>16. x.transactions = z /\ x.current = NoEntry
    BY <2>15, <2>9 DEF Readers
  <2>17. Full(x)
    <3> HIDE DEF x
    <3>1. \A i \in 1 .. m : z[i] = log[i]
      <4> TAKE i \in 1 .. m
      <4>1. i \in 1 .. Len(z)
        BY <2>7
      <4> QED
        BY <4>1, <2>6, <2>3
    <3> QED
      BY <3>1, <2>16, <2>7, <2>4 DEF Full
  <2>18. DiscardPending(writer) = Buffered(writer, Units(rec))
    BY <1>7, WriteRecordIs DEF DiscardPending, rec, o
  <2>19. Neutral({} \cup {rec})
    BY <2>11 DEF Neutral
  <2>20. Stage(u, R, tr, g, u2, tr2, Units(rec), x, {} \cup {rec})
    BY <2>13, <2>14
  <2>21. PICK y : y = Units(rec)
    OBVIOUS
  <2>22. Len(y) \in {0, 1} /\ Len(y) # 0
    BY <2>14, <2>21, SMTT(20)
  <2> HIDE DEF x
  <2> QED
    BY <2>16, <2>17, <2>18, <2>19, <2>20, <2>21, <2>22
<1> QED
  BY <1>6, <1>7

\* What is known to be flushed is put down.
LEMMA StageDidFlush ==
    ASSUME NEW u, NEW R, NEW tr, NEW g, NEW m, NEW N, NEW v, Aligned(u, R, tr, g, m, N, v),
           LogInv, DeviceInv, InnerType, WriterType
    PROVE  \E u2, tr2, y, x, S :
             /\ Stage(u, R, tr, g, u2, tr2, y, x, S) /\ Neutral(S) /\ Len(y) \in {0, 1, 2}
             /\ DidFlushPending(DiscardPending(writer)) = Buffered(writer, y)
             /\ Full(x) /\ x.current = NoEntry
             /\ Len(y) = 0 => inner.discard_offset = NoOffset /\ ~inner.needs_did_flush_device
             /\ inner.needs_did_flush_device => inner.device_flushed_offset <= x.flushed
<1>1. PICK u1, tr1, y, x, S :
             /\ Stage(u, R, tr, g, u1, tr1, y, x, S) /\ Neutral(S) /\ Len(y) \in {0, 1}
             /\ DiscardPending(writer) = Buffered(writer, y)
             /\ Full(x) /\ x.current = NoEntry
             /\ Len(y) = 0 => inner.discard_offset = NoOffset
  BY StageDiscard
<1>2. /\ Len(u) \in Nat /\ DurableOffset(g) \in Nat /\ BlockSize \in Nat /\ BlockSize >= 3
      /\ At(g) \in Nat /\ At(g) <= Len(u)
      /\ inner.device_flushed_offset \in Nat /\ inner.device_flushed_offset <= DurableOffset(g)
  BY AlignedIs
<1>3. CASE ~inner.needs_did_flush_device
  <2>1. DidFlushPending(DiscardPending(writer)) = Buffered(writer, y)
    BY <1>1, <1>3 DEF DidFlushPending
  <2>2. Len(y) \in {0, 1, 2}
    BY <1>1
  <2> QED
    BY <1>1, <1>3, <2>1, <2>2
<1>4. CASE inner.needs_did_flush_device
  <2> DEFINE o == inner.device_flushed_offset
             rec == DidFlushDevice(o)
             a == AtRecord(x, rec)
             b == IF x.flushed >= o THEN x.flushed ELSE o
             y2 == y \o Units(rec)
             x2 == Past(x, rec, Len(u1) + Size(rec))
  <2>0. writer \in Writers /\ y \in Seq(AllUnits) /\ o \in Nat /\ o <= DurableOffset(g)
    BY <1>1, <1>2 DEF WriterType, Stage
  <2>1. x \in Readers /\ x.flushed \in Nat /\ x.flushed <= DurableOffset(g) /\ Tidy(x)
        /\ x.transactions \in Seq(Entries)
    <3>1. New(x, Len(u1), u, R, tr, g)
      BY <1>1 DEF Stage
    <3> QED
      BY <3>1 DEF New, Readers
  <2>2. b \in Nat /\ x.flushed <= b /\ o <= b /\ b <= DurableOffset(g)
    BY <2>0, <2>1, <1>2
  <2>3. a = [x EXCEPT !.flushed = b]
    BY <2>0, <2>1, AtDidFlush
  <2>4. rec \in Records /\ Size(rec) = 1 /\ Size(rec) \in 1 .. BlockSize /\ rec.kind # "Mutation" /\ rec.txn = NoTxn
    <3>1. rec \in Records /\ Size(rec) = 1
      BY <2>0, RecordTypes, Constants
    <3>2. rec.kind # "Mutation" /\ rec.txn = NoTxn
      BY DEF DidFlushDevice, Record
    <3> QED
      BY <3>1, <3>2, <1>2
  <2> HIDE DEF b, rec, o
  <2>5. a \in Readers /\ a.flushed = b /\ a.transactions = x.transactions /\ a.current = x.current
    BY <2>1, <2>2, <2>3 DEF Readers
  <2> HIDE DEF a
  <2>6. Tidy(a)
    BY <2>1, <2>2, <2>5, TidyRaise
  <2>7. \A p \in R : p \in Nat /\ p <= Len(u)
    <3>1. \A p \in R : p \in Nat /\ p <= At(g)
      BY ResumedIs
    <3> QED
      BY <3>1, <1>2
  <2>8. NextFlushed(u, R, tr, g) \in Nat
    BY NextFlushedIs
  <2>9. PICK u2, tr2 : Stage(u, R, tr, g, u2, tr2, y2, x2, S \cup {rec})
    <3>1. x.flushed <= a.flushed /\ a.flushed <= DurableOffset(g) /\ a.transactions \in Seq(Entries)
      BY <2>2, <2>5, <2>1
    <3> QED
      BY <3>1, <1>1, <1>2, <2>4, <2>5, <2>6, <2>7, <2>8, StageRecord DEF a
  <2>10. Units(rec) \in Seq(AllUnits) /\ Len(Units(rec)) = 1
    <3>1. Size(rec) \in Nat
      BY <2>4
    <3>2. Units(rec) \in Seq(AllUnits) /\ Len(Units(rec)) = Size(rec)
      BY <3>1, <2>4, UnitsIs
    <3> QED
      BY <3>2, <2>4
  <2>11. Len(y2) = Len(y) + 1
    <3>0. \A b1, b2 \in Seq(AllUnits) : Len(b1 \o b2) = Len(b1) + Len(b2)
      BY ConcatProperties
    <3>1. Len(y2) = Len(y) + Len(Units(rec))
      BY <2>0, <2>10, <3>0
    <3> QED
      BY <3>1, <2>10
  <2>12. DidFlushPending(DiscardPending(writer)) = Buffered(writer, y2)
    <3>1. DidFlushPending(DiscardPending(writer)) = Buffered(Buffered(writer, y), Units(rec))
      BY <1>1, <1>4, WriteRecordIs DEF DidFlushPending, rec, o
    <3> QED
      BY <3>1, <2>0, <2>10, BufferedIs
  <2>13. x2 = [a EXCEPT !.offset = Len(u1) + Size(rec), !.position = Len(u1) + Size(rec)]
    BY DEF Past, a
  <2>14. x2.transactions = x.transactions /\ x2.current = NoEntry /\ x2.flushed = b
    BY <2>13, <2>5, <1>1 DEF Readers
  <2> HIDE DEF x2, y2
  <2>15. Full(x2)
    BY <2>14, <1>1 DEF Full
  <2>16. Neutral(S \cup {rec})
    BY <1>1, <2>4 DEF Neutral
  <2>17. Len(y2) \in {0, 1, 2} /\ Len(y2) # 0
    <3>1. Len(y2) = Len(y) + 1 /\ (Len(y) = 0 \/ Len(y) = 1)
      BY <2>11, <1>1
    <3>2. CASE Len(y) = 0
      BY <3>1, <3>2
    <3>3. CASE Len(y) = 1
      BY <3>1, <3>3
    <3> QED
      BY <3>1, <3>2, <3>3
  <2>18. inner.device_flushed_offset <= x2.flushed
    BY <2>14, <2>2 DEF o
  <2> QED
    BY <2>9, <2>12, <2>14, <2>15, <2>16, <2>17, <2>18
<1> QED
  BY <1>3, <1>4

\* pre_commit keeps everything in place.
LEMMA PreCommitKeeps ==
    ASSUME Inv, NEW f \in Files, PreCommit(f)
    PROVE  Inv'
<1>1. /\ pc = "mounted" /\ LogInv /\ DeviceInv /\ Mounted /\ InnerType /\ WriterType
      /\ SyncType /\ InFlightInv /\ AllocInv
  BY DEF PreCommit, Inv, Mounted
<1>2. /\ committing = NoFile /\ committing' = f /\ HasRoom(writer')
      /\ writer' = DidFlushPending(DiscardPending(writer))
      /\ inner' = [inner EXCEPT !.discard_offset = NoOffset, !.needs_did_flush_device = FALSE]
      /\ UNCHANGED <<journal, data, unstable, pc, reader, in_flight, syncing, extents, pending, deallocated,
                     log, synced, mid_block, next_id>>
  BY DEF PreCommit, device, replay, history, allocator
<1>3. /\ DeviceInv' /\ next_id \in Nat /\ next_id <= next_id'
  BY <1>1, <1>2, SameDevice
<1>4. LogInv' /\ AllocInv'
  BY <1>1, <1>2, LogFrame, AllocFrame
<1>5. /\ inner'.flushed_offset = inner.flushed_offset
      /\ inner'.device_flushed_offset = inner.device_flushed_offset
      /\ inner'.discard_offset = NoOffset /\ inner'.needs_did_flush_device = FALSE /\ InnerType'
  BY <1>1, <1>2, Constants DEF InnerType
<1>6. SyncType' /\ InFlightInv'
  BY <1>1, <1>2 DEF SyncType, InFlightInv
<1>7. writer \in Writers /\ Len(log) \in Nat /\ f # NoFile
  BY <1>1, FilesAssumption DEF WriterType, LogInv
<1>8. PICK y \in Seq(AllUnits) : writer' = Buffered(writer, y)
  <2>1. \A w \in Writers : \E b \in Seq(AllUnits) : DiscardPending(w) = Buffered(w, b)
    <3> TAKE w \in Writers
    <3>1. CASE inner.discard_offset = NoOffset
      <4>1. <<>> \in Seq(AllUnits)
        OBVIOUS
      <4>2. Buffered(w, <<>>) = w
        BY <4>1, BufferedIs
      <4> QED
        BY <4>1, <4>2, <3>1 DEF DiscardPending
    <3>2. CASE inner.discard_offset # NoOffset
      <4>1. inner.discard_offset \in Nat
        BY <1>1 DEF InnerType
      <4>2. Units(Discard(inner.discard_offset)) \in Seq(AllUnits)
        BY <4>1, RecordTypes, UnitsIs, Constants
      <4> QED
        BY <3>2, <4>2, WriteRecordIs DEF DiscardPending
    <3> QED
      BY <3>1, <3>2
  <2>2. \A w \in Writers : \E b \in Seq(AllUnits) : DidFlushPending(w) = Buffered(w, b)
    <3> TAKE w \in Writers
    <3>1. CASE ~inner.needs_did_flush_device
      <4>1. <<>> \in Seq(AllUnits)
        OBVIOUS
      <4>2. Buffered(w, <<>>) = w
        BY <4>1, BufferedIs
      <4> QED
        BY <4>1, <4>2, <3>1 DEF DidFlushPending
    <3>2. CASE inner.needs_did_flush_device
      <4>1. inner.device_flushed_offset \in Nat
        BY <1>1 DEF InnerType
      <4>2. Units(DidFlushDevice(inner.device_flushed_offset)) \in Seq(AllUnits)
        BY <4>1, RecordTypes, UnitsIs, Constants
      <4> QED
        BY <3>2, <4>2, WriteRecordIs DEF DidFlushPending
    <3> QED
      BY <3>1, <3>2
  <2>3. PICK b \in Seq(AllUnits) : DiscardPending(writer) = Buffered(writer, b)
    BY <2>1, <1>7
  <2>4. Buffered(writer, b) \in Writers
    BY <2>3, <1>7, BufferedIs
  <2>5. PICK c \in Seq(AllUnits) : DidFlushPending(DiscardPending(writer)) = Buffered(Buffered(writer, b), c)
    BY <2>2, <2>3, <2>4
  <2>6. b \o c \in Seq(AllUnits) /\ Buffered(Buffered(writer, b), c) = Buffered(writer, b \o c)
    BY <1>7, BufferedIs, ConcatIs
  <2> QED
    BY <2>5, <2>6, <1>2
<1>9. WriterType'
  BY <1>1, <1>2, <1>7, <1>8, BufferedIs DEF WriterType
<1>10. /\ \A o : Longer(o)
       /\ \A i \in Len(log) + 1 .. Len(log') : FALSE
  BY <1>2, <1>7 DEF Longer
<1>11. ASSUME NEW u, NEW R, NEW tr, NEW g, NEW m, NEW v, Frozen(u, R, tr, g, m, v)
       PROVE  FrozenStep(tr, g)
  BY <1>1, <1>2, <1>3, <1>4, <1>8, <1>10, <1>11, FrozenWrites
<1>12. ASSUME NEW u, NEW R, NEW tr, NEW g, NEW m, NEW N, NEW v, Aligned(u, R, tr, g, m, N, v)
       PROVE  (\E u1, R1, tr1, g1, m1, N1, v1 : Aligned(u1, R1, tr1, g1, m1, N1, v1))'
  <2>1. /\ Len(u) \in Nat /\ At(g) \in Nat /\ At(g) <= Len(u) /\ DurableOffset(g) \in Nat /\ g \in Nat
        /\ inner.device_flushed_offset \in Nat /\ EndOfFile \in Nat /\ BlockSize \in Nat
        /\ IsStream(u, R, tr) /\ u \in Seq(AllUnits)
    BY <1>1, <1>12, AlignedIs
  <2>2. PICK u2, tr2, z, x, S :
             /\ Stage(u, R, tr, g, u2, tr2, z, x, S) /\ Neutral(S) /\ Len(z) \in {0, 1, 2}
             /\ DidFlushPending(DiscardPending(writer)) = Buffered(writer, z)
             /\ Full(x) /\ x.current = NoEntry
             /\ Len(z) = 0 => inner.discard_offset = NoOffset /\ ~inner.needs_did_flush_device
             /\ inner.needs_did_flush_device => inner.device_flushed_offset <= x.flushed
    BY <1>1, <1>12, StageDidFlush
  <2>3. /\ z \in Seq(AllUnits) /\ Len(u2) = Len(u) + Len(z) /\ Len(z) \in Nat /\ writer' = Buffered(writer, z)
        /\ Len(z) <= 2
    <3>1. z \in Seq(AllUnits) /\ Len(u2) = Len(u) + Len(z) /\ writer' = Buffered(writer, z)
      BY <2>2, <1>2 DEF Stage
    <3>2. Len(z) = 0 \/ Len(z) = 1 \/ Len(z) = 2
      BY <2>2
    <3>3. PICK k : k = Len(z)
      OBVIOUS
    <3>4. k \in Nat
      BY <3>1, <3>3
    <3>5. k = 0 \/ k = 1 \/ k = 2
      BY <3>2, <3>3
    <3>6. k <= 2
      BY <3>4, <3>5
    <3> QED
      BY <3>1, <3>3, <3>4, <3>6
  <2>4. Len(u2) <= EndOfFile
    <3>1. Len(u) = FileOffset(writer)
      BY <1>12 DEF Aligned, WriterInv, FileOffset
    <3>2. FileOffset(writer') = FileOffset(writer) + Len(z)
      BY <2>3, <1>7, BufferedIs
    <3>3. FileOffset(writer') <= EndOfFile - BlockSize
      BY <1>2 DEF HasRoom
    <3> QED
      BY <3>1, <3>2, <3>3, <2>1, <2>3
  <2>5. /\ x \in Readers /\ x.flushed \in Nat /\ NextFlushed(u, R, tr, g) <= x.flushed
        /\ NextFlushed(u, R, tr, g) \in Nat
    <3>1. New(x, Len(u2), u, R, tr, g)
      BY <2>2 DEF Stage
    <3> QED
      BY <3>1, <1>1, <1>12, NextFlushedIs DEF New, Readers
  <2>6. ReuseInv(u, R, tr, g) /\ Marked(u, R, g, N)
    BY <1>12 DEF Aligned
  <2>7. DurableOffset(g)' = DurableOffset(g)
    BY <1>5 DEF DurableOffset
  <2>8. ASSUME NEW u3, NEW tr3, NextFlushed(u, R, tr, g) <= NextFlushed(u3, R, tr3, g),
               NextFlushed(u3, R, tr3, g) \in Nat,
               inner.needs_did_flush_device => inner.device_flushed_offset <= NextFlushed(u3, R, tr3, g)
        PROVE  ReuseInv(u3, R, tr3, g)'
    <3> DEFINE n == NextFlushed(u3, R, tr3, g)
    <3>1. ASSUME NEW e \in Files, NEW i \in 1 .. Len(log), pending[e] # Hole, BlockOf(log[i]) = pending[e].block
          PROVE  log[i].offset < n
      <4>1. \/ log[i].offset < NextFlushed(u, R, tr, g)
            \/ inner.needs_did_flush_device /\ log[i].offset < inner.device_flushed_offset
        BY <2>6, <3>1 DEF ReuseInv
      <4>2. log[i].offset \in Nat
        BY <1>1, LogTxn
      <4> QED
        BY <4>1, <4>2, <2>8, <2>5, <2>1
    <3>2. inner.device_flushed_offset <= n
      <4>1. inner.needs_did_flush_device \/ inner.device_flushed_offset <= NextFlushed(u, R, tr, g)
        BY <2>6 DEF ReuseInv
      <4> QED
        BY <4>1, <2>8, <2>5, <2>1
    <3>3. \A k \in 1 .. Len(log) :
         log[k].offset >= DurableOffset(g) /\ log[k].txn.old # NoBlock =>
           [offset |-> log[k].offset, block |-> log[k].txn.old] \in deallocated
      BY <2>6 DEF ReuseInv
    <3> HIDE DEF n
    <3>4. /\ \A e \in Files : \A i \in 1 .. Len(log') :
               pending'[e] # Hole /\ BlockOf(log'[i]) = pending'[e].block => log'[i].offset < n
          /\ inner'.device_flushed_offset <= n
          /\ \A k \in 1 .. Len(log') :
               log'[k].offset >= DurableOffset(g)' /\ log'[k].txn.old # NoBlock =>
                 [offset |-> log'[k].offset, block |-> log'[k].txn.old] \in deallocated'
      BY <3>1, <3>2, <3>3, <2>7, <1>2, <1>5
    <3> QED
      BY <3>4, <1>5 DEF ReuseInv, n
  <2>9. CASE Len(z) = 0
    <3>1. inner.discard_offset = NoOffset /\ ~inner.needs_did_flush_device /\ z = <<>>
      BY <2>2, <2>3, <2>9
    <3>2. inner' = inner
      BY <3>1, <1>1, <1>2 DEF InnerType
    <3>3. writer' = writer
      BY <3>1, <2>3, <1>7, BufferedIs
    <3>4. ReuseInv(u, R, tr, g)'
      BY <2>5, <2>8, <3>1
    <3>5. Marked(u, R, g, N)'
      BY <2>6, <1>2 DEF Marked
    <3>6. /\ Timeline(u, R, tr, g, m)' /\ WriterInv(u, R, g)' /\ SyncInv(u, R, tr, g, m)'
          /\ DurableInv(u, R, tr, g, m)'
      BY <1>2, <1>12, <3>2, <3>3, TimelineFrame, WriterFrame, SyncFrame, DurableFrame DEF Aligned
    <3>7. DiskInv(u, R, g, N)' /\ History(tr, g)' /\ Base(tr[At(g)], m, v)'
      <4>1. DiskInv(u, R, g, N) /\ N \in Nat
        BY <1>1, <1>12, AlignedIs DEF Aligned
      <4>2. DiskInv(u, R, g, N)'
        BY <4>1, <2>1, <1>1, <1>2, <1>3, <3>2, <3>3, DiskFrame
      <4>3. History(tr, g)' /\ Base(tr[At(g)], m, v)'
        BY <1>1, <1>2, <1>3, <1>4, <1>7, <1>12, AlignedPast
      <4> QED
        BY <4>2, <4>3
    <3>8. Aligned(u, R, tr, g, m, N, v)'
      BY <1>12, <1>2, <3>4, <3>5, <3>6, <3>7 DEF Aligned
    <3> QED
      BY <3>8
  <2>10. CASE Len(z) > 0
    <3>1. NextFlushed(u2, R, tr2, g) = x.flushed
      <4>1. Len(u2) # At(g)
        BY <2>1, <2>3, <2>10
      <4>2. x = tr2[Len(u2)]
        BY <2>2, <2>10 DEF Stage
      <4> QED
        BY <4>1, <4>2 DEF NextFlushed
    <3>2. ReuseInv(u2, R, tr2, g)'
      BY <2>2, <2>5, <2>8, <3>1
    <3>3. Writes(u, tr, u2, tr2, R, z)
      <4>1. \A rec \in S : rec.txn.id < next_id'
        <5>1. \A rec \in S : rec.txn = NoTxn
          BY <2>2 DEF Neutral
        <5>2. 0 < next_id'
          BY <1>3 DEF DeviceInv
        <5> QED
          BY <5>1, <5>2, Constants
      <4> QED
        BY <4>1, <2>1, <2>2, <2>3, <2>4, <1>1, <1>2, <1>3, <1>5, <1>10, StageWrites
    <3>4. Timeline(u2, R, tr2, g, m)'
      <4>1. Full(x)'
        BY <2>2, <1>2 DEF Full
      <4> QED
        BY <4>1, <2>2, <2>10, <1>1, <1>4, <1>5, <1>10, <1>12, TimelineExt
    <3>5. Marked(u2, R, g, N)'
      <4>1. Stage(u, R, tr, g, u2, tr2, z, x, S) /\ Neutral(S)
        BY <2>2
      <4>2. ASSUME NEW j \in Len(u) + 1 .. Len(u2) PROVE u2[j].record.kind # "Mutation"
        <5>1. j - Len(u) \in 1 .. Len(z) /\ Len(u) + (j - Len(u)) = j
          BY <2>1, <2>3
        <5>2. u2[j].record \in S
          BY <4>1, <5>1 DEF Stage
        <5> QED
          BY <4>1, <5>2 DEF Neutral
      <4>3. \A j \in 1 .. Len(u) : u2[j] = u[j]
        BY <4>1 DEF Stage
      <4>4. SUFFICES ASSUME At(g) \in R
                     PROVE  /\ \/ Len(u2) = At(g)
                               \/ committing' # NoFile /\ Len(u2) <= At(g) + 2
                               \/ \E j \in At(g) + 1 .. At(g + 1) : j <= Len(u2) /\ u2[j].record.txn.id >= N
                            /\ \A j \in At(g) + 1 .. Len(u2) : u2[j].record.kind = "Mutation" => u2[j].record.txn.id >= N
        BY DEF Marked
      <4>5. ASSUME NEW j \in At(g) + 1 .. Len(u2), u2[j].record.kind = "Mutation" PROVE u2[j].record.txn.id >= N
        <5>1. j \in At(g) + 1 .. Len(u) /\ j \in 1 .. Len(u)
          BY <4>2, <4>5, <2>1, <2>3
        <5> QED
          BY <5>1, <4>3, <4>4, <4>5, <2>6 DEF Marked
      <4>6. CASE Len(u) = At(g)
        <5>1. committing' # NoFile /\ Len(u2) <= At(g) + 2
          BY <4>6, <2>1, <2>3, <1>2, <1>7
        <5> QED
          BY <5>1, <4>5
      <4>7. CASE Len(u) # At(g)
        <5>1. PICK j \in At(g) + 1 .. At(g + 1) : j <= Len(u) /\ u[j].record.txn.id >= N
          BY <4>4, <4>7, <2>6, <1>2 DEF Marked
        <5>2. j \in 1 .. Len(u) /\ j <= Len(u2)
          BY <5>1, <2>1, <2>3
        <5>3. j <= Len(u2) /\ u2[j].record.txn.id >= N
          BY <5>1, <5>2, <4>3
        <5> QED
          BY <5>3, <4>5
      <4> QED
        BY <4>6, <4>7
    <3>6. SyncInv(u2, R, tr2, g, m)'
      BY <3>3, <1>1, <1>2, <1>3, <1>4, <1>12, SyncExt
    <3>7. \A e \in Files : pending'[e] # Hole => pending'[e].id >= N
      BY <1>2, <1>12 DEF Aligned
    <3>8. Aligned(u2, R, tr2, g, m, N, v)'
      BY <3>2, <3>3, <3>4, <3>5, <3>6, <3>7, <1>1, <1>3, <1>4, <1>12, AlignedExt
    <3> QED
      BY <3>8
  <2> QED
    BY <2>3, <2>9, <2>10
<1> QED
  BY <1>1, <1>2, <1>3, <1>4, <1>5, <1>6, <1>9, <1>11, <1>12, MountedStep

-----------------------------------------------------------------------------
(* Committing. *)

\* The writer is behind everything in the log.
LEMMA LogBeforeWriter ==
    ASSUME Inv, pc = "mounted"
    PROVE  \A i \in 1 .. Len(log) : log[i].offset < FileOffset(writer)
<1>1. LogInv /\ DeviceInv /\ Mounted /\ InnerType
  BY DEF Inv, Mounted
<1>2. ASSUME NEW u, NEW R, NEW tr, NEW g, NEW m, NEW N, NEW v, Aligned(u, R, tr, g, m, N, v)
      PROVE  \A i \in 1 .. Len(log) : log[i].offset < FileOffset(writer)
  <2>1. Len(u) = FileOffset(writer)
    BY <1>2 DEF Aligned, WriterInv, FileOffset
  <2> QED
    BY <2>1, <1>1, <1>2, LogEnds
<1>3. ASSUME NEW u, NEW R, NEW tr, NEW g, NEW m, NEW v, Frozen(u, R, tr, g, m, v)
      PROVE  \A i \in 1 .. Len(log) : log[i].offset < FileOffset(writer)
  BY <1>3 DEF Frozen
<1> QED
  BY <1>1, <1>2, <1>3 DEF Mounted

\* A transaction that is committed, whether it writes or truncates.
LEMMA CommitIs ==
    ASSUME Inv, NEW f \in Files, CommitWrite(f) \/ CommitTruncate(f)
    PROVE  \E txn \in Txn :
             /\ Commits(f, FileOffset(writer), txn)
             /\ txn.id = next_id \/ (pending[f] # Hole /\ txn.id = pending[f].id)
             /\ pc = "mounted" /\ committing = f /\ committing' = NoFile
             /\ writer' = WriteRecord(WriteRecord(writer, Mutation(txn)), CommitRecord)
             /\ HasRoom(writer')
             /\ UNCHANGED <<journal, data, unstable, pc, reader, inner, in_flight, syncing, synced, mid_block>>
             /\ next_id <= next_id' /\ next_id' \in 1 .. MaxTxns + 1
<1>0. pc = "mounted"
  BY DEF CommitWrite, CommitTruncate, Commit
<1>1. LogInv /\ DeviceInv /\ AllocInv /\ WriterType
  BY <1>0 DEF Inv, Mounted
<1>2. FileOffset(writer) \in Nat
  BY <1>1 DEF WriterType, Writers, FileOffset
<1>3. \A i \in 1 .. Len(log) : log[i].offset < FileOffset(writer)
  BY <1>0, LogBeforeWriter
<1>4. /\ next_id \in 1 .. MaxTxns + 1 /\ next_id \in Nat /\ MaxTxns \in Nat
      /\ pending \in [Files -> Extents] /\ extents \in [Files -> Extents]
      /\ pending[f] \in Extents /\ extents[f] \in Extents
  BY <1>1, JournalBoundsAssumption DEF DeviceInv, AllocInv
<1>5. extents[f].block \in Blocks \cup {NoBlock}
  BY <1>4, ExtentOf, Constants
<1>6. CASE CommitWrite(f)
  <2> DEFINE txn == [id |-> pending[f].id, file |-> f, new |-> pending[f], old |-> extents[f].block]
  <2>1. pending[f] # Hole /\ pending[f].id < next_id /\ pending[f].id \in 1 .. MaxTxns
    <3>1. pending[f] # Hole
      BY <1>6 DEF CommitWrite
    <3> QED
      BY <3>1, <1>1, <1>4, ExtentOf DEF AllocInv
  <2>2. txn \in Txn
    BY <1>4, <1>5, <2>1 DEF Txn
  <2>3. /\ Commit(txn) /\ pending' = [pending EXCEPT ![f] = Hole] /\ next_id' = next_id
    BY <1>6 DEF CommitWrite
  <2>4. txn.id = pending[f].id /\ txn.file = f /\ txn.new = pending[f] /\ txn.old = extents[f].block
    OBVIOUS
  <2> HIDE DEF txn
  <2>5. /\ committing = f /\ committing' = NoFile
        /\ writer' = WriteRecord(WriteRecord(writer, Mutation(txn)), CommitRecord)
        /\ HasRoom(writer')
        /\ extents' = [extents EXCEPT ![f] = txn.new]
        /\ deallocated' = deallocated \cup Deallocates(FileOffset(writer), txn)
        /\ log' = Append(log, Entry(FileOffset(writer), txn))
        /\ UNCHANGED <<journal, data, unstable, pc, reader, inner, in_flight, syncing, synced, mid_block>>
    BY <2>3, <2>4 DEF Commit, device, replay, history
  <2>6. next_id' \in Nat /\ next_id <= next_id' /\ txn.id < next_id' /\ txn.new.id < next_id'
    BY <2>1, <2>3, <2>4, <1>4
  <2>7. Commits(f, FileOffset(writer), txn)
    BY <1>2, <1>3, <1>4, <2>2, <2>3, <2>4, <2>5, <2>6 DEF Commits
  <2> QED
    BY <1>0, <1>4, <2>1, <2>2, <2>3, <2>4, <2>5, <2>6, <2>7
<1>7. CASE CommitTruncate(f)
  <2> DEFINE txn == [id |-> next_id, file |-> f, new |-> Hole, old |-> extents[f].block]
  <2>1. pending[f] = Hole /\ next_id <= MaxTxns /\ next_id' = next_id + 1 /\ pending' = pending
        /\ Commit(txn)
    BY <1>7 DEF CommitTruncate
  <2>2. txn \in Txn
    <3>1. next_id \in 1 .. MaxTxns /\ Hole \in Extents
      BY <1>4, <2>1, Constants
    <3> QED
      BY <3>1, <1>5 DEF Txn
  <2>3. pending' = [pending EXCEPT ![f] = Hole]
    BY <2>1, <1>4
  <2>4. txn.id = next_id /\ txn.file = f /\ txn.new = Hole /\ txn.old = extents[f].block
    OBVIOUS
  <2> HIDE DEF txn
  <2>5. /\ committing = f /\ committing' = NoFile
        /\ writer' = WriteRecord(WriteRecord(writer, Mutation(txn)), CommitRecord)
        /\ HasRoom(writer')
        /\ extents' = [extents EXCEPT ![f] = txn.new]
        /\ deallocated' = deallocated \cup Deallocates(FileOffset(writer), txn)
        /\ log' = Append(log, Entry(FileOffset(writer), txn))
        /\ UNCHANGED <<journal, data, unstable, pc, reader, inner, in_flight, syncing, synced, mid_block>>
    BY <2>1, <2>4 DEF Commit, device, replay, history
  <2>6. /\ next_id' \in Nat /\ next_id <= next_id' /\ next_id' \in 1 .. MaxTxns + 1
        /\ txn.id < next_id' /\ txn.new.id < next_id'
    BY <2>1, <2>4, <1>4, Constants
  <2>7. Commits(f, FileOffset(writer), txn)
    BY <1>2, <1>3, <1>4, <2>1, <2>2, <2>3, <2>4, <2>5, <2>6 DEF Commits
  <2> QED
    BY <1>0, <1>4, <2>2, <2>4, <2>5, <2>6, <2>7
<1> QED
  BY <1>6, <1>7

\* The blocks it uses and gives up were durably given up by those before it.
LEMMA TidyCommit ==
    ASSUME NEW u, NEW R, NEW tr, NEW g, LogInv, AllocInv, ReuseInv(u, R, tr, g),
           NEW f \in Files, NEW o, NEW txn, Commits(f, o, txn), committing = f,
           NEW r \in Readers, Full(r), Tidy(r), r.flushed = NextFlushed(u, R, tr, g),
           NEW s \in Readers, s.transactions = Append(r.transactions, Entry(o, txn)), s.flushed = r.flushed
    PROVE  Tidy(s) /\ Full(s)'
<1> DEFINE t == s.transactions
           n == Len(log) + 1
<1>1. /\ log' \in Seq(Entries) /\ Len(log') = n /\ Len(log) \in Nat /\ Len(log) >= 1
      /\ \A i \in 1 .. Len(log) : i \in 1 .. Len(log') /\ log'[i] = log[i]
      /\ log'[n] = Entry(o, txn) /\ Entry(o, txn).txn = txn /\ Entry(o, txn).offset = o
      /\ \A i \in 1 .. Len(log') : i \in 1 .. Len(log) \/ i = n
      /\ BlockOf(Entry(o, txn)) = txn.new.block
  BY Appended
<1>2. /\ r.transactions \in Seq(Entries) /\ Len(r.transactions) = Len(log)
      /\ \A i \in 1 .. Len(log) : r.transactions[i] = log[i]
  BY DEF Readers, Full
<1>3. /\ Len(t) = n /\ \A i \in 1 .. Len(log) : t[i] = log[i]
      /\ t[n] = Entry(o, txn)
  <2>1. Entry(o, txn) \in Entries
    BY <1>1, ElementOfSeq
  <2>2. /\ Len(Append(r.transactions, Entry(o, txn))) = Len(r.transactions) + 1
        /\ \A i \in 1 .. Len(r.transactions) : Append(r.transactions, Entry(o, txn))[i] = r.transactions[i]
        /\ Append(r.transactions, Entry(o, txn))[Len(r.transactions) + 1] = Entry(o, txn)
    BY <2>1, <1>2, AppendProperties
  <2> QED
    BY <2>2, <1>2
<1>4. Full(s)'
  BY <1>1, <1>3 DEF Full
<1>5. /\ txn.file = f /\ txn.new = pending[f] /\ txn.old = extents[f].block
      /\ pending[f] \in Extents /\ extents[f] \in Extents
  BY DEF Commits, AllocInv
<1> HIDE DEF t, n
<1>6. \A i \in 1 .. n : i \in 1 .. Len(log) \/ i = n
  BY <1>1 DEF n
<1>7. ASSUME NEW i \in 1 .. n, NEW j \in 1 .. n, i < j, BlockOf(t[i]) # NoBlock, BlockOf(t[i]) = BlockOf(t[j])
      PROVE  t[i].offset < s.flushed
  <2>0. i \in 1 .. Len(log)
    BY <1>1, <1>6, <1>7 DEF n
  <2>1. CASE j \in 1 .. Len(log)
    <3>1. BlockOf(r.transactions[i]) # NoBlock /\ BlockOf(r.transactions[i]) = BlockOf(r.transactions[j])
      BY <2>0, <2>1, <1>2, <1>3, <1>7
    <3>2. r.transactions[i].offset < r.flushed
      BY <3>1, <2>0, <2>1, <1>2, <1>7 DEF Tidy
    <3> QED
      BY <3>2, <2>0, <1>2, <1>3
  <2>2. CASE j = n
    <3>1. BlockOf(log[i]) = pending[f].block /\ pending[f].block # NoBlock
      BY <2>0, <2>2, <1>1, <1>3, <1>5, <1>7
    <3>2. pending[f] # Hole
      BY <3>1, Constants
    <3>3. log[i].offset < NextFlushed(u, R, tr, g)
      BY <2>0, <3>1, <3>2 DEF ReuseInv
    <3> QED
      BY <3>3, <2>0, <1>3
  <2> QED
    BY <2>1, <2>2, <1>6
<1>8. ASSUME NEW i \in 1 .. n, NEW j \in 1 .. n, NEW k \in 1 .. n, i < j, j < k, BlockOf(t[i]) # NoBlock,
             t[j].txn.old = BlockOf(t[i]), t[k].txn.old = BlockOf(t[i])
      PROVE  t[i].offset < s.flushed
  <2>0. i \in 1 .. Len(log) /\ j \in 1 .. Len(log)
    BY <1>1, <1>6, <1>8 DEF n
  <2>1. CASE k \in 1 .. Len(log)
    <3>1. /\ BlockOf(r.transactions[i]) # NoBlock /\ r.transactions[j].txn.old = BlockOf(r.transactions[i])
          /\ r.transactions[k].txn.old = BlockOf(r.transactions[i])
      BY <2>0, <2>1, <1>2, <1>3, <1>8
    <3>2. r.transactions[i].offset < r.flushed
      BY <3>1, <2>0, <2>1, <1>2, <1>8 DEF Tidy
    <3> QED
      BY <3>2, <2>0, <1>2, <1>3
  <2>2. CASE k = n
    <3>1. /\ extents[f].block = BlockOf(log[i]) /\ BlockOf(log[i]) # NoBlock
          /\ log[j].txn.old = BlockOf(log[i]) /\ t[i] = log[i]
      BY <2>0, <2>2, <1>1, <1>3, <1>5, <1>8
    <3>2. extents[f] # Hole
      BY <3>1, Constants
    <3>3. PICK l \in 1 .. Len(log) :
             /\ log[l].txn.file = f /\ extents[f] = log[l].txn.new
             /\ \A e \in l + 1 .. Len(log) : log[e].txn.file # f
             /\ BlockOf(log[l]) = extents[f].block /\ BlockOf(log[l]) # NoBlock
      BY <3>2, ExtentIs
    <3>4. \A a, b \in 1 .. Len(log) :
           a < b /\ BlockOf(log[a]) # NoBlock
             /\ (log[b].txn.old = BlockOf(log[a]) \/ BlockOf(log[b]) = BlockOf(log[a]))
             => \E e \in a + 1 .. b : log[e].txn.file = log[a].txn.file
      BY DEF LogInv
    <3>5. l # i
      <4>1. SUFFICES ASSUME l = i PROVE FALSE
        OBVIOUS
      <4>2. PICK e \in i + 1 .. j : log[e].txn.file = log[i].txn.file
        BY <3>1, <3>4, <2>0, <1>8
      <4>3. e \in l + 1 .. Len(log)
        BY <4>1, <2>0, <1>1
      <4> QED
        BY <4>1, <4>2, <4>3, <3>3
    <3>6. ~(l < i)
      <4>1. SUFFICES ASSUME l < i PROVE FALSE
        OBVIOUS
      <4>2. PICK e \in l + 1 .. i : log[e].txn.file = log[l].txn.file
        BY <4>1, <3>1, <3>3, <3>4, <2>0
      <4>3. e \in l + 1 .. Len(log)
        BY <2>0, <1>1
      <4> QED
        BY <4>2, <4>3, <3>3
    <3>7. i < l
      BY <3>5, <3>6, <2>0
    <3>8. BlockOf(r.transactions[i]) # NoBlock /\ BlockOf(r.transactions[i]) = BlockOf(r.transactions[l])
      BY <3>1, <3>3, <2>0, <1>2
    <3>9. r.transactions[i].offset < r.flushed
      BY <3>7, <3>8, <2>0, <1>2 DEF Tidy
    <3> QED
      BY <3>9, <3>1, <2>0, <1>2
  <2> QED
    BY <2>1, <2>2, <1>6
<1>9. Len(s.transactions) = n
  BY <1>3 DEF t
<1>10. Tidy(s)
  BY <1>7, <1>8, <1>9 DEF Tidy, t
<1> QED
  BY <1>4, <1>10

\* The stream with a transaction behind it, as replay() reads it.
Staged(u, R, tr, g, txn, u2, tr2, y, x) ==
    /\ Stage(u, R, tr, g, u2, tr2, y, x, {Mutation(txn), CommitRecord}) /\ Len(y) = MutationSize + 1
    /\ WriteRecord(WriteRecord(writer, Mutation(txn)), CommitRecord) = Buffered(writer, y)
    /\ Full(x)' /\ x.current = NoEntry /\ x.flushed = NextFlushed(u, R, tr, g)
    /\ u2[Len(u) + 1].record = Mutation(txn)

\* The mutations and the Commit record, as replay() reads them.
LEMMA StageCommit ==
    ASSUME NEW u, NEW R, NEW tr, NEW g, NEW m, NEW N, NEW v, Aligned(u, R, tr, g, m, N, v),
           LogInv, DeviceInv, InnerType, WriterType, AllocInv,
           NEW f \in Files, NEW txn \in Txn, Commits(f, Len(u), txn), committing = f
    PROVE  \E u2, tr2, y, x : Staged(u, R, tr, g, txn, u2, tr2, y, x)
<1> DEFINE r0 == Resumed(tr[Len(u)], Len(u), R)
           rec == Mutation(txn)
           a == AtRecord(r0, rec)
           x1 == Past(r0, rec, Len(u) + Size(rec))
<1>1. /\ Len(u) \in Nat /\ IsStream(u, R, tr) /\ At(g) \in Nat /\ At(g) <= Len(u)
      /\ DurableOffset(g) \in Nat /\ BlockSize \in Nat /\ BlockSize >= 3
      /\ Len(u) <= EndOfFile /\ EndOfFile \in Nat
  BY AlignedIs
<1>2. ReuseInv(u, R, tr, g) /\ inner.discard_offset = NoOffset
  BY FilesAssumption DEF Aligned, ReuseInv
<1>3. /\ r0 \in Readers /\ r0.current = NoEntry /\ r0.flushed = NextFlushed(u, R, tr, g) /\ Tidy(r0)
      /\ r0.position = Len(u) /\ Full(r0)
      /\ \A p \in R : p \in Nat /\ p <= At(g)
  BY <1>2, ResumedIs
<1>4. \A p \in R : p \in Nat /\ p <= Len(u)
  BY <1>1, <1>3
<1>5. Stage(u, R, tr, g, u, tr, <<>>, r0, {})
  BY StageStart
<1>6. NextFlushed(u, R, tr, g) \in Nat /\ NextFlushed(u, R, tr, g) <= DurableOffset(g)
  BY NextFlushedIs
<1>7. writer \in Writers /\ txn \in AnyTxn
  BY DEF WriterType, AnyTxn
<1>8. /\ rec \in Records /\ Size(rec) = MutationSize /\ Size(rec) \in 1 .. BlockSize /\ Size(rec) \in Nat
      /\ CommitRecord \in Records /\ Size(CommitRecord) = 1 /\ Size(CommitRecord) \in 1 .. BlockSize
      /\ MutationSize \in Nat /\ MutationSize >= 1
  <2>1. rec \in Records /\ Size(rec) = MutationSize /\ CommitRecord \in Records /\ Size(CommitRecord) = 1
    BY <1>1, <1>7, RecordTypes
  <2>2. MutationSize \in 1 .. BlockSize /\ MutationSize \in Nat /\ 1 \in 1 .. BlockSize /\ MutationSize >= 1
    BY SizesAssumption
  <2> QED
    BY <2>1, <2>2
<1>9. /\ Entry(Len(u), txn) \in Entries /\ Entry(Len(u), txn) # NoEntry
  <2>1. Entry(Len(u), txn) \in Entries
    BY <1>1, <1>7 DEF Entry, Entries
  <2>2. Entry(Len(u), txn).offset = Len(u) /\ NoEntry.offset = NoOffset
    BY DEF Entry, NoEntry
  <2>3. Len(u) # NoOffset
    BY <1>1, Constants
  <2> QED
    BY <2>1, <2>2, <2>3
<1> HIDE DEF r0
<1>10. a = [r0 EXCEPT !.current = Entry(Len(u), txn)]
  BY <1>3, <1>7, AtMutation
<1> HIDE DEF rec
<1>11. /\ a \in Readers /\ a.transactions = r0.transactions /\ a.current = Entry(Len(u), txn)
       /\ a.flushed = r0.flushed /\ a.transactions \in Seq(Entries)
  BY <1>3, <1>9, <1>10 DEF Readers
<1> HIDE DEF a
<1>12. Tidy(a)
  BY <1>3, <1>11 DEF Tidy
<1>13. PICK u1, tr1 : Stage(u, R, tr, g, u1, tr1, <<>> \o Units(rec), x1, {} \cup {rec})
  <2>1. r0.flushed <= a.flushed /\ a.flushed <= DurableOffset(g)
    BY <1>3, <1>6, <1>11
  <2> QED
    BY <2>1, <1>1, <1>3, <1>4, <1>5, <1>6, <1>8, <1>11, <1>12, StageRecord DEF a
<1>14. Units(rec) \in Seq(AllUnits) /\ Len(Units(rec)) = MutationSize /\ <<>> \o Units(rec) = Units(rec)
  <2>1. Units(rec) \in Seq(AllUnits) /\ Len(Units(rec)) = Size(rec)
    BY <1>8, UnitsIs
  <2>2. <<>> \o Units(rec) = Units(rec)
    BY <2>1, ConcatEmptySeq
  <2> QED
    BY <2>1, <2>2, <1>8
<1>15. x1 = [a EXCEPT !.offset = Len(u) + Size(rec), !.position = Len(u) + Size(rec)]
  BY DEF Past, a
<1>16. x1.transactions = r0.transactions /\ x1.current = Entry(Len(u), txn) /\ x1.flushed = r0.flushed
       /\ x1 \in Readers
  <2>1. Len(u) + Size(rec) \in Nat
    BY <1>1, <1>8
  <2> QED
    BY <2>1, <1>15, <1>11 DEF Readers
<1> HIDE DEF x1
<1>17. Full(x1) /\ Tidy(x1)
  BY <1>16, <1>3 DEF Full, Tidy
<1> DEFINE c == AtRecord(x1, CommitRecord)
<1>18. c = [x1 EXCEPT !.transactions = Append(@, x1.current), !.current = NoEntry]
  BY <1>16, <1>9, AtCommit
<1>19. /\ c \in Readers /\ c.transactions = Append(x1.transactions, Entry(Len(u), txn)) /\ c.current = NoEntry
       /\ c.flushed = x1.flushed /\ c.transactions \in Seq(Entries)
  <2>1. x1.transactions \in Seq(Entries)
    BY <1>16 DEF Readers
  <2>2. Append(x1.transactions, Entry(Len(u), txn)) \in Seq(Entries)
    BY <2>1, <1>9, AppendProperties
  <2> QED
    BY <2>2, <1>16, <1>18, Constants DEF Readers
<1> HIDE DEF c
<1>20. Tidy(c) /\ Full(c)'
  BY <1>2, <1>3, <1>16, <1>17, <1>19, TidyCommit
<1>21. Stage(u, R, tr, g, u1, tr1, Units(rec), x1, {rec})
  BY <1>13, <1>14
<1>22. PICK u2, tr2 : Stage(u, R, tr, g, u2, tr2, Units(rec) \o Units(CommitRecord),
                            Past(x1, CommitRecord, Len(u1) + Size(CommitRecord)), {rec} \cup {CommitRecord})
  <2>1. x1.flushed <= c.flushed /\ c.flushed <= DurableOffset(g)
    BY <1>3, <1>6, <1>16, <1>19
  <2> QED
    BY <2>1, <1>1, <1>4, <1>6, <1>8, <1>17, <1>19, <1>20, <1>21, StageRecord DEF c
<1> DEFINE x == Past(x1, CommitRecord, Len(u1) + Size(CommitRecord))
           y == Units(rec) \o Units(CommitRecord)
<1>23. x = [c EXCEPT !.offset = Len(u1) + Size(CommitRecord), !.position = Len(u1) + Size(CommitRecord)]
  BY DEF Past, c
<1>24. x.transactions = c.transactions /\ x.current = NoEntry /\ x.flushed = NextFlushed(u, R, tr, g)
  BY <1>23, <1>19, <1>16, <1>3 DEF Readers
<1> HIDE DEF x
<1>25. Full(x)'
  BY <1>24, <1>20 DEF Full
<1>26. Units(CommitRecord) \in Seq(AllUnits) /\ Len(Units(CommitRecord)) = 1
  <2>1. Size(CommitRecord) \in Nat
    BY <1>8
  <2>2. Units(CommitRecord) \in Seq(AllUnits) /\ Len(Units(CommitRecord)) = Size(CommitRecord)
    BY <2>1, <1>8, UnitsIs
  <2> QED
    BY <2>2, <1>8
<1>27. Len(y) = MutationSize + 1 /\ y[1] = Units(rec)[1]
  <2>1. \A b1, b2 \in Seq(AllUnits) : Len(b1 \o b2) = Len(b1) + Len(b2)
    BY ConcatProperties
  <2>2. Len(y) = MutationSize + 1
    BY <2>1, <1>14, <1>26
  <2>3. 1 \in 1 .. MutationSize + 1 /\ 1 <= MutationSize
    BY <1>8
  <2>4. y[1] = IF 1 <= MutationSize THEN Units(rec)[1] ELSE Units(CommitRecord)[1 - MutationSize]
    BY <2>3, <1>14, <1>26, ConcatIs
  <2> QED
    BY <2>2, <2>3, <2>4
<1>28. Units(rec)[1].record = rec
  <2>1. 1 \in 1 .. Size(rec)
    BY <1>8
  <2>2. Units(rec)[1] = [part |-> 1, record |-> rec]
    BY <2>1, <1>8, UnitsIs
  <2> QED
    BY <2>2
<1>29. Stage(u, R, tr, g, u2, tr2, y, x, {rec, CommitRecord})
  <2>1. {rec} \cup {CommitRecord} = {rec, CommitRecord}
    OBVIOUS
  <2> QED
    BY <2>1, <1>22 DEF x
<1>30. WriteRecord(WriteRecord(writer, rec), CommitRecord) = Buffered(writer, y)
  <2>1. WriteRecord(WriteRecord(writer, rec), CommitRecord)
          = Buffered(Buffered(writer, Units(rec)), Units(CommitRecord))
    BY WriteRecordIs
  <2> QED
    BY <2>1, <1>7, <1>14, <1>26, BufferedIs
<1> HIDE DEF y
<1>31. u2[Len(u) + 1].record = rec
  <2>1. 1 \in 1 .. Len(y)
    BY <1>27, <1>8
  <2>2. u2[Len(u) + 1] = y[1]
    BY <2>1, <1>29 DEF Stage
  <2> QED
    BY <2>2, <1>27, <1>28
<1>32. Staged(u, R, tr, g, txn, u2, tr2, y, x)
  BY <1>24, <1>25, <1>27, <1>29, <1>30, <1>31 DEF rec, Staged
<1> QED
  BY <1>32

\* A transaction is committed, and applied.
LEMMA CommitKeeps ==
    ASSUME Inv, NEW f \in Files, CommitWrite(f) \/ CommitTruncate(f)
    PROVE  Inv'
<1>1. PICK txn \in Txn :
             /\ Commits(f, FileOffset(writer), txn)
             /\ txn.id = next_id \/ (pending[f] # Hole /\ txn.id = pending[f].id)
             /\ pc = "mounted" /\ committing = f /\ committing' = NoFile
             /\ writer' = WriteRecord(WriteRecord(writer, Mutation(txn)), CommitRecord)
             /\ HasRoom(writer')
             /\ UNCHANGED <<journal, data, unstable, pc, reader, inner, in_flight, syncing, synced, mid_block>>
             /\ next_id <= next_id' /\ next_id' \in 1 .. MaxTxns + 1
  BY CommitIs
<1> DEFINE o == FileOffset(writer)
<1>2. /\ LogInv /\ DeviceInv /\ Mounted /\ InnerType /\ WriterType
      /\ SyncType /\ InFlightInv /\ AllocInv
  BY <1>1 DEF Inv, Mounted
<1>3. LogInv' /\ AllocInv'
  BY <1>1, <1>2, LogCommit, AllocCommit
<1>4. /\ log' \in Seq(Entries) /\ Len(log') = Len(log) + 1 /\ Len(log) \in Nat /\ Len(log) >= 1
      /\ \A i \in 1 .. Len(log) : i \in 1 .. Len(log') /\ log'[i] = log[i]
      /\ log'[Len(log) + 1] = Entry(o, txn) /\ Entry(o, txn).txn = txn /\ Entry(o, txn).offset = o
      /\ \A i \in 1 .. Len(log') : i \in 1 .. Len(log) \/ i = Len(log) + 1
      /\ BlockOf(Entry(o, txn)) = txn.new.block
  BY <1>1, <1>2, Appended
<1>5. /\ o \in Nat /\ txn.new = pending[f] /\ txn.old = extents[f].block /\ txn.file = f
      /\ pending' = [pending EXCEPT ![f] = Hole] /\ next_id \in Nat /\ next_id' \in Nat
      /\ txn.id < next_id' /\ deallocated' = deallocated \cup Deallocates(o, txn)
  BY <1>1 DEF Commits
<1> HIDE DEF o
<1>6. DeviceInv'
  <2>1. \A b \in Blocks : \A n \in unstable.data[b] : n < next_id'
    <3> TAKE b \in Blocks
    <3> TAKE n \in unstable.data[b]
    <3>1. n \in 0 .. MaxTxns /\ n < next_id
      BY <1>2 DEF DeviceInv
    <3> QED
      BY <3>1, <1>1, <1>5
  <2> QED
    BY <2>1, <1>1, <1>2 DEF DeviceInv
<1>7. InnerType' /\ InFlightInv'
  BY <1>1, <1>2 DEF InnerType, InFlightInv
<1>8. SyncType'
  <2>1. /\ syncing \in [pc : {"idle", "flushing", "flushed"}, offset : Nat, upto : Nat]
        /\ syncing.upto + 1 <= Len(log)
    BY <1>2 DEF SyncType
  <2>2. syncing.upto \in Nat
    BY <2>1
  <2>3. syncing.upto + 1 <= Len(log')
    BY <2>1, <2>2, <1>4
  <2> QED
    BY <2>1, <2>3, <1>1 DEF SyncType
<1>9. \A i \in Len(log) + 1 .. Len(log') : i = Len(log) + 1 /\ log'[i] = Entry(o, txn) /\ log'[i].offset = o
  BY <1>4
<1>10. Longer(o)
  BY <1>4, <1>5, <1>9 DEF Longer
<1>11. writer \in Writers /\ txn \in AnyTxn /\ MutationSize \in Nat
  BY <1>2, SizesAssumption DEF WriterType, AnyTxn
<1>12. PICK y \in Seq(AllUnits) : writer' = Buffered(writer, y) /\ Len(y) = MutationSize + 1
  <2> DEFINE a == Units(Mutation(txn))
             b == Units(CommitRecord)
  <2>1. Mutation(txn) \in Records /\ Size(Mutation(txn)) = MutationSize
    BY <1>5, <1>11, RecordTypes
  <2>2. CommitRecord \in Records /\ Size(CommitRecord) = 1
    BY <1>5, <1>11, RecordTypes
  <2>3. a \in Seq(AllUnits) /\ Len(a) = MutationSize
    BY <2>1, <1>11, UnitsIs
  <2>4. b \in Seq(AllUnits) /\ Len(b) = 1
    <3>1. Size(CommitRecord) \in Nat
      BY <2>2
    <3>2. b \in Seq(AllUnits) /\ Len(b) = Size(CommitRecord)
      BY <3>1, <2>2, UnitsIs
    <3> QED
      BY <3>2, <2>2
  <2>5. writer' = Buffered(Buffered(writer, a), b)
    BY <1>1, WriteRecordIs
  <2> HIDE DEF a, b
  <2>6. writer' = Buffered(writer, a \o b)
    BY <2>3, <2>4, <2>5, <1>11, BufferedIs
  <2>7. \A b1, b2 \in Seq(AllUnits) : b1 \o b2 \in Seq(AllUnits) /\ Len(b1 \o b2) = Len(b1) + Len(b2)
    BY ConcatProperties
  <2>8. a \o b \in Seq(AllUnits) /\ Len(a \o b) = MutationSize + 1
    BY <2>3, <2>4, <2>7
  <2> QED
    BY <2>6, <2>8
<1>13. /\ FileOffset(writer') = o + MutationSize + 1 /\ writer' \in Writers
  <2>1. FileOffset(writer') = o + Len(y) /\ writer' \in Writers
    BY <1>11, <1>12, BufferedIs DEF o
  <2> QED
    BY <2>1, <1>12, <1>5, <1>11
<1>14. WriterType'
  BY <1>1, <1>2, <1>13 DEF WriterType
<1>15. ASSUME NEW u, NEW R, NEW tr, NEW g, NEW m, NEW v, Frozen(u, R, tr, g, m, v)
       PROVE  FrozenStep(tr, g)
  <2>1. \A i \in Len(log) + 1 .. Len(log') : log'[i].offset < FileOffset(writer')
    BY <1>9, <1>13, <1>5, <1>11
  <2> QED
    BY <2>1, <1>1, <1>2, <1>3, <1>10, <1>12, <1>15, FrozenWrites DEF o
<1>16. ASSUME NEW u, NEW R, NEW tr, NEW g, NEW m, NEW N, NEW v, Aligned(u, R, tr, g, m, N, v)
       PROVE  (\E u1, R1, tr1, g1, m1, N1, v1 : Aligned(u1, R1, tr1, g1, m1, N1, v1))'
  <2>1. /\ Len(u) \in Nat /\ At(g) \in Nat /\ At(g) <= Len(u) /\ DurableOffset(g) \in Nat /\ g \in Nat
        /\ inner.device_flushed_offset \in Nat /\ EndOfFile \in Nat /\ BlockSize \in Nat /\ BlockSize >= 3
        /\ At(g + 1) = At(g) + BlockSize /\ N \in Nat /\ N <= next_id
        /\ inner.flushed_offset \in Nat /\ DurableOffset(g) <= inner.flushed_offset
        /\ inner.flushed_offset <= writer.offset /\ writer.offset \in Nat /\ writer.offset <= Len(u)
    BY <1>2, <1>16, AlignedIs
  <2>2. o = Len(u)
    BY <1>16 DEF Aligned, WriterInv, FileOffset, o
  <2>3. Commits(f, Len(u), txn)
    BY <1>1, <2>2 DEF o
  <2>4a. PICK u2, tr2, z, x : Staged(u, R, tr, g, txn, u2, tr2, z, x)
    BY <1>1, <1>2, <1>16, <2>3, StageCommit
  <2>4. /\ Stage(u, R, tr, g, u2, tr2, z, x, {Mutation(txn), CommitRecord}) /\ Len(z) = MutationSize + 1
        /\ WriteRecord(WriteRecord(writer, Mutation(txn)), CommitRecord) = Buffered(writer, z)
        /\ Full(x)' /\ x.current = NoEntry /\ x.flushed = NextFlushed(u, R, tr, g)
        /\ u2[Len(u) + 1].record = Mutation(txn)
    BY <2>4a DEF Staged
  <2>5. /\ Len(u2) = Len(u) + MutationSize + 1 /\ Len(u2) \in Nat /\ Len(u2) > Len(u) /\ Len(z) > 0
        /\ writer' = Buffered(writer, z)
    <3>1. Len(u2) = Len(u) + Len(z)
      BY <2>4 DEF Stage
    <3>2. Len(z) = MutationSize + 1 /\ writer' = Buffered(writer, z)
      BY <1>1, <2>4
    <3> QED
      BY <3>1, <3>2, <2>1, <1>11
  <2>6. Len(u2) <= EndOfFile
    <3>1. FileOffset(writer') <= EndOfFile - BlockSize
      BY <1>1 DEF HasRoom
    <3> QED
      BY <3>1, <1>13, <2>1, <2>2, <2>5, <1>11
  <2>7. txn.id \in Nat /\ txn.id >= N
    <3>1. txn.id \in Nat
      BY <1>11, TxnOf
    <3>2. pending[f] # Hole => pending[f].id >= N
      BY <1>16 DEF Aligned
    <3> QED
      BY <3>1, <3>2, <1>1, <1>5, <2>1
  <2>8. Mutation(txn).txn = txn /\ CommitRecord.txn = NoTxn /\ CommitRecord.kind # "Mutation"
    BY DEF Mutation, CommitRecord, Record
  <2>9. Longer(Len(u))
    BY <1>10, <2>2
  <2>10. Writes(u, tr, u2, tr2, R, z)
    <3>1. \A rec \in {Mutation(txn), CommitRecord} : rec.txn.id < next_id'
      <4>1. NoTxn.id < next_id'
        BY <1>1, <1>5, Constants
      <4> QED
        BY <4>1, <2>8, <1>5
    <3>2. \A i \in Len(log) + 1 .. Len(log') :
             BlockOf(log'[i]) # NoBlock => data[BlockOf(log'[i])] = log'[i].txn.new.id
      <4>1. SUFFICES ASSUME pending[f].block # NoBlock PROVE data[pending[f].block] = pending[f].id
        BY <1>4, <1>5, <1>9
      <4>2. pending[f] # Hole
        BY <4>1, Constants
      <4> QED
        BY <4>2, <1>2 DEF AllocInv
    <3> QED
      BY <3>1, <3>2, <2>1, <2>4, <2>5, <2>6, <2>9, <1>1, <1>2, StageWrites
  <2>11. Timeline(u2, R, tr2, g, m)'
    <3>1. \A i \in Len(log) + 1 .. Len(log') : log'[i].offset + MutationSize + 1 = Len(u2)
      BY <1>9, <2>2, <2>5
    <3>2. inner'.discard_offset = NoOffset
      BY <1>1, <1>16, FilesAssumption DEF Aligned, ReuseInv
    <3> QED
      BY <3>1, <3>2, <2>4, <2>5, <2>9, <1>1, <1>2, <1>3, <1>16, TimelineExt
  <2>12. Marked(u2, R, g, N)'
    <3>1. SUFFICES ASSUME At(g) \in R
                   PROVE  /\ \E j \in At(g) + 1 .. At(g + 1) : j <= Len(u2) /\ u2[j].record.txn.id >= N
                          /\ \A j \in At(g) + 1 .. Len(u2) : u2[j].record.kind = "Mutation" => u2[j].record.txn.id >= N
      BY DEF Marked
    <3>2. \A j \in 1 .. Len(u) : u2[j] = u[j]
      BY <2>4 DEF Stage
    <3>3. Marked(u, R, g, N)
      BY <1>16 DEF Aligned
    <3>4. ASSUME NEW j \in At(g) + 1 .. Len(u2), u2[j].record.kind = "Mutation"
          PROVE  u2[j].record.txn.id >= N
      <4>1. CASE j \in At(g) + 1 .. Len(u)
        <5>1. j \in 1 .. Len(u)
          BY <4>1, <2>1
        <5> QED
          BY <4>1, <5>1, <3>1, <3>2, <3>3, <3>4 DEF Marked
      <4>2. CASE j \in Len(u) + 1 .. Len(u2)
        <5>1. j - Len(u) \in 1 .. Len(z) /\ Len(u) + (j - Len(u)) = j
          BY <4>2, <2>1, <2>4, <2>5, <1>11
        <5>2. u2[j].record \in {Mutation(txn), CommitRecord}
          BY <5>1, <2>4 DEF Stage
        <5> QED
          BY <5>2, <3>4, <2>7, <2>8
      <4> QED
        BY <4>1, <4>2, <2>1, <2>5
    <3>5. CASE Len(u) <= At(g) + 2
      <4>1. Len(u) + 1 \in At(g) + 1 .. At(g + 1) /\ Len(u) + 1 <= Len(u2)
        <5>1. \A a, b, c, l \in Nat : a <= l /\ l <= a + 2 /\ c = a + b /\ b >= 3
                                   => l + 1 \in a + 1 .. c
          OBVIOUS
        <5>2. \A l, n \in Nat : l < n => l + 1 <= n
          OBVIOUS
        <5>3. At(g + 1) \in Nat
          BY <2>1
        <5> QED
          BY <5>1, <5>2, <5>3, <3>5, <2>1, <2>5
      <4>2. u2[Len(u) + 1].record.txn.id >= N
        BY <2>4, <2>7, <2>8
      <4> QED
        BY <4>1, <4>2, <3>4
    <3>6. CASE \E j \in At(g) + 1 .. At(g + 1) : j <= Len(u) /\ u[j].record.txn.id >= N
      <4>1. PICK j \in At(g) + 1 .. At(g + 1) : j <= Len(u) /\ u[j].record.txn.id >= N
        BY <3>6
      <4>2. j \in 1 .. Len(u) /\ j <= Len(u2)
        BY <4>1, <2>1, <2>5
      <4>3. u2[j].record.txn.id >= N
        BY <4>1, <4>2, <3>2
      <4> QED
        BY <4>2, <4>3, <3>4
    <3>7. Len(u) <= At(g) + 2 \/ \E j \in At(g) + 1 .. At(g + 1) : j <= Len(u) /\ u[j].record.txn.id >= N
      <4>1. Len(u) = At(g) => Len(u) <= At(g) + 2
        BY <2>1
      <4> QED
        BY <4>1, <3>1, <3>3 DEF Marked
    <3> QED
      BY <3>5, <3>6, <3>7
  <2>13. ReuseInv(u2, R, tr2, g)'
    <3>1. NextFlushed(u2, R, tr2, g) = NextFlushed(u, R, tr, g)
      <4>1. Len(u2) # At(g)
        BY <2>1, <2>5
      <4>2. x = tr2[Len(u2)]
        BY <2>4, <2>5 DEF Stage
      <4> QED
        BY <4>1, <4>2, <2>4 DEF NextFlushed
    <3>2. ReuseInv(u, R, tr, g)
      BY <1>16 DEF Aligned
    <3>3. DurableOffset(g)' = DurableOffset(g)
      BY <1>1 DEF DurableOffset
    <3>4. pending \in [Files -> Extents]
      BY <1>2 DEF AllocInv
    <3>5. ASSUME NEW e \in Files, NEW i \in 1 .. Len(log'), pending'[e] # Hole, BlockOf(log'[i]) = pending'[e].block
          PROVE  \/ log'[i].offset < NextFlushed(u2, R, tr2, g)
                 \/ /\ inner'.needs_did_flush_device /\ committing' # e
                    /\ log'[i].offset < inner'.device_flushed_offset
      <4>1. e # f /\ pending'[e] = pending[e] /\ pending[e] # Hole
        BY <3>4, <3>5, <1>5
      <4>2. CASE i \in 1 .. Len(log)
        <5>1. log'[i] = log[i]
          BY <4>2, <1>4
        <5>2. \/ log[i].offset < NextFlushed(u, R, tr, g)
              \/ inner.needs_did_flush_device /\ log[i].offset < inner.device_flushed_offset
          BY <4>1, <4>2, <5>1, <3>2, <3>5 DEF ReuseInv
        <5>3. committing' # e
          BY <1>1, FilesAssumption
        <5> QED
          BY <5>1, <5>2, <5>3, <3>1, <1>1
      <4>3. CASE i = Len(log) + 1
        <5>1. pending[f].block = pending[e].block
          BY <4>1, <4>3, <3>5, <1>4, <1>5
        <5>2. pending[f].block # pending[e].block
          BY <4>1, <1>2 DEF AllocInv
        <5> QED
          BY <5>1, <5>2
      <4> QED
        BY <4>2, <4>3, <1>4
    <3>6. inner'.needs_did_flush_device \/ inner'.device_flushed_offset <= NextFlushed(u2, R, tr2, g)
      BY <3>1, <3>2, <1>1 DEF ReuseInv
    <3>7. ASSUME NEW k \in 1 .. Len(log'), log'[k].offset >= DurableOffset(g), log'[k].txn.old # NoBlock
          PROVE  [offset |-> log'[k].offset, block |-> log'[k].txn.old] \in deallocated'
      <4>1. CASE k \in 1 .. Len(log)
        <5>1. log'[k] = log[k]
          BY <4>1, <1>4
        <5> QED
          BY <4>1, <5>1, <3>2, <3>7, <1>5 DEF ReuseInv
      <4>2. CASE k = Len(log) + 1
        <5>1. log'[k].offset = o /\ log'[k].txn = txn
          BY <4>2, <1>4
        <5> QED
          BY <5>1, <3>7, <1>5 DEF Deallocates
      <4> QED
        BY <4>1, <4>2, <1>4
    <3> QED
      BY <3>3, <3>5, <3>6, <3>7, <1>1 DEF ReuseInv
  <2>14. SyncInv(u2, R, tr2, g, m)'
    BY <2>10, <1>1, <1>2, <1>3, <1>6, <1>16, SyncExt
  <2>15. \A e \in Files : pending'[e] # Hole => pending'[e].id >= N
    <3>1. pending \in [Files -> Extents] /\ \A e \in Files : pending[e] # Hole => pending[e].id >= N
      BY <1>2, <1>16 DEF AllocInv, Aligned
    <3> QED
      BY <3>1, <1>5
  <2>16. Aligned(u2, R, tr2, g, m, N, v)'
    BY <2>10, <2>11, <2>12, <2>13, <2>14, <2>15, <1>2, <1>3, <1>6, <1>16, AlignedExt
  <2> QED
    BY <2>16
<1> QED
  BY <1>1, <1>2, <1>3, <1>6, <1>7, <1>8, <1>14, <1>15, <1>16, MountedStep

-----------------------------------------------------------------------------
(* sync() pads the block. *)

\* EndBlock and the padding, as replay() reads them.
LEMMA StagePad ==
    ASSUME NEW u, NEW R, NEW tr, NEW g, NEW m, NEW N, NEW v, Aligned(u, R, tr, g, m, N, v),
           LogInv, DeviceInv, InnerType, WriterType, FileOffset(writer) % BlockSize # 0
    PROVE  /\ Len(u) > At(g) /\ inner.discard_offset = NoOffset
           /\ \E u2, tr2, y, x, rec :
                /\ Stage(u, R, tr, g, u2, tr2, y, x, {rec}) /\ Len(y) > 0 /\ PadToBlock(writer) = Buffered(writer, y)
                /\ Full(x) /\ x.current = NoEntry /\ x.flushed = NextFlushed(u, R, tr, g)
                /\ rec.kind # "Mutation" /\ rec.txn = NoTxn
<1> DEFINE r0 == Resumed(tr[Len(u)], Len(u), R)
           k == BlockSize - (Len(writer.buf) % BlockSize)
           rec == EndBlock(k)
           x == Past(r0, rec, Len(u) + Size(rec))
<1>1. /\ Len(u) \in Nat /\ IsStream(u, R, tr) /\ At(g) \in Nat /\ At(g) <= Len(u) /\ g \in Nat
      /\ DurableOffset(g) \in Nat /\ BlockSize \in Nat /\ BlockSize >= 3
  BY AlignedIs
<1>2. Len(u) = FileOffset(writer) /\ writer \in Writers
  BY DEF Aligned, WriterInv, FileOffset, WriterType
<1>3. Len(u) # At(g)
  BY <1>1, <1>2, ModAt
<1>4. Len(u) > At(g)
  BY <1>1, <1>3
<1>5. inner.discard_offset = NoOffset
  BY <1>4 DEF Aligned, Timeline
<1>6. /\ r0 \in Readers /\ r0.current = NoEntry /\ r0.flushed = NextFlushed(u, R, tr, g) /\ Tidy(r0)
      /\ Full(r0)
      /\ \A p \in R : p \in Nat /\ p <= At(g)
  BY <1>5, ResumedIs
<1>7. \A p \in R : p \in Nat /\ p <= Len(u)
  BY <1>1, <1>6
<1>8. Stage(u, R, tr, g, u, tr, <<>>, r0, {})
  BY StageStart
<1>9. NextFlushed(u, R, tr, g) \in Nat /\ NextFlushed(u, R, tr, g) <= DurableOffset(g)
  BY NextFlushedIs
<1>10. k \in 1 .. BlockSize
  <2>1. Len(writer.buf) \in Nat
    BY <1>2 DEF Writers
  <2>2. PICK n : n = Len(writer.buf) \div BlockSize
    OBVIOUS
  <2>3. /\ n \in Nat /\ At(n) <= Len(writer.buf) /\ Len(writer.buf) < At(n) + BlockSize
        /\ Len(writer.buf) % BlockSize = Len(writer.buf) - At(n)
    BY <2>1, <2>2, Division
  <2>4. At(n) \in Nat
    BY <2>3, AtNext
  <2>5. PICK d : d = Len(writer.buf) % BlockSize
    OBVIOUS
  <2>6. d \in Nat /\ d < BlockSize
    <3>1. d = Len(writer.buf) - At(n)
      BY <2>3, <2>5
    <3>2. PICK b, a : b = Len(writer.buf) /\ a = At(n)
      OBVIOUS
    <3>3. b \in Nat /\ a \in Nat /\ a <= b /\ b < a + BlockSize /\ d = b - a
      BY <3>1, <3>2, <2>1, <2>3, <2>4
    <3> QED
      BY <3>3, <1>1
  <2>7. BlockSize - d \in 1 .. BlockSize
    BY <2>6, <1>1
  <2> QED
    BY <2>5, <2>7
<1> HIDE DEF r0, k
<1>11. rec \in Records /\ Size(rec) = k /\ rec.kind # "Mutation" /\ rec.txn = NoTxn
  <2>1. k \in Nat
    BY <1>10
  <2>2. rec \in Records /\ Size(rec) = k
    BY <2>1, RecordTypes, Constants
  <2> QED
    BY <2>2 DEF EndBlock, Record
<1>12. AtRecord(r0, rec) = r0
  <2>1. k \in Nat
    BY <1>10
  <2> QED
    BY <2>1, <1>6, AtEndBlock
<1>13. PadToBlock(writer) = Buffered(writer, Units(rec))
  BY WriteRecordIs DEF PadToBlock, k
<1> HIDE DEF rec
<1>14. r0.transactions \in Seq(Entries) /\ r0.flushed <= r0.flushed /\ Size(rec) \in 1 .. BlockSize
  BY <1>6, <1>9, <1>10, <1>11 DEF Readers
<1>15. PICK u2, tr2 : Stage(u, R, tr, g, u2, tr2, <<>> \o Units(rec), x, {} \cup {rec})
  <2>1. r0.flushed <= DurableOffset(g)
    BY <1>6, <1>9
  <2> QED
    BY <2>1, <1>1, <1>6, <1>7, <1>8, <1>9, <1>11, <1>12, <1>14, StageRecord
<1>16. Units(rec) \in Seq(AllUnits) /\ Len(Units(rec)) > 0 /\ <<>> \o Units(rec) = Units(rec)
  <2>1. Size(rec) \in Nat /\ Size(rec) > 0
    BY <1>10, <1>11
  <2>2. Units(rec) \in Seq(AllUnits) /\ Len(Units(rec)) = Size(rec)
    BY <2>1, <1>11, UnitsIs
  <2>3. <<>> \o Units(rec) = Units(rec)
    BY <2>2, ConcatEmptySeq
  <2> QED
    BY <2>1, <2>2, <2>3
<1>17. x = [r0 EXCEPT !.offset = Len(u) + Size(rec), !.position = Len(u) + Size(rec)]
  BY <1>12 DEF Past
<1>18. x.transactions = r0.transactions /\ x.current = NoEntry /\ x.flushed = NextFlushed(u, R, tr, g)
  BY <1>17, <1>6 DEF Readers
<1> HIDE DEF x
<1>19. Full(x)
  BY <1>18, <1>6 DEF Full
<1>20. Stage(u, R, tr, g, u2, tr2, Units(rec), x, {rec})
  BY <1>15, <1>16
<1> QED
  BY <1>4, <1>5, <1>11, <1>13, <1>16, <1>18, <1>19, <1>20

\* Where a sync starts is a checkpoint.
LEMMA SyncStarts ==
    ASSUME NEW u, NEW R, NEW tr, NEW g, NEW m, NEW N, NEW v, Aligned(u, R, tr, g, m, N, v),
           LogInv, DeviceInv, InnerType, SyncType, syncing.pc = "idle", log' = log,
           syncing' = syncing \/ syncing' = [pc |-> "flushing", offset |-> Len(u), upto |-> Len(log) - 1],
           NEW u2, NEW tr2, Len(u2) \in Nat, Len(u) <= Len(u2),
           \A p \in Len(u) .. Len(u2) : tr2[p].position >= Len(u)
    PROVE  SyncInv(u2, R, tr2, g, m)' /\ SyncType'
<1>1. /\ Len(u) \in Nat /\ At(g) \in Nat /\ At(g) <= Len(u) /\ Len(log) \in Nat /\ Len(log) >= 1
      /\ m \in Nat /\ MutationSize \in Nat
  <2>1. /\ Len(u) \in Nat /\ At(g) \in Nat /\ At(g) <= Len(u) /\ Len(log) \in Nat /\ m \in Nat
    BY AlignedIs
  <2>2. Len(log) >= 1 /\ MutationSize \in Nat
    BY SizesAssumption DEF LogInv
  <2> QED
    BY <2>1, <2>2
<1>2. SyncInv(u, R, tr, g, m)
  BY DEF Aligned
<1>3. syncing = Idle
  BY <1>2 DEF SyncInv
<1>4. CASE syncing' = syncing
  BY <1>3, <1>4 DEF SyncInv, SyncType
<1>5. CASE syncing' = [pc |-> "flushing", offset |-> Len(u), upto |-> Len(log) - 1]
  <2>1. syncing'.pc = "flushing" /\ syncing'.offset = Len(u) /\ syncing'.upto = Len(log) - 1
    BY <1>5
  <2>2. syncing'.upto \in Nat /\ syncing'.upto + 1 = Len(log)
    BY <2>1, <1>1
  <2>3. SyncType'
    <3>1. syncing' \in [pc : {"idle", "flushing", "flushed"}, offset : Nat, upto : Nat]
      BY <1>1, <1>5, <2>1, <2>2
    <3>2. syncing'.upto + 1 <= Len(log')
      BY <2>2, <1>1
    <3> QED
      BY <3>1, <3>2 DEF SyncType
  <2>4. Checkpoint(tr2, Len(u2), m, Len(u))'
    <3>1. ASSUME NEW i \in m + 1 .. Len(log) PROVE log[i].offset + MutationSize + 1 <= Len(u)
      BY LogEnds
    <3> QED
      BY <3>1 DEF Checkpoint
  <2>5. log'[Len(log)].offset < Len(u)
    <3>1. Len(log) \in 1 .. Len(log)
      BY <1>1
    <3> QED
      BY <3>1, LogEnds
  <2>6. Len(u) \in At(g) .. Len(u2)
    BY <1>1
  <2>7. SyncInv(u2, R, tr2, g, m)'
    <3>1. /\ syncing'.pc \in {"flushing", "flushed"} /\ syncing'.pc # "flushed"
          /\ syncing'.offset \in At(g) .. Len(u2)
          /\ syncing'.upto \in Nat /\ syncing'.upto + 1 <= Len(log')
          /\ log'[syncing'.upto + 1].offset < syncing'.offset
      BY <2>1, <2>2, <2>5, <2>6, <1>1
    <3>2. Checkpoint(tr2, Len(u2), m, syncing.offset)'
      BY <2>1, <2>4 DEF Checkpoint
    <3> QED
      BY <3>1, <3>2 DEF SyncInv
  <2> QED
    BY <2>3, <2>7
<1> QED
  BY <1>4, <1>5

\* sync() pads the block, unless the block restarts the stream and is bare.
LEMMA SyncPadKeeps ==
    ASSUME Inv, SyncPad, ~bare_restart'
    PROVE  Inv'
<1> DEFINE o == FileOffset(writer)
           pads == o % BlockSize # 0
<1>1. /\ pc = "mounted" /\ LogInv /\ DeviceInv /\ Mounted /\ InnerType /\ WriterType
      /\ SyncType /\ InFlightInv /\ AllocInv /\ committing \in Files \cup {NoFile}
  BY DEF SyncPad, Inv, Mounted
<1>2. /\ syncing.pc = "idle" /\ (IF pads THEN writer' = PadToBlock(writer) ELSE writer' = writer)
      /\ FileOffset(writer') <= EndOfFile
      /\ ~(pads /\ BareRestart(writer))
      /\ UNCHANGED <<journal, data, unstable, pc, reader, inner, in_flight, committing, extents, pending,
                     deallocated, log, synced, mid_block, next_id>>
  BY DEF SyncPad, device, replay, history, allocator
<1>3. syncing' = syncing \/ syncing' = [pc |-> "flushing", offset |-> o, upto |-> Len(log) - 1]
  BY DEF SyncPad
<1> HIDE DEF pads, o
<1>4. /\ DeviceInv' /\ next_id \in Nat /\ next_id <= next_id'
  BY <1>1, <1>2, SameDevice
<1>5. LogInv' /\ AllocInv'
  BY <1>1, <1>2, LogFrame, AllocFrame
<1>6. InnerType' /\ InFlightInv'
  BY <1>1, <1>2 DEF InnerType, InFlightInv
<1>7. writer \in Writers /\ Len(log) \in Nat /\ Len(log) >= 1 /\ BlockSize \in Nat /\ BlockSize >= 3
  BY <1>1, SizesAssumption DEF WriterType, LogInv
<1>8. PICK y \in Seq(AllUnits) : writer' = Buffered(writer, y)
  <2>1. CASE ~pads
    <3>1. <<>> \in Seq(AllUnits)
      OBVIOUS
    <3>2. Buffered(writer, <<>>) = writer
      BY <3>1, <1>7, BufferedIs
    <3> QED
      BY <3>1, <3>2, <2>1, <1>2
  <2>2. CASE pads
    <3> DEFINE k == BlockSize - (Len(writer.buf) % BlockSize)
    <3>1. k \in Nat
      BY <1>7, Division DEF Writers
    <3> HIDE DEF k
    <3>2. EndBlock(k) \in Records /\ Size(EndBlock(k)) = k
      BY <3>1, RecordTypes, Constants
    <3>3. Units(EndBlock(k)) \in Seq(AllUnits)
      BY <3>1, <3>2, UnitsIs
    <3>4. writer' = Buffered(writer, Units(EndBlock(k)))
      BY <2>2, <1>2, WriteRecordIs DEF PadToBlock, k
    <3> QED
      BY <3>3, <3>4
  <2> QED
    BY <2>1, <2>2
<1>9. WriterType'
  BY <1>1, <1>2, <1>7, <1>8, BufferedIs DEF WriterType
<1>10. /\ \A a : Longer(a)
       /\ \A i \in Len(log) + 1 .. Len(log') : FALSE
  BY <1>2, <1>7 DEF Longer
<1>11. SyncType'
  <2>1. CASE syncing' = syncing
    BY <2>1, <1>1, <1>2 DEF SyncType
  <2>2. CASE syncing' = [pc |-> "flushing", offset |-> o, upto |-> Len(log) - 1]
    <3>1. o \in Nat /\ Len(log) - 1 \in Nat /\ (Len(log) - 1) + 1 <= Len(log)
      BY <1>7 DEF o, FileOffset, Writers
    <3> QED
      BY <2>2, <3>1, <1>2 DEF SyncType
  <2> QED
    BY <2>1, <2>2, <1>3
<1>12. ASSUME NEW u, NEW R, NEW tr, NEW g, NEW m, NEW v, Frozen(u, R, tr, g, m, v)
       PROVE  FrozenStep(tr, g)
  BY <1>1, <1>2, <1>4, <1>5, <1>8, <1>10, <1>12, FrozenWrites
<1>13. ASSUME NEW u, NEW R, NEW tr, NEW g, NEW m, NEW N, NEW v, Aligned(u, R, tr, g, m, N, v)
       PROVE  (\E u1, R1, tr1, g1, m1, N1, v1 : Aligned(u1, R1, tr1, g1, m1, N1, v1))'
  <2>1. /\ Len(u) \in Nat /\ At(g) \in Nat /\ At(g) <= Len(u) /\ DurableOffset(g) \in Nat /\ g \in Nat
        /\ IsStream(u, R, tr) /\ u \in Seq(AllUnits) /\ N \in Nat /\ At(g + 1) = At(g) + BlockSize
        /\ tr[At(g)].position = At(g)
    BY <1>1, <1>13, AlignedIs
  <2>2. o = Len(u)
    BY <1>13 DEF Aligned, WriterInv, FileOffset, o
  <2>3. tr[Len(u)].position = Len(u)
    <3>1. CASE Len(u) = At(g)
      BY <3>1, <2>1
    <3>2. CASE Len(u) > At(g)
      BY <3>2, <1>13 DEF Aligned, Timeline
    <3> QED
      BY <3>1, <3>2, <2>1
  <2>4. CASE ~pads
    <3>1. writer' = writer
      BY <2>4, <1>2
    <3>2. SyncInv(u, R, tr, g, m)'
      <4>1. \A p \in Len(u) .. Len(u) : tr[p].position >= Len(u)
        BY <2>1, <2>3
      <4>2. Len(u) <= Len(u)
        BY <2>1
      <4> QED
        BY <4>1, <4>2, <2>1, <2>2, <1>1, <1>2, <1>3, <1>13, SyncStarts
    <3>3. /\ Timeline(u, R, tr, g, m)' /\ WriterInv(u, R, g)' /\ Marked(u, R, g, N)'
          /\ DurableInv(u, R, tr, g, m)' /\ ReuseInv(u, R, tr, g)'
      BY <1>2, <1>13, <3>1, TimelineFrame, WriterFrame, MarkedFrame, DurableFrame, ReuseFrame DEF Aligned
    <3>4. DiskInv(u, R, g, N)' /\ History(tr, g)' /\ Base(tr[At(g)], m, v)'
      <4>1. DiskInv(u, R, g, N)
        BY <1>13 DEF Aligned
      <4>2. DiskInv(u, R, g, N)'
        BY <4>1, <2>1, <1>1, <1>2, <1>4, <3>1, DiskFrame
      <4>3. History(tr, g)' /\ Base(tr[At(g)], m, v)'
        BY <1>1, <1>2, <1>4, <1>5, <1>7, <1>13, AlignedPast
      <4> QED
        BY <4>2, <4>3
    <3>5. Aligned(u, R, tr, g, m, N, v)'
      BY <1>13, <1>2, <3>2, <3>3, <3>4 DEF Aligned
    <3> QED
      BY <3>5
  <2>5. CASE pads
    <3>0. FileOffset(writer) % BlockSize # 0
      BY <2>5 DEF pads, o
    <3>1. /\ Len(u) > At(g) /\ inner.discard_offset = NoOffset
          /\ \E u2, tr2, z, x, rec :
                /\ Stage(u, R, tr, g, u2, tr2, z, x, {rec}) /\ Len(z) > 0 /\ PadToBlock(writer) = Buffered(writer, z)
                /\ Full(x) /\ x.current = NoEntry /\ x.flushed = NextFlushed(u, R, tr, g)
                /\ rec.kind # "Mutation" /\ rec.txn = NoTxn
      BY <3>0, <1>1, <1>13, StagePad
    <3>2. PICK u2, tr2, z, x, rec :
                /\ Stage(u, R, tr, g, u2, tr2, z, x, {rec}) /\ Len(z) > 0 /\ PadToBlock(writer) = Buffered(writer, z)
                /\ Full(x) /\ x.current = NoEntry /\ x.flushed = NextFlushed(u, R, tr, g)
                /\ rec.kind # "Mutation" /\ rec.txn = NoTxn
      BY <3>1
    <3>3. /\ z \in Seq(AllUnits) /\ Len(u2) = Len(u) + Len(z) /\ Len(z) \in Nat /\ writer' = Buffered(writer, z)
          /\ Len(u2) \in Nat /\ Len(u) <= Len(u2)
      <4>1. z \in Seq(AllUnits) /\ Len(u2) = Len(u) + Len(z)
        BY <3>2 DEF Stage
      <4>2. writer' = Buffered(writer, z)
        BY <2>5, <3>2, <1>2
      <4> QED
        BY <4>1, <4>2, <2>1
    <3>4. Len(u2) <= EndOfFile
      <4>1. FileOffset(writer') = o + Len(z)
        BY <3>3, <1>7, BufferedIs DEF o
      <4> QED
        BY <4>1, <3>3, <2>2, <1>2
    <3>5. Writes(u, tr, u2, tr2, R, z)
      <4>1. \A e \in {rec} : e.txn.id < next_id'
        <5>1. 0 < next_id'
          BY <1>4 DEF DeviceInv
        <5> QED
          BY <5>1, <3>2, Constants
      <4> QED
        BY <4>1, <2>1, <3>2, <3>3, <3>4, <1>1, <1>2, <1>4, <1>10, StageWrites
    <3>6. Timeline(u2, R, tr2, g, m)'
      <4>1. Full(x)'
        BY <3>2, <1>2 DEF Full
      <4> QED
        BY <4>1, <3>1, <3>2, <1>1, <1>2, <1>5, <1>10, <1>13, TimelineExt
    <3>7. ReuseInv(u2, R, tr2, g)'
      <4>1. NextFlushed(u2, R, tr2, g) = NextFlushed(u, R, tr, g)
        <5>1. Len(u2) # At(g)
          BY <2>1, <3>1, <3>3
        <5>2. x = tr2[Len(u2)]
          BY <3>2 DEF Stage
        <5> QED
          BY <5>1, <5>2, <3>2 DEF NextFlushed
      <4>2. ReuseInv(u, R, tr, g)'
        BY <1>2, <1>13, ReuseFrame DEF Aligned
      <4> QED
        BY <4>1, <4>2 DEF ReuseInv
    <3>8. SyncInv(u2, R, tr2, g, m)'
      <4>1. ASSUME NEW p \in Len(u) .. Len(u2) PROVE tr2[p].position >= Len(u)
        <5>1. CASE p = Len(u)
          <6>1. Len(u) \in 0 .. Len(u)
            BY <2>1
          <6>2. tr2[Len(u)] = tr[Len(u)]
            BY <3>2, <6>1 DEF Stage
          <6> QED
            BY <5>1, <6>2, <2>3, <2>1
        <5>2. CASE p # Len(u)
          <6>1. p \in Len(u) + 1 .. Len(u2)
            BY <5>2, <2>1, <3>3
          <6> QED
            BY <6>1, <3>5 DEF Writes, Ext
        <5> QED
          BY <5>1, <5>2
      <4> QED
        BY <4>1, <3>3, <2>2, <1>1, <1>2, <1>3, <1>13, SyncStarts
    <3>9. Marked(u2, R, g, N)'
      <4>1. SUFFICES ASSUME At(g) \in R
                     PROVE  /\ \E j \in At(g) + 1 .. At(g + 1) : j <= Len(u2) /\ u2[j].record.txn.id >= N
                            /\ \A j \in At(g) + 1 .. Len(u2) : u2[j].record.kind = "Mutation" => u2[j].record.txn.id >= N
        BY DEF Marked
      <4>2. \A j \in 1 .. Len(u) : u2[j] = u[j]
        BY <3>2 DEF Stage
      <4>3. Marked(u, R, g, N) /\ WriterInv(u, R, g)
        BY <1>13 DEF Aligned
      <4>4. ASSUME NEW j \in At(g) + 1 .. Len(u2), u2[j].record.kind = "Mutation"
            PROVE  u2[j].record.txn.id >= N
        <5>1. CASE j \in At(g) + 1 .. Len(u)
          <6>1. j \in 1 .. Len(u)
            BY <5>1, <2>1
          <6> QED
            BY <5>1, <6>1, <4>1, <4>2, <4>3, <4>4 DEF Marked
        <5>2. CASE j \in Len(u) + 1 .. Len(u2)
          <6>1. j - Len(u) \in 1 .. Len(z) /\ Len(u) + (j - Len(u)) = j
            BY <5>2, <2>1, <3>3
          <6>2. u2[j].record \in {rec}
            BY <6>1, <3>2 DEF Stage
          <6> QED
            BY <6>2, <4>4, <3>2
        <5> QED
          BY <5>1, <5>2, <2>1, <3>3
      <4>5. \E j \in At(g) + 1 .. At(g + 1) : j <= Len(u) /\ u[j].record.txn.id >= N
        <5>1. CASE committing # NoFile /\ Len(u) <= At(g) + 2
          <6>1. writer.offset = At(g)
            <7>1. PICK k \in 0 .. JournalBlocks : writer.offset = At(k)
              BY <4>3 DEF WriterInv
            <7>2. k \in Nat
              BY SizesAssumption
            <7>3. At(k) \in Nat /\ At(g) <= At(k) /\ At(k) <= Len(u)
              <8>1. /\ DurableOffset(g) \in Nat /\ At(g) <= DurableOffset(g) /\ writer.offset \in Nat
                    /\ DurableOffset(g) <= inner.flushed_offset /\ inner.flushed_offset <= writer.offset
                    /\ inner.flushed_offset \in Nat /\ writer.offset <= Len(u)
                BY <1>1, <1>13, AlignedIs
              <8>2. At(g) <= writer.offset
                BY <8>1, <2>1
              <8> QED
                BY <8>1, <8>2, <7>1
            <7>4. At(k) < At(g) + BlockSize
              BY <7>3, <5>1, <2>1, <1>7
            <7>5. ~(g < k) /\ ~(k < g)
              <8>1. g < k => At(g) + BlockSize <= At(k)
                BY <7>2, <2>1, AtLess
              <8>2. k < g => At(k) + BlockSize <= At(g)
                BY <7>2, <2>1, AtLess
              <8> QED
                BY <8>1, <8>2, <7>3, <7>4, <2>1, <1>7
            <7>6. k = g
              BY <7>5, <7>2, <2>1
            <7> QED
              BY <7>1, <7>6
          <6>2. /\ Len(writer.checksum.units) = At(g) /\ writer.checksum.resets = R
                /\ Len(u) = At(g) + Len(writer.buf) /\ writer.buf \in Seq(AllUnits)
                /\ \A j \in 1 .. Len(writer.buf) : writer.buf[j] = u[At(g) + j]
            BY <4>3, <6>1 DEF WriterInv
          <6>3. Len(writer.buf) \in Nat /\ Len(writer.buf) < BlockSize
            BY <6>2, <5>1, <2>1, <1>7, SMTT(20)
          <6>4. ~BareRestart(writer)
            BY <2>5, <1>2
          <6>5. PICK i \in DOMAIN writer.buf : writer.buf[i].record.kind = "Mutation"
            BY <6>2, <6>3, <6>4, <4>1 DEF BareRestart
          <6>6. i \in 1 .. Len(writer.buf)
            BY <6>2, <6>5, LenProperties
          <6>7. At(g) + i \in At(g) + 1 .. Len(u) /\ At(g) + i \in At(g) + 1 .. At(g + 1) /\ At(g) + i <= Len(u)
            <7>1. i \in Nat /\ i >= 1 /\ i <= Len(writer.buf) /\ i < BlockSize
              BY <6>3, <6>6, <1>7
            <7>2. Len(u) = At(g) + Len(writer.buf)
              BY <6>2
            <7>3. At(g) + i <= Len(u) /\ At(g) + i <= At(g) + BlockSize
              BY <7>1, <7>2, <6>3, <2>1, <1>7
            <7> QED
              BY <7>1, <7>3, <2>1, <1>7
          <6>8. u[At(g) + i].record.kind = "Mutation"
            BY <6>2, <6>5, <6>6
          <6>9. u[At(g) + i].record.txn.id >= N
            BY <6>7, <6>8, <4>1, <4>3 DEF Marked
          <6> QED
            BY <6>7, <6>9
        <5>2. Len(u) # At(g)
          BY <3>1, <2>1
        <5> QED
          BY <5>1, <5>2, <4>1, <4>3 DEF Marked
      <4>6. PICK j \in At(g) + 1 .. At(g + 1) : j <= Len(u) /\ u[j].record.txn.id >= N
        BY <4>5
      <4>7. j \in 1 .. Len(u) /\ j <= Len(u2)
        BY <4>6, <2>1, <3>3
      <4>8. u2[j].record.txn.id >= N
        BY <4>6, <4>7, <4>2
      <4> QED
        BY <4>4, <4>7, <4>8
    <3>10. \A e \in Files : pending'[e] # Hole => pending'[e].id >= N
      BY <1>2, <1>13 DEF Aligned
    <3>11. Aligned(u2, R, tr2, g, m, N, v)'
      BY <3>5, <3>6, <3>7, <3>8, <3>9, <3>10, <1>1, <1>4, <1>5, <1>13, AlignedExt
    <3> QED
      BY <3>11
  <2> QED
    BY <2>4, <2>5
<1> QED
  BY <1>1, <1>2, <1>4, <1>5, <1>6, <1>9, <1>11, <1>12, <1>13, MountedStep

-----------------------------------------------------------------------------
(* The filesystem as it is formatted. *)

\* tr is what replay() makes of a stream z that is never restarted, holds no
\* transaction of the running filesystem and ends with the reader at a.
Plain(z, tr, a) ==
    /\ IsStream(z, {}, tr) /\ tr[Len(z)] = [a EXCEPT !.offset = Len(z), !.position = Len(z)]
    /\ \A j \in 1 .. Len(z) : z[j].record.txn = NoTxn

\* One more record of such a stream.
LEMMA AppendPlain ==
    ASSUME NEW u, NEW tr, IsStream(u, {}, tr), tr[Len(u)].offset = Len(u), tr[Len(u)] \in Readers,
           NEW rec \in Records, Size(rec) \in Nat, Size(rec) >= 1, NEW a \in Readers, a = AtRecord(tr[Len(u)], rec),
           \A j \in 1 .. Len(u) : u[j].record.txn = NoTxn, rec.txn = NoTxn
    PROVE  \E tr2 : Plain(u \o Units(rec), tr2, a) /\ Len(u \o Units(rec)) = Len(u) + Size(rec)
<1>1. tr[Len(u)] = Resumed(tr[Len(u)], Len(u), {}) /\ Len(u) \in Nat
  BY DEF Resumed, IsStream
<1>2. PICK u2, tr2 : Appends(u, {}, tr, rec, tr[Len(u)], u2, tr2)
  <2>1. \A p \in {} : p \in Nat /\ p <= Len(u)
    OBVIOUS
  <2> QED
    BY <1>1, <2>1, AppendRecord
<1>3. /\ IsStream(u2, {}, tr2) /\ u2 = u \o Units(rec) /\ Len(u2) = Len(u) + Size(rec)
      /\ \A j \in 1 .. Len(u) : u2[j] = u[j]
      /\ \A j \in 1 .. Size(rec) : u2[Len(u) + j] = [part |-> j, record |-> rec]
      /\ tr2[Len(u2)] = Past(tr[Len(u)], rec, Len(u2))
  BY <1>2 DEF Appends
<1>4. tr2[Len(u2)] = [a EXCEPT !.offset = Len(u2), !.position = Len(u2)]
  BY <1>3 DEF Past
<1>5. ASSUME NEW j \in 1 .. Len(u) + Size(rec) PROVE u2[j].record.txn = NoTxn
  <2>1. CASE j <= Len(u)
    <3>1. j \in 1 .. Len(u)
      BY <2>1, <1>1
    <3> QED
      BY <3>1, <1>3
  <2>2. CASE j > Len(u)
    <3>1. j - Len(u) \in 1 .. Size(rec) /\ Len(u) + (j - Len(u)) = j
      BY <2>2, <1>1
    <3>2. u2[j] = [part |-> j - Len(u), record |-> rec]
      BY <3>1, <1>3
    <3> QED
      BY <3>2
  <2> QED
    BY <2>1, <2>2, <1>1
<1> QED
  BY <1>3, <1>4, <1>5 DEF Plain

\* A reader that has come to p.
LEMMA Come ==
    ASSUME NEW a \in Readers, NEW p
    PROVE  [a EXCEPT !.offset = p, !.position = p]
             = [offset |-> p, transactions |-> a.transactions, current |-> a.current,
                flushed |-> a.flushed, position |-> p]
<1>1. PICK A, B, C : a \in [offset : A, transactions : B, current : C, flushed : A, position : A]
  BY DEF Readers
<1>2. a = [offset |-> a.offset, transactions |-> a.transactions, current |-> a.current,
           flushed |-> a.flushed, position |-> a.position]
  BY <1>1
<1>3. PICK o, t, c, d, q : a = [offset |-> o, transactions |-> t, current |-> c, flushed |-> d, position |-> q]
  BY <1>2
<1>4. [a EXCEPT !.offset = p] = [offset |-> p, transactions |-> t, current |-> c, flushed |-> d, position |-> q]
  BY <1>3
<1>5. [[a EXCEPT !.offset = p] EXCEPT !.position = p]
        = [offset |-> p, transactions |-> t, current |-> c, flushed |-> d, position |-> p]
  <2>1. PICK b : b = [a EXCEPT !.offset = p]
    OBVIOUS
  <2>2. b = [offset |-> p, transactions |-> t, current |-> c, flushed |-> d, position |-> q]
    BY <2>1, <1>4
  <2>3. [b EXCEPT !.position = p]
          = [offset |-> p, transactions |-> t, current |-> c, flushed |-> d, position |-> p]
    BY <2>2
  <2> QED
    BY <2>1, <2>3
<1> QED
  BY <1>3, <1>5

\* What replay() has read when it comes to the end of the first block.
FirstReader == [offset |-> BlockSize, transactions |-> <<Entry(0, NoTxn)>>, current |-> NoEntry,
                flushed |-> SuperBlockOffset, position |-> BlockSize]

\* What init_empty leaves behind is a stream.
LEMMA FormattedStream ==
    \E tr : /\ IsStream(Formatted.units, {}, tr) /\ Len(Formatted.units) = BlockSize
            /\ tr[BlockSize] = FirstReader /\ FirstReader \in Readers
            /\ \A j \in 1 .. BlockSize : Formatted.units[j].record.txn = NoTxn
<1> DEFINE k == BlockSize - SuperBlockOffset
           e == Entry(0, NoTxn)
           t0 == [p \in 0 .. 0 |-> StartReader]
           u1 == Units(Mutation(NoTxn))
           u2 == u1 \o Units(CommitRecord)
           u3 == u2 \o Units(EndBlock(k))
           r1 == [StartReader EXCEPT !.current = e]
           r2 == [offset |-> MutationSize, transactions |-> <<>>, current |-> e,
                  flushed |-> SuperBlockOffset, position |-> MutationSize]
           r3 == [offset |-> MutationSize + 1, transactions |-> <<e>>, current |-> NoEntry,
                  flushed |-> SuperBlockOffset, position |-> MutationSize + 1]
<1>1. /\ BlockSize \in Nat /\ MutationSize \in Nat /\ MutationSize >= 1 /\ MutationSize + 1 <= BlockSize
      /\ SuperBlockOffset = MutationSize + 1 /\ SuperBlockOffset \in Nat /\ k \in Nat
      /\ NoOffset \in Nat /\ NoOffset > 0
  BY SizesAssumption, Constants
<1>2. /\ NoTxn \in AnyTxn /\ e \in Entries /\ NoEntry \in Entries /\ e # NoEntry
  <2>1. e.offset = 0 /\ NoEntry.offset = NoOffset
    BY DEF Entry, NoEntry
  <2>2. e # NoEntry
    BY <2>1, <1>1
  <2> QED
    BY <2>2, Constants
<1>3. /\ StartReader \in Readers /\ r1 \in Readers /\ r2 \in Readers /\ r3 \in Readers
      /\ FirstReader \in Readers
  <2>1. <<>> \in Seq(Entries) /\ <<e>> \in Seq(Entries)
    BY <1>2
  <2> HIDE DEF e
  <2> QED
    BY <2>1, <1>1, <1>2 DEF StartReader, Readers, FirstReader, e
<1>4. /\ IsStream(<<>>, {}, t0) /\ t0[0] = StartReader /\ Len(<<>>) = 0 /\ <<>> \in Seq(AllUnits)
      /\ StartReader.offset = 0
  <2>1. <<>> \in Seq(AllUnits) /\ Len(<<>>) = 0
    OBVIOUS
  <2>2. t0 \in [0 .. 0 -> Readers] /\ t0[0] = StartReader
    BY <1>3
  <2>3. \A p \in 0 .. 0 - 1 : FALSE
    OBVIOUS
  <2> HIDE DEF t0
  <2> QED
    BY <2>1, <2>2, <2>3 DEF IsStream, StartReader
<1>5. /\ Mutation(NoTxn) \in Records /\ Size(Mutation(NoTxn)) = MutationSize /\ Mutation(NoTxn).txn = NoTxn
      /\ CommitRecord \in Records /\ Size(CommitRecord) = 1 /\ CommitRecord.txn = NoTxn
      /\ EndBlock(k) \in Records /\ Size(EndBlock(k)) = k /\ EndBlock(k).txn = NoTxn
  BY <1>1, <1>2, RecordTypes DEF Mutation, CommitRecord, EndBlock, Record
<1> HIDE DEF k, t0
<1>6. <<>> \o u1 = u1
  <2>1. u1 \in Seq(AllUnits)
    BY <1>1, <1>5, UnitsIs
  <2> QED
    BY <2>1, ConcatEmptySeq
<1>7. AtRecord(StartReader, Mutation(NoTxn)) = r1
  <2>1. StartReader.position = 0
    BY DEF StartReader
  <2> QED
    BY <2>1, <1>2, <1>3, AtMutation
<1>8. PICK t1 : /\ IsStream(u1, {}, t1) /\ Len(u1) = MutationSize
                /\ t1[MutationSize] = r2
                /\ \A j \in 1 .. MutationSize : u1[j].record.txn = NoTxn
  <2>1. \A j \in 1 .. 0 : FALSE
    OBVIOUS
  <2>2. PICK t1 : Plain(<<>> \o u1, t1, r1) /\ Len(<<>> \o u1) = Len(<<>>) + Size(Mutation(NoTxn))
    <3>1. /\ IsStream(<<>>, {}, t0) /\ t0[Len(<<>>)] = StartReader /\ t0[Len(<<>>)].offset = Len(<<>>)
          /\ t0[Len(<<>>)] \in Readers /\ \A j \in 1 .. Len(<<>>) : <<>>[j].record.txn = NoTxn
      BY <1>3, <1>4, <2>1
    <3>2. Size(Mutation(NoTxn)) \in Nat /\ Size(Mutation(NoTxn)) >= 1
      BY <1>1, <1>5
    <3> HIDE DEF r1
    <3>3. r1 \in Readers /\ r1 = AtRecord(t0[Len(<<>>)], Mutation(NoTxn))
      BY <3>1, <1>3, <1>7
    <3> QED
      BY <3>1, <3>2, <3>3, <1>5, AppendPlain
  <2>3. Plain(u1, t1, r1) /\ Len(u1) = MutationSize
    BY <2>2, <1>1, <1>4, <1>5, <1>6
  <2>4. [r1 EXCEPT !.offset = MutationSize, !.position = MutationSize] = r2
    <3>1. r1.transactions = <<>> /\ r1.current = e /\ r1.flushed = SuperBlockOffset
      BY DEF StartReader
    <3> HIDE DEF r1, e
    <3> QED
      BY <3>1, <1>3, Come
  <2> HIDE DEF r1, r2, u1
  <2> QED
    BY <2>3, <2>4 DEF Plain
<1>9. AtRecord(r2, CommitRecord) = [r2 EXCEPT !.transactions = <<e>>, !.current = NoEntry]
  <2>1. r2.current = e /\ r2.transactions = <<>>
    OBVIOUS
  <2>2. Append(<<>>, e) = <<e>>
    OBVIOUS
  <2> HIDE DEF r2, e
  <2> QED
    BY <2>1, <2>2, <1>2, <1>3, AtCommit
<1>10. PICK t2 : /\ IsStream(u2, {}, t2) /\ Len(u2) = MutationSize + 1
                 /\ t2[MutationSize + 1] = r3
                 /\ \A j \in 1 .. MutationSize + 1 : u2[j].record.txn = NoTxn
  <2> DEFINE a == [r2 EXCEPT !.transactions = <<e>>, !.current = NoEntry]
  <2>1. a \in Readers
    BY <1>1, <1>2, <1>3 DEF Readers
  <2>2. [a EXCEPT !.offset = MutationSize + 1, !.position = MutationSize + 1] = r3
    <3>1. a.transactions = <<e>> /\ a.current = NoEntry /\ a.flushed = SuperBlockOffset
      <4> HIDE DEF e
      <4> QED
        OBVIOUS
    <3> HIDE DEF a, e
    <3> QED
      BY <3>1, <2>1, Come
  <2>3. t1[Len(u1)].offset = Len(u1) /\ t1[Len(u1)] \in Readers /\ Size(CommitRecord) \in Nat /\ Size(CommitRecord) >= 1
    BY <1>3, <1>5, <1>8
  <2>4. a = AtRecord(t1[Len(u1)], CommitRecord)
    BY <1>8, <1>9
  <2>5. \A j \in 1 .. Len(u1) : u1[j].record.txn = NoTxn
    BY <1>8
  <2> HIDE DEF a, r2, r3, u1
  <2>6. PICK t2 : /\ Plain(u1 \o Units(CommitRecord), t2, a)
                  /\ Len(u1 \o Units(CommitRecord)) = Len(u1) + Size(CommitRecord)
    BY <2>1, <2>3, <2>4, <2>5, <1>5, <1>8, AppendPlain
  <2>7. Len(u1) = MutationSize /\ Size(CommitRecord) = 1
    BY <1>5, <1>8
  <2>8. Plain(u2, t2, a) /\ Len(u2) = MutationSize + 1
    BY <2>6, <2>7
  <2> HIDE DEF u2
  <2> QED
    BY <2>2, <2>8 DEF Plain
<1>11. Formatted.units = u3
  BY DEF Formatted, k
<1>12. [r3 EXCEPT !.offset = BlockSize, !.position = BlockSize] = FirstReader
  <2>1. r3.transactions = <<e>> /\ r3.current = NoEntry /\ r3.flushed = SuperBlockOffset
    <3> HIDE DEF e
    <3> QED
      OBVIOUS
  <2> HIDE DEF r3
  <2> QED
    BY <2>1, <1>3, Come DEF FirstReader
<1>13. CASE k = 0
  <2>1. Units(EndBlock(k)) = <<>>
    <3>1. Units(EndBlock(k)) \in Seq(AllUnits) /\ Len(Units(EndBlock(k))) = 0
      BY <1>1, <1>5, <1>13, UnitsIs
    <3> QED
      BY <3>1
  <2>2. u2 \in Seq(AllUnits)
    BY <1>10 DEF IsStream
  <2>3. u3 = u2
    <3> HIDE DEF u2
    <3> QED
      BY <2>1, <2>2, ConcatEmptySeq
  <2>4. BlockSize = MutationSize + 1
    BY <1>1, <1>13 DEF k
  <2>5. r3 = FirstReader
    BY <2>4 DEF FirstReader
  <2> HIDE DEF u2, u3, r3
  <2> QED
    BY <1>3, <1>10, <1>11, <2>3, <2>4, <2>5
<1>14. CASE k # 0
  <2>1. t2[Len(u2)].offset = Len(u2) /\ t2[Len(u2)] \in Readers /\ Size(EndBlock(k)) \in Nat /\ Size(EndBlock(k)) >= 1
    BY <1>1, <1>3, <1>5, <1>10, <1>14
  <2>2. r3 = AtRecord(t2[Len(u2)], EndBlock(k))
    <3> HIDE DEF r3, u2
    <3> QED
      BY <1>1, <1>3, <1>10, AtEndBlock
  <2>3. \A j \in 1 .. Len(u2) : u2[j].record.txn = NoTxn
    BY <1>10
  <2>4. MutationSize + 1 + k = BlockSize
    BY <1>1 DEF k
  <2> HIDE DEF r3, u2
  <2>5. PICK t3 : /\ Plain(u2 \o Units(EndBlock(k)), t3, r3)
                  /\ Len(u2 \o Units(EndBlock(k))) = Len(u2) + Size(EndBlock(k))
    BY <2>1, <2>2, <2>3, <1>3, <1>5, <1>10, AppendPlain
  <2>6. Len(u2) + Size(EndBlock(k)) = BlockSize
    BY <2>4, <1>5, <1>10
  <2>7. Plain(u3, t3, r3) /\ Len(u3) = BlockSize
    BY <2>5, <2>6
  <2> HIDE DEF u3
  <2> QED
    BY <2>7, <1>3, <1>11, <1>12 DEF Plain
<1> QED
  BY <1>13, <1>14

\* The state of a filesystem that has just been formatted.
LEMMA InitIs ==
    ASSUME Init
    PROVE  /\ LogInv /\ AllocInv /\ DeviceInv /\ Len(log) = 1 /\ log[1] = Entry(0, NoTxn)
           /\ Formatted \in Checksums /\ Torn \in Checksums
<1>1. /\ log = <<Entry(0, NoTxn)>> /\ synced = 0 /\ next_id = 1 /\ deallocated = {}
      /\ extents = [f \in Files |-> Hole] /\ pending = [f \in Files |-> Hole]
      /\ journal = [i \in Indices |-> IF i = 0 THEN Formatted ELSE Torn]
      /\ data = [b \in Blocks |-> 0] /\ unstable = Durable(journal, data)
  BY DEF Init
<1>2. Len(log) = 1 /\ log[1] = Entry(0, NoTxn) /\ log \in Seq(Entries)
  <2>1. PICK e : e = Entry(0, NoTxn)
    OBVIOUS
  <2>2. log = <<e>> /\ e \in Entries
    BY <1>1, <2>1, Constants
  <2> QED
    BY <2>1, <2>2
<1>3. /\ log[1].offset = 0 /\ log[1].txn.new.id = 0 /\ log[1].txn.file = NoFile
      /\ \A i \in 1 .. Len(log) : i = 1
      /\ \A i \in 2 .. Len(log) : FALSE
  BY <1>2, Constants DEF Entry
<1>4. LogInv
  <2>1. Ascending(log)
    BY <1>2, <1>3 DEF Ascending
  <2>2. \A i, k \in 1 .. Len(log) : ~(i < k)
    BY <1>2
  <2> QED
    BY <1>1, <1>2, <1>3, <2>1, <2>2 DEF LogInv
<1>5. AllocInv
  <2>1. \A f \in Files : extents[f] = Hole /\ pending[f] = Hole /\ f # NoFile
    BY <1>1, FilesAssumption
  <2>2. extents \in [Files -> Extents] /\ pending \in [Files -> Extents]
    BY <1>1, Constants
  <2>3. deallocated \subseteq [offset : Nat, block : Blocks]
    BY <1>1
  <2>4. \A f \in Files : \A i \in 1 .. Len(log) : log[i].txn.file # f
    BY <1>3, <2>1
  <2> QED
    BY <2>1, <2>2, <2>3, <2>4 DEF AllocInv
<1>6. Formatted \in Checksums /\ Torn \in Checksums
  <2>1. Formatted.units \in Seq(AllUnits) /\ Formatted.resets = {}
    BY FormattedStream DEF IsStream, Formatted
  <2>2. Formatted = [units |-> Formatted.units, resets |-> Formatted.resets]
    BY DEF Formatted
  <2>3. Torn \in Checksums
    BY DEF Torn, StartingChecksum, Checksums
  <2> QED
    BY <2>1, <2>2, <2>3 DEF Checksums
<1>7. DeviceInv
  <2>1. journal \in [Indices -> Checksums]
    BY <1>1, <1>6
  <2>2. data \in [Blocks -> 0 .. MaxTxns] /\ \A b \in Blocks : data[b] = 0
    BY <1>1, JournalBoundsAssumption
  <2>3. /\ unstable \in [journal : [Indices -> SUBSET Checksums],
                         data : [Blocks -> SUBSET (0 .. MaxTxns)]]
        /\ \A i \in Indices : unstable.journal[i] = {journal[i]}
        /\ \A b \in Blocks : unstable.data[b] = {data[b]}
    BY <1>1, <2>1, <2>2 DEF Durable
  <2>4. next_id \in 1 .. MaxTxns + 1
    BY <1>1, JournalBoundsAssumption
  <2> QED
    BY <1>1, <2>1, <2>2, <2>3, <2>4 DEF DeviceInv
<1> QED
  BY <1>2, <1>4, <1>5, <1>6, <1>7

\* What replay() makes of the first block is as it should be.
LEMMA FirstReaderIs ==
    ASSUME Init
    PROVE  Old(FirstReader, 1) /\ Pair(FirstReader, FirstReader) /\ Base(FirstReader, 1, BlockSize)
<1> DEFINE t == FirstReader.transactions
<1>1. /\ FirstReader.offset = BlockSize /\ FirstReader.position = BlockSize
      /\ FirstReader.flushed = SuperBlockOffset /\ FirstReader.current = NoEntry
  BY DEF FirstReader
<1>2. Len(t) = 1 /\ t[1] = Entry(0, NoTxn) /\ t[1].offset = 0 /\ t[1].txn.new.id = 0
  <2>1. PICK e : e = Entry(0, NoTxn)
    OBVIOUS
  <2>2. t = <<e>>
    BY <2>1 DEF FirstReader
  <2>3. Len(t) = 1 /\ t[1] = e
    BY <2>2
  <2> QED
    BY <2>1, <2>3, Constants DEF Entry
<1>3. Len(log) = 1 /\ log[1] = Entry(0, NoTxn) /\ next_id = 1
  BY InitIs DEF Init
<1>4. /\ BlockSize \in Nat /\ SuperBlockOffset \in 1 .. BlockSize /\ At(1) = BlockSize
  BY SizesAssumption, Constants, AtSome
<1>5. /\ \A i \in 1 .. Len(t) : i = 1
      /\ \A i \in 1 + 1 .. Len(log) : FALSE
      /\ 1 \in 1 .. Len(log)
  BY <1>2, <1>3
<1> HIDE DEF t
<1>6. Tidy(FirstReader)
  <2>1. \A i, j \in 1 .. Len(t) : ~(i < j)
    BY <1>2
  <2> QED
    BY <2>1 DEF Tidy, t
<1>7. UpperOK(FirstReader)
  BY <1>2, <1>3, <1>5 DEF UpperOK, t
<1>8. Ascending(t)
  BY <1>2 DEF Ascending
<1>9. Old(FirstReader, 1)
  BY <1>1, <1>2, <1>3, <1>4, <1>5, <1>6, <1>7, <1>8 DEF Old, t
<1>10. Pair(FirstReader, FirstReader)
  <2>1. \A i \in 1 .. Len(t) : i <= Len(log) /\ t[i] = log[i] => i <= Len(t) /\ t[i] = log[i]
    BY <1>2
  <2>2. \A j \in 1 .. Len(t) : j <= Len(t) /\ t[j] = t[j]
    BY <1>2
  <2>3. SuperBlockOffset <= SuperBlockOffset /\ BlockSize <= BlockSize
    BY <1>4
  <2> QED
    BY <2>1, <2>2, <2>3, <1>1 DEF Pair, t
<1>11. Base(FirstReader, 1, BlockSize)
  <2>1. \A i \in 1 .. 1 : t[i] = log[i]
    BY <1>2, <1>3
  <2>2. \A i \in 1 .. Len(t) : i <= 1 <=> t[i].offset < BlockSize
    BY <1>2, <1>4, <1>5
  <2>3. BlockSize <= BlockSize /\ SuperBlockOffset <= BlockSize /\ 1 <= Len(t)
    BY <1>2, <1>4
  <2> QED
    BY <2>1, <2>2, <2>3, <1>1, <1>4, <1>5 DEF Base, t
<1> QED
  BY <1>9, <1>10, <1>11

\* A filesystem that has just been formatted can be mounted again.
LEMMA InitInv ==
    ASSUME Init
    PROVE  Inv
<1> DEFINE u == Formatted.units
<1>1. PICK tr : /\ IsStream(u, {}, tr) /\ Len(u) = BlockSize
                /\ tr[BlockSize] = FirstReader /\ FirstReader \in Readers
                /\ \A j \in 1 .. BlockSize : u[j].record.txn = NoTxn
  BY FormattedStream
<1>2. /\ pc = "mounted" /\ reader = StartReader /\ in_flight = NotInFlight /\ syncing = Idle
      /\ committing = NoFile /\ mid_block = FALSE /\ next_id = 1 /\ deallocated = {} /\ synced = 0
      /\ pending = [f \in Files |-> Hole]
      /\ inner = [flushed_offset |-> BlockSize, device_flushed_offset |-> SuperBlockOffset,
                  needs_did_flush_device |-> FALSE, discard_offset |-> NoOffset]
      /\ writer = NewWriter(BlockSize, Formatted)
      /\ journal = [i \in Indices |-> IF i = 0 THEN Formatted ELSE Torn]
      /\ unstable = Durable(journal, data)
  BY DEF Init
<1>3. /\ LogInv /\ AllocInv /\ DeviceInv /\ Len(log) = 1 /\ log[1] = Entry(0, NoTxn)
      /\ Formatted \in Checksums /\ Torn \in Checksums
  BY InitIs
<1>4. /\ BlockSize \in Nat /\ BlockSize >= 1 /\ SuperBlockOffset \in 1 .. BlockSize /\ At(1) = BlockSize
      /\ SuperBlockOffset \in Nat /\ NoOffset \in Nat /\ JournalBlocks \in Nat /\ JournalBlocks >= 1
      /\ EndOfFile = At(JournalBlocks) /\ BlockSize <= EndOfFile
  <2>1. EndOfFile = JournalBlocks * BlockSize
    BY DEF EndOfFile
  <2> QED
    BY <2>1, SizesAssumption, Constants, AtSome
<1>5. /\ writer.offset = BlockSize /\ writer.checksum = Formatted /\ writer.buf = <<>> /\ Len(writer.buf) = 0
      /\ inner.flushed_offset = BlockSize /\ inner.device_flushed_offset = SuperBlockOffset
      /\ inner.needs_did_flush_device = FALSE /\ inner.discard_offset = NoOffset
      /\ \A f \in Files : pending[f] = Hole
      /\ Formatted.resets = {}
  BY <1>2 DEF NewWriter, Formatted
<1>6. /\ DurableOffset(1) = BlockSize
      /\ NextFlushed(u, {}, tr, 1) = SuperBlockOffset
  <2>1. DurableOffset(1) = BlockSize
    BY <1>4, <1>5 DEF DurableOffset
  <2>2. NextFlushed(u, {}, tr, 1) = SuperBlockOffset
    BY <1>1, <1>4 DEF NextFlushed, FirstReader
  <2> QED
    BY <2>1, <2>2
<1>7. /\ Old(FirstReader, 1) /\ Pair(FirstReader, FirstReader) /\ Base(FirstReader, 1, BlockSize)
      /\ FirstReader.position = BlockSize /\ FirstReader.current = NoEntry
      /\ FirstReader.flushed = SuperBlockOffset
      /\ Len(FirstReader.transactions) = 1
  <2>1. Len(FirstReader.transactions) = 1
    <3>1. PICK e : e = Entry(0, NoTxn)
      OBVIOUS
    <3>2. FirstReader.transactions = <<e>>
      BY <3>1 DEF FirstReader
    <3> QED
      BY <3>2
  <2> QED
    BY <2>1, FirstReaderIs DEF FirstReader
<1>8. /\ \A i \in Indices : i \in Nat
      /\ \A i \in Indices : unstable.journal[i] = {journal[i]}
      /\ \A i \in Indices : i # 0 => journal[i] = Torn /\ i >= 1
      /\ \A i \in Indices : i = 0 => journal[i] = Formatted
      /\ \A i \in Indices : At(i) < BlockSize => i = 0
      /\ \A i \in Indices : At(i + 1) <= BlockSize => i = 0
  <2>1. \A i \in Indices : i \in Nat /\ unstable.journal[i] = {journal[i]}
    BY <1>2, <1>4 DEF Indices, Durable
  <2>2. \A i \in Indices : i # 0 => At(i) >= BlockSize /\ At(i + 1) > BlockSize
    <3>1. ASSUME NEW i \in Indices, i # 0 PROVE At(i) >= BlockSize /\ At(i + 1) > BlockSize
      <4>1. i \in Nat /\ i >= 1
        BY <2>1, <3>1
      <4>2. At(i) >= At(1) /\ At(i) \in Nat /\ At(i + 1) = At(i) + BlockSize
        BY <4>1, AtMinus, AtNext
      <4> QED
        BY <4>2, <1>4
    <3> QED
      BY <3>1
  <2>3. \A i \in Indices : At(i) \in Nat /\ At(i + 1) \in Nat
    BY <2>1, AtNext
  <2>4. \A i \in Indices : (i # 0 => journal[i] = Torn) /\ (i = 0 => journal[i] = Formatted)
    BY <1>2
  <2> QED
    BY <2>1, <2>2, <2>3, <2>4, <1>4
<1> HIDE DEF u
<1>9. IsChain(Formatted, u, {}, 0)
  <2>1. 0 + 1 = 1
    OBVIOUS
  <2> QED
    BY <2>1, <1>1, <1>4, <1>5 DEF IsChain, u
<1>10. History(tr, 1)
  <2>1. \A q \in 1 .. 1 : q = 1
    OBVIOUS
  <2> QED
    BY <2>1, <1>1, <1>4, <1>7 DEF History
<1>11. Timeline(u, {}, tr, 1, 1)
  <2>1. \A p \in At(1) + 1 .. Len(u) : FALSE
    BY <1>1, <1>4
  <2>2. \A p \in At(1) .. Len(u) : p = BlockSize
    BY <1>1, <1>4
  <2>3. SuperBlockOffset <= SuperBlockOffset /\ BlockSize <= BlockSize
    BY <1>4
  <2>4. \A i \in 1 + 1 .. Len(log) : FALSE
    BY <1>3
  <2>5. \A p, s \in At(1) .. Len(u) : tr[p].flushed <= tr[s].flushed /\ tr[p].position <= tr[s].position
    BY <2>2, <2>3, <1>1, <1>7
  <2>6. ~(Len(u) > At(1)) /\ Len(u) = At(1) /\ tr[At(1)] = FirstReader
    BY <1>1, <1>4
  <2>7. ~(Len(FirstReader.transactions) > 1)
    BY <1>7
  <2> QED
    BY <2>1, <2>4, <2>5, <2>6, <2>7, <1>3, <1>5, <1>7 DEF Timeline
<1>12. WriterInv(u, {}, 1)
  <2>1. 1 \in 0 .. JournalBlocks /\ BlockSize + 0 = BlockSize /\ BlockSize <= BlockSize
    BY <1>4
  <2>2. Len(Formatted.units) = BlockSize /\ Formatted.units \in Seq(AllUnits) /\ <<>> \in Seq(AllUnits)
    BY <1>1 DEF u, IsStream
  <2>3. \A j \in 1 .. 0 : FALSE
    OBVIOUS
  <2> QED
    BY <2>1, <2>2, <2>3, <1>1, <1>2, <1>4, <1>5 DEF WriterInv, u
<1>13. DiskInv(u, {}, 1, 1)
  <2>1. \A j \in 1 .. Len(u) : u[j].record.txn.id < next_id
    BY <1>1, <1>2, Constants
  <2>2. \A i \in Indices : At(i + 1) <= inner.flushed_offset => IsChain(journal[i], u, {}, i)
    BY <1>5, <1>8, <1>9
  <2>3. ASSUME NEW i \in Indices, NEW c \in unstable.journal[i]
        PROVE  \/ c = Torn /\ i >= 1
               \/ At(i + 1) <= writer.offset /\ IsChain(c, u, {}, i)
    <3>1. c = journal[i]
      BY <1>8
    <3>2. CASE i = 0
      <4>1. At(0 + 1) <= BlockSize
        BY <1>4
      <4> QED
        BY <3>1, <3>2, <4>1, <1>5, <1>8, <1>9
    <3> QED
      BY <3>1, <3>2, <1>8
  <2> QED
    BY <2>1, <2>2, <2>3 DEF DiskInv
<1>14. ReuseInv(u, {}, tr, 1)
  <2>1. SuperBlockOffset <= SuperBlockOffset
    BY <1>4
  <2>2. \A k \in 1 .. Len(log) : ~(log[k].offset >= BlockSize)
    <3>1. \A k \in 1 .. Len(log) : k = 1
      BY <1>3
    <3>2. log[1].offset = 0
      BY <1>3 DEF Entry
    <3> QED
      BY <3>1, <3>2, <1>4
  <2> QED
    BY <2>1, <2>2, <1>2, <1>5, <1>6 DEF ReuseInv
<1>15. DurableInv(u, {}, tr, 1, 1)
  <2>1. JournalDurable(u, {}, BlockSize)
    BY <1>8, <1>9 DEF JournalDurable
  <2>2. \A i \in 1 .. Len(log) : BlockOf(log[i]) = NoBlock /\ log[i].offset = 0 /\ i = 1
    <3>1. \A k \in 1 .. Len(log) : k = 1
      BY <1>3
    <3>2. log[1].offset = 0 /\ BlockOf(log[1]) = NoBlock
      BY <1>3, Constants DEF Entry, BlockOf
    <3> QED
      BY <3>1, <3>2
  <2>3. Checkpoint(tr, Len(u), 1, BlockSize)
    <3>1. \A p \in BlockSize .. Len(u) : p = BlockSize
      BY <1>1, <1>4
    <3>2. \A i \in 1 + 1 .. Len(log) : FALSE
      BY <1>3
    <3>3. BlockSize >= BlockSize
      BY <1>4
    <3> QED
      BY <3>1, <3>2, <3>3, <1>1, <1>7 DEF Checkpoint
  <2>4. log[synced + 1].offset < BlockSize
    <3>1. synced + 1 \in 1 .. Len(log)
      BY <1>2, <1>3
    <3> QED
      BY <3>1, <2>2, <1>4
  <2>5. DataDurable(BlockSize) /\ DataThere(BlockSize)
    BY <2>2 DEF DataDurable, DataThere
  <2>6. BlockSize <= BlockSize
    BY <1>4
  <2> QED
    BY <2>1, <2>3, <2>4, <2>5, <2>6, <1>5, <1>6 DEF DurableInv
<1>16. Aligned(u, {}, tr, 1, 1, 1, BlockSize)
  <2>1. Marked(u, {}, 1, 1) /\ ResetsIn({}, 1 .. 1)
    BY DEF Marked, ResetsIn
  <2>2. SyncInv(u, {}, tr, 1, 1)
    BY <1>2 DEF SyncInv
  <2>3. 1 \in 1 .. JournalBlocks /\ 1 \in 1 .. next_id
    BY <1>2, <1>4
  <2> QED
    BY <2>1, <2>2, <2>3, <1>1, <1>4, <1>5, <1>7, <1>10, <1>11, <1>12, <1>13, <1>14, <1>15 DEF Aligned
<1>17. Mounted
  <2>1. InnerType
    BY <1>2, <1>4 DEF InnerType
  <2>2. NotInFlight \in Writers /\ writer \in Writers
    <3>1. <<>> \in Seq(AllUnits) /\ StartingChecksum \in Checksums
      BY <1>3 DEF Torn
    <3> QED
      BY <3>1, <1>2, <1>3, <1>4 DEF NotInFlight, NewWriter, Writers
  <2>3. SyncType
    BY <1>2, <1>3 DEF SyncType, Idle
  <2>4. InFlightInv
    BY <1>2, NoneInFlight DEF InFlightInv
  <2>5. \E z, R, w, g, m, N, v : Aligned(z, R, w, g, m, N, v)
    BY <1>16
  <2> QED
    BY <2>1, <2>2, <2>3, <2>4, <2>5, <1>2, <1>3 DEF Mounted, WriterType
<1> QED
  BY <1>2, <1>3, <1>17 DEF Inv

-----------------------------------------------------------------------------
(* The inductive invariant. *)

\* A step that changes nothing.
LEMMA StutterKeeps ==
    ASSUME Inv, UNCHANGED vars
    PROVE  Inv'
<1>1. UNCHANGED <<journal, data, unstable, pc, reader, verify, inner, writer, in_flight, syncing,
                  committing, extents, pending, deallocated, log, synced, mid_block, next_id>>
  BY DEF vars, device, replay, allocator, history
<1>2. LogInv /\ DeviceInv /\ mid_block \in BOOLEAN
  BY DEF Inv
<1>3. LogInv' /\ DeviceInv'
  BY <1>1, <1>2, LogFrame, DeviceFrame
<1>4. CASE pc = "mounted"
  <2>1. /\ Mounted /\ InnerType /\ WriterType /\ SyncType /\ InFlightInv
        /\ AllocInv /\ committing \in Files \cup {NoFile}
    BY <1>4 DEF Inv, Mounted
  <2>2. /\ next_id \in Nat /\ next_id <= next_id'
        /\ \A i \in Indices : unstable'.journal[i] \subseteq unstable.journal[i]
        /\ \A b \in Blocks : \A n \in 1 .. MaxTxns :
             n < next_id /\ n \notin unstable.data[b] => n \notin unstable'.data[b]
    BY <1>1, <1>2, SameDevice
  <2>3. AllocInv'
    BY <1>1, <2>1, AllocFrame
  <2>4. InnerType' /\ WriterType' /\ SyncType' /\ InFlightInv'
    BY <1>1, <2>1 DEF InnerType, WriterType, SyncType, InFlightInv
  <2>5. ASSUME NEW u, NEW R, NEW tr, NEW g, NEW m, NEW v, Frozen(u, R, tr, g, m, v)
        PROVE  FrozenStep(tr, g)
    BY <1>1, <1>2, <2>2, <2>5, FrozenSame
  <2>6. ASSUME NEW u, NEW R, NEW tr, NEW g, NEW m, NEW N, NEW v, Aligned(u, R, tr, g, m, N, v)
        PROVE  (\E u1, R1, tr1, g1, m1, N1, v1 : Aligned(u1, R1, tr1, g1, m1, N1, v1))'
    <3>1. /\ u \in Seq(AllUnits) /\ g \in Nat /\ N \in Nat
      BY <1>2, <2>1, <2>6, AlignedIs
    <3>2. History(tr, g)'
      BY <1>1, <2>6, HistoryFrame DEF Aligned
    <3>3. Base(tr[At(g)], m, v)'
      BY <1>1, <2>6 DEF Aligned, Base
    <3>4. Timeline(u, R, tr, g, m)' /\ Marked(u, R, g, N)' /\ WriterInv(u, R, g)'
      BY <1>1, <2>6, TimelineFrame, MarkedFrame, WriterFrame DEF Aligned
    <3>5. DiskInv(u, R, g, N)'
      BY <1>1, <1>2, <2>2, <2>6, <3>1, DiskFrame DEF Aligned
    <3>6. ReuseInv(u, R, tr, g)' /\ SyncInv(u, R, tr, g, m)' /\ DurableInv(u, R, tr, g, m)'
      BY <1>1, <2>6, ReuseFrame, SyncFrame, DurableFrame DEF Aligned
    <3>7. Aligned(u, R, tr, g, m, N, v)'
      BY <1>1, <2>6, <3>2, <3>3, <3>4, <3>5, <3>6 DEF Aligned
    <3> QED
      BY <3>7
  <2> QED
    BY <1>1, <1>3, <1>4, <2>1, <2>3, <2>4, <2>5, <2>6, MountedStep
<1>5. CASE pc # "mounted"
  <2>1. PICK u, R, tr, h : Replaying(u, R, tr, h)
    BY <1>5 DEF Inv
  <2>2. Chained(u, R, tr, h)'
    BY <1>1, <2>1, ChainedFrame DEF Replaying
  <2>3. Replaying(u, R, tr, h)'
    BY <1>1, <2>1, <2>2 DEF Replaying, VerifyInv, Blocked, BadData
  <2>4. Unmounted'
    BY <1>1, <1>5 DEF Inv, Unmounted
  <2>5. pc' \in {"reading", "verifying"} /\ pc' # "mounted"
    BY <1>1, <1>5 DEF Inv
  <2> QED
    BY <1>1, <1>2, <1>3, <2>3, <2>4, <2>5 DEF Inv
<1> QED
  BY <1>4, <1>5

\* Every step keeps it, until a block that restarts the stream ends before a
\* mutation.
LEMMA NextKeeps ==
    ASSUME Inv, [Next]_vars, ~bare_restart'
    PROVE  Inv'
<1>1. ASSUME NEW f \in Files, \/ WriteData(f) \/ DropTransaction(f)
                              \/ PreCommit(f) \/ CommitWrite(f) \/ CommitTruncate(f)
      PROVE  Inv'
  BY <1>1, WriteKeeps, DropKeeps, PreCommitKeeps, CommitKeeps
<1>2. CASE TakeBuffer \/ Flush
  BY <1>2, TakeKeeps, FlushKeeps
<1>3. CASE SyncPad \/ SyncFlushDevice \/ SyncReturn
  BY <1>3, SyncPadKeeps, SyncFlushKeeps, SyncReturnKeeps
<1>4. CASE Crash \/ ReadNext \/ ReadEnd \/ VerifyAgain \/ Mount
  BY <1>4, CrashKeeps, ReadNextKeeps, ReadEndKeeps, VerifyAgainKeeps, MountKeeps
<1>5. CASE UNCHANGED vars
  BY <1>5, StutterKeeps
<1> QED
  BY <1>1, <1>2, <1>3, <1>4, <1>5 DEF Next

\* A block that has ended so stays on record.
LEMMA BareStays ==
    ASSUME [Next]_vars, bare_restart
    PROVE  bare_restart'
<1>1. ASSUME NEW f \in Files, \/ WriteData(f) \/ DropTransaction(f)
                              \/ PreCommit(f) \/ CommitWrite(f) \/ CommitTruncate(f)
      PROVE  bare_restart'
  BY <1>1 DEF WriteData, DropTransaction, PreCommit, CommitWrite, CommitTruncate, Commit
<1>2. CASE TakeBuffer \/ Flush
  BY <1>2 DEF TakeBuffer, Flush
<1>3. CASE SyncPad \/ SyncFlushDevice \/ SyncReturn
  <2>1. CASE SyncPad
    BY <2>1 DEF SyncPad
  <2>2. CASE SyncFlushDevice
    BY <2>2 DEF SyncFlushDevice
  <2>3. CASE SyncReturn
    BY <2>3 DEF SyncReturn
  <2> QED
    BY <1>3, <2>1, <2>2, <2>3
<1>4. CASE Crash \/ ReadNext \/ ReadEnd \/ VerifyAgain \/ Mount
  BY <1>4 DEF Crash, ReadNext, ReadEnd, VerifyAgain, Mount
<1>5. CASE UNCHANGED vars
  BY <1>5 DEF vars
<1> QED
  BY <1>1, <1>2, <1>3, <1>4, <1>5 DEF Next

\* The invariant, from the state of a formatted filesystem on.
IInv == bare_restart \/ Inv

(***************************************************************************)
(* Until a block that restarts the stream ends before a mutation: the      *)
(* journal is a chain of blocks that replay() follows to the place where   *)
(* the writer will have got to, every older block on the device is told    *)
(* apart from its successor, and what a crash may leave of file data and   *)
(* journal lets replay() find everything that was synced, and no more than *)
(* was committed.                                                          *)
(***************************************************************************)
THEOREM JournalInvariant == Spec => []IInv
<1>1. Init => IInv
  BY InitInv DEF IInv
<1>2. IInv /\ [Next]_vars => IInv'
  <2> SUFFICES ASSUME IInv, [Next]_vars, ~bare_restart' PROVE Inv'
    BY DEF IInv
  <2>1. Inv
    BY BareStays DEF IInv
  <2> QED
    BY <2>1, NextKeeps
<1> QED
  BY <1>1, <1>2, PTL DEF Spec

-----------------------------------------------------------------------------
(* What it is for. *)

\* The data of a mounted filesystem.
LEMMA IntactIs ==
    ASSUME Inv
    PROVE  DataIntact
<1> SUFFICES ASSUME pc = "mounted", ~mid_block, NEW f \in Files, extents[f] # Hole
             PROVE  data[extents[f].block] = extents[f].id
  BY DEF DataIntact
<1>1. LogInv /\ AllocInv /\ Mounted
  BY DEF Inv, Mounted
<1>2. PICK u, R, tr, g, m, N, v : Aligned(u, R, tr, g, m, N, v)
  BY <1>1 DEF Mounted, Frozen
<1>3. DataThere(DurableOffset(g))
  BY <1>2 DEF Aligned, DurableInv
<1>4. PICK i \in 1 .. Len(log) : /\ log[i].txn.file = f /\ extents[f] = log[i].txn.new
                                 /\ \A j \in i + 1 .. Len(log) : log[j].txn.file # f
                                 /\ BlockOf(log[i]) = extents[f].block /\ BlockOf(log[i]) # NoBlock
  BY <1>1, ExtentIs
<1>5. ~Freed(i, DurableOffset(g))
  <2> SUFFICES ASSUME NEW k \in i + 1 .. Len(log), log[k].txn.old = BlockOf(log[i]) PROVE FALSE
    BY DEF Freed
  <2>1. k \in 1 .. Len(log) /\ i < k
    BY <1>1 DEF LogInv
  <2>2. PICK j \in i + 1 .. k : log[j].txn.file = log[i].txn.file
    BY <1>1, <1>4, <2>1 DEF LogInv
  <2>3. j \in i + 1 .. Len(log)
    BY <1>1 DEF LogInv
  <2> QED
    BY <2>2, <2>3, <1>4
<1> QED
  BY <1>3, <1>4, <1>5 DEF DataThere

(***************************************************************************)
(* The data of every file is what the last transaction on it wrote, after  *)
(* any number of crashes at any point: a block is used again only when the *)
(* deallocation is durable and replay() knows that it is, and replay()     *)
(* drops the transactions whose data was lost.                             *)
(***************************************************************************)
THEOREM DataStaysIntact == Spec => [](bare_restart \/ DataIntact)
<1>1. IInv => bare_restart \/ DataIntact
  BY IntactIs DEF IInv
<1> QED
  BY <1>1, JournalInvariant, PTL

(***************************************************************************)
(* replay() recovers a prefix of what the mount before had committed or    *)
(* recovered: RESET_XOR, the order of the writes and the checksums of the  *)
(* data keep what a crash has lost from coming back.                       *)
(***************************************************************************)
THEOREM NothingLostComesBack == Spec => [](bare_restart \/ NothingComesBack)
<1>1. ASSUME Inv, pc = "verifying", Mismatches = {}
      PROVE  Len(Recovered) <= Len(log) /\ Recovered = SubSeq(log, 1, Len(Recovered))
  <2>1. PICK u, R, tr, h : Verified(u, R, tr, h)
    BY <1>1, InMount
  <2>2. PICK n : n = Len(Recovered)
    OBVIOUS
  <2>3. /\ Recovered \in Seq(Entries) /\ n \in 1 .. Len(log)
        /\ \A i \in 1 .. n : Recovered[i] = log[i]
    BY <2>1, <2>2, RecoveredIs
  <2>4. log \in Seq(Entries) /\ n \in Nat /\ n <= Len(log)
    BY <2>1, <2>3 DEF Verified, LogInv
  <2>5. /\ SubSeq(log, 1, n) \in Seq(Entries) /\ Len(SubSeq(log, 1, n)) = n
        /\ \A i \in 1 .. n : SubSeq(log, 1, n)[i] = log[i]
    <3>1. \A i \in 1 .. n : log[i] \in Entries
      BY <2>4
    <3> QED
      BY <2>4, <3>1, SubSeqProperties
  <2>6. Recovered = SubSeq(log, 1, n)
    BY <2>2, <2>3, <2>5, SeqEqual
  <2> QED
    BY <2>2, <2>4, <2>6
<1>2. IInv => bare_restart \/ NothingComesBack
  BY <1>1 DEF IInv, NothingComesBack
<1> QED
  BY <1>2, JournalInvariant, PTL

(***************************************************************************)
(* A mount finds everything that sync() has vouched for or an earlier      *)
(* mount has recovered, unless a mount has resumed the stream inside a     *)
(* block.                                                                  *)
(***************************************************************************)
THEOREM SyncedIsFound == Spec => [](bare_restart \/ mid_block \/ SyncedTransactionsAreFound)
<1>1. ASSUME Inv, ~mid_block, pc = "verifying", Mismatches = {}
      PROVE  Len(Recovered) - 1 >= synced
  <2>1. PICK u, R, tr, h : Verified(u, R, tr, h)
    BY <1>1, InMount
  <2>2. synced + 1 <= Len(Recovered) /\ synced \in Nat /\ Len(Recovered) \in Nat
    BY <1>1, <2>1, RecoveredIs DEF Verified, LogInv
  <2> QED
    BY <2>2
<1>2. IInv => bare_restart \/ mid_block \/ SyncedTransactionsAreFound
  BY <1>1 DEF IInv, SyncedTransactionsAreFound
<1> QED
  BY <1>2, JournalInvariant, PTL

-----------------------------------------------------------------------------
(* The journal implements the durable log. *)

\* The transactions of a log, without the first.
LEMMA CommittedIs ==
    ASSUME NEW t \in Seq(Entries), Len(t) >= 1
    PROVE  /\ Committed(t) \in Seq(AnyTxn) /\ Len(Committed(t)) = Len(t) - 1 /\ Len(t) \in Nat
           /\ \A i \in 1 .. Len(t) - 1 : Committed(t)[i] = t[i + 1].txn
<1>1. Len(t) - 1 \in Nat /\ Len(t) \in Nat
  OBVIOUS
<1>2. ASSUME NEW i \in 1 .. Len(t) - 1 PROVE t[i + 1].txn \in AnyTxn
  <2>1. i + 1 \in 1 .. Len(t)
    BY <1>1
  <2> QED
    BY <2>1, EntryOf
<1>3. PICK n \in Nat : n = Len(t) - 1
  BY <1>1
<1>4. Committed(t) = [i \in 1 .. n |-> t[i + 1].txn]
  BY <1>3 DEF Committed
<1>5. Committed(t) \in [1 .. n -> AnyTxn]
  BY <1>2, <1>3, <1>4
<1>6. Committed(t) \in Seq(AnyTxn)
  BY <1>5, <1>3
<1>7. Len(Committed(t)) = n
  <2>1. DOMAIN Committed(t) = 1 .. n
    BY <1>4
  <2>2. DOMAIN Committed(t) = 1 .. Len(Committed(t)) /\ Len(Committed(t)) \in Nat
    BY <1>6, LenProperties
  <2> QED
    BY <2>1, <2>2, <1>3
<1> QED
  BY <1>1, <1>3, <1>4, <1>6, <1>7

\* A commit.
LEMMA CommittedAppend ==
    ASSUME LogInv, NEW f, NEW o, NEW txn, Commits(f, o, txn)
    PROVE  Committed(log') = Append(Committed(log), txn)
<1>1. /\ log' \in Seq(Entries) /\ Len(log') = Len(log) + 1 /\ Len(log) \in Nat /\ Len(log) >= 1
      /\ \A i \in 1 .. Len(log) : log'[i] = log[i]
      /\ log'[Len(log) + 1].txn = txn
  BY Appended
<1>2. log \in Seq(Entries) /\ txn \in AnyTxn
  BY DEF LogInv, Commits, AnyTxn
<1>3. PICK n \in Nat : n = Len(log) - 1
  BY <1>1
<1>4. /\ Committed(log) \in Seq(AnyTxn) /\ Len(Committed(log)) = n
      /\ \A i \in 1 .. n : Committed(log)[i] = log[i + 1].txn
  BY <1>1, <1>2, <1>3, CommittedIs
<1>5. /\ Committed(log') \in Seq(AnyTxn) /\ Len(Committed(log')) = n + 1
      /\ \A i \in 1 .. n + 1 : Committed(log')[i] = log'[i + 1].txn
  <2>1. Len(log') >= 1 /\ Len(log') - 1 = n + 1
    BY <1>1, <1>3
  <2> QED
    BY <1>1, <2>1, CommittedIs
<1>6. PICK c, d : c = Committed(log) /\ d = Append(c, txn)
  OBVIOUS
<1>7. /\ d \in Seq(AnyTxn) /\ Len(d) = n + 1
      /\ \A i \in 1 .. n : d[i] = c[i]
      /\ d[n + 1] = txn
  BY <1>2, <1>4, <1>6, AppendProperties
<1>8. \A i \in 1 .. n + 1 : Committed(log')[i] = d[i]
  <2> TAKE i \in 1 .. n + 1
  <2>1. CASE i \in 1 .. n
    <3>1. i + 1 \in 1 .. Len(log)
      BY <1>3, <2>1, <1>1
    <3>2. Committed(log')[i] = log[i + 1].txn
      BY <1>1, <1>5, <3>1
    <3> QED
      BY <2>1, <3>2, <1>4, <1>6, <1>7
  <2>2. CASE i = n + 1
    <3>1. i + 1 = Len(log) + 1
      BY <1>1, <1>3, <2>2
    <3> QED
      BY <2>2, <3>1, <1>1, <1>5, <1>7
  <2> QED
    BY <2>1, <2>2
<1> QED
  BY <1>5, <1>6, <1>7, <1>8, SeqEqual

\* A mount that keeps n transactions.
LEMMA CommittedPrefix ==
    ASSUME NEW t \in Seq(Entries), NEW s \in Seq(Entries), Len(s) \in 1 .. Len(t),
           \A i \in 1 .. Len(s) : s[i] = t[i]
    PROVE  /\ Len(s) - 1 \in 0 .. Len(Committed(t))
           /\ Committed(s) = SubSeq(Committed(t), 1, Len(s) - 1)
<1>1. PICK n, k : n = Len(s) - 1 /\ k = Len(t) - 1
  OBVIOUS
<1>2. n \in Nat /\ k \in Nat /\ n <= k /\ Len(s) >= 1 /\ Len(t) >= 1 /\ Len(s) \in Nat /\ Len(t) \in Nat
  BY <1>1
<1>3. /\ Committed(s) \in Seq(AnyTxn) /\ Len(Committed(s)) = n
      /\ \A i \in 1 .. n : Committed(s)[i] = s[i + 1].txn
  BY <1>1, <1>2, CommittedIs
<1>4. /\ Committed(t) \in Seq(AnyTxn) /\ Len(Committed(t)) = k
      /\ \A i \in 1 .. k : Committed(t)[i] = t[i + 1].txn
  BY <1>1, <1>2, CommittedIs
<1>5. PICK c, d : c = Committed(t) /\ d = SubSeq(c, 1, n)
  OBVIOUS
<1>6. d \in Seq(AnyTxn) /\ Len(d) = n /\ \A i \in 1 .. n : d[i] = c[i]
  <2>1. \A i \in 1 .. n : c[i] \in AnyTxn
    <3>1. \A i \in 1 .. n : i \in 1 .. Len(c)
      BY <1>2, <1>4, <1>5
    <3> QED
      BY <3>1, <1>4, <1>5, ElementOfSeq
  <2> QED
    BY <2>1, <1>2, <1>4, <1>5, SubSeqProperties
<1>7. \A i \in 1 .. n : Committed(s)[i] = d[i]
  <2> TAKE i \in 1 .. n
  <2>1. i + 1 \in 1 .. Len(s) /\ i \in 1 .. k
    BY <1>1, <1>2
  <2> QED
    BY <2>1, <1>3, <1>4, <1>5, <1>6
<1>8. Committed(s) = d
  BY <1>3, <1>6, <1>7, SeqEqual
<1> QED
  BY <1>1, <1>2, <1>4, <1>5, <1>8

\* Steps that commit nothing, return no sync and finish no mount.
LEMMA Quiet ==
    ASSUME UNCHANGED <<log, synced, mid_block>>, bare_restart <=> bare_restart'
    PROVE  UNCHANGED Durability!vars
BY DEF Durability!vars, Committed

(***************************************************************************)
(* The journal implements the durable log: a mount recovers a prefix of    *)
(* the transactions the filesystem had committed, and all that sync() had  *)
(* vouched for, whatever part of the writes a crash has lost and however   *)
(* often it crashes; up to the conditions ~mid_block and ~bare_restart     *)
(* that the refinement mapping hands to the abstract specification.        *)
(***************************************************************************)
THEOREM JournalImplementsDurableLog == Spec => ImplementsDurableLog
<1>1. Init => Durability!Init
  <2> SUFFICES ASSUME Init PROVE Durability!Init
    OBVIOUS
  <2>1. synced = 0 /\ mid_block = FALSE /\ bare_restart = FALSE
    BY DEF Init
  <2>2. log \in Seq(Entries) /\ Len(log) = 1
    BY InitIs DEF LogInv
  <2>3. Committed(log) \in Seq(AnyTxn) /\ Len(Committed(log)) = 0
    BY <2>2, CommittedIs
  <2>4. Committed(log) = <<>>
    BY <2>3
  <2> QED
    BY <2>1, <2>4 DEF Durability!Init
<1>2. IInv /\ [Next]_vars => [Durability!Next]_(Durability!vars)
  <2> SUFFICES ASSUME IInv, [Next]_vars
               PROVE  [Durability!Next]_(Durability!vars)
    OBVIOUS
  <2>1. CASE bare_restart'
    <3>1. Durability!GiveUp
      BY <2>1 DEF Durability!GiveUp
    <3> QED
      BY <3>1 DEF Durability!Next
  <2>2. CASE ~bare_restart'
    <3>1. ~bare_restart /\ Inv
      BY <2>2, BareStays DEF IInv
    <3>2. LogInv /\ log \in Seq(Entries) /\ Len(log) >= 1 /\ synced \in Nat /\ synced + 1 <= Len(log)
      BY <3>1 DEF Inv, LogInv
    <3>3. ASSUME NEW f \in Files, CommitWrite(f) \/ CommitTruncate(f)
          PROVE  Durability!Commit
      <4>1. PICK txn \in Txn : Commits(f, FileOffset(writer), txn) /\ UNCHANGED <<synced, mid_block>>
        BY <3>1, <3>3, CommitIs
      <4>2. Committed(log') = Append(Committed(log), txn)
        BY <4>1, <3>2, CommittedAppend
      <4>3. (~bare_restart)' = ~bare_restart /\ (~mid_block)' = ~mid_block
        BY <2>2, <3>1, <4>1
      <4> QED
        BY <4>1, <4>2, <4>3 DEF Durability!Commit
    <3>4. ASSUME SyncReturn
          PROVE  Durability!Sync
      <4>1. /\ synced' = Max({synced, syncing.upto}) /\ UNCHANGED <<log, mid_block>>
            /\ syncing.upto \in Nat /\ syncing.upto + 1 <= Len(log)
        BY <3>1, <3>4 DEF SyncReturn, history, Inv, Mounted, SyncType
      <4>2. Len(Committed(log)) = Len(log) - 1 /\ Len(log) \in Nat
        BY <3>2, CommittedIs
      <4>3. synced' \in synced .. Len(Committed(log))
        <5>1. synced' = IF synced >= syncing.upto THEN synced ELSE syncing.upto
          BY <4>1, <3>2, MaxTwo
        <5> QED
          BY <5>1, <4>1, <4>2, <3>2
      <4>4. (~bare_restart)' = ~bare_restart /\ (~mid_block)' = ~mid_block
        BY <2>2, <3>1, <4>1
      <4>5. Committed(log)' = Committed(log)
        BY <4>1 DEF Committed
      <4> QED
        BY <4>3, <4>4, <4>5 DEF Durability!Sync
    <3>5. ASSUME Mount
          PROVE  Durability!Mount
      <4>1. PICK u, R, tr, h : Verified(u, R, tr, h)
        BY <3>1, <3>5, InMount DEF Mount
      <4>2. PICK n : n = Len(Recovered) - 1
        OBVIOUS
      <4>3. /\ Recovered \in Seq(Entries) /\ Len(Recovered) \in 1 .. Len(log)
            /\ \A i \in 1 .. Len(Recovered) : Recovered[i] = log[i]
            /\ ~mid_block => synced + 1 <= Len(Recovered)
        BY <4>1, RecoveredIs
      <4>4. log' = Recovered /\ synced' = n /\ mid_block' = (mid_block \/ reader.position % BlockSize # 0)
        BY <3>5, <4>2 DEF Mount
      <4>5. n \in 0 .. Len(Committed(log)) /\ Committed(log') = SubSeq(Committed(log), 1, n)
        BY <3>2, <4>2, <4>3, <4>4, CommittedPrefix
      <4>6. ~mid_block => n >= synced
        BY <3>2, <4>2, <4>3
      <4>7. (~bare_restart)' = ~bare_restart /\ ((~mid_block)' => ~mid_block)
        BY <2>2, <3>1, <4>4
      <4> QED
        BY <4>4, <4>5, <4>6, <4>7 DEF Durability!Mount
    <3>6. ASSUME UNCHANGED <<log, synced, mid_block>>
          PROVE  UNCHANGED Durability!vars
      BY <2>2, <3>1, <3>6, Quiet
    <3>7. ASSUME NEW f \in Files, WriteData(f) \/ DropTransaction(f) \/ PreCommit(f)
          PROVE  UNCHANGED Durability!vars
      BY <3>6, <3>7 DEF WriteData, DropTransaction, PreCommit, history
    <3>8. CASE TakeBuffer \/ Flush \/ SyncPad \/ SyncFlushDevice
      BY <3>6, <3>8 DEF TakeBuffer, Flush, SyncPad, SyncFlushDevice, history
    <3>9. CASE Crash \/ ReadNext \/ ReadEnd \/ VerifyAgain
      BY <3>6, <3>9 DEF Crash, ReadNext, ReadEnd, VerifyAgain, history
    <3>10. CASE UNCHANGED vars
      BY <3>6, <3>10 DEF vars, history
    <3> QED
      BY <3>3, <3>4, <3>5, <3>7, <3>8, <3>9, <3>10 DEF Next, Durability!Next
  <2> QED
    BY <2>1, <2>2
<1>3. Spec => Durability!Spec
  BY <1>1, <1>2, JournalInvariant, PTL DEF Spec, Durability!Spec
<1> QED
  BY <1>3 DEF ImplementsDurableLog
=============================================================================
