-------------------------- MODULE EntryStoreProofs --------------------------
(***************************************************************************)
(* Theorems about EntryStore, for any processes, texts, digest, budget,    *)
(* caps and capacity, with a directory or without.                         *)
(*                                                                         *)
(* The invariant Inv is about one process at a time: the parts of a store  *)
(* agree (StoreInv), a call is where its fields say (CallInv), and what is *)
(* on disk is of the right kind; the other processes, their crashes and    *)
(* the files that are lost only ever replace one such value by another.    *)
(* What a call's work in memory does is bounded once, in Outcome: the      *)
(* store it leaves, the files it leaves to write, what it answers.         *)
(*                                                                         *)
(* The second invariant, SafeInv, relates a store to its directory while   *)
(* nothing has failed.  In the middle of a call the directory is behind;   *)
(* but with the files the call still has to write it is what a restart     *)
(* needs (Saved), and every file written brings it nearer (FinalStep).     *)
(***************************************************************************)
EXTENDS EntryStore, FiniteSetTheorems, FunctionTheorems, SequenceTheorems, WellFoundedInduction,
        TLAPS

-----------------------------------------------------------------------------
(* The store of a process. *)

Lineage == Seq(Text) \ {<<>>}
RowType == {Row(t) : t \in Text}
EntryType == [text : Text \cup {None}, handle : Nat \cup {None}, rev : Nat, row : RowType]

Held(s) == {s.entries[n].handle : n \in DOMAIN s.entries}

Shape(s) ==
    /\ DOMAIN s = {"entries", "lru", "index", "sessions", "recent"}
    /\ DOMAIN s.entries \subseteq Name /\ IsFiniteSet(DOMAIN s.entries)
    /\ s.entries \in [DOMAIN s.entries -> EntryType]
    /\ s.index \in [DOMAIN s.entries -> RowType]
    /\ DOMAIN s.sessions \subseteq Nat /\ IsFiniteSet(DOMAIN s.sessions)
    /\ s.sessions \in [DOMAIN s.sessions -> Lineage]
    /\ s.lru \in Seq(Name) /\ s.recent \in Seq(Nat)

\* The lru names every entry once.
Listed(s) == ToSet(s.lru) = DOMAIN s.entries /\ IsInjective(s.lru)

\* An entry says what its session says.
EntryExact(s, n) ==
    LET e == s.entries[n] IN
    /\ e.row = s.index[n]
    /\ e.text = None => e.handle = None
    /\ e.text # None => e.row = Row(e.text)
    /\ e.handle # None /\ Live(s, e.handle) =>
            e.text = SessionText(s, e.handle) /\ e.rev = Len(s.sessions[e.handle]) - 1

\* No two entries share a handle, and the sessions no entry holds are those
\* of K, that a call has just made.
Owned(s, K) ==
    /\ \A n, o \in DOMAIN s.entries :
            s.entries[n].handle # None /\ s.entries[n].handle = s.entries[o].handle => n = o
    /\ \A h \in DOMAIN s.sessions : h \in Held(s) <=> h \notin K

StoreInv(s, K) ==
    /\ Shape(s)
    /\ Listed(s)
    /\ \A n \in DOMAIN s.entries : EntryExact(s, n)
    /\ Owned(s, K)

-----------------------------------------------------------------------------
(* The directory and the files a call still has to write. *)

RecType == [lineage : Lineage, sealed : BOOLEAN]
BindType == {BindingOf(l) : l \in Lineage}
IndexType == UNION {[D -> RowType] : D \in {E \in SUBSET Name : IsFiniteSet(E)}}

DiskType ==
    [meta : BOOLEAN, index : IndexType \cup {None}, rec : [Name -> RecType \cup {None}],
     bind : [Name -> BindType \cup {None}]]

WriteType ==
    [op : {"remove"}, kind : {"rec", "bind"}, name : Name, val : {None}]
    \cup [op : {"write"}, kind : {"rec"}, name : Name, val : RecType]
    \cup [op : {"write"}, kind : {"bind"}, name : Name, val : BindType]
    \cup [op : {"write"}, kind : {"index"}, name : {None}, val : IndexType]
    \cup [op : {"write"}, kind : {"meta"}, name : {None}, val : {TRUE}]

IsRecord(w) == w.op = "write" /\ w.kind = "rec"

\* Files a call may still have to write: after a record comes its binding.
Pending(ws) ==
    /\ ws \in Seq(WriteType)
    /\ \A i \in 1..Len(ws) : IsRecord(ws[i]) => i < Len(ws)

DiskInv == disk \in DiskType /\ IsFiniteSet({n \in Name : disk.rec[n] # None})

-----------------------------------------------------------------------------
(* The call of a process. *)

CallShape(c) ==
    /\ DOMAIN c = {"pc", "lookup", "name", "text", "todo", "raw", "writes", "out"}
    /\ c.lookup \in BOOLEAN
    /\ Pending(c.writes)
    /\ c.out # None => c.out = c.text

CallInv(s, c) ==
    /\ CallShape(c)
    /\ c.pc \in {"idle", "load", "files", "rename", "serve", "scan", "record", "binding"}
    /\ c.pc \in {"files", "rename"} <=> c.writes # <<>>
    /\ c.pc = "rename" => Head(c.writes).op = "write"
    /\ c.pc \in {"serve", "scan", "record", "binding"} => c.text \in Text /\ c.out = None
    /\ c.pc = "serve" => ~c.lookup
    /\ c.pc = "serve" =>
            c.name \in Name /\ (c.name \in DOMAIN s.entries => Resident(s, c.name))
    /\ c.pc \in {"record", "binding"} =>
            c.name \in DOMAIN s.entries /\ ~Resident(s, c.name)
    /\ c.pc = "scan" => c.lookup
    /\ c.pc = "binding" => c.raw \in RecType

\* What a named call has answered is within the budget.
BudgetInv(s, c) == ~c.lookup /\ c.out # None => ResidentBytes(s) <= Budget

ProcessInv(p) ==
    StoreInv(mem[p], {}) /\ CallInv(mem[p], call[p]) /\ BudgetInv(mem[p], call[p])

Inv ==
    /\ up \in [Process -> BOOLEAN] /\ DOMAIN mem = Process /\ DOMAIN call = Process
    /\ faults \in Nat
    /\ DiskInv
    /\ \A p \in Process : ProcessInv(p)

-----------------------------------------------------------------------------
(* What the work of a call does to a store, and leaves to write. *)

\* Entries may go; those that stay keep their row of the index.
Fewer(s, t) ==
    /\ DOMAIN t.entries \subseteq DOMAIN s.entries
    /\ \A n \in DOMAIN t.entries : t.index[n] = s.index[n]

\* The files of one new or grown entry n: the removals of the cap, a record and
\* its binding, the index.
EntryFiles(victims, n, l, idx) ==
    CapRemovals(victims)
    \o <<Write("rec", n, RecordOf(l)), Write("bind", n, BindingOf(l))>>
    \o <<Write("index", None, idx)>>

\* What became of the entry m: it is the one written, or was there before.
Covered(s, t, victims, n, l, idx, m) ==
    /\ m \in DOMAIN idx /\ idx[m] = t.index[m]
    /\ \/ m = n /\ idx[m] = Row(Last(l))
       \/ m # n /\ m \in DOMAIN s.entries /\ m \notin ToSet(victims) /\ idx[m] = s.index[m]

Recorded(s, res) ==
    \/ res.writes = <<>> /\ Fewer(s, res.mem)
    \/ \E victims \in Seq(Name), n \in Name, l \in Lineage, idx \in IndexType :
        /\ res.writes = EntryFiles(victims, n, l, idx)
        /\ \A m \in DOMAIN res.mem.entries : Covered(s, res.mem, victims, n, l, idx, m)

\* A call for the text t may end with this result.
Outcome(s, res, t) ==
    /\ StoreInv(res.mem, {})
    /\ Pending(res.writes)
    /\ res.out \in {None, t}
    /\ res.out = None => res.writes = <<>>
    /\ Persistent => Recorded(s, res)

Thrifty(res) == res.out # None => ResidentBytes(res.mem) <= Budget

-----------------------------------------------------------------------------
(* What a restart finds, while no fault has happened. *)

FileValue(d, kind, n) ==
    IF kind = "rec" THEN d.rec[n] ELSE IF kind = "bind" THEN d.bind[n] ELSE d.index

\* The files of a list that set one file, and the value the last of them
\* leaves.
Settings(ws, kind, n) == {i \in 1..Len(ws) : ws[i].kind = kind /\ ws[i].name = n}

Final(d, ws, kind, n) ==
    LET at == Settings(ws, kind, n) IN
    IF at = {} THEN FileValue(d, kind, n)
    ELSE ws[CHOOSE i \in at : \A j \in at : j <= i].val

\* The record, the binding and the row of an entry, once these files are
\* written.
SavedEntry(s, d, ws, n) ==
    LET rec == Final(d, ws, "rec", n)
        index == Final(d, ws, "index", None)
    IN  /\ rec # None /\ index # None
        /\ s.index[n] = Row(Last(rec.lineage))
        /\ n \in DOMAIN index /\ index[n] = s.index[n]
        /\ Final(d, ws, "bind", n) = BindingOf(rec.lineage)

Saved(s, d, ws) == \A n \in DOMAIN s.entries : SavedEntry(s, d, ws, n)

Active(p) == up[p] \/ call[p].pc # "idle"

\* The call of a process whose store is not open yet.
Opening(c) ==
    /\ c.pc \in {"idle", "load", "files", "rename"}
    /\ \A i \in 1..Len(c.writes) : c.writes[i].kind = "meta"

OneProcess == \A p, q \in Process : Active(p) /\ Active(q) => p = q

Fresh ==
    /\ \A n \in Name : disk.rec[n] = None
    /\ disk.index = None

TmpOwned == \A f \in tmp : \E p \in Process : call[p].pc = "rename" /\ f = TmpOf(p)

\* Nothing but its own files stands between a store and its directory.
SafeProcess(p) ==
    /\ up[p] => call[p].pc # "load" /\ Saved(mem[p], disk, call[p].writes)
    /\ ~up[p] => Opening(call[p])
    /\ call[p].pc = "binding" => call[p].raw = disk.rec[call[p].name]

Safe ==
    /\ OneProcess
    /\ (\A p \in Process : ~up[p]) => Fresh
    /\ TmpOwned
    /\ \A p \in Process : SafeProcess(p)

SafeInv == faults = 0 /\ Persistent => Safe

-----------------------------------------------------------------------------
(* Lists. *)

\* A set of naturals has a least element.
LEMMA NatLeast ==
    ASSUME NEW S \in SUBSET Nat, S # {}
    PROVE  \E m \in S : \A k \in S : m <= k
<1> DEFINE R == {ss \in Nat \X Nat : ss[1] < ss[2]}
<1>1. R = OpToRel(<, Nat)
  BY DEF OpToRel
<1>2. IsWellFoundedOn(R, Nat)
  BY <1>1, NatLessThanWellFounded
<1> HIDE DEF R
<1>3. PICK x \in S : \A y \in S : ~(<<y, x>> \in R)
  BY <1>2, WFMin, IsWellFoundedOnSubset, ZenonT(30)
<1>4. \A y \in S : ~(y < x)
  <2> TAKE y \in S
  <2>1. <<y, x>> \in Nat \X Nat /\ <<y, x>>[1] = y /\ <<y, x>>[2] = x
    OBVIOUS
  <2>2. y < x => <<y, x>> \in R
    BY <2>1 DEF R
  <2> QED
    BY <2>2, <1>3
<1> QED
  BY <1>4

\* The recursion of Among, on the first m members of a list.
Keeps(s, X, m, kept) ==
    kept = [i \in 0..m |-> IF i = 0 THEN <<>>
                           ELSE IF s[i] \in X THEN Append(kept[i - 1], s[i])
                           ELSE kept[i - 1]]

\* It is well defined on every list.
LEMMA KeptDefined ==
    ASSUME NEW s, NEW X, NEW m \in Nat
    PROVE  \E kept : Keeps(s, X, m, kept)
<1> USE DEF Keeps
<1> DEFINE Builds(n, kept) == Keeps(s, X, n, kept)
           Fails == {n \in Nat : ~\E kept : Builds(n, kept)}
<1>1. ASSUME Fails # {}
      PROVE  FALSE
  <2>1. PICK n \in Fails : \A k \in Fails : n <= k
    BY <1>1, NatLeast
  <2>2. n # 0
    <3> DEFINE none == [i \in 0..0 |-> <<>>]
    <3>1. Builds(0, none)
      OBVIOUS
    <3> QED BY <2>1, <3>1
  <2>3. n - 1 \in Nat /\ n \in Nat
    BY <2>1, <2>2
  <2>4. PICK g : Builds(n - 1, g)
    <3>1. ~(n <= n - 1)
      BY <2>3
    <3>2. n - 1 \notin Fails
      BY <2>1, <3>1
    <3> QED BY <2>3, <3>2
  <2> DEFINE next == IF s[n] \in X THEN Append(g[n - 1], s[n]) ELSE g[n - 1]
             h == [i \in 0..n |-> IF i = n THEN next ELSE g[i]]
  <2>5. \A i \in 0..(n - 1) : h[i] = g[i]
    BY <2>3
  <2>6. \A i \in 0..n : h[i] = IF i = 0 THEN <<>>
                               ELSE IF s[i] \in X THEN Append(h[i - 1], s[i])
                               ELSE h[i - 1]
    <3> TAKE i \in 0..n
    <3>1. CASE i = n
      <4>1. h[n - 1] = g[n - 1] /\ h[n] = next
        BY <2>3, <2>5
      <4> QED BY <3>1, <4>1, <2>2
    <3>2. CASE i # n
      <4>1. i \in 0..(n - 1) /\ h[i] = g[i]
        BY <3>2, <2>3, <2>5
      <4>2. i # 0 => i - 1 \in 0..(n - 1)
        BY <4>1, <2>3
      <4> QED BY <4>1, <4>2, <2>4, <2>5
    <3> QED BY <3>1, <3>2
  <2>7. Builds(n, h)
    <3>1. h = [i \in 0..n |-> h[i]]
      OBVIOUS
    <3> HIDE DEF h
    <3> QED BY <3>1, <2>6
  <2> QED BY <2>1, <2>7
<1>2. m \notin Fails
  BY <1>1
<1> QED BY <1>2

\* What Append does to the members of a list.
LEMMA AppendMembers ==
    ASSUME NEW S, NEW q \in Seq(S), NEW e \in S
    PROVE  /\ Append(q, e) \in Seq(S)
           /\ ToSet(Append(q, e)) = ToSet(q) \cup {e}
           /\ IsInjective(q) /\ e \notin ToSet(q) => IsInjective(Append(q, e))
<1> DEFINE a == Append(q, e)
<1>1. /\ a \in Seq(S) /\ Len(q) \in Nat
      /\ DOMAIN a = 1..(Len(q) + 1) /\ DOMAIN q = 1..Len(q)
      /\ \A i \in 1..Len(q) : a[i] = q[i]
      /\ a[Len(q) + 1] = e
  BY AppendProperties, LenProperties
<1> HIDE DEF a
<1>2. ToSet(a) \subseteq ToSet(q) \cup {e}
  <2> SUFFICES ASSUME NEW i \in 1..(Len(q) + 1)
               PROVE  a[i] \in ToSet(q) \cup {e}
    BY <1>1 DEF ToSet
  <2>1. CASE i \in 1..Len(q)
    BY <2>1, <1>1 DEF ToSet
  <2>2. CASE i = Len(q) + 1
    BY <2>2, <1>1
  <2> QED BY <2>1, <2>2, <1>1
<1>3. ToSet(q) \cup {e} \subseteq ToSet(a)
  <2>1. ASSUME NEW i \in 1..Len(q)
        PROVE  q[i] \in ToSet(a)
    <3>1. i \in DOMAIN a /\ a[i] = q[i]
      BY <1>1
    <3> QED BY <3>1 DEF ToSet
  <2>2. e \in ToSet(a)
    <3>1. Len(q) + 1 \in DOMAIN a
      BY <1>1
    <3> QED BY <3>1, <1>1 DEF ToSet
  <2> QED BY <2>1, <2>2, <1>1 DEF ToSet
<1>4. ASSUME IsInjective(q), e \notin ToSet(q)
      PROVE  IsInjective(a)
  <2> SUFFICES ASSUME NEW i \in 1..(Len(q) + 1), NEW j \in 1..(Len(q) + 1), a[i] = a[j]
               PROVE  i = j
    BY <1>1 DEF IsInjective
  <2>1. \A k \in 1..Len(q) : a[k] \in ToSet(q)
    BY <1>1 DEF ToSet
  <2>2. CASE i \in 1..Len(q) /\ j \in 1..Len(q)
    BY <2>2, <1>1, <1>4 DEF IsInjective
  <2>3. CASE i = Len(q) + 1 /\ j \in 1..Len(q)
    BY <2>3, <2>1, <1>1, <1>4
  <2>4. CASE i \in 1..Len(q) /\ j = Len(q) + 1
    BY <2>4, <2>1, <1>1, <1>4
  <2> QED BY <2>2, <2>3, <2>4, <1>1
<1> QED BY <1>1, <1>2, <1>3, <1>4 DEF a

\* Among keeps the members of X, each as often as it was there.
LEMMA AmongList ==
    ASSUME NEW S, NEW s \in Seq(S), NEW X
    PROVE  /\ Among(s, X) \in Seq(S)
           /\ ToSet(Among(s, X)) = ToSet(s) \cap X
           /\ IsInjective(s) => IsInjective(Among(s, X))
           /\ s # <<>> /\ s[Len(s)] \in X =>
                Len(Among(s, X)) # 0 /\ Among(s, X)[Len(Among(s, X))] = s[Len(s)]
<1>1. Len(s) \in Nat /\ DOMAIN s = 1..Len(s)
  BY LenProperties
<1> DEFINE Builds(kept) == Keeps(s, X, Len(s), kept)
           f == CHOOSE kept : Builds(kept)
<1>2. Builds(f)
  <2>1. \E kept : Builds(kept)
    BY <1>1, KeptDefined
  <2> HIDE DEF Builds
  <2> QED BY <2>1
<1>3. Among(s, X) = f[Len(s)]
  BY DEF Among, Keeps
<1>4. /\ f[0] = <<>>
      /\ \A i \in 1..Len(s) : f[i] = IF s[i] \in X THEN Append(f[i - 1], s[i]) ELSE f[i - 1]
  <2> HIDE DEF f
  <2>1. \A i \in 0..Len(s) : f[i] = IF i = 0 THEN <<>>
                                    ELSE IF s[i] \in X THEN Append(f[i - 1], s[i])
                                    ELSE f[i - 1]
    BY <1>2 DEF Keeps
  <2>2. 0 \in 0..Len(s) /\ \A i \in 1..Len(s) : i \in 0..Len(s) /\ i # 0
    BY <1>1
  <2> HIDE DEF Builds
  <2>3. f[0] = <<>>
    BY <2>1, <2>2
  <2>4. ASSUME NEW i \in 1..Len(s)
        PROVE  f[i] = IF s[i] \in X THEN Append(f[i - 1], s[i]) ELSE f[i - 1]
    BY <2>1, <2>2
  <2> QED BY <2>3, <2>4
<1> HIDE DEF f
<1> DEFINE Seen(i) == {s[j] : j \in 1..i}
           Good(i) == /\ f[i] \in Seq(S)
                      /\ ToSet(f[i]) = Seen(i) \cap X
                      /\ IsInjective(s) => IsInjective(f[i])
           Bad == {i \in 0..Len(s) : ~Good(i)}
<1>5. Good(0)
  <2>1. <<>> \in Seq(S) /\ Len(<<>>) = 0 /\ DOMAIN <<>> = {}
    BY EmptySeq
  <2>2. ToSet(<<>>) = {} /\ IsInjective(<<>>)
    BY <2>1 DEF ToSet, IsInjective
  <2> QED BY <1>4, <2>1, <2>2
<1>6. ASSUME NEW i \in 1..Len(s), Good(i - 1)
      PROVE  Good(i)
  <2>1. s[i] \in S
    BY ElementOfSeq
  <2>2. Seen(i) = Seen(i - 1) \cup {s[i]}
    <3>1. 1..i = (1..(i - 1)) \cup {i}
      BY <1>1
    <3> QED BY <3>1
  <2>3. IsInjective(s) => s[i] \notin Seen(i - 1)
    BY <1>1 DEF IsInjective
  <2>4. CASE s[i] \in X
    <3>1. f[i] = Append(f[i - 1], s[i])
      BY <1>4, <2>4
    <3> HIDE DEF Seen
    <3> QED BY <3>1, <1>6, <2>1, <2>2, <2>3, <2>4, AppendMembers
  <2>5. CASE s[i] \notin X
    <3>1. f[i] = f[i - 1]
      BY <1>4, <2>5
    <3> HIDE DEF Seen
    <3> QED BY <3>1, <1>6, <2>2, <2>5
  <2> QED BY <2>4, <2>5
<1> HIDE DEF Good
<1>7. Bad = {}
  <2> SUFFICES ASSUME Bad # {} PROVE FALSE
    OBVIOUS
  <2>1. Bad \in SUBSET Nat
    BY <1>1
  <2>2. PICK i \in Bad : \A k \in Bad : i <= k
    BY <2>1, NatLeast
  <2>3. i \in 1..Len(s)
    BY <2>2, <1>5, <1>1
  <2>4. i - 1 \in 0..Len(s) /\ ~(i <= i - 1)
    BY <2>3, <1>1
  <2>5. i - 1 \notin Bad
    BY <2>2, <2>4
  <2> QED BY <2>2, <2>3, <2>4, <2>5, <1>6
<1>8. Good(Len(s))
  BY <1>1, <1>7
<1>9. Seen(Len(s)) = ToSet(s)
  BY <1>1 DEF ToSet
<1>10. ASSUME s # <<>>, s[Len(s)] \in X
       PROVE  Len(f[Len(s)]) # 0 /\ f[Len(s)][Len(f[Len(s)])] = s[Len(s)]
  <2>1. Len(s) \in 1..Len(s) /\ Len(s) - 1 \in 0..Len(s)
    BY <1>1, <1>10, EmptySeq
  <2>2. f[Len(s)] = Append(f[Len(s) - 1], s[Len(s)])
    BY <2>1, <1>4, <1>10
  <2>3. Len(s) - 1 \notin Bad
    BY <1>7
  <2>4. f[Len(s) - 1] \in Seq(S) /\ s[Len(s)] \in S
    BY <2>1, <2>3, ElementOfSeq DEF Good
  <2> QED BY <2>2, <2>4, AppendProperties, LenProperties
<1> QED BY <1>3, <1>8, <1>9, <1>10 DEF Good

\* A finite set of names has exactly one list in order, and InOrder is one.
LEMMA InOrderList ==
    ASSUME NEW names \in SUBSET Name, IsFiniteSet(names)
    PROVE  /\ InOrder(names) \in Seq(names)
           /\ ToSet(InOrder(names)) = names
           /\ IsInjective(InOrder(names))
<1> DEFINE K == Cardinality(names)
           Below(n) == {o \in names : NameRank(o) <= NameRank(n)}
           pos == [n \in names |-> Cardinality(Below(n))]
           Sorted(f) == /\ f \in [1..K -> names]
                        /\ \A i, j \in 1..K : i < j => NameRank(f[i]) < NameRank(f[j])
<1>1. \A n \in names : NameRank(n) \in Int
  BY RankAssumption
<1>2. \A n, o \in names : NameRank(n) = NameRank(o) => n = o
  BY RankAssumption
<1>3. K \in Nat /\ IsFiniteSet(1..K) /\ Cardinality(1..K) = K
  <2>1. K \in Nat
    BY FS_CardinalityType
  <2> HIDE DEF K
  <2> QED BY <2>1, FS_Interval
<1>4. \A n \in names : IsFiniteSet(Below(n)) /\ Cardinality(Below(n)) \in 1..K
  <2> TAKE n \in names
  <2>1. Below(n) \in SUBSET names
    OBVIOUS
  <2>2. IsFiniteSet(Below(n)) /\ Cardinality(Below(n)) <= K
    BY <2>1, FS_Subset
  <2>3. n \in Below(n)
    BY <1>1
  <2> HIDE DEF Below, K
  <2>4. Cardinality(Below(n)) \in Nat /\ Cardinality(Below(n)) # 0
    BY <2>2, <2>3, FS_CardinalityType, FS_EmptySet
  <2> QED BY <2>2, <2>4, <1>3
<1>5. ASSUME NEW n \in names, NEW o \in names, NameRank(n) < NameRank(o)
      PROVE  pos[n] < pos[o]
  <2>1. Below(n) \in SUBSET Below(o) /\ o \in Below(o) /\ o \notin Below(n)
    BY <1>1, <1>5
  <2> HIDE DEF Below
  <2>2. /\ Cardinality(Below(n)) <= Cardinality(Below(o))
        /\ Cardinality(Below(n)) # Cardinality(Below(o))
    BY <2>1, <1>4, FS_Subset
  <2>3. Cardinality(Below(n)) \in Int /\ Cardinality(Below(o)) \in Int
    BY <1>4
  <2> QED BY <2>2, <2>3
<1>6. pos \in [names -> 1..K]
  BY <1>4
<1>7. pos \in Surjection(names, 1..K)
  <2> HIDE DEF pos, K
  <2>1. ASSUME NEW n \in names, NEW o \in names, pos[n] = pos[o]
        PROVE  n = o
    <3>1. pos[n] \in Int /\ pos[o] \in Int
      BY <1>6
    <3>2. ~(NameRank(n) < NameRank(o)) /\ ~(NameRank(o) < NameRank(n))
      BY <3>1, <2>1, <1>5
    <3> QED BY <3>2, <1>1, <1>2
  <2>2. pos \in Injection(names, 1..K)
    BY <1>6, <2>1, Fun_IsInj
  <2>3. Cardinality(names) = Cardinality(1..K)
    BY <1>3 DEF K
  <2> QED BY <2>2, <2>3, <1>3, FS_Injection
<1> DEFINE inv == [i \in 1..K |-> CHOOSE n \in names : pos[n] = i]
<1>8. \A i \in 1..K : inv[i] \in names /\ pos[inv[i]] = i
  <2> TAKE i \in 1..K
  <2> HIDE DEF pos, K
  <2>1. \E n \in names : pos[n] = i
    BY <1>7 DEF Surjection
  <2> QED BY <2>1
<1>9. Sorted(inv)
  <2>1. inv \in [1..K -> names]
    BY <1>8
  <2> SUFFICES ASSUME NEW i \in 1..K, NEW j \in 1..K, i < j
               PROVE  NameRank(inv[i]) < NameRank(inv[j])
    BY <2>1
  <2>2. inv[i] \in names /\ inv[j] \in names /\ pos[inv[i]] = i /\ pos[inv[j]] = j
    BY <1>8
  <2> HIDE DEF inv, pos
  <2>3. ~(NameRank(inv[j]) < NameRank(inv[i]))
    <3>1. i \in Int /\ j \in Int /\ ~(j < i)
      BY <1>3
    <3> QED BY <2>2, <3>1, <1>5
  <2>4. inv[i] # inv[j]
    <3>1. i # j
      BY <1>3
    <3> QED BY <3>1, <2>2
  <2> QED BY <2>2, <2>3, <2>4, <1>1, <1>2
<1> DEFINE g == InOrder(names)
<1>10. Sorted(g)
  <2> HIDE DEF inv
  <2>1. \E f \in [1..K -> names] :
            \A i, j \in 1..K : i < j => NameRank(f[i]) < NameRank(f[j])
    BY <1>9
  <2> QED BY <2>1 DEF InOrder
<1> HIDE DEF g, K, inv, pos
<1>11. g \in Injection(1..K, names)
  <2> SUFFICES ASSUME NEW i \in 1..K, NEW j \in 1..K, g[i] = g[j]
               PROVE  i = j
    BY <1>10, Fun_IsInj
  <2>1. g[i] \in names /\ NameRank(g[i]) \in Int
    BY <1>10, <1>1
  <2>2. ~(i < j) /\ ~(j < i)
    BY <2>1, <1>10
  <2> QED BY <2>2, <1>3
<1>12. g \in Surjection(1..K, names)
  BY <1>11, <1>3, FS_Injection DEF K
<1>13. g \in Seq(names) /\ DOMAIN g = 1..K
  BY <1>3, <1>10
<1>14. IsInjective(g)
  BY <1>11 DEF Injection
<1>15. ToSet(g) = names
  BY <1>12, <1>13, <1>10 DEF Surjection, ToSet
<1> QED BY <1>13, <1>14, <1>15 DEF g

\* A fresh handle is the handle of no session and of no entry.
LEMMA FreshHandleFree ==
    ASSUME NEW s, Shape(s)
    PROVE  /\ FreshHandle(s) \in Nat
           /\ FreshHandle(s) \notin DOMAIN s.sessions
           /\ FreshHandle(s) \notin Held(s)
<1> DEFINE taken == DOMAIN s.sessions \cup Held(s)
           K == Cardinality(taken)
<1>1. IsFiniteSet(Held(s))
  <2> DEFINE f == [n \in DOMAIN s.entries |-> s.entries[n].handle]
  <2>1. f \in Surjection(DOMAIN s.entries, Held(s))
    <3>1. f \in [DOMAIN s.entries -> Held(s)]
      BY DEF Held
    <3>2. \A h \in Held(s) : \E n \in DOMAIN s.entries : f[n] = h
      BY DEF Held
    <3> QED BY <3>1, <3>2, Fun_IsSurj
  <2> QED BY <2>1, FS_Surjection DEF Shape
<1>2. IsFiniteSet(taken)
  BY <1>1, FS_Union DEF Shape
<1>3. K \in Nat
  BY <1>2, FS_CardinalityType
<1>4. \E h \in 0..K : h \notin taken
  <2> SUFFICES ASSUME \A h \in 0..K : h \in taken
               PROVE  FALSE
    OBVIOUS
  <2> HIDE DEF taken, K
  <2>1. Cardinality(0..K) = K + 1
    BY <1>3, FS_Interval
  <2>2. 0..K \in SUBSET taken
    OBVIOUS
  <2>3. Cardinality(0..K) <= K
    BY <2>2, <1>2, FS_Subset DEF K
  <2> QED BY <2>1, <2>3, <1>3
<1>5. FreshHandle(s) = CHOOSE h \in 0..K : h \notin taken
  BY DEF FreshHandle, Held
<1>6. FreshHandle(s) \in 0..K /\ FreshHandle(s) \notin taken
  <2> HIDE DEF taken, K
  <2> QED BY <1>4, <1>5
<1> QED BY <1>6, <1>3

\* The bytes of no entry, and bytes are those of the rows.
LEMMA BytesOfRows ==
    /\ \A s : Bytes(s, {}) = 0
    /\ \A s, t, names : (\A n \in names : s.entries[n].row = t.entries[n].row)
                            => Bytes(s, names) = Bytes(t, names)
<1>1. ASSUME NEW s
      PROVE  Bytes(s, {}) = 0
  <2> DEFINE w == [n \in {} |-> s.entries[n].row.len]
  <2>1. DOMAIN w = {}
    OBVIOUS
  <2> HIDE DEF w
  <2>2. SumFunction(w) = 0
    BY <2>1 DEF SumFunction, SumFunctionOnSet, FoldFunctionOnSet, MapThenFoldSet
  <2> QED BY <2>2 DEF Bytes, w
<1>2. ASSUME NEW s, NEW t, NEW names, \A n \in names : s.entries[n].row = t.entries[n].row
      PROVE  Bytes(s, names) = Bytes(t, names)
  <2>1. [n \in names |-> s.entries[n].row.len] = [n \in names |-> t.entries[n].row.len]
    BY <1>2
  <2> QED BY <2>1 DEF Bytes
<1> QED BY <1>1, <1>2

-----------------------------------------------------------------------------
(* The operations on the store of a process. *)

\* Evicted sessions are gone and nothing else changes.
LEMMA EvictSessionsKeeps ==
    ASSUME NEW s, NEW K, StoreInv(s, K), NEW H
    PROVE  LET t == EvictSessions(s, H) IN
           /\ StoreInv(t, K)
           /\ t.entries = s.entries /\ t.index = s.index /\ t.lru = s.lru
           /\ DOMAIN t.sessions = DOMAIN s.sessions \ H
           /\ \A h \in DOMAIN t.sessions : t.sessions[h] = s.sessions[h]
<1> DEFINE t == EvictSessions(s, H)
<1>1. Unlisted(s.recent, H) \in Seq(Nat)
  BY AmongList DEF StoreInv, Shape, Unlisted
<1>2. /\ DOMAIN t = DOMAIN s
      /\ t.entries = s.entries /\ t.index = s.index /\ t.lru = s.lru
      /\ t.sessions = Without(s.sessions, H) /\ t.recent = Unlisted(s.recent, H)
  BY DEF StoreInv, Shape, EvictSessions
<1> HIDE DEF t
<1>3. /\ DOMAIN t.sessions = DOMAIN s.sessions \ H
      /\ \A h \in DOMAIN t.sessions : t.sessions[h] = s.sessions[h]
  BY <1>2 DEF Without
<1>4. Shape(t)
  <2>1. IsFiniteSet(DOMAIN t.sessions)
    <3>1. IsFiniteSet(DOMAIN s.sessions) /\ DOMAIN t.sessions \in SUBSET DOMAIN s.sessions
      BY <1>3 DEF StoreInv, Shape
    <3> QED BY <3>1, FS_Subset
  <2>2. t.sessions \in [DOMAIN t.sessions -> Lineage]
    <3>1. t.sessions = [h \in DOMAIN t.sessions |-> s.sessions[h]]
      BY <1>2 DEF Without
    <3>2. \A h \in DOMAIN t.sessions : s.sessions[h] \in Lineage
      BY <1>3 DEF StoreInv, Shape
    <3> QED BY <3>1, <3>2
  <2> QED BY <1>1, <1>2, <1>3, <2>1, <2>2 DEF StoreInv, Shape
<1>5. Listed(t)
  BY <1>2 DEF StoreInv, Listed
<1>6. \A n \in DOMAIN t.entries : EntryExact(t, n)
  BY <1>2, <1>3 DEF StoreInv, EntryExact, Live, SessionText
<1>7. Owned(t, K)
  BY <1>2, <1>3 DEF StoreInv, Owned, Held
<1> QED BY <1>2, <1>3, <1>4, <1>5, <1>6, <1>7 DEF StoreInv, t

\* The handles of some entries.
HandlesOf(s, names) == {s.entries[n].handle : n \in names \cap DOMAIN s.entries} \ {None}

\* Entries whose sessions are gone may be forgotten.
LEMMA ForgetKeeps ==
    ASSUME NEW s, NEW K, StoreInv(s, K), NEW names,
           \A n \in names \cap DOMAIN s.entries : ~Live(s, s.entries[n].handle)
    PROVE  LET t == Forget(s, names) IN
           /\ StoreInv(t, K)
           /\ DOMAIN t.entries = DOMAIN s.entries \ names
           /\ \A n \in DOMAIN t.entries : t.entries[n] = s.entries[n] /\ t.index[n] = s.index[n]
           /\ t.sessions = s.sessions
           /\ t.index = Without(s.index, names)
           /\ t.lru = Unlisted(s.lru, names)
<1> DEFINE t == Forget(s, names)
<1>1. /\ Unlisted(s.lru, names) \in Seq(Name)
      /\ ToSet(Unlisted(s.lru, names)) = ToSet(s.lru) \cap (ToSet(s.lru) \ names)
      /\ IsInjective(Unlisted(s.lru, names))
  <2>1. s.lru \in Seq(Name) /\ IsInjective(s.lru)
    BY DEF StoreInv, Shape, Listed
  <2> QED BY <2>1, AmongList DEF Unlisted
<1>2. /\ DOMAIN t = DOMAIN s
      /\ t.entries = Without(s.entries, names) /\ t.index = Without(s.index, names)
      /\ t.lru = Unlisted(s.lru, names)
      /\ t.sessions = s.sessions /\ t.recent = s.recent
  BY DEF StoreInv, Shape, Forget
<1> HIDE DEF t
<1>3. DOMAIN s.index = DOMAIN s.entries
  BY DEF StoreInv, Shape
<1>4. /\ DOMAIN t.entries = DOMAIN s.entries \ names
      /\ DOMAIN t.index = DOMAIN t.entries
      /\ \A n \in DOMAIN t.entries : t.entries[n] = s.entries[n] /\ t.index[n] = s.index[n]
  BY <1>2, <1>3 DEF Without
<1>5. Shape(t)
  <2>1. IsFiniteSet(DOMAIN t.entries)
    <3>1. IsFiniteSet(DOMAIN s.entries) /\ DOMAIN t.entries \in SUBSET DOMAIN s.entries
      BY <1>4 DEF StoreInv, Shape
    <3> QED BY <3>1, FS_Subset
  <2>2. t.entries \in [DOMAIN t.entries -> EntryType]
    <3>1. t.entries = [n \in DOMAIN t.entries |-> s.entries[n]]
      BY <1>2 DEF Without
    <3>2. \A n \in DOMAIN t.entries : s.entries[n] \in EntryType
      BY <1>4 DEF StoreInv, Shape
    <3> QED BY <3>1, <3>2
  <2>3. t.index \in [DOMAIN t.entries -> RowType]
    <3>1. t.index = [n \in DOMAIN t.entries |-> s.index[n]]
      BY <1>2, <1>3, <1>4 DEF Without
    <3>2. \A n \in DOMAIN t.entries : s.index[n] \in RowType
      BY <1>4 DEF StoreInv, Shape
    <3> QED BY <3>1, <3>2
  <2> QED BY <1>1, <1>2, <1>4, <2>1, <2>2, <2>3 DEF StoreInv, Shape
<1>6. Listed(t)
  BY <1>1, <1>2, <1>4 DEF StoreInv, Listed
<1>7. \A n \in DOMAIN t.entries : EntryExact(t, n)
  BY <1>2, <1>4 DEF StoreInv, EntryExact, Live, SessionText
<1>8. Owned(t, K)
  <2>1. ASSUME NEW n \in DOMAIN t.entries, NEW o \in DOMAIN t.entries,
               t.entries[n].handle # None, t.entries[n].handle = t.entries[o].handle
        PROVE  n = o
    BY <2>1, <1>4 DEF StoreInv, Owned
  <2>2. ASSUME NEW h \in DOMAIN t.sessions
        PROVE  h \in Held(t) <=> h \in Held(s)
    <3>1. h \in Held(t) => h \in Held(s)
      BY <1>4 DEF Held
    <3>2. ASSUME h \in Held(s)
          PROVE  h \in Held(t)
      <4>1. PICK n \in DOMAIN s.entries : s.entries[n].handle = h
        BY <3>2 DEF Held
      <4>2. n \notin names
        BY <4>1, <1>2 DEF Live
      <4> QED BY <4>1, <4>2, <1>4 DEF Held
    <3> QED BY <3>1, <3>2
  <2>3. \A h \in DOMAIN t.sessions : h \in Held(t) <=> h \notin K
    BY <2>2, <1>2 DEF StoreInv, Owned
  <2> QED BY <2>1, <2>3 DEF Owned
<1> QED BY <1>2, <1>4, <1>5, <1>6, <1>7, <1>8 DEF StoreInv, t

\* FreeHandles leaves the entries it frees without a live session.
LEMMA FreeHandlesKeeps ==
    ASSUME NEW s, NEW K, StoreInv(s, K), NEW names
    PROVE  LET t == FreeHandles(s, names) IN
           /\ StoreInv(t, K)
           /\ t.entries = s.entries /\ t.index = s.index /\ t.lru = s.lru
           /\ DOMAIN t.sessions = DOMAIN s.sessions \ HandlesOf(s, names)
           /\ \A h \in DOMAIN t.sessions : t.sessions[h] = s.sessions[h]
           /\ \A n \in names \cap DOMAIN t.entries : ~Live(t, t.entries[n].handle)
<1> DEFINE t == FreeHandles(s, names)
<1>1. t = EvictSessions(s, HandlesOf(s, names))
  BY DEF FreeHandles, HandlesOf
<1> HIDE DEF t
<1>2. /\ StoreInv(t, K)
      /\ t.entries = s.entries /\ t.index = s.index /\ t.lru = s.lru
      /\ DOMAIN t.sessions = DOMAIN s.sessions \ HandlesOf(s, names)
      /\ \A h \in DOMAIN t.sessions : t.sessions[h] = s.sessions[h]
  BY <1>1, EvictSessionsKeeps
<1>3. ASSUME NEW n \in names \cap DOMAIN t.entries
      PROVE  ~Live(t, t.entries[n].handle)
  <2>1. CASE s.entries[n].handle = None
    BY <2>1, <1>2, EntryAssumption DEF StoreInv, Shape, Live
  <2>2. CASE s.entries[n].handle # None
    <3>1. s.entries[n].handle \in HandlesOf(s, names)
      BY <2>2, <1>2 DEF HandlesOf
    <3> QED BY <3>1, <1>2 DEF Live
  <2> QED BY <2>1, <2>2
<1> QED BY <1>2, <1>3 DEF t

\* Dropped entries are gone with their sessions; the others keep theirs.
LEMMA DropKeeps ==
    ASSUME NEW s, NEW K, StoreInv(s, K), NEW names
    PROVE  LET t == DropEntries(s, names) IN
           /\ StoreInv(t, K)
           /\ DOMAIN t.entries = DOMAIN s.entries \ names
           /\ \A n \in DOMAIN t.entries : t.entries[n] = s.entries[n] /\ t.index[n] = s.index[n]
           /\ DOMAIN t.sessions = DOMAIN s.sessions \ HandlesOf(s, names)
           /\ \A h \in DOMAIN t.sessions : t.sessions[h] = s.sessions[h]
           /\ t.index = Without(s.index, names)
           /\ t.lru = Unlisted(s.lru, names)
<1> DEFINE f == FreeHandles(s, names)
           t == Forget(f, names)
<1>1. /\ StoreInv(f, K)
      /\ f.entries = s.entries /\ f.index = s.index /\ f.lru = s.lru
      /\ DOMAIN f.sessions = DOMAIN s.sessions \ HandlesOf(s, names)
      /\ \A h \in DOMAIN f.sessions : f.sessions[h] = s.sessions[h]
      /\ \A n \in names \cap DOMAIN f.entries : ~Live(f, f.entries[n].handle)
  BY FreeHandlesKeeps
<1> HIDE DEF f
<1>2. /\ StoreInv(t, K)
      /\ DOMAIN t.entries = DOMAIN f.entries \ names
      /\ \A n \in DOMAIN t.entries : t.entries[n] = f.entries[n] /\ t.index[n] = f.index[n]
      /\ t.sessions = f.sessions
      /\ t.index = Without(f.index, names)
      /\ t.lru = Unlisted(f.lru, names)
  BY <1>1, ForgetKeeps
<1>3. t = DropEntries(s, names)
  BY DEF DropEntries, f
<1> HIDE DEF t
<1> QED BY <1>1, <1>2, <1>3

\* Evicted entries hold no text and no session, and stay known if there is a
\* directory to read them from.
LEMMA EvictKeeps ==
    ASSUME NEW s, NEW K, StoreInv(s, K), NEW names
    PROVE  LET t == EvictEntries(s, names) IN
           /\ StoreInv(t, K)
           /\ DOMAIN t.entries \subseteq DOMAIN s.entries
           /\ \A n \in DOMAIN t.entries :
                t.entries[n].row = s.entries[n].row /\ t.index[n] = s.index[n]
           /\ ResidentNames(t) = ResidentNames(s) \ names
           /\ Persistent => DOMAIN t.entries = DOMAIN s.entries /\ t.index = s.index
           /\ DOMAIN t.sessions = DOMAIN s.sessions \ HandlesOf(s, names)
<1> DEFINE f == FreeHandles(s, names)
           cold(n) == [s.entries[n] EXCEPT !.text = None, !.handle = None]
           t == EvictEntries(s, names)
<1>1. /\ StoreInv(f, K)
      /\ f.entries = s.entries /\ f.index = s.index /\ f.lru = s.lru
      /\ DOMAIN f.sessions = DOMAIN s.sessions \ HandlesOf(s, names)
      /\ \A h \in DOMAIN f.sessions : f.sessions[h] = s.sessions[h]
      /\ \A n \in names \cap DOMAIN f.entries : ~Live(f, f.entries[n].handle)
  BY FreeHandlesKeeps
<1>2. CASE ~Persistent
  <2>1. t = Forget(f, names)
    BY <1>2 DEF EvictEntries
  <2> HIDE DEF f, t
  <2>2. /\ StoreInv(t, K)
        /\ DOMAIN t.entries = DOMAIN f.entries \ names
        /\ \A n \in DOMAIN t.entries : t.entries[n] = f.entries[n] /\ t.index[n] = f.index[n]
        /\ t.sessions = f.sessions
    BY <2>1, <1>1, ForgetKeeps
  <2>3. ResidentNames(t) = ResidentNames(s) \ names
    BY <2>2, <1>1 DEF ResidentNames
  <2> QED BY <1>1, <1>2, <2>2, <2>3 DEF t
<1>3. CASE Persistent
  <2> DEFINE es == [n \in DOMAIN f.entries |-> IF n \in names THEN cold(n) ELSE f.entries[n]]
  <2>1. t = [f EXCEPT !.entries = es]
    BY <1>3 DEF EvictEntries
  <2>2. \A n \in DOMAIN s.entries :
            /\ cold(n) \in EntryType
            /\ cold(n).text = None /\ cold(n).handle = None
            /\ cold(n).row = s.entries[n].row
    BY DEF StoreInv, Shape, EntryType
  <2> HIDE DEF f, t, cold
  <2>3. /\ DOMAIN t = DOMAIN f
        /\ t.entries = es /\ t.index = f.index /\ t.sessions = f.sessions
        /\ t.lru = f.lru /\ t.recent = f.recent
    BY <2>1, <1>1 DEF StoreInv, Shape
  <2>4. DOMAIN t.entries = DOMAIN s.entries
    BY <2>3, <1>1
  <2>5. \A n \in DOMAIN t.entries :
            t.entries[n] = IF n \in names THEN cold(n) ELSE f.entries[n]
    BY <2>3, <1>1
  <2> HIDE DEF es
  <2>6. Shape(t)
    <3>1. t.entries \in [DOMAIN t.entries -> EntryType]
      <4>1. \A n \in DOMAIN t.entries : t.entries[n] \in EntryType
        <5> TAKE n \in DOMAIN t.entries
        <5>1. f.entries[n] \in EntryType /\ cold(n) \in EntryType
          BY <2>2, <2>4, <1>1 DEF StoreInv, Shape
        <5> QED BY <5>1, <2>5
      <4>2. t.entries = [n \in DOMAIN t.entries |-> t.entries[n]]
        BY <2>3 DEF es
      <4> QED BY <4>1, <4>2
    <3> QED BY <3>1, <2>3, <2>4, <1>1 DEF StoreInv, Shape
  <2>7. Listed(t)
    BY <2>3, <2>4, <1>1 DEF StoreInv, Listed
  <2>8. ASSUME NEW n \in DOMAIN t.entries
        PROVE  /\ t.entries[n].row = s.entries[n].row /\ t.index[n] = s.index[n]
               /\ n \in names => t.entries[n].text = None /\ t.entries[n].handle = None
               /\ n \notin names => t.entries[n] = s.entries[n]
    BY <2>2, <2>3, <2>4, <2>5, <1>1
  <2>9. ASSUME NEW n \in DOMAIN t.entries
        PROVE  EntryExact(t, n)
    <3>1. EntryExact(f, n)
      BY <2>4, <1>1 DEF StoreInv
    <3>2. CASE n \notin names
      BY <3>1, <3>2, <2>3, <2>8, <1>1 DEF EntryExact, Live, SessionText
    <3>3. CASE n \in names
      BY <3>1, <3>3, <2>3, <2>8, <1>1 DEF EntryExact
    <3> QED BY <3>2, <3>3
  <2>10. Owned(t, K)
    <3>1. ASSUME NEW n \in DOMAIN t.entries, NEW o \in DOMAIN t.entries,
                 t.entries[n].handle # None, t.entries[n].handle = t.entries[o].handle
          PROVE  n = o
      BY <3>1, <2>4, <2>8 DEF StoreInv, Owned
    <3>2. ASSUME NEW h \in DOMAIN t.sessions
          PROVE  h \in Held(t) <=> h \in Held(f)
      <4>1. h # None /\ h \in DOMAIN f.sessions
        BY <3>2, <2>3, <1>1, EntryAssumption DEF StoreInv, Shape
      <4>2. ASSUME h \in Held(t)
            PROVE  h \in Held(f)
        <5>1. PICK n \in DOMAIN t.entries : t.entries[n].handle = h
          BY <4>2 DEF Held
        <5> QED BY <5>1, <4>1, <2>4, <2>8, <1>1 DEF Held
      <4>3. ASSUME h \in Held(f)
            PROVE  h \in Held(t)
        <5>1. PICK n \in DOMAIN f.entries : f.entries[n].handle = h
          BY <4>3 DEF Held
        <5>2. n \notin names
          BY <5>1, <4>1, <1>1 DEF Live
        <5> QED BY <5>1, <5>2, <2>4, <2>8, <1>1 DEF Held
      <4> QED BY <4>2, <4>3
    <3>3. \A h \in DOMAIN t.sessions : h \in Held(t) <=> h \notin K
      BY <3>2, <2>3, <1>1 DEF StoreInv, Owned
    <3> QED BY <3>1, <3>3 DEF Owned
  <2>11. ResidentNames(t) = ResidentNames(s) \ names
    BY <2>4, <2>8 DEF ResidentNames
  <2> QED BY <2>3, <2>4, <2>6, <2>7, <2>8, <2>9, <2>10, <2>11, <1>1, <1>3 DEF StoreInv, t
<1> QED BY <1>2, <1>3

\* The residents in the order of eviction, and the least number of victims.
LEMMA BudgetKeeps ==
    ASSUME NEW s, NEW K, StoreInv(s, K), NEW pin
    PROVE  LET t == EvictOverBudget(s, pin) IN
           /\ StoreInv(t, K)
           /\ DOMAIN t.entries \subseteq DOMAIN s.entries
           /\ Persistent => DOMAIN t.entries = DOMAIN s.entries /\ t.index = s.index
           /\ ResidentBytes(t) <= Budget
<1> DEFINE resident == ResidentNames(s)
           others == Among(s.lru, resident \ {pin})
           order == IF pin \in resident THEN Append(others, pin) ELSE others
           victims(k) == {order[i] : i \in 1..k}
           enough == {k \in 0..Len(order) : Bytes(s, resident \ victims(k)) <= Budget}
           count == CHOOSE k \in enough : \A j \in enough : k <= j
           t == EvictOverBudget(s, pin)
<1>1. t = EvictEntries(s, victims(count))
  BY DEF EvictOverBudget
<1>2. resident \subseteq DOMAIN s.entries /\ resident \subseteq Name
  BY DEF ResidentNames, StoreInv, Shape
<1>3. others \in Seq(Name) /\ ToSet(others) = resident \ {pin}
  <2>1. s.lru \in Seq(Name) /\ ToSet(s.lru) = DOMAIN s.entries
    BY DEF StoreInv, Shape, Listed
  <2> HIDE DEF resident
  <2>2. /\ Among(s.lru, resident \ {pin}) \in Seq(Name)
        /\ ToSet(Among(s.lru, resident \ {pin})) = ToSet(s.lru) \cap (resident \ {pin})
    BY <2>1, AmongList
  <2> QED BY <2>1, <2>2, <1>2
<1>4. order \in Seq(Name) /\ ToSet(order) = resident
  <2> HIDE DEF others, resident
  <2>1. CASE pin \in resident
    <3>1. pin \in Name
      BY <2>1, <1>2
    <3>2. /\ Append(others, pin) \in Seq(Name)
          /\ ToSet(Append(others, pin)) = ToSet(others) \cup {pin}
      BY <3>1, <1>3, AppendMembers
    <3>3. order = Append(others, pin)
      BY <2>1
    <3> HIDE DEF order
    <3> QED BY <2>1, <3>2, <3>3, <1>3
  <2>2. CASE pin \notin resident
    BY <2>2, <1>3
  <2> QED BY <2>1, <2>2
<1> HIDE DEF order, resident
<1>5. Len(order) \in Nat /\ DOMAIN order = 1..Len(order)
  BY <1>4, LenProperties
<1>6. Len(order) \in enough
  <2>1. victims(Len(order)) = resident
    BY <1>4, <1>5 DEF ToSet
  <2> HIDE DEF victims
  <2>2. resident \ victims(Len(order)) = {}
    BY <2>1
  <2>3. 0 <= Budget
    BY EntryAssumption
  <2> QED BY <2>2, <2>3, <1>5, BytesOfRows
<1> HIDE DEF victims
<1>7. count \in enough
  <2>1. enough # {}
    BY <1>6
  <2>3. enough \in SUBSET Nat
    BY <1>5
  <2> HIDE DEF enough
  <2>2. \E k \in enough : \A j \in enough : k <= j
    BY <2>1, <2>3, NatLeast
  <2> QED BY <2>2
<1>8. Bytes(s, resident \ victims(count)) <= Budget
  <2> HIDE DEF count
  <2> QED BY <1>7
<1> HIDE DEF count, t
<1>9. /\ StoreInv(t, K)
      /\ DOMAIN t.entries \subseteq DOMAIN s.entries
      /\ \A n \in DOMAIN t.entries : t.entries[n].row = s.entries[n].row
      /\ ResidentNames(t) = resident \ victims(count)
      /\ Persistent => DOMAIN t.entries = DOMAIN s.entries /\ t.index = s.index
  BY <1>1, EvictKeeps DEF resident
<1>10. ResidentNames(t) \subseteq DOMAIN t.entries
  BY DEF ResidentNames
<1>11. Bytes(t, ResidentNames(t)) = Bytes(s, ResidentNames(t))
  BY <1>9, <1>10, BytesOfRows
<1>12. ResidentBytes(t) <= Budget
  BY <1>8, <1>9, <1>11 DEF ResidentBytes
<1> QED BY <1>9, <1>12 DEF t

\* A touched list has the touched member once.
LEMMA TouchedList ==
    ASSUME NEW S, NEW l \in Seq(S), IsInjective(l), NEW x \in S
    PROVE  /\ Touched(l, x) \in Seq(S)
           /\ ToSet(Touched(l, x)) = ToSet(l) \cup {x}
           /\ IsInjective(Touched(l, x))
           /\ Touched(l, x) # <<>> /\ Touched(l, x)[Len(Touched(l, x))] = x
<1> DEFINE u == Unlisted(l, {x})
<1>1. /\ u \in Seq(S)
      /\ ToSet(u) = ToSet(l) \cap (ToSet(l) \ {x})
      /\ IsInjective(u)
  BY AmongList DEF Unlisted
<1>2. Touched(l, x) = Append(u, x)
  BY DEF Touched
<1> HIDE DEF u
<1>3. /\ Append(u, x) \in Seq(S)
      /\ ToSet(Append(u, x)) = ToSet(u) \cup {x}
      /\ IsInjective(Append(u, x))
  BY <1>1, AppendMembers
<1>4. Append(u, x) # <<>> /\ Append(u, x)[Len(Append(u, x))] = x
  BY <1>1, AppendProperties
<1> QED BY <1>1, <1>2, <1>3, <1>4

\* touch only moves the name of an entry.
LEMMA TouchKeeps ==
    ASSUME NEW s, NEW K, StoreInv(s, K), NEW n \in DOMAIN s.entries
    PROVE  LET t == TouchEntry(s, n) IN
           /\ StoreInv(t, K)
           /\ t.entries = s.entries /\ t.index = s.index /\ t.sessions = s.sessions
<1> DEFINE t == TouchEntry(s, n)
<1>1. /\ DOMAIN t = DOMAIN s
      /\ t.entries = s.entries /\ t.index = s.index /\ t.sessions = s.sessions
      /\ t.recent = s.recent /\ t.lru = Touched(s.lru, n)
  BY DEF StoreInv, Shape, TouchEntry
<1> HIDE DEF t
<1>2. t.lru \in Seq(Name) /\ ToSet(t.lru) = DOMAIN s.entries /\ IsInjective(t.lru)
  <2>1. s.lru \in Seq(Name) /\ IsInjective(s.lru) /\ n \in Name /\ ToSet(s.lru) = DOMAIN s.entries
    BY DEF StoreInv, Shape, Listed
  <2> DEFINE l == s.lru
  <2> HIDE DEF l
  <2>2. /\ Touched(l, n) \in Seq(Name)
        /\ ToSet(Touched(l, n)) = ToSet(l) \cup {n}
        /\ IsInjective(Touched(l, n))
    <3>1. l \in Seq(Name) /\ IsInjective(l) /\ n \in Name
      BY <2>1 DEF l
    <3> QED BY ONLY <3>1, TouchedList
  <2> USE DEF l
  <2> QED BY <1>1, <2>1, <2>2
<1>3. Shape(t) /\ Listed(t)
  BY <1>1, <1>2 DEF StoreInv, Shape, Listed
<1>4. \A o \in DOMAIN t.entries : EntryExact(t, o)
  BY <1>1 DEF StoreInv, EntryExact, Live, SessionText
<1>5. Owned(t, K)
  BY <1>1 DEF StoreInv, Owned, Held
<1> QED BY <1>1, <1>3, <1>4, <1>5 DEF StoreInv, t

\* A use only moves a handle.
LEMMA UsedKeeps ==
    ASSUME NEW s, NEW K, StoreInv(s, K), NEW h \in Nat
    PROVE  LET t == Used(s, h) IN
           /\ StoreInv(t, K)
           /\ t.entries = s.entries /\ t.index = s.index /\ t.sessions = s.sessions
           /\ t.lru = s.lru
<1> DEFINE t == Used(s, h)
<1>1. Touched(s.recent, h) \in Seq(Nat)
  <2>1. Unlisted(s.recent, {h}) \in Seq(Nat)
    BY AmongList DEF StoreInv, Shape, Unlisted
  <2> QED BY <2>1, AppendProperties DEF Touched
<1>2. /\ DOMAIN t = DOMAIN s
      /\ t.entries = s.entries /\ t.index = s.index /\ t.sessions = s.sessions
      /\ t.lru = s.lru /\ t.recent = Touched(s.recent, h)
  BY DEF StoreInv, Shape, Used
<1> HIDE DEF t
<1>3. Shape(t) /\ Listed(t)
  BY <1>1, <1>2 DEF StoreInv, Shape, Listed
<1>4. \A o \in DOMAIN t.entries : EntryExact(t, o)
  BY <1>2 DEF StoreInv, EntryExact, Live, SessionText
<1>5. Owned(t, K)
  BY <1>2 DEF StoreInv, Owned, Held
<1> QED BY <1>2, <1>3, <1>4, <1>5 DEF StoreInv, t

\* Room is made by the native store under its entries: a session goes, its
\* entry stays with a dead handle.
LEMMA MakeRoomKeeps ==
    ASSUME NEW s, NEW K, StoreInv(s, K)
    PROVE  LET t == MakeRoom(s) IN
           /\ StoreInv(t, K)
           /\ t.entries = s.entries /\ t.index = s.index /\ t.lru = s.lru
           /\ DOMAIN t.sessions \subseteq DOMAIN s.sessions
           /\ \A h \in DOMAIN t.sessions : t.sessions[h] = s.sessions[h]
<1>1. CASE Cardinality(DOMAIN s.sessions) < MaxSessions
  BY <1>1 DEF MakeRoom
<1>2. CASE ~(Cardinality(DOMAIN s.sessions) < MaxSessions)
  <2>1. MakeRoom(s) = EvictSessions(s, {Head(s.recent)})
    BY <1>2 DEF MakeRoom
  <2> QED BY <2>1, EvictSessionsKeeps
<1> QED BY <1>1, <1>2

\* A new session has a handle of its own, that no entry holds yet.
LEMMA InsertKeeps ==
    ASSUME NEW s, StoreInv(s, {}), NEW l \in Lineage
    PROVE  LET t == InsertSession(s, l)
               h == FreshHandle(s)
           IN
           /\ StoreInv(t, {h})
           /\ h \in Nat /\ h \notin Held(s) /\ h \notin DOMAIN s.sessions
           /\ h \in DOMAIN t.sessions /\ t.sessions[h] = l
           /\ t.entries = s.entries /\ t.index = s.index /\ t.lru = s.lru
           /\ DOMAIN t.sessions \subseteq DOMAIN s.sessions \cup {h}
           /\ \A k \in DOMAIN t.sessions \ {h} : t.sessions[k] = s.sessions[k]
<1> DEFINE h == FreshHandle(s)
           r == MakeRoom(s)
           t == InsertSession(s, l)
<1>1. h \in Nat /\ h \notin DOMAIN s.sessions /\ h \notin Held(s)
  BY FreshHandleFree DEF StoreInv
<1>2. /\ StoreInv(r, {})
      /\ r.entries = s.entries /\ r.index = s.index /\ r.lru = s.lru
      /\ DOMAIN r.sessions \subseteq DOMAIN s.sessions
      /\ \A k \in DOMAIN r.sessions : r.sessions[k] = s.sessions[k]
  BY MakeRoomKeeps
<1>3. t = [r EXCEPT !.sessions = With(@, h, l), !.recent = Append(@, h)]
  BY DEF InsertSession
<1> HIDE DEF h, r, t
<1>4. /\ DOMAIN t = DOMAIN r
      /\ t.entries = r.entries /\ t.index = r.index /\ t.lru = r.lru
      /\ t.sessions = With(r.sessions, h, l) /\ t.recent = Append(r.recent, h)
  BY <1>2, <1>3 DEF StoreInv, Shape
<1>5. /\ DOMAIN t.sessions = DOMAIN r.sessions \cup {h}
      /\ t.sessions[h] = l
      /\ \A k \in DOMAIN r.sessions : k # h /\ t.sessions[k] = r.sessions[k]
  BY <1>1, <1>2, <1>4 DEF With
<1>6. Shape(t)
  <2>1. IsFiniteSet(DOMAIN t.sessions) /\ DOMAIN t.sessions \subseteq Nat
    <3>1. IsFiniteSet(DOMAIN r.sessions) /\ DOMAIN r.sessions \subseteq Nat
      BY <1>2 DEF StoreInv, Shape
    <3> QED BY <3>1, <1>1, <1>5, FS_AddElement
  <2>2. t.sessions \in [DOMAIN t.sessions -> Lineage]
    <3>1. t.sessions = [k \in DOMAIN t.sessions |-> t.sessions[k]]
      BY <1>4 DEF With
    <3>2. \A k \in DOMAIN t.sessions : t.sessions[k] \in Lineage
      BY <1>2, <1>5 DEF StoreInv, Shape
    <3> QED BY <3>1, <3>2
  <2>3. t.recent \in Seq(Nat)
    BY <1>1, <1>2, <1>4, AppendProperties DEF StoreInv, Shape
  <2> QED BY <2>1, <2>2, <2>3, <1>2, <1>4 DEF StoreInv, Shape
<1>7. Listed(t)
  BY <1>2, <1>4 DEF StoreInv, Listed
<1>8. ASSUME NEW n \in DOMAIN t.entries
      PROVE  EntryExact(t, n)
  <2>1. t.entries[n].handle # h
    BY <1>1, <1>2, <1>4 DEF Held
  <2>2. Live(t, t.entries[n].handle) <=> Live(r, r.entries[n].handle)
    BY <2>1, <1>4, <1>5 DEF Live
  <2> QED BY <2>2, <1>2, <1>4, <1>5 DEF StoreInv, EntryExact, Live, SessionText
<1>9. Owned(t, {h})
  <2>1. Held(t) = Held(r) /\ Held(r) = Held(s)
    BY <1>2, <1>4 DEF Held
  <2> QED BY <2>1, <1>1, <1>2, <1>4, <1>5 DEF StoreInv, Owned
<1> QED BY <1>1, <1>2, <1>4, <1>5, <1>6, <1>7, <1>8, <1>9 DEF StoreInv, h, t

\* The store of Publish with its new entry, before the cap.
Adopted(s, n, t, h) ==
    [s EXCEPT !.entries = With(@, n, [text |-> t, handle |-> h, rev |-> Len(s.sessions[h]) - 1,
                                      row |-> Row(t)]),
              !.index = With(@, n, Row(t))]

\* h is the session no entry holds, and the session of an entry it replaces is
\* gone.
Adoptable(s, n, t, h) ==
    /\ StoreInv(s, {h})
    /\ n \in Name /\ t \in Text
    /\ h \in DOMAIN s.sessions /\ Last(s.sessions[h]) = t
    /\ n \in DOMAIN s.entries => ~Live(s, s.entries[n].handle)

\* A new entry takes its session, its row and the end of the lru.
LEMMA AdoptKeeps ==
    ASSUME NEW s, NEW n, NEW t, NEW h, Adoptable(s, n, t, h)
    PROVE  LET u == TouchEntry(Adopted(s, n, t, h), n) IN
           /\ StoreInv(u, {})
           /\ DOMAIN u.entries = DOMAIN s.entries \cup {n}
           /\ u.entries[n].handle = h /\ u.index[n] = Row(t)
           /\ \A m \in DOMAIN s.entries \ {n} : u.index[m] = s.index[m]
           /\ u.sessions = s.sessions
           /\ u.lru \in Seq(Name) /\ u.lru # <<>> /\ u.lru[Len(u.lru)] = n
<1> USE DEF Adoptable
<1> DEFINE e == [text |-> t, handle |-> h, rev |-> Len(s.sessions[h]) - 1, row |-> Row(t)]
           a == Adopted(s, n, t, h)
           u == TouchEntry(a, n)
<1>1. /\ DOMAIN u = DOMAIN s
      /\ u.entries = With(s.entries, n, e) /\ u.index = With(s.index, n, Row(t))
      /\ u.sessions = s.sessions /\ u.recent = s.recent
      /\ u.lru = Touched(s.lru, n)
  <2>1. /\ DOMAIN a = DOMAIN s
        /\ a.entries = With(s.entries, n, e) /\ a.index = With(s.index, n, Row(t))
        /\ a.sessions = s.sessions /\ a.recent = s.recent
        /\ a.lru = s.lru
    BY DEF StoreInv, Shape, Adopted
  <2>2. /\ DOMAIN u = DOMAIN a
        /\ u.entries = a.entries /\ u.index = a.index
        /\ u.sessions = a.sessions /\ u.recent = a.recent
        /\ u.lru = Touched(a.lru, n)
    <3> HIDE DEF a, e
    <3> QED BY <2>1 DEF StoreInv, Shape, TouchEntry
  <2> QED BY <2>1, <2>2
<1>2. e \in EntryType /\ Row(t) \in RowType
  <2>1. h \in Nat /\ s.sessions[h] \in Lineage
    BY DEF StoreInv, Shape
  <2>2. Len(s.sessions[h]) - 1 \in Nat
    BY <2>1, LenProperties, EmptySeq DEF Lineage
  <2> QED BY <2>1, <2>2 DEF EntryType, RowType
<1>3. e.text = t /\ e.handle = h /\ e.rev = Len(s.sessions[h]) - 1 /\ e.row = Row(t)
  OBVIOUS
<1> HIDE DEF a, u, e
<1>4. DOMAIN s.index = DOMAIN s.entries
  BY DEF StoreInv, Shape
<1>5. /\ DOMAIN u.entries = DOMAIN s.entries \cup {n} /\ DOMAIN u.index = DOMAIN u.entries
      /\ u.entries[n] = e /\ u.index[n] = Row(t)
      /\ \A m \in DOMAIN s.entries \ {n} :
            u.entries[m] = s.entries[m] /\ u.index[m] = s.index[m]
  BY <1>1, <1>4 DEF With
<1>6. /\ u.lru \in Seq(Name) /\ ToSet(u.lru) = DOMAIN u.entries /\ IsInjective(u.lru)
      /\ u.lru # <<>> /\ u.lru[Len(u.lru)] = n
  <2>1. s.lru \in Seq(Name) /\ IsInjective(s.lru) /\ ToSet(s.lru) = DOMAIN s.entries
    BY DEF StoreInv, Shape, Listed
  <2> DEFINE l == s.lru
  <2> HIDE DEF l
  <2>2. /\ Touched(l, n) \in Seq(Name)
        /\ ToSet(Touched(l, n)) = ToSet(l) \cup {n}
        /\ IsInjective(Touched(l, n))
        /\ Touched(l, n) # <<>> /\ Touched(l, n)[Len(Touched(l, n))] = n
    <3>1. l \in Seq(Name) /\ IsInjective(l) /\ n \in Name
      BY <2>1 DEF l
    <3> QED BY ONLY <3>1, TouchedList
  <2> USE DEF l
  <2> QED BY <1>1, <1>5, <2>1, <2>2
<1>7. Shape(u)
  <2>1. DOMAIN u.entries \subseteq Name /\ IsFiniteSet(DOMAIN u.entries)
    <3>1. IsFiniteSet(DOMAIN s.entries) /\ DOMAIN s.entries \subseteq Name
      BY DEF StoreInv, Shape
    <3> QED BY <3>1, <1>5, FS_AddElement
  <2>2. u.entries \in [DOMAIN u.entries -> EntryType]
    <3>1. u.entries = [m \in DOMAIN u.entries |-> u.entries[m]]
      BY <1>1 DEF With
    <3>2. \A m \in DOMAIN u.entries : u.entries[m] \in EntryType
      BY <1>2, <1>5 DEF StoreInv, Shape
    <3> QED BY <3>1, <3>2
  <2>3. u.index \in [DOMAIN u.entries -> RowType]
    <3>1. u.index = [m \in DOMAIN u.entries |-> u.index[m]]
      BY <1>1, <1>5 DEF With
    <3>2. \A m \in DOMAIN u.entries : u.index[m] \in RowType
      BY <1>2, <1>5 DEF StoreInv, Shape
    <3> QED BY <3>1, <3>2
  <2> QED BY <2>1, <2>2, <2>3, <1>1, <1>6 DEF StoreInv, Shape
<1>8. ASSUME NEW m \in DOMAIN u.entries
      PROVE  EntryExact(u, m)
  <2>1. CASE m = n
    <3>1. t # None /\ h # None
      BY EntryAssumption DEF StoreInv, Shape
    <3> QED BY <2>1, <3>1, <1>1, <1>3, <1>5 DEF EntryExact, Live, SessionText
  <2>2. CASE m # n
    <3>1. m \in DOMAIN s.entries /\ EntryExact(s, m)
      BY <2>2, <1>5 DEF StoreInv
    <3> QED BY <3>1, <2>2, <1>1, <1>5 DEF EntryExact, Live, SessionText
  <2> QED BY <2>1, <2>2
<1>9. Owned(u, {})
  <2>1. h \notin Held(s)
    BY DEF StoreInv, Owned
  <2>2. ASSUME NEW m \in DOMAIN u.entries, NEW o \in DOMAIN u.entries,
               u.entries[m].handle # None, u.entries[m].handle = u.entries[o].handle
        PROVE  m = o
    <3>1. CASE m # n /\ o # n
      BY <2>2, <3>1, <1>5 DEF StoreInv, Owned
    <3>2. \A k \in DOMAIN u.entries \ {n} : u.entries[k].handle # h
      BY <2>1, <1>5 DEF Held
    <3> QED BY <2>2, <3>1, <3>2, <1>3, <1>5
  <2>3. ASSUME NEW k \in DOMAIN u.sessions
        PROVE  k \in Held(u)
    <3>1. CASE k = h
      BY <3>1, <1>3, <1>5 DEF Held
    <3>2. CASE k # h
      <4>1. k \in DOMAIN s.sessions /\ k \in Held(s)
        BY <3>2, <1>1 DEF StoreInv, Owned
      <4>2. PICK m \in DOMAIN s.entries : s.entries[m].handle = k
        BY <4>1 DEF Held
      <4>3. m # n
        BY <4>1, <4>2 DEF Live
      <4> QED BY <4>2, <4>3, <1>5 DEF Held
    <3> QED BY <3>1, <3>2
  <2> QED BY <2>2, <2>3 DEF Owned
<1> QED BY <1>1, <1>3, <1>5, <1>6, <1>7, <1>8, <1>9 DEF StoreInv, Listed, u, a

\* The cap takes entries of the lru, and never the one used last.
LEMMA VictimsList ==
    ASSUME NEW s, NEW K, StoreInv(s, K), s.lru # <<>>
    PROVE  /\ AutoVictims(s) \in Seq(Name)
           /\ s.lru[Len(s.lru)] \notin ToSet(AutoVictims(s))
<1> DEFINE l == s.lru
           X == {n \in DOMAIN s.entries : IsAuto(n)}
           autos == Among(l, X)
           v == AutoVictims(s)
           last == l[Len(l)]
<1>1. l \in Seq(Name) /\ IsInjective(l) /\ l # <<>> /\ ToSet(l) = DOMAIN s.entries
  BY DEF StoreInv, Shape, Listed
<1>2. v = IF Len(autos) > MaxAuto THEN SubSeq(autos, 1, Len(autos) - MaxAuto) ELSE <<>>
  BY DEF AutoVictims
<1> HIDE DEF l, X, v
<1>3. /\ autos \in Seq(Name) /\ ToSet(autos) = ToSet(l) \cap X /\ IsInjective(autos)
      /\ last \in X => Len(autos) # 0 /\ autos[Len(autos)] = last
  BY <1>1, AmongList
<1> HIDE DEF autos, last
<1>4. Len(autos) \in Nat /\ DOMAIN autos = 1..Len(autos) /\ MaxAuto \in Nat \ {0}
  BY <1>3, LenProperties, EntryAssumption
<1>5. CASE Len(autos) > MaxAuto
  <2> DEFINE len == Len(autos)
             k == len - MaxAuto
  <2> HIDE DEF len
  <2>1. k \in Nat /\ k < len /\ len \in Nat /\ len = Len(autos)
    BY <1>4, <1>5 DEF len
  <2>2. /\ v \in Seq(Name) /\ DOMAIN v = 1..k
        /\ \A i \in 1..k : v[i] = autos[i]
    <3>1. v = SubSeq(autos, 1, k)
      BY <1>2, <1>5 DEF len
    <3> HIDE DEF k
    <3>2. \A i \in 1..k : autos[i] \in Name
      BY <1>3, <1>4, <2>1, ElementOfSeq
    <3>3. v = [i \in 1..k |-> autos[i]]
      BY <3>1, <2>1, <1>3, SubSeqProperties, <1>4
    <3>4. v \in [1..k -> Name]
      BY <3>2, <3>3
    <3> QED BY <3>3, <3>4, <2>1, <1>4
  <2> HIDE DEF k
  <2>3. last \notin ToSet(v)
    <3> SUFFICES ASSUME NEW i \in 1..k, v[i] = last
                 PROVE  FALSE
      BY <2>2 DEF ToSet
    <3>1. i \in 1..Len(autos) /\ i # Len(autos)
      BY <2>1
    <3>4. autos[i] = last
      BY <2>2
    <3>2. last \in X
      BY <3>1, <3>4, <1>3, <1>4 DEF ToSet
    <3>3. Len(autos) \in DOMAIN autos /\ autos[Len(autos)] = last
      BY <3>2, <1>3, <1>4
    <3> QED BY <3>1, <3>3, <3>4, <1>3, <1>4 DEF IsInjective
  <2> QED BY <2>2, <2>3 DEF v, last, l
<1>6. CASE ~(Len(autos) > MaxAuto)
  <2>1. v = <<>>
    BY <1>2, <1>6
  <2> QED BY <2>1 DEF ToSet, v
<1> QED BY <1>5, <1>6

-----------------------------------------------------------------------------
(* The files of a call. *)

\* A removal of the cap is a removal.
LEMMA RemovalFiles ==
    ASSUME NEW v \in Seq(Name)
    PROVE  /\ CapRemovals(v) \in Seq(WriteType)
           /\ Len(CapRemovals(v)) = 2 * Len(v)
           /\ \A i \in 1..2 * Len(v) :
                /\ ~IsRecord(CapRemovals(v)[i])
                /\ \E n \in ToSet(v) : CapRemovals(v)[i] \in {Removal("rec", n), Removal("bind", n)}
<1> DEFINE r == CapRemovals(v)
<1>1. Len(v) \in Nat /\ DOMAIN v = 1..Len(v)
  BY LenProperties
<1>2. r = [i \in 1..2 * Len(v) |-> IF i % 2 = 1 THEN Removal("rec", v[(i + 1) \div 2])
                                   ELSE Removal("bind", v[i \div 2])]
  BY DEF CapRemovals
<1>3. ASSUME NEW i \in 1..2 * Len(v)
      PROVE  /\ r[i] \in WriteType /\ ~IsRecord(r[i])
             /\ \E n \in ToSet(v) : r[i] \in {Removal("rec", n), Removal("bind", n)}
  <2>1. CASE i % 2 = 1
    <3>1. (i + 1) \div 2 \in 1..Len(v)
      BY <1>1, <2>1
    <3>2. v[(i + 1) \div 2] \in Name /\ v[(i + 1) \div 2] \in ToSet(v)
      BY <3>1, <1>1, ElementOfSeq DEF ToSet
    <3>3. r[i] = Removal("rec", v[(i + 1) \div 2])
      BY <2>1, <1>2
    <3>4. r[i] \in WriteType
      BY <3>2, <3>3 DEF WriteType, Removal
    <3>5. ~IsRecord(r[i])
      BY <3>3 DEF IsRecord, Removal
    <3> QED BY <3>2, <3>3, <3>4, <3>5
  <2>2. CASE i % 2 # 1
    <3>1. i \div 2 \in 1..Len(v)
      BY <1>1, <2>2
    <3>2. v[i \div 2] \in Name /\ v[i \div 2] \in ToSet(v)
      BY <3>1, <1>1, ElementOfSeq DEF ToSet
    <3>3. r[i] = Removal("bind", v[i \div 2])
      BY <2>2, <1>2
    <3>4. r[i] \in WriteType
      BY <3>2, <3>3 DEF WriteType, Removal
    <3>5. ~IsRecord(r[i])
      BY <3>3 DEF IsRecord, Removal
    <3> QED BY <3>2, <3>3, <3>4, <3>5
  <2> QED BY <2>1, <2>2
<1> HIDE DEF r
<1>4. r \in [1..2 * Len(v) -> WriteType] /\ 2 * Len(v) \in Nat
  BY <1>1, <1>2, <1>3
<1>5. r \in Seq(WriteType) /\ Len(r) = 2 * Len(v)
  BY <1>4
<1> QED BY <1>3, <1>5 DEF r

\* The files of an entry: each record is followed by its binding, and the
\* index is the last.
LEMMA EntryFilesPending ==
    ASSUME NEW v \in Seq(Name), NEW n \in Name, NEW l \in Lineage, NEW idx \in IndexType
    PROVE  /\ Pending(EntryFiles(v, n, l, idx))
           /\ EntryFiles(v, n, l, idx) # <<>>
<1> DEFINE r == CapRemovals(v)
           two == <<Write("rec", n, RecordOf(l)), Write("bind", n, BindingOf(l))>>
           one == <<Write("index", None, idx)>>
           ws == EntryFiles(v, n, l, idx)
<1>1. ws = (r \o two) \o one
  BY DEF EntryFiles
<1>2. r \in Seq(WriteType) /\ \A i \in 1..Len(r) : ~IsRecord(r[i])
  BY RemovalFiles
<1>3. two \in Seq(WriteType) /\ Len(two) = 2
  <2>1. RecordOf(l) \in RecType /\ BindingOf(l) \in BindType
    BY DEF RecordOf, RecType, BindType
  <2>2. Write("rec", n, RecordOf(l)) \in WriteType
    BY <2>1 DEF WriteType, Write
  <2>3. Write("bind", n, BindingOf(l)) \in WriteType
    BY <2>1 DEF WriteType, Write
  <2> QED BY <2>2, <2>3
<1>4. one \in Seq(WriteType) /\ Len(one) = 1 /\ ~IsRecord(one[1])
  <2>1. Write("index", None, idx) \in WriteType /\ ~IsRecord(Write("index", None, idx))
    BY DEF WriteType, IsRecord, Write
  <2> QED BY <2>1
<1> HIDE DEF r, two, one, ws
<1>5. ws \in Seq(WriteType) /\ Len(ws) = Len(r) + 3 /\ Len(r) \in Nat /\ ws[Len(ws)] = one[1]
  <2>1. r \o two \in Seq(WriteType) /\ Len(r \o two) = Len(r) + 2 /\ Len(r) \in Nat
    <3>1. Len(r) \in Nat
      BY <1>2, LenProperties
    <3>2. r \in Seq(WriteType) /\ two \in Seq(WriteType)
      BY <1>2, <1>3
    <3>3. r \o two \in Seq(WriteType) /\ Len(r \o two) = Len(r) + Len(two)
      BY ONLY <3>2, ConcatProperties
    <3> QED BY <3>1, <3>3, <1>3
  <2> DEFINE q == r \o two
  <2>2. q \in Seq(WriteType) /\ Len(q) = Len(r) + 2 /\ Len(r) \in Nat /\ ws = q \o one
    BY <2>1, <1>1
  <2> HIDE DEF q
  <2>3. /\ q \o one \in Seq(WriteType) /\ Len(q \o one) = Len(q) + Len(one)
        /\ (q \o one)[Len(q) + 1] = one[1]
    <3>1. q \in Seq(WriteType) /\ one \in Seq(WriteType)
      BY <2>2, <1>4
    <3>2. /\ q \o one \in Seq(WriteType) /\ Len(q \o one) = Len(q) + Len(one)
          /\ \A i \in 1..Len(q) + Len(one) :
                (q \o one)[i] = IF i =< Len(q) THEN q[i] ELSE one[i - Len(q)]
      BY ONLY <3>1, ConcatProperties
    <3> QED BY <3>2, <2>2, <1>4
  <2> QED BY <2>2, <2>3, <1>4
<1>6. Pending(ws)
  <2> SUFFICES ASSUME NEW i \in 1..Len(ws), IsRecord(ws[i])
               PROVE  i < Len(ws)
    BY <1>5 DEF Pending
  <2>1. i # Len(ws)
    BY <1>4, <1>5
  <2> QED BY <2>1, <1>5
<1>7. ws # <<>>
  BY <1>5, EmptySeq
<1> QED BY <1>6, <1>7 DEF ws

\* The index of a store can be written.
LEMMA IndexIsWritten ==
    ASSUME NEW s, NEW K, StoreInv(s, K)
    PROVE  s.index \in IndexType
<1>1. /\ DOMAIN s.entries \in {E \in SUBSET Name : IsFiniteSet(E)}
      /\ s.index \in [DOMAIN s.entries -> RowType]
  BY DEF StoreInv, Shape
<1> QED BY <1>1 DEF IndexType

\* A call that leaves no file.
LEMMA NoFiles == Pending(<<>>)
BY EmptySeq DEF Pending

-----------------------------------------------------------------------------
(* The calls. *)

\* A live entry leaves its record and its binding.
LEMMA LiveEntryFiles ==
    ASSUME NEW s, NEW n, s.entries[n].handle # None, Live(s, s.entries[n].handle)
    PROVE  LET l == s.sessions[s.entries[n].handle] IN
           EntryWrites(s, n) = <<Write("rec", n, RecordOf(l)), Write("bind", n, BindingOf(l))>>
BY DEF EntryWrites

\* What Recorded says of a result can be said of an earlier store.
LEMMA RecordedBefore ==
    ASSUME NEW s, NEW u, NEW res, Fewer(s, u), Recorded(u, res)
    PROVE  Recorded(s, res)
<1>1. CASE res.writes = <<>> /\ Fewer(u, res.mem)
  BY <1>1 DEF Fewer, Recorded
<1>2. ASSUME NEW v \in Seq(Name), NEW n \in Name, NEW l \in Lineage, NEW idx \in IndexType,
             res.writes = EntryFiles(v, n, l, idx),
             \A m \in DOMAIN res.mem.entries : Covered(u, res.mem, v, n, l, idx, m)
      PROVE  Recorded(s, res)
  <2>1. ASSUME NEW m \in DOMAIN res.mem.entries
        PROVE  Covered(s, res.mem, v, n, l, idx, m)
    BY <1>2 DEF Fewer, Covered
  <2> QED BY <2>1, <1>2 DEF Recorded
<1> QED BY <1>1, <1>2 DEF Recorded

\* The store c has the entry n written over s, and v went for it.
Writes(s, c, n, v) ==
    /\ StoreInv(c, {})
    /\ n \in DOMAIN c.entries /\ c.entries[n].handle # None /\ Live(c, c.entries[n].handle)
    /\ v \in Seq(Name)
    /\ \A m \in DOMAIN c.entries \ {n} :
            m \in DOMAIN s.entries \ ToSet(v) /\ c.index[m] = s.index[m]

\* A written entry fits in the budget, and its files record it.
LEMMA WrittenKeeps ==
    ASSUME NEW s, NEW c, NEW n, NEW v, NEW out, Writes(s, c, n, v)
    PROVE  LET res == Done(EvictOverBudget(c, n),
                           CapRemovals(v) \o EntryWrites(c, n) \o <<IndexWrite(c)>>, out)
           IN
           /\ StoreInv(res.mem, {})
           /\ Pending(res.writes)
           /\ res.out = out
           /\ Persistent => Recorded(s, res)
           /\ Thrifty(res)
<1> USE DEF Writes
<1> DEFINE l == c.sessions[c.entries[n].handle]
           b == EvictOverBudget(c, n)
           ws == CapRemovals(v) \o EntryWrites(c, n) \o <<IndexWrite(c)>>
           res == Done(b, ws, out)
<1>1. l \in Lineage /\ n \in Name
  BY DEF StoreInv, Shape, Live
<1>2. c.index[n] = Row(Last(l))
  BY DEF StoreInv, EntryExact, SessionText
<1>3. ws = EntryFiles(v, n, l, c.index)
  <2>1. EntryWrites(c, n) = <<Write("rec", n, RecordOf(l)), Write("bind", n, BindingOf(l))>>
    BY LiveEntryFiles
  <2> QED BY <2>1 DEF EntryFiles, IndexWrite
<1>4. res.mem = b /\ res.out = out /\ res.writes = IF Persistent THEN ws ELSE <<>>
  BY DEF Done
<1> HIDE DEF l, b, ws, res
<1>5. c.index \in IndexType
  BY IndexIsWritten
<1>6. Pending(ws)
  BY <1>1, <1>3, <1>5, EntryFilesPending
<1>7. Pending(res.writes)
  BY <1>4, <1>6, NoFiles
<1>8. /\ StoreInv(b, {})
      /\ DOMAIN b.entries \subseteq DOMAIN c.entries
      /\ Persistent => DOMAIN b.entries = DOMAIN c.entries /\ b.index = c.index
      /\ ResidentBytes(b) <= Budget
  BY BudgetKeeps DEF b
<1>9. ASSUME Persistent
      PROVE  Recorded(s, res)
  <2>1. res.writes = EntryFiles(v, n, l, c.index)
    BY <1>3, <1>4, <1>9
  <2>2. ASSUME NEW m \in DOMAIN res.mem.entries
        PROVE  Covered(s, res.mem, v, n, l, c.index, m)
    <3>1. m \in DOMAIN c.index /\ c.index[m] = res.mem.index[m] /\ m \in DOMAIN c.entries
      BY <2>2, <1>4, <1>8, <1>9 DEF StoreInv, Shape
    <3> QED BY <3>1, <1>2 DEF Covered
  <2> QED BY <2>1, <2>2, <1>1, <1>5 DEF Recorded
<1>10. Thrifty(res)
  BY <1>4, <1>8 DEF Thrifty
<1> QED BY <1>4, <1>7, <1>8, <1>9, <1>10 DEF res, ws, b

\* publish, of a session the store has just made.
LEMMA PublishKeeps ==
    ASSUME NEW s, NEW h \in DOMAIN s.sessions, StoreInv(s, {h}),
           NEW t \in Text, Last(s.sessions[h]) = t,
           NEW n \in Name, n \in DOMAIN s.entries => ~Live(s, s.entries[n].handle),
           NEW out
    PROVE  LET res == Publish(s, n, t, h, out) IN
           /\ StoreInv(res.mem, {})
           /\ Pending(res.writes)
           /\ res.out = out
           /\ Persistent => Recorded(s, res)
           /\ Thrifty(res)
<1> DEFINE u == TouchEntry(Adopted(s, n, t, h), n)
           v == AutoVictims(u)
           c == DropEntries(u, ToSet(v))
           res == Publish(s, n, t, h, out)
<1>1. /\ StoreInv(u, {})
      /\ DOMAIN u.entries = DOMAIN s.entries \cup {n}
      /\ u.entries[n].handle = h /\ u.index[n] = Row(t)
      /\ \A m \in DOMAIN s.entries \ {n} : u.index[m] = s.index[m]
      /\ u.sessions = s.sessions
      /\ u.lru \in Seq(Name) /\ u.lru # <<>> /\ u.lru[Len(u.lru)] = n
  <2>1. Adoptable(s, n, t, h)
    BY DEF Adoptable
  <2> QED BY <2>1, AdoptKeeps
<1>2. h \in Nat /\ h # None
  BY EntryAssumption DEF StoreInv, Shape
<1>3. res = Done(EvictOverBudget(c, n),
                 CapRemovals(v) \o EntryWrites(c, n) \o <<IndexWrite(c)>>, out)
  BY DEF Publish, Adopted
<1> HIDE DEF u, res
<1>4. v \in Seq(Name) /\ n \notin ToSet(v)
  BY <1>1, VictimsList
<1> HIDE DEF v
<1>5. /\ StoreInv(c, {})
      /\ DOMAIN c.entries = DOMAIN u.entries \ ToSet(v)
      /\ \A m \in DOMAIN c.entries : c.entries[m] = u.entries[m] /\ c.index[m] = u.index[m]
      /\ DOMAIN c.sessions = DOMAIN u.sessions \ HandlesOf(u, ToSet(v))
  BY <1>1, DropKeeps
<1> HIDE DEF c
<1>6. h \notin HandlesOf(u, ToSet(v))
  BY <1>1, <1>2, <1>4 DEF HandlesOf, StoreInv, Owned
<1>7. n \in DOMAIN c.entries /\ c.entries[n].handle = h /\ Live(c, h)
  BY <1>1, <1>4, <1>5, <1>6 DEF Live
<1>8. \A m \in DOMAIN c.entries \ {n} :
            m \in DOMAIN s.entries \ ToSet(v) /\ c.index[m] = s.index[m]
  BY <1>1, <1>5
<1>9. /\ StoreInv(res.mem, {})
      /\ Pending(res.writes)
      /\ res.out = out
      /\ Persistent => Recorded(s, res)
      /\ Thrifty(res)
  <2>1. Writes(s, c, n, v)
    BY <1>2, <1>4, <1>5, <1>7, <1>8 DEF Writes
  <2> QED BY ONLY <2>1, <1>3, WrittenKeeps
<1> QED BY <1>9 DEF res

\* write_entry, over an entry of its name or not.
LEMMA WriteKeeps ==
    ASSUME NEW s, StoreInv(s, {}), NEW n \in Name, NEW t \in Text, NEW eng
    PROVE  LET res == WriteEntry(s, n, t, eng) IN
           Outcome(s, res, t) /\ Thrifty(res)
<1> DEFINE freed == FreeHandles(s, {n})
           h == FreshHandle(freed)
           put == InsertSession(freed, <<t>>)
           res == WriteEntry(s, n, t, eng)
<1>1. /\ StoreInv(freed, {})
      /\ freed.entries = s.entries /\ freed.index = s.index
      /\ n \in DOMAIN freed.entries => ~Live(freed, freed.entries[n].handle)
  BY FreeHandlesKeeps
<1>2. CASE eng.put
  <2>1. res = Publish(put, n, t, h, t)
    BY <1>2 DEF WriteEntry
  <2> DEFINE one == <<t>>
  <2>2. one \in Lineage /\ Last(one) = t
    BY DEF Lineage, Last
  <2> HIDE DEF freed, res
  <2>3. /\ StoreInv(put, {h})
        /\ h \notin Held(freed) /\ h \in DOMAIN put.sessions /\ put.sessions[h] = <<t>>
        /\ put.entries = freed.entries /\ put.index = freed.index
        /\ DOMAIN put.sessions \subseteq DOMAIN freed.sessions \cup {h}
    <3>1. put = InsertSession(freed, one)
      OBVIOUS
    <3> HIDE DEF put, one
    <3>2. StoreInv(freed, {}) /\ one \in Lineage
      BY <1>1, <2>2
    <3>3. LET u == InsertSession(freed, one) IN
          /\ StoreInv(u, {h})
          /\ h \notin Held(freed) /\ h \in DOMAIN u.sessions /\ u.sessions[h] = one
          /\ u.entries = freed.entries /\ u.index = freed.index
          /\ DOMAIN u.sessions \subseteq DOMAIN freed.sessions \cup {h}
      BY ONLY <3>2, InsertKeeps
    <3> QED BY <3>1, <3>3 DEF one
  <2> HIDE DEF put, h
  <2>4. n \in DOMAIN put.entries => ~Live(put, put.entries[n].handle)
    BY <1>1, <2>3 DEF Live, Held
  <2>5. /\ StoreInv(res.mem, {})
        /\ Pending(res.writes)
        /\ res.out = t
        /\ Persistent => Recorded(put, res)
        /\ Thrifty(res)
    BY <2>1, <2>2, <2>3, <2>4, PublishKeeps
  <2>6. Fewer(s, put)
    BY <1>1, <2>3 DEF Fewer
  <2>7. t # None
    BY EntryAssumption
  <2> QED BY <2>5, <2>6, <2>7, RecordedBefore DEF Outcome, res
<1>3. CASE ~eng.put
  <2> DEFINE r == MakeRoom(freed)
             d == DropEntries(r, {n})
  <2>1. res = Done(d, <<>>, None)
    BY <1>3 DEF WriteEntry, Answered
  <2>2. res.mem = d /\ res.writes = <<>> /\ res.out = None
    BY <2>1 DEF Done
  <2> HIDE DEF freed, res
  <2>3. /\ StoreInv(r, {})
        /\ r.entries = freed.entries /\ r.index = freed.index
    BY <1>1, MakeRoomKeeps
  <2> HIDE DEF r
  <2>4. /\ StoreInv(d, {})
        /\ DOMAIN d.entries = DOMAIN r.entries \ {n}
        /\ \A m \in DOMAIN d.entries : d.index[m] = r.index[m]
    BY <2>3, DropKeeps
  <2>5. Fewer(s, d)
    BY <1>1, <2>3, <2>4 DEF Fewer
  <2> QED BY <2>2, <2>4, <2>5, NoFiles DEF Outcome, Recorded, Thrifty, res
<1> QED BY <1>2, <1>3

\* entry_ids, of an entry with the text of the call.
LEMMA IdsKeeps ==
    ASSUME NEW s, StoreInv(s, {}), NEW n \in DOMAIN s.entries, NEW t, s.entries[n].text = t
    PROVE  LET res == EntryIds(s, n) IN
           Outcome(s, res, t) /\ Thrifty(res)
<1> DEFINE h == s.entries[n].handle
           res == EntryIds(s, n)
<1>1. CASE Live(s, h)
  <2> DEFINE u == Used(s, h)
             b == EvictOverBudget(u, n)
  <2>1. res.mem = b /\ res.writes = <<>> /\ res.out = SessionText(s, h)
    BY <1>1 DEF EntryIds, Answered, Done
  <2> HIDE DEF res
  <2>2. h \in Nat /\ h # None
    BY <1>1, EntryAssumption DEF StoreInv, Shape, Live
  <2>3. SessionText(s, h) = t
    BY <1>1, <2>2 DEF StoreInv, EntryExact
  <2> HIDE DEF h
  <2>4. StoreInv(u, {}) /\ u.entries = s.entries /\ u.index = s.index
    BY <2>2, UsedKeeps
  <2> HIDE DEF u
  <2>5. /\ StoreInv(b, {})
        /\ Persistent => DOMAIN b.entries = DOMAIN u.entries /\ b.index = u.index
        /\ ResidentBytes(b) <= Budget
    BY <2>4, BudgetKeeps
  <2>6. Persistent => Fewer(s, b)
    BY <2>4, <2>5 DEF Fewer
  <2> QED BY <2>1, <2>3, <2>5, <2>6, NoFiles DEF Outcome, Recorded, Thrifty, res
<1>2. CASE ~Live(s, h)
  <2> DEFINE d == DropEntries(s, {n})
             b == EvictOverBudget(d, n)
  <2>1. res.mem = b /\ res.writes = <<>> /\ res.out = None
    BY <1>2 DEF EntryIds, Answered, Done
  <2> HIDE DEF res
  <2>2. /\ StoreInv(d, {})
        /\ DOMAIN d.entries = DOMAIN s.entries \ {n}
        /\ \A m \in DOMAIN d.entries : d.index[m] = s.index[m]
    BY DropKeeps
  <2> HIDE DEF d
  <2>3. /\ StoreInv(b, {})
        /\ Persistent => DOMAIN b.entries = DOMAIN d.entries /\ b.index = d.index
    BY <2>2, BudgetKeeps
  <2>4. Persistent => Fewer(s, b)
    BY <2>2, <2>3 DEF Fewer
  <2> QED BY <2>1, <2>3, <2>4, NoFiles DEF Outcome, Recorded, Thrifty, res
<1> QED BY <1>1, <1>2

\* A text is a prefix of it and the rest.
LEMMA PrefixAndRest ==
    ASSUME NEW a \in Text, NEW t \in Text, IsPrefix(a, t)
    PROVE  a \o SubSeq(t, Len(a) + 1, Len(t)) = t
<1> DEFINE m == Len(a)
           k == Len(t)
           r == SubSeq(t, m + 1, k)
<1>0. a \in Seq(Letter) /\ t \in Seq(Letter)
  BY EntryAssumption
<1>1. m \in Nat /\ k \in Nat /\ m <= k
  BY <1>0, LenProperties DEF IsPrefix
<1>2. \A i \in 1..m : a[i] = t[i]
  <2>1. SubSeq(a, 1, m) = SubSeq(t, 1, m)
    BY DEF IsPrefix
  <2>2. SubSeq(a, 1, m) = [i \in 1..m |-> a[i]] /\ SubSeq(t, 1, m) = [i \in 1..m |-> t[i]]
    BY <1>0
  <2> QED BY <2>1, <2>2
<1>3. r \in Seq(Letter) /\ Len(r) = k - m /\ \A i \in 1..(k - m) : r[i] = t[m + i]
  <2>1. \A i \in (m + 1)..k : t[i] \in Letter
    BY <1>0, <1>1, ElementOfSeq
  <2> QED BY <1>0, <1>1, <2>1, SubSeqProperties
<1> HIDE DEF r
<1>4. a \o r \in Seq(Letter) /\ Len(a \o r) = k
      /\ \A i \in 1..k : (a \o r)[i] = IF i <= m THEN a[i] ELSE r[i - m]
  <2>1. a \in Seq(Letter) /\ r \in Seq(Letter)
    BY <1>0, <1>3
  <2>2. /\ a \o r \in Seq(Letter) /\ Len(a \o r) = Len(a) + Len(r)
        /\ \A i \in 1..Len(a) + Len(r) :
              (a \o r)[i] = IF i =< Len(a) THEN a[i] ELSE r[i - Len(a)]
    BY ONLY <2>1, ConcatProperties
  <2> QED BY <2>2, <1>1, <1>3
<1>5. \A i \in 1..k : (a \o r)[i] = t[i]
  <2> TAKE i \in 1..k
  <2>1. CASE i <= m
    BY <2>1, <1>1, <1>2, <1>4
  <2>2. CASE ~(i <= m)
    <3>1. i - m \in 1..(k - m) /\ m + (i - m) = i
      BY <2>2, <1>1
    <3> QED BY <3>1, <2>2, <1>1, <1>3, <1>4
  <2> QED BY <2>1, <2>2
<1>6. a \o r = t
  BY <1>0, <1>4, <1>5, SeqEqual
<1> QED BY <1>6 DEF r

\* The store of AppendEntry with the longer text.
Grown(u, n, h, l, delta) ==
    [u EXCEPT !.sessions[h] = l,
              !.entries[n] = [u.entries[n] EXCEPT !.text = u.entries[n].text \o delta,
                                                  !.rev = Len(l) - 1, !.row = Row(Last(l))],
              !.index = With(@, n, Row(Last(l)))]

Grows(s, n, h, l, delta) ==
    /\ StoreInv(s, {})
    /\ n \in DOMAIN s.entries /\ h \in DOMAIN s.sessions /\ s.entries[n].handle = h
    /\ l \in Lineage /\ Last(l) \in Text /\ Last(l) = s.entries[n].text \o delta

\* An entry and its session grow to the same text.
LEMMA GrowKeeps ==
    ASSUME NEW s, NEW n, NEW h, NEW l, NEW delta, Grows(s, n, h, l, delta)
    PROVE  LET g == Grown(s, n, h, l, delta) IN
           /\ StoreInv(g, {})
           /\ DOMAIN g.entries = DOMAIN s.entries
           /\ g.entries[n].handle = h /\ Live(g, h)
           /\ \A m \in DOMAIN s.entries \ {n} : g.index[m] = s.index[m]
<1> DEFINE x == Last(l)
           e == [s.entries[n] EXCEPT !.text = s.entries[n].text \o delta, !.rev = Len(l) - 1,
                                     !.row = Row(x)]
           g == Grown(s, n, h, l, delta)
<1> USE DEF Grows
<1>1. /\ DOMAIN g = DOMAIN s
      /\ g.entries = [s.entries EXCEPT ![n] = e] /\ g.index = With(s.index, n, Row(x))
      /\ g.sessions = [s.sessions EXCEPT ![h] = l] /\ g.recent = s.recent /\ g.lru = s.lru
  <2>1. g = [s EXCEPT !.sessions[h] = l, !.entries[n] = e, !.index = With(@, n, Row(x))]
    BY DEF Grown
  <2> HIDE DEF g, e, x
  <2> QED BY <2>1 DEF StoreInv, Shape
<1>2. /\ e \in EntryType
      /\ e.text = x /\ e.handle = h /\ e.rev = Len(l) - 1 /\ e.row = Row(x)
  <2>1. Len(l) - 1 \in Nat
    BY LenProperties, EmptySeq DEF Lineage
  <2>2. s.entries[n] \in EntryType /\ Row(x) \in RowType
    BY DEF StoreInv, Shape, RowType
  <2> QED BY <2>1, <2>2 DEF EntryType
<1>3. Row(x) \in RowType /\ h \in Nat /\ h # None /\ x # None
  BY EntryAssumption DEF RowType, StoreInv, Shape
<1>13. Last(l) = x
  OBVIOUS
<1> HIDE DEF e, g, x
<1>4. DOMAIN s.index = DOMAIN s.entries
  BY DEF StoreInv, Shape
<1>5. /\ DOMAIN g.entries = DOMAIN s.entries /\ DOMAIN g.index = DOMAIN s.entries
      /\ g.entries[n] = e /\ g.index[n] = Row(x)
      /\ \A m \in DOMAIN s.entries \ {n} :
            g.entries[m] = s.entries[m] /\ g.index[m] = s.index[m]
  <2>1. DOMAIN s.entries \cup {n} = DOMAIN s.entries
    OBVIOUS
  <2> QED BY <2>1, <1>1, <1>4 DEF With
<1>6. /\ DOMAIN g.sessions = DOMAIN s.sessions /\ g.sessions[h] = l
      /\ \A k \in DOMAIN s.sessions \ {h} : g.sessions[k] = s.sessions[k]
  BY <1>1
<1>7. Shape(g)
  <2>1. g.entries \in [DOMAIN g.entries -> EntryType]
    <3>1. g.entries = [m \in DOMAIN g.entries |-> g.entries[m]]
      BY <1>1
    <3>2. \A m \in DOMAIN g.entries : g.entries[m] \in EntryType
      BY <1>2, <1>5 DEF StoreInv, Shape
    <3> QED BY <3>1, <3>2
  <2>2. g.index \in [DOMAIN g.entries -> RowType]
    <3>1. g.index = [m \in DOMAIN g.entries |-> g.index[m]]
      BY <1>1, <1>5 DEF With
    <3>2. \A m \in DOMAIN g.entries : g.index[m] \in RowType
      BY <1>3, <1>5 DEF StoreInv, Shape
    <3> QED BY <3>1, <3>2
  <2>3. g.sessions \in [DOMAIN g.sessions -> Lineage]
    <3>1. g.sessions = [k \in DOMAIN g.sessions |-> g.sessions[k]]
      BY <1>1
    <3>2. \A k \in DOMAIN g.sessions : g.sessions[k] \in Lineage
      BY <1>6 DEF StoreInv, Shape
    <3> QED BY <3>1, <3>2
  <2> QED BY <2>1, <2>2, <2>3, <1>1, <1>5, <1>6 DEF StoreInv, Shape
<1>8. Listed(g)
  BY <1>1, <1>5 DEF StoreInv, Listed
<1>9. ASSUME NEW m \in DOMAIN g.entries
      PROVE  EntryExact(g, m)
  <2>1. CASE m = n
    BY <2>1, <1>2, <1>3, <1>5, <1>6, <1>13 DEF EntryExact, Live, SessionText
  <2>2. CASE m # n
    <3>1. m \in DOMAIN s.entries /\ EntryExact(s, m) /\ s.entries[m].handle # h
      BY <2>2, <1>3, <1>5 DEF StoreInv, Owned
    <3>2. Live(s, s.entries[m].handle) =>
            g.sessions[s.entries[m].handle] = s.sessions[s.entries[m].handle]
      BY <3>1, <1>6 DEF Live
    <3> QED BY <3>1, <3>2, <2>2, <1>5, <1>6 DEF EntryExact, Live, SessionText
  <2> QED BY <2>1, <2>2
<1>10. Owned(g, {})
  <2>1. \A m \in DOMAIN g.entries : g.entries[m].handle = s.entries[m].handle
    BY <1>2, <1>5
  <2>2. Held(g) = Held(s)
    BY <2>1, <1>5 DEF Held
  <2> QED BY <2>1, <2>2, <1>5, <1>6 DEF StoreInv, Owned
<1> QED BY <1>2, <1>5, <1>6, <1>7, <1>8, <1>9, <1>10 DEF StoreInv, Live, g

\* append_entry, of a resident entry whose text starts the text of the call.
LEMMA AppendKeeps ==
    ASSUME NEW s, StoreInv(s, {}), NEW n \in DOMAIN s.entries, s.entries[n].text # None,
           NEW t \in Text, IsPrefix(s.entries[n].text, t), NEW eng
    PROVE  LET res == AppendEntry(s, n, t, eng) IN
           Outcome(s, res, t) /\ Thrifty(res)
<1> DEFINE h == s.entries[n].handle
           a == s.entries[n].text
           delta == SubSeq(t, Len(a) + 1, Len(t))
           l == Append(s.sessions[h], SessionText(s, h) \o delta)
           res == AppendEntry(s, n, t, eng)
           Fits == Live(s, h) /\ s.entries[n].rev = Len(s.sessions[h]) - 1 /\ eng.append
<1>1. CASE Fits
  <2>1. h \in DOMAIN s.sessions /\ h \in Nat /\ h # None
    BY <1>1, EntryAssumption DEF StoreInv, Shape, Live
  <2>2. a = SessionText(s, h) /\ a \in Text
    <3>1. s.entries[n] \in EntryType
      BY DEF StoreInv, Shape
    <3> QED BY <1>1, <2>1, <3>1 DEF StoreInv, EntryExact, EntryType
  <2>3. a \o delta = t
    BY <2>2, PrefixAndRest
  <2>4. l = Append(s.sessions[h], t)
    BY <2>2, <2>3
  <2>5. l \in Lineage /\ Last(l) = t
    <3>1. s.sessions[h] \in Seq(Text)
      BY <2>1 DEF StoreInv, Shape, Lineage
    <3> DEFINE q == s.sessions[h]
    <3>3. q \in Seq(Text)
      BY <3>1
    <3> HIDE DEF q
    <3>2. Append(q, t) \in Seq(Text) /\ Append(q, t) # <<>> /\ Last(Append(q, t)) = t
      <4>1. /\ Append(q, t) \in Seq(Text) /\ Append(q, t) # <<>>
            /\ Len(Append(q, t)) = Len(q) + 1
            /\ Append(q, t)[Len(q) + 1] = t
        BY ONLY <3>3, t \in Text, AppendProperties
      <4> QED BY <4>1 DEF Last
    <3> USE DEF q
    <3> QED BY <2>4, <3>2 DEF Lineage
  <2> DEFINE u == Used(s, h)
             g == Grown(u, n, h, l, delta)
             c == [u EXCEPT !.sessions[h] = l,
                            !.entries[n] = [s.entries[n] EXCEPT
                                !.text = a \o delta, !.rev = Len(l) - 1, !.row = Row(Last(l))],
                            !.index = With(@, n, Row(Last(l)))]
  <2>6. res = Done(EvictOverBudget(c, n), EntryWrites(c, n) \o <<IndexWrite(c)>>, Last(l))
    BY <1>1 DEF AppendEntry
  <2>7. StoreInv(u, {}) /\ u.entries = s.entries /\ u.index = s.index /\ u.sessions = s.sessions
    BY <2>1, UsedKeeps
  <2>8. c = g
    BY <2>7 DEF Grown
  <2> HIDE DEF res, h, l, u, c, delta
  <2>9. n \in DOMAIN u.entries /\ h \in DOMAIN u.sessions /\ u.entries[n].handle = h
    BY <2>1, <2>7 DEF h
  <2>10. /\ StoreInv(g, {})
         /\ DOMAIN g.entries = DOMAIN u.entries
         /\ g.entries[n].handle = h /\ Live(g, h)
         /\ \A m \in DOMAIN u.entries \ {n} : g.index[m] = u.index[m]
    <3>1. Last(l) = u.entries[n].text \o delta /\ Last(l) \in Text
      BY <2>3, <2>5, <2>7
    <3>2. StoreInv(u, {}) /\ l \in Lineage
      BY <2>5, <2>7
    <3>3. Grows(u, n, h, l, delta)
      BY <3>1, <3>2, <2>9 DEF Grows
    <3> QED BY ONLY <3>3, GrowKeeps
  <2> HIDE DEF g
  <2>11. <<>> \in Seq(Name) /\ ToSet(<<>>) = {} /\ CapRemovals(<<>>) = <<>>
    <3>1. Len(<<>>) = 0
      OBVIOUS
    <3>2. CapRemovals(<<>>) = [i \in 1..0 |-> IF i % 2 = 1 THEN Removal("rec", <<>>[(i + 1) \div 2])
                                              ELSE Removal("bind", <<>>[i \div 2])]
      BY <3>1 DEF CapRemovals
    <3> QED BY <3>2 DEF ToSet
  <2>12. res = Done(EvictOverBudget(g, n),
                    CapRemovals(<<>>) \o EntryWrites(g, n) \o <<IndexWrite(g)>>, t)
    <3>1. EntryWrites(g, n) = <<Write("rec", n, RecordOf(g.sessions[h])),
                               Write("bind", n, BindingOf(g.sessions[h]))>>
      BY <2>1, <2>10, LiveEntryFiles
    <3>2. <<>> \o EntryWrites(g, n) = EntryWrites(g, n)
      BY <3>1
    <3> QED BY <3>2, <2>5, <2>6, <2>8, <2>11
  <2>13. /\ StoreInv(res.mem, {})
         /\ Pending(res.writes)
         /\ res.out = t
         /\ Persistent => Recorded(s, res)
         /\ Thrifty(res)
    <3>1. n \in DOMAIN g.entries /\ g.entries[n].handle # None /\ Live(g, g.entries[n].handle)
      BY <2>1, <2>9, <2>10
    <3>2. \A m \in DOMAIN g.entries \ {n} :
                m \in DOMAIN s.entries \ ToSet(<<>>) /\ g.index[m] = s.index[m]
      BY <2>7, <2>10, <2>11
    <3> DEFINE v == <<>>
    <3>3. v \in Seq(Name)
      BY <2>11
    <3>7. v = <<>>
      OBVIOUS
    <3> HIDE DEF v
    <3>4. res = Done(EvictOverBudget(g, n),
                     CapRemovals(v) \o EntryWrites(g, n) \o <<IndexWrite(g)>>, t)
      BY <3>7, <2>12
    <3>5. \A m \in DOMAIN g.entries \ {n} :
                m \in DOMAIN s.entries \ ToSet(v) /\ g.index[m] = s.index[m]
      BY <3>2, <3>7
    <3>6. StoreInv(g, {})
      BY <2>10
    <3>8. Writes(s, g, n, v)
      BY <3>1, <3>3, <3>5, <3>6 DEF Writes
    <3> QED BY ONLY <3>4, <3>8, WrittenKeeps
  <2>14. t # None
    BY EntryAssumption
  <2> QED BY <2>13, <2>14 DEF Outcome, res
<1>2. CASE ~Fits
  <2> DEFINE d == DropEntries(s, {n})
  <2>1. res = Done(d, <<>>, None)
    BY <1>2 DEF AppendEntry, Answered
  <2>2. res.mem = d /\ res.writes = <<>> /\ res.out = None
    BY <2>1 DEF Done
  <2> HIDE DEF res
  <2>3. /\ StoreInv(d, {})
        /\ DOMAIN d.entries = DOMAIN s.entries \ {n}
        /\ \A m \in DOMAIN d.entries : d.index[m] = s.index[m]
    BY DropKeeps
  <2>4. Fewer(s, d)
    BY <2>3 DEF Fewer
  <2> QED BY <2>2, <2>3, <2>4, NoFiles DEF Outcome, Recorded, Thrifty, res
<1> QED BY <1>1, <1>2

\* encode_session, once the entry is resident or there is none.
LEMMA SessionKeeps ==
    ASSUME NEW s, StoreInv(s, {}), NEW n \in Name, NEW t \in Text, NEW eng,
           n \in DOMAIN s.entries => Resident(s, n)
    PROVE  LET res == SessionAnswer(s, n, t, eng) IN
           Outcome(s, res, t) /\ Thrifty(res)
<1> DEFINE u == TouchEntry(s, n)
           res == SessionAnswer(s, n, t, eng)
<1>1. CASE n \notin DOMAIN s.entries
  <2>1. res = WriteEntry(s, n, t, eng)
    BY <1>1 DEF SessionAnswer
  <2> QED BY <2>1, WriteKeeps
<1>2. CASE n \in DOMAIN s.entries
  <2>1. res = IF s.entries[n].text = t THEN EntryIds(u, n)
              ELSE IF IsPrefix(s.entries[n].text, t) THEN AppendEntry(u, n, t, eng)
              ELSE WriteEntry(u, n, t, eng)
    BY <1>2 DEF SessionAnswer
  <2>2. StoreInv(u, {}) /\ u.entries = s.entries /\ u.index = s.index
    BY <1>2, TouchKeeps
  <2> HIDE DEF u, res
  <2>3. s.entries[n].text # None
    BY <1>2 DEF Resident
  <2>4. Outcome(u, res, t) /\ Thrifty(res)
    <3>1. CASE s.entries[n].text = t
      <4>1. res = EntryIds(u, n) /\ n \in DOMAIN u.entries /\ u.entries[n].text = t
        BY <3>1, <1>2, <2>1, <2>2
      <4> QED BY <4>1, <2>2, IdsKeeps
    <3>2. CASE s.entries[n].text # t /\ IsPrefix(s.entries[n].text, t)
      <4>1. /\ res = AppendEntry(u, n, t, eng) /\ n \in DOMAIN u.entries
            /\ u.entries[n].text # None /\ IsPrefix(u.entries[n].text, t)
        BY <3>2, <1>2, <2>1, <2>2, <2>3
      <4> QED BY <4>1, <2>2, AppendKeeps
    <3>3. CASE s.entries[n].text # t /\ ~IsPrefix(s.entries[n].text, t)
      <4>1. res = WriteEntry(u, n, t, eng)
        BY <3>3, <2>1
      <4> QED BY <4>1, <2>2, WriteKeeps
    <3> QED BY <3>1, <3>2, <3>3
  <2>5. Fewer(s, u)
    BY <2>2 DEF Fewer
  <2> QED BY <2>4, <2>5, RecordedBefore DEF Outcome, res
<1> QED BY <1>1, <1>2

\* The end of encode_auto and adopt_fork: an entry of that name goes first.
LEMMA ReplaceKeeps ==
    ASSUME NEW s, NEW h \in DOMAIN s.sessions, StoreInv(s, {h}),
           NEW t \in Text, Last(s.sessions[h]) = t, NEW n \in Name
    PROVE  LET clear == IF n \in DOMAIN s.entries THEN DropEntries(s, {n}) ELSE s IN
           Outcome(s, Publish(clear, n, t, h, t), t)
<1> DEFINE d == DropEntries(s, {n})
           clear == IF n \in DOMAIN s.entries THEN d ELSE s
           res == Publish(clear, n, t, h, t)
<1>1. h \notin HandlesOf(s, {n})
  BY DEF HandlesOf, StoreInv, Owned, Held
<1>2. /\ StoreInv(d, {h})
      /\ DOMAIN d.entries = DOMAIN s.entries \ {n}
      /\ \A m \in DOMAIN d.entries : d.index[m] = s.index[m]
      /\ DOMAIN d.sessions = DOMAIN s.sessions \ HandlesOf(s, {n})
      /\ \A k \in DOMAIN d.sessions : d.sessions[k] = s.sessions[k]
  BY DropKeeps
<1> HIDE DEF d
<1>3. /\ StoreInv(clear, {h}) /\ h \in DOMAIN clear.sessions /\ Last(clear.sessions[h]) = t
      /\ n \notin DOMAIN clear.entries
      /\ Fewer(s, clear)
  BY <1>1, <1>2 DEF Fewer
<1> HIDE DEF clear
<1>4. /\ StoreInv(res.mem, {})
      /\ Pending(res.writes)
      /\ res.out = t
      /\ Persistent => Recorded(clear, res)
  <2>1. h \in DOMAIN clear.sessions /\ StoreInv(clear, {h}) /\ Last(clear.sessions[h]) = t
    BY <1>3
  <2>2. n \in DOMAIN clear.entries => ~Live(clear, clear.entries[n].handle)
    BY <1>3
  <2>3. t \in Text /\ n \in Name
    OBVIOUS
  <2> QED BY ONLY <2>1, <2>2, <2>3, PublishKeeps
<1> HIDE DEF res
<1>5. t # None
  BY EntryAssumption
<1>6. Outcome(s, res, t)
  BY <1>3, <1>4, <1>5, RecordedBefore DEF Outcome
<1> QED BY <1>6 DEF res, clear, d

\* encode_auto after a miss.
LEMMA MissKeeps ==
    ASSUME NEW s, StoreInv(s, {}), NEW t \in Text, NEW eng
    PROVE  Outcome(s, AutoMiss(s, t, eng), t)
<1> DEFINE res == AutoMiss(s, t, eng)
           h == FreshHandle(s)
           put == InsertSession(s, <<t>>)
           n == AName(t)
<1>1. CASE Len(t) < AutoMin
  <2>1. res.mem = s /\ res.writes = <<>> /\ res.out = None
    BY <1>1 DEF AutoMiss, Answered, Done
  <2> QED BY <2>1, NoFiles DEF Outcome, Recorded, Fewer
<1>2. CASE ~(Len(t) < AutoMin) /\ ~eng.put
  <2> DEFINE r == MakeRoom(s)
  <2>1. res.mem = r /\ res.writes = <<>> /\ res.out = None
    BY <1>2 DEF AutoMiss, Answered, Done
  <2>2. StoreInv(r, {}) /\ r.entries = s.entries /\ r.index = s.index
    BY MakeRoomKeeps
  <2> HIDE DEF r, res
  <2>3. Outcome(s, res, t)
    BY <2>1, <2>2, NoFiles DEF Outcome, Recorded, Fewer
  <2> QED BY <2>3 DEF res
<1>3. CASE ~(Len(t) < AutoMin) /\ eng.put
  <2>1. t \in Text /\ n \in Name
    BY EntryAssumption DEF Name
  <2>2. <<t>> \in Lineage /\ Last(<<t>>) = t
    BY <2>1 DEF Lineage, Last
  <2>3. /\ StoreInv(put, {h})
        /\ h \in DOMAIN put.sessions /\ put.sessions[h] = <<t>>
        /\ put.entries = s.entries /\ put.index = s.index
    BY <2>2, InsertKeeps
  <2>4. res = Publish(IF n \in DOMAIN put.entries THEN DropEntries(put, {n}) ELSE put,
                      n, t, h, t)
    BY <1>3 DEF AutoMiss
  <2> HIDE DEF put, h, n, res
  <2>5. Outcome(put, res, t)
    BY <2>1, <2>2, <2>3, <2>4, ReplaceKeeps
  <2>6. Fewer(s, put)
    BY <2>3 DEF Fewer
  <2> QED BY <2>5, <2>6, RecordedBefore DEF Outcome, res
<1> QED BY <1>1, <1>2, <1>3

\* serve_extension over a named session.
LEMMA ForkKeeps ==
    ASSUME NEW s, StoreInv(s, {}), NEW n \in DOMAIN s.entries, Resident(s, n),
           NEW t \in Text, IsPrefix(s.entries[n].text, t), NEW eng
    PROVE  Outcome(s, ForkAnswer(s, n, t, eng), t)
<1> DEFINE e == s.entries[n]
           k == e.handle
           h == FreshHandle(s)
           a == e.text
           delta == SubSeq(t, Len(a) + 1, Len(t))
           source == SessionText(s, k)
           u == Used(s, k)
           forked == InsertSession(u, <<source, source \o delta>>)
           m == AName(t)
           clear == IF m \in DOMAIN forked.entries THEN DropEntries(forked, {m}) ELSE forked
           res == ForkAnswer(s, n, t, eng)
<1>1. res = IF ~Live(s, k) THEN Answered(s, None)
            ELSE IF ~eng.append THEN Answered(MakeRoom(u), None)
            ELSE IF Len(t) < AutoMin THEN Answered(EvictSessions(forked, {h}), source \o delta)
            ELSE Publish(clear, m, t, h, source \o delta)
  BY DEF ForkAnswer
<1>2. CASE ~Live(s, k)
  <2>1. res.mem = s /\ res.writes = <<>> /\ res.out = None
    BY <1>1, <1>2 DEF Answered, Done
  <2> QED BY <2>1, NoFiles DEF Outcome, Recorded, Fewer
<1>3. CASE Live(s, k)
  <2>1. k \in Nat /\ k # None
    BY <1>3, EntryAssumption DEF StoreInv, Shape, Live
  <2>2. a = source /\ a \in Text /\ t \in Text /\ m \in Name
    <3>1. e \in EntryType /\ a # None
      BY DEF StoreInv, Shape, Resident
    <3> QED BY <1>3, <2>1, <3>1, EntryAssumption DEF StoreInv, EntryExact, EntryType, Name
  <2>3. a \o delta = t
    BY <2>2, PrefixAndRest
  <2>4. source \o delta = t
    BY <2>2, <2>3
  <2>5. StoreInv(u, {}) /\ u.entries = s.entries /\ u.index = s.index /\ u.sessions = s.sessions
    BY <2>1, UsedKeeps
  <2>6. h = FreshHandle(u)
    BY <2>5 DEF FreshHandle
  <2>7. <<source, source \o delta>> \in Lineage /\ Last(<<source, source \o delta>>) = t
    <3> HIDE DEF source, delta
    <3>1. <<source, t>> \in Seq(Text) /\ <<source, t>> # <<>> /\ Last(<<source, t>>) = t
      BY <2>2 DEF Last
    <3> QED BY <3>1, <2>4 DEF Lineage
  <2> DEFINE l == <<source, source \o delta>>
  <2> HIDE DEF u, h, source, delta, l, a, k, e, res
  <2>8. forked = InsertSession(u, l)
    BY DEF l
  <2>9. l \in Lineage /\ Last(l) = t
    BY <2>7 DEF l
  <2> HIDE DEF forked
  <2>10. /\ StoreInv(forked, {h})
         /\ h \notin Held(u)
         /\ h \in DOMAIN forked.sessions /\ forked.sessions[h] = l
         /\ forked.entries = u.entries /\ forked.index = u.index
    BY <2>5, <2>6, <2>8, <2>9, InsertKeeps, SMTT(30)
  <2>11. CASE ~eng.append
    <3> DEFINE r == MakeRoom(u)
    <3>1. res.mem = r /\ res.writes = <<>> /\ res.out = None
      BY <1>1, <1>3, <2>11 DEF Answered, Done
    <3>2. StoreInv(r, {}) /\ r.entries = u.entries /\ r.index = u.index
      BY <2>5, MakeRoomKeeps
    <3> HIDE DEF r
    <3>3. Outcome(s, res, t)
      BY <3>1, <3>2, <2>5, NoFiles DEF Outcome, Recorded, Fewer
    <3> QED BY <3>3 DEF res
  <2>12. CASE eng.append /\ Len(t) < AutoMin
    <3> DEFINE r == EvictSessions(forked, {h})
    <3>1. res.mem = r /\ res.writes = <<>> /\ res.out = t
      BY <1>1, <1>3, <2>4, <2>12 DEF Answered, Done
    <3>2. /\ StoreInv(r, {h}) /\ r.entries = forked.entries /\ r.index = forked.index
          /\ DOMAIN r.sessions = DOMAIN forked.sessions \ {h}
      BY <2>10, EvictSessionsKeeps
    <3> HIDE DEF r
    <3>3. StoreInv(r, {})
      BY <3>2 DEF StoreInv, Owned
    <3>4. Outcome(s, res, t)
      BY <3>1, <3>2, <3>3, <2>5, <2>10, NoFiles DEF Outcome, Recorded, Fewer
    <3> QED BY <3>4 DEF res
  <2>13. CASE eng.append /\ ~(Len(t) < AutoMin)
    <3>1. res = Publish(clear, m, t, h, t)
      BY <1>1, <1>3, <2>4, <2>13
    <3> HIDE DEF m
    <3>2. Outcome(forked, res, t)
      BY <3>1, <2>2, <2>9, <2>10, ReplaceKeeps
    <3>3. Fewer(s, forked)
      BY <2>5, <2>10 DEF Fewer
    <3> QED BY <3>2, <3>3, RecordedBefore DEF Outcome, res
  <2> QED BY <2>11, <2>12, <2>13
<1> QED BY <1>2, <1>3

\* serve_from_index, of a candidate that is a prefix of the text.
LEMMA AutoKeeps ==
    ASSUME NEW s, StoreInv(s, {}), NEW n \in DOMAIN s.entries, Resident(s, n),
           NEW t \in Text, IsPrefix(s.entries[n].text, t), NEW eng
    PROVE  Outcome(s, AutoAnswer(s, n, t, eng), t)
<1> DEFINE u == TouchEntry(s, n)
           served == IF s.entries[n].text = t THEN EntryIds(u, n)
                     ELSE IF IsAuto(n) THEN AppendEntry(u, n, t, eng)
                     ELSE ForkAnswer(u, n, t, eng)
           res == AutoAnswer(s, n, t, eng)
<1>1. res = IF served.out # None THEN served ELSE AutoMiss(served.mem, t, eng)
  BY DEF AutoAnswer
<1>2. StoreInv(u, {}) /\ u.entries = s.entries /\ u.index = s.index
  BY TouchKeeps
<1>3. t \in Text
  BY EntryAssumption
<1> HIDE DEF u
<1>4. /\ n \in DOMAIN u.entries /\ Resident(u, n) /\ u.entries[n].text # None
      /\ IsPrefix(u.entries[n].text, t)
  BY <1>2 DEF Resident
<1>5. Outcome(u, served, t)
  <2>1. CASE s.entries[n].text = t
    <3>1. served = EntryIds(u, n) /\ u.entries[n].text = t
      BY <1>2, <2>1
    <3> QED BY <3>1, <1>2, <1>4, IdsKeeps
  <2>2. CASE s.entries[n].text # t /\ IsAuto(n)
    <3>1. served = AppendEntry(u, n, t, eng)
      BY <2>2
    <3> QED BY <3>1, <1>2, <1>3, <1>4, AppendKeeps
  <2>3. CASE s.entries[n].text # t /\ ~IsAuto(n)
    <3>1. served = ForkAnswer(u, n, t, eng)
      BY <2>3
    <3> QED BY <3>1, <1>2, <1>4, ForkKeeps
  <2> QED BY <2>1, <2>2, <2>3
<1>6. Fewer(s, u)
  BY <1>2 DEF Fewer
<1> HIDE DEF served, res
<1>7. CASE served.out # None
  <2>1. Outcome(u, res, t)
    BY <1>1, <1>5, <1>7
  <2> QED BY <2>1, <1>6, RecordedBefore DEF Outcome, res
<1>8. CASE served.out = None
  <2> DEFINE w == served.mem
  <2>1. res = AutoMiss(w, t, eng)
    BY <1>1, <1>8
  <2>2. StoreInv(w, {}) /\ served.writes = <<>>
    BY <1>5, <1>8 DEF Outcome
  <2>3. Persistent => Fewer(s, w)
    <3>1. \A v \in Seq(Name), m \in Name, l \in Lineage, idx \in IndexType :
                EntryFiles(v, m, l, idx) # <<>>
      BY EntryFilesPending
    <3>2. Persistent => Fewer(u, w)
      BY <3>1, <2>2, <1>5 DEF Outcome, Recorded
    <3> QED BY <3>2, <1>6 DEF Fewer
  <2> HIDE DEF w
  <2>4. Outcome(w, res, t)
    BY <2>1, <2>2, MissKeeps
  <2> QED BY <2>3, <2>4, RecordedBefore DEF Outcome, res
<1> QED BY <1>7, <1>8

-----------------------------------------------------------------------------
(* Recovery. *)

\* The text of a lineage is a text.
LEMMA LastOfLineage ==
    ASSUME NEW l \in Lineage
    PROVE  Last(l) \in Text /\ Row(Last(l)) \in RowType /\ Len(l) - 1 \in Nat
<1>1. l \in Seq(Text) /\ Len(l) \in Nat /\ Len(l) # 0
  BY LenProperties, EmptySeq DEF Lineage
<1>2. Len(l) \in 1..Len(l)
  BY <1>1
<1>3. l[Len(l)] \in Text
  BY <1>1, <1>2, ElementOfSeq
<1> QED BY <1>1, <1>3 DEF Last, RowType

\* An entry that comes back has the session of its record.
LEMMA RecoveredKeeps ==
    ASSUME NEW s, StoreInv(s, {}), NEW n \in DOMAIN s.entries, ~Resident(s, n),
           NEW raw \in RecType, NEW t \in Text, Last(raw.lineage) = t
    PROVE  LET r == Recovered(s, n, raw, t) IN
           /\ StoreInv(r, {})
           /\ DOMAIN r.entries = DOMAIN s.entries
           /\ r.index[n] = Row(t)
           /\ \A m \in DOMAIN s.entries \ {n} : r.index[m] = s.index[m]
           /\ Resident(r, n)
<1> DEFINE l == raw.lineage
           h == FreshHandle(s)
           put == InsertSession(s, l)
           e == [text |-> t, handle |-> h, rev |-> Len(l) - 1, row |-> Row(t)]
           a == Adopted(put, n, t, h)
           u == TouchEntry(a, n)
           r == Recovered(s, n, raw, t)
<1>1. l \in Lineage
  BY DEF RecType
<1>2. /\ StoreInv(put, {h})
      /\ h \in Nat /\ h \notin Held(s)
      /\ h \in DOMAIN put.sessions /\ put.sessions[h] = l
      /\ put.entries = s.entries /\ put.index = s.index /\ put.lru = s.lru
      /\ DOMAIN put.sessions \subseteq DOMAIN s.sessions \cup {h}
  BY <1>1, InsertKeeps
<1>3. r = [put EXCEPT !.entries[n] = e, !.index = With(@, n, Row(t))]
  BY DEF Recovered
<1>4. a = [put EXCEPT !.entries = With(@, n, e), !.index = With(@, n, Row(t))]
  BY <1>2 DEF Adopted
<1>5. e.text = t /\ e.handle = h
  OBVIOUS
<1> HIDE DEF l, h, put, e, a, r
<1>6. /\ DOMAIN r = DOMAIN put
      /\ r.entries = [put.entries EXCEPT ![n] = e] /\ r.index = With(put.index, n, Row(t))
      /\ r.sessions = put.sessions /\ r.recent = put.recent /\ r.lru = put.lru
  BY <1>2, <1>3 DEF StoreInv, Shape
<1>7. /\ DOMAIN a = DOMAIN put
      /\ a.entries = With(put.entries, n, e) /\ a.index = With(put.index, n, Row(t))
      /\ a.sessions = put.sessions /\ a.recent = put.recent /\ a.lru = put.lru
  BY <1>2, <1>4 DEF StoreInv, Shape
<1>8. /\ DOMAIN u = DOMAIN put
      /\ u.entries = With(put.entries, n, e) /\ u.index = r.index
      /\ u.sessions = r.sessions /\ u.recent = r.recent
  BY <1>2, <1>6, <1>7 DEF StoreInv, Shape, TouchEntry
<1>9. s.entries[n].handle = None
  BY DEF StoreInv, EntryExact, Resident
<1>10. ~Live(put, put.entries[n].handle)
  BY <1>2, <1>9, EntryAssumption DEF Live, StoreInv, Shape
<1>11. n \in Name
  BY DEF StoreInv, Shape
<1>12. /\ StoreInv(u, {})
       /\ DOMAIN u.entries = DOMAIN put.entries \cup {n}
       /\ u.index[n] = Row(t)
       /\ \A m \in DOMAIN put.entries \ {n} : u.index[m] = put.index[m]
  <2>1. Adoptable(put, n, t, h)
    BY <1>2, <1>10, <1>11 DEF Adoptable, l
  <2> QED BY ONLY <2>1, AdoptKeeps DEF u, a
<1> HIDE DEF u
<1>13. r.entries = u.entries /\ DOMAIN r.entries = DOMAIN s.entries
  <2>1. DOMAIN put.entries \cup {n} = DOMAIN put.entries
    BY <1>2
  <2>2. r.entries = [m \in DOMAIN put.entries |-> IF m = n THEN e ELSE put.entries[m]]
    BY <1>2, <1>6
  <2> QED BY <2>1, <2>2, <1>2, <1>8 DEF With
<1>14. Shape(r) /\ Listed(r)
  BY <1>2, <1>6, <1>8, <1>12, <1>13 DEF StoreInv, Shape, Listed
<1>15. \A m \in DOMAIN r.entries : EntryExact(r, m)
  BY <1>8, <1>12, <1>13 DEF StoreInv, EntryExact, Live, SessionText
<1>16. Owned(r, {})
  BY <1>8, <1>12, <1>13 DEF StoreInv, Owned, Held
<1>17. Resident(r, n)
  <2>1. r.entries[n] = e
    BY <1>2, <1>6
  <2>2. t # None /\ h # None
    BY <1>2, EntryAssumption
  <2> QED BY <2>1, <2>2, <1>5 DEF Resident
<1> QED BY <1>2, <1>8, <1>12, <1>13, <1>14, <1>15, <1>16, <1>17 DEF StoreInv, r

\* The store Load opens over an index: no entry is resident.
Opened(index) ==
    [EmptyStore EXCEPT
        !.index = index,
        !.entries = [n \in DOMAIN index |-> [text |-> None, handle |-> None, rev |-> 0,
                                             row |-> index[n]]],
        !.lru = InOrder(DOMAIN index)]

LEMMA OpenedKeeps ==
    ASSUME NEW index \in IndexType
    PROVE  /\ StoreInv(Opened(index), {})
           /\ DOMAIN Opened(index).entries = DOMAIN index
           /\ Opened(index).index = index
           /\ ResidentBytes(Opened(index)) = 0
<1> DEFINE D == DOMAIN index
           s == Opened(index)
           cold(n) == [text |-> None, handle |-> None, rev |-> 0, row |-> index[n]]
<1>1. D \in SUBSET Name /\ IsFiniteSet(D) /\ index \in [D -> RowType]
  BY DEF IndexType
<1>2. /\ DOMAIN s = {"entries", "lru", "index", "sessions", "recent"}
      /\ s.entries = [n \in D |-> cold(n)] /\ s.index = index /\ s.lru = InOrder(D)
      /\ s.sessions = <<>> /\ s.recent = <<>>
  BY DEF Opened, EmptyStore
<1>3. \A n \in D : /\ cold(n) \in EntryType
                   /\ cold(n).text = None /\ cold(n).handle = None /\ cold(n).row = index[n]
  BY <1>1 DEF EntryType
<1> HIDE DEF cold, s, D
<1>4. InOrder(D) \in Seq(Name) /\ ToSet(InOrder(D)) = D /\ IsInjective(InOrder(D))
  <2> DEFINE l == InOrder(D)
  <2>1. l \in Seq(D) /\ ToSet(l) = D /\ IsInjective(l)
    BY <1>1, InOrderList
  <2> HIDE DEF l
  <2>2. Seq(D) \subseteq Seq(Name)
    BY <1>1
  <2> QED BY <2>1, <2>2 DEF l
<1>5. DOMAIN s.entries = D /\ \A n \in D : s.entries[n] = cold(n)
  BY <1>2
<1>6. s.entries \in [D -> EntryType]
  BY <1>2, <1>3
<1>7. DOMAIN <<>> = {} /\ IsFiniteSet({}) /\ <<>> \in [{} -> Lineage] /\ <<>> \in Seq(Nat)
  <2>1. <<>> \in [{} -> Lineage]
    OBVIOUS
  <2> QED BY <2>1, FS_EmptySet
<1>8. Shape(s)
  BY <1>1, <1>2, <1>4, <1>5, <1>6, <1>7 DEF Shape
<1>9. Listed(s)
  BY <1>2, <1>4, <1>5 DEF Listed
<1>10. \A n \in DOMAIN s.entries : EntryExact(s, n)
  BY <1>2, <1>3, <1>5 DEF EntryExact
<1>11. Owned(s, {})
  BY <1>2, <1>3, <1>5, <1>7 DEF Owned
<1>12. ResidentNames(s) = {}
  BY <1>3, <1>5 DEF ResidentNames
<1>13. ResidentBytes(s) = 0
  BY <1>12, BytesOfRows DEF ResidentBytes
<1> QED BY <1>1, <1>2, <1>5, <1>8, <1>9, <1>10, <1>11, <1>13 DEF StoreInv, s, D

\* What is rebuilt from the records is an index.
LEMMA RebuiltIndex ==
    ASSUME NEW d \in DiskType, IsFiniteSet({n \in Name : d.rec[n] # None})
    PROVE  RebuildIndex(d) \in IndexType
<1> DEFINE x == RebuildIndex(d)
           owned(n) == /\ d.bind[n] # None
                       /\ d.bind[n].hash = d.rec[n].lineage
                       /\ d.bind[n].row.len = Len(Last(d.rec[n].lineage))
           known == {n \in Name : d.rec[n] # None /\ (d.rec[n].sealed => owned(n))}
<1>1. x = [n \in known |-> IF d.rec[n].sealed THEN d.bind[n].row
                           ELSE Row(Last(d.rec[n].lineage))]
  BY DEF RebuildIndex
<1>2. known \in SUBSET {n \in Name : d.rec[n] # None}
  OBVIOUS
<1>3. known \in SUBSET Name /\ IsFiniteSet(known)
  BY <1>2, FS_Subset
<1>4. ASSUME NEW n \in known
      PROVE  (IF d.rec[n].sealed THEN d.bind[n].row ELSE Row(Last(d.rec[n].lineage))) \in RowType
  <2>1. n \in Name /\ d.rec[n] \in RecType /\ (d.rec[n].sealed => d.bind[n] \in BindType)
    BY <1>4 DEF DiskType
  <2>2. d.rec[n].lineage \in Lineage
    BY <2>1 DEF RecType
  <2>3. Row(Last(d.rec[n].lineage)) \in RowType
    BY <2>2, LastOfLineage
  <2>4. ASSUME d.rec[n].sealed
        PROVE  d.bind[n].row \in RowType
    <3>1. PICK l \in Lineage : d.bind[n] = BindingOf(l)
      BY <2>1, <2>4 DEF BindType
    <3>2. d.bind[n].row = Row(Last(l))
      BY <3>1 DEF BindingOf
    <3> QED BY <3>1, <3>2, LastOfLineage
  <2> QED BY <2>3, <2>4
<1> HIDE DEF known
<1>5. x \in [known -> RowType]
  BY <1>1, <1>4
<1> HIDE DEF x
<1>6. known \in {E \in SUBSET Name : IsFiniteSet(E)}
  BY <1>3
<1> QED BY <1>5, <1>6 DEF IndexType, x

-----------------------------------------------------------------------------
(* The steps of a process. *)

\* The files after the first are pending too; after a record, those after its
\* binding are.
LEMMA PendingTail ==
    ASSUME NEW ws, Pending(ws), ws # <<>>
    PROVE  /\ Head(ws) \in WriteType /\ Pending(Tail(ws))
           /\ IsRecord(Head(ws)) => Tail(ws) # <<>> /\ Pending(Tail(Tail(ws)))
<1> DEFINE r == Tail(ws)
<1>1. /\ Head(ws) = ws[1] /\ Head(ws) \in WriteType
      /\ r \in Seq(WriteType) /\ Len(r) = Len(ws) - 1 /\ Len(ws) \in Nat \ {0}
      /\ \A i \in 1..Len(r) : r[i] = ws[i + 1]
  <2>1. ws \in Seq(WriteType) /\ ws # <<>>
    BY DEF Pending
  <2> QED BY <2>1, HeadTailProperties, LenProperties, EmptySeq
<1>2. \A i \in 1..Len(ws) : IsRecord(ws[i]) => i < Len(ws)
  BY DEF Pending
<1> HIDE DEF r
<1>3. Pending(r)
  <2>1. ASSUME NEW i \in 1..Len(r), IsRecord(r[i])
        PROVE  i < Len(r)
    BY <2>1, <1>1, <1>2
  <2> QED BY <2>1, <1>1 DEF Pending
<1>4. ASSUME IsRecord(Head(ws))
      PROVE  r # <<>> /\ Pending(Tail(r))
  <2>1. 1 < Len(ws)
    BY <1>1, <1>2, <1>4
  <2>2. r # <<>>
    BY <2>1, <1>1, EmptySeq
  <2> DEFINE q == Tail(r)
  <2>3. /\ q \in Seq(WriteType) /\ Len(q) = Len(r) - 1 /\ Len(r) \in Nat
        /\ \A i \in 1..Len(q) : q[i] = r[i + 1]
    BY <2>2, <1>1, HeadTailProperties, LenProperties
  <2>5. \A i \in 1..Len(r) : IsRecord(r[i]) => i < Len(r)
    BY <1>3 DEF Pending
  <2> HIDE DEF q
  <2>4. Pending(q)
    <3>1. ASSUME NEW i \in 1..Len(q), IsRecord(q[i])
          PROVE  i < Len(q)
      BY <3>1, <2>3, <2>5
    <3> QED BY <3>1, <2>3 DEF Pending
  <2> QED BY <2>2, <2>4 DEF q
<1> QED BY <1>1, <1>3, <1>4 DEF r

\* A file that is removed or renamed into place.
LEMMA StoredKeeps ==
    ASSUME NEW d \in DiskType, IsFiniteSet({n \in Name : d.rec[n] # None}),
           NEW w \in WriteType
    PROVE  LET e == Stored(d, w, w.val) IN
           e \in DiskType /\ IsFiniteSet({n \in Name : e.rec[n] # None})
<1> DEFINE e == Stored(d, w, w.val)
           recs(x) == {n \in Name : x.rec[n] # None}
<1>1. CASE w.kind = "meta"
  <2>1. e = [d EXCEPT !.meta = w.val] /\ w.val = TRUE
    BY <1>1 DEF Stored, WriteType
  <2>2. e \in DiskType /\ e.rec = d.rec
    BY <2>1 DEF DiskType
  <2> QED BY <2>2
<1>2. CASE w.kind = "index"
  <2>1. e = [d EXCEPT !.index = w.val] /\ w.val \in IndexType
    BY <1>2 DEF Stored, WriteType
  <2>2. e \in DiskType /\ e.rec = d.rec
    BY <2>1 DEF DiskType
  <2> QED BY <2>2
<1>3. CASE w.kind = "rec"
  <2>1. e = [d EXCEPT !.rec[w.name] = w.val] /\ w.name \in Name /\ w.val \in RecType \cup {None}
    BY <1>3 DEF Stored, WriteType
  <2>2. e \in DiskType /\ \A n \in Name \ {w.name} : e.rec[n] = d.rec[n]
    BY <2>1 DEF DiskType
  <2>3. recs(e) \in SUBSET (recs(d) \cup {w.name})
    BY <2>2
  <2>4. IsFiniteSet(recs(d) \cup {w.name})
    BY FS_AddElement
  <2> HIDE DEF e
  <2> QED BY <2>2, <2>3, <2>4, FS_Subset DEF e
<1>4. CASE w.kind = "bind"
  <2>1. e = [d EXCEPT !.bind[w.name] = w.val] /\ w.name \in Name /\ w.val \in BindType \cup {None}
    BY <1>4 DEF Stored, WriteType
  <2>2. e \in DiskType /\ e.rec = d.rec
    BY <2>1 DEF DiskType
  <2> QED BY <2>2
<1>5. w.kind \in {"meta", "index", "rec", "bind"}
  BY DEF WriteType
<1> QED BY <1>1, <1>2, <1>3, <1>4, <1>5

\* Steps of one process leave the others alone.
LEMMA OtherProcesses ==
    ASSUME Inv, NEW p \in Process,
           up' \in [Process -> BOOLEAN], DOMAIN mem' = Process, DOMAIN call' = Process,
           faults' \in Nat, DiskInv',
           \A q \in Process \ {p} : mem'[q] = mem[q] /\ call'[q] = call[q],
           ProcessInv(p)'
    PROVE  Inv'
<1>1. ASSUME NEW q \in Process
      PROVE  ProcessInv(q)'
  <2>1. CASE q # p
    <3>1. mem'[q] = mem[q] /\ call'[q] = call[q] /\ ProcessInv(q)
      BY <2>1 DEF Inv
    <3> QED BY <3>1 DEF ProcessInv
  <2> QED BY <2>1
<1> QED BY <1>1 DEF Inv

\* After its work a call writes its files, or is home.
LEMMA FinishKeeps ==
    ASSUME Inv, NEW p \in Process, NEW res, Finish(p, res),
           call[p].pc \in {"serve", "scan"},
           Outcome(mem[p], res, call[p].text), ~call[p].lookup => Thrifty(res),
           up' \in [Process -> BOOLEAN], faults' \in Nat, disk' = disk
    PROVE  Inv'
<1> DEFINE c == call[p]
           d == call'[p]
<1>1. /\ mem'[p] = res.mem /\ DOMAIN mem' = Process
      /\ d = [c EXCEPT !.pc = IF res.writes = <<>> THEN "idle" ELSE "files",
                       !.writes = res.writes, !.out = res.out, !.todo = <<>>]
      /\ DOMAIN call' = Process
      /\ \A q \in Process \ {p} : mem'[q] = mem[q] /\ call'[q] = call[q]
  BY DEF Inv, Finish
<1>2. CallShape(c) /\ c.out = None
  BY DEF Inv, ProcessInv, CallInv
<1>3. /\ DOMAIN d = DOMAIN c
      /\ d.pc = IF res.writes = <<>> THEN "idle" ELSE "files"
      /\ d.writes = res.writes /\ d.out = res.out
      /\ d.lookup = c.lookup /\ d.text = c.text
  BY <1>1, <1>2 DEF CallShape
<1> HIDE DEF c, d
<1>4. CallShape(d)
  BY <1>2, <1>3 DEF CallShape, Outcome, c
<1>5. CallInv(res.mem, d)
  BY <1>3, <1>4 DEF CallInv
<1>6. BudgetInv(res.mem, d)
  BY <1>3 DEF BudgetInv, Thrifty, c
<1>7. ProcessInv(p)'
  BY <1>1, <1>5, <1>6 DEF ProcessInv, Outcome, d
<1>8. DiskInv'
  BY DEF Inv, DiskInv
<1> QED BY <1>1, <1>7, <1>8, OtherProcesses

\* Serve, ScanEnds and ScanHits: what the work of a call comes to.
LEMMA WorkDone ==
    ASSUME Inv, NEW p \in Process, Serve(p) \/ ScanEnds(p) \/ ScanHits(p)
    PROVE  /\ \E res : /\ Finish(p, res)
                       /\ Outcome(mem[p], res, call[p].text)
                       /\ ~call[p].lookup => Thrifty(res)
           /\ call[p].pc \in {"serve", "scan"}
           /\ faults' \in Nat /\ (faults' = 0 => faults = 0)
           /\ UNCHANGED <<up, disk, tmp>>
<1> DEFINE s == mem[p]
           c == call[p]
           t == c.text
           n == Head(c.todo)
<1>1. StoreInv(s, {}) /\ CallInv(s, c) /\ faults \in Nat
  BY DEF Inv, ProcessInv
<1>2. ASSUME NEW eng, EngineReturns(eng)
      PROVE  faults' \in Nat /\ (faults' = 0 => faults = 0)
  BY <1>1, <1>2 DEF EngineReturns
<1>3. CASE Serve(p)
  <2>1. c.pc = "serve"
    BY <1>3 DEF Serve, At
  <2>2. c.name \in Name /\ t \in Text /\ (c.name \in DOMAIN s.entries => Resident(s, c.name))
    BY <1>1, <2>1, EntryAssumption DEF CallInv
  <2>3. PICK eng \in EngineResult :
            EngineReturns(eng) /\ Finish(p, SessionAnswer(s, c.name, t, eng))
    BY <1>3 DEF Serve
  <2> DEFINE res == SessionAnswer(s, c.name, t, eng)
  <2>4. Outcome(s, res, t) /\ Thrifty(res)
    BY <1>1, <2>2, SessionKeeps
  <2> HIDE DEF res
  <2>5. \E r : Finish(p, r) /\ Outcome(s, r, t) /\ (~c.lookup => Thrifty(r))
    BY <2>3, <2>4 DEF res
  <2>6. faults' \in Nat /\ (faults' = 0 => faults = 0)
    BY <1>2, <2>3
  <2>7. UNCHANGED <<up, disk, tmp>>
    BY <1>3 DEF Serve
  <2> QED BY <2>1, <2>5, <2>6, <2>7
<1>4. CASE ScanEnds(p)
  <2>1. c.pc = "scan"
    BY <1>4 DEF ScanEnds, At
  <2>2. c.lookup /\ t \in Text
    BY <1>1, <2>1 DEF CallInv
  <2>3. PICK eng \in EngineResult : EngineReturns(eng) /\ Finish(p, AutoMiss(s, t, eng))
    BY <1>4 DEF ScanEnds
  <2> DEFINE res == AutoMiss(s, t, eng)
  <2>4. Outcome(s, res, t)
    BY <1>1, <2>2, MissKeeps
  <2> HIDE DEF res
  <2>5. \E r : Finish(p, r) /\ Outcome(s, r, t) /\ (~c.lookup => Thrifty(r))
    BY <2>2, <2>3, <2>4 DEF res
  <2>6. faults' \in Nat /\ (faults' = 0 => faults = 0)
    BY <1>2, <2>3
  <2>7. UNCHANGED <<up, disk, tmp>>
    BY <1>4 DEF ScanEnds
  <2> QED BY <2>1, <2>5, <2>6, <2>7
<1>5. CASE ScanHits(p)
  <2>1. c.pc = "scan"
    BY <1>5 DEF ScanHits, At
  <2>2. c.lookup /\ t \in Text
    BY <1>1, <2>1 DEF CallInv
  <2>3. n \in DOMAIN s.entries /\ Resident(s, n) /\ IsPrefix(s.entries[n].text, t)
    BY <1>5 DEF ScanHits
  <2>4. PICK eng \in EngineResult : EngineReturns(eng) /\ Finish(p, AutoAnswer(s, n, t, eng))
    BY <1>5 DEF ScanHits
  <2> DEFINE res == AutoAnswer(s, n, t, eng)
  <2>5. Outcome(s, res, t)
    BY <1>1, <2>2, <2>3, AutoKeeps
  <2> HIDE DEF res
  <2>6. \E r : Finish(p, r) /\ Outcome(s, r, t) /\ (~c.lookup => Thrifty(r))
    BY <2>2, <2>4, <2>5 DEF res
  <2>7. faults' \in Nat /\ (faults' = 0 => faults = 0)
    BY <1>2, <2>4
  <2>8. UNCHANGED <<up, disk, tmp>>
    BY <1>5 DEF ScanHits
  <2> QED BY <2>1, <2>6, <2>7, <2>8
<1> QED BY <1>3, <1>4, <1>5

\* resident: the record is read and its binding is next, or the entry is
\* resident or gone.
LEMMA RecoveryDone ==
    ASSUME Inv, NEW p \in Process, ReadRecord(p) \/ ReadBinding(p)
    PROVE  LET n == call[p].name
               raw == IF call[p].pc = "record" THEN disk.rec[n] ELSE call[p].raw
           IN
           /\ call[p].pc \in {"record", "binding"}
           /\ faults' \in Nat /\ (faults' = 0 => faults = 0)
           /\ UNCHANGED <<up, disk, tmp>>
           /\ \/ /\ call[p].pc = "record" /\ raw \in RecType
                 /\ call' = [call EXCEPT ![p] = [@ EXCEPT !.pc = "binding", !.raw = raw]]
                 /\ mem' = mem
              \/ \E s, recovered :
                    /\ Resume(p, s, recovered)
                    /\ StoreInv(s, {})
                    /\ n \in DOMAIN s.entries => Resident(s, n)
                    /\ \/ Fewer(mem[p], s)
                       \/ /\ DOMAIN s.entries = DOMAIN mem[p].entries
                          /\ \A m \in DOMAIN s.entries \ {n} : s.index[m] = mem[p].index[m]
                          /\ s.index[n] = Row(Last(raw.lineage))
<1> DEFINE s == mem[p]
           c == call[p]
           n == c.name
           raw == IF c.pc = "record" THEN disk.rec[n] ELSE c.raw
           Gained(u) == /\ DOMAIN u.entries = DOMAIN s.entries
                        /\ \A m \in DOMAIN u.entries \ {n} : u.index[m] = s.index[m]
                        /\ u.index[n] = Row(Last(raw.lineage))
           Good(u) == /\ StoreInv(u, {})
                      /\ n \in DOMAIN u.entries => Resident(u, n)
                      /\ Fewer(s, u) \/ Gained(u)
<1>1. StoreInv(s, {}) /\ CallInv(s, c) /\ faults \in Nat /\ disk \in DiskType
  BY DEF Inv, ProcessInv, DiskInv
<1>2. ASSUME NEW eng, EngineReturns(eng)
      PROVE  faults' \in Nat /\ (faults' = 0 => faults = 0)
  BY <1>1, <1>2 DEF EngineReturns
<1>3. c.pc \in {"record", "binding"} /\ UNCHANGED <<up, disk, tmp>>
  BY DEF ReadRecord, ReadBinding, At
<1>4. n \in DOMAIN s.entries /\ ~Resident(s, n) /\ n \in Name
  BY <1>1, <1>3 DEF CallInv, StoreInv, Shape
<1>5. Good(DropEntries(s, {n}))
  <2> DEFINE u == DropEntries(s, {n})
  <2>1. /\ StoreInv(u, {})
        /\ DOMAIN u.entries = DOMAIN s.entries \ {n}
        /\ \A m \in DOMAIN u.entries : u.index[m] = s.index[m]
    BY <1>1, DropKeeps
  <2> HIDE DEF u
  <2>2. Good(u)
    BY <2>1 DEF Fewer
  <2> QED BY <2>2 DEF u
<1>6. ASSUME NEW t \in Text, raw \in RecType, Last(raw.lineage) = t
      PROVE  Good(Recovered(s, n, raw, t))
  <2> DEFINE u == Recovered(s, n, raw, t)
  <2> HIDE DEF raw, n, s
  <2>1. /\ StoreInv(u, {})
        /\ DOMAIN u.entries = DOMAIN s.entries
        /\ u.index[n] = Row(t)
        /\ \A m \in DOMAIN s.entries \ {n} : u.index[m] = s.index[m]
        /\ Resident(u, n)
    BY <1>1, <1>4, <1>6, RecoveredKeeps
  <2> HIDE DEF u
  <2>2. Good(u)
    BY <2>1, <1>6
  <2> QED BY <2>2 DEF u
<1> DEFINE Recovers == \E u, recovered : Resume(p, u, recovered) /\ Good(u)
           Reads == /\ c.pc = "record" /\ raw \in RecType
                    /\ call' = [call EXCEPT ![p] = [@ EXCEPT !.pc = "binding", !.raw = raw]]
                    /\ mem' = mem
<1>7. CASE ReadRecord(p)
  <2>1. c.pc = "record" /\ raw = disk.rec[n]
    BY <1>7 DEF ReadRecord, At
  <2>2. raw # None => raw \in RecType
    BY <2>1, <1>1, <1>4 DEF DiskType
  <2>3. CASE raw # None /\ raw.sealed
    <3>1. /\ call' = [call EXCEPT ![p] = [@ EXCEPT !.pc = "binding", !.raw = raw]]
          /\ UNCHANGED <<mem, faults>>
      BY <1>7, <2>1, <2>3 DEF ReadRecord
    <3>2. Reads
      BY <3>1, <2>1, <2>2, <2>3
    <3> QED BY <3>1, <3>2, <1>1, <1>3
  <2>4. CASE ~(raw # None /\ raw.sealed)
    <3>1. PICK eng \in EngineResult :
            /\ EngineReturns(eng)
            /\ IF raw # None /\ eng.put
               THEN Resume(p, Recovered(s, n, raw, Last(raw.lineage)), TRUE)
               ELSE Resume(p, DropEntries(s, {n}), FALSE)
      BY <1>7, <2>1, <2>4 DEF ReadRecord
    <3>2. CASE raw # None /\ eng.put
      <4>1. Resume(p, Recovered(s, n, raw, Last(raw.lineage)), TRUE)
        BY <3>1, <3>2
      <4>2. Last(raw.lineage) \in Text
        BY <2>2, <3>2, LastOfLineage DEF RecType
      <4>3. Good(Recovered(s, n, raw, Last(raw.lineage)))
        BY <4>2, <2>2, <3>2, <1>6
      <4> HIDE DEF Good, raw
      <4>4. Recovers
        BY <4>1, <4>3
      <4>5. faults' \in Nat /\ (faults' = 0 => faults = 0)
        BY <1>2, <3>1
      <4> QED BY <4>4, <4>5, <1>3 DEF Good, raw
    <3>3. CASE ~(raw # None /\ eng.put)
      <4>1. Resume(p, DropEntries(s, {n}), FALSE)
        BY <3>1, <3>3
      <4> HIDE DEF Good, raw
      <4>2. Recovers
        BY <4>1, <1>5
      <4>3. faults' \in Nat /\ (faults' = 0 => faults = 0)
        BY <1>2, <3>1
      <4> QED BY <4>2, <4>3, <1>3 DEF Good, raw
    <3> QED BY <3>2, <3>3
  <2> QED BY <2>3, <2>4
<1>8. CASE ReadBinding(p)
  <2> DEFINE b == disk.bind[n]
             t == SubSeq(c.text, 1, b.row.len)
  <2>1. c.pc = "binding" /\ raw = c.raw
    BY <1>8 DEF ReadBinding, At
  <2>2. raw \in RecType
    BY <2>1, <1>1 DEF CallInv
  <2>3. PICK eng \in EngineResult :
            /\ EngineReturns(eng)
            /\ IF BindingHolds(raw, b, c.text) /\ eng.put
               THEN Resume(p, Recovered(s, n, raw, t), TRUE)
               ELSE Resume(p, DropEntries(s, {n}), FALSE)
    BY <1>8, <2>1 DEF ReadBinding
  <2>4. faults' \in Nat /\ (faults' = 0 => faults = 0)
    BY <1>2, <2>3
  <2>5. CASE BindingHolds(raw, b, c.text) /\ eng.put
    <3>1. Resume(p, Recovered(s, n, raw, t), TRUE)
      BY <2>3, <2>5
    <3>2. b \in BindType /\ b.hash = raw.lineage /\ b.text = t
      BY <2>5, <1>1, <1>4 DEF BindingHolds, DiskType
    <3>3. PICK l \in Lineage : b = BindingOf(l)
      BY <3>2 DEF BindType
    <3>4. l = raw.lineage /\ Last(l) = t /\ t \in Text
      <4>1. b.hash = l /\ b.text = Last(l)
        BY <3>3 DEF BindingOf
      <4>2. Last(l) \in Text
        BY LastOfLineage
      <4> HIDE DEF b, raw, t
      <4> QED BY <4>1, <4>2, <3>2
    <3>5. Good(Recovered(s, n, raw, t))
      BY <3>4, <2>2, <1>6
    <3> HIDE DEF Good, raw
    <3>6. Recovers
      BY <3>1, <3>5
    <3> QED BY <3>6, <2>4, <1>3 DEF Good, raw
  <2>6. CASE ~(BindingHolds(raw, b, c.text) /\ eng.put)
    <3>1. Resume(p, DropEntries(s, {n}), FALSE)
      BY <2>3, <2>6
    <3> HIDE DEF Good, raw
    <3>2. Recovers
      BY <3>1, <1>5
    <3> QED BY <3>2, <2>4, <1>3 DEF Good, raw
  <2> QED BY <2>5, <2>6
<1> QED BY <1>7, <1>8

\* resident keeps the invariant.
LEMMA RecoveryKeeps ==
    ASSUME Inv, NEW p \in Process, ReadRecord(p) \/ ReadBinding(p)
    PROVE  Inv'
<1> DEFINE s == mem[p]
           c == call[p]
           d == call'[p]
           n == c.name
           raw == IF c.pc = "record" THEN disk.rec[n] ELSE c.raw
<1>1. /\ c.pc \in {"record", "binding"}
      /\ faults' \in Nat
      /\ up' = up /\ disk' = disk
  BY RecoveryDone
<1>2. /\ CallInv(s, c) /\ CallShape(c) /\ StoreInv(s, {})
      /\ c.text \in Text /\ c.out = None /\ c.writes = <<>>
      /\ n \in DOMAIN s.entries /\ n \in Name /\ ~Resident(s, n)
  BY <1>1 DEF Inv, ProcessInv, CallInv, StoreInv, Shape
<1>3. DiskInv' /\ up' \in [Process -> BOOLEAN]
  BY <1>1 DEF Inv, DiskInv
<1>4. CASE /\ c.pc = "record" /\ raw \in RecType
           /\ call' = [call EXCEPT ![p] = [@ EXCEPT !.pc = "binding", !.raw = raw]]
           /\ mem' = mem
  <2>1. /\ d = [c EXCEPT !.pc = "binding", !.raw = raw] /\ DOMAIN call' = Process
        /\ \A q \in Process \ {p} : call'[q] = call[q]
    BY <1>4 DEF Inv
  <2>2. /\ DOMAIN d = DOMAIN c /\ d.pc = "binding" /\ d.raw = raw /\ d.name = n
        /\ d.lookup = c.lookup /\ d.text = c.text /\ d.writes = c.writes /\ d.out = c.out
    BY <1>2, <2>1 DEF CallShape
  <2> HIDE DEF d, c, raw, n, s
  <2>3. CallShape(d)
    BY <1>2, <2>2 DEF CallShape
  <2>4. CallInv(s, d) /\ BudgetInv(s, d)
    BY <1>2, <1>4, <2>2, <2>3 DEF CallInv, BudgetInv
  <2>5. ProcessInv(p)'
    BY <1>2, <1>4, <2>4 DEF ProcessInv, d, s
  <2>6. DOMAIN mem' = Process /\ \A q \in Process \ {p} : mem'[q] = mem[q]
    BY <1>4 DEF Inv
  <2> QED BY <1>1, <1>3, <2>1, <2>5, <2>6, OtherProcesses
<1>5. ASSUME NEW u, NEW recovered, Resume(p, u, recovered), StoreInv(u, {}),
             n \in DOMAIN u.entries => Resident(u, n)
      PROVE  Inv'
  <2>1. /\ mem'[p] = u /\ DOMAIN mem' = Process
        /\ \A q \in Process \ {p} : mem'[q] = mem[q]
        /\ DOMAIN call' = Process
        /\ \A q \in Process \ {p} : call'[q] = call[q]
    BY <1>5 DEF Inv, Resume
  <2>2. /\ DOMAIN d = DOMAIN c /\ d.pc = (IF c.lookup THEN "scan" ELSE "serve")
        /\ d.name = n /\ d.lookup = c.lookup /\ d.text = c.text
        /\ d.writes = c.writes /\ d.out = c.out
    BY <1>2, <1>5 DEF Inv, Resume, CallShape
  <2> HIDE DEF d, c, raw, n, s
  <2>3. CallShape(d)
    BY <1>2, <2>2 DEF CallShape
  <2>4. CallInv(u, d) /\ BudgetInv(u, d)
    BY <1>2, <1>5, <2>2, <2>3 DEF CallInv, BudgetInv
  <2>5. ProcessInv(p)'
    BY <1>5, <2>1, <2>4 DEF ProcessInv, d
  <2> QED BY <1>1, <1>3, <2>1, <2>5, OtherProcesses
<1> HIDE DEF raw
<1>6. \/ /\ c.pc = "record" /\ raw \in RecType
         /\ call' = [call EXCEPT ![p] = [@ EXCEPT !.pc = "binding", !.raw = raw]]
         /\ mem' = mem
      \/ \E u, recovered : /\ Resume(p, u, recovered) /\ StoreInv(u, {})
                           /\ n \in DOMAIN u.entries => Resident(u, n)
  <2>1. LET nn == call[p].name
            rr == IF call[p].pc = "record" THEN disk.rec[nn] ELSE call[p].raw
        IN  \/ /\ call[p].pc = "record" /\ rr \in RecType
               /\ call' = [call EXCEPT ![p] = [@ EXCEPT !.pc = "binding", !.raw = rr]]
               /\ mem' = mem
            \/ \E u, recovered : /\ Resume(p, u, recovered) /\ StoreInv(u, {})
                                 /\ nn \in DOMAIN u.entries => Resident(u, nn)
    BY RecoveryDone
  <2> QED BY <2>1 DEF raw
<1> QED BY <1>4, <1>5, <1>6

\* A call begins at home.
LEMMA BeginKeeps ==
    ASSUME Inv, NEW p \in Process,
           \/ \E id \in SessionId, t \in Text : EncodeSession(p, id, t)
           \/ \E t \in Text : EncodeAuto(p, t)
    PROVE  Inv'
<1> DEFINE s == mem[p]
           d == call'[p]
           Begun(c) == /\ CallShape(c) /\ c.writes = <<>> /\ c.out = None /\ c.text \in Text
                       /\ \/ /\ c.pc = "scan" /\ c.lookup
                          \/ /\ c.pc = "record" /\ ~c.lookup
                             /\ c.name \in DOMAIN s.entries /\ ~Resident(s, c.name)
                          \/ /\ c.pc = "serve" /\ ~c.lookup /\ c.name \in Name
                             /\ c.name \in DOMAIN s.entries => Resident(s, c.name)
<1>1. \E c : Begin(p, c) /\ Begun(c)
  <2>1. ASSUME NEW id \in SessionId, NEW t \in Text, EncodeSession(p, id, t)
        PROVE  \E c : Begin(p, c) /\ Begun(c)
    <3> DEFINE n == SName(id)
               absent == n \in DOMAIN s.entries /\ ~Resident(s, n)
               c == [NoCall EXCEPT !.pc = IF absent THEN "record" ELSE "serve",
                                   !.name = n, !.text = t]
    <3>1. Begin(p, c)
      BY <2>1 DEF EncodeSession
    <3>2. n \in Name
      BY DEF Name
    <3> HIDE DEF n
    <3>3. /\ DOMAIN c = {"pc", "lookup", "name", "text", "todo", "raw", "writes", "out"}
          /\ c.pc = (IF absent THEN "record" ELSE "serve") /\ c.name = n /\ c.text = t
          /\ c.lookup = FALSE /\ c.writes = <<>> /\ c.out = None
      BY DEF NoCall
    <3> HIDE DEF c
    <3>4. CallShape(c)
      BY <3>3, NoFiles DEF CallShape
    <3>5. Begun(c)
      BY <3>2, <3>3, <3>4
    <3> QED BY <3>1, <3>5
  <2>2. ASSUME NEW t \in Text, EncodeAuto(p, t)
        PROVE  \E c : Begin(p, c) /\ Begun(c)
    <3> DEFINE todo == Candidates(s, t)
               c == [NoCall EXCEPT !.pc = "scan", !.lookup = TRUE, !.text = t, !.todo = todo]
    <3>1. Begin(p, c)
      BY <2>2 DEF EncodeAuto
    <3> HIDE DEF todo
    <3>3. /\ DOMAIN c = {"pc", "lookup", "name", "text", "todo", "raw", "writes", "out"}
          /\ c.pc = "scan" /\ c.text = t
          /\ c.lookup = TRUE /\ c.writes = <<>> /\ c.out = None
      BY DEF NoCall
    <3> HIDE DEF c
    <3>4. CallShape(c)
      BY <3>3, NoFiles DEF CallShape
    <3>5. Begun(c)
      BY <3>3, <3>4
    <3> QED BY <3>1, <3>5
  <2> QED BY <2>1, <2>2
<1>2. PICK c : Begin(p, c) /\ Begun(c)
  BY <1>1
<1>3. /\ d = c /\ DOMAIN call' = Process
      /\ \A q \in Process \ {p} : call'[q] = call[q]
      /\ up' = up /\ mem' = mem /\ disk' = disk /\ faults' = faults
  BY <1>2 DEF Inv, Begin
<1>4. StoreInv(s, {})
  BY DEF Inv, ProcessInv
<1> HIDE DEF d, s
<1>5. CallInv(s, c) /\ BudgetInv(s, c)
  BY <1>2 DEF CallInv, BudgetInv
<1>6. ProcessInv(p)'
  BY <1>3, <1>4, <1>5 DEF ProcessInv, d, s
<1>7. DiskInv'
  BY <1>3 DEF Inv, DiskInv
<1>8. /\ up' \in [Process -> BOOLEAN] /\ DOMAIN mem' = Process /\ faults' \in Nat
      /\ \A q \in Process \ {p} : mem'[q] = mem[q]
  BY <1>3 DEF Inv
<1> QED BY <1>3, <1>6, <1>7, <1>8, OtherProcesses

\* The next candidate is only looked at: the index names the entries, so no
\* row goes.
LEMMA ScanNextKeeps ==
    ASSUME Inv, NEW p \in Process, ScanNext(p)
    PROVE  /\ Inv'
           /\ mem'[p].entries = mem[p].entries /\ mem'[p].index = mem[p].index
<1> DEFINE s == mem[p]
           u == mem'[p]
           c == call[p]
           d == call'[p]
           n == Head(c.todo)
           absent == n \in DOMAIN s.entries /\ ~Resident(s, n)
           x == IF n \in DOMAIN s.entries THEN s.index ELSE Without(s.index, {n})
<1>1. StoreInv(s, {}) /\ CallInv(s, c) /\ CallShape(c)
  BY DEF Inv, ProcessInv, CallInv
<1>2. c.pc = "scan" /\ c.lookup /\ c.text \in Text /\ c.out = None /\ c.writes = <<>>
  BY <1>1 DEF ScanNext, At, CallInv
<1>3. /\ mem' = [mem EXCEPT ![p].index = x]
      /\ call' = [call EXCEPT ![p] = [@ EXCEPT !.pc = IF absent THEN "record" ELSE "scan",
                                               !.name = n, !.todo = Tail(call[p].todo)]]
      /\ up' = up /\ disk' = disk /\ faults' = faults
  BY DEF ScanNext
<1>4. x = s.index
  <2>1. s.index \in [DOMAIN s.entries -> RowType]
    BY <1>1 DEF StoreInv, Shape
  <2>2. CASE n \notin DOMAIN s.entries
    <3>1. DOMAIN s.index \ {n} = DOMAIN s.index
      BY <2>1, <2>2
    <3>2. [m \in DOMAIN s.index |-> s.index[m]] = s.index
      BY <2>1
    <3> QED BY <2>2, <3>1, <3>2 DEF Without
  <2> QED BY <2>2
<1> HIDE DEF x
<1>5. /\ u = [s EXCEPT !.index = x] /\ DOMAIN mem' = Process
      /\ \A q \in Process \ {p} : mem'[q] = mem[q]
      /\ d = [c EXCEPT !.pc = IF absent THEN "record" ELSE "scan", !.name = n,
                       !.todo = Tail(c.todo)]
      /\ DOMAIN call' = Process
      /\ \A q \in Process \ {p} : call'[q] = call[q]
  BY <1>3 DEF Inv
<1>6. /\ DOMAIN u = DOMAIN s /\ u.entries = s.entries /\ u.index = s.index
      /\ u.lru = s.lru /\ u.sessions = s.sessions /\ u.recent = s.recent
  BY <1>1, <1>4, <1>5 DEF StoreInv, Shape
<1>7. /\ DOMAIN d = DOMAIN c /\ d.pc = (IF absent THEN "record" ELSE "scan") /\ d.name = n
      /\ d.lookup = c.lookup /\ d.text = c.text /\ d.writes = c.writes /\ d.out = c.out
  BY <1>1, <1>5 DEF CallShape
<1> HIDE DEF d, c, u, s, n
<1>8. StoreInv(u, {})
  <2>1. Shape(u) /\ Listed(u)
    BY <1>1, <1>6 DEF StoreInv, Shape, Listed
  <2>2. \A m \in DOMAIN u.entries : EntryExact(u, m)
    BY <1>1, <1>6 DEF StoreInv, EntryExact, Live, SessionText
  <2>3. Owned(u, {})
    BY <1>1, <1>6 DEF StoreInv, Owned, Held
  <2> QED BY <2>1, <2>2, <2>3 DEF StoreInv
<1>9. CallShape(d)
  BY <1>1, <1>7 DEF CallShape
<1>10. CallInv(u, d) /\ BudgetInv(u, d)
  BY <1>2, <1>6, <1>7, <1>9 DEF CallInv, BudgetInv, Resident
<1>11. ProcessInv(p)' /\ DiskInv'
  BY <1>3, <1>8, <1>10 DEF Inv, ProcessInv, DiskInv, u, d
<1>12. up' \in [Process -> BOOLEAN] /\ faults' \in Nat
  BY <1>3 DEF Inv
<1>13. Inv'
  BY <1>5, <1>11, <1>12, OtherProcesses
<1> QED BY <1>6, <1>13 DEF u, s

\* The only file of an open without metadata, or with a lost index.
LEMMA OneFile ==
    /\ Pending(<<Write("meta", None, TRUE)>>)
    /\ \A x \in IndexType : Pending(<<Write("index", None, x)>>)
<1>1. ASSUME NEW w \in WriteType, ~IsRecord(w)
      PROVE  Pending(<<w>>)
  <2>1. <<w>> \in Seq(WriteType) /\ Len(<<w>>) = 1 /\ <<w>>[1] = w
    OBVIOUS
  <2> QED BY <1>1, <2>1 DEF Pending
<1>2. Write("meta", None, TRUE) \in WriteType /\ ~IsRecord(Write("meta", None, TRUE))
  BY DEF Write, WriteType, IsRecord
<1>3. \A x \in IndexType : /\ Write("index", None, x) \in WriteType
                           /\ ~IsRecord(Write("index", None, x))
  BY DEF Write, WriteType, IsRecord
<1> QED BY <1>1, <1>2, <1>3

\* open starts a call of its own.
LEMMA OpenKeeps ==
    ASSUME Inv, NEW p \in Process, Open(p)
    PROVE  Inv'
<1> DEFINE s == mem[p]
           d == call'[p]
           meta == <<Write("meta", None, TRUE)>>
<1>1. /\ up' = up /\ mem' = mem /\ disk' = disk /\ faults' \in Nat
      /\ call' = [call EXCEPT ![p] =
            IF ~Persistent \/ disk.meta THEN [NoCall EXCEPT !.pc = "load"]
            ELSE [NoCall EXCEPT !.pc = "files", !.writes = meta]]
  BY DEF Inv, Open
<1>2. /\ d = IF ~Persistent \/ disk.meta THEN [NoCall EXCEPT !.pc = "load"]
             ELSE [NoCall EXCEPT !.pc = "files", !.writes = meta]
      /\ DOMAIN call' = Process
      /\ \A q \in Process \ {p} : call'[q] = call[q]
  BY <1>1 DEF Inv
<1>3. Pending(meta) /\ meta # <<>>
  BY OneFile
<1> HIDE DEF meta
<1>4. /\ DOMAIN d = {"pc", "lookup", "name", "text", "todo", "raw", "writes", "out"}
      /\ d.lookup = FALSE /\ d.out = None
      /\ \/ d.pc = "load" /\ d.writes = <<>>
         \/ d.pc = "files" /\ d.writes = meta
  BY <1>2 DEF NoCall
<1> HIDE DEF d, s
<1>5. CallShape(d)
  BY <1>3, <1>4, NoFiles DEF CallShape
<1>6. CallInv(s, d) /\ BudgetInv(s, d)
  BY <1>3, <1>4, <1>5 DEF CallInv, BudgetInv
<1>7. ProcessInv(p)' /\ DiskInv'
  BY <1>1, <1>6 DEF Inv, ProcessInv, DiskInv, d, s
<1>8. /\ up' \in [Process -> BOOLEAN] /\ DOMAIN mem' = Process
      /\ \A q \in Process \ {p} : mem'[q] = mem[q]
  BY <1>1 DEF Inv
<1> QED BY <1>1, <1>2, <1>7, <1>8, OtherProcesses

\* load_or_rebuild_index opens a store over an index, its own or a rebuilt one.
LEMMA LoadDone ==
    ASSUME Inv, NEW p \in Process, Load(p)
    PROVE  LET index == IF ~Persistent THEN <<>>
                        ELSE IF disk.index # None THEN disk.index ELSE RebuildIndex(disk)
               lost == Persistent /\ disk.index = None
           IN
           /\ call[p].pc = "load"
           /\ index \in IndexType
           /\ up' = [up EXCEPT ![p] = TRUE]
           /\ mem' = [mem EXCEPT ![p] = Opened(index)]
           /\ call' = [call EXCEPT ![p] =
                IF lost THEN [@ EXCEPT !.pc = "files",
                                       !.writes = <<Write("index", None, index)>>]
                ELSE [@ EXCEPT !.pc = "idle"]]
           /\ UNCHANGED <<disk, tmp, faults>>
<1> DEFINE index == IF ~Persistent THEN <<>>
                    ELSE IF disk.index # None THEN disk.index ELSE RebuildIndex(disk)
           lost == Persistent /\ disk.index = None
           cold(n) == [text |-> None, handle |-> None, rev |-> 0, row |-> index[n]]
           s == [EmptyStore EXCEPT
                    !.index = index, !.entries = [n \in DOMAIN index |-> cold(n)],
                    !.lru = InOrder(DOMAIN index)]
<1>1. disk \in DiskType /\ IsFiniteSet({n \in Name : disk.rec[n] # None})
  BY DEF Inv, DiskInv
<1>2. <<>> \in IndexType
  <2>1. {} \in {E \in SUBSET Name : IsFiniteSet(E)} /\ <<>> \in [{} -> RowType]
    BY FS_EmptySet
  <2> QED BY <2>1 DEF IndexType
<1>3. disk.index # None => disk.index \in IndexType
  BY <1>1 DEF DiskType
<1>4. RebuildIndex(disk) \in IndexType
  BY <1>1, RebuiltIndex
<1>5. index \in IndexType
  BY <1>2, <1>3, <1>4
<1>6. s = Opened(index)
  BY DEF Opened
<1>7. IndexWrite(Opened(index)) = Write("index", None, index)
  <2> HIDE DEF index
  <2> QED BY <1>5, OpenedKeeps DEF IndexWrite
<1>8. /\ At(p, "load")
      /\ up' = [up EXCEPT ![p] = TRUE]
      /\ mem' = [mem EXCEPT ![p] = s]
      /\ call' = [call EXCEPT ![p] =
            IF lost THEN [@ EXCEPT !.pc = "files", !.writes = <<IndexWrite(s)>>]
            ELSE [@ EXCEPT !.pc = "idle"]]
      /\ UNCHANGED <<disk, tmp, faults>>
  BY DEF Load
<1> HIDE DEF index, s
<1>9. <<IndexWrite(s)>> = <<Write("index", None, index)>>
  BY <1>6, <1>7
<1> QED BY <1>5, <1>6, <1>8, <1>9 DEF At, index

LEMMA LoadKeeps ==
    ASSUME Inv, NEW p \in Process, Load(p)
    PROVE  Inv'
<1> DEFINE c == call[p]
           d == call'[p]
           index == IF ~Persistent THEN <<>>
                    ELSE IF disk.index # None THEN disk.index ELSE RebuildIndex(disk)
           lost == Persistent /\ disk.index = None
           u == Opened(index)
           ws == <<Write("index", None, index)>>
<1>1. /\ c.pc = "load" /\ index \in IndexType
      /\ up' = [up EXCEPT ![p] = TRUE]
      /\ mem' = [mem EXCEPT ![p] = u]
      /\ call' = [call EXCEPT ![p] = IF lost THEN [@ EXCEPT !.pc = "files", !.writes = ws]
                                     ELSE [@ EXCEPT !.pc = "idle"]]
      /\ disk' = disk /\ faults' = faults
  BY LoadDone
<1> HIDE DEF index
<1>2. StoreInv(u, {}) /\ ResidentBytes(u) = 0 /\ 0 <= Budget
  BY <1>1, OpenedKeeps, EntryAssumption
<1>3. Pending(ws) /\ ws # <<>>
  BY <1>1, OneFile
<1> HIDE DEF u, ws, lost
<1>4. CallShape(c) /\ c.writes = <<>>
  BY <1>1 DEF Inv, ProcessInv, CallInv
<1>5. /\ d = IF lost THEN [c EXCEPT !.pc = "files", !.writes = ws] ELSE [c EXCEPT !.pc = "idle"]
      /\ DOMAIN call' = Process
      /\ \A q \in Process \ {p} : call'[q] = call[q]
      /\ mem'[p] = u /\ DOMAIN mem' = Process
      /\ \A q \in Process \ {p} : mem'[q] = mem[q]
      /\ up' \in [Process -> BOOLEAN] /\ faults' \in Nat
  BY <1>1 DEF Inv
<1>6. /\ DOMAIN d = DOMAIN c /\ d.lookup = c.lookup /\ d.text = c.text /\ d.out = c.out
      /\ \/ d.pc = "files" /\ d.writes = ws
         \/ d.pc = "idle" /\ d.writes = c.writes
  BY <1>4, <1>5 DEF CallShape
<1> HIDE DEF c, d
<1>7. CallShape(d)
  BY <1>3, <1>4, <1>6 DEF CallShape
<1>8. CallInv(u, d) /\ BudgetInv(u, d)
  BY <1>2, <1>3, <1>4, <1>6, <1>7 DEF CallInv, BudgetInv
<1>9. ProcessInv(p)' /\ DiskInv'
  BY <1>1, <1>2, <1>5, <1>8 DEF Inv, ProcessInv, DiskInv, d
<1> QED BY <1>5, <1>9, OtherProcesses

\* After a file: the rest of the files, the load of an open, or home.
LEMMA NextFileKeeps ==
    ASSUME Inv, NEW p \in Process, NEW rest, Pending(rest), NextFile(p, rest),
           call[p].pc \in {"files", "rename"},
           up' = up, mem' = mem, faults' \in Nat, DiskInv'
    PROVE  Inv'
<1> DEFINE s == mem[p]
           c == call[p]
           d == call'[p]
<1>1. /\ d = [c EXCEPT !.writes = rest,
                       !.pc = IF rest # <<>> THEN "files" ELSE IF up[p] THEN "idle" ELSE "load"]
      /\ DOMAIN call' = Process
      /\ \A q \in Process \ {p} : call'[q] = call[q]
  BY DEF Inv, NextFile
<1>2. CallInv(s, c) /\ CallShape(c) /\ BudgetInv(s, c) /\ StoreInv(s, {})
  BY DEF Inv, ProcessInv, CallInv
<1>3. /\ DOMAIN d = DOMAIN c /\ d.lookup = c.lookup /\ d.text = c.text /\ d.out = c.out
      /\ d.writes = rest
      /\ d.pc = IF rest # <<>> THEN "files" ELSE IF up[p] THEN "idle" ELSE "load"
  BY <1>1, <1>2 DEF CallShape
<1> HIDE DEF c, d, s
<1>4. CallShape(d)
  BY <1>2, <1>3 DEF CallShape
<1>5. CallInv(s, d)
  BY <1>3, <1>4 DEF CallInv
<1>6. BudgetInv(s, d)
  BY <1>2, <1>3 DEF BudgetInv
<1>7. ProcessInv(p)'
  BY <1>2, <1>5, <1>6 DEF ProcessInv, s, d
<1>8. /\ up' \in [Process -> BOOLEAN] /\ DOMAIN mem' = Process
      /\ \A q \in Process \ {p} : mem'[q] = mem[q]
  BY DEF Inv
<1> QED BY <1>1, <1>7, <1>8, OtherProcesses

\* RemoveFile and Rename: one file of the list reaches the directory.
LEMMA FileDone ==
    ASSUME Inv, NEW p \in Process, RemoveFile(p) \/ Rename(p)
    PROVE  /\ call[p].pc \in {"files", "rename"} /\ call[p].writes # <<>>
           /\ Pending(call[p].writes)
           /\ disk' = Stored(disk, FileOf(p), FileOf(p).val)
           /\ NextFile(p, Tail(call[p].writes))
           /\ tmp' = IF call[p].pc = "rename" THEN tmp \ {TmpOf(p)} ELSE tmp
           /\ UNCHANGED <<up, mem, faults>>
<1> DEFINE c == call[p]
<1>1. CallInv(mem[p], c) /\ CallShape(c)
  BY DEF Inv, ProcessInv, CallInv
<1>2. c.pc \in {"files", "rename"} /\ c.writes # <<>> /\ Pending(c.writes)
  BY <1>1 DEF RemoveFile, Rename, At, CallInv, CallShape
<1>3. FileOf(p) \in WriteType
  BY <1>2, PendingTail DEF FileOf
<1>4. CASE RemoveFile(p)
  <2>1. c.pc = "files" /\ FileOf(p).op = "remove"
    BY <1>4 DEF RemoveFile, At
  <2>2. FileOf(p).val = None
    BY <1>3, <2>1 DEF WriteType
  <2> QED BY <1>2, <1>4, <2>1, <2>2 DEF RemoveFile
<1>5. CASE Rename(p)
  BY <1>2, <1>5 DEF Rename, At
<1> QED BY <1>4, <1>5

LEMMA FileKeeps ==
    ASSUME Inv, NEW p \in Process, RemoveFile(p) \/ Rename(p)
    PROVE  Inv'
<1> DEFINE ws == call[p].writes
<1>1. /\ call[p].pc \in {"files", "rename"} /\ ws # <<>> /\ Pending(ws)
      /\ disk' = Stored(disk, FileOf(p), FileOf(p).val)
      /\ NextFile(p, Tail(ws))
      /\ UNCHANGED <<up, mem, faults>>
  BY FileDone
<1>2. FileOf(p) \in WriteType /\ Pending(Tail(ws))
  BY <1>1, PendingTail DEF FileOf
<1>3. disk' \in DiskType /\ IsFiniteSet({n \in Name : disk'.rec[n] # None})
  BY <1>1, <1>2, StoredKeeps DEF Inv, DiskInv
<1>4. DiskInv'
  BY <1>3 DEF DiskInv
<1>5. up' = up /\ mem' = mem /\ faults' \in Nat
  BY <1>1 DEF Inv
<1> QED BY <1>1, <1>2, <1>4, <1>5, NextFileKeeps

\* A failed write leaves the rest of the files, less the binding of a record.
LEMMA WriteFailsKeeps ==
    ASSUME Inv, NEW p \in Process, WriteFails(p)
    PROVE  Inv'
<1> DEFINE s == mem[p]
           c == call[p]
           ws == c.writes
           rest == IF FileOf(p).kind = "rec" THEN Tail(Tail(ws)) ELSE Tail(ws)
<1>1. CallInv(s, c) /\ CallShape(c) /\ StoreInv(s, {})
  BY DEF Inv, ProcessInv, CallInv
<1>2. c.pc \in {"files", "rename"} /\ FileOf(p).op = "write" /\ ws # <<>> /\ Pending(ws)
  BY <1>1 DEF WriteFails, At, CallInv, CallShape, FileOf
<1>3. Pending(rest)
  <2>1. FileOf(p).kind = "rec" => IsRecord(Head(ws))
    BY <1>2 DEF IsRecord, FileOf
  <2> QED BY <1>2, <2>1, PendingTail
<1>4. up' = up /\ mem' = mem /\ faults' \in Nat /\ disk' = disk
  BY DEF Inv, WriteFails
<1>5. DiskInv'
  BY <1>4 DEF Inv, DiskInv
<1>6. CASE FileOf(p).kind # "meta"
  <2>1. NextFile(p, rest)
    BY <1>6 DEF WriteFails
  <2> HIDE DEF rest
  <2> QED BY <1>2, <1>3, <1>4, <1>5, <2>1, NextFileKeeps
<1>7. CASE FileOf(p).kind = "meta"
  <2>1. call' = [call EXCEPT ![p] = NoCall]
    BY <1>7 DEF WriteFails
  <2>2. /\ call'[p] = NoCall /\ DOMAIN call' = Process
        /\ \A q \in Process \ {p} : call'[q] = call[q]
    BY <2>1 DEF Inv
  <2>3. CallInv(s, NoCall) /\ BudgetInv(s, NoCall)
    <3>1. CallShape(NoCall)
      BY NoFiles DEF NoCall, CallShape
    <3> QED BY <3>1 DEF NoCall, CallInv, BudgetInv
  <2>4. ProcessInv(p)'
    BY <1>1, <1>4, <2>2, <2>3 DEF ProcessInv
  <2>5. /\ up' \in [Process -> BOOLEAN] /\ DOMAIN mem' = Process
        /\ \A q \in Process \ {p} : mem'[q] = mem[q]
    BY <1>4 DEF Inv
  <2> QED BY <1>4, <1>5, <2>2, <2>4, <2>5, OtherProcesses
<1> QED BY <1>6, <1>7

\* A temporary file only moves the call on.
LEMMA CreateTmpKeeps ==
    ASSUME Inv, NEW p \in Process, CreateTmp(p)
    PROVE  Inv'
<1> DEFINE s == mem[p]
           c == call[p]
           d == call'[p]
<1>1. /\ c.pc = "files" /\ Head(c.writes).op = "write"
      /\ call' = [call EXCEPT ![p].pc = "rename"]
      /\ up' = up /\ mem' = mem /\ disk' = disk /\ faults' = faults
  BY DEF CreateTmp, At, FileOf
<1>2. CallInv(s, c) /\ CallShape(c) /\ BudgetInv(s, c) /\ StoreInv(s, {})
  BY DEF Inv, ProcessInv, CallInv
<1>3. /\ d = [c EXCEPT !.pc = "rename"] /\ DOMAIN call' = Process
      /\ \A q \in Process \ {p} : call'[q] = call[q]
  BY <1>1 DEF Inv
<1>4. /\ DOMAIN d = DOMAIN c /\ d.lookup = c.lookup /\ d.text = c.text /\ d.out = c.out
      /\ d.writes = c.writes /\ d.pc = "rename"
  BY <1>2, <1>3 DEF CallShape
<1> HIDE DEF c, d, s
<1>5. CallShape(d)
  BY <1>2, <1>4 DEF CallShape
<1>6. CallInv(s, d) /\ BudgetInv(s, d)
  BY <1>1, <1>2, <1>4, <1>5 DEF CallInv, BudgetInv
<1>7. ProcessInv(p)' /\ DiskInv'
  BY <1>1, <1>2, <1>6 DEF Inv, ProcessInv, DiskInv, s, d
<1>8. /\ up' \in [Process -> BOOLEAN] /\ DOMAIN mem' = Process /\ faults' \in Nat
      /\ \A q \in Process \ {p} : mem'[q] = mem[q]
  BY <1>1 DEF Inv
<1> QED BY <1>3, <1>7, <1>8, OtherProcesses

\* What a process is before it opens.
LEMMA NothingYet ==
    /\ StoreInv(EmptyStore, {})
    /\ CallInv(EmptyStore, NoCall) /\ BudgetInv(EmptyStore, NoCall)
<1>1. /\ DOMAIN EmptyStore = {"entries", "lru", "index", "sessions", "recent"}
      /\ EmptyStore.entries = <<>> /\ EmptyStore.index = <<>> /\ EmptyStore.lru = <<>>
      /\ EmptyStore.sessions = <<>> /\ EmptyStore.recent = <<>>
  BY DEF EmptyStore
<1>2. /\ DOMAIN <<>> = {} /\ IsFiniteSet({}) /\ <<>> \in Seq(Nat) /\ <<>> \in Seq(Name)
      /\ ToSet(<<>>) = {} /\ IsInjective(<<>>)
  BY FS_EmptySet DEF ToSet, IsInjective
<1>3. <<>> \in [{} -> EntryType] /\ <<>> \in [{} -> RowType] /\ <<>> \in [{} -> Lineage]
  OBVIOUS
<1>4. Shape(EmptyStore) /\ Listed(EmptyStore)
  BY <1>1, <1>2, <1>3 DEF Shape, Listed
<1>5. StoreInv(EmptyStore, {})
  BY <1>1, <1>2, <1>4 DEF StoreInv, Owned
<1>6. CallShape(NoCall)
  BY NoFiles DEF NoCall, CallShape
<1>7. CallInv(EmptyStore, NoCall) /\ BudgetInv(EmptyStore, NoCall)
  BY <1>6 DEF NoCall, CallInv, BudgetInv
<1> QED BY <1>5, <1>7

\* A crash leaves the directory.
LEMMA CrashKeeps ==
    ASSUME Inv, NEW p \in Process, Crash(p)
    PROVE  Inv'
<1>1. /\ up' = [up EXCEPT ![p] = FALSE]
      /\ mem' = [mem EXCEPT ![p] = EmptyStore] /\ call' = [call EXCEPT ![p] = NoCall]
      /\ disk' = disk /\ faults' = faults + 1
  BY DEF Crash
<1>2. /\ mem'[p] = EmptyStore /\ DOMAIN mem' = Process
      /\ call'[p] = NoCall /\ DOMAIN call' = Process
      /\ \A q \in Process \ {p} : mem'[q] = mem[q] /\ call'[q] = call[q]
      /\ up' \in [Process -> BOOLEAN] /\ faults' \in Nat
  BY <1>1 DEF Inv
<1>3. ProcessInv(p)' /\ DiskInv'
  BY <1>1, <1>2, NothingYet DEF Inv, ProcessInv, DiskInv
<1> QED BY <1>2, <1>3, OtherProcesses

\* A lost file is one no process can count on.
LEMMA LoseFileKeeps ==
    ASSUME Inv, LoseFile
    PROVE  Inv'
<1> DEFINE recs(x) == {n \in Name : x.rec[n] # None}
<1>1. disk \in DiskType /\ IsFiniteSet(recs(disk))
  BY DEF Inv, DiskInv
<1>2. disk' \in DiskType /\ recs(disk') \in SUBSET recs(disk)
  <2>1. CASE disk' = [disk EXCEPT !.index = None]
    BY <2>1, <1>1 DEF DiskType
  <2>2. ASSUME NEW n \in Name, disk' = [disk EXCEPT !.rec[n] = None]
        PROVE  disk' \in DiskType /\ recs(disk') \in SUBSET recs(disk)
    BY <2>2, <1>1 DEF DiskType
  <2>3. ASSUME NEW n \in Name, disk' = [disk EXCEPT !.bind[n] = None]
        PROVE  disk' \in DiskType /\ recs(disk') \in SUBSET recs(disk)
    BY <2>3, <1>1 DEF DiskType
  <2> QED BY <2>1, <2>2, <2>3 DEF LoseFile
<1>3. DiskInv'
  BY <1>1, <1>2, FS_Subset DEF DiskInv
<1>4. up' = up /\ mem' = mem /\ call' = call /\ faults' \in Nat
  BY DEF LoseFile, Inv
<1> QED BY <1>3, <1>4 DEF Inv, ProcessInv

-----------------------------------------------------------------------------
(* Whatever crashes, loses a file or shares the directory. *)

LEMMA InitInv == Init => Inv
<1> SUFFICES ASSUME Init PROVE Inv
  OBVIOUS
<1>1. /\ up = [p \in Process |-> FALSE] /\ mem = [p \in Process |-> EmptyStore]
      /\ call = [p \in Process |-> NoCall] /\ disk = EmptyDisk /\ faults = 0
  BY DEF Init
<1>2. DiskInv
  <2>1. /\ disk.meta = FALSE /\ disk.index = None
        /\ disk.rec = [n \in Name |-> None] /\ disk.bind = [n \in Name |-> None]
        /\ disk \in DiskType
    BY <1>1 DEF EmptyDisk, DiskType
  <2>2. {n \in Name : disk.rec[n] # None} = {}
    BY <2>1
  <2> QED BY <2>1, <2>2, FS_EmptySet DEF DiskInv
<1>3. \A p \in Process : ProcessInv(p)
  BY <1>1, NothingYet DEF ProcessInv
<1> QED BY <1>1, <1>2, <1>3 DEF Inv

LEMMA NextInv == Inv /\ [Next]_vars => Inv'
<1> SUFFICES ASSUME Inv, [Next]_vars PROVE Inv'
  OBVIOUS
<1>1. CASE UNCHANGED vars
  BY <1>1 DEF vars, Inv, DiskInv, ProcessInv
<1>2. CASE LoseFile
  BY <1>2, LoseFileKeeps
<1>3. ASSUME NEW p \in Process, ProcessStep(p)
      PROVE  Inv'
  <2>1. CASE Open(p)
    BY <2>1, OpenKeeps
  <2>2. CASE Load(p)
    BY <2>2, LoadKeeps
  <2>3. CASE \E t \in Text : EncodeAuto(p, t) \/ \E id \in SessionId : EncodeSession(p, id, t)
    BY <2>3, BeginKeeps
  <2>4. CASE Serve(p) \/ ScanEnds(p) \/ ScanHits(p)
    <3>1. PICK res : /\ Finish(p, res)
                     /\ Outcome(mem[p], res, call[p].text)
                     /\ ~call[p].lookup => Thrifty(res)
      BY <2>4, WorkDone
    <3>2. /\ call[p].pc \in {"serve", "scan"}
          /\ up' = up /\ disk' = disk /\ faults' \in Nat
      BY <2>4, WorkDone
    <3>3. up' \in [Process -> BOOLEAN]
      BY <3>2 DEF Inv
    <3> QED BY <3>1, <3>2, <3>3, FinishKeeps
  <2>5. CASE ScanNext(p)
    BY <2>5, ScanNextKeeps
  <2>6. CASE ReadRecord(p) \/ ReadBinding(p)
    BY <2>6, RecoveryKeeps
  <2>7. CASE RemoveFile(p) \/ Rename(p)
    BY <2>7, FileKeeps
  <2>8. CASE CreateTmp(p)
    BY <2>8, CreateTmpKeeps
  <2>9. CASE WriteFails(p)
    BY <2>9, WriteFailsKeeps
  <2>10. CASE Crash(p)
    BY <2>10, CrashKeeps
  <2> QED BY <1>3, <2>1, <2>2, <2>3, <2>4, <2>5, <2>6, <2>7, <2>8, <2>9, <2>10 DEF ProcessStep
<1> QED BY <1>1, <1>2, <1>3 DEF Next

\* The entries, the sessions, the calls and the directory stay in order
\* through every crash, lost file and second process.
THEOREM StoreStaysSound == Spec => []Inv
BY InitInv, NextInv, PTL DEF Spec

\* A call that answers from the store answers with the ids of its text,
\* whatever was in the files.
THEOREM AnswersExact == Spec => []ServedExact
<1>1. Inv => ServedExact
  BY DEF Inv, ProcessInv, CallInv, CallShape, ServedExact
<1> QED BY <1>1, StoreStaysSound, PTL

\* Between calls, entries, lru and index agree, and each native session
\* belongs to one entry.
THEOREM NoSessionLeaks == Spec => []EntriesAccounted
<1>1. ASSUME Inv
      PROVE  EntriesAccounted
  <2> SUFFICES ASSUME NEW p \in Process
               PROVE  LET s == mem[p] IN
                      /\ DOMAIN s.entries = DOMAIN s.index
                      /\ ToSet(s.lru) = DOMAIN s.entries /\ IsInjective(s.lru)
                      /\ \A h \in DOMAIN s.sessions :
                            Cardinality({n \in DOMAIN s.entries : s.entries[n].handle = h}) = 1
                      /\ \A n \in DOMAIN s.entries :
                            LET e == s.entries[n] IN
                            /\ e.row = s.index[n]
                            /\ e.handle # None /\ Live(s, e.handle) =>
                                    /\ e.text = SessionText(s, e.handle)
                                    /\ e.rev = Len(s.sessions[e.handle]) - 1
    BY DEF EntriesAccounted
  <2> DEFINE s == mem[p]
  <2>1. StoreInv(s, {})
    BY <1>1 DEF Inv, ProcessInv
  <2> HIDE DEF s
  <2>2. DOMAIN s.entries = DOMAIN s.index /\ ToSet(s.lru) = DOMAIN s.entries /\ IsInjective(s.lru)
    BY <2>1 DEF StoreInv, Shape, Listed
  <2>3. ASSUME NEW h \in DOMAIN s.sessions
        PROVE  Cardinality({n \in DOMAIN s.entries : s.entries[n].handle = h}) = 1
    <3>1. h # None /\ h \in Held(s)
      BY <2>1, EntryAssumption DEF StoreInv, Shape, Owned
    <3>2. PICK n \in DOMAIN s.entries : s.entries[n].handle = h
      BY <3>1 DEF Held
    <3>3. {m \in DOMAIN s.entries : s.entries[m].handle = h} = {n}
      BY <2>1, <3>1, <3>2 DEF StoreInv, Owned
    <3> QED BY <3>3, FS_Singleton
  <2>4. \A n \in DOMAIN s.entries :
            /\ s.entries[n].row = s.index[n]
            /\ s.entries[n].handle # None /\ Live(s, s.entries[n].handle) =>
                    /\ s.entries[n].text = SessionText(s, s.entries[n].handle)
                    /\ s.entries[n].rev = Len(s.sessions[s.entries[n].handle]) - 1
    BY <2>1 DEF StoreInv, EntryExact
  <2> QED BY <2>2, <2>3, <2>4 DEF s
<1> QED BY <1>1, StoreStaysSound, PTL

\* A named call that answered leaves the residents within the budget.
THEOREM BudgetHolds == Spec => []BudgetRestored
<1>1. Inv => BudgetRestored
  BY DEF Inv, ProcessInv, BudgetInv, BudgetRestored
<1> QED BY <1>1, StoreStaysSound, PTL

-----------------------------------------------------------------------------
(* What a restart finds. *)

\* The last file of a list that sets a value is the one it leaves.
LEMMA FinalAt ==
    ASSUME NEW d, NEW ws \in Seq(WriteType), NEW kind, NEW n,
           NEW i \in Settings(ws, kind, n), \A j \in Settings(ws, kind, n) : j <= i
    PROVE  Final(d, ws, kind, n) = ws[i].val
<1> DEFINE at == Settings(ws, kind, n)
           last == CHOOSE k \in at : \A j \in at : j <= k
<1>1. at \subseteq Int
  BY LenProperties DEF Settings
<1>2. last \in at /\ \A j \in at : j <= last
  OBVIOUS
<1>3. last = i
  <2> HIDE DEF at, last
  <2> QED BY <1>1, <1>2 DEF at
<1>4. Final(d, ws, kind, n) = ws[last].val
  BY DEF Final
<1> QED BY <1>3, <1>4

\* A list that sets a value sets it last somewhere.
LEMMA LastSetting ==
    ASSUME NEW ws \in Seq(WriteType), NEW kind, NEW n, Settings(ws, kind, n) # {}
    PROVE  \E i \in Settings(ws, kind, n) : \A j \in Settings(ws, kind, n) : j <= i
<1> DEFINE at == Settings(ws, kind, n)
           len == Len(ws)
           S == {k \in Nat : k <= len /\ len - k \in at}
<1>1. len \in Nat /\ at \subseteq 1..len
  BY LenProperties DEF Settings
<1> HIDE DEF at, len
<1>2. S \in SUBSET Nat /\ S # {}
  <2>1. PICK i \in at : TRUE
    BY DEF at
  <2>2. len - i \in Nat /\ len - i <= len /\ len - (len - i) = i
    BY <1>1
  <2>3. len - i \in S
    BY <2>1, <2>2
  <2> QED BY <2>3
<1>3. PICK m \in S : \A k \in S : m <= k
  <2> HIDE DEF S
  <2> QED BY <1>2, NatLeast
<1>4. ASSUME NEW j \in at
      PROVE  j <= len - m
  <2>1. len - j \in Nat /\ len - j <= len /\ len - (len - j) = j
    BY <1>1
  <2>2. m <= len - j
    BY <1>3, <2>1
  <2> QED BY <1>1, <1>3, <2>2
<1>5. len - m \in at
  BY <1>3
<1> QED BY <1>4, <1>5 DEF at

\* Nothing to write leaves what is there.
LEMMA FinalNone ==
    ASSUME NEW d, NEW kind, NEW n
    PROVE  Final(d, <<>>, kind, n) = FileValue(d, kind, n)
<1>1. Settings(<<>>, kind, n) = {}
  BY DEF Settings
<1> QED BY <1>1 DEF Final

\* A file of a directory: a record, a binding or the index.
IsFile(kind, n) ==
    \/ kind \in {"rec", "bind"} /\ n \in Name
    \/ kind = "index" /\ n = None

\* A file that reaches the directory is what was to be its last value, or is
\* set again by the files after it.
LEMMA FinalStep ==
    ASSUME NEW d \in DiskType, NEW ws \in Seq(WriteType), ws # <<>>,
           NEW kind, NEW n, IsFile(kind, n)
    PROVE  Final(Stored(d, Head(ws), Head(ws).val), Tail(ws), kind, n) = Final(d, ws, kind, n)
<1> DEFINE w == Head(ws)
           e == Stored(d, w, w.val)
           r == Tail(ws)
           here == w.kind = kind /\ w.name = n
           len == Len(ws)
<1>1. /\ w = ws[1] /\ w \in WriteType /\ r \in Seq(WriteType)
      /\ Len(r) = len - 1 /\ len \in Nat \ {0}
      /\ \A i \in 1..Len(r) : r[i] = ws[i + 1]
  BY HeadTailProperties, LenProperties, EmptySeq
<1>2. FileValue(e, kind, n) = IF here THEN w.val ELSE FileValue(d, kind, n)
  <2>1. CASE w.kind = "meta"
    <3>1. e = [d EXCEPT !.meta = w.val]
      BY <2>1 DEF Stored
    <3>2. e.rec = d.rec /\ e.bind = d.bind /\ e.index = d.index
      BY <3>1 DEF DiskType
    <3> QED BY <2>1, <3>2 DEF FileValue, IsFile
  <2>2. CASE w.kind = "index"
    <3>1. e = [d EXCEPT !.index = w.val] /\ w.name = None
      BY <1>1, <2>2 DEF Stored, WriteType
    <3>2. e.rec = d.rec /\ e.bind = d.bind /\ e.index = w.val
      BY <3>1 DEF DiskType
    <3> QED BY <2>2, <3>1, <3>2 DEF FileValue, IsFile
  <2>3. CASE w.kind = "rec"
    <3>1. e = [d EXCEPT !.rec[w.name] = w.val] /\ w.name \in Name
      BY <1>1, <2>3 DEF Stored, WriteType
    <3>2. /\ e.bind = d.bind /\ e.index = d.index
          /\ \A m \in Name : e.rec[m] = IF m = w.name THEN w.val ELSE d.rec[m]
      BY <3>1 DEF DiskType
    <3> QED BY <2>3, <3>2 DEF FileValue, IsFile
  <2>4. CASE w.kind = "bind"
    <3>1. e = [d EXCEPT !.bind[w.name] = w.val] /\ w.name \in Name
      BY <1>1, <2>4 DEF Stored, WriteType
    <3>2. /\ e.rec = d.rec /\ e.index = d.index
          /\ \A m \in Name : e.bind[m] = IF m = w.name THEN w.val ELSE d.bind[m]
      BY <3>1 DEF DiskType
    <3> QED BY <2>4, <3>2 DEF FileValue, IsFile
  <2>5. w.kind \in {"meta", "index", "rec", "bind"}
    BY <1>1 DEF WriteType
  <2> QED BY <2>1, <2>2, <2>3, <2>4, <2>5
<1> HIDE DEF w, e, r, len
<1>3. \A i \in Settings(r, kind, n) : i + 1 \in Settings(ws, kind, n)
  BY <1>1 DEF Settings, len
<1>4. \A i \in Settings(ws, kind, n) :
            (i = 1 /\ here) \/ (i - 1 \in Settings(r, kind, n) /\ (i - 1) + 1 = i)
  <2> TAKE i \in Settings(ws, kind, n)
  <2>1. i \in 1..len /\ ws[i].kind = kind /\ ws[i].name = n
    BY DEF Settings, len
  <2>2. CASE i = 1
    BY <2>1, <2>2, <1>1
  <2>3. CASE i # 1
    <3>1. i - 1 \in 1..Len(r) /\ (i - 1) + 1 = i
      BY <2>1, <2>3, <1>1
    <3> QED BY <3>1, <2>1, <1>1 DEF Settings
  <2> QED BY <2>2, <2>3
<1>5. here => 1 \in Settings(ws, kind, n)
  BY <1>1 DEF Settings, len
<1>6. CASE Settings(r, kind, n) = {}
  <2>1. Final(e, r, kind, n) = FileValue(e, kind, n)
    BY <1>6 DEF Final
  <2>2. CASE here
    <3>1. \A j \in Settings(ws, kind, n) : j <= 1
      BY <1>4, <1>6
    <3>2. Final(d, ws, kind, n) = ws[1].val
      BY <3>1, <1>5, <2>2, FinalAt
    <3> QED BY <2>1, <2>2, <3>2, <1>1, <1>2 DEF e, r, w
  <2>3. CASE ~here
    <3>1. Settings(ws, kind, n) = {}
      BY <2>3, <1>4, <1>6
    <3> QED BY <2>1, <2>3, <3>1, <1>2 DEF Final, e, r, w
  <2> QED BY <2>2, <2>3
<1>7. CASE Settings(r, kind, n) # {}
  <2>1. PICK i \in Settings(r, kind, n) : \A j \in Settings(r, kind, n) : j <= i
    BY <1>1, <1>7, LastSetting
  <2>2. i \in 1..Len(r) /\ Final(e, r, kind, n) = r[i].val
    <3>1. r \in Seq(WriteType)
      BY <1>1
    <3>2. Final(e, r, kind, n) = r[i].val
      BY ONLY <3>1, <2>1, FinalAt
    <3> QED BY <3>2 DEF Settings
  <2>3. \A j \in Settings(ws, kind, n) : j <= i + 1
    <3> TAKE j \in Settings(ws, kind, n)
    <3>1. j \in Int
      BY LenProperties DEF Settings
    <3>2. j = 1 \/ j - 1 <= i
      BY <1>4, <2>1
    <3> QED BY <3>1, <3>2, <2>2
  <2>4. Final(d, ws, kind, n) = ws[i + 1].val
    BY <2>1, <2>3, <1>3, FinalAt
  <2> QED BY <2>2, <2>4, <1>1 DEF e, r, w
<1> QED BY <1>6, <1>7

\* The files of an entry, one by one.
LEMMA EntryFilesAre ==
    ASSUME NEW v \in Seq(Name), NEW n \in Name, NEW l \in Lineage, NEW idx \in IndexType
    PROVE  LET ws == EntryFiles(v, n, l, idx)
               k == 2 * Len(v)
           IN
           /\ ws \in Seq(WriteType) /\ Len(ws) = k + 3 /\ k \in Nat
           /\ \A i \in 1..k :
                \E m \in ToSet(v) : ws[i] \in {Removal("rec", m), Removal("bind", m)}
           /\ ws[k + 1] = Write("rec", n, RecordOf(l))
           /\ ws[k + 2] = Write("bind", n, BindingOf(l))
           /\ ws[k + 3] = Write("index", None, idx)
<1> DEFINE r == CapRemovals(v)
           two == <<Write("rec", n, RecordOf(l)), Write("bind", n, BindingOf(l))>>
           one == <<Write("index", None, idx)>>
           ws == EntryFiles(v, n, l, idx)
           q == r \o two
           k == 2 * Len(v)
<1>1. ws = q \o one /\ ws \in Seq(WriteType)
  BY EntryFilesPending DEF EntryFiles, Pending
<1>2. /\ r \in Seq(WriteType) /\ Len(r) = k /\ k \in Nat
      /\ \A i \in 1..k : \E m \in ToSet(v) : r[i] \in {Removal("rec", m), Removal("bind", m)}
  BY RemovalFiles, LenProperties
<1>3. /\ two \in Seq(WriteType) /\ Len(two) = 2
      /\ two[1] = Write("rec", n, RecordOf(l)) /\ two[2] = Write("bind", n, BindingOf(l))
  <2>1. RecordOf(l) \in RecType /\ BindingOf(l) \in BindType
    BY DEF RecordOf, RecType, BindType
  <2>2. Write("rec", n, RecordOf(l)) \in WriteType
    BY <2>1 DEF WriteType, Write
  <2>3. Write("bind", n, BindingOf(l)) \in WriteType
    BY <2>1 DEF WriteType, Write
  <2> QED BY <2>2, <2>3
<1>4. one \in Seq(WriteType) /\ Len(one) = 1 /\ one[1] = Write("index", None, idx)
  <2>1. Write("index", None, idx) \in WriteType
    BY DEF WriteType, Write
  <2> QED BY <2>1
<1> HIDE DEF r, two, one, ws, k
<1>5. /\ q \in Seq(WriteType) /\ Len(q) = k + 2
      /\ \A i \in 1..k : q[i] = r[i]
      /\ q[k + 1] = two[1] /\ q[k + 2] = two[2]
  <2>1. r \in Seq(WriteType) /\ two \in Seq(WriteType)
    BY <1>2, <1>3
  <2>2. /\ r \o two \in Seq(WriteType) /\ Len(r \o two) = Len(r) + Len(two)
        /\ \A i \in 1..Len(r) + Len(two) :
              (r \o two)[i] = IF i =< Len(r) THEN r[i] ELSE two[i - Len(r)]
    BY ONLY <2>1, ConcatProperties
  <2>3. \A i \in 1..k + 2 : q[i] = IF i =< k THEN r[i] ELSE two[i - k]
    BY <2>2, <1>2, <1>3
  <2>4. /\ k + 1 \in 1..k + 2 /\ ~(k + 1 <= k) /\ (k + 1) - k = 1
        /\ k + 2 \in 1..k + 2 /\ ~(k + 2 <= k) /\ (k + 2) - k = 2
    BY <1>2
  <2>5. \A i \in 1..k : i \in 1..k + 2 /\ i <= k
    BY <1>2
  <2>6. Len(q) = k + 2 /\ q \in Seq(WriteType)
    BY <2>2, <1>2, <1>3
  <2> HIDE DEF q
  <2> QED BY <2>3, <2>4, <2>5, <2>6
<1> HIDE DEF q
<1>6. /\ Len(ws) = k + 3
      /\ \A i \in 1..k + 2 : ws[i] = q[i]
      /\ ws[k + 3] = one[1]
  <2>1. q \in Seq(WriteType) /\ one \in Seq(WriteType)
    BY <1>4, <1>5
  <2>2. /\ q \o one \in Seq(WriteType) /\ Len(q \o one) = Len(q) + Len(one)
        /\ \A i \in 1..Len(q) + Len(one) :
              (q \o one)[i] = IF i =< Len(q) THEN q[i] ELSE one[i - Len(q)]
    BY ONLY <2>1, ConcatProperties
  <2>3. Len(ws) = k + 3 /\ \A i \in 1..k + 3 : ws[i] = IF i =< k + 2 THEN q[i] ELSE one[i - (k + 2)]
    BY <2>2, <1>1, <1>2, <1>4, <1>5
  <2>4. k + 3 \in 1..k + 3 /\ ~(k + 3 <= k + 2) /\ (k + 3) - (k + 2) = 1
    BY <1>2
  <2>5. \A i \in 1..k + 2 : i \in 1..k + 3 /\ i <= k + 2
    BY <1>2
  <2> QED BY <2>3, <2>4, <2>5
<1>7. \A i \in 1..k : i \in 1..k + 2
  BY <1>2
<1>8. k + 1 \in 1..k + 2 /\ k + 2 \in 1..k + 2
  BY <1>2
<1> QED BY <1>1, <1>2, <1>3, <1>4, <1>5, <1>6, <1>7, <1>8 DEF ws, k

\* What these files leave: a record and its binding, the index, and the other
\* entries that did not go.
LEMMA FinalOfEntry ==
    ASSUME NEW v \in Seq(Name), NEW n \in Name, NEW l \in Lineage, NEW idx \in IndexType, NEW d
    PROVE  LET ws == EntryFiles(v, n, l, idx) IN
           /\ Final(d, ws, "rec", n) = RecordOf(l)
           /\ Final(d, ws, "bind", n) = BindingOf(l)
           /\ Final(d, ws, "index", None) = idx
           /\ \A m : m # n /\ m \notin ToSet(v) =>
                /\ Final(d, ws, "rec", m) = d.rec[m]
                /\ Final(d, ws, "bind", m) = d.bind[m]
<1> DEFINE ws == EntryFiles(v, n, l, idx)
           k == 2 * Len(v)
<1>1. /\ ws \in Seq(WriteType) /\ Len(ws) = k + 3 /\ k \in Nat
      /\ \A i \in 1..k : \E m \in ToSet(v) : ws[i] \in {Removal("rec", m), Removal("bind", m)}
      /\ ws[k + 1] = Write("rec", n, RecordOf(l))
      /\ ws[k + 2] = Write("bind", n, BindingOf(l))
      /\ ws[k + 3] = Write("index", None, idx)
  BY EntryFilesAre
<1> HIDE DEF ws, k
<1>2. \A i \in 1..k : ws[i].kind \in {"rec", "bind"} /\ ws[i].name \in ToSet(v)
  BY <1>1 DEF Removal
<1>3. /\ ws[k + 1].kind = "rec" /\ ws[k + 1].name = n /\ ws[k + 1].val = RecordOf(l)
      /\ ws[k + 2].kind = "bind" /\ ws[k + 2].name = n /\ ws[k + 2].val = BindingOf(l)
      /\ ws[k + 3].kind = "index" /\ ws[k + 3].name = None /\ ws[k + 3].val = idx
  BY <1>1 DEF Write
<1>4. \A i \in 1..Len(ws) : i \in 1..k \/ i = k + 1 \/ i = k + 2 \/ i = k + 3
  BY <1>1
<1>5. k + 1 \in 1..Len(ws) /\ k + 2 \in 1..Len(ws) /\ k + 3 \in 1..Len(ws)
  BY <1>1
<1>6. Final(d, ws, "rec", n) = RecordOf(l)
  <2>1. k + 1 \in Settings(ws, "rec", n) /\ \A j \in Settings(ws, "rec", n) : j <= k + 1
    BY <1>1, <1>3, <1>4, <1>5 DEF Settings
  <2> QED BY <2>1, <1>1, <1>3, FinalAt
<1>7. Final(d, ws, "bind", n) = BindingOf(l)
  <2>1. k + 2 \in Settings(ws, "bind", n) /\ \A j \in Settings(ws, "bind", n) : j <= k + 2
    BY <1>1, <1>3, <1>4, <1>5 DEF Settings
  <2> QED BY <2>1, <1>1, <1>3, FinalAt
<1>8. Final(d, ws, "index", None) = idx
  <2>1. k + 3 \in Settings(ws, "index", None) /\ \A j \in Settings(ws, "index", None) : j <= k + 3
    BY <1>1, <1>4, <1>3, <1>5 DEF Settings
  <2> QED BY <2>1, <1>1, <1>3, FinalAt
<1>9. ASSUME NEW m, m # n, m \notin ToSet(v)
      PROVE  Final(d, ws, "rec", m) = d.rec[m] /\ Final(d, ws, "bind", m) = d.bind[m]
  <2>1. \A i \in 1..Len(ws) : ws[i].name = m => ws[i].kind = "index"
    BY <1>2, <1>3, <1>4, <1>9
  <2>2. Settings(ws, "rec", m) = {} /\ Settings(ws, "bind", m) = {}
    BY <2>1 DEF Settings
  <2> QED BY <2>2 DEF Final, FileValue
<1> QED BY <1>6, <1>7, <1>8, <1>9 DEF ws

\* What is there is not None.
LEMMA Something ==
    /\ \A r \in RecType : r # None
    /\ \A b \in BindType : b # None
    /\ \A x \in IndexType : x # None
<1> DEFINE row == [len : Nat, dig : {Digest(t) : t \in Text}]
<1>1. /\ None \notin [lineage : Seq(Text), sealed : BOOLEAN]
      /\ None \notin [hash : Seq(Text), row : row, text : Text]
      /\ \A names \in SUBSET Name : None \notin [names -> row]
  BY NoneAssumption
<1>2. RowType \subseteq row
  <2>1. ASSUME NEW t \in Text
        PROVE  Row(t) \in row
    <3>1. Len(t) \in Nat
      BY EntryAssumption, LenProperties
    <3> QED BY <3>1 DEF Row
  <2> QED BY <2>1 DEF RowType
<1> HIDE DEF row
<1>3. \A r \in RecType : r # None
  BY <1>1 DEF RecType, Lineage
<1>4. \A b \in BindType : b # None
  <2>1. ASSUME NEW l \in Lineage
        PROVE  BindingOf(l) \in [hash : Seq(Text), row : row, text : Text]
    <3>1. Last(l) \in Text /\ Row(Last(l)) \in row /\ l \in Seq(Text)
      BY <1>2, LastOfLineage DEF Lineage
    <3> QED BY <3>1 DEF BindingOf
  <2> QED BY <1>1, <2>1 DEF BindType
<1>5. \A x \in IndexType : x # None
  <2>1. ASSUME NEW E \in SUBSET Name, NEW x \in [E -> RowType]
        PROVE  x # None
    <3>1. x \in [E -> row]
      BY <1>2
    <3> QED BY <1>1, <3>1
  <2> QED BY <2>1 DEF IndexType
<1> QED BY <1>3, <1>4, <1>5

\* Without files to write, an entry is saved as the directory has it.
LEMMA SavedNow ==
    ASSUME NEW s, NEW d, NEW n
    PROVE  SavedEntry(s, d, <<>>, n) <=>
             /\ d.rec[n] # None /\ d.index # None
             /\ s.index[n] = Row(Last(d.rec[n].lineage))
             /\ n \in DOMAIN d.index /\ d.index[n] = s.index[n]
             /\ d.bind[n] = BindingOf(d.rec[n].lineage)
<1>1. /\ Final(d, <<>>, "rec", n) = d.rec[n]
      /\ Final(d, <<>>, "bind", n) = d.bind[n]
      /\ Final(d, <<>>, "index", None) = d.index
  BY FinalNone DEF FileValue
<1> QED BY <1>1 DEF SavedEntry

\* Entries that go leave nothing unsaved.
LEMMA FewerIsSaved ==
    ASSUME NEW s, NEW t, NEW d, NEW ws, Saved(s, d, ws), Fewer(s, t)
    PROVE  Saved(t, d, ws)
<1>1. ASSUME NEW n \in DOMAIN t.entries
      PROVE  SavedEntry(t, d, ws, n)
  <2>1. n \in DOMAIN s.entries /\ t.index[n] = s.index[n]
    BY DEF Fewer
  <2>2. SavedEntry(s, d, ws, n)
    BY <2>1 DEF Saved
  <2> QED BY <2>1, <2>2 DEF SavedEntry
<1> QED BY <1>1 DEF Saved

\* The files a call leaves save what it did.
LEMMA RecordedIsSaved ==
    ASSUME NEW s, NEW d, NEW res, Saved(s, d, <<>>), Recorded(s, res)
    PROVE  Saved(res.mem, d, res.writes)
<1>1. CASE res.writes = <<>> /\ Fewer(s, res.mem)
  BY <1>1, FewerIsSaved
<1>2. ASSUME NEW v \in Seq(Name), NEW n \in Name, NEW l \in Lineage, NEW idx \in IndexType,
             res.writes = EntryFiles(v, n, l, idx),
             \A m \in DOMAIN res.mem.entries : Covered(s, res.mem, v, n, l, idx, m)
      PROVE  Saved(res.mem, d, res.writes)
  <2> DEFINE ws == EntryFiles(v, n, l, idx)
             t == res.mem
  <2>1. /\ Final(d, ws, "rec", n) = RecordOf(l)
        /\ Final(d, ws, "bind", n) = BindingOf(l)
        /\ Final(d, ws, "index", None) = idx
        /\ \A m : m # n /\ m \notin ToSet(v) =>
             /\ Final(d, ws, "rec", m) = d.rec[m]
             /\ Final(d, ws, "bind", m) = d.bind[m]
    BY FinalOfEntry
  <2>2. RecordOf(l) # None /\ RecordOf(l).lineage = l /\ idx # None
    <3>1. RecordOf(l) \in RecType /\ RecordOf(l).lineage = l
      BY DEF RecordOf, RecType
    <3> QED BY <3>1, Something
  <2> HIDE DEF ws
  <2>3. ASSUME NEW m \in DOMAIN t.entries
        PROVE  SavedEntry(t, d, ws, m)
    <3>1. m \in DOMAIN idx /\ idx[m] = t.index[m]
      BY <1>2 DEF Covered
    <3>2. CASE m = n /\ idx[m] = Row(Last(l))
      BY <2>1, <2>2, <3>1, <3>2 DEF SavedEntry
    <3>3. CASE /\ m # n /\ m \in DOMAIN s.entries /\ m \notin ToSet(v)
               /\ idx[m] = s.index[m]
      <4>1. SavedEntry(s, d, <<>>, m)
        BY <3>3 DEF Saved
      <4>2. /\ d.rec[m] # None
            /\ s.index[m] = Row(Last(d.rec[m].lineage))
            /\ d.bind[m] = BindingOf(d.rec[m].lineage)
        BY ONLY <4>1, SavedNow
      <4>3. Final(d, ws, "rec", m) = d.rec[m] /\ Final(d, ws, "bind", m) = d.bind[m]
        BY <2>1, <3>3
      <4> QED BY <2>1, <2>2, <3>1, <3>3, <4>2, <4>3 DEF SavedEntry
    <3> QED BY <1>2, <3>2, <3>3 DEF Covered
  <2> QED BY <1>2, <2>3 DEF Saved, ws
<1> QED BY <1>1, <1>2 DEF Recorded

\* A file that reaches the directory was counted already.
LEMMA StoredIsSaved ==
    ASSUME NEW s, DOMAIN s.entries \subseteq Name, NEW d \in DiskType,
           NEW ws \in Seq(WriteType), ws # <<>>, Saved(s, d, ws)
    PROVE  Saved(s, Stored(d, Head(ws), Head(ws).val), Tail(ws))
<1> DEFINE e == Stored(d, Head(ws), Head(ws).val)
           r == Tail(ws)
<1>1. \A kind, n : IsFile(kind, n) => Final(e, r, kind, n) = Final(d, ws, kind, n)
  BY FinalStep
<1> HIDE DEF e, r
<1>2. ASSUME NEW n \in DOMAIN s.entries
      PROVE  SavedEntry(s, e, r, n)
  <2>1. IsFile("rec", n) /\ IsFile("bind", n) /\ IsFile("index", None)
    <3>1. n \in Name
      BY <1>2
    <3> QED BY <3>1 DEF IsFile
  <2>2. SavedEntry(s, d, ws, n)
    BY DEF Saved
  <2> QED BY <1>1, <2>1, <2>2 DEF SavedEntry
<1> QED BY <1>2 DEF Saved, e, r

-----------------------------------------------------------------------------
(* One process, and nothing between its store and the directory. *)

Alone(p) == \A q \in Process \ {p} : ~Active(q)

\* An active process is the only one.
LEMMA ActiveAlone ==
    ASSUME Safe, NEW p \in Process, Active(p)
    PROVE  Alone(p)
BY DEF Safe, OneProcess, Alone

\* No temporary file is there when a call is not about to rename its own.
LEMMA NoTmp ==
    ASSUME Safe, NEW p \in Process, Alone(p), call[p].pc # "rename"
    PROVE  tmp = {}
<1>1. \A q \in Process : call[q].pc # "rename"
  BY DEF Alone, Active
<1> QED BY <1>1 DEF Safe, TmpOwned

\* A step of the only process keeps the directory safe if it keeps its own
\* files.
LEMMA SafeStep ==
    ASSUME Safe, NEW p \in Process, Alone(p),
           \A q \in Process \ {p} : up'[q] = up[q] /\ call'[q] = call[q],
           SafeProcess(p)',
           (~up[p] => Fresh)',
           (\A f \in tmp : call[p].pc = "rename" /\ f = TmpOf(p))'
    PROVE  Safe'
<1>1. \A q \in Process \ {p} : ~up'[q] /\ call'[q].pc = "idle"
  BY DEF Alone, Active
<1>2. OneProcess'
  BY <1>1 DEF OneProcess, Active
<1>3. ((\A q \in Process : ~up[q]) => Fresh)'
  OBVIOUS
<1>4. TmpOwned'
  BY DEF TmpOwned
<1>5. ASSUME NEW q \in Process
      PROVE  SafeProcess(q)'
  <2>1. CASE q = p
    BY <2>1
  <2>2. CASE q # p
    <3>1. ~up[q] /\ Opening(call[q]) /\ up'[q] = up[q] /\ call'[q] = call[q]
      BY <2>2, <1>1 DEF Safe, SafeProcess
    <3>2. Opening(call'[q]) /\ ~up'[q] /\ call'[q].pc = "idle"
      BY <3>1, <2>2, <1>1
    <3> QED BY <3>2 DEF SafeProcess
  <2> QED BY <2>1, <2>2
<1> QED BY <1>2, <1>3, <1>4, <1>5 DEF Safe

\* The first open finds nothing but an empty directory.
LEMMA OpenSafe ==
    ASSUME Inv, Safe, NEW p \in Process, Open(p), faults' = 0
    PROVE  Safe'
<1> DEFINE c == call'[p]
           meta == <<Write("meta", None, TRUE)>>
<1>1. \A q \in Process : ~up[q] /\ call[q].pc = "idle"
  BY DEF Open, At, Inv
<1>2. /\ up' = up /\ disk' = disk /\ tmp' = tmp
      /\ call' = [call EXCEPT ![p] =
            IF ~Persistent \/ disk.meta THEN [NoCall EXCEPT !.pc = "load"]
            ELSE [NoCall EXCEPT !.pc = "files", !.writes = meta]]
  BY DEF Open
<1>3. /\ c = IF ~Persistent \/ disk.meta THEN [NoCall EXCEPT !.pc = "load"]
             ELSE [NoCall EXCEPT !.pc = "files", !.writes = meta]
      /\ \A q \in Process \ {p} : call'[q] = call[q]
  BY <1>2 DEF Inv
<1>4. \A i \in 1..Len(meta) : meta[i].kind = "meta"
  BY DEF Write
<1>5. Len(<<>>) = 0
  OBVIOUS
<1> HIDE DEF meta
<1>6. c.pc \in {"load", "files"} /\ c.writes \in {<<>>, meta}
  BY <1>3 DEF NoCall
<1>7. Opening(c)
  <2>1. \A i \in 1..Len(c.writes) : c.writes[i].kind = "meta"
    BY <1>4, <1>5, <1>6
  <2> QED BY <2>1, <1>6 DEF Opening
<1>8. SafeProcess(p)'
  BY <1>1, <1>2, <1>6, <1>7 DEF SafeProcess
<1>9. Alone(p)
  BY <1>1 DEF Alone, Active
<1>10. tmp' = {}
  BY <1>1, <1>2, <1>9, NoTmp
<1>11. Fresh'
  BY <1>1, <1>2 DEF Safe, Fresh
<1> QED BY <1>2, <1>3, <1>8, <1>9, <1>10, <1>11, SafeStep

\* A store that opens over an empty directory is empty.
LEMMA LoadSafe ==
    ASSUME Inv, Safe, NEW p \in Process, Load(p), Persistent
    PROVE  Safe'
<1> DEFINE index == IF ~Persistent THEN <<>>
                    ELSE IF disk.index # None THEN disk.index ELSE RebuildIndex(disk)
           lost == Persistent /\ disk.index = None
<1>1. /\ call[p].pc = "load" /\ index \in IndexType
      /\ up' = [up EXCEPT ![p] = TRUE]
      /\ mem' = [mem EXCEPT ![p] = Opened(index)]
      /\ call' = [call EXCEPT ![p] =
            IF lost THEN [@ EXCEPT !.pc = "files",
                                   !.writes = <<Write("index", None, index)>>]
            ELSE [@ EXCEPT !.pc = "idle"]]
      /\ disk' = disk /\ tmp' = tmp
  BY LoadDone
<1>2. Alone(p)
  BY <1>1, ActiveAlone DEF Active
<1>3. \A q \in Process : ~up[q]
  BY <1>1, <1>2 DEF Safe, SafeProcess, Alone, Active
<1>4. Fresh
  BY <1>3 DEF Safe
<1>5. DOMAIN index = {}
  <2>1. index = RebuildIndex(disk)
    BY <1>4 DEF Fresh
  <2> QED BY <2>1, <1>4 DEF Fresh, RebuildIndex
<1> HIDE DEF index
<1>6. mem'[p] = Opened(index) /\ DOMAIN mem'[p].entries = {}
  <2>1. mem'[p] = Opened(index)
    BY <1>1 DEF Inv
  <2> QED BY <2>1, <1>1, <1>5, OpenedKeeps
<1>7. /\ up'[p] /\ call'[p].pc \in {"files", "idle"}
      /\ \A q \in Process \ {p} : up'[q] = up[q] /\ call'[q] = call[q]
  <2>1. CallShape(call[p])
    BY DEF Inv, ProcessInv, CallInv
  <2> QED BY <2>1, <1>1 DEF Inv, CallShape
<1>8. SafeProcess(p)'
  BY <1>6, <1>7 DEF SafeProcess, Saved
<1>9. tmp' = {}
  BY <1>1, <1>2, NoTmp
<1> QED BY <1>2, <1>7, <1>8, <1>9, SafeStep

\* A step of a call that is up and has nothing left to write.
LEMMA CallStep ==
    ASSUME Inv, Safe, NEW p \in Process, call[p].pc \in {"serve", "scan", "record", "binding"}
    PROVE  /\ Alone(p) /\ up[p] /\ call[p].writes = <<>>
           /\ Saved(mem[p], disk, <<>>) /\ tmp = {}
<1>1. Alone(p)
  BY ActiveAlone DEF Active
<1>2. up[p]
  BY DEF Safe, SafeProcess, Opening
<1>3. call[p].writes = <<>>
  BY DEF Inv, ProcessInv, CallInv
<1>4. Saved(mem[p], disk, <<>>)
  BY <1>2, <1>3 DEF Safe, SafeProcess
<1> QED BY <1>1, <1>2, <1>3, <1>4, NoTmp

\* A call begins with everything saved.
LEMMA BeginSafe ==
    ASSUME Inv, Safe, NEW p \in Process,
           \/ \E id \in SessionId, t \in Text : EncodeSession(p, id, t)
           \/ \E t \in Text : EncodeAuto(p, t)
    PROVE  Safe'
<1> DEFINE Begun(c) == c.writes = <<>> /\ c.pc \in {"scan", "record", "serve"}
<1>1. PICK c : Begin(p, c) /\ Begun(c)
  <2>1. ASSUME NEW id \in SessionId, NEW t \in Text, EncodeSession(p, id, t)
        PROVE  \E c : Begin(p, c) /\ Begun(c)
    <3> DEFINE n == SName(id)
               pc == IF n \in DOMAIN mem[p].entries /\ ~Resident(mem[p], n)
                     THEN "record" ELSE "serve"
               c == [NoCall EXCEPT !.pc = pc, !.name = n, !.text = t]
    <3>1. Begin(p, c)
      BY <2>1 DEF EncodeSession
    <3>2. pc \in {"record", "serve"}
      OBVIOUS
    <3> HIDE DEF n, pc
    <3>3. Begun(c)
      BY <3>2 DEF NoCall
    <3> QED BY <3>1, <3>3
  <2>2. ASSUME NEW t \in Text, EncodeAuto(p, t)
        PROVE  \E c : Begin(p, c) /\ Begun(c)
    <3> DEFINE todo == Candidates(mem[p], t)
               c == [NoCall EXCEPT !.pc = "scan", !.lookup = TRUE, !.text = t, !.todo = todo]
    <3>1. Begin(p, c)
      BY <2>2 DEF EncodeAuto
    <3> HIDE DEF todo
    <3>2. Begun(c)
      BY DEF NoCall
    <3> QED BY <3>1, <3>2
  <2> QED BY <2>1, <2>2
<1>2. /\ up[p] /\ call[p].pc = "idle" /\ call'[p] = c
      /\ up' = up /\ mem' = mem /\ disk' = disk /\ tmp' = tmp
      /\ \A q \in Process \ {p} : call'[q] = call[q]
  BY <1>1 DEF Begin, At, Inv
<1>3. Alone(p) /\ tmp' = {}
  BY <1>2, ActiveAlone, NoTmp DEF Active
<1>4. call[p].writes = <<>>
  BY <1>2 DEF Inv, ProcessInv, CallInv
<1>5. Saved(mem[p], disk, <<>>)
  BY <1>2, <1>4 DEF Safe, SafeProcess
<1>6. SafeProcess(p)'
  BY <1>1, <1>2, <1>5 DEF SafeProcess
<1> QED BY <1>2, <1>3, <1>6, SafeStep

\* The work of a call leaves the files of what it did.
LEMMA WorkSafe ==
    ASSUME Inv, Safe, NEW p \in Process, Serve(p) \/ ScanEnds(p) \/ ScanHits(p), Persistent
    PROVE  Safe'
<1>1. /\ \E res : Finish(p, res) /\ Outcome(mem[p], res, call[p].text)
      /\ call[p].pc \in {"serve", "scan"}
      /\ up' = up /\ disk' = disk /\ tmp' = tmp
  BY WorkDone
<1>2. PICK res : Finish(p, res) /\ Outcome(mem[p], res, call[p].text)
  BY <1>1
<1>3. Alone(p) /\ up[p] /\ Saved(mem[p], disk, <<>>) /\ tmp = {}
  BY <1>1, CallStep
<1>4. Saved(res.mem, disk, res.writes)
  <2>1. Recorded(mem[p], res)
    BY <1>2 DEF Outcome
  <2> QED BY <2>1, <1>3, RecordedIsSaved
<1>5. /\ mem'[p] = res.mem /\ call'[p].pc \in {"idle", "files"} /\ call'[p].writes = res.writes
      /\ \A q \in Process \ {p} : call'[q] = call[q]
  <2>1. CallShape(call[p])
    BY DEF Inv, ProcessInv, CallInv
  <2> QED BY <2>1, <1>2 DEF Inv, Finish, CallShape
<1>6. SafeProcess(p)'
  BY <1>1, <1>3, <1>4, <1>5 DEF SafeProcess
<1> QED BY <1>1, <1>3, <1>5, <1>6, SafeStep

\* A candidate that is only looked at changes no entry.
LEMMA ScanNextSafe ==
    ASSUME Inv, Safe, NEW p \in Process, ScanNext(p)
    PROVE  Safe'
<1>1. mem'[p].entries = mem[p].entries /\ mem'[p].index = mem[p].index
  BY ScanNextKeeps
<1>2. call[p].pc = "scan" /\ up' = up /\ disk' = disk /\ tmp' = tmp
  BY DEF ScanNext, At
<1>3. Alone(p) /\ up[p] /\ call[p].writes = <<>> /\ Saved(mem[p], disk, <<>>) /\ tmp = {}
  BY <1>2, CallStep
<1>4. /\ call'[p].pc \in {"record", "scan"} /\ call'[p].writes = call[p].writes
      /\ \A q \in Process \ {p} : call'[q] = call[q]
  <2>1. CallShape(call[p])
    BY DEF Inv, ProcessInv, CallInv
  <2> QED BY <2>1 DEF Inv, ScanNext, CallShape
<1>5. Saved(mem'[p], disk, <<>>)
  BY <1>1, <1>3, FewerIsSaved DEF Fewer
<1>6. SafeProcess(p)'
  BY <1>2, <1>3, <1>4, <1>5 DEF SafeProcess
<1> QED BY <1>2, <1>3, <1>4, <1>6, SafeStep

\* An entry that is recovered has the row of its record, which it had before.
LEMMA GainedIsSaved ==
    ASSUME NEW s, NEW t, NEW d, NEW n, Saved(s, d, <<>>),
           DOMAIN t.entries = DOMAIN s.entries,
           \A m \in DOMAIN t.entries \ {n} : t.index[m] = s.index[m],
           t.index[n] = Row(Last(d.rec[n].lineage))
    PROVE  Saved(t, d, <<>>)
<1>1. ASSUME NEW m \in DOMAIN t.entries
      PROVE  SavedEntry(t, d, <<>>, m)
  <2>1. SavedEntry(s, d, <<>>, m)
    BY DEF Saved
  <2>2. /\ d.rec[m] # None /\ d.index # None
        /\ s.index[m] = Row(Last(d.rec[m].lineage))
        /\ m \in DOMAIN d.index /\ d.index[m] = s.index[m]
        /\ d.bind[m] = BindingOf(d.rec[m].lineage)
    BY ONLY <2>1, SavedNow
  <2>3. t.index[m] = s.index[m]
    BY <2>2
  <2>4. /\ d.rec[m] # None /\ d.index # None
        /\ t.index[m] = Row(Last(d.rec[m].lineage))
        /\ m \in DOMAIN d.index /\ d.index[m] = t.index[m]
        /\ d.bind[m] = BindingOf(d.rec[m].lineage)
    BY <2>2, <2>3
  <2> QED BY ONLY <2>4, SavedNow
<1> QED BY <1>1 DEF Saved

\* resident reads the record the directory still has when it reads the binding.
LEMMA RecoverySafe ==
    ASSUME Inv, Safe, NEW p \in Process, ReadRecord(p) \/ ReadBinding(p)
    PROVE  Safe'
<1> DEFINE n == call[p].name
           raw == IF call[p].pc = "record" THEN disk.rec[n] ELSE call[p].raw
           Gained(s) == /\ DOMAIN s.entries = DOMAIN mem[p].entries
                        /\ \A m \in DOMAIN s.entries \ {n} : s.index[m] = mem[p].index[m]
                        /\ s.index[n] = Row(Last(raw.lineage))
<1>1. /\ call[p].pc \in {"record", "binding"}
      /\ up' = up /\ disk' = disk /\ tmp' = tmp
      /\ \/ /\ call[p].pc = "record"
            /\ call' = [call EXCEPT ![p] = [@ EXCEPT !.pc = "binding", !.raw = raw]]
            /\ mem' = mem
         \/ \E s, recovered : Resume(p, s, recovered) /\ (Fewer(mem[p], s) \/ Gained(s))
  BY RecoveryDone
<1>2. Alone(p) /\ up[p] /\ call[p].writes = <<>> /\ Saved(mem[p], disk, <<>>) /\ tmp = {}
  BY <1>1, CallStep
<1>3. raw = disk.rec[n]
  BY <1>1 DEF Safe, SafeProcess
<1>4. CallShape(call[p])
  BY DEF Inv, ProcessInv, CallInv
<1> HIDE DEF raw
<1>5. CASE /\ call[p].pc = "record"
           /\ call' = [call EXCEPT ![p] = [@ EXCEPT !.pc = "binding", !.raw = raw]]
           /\ mem' = mem
  <2>1. /\ call'[p].pc = "binding" /\ call'[p].raw = raw /\ call'[p].name = n
        /\ call'[p].writes = <<>>
        /\ \A q \in Process \ {p} : call'[q] = call[q]
    BY <1>2, <1>4, <1>5 DEF Inv, CallShape
  <2>2. SafeProcess(p)'
    BY <1>1, <1>2, <1>3, <1>5, <2>1 DEF SafeProcess
  <2> QED BY <1>1, <1>2, <2>1, <2>2, SafeStep
<1>6. ASSUME NEW s, NEW recovered, Resume(p, s, recovered), Fewer(mem[p], s) \/ Gained(s)
      PROVE  Safe'
  <2>1. Saved(s, disk, <<>>)
    <3>1. CASE Fewer(mem[p], s)
      BY <3>1, <1>2, FewerIsSaved
    <3>2. CASE Gained(s)
      <4> DEFINE t == mem[p]
                 m == n
      <4>1. /\ DOMAIN s.entries = DOMAIN t.entries
            /\ \A o \in DOMAIN s.entries \ {m} : s.index[o] = t.index[o]
            /\ s.index[m] = Row(Last(disk.rec[m].lineage))
            /\ Saved(t, disk, <<>>)
        BY <3>2, <1>2, <1>3
      <4> HIDE DEF t, m
      <4> QED BY ONLY <4>1, GainedIsSaved
    <3> QED BY <1>6, <3>1, <3>2
  <2>2. /\ mem'[p] = s /\ call'[p].pc \in {"scan", "serve"} /\ call'[p].writes = <<>>
        /\ \A q \in Process \ {p} : call'[q] = call[q]
    BY <1>2, <1>4, <1>6 DEF Inv, Resume, CallShape
  <2>3. SafeProcess(p)'
    BY <1>1, <1>2, <2>1, <2>2 DEF SafeProcess
  <2> QED BY <1>1, <1>2, <2>2, <2>3, SafeStep
<1> QED BY <1>1, <1>5, <1>6

\* Only metadata is written before a store is open.
LEMMA OpeningFile ==
    ASSUME NEW c, Pending(c.writes), c.writes # <<>>, Opening(c)
    PROVE  /\ Head(c.writes).kind = "meta"
           /\ \A i \in 1..Len(Tail(c.writes)) : Tail(c.writes)[i].kind = "meta"
<1> DEFINE ws == c.writes
<1>1. ws \in Seq(WriteType) /\ ws # <<>>
  BY DEF Pending
<1>2. \A i \in 1..Len(ws) : ws[i].kind = "meta"
  BY DEF Opening
<1> HIDE DEF ws
<1>3. /\ Head(ws) = ws[1] /\ Len(Tail(ws)) = Len(ws) - 1 /\ Len(ws) \in Nat \ {0}
      /\ \A i \in 1..Len(Tail(ws)) : Tail(ws)[i] = ws[i + 1]
  BY <1>1, HeadTailProperties, LenProperties, EmptySeq
<1>4. 1 \in 1..Len(ws) /\ \A i \in 1..Len(Tail(ws)) : i + 1 \in 1..Len(ws)
  BY <1>3
<1> QED BY <1>2, <1>3, <1>4 DEF ws

\* A file that reaches the directory is the next of its call's files.
LEMMA FileSafe ==
    ASSUME Inv, Safe, NEW p \in Process, RemoveFile(p) \/ Rename(p)
    PROVE  Safe'
<1> DEFINE ws == call[p].writes
           rest == Tail(ws)
<1>1. /\ call[p].pc \in {"files", "rename"} /\ ws # <<>> /\ Pending(ws)
      /\ disk' = Stored(disk, Head(ws), Head(ws).val)
      /\ NextFile(p, rest)
      /\ tmp' = IF call[p].pc = "rename" THEN tmp \ {TmpOf(p)} ELSE tmp
      /\ up' = up /\ mem' = mem
  BY FileDone DEF FileOf
<1>2. Alone(p)
  BY <1>1, ActiveAlone DEF Active
<1>3. tmp' = {}
  <2>1. CASE call[p].pc = "rename"
    <3>1. \A f \in tmp : f = TmpOf(p)
      BY <1>2 DEF Safe, TmpOwned, Alone, Active
    <3> QED BY <2>1, <3>1, <1>1
  <2>2. CASE call[p].pc # "rename"
    BY <2>2, <1>1, <1>2, NoTmp
  <2> QED BY <2>1, <2>2
<1>4. /\ call'[p].writes = rest
      /\ call'[p].pc = IF rest # <<>> THEN "files" ELSE IF up[p] THEN "idle" ELSE "load"
      /\ \A q \in Process \ {p} : call'[q] = call[q]
  <2>1. CallShape(call[p])
    BY DEF Inv, ProcessInv, CallInv
  <2> QED BY <1>1, <2>1 DEF Inv, NextFile, CallShape
<1>5. disk \in DiskType /\ DOMAIN mem[p].entries \subseteq Name /\ ws \in Seq(WriteType)
  BY <1>1 DEF Inv, DiskInv, ProcessInv, StoreInv, Shape, Pending
<1>6. CASE up[p]
  <2>1. Saved(mem[p], disk, ws)
    BY <1>6 DEF Safe, SafeProcess
  <2>2. Saved(mem[p], disk', rest)
    BY <2>1, <1>1, <1>5, StoredIsSaved
  <2>3. SafeProcess(p)'
    BY <1>1, <1>4, <1>6, <2>2 DEF SafeProcess
  <2> QED BY <1>1, <1>2, <1>3, <1>4, <1>6, <2>3, SafeStep
<1>7. CASE ~up[p]
  <2>1. /\ Head(ws).kind = "meta"
        /\ \A i \in 1..Len(rest) : rest[i].kind = "meta"
    BY <1>1, <1>7, OpeningFile DEF Safe, SafeProcess
  <2>2. SafeProcess(p)'
    <3>1. Opening(call'[p])
      BY <1>4, <1>7, <2>1 DEF Opening
    <3>2. ~up'[p] /\ call'[p].pc # "binding"
      BY <1>1, <1>4, <1>7
    <3> QED BY <3>1, <3>2 DEF SafeProcess
  <2>3. Fresh
    BY <1>2, <1>7 DEF Safe, Alone, Active
  <2>4. disk'.rec = disk.rec /\ disk'.index = disk.index
    BY <1>1, <1>5, <2>1 DEF Stored, DiskType
  <2>5. Fresh'
    BY <2>3, <2>4 DEF Fresh
  <2> QED BY <1>1, <1>2, <1>3, <1>4, <2>2, <2>5, SafeStep
<1> QED BY <1>6, <1>7

\* The temporary file is that of the call that is about to rename it.
LEMMA CreateTmpSafe ==
    ASSUME Inv, Safe, NEW p \in Process, CreateTmp(p)
    PROVE  Safe'
<1>1. /\ call[p].pc = "files"
      /\ call' = [call EXCEPT ![p].pc = "rename"]
      /\ up' = up /\ mem' = mem /\ disk' = disk /\ tmp' = tmp \cup {TmpOf(p)}
  BY DEF CreateTmp, At
<1>2. Alone(p)
  BY <1>1, ActiveAlone DEF Active
<1>3. tmp' = {TmpOf(p)}
  BY <1>1, <1>2, NoTmp
<1>4. /\ call'[p].pc = "rename" /\ call'[p].writes = call[p].writes
      /\ \A q \in Process \ {p} : call'[q] = call[q]
  <2>1. CallShape(call[p])
    BY DEF Inv, ProcessInv, CallInv
  <2> QED BY <1>1, <2>1 DEF Inv, CallShape
<1>5. TmpOf(p)' = TmpOf(p)
  BY <1>4 DEF TmpOf, FileOf
<1>6. SafeProcess(p)'
  BY <1>1, <1>4 DEF Safe, SafeProcess, Opening
<1>7. (~up[p] => Fresh)'
  BY <1>1, <1>2 DEF Safe, Alone, Active, Fresh
<1>8. (\A f \in tmp : call[p].pc = "rename" /\ f = TmpOf(p))'
  BY <1>3, <1>4, <1>5
<1> QED BY <1>1, <1>2, <1>4, <1>6, <1>7, <1>8, SafeStep

\* Without a fault no write fails: no temporary file is in its way.
LEMMA NoWriteFails ==
    ASSUME Inv, Safe, NEW p \in Process, WriteFails(p)
    PROVE  faults' # 0
<1>1. call[p].pc \in {"files", "rename"}
  BY DEF WriteFails, At
<1>2. Alone(p)
  BY <1>1, ActiveAlone DEF Active
<1>3. ~(call[p].pc = "files" /\ TmpOf(p) \in tmp)
  BY <1>2, NoTmp
<1>4. faults' = faults + 1
  BY <1>3 DEF WriteFails, At
<1> QED BY <1>4 DEF Inv

LEMMA InitSafe == Init => SafeInv
<1> SUFFICES ASSUME Init PROVE Safe
  BY DEF SafeInv
<1>1. \A p \in Process : ~up[p] /\ call[p] = NoCall
  BY DEF Init
<1>2. NoCall.pc = "idle" /\ NoCall.writes = <<>> /\ Len(<<>>) = 0
  BY DEF NoCall
<1>3. OneProcess /\ (\A p \in Process : SafeProcess(p))
  BY <1>1, <1>2 DEF OneProcess, Active, SafeProcess, Opening
<1>4. Fresh /\ TmpOwned
  BY DEF Init, EmptyDisk, Fresh, TmpOwned
<1> QED BY <1>3, <1>4 DEF Safe

LEMMA NextSafe == Inv /\ SafeInv /\ [Next]_vars => SafeInv'
<1> SUFFICES ASSUME Inv, SafeInv, [Next]_vars, faults' = 0, Persistent
             PROVE  Safe'
  BY DEF SafeInv
<1>1. faults \in Nat /\ (faults = 0 => Safe)
  BY DEF Inv, SafeInv
<1>2. CASE UNCHANGED vars
  <2>1. Safe
    BY <1>1, <1>2 DEF vars
  <2>2. /\ up' = up /\ mem' = mem /\ call' = call /\ disk' = disk /\ tmp' = tmp
    BY <1>2 DEF vars
  <2>3. (\A p \in Process : SafeProcess(p))'
    BY <2>1, <2>2 DEF Safe, SafeProcess
  <2>4. OneProcess' /\ TmpOwned'
    BY <2>1, <2>2 DEF Safe, OneProcess, Active, TmpOwned, TmpOf, FileOf
  <2>5. ((\A p \in Process : ~up[p]) => Fresh)'
    BY <2>1, <2>2 DEF Safe, Fresh
  <2> QED BY <2>3, <2>4, <2>5 DEF Safe
<1>3. CASE LoseFile
  BY <1>1, <1>3 DEF LoseFile
<1>4. ASSUME NEW p \in Process, ProcessStep(p)
      PROVE  Safe'
  <2>1. CASE Open(p)
    <3>1. Safe
      BY <1>1, <2>1 DEF Open
    <3> QED BY <2>1, <3>1, OpenSafe
  <2>2. CASE Load(p)
    <3>1. Safe
      BY <1>1, <2>2 DEF Load
    <3> QED BY <2>2, <3>1, LoadSafe
  <2>3. CASE \E t \in Text : EncodeAuto(p, t) \/ \E id \in SessionId : EncodeSession(p, id, t)
    <3>1. Safe
      BY <1>1, <2>3 DEF EncodeAuto, EncodeSession, Begin
    <3> QED BY <2>3, <3>1, BeginSafe
  <2>4. CASE Serve(p) \/ ScanEnds(p) \/ ScanHits(p)
    <3>1. faults' = 0 => faults = 0
      BY <2>4, WorkDone
    <3> QED BY <1>1, <2>4, <3>1, WorkSafe
  <2>5. CASE ScanNext(p)
    <3>1. Safe
      BY <1>1, <2>5 DEF ScanNext
    <3> QED BY <2>5, <3>1, ScanNextSafe
  <2>6. CASE ReadRecord(p) \/ ReadBinding(p)
    <3>1. faults' = 0 => faults = 0
      BY <2>6, RecoveryDone
    <3> QED BY <1>1, <2>6, <3>1, RecoverySafe
  <2>7. CASE RemoveFile(p) \/ Rename(p)
    <3>1. Safe
      BY <1>1, <2>7, FileDone
    <3> QED BY <2>7, <3>1, FileSafe
  <2>8. CASE CreateTmp(p)
    <3>1. Safe
      BY <1>1, <2>8 DEF CreateTmp
    <3> QED BY <2>8, <3>1, CreateTmpSafe
  <2>9. CASE WriteFails(p)
    <3>1. Safe
      BY <1>1, <2>9 DEF WriteFails
    <3> QED BY <2>9, <3>1, NoWriteFails
  <2>10. CASE Crash(p)
    BY <1>1, <2>10 DEF Crash
  <2> QED BY <1>4, <2>1, <2>2, <2>3, <2>4, <2>5, <2>6, <2>7, <2>8, <2>9, <2>10 DEF ProcessStep
<1> QED BY <1>2, <1>3, <1>4 DEF Next

\* Until a file is lost, a write fails or a second process comes, a directory
\* never runs behind the store but by the files its call still has to write.
THEOREM DirectoryFollows == Spec => []SafeInv
BY StoreStaysSound, InitSafe, NextSafe, PTL DEF Spec

\* Whatever a store knows between calls, a restart accepts for its text.
THEOREM RestartFindsAll == Spec => []KnownIsRecoverable
<1>1. ASSUME Inv, SafeInv
      PROVE  KnownIsRecoverable
  <2> SUFFICES ASSUME faults = 0, Persistent, NEW p \in Process, up[p], call[p].pc = "idle",
                      NEW n \in DOMAIN mem[p].entries
               PROVE  /\ disk.rec[n] # None
                      /\ LET t == Last(disk.rec[n].lineage) IN
                         /\ mem[p].index[n] = Row(t)
                         /\ disk.index # None /\ n \in DOMAIN disk.index
                         /\ disk.index[n] = Row(t)
                         /\ disk.rec[n].sealed => BindingHolds(disk.rec[n], disk.bind[n], t)
    BY DEF KnownIsRecoverable, At
  <2> DEFINE rec == disk.rec[n]
             l == rec.lineage
             t == Last(l)
  <2>1. Saved(mem[p], disk, <<>>)
    <3>1. call[p].writes = <<>>
      BY <1>1 DEF Inv, ProcessInv, CallInv
    <3> QED BY <1>1, <3>1 DEF SafeInv, Safe, SafeProcess
  <2>2. /\ rec # None /\ disk.index # None
        /\ mem[p].index[n] = Row(t)
        /\ n \in DOMAIN disk.index /\ disk.index[n] = mem[p].index[n]
        /\ disk.bind[n] = BindingOf(l)
    <3> DEFINE s == mem[p]
    <3>1. SavedEntry(s, disk, <<>>, n)
      BY <2>1 DEF Saved
    <3> HIDE DEF s
    <3>2. /\ rec # None /\ disk.index # None
          /\ s.index[n] = Row(t)
          /\ n \in DOMAIN disk.index /\ disk.index[n] = s.index[n]
          /\ disk.bind[n] = BindingOf(l)
      BY ONLY <3>1, SavedNow
    <3> QED BY <3>2 DEF s
  <2>3. l \in Lineage
    <3>1. n \in Name /\ disk \in DiskType
      BY <1>1 DEF Inv, ProcessInv, StoreInv, Shape, DiskInv
    <3>2. rec \in RecType
      BY <2>2, <3>1 DEF DiskType
    <3> QED BY <3>2 DEF RecType
  <2>4. t \in Text /\ BindingOf(l) # None
    BY <2>3, LastOfLineage, Something DEF BindType
  <2> HIDE DEF l, t
  <2>5. Len(t) \in Nat /\ SubSeq(t, 1, Len(t)) = t
    <3>1. t \in Seq(Letter)
      BY <2>4, EntryAssumption
    <3> QED BY <3>1, LenProperties
  <2>6. /\ BindingOf(l).hash = l /\ BindingOf(l).text = t
        /\ BindingOf(l).row = Row(t) /\ Row(t).len = Len(t)
    BY DEF BindingOf, Row, t
  <2>7. BindingHolds(rec, disk.bind[n], t)
    <3> DEFINE b == BindingOf(l)
               k == b.row.len
    <3>1. rec.lineage = l /\ Last(rec.lineage) = t /\ disk.bind[n] = b
      BY <2>2 DEF l, t
    <3>2. b # None /\ k = Len(t) /\ k <= Len(t) /\ b.hash = l
      BY <2>4, <2>5, <2>6
    <3>3. SubSeq(t, 1, k) = t
      BY <3>2, <2>5
    <3>4. b.text = SubSeq(t, 1, k) /\ b.row = Row(SubSeq(t, 1, k))
      BY <3>3, <2>6
    <3> HIDE DEF b, rec
    <3> QED BY <3>1, <3>2, <3>4 DEF BindingHolds
  <2> QED BY <2>2, <2>7 DEF l, t
<1> QED BY <1>1, StoreStaysSound, DirectoryFollows, PTL

=============================================================================
