------------------------- MODULE MemorySync_proofs -------------------------
(***************************************************************************)
(* Proofs about the memory log, the devices that upload to it and the      *)
(* mirror that pulls from it, for every value of the constants: any        *)
(* devices, local logs, page sizes, numbers of requests and of faults.     *)
(* The projection is where the work is: projections run side by side, each *)
(* from the cursor it read, and fold entries another has folded.  Folding  *)
(* an entry a table already has changes nothing (Absorbed), so any of them *)
(* leaves the replay of a prefix of the log (Refolded).                    *)
(***************************************************************************)
EXTENDS MemorySync, FoldLemmas, SequenceTheorems

-----------------------------------------------------------------------------
(* The log                                                                 *)

(* Entries of the log, and logs that go on from one another.               *)
Record == [origin : Devices, key : Keys, value : Nat]

Extends(l, m) == Len(l) <= Len(m) /\ \A n \in 1..Len(l) : m[n] = l[n]

Holds(l, r) == \E n \in 1..Len(l) : l[n] = r

LEMMA ExtendsOn ==
  ASSUME NEW l \in Seq(Record), NEW m \in Seq(Record), NEW k \in Seq(Record),
         Extends(l, m), Extends(m, k)
  PROVE  Extends(l, k) /\ \A r : Holds(m, r) => Holds(k, r)
<1>1. Len(l) \in Nat /\ Len(m) \in Nat /\ Len(k) \in Nat
  BY LenProperties
<1>2. Extends(l, k)
  BY <1>1 DEF Extends
<1>3. ASSUME NEW r, Holds(m, r) PROVE Holds(k, r)
  BY <1>1, <1>3 DEF Extends, Holds
<1> QED
  BY <1>2, <1>3

(* APPEND_SQL: what is appended or already said is in the log afterwards,  *)
(* and nothing there changes.                                              *)
LEMMA AppendedHolds ==
  ASSUME NEW l \in Seq(Record), NEW r \in Record
  PROVE  Appended(l, r) \in Seq(Record) /\ Extends(l, Appended(l, r)) /\ Holds(Appended(l, r), r)
<1> DEFINE same == {n \in DOMAIN l : l[n].origin = r.origin /\ l[n].key = r.key}
<1>1. Len(l) \in Nat /\ DOMAIN l = 1..Len(l) /\ \A n \in 1..Len(l) : l[n] \in Record
  BY LenProperties, ElementOfSeq
<1>2. CASE same # {} /\ l[Max(same)].value = r.value
  <2>0. IsFiniteSet(1..Len(l)) /\ same \in SUBSET (1..Len(l))
    BY <1>1, FS_Interval
  <2>1. IsFiniteSet(same) /\ same \in SUBSET Nat
    BY <2>0, FS_Subset
  <2>2. Max(same) \in same
    BY <1>2, <2>1, Greatest
  <2>3. l[Max(same)] = r
    BY <1>1, <1>2, <2>2 DEF Record
  <2>4. Appended(l, r) = l
    BY <1>2 DEF Appended
  <2> QED
    BY <1>1, <2>2, <2>3, <2>4 DEF Extends, Holds
<1>3. CASE ~(same # {} /\ l[Max(same)].value = r.value)
  <2>1. Appended(l, r) = Append(l, r)
    BY <1>3 DEF Appended
  <2>2. /\ Append(l, r) \in Seq(Record) /\ Len(Append(l, r)) = Len(l) + 1
        /\ \A n \in 1..Len(l) : Append(l, r)[n] = l[n]
        /\ Append(l, r)[Len(l) + 1] = r
    BY AppendProperties
  <2> QED
    BY <1>1, <2>1, <2>2 DEF Extends, Holds
<1> QED
  BY <1>2, <1>3

(* A device's log, as its assumption describes it.                         *)
LEMMA Entries ==
  ASSUME NEW d \in Devices
  PROVE  /\ Len(Local[d]) \in Nat /\ DOMAIN Local[d] = 1..Len(Local[d])
         /\ \A e \in 1..Len(Local[d]) :
              Entry(d, e) \in Record /\ Local[d][e].commit \in Nat
         /\ \A i, k \in 1..Len(Local[d]) :
              Local[d][i].commit = Local[d][k].commit
                => \A j \in i..k : Local[d][j].commit = Local[d][i].commit
<1>1. Local[d] \in Seq([commit : Nat, key : Keys, value : Nat])
  BY MemoryLogAssumption
<1>2. Len(Local[d]) \in Nat /\ DOMAIN Local[d] = 1..Len(Local[d])
  BY <1>1, LenProperties
<1>3. \A e \in 1..Len(Local[d]) : Local[d][e] \in [commit : Nat, key : Keys, value : Nat]
  BY <1>1, ElementOfSeq
<1>4. \A e \in 1..Len(Local[d]) : Entry(d, e) \in Record /\ Local[d][e].commit \in Nat
  BY <1>3 DEF Entry, Record
<1> QED
  BY <1>2, <1>4, MemoryLogAssumption

(* apply_commit appends all it has of a commit.                            *)
AppendedAll(d, l, S) == Ascending(LAMBDA e, k : Appended(k, Entry(d, e)), l, S)

LEMMA AppendsAll ==
  ASSUME NEW d \in Devices, NEW l \in Seq(Record), NEW S \in SUBSET (1..Len(Local[d]))
  PROVE  /\ AppendedAll(d, l, S) \in Seq(Record) /\ Extends(l, AppendedAll(d, l, S))
         /\ \A e \in S : Holds(AppendedAll(d, l, S), Entry(d, e))
<1>0. IsFiniteSet(S) /\ S \in SUBSET Nat /\ \A e \in S : Entry(d, e) \in Record
  <2>1. Len(Local[d]) \in Nat /\ \A e \in 1..Len(Local[d]) : Entry(d, e) \in Record
    BY Entries
  <2>2. IsFiniteSet(1..Len(Local[d]))
    BY <2>1, FS_Interval
  <2>3. IsFiniteSet(S)
    BY <2>2, FS_Subset
  <2> QED
    BY <2>1, <2>3
<1> DEFINE m == AppendedAll(d, l, S)
           pick == [s \in SUBSET S |-> Max(s)]
           F == [p \in S \X Seq(Record) |-> Appended(p[2], Entry(d, p[1]))]
           body(f) == [s \in SUBSET S |->
                         IF s = {} THEN l ELSE Appended(f[s \ {Max(s)}], Entry(d, Max(s)))]
           iter == CHOOSE f : f = body(f)
<1>1. ASSUME NEW s \in SUBSET S, s # {}
      PROVE  Max(s) \in s /\ pick[s] \in s /\ pick[s] = Max(s)
  BY <1>0, <1>1, FS_Subset, Greatest
<1>2. F \in [S \X Seq(Record) -> Seq(Record)]
  BY <1>0, AppendedHolds
<1>3. \E g \in [SUBSET S -> Seq(Record)] : Steps(S, Seq(Record), pick, F, l, g)
  <2> HIDE DEF pick, F
  <2> QED
    BY <1>0, <1>1, <1>2, FoldExists
<1>4. PICK g \in [SUBSET S -> Seq(Record)] : Steps(S, Seq(Record), pick, F, l, g)
  BY <1>3
<1>5. ASSUME NEW s \in SUBSET S, s # {}
      PROVE  /\ g[s] = Appended(g[s \ {Max(s)}], Entry(d, Max(s)))
             /\ g[s \ {Max(s)}] \in Seq(Record)
  <2>1. g[s] = F[<<Max(s), g[s \ {Max(s)}]>>]
    BY <1>1, <1>4, <1>5 DEF Steps
  <2> QED
    BY <1>1, <1>5, <2>1
<1>6. g[{}] = l
  BY <1>4 DEF Steps
<1>7. g = body(g)
  BY <1>5, <1>6
<1>8. iter = body(iter)
  <2> HIDE DEF body
  <2> QED
    BY <1>7
<1>9. m = iter[S]
  BY DEF AppendedAll, Ascending, MapThenFoldSet
<1> DEFINE Grown(k, s) == k \in Seq(Record) /\ Extends(l, k) /\ \A e \in s : Holds(k, Entry(d, e))
<1>10. ASSUME NEW s \in SUBSET S, s # {}, NEW k, Grown(k, s \ {Max(s)})
       PROVE  Grown(Appended(k, Entry(d, Max(s))), s)
  <2>1. Max(s) \in S /\ Entry(d, Max(s)) \in Record /\ k \in Seq(Record)
    BY <1>0, <1>1, <1>10
  <2> DEFINE n == Appended(k, Entry(d, Max(s)))
  <2>2. n \in Seq(Record) /\ Extends(k, n) /\ Holds(n, Entry(d, Max(s)))
    BY <2>1, AppendedHolds
  <2>3. Extends(l, n) /\ \A r : Holds(k, r) => Holds(n, r)
    <3> HIDE DEF n
    <3> QED
      BY <1>10, <2>1, <2>2, ExtendsOn
  <2>4. ASSUME NEW e \in s PROVE Holds(n, Entry(d, e))
    <3> HIDE DEF n
    <3> QED
      BY <1>10, <2>2, <2>3
  <2> QED
    BY <2>2, <2>3, <2>4
<1> DEFINE Q == {s \in SUBSET S : Grown(iter[s], s)}
<1>11. {} \in Q
  <2>1. iter[{}] = l
    BY <1>8
  <2>2. Grown(l, {})
    BY LenProperties DEF Extends
  <2> HIDE DEF Grown, iter
  <2> QED
    BY <2>1, <2>2
<1>12. ASSUME NEW s \in SUBSET S, s # {}, s \ {pick[s]} \in Q PROVE s \in Q
  <2>1. iter[s] = Appended(iter[s \ {Max(s)}], Entry(d, Max(s)))
    <3> HIDE DEF iter
    <3> QED
      BY <1>8, <1>12
  <2>2. Grown(iter[s \ {Max(s)}], s \ {Max(s)})
    BY <1>1, <1>12
  <2> HIDE DEF Grown, iter
  <2> QED
    BY <1>10, <1>12, <2>1, <2>2
<1>13. S \in Q
  <2> SUFFICES ASSUME S \notin Q PROVE FALSE
    OBVIOUS
  <2> DEFINE B == {s \in SUBSET S : s \notin Q}
  <2>1. B \in SUBSET (SUBSET S) /\ B # {} /\ IsFiniteSet(S)
    BY <1>0
  <2>2. PICK t \in B : \A x \in t : t \ {x} \notin B
    <3> HIDE DEF B
    <3> QED
      BY <2>1, Smallest
  <2> HIDE DEF Q
  <2> QED
    BY <1>1, <1>11, <1>12, <2>2
<1> QED
  BY <1>9, <1>13

-----------------------------------------------------------------------------
(* The tables a projection folds the log into                              *)

(* Tables of rows, for a log that is not the state's: a step compares the  *)
(* replay of log with that of log'.                                        *)
Row(n) == [sequence : 0..n, value : Nat, deleted : BOOLEAN]
Tables(n) == [Keys -> Row(n)]
Empty == [k \in Keys |-> NoRow]

After(l, n, k, row) ==
  IF k = l[n].key
    THEN IF n >= row.sequence
           THEN [sequence |-> n, value |-> l[n].value,
                 deleted |-> row.deleted \/ l[n].key[1] = "deletion"]
           ELSE row
    ELSE IF l[n].key[1] = "deletion" /\ k = <<"source", l[n].key[2]>>
           THEN IF row.sequence \in 1..n
                  THEN [sequence |-> n, value |-> row.value, deleted |-> TRUE]
                  ELSE row
           ELSE row

FoldedIn(l, n, table) == [k \in Keys |-> After(l, n, k, table[k])]

FoldedOver(l, table, S) == Ascending(LAMBDA n, t : FoldedIn(l, n, t), table, S)

ReplayedIn(l, n) == FoldedOver(l, Empty, 1..n)

(* The model's fold and replay are these, of this log and of the next.     *)
LEMMA Folding ==
  ASSUME NEW S, NEW table
  PROVE  Ascending(Folded, table, S) = FoldedOver(log, table, S)
BY DEF Ascending, FoldedOver, MapThenFoldSet, FoldedIn, After, Folded, Deletes, Newer,
       Upserted, Tombstoned

LEMMA ReplayedHere ==
  ASSUME NEW n
  PROVE  /\ Replayed(n) = ReplayedIn(log, n)
         /\ Replayed(n)' = ReplayedIn(log', n)
BY DEF Replayed, ReplayedIn, Empty, Ascending, FoldedOver, MapThenFoldSet, FoldedIn, After,
       Folded, Deletes, Newer, Upserted, Tombstoned

(* What one entry makes of a row: it only moves on, to that entry.         *)
LEMMA AfterRow ==
  ASSUME NEW l \in Seq(Record), NEW n \in 1..Len(l), NEW k \in Keys, NEW row \in Row(Len(l))
  PROVE  /\ After(l, n, k, row) \in Row(Len(l))
         /\ After(l, n, k, row) = row \/ After(l, n, k, row).sequence = n
         /\ row.deleted => After(l, n, k, row).deleted
<1>1. l[n] \in Record /\ n \in 0..Len(l) /\ Len(l) \in Nat
  BY ElementOfSeq, LenProperties
<1>2. l[n].value \in Nat
  BY <1>1 DEF Record
<1>3. row.sequence \in 0..Len(l) /\ row.value \in Nat /\ row.deleted \in BOOLEAN
  BY DEF Row
<1>4. \A v \in Nat, b \in BOOLEAN : [sequence |-> n, value |-> v, deleted |-> b] \in Row(Len(l))
  BY <1>1 DEF Row
<1>5. (row.deleted \/ l[n].key[1] = "deletion") \in BOOLEAN
  BY <1>3
<1> QED
  BY <1>2, <1>3, <1>4, <1>5 DEF After

LEMMA FoldedTypes ==
  ASSUME NEW l \in Seq(Record), NEW n \in 1..Len(l), NEW t \in Tables(Len(l))
  PROVE  FoldedIn(l, n, t) \in Tables(Len(l))
BY AfterRow DEF FoldedIn, Tables

(* The table t has all of entry j.                                         *)
Done(l, t, j) ==
  /\ LET row == t[l[j].key] IN
       \/ row.sequence > j
       \/ /\ row.sequence = j /\ row.value = l[j].value
          /\ l[j].key[1] = "deletion" => row.deleted
  /\ l[j].key[1] = "deletion" =>
       LET row == t[<<"source", l[j].key[2]>>] IN
       row.sequence = 0 \/ row.sequence > j \/ (row.sequence = j /\ row.deleted)

(* A source told of and then deleted, among the first n entries.           *)
DeletedBy(l, n, x) ==
  \E j, m \in 1..n : m < j /\ l[j].key = <<"deletion", x>> /\ l[m].key = <<"source", x>>

(* The table t has all of the first n entries and nothing after them.      *)
Sound(l, t, n) ==
  /\ \A k \in Keys : t[k].sequence <= n
  /\ \A j \in 1..n : Done(l, t, j)
  /\ \A x \in Sources : DeletedBy(l, n, x) =>
       t[<<"source", x>>].sequence > 0 /\ t[<<"source", x>>].deleted

LEMMA KeysOf ==
  ASSUME NEW l \in Seq(Record), NEW n \in 1..Len(l)
  PROVE  /\ l[n].key \in Keys /\ l[n].key[2] \in Sources /\ <<"source", l[n].key[2]>> \in Keys
         /\ l[n].key[1] = "deletion" => <<"source", l[n].key[2]>> # l[n].key
         /\ l[n].value \in Nat
<1>1. l[n] \in Record
  BY ElementOfSeq
<1> QED
  BY <1>1 DEF Record, Keys

(* A sound table takes no notice of an entry it has, so that folding a     *)
(* page another time changes nothing.                                      *)
LEMMA Absorbed ==
  ASSUME NEW l \in Seq(Record), NEW n \in 0..Len(l), NEW j \in 1..n, NEW t \in Tables(Len(l)),
         Sound(l, t, n)
  PROVE  FoldedIn(l, j, t) = t
<1>0. j \in 1..Len(l) /\ Len(l) \in Nat /\ j \in Nat
  BY LenProperties
<1>1. ASSUME NEW k \in Keys PROVE After(l, j, k, t[k]) = t[k]
  <2>1. t[k].sequence \in Nat /\ t[k] \in Row(Len(l))
    BY <1>0 DEF Tables, Row
  <2>2. Done(l, t, j)
    BY DEF Sound
  <2>3. ASSUME k = l[j].key, j >= t[k].sequence
        PROVE  [sequence |-> j, value |-> l[j].value,
                deleted |-> t[k].deleted \/ l[j].key[1] = "deletion"] = t[k]
    <3>1. t[k].sequence = j /\ t[k].value = l[j].value
      BY <1>0, <2>1, <2>2, <2>3 DEF Done
    <3>2. (t[k].deleted \/ l[j].key[1] = "deletion") = t[k].deleted
      BY <1>0, <2>1, <2>2, <2>3 DEF Done, Row
    <3> QED
      BY <2>1, <3>1, <3>2 DEF Row
  <2>4. ASSUME k # l[j].key, l[j].key[1] = "deletion", k = <<"source", l[j].key[2]>>,
               t[k].sequence \in 1..j
        PROVE  [sequence |-> j, value |-> t[k].value, deleted |-> TRUE] = t[k]
    <3>1. t[k].sequence = j /\ t[k].deleted
      BY <1>0, <2>1, <2>2, <2>4 DEF Done
    <3> QED
      BY <2>1, <3>1 DEF Row
  <2> QED
    BY <2>3, <2>4 DEF After
<1> QED
  BY <1>1 DEF FoldedIn, Tables

(* The next entry makes a sound table of one entry more.                   *)
LEMMA FoldedSound ==
  ASSUME NEW l \in Seq(Record), NEW n \in 1..Len(l), NEW t \in Tables(Len(l)), Sound(l, t, n - 1)
  PROVE  Sound(l, FoldedIn(l, n, t), n)
<1> DEFINE u == FoldedIn(l, n, t)
<1>0. n \in Nat /\ Len(l) \in Nat /\ n - 1 \in Nat
  BY LenProperties
<1>1. ASSUME NEW k \in Keys
      PROVE  /\ t[k] \in Row(Len(l)) /\ t[k].sequence \in 0..(n - 1)
             /\ u[k] = After(l, n, k, t[k]) /\ u[k] \in Row(Len(l))
             /\ u[k] = t[k] \/ u[k].sequence = n
             /\ t[k].deleted => u[k].deleted
  <2>1. t[k] \in Row(Len(l))
    BY DEF Tables
  <2>2. t[k].sequence \in 0..(n - 1)
    BY <1>0, <2>1 DEF Sound, Row
  <2>3. u[k] = After(l, n, k, t[k])
    BY DEF FoldedIn
  <2> QED
    BY <2>1, <2>2, <2>3, AfterRow
<1>2. \A k \in Keys : u[k].sequence <= n
  BY <1>0, <1>1
<1>3. ASSUME NEW j \in 1..(n - 1) PROVE Done(l, u, j)
  <2>1. j \in 1..Len(l) /\ j < n /\ Done(l, t, j)
    BY <1>0 DEF Sound
  <2>2. l[j].key \in Keys /\ <<"source", l[j].key[2]>> \in Keys
    BY <2>1, KeysOf
  <2> HIDE DEF u
  <2> QED
    BY <1>0, <1>1, <2>1, <2>2 DEF Done
<1>4. Done(l, u, n)
  <2> HIDE DEF u
  <2>1. /\ l[n].key \in Keys /\ <<"source", l[n].key[2]>> \in Keys
        /\ l[n].key[1] = "deletion" => <<"source", l[n].key[2]>> # l[n].key
    BY KeysOf
  <2>2. u[l[n].key] = [sequence |-> n, value |-> l[n].value,
                       deleted |-> t[l[n].key].deleted \/ l[n].key[1] = "deletion"]
    <3>1. u[l[n].key] = After(l, n, l[n].key, t[l[n].key]) /\ t[l[n].key].sequence \in 0..(n - 1)
      BY <1>1, <2>1
    <3>2. n >= t[l[n].key].sequence
      BY <1>0, <3>1
    <3> QED
      BY <3>1, <3>2 DEF After
  <2>3. ASSUME l[n].key[1] = "deletion", NEW k \in Keys, k = <<"source", l[n].key[2]>>
        PROVE  u[k].sequence = 0 \/ (u[k].sequence = n /\ u[k].deleted)
    <3>1. /\ u[k] = After(l, n, k, t[k]) /\ t[k].sequence \in 0..(n - 1)
          /\ k # l[n].key
      BY <1>1, <2>1, <2>3
    <3>2. CASE t[k].sequence = 0
      BY <2>3, <3>1, <3>2 DEF After
    <3>3. CASE t[k].sequence # 0
      <4>1. t[k].sequence \in 1..n
        BY <1>0, <3>1, <3>3
      <4>2. u[k] = [sequence |-> n, value |-> t[k].value, deleted |-> TRUE]
        BY <2>3, <3>1, <4>1 DEF After
      <4> QED
        BY <4>2
    <3> QED
      BY <3>2, <3>3
  <2>4. u[l[n].key].sequence = n /\ u[l[n].key].value = l[n].value
    BY <2>2
  <2>5. l[n].key[1] = "deletion" => u[l[n].key].deleted
    <3>1. u[l[n].key].deleted = (t[l[n].key].deleted \/ l[n].key[1] = "deletion")
      BY <2>2
    <3> QED
      BY <3>1, Zenon
  <2> QED
    BY <1>0, <2>1, <2>3, <2>4, <2>5 DEF Done
<1>5. ASSUME NEW x \in Sources, DeletedBy(l, n, x)
      PROVE  u[<<"source", x>>].sequence > 0 /\ u[<<"source", x>>].deleted
  <2>0. <<"source", x>> \in Keys /\ <<"deletion", x>> # <<"source", x>>
    BY DEF Keys
  <2>1. PICK j \in 1..n, m \in 1..n :
          m < j /\ l[j].key = <<"deletion", x>> /\ l[m].key = <<"source", x>>
    BY <1>5 DEF DeletedBy
  <2>2. CASE j < n
    <3>1. DeletedBy(l, n - 1, x)
      BY <1>0, <2>1, <2>2 DEF DeletedBy
    <3>2. t[<<"source", x>>].sequence > 0 /\ t[<<"source", x>>].deleted
      BY <3>1 DEF Sound
    <3> HIDE DEF u
    <3> QED
      BY <1>0, <1>1, <2>0, <3>2
  <2>3. CASE j = n
    <3>1. m \in 1..(n - 1)
      BY <1>0, <2>1, <2>3
    <3>2. Done(l, t, m)
      BY <3>1 DEF Sound
    <3>3. t[<<"source", x>>].sequence >= m
      BY <1>0, <1>1, <2>0, <2>1, <3>1, <3>2 DEF Done
    <3>4. t[<<"source", x>>].sequence \in 1..n
      BY <1>0, <1>1, <2>0, <3>1, <3>3
    <3>5. l[n].key[1] = "deletion" /\ l[n].key[2] = x /\ <<"source", x>> # l[n].key
      BY <2>0, <2>1, <2>3
    <3>6. u[<<"source", x>>] = [sequence |-> n, value |-> t[<<"source", x>>].value, deleted |-> TRUE]
      BY <1>1, <2>0, <3>4, <3>5 DEF After
    <3> HIDE DEF u
    <3> QED
      BY <1>0, <3>6
  <2> QED
    BY <1>0, <2>1, <2>2, <2>3
<1>6. \A j \in 1..n : Done(l, u, j)
  BY <1>0, <1>3, <1>4
<1>7. Sound(l, u, n)
  <2> HIDE DEF u
  <2> QED
    BY <1>2, <1>5, <1>6 DEF Sound
<1> QED
  BY <1>7

(* A fold over an interval is a run through it, one entry at a time.       *)
LEMMA GreatestUpTo ==
  ASSUME NEW a \in Nat, NEW i \in Nat, a <= i
  PROVE  Max(a..i) = i
<1>1. i \in a..i /\ a..i \in SUBSET Nat /\ IsFiniteSet(a..i)
  BY FS_Interval
<1>2. Max(a..i) \in a..i /\ i <= Max(a..i)
  BY <1>1, Greatest
<1> QED
  BY <1>2

Run(l, T, a, b) ==
  T \in [a..b -> Tables(Len(l))] /\ \A i \in (a + 1)..b : T[i] = FoldedIn(l, i, T[i - 1])

LEMMA FoldRun ==
  ASSUME NEW l \in Seq(Record), NEW b \in 0..Len(l), NEW a \in 0..b,
         NEW table \in Tables(Len(l))
  PROVE  \E T : Run(l, T, a, b) /\ T[a] = table /\ FoldedOver(l, table, (a + 1)..b) = T[b]
<1>0. Len(l) \in Nat /\ a \in Nat /\ b \in Nat /\ a <= b /\ b <= Len(l)
  BY LenProperties
<1> DEFINE S == (a + 1)..b
<1>1. IsFiniteSet(S) /\ S \in SUBSET Nat /\ S \in SUBSET (1..Len(l))
  <2>1. a + 1 \in Int /\ b \in Int
    BY <1>0
  <2>2. IsFiniteSet(S)
    BY <2>1, FS_Interval
  <2> QED
    BY <1>0, <2>2
<1> HIDE DEF S
<1> DEFINE Ts == Tables(Len(l))
           pick == [s \in SUBSET S |-> Max(s)]
           F == [p \in S \X Ts |-> FoldedIn(l, p[1], p[2])]
           body(f) == [s \in SUBSET S |->
                         IF s = {} THEN table ELSE FoldedIn(l, Max(s), f[s \ {Max(s)}])]
           iter == CHOOSE f : f = body(f)
<1>2. ASSUME NEW s \in SUBSET S, s # {}
      PROVE  Max(s) \in s /\ pick[s] \in s /\ pick[s] = Max(s)
  BY <1>1, <1>2, FS_Subset, Greatest
<1>3. F \in [S \X Ts -> Ts]
  BY <1>1, FoldedTypes
<1>4. \E g \in [SUBSET S -> Ts] : Steps(S, Ts, pick, F, table, g)
  <2> HIDE DEF pick, F
  <2> QED
    BY <1>1, <1>2, <1>3, FoldExists
<1>5. PICK g \in [SUBSET S -> Ts] : Steps(S, Ts, pick, F, table, g)
  BY <1>4
<1>6. ASSUME NEW s \in SUBSET S, s # {}
      PROVE  g[s] = FoldedIn(l, Max(s), g[s \ {Max(s)}]) /\ g[s \ {Max(s)}] \in Ts
  <2>1. g[s] = F[<<Max(s), g[s \ {Max(s)}]>>]
    BY <1>2, <1>5, <1>6 DEF Steps
  <2> QED
    BY <1>2, <1>6, <2>1
<1>7. g[{}] = table
  BY <1>5 DEF Steps
<1>8. g = body(g)
  BY <1>6, <1>7
<1>9. iter = body(iter)
  <2> HIDE DEF body
  <2> QED
    BY <1>8
<1>10. FoldedOver(l, table, S) = iter[S]
  BY DEF FoldedOver, Ascending, MapThenFoldSet
<1>11. /\ iter[{}] = table
       /\ \A s \in SUBSET S : s # {} => iter[s] = FoldedIn(l, Max(s), iter[s \ {Max(s)}])
  BY <1>9
<1> HIDE DEF iter
<1> DEFINE T == [i \in a..b |-> iter[(a + 1)..i]]
<1>12. T[a] = table
  <2>1. (a + 1)..a = {} /\ a \in a..b
    BY <1>0
  <2> QED
    BY <1>11, <2>1
<1>13. ASSUME NEW i \in (a + 1)..b PROVE T[i] = FoldedIn(l, i, T[i - 1])
  <2>1. i \in Nat /\ i - 1 \in a..b /\ i \in a..b /\ i >= a + 1 /\ i <= b
    BY <1>0
  <2>2. Max((a + 1)..i) = i
    BY <1>0, <2>1, GreatestUpTo
  <2>5. (a + 1)..i \in SUBSET S /\ i \in (a + 1)..i
    BY <1>0, <2>1 DEF S
  <2>3. (a + 1)..i \ {i} = (a + 1)..(i - 1)
    BY <1>0, <2>1
  <2>4. iter[(a + 1)..i] = FoldedIn(l, i, iter[(a + 1)..(i - 1)])
    BY <1>11, <2>2, <2>3, <2>5
  <2> QED
    BY <2>1, <2>4
<1>14. T \in [a..b -> Ts]
  <2> DEFINE Q == {i \in a..b : T[i] \in Ts}
  <2>1. a \in Q
    BY <1>0, <1>12
  <2>2. ASSUME NEW i \in (a + 1)..b, i - 1 \in Q PROVE i \in Q
    <3>1. i \in a..b /\ i \in 1..Len(l) /\ T[i - 1] \in Ts
      BY <1>0, <2>2
    <3>2. FoldedIn(l, i, T[i - 1]) \in Ts
      <4> HIDE DEF T
      <4> QED
        BY <3>1, FoldedTypes
    <3> QED
      BY <1>13, <3>1, <3>2
  <2>3. \A i \in a..b : i \in Q
    <3> HIDE DEF Q, T
    <3> QED
      BY <1>0, <2>1, <2>2, Upwards
  <2> QED
    BY <2>3
<1>15. T[b] = iter[S]
  BY <1>0 DEF S
<1> QED
  <2>1. Run(l, T, a, b)
    <3> HIDE DEF T
    <3> QED
      BY <1>13, <1>14 DEF Run
  <2> HIDE DEF T
  <2> QED
    BY <1>10, <1>12, <1>15, <2>1 DEF S

(* A log that goes on replays as before as far as it went.                 *)
LEMMA RunsAgree ==
  ASSUME NEW l \in Seq(Record), NEW m \in Seq(Record), NEW n \in 0..Len(l), Extends(l, m),
         NEW T, Run(l, T, 0, n), NEW b \in n..Len(m), NEW U, Run(m, U, 0, b), T[0] = U[0]
  PROVE  \A i \in 0..n : T[i] = U[i]
<1>0. Len(l) \in Nat /\ Len(m) \in Nat /\ n \in Nat /\ b \in Nat /\ n <= b
  BY LenProperties
<1> DEFINE Q == {i \in 0..n : T[i] = U[i]}
<1>1. 0 \in Q
  BY <1>0
<1>2. ASSUME NEW i \in (0 + 1)..n, i - 1 \in Q PROVE i \in Q
  <2>1. i \in 1..Len(l) /\ i \in 1..b /\ i \in 0..n
    BY <1>0
  <2>2. m[i] = l[i] /\ T[i - 1] = U[i - 1]
    BY <1>2, <2>1 DEF Extends
  <2>3. FoldedIn(l, i, T[i - 1]) = FoldedIn(m, i, U[i - 1])
    BY <2>2 DEF FoldedIn, After
  <2> QED
    BY <1>2, <2>1, <2>3 DEF Run
<1>3. \A i \in 0..n : i \in Q
  <2> HIDE DEF Q
  <2> QED
    BY <1>0, <1>1, <1>2, Upwards
<1> QED
  BY <1>3

(* The replay of a prefix is sound, and stays what it is as the log        *)
(* grows.                                                                  *)
LEMMA EmptyTable ==
  ASSUME NEW l \in Seq(Record)
  PROVE  Empty \in Tables(Len(l)) /\ Sound(l, Empty, 0)
<1>1. Len(l) \in Nat
  BY LenProperties
<1>2. NoRow \in Row(Len(l)) /\ NoRow.sequence = 0
  BY <1>1 DEF NoRow, Row
<1>3. \A x : ~DeletedBy(l, 0, x)
  BY DEF DeletedBy
<1>4. \A k \in Keys : Empty[k].sequence <= 0
  BY <1>2 DEF Empty
<1> QED
  BY <1>2, <1>3, <1>4 DEF Empty, Tables, Sound

LEMMA ReplayRun ==
  ASSUME NEW l \in Seq(Record), NEW n \in 0..Len(l)
  PROVE  \E T : Run(l, T, 0, n) /\ T[0] = Empty /\ ReplayedIn(l, n) = T[n]
<1>1. Len(l) \in Nat /\ n \in 0..Len(l) /\ 0 \in 0..n
  BY LenProperties
<1>2. \E T : Run(l, T, 0, n) /\ T[0] = Empty /\ FoldedOver(l, Empty, (0 + 1)..n) = T[n]
  BY <1>1, EmptyTable, FoldRun
<1>3. (0 + 1)..n = 1..n
  OBVIOUS
<1> QED
  BY <1>2, <1>3 DEF ReplayedIn

LEMMA Replays ==
  ASSUME NEW l \in Seq(Record), NEW n \in 0..Len(l)
  PROVE  ReplayedIn(l, n) \in Tables(Len(l)) /\ Sound(l, ReplayedIn(l, n), n)
<1>0. Len(l) \in Nat /\ n \in Nat /\ n <= Len(l)
  BY LenProperties
<1>1. PICK T : Run(l, T, 0, n) /\ T[0] = Empty /\ ReplayedIn(l, n) = T[n]
  BY ReplayRun
<1> DEFINE Q == {i \in 0..n : Sound(l, T[i], i)}
<1>2. 0 \in Q
  BY <1>0, <1>1, EmptyTable
<1>3. ASSUME NEW i \in (0 + 1)..n, i - 1 \in Q PROVE i \in Q
  <2>1. /\ i \in 1..Len(l) /\ i \in 0..n /\ T[i - 1] \in Tables(Len(l))
        /\ Sound(l, T[i - 1], i - 1) /\ T[i] = FoldedIn(l, i, T[i - 1])
    BY <1>0, <1>1, <1>3 DEF Run
  <2> QED
    BY <2>1, FoldedSound
<1>4. \A i \in 0..n : i \in Q
  <2> HIDE DEF Q
  <2> QED
    BY <1>0, <1>2, <1>3, Upwards
<1> QED
  BY <1>0, <1>1, <1>4 DEF Run

LEMMA ReplayKept ==
  ASSUME NEW l \in Seq(Record), NEW m \in Seq(Record), NEW n \in 0..Len(l), Extends(l, m)
  PROVE  n \in 0..Len(m) /\ ReplayedIn(m, n) = ReplayedIn(l, n)
<1>0. Len(l) \in Nat /\ Len(m) \in Nat /\ n \in 0..Len(m) /\ n \in n..Len(m) /\ n \in 0..n
  BY LenProperties DEF Extends
<1>1. PICK T : Run(l, T, 0, n) /\ T[0] = Empty /\ ReplayedIn(l, n) = T[n]
  BY ReplayRun
<1>2. PICK U : Run(m, U, 0, n) /\ U[0] = Empty /\ ReplayedIn(m, n) = U[n]
  BY <1>0, ReplayRun
<1>3. \A i \in 0..n : T[i] = U[i]
  BY <1>0, <1>1, <1>2, RunsAgree
<1> QED
  BY <1>0, <1>1, <1>2, <1>3

(* Folding entries a + 1 to b into the replay of n >= a entries gives the  *)
(* replay of some longer prefix that reaches b: whoever projects, from     *)
(* whichever cursor it read, leaves the replay of a prefix.                *)
LEMMA Refolded ==
  ASSUME NEW l \in Seq(Record), NEW n \in 0..Len(l), NEW b \in 0..Len(l), NEW a \in 0..b, a <= n
  PROVE  \E N \in 0..Len(l) :
           /\ n <= N /\ b <= N
           /\ FoldedOver(l, ReplayedIn(l, n), (a + 1)..b) = ReplayedIn(l, N)
<1>0. Len(l) \in Nat /\ n \in Nat /\ b \in Nat /\ a \in Nat /\ a <= b /\ n <= Len(l) /\ b <= Len(l)
  BY LenProperties
<1> DEFINE N == IF b > n THEN b ELSE n
           Later(i) == IF i > n THEN i ELSE n
<1>1. N \in 0..Len(l) /\ n \in 0..N /\ N \in n..Len(l) /\ b <= N /\ Later(b) = N /\ N \in 0..N
  BY <1>0
<1> HIDE DEF N
<1>2. PICK U : Run(l, U, 0, N) /\ U[0] = Empty /\ ReplayedIn(l, N) = U[N]
  BY <1>1, ReplayRun
<1>3. PICK V : Run(l, V, 0, n) /\ V[0] = Empty /\ ReplayedIn(l, n) = V[n]
  BY ReplayRun
<1>4. ReplayedIn(l, n) = U[n]
  <2>1. Extends(l, l) /\ V[0] = U[0]
    BY <1>0, <1>2, <1>3 DEF Extends
  <2>2. \A i \in 0..n : V[i] = U[i]
    BY <1>1, <1>2, <1>3, <2>1, RunsAgree
  <2> QED
    BY <1>0, <1>3, <2>2
<1> DEFINE table == ReplayedIn(l, n)
<1>5. table \in Tables(Len(l)) /\ Sound(l, table, n)
  BY Replays
<1> HIDE DEF table
<1>6. PICK W : Run(l, W, a, b) /\ W[a] = table /\ FoldedOver(l, table, (a + 1)..b) = W[b]
  BY <1>5, FoldRun
<1> DEFINE Q == {i \in a..b : W[i] = U[Later(i)]}
<1>7. a \in Q
  <2>1. Later(a) = n /\ a \in a..b
    BY <1>0
  <2> QED
    BY <1>4, <1>6, <2>1 DEF table
<1>8. ASSUME NEW i \in (a + 1)..b, i - 1 \in Q PROVE i \in Q
  <2>1. i \in a..b /\ W[i] = FoldedIn(l, i, W[i - 1]) /\ W[i - 1] = U[Later(i - 1)] /\ i \in Nat
    BY <1>0, <1>6, <1>8 DEF Run
  <2>2. CASE i <= n
    <3>1. Later(i) = n /\ Later(i - 1) = n /\ i \in 1..n
      BY <1>0, <2>1, <2>2
    <3>2. FoldedIn(l, i, table) = table
      BY <1>5, <3>1, Absorbed
    <3> QED
      BY <1>4, <2>1, <3>1, <3>2 DEF table
  <2>3. CASE i > n
    <3>1. Later(i) = i /\ Later(i - 1) = i - 1 /\ i \in 1..N
      BY <1>0, <1>1, <2>1, <2>3 DEF N
    <3>2. U[i] = FoldedIn(l, i, U[i - 1])
      BY <1>2, <3>1 DEF Run
    <3> QED
      BY <2>1, <3>1, <3>2
  <2> QED
    BY <1>0, <2>1, <2>2, <2>3
<1>9. \A i \in a..b : i \in Q
  <2> HIDE DEF Q
  <2> QED
    BY <1>0, <1>7, <1>8, Upwards
<1>10. W[b] = U[N]
  BY <1>0, <1>1, <1>9
<1> QED
  BY <1>0, <1>1, <1>2, <1>6, <1>10 DEF table

-----------------------------------------------------------------------------
(* Requests and what they are at                                           *)

(* Requests under way: a page of events the device has, and while the      *)
(* request works there is an event of the page left.                       *)
Working == {"ensure", "stage", "check", "append", "cursor", "rows", "fold", "views", "save", "mark"}
Projecting == {"cursor", "rows", "fold", "views", "save"}

Placed(f) ==
  f.dev \in Devices /\ f.first \in 1..(f.last + 1) /\ f.last <= Len(Local[f.dev])

InOrder(f) ==
  /\ f.at # "idle" => Placed(f)
  /\ f.at \in Working => f.first <= f.last
  /\ f.at = "done" => f.first = f.last + 1
  /\ f.at \in Projecting => f.then \in {"stage", "mark", "next"}
  /\ f.at = "fold" => f.cursor <= f.upto

RequestsInOrder == \A h \in Handlers : InOrder(handler[h])

Requests(n) ==
  [at : Working \cup {"idle", "done"}, dev : Devices \cup {"none"}, first : Nat, last : Nat,
   cursor : 0..n, upto : 0..n, then : {"none", "stage", "mark", "next"}]

(* LogTypeOK, now and after a step, by those names.                        *)
LEMMA LogTypes ==
  LogTypeOK <=> /\ log \in Seq(Record)
                /\ staged \in [Devices -> SUBSET Nat] /\ applied \in [Devices -> SUBSET Nat]
                /\ rows \in Tables(Len(log))
                /\ projected \in 0..Len(log)
                /\ views \in [Sources -> {"none", "live", "deleted"}]
                /\ handler \in [Handlers -> Requests(Len(log))]
<1>1. Request = Requests(Len(log))
  BY DEF Request, Requests, Working
<1>2. [Keys -> [sequence : 0..Len(log), value : Nat, deleted : BOOLEAN]] = Tables(Len(log))
  BY DEF Tables, Row
<1> QED
  BY <1>1, <1>2 DEF LogTypeOK, Record

LEMMA LogTypesNext ==
  LogTypeOK' <=> /\ log' \in Seq(Record)
                 /\ staged' \in [Devices -> SUBSET Nat] /\ applied' \in [Devices -> SUBSET Nat]
                 /\ rows' \in Tables(Len(log'))
                 /\ projected' \in 0..Len(log')
                 /\ views' \in [Sources -> {"none", "live", "deleted"}]
                 /\ handler' \in [Handlers -> Requests(Len(log'))]
<1>1. Request' = Requests(Len(log'))
  BY DEF Request, Requests, Working
<1>2. [Keys -> [sequence : 0..Len(log'), value : Nat, deleted : BOOLEAN]] = Tables(Len(log'))
  BY DEF Tables, Row
<1> QED
  BY <1>1, <1>2 DEF LogTypeOK, Record

(* What a page has of a commit is a window at the front of the page, so    *)
(* that Onward starts at the next commit.                                  *)
LEMMA SliceWindow ==
  ASSUME LogTypeOK, NEW h \in Handlers, InOrder(handler[h]), handler[h].at \in Working
  PROVE  /\ Cardinality(Slice(h)) \in Nat \ {0}
         /\ handler[h].first + Cardinality(Slice(h)) - 1 <= handler[h].last
         /\ Slice(h) = handler[h].first..(handler[h].first + Cardinality(Slice(h)) - 1)
         /\ handler[h].first \in 1..Len(Local[handler[h].dev])
         /\ Slice(h) = EventsOf(handler[h].dev, Commit(h)) \cap (handler[h].first..handler[h].last)
         /\ EventsOf(handler[h].dev, Commit(h)) \in SUBSET (1..Len(Local[handler[h].dev]))
<1> DEFINE d == handler[h].dev
           f == handler[h].first
           z == handler[h].last
<1>1. d \in Devices /\ f \in Nat /\ z \in Nat /\ 1 <= f /\ f <= z /\ z <= Len(Local[d])
  BY LogTypes DEF InOrder, Placed, Working, Requests
<1> HIDE DEF d, f, z
<1>2. Len(Local[d]) \in Nat /\ DOMAIN Local[d] = 1..Len(Local[d])
  BY <1>1, Entries
<1>3. f \in 1..Len(Local[d])
  BY <1>1, <1>2
<1>4. /\ EventsOf(d, Commit(h)) = {e \in 1..Len(Local[d]) : Local[d][e].commit = Local[d][f].commit}
      /\ Slice(h) = EventsOf(d, Commit(h)) \cap (f..z)
  BY <1>2 DEF EventsOf, Commit, Slice, d, f, z
<1>5. Slice(h) \in SUBSET (f..z) /\ f \in Slice(h) /\ Slice(h) \in SUBSET Nat
  BY <1>1, <1>3, <1>4
<1>6. IsFiniteSet(Slice(h))
  <2>1. IsFiniteSet(f..z)
    BY <1>1, FS_Interval
  <2> QED
    BY <1>5, <2>1, FS_Subset
<1> DEFINE m == Max(Slice(h))
<1>7. m \in Slice(h) /\ \A x \in Slice(h) : x <= m
  BY <1>5, <1>6, Greatest
<1> HIDE DEF m
<1>8. Slice(h) = f..m
  <2>1. \A i, k \in 1..Len(Local[d]) :
          Local[d][i].commit = Local[d][k].commit
            => \A j \in i..k : Local[d][j].commit = Local[d][i].commit
    BY <1>1, Entries
  <2>2. m \in 1..Len(Local[d]) /\ Local[d][f].commit = Local[d][m].commit /\ m \in f..z
    BY <1>4, <1>7
  <2>3. \A j \in f..m : Local[d][j].commit = Local[d][f].commit
    BY <1>3, <2>1, <2>2
  <2>4. \A j \in f..m : j \in 1..Len(Local[d]) /\ j \in f..z
    BY <1>1, <1>2, <2>2
  <2>5. f..m \subseteq Slice(h)
    BY <1>4, <2>3, <2>4
  <2>6. Slice(h) \subseteq f..m
    BY <1>1, <1>5, <1>7, <2>2
  <2> QED
    BY <2>5, <2>6
<1>9. m \in Nat /\ f <= m /\ m <= z
  BY <1>1, <1>5, <1>7
<1>10. Cardinality(Slice(h)) = m - f + 1
  BY <1>1, <1>8, <1>9, FS_Interval
<1>11. Cardinality(Slice(h)) \in Nat \ {0} /\ f + Cardinality(Slice(h)) - 1 = m
  BY <1>1, <1>9, <1>10
<1>12. EventsOf(d, Commit(h)) \in SUBSET (1..Len(Local[d]))
  BY <1>4
<1> QED
  BY <1>3, <1>4, <1>8, <1>9, <1>11, <1>12 DEF d, f, z

LEMMA OnwardInOrder ==
  ASSUME NEW n \in Nat, NEW f \in Requests(n), Placed(f), NEW c \in Nat \ {0},
         f.first + c - 1 <= f.last
  PROVE  /\ Onward(f, c) \in Requests(n) /\ InOrder(Onward(f, c))
         /\ Onward(f, c).at \in {"stage", "done"}
         /\ Onward(f, c).first = f.first + c /\ Onward(f, c).last = f.last /\ Onward(f, c).dev = f.dev
         /\ Onward(f, c).cursor = f.cursor
<1>1. f.first \in Nat /\ f.last \in Nat /\ f.dev \in Devices /\ f.last <= Len(Local[f.dev])
  BY DEF Requests, Placed
<1>2. ASSUME NEW at \in {"stage", "done"}, NEW first \in Nat
      PROVE  /\ [f EXCEPT !.at = at, !.first = first] \in Requests(n)
             /\ [f EXCEPT !.at = at, !.first = first].at = at
             /\ [f EXCEPT !.at = at, !.first = first].first = first
             /\ [f EXCEPT !.at = at, !.first = first].last = f.last
             /\ [f EXCEPT !.at = at, !.first = first].dev = f.dev
             /\ [f EXCEPT !.at = at, !.first = first].cursor = f.cursor
  BY DEF Requests, Working
<1>3. CASE f.first + c > f.last
  <2>1. Onward(f, c) = [f EXCEPT !.at = "done", !.first = f.first + c]
    BY <1>3 DEF Onward
  <2>2. f.first + c = f.last + 1 /\ f.first + c \in Nat
    BY <1>1, <1>3
  <2> QED
    <3> DEFINE g == [f EXCEPT !.at = "done", !.first = f.first + c]
    <3>1. /\ g \in Requests(n) /\ g.at = "done" /\ g.first = f.first + c /\ g.last = f.last
          /\ g.dev = f.dev /\ g.cursor = f.cursor
      BY <1>2, <2>2
    <3>2. Onward(f, c) = g
      BY <2>1
    <3> HIDE DEF g
    <3>3. InOrder(g)
      BY <1>1, <2>2, <3>1 DEF InOrder, Placed, Working, Projecting
    <3> QED
      BY <3>1, <3>2, <3>3
<1>4. CASE ~(f.first + c > f.last)
  <2>1. Onward(f, c) = [f EXCEPT !.at = "stage", !.first = f.first + c]
    BY <1>4 DEF Onward
  <2>2. f.first + c \in Nat /\ f.first + c >= 1 /\ f.first + c <= f.last
    BY <1>1, <1>4
  <2> QED
    <3> DEFINE g == [f EXCEPT !.at = "stage", !.first = f.first + c]
    <3>1. /\ g \in Requests(n) /\ g.at = "stage" /\ g.first = f.first + c /\ g.last = f.last
          /\ g.dev = f.dev /\ g.cursor = f.cursor
      BY <1>2, <2>2
    <3>2. Onward(f, c) = g
      BY <2>1
    <3> HIDE DEF g
    <3>3. InOrder(g)
      BY <1>1, <2>2, <3>1 DEF InOrder, Placed, Working, Projecting
    <3> QED
      BY <3>1, <3>2, <3>3
<1> QED
  BY <1>3, <1>4

(* Every step of a handler replaces its request by another in order.       *)
Moves(h, g) == handler' = [handler EXCEPT ![h] = g]

Typed(g) == g \in Requests(Len(log')) /\ InOrder(g)

Same(f, g) == g.dev = f.dev /\ g.first = f.first /\ g.last = f.last

Thens == {"none", "stage", "mark", "next"}

Turn(f, at) == [f EXCEPT !.at = at]

(* The fields of a request after each kind of step.                        *)
LEMMA TurnFields ==
  ASSUME NEW n \in Nat, NEW f \in Requests(n), NEW at \in Working \cup {"idle", "done"}
  PROVE  /\ Turn(f, at) \in Requests(n) /\ Same(f, Turn(f, at))
         /\ Turn(f, at).at = at /\ Turn(f, at).then = f.then
         /\ Turn(f, at).cursor = f.cursor /\ Turn(f, at).upto = f.upto
BY DEF Turn, Requests, Same, Thens

Project(f, at, then) == [f EXCEPT !.at = at, !.then = then]

LEMMA ProjectFields ==
  ASSUME NEW n \in Nat, NEW f \in Requests(n), NEW at \in Working \cup {"idle", "done"},
         NEW then \in Thens
  PROVE  /\ Project(f, at, then) \in Requests(n) /\ Same(f, Project(f, at, then))
         /\ Project(f, at, then).at = at /\ Project(f, at, then).then = then
         /\ Project(f, at, then).cursor = f.cursor /\ Project(f, at, then).upto = f.upto
BY DEF Project, Requests, Same, Thens

Read(f, at, c) == [f EXCEPT !.at = at, !.cursor = c]

LEMMA ReadFields ==
  ASSUME NEW n \in Nat, NEW f \in Requests(n), NEW at \in Working \cup {"idle", "done"}, NEW c \in 0..n
  PROVE  /\ Read(f, at, c) \in Requests(n) /\ Same(f, Read(f, at, c))
         /\ Read(f, at, c).at = at /\ Read(f, at, c).then = f.then
         /\ Read(f, at, c).cursor = c /\ Read(f, at, c).upto = f.upto
BY DEF Read, Requests, Same, Thens

Aim(f, at, u) == [f EXCEPT !.at = at, !.upto = u]

LEMMA AimFields ==
  ASSUME NEW n \in Nat, NEW f \in Requests(n), NEW at \in Working \cup {"idle", "done"}, NEW u \in 0..n
  PROVE  /\ Aim(f, at, u) \in Requests(n) /\ Same(f, Aim(f, at, u))
         /\ Aim(f, at, u).at = at /\ Aim(f, at, u).then = f.then
         /\ Aim(f, at, u).cursor = f.cursor /\ Aim(f, at, u).upto = u
BY DEF Aim, Requests, Same, Thens

Fold(f, c) == [f EXCEPT !.at = "rows", !.cursor = c, !.upto = 0]

LEMMA FoldFields ==
  ASSUME NEW n \in Nat, NEW f \in Requests(n), NEW c \in 0..n
  PROVE  /\ Fold(f, c) \in Requests(n) /\ Same(f, Fold(f, c))
         /\ Fold(f, c).at = "rows" /\ Fold(f, c).then = f.then
         /\ Fold(f, c).cursor = c /\ Fold(f, c).upto = 0
<1>1. "rows" \in Working \cup {"idle", "done"} /\ 0 \in 0..n
  BY DEF Working
<1> QED
  BY <1>1 DEF Fold, Requests, Same

Over(f, c, then) == [f EXCEPT !.cursor = c, !.then = then]

LEMMA OverFields ==
  ASSUME NEW n \in Nat, NEW f \in Requests(n), NEW c \in 0..n, NEW then \in Thens
  PROVE  /\ Over(f, c, then) \in Requests(n) /\ Same(f, Over(f, c, then))
         /\ Over(f, c, then).at = f.at /\ Over(f, c, then).then = then
         /\ Over(f, c, then).cursor = c /\ Over(f, c, then).upto = f.upto
BY DEF Over, Requests, Same, Thens

(* The steps of a handler, each with the request it leaves.                *)
LEMMA Here ==
  ASSUME LogTypeOK, NEW h \in Handlers, InOrder(handler[h])
  PROVE  /\ handler \in [Handlers -> Requests(Len(log))] /\ handler[h] \in Requests(Len(log))
         /\ Len(log) \in Nat /\ handler[h].cursor \in 0..Len(log) /\ projected \in 0..Len(log)
         /\ handler[h].at \in Working \cup {"idle", "done"} /\ handler[h].then \in Thens
         /\ handler[h].upto \in 0..Len(log)
<1>1. handler[h] \in Requests(Len(log)) /\ handler \in [Handlers -> Requests(Len(log))]
  BY LogTypes
<1> QED
  BY <1>1, LogTypes, LenProperties DEF Requests, Thens

LEMMA EnsuresMoves ==
  ASSUME LogTypeOK, NEW h \in Handlers, InOrder(handler[h]), Ensures(h)
  PROVE  \E g : /\ Moves(h, g) /\ Typed(g) /\ Same(handler[h], g) /\ g.cursor = handler[h].cursor
                /\ (g.at = "cursor" /\ g.then = "stage") \/ g.at = "stage"
<1>1. log' = log /\ handler[h].at = "ensure"
  BY DEF Ensures, At
<1> DEFINE at == IF Len(log) > projected THEN "cursor" ELSE "stage"
           then == IF Len(log) > projected THEN "stage" ELSE "none"
           g == Project(handler[h], at, then)
<1>2. Moves(h, g)
  BY Here DEF Ensures, Moves, Project
<1>3. /\ at \in Working \cup {"idle", "done"} /\ then \in Thens
      /\ (at = "cursor" /\ then = "stage") \/ at = "stage"
  BY DEF Working, Thens
<1> HIDE DEF at, then
<1>4. /\ g \in Requests(Len(log)) /\ g.at = at /\ g.then = then /\ g.cursor = handler[h].cursor
      /\ Same(handler[h], g)
  BY <1>3, Here, ProjectFields
<1> HIDE DEF g
<1>5. InOrder(g)
  BY <1>1, <1>3, <1>4 DEF InOrder, Placed, Working, Projecting, Same
<1> QED
  BY <1>1, <1>2, <1>3, <1>4, <1>5 DEF Typed

LEMMA GoesMoves ==
  ASSUME LogTypeOK, NEW h \in Handlers, InOrder(handler[h]), NEW here, NEW there, At(h, here),
         Goes(h, there), log' = log,
         \/ here = "stage" /\ there = "check"
         \/ here = "views" /\ there = "save"
  PROVE  \E g : /\ Moves(h, g) /\ Typed(g) /\ Same(handler[h], g) /\ g.cursor = handler[h].cursor
                /\ g.at = there /\ g.then = handler[h].then
<1> DEFINE g == Turn(handler[h], there)
<1>2. Moves(h, g)
  BY Here DEF Goes, Moves, Turn
<1>3. /\ g \in Requests(Len(log)) /\ g.at = there /\ g.then = handler[h].then
      /\ g.cursor = handler[h].cursor /\ Same(handler[h], g)
  <2>1. there \in Working \cup {"idle", "done"}
    BY DEF Working
  <2> QED
    BY <2>1, Here, TurnFields
<1> HIDE DEF g
<1>4. InOrder(g)
  BY <1>3 DEF InOrder, Placed, Working, Projecting, Same, At
<1> QED
  BY <1>2, <1>3, <1>4 DEF Typed

LEMMA OnwardMoves ==
  ASSUME LogTypeOK, NEW h \in Handlers, InOrder(handler[h]), handler[h].at \in Working,
         NEW f \in Requests(Len(log)), Same(handler[h], f)
  PROVE  LET g == Onward(f, Cardinality(Slice(h))) IN
         /\ g \in Requests(Len(log)) /\ InOrder(g) /\ g.at \in {"stage", "done"}
         /\ g.first = handler[h].first + Cardinality(Slice(h)) /\ g.last = handler[h].last
         /\ g.dev = handler[h].dev /\ g.cursor = f.cursor
<1>1. /\ Cardinality(Slice(h)) \in Nat \ {0}
      /\ handler[h].first + Cardinality(Slice(h)) - 1 <= handler[h].last
  BY SliceWindow
<1>2. f.first + Cardinality(Slice(h)) - 1 <= f.last
  BY <1>1 DEF Same
<1> DEFINE c == Cardinality(Slice(h))
           n == Len(log)
<1>3. n \in Nat /\ c \in Nat \ {0} /\ f.first + c - 1 <= f.last /\ f \in Requests(n) /\ Placed(f)
  BY <1>1, <1>2, Here DEF InOrder, Working, Same, Placed
<1> HIDE DEF c, n
<1> DEFINE g == Onward(f, c)
<1>4. /\ g \in Requests(n) /\ InOrder(g) /\ g.at \in {"stage", "done"}
      /\ g.first = f.first + c /\ g.last = f.last
      /\ g.dev = f.dev /\ g.cursor = f.cursor
  BY <1>3, OnwardInOrder
<1> HIDE DEF g
<1>5. g.first = handler[h].first + c /\ g.last = handler[h].last /\ g.dev = handler[h].dev
  BY <1>4 DEF Same
<1> QED
  BY <1>4, <1>5 DEF g, c, n

LEMMA ChecksMoves ==
  ASSUME LogTypeOK, NEW h \in Handlers, InOrder(handler[h]), Checks(h)
  PROVE  \E g : /\ Moves(h, g) /\ Typed(g) /\ g.cursor = handler[h].cursor
                /\ g.dev = handler[h].dev /\ g.last = handler[h].last
                /\ \/ /\ ~Complete(handler[h].dev, Commit(h)) /\ g.at \in {"stage", "done"}
                      /\ g.first = handler[h].first + Cardinality(Slice(h))
                   \/ /\ Complete(handler[h].dev, Commit(h)) /\ Same(handler[h], g)
                      /\ \/ g.at = "append"
                         \/ /\ Commit(h) \in applied[handler[h].dev]
                            /\ g.at = "cursor" /\ g.then = "next"
<1>1. log' = log /\ handler[h].at = "check" /\ handler[h].at \in Working
  BY DEF Checks, At, Working
<1> DEFINE d == handler[h].dev
<1>2. CASE ~Complete(d, Commit(h))
  <2> DEFINE g == Onward(handler[h], Cardinality(Slice(h)))
  <2>1. Moves(h, g)
    BY <1>2, Here DEF Checks, Moves
  <2>2. Same(handler[h], handler[h])
    BY DEF Same
  <2>3. /\ g \in Requests(Len(log)) /\ InOrder(g) /\ g.at \in {"stage", "done"}
        /\ g.first = handler[h].first + Cardinality(Slice(h)) /\ g.last = handler[h].last
        /\ g.dev = handler[h].dev /\ g.cursor = handler[h].cursor
    BY <1>1, <2>2, Here, OnwardMoves
  <2> HIDE DEF g
  <2> QED
    BY <1>1, <1>2, <2>1, <2>3 DEF Typed
<1>3. CASE Complete(d, Commit(h)) /\ Commit(h) \in applied[d]
  <2> DEFINE g == Project(handler[h], "cursor", "next")
  <2>1. Moves(h, g)
    BY <1>3, Here DEF Checks, Moves, Project
  <2>2. /\ g \in Requests(Len(log)) /\ g.at = "cursor" /\ g.then = "next"
        /\ g.cursor = handler[h].cursor /\ Same(handler[h], g)
    <3>1. "cursor" \in Working \cup {"idle", "done"} /\ "next" \in Thens
      BY DEF Working, Thens
    <3> QED
      BY <3>1, Here, ProjectFields
  <2> HIDE DEF g
  <2>3. InOrder(g)
    BY <1>1, <2>2 DEF InOrder, Placed, Working, Projecting, Same
  <2> QED
    BY <1>1, <1>3, <2>1, <2>2, <2>3 DEF Typed, Same
<1>4. CASE Complete(d, Commit(h)) /\ Commit(h) \notin applied[d]
  <2> DEFINE g == Turn(handler[h], "append")
  <2>1. Moves(h, g)
    BY <1>4, Here DEF Checks, Moves, Turn
  <2>2. /\ g \in Requests(Len(log)) /\ g.at = "append"
        /\ g.cursor = handler[h].cursor /\ Same(handler[h], g)
    <3>1. "append" \in Working \cup {"idle", "done"}
      BY DEF Working
    <3> QED
      BY <3>1, Here, TurnFields
  <2> HIDE DEF g
  <2>3. InOrder(g)
    BY <1>1, <2>2 DEF InOrder, Placed, Working, Projecting, Same
  <2> QED
    BY <1>1, <1>4, <2>1, <2>2, <2>3 DEF Typed, Same
<1> QED
  BY <1>2, <1>3, <1>4

(* The events of the commit a request is at, and the page's share of       *)
(* them.                                                                   *)
CommitAt(f) == Local[f.dev][f.first].commit
EventsAt(f) == EventsOf(f.dev, CommitAt(f))
SliceAt(f) == EventsAt(f) \cap (f.first..f.last)

LEMMA Grows ==
  ASSUME NEW l \in Seq(Record), NEW m \in Seq(Record), Extends(l, m)
  PROVE  /\ Len(l) \in Nat /\ Len(m) \in Nat /\ Len(l) <= Len(m)
         /\ Requests(Len(l)) \subseteq Requests(Len(m)) /\ Tables(Len(l)) \subseteq Tables(Len(m))
         /\ 0..Len(l) \subseteq 0..Len(m)
         /\ \A r : Holds(l, r) => Holds(m, r)
<1>1. Len(l) \in Nat /\ Len(m) \in Nat /\ Len(l) <= Len(m)
  BY LenProperties DEF Extends
<1>2. 0..Len(l) \subseteq 0..Len(m)
  BY <1>1
<1>3. Requests(Len(l)) \subseteq Requests(Len(m))
  BY <1>2 DEF Requests
<1>4. Row(Len(l)) \subseteq Row(Len(m))
  BY <1>2 DEF Row
<1>5. Tables(Len(l)) \subseteq Tables(Len(m))
  BY <1>4 DEF Tables
<1>6. \A r : Holds(l, r) => Holds(m, r)
  BY <1>1 DEF Extends, Holds
<1> QED
  BY <1>1, <1>2, <1>3, <1>5, <1>6

(* Appending a complete commit leaves all of it in the log.                *)
LEMMA Appending ==
  ASSUME NEW h, Appends(h)
  PROVE  log' = AppendedAll(handler[h].dev, log,
                            EventsOf(handler[h].dev, Commit(h)) \cap staged[handler[h].dev])
BY DEF Appends, AppendedAll, Ascending, MapThenFoldSet

LEMMA AppendsMoves ==
  ASSUME LogTypeOK, NEW h \in Handlers, InOrder(handler[h]), Appends(h),
         EventsAt(handler[h]) \subseteq staged[handler[h].dev]
  PROVE  \E g : /\ Moves(h, g) /\ Typed(g) /\ Same(handler[h], g) /\ g.cursor = handler[h].cursor
                /\ g.at = "cursor" /\ g.then = "mark"
                /\ log' \in Seq(Record) /\ Extends(log, log')
                /\ \A e \in EventsAt(handler[h]) : Holds(log', Entry(handler[h].dev, e))
<1>1. log \in Seq(Record) /\ handler[h].at = "append" /\ handler[h].at \in Working
  BY LogTypes DEF Appends, At, Working
<1> DEFINE d == handler[h].dev
           S == EventsAt(handler[h])
<1>2. d \in Devices /\ S \in SUBSET (1..Len(Local[d])) /\ S \cap staged[d] = S
  BY <1>1, SliceWindow DEF InOrder, Placed, EventsAt, CommitAt, Commit
<1>3. log' = AppendedAll(d, log, S)
  BY <1>2, Appending DEF EventsAt, CommitAt, Commit
<1>4. /\ log' \in Seq(Record) /\ Extends(log, log')
      /\ \A e \in S : Holds(log', Entry(d, e))
  <2> HIDE DEF d, S
  <2> QED
    BY <1>1, <1>2, <1>3, AppendsAll
<1> DEFINE g == Project(handler[h], "cursor", "mark")
<1>5. Moves(h, g)
  BY Here DEF Appends, Moves, Project
<1>6. /\ g \in Requests(Len(log)) /\ g.at = "cursor" /\ g.then = "mark"
      /\ g.cursor = handler[h].cursor /\ Same(handler[h], g)
  <2>1. "cursor" \in Working \cup {"idle", "done"} /\ "mark" \in Thens
    BY DEF Working, Thens
  <2> QED
    BY <2>1, Here, ProjectFields
<1> HIDE DEF g
<1>7. InOrder(g)
  BY <1>1, <1>6 DEF InOrder, Placed, Working, Projecting, Same
<1>8. g \in Requests(Len(log'))
  BY <1>1, <1>4, <1>6, Grows
<1> QED
  BY <1>4, <1>5, <1>6, <1>7, <1>8 DEF Typed

LEMMA ReadsCursorMoves ==
  ASSUME LogTypeOK, NEW h \in Handlers, InOrder(handler[h]), ReadsCursor(h)
  PROVE  \E g : /\ Moves(h, g) /\ Typed(g) /\ Same(handler[h], g) /\ g.cursor = projected
                /\ g.at = "rows" /\ g.then = handler[h].then
<1>1. log' = log /\ handler[h].at = "cursor" /\ "rows" \in Working \cup {"idle", "done"}
  BY DEF ReadsCursor, At, Working
<1> DEFINE g == Read(handler[h], "rows", projected)
<1>2. Moves(h, g)
  BY Here DEF ReadsCursor, Moves, Read
<1>3. /\ g \in Requests(Len(log)) /\ g.at = "rows" /\ g.then = handler[h].then
      /\ g.cursor = projected /\ Same(handler[h], g)
  BY <1>1, Here, ReadFields
<1> HIDE DEF g
<1>4. InOrder(g)
  BY <1>1, <1>3 DEF InOrder, Placed, Working, Projecting, Same
<1> QED
  BY <1>1, <1>2, <1>3, <1>4 DEF Typed

LEMMA ReadsRowsMoves ==
  ASSUME LogTypeOK, NEW h \in Handlers, InOrder(handler[h]), ReadsRows(h)
  PROVE  \E g : /\ Moves(h, g) /\ Typed(g) /\ Same(handler[h], g) /\ g.cursor = handler[h].cursor
                /\ g.at \in {"views", "fold"} /\ g.then = handler[h].then
<1>1. log' = log /\ handler[h].at = "rows"
  BY DEF ReadsRows, At
<1> DEFINE S == {handler[h].cursor + LogPage, Len(log)}
           upto == Min(S)
<1>2. upto \in 0..Len(log) /\ handler[h].cursor <= upto
  <2>1. Len(log) \in Nat /\ handler[h].cursor \in 0..Len(log)
    BY Here
  <2>2. handler[h].cursor + LogPage \in Nat /\ handler[h].cursor <= handler[h].cursor + LogPage
    BY <2>1, MemoryLogAssumption
  <2>3. upto \in S /\ \A x \in S : upto <= x
    <3>1. \E x \in S : \A y \in S : x <= y
      BY <2>1, <2>2
    <3> QED
      BY <3>1 DEF Min
  <2> QED
    BY <2>1, <2>2, <2>3
<1> HIDE DEF upto, S
<1> DEFINE at == IF upto = handler[h].cursor THEN "views" ELSE "fold"
           to == IF upto = handler[h].cursor THEN 0 ELSE upto
           g == Aim(handler[h], at, to)
<1>3. Moves(h, g)
  BY Here DEF ReadsRows, Moves, Aim, upto, S
<1>4. /\ at \in Working \cup {"idle", "done"} /\ to \in 0..Len(log)
      /\ at \in {"views", "fold"} /\ (at = "fold" => handler[h].cursor <= to)
  BY <1>2, Here DEF Working
<1> HIDE DEF at, to
<1>5. /\ g \in Requests(Len(log)) /\ g.at = at /\ g.then = handler[h].then
      /\ g.cursor = handler[h].cursor /\ g.upto = to /\ Same(handler[h], g)
  BY <1>4, Here, AimFields
<1> HIDE DEF g
<1>6. InOrder(g)
  BY <1>1, <1>4, <1>5 DEF InOrder, Placed, Working, Projecting, Same
<1> QED
  BY <1>1, <1>3, <1>4, <1>5, <1>6 DEF Typed

LEMMA FoldsMoves ==
  ASSUME LogTypeOK, NEW h \in Handlers, InOrder(handler[h]), Folds(h)
  PROVE  \E g : /\ Moves(h, g) /\ Typed(g) /\ Same(handler[h], g) /\ g.cursor = handler[h].upto
                /\ g.at = "rows" /\ g.then = handler[h].then
<1>1. log' = log /\ handler[h].at = "fold" /\ "rows" \in Working \cup {"idle", "done"}
  BY DEF Folds, At, Working
<1> DEFINE g == Fold(handler[h], handler[h].upto)
<1>2. Moves(h, g)
  BY Here DEF Folds, Moves, Fold
<1>3. /\ g \in Requests(Len(log)) /\ g.at = "rows" /\ g.then = handler[h].then
      /\ g.cursor = handler[h].upto /\ Same(handler[h], g)
  <2>1. Len(log) \in Nat /\ handler[h] \in Requests(Len(log)) /\ handler[h].upto \in 0..Len(log)
    BY Here
  <2> QED
    BY <2>1, FoldFields
<1> HIDE DEF g
<1>4. InOrder(g)
  BY <1>1, <1>3 DEF InOrder, Placed, Working, Projecting, Same
<1> QED
  BY <1>1, <1>2, <1>3, <1>4 DEF Typed

LEMMA SavesMoves ==
  ASSUME LogTypeOK, NEW h \in Handlers, InOrder(handler[h]), Saves(h)
  PROVE  \E g : /\ Moves(h, g) /\ Typed(g) /\ g.cursor = 0
                /\ g.dev = handler[h].dev /\ g.last = handler[h].last
                /\ \/ /\ handler[h].then = "next" /\ g.at \in {"stage", "done"}
                      /\ g.first = handler[h].first + Cardinality(Slice(h))
                   \/ /\ handler[h].then \in {"stage", "mark"} /\ g.at = handler[h].then
                      /\ g.first = handler[h].first
<1>1. log' = log /\ handler[h].at = "save" /\ handler[h].at \in Working
  BY DEF Saves, At, Working
<1> DEFINE over == Over(handler[h], 0, "none")
<1>2. /\ over \in Requests(Len(log)) /\ over.at = handler[h].at /\ over.then = "none"
      /\ over.cursor = 0 /\ Same(handler[h], over)
  <2>1. 0 \in 0..Len(log) /\ "none" \in Thens
    BY Here DEF Thens
  <2> QED
    BY <2>1, Here, OverFields
<1>3. handler' = [handler EXCEPT ![h] =
        IF handler[h].then = "next" THEN Onward(over, Cardinality(Slice(h)))
        ELSE [over EXCEPT !.at = handler[h].then]]
  BY DEF Saves, Over
<1> HIDE DEF over
<1>4. handler[h].then \in {"stage", "mark", "next"}
  BY <1>1 DEF InOrder, Projecting
<1>5. CASE handler[h].then = "next"
  <2> DEFINE g == Onward(over, Cardinality(Slice(h)))
  <2>1. Moves(h, g)
    BY <1>3, <1>5 DEF Moves
  <2>2. /\ g \in Requests(Len(log)) /\ InOrder(g) /\ g.at \in {"stage", "done"}
        /\ g.first = handler[h].first + Cardinality(Slice(h)) /\ g.last = handler[h].last
        /\ g.dev = handler[h].dev /\ g.cursor = 0
    BY <1>1, <1>2, OnwardMoves
  <2> HIDE DEF g
  <2> QED
    BY <1>1, <1>5, <2>1, <2>2 DEF Typed
<1>6. CASE handler[h].then # "next"
  <2> DEFINE at == handler[h].then
             g == Turn(over, at)
  <2>1. Moves(h, g)
    BY <1>3, <1>6 DEF Moves, Turn
  <2>2. at \in {"stage", "mark"} /\ at \in Working \cup {"idle", "done"}
    BY <1>4, <1>6 DEF Working
  <2> HIDE DEF at
  <2>3. g \in Requests(Len(log)) /\ g.at = at /\ g.cursor = 0 /\ Same(over, g)
    BY <1>2, <2>2, Here, TurnFields
  <2> HIDE DEF g
  <2>4. Same(handler[h], g)
    BY <1>2, <2>3 DEF Same
  <2>5. InOrder(g)
    BY <1>1, <2>2, <2>3, <2>4 DEF InOrder, Placed, Working, Projecting, Same
  <2> QED
    BY <1>1, <2>1, <2>2, <2>3, <2>4, <2>5 DEF Typed, Same, at
<1> QED
  BY <1>5, <1>6

LEMMA MarksMoves ==
  ASSUME LogTypeOK, NEW h \in Handlers, InOrder(handler[h]), Marks(h)
  PROVE  \E g : /\ Moves(h, g) /\ Typed(g) /\ g.cursor = handler[h].cursor
                /\ g.dev = handler[h].dev /\ g.last = handler[h].last
                /\ g.at \in {"stage", "done"}
                /\ g.first = handler[h].first + Cardinality(Slice(h))
<1>1. log' = log /\ handler[h].at = "mark" /\ handler[h].at \in Working
  BY DEF Marks, At, Working
<1> DEFINE g == Onward(handler[h], Cardinality(Slice(h)))
<1>2. Moves(h, g)
  BY DEF Marks, Moves
<1>3. Same(handler[h], handler[h])
  BY DEF Same
<1>4. /\ g \in Requests(Len(log)) /\ InOrder(g) /\ g.at \in {"stage", "done"}
      /\ g.first = handler[h].first + Cardinality(Slice(h)) /\ g.last = handler[h].last
      /\ g.dev = handler[h].dev /\ g.cursor = handler[h].cursor
  BY <1>1, <1>3, Here, OnwardMoves
<1> HIDE DEF g
<1> QED
  BY <1>1, <1>2, <1>4 DEF Typed

LEMMA EndsMoves ==
  ASSUME LogTypeOK, NEW h \in Handlers, Ends(h)
  PROVE  Moves(h, Free) /\ Typed(Free) /\ Free.at = "idle" /\ Free.cursor = 0
<1>1. log' = log /\ 0 \in 0..Len(log) /\ 0 \in Nat
  BY LogTypes, LenProperties DEF Ends
<1>2. Free \in Requests(Len(log)) /\ Free.at = "idle" /\ Free.cursor = 0
  BY <1>1 DEF Free, Requests
<1>3. InOrder(Free)
  BY <1>2 DEF InOrder, Working, Projecting
<1> QED
  BY <1>1, <1>2, <1>3 DEF Ends, Moves, Typed

LEMMA UploadsMoves ==
  ASSUME LogTypeOK, ReplicaTypeOK, NEW d \in Devices, NEW h \in Handlers, Uploads(d, h)
  PROVE  \E g : /\ Moves(h, g) /\ Typed(g) /\ g.cursor = 0 /\ g.at = "ensure"
                /\ g.dev = d /\ g.first = cursor[d] + 1
<1>1. PICK last \in (cursor[d] + 1)..Min({cursor[d] + PageSize, Len(Local[d])}) :
        Receives(h, d, cursor[d] + 1, last)
  BY DEF Uploads
<1>2. log' = log /\ Len(log) \in Nat /\ cursor[d] \in Nat /\ Len(Local[d]) \in Nat
  BY LogTypes, LenProperties, Entries DEF Uploads, ReplicaTypeOK
<1>3. last \in Nat /\ cursor[d] + 1 <= last /\ last <= Len(Local[d])
  <2> DEFINE S == {cursor[d] + PageSize, Len(Local[d])}
             m == Min(S)
  <2>1. cursor[d] + PageSize \in Nat
    BY <1>2, ReplicaAssumption
  <2>2. m \in S /\ \A x \in S : m <= x
    <3>1. \E x \in S : \A y \in S : x <= y
      BY <1>2, <2>1
    <3> QED
      BY <3>1 DEF Min
  <2>3. last \in (cursor[d] + 1)..m
    BY <1>1
  <2> HIDE DEF m
  <2> QED
    BY <1>2, <2>1, <2>2, <2>3
<1> DEFINE g == [at |-> "ensure", dev |-> d, first |-> cursor[d] + 1, last |-> last,
                 cursor |-> 0, upto |-> 0, then |-> "none"]
<1>4. Moves(h, g)
  BY <1>1 DEF Receives, Moves
<1>6. /\ g.at = "ensure" /\ g.dev = d /\ g.first = cursor[d] + 1 /\ g.last = last
      /\ g.cursor = 0 /\ g.then = "none"
  OBVIOUS
<1>7. g \in Requests(Len(log))
  <2>1. /\ "ensure" \in Working \cup {"idle", "done"} /\ 0 \in 0..Len(log)
        /\ cursor[d] + 1 \in Nat
    BY <1>2 DEF Working
  <2> QED
    BY <1>3, <2>1 DEF Requests
<1>8. InOrder(g)
  <2> HIDE DEF g
  <2> QED
    BY <1>2, <1>3, <1>6 DEF InOrder, Placed, Working, Projecting
<1> QED
  BY <1>2, <1>4, <1>6, <1>7, <1>8 DEF Typed

-----------------------------------------------------------------------------
(* The inductive invariant                                                 *)

(* What the Worker has of commit c of d, of the events up to n of d.       *)
InLog(l, d, c) == \A e \in EventsOf(d, c) : Holds(l, Entry(d, e))

(* The Worker has the events up to n of d: all staged, and in the log      *)
(* where their commit ends by n.                                           *)
Passed(l, s, d, n) ==
  /\ 1..n \subseteq s[d]
  /\ \A e \in 1..n : EventsOf(d, Local[d][e].commit) \subseteq 1..n => Holds(l, Entry(d, e))

(* A request that is past the appending of its commit.                     *)
Past(f) == f.at = "mark" \/ (f.at \in Projecting /\ f.then \in {"mark", "next"})

(* What a request may count on: the events before its page's rest are      *)
(* kept, and those of the commit it is at are staged, or in the log, by    *)
(* then.                                                                   *)
Kept(l, s, f) ==
  f.at # "idle" =>
    /\ Passed(l, s, f.dev, f.first - 1)
    /\ f.at = "append" => EventsAt(f) \subseteq s[f.dev]
    /\ Past(f) => InLog(l, f.dev, CommitAt(f))
    /\ Past(f) \/ f.at \in {"check", "append"} => SliceAt(f) \subseteq s[f.dev]

(* Each request, each applied commit and each device's cursor.             *)
KeptAll ==
  /\ \A h \in Handlers : Kept(log, staged, handler[h])
  /\ \A d \in Devices : \A c \in applied[d] : InLog(log, d, c)
  /\ \A d \in Devices : Passed(log, staged, d, cursor[d])

(* A device awaits a request of its own, which is under way.               *)
Awaited ==
  \A d \in Devices : waits[d] \in Handlers =>
    handler[waits[d]].at # "idle" /\ handler[waits[d]].dev = d

(* memory_records and the projections of it.                               *)
Projected ==
  \E n \in projected..Len(log) :
    rows = ReplayedIn(log, n) /\ \A h \in Handlers : handler[h].cursor <= n

(* A deleted source is not shown once the projection is past its           *)
(* deletion.                                                               *)
Gone(l, v, n) == \A x \in Sources : DeletedBy(l, n, x) => v[x] # "live"

GoneAll ==
  /\ Gone(log, views, projected)
  /\ \A h \in Handlers : handler[h].at = "save" => Gone(log, views, handler[h].cursor)

(* The mirror.                                                             *)
Mirrored(l, s, n) == \A i \in 1..n : l[i].origin # Mirror => i \in s

MirroredAll ==
  /\ Mirrored(log, held, mirrorCursor) /\ Mirrored(log, held, mirrored)
  /\ pull.at \in {"fetch", "apply"} => Mirrored(log, held, pull.after)
  /\ pull.at = "save" => Mirrored(log, held, pull.upto)

IInv ==
  /\ TypeOK /\ RequestsInOrder /\ Awaited /\ KeptAll /\ Projected /\ GoneAll /\ MirroredAll

(* What every step does to the log and to what is staged.                  *)
Onwards == Extends(log, log') /\ \A d \in Devices : staged[d] \subseteq staged'[d]

(* What is kept stays kept as the log and the staged events grow.          *)
LEMMA PassedGrows ==
  ASSUME NEW l \in Seq(Record), NEW m \in Seq(Record), Extends(l, m),
         NEW s, NEW t, NEW d, s[d] \subseteq t[d], NEW n, Passed(l, s, d, n)
  PROVE  Passed(m, t, d, n)
<1>1. \A r : Holds(l, r) => Holds(m, r)
  BY Grows
<1> QED
  BY <1>1 DEF Passed

LEMMA KeptGrows ==
  ASSUME NEW l \in Seq(Record), NEW m \in Seq(Record), Extends(l, m),
         NEW s, NEW t, NEW f, InOrder(f), \A d \in Devices : s[d] \subseteq t[d], Kept(l, s, f)
  PROVE  Kept(m, t, f)
<1>1. \A r : Holds(l, r) => Holds(m, r)
  BY Grows
<1>2. CASE f.at # "idle"
  <2>1. s[f.dev] \subseteq t[f.dev]
    BY <1>2 DEF InOrder, Placed
  <2> DEFINE d == f.dev
             n == f.first - 1
  <2>2. Passed(m, t, f.dev, f.first - 1)
    <3>1. Passed(l, s, d, n) /\ s[d] \subseteq t[d]
      BY <1>2, <2>1 DEF Kept
    <3> HIDE DEF d, n
    <3> QED
      <4>1. Passed(m, t, d, n)
        BY <3>1, PassedGrows
      <4> QED
        BY <4>1 DEF d, n
  <2> QED
    BY <1>1, <1>2, <2>1, <2>2 DEF Kept, InLog
<1> QED
  BY <1>2 DEF Kept

(* A request that goes on has passed the commit it was at, complete or     *)
(* not.                                                                    *)
LEMMA PassesOn ==
  ASSUME LogTypeOK, NEW h \in Handlers, InOrder(handler[h]), handler[h].at \in Working,
         NEW l, NEW s, Passed(l, s, handler[h].dev, handler[h].first - 1),
         Slice(h) \subseteq s[handler[h].dev],
         \/ ~(EventsOf(handler[h].dev, Commit(h)) \subseteq s[handler[h].dev])
         \/ InLog(l, handler[h].dev, Commit(h))
  PROVE  Passed(l, s, handler[h].dev, handler[h].first + Cardinality(Slice(h)) - 1)
<1> DEFINE d == handler[h].dev
           a == handler[h].first
           b == a + Cardinality(Slice(h)) - 1
           C == EventsOf(d, Commit(h))
<1>1. /\ a \in Nat \ {0} /\ b \in Nat /\ a <= b /\ Slice(h) = a..b /\ Slice(h) \subseteq C
      /\ a \in 1..Len(Local[d]) /\ b <= Len(Local[d]) /\ Len(Local[d]) \in Nat
  BY SliceWindow, Entries, Here DEF Requests, InOrder, Placed, Working
<1>2. d \in Devices /\ Len(Local[d]) \in Nat /\ DOMAIN Local[d] = 1..Len(Local[d])
  BY Entries DEF InOrder, Placed, Working
<1>3. C = {e \in 1..Len(Local[d]) : Local[d][e].commit = Commit(h)}
  BY <1>2 DEF EventsOf
<1> HIDE DEF a, b, C, d
<1>4. 1..b = 1..(a - 1) \cup a..b
  BY <1>1
<1>5. Passed(l, s, d, a - 1) /\ a..b \subseteq s[d] /\ (~(C \subseteq s[d]) \/ InLog(l, d, Commit(h)))
  BY <1>1 DEF a, d, C
<1>6. 1..b \subseteq s[d]
  BY <1>4, <1>5 DEF Passed
<1>7. ASSUME NEW e \in 1..b, EventsOf(d, Local[d][e].commit) \subseteq 1..b
      PROVE  Holds(l, Entry(d, e))
  <2> DEFINE D == EventsOf(d, Local[d][e].commit)
  <2>1. CASE D \subseteq 1..(a - 1) /\ e \in 1..(a - 1)
    BY <1>5, <2>1 DEF Passed
  <2>2. CASE ~(D \subseteq 1..(a - 1)) \/ e \notin 1..(a - 1)
    <3>1. \E i \in a..b : i \in D \/ i = e
      BY <1>4, <1>7, <2>2
    <3>2. PICK i \in a..b : i \in D \/ i = e
      BY <3>1
    <3>3. i \in C
      BY <1>1, <3>2
    <3>4. Local[d][i].commit = Commit(h)
      BY <1>3, <3>3
    <3>5. Local[d][i].commit = Local[d][e].commit
      BY <1>2, <3>2 DEF EventsOf
    <3>6. D = C
      BY <3>4, <3>5 DEF C
    <3>7. InLog(l, d, Commit(h))
      BY <1>5, <1>6, <1>7, <3>6
    <3>8. e \in C
      BY <1>1, <1>2, <1>3, <3>4, <3>5
    <3> QED
      BY <3>7, <3>8 DEF InLog, C
  <2> QED
    BY <2>1, <2>2
<1> QED
  BY <1>6, <1>7 DEF Passed, a, b, d

-----------------------------------------------------------------------------
(* Steps of a handler: requests                                            *)

(* Each step of a handler moves to a request that may count on as much.    *)
LEMMA SameKept ==
  ASSUME NEW l, NEW s, NEW f, NEW g, Same(f, g), Kept(l, s, f), f.at # "idle",
         g.at \notin {"check", "append"}, Past(g) => Past(f)
  PROVE  Kept(l, s, g)
BY DEF Same, Kept, EventsAt, CommitAt, SliceAt

LEMMA OnwardKept ==
  ASSUME LogTypeOK, NEW h \in Handlers, InOrder(handler[h]), handler[h].at \in Working,
         NEW l, NEW s, Kept(l, s, handler[h]), Slice(h) \subseteq s[handler[h].dev],
         \/ ~(EventsOf(handler[h].dev, Commit(h)) \subseteq s[handler[h].dev])
         \/ InLog(l, handler[h].dev, Commit(h)),
         NEW g, g.dev = handler[h].dev, g.first = handler[h].first + Cardinality(Slice(h)),
         g.at \in {"stage", "done"}
  PROVE  Kept(l, s, g)
<1>1. Passed(l, s, handler[h].dev, handler[h].first - 1)
  BY DEF Kept, Working
<1>2. Passed(l, s, handler[h].dev, handler[h].first + Cardinality(Slice(h)) - 1)
  BY <1>1, PassesOn
<1>3. ~Past(g) /\ g.at # "append" /\ g.at # "check"
  BY DEF Past, Projecting
<1>4. g.first - 1 = handler[h].first + Cardinality(Slice(h)) - 1
  <2>1. Cardinality(Slice(h)) \in Nat /\ handler[h].first \in Nat
    BY SliceWindow, Here DEF Requests
  <2> QED
    BY <2>1
<1>5. Passed(l, s, g.dev, g.first - 1)
  BY <1>2, <1>4
<1> QED
  BY <1>3, <1>5 DEF Kept

(* What a step of handler h leaves behind.                                 *)
Stepped(h, g) ==
  /\ Moves(h, g) /\ Typed(g) /\ g.dev = handler[h].dev /\ handler[h].at # "idle" /\ g.at # "idle"
  /\ log' \in Seq(Record) /\ Onwards /\ Kept(log', staged', g)

LEMMA Still ==
  ASSUME LogTypeOK, UNCHANGED <<log, staged>>
  PROVE  log' \in Seq(Record) /\ Onwards
<1>1. log \in Seq(Record) /\ Len(log) \in Nat
  BY LogTypes, LenProperties
<1> QED
  BY <1>1 DEF Onwards, Extends

LEMMA EnsuresKept ==
  ASSUME LogTypeOK, NEW h \in Handlers, InOrder(handler[h]), Kept(log, staged, handler[h]),
         Ensures(h)
  PROVE  \E g : Stepped(h, g)
<1>1. PICK g : /\ Moves(h, g) /\ Typed(g) /\ Same(handler[h], g)
               /\ (g.at = "cursor" /\ g.then = "stage") \/ g.at = "stage"
  BY EnsuresMoves
<1>2. UNCHANGED <<log, staged>> /\ handler[h].at = "ensure"
  BY DEF Ensures, At
<1>3. Kept(log, staged, g)
  <2>1. ~Past(g)
    BY <1>1 DEF Past, Projecting
  <2> QED
    BY <1>1, <1>2, <2>1, SameKept
<1> QED
  BY <1>1, <1>2, <1>3, Still DEF Stepped, Same

LEMMA StagesKept ==
  ASSUME LogTypeOK, NEW h \in Handlers, InOrder(handler[h]), Kept(log, staged, handler[h]),
         Stages(h)
  PROVE  \E g : Stepped(h, g)
<1>1. log' = log /\ handler[h].at = "stage" /\ At(h, "stage") /\ Goes(h, "check")
      /\ staged' = [staged EXCEPT ![handler[h].dev] = @ \cup Slice(h)]
  BY DEF Stages, At
<1>2. PICK g : /\ Moves(h, g) /\ Typed(g) /\ Same(handler[h], g) /\ g.at = "check"
  BY <1>1, GoesMoves
<1>3. log \in Seq(Record) /\ Extends(log, log) /\ staged \in [Devices -> SUBSET Nat]
  BY LogTypes, LenProperties DEF Extends
<1>4. handler[h].dev \in Devices
  BY <1>1 DEF InOrder, Placed
<1>5. /\ \A d \in Devices : staged[d] \subseteq staged'[d]
      /\ Slice(h) \subseteq staged'[handler[h].dev]
  BY <1>1, <1>3, <1>4
<1>6. Kept(log, staged', handler[h])
  BY <1>3, <1>5, KeptGrows
<1>7. ~Past(g)
  BY <1>2 DEF Past, Projecting
<1>8. SliceAt(g) \subseteq staged'[g.dev]
  BY <1>2, <1>5 DEF Same, SliceAt, EventsAt, CommitAt, Slice, Commit
<1>9. Kept(log, staged', g)
  BY <1>1, <1>2, <1>6, <1>7, <1>8 DEF Kept, Same
<1> QED
  BY <1>1, <1>2, <1>3, <1>5, <1>9 DEF Stepped, Same, Onwards

LEMMA ChecksKept ==
  ASSUME LogTypeOK, NEW h \in Handlers, InOrder(handler[h]), Kept(log, staged, handler[h]),
         \A d \in Devices : \A c \in applied[d] : InLog(log, d, c), Checks(h)
  PROVE  \E g : Stepped(h, g)
<1>1. UNCHANGED <<log, staged>> /\ handler[h].at = "check" /\ handler[h].at \in Working
  BY DEF Checks, At, Working
<1>2. handler[h].dev \in Devices
  BY <1>1 DEF InOrder, Placed
<1>3. Slice(h) \subseteq staged[handler[h].dev]
  BY <1>1 DEF Kept, SliceAt, EventsAt, CommitAt, Slice, Commit
<1>4. PICK g : /\ Moves(h, g) /\ Typed(g)
               /\ g.dev = handler[h].dev
               /\ \/ /\ ~Complete(handler[h].dev, Commit(h)) /\ g.at \in {"stage", "done"}
                     /\ g.first = handler[h].first + Cardinality(Slice(h))
                  \/ /\ Complete(handler[h].dev, Commit(h)) /\ Same(handler[h], g)
                     /\ \/ g.at = "append"
                        \/ /\ Commit(h) \in applied[handler[h].dev]
                           /\ g.at = "cursor" /\ g.then = "next"
  BY ChecksMoves
<1>5. CASE /\ ~Complete(handler[h].dev, Commit(h)) /\ g.at \in {"stage", "done"}
           /\ g.first = handler[h].first + Cardinality(Slice(h))
  <2>1. ~(EventsOf(handler[h].dev, Commit(h)) \subseteq staged[handler[h].dev])
    BY <1>5 DEF Complete
  <2>2. Kept(log, staged, g)
    BY <1>1, <1>3, <1>4, <1>5, <2>1, OnwardKept
  <2> QED
    BY <1>1, <1>4, <1>5, <2>2, Still DEF Stepped
<1>6. CASE Complete(handler[h].dev, Commit(h)) /\ Same(handler[h], g) /\ g.at = "append"
  <2>1. EventsAt(g) \subseteq staged[g.dev] /\ SliceAt(g) \subseteq staged[g.dev]
    BY <1>3, <1>4, <1>6 DEF Complete, Same, SliceAt, EventsAt, CommitAt, Slice, Commit
  <2>2. ~Past(g)
    BY <1>6 DEF Past, Projecting
  <2>3. Kept(log, staged, g)
    BY <1>1, <1>6, <2>1, <2>2 DEF Kept, Same
  <2> QED
    BY <1>1, <1>4, <1>6, <2>3, Still DEF Stepped
<1>7. CASE /\ Commit(h) \in applied[handler[h].dev] /\ Same(handler[h], g)
           /\ g.at = "cursor" /\ g.then = "next"
  <2>1. InLog(log, g.dev, CommitAt(g)) /\ SliceAt(g) \subseteq staged[g.dev]
    BY <1>2, <1>3, <1>4, <1>7 DEF Same, SliceAt, EventsAt, CommitAt, Slice, Commit
  <2>2. Kept(log, staged, g)
    BY <1>1, <1>7, <2>1 DEF Kept, Same
  <2> QED
    BY <1>1, <1>4, <1>7, <2>2, Still DEF Stepped
<1> QED
  BY <1>4, <1>5, <1>6, <1>7

LEMMA AppendsKept ==
  ASSUME LogTypeOK, NEW h \in Handlers, InOrder(handler[h]), Kept(log, staged, handler[h]),
         Appends(h)
  PROVE  \E g : Stepped(h, g)
<1>1. staged' = staged /\ handler[h].at = "append"
  BY DEF Appends, At
<1>2. EventsAt(handler[h]) \subseteq staged[handler[h].dev]
  BY <1>1 DEF Kept
<1>3. PICK g : /\ Moves(h, g) /\ Typed(g) /\ Same(handler[h], g)
               /\ g.at = "cursor" /\ g.then = "mark"
               /\ log' \in Seq(Record) /\ Extends(log, log')
               /\ \A e \in EventsAt(handler[h]) : Holds(log', Entry(handler[h].dev, e))
  BY <1>2, AppendsMoves
<1>4. log \in Seq(Record) /\ \A d \in Devices : staged[d] \subseteq staged'[d]
  BY <1>1, LogTypes
<1>5. Kept(log', staged', handler[h])
  BY <1>3, <1>4, KeptGrows
<1>6. InLog(log', g.dev, CommitAt(g)) /\ SliceAt(g) \subseteq staged'[g.dev]
  BY <1>1, <1>3, <1>5 DEF Kept, Same, InLog, EventsAt, CommitAt, SliceAt
<1>7. Kept(log', staged', g)
  BY <1>1, <1>3, <1>5, <1>6 DEF Kept, Same
<1> QED
  BY <1>1, <1>3, <1>4, <1>7 DEF Stepped, Same, Onwards

LEMMA ProjectsKept ==
  ASSUME LogTypeOK, NEW h \in Handlers, InOrder(handler[h]), Kept(log, staged, handler[h]),
         ReadsCursor(h) \/ ReadsRows(h) \/ Folds(h) \/ Views(h)
  PROVE  \E g : Stepped(h, g)
<1>1. UNCHANGED <<log, staged>> /\ handler[h].at \in Projecting /\ handler[h].at # "idle"
  BY DEF ReadsCursor, ReadsRows, Folds, Views, At, Projecting
<1>2. \E g : /\ Moves(h, g) /\ Typed(g) /\ Same(handler[h], g) /\ g.then = handler[h].then
             /\ g.at \in {"rows", "views", "fold", "save"}
  <2>1. CASE ReadsCursor(h)
    BY <2>1, ReadsCursorMoves
  <2>2. CASE ReadsRows(h)
    BY <2>2, ReadsRowsMoves
  <2>3. CASE Folds(h)
    BY <2>3, FoldsMoves
  <2>4. CASE Views(h)
    <3>1. At(h, "views") /\ Goes(h, "save") /\ log' = log
      BY <2>4 DEF Views
    <3> QED
      BY <3>1, GoesMoves
  <2> QED
    BY <2>1, <2>2, <2>3, <2>4
<1>3. PICK g : /\ Moves(h, g) /\ Typed(g) /\ Same(handler[h], g) /\ g.then = handler[h].then
               /\ g.at \in {"rows", "views", "fold", "save"}
  BY <1>2
<1>4. Past(g) => Past(handler[h])
  BY <1>1, <1>3 DEF Past
<1>5. Kept(log, staged, g)
  BY <1>1, <1>3, <1>4, SameKept
<1> QED
  BY <1>1, <1>3, <1>5, Still DEF Stepped, Same

LEMMA SavesKept ==
  ASSUME LogTypeOK, NEW h \in Handlers, InOrder(handler[h]), Kept(log, staged, handler[h]),
         Saves(h)
  PROVE  \E g : Stepped(h, g)
<1>1. UNCHANGED <<log, staged>> /\ handler[h].at = "save" /\ handler[h].at \in Working
  BY DEF Saves, At, Working
<1>2. PICK g : /\ Moves(h, g) /\ Typed(g)
               /\ g.dev = handler[h].dev /\ g.last = handler[h].last
               /\ \/ /\ handler[h].then = "next" /\ g.at \in {"stage", "done"}
                     /\ g.first = handler[h].first + Cardinality(Slice(h))
                  \/ /\ handler[h].then \in {"stage", "mark"} /\ g.at = handler[h].then
                     /\ g.first = handler[h].first
  BY SavesMoves
<1>3. CASE /\ handler[h].then = "next" /\ g.at \in {"stage", "done"}
           /\ g.first = handler[h].first + Cardinality(Slice(h))
  <2>1. Past(handler[h])
    BY <1>1, <1>3 DEF Past, Projecting
  <2>2. Slice(h) \subseteq staged[handler[h].dev] /\ InLog(log, handler[h].dev, Commit(h))
    BY <1>1, <2>1 DEF Kept, SliceAt, EventsAt, CommitAt, Slice, Commit
  <2>3. Kept(log, staged, g)
    BY <1>1, <1>2, <1>3, <2>2, OnwardKept
  <2> QED
    BY <1>1, <1>2, <1>3, <2>3, Still DEF Stepped
<1>4. CASE /\ handler[h].then \in {"stage", "mark"} /\ g.at = handler[h].then
           /\ g.first = handler[h].first
  <2>1. Same(handler[h], g)
    BY <1>2, <1>4 DEF Same
  <2>2. Past(g) => Past(handler[h])
    BY <1>1, <1>4 DEF Past, Projecting
  <2>3. Kept(log, staged, g)
    BY <1>1, <1>4, <2>1, <2>2, SameKept
  <2> QED
    BY <1>1, <1>2, <1>4, <2>3, Still DEF Stepped
<1> QED
  BY <1>2, <1>3, <1>4

LEMMA MarksKept ==
  ASSUME LogTypeOK, NEW h \in Handlers, InOrder(handler[h]), Kept(log, staged, handler[h]),
         Marks(h)
  PROVE  \E g : Stepped(h, g)
<1>1. UNCHANGED <<log, staged>> /\ handler[h].at = "mark" /\ handler[h].at \in Working
  BY DEF Marks, At, Working
<1>2. PICK g : /\ Moves(h, g) /\ Typed(g)
               /\ g.dev = handler[h].dev /\ g.last = handler[h].last
               /\ g.at \in {"stage", "done"}
               /\ g.first = handler[h].first + Cardinality(Slice(h))
  BY MarksMoves
<1>3. Slice(h) \subseteq staged[handler[h].dev] /\ InLog(log, handler[h].dev, Commit(h))
  BY <1>1 DEF Kept, Past, SliceAt, EventsAt, CommitAt, Slice, Commit
<1>4. Kept(log, staged, g)
  BY <1>1, <1>2, <1>3, OnwardKept
<1> QED
  BY <1>1, <1>2, <1>4, Still DEF Stepped

LEMMA HandlerSteps ==
  ASSUME LogTypeOK, RequestsInOrder, KeptAll, NEW h \in Handlers, HandlerStep(h)
  PROVE  \E g : Stepped(h, g)
<1>1. /\ InOrder(handler[h]) /\ Kept(log, staged, handler[h])
      /\ \A d \in Devices : \A c \in applied[d] : InLog(log, d, c)
  BY DEF RequestsInOrder, KeptAll
<1>2. CASE Checks(h)
  BY <1>1, <1>2, ChecksKept
<1>3. CASE Ensures(h)
  BY <1>1, <1>3, EnsuresKept
<1>4. CASE Stages(h)
  BY <1>1, <1>4, StagesKept
<1>5. CASE Appends(h)
  BY <1>1, <1>5, AppendsKept
<1>6. CASE ReadsCursor(h) \/ ReadsRows(h) \/ Folds(h) \/ Views(h)
  BY <1>1, <1>6, ProjectsKept
<1>7. CASE Saves(h)
  BY <1>1, <1>7, SavesKept
<1>8. CASE Marks(h)
  BY <1>1, <1>8, MarksKept
<1> QED
  BY <1>2, <1>3, <1>4, <1>5, <1>6, <1>7, <1>8 DEF HandlerStep

(* A step of a handler keeps the types and the order of all requests.      *)
LEMMA Moved ==
  ASSUME LogTypeOK, NEW h \in Handlers, NEW g, Moves(h, g)
  PROVE  handler'[h] = g /\ \A k \in Handlers : k # h => handler'[k] = handler[k]
BY Zenon, LogTypes DEF Moves

LEMMA MovedTypes ==
  ASSUME LogTypeOK, RequestsInOrder, NEW h \in Handlers, NEW g, Moves(h, g), Typed(g),
         log' \in Seq(Record), Extends(log, log')
  PROVE  handler' \in [Handlers -> Requests(Len(log'))] /\ RequestsInOrder'
<1>1. handler \in [Handlers -> Requests(Len(log))] /\ log \in Seq(Record)
  BY LogTypes
<1>2. Requests(Len(log)) \subseteq Requests(Len(log'))
  BY <1>1, Grows
<1>3. handler' \in [Handlers -> Requests(Len(log'))]
  BY <1>1, <1>2 DEF Moves, Typed
<1>4. RequestsInOrder'
  <2>1. \A k \in Handlers : InOrder(handler'[k])
    BY Moved DEF RequestsInOrder, Typed
  <2> QED
    BY <2>1 DEF RequestsInOrder
<1> QED
  BY <1>3, <1>4

LEMMA FoldsRows ==
  ASSUME LogTypeOK, NEW h \in Handlers, InOrder(handler[h]), Folds(h)
  PROVE  /\ rows' = FoldedOver(log, rows, (handler[h].cursor + 1)..handler[h].upto)
         /\ handler[h].cursor \in 0..handler[h].upto /\ handler[h].upto \in 0..Len(log)
<1>1. rows' = Ascending(Folded, rows, (handler[h].cursor + 1)..handler[h].upto)
  BY DEF Folds, Ascending, MapThenFoldSet
<1>2. handler[h].cursor <= handler[h].upto
  BY DEF Folds, At, InOrder
<1> QED
  BY <1>1, <1>2, Folding, Here

LEMMA LogStepTypes ==
  ASSUME LogTypeOK, RequestsInOrder, KeptAll, NEW h \in Handlers, HandlerStep(h)
  PROVE  LogTypeOK' /\ RequestsInOrder'
<1>1. PICK g : Stepped(h, g)
  BY HandlerSteps
<1>2. /\ Moves(h, g) /\ Typed(g) /\ log' \in Seq(Record) /\ Extends(log, log')
      /\ InOrder(handler[h])
  BY <1>1 DEF Stepped, Onwards, RequestsInOrder
<1>3. handler' \in [Handlers -> Requests(Len(log'))] /\ RequestsInOrder'
  BY <1>2, MovedTypes
<1>4. /\ log \in Seq(Record) /\ staged \in [Devices -> SUBSET Nat] /\ applied \in [Devices -> SUBSET Nat]
      /\ rows \in Tables(Len(log)) /\ projected \in 0..Len(log)
      /\ views \in [Sources -> {"none", "live", "deleted"}] /\ Len(log) \in Nat
  BY LogTypes, LenProperties
<1>5. Tables(Len(log)) \subseteq Tables(Len(log')) /\ 0..Len(log) \subseteq 0..Len(log')
  BY <1>2, <1>4, Grows
<1>6. staged' \in [Devices -> SUBSET Nat]
  <2>1. CASE Stages(h)
    <3>1. handler[h].dev \in Devices /\ handler[h].at \in Working /\ handler[h].dev \in Devices
      BY <1>2, <2>1 DEF Stages, At, InOrder, Placed, Working
    <3>2. Slice(h) \subseteq Nat
      BY <1>2, <3>1, SliceWindow, Here DEF Requests
    <3> QED
      BY <1>4, <2>1, <3>1, <3>2 DEF Stages
  <2>2. CASE ~Stages(h)
    BY <1>4, <2>2 DEF HandlerStep, Ensures, Checks, Appends, ReadsCursor, ReadsRows, Folds,
                      Views, Saves, Marks
  <2> QED
    BY <2>1, <2>2
<1>7. applied' \in [Devices -> SUBSET Nat]
  <2>1. CASE Marks(h)
    <3>1. handler[h].dev \in Devices /\ handler[h].at \in Working
      BY <1>2, <2>1 DEF Marks, At, InOrder, Placed, Working
    <3>2. Commit(h) \in Nat
      BY <1>2, <3>1, SliceWindow, Entries DEF Commit
    <3> QED
      BY <1>4, <2>1, <3>1, <3>2 DEF Marks
  <2>2. CASE ~Marks(h)
    BY <1>4, <2>2 DEF HandlerStep, Ensures, Checks, Appends, ReadsCursor, ReadsRows, Folds,
                      Views, Saves, Stages
  <2> QED
    BY <2>1, <2>2
<1>8. rows' \in Tables(Len(log'))
  <2>1. CASE Folds(h)
    <3> DEFINE a == handler[h].cursor
               b == handler[h].upto
    <3>1. rows' = FoldedOver(log, rows, (a + 1)..b) /\ a \in 0..b /\ b \in 0..Len(log)
      BY <1>2, <2>1, FoldsRows
    <3> HIDE DEF a, b
    <3>2. \E T : Run(log, T, a, b) /\ FoldedOver(log, rows, (a + 1)..b) = T[b]
      BY <1>4, <3>1, FoldRun
    <3>3. b \in a..b
      BY <1>4, <3>1
    <3> QED
      BY <1>5, <3>1, <3>2, <3>3 DEF Run
  <2>2. CASE ~Folds(h)
    <3>1. rows' = rows
      BY <2>2 DEF HandlerStep, Ensures, Checks, Appends, ReadsCursor, ReadsRows, Marks,
                  Views, Saves, Stages
    <3> QED
      BY <1>4, <1>5, <3>1
  <2> QED
    BY <2>1, <2>2
<1>9. projected' \in 0..Len(log')
  <2>1. CASE Saves(h)
    <3> DEFINE S == {projected, handler[h].cursor}
    <3>1. projected \in Nat /\ handler[h].cursor \in 0..Len(log) /\ projected' = Max(S)
      BY <1>2, <1>4, <2>1, Here DEF Saves
    <3>2. Max(S) \in S
      <4>1. \E x \in S : \A y \in S : x >= y
        BY <1>4, <3>1
      <4> QED
        BY <4>1 DEF Max
    <3> QED
      BY <1>4, <1>5, <3>1, <3>2
  <2>2. CASE ~Saves(h)
    <3>1. projected' = projected
      BY <2>2 DEF HandlerStep, Ensures, Checks, Appends, ReadsCursor, ReadsRows, Folds, Marks,
                  Views, Stages
    <3> QED
      BY <1>4, <1>5, <3>1
  <2> QED
    BY <2>1, <2>2
<1>10. views' \in [Sources -> {"none", "live", "deleted"}]
  <2>1. CASE Views(h)
    BY <1>4, <2>1 DEF Views, Shown
  <2>2. CASE ~Views(h)
    BY <1>4, <2>2 DEF HandlerStep, Ensures, Checks, Appends, ReadsCursor, ReadsRows, Folds, Marks,
                      Saves, Stages
  <2> QED
    BY <2>1, <2>2
<1> QED
  BY <1>2, <1>3, <1>6, <1>7, <1>8, <1>9, <1>10, LogTypesNext

-----------------------------------------------------------------------------
(* Steps of a handler: the projection                                      *)

(* Projected and GoneAll, now and after a step, in terms of a given log.   *)
LEMMA ProjectedHere ==
  /\ Projected <=>
       \E n \in projected..Len(log) :
         rows = ReplayedIn(log, n) /\ \A h \in Handlers : handler[h].cursor <= n
  /\ Projected' <=>
       \E n \in projected'..Len(log') :
         rows' = ReplayedIn(log', n) /\ \A h \in Handlers : handler'[h].cursor <= n
BY DEF Projected, ReplayedIn, Empty, FoldedOver, Ascending, MapThenFoldSet, FoldedIn, After

LEMMA GoneHere ==
  GoneAll' <=>
    /\ Gone(log', views', projected')
    /\ \A h \in Handlers : handler'[h].at = "save" => Gone(log', views', handler'[h].cursor)
BY DEF GoneAll, Gone, DeletedBy

LEMMA GoneGrows ==
  ASSUME NEW l \in Seq(Record), NEW m \in Seq(Record), Extends(l, m), NEW v,
         NEW n \in 0..Len(l), Gone(l, v, n)
  PROVE  Gone(m, v, n)
<1>1. \A i \in 1..n : m[i] = l[i]
  BY LenProperties DEF Extends
<1>2. ASSUME NEW x \in Sources, DeletedBy(m, n, x) PROVE DeletedBy(l, n, x)
  BY <1>1, <1>2 DEF DeletedBy
<1> QED
  BY <1>2 DEF Gone

(* A step that neither folds nor shows nor saves leaves the projection.    *)
QuietStep(h) ==
  /\ UNCHANGED <<rows, projected, views>>
  /\ log' \in Seq(Record) /\ Extends(log, log')
  /\ handler'[h].at # "save" /\ handler'[h].cursor \in {0, handler[h].cursor, projected}
  /\ \A k \in Handlers : k # h => handler'[k] = handler[k]

LEMMA QuietKeeps ==
  ASSUME LogTypeOK, Projected, GoneAll, NEW h \in Handlers, QuietStep(h)
  PROVE  Projected' /\ GoneAll'
<1>0. /\ log \in Seq(Record) /\ log' \in Seq(Record) /\ Extends(log, log') /\ Len(log) \in Nat
      /\ Len(log') \in Nat /\ Len(log) <= Len(log') /\ projected \in 0..Len(log)
      /\ UNCHANGED <<rows, projected, views>>
      /\ \A k \in Handlers : handler[k].cursor \in 0..Len(log)
  <2>1. \A k \in Handlers : handler[k].cursor \in 0..Len(log)
    BY LogTypes DEF Requests
  <2> QED
    BY <2>1, LogTypes, LenProperties DEF QuietStep, Extends
<1>1. PICK n \in projected..Len(log) :
        rows = ReplayedIn(log, n) /\ \A k \in Handlers : handler[k].cursor <= n
  BY ProjectedHere
<1>2. n \in 0..Len(log) /\ n \in projected'..Len(log') /\ projected <= n
  BY <1>0
<1>3. rows' = ReplayedIn(log', n)
  BY <1>0, <1>1, <1>2, ReplayKept
<1>4. \A k \in Handlers : handler'[k].cursor <= n
  BY <1>0, <1>1, <1>2 DEF QuietStep
<1>5. Projected'
  BY <1>2, <1>3, <1>4, ProjectedHere
<1>6. Gone(log, views, projected)
      /\ \A k \in Handlers : handler[k].at = "save" => Gone(log, views, handler[k].cursor)
  BY DEF GoneAll
<1>7. Gone(log', views, projected)
  BY <1>0, <1>6, GoneGrows
<1>8. \A k \in Handlers : handler'[k].at = "save" => Gone(log', views, handler'[k].cursor)
  <2>1. ASSUME NEW k \in Handlers, handler'[k].at = "save"
        PROVE  Gone(log', views, handler'[k].cursor)
    <3>1. k # h /\ handler'[k] = handler[k]
      BY <2>1 DEF QuietStep
    <3>2. Gone(log, views, handler[k].cursor) /\ handler[k].cursor \in 0..Len(log)
      BY <1>0, <1>6, <2>1, <3>1
    <3>3. Gone(log', views, handler[k].cursor)
      BY <1>0, <3>2, GoneGrows
    <3> QED
      BY <3>1, <3>3
  <2> QED
    BY <2>1
<1>9. GoneAll'
  BY <1>0, <1>7, <1>8, GoneHere
<1> QED
  BY <1>5, <1>9

LEMMA Quiets ==
  ASSUME LogTypeOK, RequestsInOrder, KeptAll, NEW h \in Handlers,
         Ensures(h) \/ Stages(h) \/ Checks(h) \/ Appends(h) \/ ReadsCursor(h) \/ ReadsRows(h)
         \/ Marks(h)
  PROVE  QuietStep(h)
<1>1. InOrder(handler[h]) /\ Kept(log, staged, handler[h])
  BY DEF RequestsInOrder, KeptAll
<1>2. /\ UNCHANGED <<rows, projected, views>>
      /\ log' \in Seq(Record) /\ Extends(log, log')
  <2>1. PICK g : Stepped(h, g)
    BY HandlerSteps DEF HandlerStep
  <2> QED
    BY <2>1 DEF Stepped, Onwards, Ensures, Stages, Checks, Appends, ReadsCursor, ReadsRows, Marks
<1>3. \E g : Moves(h, g) /\ g.at # "save" /\ g.cursor \in {handler[h].cursor, projected}
  <2>1. CASE Ensures(h)
    BY <1>1, <2>1, EnsuresMoves
  <2>2. CASE Stages(h)
    <3>1. At(h, "stage") /\ Goes(h, "check") /\ log' = log
      BY <2>2 DEF Stages
    <3>2. PICK g : Moves(h, g) /\ g.at = "check" /\ g.cursor = handler[h].cursor
      BY <1>1, <3>1, GoesMoves
    <3> QED
      BY <3>2
  <2>3. CASE Checks(h)
    <3>1. PICK g : Moves(h, g) /\ g.at \in {"stage", "done", "append", "cursor"}
                   /\ g.cursor = handler[h].cursor
      BY <1>1, <2>3, ChecksMoves
    <3> QED
      BY <3>1
  <2>4. CASE Appends(h)
    <3>1. EventsAt(handler[h]) \subseteq staged[handler[h].dev]
      BY <1>1, <2>4 DEF Appends, At, Kept
    <3> QED
      BY <1>1, <2>4, <3>1, AppendsMoves
  <2>5. CASE ReadsCursor(h)
    BY <1>1, <2>5, ReadsCursorMoves
  <2>6. CASE ReadsRows(h)
    BY <1>1, <2>6, ReadsRowsMoves
  <2>7. CASE Marks(h)
    BY <1>1, <2>7, MarksMoves
  <2> QED
    BY <2>1, <2>2, <2>3, <2>4, <2>5, <2>6, <2>7
<1>4. PICK g : Moves(h, g) /\ g.at # "save" /\ g.cursor \in {handler[h].cursor, projected}
  BY <1>3
<1>5. handler'[h] = g /\ \A k \in Handlers : k # h => handler'[k] = handler[k]
  BY <1>4, Moved
<1> QED
  BY <1>2, <1>4, <1>5 DEF QuietStep

(* The steps that fold, show and save.                                     *)
LEMMA Facts ==
  ASSUME LogTypeOK
  PROVE  /\ log \in Seq(Record) /\ Len(log) \in Nat /\ projected \in 0..Len(log)
         /\ \A k \in Handlers : handler[k].cursor \in 0..Len(log) /\ handler[k].upto \in 0..Len(log)
<1>1. \A k \in Handlers : handler[k].cursor \in 0..Len(log) /\ handler[k].upto \in 0..Len(log)
  BY LogTypes DEF Requests
<1> QED
  BY <1>1, LogTypes, LenProperties

LEMMA FoldsKeep ==
  ASSUME LogTypeOK, RequestsInOrder, Projected, GoneAll, NEW h \in Handlers, Folds(h)
  PROVE  Projected' /\ GoneAll'
<1>0. /\ log \in Seq(Record) /\ Len(log) \in Nat /\ projected \in 0..Len(log)
      /\ \A k \in Handlers : handler[k].cursor \in 0..Len(log)
  BY Facts
<1>1. PICK n \in projected..Len(log) :
        rows = ReplayedIn(log, n) /\ \A k \in Handlers : handler[k].cursor <= n
  BY ProjectedHere
<1>2. n \in 0..Len(log) /\ handler[h].cursor <= n /\ projected <= n
  BY <1>0, <1>1
<1>3. UNCHANGED <<log, projected, views>> /\ InOrder(handler[h])
  BY DEF Folds, RequestsInOrder
<1> DEFINE a == handler[h].cursor
           b == handler[h].upto
<1>4. rows' = FoldedOver(log, ReplayedIn(log, n), (a + 1)..b) /\ a \in 0..b /\ b \in 0..Len(log)
  BY <1>1, <1>3, FoldsRows
<1>5. PICK N \in 0..Len(log) : n <= N /\ b <= N /\ rows' = ReplayedIn(log, N)
  <2>1. a <= n
    BY <1>2
  <2> HIDE DEF a, b
  <2> QED
    BY <1>0, <1>2, <1>4, <2>1, Refolded
<1>6. PICK g : Moves(h, g) /\ g.cursor = b /\ g.at = "rows"
  BY <1>3, FoldsMoves
<1>7. handler'[h] = g /\ \A k \in Handlers : k # h => handler'[k] = handler[k]
  BY <1>6, Moved
<1>8. ASSUME NEW k \in Handlers PROVE handler'[k].cursor <= N
  BY <1>0, <1>1, <1>2, <1>5, <1>6, <1>7
<1>9. N \in projected'..Len(log')
  BY <1>0, <1>2, <1>3, <1>5
<1>10. Projected'
  BY <1>3, <1>5, <1>8, <1>9, ProjectedHere
<1>11. GoneAll'
  <2>1. ASSUME NEW k \in Handlers, handler'[k].at = "save"
        PROVE  Gone(log', views', handler'[k].cursor)
    BY <1>3, <1>6, <1>7, <2>1 DEF GoneAll
  <2>2. Gone(log', views', projected')
    BY <1>3 DEF GoneAll
  <2> QED
    BY <2>1, <2>2, GoneHere
<1> QED
  BY <1>10, <1>11

LEMMA ViewsKeep ==
  ASSUME LogTypeOK, RequestsInOrder, Projected, NEW h \in Handlers, Views(h)
  PROVE  Projected' /\ GoneAll'
<1>0. /\ log \in Seq(Record) /\ Len(log) \in Nat /\ projected \in 0..Len(log)
      /\ \A k \in Handlers : handler[k].cursor \in 0..Len(log)
  BY Facts
<1>1. PICK n \in projected..Len(log) :
        rows = ReplayedIn(log, n) /\ \A k \in Handlers : handler[k].cursor <= n
  BY ProjectedHere
<1>2. n \in 0..Len(log) /\ projected <= n
  BY <1>0, <1>1
<1>3. /\ UNCHANGED <<log, projected, rows>> /\ InOrder(handler[h])
      /\ At(h, "views") /\ Goes(h, "save")
      /\ views' = [x \in Sources |-> Shown(rows[<<"source", x>>], views[x])]
  BY DEF Views, RequestsInOrder
<1>4. PICK g : Moves(h, g) /\ g.cursor = handler[h].cursor
  BY <1>3, GoesMoves
<1>5. handler'[h] = g /\ \A k \in Handlers : k # h => handler'[k] = handler[k]
  BY <1>4, Moved
<1>6. \A k \in Handlers : handler'[k].cursor = handler[k].cursor
  BY <1>4, <1>5
<1>7. Projected'
  BY <1>1, <1>3, <1>6, ProjectedHere
<1>8. Sound(log, rows, n)
  BY <1>0, <1>1, <1>2, Replays
<1>9. ASSUME NEW p \in 0..n PROVE Gone(log, views', p)
  <2>1. ASSUME NEW x \in Sources, DeletedBy(log, p, x) PROVE views'[x] # "live"
    <3>1. DeletedBy(log, n, x)
      <4>1. 1..p \subseteq 1..n
        BY <1>2
      <4> QED
        BY <2>1, <4>1 DEF DeletedBy
    <3>2. rows[<<"source", x>>].sequence > 0 /\ rows[<<"source", x>>].deleted
      BY <1>8, <3>1 DEF Sound
    <3>3. rows[<<"source", x>>].sequence # 0
      BY <3>2
    <3>4. views'[x] = "deleted"
      BY <1>3, <3>2, <3>3 DEF Shown
    <3> QED
      BY <3>4
  <2> QED
    BY <2>1 DEF Gone
<1>10. GoneAll'
  <2>1. ASSUME NEW k \in Handlers PROVE Gone(log', views', handler'[k].cursor)
    <3>1. handler[k].cursor \in 0..n
      BY <1>0, <1>1
    <3> QED
      BY <1>3, <1>6, <1>9, <3>1
  <2>2. Gone(log', views', projected')
    <3>1. projected \in 0..n
      BY <1>0, <1>2
    <3> QED
      BY <1>3, <1>9, <3>1
  <2> QED
    BY <2>1, <2>2, GoneHere
<1> QED
  BY <1>7, <1>10

LEMMA SavesKeep ==
  ASSUME LogTypeOK, RequestsInOrder, Projected, GoneAll, NEW h \in Handlers, Saves(h)
  PROVE  Projected' /\ GoneAll'
<1>0. /\ log \in Seq(Record) /\ Len(log) \in Nat /\ projected \in 0..Len(log)
      /\ \A k \in Handlers : handler[k].cursor \in 0..Len(log)
  BY Facts
<1>1. PICK n \in projected..Len(log) :
        rows = ReplayedIn(log, n) /\ \A k \in Handlers : handler[k].cursor <= n
  BY ProjectedHere
<1>2. /\ UNCHANGED <<log, rows, views>> /\ InOrder(handler[h]) /\ handler[h].at = "save"
      /\ projected' = Max({projected, handler[h].cursor})
  BY DEF Saves, RequestsInOrder, At
<1>3. projected' \in {projected, handler[h].cursor}
  <2> DEFINE S == {projected, handler[h].cursor}
  <2>1. \E x \in S : \A y \in S : x >= y
    BY <1>0
  <2>2. Max(S) \in S
    BY <2>1 DEF Max
  <2> QED
    BY <1>2, <2>2
<1>4. PICK g : /\ Moves(h, g) /\ g.cursor = 0
               /\ g.at \in {"stage", "done", "mark"}
  <2>1. PICK g : /\ Moves(h, g) /\ g.cursor = 0
                 /\ \/ handler[h].then = "next" /\ g.at \in {"stage", "done"}
                    \/ handler[h].then \in {"stage", "mark"} /\ g.at = handler[h].then
    BY <1>2, SavesMoves
  <2> QED
    BY <2>1
<1>5. handler'[h] = g /\ \A k \in Handlers : k # h => handler'[k] = handler[k]
  BY <1>4, Moved
<1>6. n \in projected'..Len(log')
  BY <1>0, <1>1, <1>2, <1>3
<1>7. ASSUME NEW k \in Handlers PROVE handler'[k].cursor <= n
  <2>1. 0 <= n
    BY <1>0, <1>1
  <2> QED
    BY <1>1, <1>4, <1>5, <2>1
<1>8. Projected'
  BY <1>1, <1>2, <1>6, <1>7, ProjectedHere
<1>9. GoneAll'
  <2>1. ASSUME NEW k \in Handlers, handler'[k].at = "save"
        PROVE  Gone(log', views', handler'[k].cursor)
    BY <1>2, <1>4, <1>5, <2>1 DEF GoneAll
  <2>2. Gone(log, views, projected) /\ Gone(log, views, handler[h].cursor)
    BY <1>2 DEF GoneAll
  <2>3. Gone(log', views', projected')
    BY <1>2, <1>3, <2>2
  <2> QED
    BY <2>1, <2>3, GoneHere
<1> QED
  BY <1>8, <1>9

(* Every step of a handler keeps what the projection is.                   *)
LEMMA StepProjects ==
  ASSUME LogTypeOK, RequestsInOrder, KeptAll, Projected, GoneAll, NEW h \in Handlers,
         HandlerStep(h)
  PROVE  Projected' /\ GoneAll'
<1>1. CASE Folds(h)
  BY <1>1, FoldsKeep
<1>2. CASE Views(h)
  BY <1>2, ViewsKeep
<1>3. CASE Saves(h)
  BY <1>3, SavesKeep
<1>4. CASE ~Folds(h) /\ ~Views(h) /\ ~Saves(h)
  <2>1. QuietStep(h)
    BY <1>4, Quiets DEF HandlerStep
  <2> QED
    BY <2>1, QuietKeeps
<1> QED
  BY <1>1, <1>2, <1>3, <1>4

-----------------------------------------------------------------------------

(* Every step of a handler keeps what the requests count on.               *)
LEMMA KeptNext ==
  KeptAll' <=>
    /\ \A h \in Handlers : Kept(log', staged', handler'[h])
    /\ \A d \in Devices : \A c \in applied'[d] : InLog(log', d, c)
    /\ \A d \in Devices : Passed(log', staged', d, cursor'[d])
BY DEF KeptAll, Kept, InLog, Passed, Holds, Past, Projecting, EventsAt, SliceAt, CommitAt

LEMMA StepKeeps ==
  ASSUME LogTypeOK, RequestsInOrder, KeptAll, Awaited, NEW h \in Handlers, HandlerStep(h),
         UNCHANGED uploadVars
  PROVE  KeptAll' /\ Awaited'
<1>0. log \in Seq(Record) /\ applied \in [Devices -> SUBSET Nat] /\ UNCHANGED <<cursor, waits>>
  BY LogTypes DEF uploadVars
<1>1. PICK g : Stepped(h, g)
  BY HandlerSteps
<1>2. /\ Moves(h, g) /\ Typed(g) /\ g.dev = handler[h].dev /\ handler[h].at # "idle" /\ g.at # "idle"
      /\ log' \in Seq(Record) /\ Extends(log, log') /\ Kept(log', staged', g)
      /\ \A d \in Devices : staged[d] \subseteq staged'[d]
  BY <1>1 DEF Stepped, Onwards
<1>3. handler'[h] = g /\ \A k \in Handlers : k # h => handler'[k] = handler[k]
  BY <1>2, Moved
<1>4. \A k \in Handlers : InOrder(handler[k]) /\ Kept(log, staged, handler[k])
  BY DEF RequestsInOrder, KeptAll
<1>5. ASSUME NEW k \in Handlers PROVE Kept(log', staged', handler'[k])
  <2>1. CASE k = h
    BY <1>2, <1>3, <2>1
  <2>2. CASE k # h
    <3>1. Kept(log', staged', handler[k])
      BY <1>0, <1>2, <1>4, KeptGrows
    <3> QED
      BY <1>3, <2>2, <3>1
  <2> QED
    BY <2>1, <2>2
<1>6. \A r : Holds(log, r) => Holds(log', r)
  BY <1>0, <1>2, Grows
<1>7. ASSUME NEW d \in Devices, NEW c \in applied'[d] PROVE InLog(log', d, c)
  <2>1. CASE c \in applied[d]
    BY <1>6, <2>1 DEF KeptAll, InLog
  <2>2. CASE c \notin applied[d]
    <3>1. Marks(h)
      BY <1>7, <2>2 DEF HandlerStep, Ensures, Checks, Appends, ReadsCursor, ReadsRows, Folds,
                        Views, Saves, Stages
    <3>2. d = handler[h].dev /\ c = Commit(h) /\ handler[h].at = "mark"
      BY <1>0, <1>7, <2>2, <3>1 DEF Marks, At
    <3>3. InLog(log, d, c)
      BY <1>4, <3>2 DEF Kept, Past, CommitAt, Commit
    <3> QED
      BY <1>6, <3>3 DEF InLog
  <2> QED
    BY <2>1, <2>2
<1>8. ASSUME NEW d \in Devices PROVE Passed(log', staged', d, cursor'[d])
  <2>1. Passed(log, staged, d, cursor[d])
    BY DEF KeptAll
  <2> DEFINE n == cursor[d]
  <2>2. Passed(log', staged', d, n)
    <3> HIDE DEF n
    <3>1. staged[d] \subseteq staged'[d] /\ Passed(log, staged, d, n)
      BY <1>2, <2>1 DEF n
    <3> QED
      BY <1>0, <1>2, <3>1, PassedGrows
  <2> QED
    BY <1>0, <2>2
<1>9. Awaited'
  <2>1. ASSUME NEW d \in Devices, waits[d] \in Handlers
        PROVE  handler'[waits[d]].at # "idle" /\ handler'[waits[d]].dev = d
    <3>1. handler[waits[d]].at # "idle" /\ handler[waits[d]].dev = d
      BY <2>1 DEF Awaited
    <3> QED
      BY <1>2, <1>3, <2>1, <3>1
  <2> QED
    BY <1>0, <2>1 DEF Awaited
<1> QED
  BY <1>5, <1>7, <1>8, <1>9, KeptNext

-----------------------------------------------------------------------------
(* Requests that begin and end                                             *)

(* The log with its requests and the devices that await them.              *)
Workings == LogTypeOK /\ RequestsInOrder /\ Projected /\ GoneAll

(* A request that starts over: received, or ended.                         *)
LEMMA Restarted ==
  ASSUME Workings, KeptAll, NEW h \in Handlers, NEW g, Moves(h, g), Typed(g), g.cursor = 0,
         g.at # "save", Kept(log, staged, g),
         UNCHANGED <<log, staged, applied, rows, projected, views>>
  PROVE  /\ Workings'
         /\ handler'[h] = g /\ \A k \in Handlers : k # h => handler'[k] = handler[k]
         /\ \A k \in Handlers : Kept(log', staged', handler'[k])
         /\ \A d \in Devices : \A c \in applied'[d] : InLog(log', d, c)
<1>0. /\ log \in Seq(Record) /\ staged \in [Devices -> SUBSET Nat] /\ applied \in [Devices -> SUBSET Nat]
      /\ rows \in Tables(Len(log)) /\ projected \in 0..Len(log)
      /\ views \in [Sources -> {"none", "live", "deleted"}] /\ Len(log) \in Nat
      /\ LogTypeOK /\ RequestsInOrder
  BY LogTypes, LenProperties DEF Workings
<1>1. log' \in Seq(Record) /\ Extends(log, log')
  BY <1>0 DEF Extends
<1>2. handler' \in [Handlers -> Requests(Len(log'))] /\ RequestsInOrder'
  BY <1>0, <1>1, MovedTypes
<1>3. handler'[h] = g /\ \A k \in Handlers : k # h => handler'[k] = handler[k]
  BY <1>0, Moved
<1>4. QuietStep(h)
  BY <1>1, <1>3 DEF QuietStep
<1>5. Projected' /\ GoneAll'
  BY <1>4, QuietKeeps DEF Workings
<1>6. LogTypeOK'
  BY <1>0, <1>2, LogTypesNext
<1>7. \A k \in Handlers : Kept(log', staged', handler'[k])
  BY <1>3 DEF KeptAll
<1>8. \A d \in Devices : \A c \in applied'[d] : InLog(log', d, c)
  BY DEF KeptAll
<1>9. Workings'
  BY <1>2, <1>5, <1>6 DEF Workings
<1> QED
  BY <1>3, <1>7, <1>8, <1>9

Uploading ==
  /\ cursor \in [Devices -> Nat] /\ \A d \in Devices : cursor[d] <= Len(Local[d])
  /\ waits \in [Devices -> Handlers \cup {"none"}]

Mirroring ==
  /\ mirrorCursor \in 0..Len(log) /\ mirrored \in 0..Len(log) /\ highWater \in 0..Len(log)
  /\ held \subseteq 1..Len(log)
  /\ pull \in [at : {"idle", "fetch", "apply", "save"}, after : 0..Len(log),
               upto : 0..Len(log), complete : BOOLEAN]

LEMMA ReplicaTypes == ReplicaTypeOK <=> Uploading /\ Mirroring
BY DEF ReplicaTypeOK, Uploading, Mirroring

(* A device sends, is answered, is not heard of again or gives up.         *)
LEMMA UploadsKeep ==
  ASSUME Workings, KeptAll, Awaited, ReplicaTypeOK, NEW d \in Devices, NEW h \in Handlers,
         Uploads(d, h)
  PROVE  Workings' /\ KeptAll' /\ Awaited' /\ Uploading' /\ log' = log
<1>0. /\ UNCHANGED <<cursor, log, staged, applied, rows, projected, views>>
      /\ waits[d] = "none" /\ waits' = [waits EXCEPT ![d] = h] /\ handler[h].at = "idle"
      /\ waits \in [Devices -> Handlers \cup {"none"}]
  BY ReplicaTypes DEF Uploads, Receives, At, Uploading
<1>1. PICK g : /\ Moves(h, g) /\ Typed(g) /\ g.cursor = 0 /\ g.at = "ensure"
               /\ g.dev = d /\ g.first = cursor[d] + 1
  BY UploadsMoves DEF Workings
<1>2. Kept(log, staged, g)
  <2>1. Passed(log, staged, d, cursor[d]) /\ cursor[d] \in Nat
    BY ReplicaTypes DEF KeptAll, Uploading
  <2>2. g.first - 1 = cursor[d]
    BY <1>1, <2>1
  <2>3. ~Past(g)
    BY <1>1 DEF Past, Projecting
  <2>4. Passed(log, staged, g.dev, g.first - 1)
    BY <1>1, <2>1, <2>2
  <2> QED
    BY <1>1, <2>3, <2>4 DEF Kept
<1>3. /\ Workings'
      /\ handler'[h] = g /\ \A k \in Handlers : k # h => handler'[k] = handler[k]
      /\ \A k \in Handlers : Kept(log', staged', handler'[k])
      /\ \A c \in Devices : \A x \in applied'[c] : InLog(log', c, x)
  BY <1>0, <1>1, <1>2, Restarted
<1>4. KeptAll'
  <2>1. \A c \in Devices : Passed(log', staged', c, cursor'[c])
    BY <1>0 DEF KeptAll
  <2> QED
    BY <1>3, <2>1, KeptNext
<1>5. Awaited'
  <2>1. ASSUME NEW c \in Devices, waits'[c] \in Handlers
        PROVE  handler'[waits'[c]].at # "idle" /\ handler'[waits'[c]].dev = c
    <3>1. CASE c = d
      BY <1>0, <1>1, <1>3, <3>1
    <3>2. CASE c # d
      <4>1. waits'[c] = waits[c]
        BY <1>0, <3>2
      <4>2. handler[waits[c]].at # "idle" /\ handler[waits[c]].dev = c
        BY <2>1, <4>1 DEF Awaited
      <4> QED
        BY <1>0, <1>3, <2>1, <4>1, <4>2
    <3> QED
      BY <3>1, <3>2
  <2> QED
    BY <2>1 DEF Awaited
<1>6. Uploading'
  BY <1>0, ReplicaTypes DEF Uploading
<1> QED
  BY <1>0, <1>3, <1>4, <1>5, <1>6

(* A request ends: what of it is kept is its device's cursor, if it        *)
(* moves.                                                                  *)
LEMMA EndsKeep ==
  ASSUME Workings, KeptAll, NEW h \in Handlers, Ends(h)
  PROVE  /\ Workings'
         /\ handler'[h].at = "idle" /\ \A k \in Handlers : k # h => handler'[k] = handler[k]
         /\ \A k \in Handlers : Kept(log', staged', handler'[k])
         /\ \A d \in Devices : \A c \in applied'[d] : InLog(log', d, c)
<1>1. Moves(h, Free) /\ Typed(Free) /\ Free.at = "idle" /\ Free.cursor = 0
  BY EndsMoves DEF Workings
<1>2. Kept(log, staged, Free) /\ Free.at # "save"
  BY <1>1 DEF Kept
<1>3. UNCHANGED <<log, staged, applied, rows, projected, views>>
  BY DEF Ends
<1> QED
  BY <1>1, <1>2, <1>3, Restarted

LEMMA AcknowledgedKeeps ==
  ASSUME Workings, KeptAll, Awaited, ReplicaTypeOK, NEW d \in Devices, NEW h \in Handlers,
         Acknowledged(d, h)
  PROVE  Workings' /\ KeptAll' /\ Awaited' /\ Uploading' /\ log' = log
<1>0. /\ UNCHANGED <<log, staged, applied, rows, projected, views>>
      /\ waits[d] = h /\ waits' = [waits EXCEPT ![d] = "none"] /\ handler[h].at = "done" /\ Ends(h)
      /\ cursor' = [cursor EXCEPT ![d] = handler[h].last]
      /\ waits \in [Devices -> Handlers \cup {"none"}] /\ cursor \in [Devices -> Nat]
      /\ \A c \in Devices : cursor[c] <= Len(Local[c])
  BY ReplicaTypes DEF Acknowledged, Ends, At, Uploading
<1>1. /\ Workings'
      /\ handler'[h].at = "idle" /\ \A k \in Handlers : k # h => handler'[k] = handler[k]
      /\ \A k \in Handlers : Kept(log', staged', handler'[k])
      /\ \A c \in Devices : \A x \in applied'[c] : InLog(log', c, x)
  BY <1>0, EndsKeep
<1>2. handler[h].dev = d /\ InOrder(handler[h]) /\ Kept(log, staged, handler[h])
  BY <1>0 DEF Awaited, Workings, RequestsInOrder, KeptAll
<1>3. handler[h].last \in Nat /\ handler[h].first \in Nat
  BY <1>2, Here DEF Requests, Workings
<1>4. handler[h].last <= Len(Local[d]) /\ handler[h].first - 1 = handler[h].last
  BY <1>0, <1>2, <1>3 DEF InOrder, Placed
<1>5. Passed(log, staged, d, handler[h].last)
  BY <1>0, <1>2, <1>4 DEF Kept
<1>6. \A c \in Devices : Passed(log', staged', c, cursor'[c])
  BY <1>0, <1>5 DEF KeptAll
<1>7. KeptAll'
  BY <1>1, <1>6, KeptNext
<1>8. Awaited'
  <2>1. ASSUME NEW c \in Devices, waits'[c] \in Handlers
        PROVE  handler'[waits'[c]].at # "idle" /\ handler'[waits'[c]].dev = c
    <3>1. c # d /\ waits'[c] = waits[c]
      BY <1>0, <2>1, ReplicaAssumption
    <3>2. handler[waits[c]].at # "idle" /\ handler[waits[c]].dev = c
      BY <2>1, <3>1 DEF Awaited
    <3>3. waits[c] # h
      BY <1>2, <3>1, <3>2
    <3> QED
      BY <1>1, <2>1, <3>1, <3>2, <3>3
  <2> QED
    BY <2>1 DEF Awaited
<1>9. Uploading'
  BY <1>0, <1>3, <1>4 DEF Uploading
<1> QED
  BY <1>0, <1>1, <1>7, <1>8, <1>9

LEMMA UnheardKeeps ==
  ASSUME Workings, KeptAll, Awaited, ReplicaTypeOK, NEW h \in Handlers,
         Unheard(h) \/ RequestDies(h)
  PROVE  Workings' /\ KeptAll' /\ Awaited' /\ Uploading' /\ log' = log
<1>0. /\ UNCHANGED <<log, staged, applied, rows, projected, views, cursor>> /\ Ends(h)
      /\ waits \in [Devices -> Handlers \cup {"none"}] /\ cursor \in [Devices -> Nat]
      /\ \A c \in Devices : cursor[c] <= Len(Local[c])
  BY ReplicaTypes DEF Unheard, RequestDies, Ends, Uploading, uploadVars
<1>1. /\ Workings'
      /\ handler'[h].at = "idle" /\ \A k \in Handlers : k # h => handler'[k] = handler[k]
      /\ \A k \in Handlers : Kept(log', staged', handler'[k])
      /\ \A c \in Devices : \A x \in applied'[c] : InLog(log', c, x)
  BY <1>0, EndsKeep
<1>2. /\ \A c \in Devices : waits'[c] # h /\ (waits'[c] = waits[c] \/ waits'[c] = "none")
      /\ waits' \in [Devices -> Handlers \cup {"none"}]
  <2>1. CASE Unheard(h)
    BY <1>0, <2>1 DEF Unheard, uploadVars
  <2>2. CASE RequestDies(h)
    BY <1>0, <2>2, ReplicaAssumption DEF RequestDies
  <2> QED
    BY <2>1, <2>2
<1>3. KeptAll'
  <2>1. \A c \in Devices : Passed(log', staged', c, cursor'[c])
    BY <1>0 DEF KeptAll
  <2> QED
    BY <1>1, <2>1, KeptNext
<1>4. Awaited'
  <2>1. ASSUME NEW c \in Devices, waits'[c] \in Handlers
        PROVE  handler'[waits'[c]].at # "idle" /\ handler'[waits'[c]].dev = c
    <3>1. waits'[c] = waits[c] /\ waits'[c] # h
      BY <1>2, <2>1, ReplicaAssumption
    <3>2. handler[waits[c]].at # "idle" /\ handler[waits[c]].dev = c
      BY <2>1, <3>1 DEF Awaited
    <3> QED
      BY <1>1, <2>1, <3>1, <3>2
  <2> QED
    BY <2>1 DEF Awaited
<1>5. Uploading'
  BY <1>0, <1>2 DEF Uploading
<1> QED
  BY <1>0, <1>1, <1>3, <1>4, <1>5

LEMMA UnchangedLog ==
  ASSUME Workings, KeptAll, UNCHANGED <<logVars, cursor>>
  PROVE  Workings' /\ KeptAll' /\ log' = log
<1>1. UNCHANGED <<log, staged, applied, rows, projected, views, handler, cursor>>
  BY DEF logVars
<1>2. LogTypeOK'
  BY <1>1, LogTypes, LogTypesNext DEF Workings
<1>3. RequestsInOrder'
  BY <1>1 DEF Workings, RequestsInOrder
<1>4. Projected'
  BY <1>1, ProjectedHere DEF Workings
<1>5. GoneAll'
  BY <1>1, GoneHere DEF Workings, GoneAll
<1>6. KeptAll'
  BY <1>1, KeptNext DEF KeptAll
<1> QED
  BY <1>1, <1>2, <1>3, <1>4, <1>5, <1>6 DEF Workings

LEMMA GivesUpKeeps ==
  ASSUME Workings, KeptAll, Awaited, ReplicaTypeOK, NEW d \in Devices, GivesUp(d)
  PROVE  Workings' /\ KeptAll' /\ Awaited' /\ Uploading' /\ log' = log
<1>1. /\ UNCHANGED <<logVars, cursor>> /\ waits' = [waits EXCEPT ![d] = "none"]
      /\ waits \in [Devices -> Handlers \cup {"none"}] /\ handler' = handler
  BY ReplicaTypes DEF GivesUp, Uploading, logVars
<1>2. Workings' /\ KeptAll' /\ log' = log
  BY <1>1, UnchangedLog
<1>3. Awaited'
  <2>1. ASSUME NEW c \in Devices, waits'[c] \in Handlers
        PROVE  handler'[waits'[c]].at # "idle" /\ handler'[waits'[c]].dev = c
    <3>1. waits'[c] = waits[c]
      BY <1>1, <2>1, ReplicaAssumption
    <3> QED
      BY <1>1, <2>1, <3>1 DEF Awaited
  <2> QED
    BY <2>1 DEF Awaited
<1>4. Uploading'
  BY <1>1, ReplicaTypes DEF Uploading
<1> QED
  BY <1>2, <1>3, <1>4

-----------------------------------------------------------------------------
(* The mirror                                                              *)

(* The mirror's pull, for a log that is not the state's.                   *)
Pulling(n) ==
  [at : {"idle", "fetch", "apply", "save"}, after : 0..n, upto : 0..n, complete : BOOLEAN]

PullMirrored(l, s, p) ==
  /\ p.at \in {"fetch", "apply"} => Mirrored(l, s, p.after)
  /\ p.at = "save" => Mirrored(l, s, p.upto)

LEMMA MirroredHere ==
  /\ MirroredAll <=> /\ Mirrored(log, held, mirrorCursor) /\ Mirrored(log, held, mirrored)
                     /\ PullMirrored(log, held, pull)
  /\ MirroredAll' <=> /\ Mirrored(log', held', mirrorCursor') /\ Mirrored(log', held', mirrored')
                      /\ PullMirrored(log', held', pull')
  /\ Mirroring <=> /\ mirrorCursor \in 0..Len(log) /\ mirrored \in 0..Len(log)
                   /\ highWater \in 0..Len(log) /\ held \subseteq 1..Len(log)
                   /\ pull \in Pulling(Len(log))
  /\ Mirroring' <=> /\ mirrorCursor' \in 0..Len(log') /\ mirrored' \in 0..Len(log')
                    /\ highWater' \in 0..Len(log') /\ held' \subseteq 1..Len(log')
                    /\ pull' \in Pulling(Len(log'))
BY DEF MirroredAll, Mirrored, PullMirrored, Mirroring, Pulling

(* What the mirror has of a log it has of a longer one.                    *)
LEMMA MirroredGrows ==
  ASSUME NEW l \in Seq(Record), NEW m \in Seq(Record), Extends(l, m), NEW s, NEW t, s \subseteq t,
         NEW n \in 0..Len(l), Mirrored(l, s, n)
  PROVE  Mirrored(m, t, n)
<1>1. \A i \in 1..n : m[i] = l[i]
  BY LenProperties DEF Extends
<1> QED
  BY <1>1 DEF Mirrored

LEMMA Rests ==
  ASSUME NEW n \in Nat
  PROVE  /\ Resting \in Pulling(n) /\ Resting.at = "idle"
         /\ \A l, s : PullMirrored(l, s, Resting)
BY DEF Resting, Pulling, PullMirrored

LEMMA MirrorStays ==
  ASSUME LogTypeOK, Mirroring, MirroredAll, log' \in Seq(Record), Extends(log, log'),
         UNCHANGED mirrorVars
  PROVE  Mirroring' /\ MirroredAll'
<1>0. /\ UNCHANGED <<mirrorCursor, mirrored, highWater, held, pull>>
      /\ log \in Seq(Record) /\ log' \in Seq(Record) /\ Extends(log, log')
      /\ Len(log) \in Nat /\ Len(log') \in Nat /\ Len(log) <= Len(log')
  BY Facts, LenProperties DEF mirrorVars, Extends
<1>1. /\ mirrorCursor \in 0..Len(log) /\ mirrored \in 0..Len(log) /\ highWater \in 0..Len(log)
      /\ held \subseteq 1..Len(log) /\ pull \in Pulling(Len(log))
      /\ Mirrored(log, held, mirrorCursor) /\ Mirrored(log, held, mirrored)
      /\ PullMirrored(log, held, pull)
  BY MirroredHere
<1>2. pull.after \in 0..Len(log) /\ pull.upto \in 0..Len(log)
  BY <1>1 DEF Pulling
<1>3. \A n \in 0..Len(log) : Mirrored(log, held, n) => Mirrored(log', held, n)
  BY <1>0, MirroredGrows
<1>4. PullMirrored(log', held, pull)
  BY <1>1, <1>2, <1>3 DEF PullMirrored
<1>5. 0..Len(log) \subseteq 0..Len(log') /\ 1..Len(log) \subseteq 1..Len(log')
  BY <1>0
<1>6. Pulling(Len(log)) \subseteq Pulling(Len(log'))
  BY <1>5 DEF Pulling
<1>7. MirroredAll'
  BY <1>0, <1>1, <1>3, <1>4, MirroredHere
<1>8. Mirroring'
  BY <1>0, <1>1, <1>5, <1>6, MirroredHere
<1> QED
  BY <1>7, <1>8

LEMMA LeastOf ==
  ASSUME NEW a \in Nat, NEW b \in Nat
  PROVE  /\ Min({a, b}) \in {a, b} /\ Min({a, b}) <= a /\ Min({a, b}) <= b
         /\ Max({a, b}) \in {a, b} /\ Max({a, b}) >= a /\ Max({a, b}) >= b
<1>1. \E x \in {a, b} : \A y \in {a, b} : x <= y
  OBVIOUS
<1>2. \E x \in {a, b} : \A y \in {a, b} : x >= y
  OBVIOUS
<1>3. Min({a, b}) \in {a, b} /\ \A y \in {a, b} : Min({a, b}) <= y
  BY <1>1 DEF Min
<1>4. Max({a, b}) \in {a, b} /\ \A y \in {a, b} : Max({a, b}) >= y
  BY <1>2 DEF Max
<1> QED
  BY <1>3, <1>4

(* What the page that is applied makes of what is held.                    *)
LEMMA PageHeld ==
  ASSUME LogTypeOK, Mirroring, MirroredAll, pull.at = "apply"
  PROVE  /\ Foreign \subseteq 1..Len(log)
         /\ Foreign # {} => Max(Foreign) \in 0..Len(log)
         /\ Mirrored(log, held \cup Foreign, pull.upto)
<1>1. pull \in Pulling(Len(log)) /\ PullMirrored(log, held, pull) /\ Len(log) \in Nat
  BY Facts, MirroredHere
<1>2. pull.after \in 0..Len(log) /\ pull.upto \in 0..Len(log) /\ Mirrored(log, held, pull.after)
  BY <1>1 DEF Pulling, PullMirrored
<1>3. Foreign = {n \in (pull.after + 1)..pull.upto : log[n].origin # Mirror}
  BY DEF Foreign, Page
<1>4. Foreign \subseteq 1..Len(log) /\ Foreign \in SUBSET Nat
  BY <1>1, <1>2, <1>3
<1>5. ASSUME Foreign # {} PROVE Max(Foreign) \in 0..Len(log)
  <2>1. IsFiniteSet(1..Len(log))
    BY <1>1, FS_Interval
  <2>2. IsFiniteSet(Foreign)
    BY <1>4, <2>1, FS_Subset
  <2>3. Max(Foreign) \in Foreign
    BY <1>4, <1>5, <2>2, Greatest
  <2> DEFINE m == Max(Foreign)
  <2>4. m \in 1..Len(log)
    BY <1>4, <2>3
  <2> HIDE DEF m
  <2>5. m \in 0..Len(log)
    BY <1>1, <2>4
  <2> QED
    BY <2>5 DEF m
<1>6. ASSUME NEW i \in 1..pull.upto, log[i].origin # Mirror PROVE i \in held \cup Foreign
  <2>1. CASE i <= pull.after
    <3>1. i \in 1..pull.after
      BY <1>1, <1>2, <2>1
    <3> QED
      BY <1>2, <1>6, <3>1 DEF Mirrored
  <2>2. CASE ~(i <= pull.after)
    <3>1. i \in (pull.after + 1)..pull.upto
      BY <1>1, <1>2, <2>2
    <3> QED
      BY <1>3, <1>6, <3>1
  <2> QED
    BY <2>1, <2>2
<1> QED
  BY <1>4, <1>5, <1>6 DEF Mirrored

(* A pull that leaves what is held alone, up to more records.              *)
LEMMA MirrorMoves ==
  ASSUME LogTypeOK, Mirroring, MirroredAll, log' = log, held \subseteq held',
         held' \subseteq 1..Len(log), mirrorCursor' \in 0..Len(log), mirrored' \in 0..Len(log),
         highWater' \in 0..Len(log), pull' \in Pulling(Len(log)),
         mirrorCursor' = mirrorCursor \/ Mirrored(log, held', mirrorCursor'),
         mirrored' = mirrored \/ Mirrored(log, held', mirrored'),
         PullMirrored(log, held', pull')
  PROVE  Mirroring' /\ MirroredAll'
<1>1. /\ mirrorCursor \in 0..Len(log) /\ mirrored \in 0..Len(log)
      /\ Mirrored(log, held, mirrorCursor) /\ Mirrored(log, held, mirrored)
  BY MirroredHere
<1>2. Mirrored(log, held', mirrorCursor') /\ Mirrored(log, held', mirrored')
  BY <1>1 DEF Mirrored
<1> QED
  BY <1>2, MirroredHere

(* The steps of a pull, and the fields of the pull they leave.             *)
Aimed(p, a, c) == [p EXCEPT !.at = "apply", !.upto = a, !.complete = c]
Saving(p) == [p EXCEPT !.at = "save"]
Fetching(p, a) == [p EXCEPT !.at = "fetch", !.after = a]

LEMMA AimedFields ==
  ASSUME NEW n \in Nat, NEW p \in Pulling(n), NEW a \in 0..n, NEW c \in BOOLEAN
  PROVE  /\ Aimed(p, a, c) \in Pulling(n) /\ Aimed(p, a, c).at = "apply"
         /\ Aimed(p, a, c).after = p.after
BY DEF Aimed, Pulling

LEMMA SavingFields ==
  ASSUME NEW n \in Nat, NEW p \in Pulling(n)
  PROVE  Saving(p) \in Pulling(n) /\ Saving(p).at = "save" /\ Saving(p).upto = p.upto
BY DEF Saving, Pulling

LEMMA FetchingFields ==
  ASSUME NEW n \in Nat, NEW p \in Pulling(n), NEW a \in 0..n
  PROVE  Fetching(p, a) \in Pulling(n) /\ Fetching(p, a).at = "fetch" /\ Fetching(p, a).after = a
BY DEF Fetching, Pulling

LEMMA PullKeeps ==
  ASSUME LogTypeOK, Mirroring, MirroredAll, log' = log,
         PullStep \/ FetchFails \/ HubFails \/ Restarts \/ AnswersLate
  PROVE  Mirroring' /\ MirroredAll'
<1>0. /\ mirrorCursor \in 0..Len(log) /\ mirrored \in 0..Len(log) /\ highWater \in 0..Len(log)
      /\ held \subseteq 1..Len(log) /\ pull \in Pulling(Len(log))
      /\ Mirrored(log, held, mirrorCursor) /\ Mirrored(log, held, mirrored)
      /\ PullMirrored(log, held, pull) /\ Len(log) \in Nat
  BY Facts, MirroredHere
<1>00. /\ pull.after \in 0..Len(log) /\ pull.upto \in 0..Len(log) /\ 0 \in 0..Len(log)
       /\ \A l, s : Mirrored(l, s, 0)
  BY <1>0 DEF Pulling, Mirrored
<1>R. Resting \in Pulling(Len(log)) /\ \A l, s : PullMirrored(l, s, Resting)
  BY <1>0, Rests
<1>1. CASE PullStarts
  <2>1. /\ pull' = [Resting EXCEPT !.at = "fetch", !.after = Min({mirrorCursor, mirrored})]
        /\ UNCHANGED <<mirrorCursor, mirrored, highWater, held>>
    BY <1>1 DEF PullStarts
  <2> DEFINE a == Min({mirrorCursor, mirrored})
  <2>2. a \in {mirrorCursor, mirrored}
    <3>1. mirrorCursor \in Nat /\ mirrored \in Nat
      BY <1>0
    <3> QED
      BY <3>1, LeastOf
  <2> HIDE DEF a
  <2>3. a \in 0..Len(log) /\ Mirrored(log, held, a)
    BY <1>0, <2>2
  <2>4. pull' \in Pulling(Len(log)) /\ pull'.at = "fetch" /\ pull'.after = a
    <3>1. pull' = Fetching(Resting, a)
      BY <2>1 DEF Fetching, a
    <3> QED
      BY <1>0, <1>R, <2>3, <3>1, FetchingFields
  <2>5. PullMirrored(log, held, pull')
    BY <2>3, <2>4 DEF PullMirrored
  <2> QED
    BY <1>0, <2>1, <2>4, <2>5, MirrorMoves
<1>2. CASE Fetches
  <2> DEFINE upto == Min({pull.after + PullSize, Len(log)})
  <2>1. /\ pull' = IF upto <= pull.after THEN Resting
                   ELSE [pull EXCEPT !.at = "apply", !.upto = upto, !.complete = upto = Len(log)]
        /\ UNCHANGED <<mirrorCursor, mirrored, highWater, held>> /\ pull.at = "fetch"
    BY <1>2 DEF Fetches
  <2>2. upto \in 0..Len(log)
    <3>1. pull.after + PullSize \in Nat
      BY <1>00, ReplicaAssumption
    <3>2. upto \in {pull.after + PullSize, Len(log)} /\ upto <= Len(log)
      BY <1>0, <3>1, LeastOf
    <3> QED
      BY <1>0, <3>1, <3>2
  <2> HIDE DEF upto
  <2>3. Mirrored(log, held, pull.after)
    BY <1>0, <2>1 DEF PullMirrored
  <2>4. CASE upto <= pull.after
    <3>1. pull' = Resting
      BY <2>1, <2>4
    <3> QED
      BY <1>0, <1>R, <2>1, <3>1, MirrorMoves
  <2>5. CASE ~(upto <= pull.after)
    <3> DEFINE c == upto = Len(log)
    <3>0. pull' = Aimed(pull, upto, c) /\ c \in BOOLEAN
      BY <2>1, <2>5 DEF Aimed
    <3> HIDE DEF c
    <3>1. pull' \in Pulling(Len(log)) /\ pull'.at = "apply" /\ pull'.after = pull.after
      BY <1>0, <2>2, <3>0, AimedFields
    <3>2. PullMirrored(log, held, pull')
      BY <2>3, <3>1 DEF PullMirrored
    <3> QED
      BY <1>0, <2>1, <3>1, <3>2, MirrorMoves
  <2> QED
    BY <2>4, <2>5
<1>3. CASE Applies
  <2>1. /\ pull.at = "apply" /\ mirrored' = Max({mirrored, pull.upto})
        /\ pull' = [pull EXCEPT !.at = "save"] /\ mirrorCursor' = mirrorCursor
        /\ HubApplies \/ (Foreign = {} /\ UNCHANGED <<held, highWater>>)
    BY <1>3 DEF Applies
  <2>2. /\ Foreign \subseteq 1..Len(log)
        /\ Foreign # {} => Max(Foreign) \in 0..Len(log)
        /\ Mirrored(log, held \cup Foreign, pull.upto)
    BY <2>1, PageHeld
  <2>3. held' = held \cup Foreign /\ highWater' \in 0..Len(log)
    <3>1. CASE HubApplies
      BY <2>2, <3>1 DEF HubApplies
    <3>2. CASE Foreign = {} /\ UNCHANGED <<held, highWater>>
      BY <1>0, <3>2
    <3> QED
      BY <2>1, <3>1, <3>2
  <2>4. mirrored' \in {mirrored, pull.upto}
    <3>1. mirrored \in Nat /\ pull.upto \in Nat
      BY <1>0, <1>00
    <3> QED
      BY <2>1, <3>1, LeastOf
  <2>5. mirrored' \in 0..Len(log) /\ (mirrored' = mirrored \/ Mirrored(log, held', mirrored'))
    BY <1>0, <1>00, <2>2, <2>3, <2>4
  <2>6. pull' \in Pulling(Len(log)) /\ pull'.at = "save" /\ pull'.upto = pull.upto
    <3>1. pull' = Saving(pull)
      BY <2>1 DEF Saving
    <3> QED
      BY <1>0, <3>1, SavingFields
  <2>7. PullMirrored(log, held', pull')
    BY <2>2, <2>3, <2>6 DEF PullMirrored
  <2>8. held \subseteq held' /\ held' \subseteq 1..Len(log)
    BY <1>0, <2>2, <2>3
  <2> QED
    BY <1>0, <2>1, <2>3, <2>5, <2>6, <2>7, <2>8, MirrorMoves
<1>4. CASE Refused \/ FetchFails \/ HubFails
  <2>1. pull' = Resting /\ UNCHANGED <<mirrorCursor, mirrored, highWater, held>>
    BY <1>4 DEF Refused, FetchFails, HubFails
  <2> QED
    BY <1>0, <1>R, <2>1, MirrorMoves
<1>5. CASE SavesCursor
  <2>1. /\ pull.at = "save" /\ mirrorCursor' = pull.upto
        /\ pull' = IF pull.complete THEN Resting
                   ELSE [Resting EXCEPT !.at = "fetch", !.after = pull.upto]
        /\ UNCHANGED <<mirrored, highWater, held>>
    BY <1>5 DEF SavesCursor
  <2>2. Mirrored(log, held, pull.upto)
    BY <1>0, <2>1 DEF PullMirrored
  <2>3. pull' \in Pulling(Len(log)) /\ PullMirrored(log, held, pull')
    <3>1. CASE pull.complete
      BY <1>R, <2>1, <3>1
    <3>2. CASE ~pull.complete
      <4>1. pull' = [Resting EXCEPT !.at = "fetch", !.after = pull.upto]
        BY <2>1, <3>2
      <4>2. pull' \in Pulling(Len(log)) /\ pull'.at = "fetch" /\ pull'.after = pull.upto
        <5>1. pull' = Fetching(Resting, pull.upto)
          BY <4>1 DEF Fetching
        <5> QED
          BY <1>0, <1>00, <1>R, <5>1, FetchingFields
      <4> QED
        BY <2>2, <4>2 DEF PullMirrored
    <3> QED
      BY <3>1, <3>2
  <2> QED
    BY <1>0, <1>00, <2>1, <2>2, <2>3, MirrorMoves
<1>6. CASE Restarts
  <2>1. mirrored' = 0 /\ highWater' = 0 /\ pull' = Resting /\ UNCHANGED <<mirrorCursor, held>>
    BY <1>6 DEF Restarts
  <2> QED
    BY <1>0, <1>00, <1>R, <2>1, MirrorMoves
<1>7. CASE AnswersLate
  <2>1. /\ pull.at = "apply" /\ pull' = Resting /\ UNCHANGED <<mirrorCursor, mirrored>>
        /\ Foreign # {} /\ held' = held \cup Foreign /\ highWater' = Max(Foreign)
    BY <1>7 DEF AnswersLate, HubApplies
  <2>2. Foreign \subseteq 1..Len(log) /\ Max(Foreign) \in 0..Len(log)
    BY <2>1, PageHeld
  <2>3. held \subseteq held' /\ held' \subseteq 1..Len(log)
    BY <1>0, <2>1, <2>2
  <2> QED
    BY <1>0, <1>R, <2>1, <2>2, <2>3, MirrorMoves
<1> QED
  BY <1>1, <1>2, <1>3, <1>4, <1>5, <1>6, <1>7 DEF PullStep

-----------------------------------------------------------------------------
(* The system                                                              *)

(* The parts of the invariant, with the types of each side.                *)
Parts == Workings /\ KeptAll /\ Awaited /\ Uploading /\ Mirroring /\ MirroredAll

LEMMA PartsAre == IInv <=> Parts /\ faults \in 0..MaxFaults
BY ReplicaTypes DEF IInv, Parts, Workings, TypeOK

(* Nothing was uploaded, projected or pulled.                              *)
LEMMA Begins == Init => IInv
<1> SUFFICES ASSUME Init PROVE IInv
  OBVIOUS
<1>1. /\ log = <<>> /\ log \in Seq(Record) /\ Len(log) = 0
      /\ staged = [d \in Devices |-> {}] /\ applied = [d \in Devices |-> {}]
      /\ rows = Empty /\ projected = 0 /\ views = [x \in Sources |-> "none"]
      /\ handler = [h \in Handlers |-> Free]
      /\ cursor = [d \in Devices |-> 0] /\ waits = [d \in Devices |-> "none"]
      /\ mirrorCursor = 0 /\ mirrored = 0 /\ highWater = 0 /\ held = {} /\ pull = Resting
      /\ faults = 0
  BY DEF Init, LogInit, ReplicaInit, Empty
<1>2. Free \in Requests(0) /\ Free.at = "idle" /\ Free.cursor = 0
  BY DEF Free, Requests
<1>3. LogTypeOK
  <2>1. rows \in Tables(Len(log))
    BY <1>1, EmptyTable
  <2>2. handler \in [Handlers -> Requests(Len(log))]
    BY <1>1, <1>2
  <2> QED
    BY <1>1, <2>1, <2>2, LogTypes
<1>4. RequestsInOrder
  <2>1. InOrder(Free)
    BY <1>2 DEF InOrder, Working, Projecting
  <2> QED
    BY <1>1, <2>1 DEF RequestsInOrder
<1>5. Awaited
  BY <1>1, ReplicaAssumption DEF Awaited
<1>6. KeptAll
  <2>1. \A h \in Handlers : Kept(log, staged, handler[h])
    BY <1>1, <1>2 DEF Kept
  <2>2. ASSUME NEW d \in Devices PROVE Passed(log, staged, d, cursor[d])
    <3>1. cursor[d] = 0
      BY <1>1
    <3> QED
      BY <3>1 DEF Passed
  <2> QED
    BY <1>1, <2>1, <2>2 DEF KeptAll
<1>7. Projected
  <2>0. log \in Seq(Record) /\ 0 \in 0..Len(log)
    BY <1>1
  <2>1. PICK T : Run(log, T, 0, 0) /\ T[0] = Empty /\ ReplayedIn(log, 0) = T[0]
    BY <2>0, ReplayRun
  <2>2. rows = ReplayedIn(log, 0) /\ \A h \in Handlers : handler[h].cursor <= 0
    BY <1>1, <1>2, <2>1
  <2>3. 0 \in projected..Len(log)
    BY <1>1
  <2> QED
    BY <2>2, <2>3, ProjectedHere
<1>8. GoneAll
  <2>1. \A v : Gone(log, v, 0)
    BY DEF Gone, DeletedBy
  <2>2. \A h \in Handlers : handler[h].at # "save"
    BY <1>1, <1>2
  <2> QED
    BY <1>1, <2>1, <2>2 DEF GoneAll
<1>9. MirroredAll /\ Mirroring
  <2>1. Resting \in Pulling(0) /\ PullMirrored(log, held, Resting)
    BY Rests
  <2>2. Mirrored(log, held, 0)
    BY DEF Mirrored
  <2> QED
    BY <1>1, <2>1, <2>2, MirroredHere
<1>10. Uploading
  <2>1. \A d \in Devices : Len(Local[d]) \in Nat
    BY Entries
  <2> QED
    BY <1>1, <2>1 DEF Uploading
<1>11. faults \in 0..MaxFaults
  BY <1>1, SyncAssumption
<1> QED
  BY <1>3, <1>4, <1>5, <1>6, <1>7, <1>8, <1>9, <1>10, <1>11, PartsAre DEF Parts, Workings

(* Every step of the system keeps the invariant.                           *)
LEMMA UploadingNext ==
  Uploading' <=> /\ cursor' \in [Devices -> Nat] /\ \A d \in Devices : cursor'[d] <= Len(Local[d])
                 /\ waits' \in [Devices -> Handlers \cup {"none"}]
BY DEF Uploading

LEMMA MirrorUntouched ==
  ASSUME Parts, log' = log, UNCHANGED mirrorVars
  PROVE  Mirroring' /\ MirroredAll'
<1>1. log \in Seq(Record) /\ Len(log) \in Nat /\ LogTypeOK
  BY Facts DEF Parts, Workings
<1>2. log' \in Seq(Record) /\ Extends(log, log')
  BY <1>1 DEF Extends
<1> QED
  BY <1>1, <1>2, MirrorStays DEF Parts

LEMMA WorksKeep ==
  ASSUME Parts, NEW h \in Handlers, Works(h)
  PROVE  Parts'
<1>0. /\ Workings /\ KeptAll /\ Awaited /\ Uploading /\ Mirroring /\ MirroredAll /\ ReplicaTypeOK
      /\ LogTypeOK /\ RequestsInOrder /\ Projected /\ GoneAll
  BY ReplicaTypes DEF Parts, Workings
<1>1. UNCHANGED mirrorVars
  BY DEF Works
<1>2. CASE HandlerStep(h) /\ UNCHANGED uploadVars
  <2>1. LogTypeOK' /\ RequestsInOrder'
    BY <1>0, <1>2, LogStepTypes
  <2>2. Projected' /\ GoneAll'
    BY <1>0, <1>2, StepProjects
  <2>3. KeptAll' /\ Awaited'
    BY <1>0, <1>2, StepKeeps
  <2>4. Uploading'
    BY <1>0, <1>2, UploadingNext DEF Uploading, uploadVars
  <2>5. PICK g : Stepped(h, g)
    BY <1>0, <1>2, HandlerSteps
  <2>6. log' \in Seq(Record) /\ Extends(log, log')
    BY <2>5 DEF Stepped, Onwards
  <2>7. Mirroring' /\ MirroredAll'
    BY <1>0, <1>1, <2>6, MirrorStays
  <2> QED
    BY <2>1, <2>2, <2>3, <2>4, <2>7 DEF Parts, Workings
<1>3. CASE \E d \in Devices : Acknowledged(d, h)
  <2>1. PICK d \in Devices : Acknowledged(d, h)
    BY <1>3
  <2>2. Workings' /\ KeptAll' /\ Awaited' /\ Uploading' /\ log' = log
    BY <1>0, <2>1, AcknowledgedKeeps
  <2> QED
    BY <1>1, <2>2, MirrorUntouched DEF Parts
<1>4. CASE Unheard(h)
  <2>1. Workings' /\ KeptAll' /\ Awaited' /\ Uploading' /\ log' = log
    BY <1>0, <1>4, UnheardKeeps
  <2> QED
    BY <1>1, <2>1, MirrorUntouched DEF Parts
<1> QED
  BY <1>2, <1>3, <1>4 DEF Works

LEMMA SendsKeep ==
  ASSUME Parts, NEW d \in Devices, Sends(d)
  PROVE  Parts'
<1>1. PICK h \in Handlers : Uploads(d, h) /\ UNCHANGED <<mirrorVars, faults>>
  BY DEF Sends
<1>2. Workings' /\ KeptAll' /\ Awaited' /\ Uploading' /\ log' = log
  BY <1>1, UploadsKeep, ReplicaTypes DEF Parts
<1> QED
  BY <1>1, <1>2, MirrorUntouched DEF Parts

LEMMA LostKeeps ==
  ASSUME Parts, RequestLost
  PROVE  Parts'
<1>1. CASE \E d \in Devices : GivesUp(d)
  <2>1. PICK d \in Devices : GivesUp(d)
    BY <1>1
  <2>2. Workings' /\ KeptAll' /\ Awaited' /\ Uploading' /\ log' = log
    BY <2>1, GivesUpKeeps, ReplicaTypes DEF Parts
  <2> QED
    BY <2>2, MirrorUntouched DEF Parts, RequestLost
<1>2. CASE \E h \in Handlers : RequestDies(h)
  <2>1. PICK h \in Handlers : RequestDies(h)
    BY <1>2
  <2>2. Workings' /\ KeptAll' /\ Awaited' /\ Uploading' /\ log' = log
    BY <2>1, UnheardKeeps, ReplicaTypes DEF Parts
  <2> QED
    BY <2>2, MirrorUntouched DEF Parts, RequestLost
<1> QED
  BY <1>1, <1>2 DEF RequestLost

LEMMA PullsKeep ==
  ASSUME Parts, Pulls \/ PullBroken
  PROVE  Parts'
<1>1. /\ UNCHANGED <<logVars, uploadVars>>
      /\ PullStep \/ FetchFails \/ HubFails \/ Restarts \/ AnswersLate
  BY DEF Pulls, PullBroken
<1>2. UNCHANGED <<logVars, cursor>> /\ UNCHANGED <<cursor, waits, handler>>
  BY <1>1 DEF uploadVars, logVars
<1>3. Workings' /\ KeptAll' /\ log' = log
  BY <1>2, UnchangedLog DEF Parts
<1>4. Awaited'
  BY <1>2 DEF Parts, Awaited
<1>5. Uploading'
  BY <1>2, UploadingNext DEF Parts, Uploading
<1>6. Mirroring' /\ MirroredAll'
  BY <1>1, <1>3, PullKeeps DEF Parts, Workings
<1> QED
  BY <1>3, <1>4, <1>5, <1>6 DEF Parts

LEMMA Keeps == IInv /\ [Next]_vars => IInv'
<1> SUFFICES ASSUME IInv, [Next]_vars PROVE IInv'
  OBVIOUS
<1>1. Parts /\ faults \in 0..MaxFaults
  BY PartsAre
<1>2. Parts'
  <2>1. ASSUME NEW h \in Handlers, Works(h) PROVE Parts'
    BY <1>1, <2>1, WorksKeep
  <2>2. ASSUME NEW d \in Devices, Sends(d) PROVE Parts'
    BY <1>1, <2>2, SendsKeep
  <2>3. CASE RequestLost
    BY <1>1, <2>3, LostKeeps
  <2>4. CASE Pulls \/ PullBroken
    BY <1>1, <2>4, PullsKeep
  <2>5. CASE UNCHANGED vars
    <3>1. UNCHANGED <<logVars, cursor>> /\ UNCHANGED <<cursor, waits, handler>> /\ UNCHANGED mirrorVars
      BY <2>5 DEF vars, uploadVars, logVars
    <3>2. Workings' /\ KeptAll' /\ log' = log
      BY <1>1, <3>1, UnchangedLog DEF Parts
    <3>3. Awaited' /\ Uploading'
      BY <1>1, <3>1, UploadingNext DEF Parts, Awaited, Uploading
    <3>4. Mirroring' /\ MirroredAll'
      BY <1>1, <3>1, <3>2, MirrorUntouched
    <3> QED
      BY <3>2, <3>3, <3>4 DEF Parts
  <2> QED
    BY <2>1, <2>2, <2>3, <2>4, <2>5 DEF Next
<1>3. faults' \in 0..MaxFaults
  <2>1. CASE RequestLost \/ PullBroken
    BY <1>1, <2>1, SyncAssumption DEF RequestLost, PullBroken, Fault
  <2>2. CASE ~(RequestLost \/ PullBroken)
    BY <1>1, <2>2 DEF Next, Works, Sends, Pulls, vars
  <2> QED
    BY <2>1, <2>2
<1>4. Parts' /\ (faults \in 0..MaxFaults)'
  BY <1>2, <1>3
<1> QED
  BY <1>4, PartsAre, PTL

(* In every state of every run the invariant holds: with requests side by  *)
(* side, given up, evicted and sent again, and any number of faults.       *)
THEOREM Invariance == Spec => []IInv
<1>1. Init => IInv
  BY Begins
<1>2. IInv /\ [Next]_vars => IInv'
  BY Keeps
<1> QED
  BY <1>1, <1>2, PTL DEF Spec

(* The log, the staged events, the tables, the cursors of the devices and  *)
(* of the mirror, the requests and the pull always have their types.       *)
THEOREM TypeCorrect == Spec => []TypeOK
<1>1. IInv => TypeOK
  BY DEF IInv
<1> QED
  BY <1>1, Invariance, PTL

(* memory_records is at all times the replay of a prefix of memory_log     *)
(* that reaches at least the saved projection cursor, although             *)
(* projections run side by side, each from the cursor it read              *)
(* (project_zkr_memory).                                                   *)
THEOREM RecordsAreAReplay == Spec => []RecordsReplayTheLog
<1>1. IInv => RecordsReplayTheLog
  BY ProjectedHere, ReplayedHere DEF IInv, RecordsReplayTheLog
<1> QED
  BY <1>1, Invariance, PTL

(* Once the projection is past the deletion of a source that was told of   *)
(* before it, memory_sources never shows the source as live, whichever     *)
(* projection wrote last.                                                  *)
THEOREM DeletedStaysGone == Spec => []DeletedIsGone
<1>1. IInv => DeletedIsGone
  <2> SUFFICES ASSUME IInv, NEW m \in 1..projected, NEW n \in 1..projected, m < n,
                      log[n].key[1] = "deletion", log[m].key = <<"source", log[n].key[2]>>
               PROVE  views[log[n].key[2]] # "live"
    BY DEF DeletedIsGone
  <2>1. Gone(log, views, projected) /\ log \in Seq(Record) /\ projected \in 0..Len(log)
        /\ Len(log) \in Nat
    BY Facts DEF IInv, TypeOK, GoneAll
  <2>2. n \in 1..Len(log)
    BY <2>1
  <2>3. log[n] \in Record
    BY <2>1, <2>2, ElementOfSeq
  <2>4. log[n].key = <<"deletion", log[n].key[2]>> /\ log[n].key[2] \in Sources
    BY <2>3 DEF Record, Keys
  <2>5. DeletedBy(log, projected, log[n].key[2])
    BY <2>4 DEF DeletedBy
  <2> QED
    BY <2>1, <2>4, <2>5 DEF Gone
<1> QED
  BY <1>1, Invariance, PTL

(* What a device was told is accepted, up to its cursor, is staged, and    *)
(* in memory_log as soon as its commit is complete, so that a device that  *)
(* does not send it again loses nothing (apply_commit, sync).              *)
THEOREM AcknowledgedEventsAreKept == Spec => []AcknowledgedIsKept
<1>1. IInv => AcknowledgedIsKept
  <2> SUFFICES ASSUME IInv, NEW d \in Devices
               PROVE  /\ 1..cursor[d] \subseteq staged[d]
                      /\ \A e \in 1..cursor[d] :
                           EventsOf(d, Local[d][e].commit) \subseteq 1..cursor[d]
                             => \E n \in DOMAIN log : log[n] = Entry(d, e)
    BY DEF AcknowledgedIsKept
  <2>1. Passed(log, staged, d, cursor[d]) /\ DOMAIN log = 1..Len(log)
    BY Facts, LenProperties DEF IInv, TypeOK, KeptAll
  <2> QED
    BY <2>1 DEF Passed, Holds
<1> QED
  BY <1>1, Invariance, PTL

(* The mirror's cursors never pass an entry of another device that it      *)
(* does not hold, through failed fetches, a failing hub, restarts and      *)
(* late answers.                                                           *)
THEOREM MirrorHasItAll == Spec => []MirrorSkipsNothing
<1>1. IInv => MirrorSkipsNothing
  <2> SUFFICES ASSUME IInv PROVE MirrorSkipsNothing
    OBVIOUS
  <2>1. /\ Mirrored(log, held, mirrorCursor) /\ Mirrored(log, held, mirrored)
        /\ mirrorCursor \in Nat /\ mirrored \in Nat
    BY MirroredHere, Facts, PartsAre DEF IInv, Parts, Workings
  <2>2. Max({mirrorCursor, mirrored}) \in {mirrorCursor, mirrored}
    BY <2>1, LeastOf
  <2>3. Mirrored(log, held, Max({mirrorCursor, mirrored}))
    BY <2>1, <2>2
  <2> QED
    BY <2>3 DEF Mirrored, MirrorSkipsNothing
<1> QED
  BY <1>1, Invariance, PTL
=============================================================================
