------------------------- MODULE PartitioningProofs -------------------------
(***************************************************************************)
(* The layout a plan asks for, the partitions the script lists and those it *)
(* makes, for all disks, sizes of memory and edits of the plan file.        *)
(***************************************************************************)
EXTENDS Partitioning, Recursions, FiniteSetTheorems

(***************************************************************************)
(* The order of the listed partitions.                                      *)
(***************************************************************************)
Entries == [disk : Nat, index : Nat, part : PlannedPartition]

LEMMA Ranks ==
    /\ \A p : p.usage = "root" => RankOf(p) = 0
    /\ \A p : p.usage = "boot" => RankOf(p) = 1
    /\ \A p : p.usage = "home" => RankOf(p) = 2
    /\ \A p : p.usage = "opt" => RankOf(p) = 3
    /\ \A p : p.usage = "usr" => RankOf(p) = 4
    /\ \A p : p.usage = "var" => RankOf(p) = 5
    /\ \A p : p.usage = "swap" => RankOf(p) = 6
    /\ \A p : p.usage = "unused" => RankOf(p) = 7
<1>1. /\ MountOrder["boot"] = 1 /\ MountOrder["home"] = 2 /\ MountOrder["opt"] = 3
      /\ MountOrder["usr"] = 4 /\ MountOrder["var"] = 5
  BY Zenon DEF MountOrder
<1> QED
  BY <1>1, Zenon DEF RankOf

(* partition_order is the order of the ranks. *)
LEMMA OrderIsByRank ==
    ASSUME NEW left \in PlannedPartition, NEW right \in PlannedPartition
    PROVE  /\ RankOf(left) \in Nat
           /\ GoesBefore(left, right) <=> RankOf(left) < RankOf(right)
<1>1. left.usage \in Usages /\ right.usage \in Usages
  BY DEF PlannedPartition
<1>2. /\ MountOrder["boot"] = 1 /\ MountOrder["home"] = 2 /\ MountOrder["opt"] = 3
      /\ MountOrder["usr"] = 4 /\ MountOrder["var"] = 5
  BY Zenon DEF MountOrder
<1> QED
  BY <1>1, <1>2, Ranks DEF Usages, GoesBefore

(* Where InsertSorted puts an entry. *)
LEMMA Insertion ==
    ASSUME NEW s \in Seq(Entries), NEW e \in Entries
    PROVE  \E place \in 1 .. Len(s) + 1 :
              /\ InsertSorted(s, e) = InsertAt(s, place, e)
              /\ \A k \in place .. Len(s) : GoesBefore(e.part, s[k].part)
              /\ place > 1 => ~GoesBefore(e.part, s[place - 1].part)
<1> DEFINE stops == {k \in DOMAIN s : ~GoesBefore(e.part, s[k].part)}
           place == IF stops = {} THEN 1 ELSE 1 + Max(stops)
<1>1. Len(s) \in Nat /\ DOMAIN s = 1 .. Len(s)
  BY LenProperties
<1>2. InsertSorted(s, e) = InsertAt(s, place, e)
  BY DEF InsertSorted
<1>3. CASE stops = {}
  <2>1. place = 1
    BY <1>3
  <2>2. \A k \in 1 .. Len(s) : GoesBefore(e.part, s[k].part)
    BY <1>1, <1>3
  <2> QED
    BY <1>1, <1>2, <2>1, <2>2
<1>4. CASE stops # {}
  <2>1. Max(stops) \in stops /\ \A m \in stops : m <= Max(stops)
    BY <1>1, <1>4, Greatest
  <2>2. place = 1 + Max(stops) /\ Max(stops) \in 1 .. Len(s)
    BY <1>1, <1>4, <2>1
  <2>3. ~GoesBefore(e.part, s[Max(stops)].part)
    BY <2>1
  <2>4. \A k \in DOMAIN s : k \in stops \/ GoesBefore(e.part, s[k].part)
    OBVIOUS
  <2> HIDE DEF stops, place
  <2>5. place - 1 = Max(stops) /\ place \in 1 .. Len(s) + 1
    BY <1>1, <2>2
  <2>6. ASSUME NEW k \in place .. Len(s) PROVE GoesBefore(e.part, s[k].part)
    <3>1. k \in 1 .. Len(s) /\ k > Max(stops)
      BY <1>1, <2>2, <2>5
    <3>2. k \in DOMAIN s /\ k \notin stops
      BY <1>1, <2>1, <2>2, <3>1
    <3> QED
      BY <2>4, <3>2
  <2> QED
    BY <1>2, <2>3, <2>5, <2>6
<1> QED
  BY <1>3, <1>4

LEMMA Inserted ==
    ASSUME NEW s \in Seq(Entries), NEW e \in Entries, NEW place \in 1 .. Len(s) + 1
    PROVE  LET t == InsertAt(s, place, e)
           IN  /\ t \in Seq(Entries) /\ Len(t) = Len(s) + 1 /\ t[place] = e
               /\ \A k \in 1 .. place - 1 : t[k] = s[k]
               /\ \A k \in place + 1 .. Len(s) + 1 : t[k] = s[k - 1]
<1> DEFINE front == SubSeq(s, 1, place - 1)
           back  == SubSeq(s, place, Len(s))
           t     == InsertAt(s, place, e)
<1>0. Len(s) \in Nat
  BY LenProperties
<1>1. /\ front \in Seq(Entries) /\ Len(front) = place - 1
      /\ \A k \in 1 .. place - 1 : front[k] = s[k]
  BY <1>0, SubSeqProperties
<1>2. /\ back \in Seq(Entries) /\ Len(back) = Len(s) - place + 1
      /\ \A k \in 1 .. Len(s) - place + 1 : back[k] = s[k + place - 1]
  BY <1>0, SubSeqProperties
<1>3. t = (front \o <<e>>) \o back
  BY DEF InsertAt
<1> HIDE DEF front, back, t
<1>4. /\ front \o <<e>> \in Seq(Entries) /\ Len(front \o <<e>>) = place
      /\ \A k \in 1 .. place - 1 : (front \o <<e>>)[k] = s[k]
      /\ (front \o <<e>>)[place] = e
  BY <1>0, <1>1, SMTT(30)
<1> DEFINE x == front \o <<e>>
<1> HIDE DEF x
<1>5. /\ t \in Seq(Entries) /\ Len(t) = Len(s) + 1
      /\ \A k \in 1 .. place : t[k] = x[k]
      /\ \A k \in place + 1 .. Len(s) + 1 : t[k] = back[k - place]
  <2>1. x \in Seq(Entries) /\ Len(x) = place /\ t = x \o back
    BY <1>3, <1>4 DEF x
  <2>2. Len(x) + Len(back) = Len(s) + 1
    BY <1>0, <1>2, <2>1
  <2>3. /\ x \o back \in Seq(Entries) /\ Len(x \o back) = Len(x) + Len(back)
        /\ \A k \in 1 .. Len(x) + Len(back) :
              (x \o back)[k] = IF k <= Len(x) THEN x[k] ELSE back[k - Len(x)]
    BY <1>2, <2>1, ConcatProperties, Zenon
  <2>4. /\ t \in Seq(Entries) /\ Len(t) = Len(s) + 1
        /\ \A k \in 1 .. Len(s) + 1 : t[k] = IF k <= place THEN x[k] ELSE back[k - place]
    BY <2>1, <2>2, <2>3, Zenon
  <2> QED
    BY <1>0, <2>4
<1>6. ASSUME NEW k \in place + 1 .. Len(s) + 1 PROVE t[k] = s[k - 1]
  <2>1. k - place \in 1 .. Len(s) - place + 1 /\ (k - place) + place - 1 = k - 1
    BY <1>0
  <2>2. back[k - place] = s[k - 1]
    BY <1>2, <2>1
  <2> QED
    BY <1>5, <2>2
<1> QED
  BY <1>0, <1>4, <1>5, <1>6 DEF t, x

(* The loop over the records, one record at a time. *)
LEMMA ListedStepByStep ==
    ASSUME NEW records \in Seq(Entries)
    PROVE  /\ ListedUpTo(records) \in [0 .. Len(records) -> Seq(Entries)]
           /\ ListedUpTo(records)[0] = <<>>
           /\ \A n \in 1 .. Len(records) :
                 ListedUpTo(records)[n] =
                    IF Actionable(records[n].part)
                    THEN InsertSorted(ListedUpTo(records)[n - 1], records[n])
                    ELSE ListedUpTo(records)[n - 1]
<1> DEFINE N == Len(records)
           S == Seq(Entries)
           Next1(s, n) == IF n \in 1 .. N /\ Actionable(records[n].part)
                          THEN InsertSorted(s, records[n]) ELSE s
           g == [x \in S \X Nat |-> Next1(x[1], x[2])]
           Body(h) == [n \in 0 .. N |->
                         IF n = 0 THEN <<>>
                         ELSE IF Actionable(records[n].part) THEN InsertSorted(h[n - 1], records[n])
                         ELSE h[n - 1]]
<1>1. N \in Nat /\ \A n \in 1 .. N : records[n] \in Entries
  BY LenProperties, ElementOfSeq
<1>2. ASSUME NEW s \in S, NEW n \in Nat PROVE Next1(s, n) \in S
  <2>1. ASSUME NEW e \in Entries PROVE InsertSorted(s, e) \in S
    BY Insertion, Inserted
  <2> QED
    BY <1>1, <2>1
<1> HIDE DEF Next1
<1>3. g \in [S \X Nat -> S]
  BY <1>2
<1>4. <<>> \in S
  OBVIOUS
<1> HIDE DEF g
<1>5. PICK f \in [0 .. N -> S] : f[0] = <<>> /\ \A n \in 1 .. N : f[n] = g[<<f[n - 1], n>>]
  <2> HIDE DEF S, N
  <2>1. Iterates(N, S, <<>>, g) # {}
    BY <1>1, <1>3, <1>4, Recursion
  <2> QED
    BY <2>1 DEF Iterates
<1>6. ASSUME NEW n \in 1 .. N PROVE g[<<f[n - 1], n>>] = Next1(f[n - 1], n)
  <2>1. n - 1 \in 0 .. N /\ n \in Nat
    BY <1>1
  <2>2. f \in [0 .. N -> S]
    BY <1>5
  <2>3. f[n - 1] \in S
    BY <2>1, <2>2
  <2> QED
    BY <2>1, <2>3 DEF g
<1>7. f = Body(f)
  <2>1. ASSUME NEW n \in 0 .. N PROVE f[n] = Body(f)[n]
    <3>2. CASE n = 0
      BY <1>5, <3>2
    <3>3. CASE n # 0
      <4>1. n \in 1 .. N
        BY <3>3, <1>1
      <4>2. f[n] = Next1(f[n - 1], n)
        BY <1>5, <4>1, <1>6
      <4> QED
        BY <3>3, <4>1, <4>2 DEF Next1
    <3> QED
      BY <3>2, <3>3
  <2> QED
    BY <2>1, <1>5
<1>8. ListedUpTo(records) = CHOOSE h : h = Body(h)
  BY DEF ListedUpTo
<1> DEFINE listing == ListedUpTo(records)
<1>9. listing = Body(listing)
  BY <1>7, <1>8, Zenon
<1> HIDE DEF listing
<1>0. 0 \in 0 .. N /\ \A n \in 1 .. N : n \in 0 .. N /\ n # 0
  BY <1>1
<1>10. listing[0] = <<>>
  BY <1>0, <1>9
<1>11. \A n \in 1 .. N : listing[n] = IF Actionable(records[n].part)
                                      THEN InsertSorted(listing[n - 1], records[n]) ELSE listing[n - 1]
  BY <1>0, <1>9, Zenon
<1>12. ASSUME NEW n \in 0 .. N PROVE listing[n] \in S
  <2> DEFINE T == {k \in Nat : k > N \/ listing[k] \in S}
  <2>1. 0 \in T
    BY <1>4, <1>10
  <2>2. ASSUME NEW k \in T \cap Nat PROVE k + 1 \in T
    <3>1. CASE k + 1 > N
      BY <3>1
    <3>2. CASE k + 1 <= N
      <4>1. k + 1 \in 1 .. N /\ (k + 1) - 1 = k /\ listing[k] \in S
        BY <3>2, <1>1
      <4>2. listing[k + 1] = Next1(listing[k], k + 1)
        BY <4>1, <1>11 DEF Next1
      <4>3. Next1(listing[k], k + 1) \in S
        <5>1. k + 1 \in Nat
          OBVIOUS
        <5> QED
          BY <4>1, <5>1, <1>2
      <4> QED
        BY <4>2, <4>3
    <3> QED
      BY <3>1, <3>2, <1>1
  <2>3. Nat \subseteq T
    <3> HIDE DEF T
    <3> QED BY <2>1, <2>2, NumbersFromZero
  <2> QED
    BY <2>3, <1>1
<1>13. listing \in [0 .. N -> S]
  BY <1>9, <1>12
<1> QED
  BY <1>10, <1>11, <1>13 DEF listing

(* The order of the records in the plan, and that of the listing.           *)
Earlier(left, right) ==
    \/ left.disk < right.disk
    \/ left.disk = right.disk /\ left.index < right.index
Precedes(left, right) ==
    \/ RankOf(left.part) < RankOf(right.part)
    \/ RankOf(left.part) = RankOf(right.part) /\ Earlier(left, right)

InPlanOrder(records) == \A j, k \in DOMAIN records : j < k => Earlier(records[j], records[k])
InOrder(entries)     == \A j, k \in DOMAIN entries : j < k => Precedes(entries[j], entries[k])

(* An entry that is later in the plan than all others is put behind those   *)
(* of its rank.                                                             *)
LEMMA InsertionKeepsOrder ==
    ASSUME NEW s \in Seq(Entries), NEW e \in Entries, InOrder(s),
           \A k \in 1 .. Len(s) : Earlier(s[k], e)
    PROVE  InOrder(InsertSorted(s, e))
<1>0. Len(s) \in Nat /\ DOMAIN s = 1 .. Len(s) /\ \A k \in 1 .. Len(s) : s[k] \in Entries
  BY LenProperties, ElementOfSeq
<1>1. PICK place \in 1 .. Len(s) + 1 :
         /\ InsertSorted(s, e) = InsertAt(s, place, e)
         /\ \A k \in place .. Len(s) : GoesBefore(e.part, s[k].part)
         /\ place > 1 => ~GoesBefore(e.part, s[place - 1].part)
  BY Insertion
<1> DEFINE t == InsertAt(s, place, e)
<1>2. /\ t \in Seq(Entries) /\ Len(t) = Len(s) + 1 /\ t[place] = e
      /\ \A k \in 1 .. place - 1 : t[k] = s[k]
      /\ \A k \in place + 1 .. Len(s) + 1 : t[k] = s[k - 1]
  BY Inserted
<1>3. DOMAIN t = 1 .. Len(s) + 1
  BY <1>2, LenProperties
<1> HIDE DEF t
<1>4. ASSUME NEW k \in 1 .. Len(s)
      PROVE  /\ RankOf(s[k].part) \in Nat /\ RankOf(e.part) \in Nat
             /\ GoesBefore(e.part, s[k].part) <=> RankOf(e.part) < RankOf(s[k].part)
  <2>1. s[k].part \in PlannedPartition /\ e.part \in PlannedPartition
    BY <1>0 DEF Entries
  <2> QED
    BY <2>1, OrderIsByRank
<1>5. \A k \in place .. Len(s) : Precedes(e, s[k])
  BY <1>0, <1>1, <1>4, SMTT(30) DEF Precedes
<1>6. ASSUME NEW k \in 1 .. place - 1 PROVE Precedes(s[k], e)
  <2>1. place - 1 \in 1 .. Len(s) /\ k \in 1 .. Len(s)
    BY <1>0
  <2>2. RankOf(s[place - 1].part) <= RankOf(e.part)
    <3>1. ~GoesBefore(e.part, s[place - 1].part)
      BY <1>1, <2>1
    <3>2. RankOf(s[place - 1].part) \in Nat /\ RankOf(e.part) \in Nat
      BY <1>4, <2>1
    <3>3. ~(RankOf(e.part) < RankOf(s[place - 1].part))
      BY <1>4, <2>1, <3>1
    <3> QED
      BY <3>2, <3>3
  <2>3. k = place - 1 \/ Precedes(s[k], s[place - 1])
    BY <1>0, <2>1 DEF InOrder
  <2>4. RankOf(s[k].part) <= RankOf(s[place - 1].part)
    BY <1>4, <2>1, <2>3 DEF Precedes
  <2>5. RankOf(s[k].part) <= RankOf(e.part)
    <3>1. {RankOf(s[k].part), RankOf(s[place - 1].part), RankOf(e.part)} \subseteq Nat
      BY <1>4, <2>1
    <3> QED
      BY <2>2, <2>4, <3>1
  <2> QED
    BY <1>4, <2>1, <2>5 DEF Precedes
<1>7. ASSUME NEW j \in 1 .. Len(s) + 1, NEW k \in 1 .. Len(s) + 1, j < k
      PROVE  Precedes(t[j], t[k])
  <2>1. CASE k < place
    BY <1>0, <1>2, <1>7, <2>1 DEF InOrder
  <2>2. CASE k = place
    BY <1>0, <1>2, <1>6, <1>7, <2>2
  <2>3. CASE j = place
    <3>1. k - 1 \in place .. Len(s) /\ t[k] = s[k - 1]
      BY <1>0, <1>2, <1>7, <2>3
    <3> QED
      BY <1>2, <1>5, <2>3, <3>1
  <2>4. CASE j < place /\ k > place
    <3>1. t[j] = s[j] /\ t[k] = s[k - 1] /\ j \in 1 .. Len(s) /\ k - 1 \in 1 .. Len(s) /\ j < k - 1
      BY <1>0, <1>2, <1>7, <2>4
    <3> QED
      BY <1>0, <3>1 DEF InOrder
  <2>5. CASE j > place
    <3>1. /\ t[j] = s[j - 1] /\ t[k] = s[k - 1] /\ j - 1 \in 1 .. Len(s) /\ k - 1 \in 1 .. Len(s)
          /\ j - 1 < k - 1
      BY <1>0, <1>2, <1>7, <2>5
    <3> QED
      BY <1>0, <3>1 DEF InOrder
  <2> QED
    BY <1>0, <2>1, <2>2, <2>3, <2>4, <2>5
<1> QED
  BY <1>1, <1>3, <1>7 DEF InOrder, t

(* What InsertSorted keeps and adds. *)
LEMMA InsertionKeepsEntries ==
    ASSUME NEW s \in Seq(Entries), NEW e \in Entries
    PROVE  LET t == InsertSorted(s, e)
           IN  /\ t \in Seq(Entries)
               /\ \A k \in DOMAIN t : t[k] = e \/ \E j \in DOMAIN s : t[k] = s[j]
               /\ \E k \in DOMAIN t : t[k] = e
               /\ \A j \in DOMAIN s : \E k \in DOMAIN t : t[k] = s[j]
<1>0. Len(s) \in Nat /\ DOMAIN s = 1 .. Len(s)
  BY LenProperties
<1>1. PICK place \in 1 .. Len(s) + 1 : InsertSorted(s, e) = InsertAt(s, place, e)
  BY Insertion
<1> DEFINE t == InsertAt(s, place, e)
<1>2. /\ t \in Seq(Entries) /\ Len(t) = Len(s) + 1 /\ t[place] = e
      /\ \A k \in 1 .. place - 1 : t[k] = s[k]
      /\ \A k \in place + 1 .. Len(s) + 1 : t[k] = s[k - 1]
  BY Inserted
<1>3. DOMAIN t = 1 .. Len(s) + 1
  BY <1>2, LenProperties
<1> HIDE DEF t
<1>4. ASSUME NEW k \in DOMAIN t PROVE t[k] = e \/ \E j \in DOMAIN s : t[k] = s[j]
  <2>1. CASE k < place
    <3>1. k \in 1 .. place - 1 /\ k \in DOMAIN s
      BY <1>0, <1>3, <2>1
    <3> QED
      BY <1>2, <3>1
  <2>2. CASE k > place
    <3>1. k \in place + 1 .. Len(s) + 1 /\ k - 1 \in DOMAIN s
      BY <1>0, <1>3, <2>2
    <3> QED
      BY <1>2, <3>1
  <2> QED
    BY <1>2, <1>3, <2>1, <2>2
<1>5. ASSUME NEW j \in DOMAIN s PROVE \E k \in DOMAIN t : t[k] = s[j]
  <2>1. CASE j < place
    <3>1. j \in 1 .. place - 1 /\ j \in DOMAIN t
      BY <1>0, <1>3, <2>1
    <3> QED
      BY <1>2, <3>1
  <2>2. CASE j >= place
    <3>1. j + 1 \in place + 1 .. Len(s) + 1 /\ j + 1 \in DOMAIN t /\ (j + 1) - 1 = j
      BY <1>0, <1>3, <2>2
    <3> QED
      BY <1>2, <3>1
  <2> QED
    BY <1>0, <2>1, <2>2
<1> QED
  BY <1>1, <1>2, <1>3, <1>4, <1>5 DEF t

(* The loops over the disks and their records, one disk at a time. *)
LEMMA RecordsOfDisk ==
    ASSUME NEW i \in Nat, NEW d \in DiskPlan
    PROVE  /\ RecordsOf(i, d) \in Seq(Entries) /\ Len(RecordsOf(i, d)) = Len(d.parts)
           /\ DOMAIN RecordsOf(i, d) = DOMAIN d.parts
           /\ \A k \in DOMAIN d.parts : RecordsOf(i, d)[k] = [disk |-> i, index |-> k, part |-> d.parts[k]]
<1>1. d.parts \in Seq(PlannedPartition)
  BY DEF DiskPlan
<1> DEFINE parts == d.parts
<1>2. Len(parts) \in Nat /\ DOMAIN parts = 1 .. Len(parts)
  BY <1>1, LenProperties
<1>3. \A k \in 1 .. Len(parts) : parts[k] \in PlannedPartition
  BY <1>1, ElementOfSeq
<1>4. RecordsOf(i, d) = [k \in DOMAIN parts |-> [disk |-> i, index |-> k, part |-> parts[k]]]
  BY DEF RecordsOf
<1> HIDE DEF parts
<1>5. RecordsOf(i, d) \in [1 .. Len(parts) -> Entries]
  BY <1>2, <1>3, <1>4 DEF Entries
<1>6. RecordsOf(i, d) \in Seq(Entries)
  BY <1>2, <1>5
<1>7. DOMAIN RecordsOf(i, d) = 1 .. Len(parts)
  BY <1>5
<1>8. Len(RecordsOf(i, d)) = Len(parts)
  BY <1>2, <1>6, <1>7, LenProperties
<1> QED
  BY <1>2, <1>4, <1>6, <1>7, <1>8 DEF parts

LEMMA RecordsStepByStep ==
    ASSUME NEW disks \in Seq(DiskPlan)
    PROVE  /\ RecordsUpTo(disks) \in [0 .. Len(disks) -> Seq(Entries)]
           /\ RecordsUpTo(disks)[0] = <<>>
           /\ \A i \in 1 .. Len(disks) :
                 RecordsUpTo(disks)[i] = RecordsUpTo(disks)[i - 1] \o RecordsOf(i, disks[i])
<1> DEFINE N == Len(disks)
           S == Seq(Entries)
           Next1(s, i) == IF i \in 1 .. N THEN s \o RecordsOf(i, disks[i]) ELSE s
           g == [x \in S \X Nat |-> Next1(x[1], x[2])]
           Body(h) == [i \in 0 .. N |->
                         IF i = 0 THEN <<>> ELSE h[i - 1] \o RecordsOf(i, disks[i])]
<1>1. N \in Nat /\ \A i \in 1 .. N : disks[i] \in DiskPlan
  BY LenProperties, ElementOfSeq
<1>2. ASSUME NEW s \in S, NEW i \in Nat PROVE Next1(s, i) \in S
  <2>1. ASSUME NEW d \in DiskPlan PROVE s \o RecordsOf(i, d) \in S
    BY RecordsOfDisk, ConcatProperties
  <2> QED
    BY <1>1, <2>1
<1> HIDE DEF Next1
<1>3. g \in [S \X Nat -> S]
  BY <1>2
<1>4. <<>> \in S
  OBVIOUS
<1> HIDE DEF g
<1>5. PICK f \in [0 .. N -> S] : f[0] = <<>> /\ \A n \in 1 .. N : f[n] = g[<<f[n - 1], n>>]
  <2> HIDE DEF S, N
  <2>1. Iterates(N, S, <<>>, g) # {}
    BY <1>1, <1>3, <1>4, Recursion
  <2> QED
    BY <2>1 DEF Iterates
<1>6. ASSUME NEW n \in 1 .. N PROVE g[<<f[n - 1], n>>] = Next1(f[n - 1], n)
  <2>1. n - 1 \in 0 .. N /\ n \in Nat
    BY <1>1
  <2>2. f \in [0 .. N -> S]
    BY <1>5
  <2>3. f[n - 1] \in S
    BY <2>1, <2>2
  <2> QED
    BY <2>1, <2>3 DEF g
<1>7. f = Body(f)
  <2>1. ASSUME NEW n \in 0 .. N PROVE f[n] = Body(f)[n]
    <3>2. CASE n = 0
      BY <1>5, <3>2
    <3>3. CASE n # 0
      <4>1. n \in 1 .. N
        BY <3>3, <1>1
      <4>2. f[n] = Next1(f[n - 1], n)
        BY <1>5, <4>1, <1>6
      <4> QED
        BY <3>3, <4>1, <4>2 DEF Next1
    <3> QED
      BY <3>2, <3>3
  <2> QED
    BY <2>1, <1>5
<1>8. RecordsUpTo(disks) = CHOOSE h : h = Body(h)
  BY DEF RecordsUpTo
<1> DEFINE visited == RecordsUpTo(disks)
<1>9. visited = Body(visited)
  BY <1>7, <1>8, Zenon
<1> HIDE DEF visited
<1>0. 0 \in 0 .. N /\ \A n \in 1 .. N : n \in 0 .. N /\ n # 0
  BY <1>1
<1>10. visited[0] = <<>>
  BY <1>0, <1>9
<1>11. \A n \in 1 .. N : visited[n] = visited[n - 1] \o RecordsOf(n, disks[n])
  BY <1>0, <1>9, Zenon
<1>12. ASSUME NEW n \in 0 .. N PROVE visited[n] \in S
  <2> DEFINE T == {k \in Nat : k > N \/ visited[k] \in S}
  <2>1. 0 \in T
    BY <1>4, <1>10
  <2>2. ASSUME NEW k \in T \cap Nat PROVE k + 1 \in T
    <3>1. CASE k + 1 > N
      BY <3>1
    <3>2. CASE k + 1 <= N
      <4>1. k + 1 \in 1 .. N /\ (k + 1) - 1 = k /\ visited[k] \in S
        BY <3>2, <1>1
      <4>2. visited[k + 1] = Next1(visited[k], k + 1)
        BY <4>1, <1>11 DEF Next1
      <4>3. Next1(visited[k], k + 1) \in S
        <5>1. k + 1 \in Nat
          OBVIOUS
        <5> QED
          BY <4>1, <5>1, <1>2
      <4> QED
        BY <4>2, <4>3
    <3> QED
      BY <3>1, <3>2, <1>1
  <2>3. Nat \subseteq T
    <3> HIDE DEF T
    <3> QED BY <2>1, <2>2, NumbersFromZero
  <2> QED
    BY <2>3, <1>1
<1>13. visited \in [0 .. N -> S]
  BY <1>9, <1>12
<1> QED
  BY <1>10, <1>11, <1>13 DEF visited

RecordOf(disks, i, k) == [disk |-> i, index |-> k, part |-> disks[i].parts[k]]

(* s holds the records of the first n disks, in their order.                *)
HoldsRecords(disks, n, s) ==
    /\ InPlanOrder(s)
    /\ \A j \in DOMAIN s : \E i \in 1 .. n :
          \E k \in DOMAIN disks[i].parts : s[j] = RecordOf(disks, i, k)
    /\ \A i \in 1 .. n : \A k \in DOMAIN disks[i].parts :
          \E j \in DOMAIN s : s[j] = RecordOf(disks, i, k)

LEMMA OneDiskMore ==
    ASSUME NEW disks \in Seq(DiskPlan), NEW n \in 1 .. Len(disks), NEW s \in Seq(Entries),
           HoldsRecords(disks, n - 1, s)
    PROVE  HoldsRecords(disks, n, s \o RecordsOf(n, disks[n]))
<1>0. Len(disks) \in Nat /\ n \in Nat /\ n - 1 \in Nat /\ disks[n] \in DiskPlan
  BY LenProperties, ElementOfSeq
<1> DEFINE more  == RecordsOf(n, disks[n])
           parts == disks[n].parts
           t     == s \o more
<1>1. /\ more \in Seq(Entries) /\ Len(more) = Len(parts) /\ DOMAIN more = DOMAIN parts
      /\ \A k \in DOMAIN parts : more[k] = RecordOf(disks, n, k)
  BY <1>0, RecordsOfDisk DEF RecordOf
<1>2. /\ Len(s) \in Nat /\ DOMAIN s = 1 .. Len(s)
      /\ Len(more) \in Nat /\ DOMAIN more = 1 .. Len(more)
  BY <1>1, LenProperties
<1>3. /\ t \in Seq(Entries) /\ Len(t) = Len(s) + Len(more)
      /\ \A j \in 1 .. Len(s) + Len(more) :
            t[j] = IF j <= Len(s) THEN s[j] ELSE more[j - Len(s)]
  BY <1>1, ConcatProperties, ZenonT(30)
<1>4. DOMAIN t = 1 .. Len(s) + Len(more)
  BY <1>3, LenProperties
<1> HIDE DEF more, t, parts
<1>6. ASSUME NEW j \in DOMAIN s PROVE t[j] = s[j] /\ j \in DOMAIN t
  BY <1>2, <1>3, <1>4
<1>7. ASSUME NEW k \in DOMAIN parts
      PROVE  Len(s) + k \in DOMAIN t /\ t[Len(s) + k] = RecordOf(disks, n, k)
  <2>1. k \in 1 .. Len(more)
    BY <1>1, <1>2
  <2>2. Len(s) + k \in 1 .. Len(s) + Len(more) /\ ~(Len(s) + k <= Len(s)) /\ (Len(s) + k) - Len(s) = k
    BY <1>2, <2>1
  <2>3. t[Len(s) + k] = more[k]
    BY <1>3, <2>2
  <2> QED
    BY <1>1, <1>4, <2>2, <2>3
<1>8. ASSUME NEW j \in DOMAIN t
      PROVE  j \in DOMAIN s \/ (j - Len(s) \in DOMAIN parts /\ t[j] = RecordOf(disks, n, j - Len(s)))
  <2>1. CASE j <= Len(s)
    BY <1>2, <1>4, <2>1
  <2>2. CASE ~(j <= Len(s))
    <3>1. j - Len(s) \in 1 .. Len(more) /\ Len(s) + (j - Len(s)) = j
      BY <1>2, <1>4, <2>2
    <3> QED
      BY <1>1, <1>2, <1>7, <3>1
  <2> QED
    BY <2>1, <2>2
<1>9. ASSUME NEW j \in DOMAIN s
      PROVE  \E i \in 1 .. n - 1 : \E k \in DOMAIN disks[i].parts : s[j] = RecordOf(disks, i, k)
  BY DEF HoldsRecords
<1>10. ASSUME NEW i \in 1 .. n, NEW k \in DOMAIN disks[i].parts
       PROVE  \E j \in DOMAIN t : t[j] = RecordOf(disks, i, k)
  <2>1. CASE i = n
    <3>1. k \in DOMAIN parts
      BY <2>1 DEF parts
    <3> QED
      BY <1>7, <2>1, <3>1
  <2>2. CASE i # n
    <3>1. i \in 1 .. n - 1
      BY <1>0, <2>2
    <3>2. PICK j \in DOMAIN s : s[j] = RecordOf(disks, i, k)
      BY <3>1 DEF HoldsRecords
    <3> QED
      BY <1>6, <3>2
  <2> QED
    BY <2>1, <2>2
<1>11. ASSUME NEW j \in DOMAIN t
       PROVE  \E i \in 1 .. n : \E k \in DOMAIN disks[i].parts : t[j] = RecordOf(disks, i, k)
  <2>1. CASE j \in DOMAIN s
    <3>1. PICK i \in 1 .. n - 1 : \E k \in DOMAIN disks[i].parts : s[j] = RecordOf(disks, i, k)
      BY <1>9, <2>1
    <3>2. i \in 1 .. n
      BY <1>0
    <3> QED
      BY <1>6, <2>1, <3>1, <3>2
  <2>2. CASE j \notin DOMAIN s
    <3>1. n \in 1 .. n
      BY <1>0
    <3> QED
      BY <1>8, <2>2, <3>1 DEF parts
  <2> QED
    BY <2>1, <2>2
<1>12. ASSUME NEW j \in DOMAIN t, NEW k \in DOMAIN t, j < k PROVE Earlier(t[j], t[k])
  <2>0. j \in Nat /\ k \in Nat
    BY <1>2, <1>4
  <2>1. CASE k \in DOMAIN s
    <3>1. j \in DOMAIN s
      BY <1>2, <1>4, <1>12, <2>1
    <3>2. Earlier(s[j], s[k])
      BY <1>12, <2>1, <3>1 DEF HoldsRecords, InPlanOrder
    <3> QED
      BY <1>6, <2>1, <3>1, <3>2
  <2>2. CASE k \notin DOMAIN s /\ j \in DOMAIN s
    <3>1. t[k].disk = n
      BY <1>8, <2>2 DEF RecordOf
    <3>2. t[j].disk \in 1 .. n - 1
      BY <1>6, <1>9, <2>2 DEF RecordOf
    <3> QED
      BY <1>0, <3>1, <3>2 DEF Earlier
  <2>3. CASE k \notin DOMAIN s /\ j \notin DOMAIN s
    <3>1. /\ j - Len(s) \in DOMAIN parts /\ t[j] = RecordOf(disks, n, j - Len(s))
          /\ k - Len(s) \in DOMAIN parts /\ t[k] = RecordOf(disks, n, k - Len(s))
      BY <1>8, <2>3
    <3>2. j - Len(s) < k - Len(s)
      BY <1>2, <1>12, <2>0
    <3> QED
      BY <3>1, <3>2 DEF Earlier, RecordOf
  <2> QED
    BY <2>1, <2>2, <2>3
<1>13. InPlanOrder(t)
  BY <1>12 DEF InPlanOrder
<1> QED
  BY <1>10, <1>11, <1>13 DEF HoldsRecords, t, more

LEMMA RecordsOfPlan ==
    ASSUME NEW disks \in Seq(DiskPlan)
    PROVE  LET records == RecordsUpTo(disks)[Len(disks)]
           IN  records \in Seq(Entries) /\ HoldsRecords(disks, Len(disks), records)
<1>1. Len(disks) \in Nat /\ DOMAIN disks = 1 .. Len(disks)
  BY LenProperties
<1> DEFINE visited == RecordsUpTo(disks)
<1>2. /\ visited \in [0 .. Len(disks) -> Seq(Entries)] /\ visited[0] = <<>>
      /\ \A i \in 1 .. Len(disks) : visited[i] = visited[i - 1] \o RecordsOf(i, disks[i])
  BY RecordsStepByStep
<1> HIDE DEF visited
<1> DEFINE T == {n \in Nat : n > Len(disks) \/ HoldsRecords(disks, n, visited[n])}
<1>3. 0 \in T
  BY <1>2 DEF HoldsRecords, InPlanOrder
<1>4. ASSUME NEW n \in T \cap Nat PROVE n + 1 \in T
  <2>1. CASE n + 1 > Len(disks)
    BY <2>1
  <2>2. CASE n + 1 <= Len(disks)
    <3>1. n + 1 \in 1 .. Len(disks) /\ (n + 1) - 1 = n /\ n \in 0 .. Len(disks)
      BY <1>1, <2>2
    <3>2. HoldsRecords(disks, n, visited[n])
      BY <1>1, <3>1
    <3>3. visited[n + 1] = visited[n] \o RecordsOf(n + 1, disks[n + 1])
      BY <1>2, <3>1
    <3>4. visited[n] \in Seq(Entries)
      BY <1>2, <3>1
    <3>5. HoldsRecords(disks, n + 1, visited[n + 1])
      BY <3>1, <3>2, <3>3, <3>4, OneDiskMore
    <3> QED
      BY <3>5
  <2> QED
    BY <1>1, <2>1, <2>2
<1>5. Nat \subseteq T
  <2> HIDE DEF T
  <2> QED BY <1>3, <1>4, NumbersFromZero
<1>6. HoldsRecords(disks, Len(disks), visited[Len(disks)])
  BY <1>1, <1>5
<1>7. visited[Len(disks)] \in Seq(Entries)
  BY <1>1, <1>2
<1> QED
  BY <1>6, <1>7 DEF visited

(* s lists what the script works on of the first n records. *)
ListsActionable(records, n, s) ==
    /\ InOrder(s)
    /\ \A k \in DOMAIN s : \E j \in 1 .. n : s[k] = records[j] /\ Actionable(records[j].part)
    /\ \A j \in 1 .. n : Actionable(records[j].part) => \E k \in DOMAIN s : s[k] = records[j]

LEMMA OneRecordMore ==
    ASSUME NEW records \in Seq(Entries), InPlanOrder(records), NEW n \in 1 .. Len(records),
           NEW s \in Seq(Entries), ListsActionable(records, n - 1, s)
    PROVE  ListsActionable(records, n, IF Actionable(records[n].part)
                                       THEN InsertSorted(s, records[n]) ELSE s)
<1>1. /\ Len(records) \in Nat /\ DOMAIN records = 1 .. Len(records)
      /\ n \in Nat /\ n - 1 \in Nat /\ records[n] \in Entries
  BY LenProperties, ElementOfSeq
<1>2. \A j \in 1 .. n : j = n \/ j \in 1 .. n - 1
  BY <1>1
<1>3. \A j \in 1 .. n - 1 : j \in 1 .. n
  BY <1>1
<1>4. CASE ~Actionable(records[n].part)
  BY <1>2, <1>3, <1>4 DEF ListsActionable
<1>5. CASE Actionable(records[n].part)
  <2> DEFINE t == InsertSorted(s, records[n])
  <2>1. ASSUME NEW k \in 1 .. Len(s) PROVE Earlier(s[k], records[n])
    <3>1. k \in DOMAIN s
      BY LenProperties
    <3>2. PICK j \in 1 .. n - 1 : s[k] = records[j]
      BY <3>1 DEF ListsActionable
    <3>3. j \in DOMAIN records /\ n \in DOMAIN records /\ j < n
      BY <1>1
    <3> QED
      BY <3>2, <3>3 DEF InPlanOrder
  <2>2. InOrder(t)
    BY <1>1, <2>1, InsertionKeepsOrder DEF ListsActionable
  <2>3. /\ \A k \in DOMAIN t : t[k] = records[n] \/ \E j \in DOMAIN s : t[k] = s[j]
        /\ \E k \in DOMAIN t : t[k] = records[n]
        /\ \A j \in DOMAIN s : \E k \in DOMAIN t : t[k] = s[j]
    BY <1>1, InsertionKeepsEntries, Zenon
  <2> HIDE DEF t
  <2>4. ASSUME NEW k \in DOMAIN t
        PROVE  \E j \in 1 .. n : t[k] = records[j] /\ Actionable(records[j].part)
    <3>1. CASE t[k] = records[n]
      BY <1>1, <1>5, <3>1
    <3>2. CASE \E j \in DOMAIN s : t[k] = s[j]
      BY <1>3, <3>2 DEF ListsActionable
    <3> QED
      BY <2>3, <3>1, <3>2
  <2>5. ASSUME NEW j \in 1 .. n, Actionable(records[j].part)
        PROVE  \E k \in DOMAIN t : t[k] = records[j]
    <3>1. CASE j = n
      BY <2>3, <3>1
    <3>2. CASE j \in 1 .. n - 1
      <4>1. PICK i \in DOMAIN s : s[i] = records[j]
        BY <2>5, <3>2 DEF ListsActionable
      <4> QED
        BY <2>3, <4>1
    <3> QED
      BY <1>2, <3>1, <3>2
  <2> QED
    BY <1>5, <2>2, <2>4, <2>5 DEF ListsActionable, t
<1> QED
  BY <1>4, <1>5

LEMMA ListedOfRecords ==
    ASSUME NEW records \in Seq(Entries), InPlanOrder(records)
    PROVE  LET l == ListedUpTo(records)[Len(records)]
           IN  l \in Seq(Entries) /\ ListsActionable(records, Len(records), l)
<1>1. Len(records) \in Nat
  BY LenProperties
<1> DEFINE listing == ListedUpTo(records)
<1>2. /\ listing \in [0 .. Len(records) -> Seq(Entries)] /\ listing[0] = <<>>
      /\ \A n \in 1 .. Len(records) :
            listing[n] = IF Actionable(records[n].part)
                         THEN InsertSorted(listing[n - 1], records[n]) ELSE listing[n - 1]
  BY ListedStepByStep
<1> HIDE DEF listing
<1> DEFINE T == {n \in Nat : n > Len(records) \/ ListsActionable(records, n, listing[n])}
<1>3. 0 \in T
  BY <1>2 DEF ListsActionable, InOrder
<1>4. ASSUME NEW n \in T \cap Nat PROVE n + 1 \in T
  <2>1. CASE n + 1 > Len(records)
    BY <2>1
  <2>2. CASE n + 1 <= Len(records)
    <3>1. n + 1 \in 1 .. Len(records) /\ (n + 1) - 1 = n /\ n \in 0 .. Len(records)
      BY <1>1, <2>2
    <3>2. ListsActionable(records, n, listing[n])
      BY <1>1, <3>1
    <3>3. listing[n + 1] = IF Actionable(records[n + 1].part)
                           THEN InsertSorted(listing[n], records[n + 1]) ELSE listing[n]
      BY <1>2, <3>1
    <3>4. listing[n] \in Seq(Entries)
      BY <1>2, <3>1
    <3>5. ListsActionable(records, n + 1, listing[n + 1])
      BY <3>1, <3>2, <3>3, <3>4, OneRecordMore
    <3> QED
      BY <3>5
  <2> QED
    BY <1>1, <2>1, <2>2
<1>5. Nat \subseteq T
  <2> HIDE DEF T
  <2> QED BY <1>3, <1>4, NumbersFromZero
<1>6. ListsActionable(records, Len(records), listing[Len(records)])
  BY <1>1, <1>5
<1>7. listing[Len(records)] \in Seq(Entries)
  BY <1>1, <1>2
<1> QED
  BY <1>6, <1>7 DEF listing

(* The list of a plan is in order and holds what is to be worked on, and     *)
(* nothing else.                                                            *)
IsListOf(l, disks) ==
    /\ l \in Seq(Entries)
    /\ InOrder(l)
    /\ \A k \in DOMAIN l : \E i \in DOMAIN disks : \E j \in DOMAIN disks[i].parts :
          l[k] = RecordOf(disks, i, j)
    /\ \A k \in DOMAIN l : Actionable(l[k].part)
    /\ \A i \in DOMAIN disks : \A j \in DOMAIN disks[i].parts :
          Actionable(disks[i].parts[j]) => \E k \in DOMAIN l : l[k] = RecordOf(disks, i, j)

LEMMA ListOfPlan ==
    ASSUME NEW disks \in Seq(DiskPlan)
    PROVE  IsListOf(CollectActionable(disks), disks)
<1> DEFINE records == RecordsUpTo(disks)[Len(disks)]
           l       == ListedUpTo(records)[Len(records)]
<1>1. records \in Seq(Entries) /\ HoldsRecords(disks, Len(disks), records)
  BY RecordsOfPlan, Zenon
<1>2. CollectActionable(disks) = l
  BY DEF CollectActionable
<1> HIDE DEF records
<1>3. l \in Seq(Entries) /\ ListsActionable(records, Len(records), l)
  BY <1>1, ListedOfRecords DEF HoldsRecords
<1> HIDE DEF l
<1>4. DOMAIN records = 1 .. Len(records) /\ DOMAIN disks = 1 .. Len(disks)
  BY <1>1, LenProperties
<1>5. ASSUME NEW k \in DOMAIN l
      PROVE  \E i \in DOMAIN disks : \E j \in DOMAIN disks[i].parts : l[k] = RecordOf(disks, i, j)
  <2>1. PICK n \in 1 .. Len(records) : l[k] = records[n]
    BY <1>3 DEF ListsActionable
  <2>2. n \in DOMAIN records
    BY <1>4, <2>1
  <2>3. PICK i \in 1 .. Len(disks) : \E j \in DOMAIN disks[i].parts : records[n] = RecordOf(disks, i, j)
    BY <1>1, <2>2 DEF HoldsRecords
  <2> QED
    BY <1>4, <2>1, <2>3
<1>6. ASSUME NEW i \in DOMAIN disks, NEW j \in DOMAIN disks[i].parts, Actionable(disks[i].parts[j])
      PROVE  \E k \in DOMAIN l : l[k] = RecordOf(disks, i, j)
  <2>1. PICK n \in DOMAIN records : records[n] = RecordOf(disks, i, j)
    BY <1>1, <1>4 DEF HoldsRecords
  <2>2. Actionable(records[n].part)
    BY <1>6, <2>1 DEF RecordOf
  <2> QED
    BY <1>3, <1>4, <2>1, <2>2 DEF ListsActionable
<1>7. \A k \in DOMAIN l : Actionable(l[k].part)
  BY <1>3 DEF ListsActionable
<1> QED
  BY <1>2, <1>3, <1>5, <1>6, <1>7 DEF IsListOf, ListsActionable

-----------------------------------------------------------------------------
(***************************************************************************)
(* The sizes of one guided disk.                                            *)
(***************************************************************************)
IsNew(p, number, usage) ==
    p.number = number /\ p.usage = usage /\ p.planned /\ p.action = "format"

(* The partitions of a disk are those of its mode, whatever their sizes.    *)
Shaped(d) ==
    /\ d.mode = "auto_data" =>
          /\ Len(d.parts) = 1
          /\ d.parts[1].usage \notin {"boot", "root"} /\ IsNew(d.parts[1], 1, d.parts[1].usage)
    /\ d.mode = "auto_root_only" =>
          Len(d.parts) = 2 /\ IsNew(d.parts[1], 1, "boot") /\ IsNew(d.parts[2], 2, "root")
    /\ d.mode = "auto_root_swap" =>
          /\ Len(d.parts) = 3 /\ IsNew(d.parts[1], 1, "boot") /\ IsNew(d.parts[2], 2, "root")
          /\ IsNew(d.parts[3], 3, "swap")
    /\ d.mode = "auto_home_swap" =>
          /\ Len(d.parts) = 4 /\ IsNew(d.parts[1], 1, "boot") /\ IsNew(d.parts[2], 2, "root")
          /\ IsNew(d.parts[3], 3, "home") /\ IsNew(d.parts[4], 4, "swap")

LEMMA Parts ==
    ASSUME NEW d \in DiskPlan
    PROVE  /\ d.parts \in Seq(PlannedPartition) /\ Len(d.parts) \in Nat
           /\ DOMAIN d.parts = 1 .. Len(d.parts)
           /\ \A k \in 1 .. Len(d.parts) : d.parts[k] \in PlannedPartition /\ d.parts[k].size \in Nat
           /\ d.size \in Nat
<1>1. d.parts \in Seq(PlannedPartition) /\ d.size \in Nat
  BY DEF DiskPlan
<1>2. \A p \in PlannedPartition : p.size \in Nat
  BY DEF PlannedPartition
<1> QED
  BY <1>1, <1>2, LenProperties, ElementOfSeq

(* The only partition of a purpose is the one whose size the script is told. *)
LEMMA WholeOf ==
    ASSUME NEW d \in DiskPlan, NEW k \in 1 .. Len(d.parts), NEW usage, d.parts[k].usage = usage,
           \A j \in 1 .. Len(d.parts) : d.parts[j].usage = usage => j = k
    PROVE  WholeMiB(d, usage) = d.parts[k].size \div MiB
<1>1. DOMAIN d.parts = 1 .. Len(d.parts)
  BY Parts
<1> DEFINE used  == {j \in DOMAIN d.parts : d.parts[j].usage = usage}
           first == CHOOSE j \in used : \A other \in used : j <= other
<1>2. used = {k}
  BY <1>1
<1>3. k <= k
  BY Parts
<1>4. first = k
  BY <1>2, <1>3
<1>5. WholeMiB(d, usage) = IF used = {} THEN 0 ELSE d.parts[first].size \div MiB
  BY DEF WholeMiB
<1> QED
  BY <1>2, <1>4, <1>5

(* What a sum of at most four numbers comes to. *)
LEMMA Sums ==
    ASSUME NEW s
    PROVE  /\ SumOfFirst(s, 0) = 0
           /\ s[1] \in Nat => SumOfFirst(s, 1) = s[1]
           /\ s[1] \in Nat /\ s[2] \in Nat => SumOfFirst(s, 2) = s[1] + s[2]
           /\ s[1] \in Nat /\ s[2] \in Nat /\ s[3] \in Nat => SumOfFirst(s, 3) = s[1] + s[2] + s[3]
           /\ s[1] \in Nat /\ s[2] \in Nat /\ s[3] \in Nat /\ s[4] \in Nat
                 => SumOfFirst(s, 4) = s[1] + s[2] + s[3] + s[4]
BY DEF SumOfFirst

(* The sizes of a disk add up to its size. *)
LEMMA Covered ==
    ASSUME NEW d \in DiskPlan, CoversDisk(d.parts, d.size)
    PROVE  /\ Len(d.parts) = 1 => d.size = d.parts[1].size
           /\ Len(d.parts) = 2 => d.size = d.parts[1].size + d.parts[2].size
           /\ Len(d.parts) = 3 => d.size = d.parts[1].size + d.parts[2].size + d.parts[3].size
           /\ Len(d.parts) = 4 => d.size = d.parts[1].size + d.parts[2].size
                                             + d.parts[3].size + d.parts[4].size
<1> DEFINE s == [k \in DOMAIN d.parts |-> d.parts[k].size]
<1>1. SumOfFirst(s, Len(d.parts)) = d.size
  BY DEF CoversDisk
<1>2. \A k \in 1 .. Len(d.parts) : s[k] = d.parts[k].size /\ s[k] \in Nat
  BY Parts
<1> HIDE DEF s
<1>3. CASE Len(d.parts) = 1
  BY <1>1, <1>2, <1>3, Sums
<1>4. CASE Len(d.parts) = 2
  BY <1>1, <1>2, <1>4, Sums
<1>5. CASE Len(d.parts) = 3
  BY <1>1, <1>2, <1>5, Sums
<1>6. CASE Len(d.parts) = 4
  BY <1>1, <1>2, <1>6, Sums
<1> QED
  BY <1>3, <1>4, <1>5, <1>6

(* What validate_plan says of the sizes of each kind of disk. *)
LEMMA SoundSizes ==
    ASSUME NEW d \in DiskPlan, Shaped(d), NEW memory0, SizesAreSound(d, memory0),
           d.mode # "existing"
    PROVE  /\ CoversDisk(d.parts, d.size)
           /\ \A k \in 1 .. Len(d.parts) : d.parts[k].size \div MiB > 0
           /\ d.mode # "auto_data" => d.parts[1].size = GiB /\ d.parts[2].size >= 8 * GiB
           /\ d.mode = "auto_home_swap" => d.parts[2].size = 100 * GiB /\ d.parts[3].size >= 8 * GiB
<1>1. DOMAIN d.parts = 1 .. Len(d.parts)
  BY Parts
<1>2. d.mode \in GuidedModes
  BY DEF DiskPlan
<1>3. CASE d.mode = "auto_data"
  <2>1. \A k \in 1 .. Len(d.parts) : d.parts[k].planned
    <3>1. Len(d.parts) = 1 /\ IsNew(d.parts[1], 1, d.parts[1].usage)
      BY <1>3 DEF Shaped
    <3>2. \A k \in 1 .. Len(d.parts) : k = 1
      BY <3>1
    <3> QED
      BY <3>1, <3>2 DEF IsNew
  <2> QED
    BY <1>1, <1>3, <2>1 DEF SizesAreSound
<1>4. CASE d.mode = "auto_root_only"
  <2>1. \A k \in 1 .. Len(d.parts) : d.parts[k].planned
    BY <1>1, <1>4 DEF Shaped, IsNew
  <2>2. 1 \in DOMAIN d.parts /\ 2 \in DOMAIN d.parts
    BY <1>1, <1>4 DEF Shaped
  <2>3. d.parts[1].usage = "boot" /\ d.parts[2].usage = "root"
    BY <1>4 DEF Shaped, IsNew
  <2> QED
    BY <1>1, <1>4, <2>1, <2>2, <2>3 DEF SizesAreSound
<1>5. CASE d.mode = "auto_root_swap"
  <2>1. \A k \in 1 .. Len(d.parts) : d.parts[k].planned
    BY <1>1, <1>5 DEF Shaped, IsNew
  <2>2. 1 \in DOMAIN d.parts /\ 2 \in DOMAIN d.parts
    BY <1>1, <1>5 DEF Shaped
  <2>3. d.parts[1].usage = "boot" /\ d.parts[2].usage = "root"
    BY <1>5 DEF Shaped, IsNew
  <2> QED
    BY <1>1, <1>5, <2>1, <2>2, <2>3 DEF SizesAreSound
<1>6. CASE d.mode = "auto_home_swap"
  <2>1. \A k \in 1 .. Len(d.parts) : d.parts[k].planned
    BY <1>1, <1>6 DEF Shaped, IsNew
  <2>2. {1, 2, 3} \subseteq DOMAIN d.parts
    BY <1>1, <1>6 DEF Shaped
  <2>3. d.parts[1].usage = "boot" /\ d.parts[2].usage = "root" /\ d.parts[3].usage = "home"
    BY <1>6 DEF Shaped, IsNew
  <2> QED
    BY <1>1, <1>6, <2>1, <2>2, <2>3 DEF SizesAreSound
<1> QED
  BY <1>2, <1>3, <1>4, <1>5, <1>6 DEF GuidedModes

(* What the script does with a validated disk: the layout check passes,      *)
(* sfdisk finds the space and every partition is accepted, with the two      *)
(* exceptions of ValidatedPlanIsBuilt.                                      *)
IsCarriedOut(d, tail) ==
    LET table == SfdiskTable(d, tail) IN
    /\ LayoutCheckPasses(d) \/ (d.mode = "auto_root_only" /\ d.size = 9 * GiB)
    /\ TableFits(d, table) \/ (d.mode = "auto_data" /\ d.size <= 3 * MiB)
    /\ TableFits(d, table) =>
          /\ table \in Seq([start : Nat, size : Nat])
          /\ \A k \in DOMAIN d.parts : \A numbers :
                k = 1 \/ k - 1 \in numbers => CreatedAccepted(d, d.parts[k], table, numbers)

(* The units, for steps that do not need their values. *)
LEMMA Units ==
    /\ MiB \in Nat /\ GiB = 1024 * MiB
    /\ BackupTable \in Nat /\ BackupTable > 0 /\ BackupTable < MiB
BY SMT DEF MiB, GiB, BackupTable

LEMMA FunctionIsSeq ==
    ASSUME NEW S, NEW n \in Nat, NEW f \in [1 .. n -> S]
    PROVE  f \in Seq(S)
BY SeqDef, Zenon

(* The size verify_created_partition is told to expect. *)
ExpectedMiB(d, p) ==
    IF d.mode = "auto_data" \/ (d.mode = "auto_root_only" /\ p.usage = "root")
       \/ p.usage \notin {"boot", "root", "home", "swap"}
    THEN 0 ELSE EmittedMiB(d, p.usage)

LEMMA Accepted ==
    ASSUME NEW d, NEW p, NEW table, NEW numbers, NEW made, made = table[p.number],
           p.number = 1 => made.start \in 1 .. 64 * MiB,
           p.number # 1 =>
              /\ p.number - 1 \in numbers
              /\ made.start - (table[p.number - 1].start + table[p.number - 1].size) \in 0 .. 64 * MiB,
           ExpectedMiB(d, p) > 0 => made.size = ExpectedMiB(d, p) * MiB,
           ~(ExpectedMiB(d, p) > 0) =>
              /\ made.size \in p.size - 64 * MiB .. p.size
              /\ d.size - made.start - made.size \in 0 .. 64 * MiB
    PROVE  CreatedAccepted(d, p, table, numbers)
<1> USE DEF ExpectedMiB
<1>1. CASE p.number = 1
  BY <1>1, Zenon DEF CreatedAccepted
<1>2. CASE p.number # 1
  BY <1>2, Zenon DEF CreatedAccepted
<1> QED
  BY <1>1, <1>2

LEMMA DataDisk ==
    ASSUME NEW d \in DiskPlan, Shaped(d), NEW memory0, SizesAreSound(d, memory0),
           d.mode = "auto_data", NEW tail \in Tails
    PROVE  IsCarriedOut(d, tail)
<1> DEFINE table == SfdiskTable(d, tail)
<1>1. /\ Len(d.parts) = 1 /\ DOMAIN d.parts = 1 .. 1 /\ d.size \in Nat
      /\ d.parts[1].number = 1 /\ d.parts[1].size \in Nat
  BY Parts DEF Shaped, IsNew
<1>2. d.size = d.parts[1].size
  BY <1>1, SoundSizes, Covered
<1>3. tail \in Nat /\ tail >= BackupTable /\ tail <= 2 * MiB
  BY TailsAssumption, Units
<1>4. SfdiskSizes(d) = << 0 >>
  BY Zenon DEF SfdiskSizes
<1> DEFINE one == 1
<1>14. one \in Nat /\ one = 1 /\ 1 \in 1 .. one /\ \A k \in 1 .. one : k = 1
  OBVIOUS
<1>5. table = [k \in 1 .. one |-> [start |-> MiB, size |-> d.size - tail - MiB]]
  <2> DEFINE sizes    == SfdiskSizes(d)
             start(k) == MiB + MiB * SumOfFirst(sizes, k - 1)
             row(k)   == [start |-> start(k),
                          size  |-> IF sizes[k] = 0 THEN d.size - tail - start(k)
                                    ELSE sizes[k] * MiB]
  <2>1. table = [k \in DOMAIN sizes |-> row(k)]
    BY Zenon DEF SfdiskTable
  <2>2. DOMAIN sizes = 1 .. one /\ sizes[1] = 0
    BY <1>4
  <2>3. start(1) = MiB
    BY Sums, Units
  <2> HIDE DEF table, sizes, start, one
  <2>4. row(1) = [start |-> MiB, size |-> d.size - tail - MiB]
    BY <2>2, <2>3
  <2>5. \A k \in 1 .. one : row(k) = [start |-> MiB, size |-> d.size - tail - MiB]
    BY <1>14, <2>4, Zenon
  <2> HIDE DEF row
  <2> QED
    BY <2>1, <2>2, <2>5
<1> HIDE DEF one
<1>6. LayoutCheckPasses(d)
  BY DEF LayoutCheckPasses
<1>7. DOMAIN table = 1 .. 1 /\ table[1].start = MiB /\ table[1].size = d.size - tail - MiB
  BY <1>5, <1>14
<1> HIDE DEF table
<1>8. table[1].size > 0 \/ d.size <= 3 * MiB
  BY <1>1, <1>3, <1>7, Units
<1>9. TableFits(d, table) <=> table[1].size > 0
  BY <1>1, <1>3, <1>7, Units DEF TableFits
<1>10. TableFits(d, table) => table \in Seq([start : Nat, size : Nat])
  <2> SUFFICES ASSUME TableFits(d, table) PROVE table \in Seq([start : Nat, size : Nat])
    OBVIOUS
  <2>1. MiB \in Nat /\ d.size - tail - MiB \in Nat
    BY <1>1, <1>3, <1>7, <1>9, Units
  <2>2. table \in [1 .. one -> [start : Nat, size : Nat]]
    BY <1>5, <2>1
  <2> QED
    BY <1>14, <2>2, FunctionIsSeq
<1>11. ASSUME NEW k \in DOMAIN d.parts, NEW numbers, TableFits(d, table)
       PROVE  CreatedAccepted(d, d.parts[k], table, numbers)
  <2>1. k = 1
    BY <1>1
  <2>2. ExpectedMiB(d, d.parts[1]) = 0
    BY DEF ExpectedMiB
  <2>3. /\ table[1].start \in 1 .. 64 * MiB
        /\ table[1].size \in d.parts[1].size - 64 * MiB .. d.parts[1].size
        /\ d.size - table[1].start - table[1].size \in 0 .. 64 * MiB
    <3>1. /\ d.size - tail - MiB \in d.size - 64 * MiB .. d.size
          /\ d.size - MiB - (d.size - tail - MiB) \in 0 .. 64 * MiB
          /\ MiB \in 1 .. 64 * MiB
      BY <1>1, <1>3, Units
    <3> QED
      BY <1>2, <1>7, <3>1
  <2>4. ~(ExpectedMiB(d, d.parts[1]) > 0)
    BY <2>2
  <2>5. CreatedAccepted(d, d.parts[1], table, numbers)
    BY <1>1, <2>3, <2>4, Accepted, Zenon
  <2> QED
    BY <2>1, <2>5
<1> QED
  BY <1>6, <1>8, <1>9, <1>10, <1>11 DEF IsCarriedOut, table

(* Sizes in whole MiB. *)
LEMMA WholeSizes ==
    ASSUME NEW s \in Nat
    PROVE  /\ s \div MiB \in Nat /\ MiB * (s \div MiB) <= s
           /\ \A m \in Nat : MiB * m <= s => m <= s \div MiB
<1>1. MiB = 2048
  BY SMT DEF MiB
<1> QED
  BY <1>1, SMT

LEMMA WholeGiB ==
    /\ GiB \in Nat /\ GiB \div MiB = 1024 /\ MiB * 1024 = GiB
    /\ \A s \in Nat : s >= 8 * GiB => s \div MiB >= 8192
BY SMT DEF MiB, GiB

LEMMA RootOnlyDisk ==
    ASSUME NEW d \in DiskPlan, Shaped(d), NEW memory0, SizesAreSound(d, memory0),
           d.mode = "auto_root_only", NEW tail \in Tails
    PROVE  IsCarriedOut(d, tail)
<1> DEFINE table == SfdiskTable(d, tail)
<1>1. /\ Len(d.parts) = 2 /\ DOMAIN d.parts = 1 .. 2 /\ d.size \in Nat
      /\ d.parts[1].number = 1 /\ d.parts[2].number = 2
      /\ d.parts[1].usage = "boot" /\ d.parts[2].usage = "root"
      /\ d.parts[1].size \in Nat /\ d.parts[2].size \in Nat
  BY Parts DEF Shaped, IsNew
<1>2. /\ d.size = d.parts[1].size + d.parts[2].size
      /\ d.parts[1].size = GiB /\ d.parts[2].size >= 8 * GiB
  BY <1>1, SoundSizes, Covered
<1>3. tail \in Nat /\ tail >= BackupTable /\ tail <= 2 * MiB
  BY TailsAssumption, Units
<1>4. EmittedMiB(d, "boot") = 1024
  <2>1. \A j \in 1 .. Len(d.parts) : d.parts[j].usage = "boot" => j = 1
    BY <1>1
  <2>2. 1 \in 1 .. Len(d.parts)
    BY <1>1
  <2>3. WholeMiB(d, "boot") = 1024
    <3>1. WholeMiB(d, "boot") = d.parts[1].size \div MiB
      BY <1>1, <2>1, <2>2, WholeOf, Zenon
    <3> QED
      BY <1>2, <3>1, WholeGiB
  <2> QED
    BY <2>3 DEF EmittedMiB
<1>5. SfdiskSizes(d) = << EmittedMiB(d, "boot"), 0 >>
  BY Zenon DEF SfdiskSizes
<1>6. SfdiskSizes(d) = << 1024, 0 >>
  BY <1>4, <1>5
<1>7. table = [k \in 1 .. 2 |->
                 [start |-> IF k = 1 THEN MiB ELSE MiB + MiB * 1024,
                  size  |-> IF k = 1 THEN 1024 * MiB ELSE d.size - tail - (MiB + MiB * 1024)]]
  BY <1>6, Sums, Units DEF SfdiskTable
<1>8. /\ DOMAIN table = 1 .. 2
      /\ table[1].start = MiB /\ table[1].size = GiB
      /\ table[2].start = MiB + GiB /\ table[2].size = d.size - tail - (MiB + GiB)
  BY <1>7, Units
<1>10. LayoutCheckPasses(d) \/ d.size = 9 * GiB
  <2>1. (1024 + 8192) * MiB = 9 * GiB
    BY Units
  <2> QED
    <3>1. SUFFICES ASSUME d.size # 9 * GiB PROVE LayoutCheckPasses(d)
      OBVIOUS
    <3>2. d.size >= 9 * GiB
      BY <1>1, <1>2, WholeGiB
    <3>3. d.size > 9 * GiB
      BY <1>1, <3>1, <3>2, WholeGiB
    <3>4. EmittedMiB(d, "boot") > 0 /\ d.size > (EmittedMiB(d, "boot") + 8192) * MiB
      BY <1>4, <2>1, <3>3
    <3> QED
      BY <3>4, SMT DEF LayoutCheckPasses
<1> HIDE DEF table
<1>11. TableFits(d, table)
  BY <1>1, <1>2, <1>3, <1>8, Units DEF TableFits
<1>12. table \in Seq([start : Nat, size : Nat])
  <2>1. table[2].size \in Nat /\ MiB \in Nat /\ GiB \in Nat /\ table[2].size = d.size - tail - (MiB + MiB * 1024)
    BY <1>1, <1>2, <1>3, <1>8, Units
  <2> QED
    BY <1>7, <2>1
<1>13. ASSUME NEW numbers PROVE CreatedAccepted(d, d.parts[1], table, numbers)
  <2>1. ExpectedMiB(d, d.parts[1]) = 1024
    BY <1>1, <1>4 DEF ExpectedMiB
  <2>2. MiB \in 1 .. 64 * MiB /\ 1024 > 0 /\ GiB = 1024 * MiB
    BY Units
  <2> QED
    BY <1>1, <1>8, <2>1, <2>2, Accepted
<1>14. ASSUME NEW numbers, 1 \in numbers PROVE CreatedAccepted(d, d.parts[2], table, numbers)
  <2>1. ExpectedMiB(d, d.parts[2]) = 0
    BY <1>1 DEF ExpectedMiB
  <2>2. /\ d.size - tail - (MiB + GiB) \in d.parts[2].size - 64 * MiB .. d.parts[2].size
        /\ d.size - (MiB + GiB) - (d.size - tail - (MiB + GiB)) \in 0 .. 64 * MiB
        /\ (MiB + GiB) - (MiB + GiB) \in 0 .. 64 * MiB
    BY <1>1, <1>2, <1>3, Units
  <2>3. ~(0 > 0) /\ 2 # 1 /\ 2 - 1 = 1
    OBVIOUS
  <2>4. /\ table[2].start - (table[1].start + table[1].size) \in 0 .. 64 * MiB
        /\ table[2].size \in d.parts[2].size - 64 * MiB .. d.parts[2].size
        /\ d.size - table[2].start - table[2].size \in 0 .. 64 * MiB
    BY <1>8, <2>2, Zenon
  <2> QED
    BY <1>1, <1>14, <2>1, <2>3, <2>4, Accepted
<1>15. ASSUME NEW k \in DOMAIN d.parts, NEW numbers, k = 1 \/ k - 1 \in numbers
       PROVE  CreatedAccepted(d, d.parts[k], table, numbers)
  <2>1. k = 1 \/ (k = 2 /\ k - 1 = 1)
    BY <1>1
  <2> QED
    BY <1>13, <1>14, <1>15, <2>1
<1> QED
  BY <1>10, <1>11, <1>12, <1>15 DEF IsCarriedOut, table

(* A disk whose partitions all have a size in whole MiB: what sfdisk makes   *)
(* of the sizes it is given.                                                *)
AreWhole(sizes, n) == DOMAIN sizes = 1 .. n /\ \A k \in 1 .. n : sizes[k] \in Nat /\ sizes[k] > 0

FollowsSizes(table, sizes, n) ==
    /\ table \in Seq([start : Nat, size : Nat]) /\ DOMAIN table = 1 .. n
    /\ \A k \in 1 .. n : table[k].size = sizes[k] * MiB /\ table[k].size > 0
    /\ \A k \in 1 .. n : table[k].start \in Nat /\ table[k].size \in Nat
    /\ n >= 1 => table[1].start = MiB
    /\ \A k \in 2 .. n : table[k].start = table[k - 1].start + table[k - 1].size

LEMMA WholeTable ==
    ASSUME NEW d, NEW tail, NEW n \in Nat, n <= 4, AreWhole(SfdiskSizes(d), n)
    PROVE  FollowsSizes(SfdiskTable(d, tail), SfdiskSizes(d), n)
<1> DEFINE table == SfdiskTable(d, tail)
           sizes == SfdiskSizes(d)
           start(k) == MiB + MiB * SumOfFirst(sizes, k - 1)
<1>0. MiB = 2048
  BY SMT DEF MiB
<1>20. DOMAIN sizes = 1 .. n /\ \A k \in 1 .. n : sizes[k] \in Nat /\ sizes[k] > 0
  BY DEF AreWhole
<1>1. table = [k \in 1 .. n |-> [start |-> start(k),
                                 size  |-> IF sizes[k] = 0 THEN d.size - tail - start(k)
                                           ELSE sizes[k] * MiB]]
  BY <1>20, Zenon DEF SfdiskTable
<1>2. DOMAIN table = 1 .. n
  BY <1>1
<1> HIDE DEF sizes
<1>4. /\ SumOfFirst(sizes, 0) = 0
      /\ n >= 1 => SumOfFirst(sizes, 1) = sizes[1]
      /\ n >= 2 => SumOfFirst(sizes, 2) = sizes[1] + sizes[2]
      /\ n >= 3 => SumOfFirst(sizes, 3) = sizes[1] + sizes[2] + sizes[3]
  <2>1. /\ n >= 1 => sizes[1] \in Nat
        /\ n >= 2 => sizes[2] \in Nat
        /\ n >= 3 => sizes[3] \in Nat
    BY <1>20
  <2>2. (n >= 2 => n >= 1) /\ (n >= 3 => n >= 2)
    OBVIOUS
  <2> QED
    BY <2>1, <2>2, Sums
<1> HIDE DEF table, start
<1>5. ASSUME NEW k \in 1 .. n
      PROVE  /\ table[k] = [start |-> start(k), size |-> sizes[k] * MiB]
             /\ table[k].start = start(k) /\ table[k].size = sizes[k] * MiB
  <2>1. sizes[k] # 0
    BY <1>20
  <2> QED
    BY <1>1, <2>1
<1> USE DEF start
<1>6. /\ n >= 1 => start(1) = MiB
      /\ n >= 2 => start(2) = start(1) + sizes[1] * MiB
      /\ n >= 3 => start(3) = start(2) + sizes[2] * MiB
      /\ n >= 4 => start(4) = start(3) + sizes[3] * MiB
  BY <1>0, <1>4, <1>20
<1>7. /\ n >= 1 => start(1) \in Nat
      /\ n >= 2 => start(2) \in Nat
      /\ n >= 3 => start(3) \in Nat
      /\ n >= 4 => start(4) \in Nat
  BY <1>0, <1>4, <1>20, SMTT(30)
<1> HIDE DEF start
<1>8. ASSUME NEW k \in 1 .. n PROVE start(k) \in Nat
  BY <1>7
<1>9. ASSUME NEW k \in 2 .. n PROVE start(k) = start(k - 1) + sizes[k - 1] * MiB
  <2>1. k \in 1 .. n /\ k - 1 \in 1 .. n
    OBVIOUS
  <2>2. (k = 2 /\ k - 1 = 1) \/ (k = 3 /\ k - 1 = 2) \/ (k = 4 /\ k - 1 = 3)
    OBVIOUS
  <2> QED
    BY <1>6, <2>2
<1>10. ASSUME NEW k \in 1 .. n PROVE sizes[k] * MiB \in Nat /\ sizes[k] * MiB > 0
  BY <1>0, <1>20
<1>11. table \in Seq([start : Nat, size : Nat])
  <2>1. table \in [1 .. n -> [start : Nat, size : Nat]]
    <3>1. ASSUME NEW k \in 1 .. n PROVE table[k] \in [start : Nat, size : Nat]
      <4>1. start(k) \in Nat /\ sizes[k] * MiB \in Nat
        BY <1>8, <1>10
      <4>2. \A a, b \in Nat : [start |-> a, size |-> b] \in [start : Nat, size : Nat]
        OBVIOUS
      <4>3. table[k] = [start |-> start(k), size |-> sizes[k] * MiB]
        BY <1>5
      <4> QED
        BY <4>1, <4>2, <4>3, Zenon
    <3> QED
      BY <1>1, <1>2, <3>1
  <2> QED
    BY <2>1, FunctionIsSeq
<1>12. ASSUME NEW k \in 2 .. n PROVE table[k].start = table[k - 1].start + table[k - 1].size
  <2>1. k \in 1 .. n /\ k - 1 \in 1 .. n
    OBVIOUS
  <2> QED
    BY <1>5, <1>9, <2>1
<1>13. n >= 1 => table[1].start = MiB
  <2>1. n >= 1 => 1 \in 1 .. n
    OBVIOUS
  <2> QED
    BY <1>5, <1>6, <2>1
<1>14. ASSUME NEW k \in 1 .. n
       PROVE  /\ table[k].start \in Nat /\ table[k].size \in Nat
              /\ table[k].size = sizes[k] * MiB /\ table[k].size > 0
  BY <1>5, <1>8, <1>10
<1> QED
  BY <1>2, <1>11, <1>12, <1>13, <1>14 DEF FollowsSizes, table, sizes

LEMMA WholeDisk ==
    ASSUME NEW d \in DiskPlan, NEW tail, Len(d.parts) <= 4,
           DOMAIN SfdiskSizes(d) = 1 .. Len(d.parts),
           \A k \in 1 .. Len(d.parts) :
              /\ SfdiskSizes(d)[k] \in Nat /\ SfdiskSizes(d)[k] > 0
              /\ d.parts[k].number = k /\ ExpectedMiB(d, d.parts[k]) = SfdiskSizes(d)[k],
           LayoutCheckPasses(d), TableFits(d, SfdiskTable(d, tail))
    PROVE  IsCarriedOut(d, tail)
<1> DEFINE table == SfdiskTable(d, tail)
           n     == Len(d.parts)
           sizes == SfdiskSizes(d)
<1>5. /\ n \in Nat /\ n <= 4 /\ DOMAIN sizes = 1 .. n /\ n = Len(d.parts)
      /\ \A k \in 1 .. n : /\ sizes[k] \in Nat /\ sizes[k] > 0
                            /\ d.parts[k].number = k /\ ExpectedMiB(d, d.parts[k]) = sizes[k]
  BY Parts
<1> HIDE DEF n, sizes
<1>0. DOMAIN d.parts = 1 .. n /\ MiB \in Nat /\ MiB \in 1 .. 64 * MiB /\ 0 \in 0 .. 64 * MiB
  BY <1>5, Parts, Units
<1>1. \A k \in 1 .. n : sizes[k] \in Nat /\ sizes[k] > 0
  BY <1>5
<1>2. /\ table \in Seq([start : Nat, size : Nat])
      /\ \A k \in 1 .. n : table[k].size = sizes[k] * MiB /\ table[k].size > 0
      /\ n >= 1 => table[1].start = MiB
      /\ \A k \in 2 .. n : table[k].start = table[k - 1].start + table[k - 1].size
      /\ \A k \in 1 .. n : table[k].start \in Nat /\ table[k].size \in Nat
  <2>1. AreWhole(SfdiskSizes(d), n)
    BY <1>1, <1>5 DEF AreWhole, sizes
  <2>2. FollowsSizes(table, sizes, n)
    BY <1>5, <2>1, WholeTable DEF sizes
  <2> QED
    BY <2>2 DEF FollowsSizes
<1> HIDE DEF table
<1>4. ASSUME NEW k \in DOMAIN d.parts, NEW numbers, k = 1 \/ k - 1 \in numbers
      PROVE  CreatedAccepted(d, d.parts[k], table, numbers)
  <2>1. k \in 1 .. n /\ d.parts[k].number = k /\ k \in Nat
    BY <1>0, <1>5
  <2>2. ExpectedMiB(d, d.parts[k]) > 0 /\ table[k].size = ExpectedMiB(d, d.parts[k]) * MiB
    BY <1>2, <1>5, <2>1
  <2>3. CASE k = 1
    <3>1. table[1].start \in 1 .. 64 * MiB
      BY <1>0, <1>2, <2>1, <2>3
    <3> QED
      BY <2>1, <2>2, <2>3, <3>1, Accepted
  <2>4. CASE k # 1
    <3>1. k \in 2 .. n /\ k - 1 \in 1 .. n
      BY <1>5, <2>1, <2>4
    <3>2. table[k].start = table[k - 1].start + table[k - 1].size
      BY <1>2, <3>1
    <3>3. table[k].start - (table[k - 1].start + table[k - 1].size) = 0
      <4>1. table[k - 1].start \in Nat /\ table[k - 1].size \in Nat
        BY <1>2, <3>1
      <4> QED
        BY <3>2, <4>1
    <3>4. table[k].start - (table[k - 1].start + table[k - 1].size) \in 0 .. 64 * MiB
      BY <1>0, <3>3
    <3>5. k - 1 \in numbers
      BY <1>4, <2>4
    <3> QED
      BY <2>1, <2>2, <2>4, <3>4, <3>5, Accepted
  <2> QED
    BY <2>3, <2>4
<1> QED
  BY <1>2, <1>4 DEF IsCarriedOut, table

LEMMA RootSwapDisk ==
    ASSUME NEW d \in DiskPlan, Shaped(d), NEW memory0, SizesAreSound(d, memory0),
           d.mode = "auto_root_swap", NEW tail \in Tails
    PROVE  IsCarriedOut(d, tail)
<1> DEFINE table == SfdiskTable(d, tail)
           p(k)  == d.parts[k]
           root  == p(2).size \div MiB
           swap  == p(3).size \div MiB
           sizes == << 1024, root - 2, swap >>
           n     == 3
<1>1. /\ Len(d.parts) = 3 /\ DOMAIN d.parts = 1 .. 3 /\ d.size \in Nat
      /\ p(1).number = 1 /\ p(2).number = 2 /\ p(3).number = 3
      /\ p(1).usage = "boot" /\ p(2).usage = "root" /\ p(3).usage = "swap"
      /\ p(1).size \in Nat /\ p(2).size \in Nat /\ p(3).size \in Nat
  BY Parts DEF Shaped, IsNew
<1>2. /\ d.size = p(1).size + p(2).size + p(3).size
      /\ p(1).size = GiB /\ p(2).size >= 8 * GiB /\ p(3).size \div MiB > 0
  <2>1. CoversDisk(d.parts, d.size)
    BY SoundSizes
  <2>2. p(1).size = GiB /\ p(2).size >= 8 * GiB
    BY SoundSizes
  <2>3. \A k \in 1 .. 3 : d.parts[k].size \div MiB > 0
    BY <1>1, SoundSizes
  <2> QED
    BY <1>1, <2>1, <2>2, <2>3, Covered
<1>3. WholeMiB(d, "boot") = 1024
  <2>1. WholeMiB(d, "boot") = p(1).size \div MiB
    <3>1. \A j \in 1 .. Len(d.parts) : d.parts[j].usage = "boot" => j = 1
      BY <1>1
    <3>2. 1 \in 1 .. Len(d.parts)
      BY <1>1
    <3> QED
      BY <1>1, <3>1, <3>2, WholeOf, Zenon
  <2> QED
    BY <1>2, <2>1, WholeGiB
<1>4. WholeMiB(d, "root") = root
  <2>1. \A j \in 1 .. Len(d.parts) : d.parts[j].usage = "root" => j = 2
    BY <1>1
  <2>2. 2 \in 1 .. Len(d.parts)
    BY <1>1
  <2> QED
    BY <1>1, <2>1, <2>2, WholeOf, Zenon
<1>5. WholeMiB(d, "swap") = swap
  <2>1. \A j \in 1 .. Len(d.parts) : d.parts[j].usage = "swap" => j = 3
    BY <1>1
  <2>2. 3 \in 1 .. Len(d.parts)
    BY <1>1
  <2> QED
    BY <1>1, <2>1, <2>2, WholeOf, Zenon
<1>6. /\ root \in Nat /\ MiB * root <= p(2).size /\ root >= 8192
      /\ swap \in Nat /\ MiB * swap <= p(3).size /\ swap > 0
  BY <1>1, <1>2, WholeSizes, WholeGiB
<1> HIDE DEF root, swap, p
<1>7. /\ EmittedMiB(d, "boot") = 1024 /\ EmittedMiB(d, "root") = root - 2
      /\ EmittedMiB(d, "swap") = swap
  BY <1>3, <1>4, <1>5, <1>6 DEF EmittedMiB, FlexibleMiB, Saturated
<1>8. SfdiskSizes(d) = sizes
  <2>1. SfdiskSizes(d) = << EmittedMiB(d, "boot"), EmittedMiB(d, "root"), EmittedMiB(d, "swap") >>
    BY SMT DEF SfdiskSizes
  <2> QED
    BY <1>7, <2>1
<1>9. LayoutCheckPasses(d)
  <2>1. EmittedMiB(d, "boot") > 0 /\ EmittedMiB(d, "root") > 0 /\ EmittedMiB(d, "swap") > 0
    BY <1>6, <1>7
  <2> QED
    BY <2>1, SMT DEF LayoutCheckPasses
<1>10. DOMAIN sizes = 1 .. 3 /\ \A k \in 1 .. 3 : sizes[k] \in Nat /\ sizes[k] > 0
  BY <1>6
<1>11. /\ sizes[1] = 1024 /\ sizes[2] = root - 2 /\ sizes[3] = swap
  OBVIOUS
<1> HIDE DEF sizes
<1>12. /\ n \in Nat /\ n <= 4 /\ n >= 1 /\ DOMAIN sizes = 1 .. n /\ Len(d.parts) = n
       /\ \A k \in 1 .. n : sizes[k] \in Nat /\ sizes[k] > 0
  BY <1>1, <1>10
<1> HIDE DEF n
<1>13. /\ \A k \in 1 .. n : table[k].size = sizes[k] * MiB /\ table[k].size > 0
       /\ table[1].start = MiB /\ DOMAIN table = 1 .. n
       /\ \A k \in 2 .. n : table[k].start = table[k - 1].start + table[k - 1].size
  <2>1. AreWhole(SfdiskSizes(d), n)
    BY <1>8, <1>12 DEF AreWhole
  <2>2. FollowsSizes(table, SfdiskSizes(d), n)
    BY <1>12, <2>1, WholeTable
  <2> QED
    BY <1>8, <1>12, <2>2 DEF FollowsSizes
<1> HIDE DEF table
<1>14. TableFits(d, table)
  <2>1. MiB = 2048 /\ BackupTable = 33 /\ GiB = 1024 * MiB
    BY SMT DEF MiB, BackupTable, GiB
  <2>2. /\ table[1].start = 2048 /\ table[1].size = 1024 * 2048
        /\ table[2].start = 1025 * 2048 /\ table[2].size = (root - 2) * 2048
        /\ table[3].start = (1023 + root) * 2048 /\ table[3].size = swap * 2048
    <3>1. /\ table[1].size = sizes[1] * MiB /\ table[2].size = sizes[2] * MiB
          /\ table[3].size = sizes[3] * MiB
          /\ table[2].start = table[1].start + table[1].size
          /\ table[3].start = table[2].start + table[2].size
      BY <1>13 DEF n
    <3> QED
      BY <1>6, <1>11, <1>13, <2>1, <3>1
  <2>3. \A k \in 1 .. 3 : table[k].start + table[k].size <= d.size - 33
    BY <1>1, <1>2, <1>6, <2>1, <2>2
  <2> QED
    BY <1>13, <2>1, <2>3 DEF TableFits, n
<1>15. /\ ExpectedMiB(d, p(1)) = sizes[1] /\ ExpectedMiB(d, p(2)) = sizes[2]
       /\ ExpectedMiB(d, p(3)) = sizes[3]
  BY <1>1, <1>7, <1>11 DEF ExpectedMiB
<1>16. \A k \in 1 .. n : /\ sizes[k] \in Nat /\ sizes[k] > 0
                         /\ d.parts[k].number = k /\ ExpectedMiB(d, d.parts[k]) = sizes[k]
  BY <1>1, <1>10, <1>15 DEF p, n
<1> QED
  <2>1. TableFits(d, SfdiskTable(d, tail))
    BY <1>14 DEF table
  <2> QED
    BY <1>8, <1>9, <1>12, <1>16, <2>1, WholeDisk

LEMMA HomeSwapDisk ==
    ASSUME NEW d \in DiskPlan, Shaped(d), NEW memory0, SizesAreSound(d, memory0),
           d.mode = "auto_home_swap", NEW tail \in Tails
    PROVE  IsCarriedOut(d, tail)
<1> DEFINE table == SfdiskTable(d, tail)
           p(k)  == d.parts[k]
           home  == p(3).size \div MiB
           swap  == p(4).size \div MiB
           sizes == << 1024, 102400, home - 2, swap >>
           n     == 4
<1>1. /\ Len(d.parts) = 4 /\ DOMAIN d.parts = 1 .. 4 /\ d.size \in Nat
      /\ p(1).number = 1 /\ p(2).number = 2 /\ p(3).number = 3 /\ p(4).number = 4
      /\ p(1).usage = "boot" /\ p(2).usage = "root" /\ p(3).usage = "home" /\ p(4).usage = "swap"
      /\ p(1).size \in Nat /\ p(2).size \in Nat /\ p(3).size \in Nat /\ p(4).size \in Nat
  BY Parts DEF Shaped, IsNew
<1>2. /\ d.size = p(1).size + p(2).size + p(3).size + p(4).size
      /\ p(1).size = GiB /\ p(2).size = 100 * GiB /\ p(3).size >= 8 * GiB
      /\ p(4).size \div MiB > 0
  <2>1. CoversDisk(d.parts, d.size)
    BY SoundSizes
  <2>2. p(1).size = GiB /\ p(2).size = 100 * GiB /\ p(3).size >= 8 * GiB
    BY SoundSizes
  <2>3. \A k \in 1 .. 4 : d.parts[k].size \div MiB > 0
    BY <1>1, SoundSizes
  <2> QED
    BY <1>1, <2>1, <2>2, <2>3, Covered
<1>3. WholeMiB(d, "boot") = 1024
  <2>1. WholeMiB(d, "boot") = p(1).size \div MiB
    <3>1. \A j \in 1 .. Len(d.parts) : d.parts[j].usage = "boot" => j = 1
      BY <1>1
    <3>2. 1 \in 1 .. Len(d.parts)
      BY <1>1
    <3> QED
      BY <1>1, <3>1, <3>2, WholeOf, Zenon
  <2> QED
    BY <1>2, <2>1, WholeGiB
<1>4. WholeMiB(d, "root") = 102400
  <2>1. WholeMiB(d, "root") = p(2).size \div MiB
    <3>1. \A j \in 1 .. Len(d.parts) : d.parts[j].usage = "root" => j = 2
      BY <1>1
    <3>2. 2 \in 1 .. Len(d.parts)
      BY <1>1
    <3> QED
      BY <1>1, <3>1, <3>2, WholeOf, Zenon
  <2>2. (100 * GiB) \div MiB = 102400
    BY SMT DEF MiB, GiB
  <2> QED
    BY <1>2, <2>1, <2>2, SMT
<1>5. WholeMiB(d, "home") = home
  <2>1. \A j \in 1 .. Len(d.parts) : d.parts[j].usage = "home" => j = 3
    BY <1>1
  <2>2. 3 \in 1 .. Len(d.parts)
    BY <1>1
  <2> QED
    BY <1>1, <2>1, <2>2, WholeOf, Zenon
<1>6. WholeMiB(d, "swap") = swap
  <2>1. \A j \in 1 .. Len(d.parts) : d.parts[j].usage = "swap" => j = 4
    BY <1>1
  <2>2. 4 \in 1 .. Len(d.parts)
    BY <1>1
  <2> QED
    BY <1>1, <2>1, <2>2, WholeOf, Zenon
<1>7. /\ home \in Nat /\ MiB * home <= p(3).size /\ home >= 8192
      /\ swap \in Nat /\ MiB * swap <= p(4).size /\ swap > 0
  BY <1>1, <1>2, WholeSizes, WholeGiB
<1> HIDE DEF home, swap, p
<1>8. /\ EmittedMiB(d, "boot") = 1024 /\ EmittedMiB(d, "root") = 102400
      /\ EmittedMiB(d, "home") = home - 2 /\ EmittedMiB(d, "swap") = swap
  BY <1>3, <1>4, <1>5, <1>6, <1>7, SMT DEF EmittedMiB, FlexibleMiB, Saturated
<1>9. SfdiskSizes(d) = sizes
  <2>1. SfdiskSizes(d) = << EmittedMiB(d, "boot"), EmittedMiB(d, "root"), EmittedMiB(d, "home"),
                            EmittedMiB(d, "swap") >>
    BY SMT DEF SfdiskSizes
  <2> QED
    BY <1>8, <2>1, SMT
<1>10. LayoutCheckPasses(d)
  <2>1. /\ EmittedMiB(d, "boot") > 0 /\ EmittedMiB(d, "root") > 0
        /\ EmittedMiB(d, "home") > 0 /\ EmittedMiB(d, "swap") > 0
    BY <1>7, <1>8, SMT
  <2> QED
    BY <2>1, SMT DEF LayoutCheckPasses
<1>11. DOMAIN sizes = 1 .. 4 /\ \A k \in 1 .. 4 : sizes[k] \in Nat /\ sizes[k] > 0
  BY <1>7, SMT
<1>12. sizes[1] = 1024 /\ sizes[2] = 102400 /\ sizes[3] = home - 2 /\ sizes[4] = swap
  BY SMT
<1> HIDE DEF sizes
<1>13. /\ n \in Nat /\ n <= 4 /\ n >= 1 /\ DOMAIN sizes = 1 .. n /\ Len(d.parts) = n
       /\ \A k \in 1 .. n : sizes[k] \in Nat /\ sizes[k] > 0
  BY <1>1, <1>11
<1> HIDE DEF n
<1>14. /\ \A k \in 1 .. n : table[k].size = sizes[k] * MiB /\ table[k].size > 0
       /\ table[1].start = MiB /\ DOMAIN table = 1 .. n
       /\ \A k \in 2 .. n : table[k].start = table[k - 1].start + table[k - 1].size
  <2>1. AreWhole(SfdiskSizes(d), n)
    BY <1>9, <1>13 DEF AreWhole
  <2>2. FollowsSizes(table, SfdiskSizes(d), n)
    BY <1>13, <2>1, WholeTable
  <2> QED
    BY <1>9, <1>13, <2>2 DEF FollowsSizes
<1> HIDE DEF table
<1>15. TableFits(d, table)
  <2>1. MiB = 2048 /\ BackupTable = 33 /\ GiB = 1024 * MiB
    BY SMT DEF MiB, BackupTable, GiB
  <2>2. /\ table[1].start = 2048 /\ table[1].size = 1024 * 2048
        /\ table[2].start = 1025 * 2048 /\ table[2].size = 102400 * 2048
        /\ table[3].start = 103425 * 2048 /\ table[3].size = (home - 2) * 2048
        /\ table[4].start = (103423 + home) * 2048 /\ table[4].size = swap * 2048
    <3>1. /\ table[1].size = sizes[1] * MiB /\ table[2].size = sizes[2] * MiB
          /\ table[3].size = sizes[3] * MiB /\ table[4].size = sizes[4] * MiB
          /\ table[2].start = table[1].start + table[1].size
          /\ table[3].start = table[2].start + table[2].size
          /\ table[4].start = table[3].start + table[3].size
      BY <1>14 DEF n
    <3> QED
      BY <1>7, <1>12, <1>14, <2>1, <3>1, SMT
  <2>3. \A k \in 1 .. 4 : table[k].start + table[k].size <= d.size - 33
    BY <1>1, <1>2, <1>7, <2>1, <2>2, SMT
  <2> QED
    BY <1>14, <2>1, <2>3 DEF TableFits, n
<1>16. /\ ExpectedMiB(d, p(1)) = sizes[1] /\ ExpectedMiB(d, p(2)) = sizes[2]
       /\ ExpectedMiB(d, p(3)) = sizes[3] /\ ExpectedMiB(d, p(4)) = sizes[4]
  BY <1>1, <1>8, <1>12, SMT DEF ExpectedMiB
<1>17. \A k \in 1 .. n : /\ sizes[k] \in Nat /\ sizes[k] > 0
                         /\ d.parts[k].number = k /\ ExpectedMiB(d, d.parts[k]) = sizes[k]
  BY <1>1, <1>11, <1>16 DEF p, n
<1> QED
  <2>1. TableFits(d, SfdiskTable(d, tail))
    BY <1>15 DEF table
  <2> QED
    BY <1>9, <1>10, <1>13, <1>17, <2>1, WholeDisk

(* However the sizes came about, a guided disk validate_plan accepts is     *)
(* carried out, but for the two exceptions.                                 *)
LEMMA GuidedDisk ==
    ASSUME NEW d \in DiskPlan, Shaped(d), NEW memory0, SizesAreSound(d, memory0),
           d.mode # "existing", NEW tail \in Tails
    PROVE  IsCarriedOut(d, tail)
<1>1. d.mode \in GuidedModes
  BY DEF DiskPlan
<1> QED
  BY <1>1, DataDisk, RootOnlyDisk, RootSwapDisk, HomeSwapDisk DEF GuidedModes

(* The number of a partition on a guided disk is its place. *)
LEMMA GuidedNumbers ==
    ASSUME NEW d \in DiskPlan, Shaped(d), d.mode # "existing"
    PROVE  /\ \A k \in DOMAIN d.parts : /\ d.parts[k].number = k /\ Actionable(d.parts[k])
                                        /\ d.parts[k].action = "format"
           /\ 1 \in DOMAIN d.parts
<1>1. d.mode \in GuidedModes /\ DOMAIN d.parts = 1 .. Len(d.parts)
  BY Parts DEF DiskPlan
<1>2. ASSUME NEW p, NEW k, NEW usage, IsNew(p, k, usage)
      PROVE  p.number = k /\ Actionable(p) /\ p.action = "format"
  BY <1>2 DEF IsNew, Actionable
<1>3. CASE d.mode = "auto_data"
  <2>1. Len(d.parts) = 1 /\ IsNew(d.parts[1], 1, d.parts[1].usage)
    BY <1>3 DEF Shaped
  <2> QED
    BY <1>1, <1>2, <2>1
<1>4. CASE d.mode = "auto_root_only"
  <2>1. Len(d.parts) = 2 /\ IsNew(d.parts[1], 1, "boot") /\ IsNew(d.parts[2], 2, "root")
    BY <1>4 DEF Shaped
  <2> QED
    BY <1>1, <1>2, <2>1
<1>5. CASE d.mode = "auto_root_swap"
  <2>1. /\ Len(d.parts) = 3 /\ IsNew(d.parts[1], 1, "boot") /\ IsNew(d.parts[2], 2, "root")
        /\ IsNew(d.parts[3], 3, "swap")
    BY <1>5 DEF Shaped
  <2> QED
    BY <1>1, <1>2, <2>1
<1>6. CASE d.mode = "auto_home_swap"
  <2>1. /\ Len(d.parts) = 4 /\ IsNew(d.parts[1], 1, "boot") /\ IsNew(d.parts[2], 2, "root")
        /\ IsNew(d.parts[3], 3, "home") /\ IsNew(d.parts[4], 4, "swap")
    BY <1>6 DEF Shaped
  <2> QED
    BY <1>1, <1>2, <2>1
<1> QED
  BY <1>1, <1>3, <1>4, <1>5, <1>6 DEF GuidedModes

LEMMA AutomaticDisk ==
    ASSUME NEW mode \in GuidedModes, NEW size \in Nat, NEW mem \in Nat
    PROVE  LET d == [mode |-> mode, size |-> size, parts |-> AutomaticParts(mode, size, mem)]
           IN  d \in DiskPlan /\ Shaped(d)
<1> DEFINE parts == AutomaticParts(mode, size, mem)
           d     == [mode |-> mode, size |-> size, parts |-> parts]
           rest   == Saturated(size, GiB)
           swap   == RecommendedSwap(mem)
           system == Saturated(rest, swap)
           home   == Saturated(system, 100 * GiB)
<1>1. GiB \in Nat /\ 100 * GiB \in Nat
  BY WholeGiB
<1>2. \A a, b \in Nat : Saturated(a, b) \in Nat
  BY DEF Saturated
<1>3. swap \in Nat
  BY <1>1 DEF RecommendedSwap
<1>4. rest \in Nat /\ system \in Nat /\ home \in Nat
  BY <1>1, <1>2, <1>3
<1>5. ASSUME NEW number \in Nat \ {0}, NEW usage \in Usages, NEW n \in Nat
      PROVE  /\ NewPartition(number, usage, n) \in PlannedPartition
             /\ IsNew(NewPartition(number, usage, n), number, usage)
  BY DEF NewPartition, PlannedPartition, IsNew
<1>6. {"boot", "root", "home", "swap", "unused"} \subseteq Usages
  BY DEF Usages
<1>7. SUFFICES parts \in Seq(PlannedPartition) /\ Shaped(d)
  BY DEF DiskPlan
<1>8. CASE mode = "auto_data"
  <2>1. parts = << NewPartition(1, "unused", size) >>
    BY <1>8 DEF AutomaticParts
  <2> HIDE DEF parts
  <2>2. IsNew(NewPartition(1, "unused", size), 1, "unused") /\ NewPartition(1, "unused", size) \in PlannedPartition
    BY <1>5, <1>6
  <2> QED
    BY <1>8, <2>1, <2>2 DEF Shaped, IsNew
<1>9. CASE mode = "auto_root_only"
  <2>1. parts = << NewPartition(1, "boot", GiB), NewPartition(2, "root", rest) >>
    BY <1>9 DEF AutomaticParts
  <2> HIDE DEF parts, rest, swap, system, home
  <2>2. /\ IsNew(NewPartition(1, "boot", GiB), 1, "boot") /\ NewPartition(1, "boot", GiB) \in PlannedPartition
        /\ IsNew(NewPartition(2, "root", rest), 2, "root") /\ NewPartition(2, "root", rest) \in PlannedPartition
    BY <1>1, <1>4, <1>5, <1>6
  <2> QED
    BY <1>9, <2>1, <2>2 DEF Shaped
<1>10. CASE mode = "auto_root_swap"
  <2>1. parts = << NewPartition(1, "boot", GiB), NewPartition(2, "root", system), NewPartition(3, "swap", swap) >>
    BY <1>10 DEF AutomaticParts
  <2> HIDE DEF parts, rest, swap, system, home
  <2>2. /\ IsNew(NewPartition(1, "boot", GiB), 1, "boot") /\ NewPartition(1, "boot", GiB) \in PlannedPartition
        /\ IsNew(NewPartition(2, "root", system), 2, "root")
        /\ NewPartition(2, "root", system) \in PlannedPartition
        /\ IsNew(NewPartition(3, "swap", swap), 3, "swap") /\ NewPartition(3, "swap", swap) \in PlannedPartition
    BY <1>1, <1>3, <1>4, <1>5, <1>6
  <2> QED
    BY <1>10, <2>1, <2>2 DEF Shaped
<1>11. CASE mode = "auto_home_swap"
  <2>1. parts = << NewPartition(1, "boot", GiB), NewPartition(2, "root", 100 * GiB),
                   NewPartition(3, "home", home), NewPartition(4, "swap", swap) >>
    BY <1>11 DEF AutomaticParts
  <2> HIDE DEF parts, rest, swap, system, home
  <2>2. /\ IsNew(NewPartition(1, "boot", GiB), 1, "boot") /\ NewPartition(1, "boot", GiB) \in PlannedPartition
        /\ IsNew(NewPartition(2, "root", 100 * GiB), 2, "root")
        /\ NewPartition(2, "root", 100 * GiB) \in PlannedPartition
        /\ IsNew(NewPartition(3, "home", home), 3, "home") /\ NewPartition(3, "home", home) \in PlannedPartition
        /\ IsNew(NewPartition(4, "swap", swap), 4, "swap") /\ NewPartition(4, "swap", swap) \in PlannedPartition
    BY <1>1, <1>3, <1>4, <1>5, <1>6
  <2> QED
    BY <1>11, <2>1, <2>2 DEF Shaped
<1> QED
  BY <1>8, <1>9, <1>10, <1>11 DEF GuidedModes

(* A disk whose partitions are replaced keeps its kind. *)
LEMMA OtherSizes ==
    ASSUME NEW d \in DiskPlan, Shaped(d), d.mode # "existing", NEW parts \in Seq(PlannedPartition),
           Len(parts) = Len(d.parts),
           \A k \in DOMAIN d.parts :
              /\ parts[k].number = d.parts[k].number /\ parts[k].action = d.parts[k].action
              /\ d.parts[k].planned => parts[k].planned
              /\ \/ parts[k].usage = d.parts[k].usage
                 \/ d.mode = "auto_data" /\ parts[k].usage \notin {"boot", "root"}
    PROVE  /\ [d EXCEPT !.parts = parts] \in DiskPlan
           /\ Shaped([d EXCEPT !.parts = parts])
<1> DEFINE e == [d EXCEPT !.parts = parts]
<1>0. SUFFICES e \in DiskPlan /\ Shaped(e)
  OBVIOUS
<1>1. e \in DiskPlan /\ e.mode = d.mode /\ e.parts = parts
  BY DEF DiskPlan
<1> HIDE DEF e
<1>2. DOMAIN d.parts = 1 .. Len(d.parts) /\ d.mode \in GuidedModes
  BY Parts DEF DiskPlan
<1>3. ASSUME NEW k \in DOMAIN d.parts, NEW usage, IsNew(d.parts[k], k, usage)
      PROVE  IsNew(parts[k], k, parts[k].usage)
  BY <1>3 DEF IsNew
<1>4. ASSUME NEW k \in DOMAIN d.parts, NEW usage, IsNew(d.parts[k], k, usage), d.mode # "auto_data"
      PROVE  IsNew(parts[k], k, usage)
  BY <1>4 DEF IsNew
<1>5. CASE d.mode = "auto_data"
  <2>1. /\ Len(d.parts) = 1 /\ 1 \in DOMAIN d.parts
        /\ IsNew(d.parts[1], 1, d.parts[1].usage) /\ d.parts[1].usage \notin {"boot", "root"}
    BY <1>2, <1>5 DEF Shaped
  <2>2. IsNew(parts[1], 1, parts[1].usage) /\ parts[1].usage \notin {"boot", "root"}
    BY <1>3, <2>1
  <2> QED
    BY <1>1, <1>5, <2>1, <2>2 DEF Shaped
<1>6. CASE d.mode = "auto_root_only"
  <2>1. /\ Len(d.parts) = 2 /\ {1, 2} \subseteq DOMAIN d.parts
        /\ IsNew(d.parts[1], 1, "boot") /\ IsNew(d.parts[2], 2, "root")
    BY <1>2, <1>6 DEF Shaped
  <2>2. IsNew(parts[1], 1, "boot") /\ IsNew(parts[2], 2, "root")
    BY <1>4, <1>6, <2>1
  <2> QED
    BY <1>1, <1>6, <2>1, <2>2 DEF Shaped
<1>7. CASE d.mode = "auto_root_swap"
  <2>1. /\ Len(d.parts) = 3 /\ {1, 2, 3} \subseteq DOMAIN d.parts
        /\ IsNew(d.parts[1], 1, "boot") /\ IsNew(d.parts[2], 2, "root") /\ IsNew(d.parts[3], 3, "swap")
    BY <1>2, <1>7 DEF Shaped
  <2>2. IsNew(parts[1], 1, "boot") /\ IsNew(parts[2], 2, "root") /\ IsNew(parts[3], 3, "swap")
    BY <1>4, <1>7, <2>1
  <2> QED
    BY <1>1, <1>7, <2>1, <2>2 DEF Shaped
<1>8. CASE d.mode = "auto_home_swap"
  <2>1. /\ Len(d.parts) = 4 /\ {1, 2, 3, 4} \subseteq DOMAIN d.parts
        /\ IsNew(d.parts[1], 1, "boot") /\ IsNew(d.parts[2], 2, "root")
        /\ IsNew(d.parts[3], 3, "home") /\ IsNew(d.parts[4], 4, "swap")
    BY <1>2, <1>8 DEF Shaped
  <2>2. /\ IsNew(parts[1], 1, "boot") /\ IsNew(parts[2], 2, "root")
        /\ IsNew(parts[3], 3, "home") /\ IsNew(parts[4], 4, "swap")
    BY <1>4, <1>8, <2>1
  <2> QED
    BY <1>1, <1>8, <2>1, <2>2 DEF Shaped
<1> QED
  BY <1>1, <1>2, <1>5, <1>6, <1>7, <1>8 DEF GuidedModes

-----------------------------------------------------------------------------
(***************************************************************************)
(* The inductive invariant: the disks of the plan have the shape of their    *)
(* modes, a generated script lists a valid plan, and a disk that was rebuilt *)
(* holds what sfdisk makes of it.                                            *)
(***************************************************************************)
Table == Seq([start : Nat, size : Nat])

StateInv ==
    /\ stage \in {"plan", "erase", "verify", "done", "died"}
    /\ memory \in Memories
    /\ plan \in Seq(DiskPlan)
    /\ at \in Nat \ {0}
    /\ tables \in Seq(Table) /\ Len(tables) = Len(plan)
    /\ stage = "plan" => at = 1

ShapeInv == \A i \in DOMAIN plan : Shaped(plan[i])

ListInv ==
    IF stage = "plan" THEN listed = <<>>
    ELSE /\ \A i \in DOMAIN plan : SizesAreSound(plan[i], memory)
         /\ IsListOf(listed, plan)
         /\ StartsWithRoot /\ FormatsWhatItMust

IsRebuilt(i) ==
    \E tail \in Tails : tables[i] = SfdiskTable(plan[i], tail) /\ TableFits(plan[i], tables[i])

RebuiltInv ==
    \A i \in DOMAIN plan :
        plan[i].mode # "existing" /\ (stage = "verify" \/ (stage = "erase" /\ i < at)) => IsRebuilt(i)

LayoutInv == StateInv /\ ShapeInv /\ ListInv /\ RebuiltInv /\ ValidatedPlanIsBuilt

LEMMA InitLayout == Init => LayoutInv
<1> SUFFICES ASSUME Init PROVE LayoutInv
  OBVIOUS
<1>1. stage = "plan" /\ memory \in Memories /\ plan = <<>> /\ listed = <<>> /\ at = 1 /\ tables = <<>>
  BY DEF Init
<1> QED
  BY <1>1 DEF LayoutInv, StateInv, ShapeInv, ListInv, StartsWithRoot, FormatsWhatItMust, RebuiltInv, ValidatedPlanIsBuilt

(* The disks of the plan. *)
LEMMA PlanOf ==
    ASSUME StateInv
    PROVE  /\ DOMAIN plan = 1 .. Len(plan) /\ DOMAIN tables = 1 .. Len(plan) /\ Len(plan) \in Nat
           /\ \A i \in DOMAIN plan : plan[i] \in DiskPlan /\ tables[i] \in Table
<1>1. plan \in Seq(DiskPlan) /\ tables \in Seq(Table) /\ Len(tables) = Len(plan)
  BY DEF StateInv
<1> QED
  BY <1>1, LenProperties, ElementOfSeq

LEMMA DiskAdded ==
    ASSUME LayoutInv, NEW d \in DiskPlan, Shaped(d), AddDisk(d)
    PROVE  LayoutInv'
<1>1. /\ stage = "plan" /\ stage' = "plan" /\ plan' = Append(plan, d) /\ tables' = Append(tables, <<>>)
      /\ memory' = memory /\ listed' = listed /\ at' = at /\ listed = <<>>
  BY DEF AddDisk, LayoutInv, ListInv, StartsWithRoot, FormatsWhatItMust
<1>2. StateInv /\ ShapeInv
  BY DEF LayoutInv
<1>3. StateInv'
  <2>1. plan' \in Seq(DiskPlan) /\ Len(plan') = Len(plan) + 1
    BY <1>1, <1>2 DEF StateInv
  <2>2. <<>> \in Table
    BY DEF Table
  <2>3. tables' \in Seq(Table) /\ Len(tables') = Len(tables) + 1
    BY <1>1, <1>2, <2>2 DEF StateInv
  <2> QED
    BY <1>1, <1>2, <2>1, <2>3 DEF StateInv
<1>4. ShapeInv'
  <2>1. plan \in Seq(DiskPlan) /\ Len(plan) \in Nat /\ DOMAIN plan = 1 .. Len(plan)
    BY <1>2, PlanOf DEF StateInv
  <2>2. ASSUME NEW i \in DOMAIN plan' PROVE plan'[i] = d \/ (i \in DOMAIN plan /\ plan'[i] = plan[i])
    BY <1>1, <2>1
  <2> QED
    BY <1>2, <2>2 DEF ShapeInv
<1> QED
  BY <1>1, <1>3, <1>4 DEF LayoutInv, ListInv, StartsWithRoot, FormatsWhatItMust, RebuiltInv, ValidatedPlanIsBuilt

LEMMA PlanGuidedKeeps ==
    ASSUME LayoutInv, PlanGuided
    PROVE  LayoutInv'
<1>1. PICK mode \in GuidedModes, size \in Sizes :
         AddDisk([mode |-> mode, size |-> size, parts |-> AutomaticParts(mode, size, memory)])
  BY DEF PlanGuided
<1>2. size \in Nat /\ memory \in Nat
  BY LayoutsAssumption DEF LayoutInv, StateInv
<1> QED
  BY <1>1, <1>2, AutomaticDisk, DiskAdded

LEMMA PlanExistingKeeps ==
    ASSUME LayoutInv, PlanExisting
    PROVE  LayoutInv'
<1>1. PICK parts \in KeptLayouts, size \in Sizes :
         AddDisk([mode |-> "existing", size |-> size, parts |-> parts])
  BY DEF PlanExisting
<1> DEFINE d == [mode |-> "existing", size |-> size, parts |-> parts]
<1>2. d \in DiskPlan
  BY LayoutsAssumption DEF DiskPlan
<1>3. Shaped(d)
  BY DEF Shaped
<1> HIDE DEF d
<1>4. AddDisk(d)
  BY <1>1 DEF d
<1> QED
  BY <1>2, <1>3, <1>4, DiskAdded

(* The partitions of one guided disk of the plan are replaced. *)
LEMMA DiskChanged ==
    ASSUME LayoutInv, stage = "plan", NEW i \in DOMAIN plan, NEW parts \in Seq(PlannedPartition),
           plan[i].mode # "existing",
           Len(parts) = Len(plan[i].parts),
           \A k \in DOMAIN plan[i].parts :
              /\ parts[k].number = plan[i].parts[k].number /\ parts[k].action = plan[i].parts[k].action
              /\ plan[i].parts[k].planned => parts[k].planned
              /\ \/ parts[k].usage = plan[i].parts[k].usage
                 \/ plan[i].mode = "auto_data" /\ parts[k].usage \notin {"boot", "root"},
           plan' = [plan EXCEPT ![i] = [plan[i] EXCEPT !.parts = parts]],
           UNCHANGED <<stage, memory, listed, at, tables>>
    PROVE  LayoutInv'
<1>1. StateInv /\ ShapeInv /\ listed = <<>>
  BY DEF LayoutInv, ListInv, StartsWithRoot, FormatsWhatItMust
<1>2. plan[i] \in DiskPlan /\ Shaped(plan[i])
  BY <1>1, PlanOf DEF ShapeInv
<1> DEFINE d == [plan[i] EXCEPT !.parts = parts]
<1>3. d \in DiskPlan /\ Shaped(d)
  BY <1>2, OtherSizes
<1> HIDE DEF d
<1>4. plan' = [plan EXCEPT ![i] = d]
  BY DEF d
<1>5. plan \in Seq(DiskPlan) /\ i \in 1 .. Len(plan)
  BY <1>1, PlanOf DEF StateInv
<1>6. plan' \in Seq(DiskPlan) /\ Len(plan') = Len(plan)
  <2>1. [plan EXCEPT ![i] = d] \in Seq(DiskPlan) /\ Len([plan EXCEPT ![i] = d]) = Len(plan)
    BY <1>3, <1>5, ExceptSeq, Zenon
  <2> QED
    BY <1>4, <2>1, Zenon
<1>7. \A j \in DOMAIN plan' : plan'[j] = d \/ (j \in DOMAIN plan /\ plan'[j] = plan[j])
  BY <1>4
<1>8. StateInv'
  BY <1>1, <1>6 DEF StateInv
<1>9. ShapeInv'
  BY <1>1, <1>3, <1>7 DEF ShapeInv
<1> QED
  BY <1>1, <1>8, <1>9 DEF LayoutInv, ListInv, StartsWithRoot, FormatsWhatItMust, RebuiltInv, ValidatedPlanIsBuilt

LEMMA OneReplaced ==
    ASSUME NEW s \in Seq(PlannedPartition), NEW k \in 1 .. Len(s), NEW p \in PlannedPartition
    PROVE  /\ [s EXCEPT ![k] = p] \in Seq(PlannedPartition) /\ Len([s EXCEPT ![k] = p]) = Len(s)
           /\ \A j \in 1 .. Len(s) : [s EXCEPT ![k] = p][j] = IF j = k THEN p ELSE s[j]
BY ExceptSeq

LEMMA AssignDataKeeps ==
    ASSUME LayoutInv, AssignData
    PROVE  LayoutInv'
<1>1. PICK i \in DOMAIN plan, usage \in Usages \ {"boot", "root"} :
         /\ plan[i].mode = "auto_data"
         /\ plan' = [plan EXCEPT ![i].parts[1].usage = usage]
  BY DEF AssignData
<1>2. stage = "plan" /\ UNCHANGED <<stage, memory, listed, at, tables>>
  BY DEF AssignData
<1>3. StateInv /\ Shaped(plan[i]) /\ plan[i] \in DiskPlan
  BY PlanOf DEF LayoutInv, ShapeInv
<1> DEFINE old   == plan[i].parts
           only  == [old[1] EXCEPT !.usage = usage]
           parts == [old EXCEPT ![1] = only]
<1>4. plan' = [plan EXCEPT ![i] = [plan[i] EXCEPT !.parts = parts]]
  BY <1>1
<1>5. /\ Len(old) = 1 /\ DOMAIN old = 1 .. Len(old) /\ old \in Seq(PlannedPartition)
      /\ old[1] \in PlannedPartition
  BY <1>1, <1>3, Parts DEF Shaped
<1>6. /\ only \in PlannedPartition /\ only.number = old[1].number /\ only.action = old[1].action
      /\ only.planned = old[1].planned /\ only.usage = usage
  BY <1>5 DEF PlannedPartition
<1> HIDE DEF only
<1>7. parts \in Seq(PlannedPartition) /\ Len(parts) = Len(old)
  <2>1. 1 \in 1 .. Len(old)
    BY <1>5
  <2> QED
    BY <1>5, <1>6, <2>1, OneReplaced
<1>8. ASSUME NEW k \in DOMAIN old
      PROVE  /\ parts[k].number = old[k].number /\ parts[k].action = old[k].action
             /\ old[k].planned => parts[k].planned
             /\ \/ parts[k].usage = old[k].usage
                \/ plan[i].mode = "auto_data" /\ parts[k].usage \notin {"boot", "root"}
  <2>1. k = 1
    BY <1>5
  <2>2. parts[1] = only
    BY <1>5
  <2> HIDE DEF parts
  <2> QED
    BY <1>1, <1>6, <2>1, <2>2
<1>9. plan[i].mode # "existing"
  BY <1>1
<1> HIDE DEF parts
<1> QED
  BY <1>2, <1>4, <1>7, <1>8, <1>9, DiskChanged

LEMMA EditPlanFileKeeps ==
    ASSUME LayoutInv, EditPlanFile
    PROVE  LayoutInv'
<1>1. PICK i \in DOMAIN plan, by \in Edits :
         LET parts == plan[i].parts IN
         /\ plan[i].mode # "existing" /\ Len(parts) > 2
         /\ parts = AutomaticParts(plan[i].mode, plan[i].size, memory)
         /\ by <= parts[2].size /\ 0 <= parts[Len(parts)].size + by
         /\ plan' = [plan EXCEPT ![i].parts[2].size = @ - by,
                                 ![i].parts[Len(parts)].size = @ + by]
  BY DEF EditPlanFile
<1>2. stage = "plan" /\ UNCHANGED <<stage, memory, listed, at, tables>>
  BY DEF EditPlanFile
<1>3. StateInv /\ Shaped(plan[i]) /\ plan[i] \in DiskPlan
  BY PlanOf DEF LayoutInv, ShapeInv
<1> DEFINE old   == plan[i].parts
           n     == Len(old)
           two   == [old[2] EXCEPT !.size = @ - by]
           last  == [old[n] EXCEPT !.size = @ + by]
           some  == [old EXCEPT ![2] = two]
           parts == [some EXCEPT ![n] = last]
<1>4. /\ n \in Nat /\ n > 2 /\ DOMAIN old = 1 .. n /\ old \in Seq(PlannedPartition)
      /\ old[2] \in PlannedPartition /\ old[n] \in PlannedPartition
      /\ 2 \in 1 .. n /\ n \in 1 .. n /\ 2 # n
  <2>1. n > 2
    BY <1>1
  <2>2. n \in Nat /\ DOMAIN old = 1 .. n /\ old \in Seq(PlannedPartition)
    BY <1>3, Parts
  <2>3. \A k \in 1 .. n : old[k] \in PlannedPartition
    BY <2>2, ElementOfSeq
  <2> HIDE DEF n
  <2>4. 2 \in 1 .. n /\ n \in 1 .. n /\ 2 # n
    BY <2>1, <2>2
  <2> QED
    BY <2>1, <2>2, <2>3, <2>4
<1>5. plan' = [plan EXCEPT ![i] = [plan[i] EXCEPT !.parts = parts]]
  <2> HIDE DEF n
  <2>1. old[n] = some[n]
    BY <1>4
  <2>2. plan' = [plan EXCEPT ![i].parts[2].size = @ - by, ![i].parts[n].size = @ + by]
    BY <1>1 DEF n
  <2> QED
    BY <1>3, <1>4, <2>1, <2>2 DEF DiskPlan
<1>6. two \in PlannedPartition /\ last \in PlannedPartition
  <2>1. by \in Int /\ old[2].size - by \in Nat /\ old[n].size + by \in Nat
    <3>1. by \in Int /\ old[2].size \in Nat /\ old[n].size \in Nat
      BY <1>4, LayoutsAssumption DEF PlannedPartition
    <3>2. by <= old[2].size /\ 0 <= old[n].size + by
      BY <1>1
    <3> HIDE DEF n
    <3> QED
      BY <3>1, <3>2
  <2> QED
    BY <1>4, <2>1 DEF PlannedPartition
<1>7. /\ two.number = old[2].number /\ two.action = old[2].action
      /\ two.planned = old[2].planned /\ two.usage = old[2].usage
      /\ last.number = old[n].number /\ last.action = old[n].action
      /\ last.planned = old[n].planned /\ last.usage = old[n].usage
  BY <1>4 DEF PlannedPartition
<1> HIDE DEF two, last, n, some, parts
<1>8. n = Len(old)
  BY DEF n
<1>9. /\ some \in Seq(PlannedPartition) /\ Len(some) = Len(old)
      /\ \A k \in 1 .. Len(old) : some[k] = IF k = 2 THEN two ELSE old[k]
  BY <1>4, <1>6, <1>8, OneReplaced DEF some
<1>10. /\ parts \in Seq(PlannedPartition) /\ Len(parts) = Len(some)
       /\ \A k \in 1 .. Len(some) : parts[k] = IF k = n THEN last ELSE some[k]
  BY <1>4, <1>6, <1>8, <1>9, OneReplaced DEF parts
<1>11. ASSUME NEW k \in DOMAIN old
       PROVE  /\ parts[k].number = old[k].number /\ parts[k].action = old[k].action
              /\ old[k].planned => parts[k].planned
              /\ parts[k].usage = old[k].usage
  <2>1. k \in 1 .. Len(old)
    BY <1>4, <1>8
  <2>2. parts[k] = IF k = n THEN last ELSE IF k = 2 THEN two ELSE old[k]
    BY <1>9, <1>10, <2>1
  <2> QED
    BY <1>7, <2>2
<1>12. plan[i].mode # "existing" /\ Len(parts) = Len(old)
  BY <1>1, <1>9, <1>10
<1> QED
  BY <1>2, <1>5, <1>10, <1>11, <1>12, DiskChanged

(* A valid plan has one root. *)
LEMMA OneRoot ==
    ASSUME StateInv, PlanIsValid
    PROVE  \E r : AssignedTo("root") = {r}
<1> DEFINE places(i) == {<<i, k>> : k \in DOMAIN plan[i].parts}
           all == {places(i) : i \in DOMAIN plan}
           f == [i \in DOMAIN plan |-> places(i)]
<1>1. DOMAIN plan = 1 .. Len(plan) /\ Len(plan) \in Nat /\ \A i \in DOMAIN plan : plan[i] \in DiskPlan
  BY PlanOf
<1>2. IsFiniteSet(DOMAIN plan)
  BY <1>1, FS_Interval
<1>3. ASSUME NEW i \in DOMAIN plan PROVE IsFiniteSet(places(i))
  <2>1. DOMAIN plan[i].parts = 1 .. Len(plan[i].parts) /\ Len(plan[i].parts) \in Nat
    BY <1>1, Parts
  <2>2. IsFiniteSet(DOMAIN plan[i].parts)
    BY <2>1, FS_Interval
  <2>3. IsFiniteSet({i} \X DOMAIN plan[i].parts)
    BY <2>2, FS_Singleton, FS_Product
  <2>4. places(i) \subseteq {i} \X DOMAIN plan[i].parts
    OBVIOUS
  <2> QED
    BY <2>3, <2>4, FS_Subset
<1>4. IsFiniteSet(all)
  <2>1. f \in Surjection(DOMAIN plan, all)
    BY DEF Surjection
  <2> QED
    BY <1>2, <2>1, FS_Surjection
<1>5. IsFiniteSet(AssignedTo("root"))
  <2>1. IsFiniteSet(UNION all)
    BY <1>3, <1>4, FS_UNION
  <2>2. AssignedTo("root") \subseteq UNION all
    BY DEF AssignedTo
  <2> QED
    BY <2>1, <2>2, FS_Subset
<1>6. AssignedTo("root") # {} /\ Cardinality(AssignedTo("root")) <= 1
  BY DEF PlanIsValid, Usages
<1>7. Cardinality(AssignedTo("root")) = 1
  BY <1>5, <1>6, FS_CardinalityType, FS_EmptySet
<1> QED
  BY <1>5, <1>7, FS_Singleton

(* The list of a valid plan starts with its root and formats what the        *)
(* installer expects to be formatted.                                        *)
LEMMA ListFits ==
    ASSUME StateInv, ShapeInv, PlanIsValid, NEW l, IsListOf(l, plan)
    PROVE  /\ \A k \in DOMAIN l : l[k].part.usage = "root" <=> k = 1
           /\ \A k \in DOMAIN l :
                 l[k].part.usage \in {"root", "unused"} \/ plan[l[k].disk].mode # "existing"
                     => l[k].part.action = "format"
<1>1. l \in Seq(Entries) /\ InOrder(l) /\ DOMAIN l = 1 .. Len(l) /\ Len(l) \in Nat
  BY LenProperties DEF IsListOf
<1>2. ASSUME NEW k \in DOMAIN l
      PROVE  /\ l[k].disk \in DOMAIN plan /\ l[k].index \in DOMAIN plan[l[k].disk].parts
             /\ l[k].part = plan[l[k].disk].parts[l[k].index]
             /\ l[k].part \in PlannedPartition /\ Actionable(l[k].part)
             /\ l[k].disk \in Nat /\ l[k].index \in Nat
  <2>1. PICK i \in DOMAIN plan : \E j \in DOMAIN plan[i].parts : l[k] = RecordOf(plan, i, j)
    BY DEF IsListOf
  <2>2. PICK j \in DOMAIN plan[i].parts : l[k] = RecordOf(plan, i, j)
    BY <2>1
  <2>3. l[k] \in Entries
    BY <1>1, ElementOfSeq
  <2> QED
    BY <2>2, <2>3 DEF RecordOf, Entries, IsListOf
<1>3. PICK r : AssignedTo("root") = {r}
  BY OneRoot
<1>4. ASSUME NEW k \in DOMAIN l, l[k].part.usage = "root" PROVE <<l[k].disk, l[k].index>> = r
  <2>1. <<l[k].disk, l[k].index>> \in AssignedTo("root")
    BY <1>2, <1>4 DEF AssignedTo
  <2> QED
    BY <1>3, <2>1
<1>5. \E k \in DOMAIN l : l[k].part.usage = "root"
  <2>1. PICK i \in DOMAIN plan : \E j \in DOMAIN plan[i].parts : plan[i].parts[j].usage = "root"
    BY <1>3 DEF AssignedTo
  <2>2. PICK j \in DOMAIN plan[i].parts : plan[i].parts[j].usage = "root"
    BY <2>1
  <2>3. PICK k \in DOMAIN l : l[k] = RecordOf(plan, i, j)
    BY <2>2 DEF IsListOf, Actionable
  <2> QED
    BY <2>2, <2>3 DEF RecordOf
<1>6. PICK k0 \in DOMAIN l : l[k0].part.usage = "root"
  BY <1>5
<1>7. ASSUME NEW j \in DOMAIN l, j < k0 PROVE FALSE
  <2>1. RankOf(l[k0].part) = 0
    BY <1>6, Ranks
  <2>2. RankOf(l[j].part) \in Nat
    BY <1>2, OrderIsByRank
  <2>3. Precedes(l[j], l[k0])
    BY <1>1, <1>7 DEF InOrder
  <2>4. RankOf(l[j].part) = 0 /\ Earlier(l[j], l[k0])
    BY <2>1, <2>2, <2>3 DEF Precedes
  <2>5. l[j].part.usage = "root"
    <3>1. l[j].part.usage \in Usages
      BY <1>2 DEF PlannedPartition
    <3> QED
      BY <2>4, <3>1, Ranks DEF Usages
  <2>6. l[j].disk = l[k0].disk /\ l[j].index = l[k0].index
    BY <1>4, <1>6, <2>5
  <2> QED
    BY <1>2, <2>4, <2>6 DEF Earlier
<1>8. k0 = 1
  BY <1>1, <1>7
<1>9. ASSUME NEW k \in DOMAIN l, l[k].part.usage = "root" PROVE k = 1
  <2>1. SUFFICES ASSUME k # 1 PROVE FALSE
    OBVIOUS
  <2>2. Precedes(l[k0], l[k])
    BY <1>1, <1>8, <2>1 DEF InOrder
  <2>3. Earlier(l[k0], l[k])
    BY <1>6, <1>9, <2>2, Ranks DEF Precedes
  <2>4. l[k].disk = l[k0].disk /\ l[k].index = l[k0].index
    BY <1>4, <1>6, <1>9
  <2> QED
    BY <1>2, <2>3, <2>4 DEF Earlier
<1>10. ASSUME NEW k \in DOMAIN l,
              l[k].part.usage \in {"root", "unused"} \/ plan[l[k].disk].mode # "existing"
       PROVE  l[k].part.action = "format"
  <2>1. CASE plan[l[k].disk].mode # "existing"
    <3>1. plan[l[k].disk] \in DiskPlan /\ Shaped(plan[l[k].disk])
      BY <1>2, PlanOf DEF ShapeInv
    <3> QED
      BY <1>2, <2>1, <3>1, GuidedNumbers
  <2>2. CASE l[k].part.usage \in {"root", "unused"}
    <3>1. ActionsAreSound(plan[l[k].disk])
      BY <1>2 DEF PlanIsValid
    <3> QED
      BY <1>2, <2>2, <3>1 DEF ActionsAreSound, Actionable
  <2> QED
    BY <1>10, <2>1, <2>2
<1> QED
  BY <1>6, <1>8, <1>9, <1>10

LEMMA GenerateKeeps ==
    ASSUME LayoutInv, Generate
    PROVE  LayoutInv'
<1>1. /\ stage = "plan" /\ PlanIsValid /\ listed' = CollectActionable(plan) /\ stage' = "erase"
      /\ memory' = memory /\ plan' = plan /\ at' = at /\ tables' = tables
  BY DEF Generate
<1>2. StateInv /\ ShapeInv
  BY DEF LayoutInv
<1>4. IsListOf(CollectActionable(plan), plan)
  BY <1>2, ListOfPlan DEF StateInv
<1>5. \A i \in DOMAIN plan : SizesAreSound(plan[i], memory)
  BY <1>1 DEF PlanIsValid
<1>6. ListInv'
  <2>1. StartsWithRoot' /\ FormatsWhatItMust'
    BY <1>1, <1>2, <1>4, ListFits DEF StartsWithRoot, FormatsWhatItMust
  <2> QED
    BY <1>1, <1>4, <1>5, <2>1 DEF ListInv
<1>7. RebuiltInv'
  <2>1. at = 1
    BY <1>1, <1>2 DEF StateInv
  <2> QED
    BY <1>1, <1>2, <2>1, PlanOf DEF RebuiltInv
<1> QED
  BY <1>1, <1>2, <1>6, <1>7 DEF LayoutInv, StateInv, ShapeInv, ValidatedPlanIsBuilt

(* The disk the script is at, once the plan was accepted.                   *)
LEMMA DiskAt ==
    ASSUME LayoutInv, stage # "plan", NEW i \in DOMAIN plan, plan[i].mode # "existing", NEW tail \in Tails
    PROVE  IsCarriedOut(plan[i], tail)
<1>1. plan[i] \in DiskPlan /\ Shaped(plan[i])
  BY PlanOf DEF LayoutInv, ShapeInv
<1>2. SizesAreSound(plan[i], memory)
  BY DEF LayoutInv, ListInv, StartsWithRoot, FormatsWhatItMust
<1> QED
  BY <1>1, <1>2, GuidedDisk

LEMMA SkipExistingKeeps ==
    ASSUME LayoutInv, SkipExisting
    PROVE  LayoutInv'
<1>1. /\ stage = "erase" /\ at \in DOMAIN plan /\ plan[at].mode = "existing" /\ at' = at + 1
      /\ UNCHANGED <<stage, memory, plan, listed, tables>>
  BY DEF SkipExisting
<1>2. at \in Nat \ {0} /\ DOMAIN plan = 1 .. Len(plan) /\ Len(plan) \in Nat
  BY PlanOf DEF LayoutInv, StateInv
<1>3. RebuiltInv'
  <2> SUFFICES ASSUME NEW i \in DOMAIN plan, plan[i].mode # "existing", i < at + 1 PROVE IsRebuilt(i)
    BY <1>1 DEF RebuiltInv, IsRebuilt
  <2>1. i # at
    BY <1>1
  <2>2. i < at
    BY <1>2, <2>1
  <2> QED
    BY <1>1, <2>2 DEF LayoutInv, RebuiltInv
<1>4. at' \in Nat \ {0}
  BY <1>1, <1>2
<1> QED
  BY <1>1, <1>3, <1>4 DEF LayoutInv, StateInv, ShapeInv, ListInv, StartsWithRoot, FormatsWhatItMust, ValidatedPlanIsBuilt

LEMMA RejectLayoutKeeps ==
    ASSUME LayoutInv, RejectLayout
    PROVE  LayoutInv'
<1>1. /\ stage = "erase" /\ at \in DOMAIN plan /\ plan[at].mode # "existing"
      /\ ~LayoutCheckPasses(plan[at])
      /\ stage' = "died" /\ UNCHANGED <<memory, plan, listed, at, tables>>
  BY DEF RejectLayout, Die
<1>2. PICK tail : tail \in Tails
  BY TailsAssumption, Zenon
<1>3. plan[at].mode = "auto_root_only" /\ plan[at].size = 9 * GiB
  BY <1>1, <1>2, DiskAt, Zenon DEF IsCarriedOut
<1>4. ValidatedPlanIsBuilt'
  BY <1>1, <1>3 DEF ValidatedPlanIsBuilt
<1> QED
  BY <1>1, <1>4 DEF LayoutInv, StateInv, ShapeInv, ListInv, StartsWithRoot, FormatsWhatItMust, RebuiltInv

LEMMA RebuildKeeps ==
    ASSUME LayoutInv, NEW tail \in Tails, Rebuild(tail)
    PROVE  LayoutInv'
<1> DEFINE made == SfdiskTable(plan[at], tail)
<1>1. /\ stage = "erase" /\ at \in DOMAIN plan /\ plan[at].mode # "existing"
      /\ UNCHANGED <<memory, plan, listed>>
  BY DEF Rebuild
<1>2. /\ at \in Nat \ {0} /\ DOMAIN plan = 1 .. Len(plan) /\ Len(plan) \in Nat
      /\ tables \in Seq(Table) /\ Len(tables) = Len(plan)
  BY PlanOf DEF LayoutInv, StateInv
<1>3. IsCarriedOut(plan[at], tail)
  BY <1>1, DiskAt
<1>4. CASE TableFits(plan[at], made)
  <2>1. tables' = [tables EXCEPT ![at] = made] /\ at' = at + 1 /\ UNCHANGED stage
    BY <1>4 DEF Rebuild
  <2>2. made \in Table
    BY <1>3, <1>4, Zenon DEF IsCarriedOut, Table
  <2> HIDE DEF made
  <2>3. /\ tables' \in Seq(Table) /\ Len(tables') = Len(tables)
        /\ \A i \in 1 .. Len(tables) : tables'[i] = IF i = at THEN made ELSE tables[i]
    BY <1>1, <1>2, <2>1, <2>2, ExceptSeq
  <2>4. RebuiltInv'
    <3> SUFFICES ASSUME NEW i \in DOMAIN plan, plan[i].mode # "existing", i < at + 1
                 PROVE  IsRebuilt(i)'
      BY <1>1, <2>1 DEF RebuiltInv
    <3>1. CASE i = at
      <4>1. tables'[at] = made
        BY <1>1, <1>2, <2>3
      <4> QED
        BY <1>1, <1>4, <3>1, <4>1 DEF IsRebuilt, made
    <3>2. CASE i # at
      <4>1. i < at /\ tables'[i] = tables[i]
        BY <1>2, <2>3, <3>2
      <4>2. IsRebuilt(i)
        BY <1>1, <4>1 DEF LayoutInv, RebuiltInv
      <4> QED
        BY <1>1, <4>1, <4>2 DEF IsRebuilt
    <3> QED
      BY <3>1, <3>2
  <2>5. at' \in Nat \ {0} /\ stage' = "erase"
    BY <1>1, <1>2, <2>1
  <2>6. StateInv'
    BY <1>1, <1>2, <2>3, <2>5 DEF LayoutInv, StateInv
  <2> QED
    BY <1>1, <2>4, <2>5, <2>6 DEF LayoutInv, ShapeInv, ListInv, StartsWithRoot, FormatsWhatItMust, ValidatedPlanIsBuilt
<1>5. CASE ~TableFits(plan[at], made)
  <2>1. stage' = "died" /\ UNCHANGED <<tables, at>>
    BY <1>5 DEF Rebuild
  <2>2. plan[at].mode = "auto_data" /\ plan[at].size <= 3 * MiB
    BY <1>3, <1>5, Zenon DEF IsCarriedOut
  <2>3. ValidatedPlanIsBuilt'
    BY <1>1, <2>1, <2>2 DEF ValidatedPlanIsBuilt
  <2> QED
    BY <1>1, <2>1, <2>3 DEF LayoutInv, StateInv, ShapeInv, ListInv, StartsWithRoot, FormatsWhatItMust, RebuiltInv
<1> QED
  BY <1>4, <1>5

LEMMA AllRebuiltKeeps ==
    ASSUME LayoutInv, AllRebuilt
    PROVE  LayoutInv'
<1>1. /\ stage = "erase" /\ at \notin DOMAIN plan /\ stage' = "verify" /\ at' = 1
      /\ UNCHANGED <<memory, plan, listed, tables>>
  BY DEF AllRebuilt
<1>2. at \in Nat \ {0} /\ DOMAIN plan = 1 .. Len(plan) /\ Len(plan) \in Nat
  BY PlanOf DEF LayoutInv, StateInv
<1>3. RebuiltInv'
  <2> SUFFICES ASSUME NEW i \in DOMAIN plan, plan[i].mode # "existing" PROVE IsRebuilt(i)
    BY <1>1 DEF RebuiltInv, IsRebuilt
  <2>1. i < at
    BY <1>1, <1>2
  <2> QED
    BY <1>1, <2>1 DEF LayoutInv, RebuiltInv
<1> QED
  BY <1>1, <1>3 DEF LayoutInv, StateInv, ShapeInv, ListInv, StartsWithRoot, FormatsWhatItMust, ValidatedPlanIsBuilt

(* Every partition of a guided disk is listed, so that the one before it is  *)
(* known when a partition is verified.                                      *)
LEMMA OneBeforeIsListed ==
    ASSUME LayoutInv, stage # "plan", NEW i \in DOMAIN plan, plan[i].mode # "existing",
           NEW j \in DOMAIN plan[i].parts, j # 1
    PROVE  j - 1 \in ListedNumbers(i)
<1>1. plan[i] \in DiskPlan /\ Shaped(plan[i]) /\ IsListOf(listed, plan)
  BY PlanOf DEF LayoutInv, ShapeInv, ListInv, StartsWithRoot, FormatsWhatItMust
<1>2. \A k \in DOMAIN plan[i].parts : plan[i].parts[k].number = k /\ Actionable(plan[i].parts[k])
  BY <1>1, GuidedNumbers
<1>3. j - 1 \in DOMAIN plan[i].parts
  BY <1>1, Parts
<1>4. PICK k \in DOMAIN listed : listed[k] = RecordOf(plan, i, j - 1)
  BY <1>1, <1>2, <1>3 DEF IsListOf
<1>5. listed[k].disk = i /\ listed[k].part.number = j - 1
  BY <1>2, <1>3, <1>4 DEF RecordOf
<1> QED
  BY <1>5 DEF ListedNumbers

LEMMA VerifyPartitionKeeps ==
    ASSUME LayoutInv, VerifyPartition
    PROVE  LayoutInv'
<1> DEFINE e == listed[at]
           d == plan[e.disk]
<1>1. stage = "verify" /\ at \in DOMAIN listed /\ UNCHANGED <<memory, plan, listed, tables>>
  BY DEF VerifyPartition
<1>2. IsListOf(listed, plan)
  BY <1>1 DEF LayoutInv, ListInv, StartsWithRoot, FormatsWhatItMust
<1>0. PICK i \in DOMAIN plan : \E j \in DOMAIN plan[i].parts : e = RecordOf(plan, i, j)
  BY <1>1, <1>2 DEF IsListOf
<1>3. PICK j \in DOMAIN plan[i].parts : e = RecordOf(plan, i, j)
  BY <1>0
<1>4. e.disk = i /\ e.part = plan[i].parts[j] /\ d = plan[i]
  BY <1>3 DEF RecordOf
<1> HIDE DEF e, d
<1>5. d.mode = "existing" \/ CreatedAccepted(d, e.part, tables[e.disk], ListedNumbers(e.disk))
  <2> SUFFICES ASSUME plan[i].mode # "existing"
               PROVE  CreatedAccepted(plan[i], plan[i].parts[j], tables[i], ListedNumbers(i))
    BY <1>4
  <2>1. PICK tail \in Tails : tables[i] = SfdiskTable(plan[i], tail) /\ TableFits(plan[i], tables[i])
    BY <1>1 DEF LayoutInv, RebuiltInv, IsRebuilt
  <2>2. IsCarriedOut(plan[i], tail)
    BY <1>1, DiskAt
  <2>3. j = 1 \/ j - 1 \in ListedNumbers(i)
    BY <1>1, OneBeforeIsListed
  <2> QED
    BY <2>1, <2>2, <2>3, Zenon DEF IsCarriedOut
<1>6. at' = at + 1 /\ UNCHANGED stage
  BY <1>5, Zenon DEF VerifyPartition, e, d
<1>7. at' \in Nat \ {0}
  BY <1>6 DEF LayoutInv, StateInv
<1> QED
  BY <1>1, <1>6, <1>7
     DEF LayoutInv, StateInv, ShapeInv, ListInv, StartsWithRoot, FormatsWhatItMust, RebuiltInv, IsRebuilt, ValidatedPlanIsBuilt

LEMMA AllVerifiedKeeps ==
    ASSUME LayoutInv, AllVerified
    PROVE  LayoutInv'
<1>1. stage = "verify" /\ stage' = "done" /\ UNCHANGED <<memory, plan, listed, at, tables>>
  BY DEF AllVerified
<1> QED
  BY <1>1 DEF LayoutInv, StateInv, ShapeInv, ListInv, StartsWithRoot, FormatsWhatItMust, RebuiltInv, ValidatedPlanIsBuilt

LEMMA StepLayout == LayoutInv /\ [Next]_vars => LayoutInv'
<1> SUFFICES ASSUME LayoutInv, [Next]_vars PROVE LayoutInv'
  OBVIOUS
<1>1. CASE PlanGuided
  BY <1>1, PlanGuidedKeeps
<1>2. CASE PlanExisting
  BY <1>2, PlanExistingKeeps
<1>3. CASE AssignData
  BY <1>3, AssignDataKeeps
<1>4. CASE EditPlanFile
  BY <1>4, EditPlanFileKeeps
<1>5. CASE Generate
  BY <1>5, GenerateKeeps
<1>6. CASE SkipExisting
  BY <1>6, SkipExistingKeeps
<1>7. CASE RejectLayout
  BY <1>7, RejectLayoutKeeps
<1>8. CASE \E tail \in Tails : Rebuild(tail)
  BY <1>8, RebuildKeeps
<1>9. CASE AllRebuilt
  BY <1>9, AllRebuiltKeeps
<1>10. CASE VerifyPartition
  BY <1>10, VerifyPartitionKeeps
<1>11. CASE AllVerified
  BY <1>11, AllVerifiedKeeps
<1>12. CASE UNCHANGED vars
  <2>1. UNCHANGED <<stage, memory, plan, listed, at, tables>>
    BY <1>12 DEF vars
  <2> QED
    BY <2>1 DEF LayoutInv, StateInv, ShapeInv, ListInv, StartsWithRoot, FormatsWhatItMust, RebuiltInv, IsRebuilt, ValidatedPlanIsBuilt
<1> QED
  BY <1>1, <1>2, <1>3, <1>4, <1>5, <1>6, <1>7, <1>8, <1>9, <1>10, <1>11, <1>12 DEF Next

(* The invariant holds of every plan and of everything the script does with  *)
(* it.                                                                      *)
THEOREM LayoutsAreAsComputed == Spec => []LayoutInv
BY InitLayout, StepLayout, PTL DEF Spec

LEMMA TypeFromLayout == LayoutInv => TypeOK
<1> SUFFICES ASSUME LayoutInv PROVE TypeOK
  OBVIOUS
<1> DEFINE Lists(e) == /\ e.disk \in DOMAIN plan /\ e.index \in DOMAIN plan[e.disk].parts
                       /\ e.part \in PlannedPartition
<1>1. \A k \in DOMAIN listed : Lists(listed[k])
  <2>1. CASE stage = "plan"
    BY <2>1 DEF LayoutInv, ListInv, StartsWithRoot, FormatsWhatItMust
  <2>2. CASE stage # "plan"
    <3>1. IsListOf(listed, plan)
      BY <2>2 DEF LayoutInv, ListInv, StartsWithRoot, FormatsWhatItMust
    <3> SUFFICES ASSUME NEW k \in DOMAIN listed PROVE Lists(listed[k])
      OBVIOUS
    <3>0. PICK i \in DOMAIN plan : \E j \in DOMAIN plan[i].parts : listed[k] = RecordOf(plan, i, j)
      BY <3>1 DEF IsListOf
    <3>2. PICK j \in DOMAIN plan[i].parts : listed[k] = RecordOf(plan, i, j)
      BY <3>0
    <3>3. plan[i] \in DiskPlan
      BY PlanOf DEF LayoutInv
    <3>4. plan[i].parts[j] \in PlannedPartition
      BY <3>3, Parts
    <3> QED
      BY <3>2, <3>4 DEF RecordOf
  <2> QED
    BY <2>1, <2>2
<1>2. tables \in [DOMAIN plan -> Seq([start : Nat, size : Nat])]
  <2>1. DOMAIN plan = 1 .. Len(plan) /\ Len(tables) = Len(plan) /\ tables \in Seq(Table)
    BY PlanOf DEF LayoutInv, StateInv
  <2>2. tables \in [1 .. Len(tables) -> Table]
    BY <2>1, LenProperties
  <2> QED
    BY <2>1, <2>2 DEF Table
<1> QED
  BY <1>1, <1>2 DEF LayoutInv, StateInv, TypeOK

LEMMA OrderFromLayout == LayoutInv => ListedInMountOrder
<1> SUFFICES ASSUME LayoutInv PROVE ListedInMountOrder
  OBVIOUS
<1>1. CASE stage = "plan"
  BY <1>1 DEF LayoutInv, ListInv, ListedInMountOrder, InMountOrder, StartsWithRoot,
              FormatsWhatItMust
<1>2. CASE stage # "plan"
  <2>1. InOrder(listed) /\ StartsWithRoot /\ FormatsWhatItMust
    BY <1>2 DEF LayoutInv, ListInv, IsListOf
  <2>2. InMountOrder
    BY <2>1 DEF InOrder, Precedes, Earlier, InMountOrder
  <2> QED
    BY <2>1, <2>2 DEF ListedInMountOrder
<1> QED
  BY <1>1, <1>2

(* The plan, the list of the script and the tables have the types the       *)
(* builder and the script give them.                                        *)
THEOREM LayoutTypeCorrect == Spec => []TypeOK
BY LayoutsAreAsComputed, TypeFromLayout, PTL

(* collect_actionable_partitions lists the partitions of every plan in the   *)
(* order they are mounted: root first, swap after the directories, those     *)
(* without a purpose last, and those that tie in the order of the plan; and  *)
(* of every plan that validate_plan accepts, in the shape the installer      *)
(* modules assume: one root, at the start, and nothing kept that has to be   *)
(* formatted.                                                                *)
THEOREM ListIsInMountOrder == Spec => []ListedInMountOrder
BY LayoutsAreAsComputed, OrderFromLayout, PTL

(* On disks of any size, with any memory and any edit of the plan file, what *)
(* validate_plan accepts the script carries out, but for the root-only disk  *)
(* of exactly 9 GiB and a data disk without room for the partition tables.   *)
THEOREM AcceptedPlansAreBuilt == Spec => []ValidatedPlanIsBuilt
<1>1. LayoutInv => ValidatedPlanIsBuilt
  BY DEF LayoutInv
<1> QED
  BY <1>1, LayoutsAreAsComputed, PTL
=============================================================================
