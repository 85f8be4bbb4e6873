-------------------------- MODULE ResourcesProofs --------------------------
(***************************************************************************)
(* Proofs about Resources, for every set of devices and times and every    *)
(* size of batch, limits and interval.                                     *)
(***************************************************************************)
EXTENDS Resources, FiniteSetTheorems, TLAPS

(* Every id is given once, so a table is finite.                           *)
LEMMA FiniteTable ==
    ASSUME NEW table \in SUBSET Row, \A r, s \in table : r.id = s.id => r = s
    PROVE  IsFiniteSet(table)
  <1> DEFINE idOf == [r \in table |-> r.id]
  <1>1. idOf \in Injection(table, 1..MaxId)
    BY DEF Row, Injection, IsInjective
  <1>2. IsFiniteSet(1..MaxId)
    BY FS_Interval, SizeAssumption
  <1> QED
    BY <1>1, <1>2, FS_Injection

(* The new rows of a cycle: typed, with ids of their own.                  *)
LEMMA RecordsType ==
    ASSUME TypeOK, NEW d \in Devices, NEW n \in Nat, NEW svrs \in [1..n -> Times],
           lastId + n <= MaxId
    PROVE  /\ Records(d, svrs) \subseteq Row
           /\ \A r \in Records(d, svrs) : r.id > lastId /\ r.id <= lastId + n
           /\ \A r, s \in Records(d, svrs) : r.id = s.id => r = s
  BY SizeAssumption DEF Records, Row, TypeOK

(* Typing, and that no id is given twice although rows are removed, cycles *)
(* fail and the process restarts (TypeOK of Resources).                    *)
THEOREM TypeCorrect == Spec => []TypeOK
  <1>1. Init => TypeOK
    BY SizeAssumption DEF Init, TypeOK
  <1>2. ASSUME TypeOK, [Next]_vars PROVE TypeOK'
    <2> USE SizeAssumption
    <2>1. ASSUME NEW d \in Devices, Insert(d) PROVE TypeOK'
      <3>1. PICK n \in 1..Batch : \E svrs \in [1..n -> Times] :
                /\ IdAfter(n) <= MaxId
                /\ rows' = rows \cup Records(d, svrs)
                /\ lastId' = IdAfter(n)
        BY <2>1 DEF Insert
      <3>2. PICK svrs \in [1..n -> Times] :
                /\ lastId + n <= MaxId
                /\ rows' = rows \cup Records(d, svrs)
                /\ lastId' = lastId + n
        BY <3>1 DEF IdAfter
      <3>3. n \in Nat
        OBVIOUS
      <3>4. /\ Records(d, svrs) \subseteq Row
            /\ \A r \in Records(d, svrs) : r.id > lastId /\ r.id <= lastId + n
            /\ \A r, s \in Records(d, svrs) : r.id = s.id => r = s
        BY <1>2, <3>2, <3>3, RecordsType
      <3>5. rows' \subseteq Row
        BY <1>2, <3>2, <3>4 DEF TypeOK
      <3>6. lastId' \in 0..MaxId /\ \A r \in rows' : r.id <= lastId'
        BY <1>2, <3>2, <3>4, <3>5 DEF TypeOK, Row
      <3>7. \A r, s \in rows' : r.id = s.id => r = s
        BY <1>2, <3>2, <3>4, <3>5 DEF TypeOK, Row
      <3> QED
        BY <1>2, <2>1, <3>5, <3>6, <3>7 DEF TypeOK, Insert
    <2>2. ASSUME NEW d \in Devices, Cleanup(d) PROVE TypeOK'
      <3>1. rows' \subseteq rows
        BY <2>2 DEF Cleanup, Trimmed
      <3> QED
        BY <1>2, <2>2, <3>1 DEF TypeOK, Cleanup
    <2>3. ASSUME NEW d \in Devices, Sleep(d) PROVE TypeOK'
      BY <1>2, <2>3 DEF TypeOK, Sleep
    <2>4. ASSUME NEW d \in Devices,
                 CycleFails(d) \/ NotDue(d) \/ CleanupFails(d) \/ Restart(d)
          PROVE  TypeOK'
      BY <1>2, <2>4 DEF TypeOK, CycleFails, NotDue, CleanupFails, Restart
    <2>5. CASE Crash
      BY <1>2, <2>5 DEF TypeOK, Crash
    <2>6. CASE UNCHANGED vars
      BY <1>2, <2>6 DEF TypeOK, vars
    <2> QED
      BY <1>2, <2>1, <2>2, <2>3, <2>4, <2>5, <2>6 DEF Next, Cycle
  <1> QED
    BY <1>1, <1>2, PTL DEF Spec

----------------------------------------------------------------------------
(* The order of rows *)

LEMMA RowNumbers ==
    ASSUME NEW r \in Row
    PROVE  r.id \in Nat /\ r.svr \in Nat
  <1>1. r.id \in 1..MaxId /\ r.svr \in Times
    BY DEF Row
  <1>2. MaxId \in Nat /\ Times \subseteq Nat
    BY SizeAssumption
  <1>3. r.id \in Nat
    BY <1>1, <1>2
  <1>4. r.svr \in Nat
    BY <1>1, <1>2
  <1> QED
    BY <1>3, <1>4

(* In a set of rows with ids of their own the order is total.              *)
LEMMA OrderIsTotal ==
    ASSUME NEW r \in Row, NEW s \in Row, NEW t \in Row,
           r.id = s.id => r = s
    PROVE  /\ ~Precedes(r, r)
           /\ r = s \/ Precedes(r, s) \/ Precedes(s, r)
           /\ Precedes(r, s) /\ Precedes(s, t) => Precedes(r, t)
  BY RowNumbers DEF Precedes

(* The rank falls along the order.                                         *)
LEMMA RankFalls ==
    ASSUME NEW table \in SUBSET Row, IsFiniteSet(table),
           NEW r \in table, NEW s \in Ahead(table, r)
    PROVE  /\ Rank(table, s) \in Nat /\ Rank(table, r) \in Nat
           /\ Rank(table, s) < Rank(table, r)
  <1>1. Ahead(table, s) \subseteq Ahead(table, r)
    <2> SUFFICES ASSUME NEW t \in Ahead(table, s) PROVE t \in Ahead(table, r)
      OBVIOUS
    <2>1. /\ t \in Row /\ s \in Row /\ r \in Row
          /\ t \in table /\ t.device = r.device
          /\ Precedes(t, s) /\ Precedes(s, r)
      BY DEF Ahead, Of
    <2>2. Precedes(t, r)
      BY <2>1, RowNumbers DEF Precedes
    <2> QED
      BY <2>1, <2>2 DEF Ahead, Of
  <1>2. s \notin Ahead(table, s)
    BY RowNumbers DEF Ahead, Of, Precedes
  <1>3. IsFiniteSet(Ahead(table, r)) /\ IsFiniteSet(Ahead(table, s))
    BY FS_Subset DEF Ahead, Of
  <1>4. /\ Cardinality(Ahead(table, s)) <= Cardinality(Ahead(table, r))
        /\ Cardinality(Ahead(table, s)) # Cardinality(Ahead(table, r))
    BY <1>1, <1>2, <1>3, FS_Subset
  <1>5. Cardinality(Ahead(table, s)) \in Nat /\ Cardinality(Ahead(table, r)) \in Nat
    BY <1>3, FS_CardinalityType
  <1> QED
    BY <1>4, <1>5 DEF Rank

LEMMA RankType ==
    ASSUME NEW table, IsFiniteSet(table), NEW r
    PROVE  Rank(table, r) \in Nat
  <1>1. Ahead(table, r) \in SUBSET table
    BY DEF Ahead, Of
  <1> QED
    BY <1>1, FS_Subset, FS_CardinalityType DEF Rank

(* A row that stays keeps the rows before it, and so its rank.             *)
LEMMA TrimmedKeepsRank ==
    ASSUME NEW table \in SUBSET Row, IsFiniteSet(table), NEW d \in Devices,
           NEW r \in Trimmed(table, d)
    PROVE  Rank(Trimmed(table, d), r) = Rank(table, r)
  <1>1. r \in table
    BY DEF Trimmed
  <1>2. ASSUME NEW s \in Ahead(table, r) PROVE s \in Trimmed(table, d)
    <2>1. Rank(table, s) < Rank(table, r) /\ Rank(table, s) \in Nat /\ Rank(table, r) \in Nat
      BY <1>1, <1>2, RankFalls
    <2>2. s \in table /\ s.device = r.device
      BY <1>2 DEF Ahead, Of
    <2> QED
      BY <2>1, <2>2, SizeAssumption DEF Trimmed
  <1>3. Ahead(Trimmed(table, d), r) = Ahead(table, r)
    BY <1>2 DEF Ahead, Of, Trimmed
  <1> QED
    BY <1>3 DEF Rank

(* The cleanup of device d, read through getLatest for device e            *)
LEMMA TrimmedKeepsLatest ==
    ASSUME NEW table \in SUBSET Row, IsFiniteSet(table), NEW d \in Devices, NEW e \in Devices
    PROVE  Latest(Trimmed(table, d), e) = Latest(table, e)
  <1>1. ASSUME NEW r \in Latest(table, e) PROVE r \in Trimmed(table, d)
    <2>1. r \in table /\ Rank(table, r) < LatestLimit
      BY <1>1 DEF Latest, Of
    <2>2. Rank(table, r) < MaxRows
      BY <2>1, RankType, SizeAssumption, LimitAssumption
    <2> QED
      BY <2>1, <2>2 DEF Trimmed
  <1>2. \A r \in Trimmed(table, d) : Rank(Trimmed(table, d), r) = Rank(table, r)
    BY TrimmedKeepsRank
  <1>3. Trimmed(table, d) \subseteq table
    BY DEF Trimmed
  <1> QED
    BY <1>1, <1>2, <1>3 DEF Latest, Of

(* What a reader gets is never changed by a cleanup, as long as no more    *)
(* rows are read than are kept (CleanupIsInvisible of Resources).          *)
THEOREM CleanupsAreInvisible == Spec => CleanupIsInvisible
  <1>1. ASSUME TypeOK, [Next]_vars
        PROVE  \A d \in Devices : rows \subseteq rows' \/ Latest(rows', d) = Latest(rows, d)
    <2>1. ASSUME NEW d \in Devices, Cleanup(d), NEW e \in Devices
          PROVE  Latest(rows', e) = Latest(rows, e)
      <3>1. IsFiniteSet(rows) /\ rows \in SUBSET Row
        BY <1>1, FiniteTable DEF TypeOK
      <3> QED
        BY <2>1, <3>1, TrimmedKeepsLatest DEF Cleanup
    <2>2. ASSUME NEW d \in Devices, Cycle(d), ~Cleanup(d) PROVE rows \subseteq rows'
      BY <2>2 DEF Cycle, Insert, CycleFails, NotDue, CleanupFails, Sleep, Restart
    <2>3. CASE Crash
      BY <2>3 DEF Crash
    <2>4. CASE UNCHANGED vars
      BY <2>4 DEF vars
    <2> QED
      BY <1>1, <2>1, <2>2, <2>3, <2>4 DEF Next
  <1>2. TypeOK /\ [Next]_vars
            => [\A d \in Devices : rows \subseteq rows' \/ Latest(rows', d) = Latest(rows, d)]_vars
    BY <1>1
  <1> QED
    BY <1>2, TypeCorrect, PTL DEF Spec, CleanupIsInvisible

----------------------------------------------------------------------------
(* Counting *)

Table(table) ==
    /\ table \subseteq Row
    /\ IsFiniteSet(table)
    /\ \A r, s \in table : r.id = s.id => r = s

LEMMA RowsAreATable ==
    ASSUME TypeOK
    PROVE  Table(rows)
  BY FiniteTable DEF TypeOK, Table

(* The rows of a device have the ranks 0, 1, ... without repetition.       *)
LEMMA RanksAreNumbers ==
    ASSUME NEW table, Table(table), NEW d \in Devices
    PROVE  LET rankOf == [r \in Of(table, d) |-> Rank(table, r)]
               count == Cardinality(Of(table, d))
           IN  /\ count \in Nat
               /\ rankOf \in Injection(Of(table, d), 0..(count - 1))
               /\ rankOf \in Surjection(Of(table, d), 0..(count - 1))
  <1> DEFINE mine == Of(table, d)
             count == Cardinality(mine)
             rankOf == [r \in mine |-> Rank(table, r)]
  <1>1. IsFiniteSet(mine) /\ count \in Nat
    BY FS_Subset, FS_CardinalityType DEF Of, Table
  <1>2. ASSUME NEW r \in mine PROVE Rank(table, r) \in 0..(count - 1)
    <2>1. Ahead(table, r) \subseteq mine /\ r \notin Ahead(table, r)
      BY RowNumbers DEF Ahead, Of, Precedes, Table
    <2>2. Cardinality(Ahead(table, r)) <= count /\ Cardinality(Ahead(table, r)) # count
      BY <1>1, <2>1, FS_Subset
    <2>3. Rank(table, r) \in Nat
      BY RankType DEF Table
    <2> QED
      BY <1>1, <2>2, <2>3 DEF Rank
  <1>3. ASSUME NEW r \in mine, NEW s \in mine, Rank(table, r) = Rank(table, s) PROVE r = s
    <2>1. r \in Row /\ s \in Row /\ (r.id = s.id => r = s) /\ r.device = s.device
      BY DEF Of, Table
    <2>2. r \in table /\ s \in table
      BY DEF Of
    <2>3. Precedes(r, s) => r \in Ahead(table, s)
      BY <2>1, <2>2 DEF Ahead, Of
    <2>4. Precedes(s, r) => s \in Ahead(table, r)
      BY <2>1, <2>2 DEF Ahead, Of
    <2>5. ~Precedes(r, s)
      BY <1>3, <2>2, <2>3, RankFalls DEF Table
    <2>6. ~Precedes(s, r)
      BY <1>3, <2>2, <2>4, RankFalls DEF Table
    <2> QED
      BY <2>1, <2>5, <2>6, OrderIsTotal
  <1>4. rankOf \in Injection(mine, 0..(count - 1))
    BY <1>2, <1>3 DEF Injection, IsInjective
  <1>5. IsFiniteSet(0..(count - 1)) /\ Cardinality(0..(count - 1)) = count
    BY <1>1, FS_Interval
  <1>6. rankOf \in Surjection(mine, 0..(count - 1))
    BY <1>4, <1>5, FS_Injection
  <1> QED
    BY <1>1, <1>4, <1>6

(* The rows that a cleanup of their device keeps                           *)
Kept(table, d) == {r \in Of(table, d) : Rank(table, r) < MaxRows}

(* They are MaxRows when there are more, and never more than that.         *)
LEMMA KeptCount ==
    ASSUME NEW table, Table(table), NEW d \in Devices
    PROVE  /\ Cardinality(Kept(table, d)) \in Nat
           /\ Cardinality(Kept(table, d)) <= MaxRows
           /\ (\E x \in Of(table, d) : Rank(table, x) >= MaxRows)
                  => Cardinality(Kept(table, d)) = MaxRows
  <1> DEFINE kept == Kept(table, d)
             count == Cardinality(Of(table, d))
             rankOf == [r \in kept |-> Rank(table, r)]
  <1>1. MaxRows \in Nat
    BY SizeAssumption
  <1>2. kept \subseteq Of(table, d) /\ kept \in SUBSET table
    BY DEF Kept, Of
  <1>3. count \in Nat
    BY RanksAreNumbers
  <1>4. \A r \in Of(table, d) : Rank(table, r) \in 0..(count - 1)
    BY RanksAreNumbers DEF Injection
  <1>5. \A r, s \in Of(table, d) : Rank(table, r) = Rank(table, s) => r = s
    BY RanksAreNumbers DEF Injection, IsInjective
  <1>6. \A k \in 0..(count - 1) : \E r \in Of(table, d) : Rank(table, r) = k
    BY RanksAreNumbers DEF Surjection
  <1>7. rankOf \in Injection(kept, 0..(MaxRows - 1))
    <2>1. \A r \in kept : Rank(table, r) \in 0..(MaxRows - 1)
      BY <1>1, <1>2, <1>3, <1>4 DEF Kept
    <2> QED
      BY <1>2, <1>5, <2>1 DEF Injection, IsInjective
  <1>8. IsFiniteSet(0..(MaxRows - 1)) /\ Cardinality(0..(MaxRows - 1)) = MaxRows
    BY <1>1, FS_Interval
  <1>9. ASSUME NEW x \in Of(table, d), Rank(table, x) >= MaxRows
        PROVE  rankOf \in Surjection(kept, 0..(MaxRows - 1))
    <2>1. ASSUME NEW k \in 0..(MaxRows - 1) PROVE \E r \in kept : Rank(table, r) = k
      <3>1. k \in 0..(count - 1) /\ k < MaxRows
        BY <1>1, <1>3, <1>4, <1>9
      <3>2. PICK r \in Of(table, d) : Rank(table, r) = k
        BY <1>6, <3>1
      <3> QED
        BY <3>1, <3>2 DEF Kept
    <2>2. rankOf \in [kept -> 0..(MaxRows - 1)]
      BY <1>7 DEF Injection
    <2> QED
      BY <2>1, <2>2 DEF Surjection
  <1>10. IsFiniteSet(kept) /\ Cardinality(kept) \in Nat
    BY <1>2, FS_Subset, FS_CardinalityType DEF Table
  <1> QED
    BY <1>7, <1>8, <1>9, <1>10, FS_Injection

(* Only a cleanup removes rows; it leaves every other device's as they are *)
(* and removes a row of its own device only for MaxRows newer ones that    *)
(* stay (KeepsNewest of Resources).                                        *)
THEOREM CleanupKeepsNewest == Spec => KeepsNewest
  <1> DEFINE Newer(r) == {s \in rows' : s \in Ahead(rows, r)}
  <1>1. ASSUME TypeOK, NEW d \in Devices, Cleanup(d), NEW r \in rows \ rows'
        PROVE  Cardinality(Newer(r)) = MaxRows
    <2>1. Table(rows)
      BY <1>1, RowsAreATable
    <2>2. rows' = {s \in rows : s.device = d => Rank(rows, s) < MaxRows}
      BY <1>1 DEF Cleanup, Trimmed
    <2>3. r \in Of(rows, d) /\ ~(Rank(rows, r) < MaxRows)
      BY <2>2 DEF Of
    <2>4. \A s \in rows : Rank(rows, s) \in Nat
      BY <2>1, RankType DEF Table
    <2>5. ASSUME NEW s \in Kept(rows, d) PROVE s \in Newer(r)
      <3>1. s \in rows /\ s.device = d /\ Rank(rows, s) < MaxRows
        BY DEF Kept, Of
      <3>2. r \in rows /\ r.device = d
        BY <2>3 DEF Of
      <3>3. ~Precedes(r, s)
        <4>1. SUFFICES ASSUME Precedes(r, s) PROVE FALSE
          OBVIOUS
        <4>2. r \in Ahead(rows, s)
          BY <3>1, <3>2, <4>1 DEF Ahead, Of
        <4>3. Rank(rows, r) < Rank(rows, s)
          BY <2>1, <3>1, <3>2, <4>2, RankFalls DEF Table
        <4> QED
          BY <2>3, <2>4, <3>1, <3>2, <4>3, SizeAssumption
      <3>4. r # s
        BY <2>3, <3>1
      <3>5. Precedes(s, r)
        BY <2>1, <3>1, <3>2, <3>3, <3>4, OrderIsTotal DEF Table
      <3> QED
        BY <2>2, <3>1, <3>2, <3>5 DEF Ahead, Of
    <2>6. ASSUME NEW s \in Newer(r) PROVE s \in Kept(rows, d)
      BY <2>2, <2>3 DEF Kept, Ahead, Of
    <2>7. Newer(r) = Kept(rows, d)
      BY <2>5, <2>6
    <2>8. Rank(rows, r) >= MaxRows
      BY <2>3, <2>4, SizeAssumption DEF Of
    <2> QED
      BY <2>1, <2>3, <2>7, <2>8, KeptCount
  <1>2. ASSUME TypeOK, NEW d \in Devices, Cleanup(d) PROVE Removes(d)
    <2>1. stage[d] = "stored" /\ stage' = [stage EXCEPT ![d] = "done"]
      BY <1>2 DEF Cleanup
    <2>2. rows' = rows \/ rows' = {s \in rows : s.device = d => Rank(rows, s) < MaxRows}
      BY <1>2 DEF Cleanup, Trimmed
    <2>3. \A e \in Devices \ {d} : Of(rows', e) = Of(rows, e)
      BY <2>2 DEF Of
    <2>4. \A r \in Of(rows, d) \ rows' : Cardinality(Newer(r)) = MaxRows
      BY <1>1, <1>2 DEF Of
    <2> QED
      BY <2>1, <2>2, <2>3, <2>4 DEF Removes
  <1>3. ASSUME TypeOK, [Next]_vars
        PROVE  rows \subseteq rows' \/ \E d \in Devices : Removes(d)
    <2>1. ASSUME NEW d \in Devices, Cycle(d), ~Cleanup(d) PROVE rows \subseteq rows'
      BY <2>1 DEF Cycle, Insert, CycleFails, NotDue, CleanupFails, Sleep, Restart
    <2>2. Crash \/ UNCHANGED vars => rows \subseteq rows'
      BY DEF Crash, vars
    <2> QED
      BY <1>2, <1>3, <2>1, <2>2 DEF Next
  <1>4. TypeOK /\ [Next]_vars
            => [rows \subseteq rows' \/ \E d \in Devices : Removes(d)]_vars
    BY <1>3
  <1> QED
    BY <1>4, TypeCorrect, PTL DEF Spec, KeepsNewest

----------------------------------------------------------------------------
(* Growth *)

(* How many cycles may have inserted records for device d since its last   *)
(* cleanup: in a unit of time one at most, in the cycle under way one more *)
(* than before it, and one for each cleanup that was missed.               *)
CyclesSince(d) ==
    missed[d] + (IF stage[d] = "stored" THEN elapsed[d]
                 ELSE IF stage[d] = "ready" THEN elapsed[d] - 1
                 ELSE IF elapsed[d] = Interval THEN Interval - 1 ELSE elapsed[d])

CyclesTakeTime == \A d \in Devices : stage[d] # "done" => elapsed[d] >= 1

RowsFitCycles ==
    \A d \in Devices : Cardinality(Of(rows, d)) <= MaxRows + Batch * CyclesSince(d)

GrowthInv == TypeOK /\ CyclesTakeTime /\ RowsFitCycles

LEMMA CyclesType ==
    ASSUME TypeOK, CyclesTakeTime, NEW d \in Devices
    PROVE  /\ CyclesSince(d) \in Nat
           /\ CyclesSince(d) <= Interval + missed[d]
  <1>1. elapsed[d] \in 0..Interval /\ missed[d] \in Nat /\ stage[d] \in {"ready", "stored", "done"}
    BY DEF TypeOK
  <1>2. Interval \in Nat /\ Interval >= 1
    BY SizeAssumption
  <1>3. stage[d] # "done" => elapsed[d] >= 1
    BY DEF CyclesTakeTime
  <1> QED
    BY <1>1, <1>2, <1>3 DEF CyclesSince

LEMMA MoreCyclesMoreRoom ==
    ASSUME NEW i \in Nat, NEW j \in Nat, i <= j
    PROVE  Batch * i \in Nat /\ Batch * j \in Nat /\ Batch * i <= Batch * j
  <1>1. Batch \in Nat
    BY SizeAssumption
  <1> QED
    BY <1>1

LEMMA RowCountType ==
    ASSUME NEW table \in SUBSET Row, \A r, s \in table : r.id = s.id => r = s, NEW d
    PROVE  IsFiniteSet(Of(table, d)) /\ Cardinality(Of(table, d)) \in Nat
  <1>1. Of(table, d) \in SUBSET table
    BY DEF Of
  <1> QED
    BY <1>1, FiniteTable, FS_Subset, FS_CardinalityType

(* A cycle adds at most Batch rows, all of its own device.                 *)
LEMMA InsertAdds ==
    ASSUME TypeOK, TypeOK', NEW d \in Devices, Insert(d), NEW e \in Devices
    PROVE  Cardinality(Of(rows', e))
               <= Cardinality(Of(rows, e)) + (IF e = d THEN Batch ELSE 0)
  <1>1. PICK n \in 1..Batch : \E svrs \in [1..n -> Times] : rows' = rows \cup Records(d, svrs)
    BY DEF Insert
  <1>2. PICK svrs \in [1..n -> Times] : rows' = rows \cup Records(d, svrs)
    BY <1>1
  <1> DEFINE new == Records(d, svrs)
             record == [i \in 1..n |-> [id |-> lastId + i, device |-> d, svr |-> svrs[i]]]
  <1>3. n \in Nat /\ n <= Batch /\ Batch \in Nat
    BY SizeAssumption
  <1>4. record \in Surjection(1..n, new)
    BY DEF Records, Surjection
  <1>5. IsFiniteSet(1..n) /\ Cardinality(1..n) = n
    BY <1>3, FS_Interval
  <1>6. IsFiniteSet(new) /\ Cardinality(new) <= n /\ Cardinality(new) \in Nat
    BY <1>4, <1>5, FS_Surjection, FS_CardinalityType
  <1>7. CASE e = d
    <2>1. Of(rows', e) = Of(rows, e) \cup new
      BY <1>2, <1>7 DEF Of, Records
    <2>2. /\ IsFiniteSet(Of(rows, e) \cap new)
          /\ Cardinality(Of(rows, e) \cap new) \in Nat
      BY <1>6, FS_Subset, FS_CardinalityType
    <2>3. Cardinality(Of(rows', e))
              = Cardinality(Of(rows, e)) + Cardinality(new) - Cardinality(Of(rows, e) \cap new)
      BY <1>6, <2>1, RowCountType, FS_Union DEF TypeOK
    <2>4. Cardinality(Of(rows, e)) \in Nat
      BY RowCountType DEF TypeOK
    <2> QED
      BY <1>3, <1>6, <1>7, <2>2, <2>3, <2>4
  <1>8. CASE e # d
    <2>1. Of(rows', e) = Of(rows, e)
      BY <1>2, <1>8 DEF Of, Records
    <2>2. Cardinality(Of(rows, e)) \in Nat
      BY RowCountType DEF TypeOK
    <2> QED
      BY <1>8, <2>1, <2>2
  <1> QED
    BY <1>7, <1>8

(* A step that adds no rows for a device and takes no cycle back keeps to  *)
(* what its cycles allow.                                                  *)
LEMMA StillFits ==
    ASSUME GrowthInv, TypeOK', CyclesTakeTime', NEW d \in Devices,
           Of(rows', d) = Of(rows, d), CyclesSince(d) <= CyclesSince(d)'
    PROVE  Cardinality(Of(rows', d)) <= MaxRows + Batch * CyclesSince(d)'
  <1>1. CyclesSince(d) \in Nat /\ CyclesSince(d)' \in Nat
    BY SizeAssumption DEF GrowthInv, TypeOK, CyclesTakeTime, CyclesSince
  <1>2. /\ Batch * CyclesSince(d) \in Nat /\ Batch * CyclesSince(d)' \in Nat
        /\ Batch * CyclesSince(d) <= Batch * CyclesSince(d)'
    BY <1>1, MoreCyclesMoreRoom
  <1>3. Cardinality(Of(rows, d)) <= MaxRows + Batch * CyclesSince(d)
    BY DEF GrowthInv, RowsFitCycles
  <1>4. Cardinality(Of(rows, d)) \in Nat
    BY RowCountType DEF GrowthInv, TypeOK
  <1> QED
    BY <1>2, <1>3, <1>4, SizeAssumption

(* The table keeps bounded while drivers, statements and the process fail  *)
(* (GrowthIsBounded of Resources).                                         *)
THEOREM GrowthBounded == Spec => []GrowthIsBounded
  <1>1. MaxRows # 0 /\ Init => GrowthInv
    <2> SUFFICES ASSUME Init PROVE GrowthInv
      OBVIOUS
    <2>1. TypeOK
      BY SizeAssumption DEF Init, TypeOK
    <2>2. CyclesTakeTime
      BY SizeAssumption DEF Init, CyclesTakeTime
    <2>3. ASSUME NEW d \in Devices
          PROVE  Cardinality(Of(rows, d)) <= MaxRows + Batch * CyclesSince(d)
      <3>1. Of(rows, d) = {}
        BY DEF Init, Of
      <3>2. Cardinality(Of(rows, d)) = 0
        BY <3>1, FS_EmptySet
      <3>3. Batch * CyclesSince(d) \in Nat
        BY <2>1, <2>2, CyclesType, MoreCyclesMoreRoom
      <3> QED
        BY <3>2, <3>3, SizeAssumption
    <2> QED
      BY <2>1, <2>2, <2>3 DEF GrowthInv, RowsFitCycles
  <1>2. ASSUME MaxRows # 0, GrowthInv, TypeOK', [Next]_vars PROVE GrowthInv'
    <2> USE <1>2 DEF GrowthInv
    <2>1. CyclesTakeTime'
      BY SizeAssumption DEF CyclesTakeTime, TypeOK, Next, Cycle, Insert, CycleFails, NotDue,
         Cleanup, CleanupFails, Sleep, Restart, Crash, vars
    <2>2. ASSUME NEW d \in Devices, Insert(d), NEW e \in Devices
          PROVE  Cardinality(Of(rows', e)) <= MaxRows + Batch * CyclesSince(e)'
      <3>1. CASE e = d
        <4>1. CyclesSince(e)' = CyclesSince(e) + 1
          BY <2>2, <3>1, SizeAssumption DEF Insert, CyclesSince, TypeOK
        <4>2. Batch * CyclesSince(e)' = Batch * CyclesSince(e) + Batch
          <5>1. CyclesSince(e) \in Nat /\ Batch \in Nat
            BY CyclesType, SizeAssumption
          <5> HIDE DEF CyclesSince
          <5> QED
            BY <4>1, <5>1
        <4>3. Cardinality(Of(rows', e)) <= Cardinality(Of(rows, e)) + Batch
          BY <2>2, <3>1, InsertAdds
        <4>4. Cardinality(Of(rows, e)) <= MaxRows + Batch * CyclesSince(e)
          BY DEF RowsFitCycles
        <4>5. Batch * CyclesSince(e) \in Nat
          BY CyclesType, MoreCyclesMoreRoom
        <4>6. Cardinality(Of(rows, e)) \in Nat /\ Cardinality(Of(rows', e)) \in Nat
          BY RowCountType DEF TypeOK
        <4> QED
          BY <4>2, <4>3, <4>4, <4>5, <4>6, SizeAssumption
      <3>2. CASE e # d
        <4>1. Of(rows', e) = Of(rows, e)
          BY <2>2, <3>2 DEF Insert, Of, Records
        <4>2. CyclesSince(e)' = CyclesSince(e)
          BY <2>2, <3>2 DEF Insert, CyclesSince, TypeOK
        <4> QED
          BY <2>1, <4>1, <4>2, CyclesType, StillFits
      <3> QED
        BY <3>1, <3>2
    <2>3. ASSUME NEW d \in Devices, Cleanup(d), NEW e \in Devices
          PROVE  Cardinality(Of(rows', e)) <= MaxRows + Batch * CyclesSince(e)'
      <3>1. rows' = {r \in rows : r.device = d => Rank(rows, r) < MaxRows}
        BY <2>3 DEF Cleanup, Trimmed
      <3>2. CASE e = d
        <4>1. Of(rows', e) = Kept(rows, e)
          BY <3>1, <3>2 DEF Of, Kept
        <4>2. Cardinality(Of(rows', e)) \in Nat /\ Cardinality(Of(rows', e)) <= MaxRows
          BY <4>1, KeptCount, RowsAreATable
        <4>3. Batch * CyclesSince(e)' \in Nat
          <5>1. CyclesSince(e)' \in Nat
            BY <2>1, SizeAssumption DEF TypeOK, CyclesTakeTime, CyclesSince
          <5> QED
            BY <5>1, MoreCyclesMoreRoom
        <4> QED
          BY <4>2, <4>3, SizeAssumption
      <3>3. CASE e # d
        <4>1. Of(rows', e) = Of(rows, e)
          BY <3>1, <3>3 DEF Of
        <4>2. CyclesSince(e)' = CyclesSince(e)
          BY <2>3, <3>3 DEF Cleanup, CyclesSince, TypeOK
        <4> QED
          BY <2>1, <4>1, <4>2, CyclesType, StillFits
      <3> QED
        BY <3>2, <3>3
    <2>4. ASSUME NEW d \in Devices, NEW e \in Devices,
                 CycleFails(d) \/ NotDue(d) \/ CleanupFails(d) \/ Sleep(d) \/ Restart(d)
          PROVE  Cardinality(Of(rows', e)) <= MaxRows + Batch * CyclesSince(e)'
      <3>1. rows' = rows
        BY <2>4 DEF CycleFails, NotDue, CleanupFails, Sleep, Restart
      <3>2. CyclesSince(e) <= CyclesSince(e)'
        BY <2>4, SizeAssumption
           DEF CyclesSince, CyclesTakeTime, TypeOK, Due, CycleFails, NotDue, CleanupFails,
               Sleep, Restart
      <3> QED
        BY <2>1, <3>1, <3>2, StillFits
    <2>5. ASSUME Crash \/ UNCHANGED vars, NEW e \in Devices
          PROVE  Cardinality(Of(rows', e)) <= MaxRows + Batch * CyclesSince(e)'
      <3>1. rows' = rows
        BY <2>5 DEF Crash, vars
      <3>2. CyclesSince(e) <= CyclesSince(e)'
        BY <2>5, SizeAssumption DEF CyclesSince, CyclesTakeTime, TypeOK, Due, Crash, vars
      <3> QED
        BY <2>1, <3>1, <3>2, StillFits
    <2> QED
      BY <2>1, <2>2, <2>3, <2>4, <2>5 DEF Next, Cycle, RowsFitCycles
  <1>3. GrowthInv => GrowthIsBounded
    <2> SUFFICES ASSUME GrowthInv, NEW d \in Devices
                 PROVE  Cardinality(Of(rows, d)) <= MaxRows + Batch * (Interval + missed[d])
      BY DEF GrowthIsBounded
    <2>1. Interval + missed[d] \in Nat
      BY SizeAssumption DEF GrowthInv, TypeOK
    <2>2. CyclesSince(d) \in Nat /\ CyclesSince(d) <= Interval + missed[d]
      BY CyclesType DEF GrowthInv
    <2>3. /\ Batch * CyclesSince(d) \in Nat /\ Batch * (Interval + missed[d]) \in Nat
          /\ Batch * CyclesSince(d) <= Batch * (Interval + missed[d])
      BY <2>1, <2>2, MoreCyclesMoreRoom
    <2>4. Cardinality(Of(rows, d)) \in Nat
      BY RowCountType DEF GrowthInv, TypeOK
    <2> QED
      BY <2>3, <2>4, SizeAssumption DEF GrowthInv, RowsFitCycles
  <1>4. CASE MaxRows # 0
    BY <1>1, <1>2, <1>3, <1>4, TypeCorrect, PTL DEF Spec
  <1>5. CASE MaxRows = 0
    <2>1. GrowthIsBounded
      BY <1>5 DEF GrowthIsBounded
    <2> QED
      BY <2>1, PTL
  <1> QED
    BY <1>4, <1>5
=============================================================================
