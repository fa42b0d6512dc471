-------------------------- MODULE AccountStoreProofs --------------------------
(***************************************************************************)
(* The safety of the Account Service's shared connection for any handlers, *)
(* events and queries and any number of failing commits and restarts.      *)
(*                                                                         *)
(* What the properties say of finished handlers is not inductive: StoreInv *)
(* adds what a handler knows before it audits (applied: its row is         *)
(* durable), that nothing is pending until a commit has failed, and that a *)
(* handler writes its audit row in its last step.  What the properties say *)
(* of answered queries rests on a handler inserting at most once: a row    *)
(* that was seen and has been rolled back does not come back.              *)
(***************************************************************************)
EXTENDS AccountStore, ListingProofs, FiniteSetTheorems, SequenceTheorems, TLAPS

\* The row of a handler that has applied its transaction is durable from the
\* moment it was inserted.
AppliedIsDurable == \A h \in Handlers : pc[h] \in {"applied", "201"} => Row("tx", h) \in durable

\* What a handler found was durable, as long as no commit has failed.
FoundIsDurable ==
    failed = 0 =>
        /\ pending = {}
        /\ \A h \in Handlers : pc[h] \in {"duplicate", "200"} => HasTx(durable, EventOf[h])

\* The audit row is the last thing a handler writes.
AuditedIsOver ==
    \A h \in Handlers, o \in Outcomes : Row(o, h) \in Visible => pc[h] \in Finished

\* A handler whose row has been seen, on the connection or by a query, does not
\* insert it again.
SeenIsPastInsert ==
    \A h \in Handlers :
        Row("tx", h) \in Visible \/ (\E q \in Queries : Row("tx", h) \in ToSet(listed[q]))
            => pc[h] \notin {"new", "inserting"}

\* What a query has read so far contains what had been answered 201 before, and
\* what has fallen out between its two readings is no longer there.
QueryOK(q) ==
    /\ query[q] # "new" => \A h \in settled[q] : Row("tx", h) \in ToSet(listed[q])
    /\ query[q] = "new" => ToSet(listed[q]) = {}
    /\ ToSet(listed[q]) \subseteq Transactions(Rows)
    /\ \A h \in settled[q] : Row("tx", h) \in durable
    /\ query[q] = "answered" =>
        /\ \A h \in settled[q] : Row("tx", h) \in ToSet(summed[q])
        /\ ToSet(listed[q]) \cap Visible \subseteq ToSet(summed[q])

QueriesOK == \A q \in Queries : QueryOK(q)

StoreInv ==
    /\ TypeOK
    /\ OneRowPerEvent
    /\ AppliedIsDurable
    /\ FoundIsDurable
    /\ AuditedIsOver
    /\ AuditFollowsData

ReadInv == SeenIsPastInsert /\ QueriesOK

USE StoreAssumption DEF Row, Rows, Outcomes, Finished

-----------------------------------------------------------------------------
(* The connection.                                                         *)

\* A row that is not there yet can be committed, or fail to be.
LEMMA WriteTypes ==
    ASSUME TypeOK, NEW row \in Rows, row \notin durable, Commit({row}) \/ CommitFails({row})
    PROVE  durable' \subseteq Rows /\ pending' \subseteq Rows \ durable' /\ failed' \in 0 .. MaxFailures
<1>1. CASE Commit({row})
  BY <1>1 DEF Commit, TypeOK
<1>2. CASE CommitFails({row})
  BY <1>2 DEF CommitFails, TypeOK
<1> QED
  BY <1>1, <1>2

\* Nothing durable is lost; nothing new is seen but the row that was written.
LEMMA WriteFrame ==
    ASSUME NEW row, Commit({row}) \/ CommitFails({row}) \/ Rollback
    PROVE  durable \subseteq durable' /\ Visible' \subseteq Visible \cup {row}
  BY DEF Commit, CommitFails, Rollback, Visible

LEMMA RowParts ==
    ASSUME NEW h \in Handlers, NEW g \in Handlers, NEW k, NEW l
    PROVE  /\ Row(k, h).kind = k /\ Row(k, h).by = h
           /\ Row(k, h) = Row(l, g) => k = l /\ h = g
<1>1. Row(k, h).kind = k /\ Row(k, h).by = h /\ Row(l, g).kind = l /\ Row(l, g).by = g
  OBVIOUS
<1> HIDE DEF Row
<1> QED
  BY <1>1

\* Seeing less, and no transaction but those seen before, keeps OneRowPerEvent.
LEMMA SeeingLess ==
    ASSUME OneRowPerEvent, NEW row, row.kind # "tx", Visible' \subseteq Visible \cup {row}
    PROVE  OneRowPerEvent'
  BY DEF OneRowPerEvent, Transactions

-----------------------------------------------------------------------------
(* apply_transaction.                                                      *)

LEMMA LookupKeepsInv ==
    ASSUME StoreInv, NEW h \in Handlers, UNCHANGED <<crashes, queryVars>>,
           Lookup(h) \/ Reread(h)
    PROVE  StoreInv'
<1> USE DEF Lookup, Reread, Goto, storeVars, queryVars, StoreInv
<1>1. TypeOK'
  BY DEF TypeOK
<1>2. OneRowPerEvent'
  BY DEF OneRowPerEvent, Visible, Transactions
<1>3. \A g \in Handlers \ {h} : pc'[g] = pc[g]
  BY DEF TypeOK
<1>4. AppliedIsDurable'
  BY <1>3 DEF AppliedIsDurable, TypeOK
<1>5. FoundIsDurable'
  <2> SUFFICES ASSUME failed = 0, NEW g \in Handlers, pc'[g] \in {"duplicate", "200"}
               PROVE  HasTx(durable, EventOf[g])
    BY DEF FoundIsDurable, HasTx, Transactions
  <2>1. Visible = durable
    BY DEF FoundIsDurable, Visible
  <2>2. CASE g = h
    BY <2>1, <2>2 DEF TypeOK
  <2>3. CASE g # h
    BY <1>3, <2>3 DEF FoundIsDurable
  <2> QED
    BY <2>2, <2>3
<1>6. AuditedIsOver'
  BY <1>3 DEF AuditedIsOver, Visible, TypeOK
<1>7. AuditFollowsData'
  BY DEF AuditFollowsData, Visible
<1> QED
  BY <1>1, <1>2, <1>4, <1>5, <1>6, <1>7

\* The one step that adds a transaction: no visible row has its event, so that
\* its key is free among the pending rows as well.
LEMMA InsertKeepsInv ==
    ASSUME StoreInv, NEW h \in Handlers, UNCHANGED <<crashes, queryVars>>, Insert(h)
    PROVE  StoreInv'
<1> USE DEF Insert, Goto, queryVars, StoreInv
<1> DEFINE row == Row("tx", h)
<1>1. KeyFree(h) => row \in Rows /\ row \notin Visible
  BY RowParts DEF KeyFree, HasTx, Transactions
<1>2. CASE KeyFree(h)
  <2>1. Commit({row}) \/ CommitFails({row})
    BY <1>2
  <2>2. TypeOK'
    <3>1. durable' \subseteq Rows /\ pending' \subseteq Rows \ durable' /\ failed' \in 0 .. MaxFailures
      BY <1>1, <1>2, <2>1, WriteTypes DEF Visible
    <3> QED
      BY <3>1 DEF TypeOK
  <2>3. durable \subseteq durable' /\ Visible' \subseteq Visible \cup {row}
    BY <2>1, WriteFrame
  <2>4. OneRowPerEvent'
    <3>1. row.by = h
      BY RowParts
    <3> QED
      BY <1>2, <2>3, <3>1 DEF OneRowPerEvent, Transactions, KeyFree, HasTx
  <2>5. \A g \in Handlers \ {h} : pc'[g] = pc[g]
    BY DEF TypeOK
  <2>6. /\ pc'[h] = "applied" => row \in durable'
        /\ pc'[h] \in {"applied", "500"}
    BY <1>2, RowParts DEF TypeOK, Commit, KeyFree
  <2>7. AppliedIsDurable'
    BY <2>3, <2>5, <2>6 DEF AppliedIsDurable
  <2>8. FoundIsDurable'
    <3> SUFFICES ASSUME failed' = 0
                 PROVE  /\ pending' = {}
                        /\ \A g \in Handlers : pc'[g] \in {"duplicate", "200"} =>
                               HasTx(durable', EventOf[g])
      BY DEF FoundIsDurable, HasTx, Transactions
    <3>1. Commit({row}) /\ failed = 0
      BY <2>1 DEF CommitFails, Commit, TypeOK
    <3> QED
      BY <2>3, <2>5, <2>6, <3>1 DEF Commit, FoundIsDurable, HasTx, Transactions
  <2>9. AuditedIsOver'
    <3> SUFFICES ASSUME NEW g \in Handlers, NEW o \in Outcomes, Row(o, g) \in Visible'
                 PROVE  pc'[g] \in Finished
      BY DEF AuditedIsOver
    <3>1. Row(o, g) \in Visible
      BY <2>3, RowParts
    <3>2. pc[g] \in Finished /\ pc[h] \notin Finished
      BY <3>1 DEF AuditedIsOver
    <3> QED
      BY <2>5, <3>2
  <2>10. AuditFollowsData'
    BY <2>3, RowParts DEF AuditFollowsData
  <2> QED
    BY <2>2, <2>4, <2>7, <2>8, <2>9, <2>10
<1>3. CASE ~KeyFree(h)
  <2>1. Rollback /\ pc' = [pc EXCEPT ![h] = "rereading"]
    BY <1>3
  <2>2. Visible' \subseteq Visible /\ durable' = durable /\ failed' = failed /\ pending' = {}
    BY <2>1 DEF Rollback, Visible
  <2>3. TypeOK'
    BY <2>1, <2>2 DEF TypeOK
  <2>4. \A g \in Handlers \ {h} : pc'[g] = pc[g]
    BY <2>1 DEF TypeOK
  <2>5. pc'[h] = "rereading" /\ pc[h] = "inserting"
    BY <2>1 DEF TypeOK
  <2>6. OneRowPerEvent' /\ AuditFollowsData'
    BY <2>2 DEF OneRowPerEvent, AuditFollowsData, Transactions
  <2>7. AppliedIsDurable' /\ FoundIsDurable'
    BY <2>2, <2>4, <2>5 DEF AppliedIsDurable, FoundIsDurable, HasTx, Transactions
  <2>8. AuditedIsOver'
    BY <2>2, <2>4, <2>5 DEF AuditedIsOver
  <2> QED
    BY <2>3, <2>6, <2>7, <2>8
<1> QED
  BY <1>2, <1>3

LEMMA AuditKeepsInv ==
    ASSUME StoreInv, NEW h \in Handlers, UNCHANGED <<crashes, queryVars>>, Audit(h)
    PROVE  StoreInv'
<1> USE DEF queryVars, StoreInv
<1> DEFINE row == AuditRow(h)
<1>1. /\ row \in {Row("APPLIED", h), Row("DUPLICATE", h)}
      /\ row = Row("APPLIED", h) => pc[h] = "applied"
  BY RowParts DEF AuditRow
<1>2. row \in Rows /\ row.kind # "tx" /\ row \notin Visible
  <2>1. pc[h] \notin Finished
    BY DEF Audit
  <2>2. ASSUME NEW o \in Outcomes
        PROVE  Row(o, h) \in Rows /\ Row(o, h).kind # "tx" /\ Row(o, h) \notin Visible
    <3>1. Row(o, h) \in Rows /\ Row(o, h).kind # "tx"
      OBVIOUS
    <3>2. Row(o, h) \notin Visible
      BY <2>1, <2>2 DEF AuditedIsOver
    <3> QED
      BY <3>1, <3>2
  <2> HIDE DEF row
  <2> QED
    BY <1>1, <2>2
<1>3. Commit({row}) \/ CommitFails({row})
  BY DEF Audit
<1>4. durable \subseteq durable' /\ Visible' \subseteq Visible \cup {row}
  BY <1>3, WriteFrame
<1>5. \/ pc[h] = "applied" /\ pc' = [pc EXCEPT ![h] = "201"]
      \/ pc[h] = "duplicate" /\ pc' = [pc EXCEPT ![h] = "200"]
      \/ pc[h] = "vanished" /\ pc' = [pc EXCEPT ![h] = "500"]
  <2>1. /\ StatusAfter("applied") = "201"
        /\ StatusAfter("duplicate") = "200"
        /\ StatusAfter("vanished") = "500"
    BY DEF StatusAfter
  <2> QED
    BY <2>1 DEF Audit, Goto
<1>6. /\ \A g \in Handlers \ {h} : pc'[g] = pc[g]
      /\ \/ pc[h] = "applied" /\ pc'[h] = "201"
         \/ pc[h] = "duplicate" /\ pc'[h] = "200"
         \/ pc[h] = "vanished" /\ pc'[h] = "500"
  BY <1>5 DEF TypeOK
<1>7. TypeOK'
  <2>1. durable' \subseteq Rows /\ pending' \subseteq Rows \ durable' /\ failed' \in 0 .. MaxFailures
    BY <1>2, <1>3, WriteTypes DEF Visible
  <2> QED
    BY <1>5, <2>1 DEF TypeOK
<1>8. OneRowPerEvent'
  BY <1>2, <1>4, SeeingLess
<1>9. AppliedIsDurable'
  BY <1>4, <1>6 DEF AppliedIsDurable
<1>10. FoundIsDurable'
  <2> SUFFICES ASSUME failed' = 0
               PROVE  /\ pending' = {}
                      /\ \A g \in Handlers : pc'[g] \in {"duplicate", "200"} =>
                             HasTx(durable', EventOf[g])
    BY DEF FoundIsDurable, HasTx, Transactions
  <2>1. Commit({row}) /\ failed = 0
    BY <1>3 DEF CommitFails, Commit, TypeOK
  <2> QED
    BY <1>4, <1>6, <2>1 DEF Commit, FoundIsDurable, HasTx, Transactions
<1>11. AuditedIsOver'
  <2> SUFFICES ASSUME NEW g \in Handlers, NEW o \in Outcomes, Row(o, g) \in Visible'
               PROVE  pc'[g] \in Finished
    BY DEF AuditedIsOver
  <2>1. CASE g = h
    BY <1>6, <2>1
  <2>2. CASE g # h
    <3>1. Row(o, g) \in Visible
      BY <1>1, <1>4, <2>2, RowParts
    <3> QED
      BY <1>6, <2>2, <3>1 DEF AuditedIsOver
  <2> QED
    BY <2>1, <2>2
<1>12. AuditFollowsData'
  <2> SUFFICES ASSUME NEW g \in Handlers, Row("APPLIED", g) \in Visible'
               PROVE  Row("tx", g) \in durable'
    BY DEF AuditFollowsData
  <2>1. CASE Row("APPLIED", g) \in Visible
    BY <1>4, <2>1 DEF AuditFollowsData
  <2>2. CASE Row("APPLIED", g) = row
    <3>1. g = h /\ pc[h] = "applied"
      BY <1>1, <2>2, RowParts
    <3> QED
      BY <1>4, <3>1 DEF AppliedIsDurable
  <2> QED
    BY <1>4, <2>1, <2>2
<1> QED
  BY <1>7, <1>8, <1>9, <1>10, <1>11, <1>12

-----------------------------------------------------------------------------
(* Queries and restarts.                                                   *)

\* Only handlers have rows, so there are finitely many of them.
LEMMA TransactionsFinite ==
    ASSUME TypeOK
    PROVE  /\ Transactions(Visible) \subseteq Rows
           /\ IsFiniteSet(Transactions(Visible))
<1> DEFINE RowOf == [h \in Handlers |-> Row("tx", h)]
           T == {RowOf[h] : h \in Handlers}
<1>1. RowOf \in Surjection(Handlers, T)
  BY DEF Surjection
<1>2. IsFiniteSet(T)
  BY <1>1, FS_Surjection
<1>3. Transactions(Visible) \subseteq T /\ Transactions(Visible) \subseteq Rows
  BY DEF Transactions, Visible, TypeOK
<1> QED
  BY <1>2, <1>3, FS_Subset

\* A listing has every transaction that its SELECT sees, and nothing else.
LEMMA ListingComplete ==
    ASSUME TypeOK, NEW s \in Listings
    PROVE  s \in Seq(Rows) /\ ToSet(s) = Transactions(Visible)
<1> DEFINE T == Transactions(Visible)
           D == 1 .. Cardinality(T)
<1>1. IsFiniteSet(T) /\ T \subseteq Rows /\ Cardinality(T) \in Nat
  BY TransactionsFinite, FS_CardinalityType
<1>2. s \in [D -> T] /\ \A i, j \in D : i # j => s[i] # s[j]
  BY DEF Listings, ListingsOf, SetToSeqs
<1>3. s \in Injection(D, T)
  BY <1>2 DEF Injection, IsInjective
<1>4. Cardinality(D) = Cardinality(T)
  BY <1>1, FS_Interval
<1>5. s \in Surjection(D, T)
  BY <1>1, <1>3, <1>4, FS_Injection
<1>6. ToSet(s) = T
  BY <1>2, <1>5 DEF Surjection, ToSet
<1>7. s \in Seq(Rows)
  <2>1. s \in [D -> Rows]
    BY <1>1, <1>2
  <2> HIDE DEF Rows, T
  <2> QED
    BY <1>1, <2>1
<1> QED
  BY <1>6, <1>7

LEMMA QueryKeepsInv ==
    ASSUME StoreInv, NEW q \in Queries, ListTransactions(q) \/ SumBalance(q)
    PROVE  StoreInv'
<1>1. UNCHANGED <<storeVars, crashes, pc>>
  BY DEF ListTransactions, SumBalance
<1>2. TypeOK'
  <2>1. CASE ListTransactions(q)
    <3>1. PICK s \in Listings : listed' = [listed EXCEPT ![q] = s]
      BY <2>1 DEF ListTransactions
    <3>2. s \in Seq(Rows)
      BY <3>1, ListingComplete DEF StoreInv
    <3> QED
      BY <1>1, <2>1, <3>1, <3>2 DEF ListTransactions, StoreInv, TypeOK, storeVars
  <2>2. CASE SumBalance(q)
    <3>1. PICK s \in Listings : summed' = [summed EXCEPT ![q] = s]
      BY <2>2 DEF SumBalance
    <3>2. s \in Seq(Rows)
      BY <3>1, ListingComplete DEF StoreInv
    <3> QED
      BY <1>1, <2>2, <3>1, <3>2 DEF SumBalance, StoreInv, TypeOK, storeVars
  <2> QED
    BY <2>1, <2>2
<1> QED
  BY <1>1, <1>2 DEF StoreInv, storeVars, OneRowPerEvent, AppliedIsDurable, FoundIsDurable,
     AuditedIsOver, AuditFollowsData, Visible, Transactions, HasTx

LEMMA RestartKeepsInv ==
    ASSUME StoreInv, Restart
    PROVE  StoreInv'
<1> USE DEF Restart, StoreInv
<1>1. Visible' \subseteq Visible /\ durable' = durable /\ failed' = failed /\ pending' = {}
  BY DEF Visible
<1>2. \A h \in Handlers : pc'[h] = pc[h] \/ pc'[h] = "gone"
  OBVIOUS
<1>3. TypeOK'
  <2>1. pc' \in [Handlers -> {"new", "inserting", "rereading", "applied", "duplicate", "vanished"}
                                 \cup Finished]
    BY DEF TypeOK
  <2>2. query' \in [Queries -> {"new", "listed", "answered", "gone"}]
    BY DEF TypeOK
  <2>3. crashes' \in 0 .. MaxCrashes /\ listed' = listed /\ summed' = summed /\ settled' = settled
    BY DEF TypeOK
  <2> HIDE DEF Rows, Finished
  <2> QED
    BY <1>1, <2>1, <2>2, <2>3 DEF TypeOK
<1>4. OneRowPerEvent' /\ AuditFollowsData'
  BY <1>1 DEF OneRowPerEvent, AuditFollowsData, Transactions
<1>5. AppliedIsDurable' /\ FoundIsDurable' /\ AuditedIsOver'
  BY <1>1, <1>2 DEF AppliedIsDurable, FoundIsDurable, AuditedIsOver, HasTx, Transactions
<1> QED
  BY <1>3, <1>4, <1>5

-----------------------------------------------------------------------------
(* What queries have read.                                                 *)

\* A query that does not read keeps what it has, as long as no row of its first
\* listing comes back after it was gone.
LEMMA ReadingsKept ==
    ASSUME NEW q \in Queries, QueryOK(q),
           query'[q] = query[q] \/ (query[q] = "listed" /\ query'[q] = "gone"),
           listed'[q] = listed[q], summed'[q] = summed[q], settled'[q] = settled[q],
           durable \subseteq durable',
           \A r \in ToSet(listed[q]) : r \in Visible' => r \in Visible
    PROVE  QueryOK(q)'
  BY DEF QueryOK, Transactions, ToSet

\* A handler past its insert stays there, and a handler step shows no row but one
\* of its own.
LEMMA ApplyFrame ==
    ASSUME StoreInv, NEW h \in Handlers, Apply(h)
    PROVE  /\ durable \subseteq durable'
           /\ \A g \in Handlers \ {h} : pc'[g] = pc[g]
           /\ pc[h] \notin {"new", "inserting"} => pc'[h] \notin {"new", "inserting"}
           /\ \A r \in Transactions(Visible') : r \notin Visible =>
                r = Row("tx", h) /\ pc[h] = "inserting" /\ pc'[h] # "inserting" /\ pc'[h] # "new"
<1> USE DEF StoreInv, Goto
<1>1. CASE Lookup(h) \/ Reread(h)
  BY <1>1 DEF Lookup, Reread, storeVars, Visible, Transactions, TypeOK
<1>2. CASE Insert(h)
  <2>1. pc'[h] \in {"applied", "500", "rereading"} /\ \A g \in Handlers \ {h} : pc'[g] = pc[g]
    BY <1>2 DEF Insert, TypeOK
  <2>2. durable \subseteq durable' /\ Visible' \subseteq Visible \cup {Row("tx", h)}
    BY <1>2, WriteFrame DEF Insert
  <2> QED
    BY <1>2, <2>1, <2>2 DEF Insert, Transactions
<1>3. CASE Audit(h)
  <2>1. AuditRow(h).kind # "tx"
    BY DEF AuditRow
  <2>2. durable \subseteq durable' /\ Visible' \subseteq Visible \cup {AuditRow(h)}
    BY <1>3, WriteFrame DEF Audit
  <2>3. pc'[h] \in {"200", "201", "500"} /\ \A g \in Handlers \ {h} : pc'[g] = pc[g]
    <3>1. StatusAfter(pc[h]) \in {"200", "201", "500"}
      BY DEF StatusAfter
    <3> QED
      BY <1>3, <3>1 DEF Audit, TypeOK
  <2> QED
    BY <2>1, <2>2, <2>3 DEF Transactions
<1> QED
  BY <1>1, <1>2, <1>3 DEF Apply

LEMMA ApplyKeepsReadInv ==
    ASSUME StoreInv, ReadInv, NEW h \in Handlers, Apply(h)
    PROVE  ReadInv'
<1>1. UNCHANGED queryVars
  BY DEF Apply
<1>2. SeenIsPastInsert'
  <2> SUFFICES ASSUME NEW g \in Handlers,
                      Row("tx", g) \in Visible' \/ \E q \in Queries : Row("tx", g) \in ToSet(listed[q])
               PROVE  pc'[g] \notin {"new", "inserting"}
    BY <1>1 DEF SeenIsPastInsert, queryVars, ToSet
  <2>1. Row("tx", g) \in Transactions(Visible') \/ \E q \in Queries : Row("tx", g) \in ToSet(listed[q])
    BY RowParts DEF Transactions
  <2>2. Row("tx", g) = Row("tx", h) => g = h
    BY RowParts
  <2> HIDE DEF Row
  <2> QED
    BY <2>1, <2>2, ApplyFrame DEF ReadInv, SeenIsPastInsert
<1>3. ASSUME NEW q \in Queries PROVE QueryOK(q)'
  <2>1. \A r \in ToSet(listed[q]) : r \in Visible' => r \in Visible
    <3> SUFFICES ASSUME NEW r \in ToSet(listed[q]), r \in Visible', r \notin Visible PROVE FALSE
      OBVIOUS
    <3>1. r \in Transactions(Visible')
      BY <1>3 DEF ReadInv, QueriesOK, QueryOK, Transactions
    <3> QED
      BY <1>3, <3>1, ApplyFrame DEF ReadInv, SeenIsPastInsert
  <2> QED
    BY <1>1, <1>3, <2>1, ApplyFrame, ReadingsKept DEF ReadInv, QueriesOK, queryVars
<1> QED
  BY <1>2, <1>3 DEF ReadInv, QueriesOK

\* The two readings.
LEMMA QueryKeepsReadInv ==
    ASSUME StoreInv, ReadInv, NEW q \in Queries, ListTransactions(q) \/ SumBalance(q)
    PROVE  ReadInv'
<1> USE DEF StoreInv, ReadInv
<1>1. UNCHANGED <<storeVars, crashes, pc>> /\ Visible' = Visible
  BY DEF ListTransactions, SumBalance, Visible, storeVars
<1>2. ASSUME NEW p \in Queries, p # q
      PROVE  /\ query'[p] = query[p] /\ listed'[p] = listed[p]
             /\ summed'[p] = summed[p] /\ settled'[p] = settled[p]
  BY <1>2 DEF ListTransactions, SumBalance, TypeOK
<1>3. ASSUME NEW p \in Queries, p # q PROVE QueryOK(p)'
  BY <1>1, <1>2, <1>3, ReadingsKept DEF QueriesOK, storeVars
<1>4. CASE ListTransactions(q)
  <2>1. PICK s \in Listings : listed' = [listed EXCEPT ![q] = s]
    BY <1>4 DEF ListTransactions
  <2>2. ToSet(s) = Transactions(Visible) /\ Visible \subseteq Rows
    BY ListingComplete DEF TypeOK, Visible
  <2>3. listed'[q] = s
    BY <2>1 DEF TypeOK
  <2>4. /\ query'[q] = "listed"
        /\ \A h \in settled'[q] : Row("tx", h) \in durable /\ Row("tx", h) \in Transactions(Visible)
    <3>1. settled'[q] = {h \in Handlers : pc[h] = "201"} /\ query'[q] = "listed"
      BY <1>4 DEF ListTransactions, TypeOK
    <3> QED
      BY <3>1, RowParts DEF AppliedIsDurable, Transactions, Visible
  <2>5. QueryOK(q)'
    BY <1>1, <2>2, <2>3, <2>4 DEF QueryOK, storeVars, Transactions
  <2>6. SeenIsPastInsert'
    BY <1>1, <1>2, <2>2, <2>3 DEF SeenIsPastInsert, Transactions
  <2> QED
    BY <1>3, <2>5, <2>6 DEF QueriesOK
<1>5. CASE SumBalance(q)
  <2>1. PICK s \in Listings : summed' = [summed EXCEPT ![q] = s]
    BY <1>5 DEF SumBalance
  <2>2. ToSet(s) = Transactions(Visible)
    BY ListingComplete
  <2>3. summed'[q] = s /\ listed' = listed /\ settled' = settled /\ query[q] = "listed"
    BY <1>5, <2>1 DEF SumBalance, TypeOK
  <2>4. \A h \in settled[q] : Row("tx", h) \in Transactions(Visible)
    BY RowParts DEF QueriesOK, QueryOK, Transactions, Visible, TypeOK
  <2>5. ToSet(listed[q]) \cap Visible \subseteq Transactions(Visible)
    BY DEF QueriesOK, QueryOK, Transactions
  <2>6. query'[q] = "answered"
    BY <1>5 DEF SumBalance, TypeOK
  <2>7. QueryOK(q)
    BY DEF QueriesOK
  <2>8. QueryOK(q)'
    BY <1>1, <2>2, <2>3, <2>4, <2>5, <2>6, <2>7 DEF QueryOK, storeVars
  <2>9. SeenIsPastInsert'
    BY <1>1, <2>3 DEF SeenIsPastInsert
  <2> QED
    BY <1>3, <2>8, <2>9 DEF QueriesOK
<1> QED
  BY <1>4, <1>5

LEMMA RestartKeepsReadInv ==
    ASSUME StoreInv, ReadInv, Restart
    PROVE  ReadInv'
<1>1. Visible' \subseteq Visible /\ durable' = durable
  BY DEF Restart, Visible
<1>2. \A h \in Handlers : pc'[h] \in {"new", "inserting"} => pc'[h] = pc[h]
  BY DEF Restart
<1>3. UNCHANGED <<listed, summed, settled>>
  BY DEF Restart
<1>4. SeenIsPastInsert'
  BY <1>1, <1>2, <1>3 DEF ReadInv, SeenIsPastInsert
<1>5. ASSUME NEW q \in Queries PROVE QueryOK(q)'
  <2>1. query'[q] = query[q] \/ (query[q] = "listed" /\ query'[q] = "gone")
    BY <1>5 DEF Restart
  <2> QED
    BY <1>1, <1>3, <1>5, <2>1, ReadingsKept DEF ReadInv, QueriesOK
<1> QED
  BY <1>4, <1>5 DEF ReadInv, QueriesOK

-----------------------------------------------------------------------------
(* The theorems.                                                           *)

\* The inductive invariant of the shared connection (account_service/db.py and
\* append_audit) under failing commits and the rollbacks of other threads.
THEOREM Invariance == Spec => []StoreInv
<1>1. Init => StoreInv
  BY DEF Init, StoreInv, TypeOK, OneRowPerEvent, AppliedIsDurable, FoundIsDurable,
     AuditedIsOver, AuditFollowsData, Visible, Transactions
<1>2. StoreInv /\ [Next]_vars => StoreInv'
  <2> SUFFICES ASSUME StoreInv, [Next]_vars PROVE StoreInv'
    OBVIOUS
  <2>1. ASSUME NEW h \in Handlers, Apply(h) PROVE StoreInv'
    BY <2>1, LookupKeepsInv, InsertKeepsInv, AuditKeepsInv DEF Apply
  <2>2. ASSUME NEW q \in Queries, ListTransactions(q) \/ SumBalance(q) PROVE StoreInv'
    BY <2>2, QueryKeepsInv
  <2>3. CASE Restart
    BY <2>3, RestartKeepsInv
  <2>4. CASE UNCHANGED vars
    BY <2>4 DEF vars, storeVars, queryVars, StoreInv, TypeOK, OneRowPerEvent, AppliedIsDurable,
       FoundIsDurable, AuditedIsOver, AuditFollowsData, Visible, Transactions, HasTx
  <2> QED
    BY <2>1, <2>2, <2>3, <2>4 DEF Next
<1> QED
  BY <1>1, <1>2, PTL DEF Spec

\* The types of all variables, rows never both durable and pending.
THEOREM TypeCorrect == Spec => []TypeOK
  BY Invariance, PTL DEF StoreInv

\* No event is ever in the table twice, pending rows included.
THEOREM EventsStayUnique == Spec => []OneRowPerEvent
  BY Invariance, PTL DEF StoreInv

\* A transaction answered 201 is durable and stays so, whatever commits fail and
\* whoever rolls back; a 200 promises as much until a commit has failed.
THEOREM AcknowledgedIsDurable == Spec => []AcknowledgedStays
<1>1. StoreInv => AcknowledgedStays
  BY DEF StoreInv, AppliedIsDurable, FoundIsDurable, AcknowledgedStays
<1> QED
  BY <1>1, Invariance, PTL

\* The audit trail never reports a transaction that is not durable.
THEOREM AuditNeverAhead == Spec => []AuditFollowsData
  BY Invariance, PTL DEF StoreInv

\* The answers of get_balance and get_account, whose two readings any handler,
\* failure or restart may come between: they hold all that was acknowledged
\* before, and nothing durable is counted without being added up.
THEOREM AnswersStayCurrent == Spec => []AnswersAreCurrent
<1>1. Init => ReadInv
  BY DEF Init, ReadInv, SeenIsPastInsert, QueriesOK, QueryOK, Visible, Transactions, ToSet
<1>2. StoreInv /\ ReadInv /\ [Next]_vars => ReadInv'
  <2> SUFFICES ASSUME StoreInv, ReadInv, [Next]_vars PROVE ReadInv'
    OBVIOUS
  <2>1. ASSUME NEW h \in Handlers, Apply(h) PROVE ReadInv'
    BY <2>1, ApplyKeepsReadInv
  <2>2. ASSUME NEW q \in Queries, ListTransactions(q) \/ SumBalance(q) PROVE ReadInv'
    BY <2>2, QueryKeepsReadInv
  <2>3. CASE Restart
    BY <2>3, RestartKeepsReadInv
  <2>4. CASE UNCHANGED vars
    BY <2>4 DEF vars, storeVars, queryVars, ReadInv, SeenIsPastInsert, QueriesOK, QueryOK,
       Visible, Transactions, ToSet
  <2> QED
    BY <2>1, <2>2, <2>3, <2>4 DEF Next
<1>3. ReadInv => AnswersAreCurrent
  BY DEF ReadInv, QueriesOK, QueryOK, AnswersAreCurrent, Visible
<1> QED
  BY <1>1, <1>2, <1>3, Invariance, PTL DEF Spec

-----------------------------------------------------------------------------
(* What the answers say: their order, and their sum.                       *)

InTextOrder(s) ==
    \A i, j \in 1 .. Len(s) : i < j => TextLeq(TimeOf[s[i]], TimeOf[s[j]])

\* A first listing stays as it was read, in the order of its timestamps' text.
LEMMA ListingsStayInTextOrder == Spec => [](\A q \in Queries : InTextOrder(listed[q]))
<1> DEFINE Inv == \A q \in Queries : InTextOrder(listed[q])
<1>1. Init => Inv
  <2>1. Len(<<>>) = 0
    OBVIOUS
  <2> QED
    BY <2>1 DEF Init, InTextOrder
<1>2. ASSUME TypeOK, Inv, [Next]_vars PROVE Inv'
  <2>1. CASE UNCHANGED listed
    BY <1>2, <2>1 DEF InTextOrder
  <2>2. ASSUME NEW q \in Queries, ListTransactions(q) PROVE Inv'
    <3>1. PICK s \in Listings : listed' = [listed EXCEPT ![q] = s]
      BY <2>2 DEF ListTransactions
    <3>2. InTextOrder(s)
      BY <3>1 DEF Listings, ListingsOf, InTextOrder
    <3>3. listed'[q] = s /\ \A p \in Queries \ {q} : listed'[p] = listed[p]
      BY <1>2, <3>1 DEF TypeOK
    <3>4. ASSUME NEW p \in Queries PROVE InTextOrder(listed'[p])
      BY <1>2, <3>2, <3>3, <3>4
    <3> QED
      BY <3>4 DEF InTextOrder
  <2> QED
    BY <1>2, <2>1, <2>2 DEF Next, Apply, SumBalance, Restart, vars, queryVars
<1> QED
  BY <1>1, <1>2, TypeCorrect, PTL DEF Spec

\* A row has the time and the amount of the body its handler was given.
LEMMA RowValues ==
    ASSUME NEW r \in Rows
    PROVE  /\ TimeOf[r] = BodyOf[r.by].time /\ r.by \in Handlers
           /\ BodyOf[r.by].type \in {"CREDIT", "DEBIT"}
           /\ BodyOf[r.by].amount \in Nat
           /\ BodyOf[r.by].time \in [local : Int, offset : Int]
  BY BodyAssumption DEF TimeOf

LEMMA RowsInOneZone ==
    ASSUME \A g, h \in Handlers : BodyOf[g].time.offset = BodyOf[h].time.offset,
           NEW r \in Rows, NEW u \in Rows, TextLeq(TimeOf[r], TimeOf[u])
    PROVE  Instant(TimeOf[r]) <= Instant(TimeOf[u])
<1> HIDE DEF Rows
<1>1. /\ TimeOf[r] = BodyOf[r.by].time /\ r.by \in Handlers
      /\ TimeOf[r] \in [local : Int, offset : Int]
  BY RowValues
<1>2. /\ TimeOf[u] = BodyOf[u.by].time /\ u.by \in Handlers
      /\ TimeOf[u] \in [local : Int, offset : Int]
  BY RowValues
<1>3. TimeOf[r].offset = TimeOf[u].offset
  <2> DEFINE g == r.by
             h == u.by
  <2>1. BodyOf[g].time.offset = BodyOf[h].time.offset
    <3> HIDE DEF g, h
    <3> QED
      BY <1>1, <1>2 DEF g, h
  <2> QED
    BY <1>1, <1>2, <2>1
<1> QED
  BY <1>1, <1>2, <1>3, TextTellsTime

\* Listings are in the order of time, and the recent transactions are the latest,
\* if all clients write their timestamps with one UTC offset.  Without that they
\* need not be: see the run of ZonedBodies.
THEOREM ChronologicalInOneZone ==
    ASSUME \A g, h \in Handlers : BodyOf[g].time.offset = BodyOf[h].time.offset
    PROVE  Spec => []Chronological
<1>1. ASSUME TypeOK, \A q \in Queries : InTextOrder(listed[q]) PROVE Chronological
  <2> SUFFICES ASSUME NEW q \in Queries
               PROVE  LET At(s, i) == Instant(TimeOf[s[i]])
                          s == listed[q]
                          recent == RecentOf(s)
                      IN  /\ \A i, j \in 1 .. Len(s) : i < j => At(s, i) <= At(s, j)
                          /\ \A i, j \in 1 .. Len(recent) : i < j => At(recent, i) >= At(recent, j)
                          /\ \A r \in ToSet(s) \ ToSet(recent), i \in 1 .. Len(recent) :
                                Instant(TimeOf[r]) <= At(recent, i)
    BY DEF Chronological
  <2> DEFINE s == listed[q]
             at == [r \in Rows |-> Instant(TimeOf[r])]
             recent == RecentOf(s)
  <2> HIDE DEF Rows
  <2>1. s \in Seq(Rows) /\ Len(s) \in Nat /\ \A i \in 1 .. Len(s) : s[i] \in Rows
    <3>1. s \in Seq(Rows)
      BY <1>1 DEF TypeOK
    <3> HIDE DEF s
    <3> QED
      BY <3>1
  <2>2. ASSUME NEW r \in Rows PROVE at[r] \in Int /\ at[r] = Instant(TimeOf[r])
    BY RowValues DEF Instant
  <2>3. ASSUME NEW i \in 1 .. Len(s), NEW j \in 1 .. Len(s), i < j
        PROVE  at[s[i]] <= at[s[j]]
    <3>1. s[i] \in Rows /\ s[j] \in Rows /\ TextLeq(TimeOf[s[i]], TimeOf[s[j]])
      BY <1>1, <2>1, <2>3 DEF InTextOrder
    <3>2. Instant(TimeOf[s[i]]) <= Instant(TimeOf[s[j]])
      <4> HIDE DEF s
      <4> QED
        BY <3>1, RowsInOneZone
    <3> QED
      BY <2>2, <3>1, <3>2
  <2> HIDE DEF s, at, recent
  <2>4. /\ \A i \in 1 .. Len(recent) : recent[i] \in Rows
        /\ \A i, j \in 1 .. Len(recent) : i < j => at[recent[i]] >= at[recent[j]]
        /\ \A r \in ToSet(s) \ ToSet(recent), i \in 1 .. Len(recent) : at[r] <= at[recent[i]]
    BY <2>1, <2>2, <2>3, RecentAreLatest DEF recent
  <2>5. ToSet(s) \subseteq Rows
    BY <2>1 DEF ToSet
  <2> QED
    BY <2>1, <2>2, <2>3, <2>4, <2>5 DEF s, recent
<1> QED
  BY <1>1, TypeCorrect, ListingsStayInTextOrder, PTL

\* A balance is the sum of the CREDITs minus the sum of the DEBITs, but for what
\* the precision of the Decimal context makes of each amount and each addition,
\* for any number of transactions in any order.
THEOREM BalancesExact == Spec => []BalanceExact
<1>1. ASSUME TypeOK PROVE BalanceExact
  <2> SUFFICES ASSUME NEW q \in Queries
               PROVE  LET s == summed[q]
                          exact == [n \in 1 .. Len(s) |->
                              LET body == BodyOf[s[n].by]
                              IN  IF body.type = "CREDIT" THEN body.amount ELSE -body.amount]
                          step(n) == Totals(s, SignedAmountOf)[n - 1] + SignedAmountOf[s[n]]
                          error == Total(s, SignedAmountOf) - SumOf(exact, Len(s))
                      IN  2 * Magnitude(error)
                            <= SumOf([n \in 1 .. Len(s) |-> Slack(step(n)) + Slack(exact[n])], Len(s))
    BY DEF BalanceExact
  <2> DEFINE s == summed[q]
             exact == [n \in 1 .. Len(s) |->
                 LET body == BodyOf[s[n].by]
                 IN  IF body.type = "CREDIT" THEN body.amount ELSE -body.amount]
  <2> HIDE DEF Rows
  <2>1. Len(s) \in Nat /\ \A n \in 1 .. Len(s) : s[n] \in Rows
    <3>1. s \in Seq(Rows)
      BY <1>1 DEF TypeOK
    <3> HIDE DEF s
    <3> QED
      BY <3>1
  <2>2. ASSUME NEW n \in 1 .. Len(s)
        PROVE  /\ SignedAmountOf[s[n]] \in Int /\ exact[n] \in Int
               /\ 2 * Magnitude(SignedAmountOf[s[n]] - exact[n]) <= Slack(exact[n])
    <3> DEFINE amount == BodyOf[s[n].by].amount
               type == BodyOf[s[n].by].type
    <3>1. s[n] \in Rows /\ amount \in Int /\ -amount \in Int
      BY <2>1, RowValues
    <3>2. SignedAmountOf[s[n]] = IF type = "CREDIT" THEN Round(amount) ELSE -Round(amount)
      BY <3>1 DEF SignedAmountOf, Canonical
    <3>3. exact[n] = IF type = "CREDIT" THEN amount ELSE -amount
      OBVIOUS
    <3> HIDE DEF amount, type, exact
    <3>4. Round(amount) \in Int /\ 2 * Magnitude(Round(amount) - amount) <= Slack(amount)
      BY <3>1, RoundingError
    <3>5. Slack(-amount) = Slack(amount)
      BY <3>1, QuantumOfOpposite DEF Slack
    <3>6. Magnitude((-Round(amount)) - (-amount)) = Magnitude(Round(amount) - amount)
      BY <3>1, <3>4 DEF Magnitude
    <3> QED
      BY <3>1, <3>2, <3>3, <3>4, <3>5, <3>6
  <2> HIDE DEF s, exact
  <2>3. 2 * Magnitude(Total(s, SignedAmountOf) - SumOf(exact, Len(s)))
          <= SumOf([n \in 1 .. Len(s) |->
                 Slack(Totals(s, SignedAmountOf)[n - 1] + SignedAmountOf[s[n]]) + Slack(exact[n])], Len(s))
    BY <2>1, <2>2, AccumulatedError
  <2> QED
    BY <2>3 DEF s, exact
<1> QED
  BY <1>1, TypeCorrect, PTL

-----------------------------------------------------------------------------
(* Until a commit fails, the store is what AccountService takes it for.    *)

\* A handler that lost its race has run into a durable row: it finds it again.
NothingVanishes ==
    failed = 0 =>
        \A h \in Handlers :
            /\ pc[h] # "vanished"
            /\ pc[h] = "rereading" => HasTx(durable, EventOf[h])

\* No commit has failed unless one has failed now, and then nothing is pending.
LEMMA NoFailureYet ==
    ASSUME StoreInv, [Next]_vars, failed' = 0
    PROVE  failed = 0 /\ pending = {} /\ Visible = durable
<1>1. failed = 0
  BY DEF StoreInv, TypeOK, Next, Apply, Lookup, Insert, Reread, Audit, Commit, CommitFails, Rollback,
     ListTransactions, SumBalance, Restart, vars, storeVars
<1> QED
  BY <1>1 DEF StoreInv, FoundIsDurable, Visible

LEMMA StepKeepsFound ==
    ASSUME StoreInv, NothingVanishes, [Next]_vars
    PROVE  NothingVanishes'
<1> SUFFICES ASSUME failed' = 0, NEW g \in Handlers
             PROVE  /\ pc'[g] # "vanished"
                    /\ pc'[g] = "rereading" => HasTx(durable', EventOf[g])
  BY DEF NothingVanishes, HasTx, Transactions
<1>1. failed = 0 /\ Visible = durable
  BY NoFailureYet
<1>2. durable \subseteq durable'
  BY DEF Next, Apply, Lookup, Insert, Reread, Audit, Commit, CommitFails, Rollback,
     ListTransactions, SumBalance, Restart, vars, storeVars
<1>3. CASE pc'[g] = pc[g]
  BY <1>1, <1>2, <1>3 DEF NothingVanishes, HasTx, Transactions
<1>4. CASE pc'[g] # pc[g]
  <2>1. pc'[g] \notin {"vanished", "rereading"} \/ Insert(g) \/ Reread(g)
    <3>1. ASSUME NEW h \in Handlers, Apply(h), h # g PROVE pc'[g] = pc[g]
      BY <3>1 DEF Apply, Lookup, Insert, Reread, Audit, Goto, StoreInv, TypeOK
    <3>2. ASSUME Lookup(g) \/ Audit(g) PROVE pc'[g] \notin {"vanished", "rereading"}
      BY <3>2 DEF Lookup, Audit, Goto, StatusAfter, StoreInv, TypeOK
    <3>3. CASE Restart
      BY <1>4, <3>3 DEF Restart, StoreInv, TypeOK
    <3> QED
      BY <1>4, <3>1, <3>2, <3>3 DEF Next, Apply, vars, ListTransactions, SumBalance
  <2>2. CASE Insert(g)
    BY <1>1, <1>2, <2>2 DEF Insert, Goto, KeyFree, Rollback, StoreInv, TypeOK
  <2>3. CASE Reread(g)
    BY <1>1, <2>3 DEF Reread, Goto, NothingVanishes, StoreInv, TypeOK
  <2> QED
    BY <2>1, <2>2, <2>3
<1> QED
  BY <1>3, <1>4

\* The refinement mapping, seen from one handler.
LEMMA ConnsAfter ==
    ASSUME TypeOK, NEW h \in Handlers, NEW s, pc' = [pc EXCEPT ![h] = s]
    PROVE  /\ Conns[<<h, 1>>] = ConnOf(pc[h])
           /\ Conns' = [Conns EXCEPT ![<<h, 1>>] = ConnOf(s)]
<1> DEFINE A == Handlers \X {1}
<1>1. \A g \in Handlers : pc'[g] = IF g = h THEN s ELSE pc[g]
  BY DEF TypeOK
<1>2. <<h, 1>> \in A /\ \A a \in A : a[1] \in Handlers /\ (a[1] = h <=> a = <<h, 1>>)
  OBVIOUS
<1>3. \A a \in A : Conns[a] = ConnOf(pc[a[1]])
  BY DEF Conns
<1>4. Conns' = [a \in A |-> ConnOf(pc'[a[1]])]
  BY DEF Conns
<1>5. DOMAIN Conns = A /\ Conns = [a \in A |-> Conns[a]]
  BY DEF Conns
<1>6. \A a \in A : ConnOf(pc'[a[1]]) = IF a = <<h, 1>> THEN ConnOf(s) ELSE Conns[a]
  BY <1>1, <1>2, <1>3
<1> HIDE DEF A
<1>7. Conns' = [Conns EXCEPT ![<<h, 1>>] = ConnOf(s)]
  BY <1>4, <1>5, <1>6
<1>8. Conns[<<h, 1>>] = ConnOf(pc[h])
  BY <1>2, <1>3
<1> QED
  BY <1>7, <1>8

LEMMA SameTransactions ==
    ASSUME NEW e
    PROVE  Service!HasTx(e) <=> HasTx(durable, e)
<1> DEFINE Tx(r) == [event |-> EventOf[r.by], by |-> <<r.by, 1>>]
<1>1. \A r : Tx(r).event = EventOf[r.by]
  OBVIOUS
<1>2. Txs = {Tx(r) : r \in Transactions(durable)}
  BY DEF Txs
<1> HIDE DEF Tx
<1> QED
  BY <1>1, <1>2 DEF Service!HasTx, HasTx

\* Other rows than transactions do not show in the table of transactions, nor
\* transactions in the audit trail.
LEMMA TablesAfter ==
    ASSUME NEW h \in Handlers
    PROVE  /\ durable' = durable => Txs' = Txs /\ TxAudits' = TxAudits
           /\ durable' = durable \cup {Row("tx", h)} =>
                /\ Txs' = Txs \cup {[event |-> EventOf[h], by |-> <<h, 1>>]}
                /\ TxAudits' = TxAudits
<1>1. durable' = durable => Txs' = Txs /\ TxAudits' = TxAudits
  BY DEF Txs, TxAudits, Audited, Transactions
<1>2. ASSUME durable' = durable \cup {Row("tx", h)}
      PROVE  /\ Txs' = Txs \cup {[event |-> EventOf[h], by |-> <<h, 1>>]}
             /\ TxAudits' = TxAudits
  <2>1. Row("tx", h).kind = "tx" /\ Row("tx", h).by = h
    BY RowParts
  <2>2. Transactions(durable') = Transactions(durable) \cup {Row("tx", h)}
    BY <1>2, <2>1 DEF Transactions
  <2>3. \A g \in Handlers, o \in Outcomes : Row(o, g) \in durable' <=> Row(o, g) \in durable
    BY <1>2, RowParts
  <2> HIDE DEF Row
  <2>4. Txs' = Txs \cup {[event |-> EventOf[h], by |-> <<h, 1>>]}
    BY <2>1, <2>2 DEF Txs
  <2>5. TxAudits' = TxAudits
    BY <2>3 DEF TxAudits, Audited
  <2> QED
    BY <2>4, <2>5
<1> QED
  BY <1>1, <1>2

\* A handler's audit row is its first, so it decides the handler's entry.
LEMMA AuditTrailAfter ==
    ASSUME StoreInv, NEW h \in Handlers, pc[h] \notin Finished, NEW o \in Outcomes,
           durable' = durable \cup {Row(o, h)}
    PROVE  /\ Txs' = Txs
           /\ TxAudits' = [TxAudits EXCEPT ![<<h, 1>>] = o]
<1> DEFINE A == Handlers \X {1}
<1>1. Txs' = Txs
  <2>1. Row(o, h).kind # "tx"
    OBVIOUS
  <2>2. Transactions(durable') = Transactions(durable)
    BY <2>1 DEF Transactions
  <2> QED
    BY <2>2 DEF Txs
<1>2. Audited(h)' = o
  <2>1. \A k \in Outcomes : Row(k, h) \notin durable
    BY DEF StoreInv, AuditedIsOver, Visible
  <2>2. \A k \in Outcomes : Row(k, h) \in durable' <=> k = o
    BY <2>1, RowParts
  <2> HIDE DEF Row
  <2> QED
    BY <2>2 DEF Audited
<1>3. ASSUME NEW g \in Handlers, g # h PROVE Audited(g)' = Audited(g)
  <2>1. \A k \in Outcomes : Row(k, g) \in durable' <=> Row(k, g) \in durable
    BY <1>3, RowParts
  <2> HIDE DEF Row
  <2> QED
    BY <2>1 DEF Audited
<1>4. <<h, 1>> \in A /\ \A a \in A : a[1] \in Handlers /\ (a[1] = h <=> a = <<h, 1>>)
  OBVIOUS
<1>5. TxAudits = [a \in A |-> Audited(a[1])] /\ TxAudits' = [a \in A |-> Audited(a[1])']
  BY DEF TxAudits
<1>6. \A a \in A : Audited(a[1])' = IF a = <<h, 1>> THEN o ELSE TxAudits[a]
  BY <1>2, <1>3, <1>4, <1>5
<1> HIDE DEF A
<1>7. TxAudits' = [TxAudits EXCEPT ![<<h, 1>>] = o]
  BY <1>5, <1>6
<1> QED
  BY <1>1, <1>7

\* What a step of a handler is to AccountService.
LEMMA ApplyImplements ==
    ASSUME StoreInv, NothingVanishes, [Next]_vars, failed' = 0, NEW h \in Handlers, Apply(h)
    PROVE  Service!ApplyTransaction(<<h, 1>>)
<1> DEFINE a == <<h, 1>>
<1>0. a[1] = h
  OBVIOUS
<1>1. TypeOK /\ failed = 0 /\ pending = {} /\ Visible = durable
  BY NoFailureYet DEF StoreInv
<1>2. /\ ConnOf("new") = "sent" /\ ConnOf("inserting") = "inserting"
      /\ ConnOf("rereading") = "rereading" /\ ConnOf("applied") = "applied"
      /\ ConnOf("duplicate") = "duplicate" /\ ConnOf("201") = "2xx" /\ ConnOf("200") = "2xx"
  BY DEF ConnOf
<1>3. ASSUME NEW s, Goto(h, s) PROVE Conns[a] = ConnOf(pc[h]) /\ Service!MoveTo(a, ConnOf(s))
  BY <1>1, <1>3, ConnsAfter DEF Goto, Service!MoveTo
<1>4. Service!HasTx(EventOf[h]) <=> HasTx(durable, EventOf[h])
  BY SameTransactions
<1>5. CASE Lookup(h)
  <2>1. UNCHANGED <<Txs, TxAudits>>
    BY <1>5, TablesAfter DEF Lookup, storeVars
  <2>2. Conns[a] = "sent" /\ Service!MoveTo(a, IF HasTx(durable, EventOf[h]) THEN "duplicate" ELSE "inserting")
    BY <1>1, <1>2, <1>3, <1>5 DEF Lookup
  <2>3. Service!LookupTransaction(a)
    BY <1>0, <1>4, <2>1, <2>2 DEF Service!LookupTransaction, Service!accountVars
  <2> QED
    BY <2>3 DEF Service!ApplyTransaction
<1>6. CASE Insert(h)
  <2>1. ~CommitFails({Row("tx", h)})
    BY <1>1 DEF CommitFails, TypeOK
  <2>2. CASE KeyFree(h)
    <3>1. durable' = durable \cup {Row("tx", h)} /\ Goto(h, "applied")
      BY <1>1, <1>6, <2>1, <2>2 DEF Insert, Commit
    <3>2. Txs' = Txs \cup {[event |-> EventOf[a[1]], by |-> a]} /\ TxAudits' = TxAudits
      BY <1>0, <3>1, TablesAfter
    <3>3. Conns[a] = "inserting" /\ Service!MoveTo(a, "applied")
      BY <1>2, <1>3, <1>6, <3>1 DEF Insert
    <3>4. Service!TransactionKeyFree(a)
      BY <1>0, <1>1, <1>4, <2>2 DEF KeyFree, Service!TransactionKeyFree
    <3> QED
      BY <3>2, <3>3, <3>4 DEF Service!ApplyTransaction, Service!InsertTransaction
  <2>3. CASE ~KeyFree(h)
    <3>1. durable' = durable /\ Goto(h, "rereading")
      BY <1>6, <2>3 DEF Insert, Rollback
    <3>2. UNCHANGED <<Txs, TxAudits>>
      BY <3>1, TablesAfter
    <3>3. Conns[a] = "inserting" /\ Service!MoveTo(a, "rereading")
      BY <1>2, <1>3, <1>6, <3>1 DEF Insert
    <3>4. ~Service!TransactionKeyFree(a)
      BY <1>0, <1>1, <1>4, <2>3 DEF KeyFree, Service!TransactionKeyFree
    <3> QED
      BY <3>2, <3>3, <3>4 DEF Service!ApplyTransaction, Service!InsertTransaction
  <2> QED
    BY <2>2, <2>3
<1>7. CASE Reread(h)
  <2>1. UNCHANGED <<Txs, TxAudits>>
    BY <1>7, TablesAfter DEF Reread, storeVars
  <2>2. HasTx(durable, EventOf[h]) /\ Goto(h, "duplicate")
    BY <1>1, <1>7 DEF Reread, NothingVanishes
  <2>3. Conns[a] = "rereading" /\ Service!MoveTo(a, "duplicate")
    BY <1>2, <1>3, <1>7, <2>2 DEF Reread
  <2> QED
    BY <1>0, <1>4, <2>1, <2>2, <2>3 DEF Service!ApplyTransaction, Service!RereadTransaction
<1>8. CASE Audit(h)
  <2>1. pc[h] \in {"applied", "duplicate"}
    BY <1>1, <1>8 DEF Audit, NothingVanishes
  <2>2. Commit({AuditRow(h)})
    BY <1>1, <1>8 DEF Audit, CommitFails, TypeOK
  <2>3. Conns[a] = pc[h] /\ Service!MoveTo(a, "2xx")
    <3>1. StatusAfter("applied") = "201" /\ StatusAfter("duplicate") = "200"
      BY DEF StatusAfter
    <3>2. Goto(h, StatusAfter(pc[h]))
      BY <1>8 DEF Audit
    <3> QED
      BY <1>2, <1>3, <2>1, <3>1, <3>2
  <2>4. PICK o \in Outcomes : AuditRow(h) = Row(o, h) /\ o = IF pc[h] = "applied" THEN "APPLIED" ELSE "DUPLICATE"
    BY DEF AuditRow
  <2>5. Txs' = Txs /\ TxAudits' = [TxAudits EXCEPT ![a] = o]
    <3>1. durable' = durable \cup {Row(o, h)}
      BY <1>1, <2>2, <2>4 DEF Commit
    <3> QED
      BY <2>1, <3>1, AuditTrailAfter
  <2>6. Service!TxOutcome(a) = o
    BY <2>3, <2>4 DEF Service!TxOutcome
  <2> QED
    BY <2>1, <2>3, <2>5, <2>6 DEF Service!ApplyTransaction, Service!AuditTransaction
<1> QED
  BY <1>5, <1>6, <1>7, <1>8 DEF Apply

LEMMA RestartImplementsService ==
    ASSUME StoreInv, NothingVanishes, failed = 0, Restart
    PROVE  ServiceRestart
<1>1. UNCHANGED Service!accountVars
  BY DEF Restart, Txs, TxAudits, Audited, Transactions, Service!accountVars
<1>2. ASSUME NEW c \in DOMAIN Conns, Conns'[c] # Conns[c]
      PROVE  Conns[c] \in Service!Handling /\ Conns'[c] = "lost"
  <2>1. c[1] \in Handlers /\ c \in Handlers \X {1}
    BY DEF Conns
  <2>2. Conns[c] = ConnOf(pc[c[1]]) /\ Conns'[c] = ConnOf(pc'[c[1]])
    BY <2>1 DEF Conns
  <2>3. /\ pc'[c[1]] = IF pc[c[1]] \in {"200", "201", "500", "new"} THEN pc[c[1]] ELSE "gone"
        /\ pc[c[1]] \in {"new", "inserting", "rereading", "applied", "duplicate"} \cup Finished
    BY <2>1 DEF Restart, StoreInv, TypeOK, NothingVanishes
  <2> QED
    BY <1>2, <2>2, <2>3 DEF ConnOf, Service!Handling
<1> QED
  BY <1>1, <1>2 DEF ServiceRestart

\* AccountService is right about the store, until a commit fails: with one
\* connection for all handlers, rows pending between statement and commit, and
\* queries in between, each step of a handler is one of apply_transaction over
\* two tables, and a restart loses no row.
THEOREM StoreImplementsService == Spec => ServiceKept
<1> DEFINE Kept ==
      failed' = 0 =>
        \/ \E h \in Handlers : Service!ApplyTransaction(<<h, 1>>)
        \/ ServiceRestart
<1>1. Init => NothingVanishes
  BY DEF Init, NothingVanishes
<1>2. StoreInv /\ NothingVanishes /\ [Next]_vars => NothingVanishes'
  BY StepKeepsFound
<1>3. StoreInv /\ NothingVanishes /\ [Next]_vars => [Kept]_<<Conns, Txs, TxAudits>>
  <2> SUFFICES ASSUME StoreInv, NothingVanishes, [Next]_vars, failed' = 0,
                      <<Conns, Txs, TxAudits>>' # <<Conns, Txs, TxAudits>>
               PROVE  Kept
    OBVIOUS
  <2>1. ASSUME NEW h \in Handlers, Apply(h) PROVE Kept
    BY <2>1, ApplyImplements
  <2>2. ASSUME NEW q \in Queries, ListTransactions(q) \/ SumBalance(q) PROVE FALSE
    BY <2>2 DEF ListTransactions, SumBalance, storeVars, Conns, Txs, TxAudits, Audited, Transactions
  <2>3. CASE Restart
    BY <2>3, NoFailureYet, RestartImplementsService
  <2>4. CASE UNCHANGED vars
    BY <2>4 DEF vars, storeVars, Conns, Txs, TxAudits, Audited, Transactions
  <2> QED
    BY <2>1, <2>2, <2>3, <2>4 DEF Next
<1> QED
  BY <1>1, <1>2, <1>3, Invariance, PTL DEF Spec, ServiceKept
=============================================================================
