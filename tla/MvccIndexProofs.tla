-------------------------- MODULE MvccIndexProofs --------------------------
(***************************************************************************)
(* The secondary index and the purge of Mvcc, for any number of clients,   *)
(* keys and values.  SInv is inductive: the changes that clients are at    *)
(* explain each difference between the index and the rows, what purge must *)
(* leave alone has its entries, and so a read through the index, with or   *)
(* without the clustered index, is consistent (FACT A of read0read.cc).    *)
(* GInv is inductive with it: what is to be removed is in front of purge,  *)
(* among its jobs or in the list of a rollback, and so purge and rollback  *)
(* leave no garbage.                                                       *)
(***************************************************************************)
EXTENDS MvccProofs

-----------------------------------------------------------------------------
(* The secondary index: the last change of a transaction.                  *)

\* The undo record of the last change of an active transaction.
LEMMA TopFacts ==
  ASSUME RInv, MInv, NEW c \in Clients, IsActive(c), undo[trx[c].id] # << >>,
         NEW id, id = trx[c].id, NEW n, n = Len(undo[id])
  PROVE  /\ id \in TrxIds /\ id \in ActiveIds /\ id \in Unpurged
         /\ n \in Nat /\ n \in DOMAIN undo[id] /\ Top(c) = undo[id][n]
         /\ \A m \in DOMAIN undo[id] : m \in Nat /\ m <= n
         /\ Top(c) \in UndoRec /\ Top(c).key \in Keys /\ Top(c).old \in Record /\ Top(c).type \in Types
         /\ UndoRecOK(id, n, Top(c))
         /\ RowOf(Top(c).old) \in Vals \cup {0}
<1>1. id \in TrxIds /\ id \in ActiveIds
  BY ActiveFacts
<1>2. id \in Unpurged
  BY <1>1, PurgeSeesNoActive DEF Unpurged
<1>3. undo \in [TrxIds -> Seq(UndoRec)] /\ VersionsOK
  BY DEF MInv, TypesOK
<1>4. undo[id] \in Seq(UndoRec) /\ undo[id] # << >>
  BY <1>1, <1>3
<1>5. n \in Nat /\ DOMAIN undo[id] = 1 .. n /\ n # 0
  BY <1>4
<1>6. n \in DOMAIN undo[id] /\ Top(c) = undo[id][n]
  BY <1>5 DEF Top
<1>7. \A m \in DOMAIN undo[id] : m \in Nat /\ m <= n
  BY <1>5
<1>8. /\ Top(c) \in UndoRec /\ Top(c).key \in Keys /\ Top(c).old \in Record /\ Top(c).type \in Types
  BY <1>1, <1>3, <1>6, UndoAt
<1>9. UndoRecOK(id, n, Top(c))
  BY <1>1, <1>3, <1>6 DEF VersionsOK
<1> QED
  BY <1>1, <1>2, <1>5, <1>6, <1>7, <1>8, <1>9, RowTyped

\* A pointer of a version leads to the undo record of the version.
LEMMA PointerFacts ==
  ASSUME RInv, MInv, NEW k \in Keys, NEW r \in Record, VersionOK(r, k), NEW id \in TrxIds, NEW n \in DOMAIN undo[id]
  PROVE  /\ r.roll = PointerTo(id, n) => r.trx_id = id /\ r.roll.n = n /\ r.roll.trx = id
         /\ r.trx_id = id /\ r.roll.n = n /\ (~r.roll.ins \/ id \in ActiveIds) =>
                r.roll = PointerTo(id, n) /\ undo[id][n].key = k
<1>1. ASSUME r.roll = PointerTo(id, n)  PROVE r.trx_id = id /\ r.roll.n = n /\ r.roll.trx = id
  <2>1. r.roll.trx = id /\ r.roll.n = n /\ id # 0
    BY <1>1 DEF PointerTo, TrxIds
  <2>2. r.trx_id # 0
    <3>1. NoRec.roll.trx = 0 /\ OldRow.roll.trx = 0
      BY DEF NoRec, OldRow
    <3> QED
      BY <2>1, <3>1, RecordFacts
  <2> QED
    BY <2>1, <2>2 DEF VersionOK
<1>2. ASSUME r.trx_id = id, r.roll.n = n, ~r.roll.ins \/ id \in ActiveIds
      PROVE  r.roll = PointerTo(id, n) /\ undo[id][n].key = k
  <2>1. r.trx_id # 0
    BY <1>2 DEF TrxIds
  <2>2. r.roll \in Pointers
    BY <2>1, RecordFacts
  <2>3. /\ r.roll.trx = id /\ (undo[id][n].type = "insert" <=> r.roll.ins)
        /\ undo[id][n].key = k
    BY <1>2, <2>1 DEF VersionOK
  <2>4. r.roll.ins = (undo[id][n].type = "insert")
    BY <2>2, <2>3 DEF Pointers
  <2> QED
    BY <1>2, <2>2, <2>3, <2>4 DEF PointerTo, Pointers
<1> QED
  BY <1>1, <1>2

\* A version of the clustered index that the top record is about has a
\* pointer to it.
LEMMA IsTopMeaning ==
  ASSUME RInv, MInv, NEW c \in Clients, IsActive(c), undo[trx[c].id] # << >>,
         NEW id, id = trx[c].id, NEW n, n = Len(undo[id])
  PROVE  IsTop(c) <=> clust[Top(c).key].roll = PointerTo(id, n)
<1>1. /\ id \in TrxIds /\ id \in ActiveIds /\ n \in DOMAIN undo[id] /\ Top(c).key \in Keys
  BY TopFacts
<1>2. clust[Top(c).key] \in Record /\ VersionOK(clust[Top(c).key], Top(c).key)
  BY <1>1 DEF MInv, TypesOK, VersionsOK
<1> QED
  BY <1>1, <1>2, PointerFacts DEF IsTop

\* A row operation: its client is at no other work, and nobody else's last
\* change is the current version of the row.
LEMMA RowStepFacts ==
  ASSUME RInv, MInv, NEW c \in Clients, NEW k \in Keys, NEW type, NEW del, NEW val, NEW todo,
         RowStep(c, k, type, del, val, todo), NEW id, id = trx[c].id, NEW n, n = Len(undo[id]) + 1
  PROVE  /\ type \in Types /\ del \in BOOLEAN /\ val \in Vals
         /\ IsActive(c) /\ trx[c].no = LsnMax /\ ~work[c].rolling /\ work[c].todo = << >>
         /\ \A d \in Clients \ {c} : IsActive(d) => clust[k].trx_id # trx[d].id /\ trx[d].id # id
         /\ id \in ActiveIds /\ id \in TrxIds /\ n \in 1 .. MaxUndo /\ n \notin DOMAIN undo[id]
         /\ clust'[k].trx_id = id /\ clust'[k].del = del /\ clust'[k].val = val
         /\ clust'[k].roll.trx = id /\ clust'[k].roll.n = n /\ (clust'[k].roll.ins <=> type = "insert")
         /\ RowOf(clust'[k]) = IF del THEN 0 ELSE val
         /\ \A j \in Keys \ {k} : clust'[j] = clust[j]
         /\ undo' \in [TrxIds -> Seq(UndoRec)]
         /\ DOMAIN undo'[id] = 1 .. n
         /\ undo'[id][n].type = type /\ undo'[id][n].key = k /\ undo'[id][n].old = clust[k]
         /\ \A j \in TrxIds : \A m \in DOMAIN undo[j] : m \in DOMAIN undo'[j] /\ undo'[j][m] = undo[j][m]
         /\ \A j \in TrxIds : \A m \in DOMAIN undo'[j] : m \in DOMAIN undo[j] \/ (j = id /\ m = n)
         /\ \A j \in TrxIds \ {id} : undo'[j] = undo[j]
         /\ work'[c].todo = todo /\ todo # << >> /\ ~work'[c].rolling
         /\ \A d \in Clients \ {c} : work'[d] = work[d]
         /\ UNCHANGED <<m_max_trx_id, trx, m_view_list, m_view, history, sec, max_trx_id, rseg_last, purge, stopped>>
<1>1. TypesOK /\ UndoBounded
  BY DEF MInv
<1>2. /\ CanWrite(c, k) /\ Write(c, k, type, del, val, todo) /\ todo # << >>
      /\ type \in Types /\ del \in BOOLEAN /\ val \in Vals
  BY DEF RowStep
<1>3. /\ id \in ActiveIds /\ id \in TrxIds /\ n \in 1 .. MaxUndo /\ n \notin DOMAIN undo[id]
      /\ clust' = [clust EXCEPT ![k] = [trx_id |-> id, del |-> del, val |-> val,
                         roll |-> [trx |-> id, n |-> n, ins |-> type = "insert"]]]
      /\ undo' \in [TrxIds -> Seq(UndoRec)]
      /\ DOMAIN undo'[id] = 1 .. n
      /\ undo'[id][n] = [type |-> type, key |-> k, old |-> clust[k]]
      /\ \A j \in TrxIds : \A m \in DOMAIN undo[j] : m \in DOMAIN undo'[j] /\ undo'[j][m] = undo[j][m]
      /\ \A j \in TrxIds : \A m \in DOMAIN undo'[j] : m \in DOMAIN undo[j] \/ (j = id /\ m = n)
  BY <1>1, <1>2, WriteFacts
<1>4. /\ IsActive(c) /\ trx[c].no = LsnMax /\ ~work[c].rolling /\ work[c].todo = << >>
      /\ \A d \in Clients \ {c} : IsActive(d) => clust[k].trx_id # trx[d].id
  BY <1>2 DEF CanWrite
<1>5. \A d \in Clients \ {c} : IsActive(d) => trx[d].id # id
  BY <1>4, ActiveFacts
<1>6. clust \in [Keys -> Record] /\ work \in [Clients -> Work] /\ undo \in [TrxIds -> Seq(UndoRec)]
  BY <1>1 DEF TypesOK
<1>7. /\ UNCHANGED <<m_max_trx_id, trx, m_view_list, m_view, history, sec, max_trx_id, rseg_last, purge, stopped>>
      /\ \E w : undo' = [undo EXCEPT ![id] = w]
  BY <1>2 DEF Write, rvars
<1>8. \A j \in TrxIds \ {id} : undo'[j] = undo[j]
  BY <1>6, <1>7
<1>9. PICK u, l : work' = [work EXCEPT ![c].todo = todo, ![c].upd = u, ![c].locks = l]
  BY <1>2 DEF Write
<1>10. /\ work'[c].todo = todo /\ ~work'[c].rolling
       /\ \A d \in Clients \ {c} : work'[d] = work[d]
  BY <1>4, <1>6, <1>9 DEF Work
<1>11. /\ clust'[k] = [trx_id |-> id, del |-> del, val |-> val,
                         roll |-> [trx |-> id, n |-> n, ins |-> type = "insert"]]
       /\ \A j \in Keys \ {k} : clust'[j] = clust[j]
  BY <1>3, <1>6
<1>12. /\ clust'[k].trx_id = id /\ clust'[k].del = del /\ clust'[k].val = val
       /\ clust'[k].roll.trx = id /\ clust'[k].roll.n = n /\ (clust'[k].roll.ins <=> type = "insert")
       /\ RowOf(clust'[k]) = IF del THEN 0 ELSE val
  <2>1. PICK b \in BOOLEAN : b = (type = "insert")
    OBVIOUS
  <2>2. PICK q : q = [trx |-> id, n |-> n, ins |-> b]
    OBVIOUS
  <2>3. q.trx = id /\ q.n = n /\ q.ins = b
    BY <2>2
  <2>4. clust'[k] = [trx_id |-> id, del |-> del, val |-> val, roll |-> q]
    BY <1>11, <2>1, <2>2
  <2>5. /\ clust'[k].trx_id = id /\ clust'[k].del = del /\ clust'[k].val = val /\ clust'[k].roll = q
    BY <2>4
  <2> QED
    BY <1>2, <2>1, <2>3, <2>5 DEF RowOf
<1>13. undo'[id][n].type = type /\ undo'[id][n].key = k /\ undo'[id][n].old = clust[k]
  BY <1>3
<1> QED
  BY <1>2, <1>3, <1>4, <1>5, <1>7, <1>8, <1>10, <1>11, <1>12, <1>13

\* The last change of a client stays the current version, or stays not to
\* be, unless the client itself goes on with a new change or undoes it.
LEMMA TopKept ==
  ASSUME RInv, PurgePositionOK, MInv, [Next]_vars, NEW d \in Clients, IsActive(d), undo[trx[d].id] # << >>,
         trx'[d].id = trx[d].id, undo'[trx[d].id] = undo[trx[d].id], ~UndoRestore(d), ~UndoDrop(d)
  PROVE  /\ Top(d)' = Top(d)
         /\ IsTop(d)' <=> IsTop(d)
         /\ IsTop(d) => clust'[Top(d).key] = clust[Top(d).key]
<1>1. PICK id : id = trx[d].id
  OBVIOUS
<1>2. PICK n : n = Len(undo[id])
  OBVIOUS
<1>3. PICK k : k = Top(d).key
  OBVIOUS
<1>4. id \in TrxIds /\ id \in ActiveIds /\ n \in DOMAIN undo[id] /\ k \in Keys
  BY <1>1, <1>2, <1>3, TopFacts
<1>5. TypesOK /\ UndoBounded /\ VersionsOK /\ TodoOK /\ LocksOK /\ PurgeOK
  BY DEF MInv
<1>6. Top(d)' = Top(d)
  BY DEF Top
<1>7. /\ IsTop(d) <=> clust[k].trx_id = id /\ clust[k].roll.n = n
      /\ IsTop(d)' <=> clust'[k].trx_id = id /\ clust'[k].roll.n = n
  BY <1>1, <1>2, <1>3, <1>6 DEF IsTop
<1>8. ASSUME clust'[k] = clust[k] \/ (~IsTop(d) /\ ~(clust'[k].trx_id = id /\ clust'[k].roll.n = n))
      PROVE  (IsTop(d)' <=> IsTop(d)) /\ (IsTop(d) => clust'[k] = clust[k])
  BY <1>7, <1>8
<1>9. clust \in [Keys -> Record]
  BY <1>5 DEF TypesOK
<1> SUFFICES clust'[k] = clust[k] \/ (~IsTop(d) /\ ~(clust'[k].trx_id = id /\ clust'[k].roll.n = n))
  BY <1>3, <1>6, <1>8
<1>10. ASSUME NEW c \in Clients, NEW j \in Keys, NEW type, NEW del, NEW val, NEW todo,
              RowStep(c, j, type, del, val, todo)
       PROVE  clust'[k] = clust[k] \/ (~IsTop(d) /\ ~(clust'[k].trx_id = id /\ clust'[k].roll.n = n))
  <2>1. PICK i : i = trx[c].id
    OBVIOUS
  <2>2. PICK m : m = Len(undo[i]) + 1
    OBVIOUS
  <2>3. /\ \A e \in Clients \ {c} : IsActive(e) => clust[j].trx_id # trx[e].id /\ trx[e].id # i
        /\ i \in TrxIds /\ m \notin DOMAIN undo[i] /\ DOMAIN undo'[i] = 1 .. m /\ m \in 1 .. MaxUndo
        /\ clust'[j].trx_id = i
        /\ \A e \in Keys \ {j} : clust'[e] = clust[e]
    BY <1>10, <2>1, <2>2, RowStepFacts
  <2>4. c # d
    <3>1. m \in DOMAIN undo'[i]
      BY <2>3
    <3> QED
      BY <1>1, <2>1, <2>3, <3>1
  <2>5. i # id /\ clust[j].trx_id # id
    BY <1>1, <2>1, <2>3, <2>4
  <2> QED
    BY <1>4, <1>7, <2>3, <2>5
<1>11. ASSUME NEW c \in Clients, UndoRestore(c) \/ UndoDrop(c) \/ UndoDropMarked(c)
       PROVE  clust'[k] = clust[k] \/ (~IsTop(d) /\ ~(clust'[k].trx_id = id /\ clust'[k].roll.n = n))
  <2>1. PICK j \in Keys : j = Head(work[c].todo).key
    BY <1>5, <1>11, RollbackSteps
  <2>2. /\ \E r : ClustStep(j, r)
        /\ UndoRestore(c) \/ UndoDrop(c) => clust'[j] = Top(c).old
        /\ UndoDropMarked(c) => clust'[j] \in {clust[j], NoRec}
    BY <1>5, <1>11, <2>1, RollbackSteps
  <2>3. CASE j # k
    BY <1>4, <1>9, <2>2, <2>3 DEF ClustStep
  <2>4. CASE j = k /\ UndoDropMarked(c)
    <3>1. Doing(c, "drop_marked")
      BY <2>4 DEF UndoDropMarked
    <3>2. PICK i \in TrxIds : i = trx[c].id
      BY <1>5, <3>1, AtWork, <2>4, ActiveFacts
    <3>3. PICK m : m = Len(undo[i])
      OBVIOUS
    <3>4. /\ IsActive(c) /\ m \in DOMAIN undo[i] /\ Top(c) = undo[i][m]
          /\ clust[k] \in {Top(c).old, NoRec} /\ ~(clust[k].trx_id = i /\ clust[k].roll.n = m)
      BY <1>5, <2>1, <2>4, <3>1, <3>2, <3>3, UndoClustFacts DEF ClustOps
    <3>5. UndoRecOK(i, m, undo[i][m])
      BY <1>5, <3>2, <3>4 DEF VersionsOK
    <3>6. undo[i][m].old.trx_id \in ActiveIds => undo[i][m].old.trx_id = i
      BY <3>5 DEF UndoRecOK
    <3>7. ASSUME IsTop(d)  PROVE FALSE
      <4>1. clust[k].trx_id = id /\ id # 0 /\ id \in ActiveIds
        BY <1>4, <1>7, <3>7 DEF TrxIds
      <4>2. clust[k] = undo[i][m].old
        BY <3>4, <4>1, NoRecFacts
      <4>3. i = id
        BY <3>6, <4>1, <4>2
      <4>4. c = d
        BY <1>1, <3>2, <3>4, <4>3, ActiveFacts
      <4> QED
        BY <1>1, <1>2, <1>7, <3>2, <3>3, <3>4, <3>7, <4>4
    <3>8. clust'[k] = clust[k] \/ clust'[k] = NoRec
      BY <2>2, <2>4
    <3> QED
      BY <1>4, <3>7, <3>8, NoRecFacts DEF TrxIds
  <2>5. CASE j = k /\ (UndoRestore(c) \/ UndoDrop(c))
    <3>1. c # d
      BY <2>5
    <3>2. PICK name \in ClustOps : Doing(c, name)
      BY <2>5 DEF UndoRestore, UndoDrop, ClustOps
    <3>3. PICK i \in TrxIds : i = trx[c].id
      BY <1>5, <2>5, AtWork, ActiveFacts
    <3>4. PICK m : m = Len(undo[i])
      OBVIOUS
    <3>5. IsActive(c) /\ m \in DOMAIN undo[i] /\ Top(c) = undo[i][m] /\ clust[k].trx_id = i
      BY <1>5, <2>1, <2>5, <3>2, <3>3, <3>4, UndoClustFacts DEF ClustOps
    <3>6. i # id
      BY <1>1, <3>1, <3>3, <3>5, ActiveFacts
    <3>7. UndoRecOK(i, m, undo[i][m])
      BY <1>5, <3>3, <3>5 DEF VersionsOK
    <3>8. undo[i][m].old.trx_id \in ActiveIds => undo[i][m].old.trx_id = i
      BY <3>7 DEF UndoRecOK
    <3>9. clust'[k] = undo[i][m].old
      BY <2>2, <2>5, <3>5
    <3> QED
      BY <1>4, <1>7, <3>5, <3>6, <3>8, <3>9
  <2> QED
    BY <1>11, <2>3, <2>4, <2>5
<1>12. CASE PurgeClust
  <2>1. PICK j \in Keys : \E r : ClustStep(j, r) /\ (r = clust[j] \/ Purged(j, r))
    BY <1>5, <1>12, PurgeClustStep
  <2>2. PICK r : ClustStep(j, r) /\ (r = clust[j] \/ Purged(j, r))
    BY <2>1
  <2>3. clust' = [clust EXCEPT ![j] = r]
    BY <2>2 DEF ClustStep
  <2>4. CASE j # k \/ r = clust[j]
    BY <1>4, <1>9, <2>3, <2>4
  <2>5. CASE j = k /\ Purged(j, r)
    <3>1. clust'[k] = NoRec /\ Sees(m_view, clust[k].trx_id)
      BY <1>4, <1>9, <2>3, <2>5 DEF Purged
    <3>2. clust[k].trx_id # id
      BY <1>4, <3>1, PurgeSeesNoActive
    <3> QED
      BY <1>4, <1>7, <3>1, <3>2, NoRecFacts DEF TrxIds
  <2> QED
    BY <2>2, <2>4, <2>5
<1>13. CASE UNCHANGED clust
  BY <1>13
<1>14. ASSUME NEW c \in Clients, ClientNext(c)
       PROVE  \/ \E j \in Keys : \E type, del, val, todo : RowStep(c, j, type, del, val, todo)
              \/ UndoRestore(c) \/ UndoDrop(c) \/ UndoDropMarked(c)
              \/ UNCHANGED clust
  <2>1. ASSUME NEW j \in Keys, NEW v \in Vals, InsertRow(c, j, v) \/ UpdateRow(c, j, v) \/ DeleteRow(c, j)
        PROVE  \E type, del, val, todo : RowStep(c, j, type, del, val, todo)
    BY <1>5, <2>1, RowSteps
  <2>2. ASSUME NEW j \in Keys, DeleteRow(c, j)
        PROVE  \E type, del, val, todo : RowStep(c, j, type, del, val, todo)
    BY <2>1, <2>2, RowAssumption
  <2>3. CASE Begin(c) \/ OpenView(c) \/ NumberTrx(c) \/ EndTrx(c) \/ StartRollback(c) \/ UndoNext(c) \/ UndoPop(c)
    BY <2>3 DEF Begin, OpenView, NumberTrx, EndTrx, StartRollback, UndoNext, UndoPop, rows
  <2>4. CASE SecMark(c) \/ SecInsert(c) \/ UndoSecRemove(c) \/ UndoSecMarkOrRemove(c) \/ UndoSecUnmark(c)
    BY <2>4 DEF SecMark, SecInsert, UndoSecRemove, UndoSecMarkOrRemove, UndoSecUnmark, SetSec
  <2> QED
    BY <1>14, <2>1, <2>2, <2>3, <2>4 DEF ClientNext
<1>15. RunPurge \/ FetchRec \/ EndPurge \/ PurgeSec => UNCHANGED clust
  BY DEF RunPurge, FetchRec, EndPurge, PurgeSec, rows
<1>16. UNCHANGED vars => UNCHANGED clust
  BY DEF vars, rows
<1> QED
  BY <1>10, <1>11, <1>12, <1>13, <1>14, <1>15, <1>16 DEF Next

\* A step of a client leaves the others where they are, and so does purge.
LEMMA ByOthers ==
  ASSUME RInv, MInv, [Next]_vars, NEW c \in Clients
  PROVE  \/ ClientNext(c)
         \/ /\ trx'[c] = trx[c] /\ work'[c] = work[c] /\ (IsActive(c)' <=> IsActive(c))
            /\ IsActive(c) => undo'[trx[c].id] = undo[trx[c].id]
<1>1. TypesOK /\ TodoOK
  BY DEF MInv
<1>2. ASSUME NEW d \in Clients, ClientNext(d), d # c
      PROVE  /\ trx'[c] = trx[c] /\ work'[c] = work[c] /\ (IsActive(c)' <=> IsActive(c))
             /\ IsActive(c) => undo'[trx[c].id] = undo[trx[c].id]
  BY <1>1, <1>2, OthersKept
<1>3. CASE RunPurge \/ FetchRec \/ EndPurge \/ PurgeSec \/ PurgeClust
  BY <1>3, PurgeLeavesWork DEF IsActive
<1>4. CASE UNCHANGED vars
  BY <1>4 DEF vars, rvars, IsActive
<1> QED
  BY <1>2, <1>3, <1>4 DEF Next

\* A version that is reached has not been reverted.
LEMMA ReachedStays ==
  ASSUME RInv, MInv, NEW k \in Keys, NEW r \in Record, r.trx_id # 0,
         \/ r = clust[k]
         \/ \E i \in TrxIds : \E m \in DOMAIN undo[i] : r = undo[i][m].old /\ undo[i][m].key = k
  PROVE  ~Reverted(r.trx_id, r.roll.n)
<1> SUFFICES ASSUME NEW c \in Clients, IsActive(c), trx[c].id = r.trx_id, r.roll.n = Len(undo[r.trx_id]), ~IsTop(c)
             PROVE  FALSE
  BY DEF Reverted
<1>1. PICK id : id = trx[c].id
  OBVIOUS
<1>2. id \in TrxIds /\ id \in ActiveIds
  BY <1>1, ActiveFacts
<1>3. TypesOK /\ VersionsOK
  BY DEF MInv
<1>4. VersionOK(r, k)
  BY <1>3 DEF VersionsOK, UndoRecOK
<1>5. r.roll.n \in DOMAIN undo[id] /\ undo[id][r.roll.n].key = k
  BY <1>1, <1>2, <1>3, <1>4, ActiveVersion
<1>6. undo[id] # << >>
  BY <1>5
<1>7. Top(c).key = k /\ \A m \in DOMAIN undo[id] : m \in Nat /\ m <= Len(undo[id])
  BY <1>1, <1>5, <1>6, TopFacts
<1>8. r # clust[k]
  BY <1>1, <1>7 DEF IsTop
<1>9. PICK i \in TrxIds : \E m \in DOMAIN undo[i] : r = undo[i][m].old
  BY <1>8
<1>10. PICK m \in DOMAIN undo[i] : r = undo[i][m].old
  BY <1>9
<1>11. UndoRecOK(i, m, undo[i][m])
  BY <1>3 DEF VersionsOK
<1>12. i = id /\ r.roll.n < m
  BY <1>1, <1>2, <1>10, <1>11 DEF UndoRecOK
<1> QED
  BY <1>1, <1>7, <1>10, <1>12

\* A rollback that is to undo the next record finds its version.
LEMMA RollsBackTop ==
  ASSUME RInv, MInv, Linked, NEW c \in Clients, IsActive(c), work[c].todo = << >>, undo[trx[c].id] # << >>
  PROVE  IsTop(c)
<1>1. PICK id : id = trx[c].id
  OBVIOUS
<1>2. PICK n : n = Len(undo[id])
  OBVIOUS
<1>3. /\ id \in TrxIds /\ id \in ActiveIds /\ id \in Unpurged /\ n \in DOMAIN undo[id] /\ Top(c) = undo[id][n]
      /\ \A m \in DOMAIN undo[id] : m \in Nat /\ m <= n
      /\ Top(c).key \in Keys /\ n \in Nat
  BY <1>1, <1>2, TopFacts
<1>4. ~Reverted(id, n)
  BY <1>1, ActiveFacts DEF Reverted
<1>5. ASSUME NEW i \in Unpurged, NEW m \in DOMAIN undo[i], Leads(PointerTo(id, n), i, m)
      PROVE  FALSE
  <2>1. i \in TrxIds
    BY DEF Unpurged
  <2>2. UndoRecOK(i, m, undo[i][m])
    BY <2>1 DEF MInv, VersionsOK
  <2>3. undo[i][m].old \in Record /\ undo[i][m].key \in Keys
    BY <2>1, UndoAt DEF MInv, TypesOK
  <2>4. undo[i][m].old.roll = PointerTo(id, n)
    BY <1>5 DEF Leads
  <2>5. undo[i][m].old.trx_id = id /\ undo[i][m].old.roll.n = n
    BY <1>3, <2>2, <2>3, <2>4, PointerFacts DEF UndoRecOK
  <2>6. i = id /\ n < m
    BY <1>3, <2>2, <2>5 DEF UndoRecOK
  <2> QED
    BY <1>3, <2>6
<1>6. clust[undo[id][n].key].roll = PointerTo(id, n)
  BY <1>3, <1>4, <1>5 DEF Linked
<1> QED
  BY <1>1, <1>2, <1>3, <1>6, IsTopMeaning

\* Lists of work: the head and the rest.
LEMMA TodoFacts ==
  ASSUME MInv, NEW c \in Clients, work[c].todo # << >>, NEW s, s = work[c].todo
  PROVE  /\ s \in Seq(RowOp) /\ OrderOK(s) /\ IsActive(c)
         /\ 1 \in DOMAIN s /\ Head(s) = s[1] /\ Head(s) \in RowOp /\ Tail(s) \in Seq(RowOp)
         /\ \A i \in DOMAIN Tail(s) : i \in Nat /\ i + 1 \in DOMAIN s /\ Tail(s)[i] = s[i + 1]
         /\ \A j \in DOMAIN s : j # 1 => j - 1 \in DOMAIN Tail(s) /\ Tail(s)[j - 1] = s[j]
         /\ Head(s).op \in {"mark", "insert"} <=> ~work[c].rolling
         /\ \A names : Has(Tail(s), names) => Has(s, names)
         /\ \A names : Head(s).op \notin names /\ Has(s, names) => Has(Tail(s), names)
         /\ \A names : Has(Tail(s), names) => Tail(s) # << >>
         /\ Head(s).op \in ClustOps \cup {"drop_marked"} => ~Has(Tail(s), ClustOps)
<1>1. TypesOK /\ WorkOK(c)
  BY DEF MInv, TodoOK
<1>2. s \in Seq(RowOp)
  BY <1>1 DEF TypesOK, Work
<1>3. OrderOK(s) /\ IsActive(c) /\ \A i \in DOMAIN s : s[i].op \in {"mark", "insert"} <=> ~work[c].rolling
  BY <1>1 DEF WorkOK
<1>4. /\ 1 \in DOMAIN s /\ Head(s) = s[1] /\ Head(s) \in RowOp /\ Tail(s) \in Seq(RowOp)
      /\ \A i \in DOMAIN Tail(s) : i \in Nat /\ i + 1 \in DOMAIN s /\ Tail(s)[i] = s[i + 1]
      /\ \A j \in DOMAIN s : j # 1 => j - 1 \in DOMAIN Tail(s) /\ Tail(s)[j - 1] = s[j]
  BY <1>2, TailFacts
<1>5. /\ \A names : Has(Tail(s), names) => Has(s, names)
      /\ \A names : Head(s).op \notin names /\ Has(s, names) => Has(Tail(s), names)
      /\ Head(s).op \in ClustOps \cup {"drop_marked"} => ~Has(Tail(s), ClustOps)
  BY <1>2, <1>3, RestOfList
<1>6. \A names : Has(Tail(s), names) => Tail(s) # << >>
  BY DEF Has
<1> QED
  BY <1>2, <1>3, <1>4, <1>5, <1>6

\* A step of a client that rolls back.
LEMMA RollingStep ==
  ASSUME RInv, MInv, BusyOK, NEW c \in Clients, ClientNext(c), work[c].rolling, IsActive(c)
  PROVE  \/ NumberTrx(c) \/ EndTrx(c)
         \/ UndoNext(c) \/ UndoSecRemove(c) \/ UndoSecMarkOrRemove(c) \/ UndoSecUnmark(c)
         \/ UndoRestore(c) \/ UndoDrop(c) \/ UndoDropMarked(c) \/ UndoPop(c)
<1>1. ~Begin(c) /\ ~OpenView(c) /\ ~StartRollback(c)
  BY DEF Begin, start_low, OpenView, StartRollback, IsActive
<1>2. \A k \in Keys : ~CanWrite(c, k)
  BY DEF CanWrite
<1>3. ~SecMark(c) /\ ~SecInsert(c)
  BY TodoFacts DEF SecMark, SecInsert, Doing
<1> QED
  BY <1>1, <1>2, <1>3 DEF ClientNext, InsertRow, UpdateRow, DeleteRow

\* The list of work of a client after one of its steps.
LEMMA WorkSteps ==
  ASSUME RInv, MInv, NEW c \in Clients
  PROVE  /\ \/ SecMark(c) \/ SecInsert(c) \/ UndoSecRemove(c) \/ UndoSecMarkOrRemove(c) \/ UndoSecUnmark(c)
            \/ UndoRestore(c) \/ UndoDrop(c) \/ UndoDropMarked(c)
            => /\ work[c].todo # << >> /\ work'[c].todo = Tail(work[c].todo) /\ work'[c].rolling = work[c].rolling
               /\ UNCHANGED <<m_max_trx_id, trx, m_view_list, m_view, history, undo, rseg_last, purge>>
               /\ \A d \in Clients \ {c} : work'[d] = work[d]
         /\ UndoPop(c) => /\ work[c].todo # << >> /\ work'[c].todo = << >> /\ work'[c].rolling = work[c].rolling
                          /\ \A d \in Clients \ {c} : work'[d] = work[d]
         /\ UndoNext(c) => /\ work[c].todo = << >> /\ work[c].rolling /\ work'[c].rolling
                           /\ IsActive(c) /\ undo[trx[c].id] # << >>
                           /\ \A d \in Clients \ {c} : work'[d] = work[d]
         /\ StartRollback(c) => /\ ~work[c].rolling /\ work'[c].todo = << >> /\ work'[c].rolling
                                /\ IsActive(c) /\ trx[c].no = LsnMax /\ undo[trx[c].id] # << >>
                                /\ \A d \in Clients \ {c} : work'[d] = work[d]
         /\ StartRollback(c) \/ UndoNext(c) =>
                UNCHANGED <<m_max_trx_id, trx, m_view_list, m_view, history, undo, rseg_last, purge, clust, sec,
                            max_trx_id, stopped>>
<1>1. work \in [Clients -> Work]
  BY DEF MInv, TypesOK
<1>2. ASSUME \/ SecMark(c) \/ SecInsert(c) \/ UndoSecRemove(c) \/ UndoSecMarkOrRemove(c) \/ UndoSecUnmark(c)
             \/ UndoRestore(c) \/ UndoDrop(c) \/ UndoDropMarked(c)
      PROVE  /\ work[c].todo # << >> /\ work'[c].todo = Tail(work[c].todo) /\ work'[c].rolling = work[c].rolling
             /\ UNCHANGED <<m_max_trx_id, trx, m_view_list, m_view, history, undo, rseg_last, purge>>
             /\ \A d \in Clients \ {c} : work'[d] = work[d]
  <2>1. work[c].todo # << >>
    BY <1>2 DEF SecMark, SecInsert, UndoSecRemove, UndoSecMarkOrRemove, UndoSecUnmark, UndoRestore, UndoDrop,
                UndoDropMarked, Doing
  <2>2. /\ work' = [work EXCEPT ![c].todo = Tail(@)]
        /\ UNCHANGED <<rvars, undo, rseg_last, purge>>
    BY <1>2 DEF SecMark, SecInsert, UndoSecRemove, UndoSecMarkOrRemove, UndoSecUnmark, UndoRestore, UndoDrop,
                UndoDropMarked, SetSec, SetClust
  <2> QED
    BY <1>1, <2>1, <2>2 DEF Work, rvars
<1>3. ASSUME UndoPop(c)
      PROVE  /\ work[c].todo # << >> /\ work'[c].todo = << >> /\ work'[c].rolling = work[c].rolling
             /\ \A d \in Clients \ {c} : work'[d] = work[d]
  <2>1. work[c].todo # << >> /\ work' = [work EXCEPT ![c].todo = << >>]
    BY <1>3 DEF UndoPop, Doing
  <2> QED
    BY <1>1, <2>1 DEF Work
<1>4. ASSUME UndoNext(c)
      PROVE  /\ work[c].todo = << >> /\ work[c].rolling /\ work'[c].rolling
             /\ IsActive(c) /\ undo[trx[c].id] # << >>
             /\ \A d \in Clients \ {c} : work'[d] = work[d]
  <2>1. /\ work[c].todo = << >> /\ work[c].rolling /\ IsActive(c) /\ undo[trx[c].id] # << >>
        /\ \E t : work' = [work EXCEPT ![c].todo = t]
    BY <1>4 DEF UndoNext
  <2> QED
    BY <1>1, <2>1 DEF Work
<1>5. ASSUME StartRollback(c)
      PROVE  /\ ~work[c].rolling /\ work'[c].todo = << >> /\ work'[c].rolling
             /\ IsActive(c) /\ trx[c].no = LsnMax /\ undo[trx[c].id] # << >>
             /\ \A d \in Clients \ {c} : work'[d] = work[d]
  <2>1. /\ ~work[c].rolling /\ IsActive(c) /\ trx[c].no = LsnMax /\ undo[trx[c].id] # << >>
        /\ work' = [work EXCEPT ![c].rolling = TRUE, ![c].todo = << >>]
    BY <1>5 DEF StartRollback
  <2> QED
    BY <1>1, <2>1 DEF Work
<1>6. ASSUME StartRollback(c) \/ UndoNext(c)
      PROVE  UNCHANGED <<m_max_trx_id, trx, m_view_list, m_view, history, undo, rseg_last, purge, clust, sec,
                         max_trx_id, stopped>>
  BY <1>6 DEF StartRollback, UndoNext, rvars, rows
<1> QED
  BY <1>2, <1>3, <1>4, <1>5, <1>6

\* The client behind a reverted record.
LEMMA RevertedFacts ==
  ASSUME RInv, MInv, NEW c \in Clients, IsActive(c), undo[trx[c].id] # << >>
  PROVE  Reverted(trx[c].id, Len(undo[trx[c].id])) <=> work[c].rolling /\ work[c].todo # << >> /\ ~IsTop(c)
  BY ActiveFacts DEF Reverted

\* A record that has been reverted stays so until it is popped.
LEMMA RevertedStays ==
  ASSUME RInv, PurgePositionOK, MInv, BusyOK, [Next]_vars, NEW id \in TrxIds, NEW n \in DOMAIN undo[id],
         n \in DOMAIN undo'[id], Reverted(id, n)
  PROVE  Reverted(id, n)'
<1>1. PICK c \in Clients : /\ IsActive(c) /\ trx[c].id = id /\ n = Len(undo[id])
                           /\ work[c].rolling /\ work[c].todo # << >> /\ ~IsTop(c)
  BY DEF Reverted
<1>2. TypesOK /\ VersionsOK /\ TodoOK /\ LocksOK
  BY DEF MInv
<1>3. ~UndoRestore(c) /\ ~UndoDrop(c)
  <2> SUFFICES ASSUME NEW name \in ClustOps, Doing(c, name)  PROVE FALSE
    BY DEF UndoRestore, UndoDrop, ClustOps
  <2>1. PICK k : k = Head(work[c].todo).key
    OBVIOUS
  <2>2. Top(c).key = k /\ clust[k].trx_id = id /\ clust[k].roll.n = n
    BY <1>1, <1>2, <2>1, UndoClustFacts DEF ClustOps
  <2> QED
    BY <1>1, <2>2 DEF IsTop
<1>4. ~UndoPop(c)
  BY <1>1, <1>2, PopFacts
<1>5. undo[id] # << >>
  OBVIOUS
<1>6. ~UndoSecRemove(c) /\ ~UndoSecMarkOrRemove(c) /\ ~UndoSecUnmark(c)
  <2> SUFFICES ASSUME NEW name \in SecOps, Doing(c, name)  PROVE FALSE
    BY DEF UndoSecRemove, UndoSecMarkOrRemove, UndoSecUnmark, SecOps
  <2>1. 1 \in DOMAIN work[c].todo /\ work[c].todo[1].op \in SecOps
    BY <1>1, TodoFacts DEF Doing
  <2>2. Has(work[c].todo, SecOps)
    BY <2>1 DEF Has
  <2> QED
    BY <1>1, <2>2 DEF BusyOK, AtWorkOK
<1>7. CASE UndoDropMarked(c)
  <2>1. UNCHANGED <<trx, undo>> /\ work'[c].todo = Tail(work[c].todo) /\ work'[c].rolling
    BY <1>1, <1>7, WorkSteps
  <2>2. Has(work[c].todo, {"pop"}) /\ Head(work[c].todo).op = "drop_marked"
    BY <1>1, <1>7 DEF BusyOK, AtWorkOK, UndoDropMarked, Doing
  <2>3. work'[c].todo # << >>
    BY <1>1, <2>1, <2>2, TodoFacts
  <2>4. ~IsTop(c)'
    BY <1>1, <1>3, <1>5, <2>1, TopKept
  <2> QED
    BY <1>1, <2>1, <2>3, <2>4 DEF Reverted, IsActive
<1>8. CASE trx'[c] = trx[c] /\ work'[c] = work[c] /\ IsActive(c)' /\ undo'[id] = undo[id]
  <2>1. ~IsTop(c)'
    BY <1>1, <1>3, <1>5, <1>8, TopKept
  <2> QED
    BY <1>1, <1>8, <2>1 DEF Reverted
<1>9. ~NumberTrx(c) /\ ~EndTrx(c) /\ ~UndoNext(c)
  BY <1>1 DEF NumberTrx, EndTrx, UndoNext, Ending
<1> QED
  BY <1>1, <1>3, <1>4, <1>6, <1>7, <1>8, <1>9, ByOthers, RollingStep

\* A record becomes reverted when its client puts the old version back.
LEMMA RevertedBefore ==
  ASSUME RInv, PurgePositionOK, MInv, BusyOK, Linked, [Next]_vars, NEW id \in TrxIds, NEW n \in DOMAIN undo[id],
         n \in DOMAIN undo'[id], Reverted(id, n)', ~Reverted(id, n)
  PROVE  \E c \in Clients : /\ UndoRestore(c) \/ UndoDrop(c)
                            /\ IsActive(c) /\ trx[c].id = id /\ n = Len(undo[id])
<1>1. PICK c \in Clients : /\ IsActive(c)' /\ trx'[c].id = id /\ n = Len(undo'[id])
                           /\ work'[c].rolling /\ work'[c].todo # << >> /\ ~IsTop(c)'
  BY DEF Reverted
<1>2. TypesOK /\ VersionsOK /\ TodoOK /\ LocksOK
  BY DEF MInv
<1>3. undo[id] # << >>
  OBVIOUS
<1>4. ASSUME IsActive(c), trx[c].id = id, undo'[id] = undo[id], ~UndoRestore(c), ~UndoDrop(c)
      PROVE  ~IsTop(c) /\ n = Len(undo[id])
  BY <1>1, <1>3, <1>4, TopKept
<1>5. CASE UndoRestore(c) \/ UndoDrop(c)
  <2>1. UNCHANGED <<trx, undo>>
    BY <1>5, WorkSteps
  <2>2. IsActive(c)
    BY <1>1, <2>1 DEF IsActive
  <2> QED
    BY <1>1, <1>5, <2>1, <2>2
<1>6. CASE ~UndoRestore(c) /\ ~UndoDrop(c)
  <2>1. CASE trx'[c] = trx[c] /\ work'[c] = work[c] /\ (IsActive(c)' <=> IsActive(c))
             /\ (IsActive(c) => undo'[trx[c].id] = undo[trx[c].id])
    <3>1. IsActive(c) /\ trx[c].id = id /\ undo'[id] = undo[id]
      BY <1>1, <2>1
    <3>2. ~IsTop(c) /\ n = Len(undo[id])
      BY <1>4, <1>6, <3>1
    <3> QED
      BY <1>1, <2>1, <3>1, <3>2 DEF Reverted
  <2>2. CASE ClientNext(c)
    <3>1. ~Begin(c) /\ ~EndTrx(c)
      BY <1>1, <1>2, BeginFacts, EndTrxFacts DEF Idle
    <3>2. ASSUME NEW k \in Keys, NEW type, NEW del, NEW val, NEW todo, RowStep(c, k, type, del, val, todo)
          PROVE  FALSE
      BY <1>1, <3>2, RowStepFacts
    <3>3. IsActive(c) /\ trx'[c].id = trx[c].id
      <4>1. GoesOn(c)
        BY <1>2, <2>2, <3>1, <3>2, ClientKinds
      <4> QED
        BY <4>1 DEF GoesOn
    <3>4. ~OpenView(c) /\ ~NumberTrx(c)
      BY <1>1 DEF OpenView, NumberTrx, Ending
    <3>5. work[c].rolling /\ ~StartRollback(c)
      <4>1. ~StartRollback(c)
        BY <1>1, WorkSteps
      <4>2. ASSUME NEW k \in Keys, NEW v \in Vals, InsertRow(c, k, v) \/ UpdateRow(c, k, v)  PROVE FALSE
        BY <1>2, <3>2, <4>2, RowSteps
      <4>3. ASSUME NEW k \in Keys, DeleteRow(c, k)  PROVE FALSE
        BY <1>2, <3>2, <4>3, RowSteps, RowAssumption
      <4> QED
        BY <1>1, <1>6, <2>2, <3>1, <3>4, <4>1, <4>2, <4>3, WorkSteps DEF ClientNext
    <3>6. \/ UndoNext(c) \/ UndoSecRemove(c) \/ UndoSecMarkOrRemove(c) \/ UndoSecUnmark(c)
          \/ UndoDropMarked(c) \/ UndoPop(c)
      BY <1>6, <2>2, <3>1, <3>3, <3>4, <3>5, RollingStep
    <3>7. CASE UndoPop(c)
      BY <1>1, <3>7, WorkSteps
    <3>8. CASE UndoNext(c)
      <4>1. IsTop(c)
        BY <1>3, <3>8, WorkSteps, RollsBackTop
      <4>2. UNCHANGED <<trx, undo>>
        BY <3>8, WorkSteps
      <4> QED
        BY <1>1, <1>4, <1>6, <3>3, <4>1, <4>2
    <3>9. CASE UndoSecRemove(c) \/ UndoSecMarkOrRemove(c) \/ UndoSecUnmark(c)
      <4>1. UNCHANGED <<trx, undo>> /\ work[c].todo # << >>
        BY <3>9, WorkSteps
      <4>2. Head(work[c].todo).op \in SecOps
        BY <3>9 DEF UndoSecRemove, UndoSecMarkOrRemove, UndoSecUnmark, Doing, SecOps
      <4>3. Has(work[c].todo, SecOps)
        BY <4>1, <4>2, TodoFacts DEF Has
      <4>4. IsTop(c)
        BY <3>5, <4>3 DEF BusyOK, AtWorkOK
      <4> QED
        BY <1>1, <1>4, <1>6, <3>3, <4>1, <4>4
    <3>10. CASE UndoDropMarked(c)
      <4>1. UNCHANGED <<trx, undo>> /\ work[c].todo # << >>
        BY <3>10, WorkSteps
      <4>2. ~IsTop(c) /\ n = Len(undo[id])
        BY <1>1, <1>4, <1>6, <3>3, <4>1
      <4> QED
        BY <1>1, <3>3, <3>5, <4>1, <4>2 DEF Reverted
    <3> QED
      BY <3>6, <3>7, <3>8, <3>9, <3>10
  <2> QED
    BY <2>1, <2>2, ByOthers
<1> QED
  BY <1>5, <1>6

-----------------------------------------------------------------------------
(* The versions that purge must leave alone.                               *)

\* The parts of a pointer.
LEMMA PointerParts ==
  ASSUME NEW id, NEW n
  PROVE  /\ PointerTo(id, n).trx = id /\ PointerTo(id, n).n = n
         /\ PointerTo(id, n).ins <=> undo[id][n].type = "insert"
<1>1. PICK b \in BOOLEAN : b = (undo[id][n].type = "insert")
  OBVIOUS
<1>2. PointerTo(id, n) = [trx |-> id, n |-> n, ins |-> b]
  BY <1>1 DEF PointerTo
<1>3. PointerTo(id, n).trx = id /\ PointerTo(id, n).n = n /\ PointerTo(id, n).ins = b
  BY <1>2
<1> QED
  BY <1>1, <1>3

\* Updates of key k that purge must leave alone, and that have not been
\* undone.
IsKept(k, id, n) ==
    /\ id \in Unpurged /\ n \in DOMAIN undo[id]
    /\ undo[id][n].type # "insert" /\ ~Reverted(id, n) /\ undo[id][n].key = k

\* The way up from such an update ends at the clustered index.
LEMMA TopReached ==
  ASSUME RInv, MInv, Linked, NEW k \in Keys, NEW S, S # {},
         \A x \in S : \E id \in TrxIds : \E n \in DOMAIN undo[id] : x = <<id, n>> /\ IsKept(k, id, n),
         \A id \in TrxIds : \A n \in DOMAIN undo[id] : \A i \in Unpurged : \A m \in DOMAIN undo[i] :
             <<id, n>> \in S /\ IsKept(k, id, n) /\ IsKept(k, i, m) /\ undo[i][m].old.roll = PointerTo(id, n)
                 => <<i, m>> \in S
  PROVE  \E id \in TrxIds : \E n \in DOMAIN undo[id] :
             <<id, n>> \in S /\ IsKept(k, id, n) /\ clust[k].roll = PointerTo(id, n)
<1>1. TypesOK /\ UndoBounded /\ VersionsOK /\ Acyclic
  BY DEF MInv
<1>2. PICK d \in [TrxIds -> [Nat -> Nat]] :
          \A id \in TrxIds : \A n \in DOMAIN undo[id] : d[id][n] = 1 + DepthOf(d, undo[id][n].old)
  BY <1>1 DEF Acyclic
<1>3. ASSUME NEW id \in TrxIds, NEW n \in DOMAIN undo[id]
      PROVE  /\ d[id][n] \in Nat /\ MaxUndo + 1 - d[id][n] \in Nat
             /\ undo[id][n].old \in Record /\ VersionOK(undo[id][n].old, undo[id][n].key) /\ undo[id][n].key \in Keys
  <2>1. undo[id][n].old \in Record /\ undo[id][n].key \in Keys /\ n \in Nat
    <3>1. undo \in [TrxIds -> Seq(UndoRec)]
      BY <1>1 DEF TypesOK
    <3>2. DOMAIN undo[id] = 1 .. Len(undo[id]) /\ Len(undo[id]) \in Nat /\ undo[id][n].old \in Record /\ undo[id][n].key \in Keys
      BY <3>1, UndoAt
    <3>3. n \in 1 .. Len(undo[id])
      BY <3>2
    <3>4. PICK top \in Nat : top = Len(undo[id])
      BY <3>2
    <3>5. n \in Nat
      BY <3>3, <3>4
    <3> QED
      BY <3>2, <3>5
  <2>2. VersionOK(undo[id][n].old, undo[id][n].key)
    BY <1>1 DEF VersionsOK, UndoRecOK
  <2>3. DepthOf(d, undo[id][n].old) \in 0 .. MaxUndo
    BY <1>1, <1>2, <2>1, <2>2, DepthBounded
  <2>4. d[id][n] = 1 + DepthOf(d, undo[id][n].old)
    BY <1>2
  <2> QED
    BY <2>1, <2>2, <2>3, <2>4, RowAssumption
<1>4. PICK T : T = {m \in Nat : \E id \in TrxIds : \E n \in DOMAIN undo[id] :
                                    <<id, n>> \in S /\ IsKept(k, id, n) /\ m = MaxUndo + 1 - d[id][n]}
  OBVIOUS
<1>5. T \in SUBSET Nat /\ T # {}
  <2>1. PICK x \in S : TRUE
    OBVIOUS
  <2>2. PICK id \in TrxIds : \E n \in DOMAIN undo[id] : x = <<id, n>> /\ IsKept(k, id, n)
    OBVIOUS
  <2>3. PICK n \in DOMAIN undo[id] : x = <<id, n>> /\ IsKept(k, id, n)
    BY <2>2
  <2>4. MaxUndo + 1 - d[id][n] \in T
    BY <1>3, <1>4, <2>3
  <2> QED
    BY <1>4, <2>4
<1>6. PICK least \in T : Smallest(T, least)
  BY <1>5, SmallestExists
<1>7. PICK id \in TrxIds : \E n \in DOMAIN undo[id] :
          <<id, n>> \in S /\ IsKept(k, id, n) /\ least = MaxUndo + 1 - d[id][n]
  BY <1>4, <1>6
<1>8. PICK n \in DOMAIN undo[id] : <<id, n>> \in S /\ IsKept(k, id, n) /\ least = MaxUndo + 1 - d[id][n]
  BY <1>7
<1>9. ASSUME NEW i \in Unpurged, NEW m \in DOMAIN undo[i], Leads(PointerTo(id, n), i, m), undo[i][m].key = k
      PROVE  FALSE
  <2>1. i \in TrxIds
    BY DEF Unpurged
  <2>2. undo[i][m].old.roll = PointerTo(id, n) /\ ~Reverted(i, m)
    BY <1>9 DEF Leads
  <2>3. ~undo[i][m].old.roll.ins /\ undo[i][m].old.roll.trx = id /\ undo[i][m].old.roll.n = n
    BY <1>8, <2>2, PointerParts DEF IsKept
  <2>4. undo[i][m].type # "insert"
    <3>1. UndoRecOK(i, m, undo[i][m])
      BY <1>1, <2>1 DEF VersionsOK
    <3>2. undo[i][m].type = "insert" => undo[i][m].old = NoRec
      BY <3>1 DEF UndoRecOK
    <3> QED
      BY <2>3, <3>2, NoRecFacts, RecordFacts
  <2>5. IsKept(k, i, m)
    BY <1>9, <2>2, <2>4 DEF IsKept
  <2>6. <<i, m>> \in S
    BY <1>8, <2>2, <2>5
  <2>7. d[i][m] = 1 + d[id][n]
    BY <1>2, <2>1, <2>3 DEF DepthOf
  <2>8. MaxUndo + 1 - d[i][m] \in T
    BY <1>3, <1>4, <2>1, <2>5, <2>6
  <2>9. least <= MaxUndo + 1 - d[i][m]
    BY <1>6, <2>8 DEF Smallest
  <2>10. d[id][n] \in Nat
    BY <1>3
  <2> QED
    BY <1>8, <2>7, <2>9, <2>10, RowAssumption
<1>10. clust[undo[id][n].key].roll = PointerTo(id, n)
  BY <1>8, <1>9 DEF Linked, IsKept
<1> QED
  BY <1>8, <1>10 DEF IsKept

\* What one round of the search of old_has_index_entry finds.
Needs(rec, v) == ~rec.del /\ rec.val = v
More(rec) == ~rec.roll.ins /\ update_undo_must_exist(rec.trx_id)

IsSearch(f, v) ==
    \A p \in UndoPointers : f[p] <=> Needs(OldRec(p), v) \/ (More(OldRec(p)) /\ f[OldRec(p).roll])

\* The search ends: its rounds define a function.
LEMMA SearchExists ==
  ASSUME MInv, NEW v
  PROVE  \E f : f = [p \in UndoPointers |-> Needs(OldRec(p), v) \/ (More(OldRec(p)) /\ f[OldRec(p).roll])]
<1> DEFINE Closed(S) == \A p \in UndoPointers :
                            Needs(OldRec(p), v) \/ (More(OldRec(p)) /\ OldRec(p).roll \in S) => p \in S
           L == {p \in UndoPointers : \A S \in SUBSET UndoPointers : Closed(S) => p \in S}
           F == {p \in UndoPointers : Needs(OldRec(p), v) \/ (More(OldRec(p)) /\ OldRec(p).roll \in L)}
           f == [p \in UndoPointers |-> p \in L]
<1>1. Closed(L)
  OBVIOUS
<1>2. F \in SUBSET UndoPointers /\ Closed(F)
  <2>1. F \subseteq L
    BY <1>1
  <2> QED
    BY <2>1
<1>3. ASSUME NEW p \in UndoPointers
      PROVE  p \in L <=> Needs(OldRec(p), v) \/ (More(OldRec(p)) /\ OldRec(p).roll \in L)
  BY <1>1, <1>2
<1>4. ASSUME NEW p \in UndoPointers, More(OldRec(p))  PROVE OldRec(p).roll \in UndoPointers
  <2>1. PICK id \in TrxIds : id = p.trx
    BY DEF UndoPointers, Pointers
  <2>2. PICK n \in DOMAIN undo[id] : n = p.n
    BY <2>1 DEF UndoPointers
  <2>3. OldRec(p) = undo[id][n].old
    BY <2>1, <2>2 DEF OldRec
  <2>4. undo[id][n].old \in Record /\ VersionOK(undo[id][n].old, undo[id][n].key)
    BY UndoAt DEF MInv, TypesOK, VersionsOK, UndoRecOK
  <2>5. ~undo[id][n].old.roll.ins
    BY <1>4, <2>3 DEF More
  <2>6. undo[id][n].old.trx_id # 0
    BY <2>4, <2>5, RecordFacts
  <2> QED
    BY <2>3, <2>4, <2>5, <2>6, RecordFacts DEF VersionOK, UndoPointers
<1> HIDE DEF L, F, Closed
<1>5. ASSUME NEW p \in UndoPointers
      PROVE  (p \in L) = (Needs(OldRec(p), v) \/ (More(OldRec(p)) /\ f[OldRec(p).roll]))
  <2>1. More(OldRec(p)) => (f[OldRec(p).roll] <=> OldRec(p).roll \in L)
    BY <1>4
  <2> QED
    BY <1>3, <2>1
<1>6. f = [p \in UndoPointers |-> Needs(OldRec(p), v) \/ (More(OldRec(p)) /\ f[OldRec(p).roll])]
  <2> HIDE DEF f
  <2>1. [p \in UndoPointers |-> p \in L] = [p \in UndoPointers |-> Needs(OldRec(p), v) \/ (More(OldRec(p)) /\ f[OldRec(p).roll])]
    BY <1>5
  <2> QED
    BY <2>1 DEF f
<1> QED
  BY <1>6

\* What old_has_index_entry answers.
LEMMA OldHasMeaning ==
  ASSUME MInv, NEW k \in Keys, NEW v
  PROVE  \E f : /\ IsSearch(f, v)
                /\ old_has_index_entry(TRUE, k, v) <=>
                       Needs(clust[k], v) \/ (More(clust[k]) /\ f[clust[k].roll])
<1> DEFINE G(f) == [p \in UndoPointers |-> Needs(OldRec(p), v) \/ (More(OldRec(p)) /\ f[OldRec(p).roll])]
<1>1. PICK f : f = CHOOSE g : g = G(g)
  OBVIOUS
<1>2. \E g : g = G(g)
  BY SearchExists
<1>3. f = G(f)
  BY <1>1, <1>2
<1>4. IsSearch(f, v)
  BY <1>3 DEF IsSearch
<1>5. old_has_index_entry(TRUE, k, v) <=> Needs(clust[k], v) \/ (More(clust[k]) /\ f[clust[k].roll])
  BY <1>1 DEF old_has_index_entry, Needs, More
<1> QED
  BY <1>4, <1>5

\* An update that purge must leave alone keeps the entry of the version it
\* has replaced.
LEMMA KeptIsFound ==
  ASSUME RInv, MInv, Linked, NEW id \in Unpurged, NEW n \in DOMAIN undo[id], NEW k, k = undo[id][n].key,
         NEW v \in Vals, RowOf(undo[id][n].old) = v, ~Reverted(id, n)
  PROVE  k \in Keys /\ clust[k] # NoRec /\ ~clust[k].roll.ins /\ old_has_index_entry(TRUE, k, v)
<1>1. TypesOK /\ VersionsOK
  BY DEF MInv
<1>2. undo \in [TrxIds -> Seq(UndoRec)] /\ clust \in [Keys -> Record]
  BY <1>1 DEF TypesOK
<1>3. id \in TrxIds /\ Unpurged \subseteq TrxIds
  BY DEF Unpurged
<1>4. k \in Keys /\ UndoRecOK(id, n, undo[id][n]) /\ undo[id][n].old \in Record
  BY <1>1, <1>2, <1>3, UndoAt DEF VersionsOK
<1>5. undo[id][n].old # NoRec /\ undo[id][n].type # "insert"
  BY <1>4, NoRecFacts, RowAssumption DEF UndoRecOK
<1>6. IsKept(k, id, n)
  BY <1>5 DEF IsKept
<1>7. PICK f : /\ IsSearch(f, v)
               /\ old_has_index_entry(TRUE, k, v) <=> Needs(clust[k], v) \/ (More(clust[k]) /\ f[clust[k].roll])
  BY <1>4, OldHasMeaning
<1> DEFINE S == {x \in TrxIds \X Nat : IsKept(k, x[1], x[2]) /\ f[PointerTo(x[1], x[2])]}
<1>8. ASSUME NEW i \in Unpurged, NEW m \in DOMAIN undo[i]
      PROVE  /\ i \in TrxIds /\ m \in Nat /\ PointerTo(i, m) \in UndoPointers /\ OldRec(PointerTo(i, m)) = undo[i][m].old
             /\ undo[i][m].old \in Record
             /\ UndoRecOK(i, m, undo[i][m])
  <2>1. i \in TrxIds
    BY <1>3
  <2>2. DOMAIN undo[i] = 1 .. Len(undo[i]) /\ Len(undo[i]) \in Nat /\ undo[i][m].old \in Record
    BY <1>2, <2>1, UndoAt
  <2>3. m \in Nat /\ m \in 1 .. Len(undo[i]) /\ Len(undo[i]) <= MaxUndo
    BY <2>1, <2>2 DEF MInv, UndoBounded
  <2>4. m \in 1 .. MaxUndo
    BY <2>2, <2>3, RowAssumption
  <2>5. PICK b \in BOOLEAN : b = (undo[i][m].type = "insert")
    OBVIOUS
  <2>6. PointerTo(i, m) = [trx |-> i, n |-> m, ins |-> b]
    BY <2>5 DEF PointerTo
  <2>7. PointerTo(i, m) \in Pointers
    BY <2>1, <2>4, <2>6 DEF Pointers
  <2>8. PointerTo(i, m).trx = i /\ PointerTo(i, m).n = m
    BY <2>6
  <2> QED
    BY <1>1, <2>1, <2>2, <2>3, <2>7, <2>8 DEF UndoPointers, OldRec, VersionsOK
<1>9. <<id, n>> \in S
  <2>1. Needs(undo[id][n].old, v)
    BY RowAssumption DEF RowOf, Needs
  <2>2. f[PointerTo(id, n)]
    BY <1>7, <1>8, <2>1 DEF IsSearch
  <2> QED
    BY <1>6, <1>8, <2>2
<1>10. ASSUME NEW j \in TrxIds, NEW l \in DOMAIN undo[j], NEW i \in Unpurged, NEW m \in DOMAIN undo[i],
              <<j, l>> \in S, IsKept(k, j, l), IsKept(k, i, m), undo[i][m].old.roll = PointerTo(j, l)
       PROVE  <<i, m>> \in S
  <2>1. f[PointerTo(j, l)]
    BY <1>10
  <2>2. undo[i][m].old.trx_id = j /\ ~undo[i][m].old.roll.ins
    <3>1. VersionOK(undo[i][m].old, undo[i][m].key) /\ undo[i][m].key \in Keys /\ undo[i][m].old \in Record
      BY <1>2, <1>3, <1>8, UndoAt DEF UndoRecOK
    <3>2. undo[i][m].old.trx_id = j
      BY <1>10, <3>1, PointerFacts
    <3> QED
      BY <1>10, <3>2, PointerParts DEF IsKept
  <2>3. update_undo_must_exist(j)
    BY <1>10, PurgeViewMeaning DEF IsKept, Unpurged
  <2>4. More(undo[i][m].old)
    BY <2>2, <2>3 DEF More
  <2>5. f[PointerTo(i, m)]
    BY <1>7, <1>8, <1>10, <2>1, <2>4 DEF IsSearch
  <2> QED
    BY <1>8, <1>10, <2>5
<1>11. \A x \in S : \E i \in TrxIds : \E m \in DOMAIN undo[i] : x = <<i, m>> /\ IsKept(k, i, m)
  BY DEF IsKept
<1> HIDE DEF S
<1>12. PICK i \in TrxIds : \E m \in DOMAIN undo[i] :
           <<i, m>> \in S /\ IsKept(k, i, m) /\ clust[k].roll = PointerTo(i, m)
  <2>1. S # {}
    BY <1>9
  <2> QED
    BY <1>4, <1>10, <1>11, <2>1, TopReached
<1>13. PICK m \in DOMAIN undo[i] : <<i, m>> \in S /\ IsKept(k, i, m) /\ clust[k].roll = PointerTo(i, m)
  BY <1>12
<1>14. clust[k].trx_id = i /\ ~clust[k].roll.ins
  <2>1. VersionOK(clust[k], k) /\ clust[k] \in Record
    BY <1>1, <1>2, <1>4 DEF VersionsOK
  <2>2. clust[k].trx_id = i
    BY <1>4, <1>13, <2>1, PointerFacts
  <2> QED
    BY <1>13, <2>2, PointerParts DEF IsKept
<1>15. More(clust[k])
  BY <1>13, <1>14, PurgeViewMeaning DEF IsKept, Unpurged, More
<1>16. f[clust[k].roll]
  BY <1>13 DEF S
<1>17. clust[k] # NoRec
  BY <1>14, NoRecFacts DEF TrxIds
<1> QED
  BY <1>4, <1>7, <1>14, <1>15, <1>16, <1>17

\* Nothing that purge must leave alone is below an insert.
LEMMA NothingBelow ==
  ASSUME RInv, MInv, Linked, NEW id \in Unpurged, NEW n \in DOMAIN undo[id],
         RowOf(undo[id][n].old) # 0, ~Reverted(id, n)
  PROVE  ~clust[undo[id][n].key].roll.ins
<1>1. id \in TrxIds /\ undo[id][n].old \in Record
  BY UndoAt DEF Unpurged, MInv, TypesOK
<1>2. RowOf(undo[id][n].old) \in Vals
  BY <1>1, RowTyped
<1> QED
  BY <1>2, KeptIsFound

-----------------------------------------------------------------------------
(* What a step does to the rows and their versions.                        *)

\* A record of an undo log was there before, or a row operation writes it.
LEMMA UndoSteps ==
  ASSUME RInv, PurgePositionOK, MInv, [Next]_vars, NEW id \in TrxIds, NEW n \in DOMAIN undo'[id]
  PROVE  \/ n \in DOMAIN undo[id] /\ undo'[id][n] = undo[id][n]
         \/ \E c \in Clients : \E k \in Keys : \E type, del, val, todo :
                /\ RowStep(c, k, type, del, val, todo)
                /\ id = trx[c].id /\ n = Len(undo[id]) + 1
<1>1. TypesOK /\ UndoBounded /\ VersionsOK /\ TodoOK /\ LocksOK /\ PurgeOK
  BY DEF MInv
<1>2. CASE undo' = undo
  BY <1>2
<1>3. ASSUME NEW c \in Clients, NEW k \in Keys, NEW type, NEW del, NEW val, NEW todo,
             RowStep(c, k, type, del, val, todo)
      PROVE  \/ n \in DOMAIN undo[id] /\ undo'[id][n] = undo[id][n]
             \/ id = trx[c].id /\ n = Len(undo[id]) + 1
  <2>1. PICK i : i = trx[c].id
    OBVIOUS
  <2>2. PICK m : m = Len(undo[i]) + 1
    OBVIOUS
  <2>3. /\ \A j \in TrxIds : \A l \in DOMAIN undo[j] : l \in DOMAIN undo'[j] /\ undo'[j][l] = undo[j][l]
        /\ \A j \in TrxIds : \A l \in DOMAIN undo'[j] : l \in DOMAIN undo[j] \/ (j = i /\ l = m)
    BY <1>3, <2>1, <2>2, RowStepFacts
  <2> QED
    BY <2>1, <2>2, <2>3
<1>4. ASSUME NEW c \in Clients, EndTrx(c) \/ UndoPop(c)
      PROVE  n \in DOMAIN undo[id] /\ undo'[id][n] = undo[id][n]
  <2>1. UndoShrinks
    BY <1>1, <1>4, EndTrxFacts, PopFacts
  <2> QED
    BY <2>1 DEF UndoShrinks
<1>5. ASSUME NEW c \in Clients, Begin(c) \/ OpenView(c) \/ NumberTrx(c)
      PROVE  undo' = undo
  BY <1>5 DEF Begin, OpenView, NumberTrx
<1>6. (\E k \in Keys : \E r : ClustStep(k, r)) => undo' = undo
  BY DEF ClustStep
<1>7. Quiet => undo' = undo
  BY DEF Quiet
<1> QED
  BY <1>1, <1>2, <1>3, <1>4, <1>5, <1>6, <1>7, StepKinds

\* The last change of a transaction is undone in the clustered index.
UndoesTop(c) == UndoRestore(c) \/ UndoDrop(c)

\* The undone record is the last one, and its old version comes back.
LEMMA UndoesTopFacts ==
  ASSUME RInv, MInv, NEW c \in Clients, UndoesTop(c)
  PROVE  /\ IsActive(c) /\ work[c].rolling /\ undo[trx[c].id] # << >> /\ IsTop(c)
         /\ Top(c).key \in Keys /\ clust'[Top(c).key] = Top(c).old
         /\ \A k \in Keys : k # Top(c).key => clust'[k] = clust[k]
         /\ work[c].todo # << >> /\ work'[c].todo = Tail(work[c].todo) /\ work'[c].rolling
         /\ \A d \in Clients \ {c} : work'[d] = work[d]
         /\ Head(work[c].todo).op \in ClustOps /\ Head(work[c].todo).op \notin SecOps
         /\ UNCHANGED <<m_max_trx_id, trx, m_view_list, m_view, history, undo, sec, max_trx_id, rseg_last, purge, stopped>>
<1>1. TypesOK /\ VersionsOK /\ TodoOK /\ LocksOK
  BY DEF MInv
<1>2. PICK name \in ClustOps : Doing(c, name)
  BY DEF UndoesTop, UndoRestore, UndoDrop, ClustOps
<1>3. PICK k : k = Head(work[c].todo).key
  OBVIOUS
<1>4. /\ IsActive(c) /\ work[c].rolling /\ Top(c).key = k /\ k \in Keys
      /\ clust[k].trx_id = trx[c].id /\ clust[k].roll.n = Len(undo[trx[c].id])
      /\ Len(undo[trx[c].id]) \in DOMAIN undo[trx[c].id]
  <2>1. PICK id : id = trx[c].id
    OBVIOUS
  <2>2. PICK n : n = Len(undo[id])
    OBVIOUS
  <2>3. /\ IsActive(c) /\ work[c].rolling /\ Top(c).key = k /\ k \in Keys
        /\ clust[k].trx_id = id /\ clust[k].roll.n = n /\ n \in DOMAIN undo[id]
    BY <1>1, <1>2, <1>3, <2>1, <2>2, UndoClustFacts DEF ClustOps
  <2> QED
    BY <2>1, <2>2, <2>3
<1>5. undo[trx[c].id] # << >> /\ IsTop(c)
  BY <1>4 DEF IsTop
<1>6. clust'[k] = Top(c).old /\ \E r : ClustStep(k, r)
  BY <1>1, <1>3, RollbackSteps DEF UndoesTop
<1>7. /\ \A j \in Keys : j # k => clust'[j] = clust[j]
      /\ UNCHANGED <<m_max_trx_id, trx, m_view_list, m_view, history, undo, sec, max_trx_id, stopped>>
  BY <1>1, <1>6 DEF ClustStep, rvars, TypesOK
<1>8. /\ work[c].todo # << >> /\ work'[c].todo = Tail(work[c].todo) /\ work'[c].rolling
      /\ \A d \in Clients \ {c} : work'[d] = work[d]
      /\ UNCHANGED <<rseg_last, purge>>
  BY <1>4, WorkSteps DEF UndoesTop
<1>9. Head(work[c].todo).op \in ClustOps /\ Head(work[c].todo).op \notin SecOps
  BY <1>2 DEF Doing, ClustOps, SecOps
<1> QED
  BY <1>4, <1>5, <1>6, <1>7, <1>8, <1>9

\* What a step does to the record of a key.
LEMMA ClustSteps ==
  ASSUME RInv, PurgePositionOK, MInv, [Next]_vars, NEW k \in Keys
  PROVE  \/ clust'[k] = clust[k]
         \/ \E c \in Clients : \E type, del, val, todo : RowStep(c, k, type, del, val, todo)
         \/ \E c \in Clients : UndoesTop(c) /\ Top(c).key = k
         \/ Purged(k, clust'[k]) /\ UNCHANGED <<m_max_trx_id, trx, m_view_list, m_view, history, undo, sec, max_trx_id, stopped>>
<1>1. TypesOK /\ UndoBounded /\ VersionsOK /\ TodoOK /\ LocksOK /\ PurgeOK
  BY DEF MInv
<1>2. clust \in [Keys -> Record]
  BY <1>1 DEF TypesOK
<1>3. ASSUME NEW c \in Clients, NEW j \in Keys, NEW type, NEW del, NEW val, NEW todo,
             RowStep(c, j, type, del, val, todo)
      PROVE  clust'[k] = clust[k] \/ j = k
  BY <1>3, RowStepFacts
<1>4. ASSUME NEW j \in Keys, NEW r, ClustStep(j, r), r = clust[j] \/ Purged(j, r)
      PROVE  \/ clust'[k] = clust[k]
             \/ /\ Purged(k, clust'[k])
                /\ UNCHANGED <<m_max_trx_id, trx, m_view_list, m_view, history, undo, sec, max_trx_id, stopped>>
  <2>1. clust' = [clust EXCEPT ![j] = r]
    BY <1>4 DEF ClustStep
  <2>2. UNCHANGED <<m_max_trx_id, trx, m_view_list, m_view, history, undo, sec, max_trx_id, stopped>>
    BY <1>4 DEF ClustStep, rvars
  <2> QED
    BY <1>2, <1>4, <2>1, <2>2
<1>5. ASSUME NEW c \in Clients, UndoDropMarked(c)
      PROVE  \E j \in Keys : \E r : ClustStep(j, r) /\ (r = clust[j] \/ Purged(j, r))
  <2>1. PICK j \in Keys : j = Head(work[c].todo).key
    BY <1>1, <1>5, RollbackSteps
  <2>2. PICK r : ClustStep(j, r)
    BY <1>1, <1>5, <2>1, RollbackSteps
  <2>3. clust'[j] = r /\ r \in {clust[j], NoRec}
    BY <1>1, <1>2, <1>5, <2>1, <2>2, RollbackSteps DEF ClustStep
  <2>4. r = clust[j] \/ Undone(j, r) \/ Purged(j, r)
    BY <2>2 DEF ClustStep
  <2>5. ~Undone(j, r) \/ r = clust[j]
    <3>1. Doing(c, "drop_marked")
      BY <1>5 DEF UndoDropMarked
    <3>2. PICK id \in TrxIds : id = trx[c].id
      BY <1>1, <1>5, AtWork, ActiveFacts
    <3>3. PICK n : n = Len(undo[id])
      OBVIOUS
    <3>4. /\ n \in DOMAIN undo[id] /\ Top(c) = undo[id][n]
          /\ Top(c).type = "upd_del" /\ clust[j] \in {Top(c).old, NoRec} /\ ~(clust[j].trx_id = id /\ clust[j].roll.n = n)
      BY <1>1, <2>1, <3>1, <3>2, <3>3, UndoClustFacts DEF ClustOps
    <3>5. UndoRecOK(id, n, Top(c)) /\ Top(c).old \in Record
      BY <1>1, <3>2, <3>4, UndoAt DEF VersionsOK, TypesOK
    <3>6. ASSUME Undone(j, r), r # clust[j]  PROVE FALSE
      <4>1. r = NoRec /\ clust[j] = Top(c).old /\ clust[j].del
        BY <2>3, <3>4, <3>5, <3>6 DEF UndoRecOK
      <4>2. PICK i \in TrxIds : i = clust[j].trx_id /\ i \in ActiveIds
        BY <3>6, ActiveFacts DEF Undone
      <4>3. PICK m : m = clust[j].roll.n
        OBVIOUS
      <4>4. undo[i][m].old = NoRec
        BY <3>6, <4>1, <4>2, <4>3 DEF Undone
      <4>5. /\ m \in DOMAIN undo[i] /\ (undo[i][m].type = "del_mark" <=> clust[j].del)
        BY <1>1, <1>2, <4>2, <4>3, ActiveVersion DEF VersionsOK
      <4>6. UndoRecOK(i, m, undo[i][m])
        BY <1>1, <4>5 DEF VersionsOK
      <4> QED
        BY <4>1, <4>4, <4>5, <4>6 DEF UndoRecOK
    <3> QED
      BY <3>6
  <2> QED
    BY <2>2, <2>4, <2>5
<1>6. ASSUME NEW c \in Clients, UndoesTop(c)
      PROVE  clust'[k] = clust[k] \/ Top(c).key = k
  BY <1>6, UndoesTopFacts
<1>7. PurgeClust => \E j \in Keys : \E r : ClustStep(j, r) /\ (r = clust[j] \/ Purged(j, r))
  BY <1>1, PurgeClustStep
<1>8. ASSUME NEW c \in Clients, ClientNext(c)
      PROVE  \/ \E j \in Keys : \E type, del, val, todo : RowStep(c, j, type, del, val, todo)
             \/ UndoesTop(c) \/ UndoDropMarked(c)
             \/ UNCHANGED clust
  <2>1. ASSUME NEW j \in Keys, NEW v \in Vals, InsertRow(c, j, v) \/ UpdateRow(c, j, v) \/ DeleteRow(c, j)
        PROVE  \E type, del, val, todo : RowStep(c, j, type, del, val, todo)
    BY <1>1, <2>1, RowSteps
  <2>2. ASSUME NEW j \in Keys, DeleteRow(c, j)
        PROVE  \E type, del, val, todo : RowStep(c, j, type, del, val, todo)
    BY <2>1, <2>2, RowAssumption
  <2>3. CASE Begin(c) \/ OpenView(c) \/ NumberTrx(c) \/ EndTrx(c) \/ StartRollback(c) \/ UndoNext(c) \/ UndoPop(c)
    BY <2>3 DEF Begin, OpenView, NumberTrx, EndTrx, StartRollback, UndoNext, UndoPop, rows
  <2>4. CASE SecMark(c) \/ SecInsert(c) \/ UndoSecRemove(c) \/ UndoSecMarkOrRemove(c) \/ UndoSecUnmark(c)
    BY <2>4 DEF SecMark, SecInsert, UndoSecRemove, UndoSecMarkOrRemove, UndoSecUnmark, SetSec
  <2> QED
    BY <1>8, <2>1, <2>2, <2>3, <2>4 DEF ClientNext, UndoesTop
<1>9. RunPurge \/ FetchRec \/ EndPurge \/ PurgeSec => UNCHANGED clust
  BY DEF RunPurge, FetchRec, EndPurge, PurgeSec, rows
<1>10. UNCHANGED vars => UNCHANGED clust
  BY DEF vars, rows
<1> QED
  BY <1>3, <1>4, <1>5, <1>6, <1>7, <1>8, <1>9, <1>10 DEF Next

-----------------------------------------------------------------------------
(* Views see whole chains.                                                 *)

\* A view goes on to see them.
LEMMA ChainStays ==
  ASSUME RInv, PurgePositionOK, MInv, [Next]_vars, NEW v \in View, ViewOK(v), ChainSeen(v)
  PROVE  ChainSeen(v)'
<1> SUFFICES ASSUME NEW id \in TrxIds, NEW n \in DOMAIN undo'[id],
                    undo'[id][n].old.trx_id # 0, SeesOthers(v, id)
             PROVE  SeesOthers(v, undo'[id][n].old.trx_id)
  BY DEF ChainSeen, SeesOthers, Sees
<1>1. CASE n \in DOMAIN undo[id] /\ undo'[id][n] = undo[id][n]
  BY <1>1 DEF ChainSeen
<1>2. ASSUME NEW c \in Clients, NEW k \in Keys, NEW type, NEW del, NEW val, NEW todo,
             RowStep(c, k, type, del, val, todo), id = trx[c].id
      PROVE  FALSE
  <2>1. IsActive(c)
    BY <1>2 DEF RowStep, CanWrite
  <2> QED
    BY <1>2, <2>1 DEF ViewOK, HidesActive, SeesOthers
<1> QED
  BY <1>1, <1>2, UndoSteps

\* A view that is opened now does.
LEMMA OpenedSeesChains ==
  ASSUME RInv, MInv, NEW cr \in 0 .. MaxTrxId, NEW v \in View, v = read_view_open_now(cr), v.creator = cr,
         v.low_limit_id = m_max_trx_id, v.trx_ids = Unseen(cr), cr = 0 \/ cr \in ActiveIds
  PROVE  ChainSeen(v)
<1> SUFFICES ASSUME NEW id \in TrxIds, NEW n \in DOMAIN undo[id],
                    undo[id][n].old.trx_id # 0, SeesOthers(v, id)
             PROVE  SeesOthers(v, undo[id][n].old.trx_id)
  BY DEF ChainSeen
<1>1. UndoRecOK(id, n, undo[id][n])
  BY DEF MInv, VersionsOK
<1>2. PICK i : i = undo[id][n].old.trx_id
  OBVIOUS
<1>3. i < m_max_trx_id /\ (i \in ActiveIds => i = id) /\ i # 0
  BY <1>1, <1>2 DEF UndoRecOK, VersionOK
<1>4. id \notin ActiveIds
  BY DEF SeesOthers, Sees, Unseen
<1>5. i \notin ActiveIds
  BY <1>3, <1>4
<1> QED
  BY <1>2, <1>3, <1>5 DEF SeesOthers, Sees, Unseen

\* Every view, and purge, keeps seeing what the versions it sees replaced.
LEMMA ChainsSeenKept ==
  ASSUME RInv, RInv', PurgePositionOK, MInv, ChainsSeen, [Next]_vars
  PROVE  ChainsSeen'
<1>1. TypesOK /\ UndoBounded /\ VersionsOK /\ TodoOK /\ LocksOK /\ PurgeOK
  BY DEF MInv
<1>2. \A v \in Views \cup {m_view} : v \in View /\ ViewOK(v) /\ ChainSeen(v)
  BY DEF RInv, TypeOKR, Views, ChainsSeen
<1>3. ASSUME NEW v, v \in Views \cup {m_view} \/ (v \in View /\ ViewOK(v) /\ ChainSeen(v))
      PROVE  ChainSeen(v)'
  <2>1. v \in View /\ ViewOK(v) /\ ChainSeen(v)
    BY <1>2, <1>3
  <2> QED
    BY <2>1, ChainStays
<1> SUFFICES ASSUME NEW v, v \in Views' \cup {m_view'}
             PROVE  v \in Views \cup {m_view} \/ (v \in View /\ ViewOK(v) /\ ChainSeen(v))
  BY <1>3 DEF ChainsSeen, ChainSeen, SeesOthers, Sees
<1>4. [RNext]_rvars
  BY StepRefines
<1>5. TypeOKR
  BY DEF RInv
<1>6. CASE v \in Views'
  <2>1. PICK i \in DOMAIN m_view_list' : v = m_view_list'[i]
    BY <1>6 DEF Views
  <2>2. ASSUME NEW c \in Clients, assign_read_view(c), v = read_view_open_now(trx[c].id)
        PROVE  v \in View /\ ViewOK(v) /\ ChainSeen(v)
    <3>1. PICK cr : cr = trx[c].id
      OBVIOUS
    <3>2. cr \in ActiveIds /\ cr \in TrxIds /\ trx[c].no = LsnMax /\ IsActive(c)
      BY <2>2, <3>1, ActiveFacts DEF assign_read_view
    <3>3. cr \in 0 .. MaxTrxId /\ cr < m_max_trx_id /\ v = read_view_open_now(cr)
      BY <2>2, <3>1, <3>2, ActiveFacts DEF TrxIds
    <3>4. \A j \in DOMAIN history : history[j].id # cr
      <4>1. ASSUME NEW j \in DOMAIN history, history[j].id = cr  PROVE FALSE
        <5>1. trx[c].no = history[j].no
          BY <3>1, <3>2, <4>1 DEF RInv, LogsNumbered
        <5>2. history[j].no \in TrxIds
          BY <1>5, HistoryTyped
        <5> QED
          BY <3>2, <5>1, <5>2, IdAssumption DEF LsnMax, TrxIds
      <4> QED
        BY <4>1
    <3>5. v \in View /\ v.creator = cr /\ v.low_limit_id = m_max_trx_id /\ v.trx_ids = Unseen(cr) /\ ViewOK(v)
      BY <3>3, <3>4, OpenedView
    <3>6. ChainSeen(v)
      BY <3>2, <3>3, <3>5, OpenedSeesChains
    <3> QED
      BY <3>5, <3>6
  <2>3. (\E c \in Clients : assign_read_view(c) /\ v = read_view_open_now(trx[c].id)) \/ v \in Views
    BY <1>4, <2>1, ListSteps DEF Views
  <2> QED
    BY <2>2, <2>3
<1>7. CASE v = m_view' /\ RenewPurgeView
  <2>1. CASE m_view_list = << >>
    <3>1. v = read_view_open_now(0)
      BY <1>7, <2>1 DEF RenewPurgeView, read_view_oldest_copy_or_open_new
    <3>2. /\ 0 \in 0 .. MaxTrxId /\ 0 < m_max_trx_id
          /\ \A j \in DOMAIN history : history[j].id # 0
      BY <1>5, HistoryTyped, IdAssumption DEF TypeOKR, TrxIds
    <3>3. v \in View /\ v.creator = 0 /\ v.low_limit_id = m_max_trx_id /\ v.trx_ids = Unseen(0) /\ ViewOK(v)
      BY <3>1, <3>2, OpenedView
    <3>4. ChainSeen(v)
      BY <3>1, <3>2, <3>3, OpenedSeesChains
    <3> QED
      BY <3>3, <3>4
  <2>2. CASE m_view_list # << >>
    <3>1. PICK w : w = m_view_list[Len(m_view_list)]
      OBVIOUS
    <3>2. w \in Views
      BY <1>5, <2>2, <3>1 DEF Views, TypeOKR
    <3>3. v = CopyOf(w)
      BY <1>7, <2>2, <3>1 DEF RenewPurgeView, read_view_oldest_copy_or_open_new
    <3>4. w \in View /\ ViewOK(w) /\ ChainSeen(w)
      BY <1>2, <3>2
    <3>5. /\ v \in View /\ v.creator = 0 /\ ViewOK(v)
          /\ \A id \in TrxIds : Sees(v, id) <=> Sees(w, id) /\ id # w.creator
      BY <3>3, <3>4, CopiedView
    <3>6. \A id \in TrxIds : SeesOthers(v, id) <=> SeesOthers(w, id)
      BY <3>5 DEF SeesOthers, TrxIds
    <3>7. ChainSeen(v)
      <4> SUFFICES ASSUME NEW id \in TrxIds, NEW n \in DOMAIN undo[id],
                          undo[id][n].old.trx_id # 0, SeesOthers(v, id)
                   PROVE  SeesOthers(v, undo[id][n].old.trx_id)
        BY DEF ChainSeen
      <4>1. undo[id][n].old.trx_id \in TrxIds
        BY <1>1, UndoAt, RecordFacts DEF TypesOK
      <4> QED
        BY <3>4, <3>6, <4>1 DEF ChainSeen
    <3> QED
      BY <3>5, <3>7
  <2> QED
    BY <2>1, <2>2
<1>8. m_view' = m_view \/ RenewPurgeView
  BY <1>4 DEF RNext, rvars, start_low, assign_read_view, CommitNumber, CommitInMemory
<1> QED
  BY <1>6, <1>7, <1>8

-----------------------------------------------------------------------------
(* Purge sees more and more.                                               *)

\* An active transaction was active before, or it starts now.
LEMMA ActiveBefore ==
  ASSUME RInv, MInv, [Next]_vars, NEW d \in Clients, IsActive(d)'
  PROVE  \/ IsActive(d) /\ trx'[d].id = trx[d].id
         \/ Begin(d) /\ trx'[d].id = m_max_trx_id /\ UNCHANGED undo
<1>1. TypesOK /\ TodoOK
  BY DEF MInv
<1>2. ASSUME ClientNext(d)
      PROVE  \/ IsActive(d) /\ trx'[d].id = trx[d].id
             \/ Begin(d) /\ trx'[d].id = m_max_trx_id /\ UNCHANGED undo
  <2>1. ASSUME NEW k \in Keys, NEW type, NEW del, NEW val, NEW todo, RowStep(d, k, type, del, val, todo)
        PROVE  IsActive(d) /\ trx'[d].id = trx[d].id
    BY <2>1, RowStepFacts
  <2>2. ~EndTrx(d)
    BY <1>1, EndTrxFacts
  <2>3. Begin(d) => trx'[d].id = m_max_trx_id /\ UNCHANGED undo
    BY <1>1, BeginFacts
  <2> QED
    BY <1>1, <1>2, <2>1, <2>2, <2>3, ClientKinds DEF GoesOn
<1> QED
  BY <1>2, ByOthers

\* The undo records of active transactions are of transactions that were
\* active before.
LEMMA WritersActive ==
  ASSUME RInv, MInv, [Next]_vars, NEW id \in TrxIds, NEW n \in DOMAIN undo[id], id \in ActiveIds'
  PROVE  id \in ActiveIds
<1>1. id < m_max_trx_id
  BY DEF MInv, VersionsOK, UndoRecOK
<1>2. PICK d \in Clients : IsActive(d)' /\ trx'[d].id = id
  BY DEF ActiveIds, IsActive
<1>3. m_max_trx_id \in Nat
  BY DEF RInv, TypeOKR, TrxIds
<1>4. IsActive(d) /\ trx[d].id = id
  BY <1>1, <1>2, <1>3, ActiveBefore
<1> QED
  BY <1>4, ActiveFacts

\* Views come and go with active transactions, one for each.
LEMMA ViewsOwnedKept ==
  ASSUME RInv, PurgePositionOK, ViewsOwned, [Next]_vars
  PROVE  ViewsOwned'
<1>1. [RNext]_rvars
  BY StepRefines
<1>2. trx \in [Clients -> [state: {"not_started", "active"}, id: 0 .. MaxTrxId, no: 1 .. LsnMax]]
  BY DEF RInv, TypeOKR
<1>3. PICK list \in Seq(View) : list = m_view_list
  BY DEF RInv, TypeOKR
<1>4. ASSUME \A d \in Clients : IsActive(d) => IsActive(d)' /\ trx'[d].id = trx[d].id
      PROVE  ActiveIds \subseteq ActiveIds'
  BY <1>4 DEF ActiveIds, IsActive
<1>5. ASSUME ActiveIds \subseteq ActiveIds', m_view_list' = m_view_list  PROVE ViewsOwned'
  BY <1>5 DEF ViewsOwned
<1>6. ASSUME NEW c \in Clients, start_low(c) \/ CommitNumber(c)  PROVE ViewsOwned'
  <2>1. \A d \in Clients : IsActive(d) => IsActive(d)' /\ trx'[d].id = trx[d].id
    <3>1. ASSUME start_low(c), NEW d \in Clients, IsActive(d)  PROVE d # c /\ trx'[d] = trx[d]
      BY <1>2, <3>1 DEF start_low, IsActive
    <3>2. ASSUME CommitNumber(c), NEW d \in Clients
          PROVE  trx'[d].state = trx[d].state /\ trx'[d].id = trx[d].id
      <4>1. trx' = [trx EXCEPT ![c].no = m_max_trx_id]
        BY <3>2 DEF CommitNumber
      <4> QED
        BY <1>2, <4>1
    <3>3. start_low(c) => \A d \in Clients : IsActive(d) => IsActive(d)' /\ trx'[d].id = trx[d].id
      BY <3>1 DEF IsActive
    <3>4. CommitNumber(c) => \A d \in Clients : IsActive(d) => IsActive(d)' /\ trx'[d].id = trx[d].id
      BY <3>2 DEF IsActive
    <3> QED
      BY <1>6, <3>3, <3>4
  <2>2. m_view_list' = m_view_list
    BY <1>6 DEF start_low, CommitNumber
  <2> QED
    BY <1>4, <1>5, <2>1, <2>2
<1>7. CASE RenewPurgeView \/ UNCHANGED rvars
  <2>1. trx' = trx /\ m_view_list' = m_view_list
    BY <1>7 DEF RenewPurgeView, rvars
  <2> QED
    BY <1>5, <2>1 DEF ActiveIds, IsActive
<1>8. ASSUME NEW c \in Clients, assign_read_view(c)  PROVE ViewsOwned'
  <2>1. PICK v \in View : v = read_view_open_now(trx[c].id)
    BY <1>8, AssignedView
  <2>2. v.creator = trx[c].id
    BY <2>1 DEF read_view_open_now
  <2>3. m_view_list' = <<v>> \o list
    BY <1>3, <1>8, <2>1 DEF assign_read_view
  <2>4. /\ DOMAIN m_view_list' = 1 .. Len(list) + 1 /\ m_view_list'[1] = v
        /\ \A i \in 2 .. Len(list) + 1 : i - 1 \in DOMAIN list /\ m_view_list'[i] = list[i - 1]
    BY <2>3, PrependFacts
  <2>5. trx[c].id \in ActiveIds /\ ActiveIds' = ActiveIds
    BY <1>8, ActiveFacts DEF assign_read_view, ActiveIds, IsActive
  <2>6. \A i \in DOMAIN list : list[i].creator # v.creator
    BY <1>3, <1>8, <2>2 DEF assign_read_view, HasView, ViewsOf
  <2> SUFFICES ASSUME NEW i \in DOMAIN m_view_list', NEW j \in DOMAIN m_view_list'
               PROVE  /\ m_view_list'[i].creator \in ActiveIds
                      /\ m_view_list'[i].creator = m_view_list'[j].creator => i = j
    BY <2>5 DEF ViewsOwned
  <2>7. CASE i = 1 /\ j = 1
    BY <2>2, <2>4, <2>5, <2>7
  <2>8. CASE i = 1 /\ j # 1
    <3>1. j - 1 \in DOMAIN list /\ m_view_list'[j] = list[j - 1]
      BY <2>4, <2>8
    <3> QED
      BY <2>2, <2>4, <2>5, <2>6, <2>8, <3>1
  <2>9. CASE i # 1 /\ j = 1
    <3>1. i - 1 \in DOMAIN list /\ m_view_list'[i] = list[i - 1]
      BY <2>4, <2>9
    <3> QED
      BY <1>3, <2>4, <2>6, <2>9, <3>1 DEF ViewsOwned
  <2>10. CASE i # 1 /\ j # 1
    <3>1. /\ i - 1 \in DOMAIN list /\ m_view_list'[i] = list[i - 1]
          /\ j - 1 \in DOMAIN list /\ m_view_list'[j] = list[j - 1]
      BY <2>4, <2>10
    <3>2. list[i - 1].creator \in ActiveIds /\ (list[i - 1].creator = list[j - 1].creator => i - 1 = j - 1)
      BY <1>3, <3>1 DEF ViewsOwned
    <3>3. i \in Int /\ j \in Int
      BY <2>4
    <3> QED
      BY <3>1, <3>2, <3>3
  <2> QED
    BY <2>7, <2>8, <2>9, <2>10
<1>9. ASSUME NEW c \in Clients, CommitInMemory(c)  PROVE ViewsOwned'
  <2>1. \A d \in Clients : d # c => trx'[d] = trx[d]
    BY <1>2, <1>9 DEF CommitInMemory
  <2>2. ASSUME NEW id \in ActiveIds, id # trx[c].id  PROVE id \in ActiveIds'
    <3>1. PICK d \in Clients : IsActive(d) /\ trx[d].id = id
      BY DEF ActiveIds
    <3>2. trx'[d] = trx[d]
      BY <2>1, <2>2, <3>1
    <3> QED
      BY <3>1, <3>2 DEF ActiveIds, IsActive
  <2>3. CASE ~HasView(c) /\ m_view_list' = m_view_list
    <3>1. \A i \in DOMAIN m_view_list : m_view_list[i].creator # trx[c].id
      BY <2>3 DEF HasView, ViewsOf
    <3> QED
      BY <2>2, <2>3, <3>1 DEF ViewsOwned
  <2>4. ASSUME NEW x \in ViewsOf(trx[c].id), m_view_list' = WithoutAt(m_view_list, x)  PROVE ViewsOwned'
    <3>1. x \in DOMAIN list /\ list[x].creator = trx[c].id
      BY <1>3 DEF ViewsOf
    <3>2. /\ DOMAIN m_view_list' = 1 .. Len(list) - 1
          /\ \A i \in DOMAIN m_view_list' :
                LET y == IF i < x THEN i ELSE i + 1
                IN  y \in DOMAIN list /\ m_view_list'[i] = list[y]
      BY <1>3, <2>4, <3>1, WithoutAtFacts
    <3>3. x \in Nat
      BY <3>1
    <3> SUFFICES ASSUME NEW i \in DOMAIN m_view_list', NEW j \in DOMAIN m_view_list'
                 PROVE  /\ m_view_list'[i].creator \in ActiveIds'
                        /\ m_view_list'[i].creator = m_view_list'[j].creator => i = j
      BY DEF ViewsOwned
    <3>4. PICK y \in DOMAIN list : y = (IF i < x THEN i ELSE i + 1) /\ m_view_list'[i] = list[y]
      BY <3>2
    <3>5. PICK z \in DOMAIN list : z = (IF j < x THEN j ELSE j + 1) /\ m_view_list'[j] = list[z]
      BY <3>2
    <3>6. i \in Nat /\ j \in Nat
      BY <3>2
    <3>7. list[y].creator \in ActiveIds /\ (list[y].creator = list[z].creator => y = z)
      BY <1>3 DEF ViewsOwned
    <3>8. y # x
      BY <3>3, <3>4, <3>6
    <3>9. list[y].creator # trx[c].id
      BY <1>3, <3>1, <3>8 DEF ViewsOwned
    <3>10. y = z => i = j
      BY <3>3, <3>4, <3>5, <3>6
    <3> QED
      BY <2>2, <3>4, <3>5, <3>7, <3>9, <3>10
  <2> QED
    BY <1>9, <2>3, <2>4 DEF CommitInMemory
<1> QED
  BY <1>1, <1>6, <1>7, <1>8, <1>9 DEF RNext

\* The purge view goes on to see what it sees.
LEMMA UnpurgedShrinks ==
  ASSUME RInv, PurgePositionOK, ViewsOwned, [Next]_vars
  PROVE  Unpurged' \subseteq Unpurged
<1>1. [RNext]_rvars
  BY StepRefines
<1>2. m_view' = m_view => Unpurged' \subseteq Unpurged
  BY DEF Unpurged
<1>3. CASE RenewPurgeView
  <2> SUFFICES ASSUME NEW id \in TrxIds, Sees(m_view, id)  PROVE Sees(m_view', id)
    BY DEF Unpurged, Sees
  <2>1. CASE m_view_list = << >>
    <3>1. m_view' = read_view_open_now(0)
      BY <1>3, <2>1 DEF RenewPurgeView, read_view_oldest_copy_or_open_new
    <3>2. m_view'.low_limit_id = m_max_trx_id /\ m_view'.trx_ids = Unseen(0)
      BY <3>1 DEF read_view_open_now
    <3>3. id \notin ActiveIds
      BY PurgeSeesNoActive
    <3>4. id < m_view.low_limit_id /\ m_view.low_limit_id <= m_max_trx_id
      BY DEF Sees, RInv, ViewOK
    <3>5. m_view.low_limit_id \in TrxIds /\ m_max_trx_id \in TrxIds
      BY DEF RInv, TypeOKR, View
    <3>6. id < m_max_trx_id
      BY <3>4, <3>5 DEF TrxIds
    <3> QED
      BY <3>2, <3>3, <3>6 DEF Sees, Unseen
  <2>2. CASE m_view_list # << >>
    <3>1. PICK x : x = Len(m_view_list)
      OBVIOUS
    <3>2. x \in DOMAIN m_view_list
      BY <2>2, <3>1 DEF RInv, TypeOKR
    <3>3. PICK w \in View : w = m_view_list[x] /\ ViewOK(w)
      BY <3>2 DEF RInv, TypeOKR
    <3>4. m_view' = CopyOf(w)
      BY <1>3, <2>2, <3>1, <3>3 DEF RenewPurgeView, read_view_oldest_copy_or_open_new
    <3>5. Sees(m_view', id) <=> Sees(w, id) /\ id # w.creator
      BY <3>3, <3>4, CopiedView
    <3>6. w.creator \in ActiveIds
      BY <3>2, <3>3 DEF ViewsOwned
    <3>7. id # w.creator
      BY <3>6, PurgeSeesNoActive
    <3> QED
      BY <3>2, <3>3, <3>5, <3>7 DEF RInv, PurgeSeesLess
  <2> QED
    BY <2>1, <2>2
<1>4. m_view' = m_view \/ RenewPurgeView
  BY <1>1 DEF RNext, rvars, start_low, assign_read_view, CommitNumber, CommitInMemory
<1> QED
  BY <1>2, <1>3, <1>4

-----------------------------------------------------------------------------
(* What purge must leave alone stays on the way from the clustered index.  *)

\* The undo records that go are those of inserts whose transaction ends, and
\* what has been undone.
LEMMA UndoGoes ==
  ASSUME RInv, PurgePositionOK, MInv, [Next]_vars, NEW id \in TrxIds, NEW n \in DOMAIN undo[id], n \notin DOMAIN undo'[id]
  PROVE  undo[id][n].type = "insert" \/ Reverted(id, n)
<1>1. TypesOK /\ UndoBounded /\ VersionsOK /\ TodoOK /\ LocksOK /\ PurgeOK
  BY DEF MInv
<1>2. ASSUME NEW c \in Clients, NEW k \in Keys, NEW type, NEW del, NEW val, NEW todo,
             RowStep(c, k, type, del, val, todo)
      PROVE  FALSE
  <2>1. PICK i : i = trx[c].id
    OBVIOUS
  <2>2. PICK m : m = Len(undo[i]) + 1
    OBVIOUS
  <2>3. \A j \in TrxIds : \A l \in DOMAIN undo[j] : l \in DOMAIN undo'[j] /\ undo'[j][l] = undo[j][l]
    BY <1>2, <2>1, <2>2, RowStepFacts
  <2> QED
    BY <2>3
<1>3. ASSUME NEW c \in Clients, UndoPop(c)
      PROVE  Reverted(id, n)
  <2>1. IsActive(c) /\ id = trx[c].id /\ n = Len(undo[id])
    BY <1>1, <1>3, PopFacts
  <2>2. Doing(c, "pop")
    BY <1>3 DEF UndoPop
  <2>3. PICK k : k = Head(work[c].todo).key
    OBVIOUS
  <2>4. work[c].rolling /\ Top(c).key = k /\ ~(clust[k].trx_id = id /\ clust[k].roll.n = n)
    BY <1>1, <2>1, <2>2, <2>3, UndoClustFacts DEF ClustOps
  <2>5. ~IsTop(c) /\ work[c].todo # << >>
    BY <2>1, <2>2, <2>4 DEF IsTop, Doing
  <2> QED
    BY <2>1, <2>4, <2>5 DEF Reverted
<1>4. ASSUME NEW c \in Clients, EndTrx(c)
      PROVE  undo[id][n].type = "insert"
  <2>1. PICK i : i = trx[c].id
    OBVIOUS
  <2>2. /\ IsActive(c) /\ \A j \in TrxIds : j # i \/ work[c].upd => undo'[j] = undo[j]
    BY <1>1, <1>4, <2>1, EndTrxFacts
  <2>3. id = i /\ ~work[c].upd
    BY <2>2
  <2> QED
    BY <1>1, <2>1, <2>2, <2>3 DEF LocksOK
<1>5. ASSUME NEW c \in Clients, Begin(c) \/ OpenView(c) \/ NumberTrx(c)
      PROVE  undo' = undo
  BY <1>5 DEF Begin, OpenView, NumberTrx
<1>6. (\E k \in Keys : \E r : ClustStep(k, r)) => undo' = undo
  BY DEF ClustStep
<1>7. Quiet => undo' = undo
  BY DEF Quiet
<1> QED
  BY <1>1, <1>2, <1>3, <1>4, <1>5, <1>6, <1>7, StepKinds

\* What is undone in the clustered index is reverted.
LEMMA UndoneIsReverted ==
  ASSUME RInv, MInv, BusyOK, NEW c \in Clients, UndoesTop(c), NEW id, id = trx[c].id, NEW n, n = Len(undo[id])
  PROVE  Reverted(id, n)' /\ ~Reverted(id, n)
<1>1. /\ IsActive(c) /\ work[c].rolling /\ undo[trx[c].id] # << >> /\ IsTop(c)
      /\ clust'[Top(c).key] = Top(c).old
      /\ work[c].todo # << >> /\ work'[c].todo = Tail(work[c].todo) /\ work'[c].rolling
      /\ UNCHANGED <<trx, undo>>
      /\ Head(work[c].todo).op \in ClustOps
  BY UndoesTopFacts
<1>2. /\ id \in TrxIds /\ id \in ActiveIds /\ n \in Nat /\ n \in DOMAIN undo[id] /\ Top(c) = undo[id][n]
      /\ UndoRecOK(id, n, Top(c))
  BY <1>1, TopFacts
<1>3. work'[c].todo # << >>
  <2>1. Has(work[c].todo, {"pop"})
    BY <1>1 DEF BusyOK, AtWorkOK
  <2>2. Head(work[c].todo).op \notin {"pop"}
    BY <1>1 DEF ClustOps
  <2> QED
    BY <1>1, <2>1, <2>2, TodoFacts
<1>4. ~IsTop(c)'
  <2>1. Top(c)' = Top(c)
    BY <1>1 DEF Top
  <2>2. ~(Top(c).old.trx_id = id /\ Top(c).old.roll.n = n)
    <3>1. Top(c).old.trx_id \in ActiveIds => Top(c).old.roll.n < n
      BY <1>2 DEF UndoRecOK
    <3> QED
      BY <1>2, <3>1
  <2> QED
    BY <1>1, <2>1, <2>2 DEF IsTop
<1>5. Reverted(id, n)'
  BY <1>1, <1>3, <1>4 DEF Reverted, IsActive
<1>6. ~Reverted(id, n)
  BY <1>1, RevertedFacts
<1> QED
  BY <1>5, <1>6

\* Undo records that purge must leave alone stay reached from the index.
LEMMA LinkedKept ==
  ASSUME RInv, RInv', PurgePositionOK, MInv, MInv', ViewsOwned, ChainsSeen, ChainsSeen', Linked, BusyOK, [Next]_vars
  PROVE  Linked'
<1>1. TypesOK /\ UndoBounded /\ VersionsOK /\ TodoOK /\ LocksOK /\ PurgeOK
  BY DEF MInv
<1>2. Unpurged' \subseteq Unpurged /\ Unpurged \subseteq TrxIds
  BY UnpurgedShrinks DEF Unpurged
<1> SUFFICES ASSUME NEW id \in Unpurged', NEW n \in DOMAIN undo'[id],
                    undo'[id][n].type # "insert" \/ id \in ActiveIds', ~Reverted(id, n)'
             PROVE  \/ clust'[undo'[id][n].key].roll = PointerTo(id, n)'
                    \/ \E i \in Unpurged' : \E m \in DOMAIN undo'[i] :
                           Leads(PointerTo(id, n), i, m)' /\ undo'[i][m].key = undo'[id][n].key
  BY DEF Linked
<1>3. id \in TrxIds /\ id \in Unpurged
  BY <1>2
<1>4. ASSUME NEW c \in Clients, NEW k \in Keys, NEW type, NEW del, NEW val, NEW todo,
             RowStep(c, k, type, del, val, todo), NEW i, i = trx[c].id, NEW m, m = Len(undo[i]) + 1
      PROVE  /\ i \in Unpurged' /\ m \in DOMAIN undo'[i] /\ ~Reverted(i, m)'
             /\ undo'[i][m].key = k /\ undo'[i][m].old = clust[k]
             /\ clust'[k].roll = PointerTo(i, m)'
  <2>1. /\ type \in Types /\ i \in TrxIds /\ i \in ActiveIds /\ m \in 1 .. MaxUndo /\ DOMAIN undo'[i] = 1 .. m
        /\ undo'[i][m].type = type /\ undo'[i][m].key = k /\ undo'[i][m].old = clust[k]
        /\ clust'[k].trx_id = i
        /\ clust'[k].roll.trx = i /\ clust'[k].roll.n = m /\ (clust'[k].roll.ins <=> type = "insert")
        /\ ~work'[c].rolling /\ IsActive(c)
        /\ \A d \in Clients \ {c} : IsActive(d) => trx[d].id # i
        /\ UNCHANGED <<trx, m_view>>
    BY <1>4, RowStepFacts
  <2>2. m \in DOMAIN undo'[i]
    BY <2>1
  <2>3. i \in Unpurged'
    BY <2>1, PurgeSeesNoActive DEF Unpurged
  <2>4. ~Reverted(i, m)'
    BY <2>1 DEF Reverted, IsActive
  <2>5. clust'[k].roll \in Pointers
    <3>1. clust'[k] \in Record
      BY DEF MInv, TypesOK
    <3> QED
      BY <2>1, <3>1, RecordFacts DEF TrxIds
  <2>6. PICK b \in BOOLEAN : b = (undo'[i][m].type = "insert")
    OBVIOUS
  <2>7. clust'[k].roll = [trx |-> i, n |-> m, ins |-> b]
    BY <2>1, <2>5, <2>6 DEF Pointers
  <2>8. PointerTo(i, m)' = [trx |-> i, n |-> m, ins |-> b]
    BY <2>6 DEF PointerTo
  <2> QED
    BY <2>1, <2>2, <2>3, <2>4, <2>7, <2>8
<1>5. ASSUME NEW c \in Clients, NEW k \in Keys, NEW type, NEW del, NEW val, NEW todo,
             RowStep(c, k, type, del, val, todo), id = trx[c].id, n = Len(undo[id]) + 1
      PROVE  clust'[undo'[id][n].key].roll = PointerTo(id, n)'
  BY <1>4, <1>5
<1>6. CASE n \in DOMAIN undo[id] /\ undo'[id][n] = undo[id][n]
  <2>1. PICK k \in Keys : k = undo[id][n].key
    BY <1>1, <1>3, <1>6, UndoAt DEF TypesOK
  <2>2. PICK p : p = PointerTo(id, n)
    OBVIOUS
  <2>3. p = PointerTo(id, n)'
    BY <1>6, <2>2 DEF PointerTo
  <2>4. ~Reverted(id, n)
    BY <1>3, <1>6, RevertedStays
  <2>5. undo[id][n].type # "insert" \/ id \in ActiveIds
    BY <1>3, <1>6, WritersActive
  <2>6. CASE clust[k].roll = p
    <3>1. clust[k] \in Record /\ VersionOK(clust[k], k)
      BY <1>1 DEF TypesOK, VersionsOK
    <3>2. clust[k].trx_id = id /\ clust[k].roll.n = n
      BY <1>3, <1>6, <2>2, <2>6, <3>1, PointerFacts
    <3>3. CASE clust'[k] = clust[k]
      BY <1>6, <2>1, <2>3, <2>6, <3>3
    <3>4. ASSUME NEW c \in Clients, NEW type, NEW del, NEW val, NEW todo,
                 RowStep(c, k, type, del, val, todo)
          PROVE  \E i \in Unpurged' : \E m \in DOMAIN undo'[i] :
                     Leads(PointerTo(id, n), i, m)' /\ undo'[i][m].key = undo'[id][n].key
      <4>1. PICK i : i = trx[c].id
        OBVIOUS
      <4>2. PICK m : m = Len(undo[i]) + 1
        OBVIOUS
      <4>3. /\ i \in Unpurged' /\ m \in DOMAIN undo'[i] /\ ~Reverted(i, m)'
            /\ undo'[i][m].key = k /\ undo'[i][m].old = clust[k]
        BY <1>4, <3>4, <4>1, <4>2
      <4>4. Leads(PointerTo(id, n), i, m)'
        BY <2>3, <2>6, <4>3 DEF Leads
      <4> QED
        BY <1>6, <2>1, <4>3, <4>4
    <3>5. ASSUME NEW c \in Clients, UndoesTop(c), Top(c).key = k  PROVE FALSE
      <4>1. IsTop(c)
        BY <3>5, UndoesTopFacts
      <4>2. trx[c].id = id /\ Len(undo[id]) = n
        BY <3>2, <3>5, <4>1 DEF IsTop
      <4> QED
        BY <3>5, <4>2, UndoneIsReverted
    <3>6. ~Purged(k, clust'[k])
      BY <1>3, <3>2 DEF Purged, Unpurged
    <3> QED
      BY <3>3, <3>4, <3>5, <3>6, ClustSteps
  <2>7. CASE \E i \in Unpurged : \E m \in DOMAIN undo[i] :
                 Leads(PointerTo(id, n), i, m) /\ undo[i][m].key = undo[id][n].key
    <3>1. PICK i \in Unpurged : \E m \in DOMAIN undo[i] :
              Leads(PointerTo(id, n), i, m) /\ undo[i][m].key = undo[id][n].key
      BY <2>7
    <3>2. PICK m \in DOMAIN undo[i] : Leads(PointerTo(id, n), i, m) /\ undo[i][m].key = undo[id][n].key
      BY <3>1
    <3>3. i \in TrxIds /\ undo[i][m].old.roll = p /\ undo[i][m].key = k /\ ~Reverted(i, m)
      BY <1>2, <2>1, <2>2, <3>2 DEF Leads
    <3>4. undo[i][m].old \in Record /\ UndoRecOK(i, m, undo[i][m])
      BY <1>1, <3>3, UndoAt DEF TypesOK, VersionsOK
    <3>5. undo[i][m].old.trx_id = id
      BY <1>3, <1>6, <2>1, <2>2, <3>3, <3>4, PointerFacts DEF UndoRecOK
    <3>6. undo[i][m].type # "insert"
      BY <1>3, <3>4, <3>5, NoRecFacts DEF UndoRecOK, TrxIds
    <3>7. m \in DOMAIN undo'[i]
      BY <3>3, <3>6, UndoGoes
    <3>8. undo'[i][m] = undo[i][m]
      <4>1. ASSUME NEW c \in Clients, NEW j \in Keys, NEW type, NEW del, NEW val, NEW todo,
                   RowStep(c, j, type, del, val, todo), i = trx[c].id, m = Len(undo[i]) + 1
            PROVE  FALSE
        BY <4>1, RowStepFacts
      <4> QED
        BY <3>3, <3>7, <4>1, UndoSteps
    <3>9. i \in Unpurged'
      <4>1. ChainSeen(m_view)'
        BY DEF ChainsSeen
      <4>2. m_view'.creator = 0
        BY DEF RInv
      <4>3. id # 0 /\ i # 0 /\ ~Sees(m_view', id)
        BY <1>3, <3>3 DEF TrxIds, Unpurged, Sees
      <4> QED
        BY <3>3, <3>5, <3>7, <3>8, <4>1, <4>2, <4>3 DEF ChainSeen, SeesOthers, Unpurged, Sees
    <3>10. CASE ~Reverted(i, m)'
      BY <1>6, <2>1, <2>3, <3>3, <3>7, <3>8, <3>9, <3>10 DEF Leads
    <3>11. CASE Reverted(i, m)'
      <4>1. PICK c \in Clients : UndoesTop(c) /\ IsActive(c) /\ trx[c].id = i /\ m = Len(undo[i])
        BY <3>3, <3>7, <3>11, RevertedBefore DEF UndoesTop
      <4>2. Top(c) = undo[i][m]
        BY <4>1 DEF Top
      <4>3. clust'[k] = undo[i][m].old
        BY <3>3, <4>1, <4>2, UndoesTopFacts
      <4> QED
        BY <1>6, <2>1, <2>3, <3>3, <4>3
    <3> QED
      BY <3>10, <3>11
  <2> QED
    BY <1>3, <1>6, <2>1, <2>2, <2>4, <2>5, <2>6, <2>7 DEF Linked
<1> QED
  BY <1>3, <1>5, <1>6, UndoSteps

-----------------------------------------------------------------------------
(* Old versions keep their entries.                                        *)

\* The version of an unfinished change is the current one.
LEMMA BusyTop ==
  ASSUME BusyOK, NEW d \in Clients, Busy(d)
  PROVE  IsTop(d)
  BY DEF BusyOK, AtWorkOK, Busy, DoingOK

\* A row operation starts on a row that nobody else is changing.
LEMMA RowStepAlone ==
  ASSUME RInv, MInv, BusyOK, NEW c \in Clients, NEW k \in Keys, NEW type, NEW del, NEW val, NEW todo,
         RowStep(c, k, type, del, val, todo)
  PROVE  ~BusyWith(k)
<1> SUFFICES ASSUME NEW d \in Clients, Busy(d), Top(d).key = k  PROVE FALSE
  BY DEF BusyWith
<1>1. IsTop(d) /\ IsActive(d)
  BY BusyTop DEF Busy
<1>2. clust[k].trx_id = trx[d].id
  BY <1>1 DEF IsTop
<1>3. /\ ~work[c].rolling /\ work[c].todo = << >>
      /\ \A e \in Clients \ {c} : IsActive(e) => clust[k].trx_id # trx[e].id
  BY RowStepFacts
<1>4. d # c
  BY <1>3 DEF Busy
<1> QED
  BY <1>1, <1>2, <1>3, <1>4

\* What a step does to an entry, unless it stops the process.
LEMMA SecSteps ==
  ASSUME RInv, MInv, [Next]_vars, ~stopped', NEW k \in Keys, NEW v \in Vals
  PROVE  \/ sec'[k][v] = sec[k][v]
         \/ \E c \in Clients :
                /\ work[c].todo # << >> /\ Head(work[c].todo).key = k /\ Head(work[c].todo).val = v
                /\ \/ SecMark(c) /\ sec[k][v] = "live" /\ sec'[k][v] = "marked"
                   \/ SecInsert(c) /\ sec'[k][v] = "live"
                   \/ UndoSecRemove(c) /\ sec'[k][v] = "none"
                   \/ UndoSecUnmark(c) /\ sec[k][v] # "none" /\ sec'[k][v] = "live"
         \/ /\ PurgeSec /\ purge.todo # << >> /\ Head(purge.todo).key = k /\ Head(purge.todo).val = v
            /\ ~(clust[k] # NoRec /\ old_has_index_entry(TRUE, k, v)) /\ sec'[k][v] = "none"
<1>1. sec \in [Keys -> [Vals -> {"none", "live", "marked"}]]
  BY DEF MInv, TypesOK
<1>2. ASSUME NEW j, NEW w, NEW e, sec' = [sec EXCEPT ![j][w] = e], sec'[k][v] # sec[k][v]
      PROVE  j = k /\ w = v /\ sec'[k][v] = e
  <2>1. sec'[k] = [sec[k] EXCEPT ![w] = e] /\ j = k
    BY <1>1, <1>2
  <2> QED
    BY <1>1, <1>2, <2>1
<1> SUFFICES ASSUME sec'[k][v] # sec[k][v]
             PROVE  \/ \E c \in Clients :
                          /\ work[c].todo # << >> /\ Head(work[c].todo).key = k /\ Head(work[c].todo).val = v
                          /\ \/ SecMark(c) /\ sec[k][v] = "live" /\ sec'[k][v] = "marked"
                             \/ SecInsert(c) /\ sec'[k][v] = "live"
                             \/ UndoSecRemove(c) /\ sec'[k][v] = "none"
                             \/ UndoSecUnmark(c) /\ sec[k][v] # "none" /\ sec'[k][v] = "live"
                    \/ /\ PurgeSec /\ purge.todo # << >> /\ Head(purge.todo).key = k /\ Head(purge.todo).val = v
                       /\ ~(clust[k] # NoRec /\ old_has_index_entry(TRUE, k, v)) /\ sec'[k][v] = "none"
  OBVIOUS
<1>3. ASSUME NEW c \in Clients, SecMark(c) \/ SecInsert(c) \/ UndoSecRemove(c) \/ UndoSecMarkOrRemove(c) \/ UndoSecUnmark(c)
      PROVE  /\ work[c].todo # << >> /\ Head(work[c].todo).key = k /\ Head(work[c].todo).val = v
             /\ \/ SecMark(c) /\ sec[k][v] = "live" /\ sec'[k][v] = "marked"
                \/ SecInsert(c) /\ sec'[k][v] = "live"
                \/ UndoSecRemove(c) /\ sec'[k][v] = "none"
                \/ UndoSecUnmark(c) /\ sec[k][v] # "none" /\ sec'[k][v] = "live"
  <2>1. work[c].todo # << >>
    BY <1>3, WorkSteps DEF UndoSecMarkOrRemove, Doing
  <2>2. PICK o : o = Head(work[c].todo)
    OBVIOUS
  <2>3. PICK e : SetSec(c, o, e) /\ \/ SecMark(c) /\ ((e = "marked" /\ sec[o.key][o.val] = "live") \/ e = sec[o.key][o.val])
                                    \/ SecInsert(c) /\ e = "live"
                                    \/ UndoSecRemove(c) /\ e = "none"
                                    \/ UndoSecMarkOrRemove(c) /\ e = sec[o.key][o.val]
                                    \/ UndoSecUnmark(c) /\ e = "live" /\ sec[o.key][o.val] # "none"
    BY <1>3, <2>2 DEF SecMark, SecInsert, UndoSecRemove, UndoSecMarkOrRemove, UndoSecUnmark
  <2>4. sec' = [sec EXCEPT ![o.key][o.val] = e]
    BY <2>3 DEF SetSec
  <2>5. o.key = k /\ o.val = v /\ sec'[k][v] = e
    BY <1>2, <2>4
  <2>6. e # sec[k][v]
    BY <2>5
  <2> QED
    BY <2>1, <2>2, <2>3, <2>5, <2>6
<1>4. CASE PurgeSec
  <2>1. PICK o : o = Head(purge.todo)
    OBVIOUS
  <2>2. PICK e : /\ sec' = [sec EXCEPT ![o.key][o.val] = e]
                 /\ e = IF clust[o.key] # NoRec /\ old_has_index_entry(TRUE, o.key, o.val) THEN sec[o.key][o.val] ELSE "none"
    BY <1>4, <2>1 DEF PurgeSec
  <2>3. o.key = k /\ o.val = v /\ sec'[k][v] = e
    BY <1>2, <2>2
  <2>4. purge.todo # << >>
    BY <1>4 DEF PurgeSec, PurgeDoes
  <2> QED
    BY <1>4, <2>1, <2>2, <2>3, <2>4
<1>5. ASSUME NEW c \in Clients, ClientNext(c)
      PROVE  SecMark(c) \/ SecInsert(c) \/ UndoSecRemove(c) \/ UndoSecMarkOrRemove(c) \/ UndoSecUnmark(c)
  <2>1. ASSUME NEW j \in Keys, NEW w \in Vals, InsertRow(c, j, w) \/ UpdateRow(c, j, w)  PROVE FALSE
    BY <2>1 DEF InsertRow, UpdateRow, Write
  <2>2. ASSUME NEW j \in Keys, DeleteRow(c, j)  PROVE FALSE
    BY <2>2 DEF DeleteRow, Write
  <2>3. ~(Begin(c) \/ OpenView(c) \/ NumberTrx(c) \/ EndTrx(c) \/ StartRollback(c) \/ UndoNext(c) \/ UndoPop(c))
    BY DEF Begin, OpenView, NumberTrx, EndTrx, StartRollback, UndoNext, UndoPop, rows
  <2>4. ~(UndoRestore(c) \/ UndoDrop(c) \/ UndoDropMarked(c))
    BY DEF UndoRestore, UndoDrop, UndoDropMarked, SetClust
  <2> QED
    BY <1>5, <2>1, <2>2, <2>3, <2>4 DEF ClientNext
<1>6. ~RunPurge /\ ~FetchRec /\ ~EndPurge /\ ~PurgeClust /\ ~UNCHANGED vars
  BY DEF RunPurge, FetchRec, EndPurge, PurgeClust, rows, vars
<1> QED
  BY <1>3, <1>4, <1>5, <1>6 DEF Next

\* An entry goes when an insert is undone or when purge finds no need of it.
LEMMA EntryGoes ==
  ASSUME RInv, MInv, [Next]_vars, ~stopped', NEW k \in Keys, NEW v \in Vals,
         sec[k][v] # "none", sec'[k][v] = "none"
  PROVE  \/ \E c \in Clients : work[c].todo # << >> /\ Head(work[c].todo).key = k /\ UndoSecRemove(c)
         \/ PurgeSec /\ ~(clust[k] # NoRec /\ old_has_index_entry(TRUE, k, v))
<1> DEFINE A == \E c \in Clients :
                /\ work[c].todo # << >> /\ Head(work[c].todo).key = k /\ Head(work[c].todo).val = v
                /\ \/ SecMark(c) /\ sec[k][v] = "live" /\ sec'[k][v] = "marked"
                   \/ SecInsert(c) /\ sec'[k][v] = "live"
                   \/ UndoSecRemove(c) /\ sec'[k][v] = "none"
                   \/ UndoSecUnmark(c) /\ sec[k][v] # "none" /\ sec'[k][v] = "live"
           B == /\ PurgeSec /\ purge.todo # << >> /\ Head(purge.todo).key = k /\ Head(purge.todo).val = v
                /\ ~(clust[k] # NoRec /\ old_has_index_entry(TRUE, k, v)) /\ sec'[k][v] = "none"
<1>1. sec'[k][v] = sec[k][v] \/ A \/ B
  BY SecSteps
<1>2. A => \E c \in Clients : work[c].todo # << >> /\ Head(work[c].todo).key = k /\ UndoSecRemove(c)
  OBVIOUS
<1> QED
  BY <1>1, <1>2

\* The next operation of a rollback on the secondary index.
LEMMA RollingOp ==
  ASSUME MInv, BusyOK, NEW c \in Clients, work[c].todo # << >>, NEW o, o = Head(work[c].todo),
         o.op \in {"remove", "mark_or_remove", "unmark"}
  PROVE  /\ work[c].rolling /\ IsActive(c) /\ undo[trx[c].id] # << >> /\ IsTop(c) /\ Busy(c) /\ BackOK(c)
         /\ o.key = Top(c).key /\ o.val \in Vals
         /\ o.op \in {"remove", "mark_or_remove"} => o.val = NewRow(c)
         /\ o.op = "remove" => Top(c).type = "insert"
         /\ o.op = "unmark" => o.val = OldRowOf(c) /\ ~Has(work[c].todo, {"remove", "mark_or_remove"})
<1>1. PICK s : s = work[c].todo
  OBVIOUS
<1>2. /\ s \in Seq(RowOp) /\ IsActive(c) /\ 1 \in DOMAIN s /\ o = s[1]
      /\ o.op \in {"mark", "insert"} <=> ~work[c].rolling
  BY <1>1, TodoFacts
<1>3. work[c].rolling
  BY <1>2
<1>4. WorkOK(c)
  BY DEF MInv, TodoOK
<1>5. undo[trx[c].id] # << >> /\ o.key = Top(c).key /\ o.val \in Vals
  BY <1>1, <1>2, <1>3, <1>4 DEF WorkOK, UndoingOK, SecOps
<1>6. Has(s, SecOps)
  BY <1>2 DEF Has, SecOps
<1>7. IsTop(c)
  BY <1>1, <1>3, <1>6 DEF BusyOK, AtWorkOK
<1>8. Busy(c)
  BY <1>2, <1>3, <1>5, <1>7 DEF Busy
<1>9. BackOK(c)
  BY <1>3, <1>8 DEF BusyOK, AtWorkOK
<1>10. \A i \in DOMAIN s : i \in Nat /\ i >= 1
  BY <1>2
<1>11. /\ o.op \in {"remove", "mark_or_remove"} => o.val = NewRow(c)
       /\ o.op = "remove" => Top(c).type = "insert"
       /\ o.op = "unmark" => o.val = OldRowOf(c)
  BY <1>1, <1>2, <1>9 DEF BackOK
<1>12. o.op = "unmark" => ~Has(s, {"remove", "mark_or_remove"})
  <2> SUFFICES ASSUME o.op = "unmark", NEW i \in DOMAIN s, s[i].op \in {"remove", "mark_or_remove"}
               PROVE  FALSE
    BY DEF Has
  <2>1. i # 1
    BY <1>2
  <2>2. 1 < i
    BY <1>10, <2>1
  <2> QED
    BY <1>1, <1>2, <1>9, <2>2 DEF BackOK
<1> QED
  BY <1>1, <1>2, <1>3, <1>5, <1>7, <1>8, <1>9, <1>11, <1>12

\* The next operation of a change that goes on.
LEMMA DoingOp ==
  ASSUME MInv, BusyOK, NEW c \in Clients, work[c].todo # << >>, NEW o, o = Head(work[c].todo),
         o.op \in {"mark", "insert"}
  PROVE  /\ ~work[c].rolling /\ IsActive(c) /\ undo[trx[c].id] # << >> /\ IsTop(c) /\ Busy(c) /\ DoingOK(c)
         /\ o.key = Top(c).key /\ o.val \in Vals
         /\ o.op = "mark" => o.val = OldRowOf(c)
         /\ o.op = "insert" => o.val = NewRow(c)
<1>1. PICK s : s = work[c].todo
  OBVIOUS
<1>2. /\ s \in Seq(RowOp) /\ IsActive(c) /\ 1 \in DOMAIN s /\ o = s[1]
      /\ o.op \in {"mark", "insert"} <=> ~work[c].rolling
  BY <1>1, TodoFacts
<1>3. ~work[c].rolling /\ undo[trx[c].id] # << >>
  BY <1>2 DEF BusyOK, AtWorkOK
<1>4. WorkOK(c)
  BY DEF MInv, TodoOK
<1>5. o.val \in Vals
  BY <1>1, <1>2, <1>4 DEF WorkOK, SecOps
<1>6. Busy(c)
  BY <1>2, <1>3 DEF Busy
<1>7. DoingOK(c)
  BY <1>3, <1>6 DEF BusyOK, AtWorkOK
<1> QED
  BY <1>1, <1>2, <1>3, <1>5, <1>6, <1>7 DEF DoingOK

\* Old versions that purge must leave alone keep their entries.
LEMMA OldPresentKept ==
  ASSUME RInv, PurgePositionOK, MInv, ViewsOwned, Linked, OldPresent, BusyOK, LiveIsRow, [Next]_vars, ~stopped'
  PROVE  OldPresent'
<1>1. TypesOK /\ UndoBounded /\ VersionsOK /\ TodoOK /\ LocksOK /\ PurgeOK
  BY DEF MInv
<1>2. Unpurged' \subseteq Unpurged /\ Unpurged \subseteq TrxIds
  BY UnpurgedShrinks DEF Unpurged
<1> SUFFICES ASSUME NEW id \in Unpurged', NEW n \in DOMAIN undo'[id],
                    RowOf(undo'[id][n].old) # 0, ~Reverted(id, n)'
             PROVE  sec'[undo'[id][n].key][undo'[id][n].old.val] # "none"
  BY DEF OldPresent, RowOf
<1>3. id \in TrxIds /\ id \in Unpurged
  BY <1>2
<1>4. CASE n \in DOMAIN undo[id] /\ undo'[id][n] = undo[id][n]
  <2>1. PICK k \in Keys : k = undo[id][n].key
    BY <1>1, <1>3, <1>4, UndoAt DEF TypesOK
  <2>2. ~Reverted(id, n)
    BY <1>3, <1>4, RevertedStays
  <2>3. PICK v : v = undo[id][n].old.val
    OBVIOUS
  <2>4. v \in Vals /\ RowOf(undo[id][n].old) = v
    <3>1. undo[id][n].old \in Record
      BY <1>1, <1>3, <1>4, UndoAt DEF TypesOK
    <3> QED
      BY <1>4, <2>3, <3>1, RowTyped DEF RowOf
  <2>5. sec[k][v] # "none"
    BY <1>3, <1>4, <2>1, <2>2, <2>3 DEF OldPresent
  <2>6. ASSUME NEW c \in Clients, work[c].todo # << >>, Head(work[c].todo).key = k, UndoSecRemove(c)  PROVE FALSE
    <3>1. Head(work[c].todo).op = "remove"
      BY <2>6 DEF UndoSecRemove, Doing
    <3>2. /\ IsActive(c) /\ undo[trx[c].id] # << >> /\ IsTop(c) /\ k = Top(c).key /\ Top(c).type = "insert"
      BY <2>6, <3>1, RollingOp
    <3>3. PICK i : i = trx[c].id
      OBVIOUS
    <3>4. PICK m : m = Len(undo[i])
      OBVIOUS
    <3>5. clust[k].roll = PointerTo(i, m) /\ Top(c) = undo[i][m]
      BY <3>2, <3>3, <3>4, IsTopMeaning DEF Top
    <3>6. clust[k].roll.ins
      BY <3>2, <3>5, PointerParts
    <3> QED
      BY <1>3, <1>4, <2>1, <2>2, <3>6, NothingBelow
  <2>7. ~(clust[k] # NoRec /\ old_has_index_entry(TRUE, k, v)) => FALSE
    BY <1>3, <1>4, <2>1, <2>2, <2>4, KeptIsFound
  <2>8. sec'[k][v] # "none"
    <3> SUFFICES ASSUME sec'[k][v] = "none"  PROVE FALSE
      OBVIOUS
    <3>1. \/ \E c \in Clients : work[c].todo # << >> /\ Head(work[c].todo).key = k /\ UndoSecRemove(c)
          \/ ~(clust[k] # NoRec /\ old_has_index_entry(TRUE, k, v))
      BY <2>4, <2>5, EntryGoes
    <3> QED
      BY <2>6, <2>7, <3>1
  <2> QED
    BY <1>4, <2>1, <2>3, <2>8
<1>5. ASSUME NEW c \in Clients, NEW k \in Keys, NEW type, NEW del, NEW val, NEW todo,
             RowStep(c, k, type, del, val, todo), id = trx[c].id, n = Len(undo[id]) + 1
      PROVE  sec'[undo'[id][n].key][undo'[id][n].old.val] # "none"
  <2>1. undo'[id][n].key = k /\ undo'[id][n].old = clust[k] /\ UNCHANGED sec
    BY <1>5, RowStepFacts
  <2>2. clust[k] \in Record
    BY <1>1 DEF TypesOK
  <2>3. RowOf(clust[k]) \in Vals /\ RowOf(clust[k]) = clust[k].val
    BY <2>1, <2>2, RowTyped DEF RowOf
  <2>4. ~BusyWith(k)
    BY <1>5, RowStepAlone
  <2>5. Live(k, clust[k].val)
    BY <2>3, <2>4 DEF LiveIsRow
  <2> QED
    BY <2>1, <2>5 DEF Live
<1> QED
  BY <1>3, <1>4, <1>5, UndoSteps

-----------------------------------------------------------------------------
(* Unfinished changes.                                                     *)

\* A client's operation on the secondary entries of key k.
SecOpOn(c, k) ==
    /\ work[c].todo # << >> /\ Head(work[c].todo).key = k
    /\ SecMark(c) \/ SecInsert(c) \/ UndoSecRemove(c) \/ UndoSecMarkOrRemove(c) \/ UndoSecUnmark(c)

\* A client that changes an entry of a key is busy with the row.
LEMMA SecOpBusy ==
  ASSUME MInv, BusyOK, NEW c \in Clients, NEW k, SecOpOn(c, k)
  PROVE  Busy(c) /\ Top(c).key = k /\ IsTop(c)
<1>1. PICK o : o = Head(work[c].todo)
  OBVIOUS
<1>2. o.op \in {"mark", "insert"} \/ o.op \in {"remove", "mark_or_remove", "unmark"}
  BY <1>1 DEF SecOpOn, SecMark, SecInsert, UndoSecRemove, UndoSecMarkOrRemove, UndoSecUnmark, Doing
<1> QED
  BY <1>1, <1>2, RollingOp, DoingOp DEF SecOpOn

\* No two clients are busy with a row.
LEMMA BusyAlone ==
  ASSUME RInv, BusyOK, NEW c \in Clients, NEW d \in Clients, Busy(c), IsActive(d), IsTop(d), Top(c).key = Top(d).key
  PROVE  c = d
<1>1. IsTop(c) /\ IsActive(c)
  BY BusyTop DEF Busy
<1>2. trx[c].id = trx[d].id
  BY <1>1 DEF IsTop
<1> QED
  BY <1>1, <1>2, ActiveFacts

\* A row that is needed keeps its live entry.
LEMMA PurgeKeepsLive ==
  ASSUME RInv, MInv, Linked, BusyOK, LiveIsRow, NEW k \in Keys, NEW v \in Vals, Live(k, v)
  PROVE  clust[k] # NoRec /\ old_has_index_entry(TRUE, k, v)
<1>1. clust[k] \in Record
  BY DEF MInv, TypesOK
<1>2. ASSUME RowOf(clust[k]) = v
      PROVE  clust[k] # NoRec /\ old_has_index_entry(TRUE, k, v)
  <2>1. v # 0
    BY RowAssumption
  <2>2. Needs(clust[k], v)
    BY <1>2, <2>1 DEF RowOf, Needs
  <2>3. clust[k] # NoRec
    BY <1>2, <2>1, NoRecFacts
  <2> QED
    BY <2>2, <2>3, OldHasMeaning
<1>3. CASE ~BusyWith(k)
  BY <1>2, <1>3 DEF LiveIsRow
<1>4. ASSUME NEW c \in Clients, Busy(c), Top(c).key = k
      PROVE  clust[k] # NoRec /\ old_has_index_entry(TRUE, k, v)
  <2>1. v \in {OldRowOf(c), NewRow(c)}
    <3>1. CASE work[c].rolling
      BY <1>4, <3>1 DEF BusyOK, AtWorkOK, BackOK
    <3>2. CASE ~work[c].rolling
      <4>1. DoingOK(c)
        BY <1>4, <3>2 DEF BusyOK, AtWorkOK
      <4>2. HasOp(work[c].todo, "mark", v)
        BY <1>4, <4>1 DEF DoingOK
      <4> QED
        BY <4>1, <4>2 DEF DoingOK, HasOp
    <3> QED
      BY <3>1, <3>2
  <2>2. CASE v = NewRow(c)
    BY <1>2, <1>4, <2>2 DEF NewRow
  <2>3. CASE v = OldRowOf(c)
    <3>1. PICK id : id = trx[c].id
      OBVIOUS
    <3>2. PICK n : n = Len(undo[id])
      OBVIOUS
    <3>3. IsActive(c) /\ undo[trx[c].id] # << >> /\ IsTop(c)
      BY <1>4, BusyTop DEF Busy
    <3>4. id \in Unpurged /\ n \in DOMAIN undo[id] /\ Top(c) = undo[id][n]
      BY <3>1, <3>2, <3>3, TopFacts
    <3>5. ~Reverted(id, n)
      BY <3>1, <3>2, <3>3, RevertedFacts
    <3>6. RowOf(undo[id][n].old) = v /\ k = undo[id][n].key
      BY <1>4, <2>3, <3>4 DEF OldRowOf
    <3> QED
      BY <3>4, <3>5, <3>6, KeptIsFound
  <2> QED
    BY <2>1, <2>2, <2>3
<1> QED
  BY <1>3, <1>4 DEF BusyWith

\* Nobody but the client that is busy with a row makes an entry live or
\* not live.
LEMMA EntriesStay ==
  ASSUME RInv, MInv, Linked, BusyOK, LiveIsRow, [Next]_vars, ~stopped', NEW k \in Keys,
         \A c \in Clients : ~SecOpOn(c, k), NEW v \in Vals
  PROVE  /\ Live(k, v)' <=> Live(k, v)
         /\ sec[k][v] = "none" => sec'[k][v] = "none"
<1>1. sec'[k][v] = sec[k][v]
      \/ (~(clust[k] # NoRec /\ old_has_index_entry(TRUE, k, v)) /\ sec'[k][v] = "none")
  <2> DEFINE A == \E c \in Clients :
                  /\ work[c].todo # << >> /\ Head(work[c].todo).key = k /\ Head(work[c].todo).val = v
                  /\ \/ SecMark(c) /\ sec[k][v] = "live" /\ sec'[k][v] = "marked"
                     \/ SecInsert(c) /\ sec'[k][v] = "live"
                     \/ UndoSecRemove(c) /\ sec'[k][v] = "none"
                     \/ UndoSecUnmark(c) /\ sec[k][v] # "none" /\ sec'[k][v] = "live"
             B == /\ PurgeSec /\ purge.todo # << >> /\ Head(purge.todo).key = k /\ Head(purge.todo).val = v
                  /\ ~(clust[k] # NoRec /\ old_has_index_entry(TRUE, k, v)) /\ sec'[k][v] = "none"
  <2>1. sec'[k][v] = sec[k][v] \/ A \/ B
    BY SecSteps
  <2>2. ~A
    BY DEF SecOpOn
  <2> QED
    BY <2>1, <2>2
<1>2. CASE sec'[k][v] = sec[k][v]
  BY <1>2 DEF Live
<1>3. CASE ~(clust[k] # NoRec /\ old_has_index_entry(TRUE, k, v)) /\ sec'[k][v] = "none"
  <2>1. ~Live(k, v)
    BY <1>3, PurgeKeepsLive
  <2> QED
    BY <1>3, <2>1 DEF Live
<1> QED
  BY <1>1, <1>2, <1>3

\* The next step of a client that is busy.
LEMMA BusyNext ==
  ASSUME RInv, MInv, BusyOK, NEW c \in Clients, Busy(c), ClientNext(c)
  PROVE  \/ SecMark(c) \/ SecInsert(c) \/ StartRollback(c) \/ UndoNext(c)
         \/ UndoSecRemove(c) \/ UndoSecMarkOrRemove(c) \/ UndoSecUnmark(c) \/ UndoesTop(c)
<1>1. IsActive(c) /\ undo[trx[c].id] # << >> /\ IsTop(c)
  BY BusyTop DEF Busy
<1>2. ~Begin(c) /\ ~OpenView(c) /\ ~NumberTrx(c) /\ ~EndTrx(c)
  BY <1>1 DEF Begin, start_low, IsActive, OpenView, NumberTrx, EndTrx, Ending, Busy
<1>3. \A k \in Keys : ~CanWrite(c, k)
  BY DEF CanWrite, Busy
<1>4. ~UndoPop(c) /\ ~UndoDropMarked(c)
  <2> SUFFICES ASSUME NEW name \in {"pop", "drop_marked"}, Doing(c, name)  PROVE FALSE
    BY DEF UndoPop, UndoDropMarked
  <2>1. TypesOK /\ TodoOK /\ LocksOK
    BY DEF MInv
  <2>2. PICK id : id = trx[c].id
    OBVIOUS
  <2>3. PICK n : n = Len(undo[id])
    OBVIOUS
  <2>4. PICK k : k = Head(work[c].todo).key
    OBVIOUS
  <2>5. Top(c).key = k /\ ~(clust[k].trx_id = id /\ clust[k].roll.n = n)
    BY <2>1, <2>2, <2>3, <2>4, UndoClustFacts DEF ClustOps
  <2> QED
    BY <1>1, <2>2, <2>3, <2>5 DEF IsTop
<1> QED
  BY <1>2, <1>3, <1>4 DEF ClientNext, InsertRow, UpdateRow, DeleteRow, UndoesTop

\* A change that is not yet finished or undone stays what it is.
LEMMA BusyStays ==
  ASSUME RInv, PurgePositionOK, MInv, BusyOK, [Next]_vars, NEW c \in Clients, Busy(c), ~UndoesTop(c),
         ClientNext(c) /\ ~work[c].rolling => StartRollback(c) \/ work'[c].todo # << >>
  PROVE  /\ Busy(c)' /\ IsTop(c)' /\ Top(c)' = Top(c)
         /\ IsActive(c) /\ undo[trx[c].id] # << >> /\ IsTop(c) /\ Top(c).key \in Keys
         /\ trx'[c].id = trx[c].id /\ undo'[trx[c].id] = undo[trx[c].id]
         /\ clust'[Top(c).key] = clust[Top(c).key]
         /\ OldRowOf(c)' = OldRowOf(c) /\ NewRow(c)' = NewRow(c)
<1>1. IsActive(c) /\ undo[trx[c].id] # << >> /\ IsTop(c)
  BY BusyTop DEF Busy
<1>2. /\ trx'[c].id = trx[c].id /\ IsActive(c)' /\ undo'[trx[c].id] = undo[trx[c].id]
      /\ work[c].rolling \/ StartRollback(c) => work'[c].rolling
      /\ ~work[c].rolling => StartRollback(c) \/ (~work'[c].rolling /\ work'[c].todo # << >>)
  <2>1. CASE ClientNext(c)
    <3>1. \/ SecMark(c) \/ SecInsert(c) \/ StartRollback(c) \/ UndoNext(c)
          \/ UndoSecRemove(c) \/ UndoSecMarkOrRemove(c) \/ UndoSecUnmark(c)
      BY <2>1, BusyNext
    <3>2. trx' = trx /\ undo' = undo
      BY <3>1, WorkSteps
    <3>3. ~StartRollback(c) => (work'[c].rolling <=> work[c].rolling)
      BY <3>1, WorkSteps
    <3>4. StartRollback(c) => work'[c].rolling
      BY WorkSteps
    <3> QED
      BY <1>1, <2>1, <3>2, <3>3, <3>4 DEF IsActive
  <2>2. CASE ~ClientNext(c)
    <3>1. /\ trx'[c] = trx[c] /\ work'[c] = work[c] /\ (IsActive(c)' <=> IsActive(c))
          /\ IsActive(c) => undo'[trx[c].id] = undo[trx[c].id]
      BY <2>2, ByOthers
    <3>2. ~StartRollback(c)
      BY <2>2 DEF ClientNext
    <3> QED
      BY <1>1, <3>1, <3>2 DEF Busy
  <2> QED
    BY <2>1, <2>2
<1>3. ~UndoRestore(c) /\ ~UndoDrop(c)
  BY DEF UndoesTop
<1>4. /\ Top(c)' = Top(c) /\ IsTop(c)' /\ clust'[Top(c).key] = clust[Top(c).key]
  BY <1>1, <1>2, <1>3, TopKept
<1>5. Busy(c)'
  BY <1>1, <1>2, <1>4 DEF Busy
<1>6. OldRowOf(c)' = OldRowOf(c) /\ NewRow(c)' = NewRow(c)
  BY <1>4 DEF OldRowOf, NewRow, RowOf
<1>7. Top(c).key \in Keys
  BY <1>1, TopFacts
<1> QED
  BY <1>1, <1>2, <1>4, <1>5, <1>6, <1>7

\* What an operation on a secondary entry does to the entry, and that it
\* leaves all else alone; PAGE_MAX_TRX_ID grows when an entry becomes live
\* or is no longer live in a change that goes on.
LEMMA OwnEntry ==
  ASSUME RInv, MInv, NEW c \in Clients, NEW k \in Keys, SecOpOn(c, k), ~stopped',
         NEW o, o = Head(work[c].todo), o.val \in Vals
  PROVE  /\ \A v \in Vals : v # o.val => sec'[k][v] = sec[k][v]
         /\ SecMark(c) => /\ ~Live(k, o.val)'
                          /\ Live(k, o.val) => max_trx_id' >= trx[c].id
         /\ SecInsert(c) => Live(k, o.val)' /\ max_trx_id' >= trx[c].id
         /\ UndoSecRemove(c) => sec'[k][o.val] = "none"
         /\ UndoSecMarkOrRemove(c) => sec'[k][o.val] = "none" /\ sec[k][o.val] = "none"
         /\ UndoSecUnmark(c) => sec[k][o.val] # "none" /\ Live(k, o.val)'
         /\ UNCHANGED <<trx, clust, undo>>
<1>1. sec \in [Keys -> [Vals -> {"none", "live", "marked"}]] /\ o.key = k
  BY DEF MInv, TypesOK, SecOpOn
<1>2. ASSUME NEW e, SetSec(c, o, e)
      PROVE  /\ sec'[k][o.val] = e
             /\ \A v \in Vals : v # o.val => sec'[k][v] = sec[k][v]
             /\ UNCHANGED <<trx, clust, undo>>
  <2>1. sec' = [sec EXCEPT ![k][o.val] = e]
    BY <1>1, <1>2 DEF SetSec
  <2>2. sec'[k] = [sec[k] EXCEPT ![o.val] = e]
    BY <1>1, <2>1
  <2>3. UNCHANGED <<trx, clust, undo>>
    BY <1>2 DEF SetSec, rvars
  <2> QED
    BY <1>1, <2>2, <2>3
<1>3. max_trx_id \in Nat /\ trx[c].id \in Nat
  <2>1. trx[c].id \in 0 .. MaxTrxId /\ max_trx_id \in 0 .. MaxTrxId
    BY DEF RInv, TypeOKR, MInv, TypesOK
  <2> QED
    BY <2>1
<1>4. page_update_max_trx_id(trx[c].id) => max_trx_id' >= trx[c].id
  BY <1>3 DEF page_update_max_trx_id
<1>5. PICK e : SetSec(c, o, e) /\ \/ SecMark(c) \/ SecInsert(c) \/ UndoSecRemove(c)
                                  \/ UndoSecMarkOrRemove(c) \/ UndoSecUnmark(c)
  BY DEF SecOpOn, SecMark, SecInsert, UndoSecRemove, UndoSecMarkOrRemove, UndoSecUnmark
<1>6. SecMark(c) => /\ ~Live(k, o.val)'
                    /\ Live(k, o.val) => max_trx_id' >= trx[c].id
  <2> SUFFICES ASSUME SecMark(c)
               PROVE  ~Live(k, o.val)' /\ (Live(k, o.val) => max_trx_id' >= trx[c].id)
    OBVIOUS
  <2>1. CASE sec[k][o.val] = "live"
    <3>1. SetSec(c, o, "marked") /\ page_update_max_trx_id(trx[c].id)
      BY <1>1, <2>1 DEF SecMark
    <3> QED
      BY <1>2, <1>4, <3>1 DEF Live
  <2>2. CASE sec[k][o.val] # "live"
    <3>1. SetSec(c, o, sec[k][o.val])
      BY <1>1, <2>2 DEF SecMark
    <3> QED
      BY <1>2, <2>2, <3>1 DEF Live
  <2> QED
    BY <2>1, <2>2
<1>7. SecInsert(c) => Live(k, o.val)' /\ max_trx_id' >= trx[c].id
  <2> SUFFICES ASSUME SecInsert(c)  PROVE Live(k, o.val)' /\ max_trx_id' >= trx[c].id
    OBVIOUS
  <2>1. SetSec(c, o, "live") /\ page_update_max_trx_id(trx[c].id)
    BY DEF SecInsert
  <2> QED
    BY <1>2, <1>4, <2>1 DEF Live
<1>8. UndoSecRemove(c) => sec'[k][o.val] = "none"
  BY <1>2 DEF UndoSecRemove
<1>9. UndoSecMarkOrRemove(c) => sec'[k][o.val] = "none" /\ sec[k][o.val] = "none"
  <2> SUFFICES ASSUME UndoSecMarkOrRemove(c)  PROVE sec'[k][o.val] = "none" /\ sec[k][o.val] = "none"
    OBVIOUS
  <2>1. SetSec(c, o, sec[k][o.val]) /\ stopped' = (sec[k][o.val] # "none")
    BY <1>1 DEF UndoSecMarkOrRemove
  <2> QED
    BY <1>2, <2>1
<1>10. UndoSecUnmark(c) => sec[k][o.val] # "none" /\ Live(k, o.val)'
  <2> SUFFICES ASSUME UndoSecUnmark(c)  PROVE sec[k][o.val] # "none" /\ Live(k, o.val)'
    OBVIOUS
  <2>1. sec[k][o.val] # "none" /\ SetSec(c, o, "live")
    BY <1>1 DEF UndoSecUnmark
  <2> QED
    BY <1>2, <2>1 DEF Live
<1>11. /\ \A v \in Vals : v # o.val => sec'[k][v] = sec[k][v]
       /\ UNCHANGED <<trx, clust, undo>>
  BY <1>2, <1>5
<1> QED
  BY <1>6, <1>7, <1>8, <1>9, <1>10, <1>11

\* PAGE_MAX_TRX_ID never falls.
LEMMA MaxGrows ==
  ASSUME RInv, MInv, [Next]_vars
  PROVE  max_trx_id \in Nat /\ max_trx_id' \in Nat /\ max_trx_id <= max_trx_id'
<1>1. max_trx_id \in Nat /\ \A c \in Clients : trx[c].id \in Nat
  <2>1. max_trx_id \in 0 .. MaxTrxId /\ \A c \in Clients : trx[c].id \in 0 .. MaxTrxId
    BY DEF RInv, TypeOKR, MInv, TypesOK
  <2> QED
    BY <2>1
<1>2. max_trx_id' = max_trx_id \/ \E c \in Clients : page_update_max_trx_id(trx[c].id)
  <2>1. ASSUME NEW c \in Clients, ClientNext(c)
        PROVE  max_trx_id' = max_trx_id \/ page_update_max_trx_id(trx[c].id)
    <3>1. ASSUME NEW j \in Keys, NEW w \in Vals, InsertRow(c, j, w) \/ UpdateRow(c, j, w) \/ DeleteRow(c, j)
          PROVE  max_trx_id' = max_trx_id
      BY <3>1 DEF InsertRow, UpdateRow, DeleteRow, Write
    <3>2. Begin(c) \/ OpenView(c) \/ NumberTrx(c) \/ EndTrx(c) \/ StartRollback(c) \/ UndoNext(c) \/ UndoPop(c)
            => max_trx_id' = max_trx_id
      BY DEF Begin, OpenView, NumberTrx, EndTrx, StartRollback, UndoNext, UndoPop, rows
    <3>3. UndoRestore(c) \/ UndoDrop(c) \/ UndoDropMarked(c) => max_trx_id' = max_trx_id
      BY DEF UndoRestore, UndoDrop, UndoDropMarked, SetClust
    <3>4. UndoSecRemove(c) \/ UndoSecMarkOrRemove(c) \/ UndoSecUnmark(c) => max_trx_id' = max_trx_id
      BY DEF UndoSecRemove, UndoSecMarkOrRemove, UndoSecUnmark
    <3>5. SecMark(c) => max_trx_id' = max_trx_id \/ page_update_max_trx_id(trx[c].id)
      BY DEF SecMark
    <3>6. SecInsert(c) => page_update_max_trx_id(trx[c].id)
      BY DEF SecInsert
    <3>7. ASSUME NEW j \in Keys, DeleteRow(c, j)  PROVE max_trx_id' = max_trx_id
      BY <3>7 DEF DeleteRow, Write
    <3> QED
      BY <2>1, <3>1, <3>2, <3>3, <3>4, <3>5, <3>6, <3>7 DEF ClientNext
  <2>2. RunPurge \/ FetchRec \/ EndPurge \/ PurgeSec \/ PurgeClust \/ UNCHANGED vars => max_trx_id' = max_trx_id
    BY DEF RunPurge, FetchRec, EndPurge, PurgeSec, PurgeClust, rows, vars
  <2> QED
    BY <2>1, <2>2 DEF Next
<1> QED
  BY <1>1, <1>2 DEF page_update_max_trx_id

\* A list of work that undoes a version of value v, written over one of
\* value w: the new entry goes first, then the old one comes back.
UndoListOK(t, type, v, w) ==
    /\ t # << >>
    /\ \A i \in DOMAIN t :
           /\ t[i].op \in {"remove", "mark_or_remove"} => t[i].val = v /\ type # "del_mark"
           /\ t[i].op = "remove" => type = "insert"
           /\ t[i].op = "unmark" => t[i].val = w /\ type \in {"upd_exist", "del_mark"}
           /\ \A j \in DOMAIN t : i < j /\ t[i].op = "unmark" => t[j].op \notin {"remove", "mark_or_remove"}
    /\ type # "del_mark" => Has(t, {"remove", "mark_or_remove"})
    /\ type \in {"upd_exist", "del_mark"} => Has(t, {"unmark"})
    /\ type = "upd_del" => Has(t, {"drop_marked"})
    /\ Has(t, {"pop"})

\* The lists that UndoOps makes are such lists.
LEMMA UndoLists ==
  ASSUME NEW type \in Types, NEW k \in Keys, NEW old
  PROVE  UndoListOK(Append(UndoOps(type, k, old), Op("pop", k, 0)), type, clust[k].val, old.val)
<1> DEFINE t == Append(UndoOps(type, k, old), Op("pop", k, 0))
           v == clust[k].val
           w == old.val
<1>1. ASSUME type = "insert"  PROVE UndoListOK(t, type, v, w)
  <2> DEFINE a == Op("remove", k, v)
             b == Op("drop", k, 0)
             p == Op("pop", k, 0)
  <2>1. t = Append(<<a, b>>, p)
    BY <1>1 DEF UndoOps
  <2>2. a.op = "remove" /\ a.val = v /\ b.op = "drop" /\ p.op = "pop"
    BY DEF Op
  <2> HIDE DEF t, a, b, p, v, w
  <2>3. t # << >> /\ DOMAIN t = 1 .. 3 /\ t[1] = a /\ t[2] = b /\ t[3] = p
    BY <2>1
  <2>4. \A i \in DOMAIN t : i = 1 \/ i = 2 \/ i = 3
    BY <2>3
  <2> QED
    BY <1>1, <2>2, <2>3, <2>4 DEF UndoListOK, Has
<1>2. ASSUME type = "upd_exist"  PROVE UndoListOK(t, type, v, w)
  <2> DEFINE a == Op("mark_or_remove", k, v)
             b == Op("unmark", k, w)
             d == Op("restore", k, 0)
             p == Op("pop", k, 0)
  <2>1. t = Append(<<a, b, d>>, p)
    BY <1>2 DEF UndoOps
  <2>2. a.op = "mark_or_remove" /\ a.val = v /\ b.op = "unmark" /\ b.val = w /\ d.op = "restore" /\ p.op = "pop"
    BY DEF Op
  <2> HIDE DEF t, a, b, d, p, v, w
  <2>3. t # << >> /\ DOMAIN t = 1 .. 4 /\ t[1] = a /\ t[2] = b /\ t[3] = d /\ t[4] = p
    BY <2>1
  <2>4. \A i \in DOMAIN t : i = 1 \/ i = 2 \/ i = 3 \/ i = 4
    BY <2>3
  <2> QED
    BY <1>2, <2>2, <2>3, <2>4 DEF UndoListOK, Has
<1>3. ASSUME type = "del_mark"  PROVE UndoListOK(t, type, v, w)
  <2> DEFINE a == Op("unmark", k, w)
             b == Op("restore", k, 0)
             p == Op("pop", k, 0)
  <2>1. t = Append(<<a, b>>, p)
    BY <1>3 DEF UndoOps
  <2>2. a.op = "unmark" /\ a.val = w /\ b.op = "restore" /\ p.op = "pop"
    BY DEF Op
  <2> HIDE DEF t, a, b, p, v, w
  <2>3. t # << >> /\ DOMAIN t = 1 .. 3 /\ t[1] = a /\ t[2] = b /\ t[3] = p
    BY <2>1
  <2>4. \A i \in DOMAIN t : i = 1 \/ i = 2 \/ i = 3
    BY <2>3
  <2> QED
    BY <1>3, <2>2, <2>3, <2>4 DEF UndoListOK, Has
<1>4. ASSUME type = "upd_del"  PROVE UndoListOK(t, type, v, w)
  <2> DEFINE a == Op("mark_or_remove", k, v)
             b == Op("restore", k, 0)
             d == Op("drop_marked", k, 0)
             p == Op("pop", k, 0)
  <2>1. t = Append(<<a, b, d>>, p)
    BY <1>4 DEF UndoOps
  <2>2. a.op = "mark_or_remove" /\ a.val = v /\ b.op = "restore" /\ d.op = "drop_marked" /\ p.op = "pop"
    BY DEF Op
  <2> HIDE DEF t, a, b, d, p, v, w
  <2>3. t # << >> /\ DOMAIN t = 1 .. 4 /\ t[1] = a /\ t[2] = b /\ t[3] = d /\ t[4] = p
    BY <2>1
  <2>4. \A i \in DOMAIN t : i = 1 \/ i = 2 \/ i = 3 \/ i = 4
    BY <2>3
  <2> QED
    BY <1>4, <2>2, <2>3, <2>4 DEF UndoListOK, Has
<1> HIDE DEF t, v, w
<1>5. UndoListOK(t, type, v, w)
  BY <1>1, <1>2, <1>3, <1>4 DEF Types
<1> QED
  BY <1>5 DEF t, v, w

\* The rows before and after the last change of a transaction, by its type.
LEMMA TopRows ==
  ASSUME RInv, MInv, NEW c \in Clients, IsActive(c), undo[trx[c].id] # << >>
  PROVE  /\ OldRowOf(c) \in Vals \cup {0}
         /\ Top(c).type \in {"insert", "upd_del"} => OldRowOf(c) = 0
         /\ Top(c).type \in {"upd_exist", "del_mark"} => OldRowOf(c) = Top(c).old.val
         /\ IsTop(c) /\ Top(c).type = "del_mark" => NewRow(c) = 0
         /\ IsTop(c) /\ Top(c).type # "del_mark" => NewRow(c) = clust[Top(c).key].val
<1>1. PICK id : id = trx[c].id
  OBVIOUS
<1>2. PICK n : n = Len(undo[id])
  OBVIOUS
<1>3. PICK k : k = Top(c).key
  OBVIOUS
<1>4. /\ id \in TrxIds /\ id \in ActiveIds /\ n \in DOMAIN undo[id] /\ Top(c) = undo[id][n]
      /\ k \in Keys /\ Top(c).old \in Record /\ Top(c).type \in Types
      /\ UndoRecOK(id, n, Top(c)) /\ RowOf(Top(c).old) \in Vals \cup {0}
  BY <1>1, <1>2, <1>3, TopFacts
<1>5. /\ Top(c).type = "insert" <=> Top(c).old = NoRec
      /\ Top(c).type = "upd_del" <=> Top(c).old.del
  BY <1>4 DEF UndoRecOK
<1>6. RowOf(NoRec) = 0
  BY DEF RowOf, NoRec
<1>7. ASSUME IsTop(c)  PROVE Top(c).type = "del_mark" <=> clust[k].del
  <2>1. clust[k].trx_id = id /\ clust[k].roll.n = n
    BY <1>1, <1>2, <1>3, <1>7 DEF IsTop
  <2>2. VersionOK(clust[k], k)
    BY <1>4 DEF MInv, VersionsOK
  <2>3. id # 0
    BY <1>4, ActiveFacts
  <2> QED
    BY <1>4, <2>1, <2>2, <2>3 DEF VersionOK
<1> QED
  BY <1>3, <1>4, <1>5, <1>6, <1>7 DEF OldRowOf, NewRow, RowOf

\* A client that has nothing to do is not busy.
LEMMA IdleWork ==
  ASSUME NEW d \in Clients, work[d].todo = << >>, work[d].rolling => undo[trx[d].id] = << >> \/ ~IsTop(d)
  PROVE  AtWorkOK(d)
<1>1. ~Busy(d)
  BY DEF Busy
<1>2. PICK s : s = work[d].todo
  OBVIOUS
<1>3. s = << >> /\ DOMAIN s = {}
  BY <1>2
<1>4. \A names : ~Has(s, names)
  BY <1>3 DEF Has
<1> QED
  BY <1>1, <1>2, <1>3, <1>4 DEF AtWorkOK

\* What others do does not disturb the work of a client.
LEMMA OthersWork ==
  ASSUME RInv, PurgePositionOK, MInv, Linked, BusyOK, LiveIsRow, [Next]_vars, ~stopped',
         NEW d \in Clients, ~ClientNext(d)
  PROVE  AtWorkOK(d)'
<1>1. /\ trx'[d] = trx[d] /\ work'[d] = work[d] /\ (IsActive(d)' <=> IsActive(d))
      /\ IsActive(d) => undo'[trx[d].id] = undo[trx[d].id]
  BY ByOthers
<1>2. AtWorkOK(d)
  BY DEF BusyOK
<1>3. work[d].todo # << >> => IsActive(d)
  BY DEF MInv, TodoOK, WorkOK
<1>4. \A names : Has(work[d].todo, names) => work[d].todo # << >>
  BY DEF Has
<1>5. CASE ~IsActive(d) \/ undo[trx[d].id] = << >>
  <2>1. work[d].todo = << >>
    BY <1>2, <1>3, <1>5 DEF AtWorkOK
  <2>2. ~Busy(d)'
    BY <1>1, <1>5 DEF Busy
  <2> QED
    BY <1>1, <1>4, <2>1, <2>2 DEF AtWorkOK
<1>6. CASE IsActive(d) /\ undo[trx[d].id] # << >>
  <2>1. ~UndoRestore(d) /\ ~UndoDrop(d)
    BY DEF ClientNext
  <2>2. /\ Top(d)' = Top(d) /\ (IsTop(d)' <=> IsTop(d))
        /\ IsTop(d) => clust'[Top(d).key] = clust[Top(d).key]
    BY <1>1, <1>6, <2>1, TopKept
  <2>3. Busy(d)' <=> Busy(d)
    BY <1>1, <1>6, <2>2 DEF Busy
  <2>4. ASSUME Busy(d)
        PROVE  IF work'[d].rolling THEN BackOK(d)' ELSE DoingOK(d)'
    <3>1. IsTop(d) /\ Top(d).key \in Keys
      BY <1>6, <2>4, BusyTop, TopFacts
    <3>2. PICK k \in Keys : k = Top(d).key
      BY <3>1
    <3>3. \A c \in Clients : ~SecOpOn(c, k)
      <4> SUFFICES ASSUME NEW c \in Clients, SecOpOn(c, k)  PROVE FALSE
        OBVIOUS
      <4>1. Busy(c) /\ Top(c).key = k
        BY SecOpBusy
      <4>2. c = d
        BY <1>6, <3>1, <3>2, <4>1, BusyAlone
      <4> QED
        BY <4>2 DEF SecOpOn, ClientNext
    <3>4. \A v \in Vals : /\ Live(k, v)' <=> Live(k, v)
                          /\ sec[k][v] = "none" => sec'[k][v] = "none"
      BY <3>3, EntriesStay
    <3>5. OldRowOf(d)' = OldRowOf(d) /\ NewRow(d)' = NewRow(d)
      BY <2>2, <3>1 DEF OldRowOf, NewRow, RowOf
    <3>6. OldRowOf(d) \in Vals \cup {0} /\ NewRow(d) \in Vals \cup {0}
      <4>1. clust[k] \in Record
        BY DEF MInv, TypesOK
      <4> QED
        BY <1>6, <3>2, <4>1, TopRows, RowTyped DEF NewRow
    <3>7. CASE work[d].rolling
      <4>1. BackOK(d)
        BY <2>4, <3>7, <1>2 DEF AtWorkOK
      <4>2. \A i \in DOMAIN work[d].todo :
              LET o == work[d].todo[i]
              IN  /\ o.op \in {"remove", "mark_or_remove"} => o.val = NewRow(d)
                  /\ o.op = "remove" => Top(d).type = "insert"
                  /\ o.op = "unmark" => o.val = OldRowOf(d)
                  /\ \A j \in DOMAIN work[d].todo : i < j /\ o.op = "unmark" =>
                         work[d].todo[j].op \notin {"remove", "mark_or_remove"}
        BY <4>1 DEF BackOK
      <4>3. \A v \in Vals : Live(k, v)' => v \in {OldRowOf(d), NewRow(d)}
        BY <3>2, <3>4, <4>1 DEF BackOK
      <4>4. work[d].todo # << >> =>
              /\ NewRow(d) # 0 /\ ~Has(work[d].todo, {"remove", "mark_or_remove"}) => sec'[k][NewRow(d)] = "none"
              /\ OldRowOf(d) # 0 /\ ~Has(work[d].todo, {"unmark"}) => Live(k, OldRowOf(d))'
        <5>1. work[d].todo # << >> /\ NewRow(d) # 0 /\ ~Has(work[d].todo, {"remove", "mark_or_remove"})
                => sec[k][NewRow(d)] = "none"
          BY <3>2, <4>1 DEF BackOK
        <5>2. work[d].todo # << >> /\ OldRowOf(d) # 0 /\ ~Has(work[d].todo, {"unmark"}) => Live(k, OldRowOf(d))
          BY <3>2, <4>1 DEF BackOK
        <5>3. PICK v : v = NewRow(d)
          OBVIOUS
        <5>4. PICK w : w = OldRowOf(d)
          OBVIOUS
        <5>5. v # 0 /\ sec[k][v] = "none" => sec'[k][v] = "none"
          BY <3>4, <3>6, <5>3
        <5>6. w # 0 /\ Live(k, w) => Live(k, w)'
          BY <3>4, <3>6, <5>4
        <5>7. Live(k, OldRowOf(d))' <=> Live(k, w)'
          BY <3>5, <5>4 DEF Live
        <5> QED
          BY <5>1, <5>2, <5>3, <5>4, <5>5, <5>6, <5>7
      <4>5. BackOK(d)'
        BY <1>1, <2>2, <3>2, <3>5, <4>2, <4>3, <4>4 DEF BackOK
      <4> QED
        BY <1>1, <3>7, <4>5
    <3>8. CASE ~work[d].rolling
      <4>1. DoingOK(d)
        BY <2>4, <3>8, <1>2 DEF AtWorkOK
      <4>2. \A v \in Vals : Live(k, v)' <=> HasOp(work[d].todo, "mark", v)
        BY <3>2, <3>4, <4>1 DEF DoingOK
      <4>3. DoingOK(d)'
        BY <1>1, <2>2, <3>2, <3>5, <4>1, <4>2 DEF DoingOK
      <4> QED
        BY <1>1, <3>8, <4>3
    <3> QED
      BY <3>7, <3>8
  <2>5. PICK s : s = work[d].todo /\ s = work'[d].todo
    BY <1>1
  <2>6. /\ work[d].rolling /\ Has(s, SecOps) => IsTop(d)
        /\ work[d].rolling /\ s # << >> => Has(s, {"pop"})
    BY <1>2, <2>5 DEF AtWorkOK
  <2>7. undo'[trx'[d].id] # << >>
    BY <1>1, <1>6
  <2>8. /\ work'[d].rolling /\ Has(s, SecOps) => IsTop(d)'
        /\ work'[d].rolling /\ s # << >> => Has(s, {"pop"})
    BY <1>1, <2>2, <2>6
  <2> QED
    BY <2>3, <2>4, <2>5, <2>7, <2>8 DEF AtWorkOK, Has
<1> QED
  BY <1>5, <1>6

\* A row operation begins a change, with a list of work that completes it.
LEMMA RowStepBusy ==
  ASSUME RInv, MInv, BusyOK, LiveIsRow, NEW c \in Clients, NEW k \in Keys,
         NEW type, NEW del, NEW val, NEW todo, RowStep(c, k, type, del, val, todo)
  PROVE  /\ Busy(c)' /\ Top(c)'.key = k /\ OldRowOf(c)' = RowOf(clust[k])
         /\ \A v \in Vals : Live(k, v) <=> RowOf(clust[k]) = v
         /\ UNCHANGED sec
         /\ AtWorkOK(c)'
<1>1. PICK id : id = trx[c].id
  OBVIOUS
<1>2. PICK n : n = Len(undo[id]) + 1
  OBVIOUS
<1>3. /\ type \in Types /\ del \in BOOLEAN /\ val \in Vals
      /\ IsActive(c) /\ id \in TrxIds /\ n \in 1 .. MaxUndo
      /\ clust'[k].trx_id = id /\ clust'[k].roll.n = n
      /\ RowOf(clust'[k]) = IF del THEN 0 ELSE val
      /\ undo' \in [TrxIds -> Seq(UndoRec)]
      /\ DOMAIN undo'[id] = 1 .. n
      /\ undo'[id][n].key = k /\ undo'[id][n].old = clust[k]
      /\ work'[c].todo = todo /\ todo # << >> /\ ~work'[c].rolling
      /\ trx' = trx /\ sec' = sec
  BY <1>1, <1>2, RowStepFacts
<1>4. undo'[id] \in Seq(UndoRec) /\ Len(undo'[id]) = n /\ undo'[id] # << >>
  <2>1. undo'[id] \in Seq(UndoRec)
    BY <1>3
  <2>2. Len(undo'[id]) \in Nat /\ DOMAIN undo'[id] = 1 .. Len(undo'[id])
    BY <2>1
  <2>3. n \in Nat /\ n >= 1
    BY <1>3
  <2>4. n \in 1 .. Len(undo'[id]) /\ Len(undo'[id]) \in 1 .. n
    <3>1. n \in 1 .. n
      BY <2>3
    <3>2. n \in 1 .. Len(undo'[id])
      BY <1>3, <2>2, <3>1
    <3>3. Len(undo'[id]) >= 1
      BY <2>2, <3>2
    <3>4. Len(undo'[id]) \in 1 .. Len(undo'[id])
      BY <2>2, <3>3
    <3> QED
      BY <1>3, <2>2, <3>2, <3>4
  <2>5. Len(undo'[id]) = n
    BY <2>2, <2>3, <2>4
  <2>6. undo'[id] # << >>
    BY <2>3, <2>5
  <2> QED
    BY <2>1, <2>5, <2>6
<1>5. Top(c)' = undo'[id][n]
  BY <1>1, <1>3, <1>4 DEF Top
<1>6. Top(c)'.key = k /\ Top(c)'.old = clust[k]
  BY <1>3, <1>5
<1>7. IsTop(c)'
  BY <1>1, <1>3, <1>4, <1>6 DEF IsTop
<1>8. IsActive(c)' /\ Busy(c)'
  BY <1>1, <1>3, <1>4 DEF IsActive, Busy
<1>9. OldRowOf(c)' = RowOf(clust[k]) /\ NewRow(c)' = RowOf(clust'[k])
  BY <1>6 DEF OldRowOf, NewRow, RowOf
<1>10. ~BusyWith(k)
  BY RowStepAlone
<1>11. \A v \in Vals : Live(k, v) <=> RowOf(clust[k]) = v
  BY <1>10 DEF LiveIsRow
<1>12. /\ \A i \in DOMAIN todo : todo[i].op \in {"mark", "insert"} /\ todo[i].val \in Vals
       /\ RowList(k, clust[k], del, val, todo)
  BY DEF RowStep
<1>13. PICK r : r = RowOf(clust[k])
  OBVIOUS
<1>14. \A v \in Vals : v # 0
  BY RowAssumption
<1>15. \A v \in Vals : r = v <=> HasOp(todo, "mark", v)
  <2> SUFFICES ASSUME NEW v \in Vals  PROVE r = v <=> HasOp(todo, "mark", v)
    OBVIOUS
  <2>1. r = v => HasOp(todo, "mark", v)
    BY <1>12, <1>13, <1>14 DEF RowList
  <2>2. HasOp(todo, "mark", v) => r = v
    BY <1>12, <1>13 DEF RowList, HasOp
  <2> QED
    BY <2>1, <2>2
<1>16. PICK s : s = RowOf(clust'[k])
  OBVIOUS
<1>17. /\ \A i \in DOMAIN todo : /\ todo[i].key = k
                                 /\ todo[i].op = "mark" => todo[i].val = r
                                 /\ todo[i].op = "insert" => todo[i].val = s
       /\ s # 0 => Has(todo, {"insert"})
       /\ \A i, j \in DOMAIN todo : i < j => todo[i].op = "mark" /\ todo[j].op = "insert"
  BY <1>3, <1>12, <1>13, <1>16 DEF RowList
<1>18. \A v \in Vals : Live(k, v)' <=> HasOp(todo, "mark", v)
  BY <1>3, <1>11, <1>13, <1>15 DEF Live
<1>19. DoingOK(c)'
  BY <1>3, <1>6, <1>7, <1>9, <1>13, <1>16, <1>17, <1>18 DEF DoingOK
<1>20. AtWorkOK(c)'
  BY <1>1, <1>3, <1>4, <1>19 DEF AtWorkOK
<1> QED
  BY <1>3, <1>6, <1>8, <1>9, <1>11, <1>20

\* The end of a change: the secondary entry of the new row, if there is
\* one, is the last to be made live, and no other one is then live.
LEMMA DoingStep ==
  ASSUME RInv, PurgePositionOK, MInv, BusyOK, [Next]_vars, ~stopped', NEW c \in Clients,
         SecMark(c) \/ SecInsert(c), NEW k, k = Top(c).key
  PROVE  /\ Busy(c) /\ k \in Keys /\ clust' = clust /\ ~work'[c].rolling
         /\ SecInsert(c) => work'[c].todo = << >>
         /\ work'[c].todo # << >> => DoingOK(c)'
         /\ work'[c].todo = << >> => \A v \in Vals : Live(k, v)' <=> NewRow(c) = v
         /\ (SecInsert(c) \/ \E v \in Vals : Live(k, v) /\ OldRowOf(c) = v /\ ~Live(k, v)')
                => max_trx_id' >= clust[k].trx_id
<1>1. PICK s : s = work[c].todo
  OBVIOUS
<1>2. PICK o : o = Head(s)
  OBVIOUS
<1>3. /\ s # << >> /\ work'[c].todo = Tail(s) /\ work'[c].rolling = work[c].rolling
  BY <1>1, WorkSteps
<1>4. o.op \in {"mark", "insert"} /\ (SecMark(c) => o.op = "mark") /\ (SecInsert(c) => o.op = "insert")
  BY <1>1, <1>2 DEF SecMark, SecInsert, Doing
<1>5. /\ ~work[c].rolling /\ IsActive(c) /\ undo[trx[c].id] # << >> /\ IsTop(c) /\ Busy(c) /\ DoingOK(c)
      /\ o.key = k /\ o.val \in Vals
      /\ o.op = "mark" => o.val = OldRowOf(c)
      /\ o.op = "insert" => o.val = NewRow(c)
  BY <1>1, <1>2, <1>3, <1>4, DoingOp
<1>6. k \in Keys
  BY <1>5, TopFacts
<1>7. SecOpOn(c, k)
  BY <1>1, <1>2, <1>3, <1>5 DEF SecOpOn
<1>8. /\ \A v \in Vals : v # o.val => sec'[k][v] = sec[k][v]
      /\ SecMark(c) => /\ ~Live(k, o.val)'
                       /\ Live(k, o.val) => max_trx_id' >= trx[c].id
      /\ SecInsert(c) => Live(k, o.val)' /\ max_trx_id' >= trx[c].id
      /\ clust' = clust /\ undo' = undo /\ trx' = trx
  BY <1>1, <1>2, <1>5, <1>6, <1>7, OwnEntry
<1>9. /\ s \in Seq(RowOp) /\ 1 \in DOMAIN s /\ o = s[1]
      /\ \A i \in DOMAIN Tail(s) : i \in Nat /\ i + 1 \in DOMAIN s /\ Tail(s)[i] = s[i + 1]
      /\ \A names : o.op \notin names /\ Has(s, names) => Has(Tail(s), names)
      /\ \A names : Has(Tail(s), names) => Tail(s) # << >>
  BY <1>1, <1>2, <1>3, TodoFacts
<1>10. /\ \A i \in DOMAIN s : /\ s[i].key = k
                              /\ s[i].op = "mark" => s[i].val = OldRowOf(c)
                              /\ s[i].op = "insert" => s[i].val = NewRow(c)
       /\ NewRow(c) # 0 => Has(s, {"insert"})
       /\ \A i, j \in DOMAIN s : i < j => s[i].op = "mark" /\ s[j].op = "insert"
       /\ \A v \in Vals : Live(k, v) <=> HasOp(s, "mark", v)
  BY <1>1, <1>5 DEF DoingOK
<1>11. DOMAIN Tail(s) \subseteq Nat /\ \A i \in DOMAIN Tail(s) : i >= 1
  BY <1>3, <1>9
<1>12. \A i \in DOMAIN Tail(s) : Tail(s)[i].op = "insert" /\ o.op = "mark"
  BY <1>9, <1>10, <1>11
<1>13. \A v \in Vals : ~HasOp(Tail(s), "mark", v)
  BY <1>12 DEF HasOp
<1>14. \A v \in Vals : Live(k, v)' => SecInsert(c) /\ v = o.val
  <2> SUFFICES ASSUME NEW v \in Vals, Live(k, v)'  PROVE SecInsert(c) /\ v = o.val
    OBVIOUS
  <2>1. CASE v # o.val
    <3>1. HasOp(s, "mark", v)
      BY <1>8, <1>10, <2>1 DEF Live
    <3>2. PICK i \in DOMAIN s : s[i].op = "mark" /\ s[i].val = v
      BY <3>1 DEF HasOp
    <3>3. v = OldRowOf(c) /\ o.op # "mark"
      BY <1>5, <1>10, <2>1, <3>2
    <3>4. i # 1 /\ i \in Nat /\ i >= 1
      BY <1>9, <3>2, <3>3
    <3>5. s[i].op = "insert"
      BY <1>9, <1>10, <3>4
    <3> QED
      BY <3>2, <3>5
  <2>2. CASE v = o.val
    BY <1>8, <2>2
  <2> QED
    BY <2>1, <2>2
<1>15. SecInsert(c) => Tail(s) = << >>
  <2> SUFFICES ASSUME SecInsert(c), Tail(s) # << >>  PROVE FALSE
    OBVIOUS
  <2>1. Tail(s) \in Seq(RowOp)
    BY <1>3, <1>9
  <2>2. 1 \in DOMAIN Tail(s)
    BY <2>1
  <2> QED
    BY <1>4, <1>12, <2>2
<1>16. /\ Top(c)' = Top(c) /\ IsTop(c)' /\ OldRowOf(c)' = OldRowOf(c) /\ NewRow(c)' = NewRow(c)
  BY <1>5, <1>8 DEF Top, IsTop, OldRowOf, NewRow, RowOf
<1>17. ASSUME Tail(s) # << >>  PROVE DoingOK(c)'
  <2>1. ~SecInsert(c) /\ o.op = "mark"
    BY <1>4, <1>15, <1>17
  <2>2. NewRow(c) # 0 => Has(Tail(s), {"insert"})
    BY <1>9, <1>10, <2>1
  <2>3. \A i \in DOMAIN Tail(s) : /\ Tail(s)[i].key = k
                                  /\ Tail(s)[i].op = "mark" => Tail(s)[i].val = OldRowOf(c)
                                  /\ Tail(s)[i].op = "insert" => Tail(s)[i].val = NewRow(c)
    BY <1>9, <1>10
  <2>4. \A i, j \in DOMAIN Tail(s) : i < j => Tail(s)[i].op = "mark" /\ Tail(s)[j].op = "insert"
    BY <1>9, <1>10
  <2>5. \A v \in Vals : Live(k, v)' <=> HasOp(Tail(s), "mark", v)
    BY <1>13, <1>14, <2>1
  <2>6. PICK t : t = Tail(s)
    OBVIOUS
  <2>7. work'[c].todo = t
    BY <1>3, <2>6
  <2> QED
    BY <1>16, <2>2, <2>3, <2>4, <2>5, <2>6, <2>7 DEF DoingOK, Has, HasOp
<1>18. ASSUME Tail(s) = << >>, NEW v \in Vals
       PROVE  Live(k, v)' <=> NewRow(c) = v
  <2>1. v # 0
    BY RowAssumption
  <2>2. CASE SecInsert(c)
    BY <1>4, <1>5, <1>8, <1>14, <2>2
  <2>3. CASE SecMark(c)
    <3>1. ~Has(Tail(s), {"insert"})
      BY <1>9, <1>18
    <3>2. NewRow(c) = 0
      BY <1>4, <1>9, <1>10, <2>3, <3>1
    <3>3. o.op # "insert"
      BY <1>4, <2>3
    <3>4. ~SecInsert(c)
      BY <1>4, <3>3
    <3> QED
      BY <1>14, <2>1, <3>2, <3>4
  <2> QED
    BY <2>2, <2>3
<1>19. ASSUME SecInsert(c) \/ \E v \in Vals : Live(k, v) /\ OldRowOf(c) = v /\ ~Live(k, v)'
       PROVE  max_trx_id' >= clust[k].trx_id
  <2>1. clust[k].trx_id = trx[c].id
    BY <1>5 DEF IsTop
  <2>2. CASE SecInsert(c)
    BY <1>8, <2>1, <2>2
  <2>3. ASSUME NEW v \in Vals, Live(k, v), OldRowOf(c) = v, SecMark(c)
        PROVE  max_trx_id' >= clust[k].trx_id
    BY <1>4, <1>5, <1>8, <2>1, <2>3
  <2> QED
    BY <1>19, <2>2, <2>3
<1> QED
  BY <1>3, <1>5, <1>6, <1>8, <1>15, <1>17, <1>18, <1>19

\* A transaction that starts to roll back has nothing to do yet.
LEMMA StartWork ==
  ASSUME RInv, MInv, BusyOK, LiveIsRow, NEW c \in Clients, StartRollback(c)
  PROVE  AtWorkOK(c)'
<1>1. /\ ~work[c].rolling /\ work'[c].todo = << >> /\ work'[c].rolling
      /\ IsActive(c) /\ undo[trx[c].id] # << >>
      /\ UNCHANGED <<trx, undo, clust, sec>>
  BY WorkSteps
<1>2. Top(c)' = Top(c) /\ (IsTop(c)' <=> IsTop(c)) /\ OldRowOf(c)' = OldRowOf(c) /\ NewRow(c)' = NewRow(c)
  BY <1>1 DEF Top, IsTop, OldRowOf, NewRow, RowOf
<1>3. PICK k \in Keys : k = Top(c).key
  BY <1>1, TopFacts
<1>4. ASSUME IsTop(c), NEW v \in Vals, Live(k, v)
      PROVE  v \in {OldRowOf(c), NewRow(c)}
  <2>1. CASE Busy(c)
    <3>1. DoingOK(c)
      BY <1>1, <2>1 DEF BusyOK, AtWorkOK
    <3>2. HasOp(work[c].todo, "mark", v)
      BY <1>3, <1>4, <3>1 DEF DoingOK
    <3> QED
      BY <3>1, <3>2 DEF DoingOK, HasOp
  <2>2. CASE ~Busy(c)
    <3>1. ~BusyWith(k)
      <4> SUFFICES ASSUME NEW d \in Clients, Busy(d), Top(d).key = k  PROVE FALSE
        BY DEF BusyWith
      <4>1. c = d
        BY <1>1, <1>3, <1>4, BusyAlone
      <4> QED
        BY <2>2, <4>1
    <3> QED
      BY <1>3, <1>4, <3>1 DEF LiveIsRow, NewRow
  <2> QED
    BY <2>1, <2>2
<1>5. PICK s : s = work'[c].todo
  OBVIOUS
<1>6. s = << >> /\ DOMAIN s = {}
  BY <1>1, <1>5
<1>7. \A names : ~Has(s, names)
  BY <1>6 DEF Has
<1>8. IsTop(c) => BackOK(c)'
  <2> SUFFICES ASSUME IsTop(c)  PROVE BackOK(c)'
    OBVIOUS
  <2>1. \A v \in Vals : Live(k, v)' => v \in {OldRowOf(c), NewRow(c)}
    BY <1>1, <1>4 DEF Live
  <2> QED
    BY <1>2, <1>3, <1>5, <1>6, <2>1 DEF BackOK
<1>9. Busy(c)' => IsTop(c)
  BY <1>1, <1>2 DEF Busy
<1> QED
  BY <1>1, <1>5, <1>6, <1>7, <1>8, <1>9 DEF AtWorkOK

\* The work of undoing the next record.
LEMMA NextWork ==
  ASSUME RInv, MInv, Linked, BusyOK, NEW c \in Clients, UndoNext(c)
  PROVE  AtWorkOK(c)'
<1>1. /\ work[c].todo = << >> /\ work[c].rolling /\ work'[c].rolling
      /\ IsActive(c) /\ undo[trx[c].id] # << >>
      /\ UNCHANGED <<trx, undo, clust, sec>>
  BY WorkSteps
<1>2. IsTop(c)
  BY <1>1, RollsBackTop
<1>3. PICK id : id = trx[c].id
  OBVIOUS
<1>4. PICK n : n = Len(undo[id])
  OBVIOUS
<1>5. PICK k : k = Top(c).key
  OBVIOUS
<1>6. /\ k \in Keys /\ Top(c).old \in Record /\ Top(c).type \in Types /\ id \in ActiveIds
      /\ Top(c) = undo[id][n]
  BY <1>1, <1>3, <1>4, <1>5, TopFacts
<1>7. clust[k].trx_id = id /\ clust[k].roll.n = n
  BY <1>2, <1>3, <1>4, <1>5 DEF IsTop
<1>8. clust[k] # NoRec /\ clust[k].roll.trx = id
  <2>1. clust[k] \in Record /\ VersionOK(clust[k], k)
    BY <1>6 DEF MInv, TypesOK, VersionsOK
  <2>2. id # 0
    BY <1>6, ActiveFacts
  <2> QED
    BY <1>7, <2>1, <2>2, RecordFacts DEF VersionOK
<1>9. PICK t : t = Append(UndoOps(Top(c).type, k, Top(c).old), Op("pop", k, 0))
  OBVIOUS
<1>10. work' = [work EXCEPT ![c].todo = t]
  BY <1>3, <1>4, <1>5, <1>7, <1>8, <1>9 DEF UndoNext
<1>11. work'[c].todo = t
  <2>1. work \in [Clients -> Work]
    BY DEF MInv, TypesOK
  <2>2. work[c] \in Work
    BY <2>1
  <2> QED
    BY <1>10, <2>1, <2>2 DEF Work
<1>12. UndoListOK(t, Top(c).type, clust[k].val, Top(c).old.val)
  BY <1>6, <1>9, UndoLists
<1>13. /\ Top(c).type \in {"insert", "upd_del"} => OldRowOf(c) = 0
       /\ Top(c).type \in {"upd_exist", "del_mark"} => OldRowOf(c) = Top(c).old.val
       /\ Top(c).type = "del_mark" => NewRow(c) = 0
       /\ Top(c).type # "del_mark" => NewRow(c) = clust[k].val
  BY <1>1, <1>2, <1>5, TopRows
<1>14. Top(c)' = Top(c) /\ (IsTop(c)' <=> IsTop(c)) /\ OldRowOf(c)' = OldRowOf(c) /\ NewRow(c)' = NewRow(c)
  BY <1>1 DEF Top, IsTop, OldRowOf, NewRow, RowOf
<1>15. Busy(c)
  BY <1>1, <1>2 DEF Busy
<1>16. BackOK(c)
  BY <1>1, <1>15 DEF BusyOK, AtWorkOK
<1>17. \A v \in Vals : Live(k, v)' => v \in {OldRowOf(c), NewRow(c)}
  BY <1>1, <1>5, <1>16 DEF BackOK, Live
<1>18. \A i \in DOMAIN t :
         LET o == t[i]
         IN  /\ o.op \in {"remove", "mark_or_remove"} => o.val = NewRow(c)
             /\ o.op = "remove" => Top(c).type = "insert"
             /\ o.op = "unmark" => o.val = OldRowOf(c)
             /\ \A j \in DOMAIN t : i < j /\ o.op = "unmark" => t[j].op \notin {"remove", "mark_or_remove"}
  BY <1>12, <1>13 DEF UndoListOK
<1>19. /\ NewRow(c) # 0 => Has(t, {"remove", "mark_or_remove"})
       /\ OldRowOf(c) # 0 => Has(t, {"unmark"})
       /\ Has(t, {"pop"})
  BY <1>6, <1>12, <1>13 DEF UndoListOK, Types
<1>20. BackOK(c)'
  BY <1>5, <1>11, <1>14, <1>17, <1>18, <1>19 DEF BackOK
<1> QED
  BY <1>1, <1>2, <1>11, <1>14, <1>19, <1>20 DEF AtWorkOK

\* An undone secondary entry.
LEMMA UndoSecWork ==
  ASSUME RInv, PurgePositionOK, MInv, BusyOK, [Next]_vars, ~stopped', NEW c \in Clients,
         UndoSecRemove(c) \/ UndoSecMarkOrRemove(c) \/ UndoSecUnmark(c), NEW k, k = Top(c).key
  PROVE  /\ AtWorkOK(c)' /\ Busy(c) /\ k \in Keys
         /\ \A v \in Vals : OldRowOf(c) = v /\ Live(k, v) => Live(k, v)'
         /\ \A v \in Vals : OldRowOf(c) # v /\ ~Live(k, v) => ~Live(k, v)'
<1>1. PICK s : s = work[c].todo
  OBVIOUS
<1>2. PICK o : o = Head(s)
  OBVIOUS
<1>3. /\ s # << >> /\ work'[c].todo = Tail(s) /\ work'[c].rolling = work[c].rolling
  BY <1>1, WorkSteps
<1>4. /\ o.op \in {"remove", "mark_or_remove", "unmark"}
      /\ UndoSecRemove(c) <=> o.op = "remove"
      /\ UndoSecMarkOrRemove(c) <=> o.op = "mark_or_remove"
      /\ UndoSecUnmark(c) <=> o.op = "unmark"
  BY <1>1, <1>2 DEF UndoSecRemove, UndoSecMarkOrRemove, UndoSecUnmark, Doing
<1>5. /\ work[c].rolling /\ IsActive(c) /\ undo[trx[c].id] # << >> /\ IsTop(c) /\ Busy(c) /\ BackOK(c)
      /\ o.key = k /\ o.val \in Vals
      /\ o.op \in {"remove", "mark_or_remove"} => o.val = NewRow(c)
      /\ o.op = "remove" => Top(c).type = "insert"
      /\ o.op = "unmark" => o.val = OldRowOf(c) /\ ~Has(s, {"remove", "mark_or_remove"})
  BY <1>1, <1>2, <1>3, <1>4, RollingOp
<1>6. k \in Keys /\ OldRowOf(c) \in Vals \cup {0} /\ (Top(c).type = "insert" => OldRowOf(c) = 0)
  BY <1>5, TopFacts, TopRows
<1>7. SecOpOn(c, k)
  BY <1>1, <1>2, <1>3, <1>5 DEF SecOpOn
<1>8. /\ \A v \in Vals : v # o.val => sec'[k][v] = sec[k][v]
      /\ o.op = "remove" => sec'[k][o.val] = "none"
      /\ o.op = "mark_or_remove" => sec'[k][o.val] = "none" /\ sec[k][o.val] = "none"
      /\ o.op = "unmark" => sec[k][o.val] # "none" /\ Live(k, o.val)'
      /\ clust' = clust /\ undo' = undo /\ trx' = trx
  BY <1>1, <1>2, <1>4, <1>5, <1>6, <1>7, OwnEntry
<1>9. /\ s \in Seq(RowOp) /\ 1 \in DOMAIN s /\ o = s[1]
      /\ \A i \in DOMAIN Tail(s) : i \in Nat /\ i + 1 \in DOMAIN s /\ Tail(s)[i] = s[i + 1]
      /\ \A names : o.op \notin names /\ Has(s, names) => Has(Tail(s), names)
      /\ \A names : Has(Tail(s), names) => Has(s, names)
      /\ \A names : Has(Tail(s), names) => Tail(s) # << >>
  BY <1>1, <1>2, <1>3, TodoFacts, ZenonT(60)
<1>10. /\ \A i \in DOMAIN s :
              /\ s[i].op \in {"remove", "mark_or_remove"} => s[i].val = NewRow(c)
              /\ s[i].op = "remove" => Top(c).type = "insert"
              /\ s[i].op = "unmark" => s[i].val = OldRowOf(c)
              /\ \A j \in DOMAIN s : i < j /\ s[i].op = "unmark" => s[j].op \notin {"remove", "mark_or_remove"}
       /\ \A v \in Vals : Live(k, v) => v \in {OldRowOf(c), NewRow(c)}
       /\ NewRow(c) # 0 /\ ~Has(s, {"remove", "mark_or_remove"}) => sec[k][NewRow(c)] = "none"
       /\ OldRowOf(c) # 0 /\ ~Has(s, {"unmark"}) => Live(k, OldRowOf(c))
  BY <1>1, <1>3, <1>5 DEF BackOK
<1>11. /\ Top(c)' = Top(c) /\ IsTop(c)' /\ OldRowOf(c)' = OldRowOf(c) /\ NewRow(c)' = NewRow(c)
       /\ undo'[trx'[c].id] # << >>
  BY <1>5, <1>8 DEF Top, IsTop, OldRowOf, NewRow, RowOf
<1>12. \A v \in Vals : Live(k, v)' => Live(k, v) \/ v = OldRowOf(c)
  BY <1>4, <1>5, <1>8 DEF Live
<1>13. \A v \in Vals : OldRowOf(c) = v /\ Live(k, v) => Live(k, v)'
  <2> SUFFICES ASSUME NEW v \in Vals, OldRowOf(c) = v, Live(k, v)  PROVE Live(k, v)'
    OBVIOUS
  <2>1. v # 0
    BY RowAssumption
  <2>2. o.op # "remove"
    BY <1>5, <1>6, <2>1
  <2> QED
    BY <1>4, <1>5, <1>8, <2>2 DEF Live
<1>14. \A i \in DOMAIN Tail(s) :
         LET p == Tail(s)[i]
         IN  /\ p.op \in {"remove", "mark_or_remove"} => p.val = NewRow(c)
             /\ p.op = "remove" => Top(c).type = "insert"
             /\ p.op = "unmark" => p.val = OldRowOf(c)
             /\ \A j \in DOMAIN Tail(s) : i < j /\ p.op = "unmark" =>
                    Tail(s)[j].op \notin {"remove", "mark_or_remove"}
  BY <1>9, <1>10
<1>15. \A v \in Vals : v # 0
  BY RowAssumption
<1>16. NewRow(c) \in Vals \cup {0}
  <2>1. clust[k] \in Record
    BY <1>6 DEF MInv, TypesOK
  <2> QED
    BY <2>1, RowTyped DEF NewRow
<1>17. NewRow(c) # 0 /\ ~Has(Tail(s), {"remove", "mark_or_remove"}) => sec'[k][NewRow(c)] = "none"
  <2> SUFFICES ASSUME NewRow(c) # 0, ~Has(Tail(s), {"remove", "mark_or_remove"})
               PROVE  sec'[k][NewRow(c)] = "none"
    OBVIOUS
  <2>1. CASE o.op \in {"remove", "mark_or_remove"}
    BY <1>5, <1>8, <2>1
  <2>2. CASE o.op = "unmark"
    <3>1. sec[k][NewRow(c)] = "none"
      BY <1>5, <1>10, <2>2
    <3>2. NewRow(c) # o.val
      BY <1>8, <2>2, <3>1
    <3> QED
      BY <1>8, <1>16, <3>1, <3>2
  <2> QED
    BY <1>4, <2>1, <2>2
<1>18. OldRowOf(c) # 0 /\ ~Has(Tail(s), {"unmark"}) => Live(k, OldRowOf(c))'
  <2> SUFFICES ASSUME OldRowOf(c) # 0, ~Has(Tail(s), {"unmark"})
               PROVE  Live(k, OldRowOf(c))'
    OBVIOUS
  <2>1. PICK v \in Vals : v = OldRowOf(c) /\ v = OldRowOf(c)'
    BY <1>6, <1>11
  <2>2. CASE o.op = "unmark"
    BY <1>5, <1>8, <2>1, <2>2 DEF Live
  <2>3. CASE o.op \in {"remove", "mark_or_remove"}
    <3>1. Live(k, v)
      BY <1>9, <1>10, <2>1, <2>3
    <3>2. Live(k, v)'
      BY <1>13, <2>1, <3>1
    <3> QED
      BY <2>1, <3>2 DEF Live
  <2> QED
    BY <1>4, <2>2, <2>3
<1>19. \A v \in Vals : Live(k, v)' => v \in {OldRowOf(c), NewRow(c)}
  BY <1>10, <1>12
<1>20. PICK t : t = Tail(s)
  OBVIOUS
<1>21. k = Top(c)'.key /\ work'[c].todo = t /\ work'[c].rolling
  BY <1>3, <1>5, <1>11, <1>20
<1>22. BackOK(c)'
  <2>1. OldRowOf(c) # 0 /\ ~Has(t, {"unmark"}) => Live(k, OldRowOf(c))'
    BY <1>18, <1>20
  <2>2. NewRow(c) # 0 /\ ~Has(t, {"remove", "mark_or_remove"}) => sec'[k][NewRow(c)] = "none"
    BY <1>17, <1>20
  <2>3. \A i \in DOMAIN t :
         LET p == t[i]
         IN  /\ p.op \in {"remove", "mark_or_remove"} => p.val = NewRow(c)
             /\ p.op = "remove" => Top(c).type = "insert"
             /\ p.op = "unmark" => p.val = OldRowOf(c)
             /\ \A j \in DOMAIN t : i < j /\ p.op = "unmark" => t[j].op \notin {"remove", "mark_or_remove"}
    BY <1>14, <1>20
  <2> QED
    BY <1>11, <1>19, <1>21, <2>1, <2>2, <2>3 DEF BackOK, Has
<1>23. Has(s, {"pop"}) /\ o.op # "pop"
  BY <1>1, <1>3, <1>4, <1>5 DEF BusyOK, AtWorkOK
<1>24. Has(t, {"pop"})
  BY <1>9, <1>20, <1>23
<1>25. AtWorkOK(c)'
  BY <1>11, <1>21, <1>22, <1>24 DEF AtWorkOK, Has
<1> QED
  BY <1>5, <1>6, <1>12, <1>13, <1>25

\* After an operation on the clustered index none on the secondary index
\* is left of a list of work.
LEMMA TailWork ==
  ASSUME RInv, MInv, BusyOK, NEW c \in Clients,
         UndoRestore(c) \/ UndoDrop(c) \/ UndoDropMarked(c)
  PROVE  /\ ~Has(Tail(work[c].todo), SecOps)
         /\ work[c].rolling => Has(Tail(work[c].todo), {"pop"})
<1>1. PICK s : s = work[c].todo
  OBVIOUS
<1>2. PICK o : o = Head(s)
  OBVIOUS
<1>3. s # << >> /\ o.op \in {"restore", "drop", "drop_marked"}
  BY <1>1, <1>2 DEF UndoRestore, UndoDrop, UndoDropMarked, Doing
<1>4. /\ OrderOK(s) /\ 1 \in DOMAIN s /\ o = s[1] /\ s \in Seq(RowOp)
      /\ \A i \in DOMAIN Tail(s) : i \in Nat /\ i + 1 \in DOMAIN s /\ Tail(s)[i] = s[i + 1]
      /\ \A names : o.op \notin names /\ Has(s, names) => Has(Tail(s), names)
  BY <1>1, <1>2, <1>3, TodoFacts
<1>5. DOMAIN Tail(s) \subseteq Nat /\ \A i \in DOMAIN Tail(s) : i >= 1
  BY <1>3, <1>4
<1>6. \A i \in DOMAIN Tail(s) : Tail(s)[i].op \in {"drop_marked", "pop"}
  BY <1>3, <1>4, <1>5 DEF OrderOK, ClustOps
<1>7. ~Has(Tail(s), SecOps)
  BY <1>6 DEF Has, SecOps
<1>8. work[c].rolling => Has(s, {"pop"})
  BY <1>1, <1>3 DEF BusyOK, AtWorkOK
<1> QED
  BY <1>1, <1>3, <1>4, <1>7, <1>8

\* The last change is undone in the clustered index.
LEMMA UndoneWork ==
  ASSUME RInv, MInv, BusyOK, NEW c \in Clients, UndoesTop(c)
  PROVE  AtWorkOK(c)'
<1>1. /\ IsActive(c) /\ work[c].rolling /\ undo[trx[c].id] # << >> /\ IsTop(c)
      /\ work[c].todo # << >> /\ work'[c].todo = Tail(work[c].todo) /\ work'[c].rolling
      /\ UNCHANGED <<trx, undo>>
  BY UndoesTopFacts
<1>2. PICK id : id = trx[c].id
  OBVIOUS
<1>3. PICK n : n = Len(undo[id])
  OBVIOUS
<1>4. Reverted(id, n)'
  BY <1>2, <1>3, UndoneIsReverted
<1>5. PICK d \in Clients : IsActive(d)' /\ trx'[d].id = id /\ ~IsTop(d)'
  BY <1>4 DEF Reverted
<1>6. IsActive(d) /\ trx[d].id = id
  BY <1>1, <1>5 DEF IsActive
<1>7. d = c
  BY <1>1, <1>2, <1>6, ActiveFacts
<1>8. ~IsTop(c)' /\ ~Busy(c)'
  BY <1>1, <1>5, <1>7 DEF Busy
<1>9. ~Has(Tail(work[c].todo), SecOps) /\ Has(Tail(work[c].todo), {"pop"})
  BY <1>1, TailWork DEF UndoesTop
<1>10. PICK t : t = Tail(work[c].todo)
  OBVIOUS
<1> QED
  BY <1>1, <1>8, <1>9, <1>10 DEF AtWorkOK, Has

\* What is left of an undone insert over a delete-marked record is removed.
LEMMA DropMarkedWork ==
  ASSUME RInv, PurgePositionOK, MInv, BusyOK, [Next]_vars, NEW c \in Clients, UndoDropMarked(c)
  PROVE  AtWorkOK(c)'
<1>1. /\ work[c].todo # << >> /\ work'[c].todo = Tail(work[c].todo) /\ work'[c].rolling = work[c].rolling
      /\ UNCHANGED <<trx, undo>>
  BY WorkSteps
<1>2. Head(work[c].todo).op = "drop_marked"
  BY DEF UndoDropMarked, Doing
<1>3. IsActive(c) /\ work[c].rolling
  BY <1>1, <1>2, TodoFacts
<1>4. undo[trx[c].id] # << >>
  BY <1>1 DEF BusyOK, AtWorkOK
<1>5. ~UndoRestore(c) /\ ~UndoDrop(c)
  BY <1>2 DEF UndoRestore, UndoDrop, Doing
<1>6. ~IsTop(c)
  <2> SUFFICES ASSUME IsTop(c)  PROVE FALSE
    OBVIOUS
  <2>1. Busy(c)
    BY <1>3, <1>4 DEF Busy
  <2>2. ClientNext(c)
    BY DEF ClientNext
  <2>3. Doing(c, "mark") \/ Doing(c, "insert") \/ work[c].todo = << >> \/ Doing(c, "remove")
        \/ Doing(c, "mark_or_remove") \/ Doing(c, "unmark") \/ ~work[c].rolling \/ UndoesTop(c)
    BY <2>1, <2>2, BusyNext
       DEF SecMark, SecInsert, StartRollback, UndoNext, UndoSecRemove, UndoSecMarkOrRemove, UndoSecUnmark
  <2> QED
    BY <1>1, <1>2, <1>3, <1>5, <2>3 DEF Doing, UndoesTop
<1>7. ~IsTop(c)'
  BY <1>1, <1>3, <1>4, <1>5, <1>6, TopKept
<1>8. ~Has(Tail(work[c].todo), SecOps) /\ Has(Tail(work[c].todo), {"pop"})
  BY <1>3, TailWork
<1>9. PICK t : t = Tail(work[c].todo)
  OBVIOUS
<1>10. ~Busy(c)' /\ work'[c].rolling /\ undo'[trx'[c].id] # << >>
  BY <1>1, <1>3, <1>4, <1>7 DEF Busy
<1> QED
  BY <1>1, <1>8, <1>9, <1>10 DEF AtWorkOK, Has

\* The record is taken from the log: the one before is a complete change.
LEMMA PopWork ==
  ASSUME RInv, MInv, BusyOK, LiveIsRow, NEW c \in Clients, UndoPop(c)
  PROVE  AtWorkOK(c)'
<1>1. PICK id : id = trx[c].id
  OBVIOUS
<1>2. PICK n : n = Len(undo[id])
  OBVIOUS
<1>3. /\ work[c].todo # << >> /\ work'[c].todo = << >> /\ work'[c].rolling = work[c].rolling
  BY WorkSteps
<1>4. IsActive(c) /\ undo[id] # << >>
  BY <1>1, <1>3, TodoFacts DEF BusyOK, AtWorkOK
<1>5. /\ trx' = trx /\ clust' = clust /\ sec' = sec /\ undo' = [undo EXCEPT ![id] = SubSeq(undo[id], 1, n - 1)]
  BY <1>1, <1>2 DEF UndoPop, rvars, rows
<1>6. id \in TrxIds /\ n \in Nat /\ n \in DOMAIN undo[id]
  BY <1>1, <1>2, <1>4, TopFacts
<1>7. undo \in [TrxIds -> Seq(UndoRec)]
  BY DEF MInv, TypesOK
<1>8. undo'[id] = SubSeq(undo[id], 1, n - 1)
  BY <1>5, <1>6, <1>7
<1>9. n >= 1 /\ Len(undo'[id]) = n - 1
  <2>1. undo[id] \in Seq(UndoRec)
    BY <1>6, <1>7
  <2>2. n >= 1
    BY <1>2, <1>6, <2>1
  <2>3. Len(SubSeq(undo[id], 1, n - 1)) = n - 1
    BY <1>2, <1>6, <2>1, <2>2
  <2> QED
    BY <1>8, <2>2, <2>3
<1>10. PICK s : s = work'[c].todo
  OBVIOUS
<1>11. s = << >> /\ DOMAIN s = {}
  BY <1>3, <1>10
<1>12. \A names : ~Has(s, names)
  BY <1>11 DEF Has
<1>13. ASSUME Busy(c)'
       PROVE  work'[c].rolling /\ BackOK(c)'
  <2>1. IsActive(c)' /\ undo'[id] # << >> /\ work'[c].rolling /\ IsTop(c)'
    BY <1>1, <1>3, <1>5, <1>13 DEF Busy
  <2>2. PICK m : m = n - 1
    OBVIOUS
  <2>3. Top(c)' = undo[id][m] /\ m \in DOMAIN undo[id]
    <3>1. undo[id] \in Seq(UndoRec)
      BY <1>6, <1>7
    <3>2. SubSeq(undo[id], 1, m) # << >>
      BY <1>8, <2>1, <2>2
    <3>3. m \in Nat /\ m >= 1 /\ m <= Len(undo[id])
      BY <1>2, <1>6, <1>9, <2>2, <3>1, <3>2
    <3>4. SubSeq(undo[id], 1, m)[m] = undo[id][m]
      BY <3>1, <3>3
    <3>5. Top(c)' = undo'[id][m]
      BY <1>1, <1>5, <1>9, <2>2 DEF Top
    <3>6. m \in DOMAIN undo[id]
      BY <3>1, <3>3
    <3> QED
      BY <1>8, <2>2, <3>4, <3>5, <3>6
  <2>4. PICK k \in Keys : k = undo[id][m].key
    BY <1>6, <1>7, <2>3, UndoAt
  <2>5. clust[k].trx_id = id /\ clust[k].roll.n = m
    BY <1>1, <1>5, <1>9, <2>1, <2>2, <2>3, <2>4 DEF IsTop
  <2>6. ~BusyWith(k)
    <3> SUFFICES ASSUME NEW d \in Clients, Busy(d), Top(d).key = k  PROVE FALSE
      BY DEF BusyWith
    <3>1. IsTop(d) /\ IsActive(d)
      BY BusyTop DEF Busy
    <3>2. clust[k].trx_id = trx[d].id /\ clust[k].roll.n = Len(undo[trx[d].id])
      BY <3>1 DEF IsTop
    <3>3. d = c
      BY <1>1, <1>4, <2>5, <3>1, <3>2, ActiveFacts
    <3> QED
      BY <1>1, <1>2, <1>6, <2>2, <2>5, <3>2, <3>3
  <2>7. \A v \in Vals : Live(k, v) <=> RowOf(clust[k]) = v
    BY <2>6 DEF LiveIsRow
  <2>8. k = Top(c)'.key /\ NewRow(c)' = RowOf(clust[k])
    BY <1>5, <2>3, <2>4 DEF NewRow, RowOf
  <2>9. \A v \in Vals : Live(k, v)' => v = NewRow(c)'
    BY <1>5, <2>7, <2>8 DEF Live
  <2>10. BackOK(c)'
    BY <1>10, <1>11, <2>8, <2>9 DEF BackOK
  <2> QED
    BY <2>1, <2>10
<1> QED
  BY <1>10, <1>11, <1>12, <1>13 DEF AtWorkOK

\* Every step keeps the work of every client right.
LEMMA BusyOKKept ==
  ASSUME RInv, PurgePositionOK, MInv, Linked, BusyOK, LiveIsRow, [Next]_vars, ~stopped'
  PROVE  BusyOK'
<1> SUFFICES ASSUME NEW c \in Clients  PROVE AtWorkOK(c)'
  BY DEF BusyOK
<1>1. CASE ~ClientNext(c)
  BY <1>1, OthersWork
<1>2. ASSUME Begin(c) \/ EndTrx(c)  PROVE AtWorkOK(c)'
  <2>1. work' = [work EXCEPT ![c] = Idle]
    BY <1>2 DEF Begin, EndTrx
  <2>2. work'[c] = Idle
    BY <2>1 DEF MInv, TypesOK
  <2>3. work'[c].todo = << >> /\ ~work'[c].rolling
    BY <2>2 DEF Idle
  <2>4. PICK s : s = work'[c].todo
    OBVIOUS
  <2>5. s = << >> /\ DOMAIN s = {}
    BY <2>3, <2>4
  <2>6. \A names : ~Has(s, names)
    BY <2>5 DEF Has
  <2>7. ~Busy(c)'
    BY <2>3 DEF Busy
  <2> QED
    BY <2>3, <2>4, <2>5, <2>6, <2>7 DEF AtWorkOK
<1>3. ASSUME OpenView(c) \/ NumberTrx(c)  PROVE AtWorkOK(c)'
  <2>1. work' = work /\ work[c].todo = << >> /\ (work[c].rolling => undo[trx[c].id] = << >>) /\ undo' = undo
    BY <1>3 DEF OpenView, NumberTrx, Ending
  <2>2. trx'[c].id = trx[c].id
    <3>1. OpenView(c) => trx'[c].id = trx[c].id
      BY DEF OpenView, assign_read_view
    <3>2. trx \in [Clients -> [state: {"not_started", "active"}, id: 0 .. MaxTrxId, no: 1 .. LsnMax]]
      BY DEF RInv, TypeOKR
    <3>3. NumberTrx(c) => trx'[c].id = trx[c].id
      BY <3>2 DEF NumberTrx, CommitNumber
    <3> QED
      BY <1>3, <3>1, <3>3
  <2>3. PICK s : s = work[c].todo /\ s = work'[c].todo
    BY <2>1
  <2>4. s = << >> /\ DOMAIN s = {}
    BY <2>1, <2>3
  <2>5. \A names : ~Has(s, names)
    BY <2>4 DEF Has
  <2>6. ~Busy(c)'
    BY <2>1, <2>2 DEF Busy
  <2> QED
    BY <2>3, <2>4, <2>5, <2>6 DEF AtWorkOK
<1>4. ASSUME NEW k \in Keys, NEW v \in Vals, InsertRow(c, k, v) \/ UpdateRow(c, k, v) \/ DeleteRow(c, k)
      PROVE  AtWorkOK(c)'
  <2>1. PICK type, del, val, todo : RowStep(c, k, type, del, val, todo)
    BY <1>4, RowSteps DEF MInv
  <2> QED
    BY <2>1, RowStepBusy
<1>5. ASSUME SecMark(c) \/ SecInsert(c)  PROVE AtWorkOK(c)'
  <2>1. PICK k : k = Top(c).key
    OBVIOUS
  <2>2. Busy(c) /\ ~work'[c].rolling /\ (work'[c].todo # << >> => DoingOK(c)')
    BY <1>5, <2>1, DoingStep
  <2>3. work'[c].todo # << >> => undo'[trx'[c].id] # << >>
    <3>1. undo' = undo /\ trx' = trx
      BY <1>5, WorkSteps
    <3> QED
      BY <2>2, <3>1 DEF Busy
  <2>4. Busy(c)' => work'[c].todo # << >>
    BY <2>2 DEF Busy
  <2> QED
    BY <2>2, <2>3, <2>4 DEF AtWorkOK
<1>6. StartRollback(c) => AtWorkOK(c)'
  BY StartWork
<1>7. UndoNext(c) => AtWorkOK(c)'
  BY NextWork
<1>8. UndoSecRemove(c) \/ UndoSecMarkOrRemove(c) \/ UndoSecUnmark(c) => AtWorkOK(c)'
  BY UndoSecWork
<1>9. UndoRestore(c) \/ UndoDrop(c) => AtWorkOK(c)'
  BY UndoneWork DEF UndoesTop
<1>10. UndoDropMarked(c) => AtWorkOK(c)'
  BY DropMarkedWork
<1>11. UndoPop(c) => AtWorkOK(c)'
  BY PopWork
<1>12. ASSUME NEW k \in Keys, DeleteRow(c, k)  PROVE AtWorkOK(c)'
  BY <1>4, <1>12, RowAssumption
<1> QED
  BY <1>1, <1>2, <1>3, <1>4, <1>5, <1>6, <1>7, <1>8, <1>9, <1>10, <1>11, <1>12 DEF ClientNext

\* A change that a step ends, or undoes, leaves the entry of its row live
\* and no other one.
LEMMA ChangeEnds ==
  ASSUME RInv, PurgePositionOK, MInv, BusyOK, [Next]_vars, ~stopped', NEW c \in Clients, Busy(c),
         UndoesTop(c) \/ (ClientNext(c) /\ ~work[c].rolling /\ ~StartRollback(c) /\ work'[c].todo = << >>),
         NEW k, k = Top(c).key
  PROVE  \A v \in Vals : Live(k, v)' <=> RowOf(clust'[k]) = v
<1>1. k = Top(c).key
  OBVIOUS
<1>2. \/ UndoesTop(c)
      \/ ClientNext(c) /\ ~work[c].rolling /\ ~StartRollback(c) /\ work'[c].todo = << >>
  OBVIOUS
<1>3. \A v \in Vals : v # 0
  BY RowAssumption
<1>4. IsTop(c) /\ IsActive(c) /\ undo[trx[c].id] # << >>
  BY BusyTop DEF Busy
<1>5. k \in Keys /\ OldRowOf(c) \in Vals \cup {0}
  BY <1>1, <1>4, TopFacts, TopRows
<1>6. CASE UndoesTop(c)
  <2>1. /\ work[c].rolling /\ work[c].todo # << >> /\ sec' = sec /\ clust'[k] = Top(c).old
    BY <1>1, <1>6, UndoesTopFacts
  <2>2. PICK s : s = work[c].todo
    OBVIOUS
  <2>3. Head(s).op \in ClustOps /\ Head(s).op \notin SecOps
    BY <1>6, <2>2, UndoesTopFacts
  <2>4. ~Has(Tail(s), SecOps)
    BY <1>6, <2>2, TailWork DEF UndoesTop
  <2>5. ~Has(s, SecOps)
    BY <2>1, <2>2, <2>3, <2>4, TodoFacts
  <2>6. ~Has(s, {"remove", "mark_or_remove"}) /\ ~Has(s, {"unmark"})
    BY <2>5 DEF Has, SecOps
  <2>7. BackOK(c)
    BY <2>1 DEF BusyOK, AtWorkOK
  <2>8. /\ \A v \in Vals : Live(k, v) => v \in {OldRowOf(c), NewRow(c)}
        /\ NewRow(c) # 0 => sec[k][NewRow(c)] = "none"
        /\ OldRowOf(c) # 0 => Live(k, OldRowOf(c))
    BY <1>1, <2>1, <2>2, <2>6, <2>7 DEF BackOK
  <2>9. \A v \in Vals : Live(k, v) <=> OldRowOf(c) = v
    BY <1>3, <2>8 DEF Live
  <2>10. RowOf(clust'[k]) = OldRowOf(c)
    BY <2>1 DEF OldRowOf
  <2> QED
    BY <1>1, <2>1, <2>9, <2>10 DEF Live
<1>7. CASE ClientNext(c) /\ ~work[c].rolling /\ ~StartRollback(c) /\ work'[c].todo = << >>
  <2>1. SecMark(c) \/ SecInsert(c)
    <3>1. ~UndoNext(c)
      BY <1>7 DEF UndoNext
    <3>2. ASSUME UndoSecRemove(c) \/ UndoSecMarkOrRemove(c) \/ UndoSecUnmark(c)  PROVE FALSE
      <4>1. work[c].todo # << >> /\ Head(work[c].todo).op \in {"remove", "mark_or_remove", "unmark"}
        BY <3>2 DEF UndoSecRemove, UndoSecMarkOrRemove, UndoSecUnmark, Doing
      <4> QED
        BY <1>7, <4>1, RollingOp
    <3>3. UndoesTop(c) => work[c].rolling
      BY UndoesTopFacts
    <3> QED
      BY <1>7, <3>1, <3>2, <3>3, BusyNext
  <2>2. clust' = clust /\ \A v \in Vals : Live(k, v)' <=> NewRow(c) = v
    BY <1>1, <1>7, <2>1, DoingStep
  <2> QED
    BY <1>1, <2>2 DEF NewRow
<1> QED
  BY <1>2, <1>6, <1>7

\* No change, no other live entry than that of the row.
LEMMA LiveIsRowKept ==
  ASSUME RInv, PurgePositionOK, MInv, Linked, BusyOK, LiveIsRow, [Next]_vars, ~stopped'
  PROVE  LiveIsRow'
<1> SUFFICES ASSUME NEW k \in Keys, ~BusyWith(k)', NEW v \in Vals
             PROVE  Live(k, v)' <=> RowOf(clust'[k]) = v
  BY DEF LiveIsRow, RowOf
<1>1. ASSUME NEW c \in Clients, Busy(c), Top(c).key = k
      PROVE  Live(k, v)' <=> RowOf(clust'[k]) = v
  <2>1. ~(Busy(c)' /\ Top(c)'.key = k)
    BY DEF BusyWith
  <2>2. UndoesTop(c) \/ (ClientNext(c) /\ ~work[c].rolling /\ ~StartRollback(c) /\ work'[c].todo = << >>)
    BY <1>1, <2>1, BusyStays
  <2> QED
    BY <1>1, <2>2, ChangeEnds
<1>2. ASSUME ~BusyWith(k)
      PROVE  Live(k, v)' <=> RowOf(clust'[k]) = v
  <2>1. \A c \in Clients : ~SecOpOn(c, k)
    BY <1>2, SecOpBusy DEF BusyWith
  <2>2. Live(k, v)' <=> Live(k, v)
    BY <2>1, EntriesStay
  <2>3. Live(k, v) <=> RowOf(clust[k]) = v
    BY <1>2 DEF LiveIsRow
  <2>4. CASE clust'[k] = clust[k]
    BY <2>2, <2>3, <2>4
  <2>5. ASSUME NEW c \in Clients, NEW type, NEW del, NEW val, NEW todo, RowStep(c, k, type, del, val, todo)
        PROVE  FALSE
    <3>1. Busy(c)' /\ Top(c)'.key = k
      BY <2>5, RowStepBusy
    <3> QED
      BY <3>1 DEF BusyWith
  <2>6. ASSUME NEW c \in Clients, UndoesTop(c), Top(c).key = k
        PROVE  FALSE
    <3>1. IsActive(c) /\ work[c].rolling /\ undo[trx[c].id] # << >> /\ IsTop(c)
      BY <2>6, UndoesTopFacts
    <3>2. Busy(c)
      BY <3>1 DEF Busy
    <3> QED
      BY <1>2, <2>6, <3>2 DEF BusyWith
  <2>7. ASSUME Purged(k, clust'[k])
        PROVE  Live(k, v)' <=> RowOf(clust'[k]) = v
    <3>1. clust'[k] = NoRec /\ clust[k].del
      BY <2>7 DEF Purged
    <3>2. RowOf(clust'[k]) = 0 /\ RowOf(clust[k]) = 0
      BY <3>1 DEF RowOf, NoRec
    <3> QED
      BY <2>2, <2>3, <3>2
  <2>8. \/ clust'[k] = clust[k]
        \/ \E c \in Clients : \E type, del, val, todo : RowStep(c, k, type, del, val, todo)
        \/ \E c \in Clients : UndoesTop(c) /\ Top(c).key = k
        \/ Purged(k, clust'[k])
    <3> DEFINE A == \E c \in Clients : \E type, del, val, todo : RowStep(c, k, type, del, val, todo)
               B == \E c \in Clients : UndoesTop(c) /\ Top(c).key = k
    <3>1. clust'[k] = clust[k] \/ A \/ B \/ Purged(k, clust'[k])
      BY ClustSteps
    <3> QED
      BY <3>1
  <2> QED
    BY <2>4, <2>5, <2>6, <2>7, <2>8
<1> QED
  BY <1>1, <1>2 DEF BusyWith

\* As long as the secondary index has no trace of a change, it is in the
\* state before it.
LEMMA MaxTrxOKKept ==
  ASSUME RInv, PurgePositionOK, MInv, Linked, BusyOK, LiveIsRow, MaxTrxOK, [Next]_vars, ~stopped'
  PROVE  MaxTrxOK'
<1>1. max_trx_id \in Nat /\ max_trx_id' \in Nat /\ max_trx_id <= max_trx_id'
  BY MaxGrows
<1>2. TypesOK
  BY DEF MInv
<1>3. ASSUME NEW c \in Clients, NEW k \in Keys, NEW type, NEW del, NEW val, NEW todo,
             RowStep(c, k, type, del, val, todo)
      PROVE  clust[k].trx_id <= max_trx_id
  <2>1. ~BusyWith(k)
    BY <1>3, RowStepAlone
  <2>2. ~(clust[k].trx_id > max_trx_id)
    BY <2>1 DEF MaxTrxOK, BusyWith
  <2>3. clust[k].trx_id \in 0 .. MaxTrxId
    BY <1>2, RecordFacts DEF TypesOK
  <2> QED
    BY <1>1, <2>2, <2>3
<1>4. ASSUME NEW id \in TrxIds, NEW n \in DOMAIN undo'[id]
      PROVE  undo'[id][n].old.trx_id <= max_trx_id'
  <2>1. CASE n \in DOMAIN undo[id] /\ undo'[id][n] = undo[id][n]
    <3>1. undo[id][n].old \in Record
      BY <1>2, <2>1, UndoAt DEF TypesOK
    <3>2. undo[id][n].old.trx_id \in 0 .. MaxTrxId
      BY <3>1, RecordFacts
    <3>3. undo[id][n].old.trx_id <= max_trx_id
      BY <2>1 DEF MaxTrxOK
    <3> QED
      BY <1>1, <2>1, <3>2, <3>3
  <2>2. ASSUME NEW c \in Clients, NEW k \in Keys, NEW type, NEW del, NEW val, NEW todo,
               RowStep(c, k, type, del, val, todo), id = trx[c].id, n = Len(undo[id]) + 1
        PROVE  undo'[id][n].old.trx_id <= max_trx_id'
    <3>1. undo'[id][n].old = clust[k]
      BY <2>2, RowStepFacts
    <3>2. clust[k].trx_id \in 0 .. MaxTrxId
      BY <1>2, RecordFacts DEF TypesOK
    <3>3. clust[k].trx_id <= max_trx_id
      BY <1>3, <2>2
    <3> QED
      BY <1>1, <3>1, <3>2, <3>3
  <2> QED
    BY <2>1, <2>2, UndoSteps
<1>5. ASSUME NEW k \in Keys, clust'[k].trx_id > max_trx_id'
      PROVE  \E c \in Clients : /\ Busy(c)' /\ Top(c)'.key = k
                                /\ \A v \in Vals : Live(k, v)' <=> OldRowOf(c)' = v
  <2>1. ASSUME NEW c \in Clients, UndoesTop(c), Top(c).key = k
        PROVE  FALSE
    <3>1. clust'[k] = Top(c).old /\ IsActive(c) /\ undo[trx[c].id] # << >>
      BY <2>1, UndoesTopFacts
    <3>2. PICK id : id = trx[c].id
      OBVIOUS
    <3>3. PICK n : n = Len(undo[id])
      OBVIOUS
    <3>4. id \in TrxIds /\ n \in DOMAIN undo[id] /\ Top(c) = undo[id][n] /\ Top(c).old \in Record
      BY <3>1, <3>2, <3>3, TopFacts
    <3>5. Top(c).old.trx_id <= max_trx_id /\ Top(c).old.trx_id \in 0 .. MaxTrxId
      BY <3>4, RecordFacts DEF MaxTrxOK
    <3> QED
      BY <1>1, <1>5, <3>1, <3>5
  <2>2. CASE clust'[k] = clust[k]
    <3>1. clust[k].trx_id \in 0 .. MaxTrxId
      BY <1>2, RecordFacts DEF TypesOK
    <3>2. clust[k].trx_id > max_trx_id /\ ~(max_trx_id' >= clust[k].trx_id)
      BY <1>1, <1>5, <2>2, <3>1
    <3>3. PICK c \in Clients : /\ Busy(c) /\ Top(c).key = k
                               /\ \A v \in Vals : Live(k, v) <=> OldRowOf(c) = v
      BY <3>2 DEF MaxTrxOK
    <3>4. IsActive(c) /\ IsTop(c) /\ undo[trx[c].id] # << >>
      BY <3>3, BusyTop DEF Busy
    <3>5. \A v \in Vals : v # 0
      BY RowAssumption
    <3>6. ~SecInsert(c)
      BY <3>2, <3>3, DoingStep
    <3>7. ~SecMark(c)
      <4> SUFFICES ASSUME SecMark(c)  PROVE FALSE
        OBVIOUS
      <4>1. work[c].todo # << >> /\ Head(work[c].todo).op = "mark"
        BY DEF SecMark, Doing
      <4>2. PICK o : o = Head(work[c].todo)
        OBVIOUS
      <4>3. o.val \in Vals /\ o.val = OldRowOf(c) /\ o.key = k
        BY <3>3, <4>1, <4>2, DoingOp
      <4>4. SecOpOn(c, k)
        BY <4>1, <4>2, <4>3 DEF SecOpOn
      <4>5. ~Live(k, o.val)'
        BY <4>2, <4>3, <4>4, OwnEntry
      <4>6. Live(k, o.val)
        BY <3>3, <4>3
      <4> QED
        BY <3>2, <3>3, <4>3, <4>5, <4>6, DoingStep
    <3>8. ~UndoesTop(c)
      BY <2>1, <3>3
    <3>9. ClientNext(c) /\ ~work[c].rolling => StartRollback(c)
      <4> SUFFICES ASSUME ClientNext(c), ~work[c].rolling, ~StartRollback(c)  PROVE FALSE
        OBVIOUS
      <4>1. ~UndoNext(c)
        BY DEF UndoNext
      <4>2. ASSUME UndoSecRemove(c) \/ UndoSecMarkOrRemove(c) \/ UndoSecUnmark(c)  PROVE FALSE
        <5>1. work[c].todo # << >> /\ Head(work[c].todo).op \in {"remove", "mark_or_remove", "unmark"}
          BY <4>2 DEF UndoSecRemove, UndoSecMarkOrRemove, UndoSecUnmark, Doing
        <5> QED
          BY <5>1, RollingOp
      <4> QED
        BY <3>3, <3>6, <3>7, <3>8, <4>1, <4>2, BusyNext
    <3>10. Busy(c)' /\ Top(c)' = Top(c) /\ OldRowOf(c)' = OldRowOf(c)
      BY <3>3, <3>8, <3>9, BusyStays
    <3>11. ASSUME NEW v \in Vals
           PROVE  Live(k, v)' <=> OldRowOf(c) = v
      <4>1. CASE UndoSecRemove(c) \/ UndoSecMarkOrRemove(c) \/ UndoSecUnmark(c)
        <5>1. /\ OldRowOf(c) = v /\ Live(k, v) => Live(k, v)'
              /\ OldRowOf(c) # v /\ ~Live(k, v) => ~Live(k, v)'
          BY <3>3, <4>1, UndoSecWork
        <5> QED
          BY <3>3, <5>1
      <4>2. CASE ~(UndoSecRemove(c) \/ UndoSecMarkOrRemove(c) \/ UndoSecUnmark(c))
        <5>1. \A d \in Clients : ~SecOpOn(d, k)
          <6> SUFFICES ASSUME NEW d \in Clients, SecOpOn(d, k)  PROVE FALSE
            OBVIOUS
          <6>1. Busy(d) /\ Top(d).key = k
            BY SecOpBusy
          <6>2. d = c
            BY <3>3, <3>4, <6>1, BusyAlone
          <6> QED
            BY <3>6, <3>7, <4>2, <6>2 DEF SecOpOn
        <5>2. Live(k, v)' <=> Live(k, v)
          BY <5>1, EntriesStay
        <5> QED
          BY <3>3, <5>2
      <4> QED
        BY <4>1, <4>2
    <3> QED
      BY <3>3, <3>10, <3>11
  <2>3. ASSUME NEW c \in Clients, NEW type, NEW del, NEW val, NEW todo, RowStep(c, k, type, del, val, todo)
        PROVE  \E d \in Clients : /\ Busy(d)' /\ Top(d)'.key = k
                                  /\ \A v \in Vals : Live(k, v)' <=> OldRowOf(d)' = v
    <3>1. /\ Busy(c)' /\ Top(c)'.key = k /\ OldRowOf(c)' = RowOf(clust[k])
          /\ \A v \in Vals : Live(k, v) <=> RowOf(clust[k]) = v
          /\ UNCHANGED sec
      BY <2>3, RowStepBusy
    <3>2. \A v \in Vals : Live(k, v)' <=> OldRowOf(c)' = v
      BY <3>1 DEF Live
    <3> QED
      BY <3>1, <3>2
  <2>4. ASSUME Purged(k, clust'[k])  PROVE FALSE
    <3>1. clust'[k].trx_id = 0
      BY <2>4, NoRecFacts DEF Purged
    <3> QED
      BY <1>1, <1>5, <3>1
  <2>5. \/ clust'[k] = clust[k]
        \/ \E c \in Clients : \E type, del, val, todo : RowStep(c, k, type, del, val, todo)
        \/ \E c \in Clients : UndoesTop(c) /\ Top(c).key = k
        \/ Purged(k, clust'[k])
    <3> DEFINE A == \E c \in Clients : \E type, del, val, todo : RowStep(c, k, type, del, val, todo)
               B == \E c \in Clients : UndoesTop(c) /\ Top(c).key = k
    <3>1. clust'[k] = clust[k] \/ A \/ B \/ Purged(k, clust'[k])
      BY ClustSteps
    <3> QED
      BY <3>1
  <2> QED
    BY <2>1, <2>2, <2>3, <2>4, <2>5
<1> QED
  BY <1>4, <1>5 DEF MaxTrxOK

-----------------------------------------------------------------------------
(* The inductive invariant with the secondary index.                       *)

\* In the initial state the only entries are those of the rows.
LEMMA SInit == Init => SInv
<1> SUFFICES ASSUME Init  PROVE SInv
  OBVIOUS
<1>1. /\ clust = [k \in Keys |-> OldRow] /\ undo = [id \in TrxIds |-> << >>]
      /\ work = [c \in Clients |-> Idle] /\ max_trx_id = 0
      /\ sec = [k \in Keys |-> [v \in Vals |-> IF v = InitialVal THEN "live" ELSE "none"]]
      /\ trx = [c \in Clients |-> NotStarted] /\ m_view_list = << >>
  BY DEF Init, RInit
<1>2. \A c \in Clients : ~IsActive(c) /\ work[c].todo = << >> /\ ~work[c].rolling
  BY <1>1 DEF IsActive, NotStarted, Idle
<1>3. \A id \in TrxIds : DOMAIN undo[id] = {}
  BY <1>1
<1>4. DOMAIN m_view_list = {}
  BY <1>1
<1>5. ViewsOwned
  BY <1>4 DEF ViewsOwned
<1>6. ChainsSeen /\ Linked /\ OldPresent
  BY <1>3 DEF ChainsSeen, ChainSeen, Linked, OldPresent, Unpurged
<1>7. \A c \in Clients : ~Busy(c)
  BY <1>2 DEF Busy
<1>8. BusyOK
  BY <1>2, <1>7, IdleWork DEF BusyOK
<1>9. LiveIsRow
  <2> SUFFICES ASSUME NEW k \in Keys, NEW v \in Vals  PROVE Live(k, v) <=> RowOf(clust[k]) = v
    BY DEF LiveIsRow
  <2>1. clust[k] = OldRow /\ sec[k][v] = IF v = InitialVal THEN "live" ELSE "none"
    BY <1>1
  <2> QED
    BY <2>1, NoRecFacts DEF Live
<1>10. MaxTrxOK
  <2>1. \A k \in Keys : clust[k].trx_id = 0
    BY <1>1, NoRecFacts
  <2> QED
    BY <1>1, <1>3, <2>1 DEF MaxTrxOK
<1> QED
  BY <1>5, <1>6, <1>8, <1>9, <1>10 DEF SInv

\* Every step keeps it.
LEMMA SStep == RInv /\ PurgePositionOK /\ MInv /\ SInv /\ [Next]_vars => SInv'
<1> SUFFICES ASSUME RInv, PurgePositionOK, MInv, SInv, [Next]_vars, ~stopped'  PROVE SInv'
  BY DEF SInv
<1>1. ~stopped
  BY DEF Next, vars
<1>2. /\ ViewsOwned /\ ChainsSeen /\ Linked /\ OldPresent
      /\ BusyOK /\ LiveIsRow /\ MaxTrxOK
  BY <1>1 DEF SInv
<1>3. RInv' /\ MInv'
  BY StepRefines, StepGood, MStep
<1>4. ViewsOwned'
  BY <1>2, ViewsOwnedKept
<1>5. ChainsSeen'
  BY <1>2, <1>3, ChainsSeenKept
<1>6. Linked'
  BY <1>2, <1>3, <1>5, LinkedKept
<1>7. OldPresent'
  BY <1>2, OldPresentKept
<1>8. BusyOK'
  BY <1>2, BusyOKKept
<1>9. LiveIsRow'
  BY <1>2, LiveIsRowKept
<1>10. MaxTrxOK'
  BY <1>2, MaxTrxOKKept
<1> QED
  BY <1>4, <1>5, <1>6, <1>7, <1>8, <1>9, <1>10 DEF SInv

\* The invariant with the secondary index: as long as the process runs, the
\* live entry of a key is the one of its row but for the change that a client
\* is at, and no version that purge must leave alone lacks its entry.
THEOREM MvccSecInvariant == Spec => [](RInv /\ PurgePositionOK /\ MInv /\ SInv)
<1>1. Init => SInv
  BY SInit
<1>2. RInv /\ PurgePositionOK /\ MInv /\ SInv /\ [Next]_vars => SInv'
  BY SStep
<1> QED
  BY <1>1, <1>2, MvccInvariant, PTL DEF Spec

\* The version that a reader finds has its entry, and if it is the current
\* one nobody is changing the row.
LEMMA EntryOfVersion ==
  ASSUME RInv, MInv, SInv, NEW c \in Readers, ~Busy(c), NEW k \in Keys, NEW v, v = ReaderView(c),
         NEW t, Found(v, k, t), t.trx_id = 0 \/ Sees(v, t.trx_id)
  PROVE  /\ t = clust[k] => ~BusyWith(k)
         /\ RowOf(t) # 0 => RowOf(t) \in Vals /\ sec[k][RowOf(t)] # "none"
<1>1. ~stopped /\ c \in Clients /\ IsActive(c) /\ ViewsOf(trx[c].id) # {}
  BY DEF Readers, HasView
<1>2. Linked /\ OldPresent /\ BusyOK /\ LiveIsRow
  BY <1>1 DEF SInv
<1>3. PICK x : x = CHOOSE i \in ViewsOf(trx[c].id) : TRUE
  OBVIOUS
<1>4. x \in DOMAIN m_view_list /\ m_view_list[x].creator = trx[c].id
  BY <1>1, <1>3 DEF ViewsOf
<1>5. v = m_view_list[x]
  BY <1>3 DEF ReaderView
<1>6. ActiveIds \subseteq Hidden(v)
  BY <1>4, <1>5, HiddenFacts
<1>7. t = clust[k] => ~BusyWith(k)
  <2> SUFFICES ASSUME t = clust[k], NEW d \in Clients, Busy(d), Top(d).key = k  PROVE FALSE
    BY DEF BusyWith
  <2>1. IsTop(d) /\ IsActive(d)
    BY <1>2, BusyTop DEF Busy
  <2>2. t.trx_id = trx[d].id
    BY <2>1 DEF IsTop
  <2>3. trx[d].id \in ActiveIds /\ trx[d].id # 0
    BY <2>1, ActiveFacts
  <2>4. trx[d].id = v.creator
    BY <1>6, <2>2, <2>3 DEF Hidden
  <2>5. c = d
    BY <1>1, <1>4, <1>5, <2>1, <2>4, ActiveFacts
  <2> QED
    BY <2>5
<1>8. ASSUME RowOf(t) # 0, t = clust[k]
      PROVE  RowOf(t) \in Vals /\ sec[k][RowOf(t)] # "none"
  <2>1. RowOf(t) \in Vals
    <3>1. t \in Record
      BY <1>8 DEF MInv, TypesOK
    <3> QED
      BY <1>8, <3>1, RowTyped
  <2>2. Live(k, RowOf(t))
    BY <1>2, <1>7, <1>8, <2>1 DEF LiveIsRow
  <2> QED
    BY <2>1, <2>2 DEF Live
<1>9. ASSUME RowOf(t) # 0, NEW id \in TrxIds, NEW n \in DOMAIN undo[id], ~Sees(v, id),
             undo[id][n].key = k, t = undo[id][n].old,
             \/ clust[k].trx_id = id /\ clust[k].roll.n = n
             \/ \E i \in TrxIds : \E m \in DOMAIN undo[i] :
                    undo[i][m].key = k /\ undo[i][m].old.trx_id = id /\ undo[i][m].old.roll.n = n
      PROVE  RowOf(t) \in Vals /\ sec[k][RowOf(t)] # "none"
  <2>1. TypesOK
    BY DEF MInv
  <2>2. t \in Record
    BY <1>9, <2>1, UndoAt DEF TypesOK
  <2>3. RowOf(t) \in Vals /\ RowOf(t) = t.val
    BY <1>9, <2>2, RowTyped DEF RowOf
  <2>4. id \in Unpurged
    BY <1>4, <1>5, <1>9 DEF RInv, PurgeSeesLess, Unpurged
  <2>5. ~Reverted(id, n)
    <3>1. PICK r : /\ r.trx_id = id /\ r.roll.n = n
                   /\ \/ r = clust[k]
                      \/ \E i \in TrxIds : \E m \in DOMAIN undo[i] : r = undo[i][m].old /\ undo[i][m].key = k
      BY <1>9
    <3>2. r \in Record
      BY <2>1, <3>1, UndoAt DEF TypesOK
    <3>3. r.trx_id # 0
      BY <3>1 DEF TrxIds
    <3> QED
      BY <3>1, <3>2, <3>3, ReachedStays
  <2> QED
    BY <1>2, <1>9, <2>3, <2>4, <2>5 DEF OldPresent
<1>10. t = NoRec => RowOf(t) = 0
  BY NoRecFacts
<1> QED
  BY <1>7, <1>8, <1>9, <1>10 DEF Found

\* Below PAGE_MAX_TRX_ID of its view a reader that does nothing finds the
\* entries of the rows that it expects live, and no others.
LEMMA PageIsOld ==
  ASSUME RInv, MInv, SInv, NEW c \in Readers, ~Busy(c), NEW k \in Keys, NEW v, v = ReaderView(c),
         max_trx_id < v.up_limit_id, NEW x \in Vals
  PROVE  Live(k, x) <=> Expected(c, k) = x
<1>1. ~stopped /\ c \in Clients /\ IsActive(c) /\ ViewsOf(trx[c].id) # {}
  BY DEF Readers, HasView
<1>2. BusyOK /\ LiveIsRow /\ MaxTrxOK
  BY <1>1 DEF SInv
<1>3. TypesOK /\ VersionsOK /\ SnapsShown
  BY DEF MInv
<1>4. PICK i : i = CHOOSE j \in ViewsOf(trx[c].id) : TRUE
  OBVIOUS
<1>5. i \in DOMAIN m_view_list /\ m_view_list[i].creator = trx[c].id
  BY <1>1, <1>4 DEF ViewsOf
<1>6. v \in View /\ v = m_view_list[i] /\ v.creator = trx[c].id
  BY <1>4, <1>5 DEF RInv, TypeOKR, ReaderView
<1>7. WellFormed(v)
  BY <1>5, <1>6 DEF RInv, ViewOK
<1>8. ActiveIds \subseteq Hidden(v)
  BY <1>5, <1>6, HiddenFacts
<1>9. max_trx_id \in Nat /\ v.up_limit_id \in Nat
  <2>1. max_trx_id \in 0 .. MaxTrxId /\ v.up_limit_id \in TrxIds
    BY <1>3, <1>6 DEF TypesOK, View
  <2> QED
    BY <2>1 DEF TrxIds
<1>10. ASSUME NEW r \in Record, r.trx_id <= max_trx_id
       PROVE  r.trx_id = 0 \/ Sees(v, r.trx_id)
  <2>1. r.trx_id \in 0 .. MaxTrxId
    BY RecordFacts
  <2>2. r.trx_id < v.up_limit_id
    BY <1>9, <1>10, <2>1
  <2>3. read_view_sees_trx_id(v, r.trx_id)
    BY <2>2 DEF read_view_sees_trx_id
  <2> QED
    BY <1>6, <1>7, <2>3, SeesRecord
<1>11. clust[k] \in Record
  BY <1>3 DEF TypesOK
<1>12. CASE clust[k].trx_id > max_trx_id
  <2>1. PICK d \in Clients : /\ Busy(d) /\ Top(d).key = k
                             /\ \A y \in Vals : Live(k, y) <=> OldRowOf(d) = y
    BY <1>2, <1>12 DEF MaxTrxOK
  <2>2. IsTop(d) /\ IsActive(d) /\ undo[trx[d].id] # << >>
    BY <1>2, <2>1, BusyTop DEF Busy
  <2>3. c # d
    BY <2>1
  <2>4. PICK id : id = trx[d].id
    OBVIOUS
  <2>5. PICK n : n = Len(undo[id])
    OBVIOUS
  <2>6. /\ id \in TrxIds /\ id \in ActiveIds /\ n \in DOMAIN undo[id] /\ Top(d) = undo[id][n]
        /\ Top(d).old \in Record /\ UndoRecOK(id, n, Top(d)) /\ Top(d).type \in Types
    BY <2>2, <2>4, <2>5, TopFacts
  <2>7. clust[k].trx_id = id /\ clust[k].roll.n = n /\ id # v.creator /\ id \in Hidden(v)
    BY <1>1, <1>6, <1>8, <2>1, <2>2, <2>3, <2>4, <2>5, <2>6, ActiveFacts DEF IsTop
  <2>8. PICK f : f = snap[c] /\ RowsShow(Hidden(v), f)
    BY <1>1, <1>3, <1>5, <1>6 DEF SnapsShown
  <2>9. Expected(c, k) = f[k]
    BY <1>6, <2>7, <2>8 DEF Expected
  <2>10. CASE Top(d).type = "insert"
    <3>1. VersionOK(clust[k], k)
      BY <1>3 DEF VersionsOK
    <3>2. id # 0
      BY <2>6, ActiveFacts
    <3>3. clust[k].roll.ins
      BY <2>6, <2>7, <2>10, <3>1, <3>2 DEF VersionOK
    <3>4. f[k] = 0
      BY <2>7, <2>8, <3>3 DEF RowsShow, RecShows
    <3>5. OldRowOf(d) = 0
      BY <2>2, <2>10, TopRows
    <3> QED
      BY <2>1, <2>9, <3>4, <3>5
  <2>11. CASE Top(d).type # "insert"
    <3>1. RecShows(Hidden(v), Top(d).old, f[k])
      BY <2>1, <2>6, <2>7, <2>8, <2>11 DEF RowsShow
    <3>2. Top(d).old.trx_id <= max_trx_id
      BY <1>2, <2>6 DEF MaxTrxOK
    <3>3. Top(d).old.trx_id = 0 \/ Sees(v, Top(d).old.trx_id)
      BY <1>10, <2>6, <3>2
    <3>4. Top(d).old.trx_id # v.creator
      BY <1>1, <1>6, <2>6, <2>7, ActiveFacts DEF UndoRecOK
    <3>5. Top(d).old.trx_id \notin Hidden(v)
      BY <3>3, <3>4 DEF Hidden, TrxIds
    <3>6. OldRowOf(d) = f[k]
      BY <3>1, <3>5 DEF RecShows, OldRowOf
    <3> QED
      BY <2>1, <2>9, <3>6
  <2> QED
    BY <2>10, <2>11
<1>13. CASE ~(clust[k].trx_id > max_trx_id)
  <2>1. clust[k].trx_id \in 0 .. MaxTrxId
    BY <1>11, RecordFacts
  <2>2. clust[k].trx_id <= max_trx_id
    BY <1>9, <1>13, <2>1
  <2>3. clust[k].trx_id = 0 \/ Sees(v, clust[k].trx_id)
    BY <1>10, <1>11, <2>2
  <2>4. read_view_sees_trx_id(v, clust[k].trx_id)
    BY <1>6, <1>7, <1>11, <2>3, SeesRecord
  <2>5. VersionSeen(v, k) = clust[k]
    BY <2>4 DEF VersionSeen
  <2>6. RowOf(clust[k]) = Expected(c, k)
    BY <2>5, SeenIsExpected
  <2>7. Found(v, k, clust[k])
    BY DEF Found
  <2>8. ~BusyWith(k)
    BY <2>3, <2>7, EntryOfVersion
  <2> QED
    BY <1>2, <2>6, <2>8 DEF LiveIsRow
<1> QED
  BY <1>12, <1>13

\* FACT A of read0read.cc: reads through the secondary index see the same
\* rows as reads of the clustered index, while no change of the reader's own
\* transaction is half done (sec_rec_cons_read_sees and
\* row_vers_build_for_consistent_read).
THEOREM MvccSecReads == Spec => []SecReadsAreConsistent
<1>1. RInv /\ PurgePositionOK /\ MInv /\ SInv => SecReadsAreConsistent
  <2> SUFFICES ASSUME RInv, MInv, SInv, NEW c \in Readers, NEW k \in Keys, NEW x \in Vals,
                      work[c].todo = << >>, ~work[c].rolling
               PROVE  SecRead(ReaderView(c), k, x) <=> Expected(c, k) = x
    BY DEF SecReadsAreConsistent
  <2>1. PICK v : v = ReaderView(c)
    OBVIOUS
  <2>2. ~Busy(c)
    BY DEF Busy
  <2>3. PICK t : /\ t = VersionSeen(v, k) /\ RowOf(t) = Expected(c, k) /\ Found(v, k, t)
                 /\ t.trx_id = 0 \/ Sees(v, t.trx_id)
    BY <2>1, SeenIsExpected
  <2>4. ClustRead(v, k) = RowOf(t)
    BY <2>3 DEF ClustRead, RowOf
  <2>5. /\ t = clust[k] => ~BusyWith(k)
        /\ RowOf(t) # 0 => RowOf(t) \in Vals /\ sec[k][RowOf(t)] # "none"
    BY <2>1, <2>2, <2>3, EntryOfVersion
  <2>6. x # 0
    BY RowAssumption
  <2>7. CASE max_trx_id < v.up_limit_id
    <3>1. Live(k, x) <=> Expected(c, k) = x
      BY <2>1, <2>2, <2>7, PageIsOld
    <3> QED
      BY <2>1, <2>7, <3>1 DEF SecRead, Live
  <2>8. CASE ~(max_trx_id < v.up_limit_id)
    <3>1. SecRead(v, k, x) <=> /\ sec[k][x] # "none" /\ RowOf(t) # 0
                               /\ (t # clust[k] \/ sec[k][x] = "marked") => RowOf(t) = x
      BY <2>3, <2>4, <2>8 DEF SecRead
    <3>2. ASSUME RowOf(t) = x  PROVE SecRead(v, k, x)
      BY <2>5, <2>6, <3>1, <3>2
    <3>3. ASSUME SecRead(v, k, x), RowOf(t) # x  PROVE FALSE
      <4>1. t = clust[k] /\ sec[k][x] # "none" /\ sec[k][x] # "marked"
        BY <3>1, <3>3
      <4>2. sec[k][x] \in {"none", "live", "marked"}
        BY DEF MInv, TypesOK
      <4>3. Live(k, x)
        BY <4>1, <4>2 DEF Live
      <4>4. LiveIsRow
        BY DEF Readers, SInv
      <4> QED
        BY <2>5, <3>3, <4>1, <4>3, <4>4 DEF LiveIsRow
    <3> QED
      BY <2>1, <2>3, <3>2, <3>3
  <2> QED
    BY <2>7, <2>8
<1> QED
  BY <1>1, MvccSecInvariant, PTL

-----------------------------------------------------------------------------
(* What purge has yet to come to.                                          *)

\* The smallest of some records of a log is not behind any of them.
LEMMA LeastRec ==
  ASSUME TypesOK, NEW id \in TrxIds, NEW S, S \subseteq DOMAIN undo[id], NEW r, r = MinOr(S, 0), NEW n \in S
  PROVE  n \in Nat /\ r \in S /\ r # 0 /\ r <= n
<1>1. undo \in [TrxIds -> Seq(UndoRec)]
  BY DEF TypesOK
<1>2. DOMAIN undo[id] = 1 .. Len(undo[id]) /\ Len(undo[id]) \in Nat
  BY <1>1, UndoAt
<1>3. S \in SUBSET Nat /\ S # {}
  BY <1>2
<1>4. r \in S /\ r <= n
  BY <1>3, MinOrFacts
<1>5. 0 \notin S
  BY <1>2
<1> QED
  BY <1>3, <1>4, <1>5

\* A position before undo record n of log i.
Before(p, last, i, n) ==
  last # 0 /\ last <= i /\ (last = i /\ p.stored => p.rec # 0 /\ p.rec <= n)

\* choose_next_log goes to the first record of a log that is not an insert.
LEMMA ChosenBefore ==
  ASSUME RInv, MInv, NEW p, p = [f \in PurgeFields |-> p[f]], NEW last \in 0 .. Len(history),
         NEW i \in DOMAIN history, last # 0, last <= i, NEW id, id = history[i].id,
         NEW n \in DOMAIN undo[id], undo[id][n].type \in Leaving, NEW q, q = choose_next_log(p, last)
  PROVE  q.stored /\ q.log = last /\ Before(q, last, i, n)
<1>1. id \in TrxIds
  BY HistoryTyped DEF RInv
<1>2. PICK j \in TrxIds : j = history[last].id
  <2>1. last \in DOMAIN history
    <3>1. last \in 1 .. Len(history)
      BY DEF RInv, TypeOKR
    <3>2. DOMAIN history = 1 .. Len(history)
      BY DEF RInv, TypeOKR
    <3> QED
      BY <3>1, <3>2
  <2> QED
    BY <2>1, HistoryTyped DEF RInv
<1>3. PICK r : r = MinOr(LogRecs(j, Updating), 0)
  OBVIOUS
<1>4. q = [p EXCEPT !.stored = TRUE, !.log = last, !.trx_no = history[last].no, !.rec = r]
  BY <1>2, <1>3 DEF choose_next_log
<1>5. q.stored /\ q.log = last /\ q.rec = r
  BY <1>4 DEF PurgeFields
<1>6. last = i => r # 0 /\ r <= n
  <2>1. SUFFICES ASSUME last = i  PROVE r # 0 /\ r <= n
    OBVIOUS
  <2>2. LogRecs(id, Updating) \subseteq DOMAIN undo[id] /\ n \in LogRecs(id, Updating)
    BY DEF LogRecs, Updating, Leaving
  <2>3. r = MinOr(LogRecs(id, Updating), 0)
    BY <1>2, <1>3, <2>1
  <2> QED
    BY <1>1, <2>2, <2>3, LeastRec DEF MInv
<1> QED
  BY <1>5, <1>6 DEF Before

\* Where a batch goes on is not behind what is pending.
LEMMA FetchableBefore ==
  ASSUME RInv, PurgePositionOK, MInv, AtLastLog, NEW i \in DOMAIN history, NEW id, id = history[i].id,
         NEW n \in DOMAIN undo[id], undo[id][n].type \in Leaving, Before(purge, rseg_last, i, n)
  PROVE  Fetchable.stored /\ Fetchable.log = rseg_last /\ Before(Fetchable, rseg_last, i, n)
<1>1. CASE purge.stored
  BY <1>1 DEF Fetchable, AtLastLog
<1>2. CASE ~purge.stored
  <2>1. purge = [f \in PurgeFields |-> purge[f]] /\ rseg_last \in 0 .. Len(history)
    BY DEF PurgePositionOK
  <2>2. rseg_last # 0 /\ rseg_last <= i
    BY DEF Before
  <2>3. PICK q : q = choose_next_log(purge, rseg_last)
    OBVIOUS
  <2>4. q.stored /\ q.log = rseg_last /\ Before(q, rseg_last, i, n)
    BY <2>1, <2>2, <2>3, ChosenBefore, ZenonT(60)
  <2> QED
    BY <1>2, <2>3, <2>4 DEF Fetchable
<1> QED
  BY <1>1, <1>2

\* Purge takes undo record n of transaction id.
Taken(id, n) ==
  /\ FetchRec /\ Fetchable.log \in DOMAIN history
  /\ history[Fetchable.log].id = id /\ Fetchable.rec = n /\ n # 0

\* Its jobs are those of the record, and its view sees the transaction.
LEMMA TakenFacts ==
  ASSUME RInv, PurgePositionOK, MInv, NEW id, NEW n, Taken(id, n)
  PROVE  /\ id \in TrxIds /\ n \in DOMAIN undo[id] /\ Sees(m_view, id)
         /\ purge'.todo = PurgeOps(id, n)
         /\ UNCHANGED <<rvars, rows, undo, work, stopped>>
<1>1. PICK p : p = Fetchable
  OBVIOUS
<1>2. /\ AtRec(p) /\ p = [f \in PurgeFields |-> p[f]]
      /\ p.stored => p.log \in DOMAIN history
  BY <1>1, FetchableRec DEF MInv
<1>3. /\ p.stored /\ p.trx_no < m_view.low_limit_no
      /\ UNCHANGED <<rvars, rows, undo, work, stopped>>
  BY <1>1 DEF FetchRec, CanFetch, Taken
<1>4. PICK log \in DOMAIN history : log = p.log
  BY <1>2, <1>3
<1>5. id = history[log].id /\ id \in TrxIds /\ n = p.rec /\ n # 0
  BY <1>1, <1>4, HistoryTyped DEF RInv, Taken
<1>6. p.trx_no = history[log].no /\ n \in DOMAIN undo[id]
  BY <1>2, <1>3, <1>4, <1>5 DEF AtRec
<1>7. Sees(m_view, id)
  BY <1>3, <1>4, <1>5, <1>6 DEF RInv, ViewOK, LogsBelowSeen
<1>8. PICK next : next = NextRec(p)
  OBVIOUS
<1>9. PICK last : last = NextLog(rseg_last)
  OBVIOUS
<1>10. PICK ops : ops = PurgeOps(id, n)
  OBVIOUS
<1> DEFINE a == [p EXCEPT !.rec = next, !.todo = ops]
           b == [p EXCEPT !.trx_no = history[log].no + 1, !.handled = @ + 1, !.todo = ops]
<1>11. IF next # 0 THEN purge' = a ELSE purge' = choose_next_log(b, last)
  BY <1>1, <1>4, <1>5, <1>8, <1>9, <1>10 DEF FetchRec, Taken
<1>12. a.todo = ops /\ b.todo = ops /\ b = [f \in PurgeFields |-> b[f]]
  BY <1>2 DEF PurgeFields
<1> HIDE DEF a, b
<1>13. choose_next_log(b, last).todo = ops
  <2>1. CASE last = 0
    <3>1. choose_next_log(b, last) = [b EXCEPT !.stored = FALSE]
      BY <2>1 DEF choose_next_log
    <3> QED
      BY <1>12, <3>1 DEF PurgeFields
  <2>2. CASE last # 0
    <3>1. PICK r : r = MinOr(LogRecs(history[last].id, Updating), 0)
      OBVIOUS
    <3>2. choose_next_log(b, last) = [b EXCEPT !.stored = TRUE, !.log = last, !.trx_no = history[last].no, !.rec = r]
      BY <2>2, <3>1 DEF choose_next_log
    <3> QED
      BY <1>12, <3>2 DEF PurgeFields
  <2> QED
    BY <2>1, <2>2
<1> QED
  BY <1>3, <1>5, <1>6, <1>7, <1>10, <1>11, <1>12, <1>13

\* A record that is pending stays so, unless purge takes it now.
LEMMA FetchPasses ==
  ASSUME RInv, PurgePositionOK, MInv, AtLastLog, FetchRec, NEW i \in DOMAIN history, NEW id, id = history[i].id,
         NEW n \in DOMAIN undo[id], undo[id][n].type \in Leaving, Before(purge, rseg_last, i, n)
  PROVE  Before(purge', rseg_last', i, n) \/ Taken(id, n)
<1>1. PICK p : p = Fetchable
  OBVIOUS
<1>2. /\ p = [f \in PurgeFields |-> p[f]] /\ p.rec \in 0 .. MaxUndo
      /\ p.stored => p.log \in DOMAIN history
  BY <1>1, FetchableRec DEF MInv, AtRec
<1>3. p.stored /\ p.log = rseg_last /\ Before(p, rseg_last, i, n)
  BY <1>1, FetchableBefore
<1>4. PICK log \in DOMAIN history : log = rseg_last
  BY <1>2, <1>3
<1>5. PICK j \in TrxIds : j = history[log].id
  BY HistoryTyped DEF RInv
<1>6. PICK ops : ops = IF p.rec = 0 THEN << >> ELSE PurgeOps(j, p.rec)
  OBVIOUS
<1>7. PICK next : next = IF p.rec = 0 THEN 0 ELSE NextRec(p)
  OBVIOUS
<1>8. PICK last : last = NextLog(rseg_last)
  OBVIOUS
<1> DEFINE a == [p EXCEPT !.rec = next, !.todo = ops]
           b == [p EXCEPT !.trx_no = history[log].no + 1, !.handled = @ + 1, !.todo = ops]
<1>9. /\ next # 0 => purge' = a /\ rseg_last' = rseg_last
      /\ next = 0 => purge' = choose_next_log(b, last) /\ rseg_last' = last
  BY <1>1, <1>3, <1>4, <1>5, <1>6, <1>7, <1>8 DEF FetchRec
<1>10. n \in Nat /\ i \in Nat /\ rseg_last \in Nat /\ Len(history) \in Nat
       /\ i \in 1 .. Len(history) /\ id \in TrxIds
  <2>1. Len(history) \in Nat /\ DOMAIN history = 1 .. Len(history)
    BY DEF RInv, TypeOKR
  <2>2. id \in TrxIds
    BY HistoryTyped DEF RInv
  <2>3. DOMAIN undo[id] \subseteq Nat
    BY <2>2, UndoAt DEF MInv, TypesOK
  <2> QED
    BY <2>1, <2>2, <2>3 DEF PurgePositionOK
<1>11. CASE i = rseg_last
  <2>1. j = id /\ p.rec # 0 /\ p.rec <= n
    BY <1>3, <1>4, <1>5, <1>11 DEF Before
  <2>2. CASE p.rec = n
    <3>1. Fetchable.log \in DOMAIN history /\ history[Fetchable.log].id = id /\ Fetchable.rec = n
      BY <1>1, <1>3, <1>4, <1>11, <2>2
    <3> QED
      BY <2>1, <2>2, <3>1 DEF Taken
  <2>3. CASE p.rec # n
    <3>1. PICK S : S = {m \in LogRecs(id, {"upd_exist", "del_mark"}) : m > p.rec}
      OBVIOUS
    <3>2. n > p.rec
      BY <1>2, <1>10, <2>1, <2>3
    <3>3. S \subseteq DOMAIN undo[id] /\ n \in S
      BY <3>1, <3>2 DEF LogRecs, Leaving
    <3>4. next = MinOr(S, 0)
      BY <1>3, <1>4, <1>5, <1>7, <2>1, <3>1 DEF NextRec
    <3>5. next # 0 /\ next <= n
      BY <1>10, <3>3, <3>4, LeastRec DEF MInv
    <3>6. purge' = a /\ rseg_last' = rseg_last
      BY <1>9, <3>5
    <3>7. a.rec = next
      BY <1>2 DEF PurgeFields
    <3> HIDE DEF a
    <3> QED
      BY <1>3, <3>5, <3>6, <3>7 DEF Before
  <2> QED
    BY <2>2, <2>3
<1>12. CASE i # rseg_last
  <2>1. rseg_last # 0 /\ rseg_last < i
    BY <1>3, <1>10, <1>12 DEF Before
  <2>2. CASE next # 0
    BY <1>9, <1>10, <2>1, <2>2 DEF Before
  <2>3. CASE next = 0
    <3>1. last = rseg_last + 1
      BY <1>8, <1>10, <2>1 DEF NextLog
    <3>2. last \in 0 .. Len(history) /\ last # 0 /\ last <= i
      BY <1>10, <2>1, <3>1
    <3>3. b = [f \in PurgeFields |-> b[f]]
      BY <1>2 DEF PurgeFields
    <3> HIDE DEF b
    <3>4. PICK q : q = choose_next_log(b, last)
      OBVIOUS
    <3>5. Before(q, last, i, n)
      BY <3>2, <3>3, <3>4, ChosenBefore
    <3> QED
      BY <1>9, <2>3, <3>4, <3>5
  <2> QED
    BY <2>2, <2>3
<1> QED
  BY <1>11, <1>12

\* The two ways to be pending.
LEMMA PendingMeaning ==
  ASSUME NEW id, NEW n
  PROVE  Pending(id, n) <=> \/ \E c \in Clients : IsActive(c) /\ trx[c].id = id /\ trx[c].no = LsnMax
                            \/ \E i \in DOMAIN history : history[i].id = id /\ Before(purge, rseg_last, i, n)
BY DEF Pending, Before

\* The transactions, the history list and the position of purge stay.
SamePlace ==
  /\ UNCHANGED <<trx, history, rseg_last>>
  /\ purge'.stored = purge.stored /\ purge'.rec = purge.rec /\ purge'.log = purge.log

\* The steps that change them.
LEMMA PlaceSteps ==
  ASSUME RInv, PurgePositionOK, MInv, [Next]_vars
  PROVE  \/ FetchRec \/ EndPurge
         \/ \E c \in Clients : NumberTrx(c) \/ Begin(c) \/ EndTrx(c)
         \/ SamePlace
<1>1. TypesOK /\ TodoOK
  BY DEF MInv
<1>2. UNCHANGED <<trx, history, rseg_last, purge>> => SamePlace
  BY DEF SamePlace
<1>3. ASSUME NEW c \in Clients, ClientNext(c)
      PROVE  NumberTrx(c) \/ Begin(c) \/ EndTrx(c) \/ SamePlace
  <2>1. ASSUME NEW k \in Keys, NEW v \in Vals, InsertRow(c, k, v) \/ UpdateRow(c, k, v) \/ DeleteRow(c, k)
        PROVE  UNCHANGED <<trx, history, rseg_last, purge>>
    BY <2>1 DEF InsertRow, UpdateRow, DeleteRow, Write, rvars
  <2>2. ASSUME NEW k \in Keys, DeleteRow(c, k)
        PROVE  UNCHANGED <<trx, history, rseg_last, purge>>
    BY <2>2 DEF DeleteRow, Write, rvars
  <2>3. OpenView(c) => UNCHANGED <<trx, history, rseg_last, purge>>
    BY DEF OpenView, assign_read_view
  <2>4. UndoPop(c) => UNCHANGED <<trx, history, rseg_last, purge>>
    BY DEF UndoPop, rvars
  <2>5. \/ SecMark(c) \/ SecInsert(c) \/ UndoSecRemove(c) \/ UndoSecMarkOrRemove(c) \/ UndoSecUnmark(c)
        \/ UndoRestore(c) \/ UndoDrop(c) \/ UndoDropMarked(c) \/ StartRollback(c) \/ UndoNext(c)
        => UNCHANGED <<trx, history, rseg_last, purge>>
    BY WorkSteps
  <2> QED
    BY <1>2, <1>3, <2>1, <2>2, <2>3, <2>4, <2>5 DEF ClientNext
<1>4. purge = [f \in PurgeFields |-> purge[f]]
  BY DEF PurgePositionOK
<1>5. RunPurge \/ PurgeSec \/ PurgeClust => SamePlace
  <2>1. RunPurge => SamePlace
    BY <1>4 DEF RunPurge, RenewPurgeView, SamePlace, PurgeFields
  <2>2. PurgeSec => SamePlace
    BY <1>4 DEF PurgeSec, SamePlace, PurgeFields, rvars
  <2>3. PurgeClust => SamePlace
    BY <1>4 DEF PurgeClust, SamePlace, PurgeFields, rvars
  <2> QED
    BY <2>1, <2>2, <2>3
<1>6. vars' = vars => SamePlace
  BY <1>2 DEF vars, rvars
<1> QED
  BY <1>3, <1>5, <1>6 DEF Next

\* A version that leaves something to remove stays pending, unless purge
\* takes its record now.
LEMMA PendingStays ==
  ASSUME RInv, PurgePositionOK, MInv, AtLastLog, [Next]_vars, NEW id \in TrxIds, NEW n \in DOMAIN undo[id],
         undo[id][n].type \in Leaving, Pending(id, n)
  PROVE  Pending(id, n)' \/ Taken(id, n)
<1>1. TypesOK /\ TodoOK /\ LocksOK
  BY DEF MInv
<1> DEFINE InLog == \E i \in DOMAIN history : history[i].id = id /\ Before(purge, rseg_last, i, n)
           Running == \E c \in Clients : IsActive(c) /\ trx[c].id = id /\ trx[c].no = LsnMax
<1>2. Pending(id, n) <=> Running \/ InLog
  BY PendingMeaning
<1>3. Running' \/ InLog' => Pending(id, n)'
  BY DEF Pending, Before
<1>4. Len(history) \in Nat /\ DOMAIN history = 1 .. Len(history) /\ rseg_last \in 0 .. Len(history)
  BY DEF RInv, TypeOKR, PurgePositionOK
<1>5. CASE SamePlace
  <2>1. InLog => InLog'
    BY <1>5 DEF SamePlace, Before
  <2>2. Running => Running'
    BY <1>5 DEF SamePlace, IsActive
  <2> QED
    BY <1>2, <1>3, <2>1, <2>2
<1>6. CASE FetchRec
  <2>1. UNCHANGED <<trx, history>>
    BY <1>6 DEF FetchRec, rvars
  <2>2. Running => Running'
    BY <2>1 DEF IsActive
  <2>3. InLog => InLog' \/ Taken(id, n)
    <3>1. ASSUME NEW i \in DOMAIN history, history[i].id = id, Before(purge, rseg_last, i, n)
          PROVE  InLog' \/ Taken(id, n)
      <4>1. Before(purge', rseg_last', i, n) \/ Taken(id, n)
        BY <1>6, <3>1, FetchPasses
      <4>2. Before(purge', rseg_last', i, n) => InLog'
        BY <2>1, <3>1
      <4> QED
        BY <4>1, <4>2
    <3> HIDE DEF Running
    <3> QED
      BY <3>1
  <2> QED
    BY <1>2, <1>3, <2>2, <2>3
<1>7. CASE EndPurge
  <2>1. /\ UNCHANGED <<trx, history, rseg_last>> /\ purge' = [Fetchable EXCEPT !.on = FALSE, !.handled = 0]
    BY <1>7, EndPurgeKeepsHistory DEF rvars
  <2>2. Fetchable = [f \in PurgeFields |-> Fetchable[f]]
    BY <1>1, FetchableRec DEF MInv
  <2>3. purge'.stored = Fetchable.stored /\ purge'.rec = Fetchable.rec
    BY <2>1, <2>2 DEF PurgeFields
  <2>4. Running => Running'
    BY <2>1 DEF IsActive
  <2>5. InLog => InLog'
    <3>1. ASSUME NEW i \in DOMAIN history, history[i].id = id, Before(purge, rseg_last, i, n)
          PROVE  InLog'
      <4>1. Before(Fetchable, rseg_last, i, n)
        BY <3>1, FetchableBefore
      <4>2. Before(purge', rseg_last', i, n)
        BY <2>1, <2>3, <4>1 DEF Before
      <4> QED
        BY <2>1, <3>1, <4>2
    <3> QED
      BY <3>1
  <2> QED
    BY <1>2, <1>3, <2>4, <2>5
<1>8. ASSUME NEW c \in Clients, NumberTrx(c)  PROVE Pending(id, n)'
  <2>1. PICK new : new = [id |-> trx[c].id, no |-> m_max_trx_id]
    OBVIOUS
  <2>2. /\ history' = Append(history, new) /\ purge' = purge
        /\ \A d \in Clients : (IsActive(d)' <=> IsActive(d)) /\ trx'[d].id = trx[d].id
        /\ \A d \in Clients \ {c} : trx'[d] = trx[d]
    BY <1>8, <2>1, NumberFacts
  <2>3. rseg_last' = IF rseg_last = 0 THEN Len(history') ELSE rseg_last
    BY <1>8 DEF NumberTrx
  <2>4. PICK h \in Nat : h = Len(history)
    BY <1>4
  <2>5. /\ DOMAIN history' = 1 .. h + 1 /\ Len(history') = h + 1 /\ history'[h + 1] = new
        /\ \A i \in 1 .. h : history'[i] = history[i]
    <3> DEFINE T == [id: TrxIds, no: TrxIds]
    <3>1. history \in Seq(T)
      BY DEF RInv, TypeOKR
    <3> HIDE DEF T
    <3> QED
      BY <2>2, <2>4, <3>1
  <2>6. CASE InLog
    <3>1. PICK i \in DOMAIN history : history[i].id = id /\ Before(purge, rseg_last, i, n)
      BY <2>6
    <3>2. rseg_last # 0
      BY <3>1 DEF Before
    <3>3. i \in DOMAIN history' /\ history'[i].id = id
      BY <1>4, <2>4, <2>5, <3>1
    <3>4. Before(purge', rseg_last', i, n)
      BY <2>2, <2>3, <3>1, <3>2
    <3> QED
      BY <1>3, <3>3, <3>4
  <2>7. CASE Running
    <3>1. PICK d \in Clients : IsActive(d) /\ trx[d].id = id /\ trx[d].no = LsnMax
      BY <2>7
    <3>2. CASE d # c
      BY <1>3, <2>2, <3>1, <3>2
    <3>3. CASE d = c
      <4>1. h + 1 \in DOMAIN history' /\ history'[h + 1].id = id
        BY <2>1, <2>5, <3>1, <3>3
      <4>2. Before(purge', rseg_last', h + 1, n)
        <5>1. CASE rseg_last = 0
          <6>1. ~purge.stored
            BY <5>1 DEF AtLastLog
          <6> QED
            BY <2>2, <2>3, <2>4, <2>5, <5>1, <6>1 DEF Before
        <5>2. CASE rseg_last # 0
          <6>1. rseg_last' = rseg_last /\ rseg_last <= h /\ rseg_last \in Nat
            BY <1>4, <2>3, <2>4, <5>2
          <6> QED
            BY <2>4, <5>2, <6>1 DEF Before
        <5> QED
          BY <5>1, <5>2
      <4> QED
        BY <1>3, <4>1, <4>2
    <3> QED
      BY <3>2, <3>3
  <2> QED
    BY <1>2, <2>6, <2>7
<1>9. ASSUME NEW c \in Clients, Begin(c)  PROVE Pending(id, n)'
  <2>1. /\ ~IsActive(c) /\ \A d \in Clients : IsActive(d)' <=> IsActive(d) \/ d = c
        /\ \A d \in Clients \ {c} : trx'[d] = trx[d]
        /\ UNCHANGED <<history, rseg_last, purge>>
    BY <1>1, <1>9, BeginFacts
  <2>2. InLog => InLog'
    BY <2>1
  <2>3. Running => Running'
    BY <2>1
  <2> QED
    BY <1>2, <1>3, <2>2, <2>3
<1>10. ASSUME NEW c \in Clients, EndTrx(c)  PROVE Pending(id, n)'
  <2>1. /\ IsActive(c) /\ \A d \in Clients : IsActive(d)' <=> IsActive(d) /\ d # c
        /\ \A d \in Clients \ {c} : trx'[d] = trx[d]
        /\ UNCHANGED <<history, rseg_last, purge>>
    BY <1>1, <1>10, EndTrxFacts
  <2>2. InLog => InLog'
    BY <2>1
  <2>3. Running => Running'
    <3>1. ASSUME NEW d \in Clients, IsActive(d), trx[d].id = id, trx[d].no = LsnMax
          PROVE  Running'
      <4>1. d # c
        <5>1. SUFFICES ASSUME d = c  PROVE FALSE
          OBVIOUS
        <5>2. ~work[c].upd
          BY <1>10, <3>1, <5>1 DEF EndTrx
        <5>3. undo[id][n].type # "insert"
          BY DEF Leaving
        <5> QED
          BY <1>1, <3>1, <5>1, <5>2, <5>3 DEF LocksOK
      <4> QED
        BY <2>1, <3>1, <4>1
    <3> QED
      BY <3>1
  <2> QED
    BY <1>2, <1>3, <2>2, <2>3
<1> QED
  BY <1>5, <1>6, <1>7, <1>8, <1>9, <1>10, PlaceSteps

\* A position that choose_next_log stores is in the log it was given.
LEMMA ChosenAt ==
  ASSUME NEW p, p = [f \in PurgeFields |-> p[f]], NEW last, NEW q, q = choose_next_log(p, last), q.stored
  PROVE  q.log = last /\ last # 0
<1>1. CASE last = 0
  <2>1. q = [p EXCEPT !.stored = FALSE]
    BY <1>1 DEF choose_next_log
  <2> QED
    BY <2>1 DEF PurgeFields
<1>2. CASE last # 0
  <2>1. PICK r : r = MinOr(LogRecs(history[last].id, Updating), 0)
    OBVIOUS
  <2>2. q = [p EXCEPT !.stored = TRUE, !.log = last, !.trx_no = history[last].no, !.rec = r]
    BY <1>2, <2>1 DEF choose_next_log
  <2> QED
    BY <1>2, <2>2 DEF PurgeFields
<1> QED
  BY <1>1, <1>2

\* A stored position stays in the next log to purge.
LEMMA AtLastLogKept ==
  ASSUME RInv, PurgePositionOK, MInv, AtLastLog, [Next]_vars
  PROVE  AtLastLog'
<1>1. TypesOK /\ TodoOK /\ purge = [f \in PurgeFields |-> purge[f]] /\ rseg_last \in Nat
  BY DEF MInv, PurgePositionOK
<1>2. PICK p : p = Fetchable
  OBVIOUS
<1>3. p = [f \in PurgeFields |-> p[f]]
  BY <1>2, FetchableRec DEF MInv
<1>4. p.stored => p.log = rseg_last /\ rseg_last # 0
  <2>1. CASE purge.stored
    BY <1>2, <2>1 DEF Fetchable, AtLastLog
  <2>2. CASE ~purge.stored
    <3>1. p = choose_next_log(purge, rseg_last)
      BY <1>2, <2>2 DEF Fetchable
    <3> QED
      BY <1>1, <3>1, ChosenAt
  <2> QED
    BY <2>1, <2>2
<1>5. CASE FetchRec
  <2>1. PICK no : no = history[p.log].no + 1
    OBVIOUS
  <2>2. PICK next : next = IF p.rec = 0 THEN 0 ELSE NextRec(p)
    OBVIOUS
  <2>3. PICK ops : ops = IF p.rec = 0 THEN << >> ELSE PurgeOps(history[p.log].id, p.rec)
    OBVIOUS
  <2>4. PICK last : last = NextLog(rseg_last)
    OBVIOUS
  <2> DEFINE a == [p EXCEPT !.rec = next, !.todo = ops]
             b == [p EXCEPT !.trx_no = no, !.handled = @ + 1, !.todo = ops]
  <2>5. /\ next # 0 => purge' = a /\ rseg_last' = rseg_last
        /\ next = 0 => purge' = choose_next_log(b, last) /\ rseg_last' = last
    BY <1>2, <1>5, <2>1, <2>2, <2>3, <2>4 DEF FetchRec
  <2>6. a.stored = p.stored /\ a.log = p.log /\ b = [f \in PurgeFields |-> b[f]]
    BY <1>3 DEF PurgeFields
  <2> HIDE DEF a, b
  <2>7. CASE next # 0
    BY <1>4, <2>5, <2>6, <2>7 DEF AtLastLog
  <2>8. CASE next = 0
    <3>1. PICK q : q = choose_next_log(b, last)
      OBVIOUS
    <3>2. q.stored => q.log = last /\ last # 0
      BY <2>6, <3>1, ChosenAt
    <3> QED
      BY <2>5, <2>8, <3>1, <3>2 DEF AtLastLog
  <2> QED
    BY <2>7, <2>8
<1>6. CASE EndPurge
  <2>1. rseg_last' = rseg_last /\ purge' = [p EXCEPT !.on = FALSE, !.handled = 0]
    BY <1>2, <1>6, EndPurgeKeepsHistory
  <2>2. purge'.stored = p.stored /\ purge'.log = p.log
    BY <1>3, <2>1 DEF PurgeFields
  <2> QED
    BY <1>4, <2>1, <2>2 DEF AtLastLog
<1>7. ASSUME NEW c \in Clients, NumberTrx(c)  PROVE AtLastLog'
  <2>1. purge' = purge
    BY <1>7, NumberFacts
  <2>2. rseg_last # 0 => rseg_last' = rseg_last
    BY <1>7 DEF NumberTrx
  <2> QED
    BY <2>1, <2>2 DEF AtLastLog
<1>8. ASSUME NEW c \in Clients, Begin(c) \/ EndTrx(c)  PROVE AtLastLog'
  <2>1. UNCHANGED <<purge, rseg_last>>
    BY <1>1, <1>8, BeginFacts, EndTrxFacts
  <2> QED
    BY <2>1 DEF AtLastLog
<1>9. SamePlace => AtLastLog'
  BY DEF SamePlace, AtLastLog
<1> QED
  BY <1>5, <1>6, <1>7, <1>8, <1>9, PlaceSteps

\* A new undo record is that of an active transaction.
LEMMA NewIsPending ==
  ASSUME RInv, PurgePositionOK, MInv, NEW c \in Clients, NEW k \in Keys, NEW type, NEW del, NEW val, NEW todo,
         RowStep(c, k, type, del, val, todo), NEW n
  PROVE  Pending(trx[c].id, n)'
<1>1. IsActive(c) /\ trx[c].no = LsnMax /\ trx' = trx
  BY RowStepFacts
<1>2. IsActive(c)' /\ trx'[c].id = trx[c].id /\ trx'[c].no = LsnMax
  BY <1>1 DEF IsActive
<1> QED
  BY <1>2 DEF Pending

\* What purge has come to its view sees, because it comes to nothing else.
LEMMA PurgedSeenKept ==
  ASSUME RInv, PurgePositionOK, MInv, ViewsOwned, AtLastLog, PurgedSeen, [Next]_vars
  PROVE  PurgedSeen'
<1>1. SUFFICES ASSUME NEW id \in TrxIds, id \in Unpurged', NEW n \in DOMAIN undo'[id], undo'[id][n].type \in Leaving
               PROVE  Pending(id, n)'
  BY DEF PurgedSeen, Unpurged
<1>2. id \in Unpurged
  BY <1>1, UnpurgedShrinks
<1>3. CASE n \in DOMAIN undo[id] /\ undo'[id][n] = undo[id][n]
  <2>1. Pending(id, n)
    BY <1>1, <1>2, <1>3 DEF PurgedSeen
  <2>2. ~Taken(id, n)
    <3>1. Taken(id, n) => Sees(m_view, id)
      BY TakenFacts
    <3> QED
      BY <1>2, <3>1 DEF Unpurged
  <2> QED
    BY <1>1, <1>3, <2>1, <2>2, PendingStays
<1>4. ASSUME NEW c \in Clients, NEW k \in Keys, NEW type, NEW del, NEW val, NEW todo,
             RowStep(c, k, type, del, val, todo), id = trx[c].id
      PROVE  Pending(id, n)'
  <2>1. Pending(trx[c].id, n)'
    BY <1>4, NewIsPending
  <2>2. trx' = trx
    BY <1>4, RowStepFacts
  <2> QED
    BY <1>4, <2>1, <2>2 DEF Pending
<1> QED
  BY <1>3, <1>4, UndoSteps

\* Undoing the reuse of a delete-marked record looks at the record again.
LEMMA DropFollowsKept ==
  ASSUME RInv, PurgePositionOK, MInv, DropFollows, [Next]_vars
  PROVE  DropFollows'
<1>1. TypesOK /\ TodoOK
  BY DEF MInv
<1>2. SUFFICES ASSUME NEW c \in Clients, work'[c].rolling, Has(work'[c].todo, {"restore"}),
                      Top(c)'.type = "upd_del"
               PROVE  Has(work'[c].todo, {"drop_marked"})
  BY DEF DropFollows
<1>3. work'[c].todo # << >>
  BY <1>2 DEF Has
<1>4. ASSUME work[c].rolling, Has(work[c].todo, {"restore"}), trx'[c].id = trx[c].id,
             undo'[trx[c].id] = undo[trx[c].id]
      PROVE  Has(work[c].todo, {"drop_marked"})
  <2>1. Top(c)' = Top(c)
    BY <1>4 DEF Top
  <2> QED
    BY <1>2, <1>4, <2>1 DEF DropFollows
<1>5. ASSUME trx'[c] = trx[c], work'[c] = work[c], IsActive(c) => undo'[trx[c].id] = undo[trx[c].id]
      PROVE  Has(work'[c].todo, {"drop_marked"})
  <2>1. IsActive(c)
    BY <1>1, <1>3, <1>5 DEF TodoOK, WorkOK
  <2> QED
    BY <1>2, <1>4, <1>5, <2>1
<1>6. ASSUME ClientNext(c)  PROVE Has(work'[c].todo, {"drop_marked"})
  <2>1. ASSUME NEW k \in Keys, NEW type, NEW del, NEW val, NEW todo, RowStep(c, k, type, del, val, todo)
        PROVE  ~work'[c].rolling
    BY <2>1, RowStepFacts
  <2>2. ~Begin(c) /\ ~EndTrx(c)
    BY <1>1, <1>3, BeginFacts, EndTrxFacts DEF Idle
  <2>3. OpenView(c) => trx'[c] = trx[c] /\ work'[c] = work[c] /\ UNCHANGED undo
    BY DEF OpenView, assign_read_view
  <2>4. NumberTrx(c) => trx'[c].id = trx[c].id /\ UNCHANGED <<work, undo>>
    BY NumberFacts
  <2>5. ASSUME \/ SecMark(c) \/ SecInsert(c) \/ UndoSecRemove(c) \/ UndoSecMarkOrRemove(c) \/ UndoSecUnmark(c)
               \/ UndoRestore(c) \/ UndoDrop(c) \/ UndoDropMarked(c)
        PROVE  Has(work'[c].todo, {"drop_marked"})
    <3>1. PICK s : s = work[c].todo
      OBVIOUS
    <3>2. s # << >> /\ work'[c].todo = Tail(s) /\ work'[c].rolling = work[c].rolling /\ UNCHANGED <<trx, undo>>
      BY <2>5, <3>1, WorkSteps
    <3>3. Has(Tail(s), {"restore"}) => Has(s, {"restore"})
      BY <3>1, <3>2, TodoFacts
    <3>4. Has(s, {"drop_marked"})
      BY <1>2, <1>4, <3>1, <3>2, <3>3
    <3>5. Head(s).op # "drop_marked"
      <4>1. Head(s).op = "drop_marked" => ~Has(Tail(s), ClustOps)
        BY <3>1, <3>2, TodoFacts
      <4>2. Has(Tail(s), ClustOps)
        BY <1>2, <3>2 DEF Has, ClustOps
      <4> QED
        BY <4>1, <4>2
    <3>6. Head(s).op \notin {"drop_marked"}
      BY <3>5
    <3>7. Has(Tail(s), {"drop_marked"})
      BY <3>1, <3>2, <3>4, <3>6, TodoFacts
    <3> QED
      BY <3>2, <3>7
  <2>6. ~UndoPop(c)
    BY <1>3, WorkSteps
  <2>7. ~StartRollback(c)
    BY <1>3, WorkSteps
  <2>8. ASSUME UndoNext(c)  PROVE Has(work'[c].todo, {"drop_marked"})
    <3>1. IsActive(c) /\ undo[trx[c].id] # << >> /\ UNCHANGED <<trx, undo>>
      BY <2>8, WorkSteps
    <3>2. Top(c)' = Top(c)
      BY <3>1 DEF Top
    <3>3. Top(c).type = "upd_del" /\ Top(c).type \in Types
      BY <1>2, <3>2 DEF Types
    <3>4. PICK k : k = Top(c).key
      OBVIOUS
    <3>5. PICK old : old = Top(c).old
      OBVIOUS
    <3>6. PICK pop : pop = Op("pop", k, 0)
      OBVIOUS
    <3>7. PICK t : t = Append(UndoOps("upd_del", k, old), pop)
      OBVIOUS
    <3>8. work'[c].todo \in {t, <<pop>>}
      BY <1>1, <2>8, <3>3, <3>4, <3>5, <3>6, <3>7 DEF UndoNext, TypesOK, Work
    <3>9. work'[c].todo # <<pop>>
      <4>1. pop.op = "pop"
        BY <3>6 DEF Op
      <4>2. ~Has(<<pop>>, {"restore"})
        <5>1. DOMAIN <<pop>> = {1} /\ <<pop>>[1] = pop
          OBVIOUS
        <5> QED
          BY <4>1, <5>1 DEF Has
      <4> QED
        BY <1>2, <4>2
    <3>10. k \in Keys
      BY <3>1, <3>4, TopFacts
    <3>11. UndoListOK(t, "upd_del", clust[k].val, old.val)
      BY <3>6, <3>7, <3>10, UndoLists DEF Types
    <3> QED
      BY <3>8, <3>9, <3>11 DEF UndoListOK
  <2>9. ASSUME NEW k \in Keys, NEW v \in Vals, InsertRow(c, k, v) \/ UpdateRow(c, k, v) \/ DeleteRow(c, k)
        PROVE  ~work'[c].rolling
    BY <1>1, <2>1, <2>9, RowSteps
  <2>10. ASSUME NEW k \in Keys, DeleteRow(c, k)
         PROVE  ~work'[c].rolling
    BY <2>9, <2>10, RowAssumption
  <2>11. OpenView(c) \/ NumberTrx(c) => Has(work'[c].todo, {"drop_marked"})
    BY <1>2, <1>4, <2>3, <2>4
  <2> QED
    BY <1>2, <1>6, <2>2, <2>5, <2>6, <2>7, <2>8, <2>9, <2>10, <2>11 DEF ClientNext
<1> QED
  BY <1>5, <1>6, ByOthers

-----------------------------------------------------------------------------
(* What is left to remove.                                                 *)

\* Only purge's own steps change its position and its jobs.
LEMMA ClientsLeavePurge ==
  ASSUME NEW c \in Clients, ClientNext(c)
  PROVE  UNCHANGED purge
<1>1. ASSUME NEW k \in Keys, NEW v \in Vals, InsertRow(c, k, v) \/ UpdateRow(c, k, v)
      PROVE  UNCHANGED purge
  BY <1>1 DEF InsertRow, UpdateRow, Write
<1>2. ASSUME NEW k \in Keys, DeleteRow(c, k)
      PROVE  UNCHANGED purge
  BY <1>2 DEF DeleteRow, Write
<1>3. Begin(c) \/ OpenView(c) \/ NumberTrx(c) \/ EndTrx(c) \/ StartRollback(c) \/ UndoNext(c) \/ UndoPop(c)
      => UNCHANGED purge
  BY DEF Begin, OpenView, NumberTrx, EndTrx, StartRollback, UndoNext, UndoPop
<1>4. SecMark(c) \/ SecInsert(c) \/ UndoSecRemove(c) \/ UndoSecMarkOrRemove(c) \/ UndoSecUnmark(c)
      => UNCHANGED purge
  BY DEF SecMark, SecInsert, UndoSecRemove, UndoSecMarkOrRemove, UndoSecUnmark, SetSec
<1>5. UndoRestore(c) \/ UndoDrop(c) \/ UndoDropMarked(c) => UNCHANGED purge
  BY DEF UndoRestore, UndoDrop, UndoDropMarked, SetClust
<1> QED
  BY <1>1, <1>2, <1>3, <1>4, <1>5 DEF ClientNext

\* A job stays until purge does it.
LEMMA JobStays ==
  ASSUME PurgePositionOK, MInv, [Next]_vars, NEW i \in DOMAIN purge.todo, NEW o, o = purge.todo[i]
  PROVE  \/ \E j \in DOMAIN purge'.todo : purge'.todo[j] = o
         \/ purge.todo # << >> /\ o = Head(purge.todo) /\ (PurgeSec \/ PurgeClust)
<1>1. PICK s \in Seq(Job) : s = purge.todo
  BY DEF MInv, PurgeOK
<1>2. s # << >>
  BY <1>1
<1>3. purge = [f \in PurgeFields |-> purge[f]]
  BY DEF PurgePositionOK
<1>4. ~FetchRec /\ ~EndPurge
  BY <1>1, <1>2 DEF FetchRec, EndPurge
<1>5. RunPurge => purge'.todo = s
  BY <1>1, <1>3 DEF RunPurge, PurgeFields
<1>6. ASSUME PurgeSec \/ PurgeClust  PROVE (\E j \in DOMAIN purge'.todo : purge'.todo[j] = o) \/ o = Head(s)
  <2>1. purge' = [purge EXCEPT !.todo = Tail(s)]
    BY <1>1, <1>6 DEF PurgeSec, PurgeClust
  <2>2. purge'.todo = Tail(s)
    BY <1>3, <2>1 DEF PurgeFields
  <2>3. /\ Head(s) = s[1]
        /\ \A j \in DOMAIN s : j # 1 => j - 1 \in DOMAIN Tail(s) /\ Tail(s)[j - 1] = s[j]
    BY <1>2, TailFacts
  <2> QED
    BY <1>1, <2>2, <2>3
<1>7. purge'.todo = s => \E j \in DOMAIN purge'.todo : purge'.todo[j] = o
  BY <1>1
<1>8. (\E c \in Clients : ClientNext(c)) => purge'.todo = s
  BY <1>1, ClientsLeavePurge
<1>9. vars' = vars => purge'.todo = s
  BY <1>1 DEF vars
<1> QED
  BY <1>1, <1>2, <1>4, <1>5, <1>6, <1>7, <1>8, <1>9 DEF Next

\* The undo record of a delete-marked version.
LEMMA MarkedFacts ==
  ASSUME RInv, MInv, NEW k \in Keys, NEW r \in Record, VersionOK(r, k), r.del,
         NEW id, id = r.trx_id, NEW n, n = r.roll.n
  PROVE  /\ id \in TrxIds /\ n \in DOMAIN undo[id] /\ r.roll = [trx |-> id, n |-> n, ins |-> FALSE]
         /\ undo[id][n].type = "del_mark" /\ undo[id][n].type \in Leaving /\ undo[id][n].key = k
<1>1. id # 0 /\ id \in TrxIds /\ r.roll \in Pointers
  BY RecordFacts
<1>2. r.roll.trx = id /\ ~r.roll.ins /\ n \in DOMAIN undo[id] /\ undo[id][n].key = k
      /\ undo[id][n].type = "del_mark"
  BY <1>1 DEF VersionOK
<1>3. r.roll = [trx |-> id, n |-> n, ins |-> FALSE]
  <2>1. r.roll.ins \in BOOLEAN
    BY RecordFacts
  <2>2. r.roll.ins = FALSE
    BY <1>2, <2>1
  <2> QED
    BY <1>1, <1>2, <2>2 DEF Pointers
<1> QED
  BY <1>1, <1>2, <1>3 DEF Leaving

\* The jobs of an undo record.
LEMMA JobsOf ==
  ASSUME NEW id, NEW n, NEW u, u = undo[id][n], u.type \in Leaving, NEW t, t = PurgeOps(id, n),
         NEW p, p = [trx |-> id, n |-> n, ins |-> FALSE]
  PROVE  /\ \E i \in DOMAIN t : t[i].op = "sec" /\ t[i].key = u.key /\ t[i].val = u.old.val
         /\ u.type = "del_mark" => \E i \in DOMAIN t : t[i].op = "clust" /\ t[i].roll = p
<1> DEFINE job(name) == [op |-> name, key |-> u.key, val |-> u.old.val, roll |-> p]
<1>3. PICK a : a = job("sec")
  OBVIOUS
<1>4. PICK b : b = job("clust")
  OBVIOUS
<1>5. /\ u.type = "del_mark" => t = <<a, b>>
      /\ u.type = "upd_exist" => t = <<a>>
  BY <1>3, <1>4 DEF PurgeOps
<1>6. a.op = "sec" /\ a.key = u.key /\ a.val = u.old.val /\ b.op = "clust" /\ b.roll = p
  BY <1>3, <1>4
<1> HIDE DEF job
<1>7. CASE u.type = "del_mark"
  <2>1. 1 \in DOMAIN t /\ 2 \in DOMAIN t /\ t[1] = a /\ t[2] = b
    BY <1>5, <1>7
  <2> QED
    BY <1>6, <2>1
<1>8. CASE u.type = "upd_exist"
  <2>1. 1 \in DOMAIN t /\ t[1] = a
    BY <1>5, <1>8
  <2> QED
    BY <1>6, <1>8, <2>1
<1> QED
  BY <1>7, <1>8 DEF Leaving

\* One of them looks at the entry of the version.
LEMMA SecJobOf ==
  ASSUME NEW id, NEW n, undo[id][n].type \in Leaving, NEW t, t = PurgeOps(id, n)
  PROVE  \E i \in DOMAIN t : t[i].op = "sec" /\ t[i].key = undo[id][n].key /\ t[i].val = undo[id][n].old.val
<1>1. PICK u : u = undo[id][n]
  OBVIOUS
<1>2. PICK p : p = [trx |-> id, n |-> n, ins |-> FALSE]
  OBVIOUS
<1>3. u.type \in Leaving
  BY <1>1
<1>4. \E i \in DOMAIN t : t[i].op = "sec" /\ t[i].key = u.key /\ t[i].val = u.old.val
  BY <1>1, <1>2, <1>3, JobsOf
<1> QED
  BY <1>1, <1>4

\* The list of work of a client has an operation for the record of key k.
Drops(k) == \E c \in Clients : \E i \in DOMAIN work[c].todo :
                work[c].todo[i].op = "drop_marked" /\ work[c].todo[i].key = k

\* Such an operation stays, or it is done now.
LEMMA DropStays ==
  ASSUME RInv, PurgePositionOK, MInv, [Next]_vars, NEW c \in Clients, NEW i \in DOMAIN work[c].todo,
         work[c].todo[i].op = "drop_marked", NEW k, k = work[c].todo[i].key
  PROVE  \/ Drops(k)'
         \/ UndoDropMarked(c) /\ Head(work[c].todo).key = k
<1>1. TypesOK /\ TodoOK
  BY DEF MInv
<1>2. PICK s : s = work[c].todo
  OBVIOUS
<1>3. s # << >> /\ s \in Seq(RowOp) /\ OrderOK(s) /\ IsActive(c) /\ work[c].rolling /\ i \in Nat /\ 1 \in DOMAIN s
      /\ Head(s) = s[1]
  <2>1. s # << >>
    BY <1>2
  <2>2. s \in Seq(RowOp) /\ OrderOK(s) /\ IsActive(c) /\ 1 \in DOMAIN s /\ Head(s) = s[1]
    BY <1>2, <2>1, TodoFacts
  <2>3. i \in Nat
    BY <1>2, <2>2
  <2>4. work[c].rolling
    BY <1>1, <1>2, <2>1 DEF TodoOK, WorkOK
  <2> QED
    BY <2>1, <2>2, <2>3, <2>4
<1>4. work'[c].todo = s => Drops(k)'
  BY <1>2 DEF Drops
<1>5. ASSUME ClientNext(c)
      PROVE  Drops(k)' \/ (UndoDropMarked(c) /\ Head(work[c].todo).key = k)
  <2>1. ASSUME NEW kk \in Keys, NEW type, NEW del, NEW val, NEW todo, RowStep(c, kk, type, del, val, todo)
        PROVE  FALSE
    BY <1>3, <2>1, RowStepFacts
  <2>2. ASSUME NEW kk \in Keys, NEW v \in Vals, InsertRow(c, kk, v) \/ UpdateRow(c, kk, v) \/ DeleteRow(c, kk)
        PROVE  FALSE
    BY <1>1, <2>1, <2>2, RowSteps
  <2>3. ASSUME NEW kk \in Keys, DeleteRow(c, kk)
        PROVE  FALSE
    BY <2>2, <2>3, RowAssumption
  <2>4. ~Begin(c)
    BY <1>1, <1>3, BeginFacts
  <2>5. ~EndTrx(c)
    BY <1>2, <1>3 DEF EndTrx, Ending
  <2>6. OpenView(c) \/ NumberTrx(c) => work' = work
    BY DEF OpenView, NumberTrx
  <2>7. ~StartRollback(c) /\ ~UndoNext(c)
    BY <1>2, <1>3, WorkSteps
  <2>8. ~UndoPop(c)
    <3>1. SUFFICES ASSUME UndoPop(c)  PROVE FALSE
      OBVIOUS
    <3>2. s[1].op = "pop"
      BY <1>2, <1>3, <3>1 DEF UndoPop, Doing
    <3>3. i # 1
      BY <1>2, <3>2
    <3>4. i \in DOMAIN s /\ 1 < i
      <4>1. DOMAIN s = 1 .. Len(s)
        BY <1>3
      <4> QED
        BY <1>2, <3>3, <4>1
    <3> QED
      BY <1>3, <3>2, <3>4 DEF OrderOK
  <2>9. ASSUME \/ SecMark(c) \/ SecInsert(c) \/ UndoSecRemove(c) \/ UndoSecMarkOrRemove(c) \/ UndoSecUnmark(c)
               \/ UndoRestore(c) \/ UndoDrop(c) \/ UndoDropMarked(c)
        PROVE  Drops(k)' \/ (UndoDropMarked(c) /\ Head(s).key = k)
    <3>1. work'[c].todo = Tail(s)
      BY <1>2, <2>9, WorkSteps
    <3>2. i # 1 => i - 1 \in DOMAIN Tail(s) /\ Tail(s)[i - 1] = s[i]
      BY <1>2, <1>3, TodoFacts
    <3>3. i # 1 => Drops(k)'
      BY <1>2, <3>1, <3>2 DEF Drops
    <3>4. i = 1 => UndoDropMarked(c)
      <4>1. i = 1 => Head(work[c].todo).op = "drop_marked"
        BY <1>2, <1>3
      <4> QED
        BY <2>9, <4>1 DEF SecMark, SecInsert, UndoSecRemove, UndoSecMarkOrRemove, UndoSecUnmark, UndoRestore,
                          UndoDrop, Doing
    <3> QED
      BY <1>2, <1>3, <3>3, <3>4
  <2> QED
    BY <1>2, <1>4, <1>5, <2>2, <2>3, <2>4, <2>5, <2>6, <2>7, <2>8, <2>9 DEF ClientNext
<1> QED
  BY <1>2, <1>4, <1>5, ByOthers

\* The record that comes back when its reuse is undone is looked at again.
LEMMA MarkedComesBack ==
  ASSUME RInv, MInv, DropFollows, NEW c \in Clients, UndoesTop(c), NEW k, k = Top(c).key, clust'[k].del
  PROVE  Drops(k)'
<1>1. /\ IsActive(c) /\ work[c].rolling /\ undo[trx[c].id] # << >> /\ k \in Keys /\ clust'[k] = Top(c).old
      /\ work[c].todo # << >> /\ work'[c].todo = Tail(work[c].todo) /\ Head(work[c].todo).op \in ClustOps
  BY UndoesTopFacts
<1>2. PICK s : s = work[c].todo
  OBVIOUS
<1>3. s \in Seq(RowOp) /\ 1 \in DOMAIN s /\ Head(s) = s[1]
      /\ \A j \in DOMAIN s : j # 1 => j - 1 \in DOMAIN Tail(s) /\ Tail(s)[j - 1] = s[j]
  BY <1>1, <1>2, TodoFacts
<1>4. UndoingOK(c, s)
  BY <1>1, <1>2 DEF MInv, TodoOK, WorkOK
<1>5. Top(c).type = "upd_del"
  <2>1. PICK id : id = trx[c].id
    OBVIOUS
  <2>2. PICK n : n = Len(undo[id])
    OBVIOUS
  <2>3. UndoRecOK(id, n, Top(c))
    BY <1>1, <2>1, <2>2, TopFacts
  <2> QED
    BY <1>1, <2>3 DEF UndoRecOK
<1>6. Has(s, {"restore"})
  <2>1. Head(s).op = "drop" => Has(s, {"drop"})
    BY <1>3 DEF Has
  <2>2. ~Has(s, {"drop"})
    BY <1>4, <1>5 DEF UndoingOK
  <2>3. Head(s).op = "restore"
    BY <1>1, <1>2, <2>1, <2>2 DEF ClustOps
  <2> QED
    BY <1>3, <2>3 DEF Has
<1>7. PICK i \in DOMAIN s : s[i].op = "drop_marked"
  BY <1>1, <1>2, <1>5, <1>6 DEF DropFollows, Has
<1>8. i # 1
  BY <1>1, <1>2, <1>3, <1>7 DEF ClustOps
<1>9. s[i].key = k
  BY <1>4, <1>7 DEF UndoingOK
<1>10. PICK j \in DOMAIN Tail(s) : Tail(s)[j].op = "drop_marked" /\ Tail(s)[j].key = k
  BY <1>3, <1>7, <1>8, <1>9
<1> QED
  BY <1>1, <1>2, <1>10 DEF Drops

\* Purge has a job that removes the record with a roll pointer.
ClustJob(roll) == \E i \in DOMAIN purge.todo : purge.todo[i].op = "clust" /\ purge.todo[i].roll = roll

\* A delete-marked record that stays is still left to somebody.
LEMMA MarkedStays ==
  ASSUME RInv, PurgePositionOK, MInv, ViewsOwned, AtLastLog, PurgedSeen, [Next]_vars, NEW k \in Keys,
         clust'[k] = clust[k], clust[k].del, NEW id, id = clust[k].trx_id, NEW n, n = clust[k].roll.n,
         Pending(id, n) \/ ClustJob(clust[k].roll) \/ Drops(k)
  PROVE  Pending(id, n)' \/ ClustJob(clust[k].roll)' \/ Drops(k)'
<1>1. clust[k] \in Record /\ VersionOK(clust[k], k)
  BY DEF MInv, TypesOK, VersionsOK
<1>2. PICK r : r = clust[k].roll
  OBVIOUS
<1>3. /\ id \in TrxIds /\ n \in DOMAIN undo[id] /\ r = [trx |-> id, n |-> n, ins |-> FALSE]
      /\ undo[id][n].type = "del_mark" /\ undo[id][n].type \in Leaving /\ undo[id][n].key = k
  BY <1>1, <1>2, MarkedFacts
<1>4. ClustJob(r)' => ClustJob(clust[k].roll)'
  BY <1>2 DEF ClustJob
<1>5. CASE Pending(id, n)
  <2>1. Taken(id, n) => ClustJob(r)'
    <3>1. ASSUME Taken(id, n)  PROVE ClustJob(r)'
      <4>1. purge'.todo = PurgeOps(id, n)
        BY <3>1, TakenFacts
      <4>2. PICK t : t = PurgeOps(id, n)
        OBVIOUS
      <4>3. PICK u : u = undo[id][n]
        OBVIOUS
      <4>4. u.type = "del_mark" /\ u.type \in Leaving
        BY <1>3, <4>3
      <4>5. \E i \in DOMAIN t : t[i].op = "clust" /\ t[i].roll = r
        BY <1>3, <4>2, <4>3, <4>4, JobsOf
      <4> QED
        BY <4>1, <4>2, <4>5 DEF ClustJob
    <3> QED
      BY <3>1
  <2> QED
    BY <1>3, <1>4, <1>5, <2>1, PendingStays
<1>6. CASE ClustJob(clust[k].roll)
  <2>1. PICK i \in DOMAIN purge.todo : purge.todo[i].op = "clust" /\ purge.todo[i].roll = r
    BY <1>2, <1>6 DEF ClustJob
  <2>2. PICK o : o = purge.todo[i]
    OBVIOUS
  <2>3. ~(purge.todo # << >> /\ o = Head(purge.todo) /\ (PurgeSec \/ PurgeClust))
    <3>1. SUFFICES ASSUME o = Head(purge.todo), PurgeSec \/ PurgeClust  PROVE FALSE
      OBVIOUS
    <3>2. PurgeClust
      BY <2>1, <2>2, <3>1 DEF PurgeSec, PurgeDoes
    <3>3. o.key = k
      <4>1. JobOK(o)
        BY <2>2 DEF MInv, PurgeOK
      <4> QED
        BY <1>3, <2>1, <2>2, <4>1 DEF JobOK
    <3>4. clust'[k] = NoRec
      BY <1>2, <2>1, <2>2, <3>1, <3>2, <3>3 DEF PurgeClust, MInv, TypesOK
    <3> QED
      BY <3>4, RecordFacts DEF Record
  <2>4. \E j \in DOMAIN purge'.todo : purge'.todo[j] = o
    BY <2>2, <2>3, JobStays
  <2> QED
    BY <1>4, <2>1, <2>2, <2>4 DEF ClustJob
<1>7. CASE Drops(k)
  <2>1. PICK c \in Clients : \E i \in DOMAIN work[c].todo :
            work[c].todo[i].op = "drop_marked" /\ work[c].todo[i].key = k
    BY <1>7 DEF Drops
  <2>2. PICK i \in DOMAIN work[c].todo : work[c].todo[i].op = "drop_marked" /\ work[c].todo[i].key = k
    BY <2>1
  <2>3. Drops(k)' \/ (UndoDropMarked(c) /\ Head(work[c].todo).key = k)
    BY <2>2, DropStays
  <2>4. ASSUME UndoDropMarked(c), Head(work[c].todo).key = k  PROVE Pending(id, n)'
    <3>1. PICK old : old = Top(c).old
      OBVIOUS
    <3>2. clust[k] \in {old, NoRec} /\ Doing(c, "drop_marked")
      <4>1. Doing(c, "drop_marked")
        BY <2>4 DEF UndoDropMarked
      <4>2. TypesOK /\ TodoOK /\ LocksOK
        BY DEF MInv
      <4>3. PICK id1 : id1 = trx[c].id
        OBVIOUS
      <4>4. PICK n1 : n1 = Len(undo[id1])
        OBVIOUS
      <4> QED
        BY <2>4, <3>1, <4>1, <4>2, <4>3, <4>4, UndoClustFacts
    <3>3. clust[k] # NoRec /\ clust[k] = old
      BY <1>1, <3>2, RecordFacts
    <3>4. clust' = [clust EXCEPT ![k] = IF clust[k] = NoRec \/ ~update_undo_must_exist(old.trx_id)
                                        THEN NoRec ELSE clust[k]]
      BY <2>4, <3>1 DEF UndoDropMarked, SetClust
    <3>5. update_undo_must_exist(id)
      <4>1. clust'[k] # NoRec
        BY <3>3
      <4> QED
        BY <3>3, <3>4, <4>1 DEF MInv, TypesOK
    <3>6. id \in Unpurged
      BY <1>3, <3>5, PurgeViewMeaning DEF Unpurged
    <3>7. Pending(id, n)
      BY <1>3, <3>6 DEF PurgedSeen
    <3>8. ~Taken(id, n)
      <4>1. Taken(id, n) => Sees(m_view, id)
        BY TakenFacts
      <4> QED
        BY <3>6, <4>1 DEF Unpurged
    <3> QED
      BY <1>3, <3>7, <3>8, PendingStays
  <2> QED
    BY <2>3, <2>4
<1> QED
  BY <1>5, <1>6, <1>7

\* A delete-marked record is left to purge or to a rollback.
LEMMA MarkedOwedKept ==
  ASSUME RInv, PurgePositionOK, MInv, ViewsOwned, AtLastLog, PurgedSeen, DropFollows, MarkedOwed, [Next]_vars
  PROVE  MarkedOwed'
<1>1. SUFFICES ASSUME NEW k \in Keys, clust'[k].del, NEW id, id = clust'[k].trx_id, NEW n, n = clust'[k].roll.n
               PROVE  Pending(id, n)' \/ ClustJob(clust[k].roll)' \/ Drops(k)'
  BY DEF MarkedOwed, ClustJob, Drops, Pending
<1>2. CASE clust'[k] = clust[k]
  <2>1. Pending(id, n) \/ ClustJob(clust[k].roll) \/ Drops(k)
    BY <1>1, <1>2 DEF MarkedOwed, ClustJob, Drops
  <2> QED
    BY <1>1, <1>2, <2>1, MarkedStays
<1>3. ASSUME clust'[k] # clust[k], NEW c \in Clients, NEW type, NEW del, NEW val, NEW todo,
             RowStep(c, k, type, del, val, todo)
      PROVE  Pending(id, n)'
  <2>1. clust'[k].trx_id = trx[c].id /\ trx' = trx
    BY <1>3, RowStepFacts
  <2>2. Pending(trx[c].id, n)'
    BY <1>3, NewIsPending
  <2> QED
    BY <1>1, <2>1, <2>2 DEF Pending
<1>4. ASSUME NEW c \in Clients, UndoesTop(c), Top(c).key = k
      PROVE  Drops(k)'
  BY <1>1, <1>4, MarkedComesBack
<1>5. ~Purged(k, clust'[k])
  BY <1>1, RecordFacts, NoRecFacts DEF Purged
<1>6. (\E c \in Clients : \E type, del, val, todo : RowStep(c, k, type, del, val, todo))
      => clust'[k] = clust[k] \/ Pending(id, n)'
  BY <1>3
<1> QED
  BY <1>2, <1>4, <1>5, <1>6, ClustSteps

-----------------------------------------------------------------------------
(* What is left to remove from the secondary index.                        *)

\* A version from which the search goes on is that of a kept update.
LEMMA MoreIsKept ==
  ASSUME RInv, MInv, NEW k \in Keys, NEW r \in Record, VersionOK(r, k), More(r),
         \/ r = clust[k]
         \/ \E i \in TrxIds : \E m \in DOMAIN undo[i] : r = undo[i][m].old /\ undo[i][m].key = k,
         NEW id, id = r.trx_id, NEW n, n = r.roll.n
  PROVE  id \in TrxIds /\ IsKept(k, id, n) /\ r.roll = PointerTo(id, n)
<1>1. ~r.roll.ins /\ id # 0 /\ id \in TrxIds
  BY RecordFacts DEF More
<1>2. n \in DOMAIN undo[id] /\ undo[id][n].key = k /\ undo[id][n].type # "insert"
  BY <1>1 DEF VersionOK
<1>3. r.roll = PointerTo(id, n)
  BY <1>1, <1>2, PointerFacts
<1>4. ~Reverted(id, n)
  BY <1>1, ReachedStays
<1>5. id \in Unpurged
  BY <1>1, PurgeViewMeaning DEF More, Unpurged
<1> QED
  BY <1>1, <1>2, <1>3, <1>4, <1>5 DEF IsKept

\* An entry that the search finds is not the one of the row is that of a kept
\* update.
LEMMA FoundIsKept ==
  ASSUME RInv, MInv, NEW k \in Keys, NEW v \in Vals, RowOf(clust[k]) # v, old_has_index_entry(TRUE, k, v)
  PROVE  \E id \in TrxIds : \E n \in DOMAIN undo[id] : IsKept(k, id, n) /\ RowOf(undo[id][n].old) = v
<1>1. TypesOK /\ UndoBounded /\ VersionsOK /\ Acyclic
  BY DEF MInv
<1>2. undo \in [TrxIds -> Seq(UndoRec)] /\ clust \in [Keys -> Record]
  BY <1>1 DEF TypesOK
<1>3. PICK f : /\ IsSearch(f, v)
               /\ old_has_index_entry(TRUE, k, v) <=> Needs(clust[k], v) \/ (More(clust[k]) /\ f[clust[k].roll])
  BY OldHasMeaning
<1>4. More(clust[k]) /\ f[clust[k].roll]
  <2>1. ~Needs(clust[k], v)
    BY DEF Needs, RowOf
  <2> QED
    BY <1>3, <2>1
<1>5. PICK d \in [TrxIds -> [Nat -> Nat]] :
          \A id \in TrxIds : \A n \in DOMAIN undo[id] : d[id][n] = 1 + DepthOf(d, undo[id][n].old)
  BY <1>1 DEF Acyclic
<1>6. ASSUME NEW i, NEW m, IsKept(k, i, m)
      PROVE  /\ i \in TrxIds /\ m \in DOMAIN undo[i] /\ m \in Nat /\ d[i][m] \in Nat
             /\ PointerTo(i, m) \in UndoPointers /\ OldRec(PointerTo(i, m)) = undo[i][m].old
             /\ undo[i][m].old \in Record /\ VersionOK(undo[i][m].old, k) /\ undo[i][m].key = k
  <2>1. i \in TrxIds /\ m \in DOMAIN undo[i] /\ undo[i][m].key = k
    BY <1>6 DEF IsKept, Unpurged
  <2>2. DOMAIN undo[i] = 1 .. Len(undo[i]) /\ Len(undo[i]) \in Nat /\ undo[i][m].old \in Record
    BY <1>2, <2>1, UndoAt
  <2>3. m \in 1 .. Len(undo[i]) /\ Len(undo[i]) <= MaxUndo
    BY <1>1, <2>1, <2>2 DEF UndoBounded
  <2>4. PICK h \in Nat : h = Len(undo[i])
    BY <2>2
  <2>5. m \in Nat /\ m \in 1 .. MaxUndo
    BY <2>3, <2>4, RowAssumption
  <2>6. PICK b \in BOOLEAN : b = (undo[i][m].type = "insert")
    OBVIOUS
  <2>7. PointerTo(i, m) = [trx |-> i, n |-> m, ins |-> b]
    BY <2>6 DEF PointerTo
  <2>8. PointerTo(i, m) \in Pointers /\ PointerTo(i, m).trx = i /\ PointerTo(i, m).n = m
    BY <2>1, <2>5, <2>7 DEF Pointers
  <2>9. VersionOK(undo[i][m].old, undo[i][m].key)
    BY <1>1, <2>1 DEF VersionsOK, UndoRecOK
  <2>10. d[i][m] \in Nat
    BY <2>1, <2>5
  <2> QED
    BY <2>1, <2>2, <2>5, <2>8, <2>9, <2>10 DEF UndoPointers, OldRec
<1>7. PICK T : T = {x \in Nat : \E i \in TrxIds : \E m \in DOMAIN undo[i] :
                                    IsKept(k, i, m) /\ f[PointerTo(i, m)] /\ x = d[i][m]}
  OBVIOUS
<1>8. T \in SUBSET Nat /\ T # {}
  <2>1. PICK i : i = clust[k].trx_id
    OBVIOUS
  <2>2. PICK m : m = clust[k].roll.n
    OBVIOUS
  <2>3. i \in TrxIds /\ IsKept(k, i, m) /\ clust[k].roll = PointerTo(i, m)
    BY <1>1, <1>2, <1>4, <2>1, <2>2, MoreIsKept DEF VersionsOK
  <2>4. m \in DOMAIN undo[i] /\ f[PointerTo(i, m)] /\ d[i][m] \in Nat
    BY <1>4, <1>6, <2>3
  <2>5. d[i][m] \in T
    BY <1>7, <2>3, <2>4
  <2> QED
    BY <1>7, <2>5
<1>9. PICK least \in T : Smallest(T, least)
  BY <1>8, SmallestExists
<1>10. PICK i \in TrxIds : \E m \in DOMAIN undo[i] : IsKept(k, i, m) /\ f[PointerTo(i, m)] /\ least = d[i][m]
  BY <1>7
<1>11. PICK m \in DOMAIN undo[i] : IsKept(k, i, m) /\ f[PointerTo(i, m)] /\ least = d[i][m]
  BY <1>10
<1>12. PICK r \in Record : r = undo[i][m].old /\ VersionOK(r, k)
  BY <1>6, <1>11
<1>13. Needs(r, v) \/ (More(r) /\ f[r.roll])
  BY <1>3, <1>6, <1>11, <1>12 DEF IsSearch
<1>14. ~(More(r) /\ f[r.roll])
  <2>1. SUFFICES ASSUME More(r), f[r.roll]  PROVE FALSE
    OBVIOUS
  <2>2. PICK j : j = r.trx_id
    OBVIOUS
  <2>3. PICK l : l = r.roll.n
    OBVIOUS
  <2>4. j \in TrxIds /\ IsKept(k, j, l) /\ r.roll = PointerTo(j, l)
    BY <1>6, <1>11, <1>12, <2>1, <2>2, <2>3, MoreIsKept
  <2>5. l \in DOMAIN undo[j] /\ d[j][l] \in Nat
    BY <1>6, <2>4
  <2>6. d[j][l] \in T
    BY <1>7, <2>1, <2>4, <2>5
  <2>7. d[i][m] = 1 + d[j][l]
    <3>1. ~r.roll.ins /\ r.roll.trx = j /\ r.roll.n = l
      BY <2>1, <2>3, <2>4, PointerParts DEF More
    <3> QED
      BY <1>5, <1>12, <3>1 DEF DepthOf
  <2>8. least <= d[j][l]
    BY <1>9, <2>6 DEF Smallest
  <2> QED
    BY <1>11, <2>5, <2>7, <2>8
<1>15. RowOf(undo[i][m].old) = v
  BY <1>12, <1>13, <1>14 DEF Needs, RowOf
<1> QED
  BY <1>11, <1>15

\* Purge has a job that looks at the entry of k and v.
SecJob(k, v) == \E i \in DOMAIN purge.todo :
                    purge.todo[i].op = "sec" /\ purge.todo[i].key = k /\ purge.todo[i].val = v

\* Purge has yet to come to an undo record that leaves this entry.
Owed(k, v) == \E id \in TrxIds : \E n \in DOMAIN undo[id] :
                  /\ undo[id][n].key = k /\ RowOf(undo[id][n].old) = v
                  /\ ~Reverted(id, n) /\ Pending(id, n)

\* A version that was not delete-marked is left by an update or a delete.
LEMMA LeavingType ==
  ASSUME MInv, NEW id \in TrxIds, NEW n \in DOMAIN undo[id], NEW v \in Vals, RowOf(undo[id][n].old) = v
  PROVE  undo[id][n].type \in Leaving /\ undo[id][n].old.val = v
<1>1. /\ undo[id][n].old \in Record /\ undo[id][n].type \in Types
      /\ UndoRecOK(id, n, undo[id][n])
  BY UndoAt DEF MInv, TypesOK, VersionsOK
<1>2. v # 0
  BY RowAssumption
<1>3. undo[id][n].old # NoRec /\ ~undo[id][n].old.del /\ undo[id][n].old.val = v
  BY <1>2, NoRecFacts DEF RowOf
<1> QED
  BY <1>1, <1>3 DEF UndoRecOK, Types, Leaving

\* An entry that the search finds is left to purge.
LEMMA KeptIsOwed ==
  ASSUME RInv, MInv, PurgedSeen, NEW k \in Keys, NEW v \in Vals, RowOf(clust[k]) # v,
         old_has_index_entry(TRUE, k, v)
  PROVE  Owed(k, v)
<1>1. PICK id \in TrxIds : \E n \in DOMAIN undo[id] : IsKept(k, id, n) /\ RowOf(undo[id][n].old) = v
  BY FoundIsKept
<1>2. PICK n \in DOMAIN undo[id] : IsKept(k, id, n) /\ RowOf(undo[id][n].old) = v
  BY <1>1
<1>3. undo[id][n].type \in Leaving
  BY <1>2, LeavingType
<1>4. Pending(id, n)
  BY <1>2, <1>3 DEF IsKept, PurgedSeen
<1> QED
  BY <1>2, <1>4 DEF IsKept, Owed

\* An undo record that leaves an entry stays so, unless purge takes it now or
\* the row gets the entry back.
LEMMA OwedStays ==
  ASSUME RInv, PurgePositionOK, MInv, Linked, BusyOK, AtLastLog, [Next]_vars, NEW k \in Keys, NEW v \in Vals,
         Owed(k, v)
  PROVE  Owed(k, v)' \/ SecJob(k, v)' \/ RowOf(clust'[k]) = v
<1>1. PICK id \in TrxIds : \E n \in DOMAIN undo[id] :
          undo[id][n].key = k /\ RowOf(undo[id][n].old) = v /\ ~Reverted(id, n) /\ Pending(id, n)
  BY DEF Owed
<1>2. PICK n \in DOMAIN undo[id] :
          undo[id][n].key = k /\ RowOf(undo[id][n].old) = v /\ ~Reverted(id, n) /\ Pending(id, n)
  BY <1>1
<1>3. undo[id][n].type \in Leaving /\ undo[id][n].old.val = v
  BY <1>2, LeavingType
<1>4. n \in DOMAIN undo'[id]
  BY <1>2, <1>3, UndoGoes DEF Leaving
<1>5. undo'[id][n] = undo[id][n]
  <2>1. ASSUME NEW c \in Clients, NEW j \in Keys, NEW type, NEW del, NEW val, NEW todo,
               RowStep(c, j, type, del, val, todo), id = trx[c].id, n = Len(undo[id]) + 1
        PROVE  FALSE
    BY <2>1, RowStepFacts
  <2> QED
    BY <1>4, <2>1, UndoSteps
<1>6. ASSUME Reverted(id, n)'  PROVE RowOf(clust'[k]) = v
  <2>1. PICK c \in Clients : /\ UndoRestore(c) \/ UndoDrop(c)
                             /\ IsActive(c) /\ trx[c].id = id /\ n = Len(undo[id])
    BY <1>2, <1>4, <1>6, RevertedBefore
  <2>2. Top(c) = undo[id][n] /\ UndoesTop(c)
    BY <2>1 DEF Top, UndoesTop
  <2>3. clust'[Top(c).key] = Top(c).old
    BY <2>2, UndoesTopFacts
  <2> QED
    BY <1>2, <2>2, <2>3
<1>7. Pending(id, n)' \/ Taken(id, n)
  BY <1>2, <1>3, PendingStays
<1>8. Taken(id, n) => SecJob(k, v)'
  <2>1. SUFFICES ASSUME Taken(id, n)  PROVE SecJob(k, v)'
    OBVIOUS
  <2>2. PICK t : t = PurgeOps(id, n)
    OBVIOUS
  <2>3. purge'.todo = t
    BY <2>1, <2>2, TakenFacts
  <2>4. \E i \in DOMAIN t : t[i].op = "sec" /\ t[i].key = undo[id][n].key /\ t[i].val = undo[id][n].old.val
    <3>1. undo[id][n].type \in Leaving
      BY <1>3
    <3> QED
      BY <2>2, <3>1, SecJobOf
  <2> QED
    BY <1>2, <1>3, <2>3, <2>4 DEF SecJob
<1>9. Pending(id, n)' /\ ~Reverted(id, n)' => Owed(k, v)'
  <2>1. RowOf(undo'[id][n].old) = v /\ undo'[id][n].key = k
    BY <1>2, <1>5
  <2> QED
    BY <1>4, <2>1 DEF Owed, RowOf
<1> QED
  BY <1>6, <1>7, <1>8, <1>9

\* A job stays until purge looks at the entry.
LEMMA SecJobStays ==
  ASSUME PurgePositionOK, MInv, [Next]_vars, NEW k \in Keys, NEW v \in Vals, SecJob(k, v)
  PROVE  \/ SecJob(k, v)'
         \/ PurgeSec /\ Head(purge.todo).key = k /\ Head(purge.todo).val = v
<1>1. PICK i \in DOMAIN purge.todo : purge.todo[i].op = "sec" /\ purge.todo[i].key = k /\ purge.todo[i].val = v
  BY DEF SecJob
<1>2. PICK o : o = purge.todo[i]
  OBVIOUS
<1>3. CASE \E j \in DOMAIN purge'.todo : purge'.todo[j] = o
  BY <1>1, <1>2, <1>3 DEF SecJob
<1>4. CASE o = Head(purge.todo) /\ (PurgeSec \/ PurgeClust)
  BY <1>1, <1>2, <1>4 DEF PurgeClust, PurgeDoes
<1> QED
  BY <1>2, <1>3, <1>4, JobStays

\* An entry that is not the one of the row is left to purge.
LEMMA EntriesOwedKept ==
  ASSUME RInv, PurgePositionOK, MInv, Linked, BusyOK, AtLastLog, PurgedSeen, EntriesOwed, [Next]_vars, ~stopped'
  PROVE  EntriesOwed'
<1>1. SUFFICES ASSUME NEW k \in Keys, NEW v \in Vals, sec'[k][v] # "none", RowOf(clust'[k]) # v
               PROVE  Owed(k, v)' \/ SecJob(k, v)'
  BY DEF EntriesOwed, Owed, SecJob, RowOf
<1>2. clust \in [Keys -> Record] /\ sec \in [Keys -> [Vals -> {"none", "live", "marked"}]] /\ v # 0
  BY RowAssumption DEF MInv, TypesOK
<1>3. CASE sec[k][v] # "none" /\ RowOf(clust[k]) # v
  <2>1. Owed(k, v) \/ SecJob(k, v)
    BY <1>3 DEF EntriesOwed, Owed, SecJob
  <2>2. Owed(k, v) => Owed(k, v)' \/ SecJob(k, v)'
    BY <1>1, OwedStays
  <2>3. ASSUME PurgeSec, Head(purge.todo).key = k, Head(purge.todo).val = v
        PROVE  Owed(k, v)
    <3>1. sec' = [sec EXCEPT ![k][v] = IF clust[k] # NoRec /\ old_has_index_entry(TRUE, k, v) THEN @ ELSE "none"]
      BY <2>3 DEF PurgeSec
    <3>2. PICK b \in BOOLEAN : b <=> clust[k] # NoRec /\ old_has_index_entry(TRUE, k, v)
      OBVIOUS
    <3>3. sec' = [sec EXCEPT ![k][v] = IF b THEN @ ELSE "none"]
      BY <3>1, <3>2
    <3>4. b
      BY <1>1, <1>2, <3>3
    <3>5. old_has_index_entry(TRUE, k, v)
      BY <3>2, <3>4
    <3> QED
      BY <1>3, <3>5, KeptIsOwed
  <2> QED
    BY <2>1, <2>2, <2>3, SecJobStays
<1>4. CASE sec[k][v] = "none"
  <2>1. PICK c \in Clients : /\ work[c].todo # << >> /\ Head(work[c].todo).key = k /\ Head(work[c].todo).val = v
                             /\ SecInsert(c)
    BY <1>1, <1>4, SecSteps
  <2>2. PICK o : o = Head(work[c].todo)
    OBVIOUS
  <2>3. o.op = "insert"
    BY <2>1, <2>2 DEF SecInsert, Doing
  <2>4. o.key = Top(c).key /\ o.val = NewRow(c)
    BY <2>1, <2>2, <2>3, DoingOp
  <2>5. clust' = clust
    BY <2>1 DEF SecInsert, SetSec
  <2> QED
    BY <1>1, <2>1, <2>2, <2>4, <2>5 DEF NewRow
<1>5. CASE sec[k][v] # "none" /\ RowOf(clust[k]) = v
  <2>1. clust'[k] # clust[k]
    BY <1>1, <1>5
  <2>2. ASSUME NEW c \in Clients, NEW type, NEW del, NEW val, NEW todo, RowStep(c, k, type, del, val, todo)
        PROVE  Owed(k, v)'
    <3>1. PICK id : id = trx[c].id
      OBVIOUS
    <3>2. PICK n : n = Len(undo[id]) + 1
      OBVIOUS
    <3>3. /\ id \in TrxIds /\ n \in 1 .. MaxUndo /\ DOMAIN undo'[id] = 1 .. n /\ IsActive(c)
          /\ undo'[id][n].key = k /\ undo'[id][n].old = clust[k] /\ ~work'[c].rolling /\ trx' = trx
      BY <2>2, <3>1, <3>2, RowStepFacts
    <3>4. n \in DOMAIN undo'[id]
      <4>1. MaxUndo \in Nat /\ n \in Nat /\ 1 <= n
        BY <3>3, RowAssumption
      <4> QED
        BY <3>3, <4>1
    <3>5. ~Reverted(id, n)'
      <4>1. SUFFICES ASSUME NEW e \in Clients, IsActive(e)', trx'[e].id = id, work'[e].rolling  PROVE FALSE
        BY DEF Reverted
      <4>2. IsActive(e) /\ trx[e].id = trx[c].id
        BY <3>1, <3>3, <4>1 DEF IsActive
      <4>3. e = c
        BY <3>3, <4>2, ActiveFacts
      <4> QED
        BY <3>3, <4>1, <4>3
    <3>6. Pending(id, n)'
      <4>1. Pending(trx[c].id, n)'
        BY <2>2, NewIsPending
      <4> QED
        BY <3>1, <3>3, <4>1 DEF Pending
    <3>7. RowOf(undo'[id][n].old) = v
      BY <1>5, <3>3
    <3> QED
      BY <3>3, <3>4, <3>5, <3>6, <3>7 DEF Owed, RowOf
  <2>3. ASSUME NEW c \in Clients, UndoesTop(c), Top(c).key = k  PROVE FALSE
    <3>1. PICK s : s = work[c].todo
      OBVIOUS
    <3>2. /\ IsActive(c) /\ work[c].rolling /\ undo[trx[c].id] # << >> /\ IsTop(c)
          /\ s # << >> /\ Head(s).op \in ClustOps /\ sec' = sec
      BY <2>3, <3>1, UndoesTopFacts
    <3>3. BackOK(c)
      BY <3>2 DEF BusyOK, AtWorkOK, Busy
    <3>4. s \in Seq(RowOp) /\ OrderOK(s) /\ Head(s) = s[1] /\ 1 \in DOMAIN s
      BY <3>1, <3>2, TodoFacts
    <3>5. ~Has(s, {"remove", "mark_or_remove"})
      <4>1. SUFFICES ASSUME NEW j \in DOMAIN s, s[j].op \in {"remove", "mark_or_remove"}  PROVE FALSE
        BY DEF Has
      <4>2. j # 1
        BY <3>2, <3>4, <4>1 DEF ClustOps
      <4>3. 1 < j
        <5>1. DOMAIN s = 1 .. Len(s)
          BY <3>4
        <5> QED
          BY <4>2, <5>1
      <4>4. s[j].op \in {"drop_marked", "pop"}
        BY <3>2, <3>4, <4>3 DEF OrderOK
      <4> QED
        BY <4>1, <4>4
    <3>6. NewRow(c) = v
      BY <1>5, <2>3 DEF NewRow
    <3>7. sec[k][v] = "none"
      BY <1>2, <2>3, <3>1, <3>2, <3>3, <3>5, <3>6 DEF BackOK
    <3> QED
      BY <1>5, <3>7
  <2>4. ~Purged(k, clust'[k])
    BY <1>2, <1>5 DEF Purged, RowOf
  <2> QED
    BY <2>1, <2>2, <2>3, <2>4, ClustSteps
<1> QED
  BY <1>3, <1>4, <1>5

-----------------------------------------------------------------------------
(* The inductive invariant with what purge has yet to remove.              *)

\* At the start there is nothing to remove.
LEMMA GInit == Init => GInv
<1> SUFFICES ASSUME Init  PROVE GInv
  OBVIOUS
<1>1. /\ clust = [k \in Keys |-> OldRow] /\ undo = [id \in TrxIds |-> << >>]
      /\ work = [c \in Clients |-> Idle]
      /\ sec = [k \in Keys |-> [v \in Vals |-> IF v = InitialVal THEN "live" ELSE "none"]]
      /\ purge.stored = FALSE
  BY DEF Init
<1>2. AtLastLog
  BY <1>1 DEF AtLastLog
<1>3. PurgedSeen
  BY <1>1 DEF PurgedSeen, Unpurged
<1>4. DropFollows
  BY <1>1 DEF DropFollows, Idle
<1>5. \A k \in Keys : clust[k] = OldRow /\ ~clust[k].del
  BY <1>1, NoRecFacts, RecordFacts
<1>6. MarkedOwed
  BY <1>5 DEF MarkedOwed
<1>7. EntriesOwed
  <2>1. SUFFICES ASSUME NEW k \in Keys, NEW v \in Vals, sec[k][v] # "none"  PROVE RowOf(clust[k]) = v
    BY DEF EntriesOwed
  <2>2. sec[k][v] = IF v = InitialVal THEN "live" ELSE "none"
    BY <1>1
  <2> QED
    BY <1>5, <2>1, <2>2, NoRecFacts
<1> QED
  BY <1>2, <1>3, <1>4, <1>6, <1>7 DEF GInv

\* Every step keeps it.
LEMMA GStep == RInv /\ PurgePositionOK /\ MInv /\ SInv /\ GInv /\ [Next]_vars => GInv'
<1> SUFFICES ASSUME RInv, PurgePositionOK, MInv, SInv, GInv, [Next]_vars, ~stopped'  PROVE GInv'
  BY DEF GInv
<1>1. ~stopped
  BY DEF Next, vars
<1>2. ViewsOwned /\ Linked /\ BusyOK
  BY <1>1 DEF SInv
<1>3. AtLastLog /\ PurgedSeen /\ DropFollows /\ MarkedOwed /\ EntriesOwed
  BY <1>1 DEF GInv
<1>4. AtLastLog'
  BY <1>3, AtLastLogKept
<1>5. PurgedSeen'
  BY <1>2, <1>3, PurgedSeenKept
<1>6. DropFollows'
  BY <1>3, DropFollowsKept
<1>7. MarkedOwed'
  BY <1>2, <1>3, MarkedOwedKept
<1>8. EntriesOwed'
  BY <1>2, <1>3, EntriesOwedKept
<1> QED
  BY <1>4, <1>5, <1>6, <1>7, <1>8 DEF GInv

\* The invariant with purge: a delete-marked record is in front of purge,
\* among its jobs or in the list of a rollback, and an entry that is not the
\* one of its row is in front of purge or among its jobs.
THEOREM MvccGarbageInvariant == Spec => [](RInv /\ PurgePositionOK /\ MInv /\ SInv /\ GInv)
<1>1. Init => GInv
  BY GInit
<1>2. RInv /\ PurgePositionOK /\ MInv /\ SInv /\ GInv /\ [Next]_vars => GInv'
  BY GStep
<1> QED
  BY <1>1, <1>2, MvccSecInvariant, PTL DEF Spec

\* Purge and rollback miss nothing: when all transactions have ended and
\* purge has handled every log, no delete-marked record is left, and the
\* secondary index has the entries of the rows and nothing else.
THEOREM MvccNoGarbage == Spec => []PurgeLeavesNoGarbage
<1>1. RInv /\ PurgePositionOK /\ MInv /\ SInv /\ GInv => PurgeLeavesNoGarbage
  <2> SUFFICES ASSUME RInv, MInv, SInv, GInv, ~stopped, \A c \in Clients : ~IsActive(c),
                      rseg_last = 0, purge.todo = << >>, NEW k \in Keys
               PROVE  /\ ~clust[k].del
                      /\ \A v \in Vals : sec[k][v] = IF clust[k] # NoRec /\ clust[k].val = v
                                                     THEN "live" ELSE "none"
    BY DEF PurgeLeavesNoGarbage
  <2>1. MarkedOwed /\ EntriesOwed /\ LiveIsRow
    BY DEF SInv, GInv
  <2>2. \A id, n : ~Pending(id, n)
    BY DEF Pending
  <2>3. \A c \in Clients : work[c].todo = << >>
    BY DEF MInv, TodoOK, WorkOK
  <2>4. DOMAIN purge.todo = {}
    OBVIOUS
  <2>5. ~clust[k].del
    <3>1. \A c \in Clients : DOMAIN work[c].todo = {}
      BY <2>3
    <3> QED
      BY <2>1, <2>2, <2>4, <3>1 DEF MarkedOwed
  <2>6. ~BusyWith(k)
    BY DEF BusyWith, Busy
  <2>7. ASSUME NEW v \in Vals
        PROVE  sec[k][v] = IF RowOf(clust[k]) = v THEN "live" ELSE "none"
    <3>1. RowOf(clust[k]) = v => sec[k][v] = "live"
      BY <2>1, <2>6 DEF LiveIsRow, Live
    <3>2. RowOf(clust[k]) # v => sec[k][v] = "none"
      BY <2>1, <2>2, <2>4 DEF EntriesOwed
    <3> QED
      BY <3>1, <3>2
  <2>8. RowOf(clust[k]) = clust[k].val /\ (clust[k] = NoRec => clust[k].val = 0) /\ 0 \notin Vals
    BY <2>5, RowAssumption DEF RowOf, NoRec
  <2> QED
    BY <2>5, <2>7, <2>8
<1> QED
  BY <1>1, MvccGarbageInvariant, PTL
=============================================================================
