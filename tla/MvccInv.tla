------------------------------ MODULE MvccInv ------------------------------
(***************************************************************************)
(* The inductive invariant of Mvcc.  Every part of it speaks of one record *)
(* of an index or of an undo log, never of a whole chain of versions:      *)
(* RowsShow says of each link of a chain that passes from what a view does *)
(* not see to what it sees that it arrives at the right row.               *)
(***************************************************************************)
EXTENDS Mvcc

Types == {"insert", "upd_exist", "del_mark", "upd_del"}

\* Operations of a client's list of work that change the secondary index,
\* and the ones that change the clustered index.
SecOps == {"mark", "insert", "remove", "mark_or_remove", "unmark"}

ClustOps == {"restore", "drop"}

RowOp == [op: SecOps \cup ClustOps \cup {"drop_marked", "pop"}, key: Keys, val: Vals \cup {0}]

Work == [todo: Seq(RowOp), rolling: BOOLEAN, upd: BOOLEAN, locks: SUBSET Keys]

UndoRec == [type: Types, key: Keys, old: Record]

Rows == [Keys -> Vals \cup {0}]

TypesOK ==
    /\ undo \in [TrxIds -> Seq(UndoRec)]
    /\ clust \in [Keys -> Record]
    /\ work \in [Clients -> Work]
    /\ sec \in [Keys -> [Vals -> {"none", "live", "marked"}]]
    /\ max_trx_id \in 0 .. MaxTrxId
    /\ stopped \in BOOLEAN
    /\ committed \in Rows
    /\ snap \in [Clients -> Rows]

\* The bound on undo records.
UndoBounded ==
    /\ \A id \in TrxIds : Len(undo[id]) <= MaxUndo
    /\ Cardinality(UndoRecs) <= MaxUndo

-----------------------------------------------------------------------------
(* Records and their roll pointers.                                        *)

\* A version of the row of key k: its roll pointer leads to the undo record
\* that its transaction wrote when it made the version.  Only the pointer
\* of an insert may dangle, once the transaction has ended.
VersionOK(r, k) ==
    r.trx_id # 0 =>
        /\ r.roll.trx = r.trx_id
        /\ r.trx_id < m_max_trx_id
        /\ r.roll.ins => ~r.del
        /\ ~r.roll.ins \/ r.trx_id \in ActiveIds =>
               /\ r.roll.n \in DOMAIN undo[r.trx_id]
               /\ undo[r.trx_id][r.roll.n].key = k
               /\ undo[r.trx_id][r.roll.n].type = "insert" <=> r.roll.ins
               /\ undo[r.trx_id][r.roll.n].type = "del_mark" <=> r.del

\* What an undo record of transaction id holds.  A version of an active
\* transaction is overwritten by that transaction only.
UndoRecOK(id, n, u) ==
    /\ id < m_max_trx_id
    /\ u.type = "insert" <=> u.old = NoRec
    /\ u.type = "upd_del" <=> u.old.del
    /\ VersionOK(u.old, u.key)
    /\ u.old.trx_id \in ActiveIds => u.old.trx_id = id /\ u.old.roll.n < n

VersionsOK ==
    /\ \A k \in Keys : VersionOK(clust[k], k)
    /\ \A id \in TrxIds : \A n \in DOMAIN undo[id] : UndoRecOK(id, n, undo[id][n])

\* How many undo records a version has below it.
DepthOf(d, r) == IF r.roll.ins THEN 0 ELSE d[r.roll.trx][r.roll.n]

\* The chains of versions have no cycle.
Acyclic ==
    \E d \in [TrxIds -> [Nat -> Nat]] :
        \A id \in TrxIds : \A n \in DOMAIN undo[id] : d[id][n] = 1 + DepthOf(d, undo[id][n].old)

-----------------------------------------------------------------------------
(* What versions show.                                                     *)

RowOf(r) == IF r.del THEN 0 ELSE r.val

\* With the changes of hidden transactions taken away, the record shows the
\* row: at once, or because nothing is below a hidden insert.
RecShows(hidden, r, row) ==
    IF r.trx_id \in hidden THEN r.roll.ins => row = 0 ELSE RowOf(r) = row

\* The records of the clustered index do, and what a hidden transaction has
\* overwritten does.
RowsShow(hidden, f) ==
    /\ \A k \in Keys : RecShows(hidden, clust[k], f[k])
    /\ \A id \in hidden : \A n \in DOMAIN undo[id] :
           undo[id][n].type # "insert" => RecShows(hidden, undo[id][n].old, f[undo[id][n].key])

\* What is not the committed state for the creator of a view, its own
\* changes included.
Hidden(v) == {id \in TrxIds : ~Sees(v, id) \/ id = v.creator}

CommittedShown == RowsShow(ActiveIds, committed)

SnapsShown ==
    \A c \in Clients : \A i \in DOMAIN m_view_list :
        IsActive(c) /\ m_view_list[i].creator = trx[c].id => RowsShow(Hidden(m_view_list[i]), snap[c])

\* A view sees what its creator does.
SeesOwn == \A i \in DOMAIN m_view_list : m_view_list[i].creator \notin m_view_list[i].trx_ids

-----------------------------------------------------------------------------
(* Clients at work.                                                        *)

\* A transaction that has its number is done with its undo log.
NumberedDone ==
    \A c \in Clients : IsActive(c) /\ trx[c].no # LsnMax =>
        work[c].todo = << >> /\ work[c].upd /\ (work[c].rolling => undo[trx[c].id] = << >>)

\* What a transaction has updated it has locked, and nobody else changes it.
LocksOK ==
    \A c \in Clients : IsActive(c) =>
        /\ \A n \in DOMAIN undo[trx[c].id] :
               undo[trx[c].id][n].type # "insert" =>
                   work[c].upd /\ undo[trx[c].id][n].key \in work[c].locks
        /\ \A d \in Clients : \A k \in Keys :
               IsActive(d) /\ d # c /\ k \in work[c].locks => clust[k].trx_id # trx[d].id

Has(todo, names) == \E i \in DOMAIN todo : todo[i].op \in names

\* The order of the operations of a list of work.
OrderOK(todo) ==
    \A i, j \in DOMAIN todo : i < j =>
        /\ todo[i].op \in ClustOps => todo[j].op \in {"drop_marked", "pop"}
        /\ todo[i].op = "drop_marked" => todo[j].op = "pop"
        /\ todo[i].op # "pop"

\* The version of the clustered index that the top undo record is about.
IsTop(c) ==
    /\ clust[Top(c).key].trx_id = trx[c].id
    /\ clust[Top(c).key].roll.n = Len(undo[trx[c].id])

\* A list of work that undoes the top record of the undo log.
UndoingOK(c, todo) ==
    /\ undo[trx[c].id] # << >>
    /\ \A i \in DOMAIN todo : todo[i].key = Top(c).key
    /\ Has(todo, {"restore"}) => Top(c).type # "insert"
    /\ Has(todo, {"drop"}) => Top(c).type = "insert"
    /\ Has(todo, {"drop_marked"}) => Top(c).type = "upd_del"
    /\ Has(todo, ClustOps) <=> IsTop(c)
    /\ Has(todo, {"drop_marked"}) /\ ~Has(todo, ClustOps) => clust[Top(c).key] \in {Top(c).old, NoRec}

\* What a client has yet to do.
WorkOK(c) ==
    work[c].todo # << >> =>
        /\ IsActive(c)
        /\ \A i \in DOMAIN work[c].todo :
               LET o == work[c].todo[i]
               IN  /\ o.op \in {"mark", "insert"} <=> ~work[c].rolling
                   /\ o.op \in SecOps => o.val \in Vals
        /\ OrderOK(work[c].todo)
        /\ work[c].rolling => UndoingOK(c, work[c].todo)

TodoOK == \A c \in Clients : WorkOK(c)

-----------------------------------------------------------------------------
(* Purge.                                                                  *)

Job == [op: {"sec", "clust"}, key: Keys, val: Vals, roll: Pointers]

\* The purge view sees the transaction of the record that is purged, which
\* is a delete marking if the row may have to go.
JobOK(o) ==
    /\ o.roll.ins = FALSE
    /\ Sees(m_view, o.roll.trx)
    /\ o.roll.n \in DOMAIN undo[o.roll.trx]
    /\ undo[o.roll.trx][o.roll.n].key = o.key
    /\ o.op = "clust" => undo[o.roll.trx][o.roll.n].type = "del_mark"

\* A position of purge: a record of the log that is not an insert, and the
\* number of the log.
AtRec(p) ==
    /\ p.rec \in 0 .. MaxUndo
    /\ p.stored => p.trx_no = history[p.log].no
    /\ p.stored /\ p.rec # 0 =>
           /\ p.rec \in DOMAIN undo[history[p.log].id]
           /\ undo[history[p.log].id][p.rec].type # "insert"

PurgeOK ==
    /\ purge.todo \in Seq(Job)
    /\ purge.todo # << >> => purge.on
    /\ \A i \in DOMAIN purge.todo : JobOK(purge.todo[i])
    /\ AtRec(purge)

-----------------------------------------------------------------------------
MInv ==
    /\ TypesOK /\ UndoBounded
    /\ VersionsOK /\ Acyclic
    /\ CommittedShown /\ SnapsShown /\ SeesOwn
    /\ NumberedDone /\ LocksOK /\ TodoOK
    /\ PurgeOK
-----------------------------------------------------------------------------
(* The secondary index, as long as the process runs.                       *)

\* What the purge view does not see.
Unpurged == {id \in TrxIds : ~Sees(m_view, id)}

\* A view is that of an active transaction, and its only one.
ViewsOwned ==
    \A i, j \in DOMAIN m_view_list :
        /\ m_view_list[i].creator \in ActiveIds
        /\ m_view_list[i].creator = m_view_list[j].creator => i = j

\* What a view sees of others.
SeesOthers(v, id) == Sees(v, id) /\ id # v.creator

\* With a version a view sees what the version has replaced.
ChainSeen(v) ==
    \A id \in TrxIds : \A n \in DOMAIN undo[id] :
        undo[id][n].old.trx_id # 0 /\ SeesOthers(v, id) => SeesOthers(v, undo[id][n].old.trx_id)

ChainsSeen == \A v \in Views \cup {m_view} : ChainSeen(v)

\* The top record of a transaction that rolls back has been undone, and is
\* still to be taken from the log.
Reverted(id, n) ==
    \E c \in Clients : /\ IsActive(c) /\ trx[c].id = id /\ n = Len(undo[id])
                       /\ work[c].rolling /\ work[c].todo # << >> /\ ~IsTop(c)

PointerTo(id, n) == [trx |-> id, n |-> n, ins |-> undo[id][n].type = "insert"]

\* The version before undo record n of transaction id, and with it the
\* record itself, belongs to a version p leads from.
Leads(p, id, n) == undo[id][n].old.roll = p /\ ~Reverted(id, n)

\* Undo records that purge must leave alone are reached from the clustered
\* index, over others of that kind.
Linked ==
    \A id \in Unpurged : \A n \in DOMAIN undo[id] :
        (undo[id][n].type # "insert" \/ id \in ActiveIds) /\ ~Reverted(id, n) =>
            \/ clust[undo[id][n].key].roll = PointerTo(id, n)
            \/ \E i \in Unpurged : \E m \in DOMAIN undo[i] :
                   Leads(PointerTo(id, n), i, m) /\ undo[i][m].key = undo[id][n].key

Live(k, v) == sec[k][v] = "live"

\* Old versions that purge must leave alone have their entries.
OldPresent ==
    \A id \in Unpurged : \A n \in DOMAIN undo[id] :
        RowOf(undo[id][n].old) # 0 /\ ~Reverted(id, n) =>
            sec[undo[id][n].key][undo[id][n].old.val] # "none"

\* The last change of a transaction is not complete in the secondary index,
\* or is being undone.
Busy(c) ==
    /\ IsActive(c) /\ undo[trx[c].id] # << >>
    /\ IF work[c].rolling THEN IsTop(c) ELSE work[c].todo # << >>

BusyWith(k) == \E c \in Clients : Busy(c) /\ Top(c).key = k

OldRowOf(c) == RowOf(Top(c).old)
NewRow(c) == RowOf(clust[Top(c).key])

HasOp(todo, name, v) == \E i \in DOMAIN todo : todo[i].op = name /\ todo[i].val = v

\* A change that goes on: the entries that are live are to be marked.
DoingOK(c) ==
    /\ IsTop(c)
    /\ \A i \in DOMAIN work[c].todo :
           LET o == work[c].todo[i]
           IN  /\ o.key = Top(c).key
               /\ o.op = "mark" => o.val = OldRowOf(c)
               /\ o.op = "insert" => o.val = NewRow(c)
    /\ NewRow(c) # 0 => Has(work[c].todo, {"insert"})
    /\ \A i, j \in DOMAIN work[c].todo : i < j => work[c].todo[i].op = "mark" /\ work[c].todo[j].op = "insert"
    /\ \A v \in Vals : Live(Top(c).key, v) <=> HasOp(work[c].todo, "mark", v)

\* A change that is undone: first its new entry goes, then the old one
\* comes back.
BackOK(c) ==
    /\ \A i \in DOMAIN work[c].todo :
           LET o == work[c].todo[i]
           IN  /\ o.op \in {"remove", "mark_or_remove"} => o.val = NewRow(c)
               /\ o.op = "remove" => Top(c).type = "insert"
               /\ o.op = "unmark" => o.val = OldRowOf(c)
               /\ \A j \in DOMAIN work[c].todo : i < j /\ o.op = "unmark" =>
                      work[c].todo[j].op \notin {"remove", "mark_or_remove"}
    /\ \A v \in Vals : Live(Top(c).key, v) => v \in {OldRowOf(c), NewRow(c)}
    /\ work[c].todo # << >> =>
           /\ NewRow(c) # 0 /\ ~Has(work[c].todo, {"remove", "mark_or_remove"}) =>
                  sec[Top(c).key][NewRow(c)] = "none"
           /\ OldRowOf(c) # 0 /\ ~Has(work[c].todo, {"unmark"}) => Live(Top(c).key, OldRowOf(c))

\* A rollback changes the secondary index before the clustered one.
AtWorkOK(c) ==
    /\ Busy(c) => IF work[c].rolling THEN BackOK(c) ELSE DoingOK(c)
    /\ work[c].rolling /\ Has(work[c].todo, SecOps) => IsTop(c)
    /\ work[c].rolling /\ work[c].todo # << >> => Has(work[c].todo, {"pop"})
    /\ work[c].todo # << >> => undo[trx[c].id] # << >>

BusyOK == \A c \in Clients : AtWorkOK(c)

\* Else the live entry of a key is the one of its row.
LiveIsRow == \A k \in Keys : ~BusyWith(k) => \A v \in Vals : Live(k, v) <=> RowOf(clust[k]) = v

\* A version of a transaction above PAGE_MAX_TRX_ID is the first one of its
\* transaction, and the secondary index is still that of the one before.
MaxTrxOK ==
    /\ \A id \in TrxIds : \A n \in DOMAIN undo[id] : undo[id][n].old.trx_id <= max_trx_id
    /\ \A k \in Keys : clust[k].trx_id > max_trx_id =>
           \E c \in Clients : /\ Busy(c) /\ Top(c).key = k
                              /\ \A v \in Vals : Live(k, v) <=> OldRowOf(c) = v

\* The secondary index is that of the rows, but for the changes that clients
\* are at.
SInv ==
    ~stopped =>
        /\ ViewsOwned /\ ChainsSeen /\ Linked /\ OldPresent
        /\ BusyOK /\ LiveIsRow /\ MaxTrxOK

-----------------------------------------------------------------------------
(* What purge has yet to remove, as long as the process runs.              *)

\* Undo records of versions that leave something to remove.
Leaving == {"upd_exist", "del_mark"}

\* Purge has yet to come to undo record n of transaction id: its log is not
\* in the history list yet, or purge's position is not behind it.
Pending(id, n) ==
    \/ \E c \in Clients : IsActive(c) /\ trx[c].id = id /\ trx[c].no = LsnMax
    \/ \E i \in DOMAIN history :
           /\ history[i].id = id /\ rseg_last # 0 /\ rseg_last <= i
           /\ rseg_last = i /\ purge.stored => purge.rec # 0 /\ purge.rec <= n

\* A stored position is in the next log to purge.
AtLastLog == purge.stored => purge.log = rseg_last /\ rseg_last # 0

\* What purge has come to its view sees.
PurgedSeen ==
    \A id \in Unpurged : \A n \in DOMAIN undo[id] :
        undo[id][n].type \in Leaving => Pending(id, n)

\* A delete-marked record that an insert has used again is looked at once
\* more when the insert has been undone.
DropFollows ==
    \A c \in Clients :
        work[c].rolling /\ Has(work[c].todo, {"restore"}) /\ Top(c).type = "upd_del" =>
            Has(work[c].todo, {"drop_marked"})

\* A delete-marked record is left to purge or to a rollback.
MarkedOwed ==
    \A k \in Keys : clust[k].del =>
        \/ Pending(clust[k].trx_id, clust[k].roll.n)
        \/ \E i \in DOMAIN purge.todo : purge.todo[i].op = "clust" /\ purge.todo[i].roll = clust[k].roll
        \/ \E c \in Clients : \E i \in DOMAIN work[c].todo :
               work[c].todo[i].op = "drop_marked" /\ work[c].todo[i].key = k

\* An entry that is not the one of the row is left to purge.
EntriesOwed ==
    \A k \in Keys, v \in Vals : sec[k][v] # "none" /\ RowOf(clust[k]) # v =>
        \/ \E id \in TrxIds : \E n \in DOMAIN undo[id] :
               /\ undo[id][n].key = k /\ RowOf(undo[id][n].old) = v
               /\ ~Reverted(id, n) /\ Pending(id, n)
        \/ \E i \in DOMAIN purge.todo :
               purge.todo[i].op = "sec" /\ purge.todo[i].key = k /\ purge.todo[i].val = v

GInv == ~stopped => AtLastLog /\ PurgedSeen /\ DropFollows /\ MarkedOwed /\ EntriesOwed
=============================================================================
