-------------------------------- MODULE Mvcc --------------------------------
(***************************************************************************)
(* Multi-version rows: a table with a clustered index and one secondary    *)
(* index, written by transactions (row0ins.cc, row0upd.cc), rolled back    *)
(* (row0undo.cc), purged (trx0purge.cc, row0purge.cc) and read through     *)
(* read views (row0vers.cc, row0sel.cc), over the transactions and views   *)
(* of ReadView.                                                            *)
(*                                                                         *)
(* A row is a key and one indexed column.  Every action is one             *)
(* mini-transaction, which holds the latches of the pages it works on, or  *)
(* one critical section of a mutex; a row operation changes the clustered  *)
(* index first and each secondary entry in a later mini-transaction, and   *)
(* everything else may happen in between.  What a consistent read returns  *)
(* is an operator of the state: the reader holds the page latches and the  *)
(* purge latch while it builds the version.                                *)
(***************************************************************************)
EXTENDS ReadView

CONSTANTS
    Keys,           \* primary keys
    InitialVal,     \* the value of the rows at the start
    Vals,           \* values of the indexed column, positive numbers
    HandleLimit,    \* undo log pages of a purge batch (20)
    MaxUndo         \* bound: undo records that exist at a time

ASSUME RowAssumption ==
    /\ Vals \subseteq Nat \ {0}
    /\ InitialVal \in Vals
    /\ HandleLimit \in Nat \ {0}
    /\ MaxUndo \in Nat \ {0}

VARIABLES
    clust,          \* the clustered index: the record of each key
    sec,            \* the secondary index: the entry of each key and value
    max_trx_id,     \* PAGE_MAX_TRX_ID of the secondary index page
    undo,           \* the undo log records of each transaction id
    work,           \* what each client's transaction is doing
    rseg_last,      \* the next log to purge, a position of history, 0: none
    purge,          \* the purge thread
    stopped,        \* the process has failed an assertion
    committed,      \* ghost: the committed rows
    snap            \* ghost: the committed rows when the view was opened

rows == <<clust, sec, max_trx_id>>
ghosts == <<committed, snap>>
vars == <<rvars, rows, undo, work, rseg_last, purge, stopped, ghosts>>

\* A roll pointer: the undo record (its transaction and number), and the
\* insert flag.
Pointers == [trx: TrxIds, n: 1 .. MaxUndo, ins: BOOLEAN]

\* No record, and the answer DB_MISSING_HISTORY.
NoRec == [trx_id |-> 0, roll |-> [trx |-> 0, n |-> 0, ins |-> TRUE], del |-> FALSE, val |-> 0]
Missing == [NoRec EXCEPT !.val = -1]

\* A row that an earlier transaction has inserted.
OldRow == [NoRec EXCEPT !.val = InitialVal]

Record == [trx_id: TrxIds, roll: Pointers, del: BOOLEAN, val: Vals] \cup {NoRec, OldRow}

Idle == [todo |-> << >>, rolling |-> FALSE, upd |-> FALSE, locks |-> {}]

Op(name, k, v) == [op |-> name, key |-> k, val |-> v]

Updating == {"upd_exist", "del_mark", "upd_del"}

-----------------------------------------------------------------------------
(* Versions of a record and consistent reads.                              *)

\* The undo record of the previous version may be used: the purge view
\* does not see the transaction that made this one.
update_undo_must_exist(id) == ~read_view_sees_trx_id(m_view, id)

OldRec(roll) == undo[roll.trx][roll.n].old

\* trx_undo_prev_version_build.
PrevVersion(rec) ==
    IF rec.roll.ins THEN NoRec
    ELSE IF ~update_undo_must_exist(rec.trx_id) THEN Missing
    ELSE OldRec(rec.roll)

\* (Mutant: the first earlier version is returned, visible or not.)
build_for_consistent_read_once(view, rec) == PrevVersion(rec)

\* The loop over earlier versions: v[n] is the version after n rounds.  No
\* version has more earlier ones than there are undo records, and the one
\* that no record and the answer stand for is seen by every view.
build_for_consistent_read(view, rec) ==
    LET v[n \in 0 .. MaxUndo + 1] ==
            IF n = 0 THEN rec
            ELSE IF read_view_sees_trx_id(view, v[n - 1].trx_id) THEN v[n - 1]
            ELSE PrevVersion(v[n - 1])
    IN  v[MaxUndo + 1]

\* The version of the record of key k that the view sees.
VersionSeen(view, k) ==
    IF clust[k] = NoRec \/ read_view_sees_trx_id(view, clust[k].trx_id) THEN clust[k]
    ELSE build_for_consistent_read(view, clust[k])

\* A read of the clustered index: the value found, 0 if no row, -1 for an
\* error.
ClustRead(view, k) == IF VersionSeen(view, k).del THEN 0 ELSE VersionSeen(view, k).val

\* (Mutant: a secondary entry leads to the row whatever its version says.)
SecRead_unchecked(view, k, v) ==
    IF max_trx_id < view.up_limit_id THEN sec[k][v] = "live"
    ELSE sec[k][v] # "none" /\ ClustRead(view, k) # 0

\* A read of the secondary index finds the entry of k and v.  Without the
\* clustered index when no recent transaction has changed the page, else
\* through it: then an old version, or any version found from a
\* delete-marked entry, must have the value of the entry.
SecRead(view, k, v) ==
    IF max_trx_id < view.up_limit_id THEN sec[k][v] = "live"
    ELSE /\ sec[k][v] # "none"
         /\ ClustRead(view, k) # 0
         /\ (VersionSeen(view, k) # clust[k] \/ sec[k][v] = "marked") => ClustRead(view, k) = v

\* The roll pointers that lead to an undo record.
UndoPointers == {p \in Pointers : p.n \in DOMAIN undo[p.trx]}

\* Does an earlier version that cannot be purged yet, or the current one,
\* need the entry of value v?
old_has_index_entry(also_curr, k, v) ==
    LET needs(rec) == ~rec.del /\ rec.val = v
        more(rec) == ~rec.roll.ins /\ update_undo_must_exist(rec.trx_id)
        old[p \in UndoPointers] == needs(OldRec(p)) \/ (more(OldRec(p)) /\ old[OldRec(p).roll])
    IN  \/ also_curr /\ needs(clust[k])
        \/ more(clust[k]) /\ old[clust[k].roll]

-----------------------------------------------------------------------------
(* Row operations.  The lock manager, modelled in LockSys, keeps others    *)
(* from a row that a transaction has changed until it has ended.           *)

UndoRecs == UNION {{<<id, n>> : n \in DOMAIN undo[id]} : id \in TrxIds}

CanWrite(c, k) ==
    /\ IsActive(c) /\ trx[c].no = LsnMax
    /\ ~work[c].rolling /\ work[c].todo = << >>
    /\ Cardinality(UndoRecs) < MaxUndo
    /\ \A d \in Clients \ {c} : IsActive(d) => k \notin work[d].locks /\ clust[k].trx_id # trx[d].id

\* trx_undo_report_row_operation, and the new version of the record.
Write(c, k, type, del, val, todo) ==
    LET id == trx[c].id
        n == Len(undo[id]) + 1
        ins == type = "insert"
    IN  /\ undo' = [undo EXCEPT ![id] = Append(@, [type |-> type, key |-> k, old |-> clust[k]])]
        /\ clust' = [clust EXCEPT ![k] = [trx_id |-> id, del |-> del, val |-> val,
                                          roll |-> [trx |-> id, n |-> n, ins |-> ins]]]
        /\ work' = [work EXCEPT ![c].todo = todo, ![c].upd = @ \/ ~ins,
                                ![c].locks = IF ins THEN @ ELSE @ \cup {k}]
        /\ UNCHANGED <<rvars, sec, max_trx_id, rseg_last, purge, stopped, ghosts>>

\* An insert into the clustered index; a delete-marked record of the same
\* key is updated instead.
InsertRow(c, k, v) ==
    /\ CanWrite(c, k)
    /\ \/ clust[k] = NoRec /\ Write(c, k, "insert", FALSE, v, <<Op("insert", k, v)>>)
       \/ clust[k].del /\ Write(c, k, "upd_del", FALSE, v, <<Op("insert", k, v)>>)

UpdateRow(c, k, v) ==
    /\ CanWrite(c, k)
    /\ clust[k] # NoRec /\ ~clust[k].del /\ clust[k].val # v
    /\ Write(c, k, "upd_exist", FALSE, v, <<Op("mark", k, clust[k].val), Op("insert", k, v)>>)

DeleteRow(c, k) ==
    /\ CanWrite(c, k)
    /\ clust[k] # NoRec /\ ~clust[k].del
    /\ Write(c, k, "del_mark", TRUE, clust[k].val, <<Op("mark", k, clust[k].val)>>)

Doing(c, name) == work[c].todo # << >> /\ Head(work[c].todo).op = name

SetSec(c, o, entry) ==
    /\ sec' = [sec EXCEPT ![o.key][o.val] = entry]
    /\ work' = [work EXCEPT ![c].todo = Tail(@)]
    /\ UNCHANGED <<rvars, clust, undo, rseg_last, purge, ghosts>>

page_update_max_trx_id(id) == max_trx_id' = IF max_trx_id < id THEN id ELSE max_trx_id

\* The old entry is delete-marked; if it is missing only an error is logged.
SecMark(c) ==
    /\ Doing(c, "mark")
    /\ LET o == Head(work[c].todo)
       IN  IF sec[o.key][o.val] = "live"
           THEN SetSec(c, o, "marked") /\ page_update_max_trx_id(trx[c].id)
           ELSE SetSec(c, o, sec[o.key][o.val]) /\ UNCHANGED max_trx_id
    /\ UNCHANGED stopped

\* The new entry is inserted, or an entry that is there already is updated
\* to it.
SecInsert(c) ==
    /\ Doing(c, "insert")
    /\ SetSec(c, Head(work[c].todo), "live")
    /\ page_update_max_trx_id(trx[c].id)
    /\ UNCHANGED stopped

-----------------------------------------------------------------------------
(* Rollback.  It may start in the middle of a row operation, when a        *)
(* secondary entry could not be locked.  A transaction without undo        *)
(* records rolls back as it commits.                                       *)

StartRollback(c) ==
    /\ IsActive(c) /\ trx[c].no = LsnMax /\ ~work[c].rolling /\ undo[trx[c].id] # << >>
    /\ work' = [work EXCEPT ![c].rolling = TRUE, ![c].todo = << >>]
    /\ UNCHANGED <<rvars, rows, undo, rseg_last, purge, stopped, ghosts>>

Top(c) == undo[trx[c].id][Len(undo[trx[c].id])]

\* The mini-transactions that undo a record: the secondary entries first.
UndoOps(rec, k, old) ==
    CASE rec = "insert" -> <<Op("remove", k, clust[k].val), Op("drop", k, 0)>>
      [] rec = "upd_exist" -> <<Op("mark_or_remove", k, clust[k].val), Op("unmark", k, old.val),
                                Op("restore", k, 0)>>
      [] rec = "del_mark" -> <<Op("unmark", k, old.val), Op("restore", k, 0)>>
      [] rec = "upd_del" -> <<Op("mark_or_remove", k, clust[k].val), Op("restore", k, 0),
                              Op("drop_marked", k, 0)>>

\* The top record is popped; it has been undone already if the row is not
\* there or has another roll pointer.
UndoNext(c) ==
    /\ IsActive(c) /\ work[c].rolling /\ work[c].todo = << >> /\ undo[trx[c].id] # << >>
    /\ LET id == trx[c].id
           n == Len(undo[id])
           k == Top(c).key
           mine == clust[k] # NoRec /\ clust[k].roll.trx = id /\ clust[k].roll.n = n
       IN  work' = [work EXCEPT ![c].todo =
                        IF mine THEN Append(UndoOps(Top(c).type, k, Top(c).old), Op("pop", k, 0))
                        ELSE <<Op("pop", k, 0)>>]
    /\ UNCHANGED <<rvars, rows, undo, rseg_last, purge, stopped, ghosts>>

\* remove_secondary_index_entry: the entry of an undone insert.
UndoSecRemove(c) ==
    /\ Doing(c, "remove")
    /\ SetSec(c, Head(work[c].todo), "none")
    /\ UNCHANGED <<max_trx_id, stopped>>

\* delete_mark_or_remove_secondary_index_entry: if the entry is there the
\* code restores the position of the local cursor, which has never been
\* stored, and restore_position stops the process.
UndoSecMarkOrRemove(c) ==
    /\ Doing(c, "mark_or_remove")
    /\ LET o == Head(work[c].todo)
       IN  /\ SetSec(c, o, sec[o.key][o.val])
           /\ stopped' = (sec[o.key][o.val] # "none")
    /\ UNCHANGED max_trx_id

\* del_unmark_secondary_index_and_undo_update: a missing entry is a fatal
\* error of the rollback.
UndoSecUnmark(c) ==
    /\ Doing(c, "unmark")
    /\ LET o == Head(work[c].todo)
       IN  IF sec[o.key][o.val] = "none"
           THEN SetSec(c, o, "none") /\ stopped' = TRUE
           ELSE SetSec(c, o, "live") /\ UNCHANGED stopped
    /\ UNCHANGED max_trx_id

SetClust(c, k, rec) ==
    /\ clust' = [clust EXCEPT ![k] = rec]
    /\ work' = [work EXCEPT ![c].todo = Tail(@)]
    /\ UNCHANGED <<rvars, sec, max_trx_id, undo, rseg_last, purge, stopped, ghosts>>

\* (Mutant: the roll pointer is left as it is.)
UndoRestore_pointer(c) ==
    /\ Doing(c, "restore")
    /\ LET k == Head(work[c].todo).key
       IN  SetClust(c, k, [Top(c).old EXCEPT !.roll = clust[k].roll])

\* undo_clustered_index_modification: the old version comes back, its
\* system columns too.
UndoRestore(c) ==
    /\ Doing(c, "restore")
    /\ SetClust(c, Head(work[c].todo).key, Top(c).old)

\* remove_cluster_rec.
UndoDrop(c) ==
    /\ Doing(c, "drop")
    /\ SetClust(c, Head(work[c].todo).key, NoRec)

\* remove_clustered_index_record_low: the restored record is delete-marked,
\* and purge may have passed it; it is removed if it need not be preserved.
UndoDropMarked(c) ==
    /\ Doing(c, "drop_marked")
    /\ LET k == Head(work[c].todo).key
           gone == clust[k] = NoRec \/ ~update_undo_must_exist(Top(c).old.trx_id)
       IN  SetClust(c, k, IF gone THEN NoRec ELSE clust[k])

UndoPop(c) ==
    /\ Doing(c, "pop")
    /\ undo' = [undo EXCEPT ![trx[c].id] = SubSeq(@, 1, Len(@) - 1)]
    /\ work' = [work EXCEPT ![c].todo = << >>]
    /\ UNCHANGED <<rvars, rows, rseg_last, purge, stopped, ghosts>>

-----------------------------------------------------------------------------
(* The life of a transaction.                                              *)

Begin(c) ==
    /\ start_low(c)
    /\ work' = [work EXCEPT ![c] = Idle]
    /\ UNCHANGED <<rows, undo, rseg_last, purge, stopped, ghosts>>

OpenView(c) ==
    /\ ~work[c].rolling /\ work[c].todo = << >>
    /\ assign_read_view(c)
    /\ snap' = [snap EXCEPT ![c] = committed]
    /\ UNCHANGED <<rows, undo, work, rseg_last, purge, stopped, committed>>

Ending(c) == work[c].todo = << >> /\ (work[c].rolling => undo[trx[c].id] = << >>)

\* A rolled back transaction puts its update undo log, now empty, to
\* the history list, too.
NumberTrx(c) ==
    /\ Ending(c) /\ work[c].upd
    /\ CommitNumber(c)
    /\ rseg_last' = IF rseg_last = 0 THEN Len(history') ELSE rseg_last
    /\ UNCHANGED <<rows, undo, work, purge, stopped, ghosts>>

\* The insert undo log is freed, the update undo log is left to purge.
EndTrx(c) ==
    /\ Ending(c) /\ (work[c].upd => trx[c].no # LsnMax)
    /\ CommitInMemory(c)
    /\ work' = [work EXCEPT ![c] = Idle]
    /\ committed' = [k \in Keys |->
                        IF clust[k].trx_id # trx[c].id THEN committed[k]
                        ELSE IF clust[k].del THEN 0 ELSE clust[k].val]
    /\ snap' = [snap EXCEPT ![c] = [k \in Keys |-> 0]]
    /\ undo' = [undo EXCEPT ![trx[c].id] = IF work[c].upd THEN @ ELSE << >>]
    /\ UNCHANGED <<rows, rseg_last, purge, stopped>>

-----------------------------------------------------------------------------
(* Purge: one thread.                                                      *)

LogRecs(id, types) == {n \in DOMAIN undo[id] : undo[id][n].type \in types}

\* The oldest log with a record to handle; a log without records gives the
\* dummy record, 0.
choose_next_log(p, last) ==
    IF last = 0 THEN [p EXCEPT !.stored = FALSE]
    ELSE [p EXCEPT !.stored = TRUE, !.log = last, !.trx_no = history[last].no,
                   !.rec = MinOr(LogRecs(history[last].id, Updating), 0)]

\* (Mutant: after the first record only delete markings are looked for.)
NextRec_del_mark(p) ==
    MinOr({n \in LogRecs(history[p.log].id, {"del_mark"}) : n > p.rec}, 0)

NextRec(p) ==
    MinOr({n \in LogRecs(history[p.log].id, {"upd_exist", "del_mark"}) : n > p.rec}, 0)

NextLog(last) == IF last = Len(history) THEN 0 ELSE last + 1

\* What the row purge node does with undo record n of transaction id.
PurgeOps(id, n) ==
    LET rec == undo[id][n]
        job(name) == [op |-> name, key |-> rec.key, val |-> rec.old.val,
                      roll |-> [trx |-> id, n |-> n, ins |-> FALSE]]
    IN  CASE rec.type = "del_mark" -> <<job("sec"), job("clust")>>
          [] rec.type = "upd_exist" -> <<job("sec")>>
          [] OTHER -> << >>

\* A difference of 64-bit numbers.
Unsigned(x) == x % (2 * IntMax + 2)

\* The logs of the history list from the oldest one that is not below the
\* limit on: the difference is unsigned, so the oldest one is never below.
truncate_rseg_history(limit) ==
    LET kept == {i \in DOMAIN history : Unsigned(history[i].no - limit) >= 0}
    IN  SubSeq(history, MinOr(kept, Len(history) + 1), Len(history))

\* The limit of a truncation: where purge is, at most where its view ends.
TruncateLimit(p) == IF p.trx_no >= m_view.low_limit_no THEN m_view.low_limit_no ELSE p.trx_no

\* Purge_sys::run starts a batch with a new view.
RunPurge ==
    /\ ~purge.on
    /\ RenewPurgeView
    /\ purge' = [purge EXCEPT !.on = TRUE]
    /\ UNCHANGED <<rows, undo, work, rseg_last, stopped, ghosts>>

Fetchable == IF purge.stored THEN purge ELSE choose_next_log(purge, rseg_last)

CanFetch(p) == p.stored /\ p.handled < HandleLimit /\ p.trx_no < m_view.low_limit_no

\* fetch_next_rec takes a record, and moves on to the next record or log.
FetchRec ==
    /\ purge.on /\ purge.todo = << >> /\ CanFetch(Fetchable)
    /\ LET p == Fetchable
           log == history[p.log]
           next == IF p.rec = 0 THEN 0 ELSE NextRec(p)
           last == NextLog(rseg_last)
           ops == IF p.rec = 0 THEN << >> ELSE PurgeOps(log.id, p.rec)
       IN  IF next # 0
           THEN /\ purge' = [p EXCEPT !.rec = next, !.todo = ops]
                /\ UNCHANGED rseg_last
           ELSE /\ rseg_last' = last
                /\ purge' = choose_next_log(
                       [p EXCEPT !.trx_no = log.no + 1, !.handled = @ + 1, !.todo = ops],
                       last)
    /\ UNCHANGED <<rvars, rows, undo, work, stopped, ghosts>>

\* fetch_next_rec ends the batch and truncates the history list.
EndPurge ==
    /\ purge.on /\ purge.todo = << >> /\ ~CanFetch(Fetchable)
    /\ LET p == Fetchable
           left == truncate_rseg_history(TruncateLimit(p))
           gone == Len(history) - Len(left)
       IN  /\ purge' = [p EXCEPT !.on = FALSE, !.handled = 0, !.log = IF @ > gone THEN @ - gone ELSE 0]
           /\ history' = left
           /\ rseg_last' = IF rseg_last > gone THEN rseg_last - gone ELSE 0
    /\ UNCHANGED <<m_max_trx_id, trx, m_view_list, m_view, rows, undo, work, stopped, ghosts>>

PurgeDoes(name) == purge.todo # << >> /\ Head(purge.todo).op = name

\* row_purge_remove_sec_if_poss: the entry goes unless a version needs it.
PurgeSec ==
    /\ PurgeDoes("sec")
    /\ LET o == Head(purge.todo)
           keep == clust[o.key] # NoRec /\ old_has_index_entry(TRUE, o.key, o.val)
       IN  sec' = [sec EXCEPT ![o.key][o.val] = IF keep THEN @ ELSE "none"]
    /\ purge' = [purge EXCEPT !.todo = Tail(@)]
    /\ UNCHANGED <<rvars, clust, max_trx_id, undo, work, rseg_last, stopped, ghosts>>

\* row_purge_remove_clust_if_poss: the record goes unless someone has
\* changed it after the delete marking, so that its roll pointer differs.
PurgeClust ==
    /\ PurgeDoes("clust")
    /\ LET o == Head(purge.todo)
       IN  clust' = [clust EXCEPT ![o.key] = IF @.roll = o.roll THEN NoRec ELSE @]
    /\ purge' = [purge EXCEPT !.todo = Tail(@)]
    /\ UNCHANGED <<rvars, sec, max_trx_id, undo, work, rseg_last, stopped, ghosts>>

-----------------------------------------------------------------------------
Init ==
    /\ RInit
    /\ clust = [k \in Keys |-> OldRow]
    /\ sec = [k \in Keys |-> [v \in Vals |-> IF v = InitialVal THEN "live" ELSE "none"]]
    /\ max_trx_id = 0
    /\ undo = [id \in TrxIds |-> << >>]
    /\ work = [c \in Clients |-> Idle]
    /\ rseg_last = 0
    /\ purge = [on |-> FALSE, stored |-> FALSE, log |-> 0, rec |-> 0, trx_no |-> 0,
                handled |-> 0, todo |-> << >>]
    /\ stopped = FALSE
    /\ committed = [k \in Keys |-> InitialVal]
    /\ snap = [c \in Clients |-> [k \in Keys |-> 0]]

ClientNext(c) ==
    \/ Begin(c) \/ OpenView(c) \/ NumberTrx(c) \/ EndTrx(c)
    \/ \E k \in Keys, v \in Vals : InsertRow(c, k, v)
    \/ \E k \in Keys, v \in Vals : UpdateRow(c, k, v)
    \/ \E k \in Keys : DeleteRow(c, k)
    \/ SecMark(c) \/ SecInsert(c)
    \/ StartRollback(c) \/ UndoNext(c)
    \/ UndoSecRemove(c) \/ UndoSecMarkOrRemove(c) \/ UndoSecUnmark(c)
    \/ UndoRestore(c) \/ UndoDrop(c) \/ UndoDropMarked(c) \/ UndoPop(c)

Next ==
    /\ ~stopped
    /\ \/ \E c \in Clients : ClientNext(c)
       \/ RunPurge \/ FetchRec \/ EndPurge \/ PurgeSec \/ PurgeClust

Spec == Init /\ [][Next]_vars

-----------------------------------------------------------------------------
(* Properties.                                                             *)

\* Every record has a roll pointer to a record of an undo log, and every
\* other variable its type.
TypeOK ==
    /\ TypeOKR
    /\ clust \in [Keys -> Record]
    /\ \A k \in Keys : LET r == clust[k].roll
                       IN  ~r.ins => /\ r.n \in DOMAIN undo[r.trx]
                                     /\ undo[r.trx][r.n].key = k
    /\ sec \in [Keys -> [Vals -> {"none", "live", "marked"}]]
    /\ max_trx_id \in 0 .. MaxTrxId
    /\ rseg_last \in 0 .. Len(history)
    /\ purge.rec \in 0 .. MaxUndo
    /\ stopped \in BOOLEAN

ReaderView(c) == m_view_list[CHOOSE i \in ViewsOf(trx[c].id) : TRUE]

Readers == {c \in Clients : IsActive(c) /\ HasView(c) /\ ~stopped}

\* What the client of a view should see: its own changes, and else what was
\* committed when the view was opened.
Expected(c, k) ==
    IF clust[k] # NoRec /\ clust[k].trx_id = trx[c].id
    THEN (IF clust[k].del THEN 0 ELSE clust[k].val)
    ELSE snap[c][k]

\* FACT B of read0read.cc: a consistent read of the clustered index sees
\* the rows committed when its view was opened and the changes of its own
\* transaction, whatever others write, roll back or purge; it never meets
\* a missing undo log.
ReadsAreConsistent ==
    \A c \in Readers, k \in Keys : ClustRead(ReaderView(c), k) = Expected(c, k)

\* FACT A of read0read.cc: the same holds for reads through the secondary
\* index, while no change of the reader's own transaction is half done.
SecReadsAreConsistent ==
    \A c \in Readers, k \in Keys, v \in Vals :
        work[c].todo = << >> /\ ~work[c].rolling =>
            (SecRead(ReaderView(c), k, v) <=> Expected(c, k) = v)

\* When all transactions have ended and purge has handled every log, no
\* garbage is left: no delete-marked record, and in the secondary index the
\* entries of the rows and nothing else.
PurgeLeavesNoGarbage ==
    (/\ ~stopped /\ \A c \in Clients : ~IsActive(c)
     /\ ~purge.on /\ rseg_last = 0 /\ purge.todo = << >>) =>
        \A k \in Keys : /\ ~clust[k].del
                        /\ \A v \in Vals :
                               sec[k][v] = IF clust[k] # NoRec /\ clust[k].val = v
                                           THEN "live" ELSE "none"

\* The comment of delete_mark_or_remove_secondary_index_entry: "We should
\* remove the index record if no prior version of the row, which cannot be
\* purged yet, requires its existence. If some requires, we should delete
\* mark the record."  It does one or the other, and rollback goes on.
RollbackGoesOn == ~stopped

-----------------------------------------------------------------------------
(* The inductive invariant by which a step here is a step of ReadView.     *)

PurgeFields == {"on", "stored", "log", "rec", "trx_no", "handled", "todo"}

\* The position of purge is a position of the history list.
PurgePositionOK ==
    /\ purge = [f \in PurgeFields |-> purge[f]]
    /\ purge.log \in Nat
    /\ purge.trx_no \in Nat
    /\ purge.stored => purge.log \in DOMAIN history
    /\ rseg_last \in 0 .. Len(history)
=============================================================================
