------------------------------- MODULE Redo -------------------------------
(***************************************************************************)
(* The redo log, the page flush and crash recovery: log/log0log.cc,        *)
(* mtr/mtr0mtr.cc, buf/buf0flu.cc, buf/buf0dblwr.cc, log/log0recv.cc.      *)
(*                                                                         *)
(* An lsn counts log records: record i takes the lsns from i to i + 1.  A  *)
(* page is the sequence of the records applied to it.  A file is what the  *)
(* operating system holds (and a killed process leaves behind) and what    *)
(* the disk holds (and a power failure leaves behind); fsync makes them    *)
(* equal.  The log mutex is held from one step's start to its end.         *)
(***************************************************************************)
EXTENDS Integers, Sequences, FiniteSets

CONSTANTS Clients,     \* threads that commit mini-transactions
          Pages,
          Faults,      \* what may happen: "kill", "power"
          GarbageLsns, \* what an uninitialized lsn_t may hold
          DblSize,     \* pages the doublewrite buffer holds
          MtrLen,      \* bound of the model: records of a mini-transaction
          MaxLsn,      \* bound of the model: the last lsn
          MaxCrashes   \* bound of the model: crashes.  After the last, or
                       \* the last but one and a lapse, the model recovers
                       \* and starts nothing more

ASSUME FaultsAssumption == Faults \subseteq {"kill", "power"}
ASSUME DblSizeAssumption == DblSize \in Nat \ {0}
ASSUME BoundsAssumption ==
  /\ MtrLen \in Nat /\ MaxLsn \in Nat \ {0} /\ MaxCrashes \in Nat
  /\ GarbageLsns \subseteq Nat

(* The threads beside the clients: one that flushes pages, one that makes
   checkpoints, one that writes the log in the background. *)
Others  == {"flusher", "checkpointer", "background"}
Threads == Clients \cup Others
ASSUME ClientsAssumption == Clients \cap Others = {}

NoPage  == "none"
ASSUME PagesAssumption == NoPage \notin Pages
Clean   == 0           \* m_oldest_modification of a page not modified

(* An image and a checkpoint with a wrong checksum, and the partly filled
   block after the last record. *)
Torn    == [lsn |-> 0, recs |-> <<>>]
BadSlot == [no |-> -1, lsn |-> 0]
EndMark == [page |-> NoPage, last |-> FALSE, inc |-> 0]

(* What may happen in a history that a result does not hold after. *)
Lapses ==
  {"checkpoint",    \* a checkpoint read the flush list while a page that had
                    \* left it was not yet synced to disk
   "early_return",  \* wait_for_pending_ops() left a page write running
   "misread"}       \* recovery took a record for another one

VARIABLES
  log,       \* the records; those not yet written are in log_sys->m_buf
  m_written_to_all_lsn, m_flushed_to_disk_lsn,
  m_write_lsn, m_current_flush_lsn,
  m_n_pending_writes,
  m_next_checkpoint_no, m_next_checkpoint_lsn, m_last_checkpoint_lsn,
  m_n_pending_checkpoint_writes,
  pool,      \* pool[p]: [recs, newest, oldest, io] of the page's block
  m_bpages,  \* the pages posted to the doublewrite buffer
  logfile, logdisk,    \* the log file: records, end marks and old records
  file, disk,          \* the data files: images [lsn, recs] or Torn
  dbl, dbldisk,        \* the doublewrite area: [page, image]
  slots,     \* the two checkpoints of the log file's header
  at,        \* at[t]: where thread t is
  w,         \* w[t]: where in write_up_to()
  arg,       \* arg[t]: its parameters, or the lsn a thread remembers
  phase,     \* "up", or the step of recovery
  crashes,
  acked,     \* history: lsn up to which a commit was acknowledged
  lapses     \* history: what happened that a result does not hold after

logVars  == <<m_written_to_all_lsn, m_flushed_to_disk_lsn, m_write_lsn,
              m_current_flush_lsn, m_n_pending_writes>>
ckptVars == <<m_next_checkpoint_no, m_next_checkpoint_lsn,
              m_last_checkpoint_lsn, m_n_pending_checkpoint_writes>>
fileVars == <<logfile, logdisk, file, disk, dbl, dbldisk, slots>>
threadVars == <<at, w, arg>>
vars == <<log, logVars, ckptVars, pool, m_bpages, fileVars, threadVars,
          phase, crashes, acked, lapses>>

m_lsn == Len(log) + 1

-----------------------------------------------------------------------------
(* The n-th member of a set of numbers. *)
Nth(S, n) == CHOOSE i \in S : Cardinality({j \in S : j <= i}) = n

(* The records of s at the lsns S, in order, each with its lsn. *)
RecordsAt(s, S) ==
  [n \in 1 .. Cardinality(S) |->
     LET i == Nth(S, n) IN <<i, s[i].inc, s[i].page>>]

(* The records of s for page p that start at lsn from or later: to apply them
   is to add them to the page. *)
Records(s, p, from) ==
  RecordsAt(s, {i \in DOMAIN s : i >= from /\ s[i].page = p})

ApplyRecords(recs, todo) == recs \o todo

Block(recs) == [recs |-> recs, newest |-> 0, oldest |-> Clean, io |-> "none"]
Image(lsn, recs) == [lsn |-> lsn, recs |-> recs]
FrameImage(p) == Image(pool[p].newest, pool[p].recs)

Later(l, k) == IF l >= k THEN l ELSE k

NoCall == [lsn |-> 0, flush |-> FALSE, wait |-> FALSE]

(* A database that was created and checkpointed twice (recv_reset_logs). *)
Init ==
  /\ log = <<>>
  /\ m_written_to_all_lsn = 1 /\ m_flushed_to_disk_lsn = 1
  /\ m_write_lsn = 1 /\ m_current_flush_lsn = 1 /\ m_n_pending_writes = 0
  /\ m_next_checkpoint_no = 2 /\ m_next_checkpoint_lsn = 1
  /\ m_last_checkpoint_lsn = 1 /\ m_n_pending_checkpoint_writes = 0
  /\ pool = [p \in Pages |-> Block(<<>>)]
  /\ m_bpages = <<>>
  /\ logfile = <<EndMark>> /\ logdisk = <<EndMark>>
  /\ file = [p \in Pages |-> Image(1, <<>>)] /\ disk = file
  /\ dbl = [i \in 1 .. DblSize |-> [page |-> NoPage, image |-> Torn]]
  /\ dbldisk = dbl
  /\ slots = [i \in {0, 1} |-> [no |-> i, lsn |-> 1]]
  /\ at = [t \in Threads |-> "idle"]
  /\ w = [t \in Threads |-> "none"]
  /\ arg = [t \in Threads |-> NoCall]
  /\ phase = "up" /\ crashes = 0 /\ acked = 0 /\ lapses = {}

-----------------------------------------------------------------------------
(* mtr_t::commit(): the records go to the log buffer and the pages to the
   flush list before the log mutex is released.  The mini-transaction has
   the pages x-latched, so none of them is being written. *)
NoteModification(s) ==
  LET start == m_lsn
      end   == m_lsn + Len(s)
  IN pool' = [p \in Pages |->
       IF \E i \in DOMAIN s : s[i].page = p
         THEN [recs   |-> ApplyRecords(pool[p].recs,
                                       Records(log \o s, p, start)),
               newest |-> end,
               oldest |-> IF pool[p].oldest = Clean THEN start
                                                    ELSE pool[p].oldest,
               io     |-> "none"]
         ELSE pool[p]]

Group(ps) ==
  [i \in DOMAIN ps |-> [page |-> ps[i], last |-> i = Len(ps), inc |-> crashes]]

(* reserve_and_open(), write_low(), close(): room in the log buffer is not
   modelled. *)
write_low(s) == log' = log \o s

Running ==
  /\ phase = "up" /\ crashes < MaxCrashes
  /\ lapses # {} => crashes + 1 < MaxCrashes

mtr_commit(t, ps) ==
  /\ Running /\ at[t] = "idle"
  /\ m_lsn + Len(ps) <= MaxLsn
  /\ \A i \in DOMAIN ps : pool[ps[i]].io = "none"
  /\ write_low(Group(ps))
  /\ NoteModification(Group(ps))

(* A mini-transaction that is not the end of a transaction. *)
MtrCommit(t, ps) ==
  /\ mtr_commit(t, ps)
  /\ UNCHANGED <<logVars, ckptVars, m_bpages, fileVars, threadVars, phase,
                 crashes, acked, lapses>>

(* Call write_up_to(lsn, wait, flush) and go on at where. *)
Call(t, where, lsn, flush, wait) ==
  /\ at'  = [at EXCEPT ![t] = where]
  /\ w'   = [w EXCEPT ![t] = "enter"]
  /\ arg' = [arg EXCEPT ![t] = [lsn |-> lsn, flush |-> flush, wait |-> wait]]

(* Trx::commit_off_kernel(): the mini-transaction of the commit, then the
   flush of the log that flush_log_at_trx_commit = 1 asks for. *)
TrxCommit(t, ps) ==
  /\ mtr_commit(t, ps)
  /\ Call(t, "ack", Len(log') + 1, TRUE, TRUE)
  /\ UNCHANGED <<logVars, ckptVars, m_bpages, fileVars, phase, crashes,
                 acked, lapses>>

(* The commit returns to the client. *)
Ack(t) ==
  /\ at[t] = "ack" /\ w[t] = "none"
  /\ acked' = Later(acked, arg[t].lsn - 1)
  /\ at'  = [at EXCEPT ![t] = "idle"]
  /\ arg' = [arg EXCEPT ![t] = NoCall]
  /\ UNCHANGED <<log, logVars, ckptVars, pool, m_bpages, fileVars, w, phase,
                 crashes, lapses>>

(* buffer_sync_in_background() and flush_margin(), which both do not wait.
   flush_margin() passes an uninitialized lsn unless the buffer is full and
   no write is running: any value.  Bound of the model: before the first
   crash. *)
WriteInBackground(lsn, flush) ==
  /\ Running /\ crashes = 0
  /\ at["background"] = "idle" /\ w["background"] = "none"
  /\ flush => lsn = m_lsn
  /\ Call("background", "idle", lsn, flush, FALSE)
  /\ UNCHANGED <<log, logVars, ckptVars, pool, m_bpages, fileVars, phase,
                 crashes, acked, lapses>>

-----------------------------------------------------------------------------
(* Log::write_up_to().  The events m_no_flush_event and m_one_flushed_event
   are reset and set together, when m_n_pending_writes changes.  A thread that
   will wait for one lets the mutex go and waits in one step: had the event
   been set in between it would go on as if woken. *)
Go(t, where) == w' = [w EXCEPT ![t] = where] /\ UNCHANGED arg

Return(t) ==
  /\ w'   = [w EXCEPT ![t] = "none"]
  /\ arg' = IF at[t] = "idle" THEN [arg EXCEPT ![t] = NoCall] ELSE arg

Enough(t) ==
  IF arg[t].flush THEN m_flushed_to_disk_lsn >= arg[t].lsn
                  ELSE m_written_to_all_lsn >= arg[t].lsn

(* What the running write covers. *)
WillDo(t) ==
  IF arg[t].flush THEN m_current_flush_lsn >= arg[t].lsn
                  ELSE m_write_lsn >= arg[t].lsn

NothingToDo(t) == ~arg[t].flush /\ m_written_to_all_lsn = m_lsn

WriteEnough(t) ==
  /\ w[t] = "enter" /\ Enough(t)
  /\ Return(t)
  /\ UNCHANGED <<log, logVars, ckptVars, pool, m_bpages, fileVars, at, phase,
                 crashes, acked, lapses>>

(* A write is running that does enough: wait for it, without a look at its
   outcome, or, with LOG_NO_WAIT, do not. *)
WriteJoin(t) ==
  /\ w[t] = "enter" /\ ~Enough(t)
  /\ m_n_pending_writes > 0 /\ WillDo(t)
  /\ IF arg[t].wait THEN Go(t, "joined") ELSE Return(t)
  /\ UNCHANGED <<log, logVars, ckptVars, pool, m_bpages, fileVars, at, phase,
                 crashes, acked, lapses>>

WriteRetry(t) ==
  /\ w[t] = "enter" /\ ~Enough(t)
  /\ m_n_pending_writes > 0 /\ ~WillDo(t)
  /\ Go(t, "asleep")
  /\ UNCHANGED <<log, logVars, ckptVars, pool, m_bpages, fileVars, at, phase,
                 crashes, acked, lapses>>

WriteNothing(t) ==
  /\ w[t] = "enter" /\ ~Enough(t)
  /\ m_n_pending_writes = 0 /\ NothingToDo(t)
  /\ Return(t)
  /\ UNCHANGED <<log, logVars, ckptVars, pool, m_bpages, fileVars, at, phase,
                 crashes, acked, lapses>>

(* The file after group_write_buf(): the records, the last block, which is
   never full, and what was there behind it. *)
Overwrite(old, new) ==
  new \o <<EndMark>> \o SubSeq(old, Len(new) + 2, Len(old))

WriteStart(t) ==
  /\ w[t] = "enter" /\ ~Enough(t)
  /\ m_n_pending_writes = 0 /\ ~NothingToDo(t)
  /\ m_n_pending_writes' = 1
  /\ m_write_lsn' = m_lsn
  /\ m_current_flush_lsn' = IF arg[t].flush THEN m_lsn ELSE m_current_flush_lsn
  /\ logfile' = Overwrite(logfile, log)
  /\ Go(t, IF arg[t].flush THEN "fsync" ELSE "complete")
  /\ UNCHANGED <<log, m_written_to_all_lsn, m_flushed_to_disk_lsn, ckptVars,
                 pool, m_bpages, logdisk, file, disk, dbl, dbldisk, slots, at,
                 phase, crashes, acked, lapses>>

(* Without the mutex. *)
WriteFsync(t) ==
  /\ w[t] = "fsync"
  /\ logdisk' = logfile
  /\ m_flushed_to_disk_lsn' = m_write_lsn
  /\ Go(t, "complete")
  /\ UNCHANGED <<log, m_written_to_all_lsn, m_write_lsn, m_current_flush_lsn,
                 m_n_pending_writes, ckptVars, pool, m_bpages, logfile, file,
                 disk, dbl, dbldisk, slots, at, phase, crashes, acked, lapses>>

(* Whoever sleeps on the event when it is set goes on. *)
Awake(x) == CASE x = "joined" -> "none" [] x = "asleep" -> "enter" [] OTHER -> x

(* group_check_flush_completion(), sys_check_flush_completion(),
   flush_do_unlocks(). *)
WriteComplete(t) ==
  /\ w[t] = "complete"
  /\ m_n_pending_writes' = 0
  /\ m_written_to_all_lsn' = m_write_lsn
  /\ w' = [u \in Threads |-> IF u = t THEN "none" ELSE Awake(w[u])]
  /\ arg' = [u \in Threads |->
       IF w'[u] = "none" /\ at[u] = "idle" THEN NoCall ELSE arg[u]]
  /\ UNCHANGED <<log, m_flushed_to_disk_lsn, m_write_lsn, m_current_flush_lsn,
                 ckptVars, pool, m_bpages, fileVars, at, phase, crashes,
                 acked, lapses>>

WriteUpTo(t) ==
  \/ WriteEnough(t) \/ WriteJoin(t) \/ WriteRetry(t) \/ WriteNothing(t)
  \/ WriteStart(t) \/ WriteFsync(t) \/ WriteComplete(t)

-----------------------------------------------------------------------------
(* Buf_flush::page(): the page is io-fixed and s-latched, the log flushed up
   to its newest modification. *)
SetIo(ps, io) ==
  pool' = [p \in Pages |-> IF p \in ps THEN [pool[p] EXCEPT !.io = io]
                                       ELSE pool[p]]

WithIo(io) == {p \in Pages : pool[p].io = io}

\* (Mutant: the log is written, not flushed, before the page.)
FlushPage_unflushed(p) ==
  /\ Running /\ at["flusher"] = "idle"
  /\ Len(m_bpages) < DblSize
  /\ pool[p].oldest # Clean /\ pool[p].io = "none"
  /\ SetIo({p}, "fixed")
  /\ Call("flusher", "post", pool[p].newest, FALSE, TRUE)
  /\ UNCHANGED <<log, logVars, ckptVars, m_bpages, fileVars, phase, crashes,
                 acked, lapses>>

FlushPage(p) ==
  /\ Running /\ at["flusher"] = "idle"
  /\ Len(m_bpages) < DblSize
  /\ pool[p].oldest # Clean /\ pool[p].io = "none"
  /\ SetIo({p}, "fixed")
  /\ Call("flusher", "post", pool[p].newest, TRUE, TRUE)
  /\ UNCHANGED <<log, logVars, ckptVars, m_bpages, fileVars, phase, crashes,
                 acked, lapses>>

(* The rest of write_block_low(): init_for_writing() and
   post_to_doublewrite_buf(), which writes the buffer when it is full. *)
PostPage(p) ==
  /\ at["flusher"] = "post" /\ w["flusher"] = "none"
  /\ pool[p].io = "fixed"
  /\ m_bpages' = Append(m_bpages, p)
  /\ SetIo({p}, "posted")
  /\ at' = [at EXCEPT !["flusher"] =
                        IF Len(m_bpages') = DblSize THEN "dbl_write" ELSE "idle"]
  /\ arg' = [arg EXCEPT !["flusher"] = NoCall]
  /\ UNCHANGED <<log, logVars, ckptVars, fileVars, w, phase, crashes, acked,
                 lapses>>

(* Buf_flush::buffered_writes(): the buffer is full or the batch ends. *)
DblWrite ==
  /\ at["flusher"] \in {"idle", "dbl_write"} /\ m_bpages # <<>>
  /\ dbl' = [i \in 1 .. DblSize |->
       IF i <= Len(m_bpages)
         THEN [page |-> m_bpages[i], image |-> FrameImage(m_bpages[i])]
         ELSE dbl[i]]
  /\ at' = [at EXCEPT !["flusher"] = "dbl_sync"]
  /\ UNCHANGED <<log, logVars, ckptVars, pool, m_bpages, logfile, logdisk,
                 file, disk, dbldisk, slots, w, arg, phase, crashes, acked,
                 lapses>>

\* (Mutant: the pages are written before the doublewrite buffer is synced.)
DblSync_missing ==
  /\ at["flusher"] = "dbl_sync"
  /\ SetIo(WithIo("posted"), "write")
  /\ at' = [at EXCEPT !["flusher"] = "wait"]
  /\ UNCHANGED <<log, logVars, ckptVars, m_bpages, fileVars, w, arg, phase,
                 crashes, acked, lapses>>

(* flush(TRX_SYS_SPACE), and the asynchronous writes of all pages. *)
DblSync ==
  /\ at["flusher"] = "dbl_sync"
  /\ dbldisk' = dbl
  /\ SetIo(WithIo("posted"), "write")
  /\ at' = [at EXCEPT !["flusher"] = "wait"]
  /\ UNCHANGED <<log, logVars, ckptVars, m_bpages, logfile, logdisk, file,
                 disk, dbl, slots, w, arg, phase, crashes, acked, lapses>>

(* A write of a page is done: Buf_page::io_complete(), write_complete(). *)
PageIoComplete(p) ==
  /\ pool[p].io = "write"
  /\ file' = [file EXCEPT ![p] = FrameImage(p)]
  /\ pool' = [pool EXCEPT ![p].io = "none", ![p].oldest = Clean]
  /\ UNCHANGED <<log, logVars, ckptVars, m_bpages, logfile, logdisk, disk, dbl,
                 dbldisk, slots, threadVars, phase, crashes, acked, lapses>>

(* fil->flush_file_spaces(): fsync of all data files.  The doublewrite area
   is in one of them. *)
SyncFiles == disk' = file /\ dbldisk' = dbl

(* wait_for_pending_ops().  A reaper that finds no slot reserved sets the
   event m_is_empty later, by then perhaps for a write that was submitted
   since: the wait then returns with page writes running.  This takes a batch
   of two pages, whose slots are reserved one at a time; the only slot of a
   batch of one is the one whose event the wait is for. *)
WaitForPendingOps ==
  \/ WithIo("write") = {} /\ UNCHANGED lapses
  \/ /\ WithIo("write") # {} /\ DblSize > 1
     /\ lapses' = lapses \cup {"early_return"}

(* sync_datafiles(): wait_for_pending_ops(), then fsync; the doublewrite
   buffer is then used again. *)
SyncDatafiles ==
  /\ at["flusher"] = "wait" /\ WaitForPendingOps
  /\ SyncFiles
  /\ m_bpages' = <<>>
  /\ at' = [at EXCEPT !["flusher"] = "idle"]
  /\ UNCHANGED <<log, logVars, ckptVars, pool, logfile, logdisk, file, dbl,
                 slots, w, arg, phase, crashes, acked>>

-----------------------------------------------------------------------------
(* Log::checkpoint(), with write_always FALSE and without waiting for the
   write of the checkpoint. *)
buf_pool_get_oldest_modification ==
  LET dirty == {pool[p].oldest : p \in Pages} \ {Clean}
  IN IF dirty = {} THEN m_lsn
                   ELSE CHOOSE l \in dirty : \A k \in dirty : l <= k

CheckpointSync ==
  /\ Running /\ at["checkpointer"] = "idle"
  /\ SyncFiles
  /\ at' = [at EXCEPT !["checkpointer"] = "oldest"]
  /\ UNCHANGED <<log, logVars, ckptVars, pool, m_bpages, logfile, logdisk,
                 file, dbl, slots, w, arg, phase, crashes, acked, lapses>>

CheckpointOldest ==
  /\ at["checkpointer"] = "oldest"
  /\ Call("checkpointer", "write", buf_pool_get_oldest_modification, TRUE, TRUE)
  /\ lapses' = lapses \cup {l \in {"checkpoint"} : file # disk}
  /\ UNCHANGED <<log, logVars, ckptVars, pool, m_bpages, fileVars, phase,
                 crashes, acked>>

\* (Mutant: a checkpoint that is being written is not looked at.)
CheckpointWrite_unchecked ==
  LET lsn == arg["checkpointer"].lsn
  IN /\ at["checkpointer"] = "write" /\ w["checkpointer"] = "none"
     /\ IF m_last_checkpoint_lsn >= lsn
          THEN UNCHANGED <<m_next_checkpoint_lsn,
                           m_n_pending_checkpoint_writes>>
          ELSE /\ m_next_checkpoint_lsn' = lsn
               /\ m_n_pending_checkpoint_writes' = m_n_pending_checkpoint_writes + 1
     /\ at'  = [at EXCEPT !["checkpointer"] = "idle"]
     /\ arg' = [arg EXCEPT !["checkpointer"] = NoCall]
     /\ UNCHANGED <<log, logVars, m_next_checkpoint_no, m_last_checkpoint_lsn,
                    pool, m_bpages, fileVars, w, phase, crashes, acked, lapses>>

CheckpointWrite ==
  LET lsn == arg["checkpointer"].lsn
  IN /\ at["checkpointer"] = "write" /\ w["checkpointer"] = "none"
     /\ IF m_last_checkpoint_lsn >= lsn \/ m_n_pending_checkpoint_writes > 0
          THEN UNCHANGED <<m_next_checkpoint_lsn,
                           m_n_pending_checkpoint_writes>>
          ELSE /\ m_next_checkpoint_lsn' = lsn
               /\ m_n_pending_checkpoint_writes' = 1
     /\ at'  = [at EXCEPT !["checkpointer"] = "idle"]
     /\ arg' = [arg EXCEPT !["checkpointer"] = NoCall]
     /\ UNCHANGED <<log, logVars, m_next_checkpoint_no, m_last_checkpoint_lsn,
                    pool, m_bpages, fileVars, w, phase, crashes, acked, lapses>>

(* group_checkpoint(): the two places of the header take turns. *)
NewCheckpoint == [no |-> m_next_checkpoint_no, lsn |-> m_next_checkpoint_lsn]
WriteSlot(info) == [slots EXCEPT ![m_next_checkpoint_no % 2] = info]

(* Log::io_complete(): the checkpoint is written; fsync, then
   complete_checkpoint(). *)
CheckpointIoComplete ==
  /\ m_n_pending_checkpoint_writes = 1
  /\ slots' = WriteSlot(NewCheckpoint)
  /\ logdisk' = logfile
  /\ m_n_pending_checkpoint_writes' = 0
  /\ m_next_checkpoint_no' = m_next_checkpoint_no + 1
  /\ m_last_checkpoint_lsn' = m_next_checkpoint_lsn
  /\ UNCHANGED <<log, logVars, m_next_checkpoint_lsn, pool, m_bpages, logfile,
                 file, disk, dbl, dbldisk, threadVars, phase, crashes, acked,
                 lapses>>

-----------------------------------------------------------------------------
(* The process ends.  Memory is lost; what was being written may or may not
   have reached the file. *)
Forget ==
  /\ m_written_to_all_lsn' = 0 /\ m_flushed_to_disk_lsn' = 0
  /\ m_write_lsn' = 0 /\ m_current_flush_lsn' = 0 /\ m_n_pending_writes' = 0
  /\ m_next_checkpoint_no' = 0 /\ m_next_checkpoint_lsn' = 0
  /\ m_last_checkpoint_lsn' = 0 /\ m_n_pending_checkpoint_writes' = 0
  /\ pool' = [p \in Pages |-> Block(<<>>)]
  /\ m_bpages' = <<>>
  /\ at'  = [t \in Threads |-> "idle"]
  /\ w'   = [t \in Threads |-> "none"]
  /\ arg' = [t \in Threads |-> NoCall]
  /\ phase' = "down"
  /\ crashes' = crashes + 1
  /\ UNCHANGED <<log, acked, lapses>>

MayCrash(fault) == fault \in Faults /\ phase # "fatal" /\ crashes < MaxCrashes

InFile(p) == {file[p]} \cup
             (IF pool[p].io = "write" THEN {FrameImage(p)} ELSE {})

CheckpointOutcomes(torn) ==
  {slots} \cup (IF m_n_pending_checkpoint_writes = 1
                  THEN {WriteSlot(info) : info \in {NewCheckpoint} \cup torn}
                  ELSE {})

(* One outcome of each part. *)
OneOfEach(outcomes) ==
  {f \in [DOMAIN outcomes -> UNION {outcomes[i] : i \in DOMAIN outcomes}] :
     \A i \in DOMAIN outcomes : f[i] \in outcomes[i]}

(* The process is killed: the operating system still has what was written. *)
Kill ==
  /\ MayCrash("kill")
  /\ file' \in OneOfEach([p \in Pages |-> InFile(p)])
  /\ slots' \in CheckpointOutcomes({})
  /\ UNCHANGED <<logfile, logdisk, disk, dbl, dbldisk>>
  /\ Forget

(* The power fails: of what was written and not synced, each page and each
   checkpoint may be on disk, or not, or in part.  Of the log, the blocks up
   to some place are: that the disk keeps the order of the log's blocks is an
   assumption, as recovery takes whatever block has the number and the
   checksum that it expects. *)
OnDisk(synced, written, torn) ==
  IF written = {synced} THEN written ELSE {synced, torn} \cup written

PowerFailure ==
  /\ MayCrash("power")
  /\ logfile' \in {SubSeq(logfile, 1, n) \o SubSeq(logdisk, n + 1, Len(logdisk)) :
                    n \in 0 .. Len(logfile)}
  /\ logdisk' = logfile'
  /\ file' \in OneOfEach([p \in Pages |-> OnDisk(disk[p], InFile(p), Torn)])
  /\ disk' = file'
  /\ dbl' \in OneOfEach([i \in 1 .. DblSize |->
              OnDisk(dbldisk[i], {dbl[i]}, [dbl[i] EXCEPT !.image = Torn])])
  /\ dbldisk' = dbl'
  /\ slots' \in CheckpointOutcomes({BadSlot})
  /\ Forget

-----------------------------------------------------------------------------
(* DBLWR::recover_pages(): a torn page is restored from the first copy in
   the doublewrite area; a torn copy too is fatal. *)
CopiesOf(p) == {i \in 1 .. DblSize : dbl[i].page = p}

Restored(p) ==
  IF file[p] = Torn /\ CopiesOf(p) # {}
    THEN dbl[CHOOSE i \in CopiesOf(p) : \A j \in CopiesOf(p) : i <= j].image
    ELSE file[p]

RecoverPages ==
  /\ phase = "down"
  /\ file' = [p \in Pages |-> Restored(p)]
  /\ disk' = file' /\ dbldisk' = dbl
  /\ phase' = IF \E p \in Pages : file'[p] = Torn THEN "fatal" ELSE "scan"
  /\ UNCHANGED <<log, logVars, ckptVars, pool, m_bpages, logfile, logdisk,
                 dbl, slots, threadVars, crashes, acked, lapses>>

(* recv_find_max_checkpoint(). *)
Consistent == {i \in {0, 1} : slots[i] # BadSlot}
MaxCheckpoint ==
  slots[CHOOSE i \in Consistent : \A j \in Consistent : slots[j].no <= slots[i].no]

(* recv_scan_log_recs() and recv_parse_log_recs(): the blocks from the
   checkpoint up to the first that is not full; of their records, those of
   complete groups. *)
Scanned(from) ==
  LET stops == {i \in from .. Len(logfile) + 1 :
                  i > Len(logfile) \/ logfile[i] = EndMark}
  IN (CHOOSE i \in stops : \A j \in stops : i <= j) - 1

\* (Mutant: the records of an incomplete group are recovered too.)
RecoveredLsn_incomplete(from) == Scanned(from) + 1

RecoveredLsn(from) ==
  LET ends == {i \in from .. Scanned(from) : logfile[i].last}
  IN IF ends = {} THEN from ELSE 1 + CHOOSE i \in ends : \A j \in ends : i >= j

(* recv_recovery_from_checkpoint_start(), up to recv_synchronize_groups(),
   which writes the checkpoint once more, in the other place, and waits. *)
RecvScan ==
  /\ phase = "scan"
  /\ IF Consistent = {} \/ MaxCheckpoint.lsn > Len(logfile)
       THEN /\ phase' = "fatal"
            /\ UNCHANGED <<log, ckptVars>>
       ELSE /\ phase' = "synchronize"
            /\ log' = SubSeq(logfile, 1, RecoveredLsn(MaxCheckpoint.lsn) - 1)
            /\ m_next_checkpoint_lsn' = MaxCheckpoint.lsn
            /\ m_next_checkpoint_no' = MaxCheckpoint.no + 1
            /\ m_n_pending_checkpoint_writes' = 1
            /\ UNCHANGED m_last_checkpoint_lsn
  /\ UNCHANGED <<logVars, pool, m_bpages, fileVars, threadVars, crashes,
                 acked, lapses>>

(* recv_parse_or_apply_log_rec_body() goes on from a MLOG_REC_CLUST_DELETE_MARK
   to the case of MLOG_REC_SEC_DELETE_MARK, which takes three bytes more: the
   scan fails an assertion, finds the log corrupt or cuts it off.  A record is
   opaque here, so any that is scanned may be one; the model ends there. *)
RecvMisread ==
  /\ phase = "scan" /\ Consistent # {} /\ MaxCheckpoint.lsn <= Len(logfile)
  /\ Scanned(MaxCheckpoint.lsn) >= MaxCheckpoint.lsn
  /\ phase' = "fatal" /\ lapses' = lapses \cup {"misread"}
  /\ UNCHANGED <<log, logVars, ckptVars, pool, m_bpages, fileVars, threadVars,
                 crashes, acked>>

\* (Mutant: the record at the page's lsn is taken for applied.)
Recovered_later(p) ==
  LET todo == Records(log, p, Later(m_last_checkpoint_lsn, file[p].lsn + 1))
  IN IF todo = <<>> THEN Block(file[p].recs)
     ELSE [recs   |-> ApplyRecords(file[p].recs, todo),
           newest |-> todo[Len(todo)][1] + 1,
           oldest |-> todo[1][1],
           io     |-> "none"]

(* recv_recover_page(): the records that start at or after the page's lsn. *)
Recovered(p) ==
  LET todo == Records(log, p, Later(m_last_checkpoint_lsn, file[p].lsn))
  IN IF todo = <<>> THEN Block(file[p].recs)
     ELSE [recs   |-> ApplyRecords(file[p].recs, todo),
           newest |-> todo[Len(todo)][1] + 1,
           oldest |-> todo[1][1],
           io     |-> "none"]

(* The rest: m_next_checkpoint_no, which complete_checkpoint() incremented,
   is set again; m_flushed_to_disk_lsn is not. *)
RecvApply ==
  /\ phase = "synchronize" /\ m_n_pending_checkpoint_writes = 0
  /\ m_written_to_all_lsn' = m_lsn
  /\ m_next_checkpoint_no' = m_next_checkpoint_no - 1
  /\ pool' = [p \in Pages |-> Recovered(p)]
  /\ phase' = "up"
  /\ UNCHANGED <<log, m_flushed_to_disk_lsn, m_write_lsn, m_current_flush_lsn,
                 m_n_pending_writes, m_next_checkpoint_lsn,
                 m_last_checkpoint_lsn, m_n_pending_checkpoint_writes,
                 m_bpages, fileVars, threadVars, crashes, acked, lapses>>

-----------------------------------------------------------------------------
PageLists == UNION {[1 .. n -> Pages] : n \in 1 .. MtrLen}

Next ==
  \/ \E t \in Clients, ps \in PageLists : MtrCommit(t, ps) \/ TrxCommit(t, ps)
  \/ \E t \in Clients : Ack(t)
  \/ \E l \in GarbageLsns \cup {m_lsn}, flush \in BOOLEAN :
       WriteInBackground(l, flush)
  \/ \E t \in Threads : WriteUpTo(t)
  \/ \E p \in Pages : FlushPage(p) \/ PostPage(p) \/ PageIoComplete(p)
  \/ DblWrite \/ DblSync \/ SyncDatafiles
  \/ CheckpointSync \/ CheckpointOldest \/ CheckpointWrite
  \/ CheckpointIoComplete
  \/ Kill \/ PowerFailure
  \/ RecoverPages \/ RecvScan \/ RecvMisread \/ RecvApply

Spec == Init /\ [][Next]_vars

-----------------------------------------------------------------------------
(* Type invariant. *)
TypeOK ==
  /\ \A i \in DOMAIN log : log[i].page \in Pages /\ log[i].inc \in 0 .. MaxCrashes
  /\ m_n_pending_writes \in {0, 1}
  /\ m_n_pending_checkpoint_writes \in {0, 1}
  /\ \A p \in Pages :
       /\ pool[p].io \in {"none", "fixed", "posted", "write"}
       /\ pool[p].oldest < MaxLsn /\ pool[p].newest <= MaxLsn
  /\ Len(m_bpages) <= DblSize
  /\ \A t \in Threads : w[t] \in {"none", "enter", "fsync", "complete",
                                  "joined", "asleep"}
  /\ phase \in {"up", "down", "scan", "synchronize", "fatal"}
  /\ lapses \subseteq Lapses

(* Recovery does not stop: a torn page has a good copy in the doublewrite
   area, and the log reaches the checkpoint, unless the area was used again
   under a running page write, or a record is misread. *)
RecoveryPossible ==
  phase = "fatal" => lapses \cap {"early_return", "misread"} # {}

(* Write-ahead logging: an image in a data file or in the doublewrite area,
   which a crash at this moment would leave behind, has only records that
   the log on disk has. *)
OnLogDisk(image) ==
  image = Torn \/
  \A i \in DOMAIN image.recs :
    LET r == image.recs[i]
    IN /\ r[1] <= Len(logdisk) /\ logdisk[r[1]] # EndMark
       /\ logdisk[r[1]].inc = r[2] /\ logdisk[r[1]].page = r[3]

WriteAhead ==
  /\ \A p \in Pages : OnLogDisk(file[p]) /\ OnLogDisk(disk[p])
  /\ \A i \in 1 .. DblSize : OnLogDisk(dbl[i].image) /\ OnLogDisk(dbldisk[i].image)

(* The database is what its log says, also after recoveries: every page has
   every record of the log, once and in order, unless a checkpoint was made
   in the window that RecoveryIsComplete is about, or the doublewrite area
   was used again under a running page write. *)
PagesMatchLog ==
  phase = "up" /\ lapses = {} => \A p \in Pages : pool[p].recs = Records(log, p, 1)

(* The same without the exception: a page whose m_oldest_modification is zero
   has all its modifications on disk, so a checkpoint may pass them and
   recovery from it brings back every page. *)
RecoveryIsComplete ==
  phase = "up" => \A p \in Pages : pool[p].recs = Records(log, p, 1)

Durable == INSTANCE DurableLog

(* The log keeps what was acknowledged and loses whole mini-transactions
   only. *)
LogIsDurable == Durable!Spec
=============================================================================
